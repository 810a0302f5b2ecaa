------------------------ MODULE BridgeProtocolProofs ------------------------
(***************************************************************************)
(* What the bridge's state machine guarantees for every set of messages    *)
(* and relayers and every policy _validate_policy accepts.                 *)
(***************************************************************************)
EXTENDS BridgeProtocol, FiniteSetTheorems, TLAPS

(***************************************************************************)
(* NoReplay is not inductive: that a known message's identities are in the *)
(* sets observe looks them up in is.                                       *)
(***************************************************************************)
Remembered ==
  \A m \in Message : Known(m) =>
    SourceText(m) \in transactions /\ NonceKey(m) \in nonces

IInv == /\ TypeOK
        /\ Remembered /\ NoReplay
        /\ ExecutionIsAttested /\ NoneLeftPending

\* No attestation, no quorum: a record just observed is not complete.
LEMMA FreshIncomplete == ~Complete(0, {})
  BY PolicyAssumption DEF Complete

\* Before the first observation nothing is recorded or used.
LEMMA InitInvariant == Init => IInv
<1> SUFFICES ASSUME Init PROVE IInv
  OBVIOUS
<1>1. TypeOK
  BY DEF Init, TypeOK, Unobserved, States, Terminal
<1>2. Remembered /\ NoReplay /\ ExecutionIsAttested /\ NoneLeftPending
  BY DEF Init, Remembered, NoReplay, ExecutionIsAttested, NoneLeftPending,
         Known, Unobserved
<1> QED
  BY <1>1, <1>2 DEF IInv

(***************************************************************************)
(* What every step but Observe and SetPaused does: it gives one known      *)
(* message a new record that is still known, typed, attested as its state  *)
(* demands and not left pending when complete.                             *)
(***************************************************************************)
Fitting(r) ==
  /\ r \in [state : States \ {"NONE"}, confirmations : Nat,
            attestations : SUBSET Relayer]
  /\ r.state \in {"ATTESTED", "EXECUTION_READY", "EXECUTED"} =>
       Complete(r.confirmations, r.attestations)
  /\ r.state \in {"OBSERVED", "FINALITY_PENDING"} =>
       ~Complete(r.confirmations, r.attestations)

LEMMA UpdateInvariant ==
  ASSUME IInv, NEW m \in Message, NEW r, Fitting(r), Put(m, r), Known(m),
         executed' \in Nat, UNCHANGED <<transactions, nonces, paused>>
  PROVE  IInv'
<1>1. TypeOK'
  BY DEF IInv, TypeOK, Put, Fitting, NonceKey, SourceText
<1>2. /\ records' = [records EXCEPT ![m] = r]
      /\ \A k \in Message \ {m} : records'[k] = records[k]
      /\ records'[m] = r
  BY DEF IInv, TypeOK, Put
<1>3. \A k \in Message : Known(k)' <=> Known(k)
  BY <1>2 DEF Known, Fitting
<1>4. Remembered'
  BY <1>3 DEF IInv, Remembered, NonceKey, SourceText
<1>5. NoReplay'
  BY <1>3 DEF IInv, NoReplay, NonceKey
<1>6. ExecutionIsAttested' /\ NoneLeftPending'
  BY <1>2 DEF IInv, ExecutionIsAttested, NoneLeftPending, Fitting, Complete
<1> QED
  BY <1>1, <1>4, <1>5, <1>6 DEF IInv

\* Every call keeps the invariant.
LEMMA StepInvariant == IInv /\ [Next]_vars => IInv'
<1> SUFFICES ASSUME IInv, [Next]_vars PROVE IInv'
  OBVIOUS
<1> USE DEF States, Terminal
<1>typed. \A m \in Message :
            records[m] \in [state : States, confirmations : Nat,
                            attestations : SUBSET Relayer]
  BY DEF IInv, TypeOK
<1>1. CASE UNCHANGED vars
  BY <1>1 DEF vars, IInv, TypeOK, Remembered, NoReplay, ExecutionIsAttested,
              NoneLeftPending, Known, NonceKey, SourceText, Complete
<1>2. CASE SetPaused
  BY <1>2 DEF SetPaused, IInv, TypeOK, Remembered, NoReplay,
              ExecutionIsAttested, NoneLeftPending, Known, NonceKey, SourceText, Complete
<1>3. ASSUME NEW m \in Message, Observe(m) PROVE IInv'
  <2>1. /\ \A k \in Message \ {m} : records'[k] = records[k]
        /\ records'[m] = Observed
    BY <1>3 DEF Observe, Put, IInv, TypeOK
  <2>2. TypeOK'
    BY <1>3 DEF Observe, Put, IInv, TypeOK, Observed, Unobserved, NonceKey,
                     SourceText
  <2>3. \A k \in Message : Known(k)' => Known(k) \/ k = m
    BY <2>1 DEF Known
  <2>4. Remembered'
    BY <1>3, <2>3 DEF Observe, IInv, Remembered, NonceKey, SourceText
  <2>5. NoReplay'
    BY <1>3, <2>3 DEF Observe, IInv, Remembered, NoReplay, NonceKey,
                            SourceText
  <2>6. ExecutionIsAttested' /\ NoneLeftPending'
    BY <2>1, FreshIncomplete
    DEF IInv, ExecutionIsAttested, NoneLeftPending, Observed, Unobserved,
        Complete
  <2> QED
    BY <2>2, <2>4, <2>5, <2>6 DEF IInv
<1>4. ASSUME NEW m \in Message, NEW c \in 0 .. MaxConfirmations,
             ApplyConfirmations(m, c)
      PROVE  IInv'
  <2> DEFINE complete == Complete(c, records[m].attestations)
             r == [records[m] EXCEPT !.confirmations = c,
                     !.state = IF complete THEN "ATTESTED"
                                           ELSE "FINALITY_PENDING"]
  <2>1. Put(m, r) /\ Known(m) /\ UNCHANGED <<transactions, nonces, executed, paused>>
    BY <1>4 DEF ApplyConfirmations, Known
  <2>2. c \in Nat
    BY PolicyAssumption
  <2>3. Fitting(r)
    BY <1>typed, <2>2 DEF Fitting
  <2> QED
    BY <2>1, <2>3, UpdateInvariant DEF IInv, TypeOK
<1>5. ASSUME NEW m \in Message, NEW relayer \in Relayer, Attest(m, relayer)
      PROVE  IInv'
  <2> DEFINE attestations == records[m].attestations \cup {relayer}
             complete == Complete(records[m].confirmations, attestations)
             r == [records[m] EXCEPT !.attestations = attestations,
                     !.state = IF complete THEN "ATTESTED" ELSE @]
  <2>1. Put(m, r) /\ Known(m) /\ UNCHANGED <<transactions, nonces, executed, paused>>
    BY <1>5 DEF Attest
  <2>2. records[m].state \notin Terminal \cup {"NONE"}
    BY <1>5 DEF Attest, Known
  <2>3. CASE complete
    <3>1. Fitting(r)
      BY <1>typed, <2>2, <2>3 DEF Fitting
    <3> QED
      BY <2>1, <3>1, UpdateInvariant DEF IInv, TypeOK
  <2>4. CASE ~complete
    <3>1. Complete(records[m].confirmations, records[m].attestations) => complete
      <4>1. IsFiniteSet(attestations)
        BY <1>typed, PolicyAssumption, FS_Subset
      <4>2. /\ Cardinality(records[m].attestations) <= Cardinality(attestations)
            /\ Cardinality(attestations) \in Nat
            /\ Cardinality(records[m].attestations) \in Nat
        BY <4>1, FS_Subset, FS_CardinalityType
      <4> QED
        BY <4>2, PolicyAssumption DEF Complete
    <3>2. records[m].state \in {"OBSERVED", "FINALITY_PENDING"}
      BY <1>typed, <2>2, <2>4, <3>1 DEF IInv, ExecutionIsAttested
    <3>3. Fitting(r)
      BY <1>typed, <2>4, <3>2 DEF Fitting
    <3> QED
      BY <2>1, <3>3, UpdateInvariant DEF IInv, TypeOK
  <2> QED
    BY <2>3, <2>4
<1>6. ASSUME NEW m \in Message, PrepareExecution(m) PROVE IInv'
  <2> DEFINE r == [records[m] EXCEPT !.state = "EXECUTION_READY"]
  <2>1. Put(m, r) /\ Known(m) /\ UNCHANGED <<transactions, nonces, executed, paused>>
    BY <1>6 DEF PrepareExecution, Known
  <2>2. Fitting(r)
    BY <1>typed, <1>6 DEF Fitting, PrepareExecution, IInv, ExecutionIsAttested
  <2> QED
    BY <2>1, <2>2, UpdateInvariant DEF IInv, TypeOK
<1>7. ASSUME NEW m \in Message, MarkExecuted(m) PROVE IInv'
  <2> DEFINE r == [records[m] EXCEPT !.state = "EXECUTED"]
  <2>1. Put(m, r) /\ Known(m) /\ UNCHANGED <<transactions, nonces, paused>>
    BY <1>7 DEF MarkExecuted, Known
  <2>2. Fitting(r)
    BY <1>typed, <1>7 DEF Fitting, MarkExecuted, IInv, ExecutionIsAttested
  <2>3. executed' \in Nat
    BY <1>7, MessageAssumption DEF MarkExecuted, IInv, TypeOK
  <2> QED
    BY <2>1, <2>2, <2>3, UpdateInvariant
<1>8. ASSUME NEW m \in Message, Reject(m) PROVE IInv'
  <2> DEFINE r == [records[m] EXCEPT !.state = "REJECTED"]
  <2>1. Put(m, r) /\ Known(m) /\ UNCHANGED <<transactions, nonces, executed, paused>>
    BY <1>8 DEF Reject
  <2>2. Fitting(r)
    BY <1>typed DEF Fitting
  <2> QED
    BY <2>1, <2>2, UpdateInvariant DEF IInv, TypeOK
<1> QED
  BY <1>1, <1>2, <1>3, <1>4, <1>5, <1>6, <1>7, <1>8 DEF Next, MessageNext

(***************************************************************************)
(* The inductive invariant holds in every reachable state.                 *)
(***************************************************************************)
THEOREM Invariance == Spec => []IInv
  BY InitInvariant, StepInvariant, PTL DEF Spec

(***************************************************************************)
(* Every state is well typed: used transactions and nonces are those of    *)
(* messages, and no record leaves the states of the engine.                *)
(***************************************************************************)
THEOREM TypeCorrect == Spec => []TypeOK
<1>1. IInv => TypeOK
  BY DEF IInv
<1> QED
  BY <1>1, Invariance, PTL

(***************************************************************************)
(* Only messages final on their source and attested by a threshold are     *)
(* prepared or executed, whatever the order of the calls.                  *)
(***************************************************************************)
THEOREM ExecutionIsAttestedHolds == Spec => []ExecutionIsAttested
<1>1. IInv => ExecutionIsAttested
  BY DEF IInv
<1> QED
  BY <1>1, Invariance, PTL

(***************************************************************************)
(* No record that has all it needs is left waiting for another call.       *)
(***************************************************************************)
THEOREM NoneLeftPendingHolds == Spec => []NoneLeftPending
<1>1. IInv => NoneLeftPending
  BY DEF IInv
<1> QED
  BY <1>1, Invariance, PTL

(***************************************************************************)
(* No two messages with one source network and nonce, or with one source   *)
(* transaction in one spelling, are ever both taken.                       *)
(***************************************************************************)
THEOREM NoReplayHolds == Spec => []NoReplay
<1>1. IInv => NoReplay
  BY DEF IInv
<1> QED
  BY <1>1, Invariance, PTL
=============================================================================

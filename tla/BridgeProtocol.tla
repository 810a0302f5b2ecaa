--------------------------- MODULE BridgeProtocol ---------------------------
(***************************************************************************)
(* The bridge's message state machine (bridge_protocol.py): a message is   *)
(* observed once, becomes final and attested in either order, is prepared  *)
(* and executed, or is rejected.  Observers, relayers, executors and the   *)
(* operator call it in any order; it is in memory and has no lock of its   *)
(* own, so an action is one call.                                          *)
(***************************************************************************)
EXTENDS Integers, FiniteSets

CONSTANTS
  Message,                \* messages that pass _validate_message
  Relayer,
  Threshold,
  RequiredConfirmations,
  PerTransactionLimit,
  DailyLimit,
  MaxConfirmations        \* bound: no larger count is reported

\* What the engine tells apart in a message.  A source transaction may be
\* spelled with or without 0x and in either case: all spellings are valid.
ASSUME MessageAssumption ==
  /\ IsFiniteSet(Message)
  /\ \A m \in Message : /\ m.transaction \in Nat
                        /\ m.spelling \in Nat
                        /\ m.network \in Nat
                        /\ m.nonce \in Nat
                        /\ m.value \in Nat \ {0}
\* _validate_policy.
ASSUME PolicyAssumption ==
  /\ IsFiniteSet(Relayer)
  /\ Cardinality(Relayer) >= 3
  /\ Threshold \in 2 .. Cardinality(Relayer)
  /\ RequiredConfirmations \in Nat \ {0}
  /\ DailyLimit \in Nat
  /\ PerTransactionLimit \in 1 .. DailyLimit
  /\ MaxConfirmations \in Nat

VARIABLES
  records,       \* the record of each message, Unobserved before observe
  transactions,  \* used_source_transactions: texts, not transactions
  nonces,        \* used_nonces: pairs of source network and nonce
  executed,      \* executed_value
  paused

vars == <<records, transactions, nonces, executed, paused>>
----------------------------------------------------------------------------
Unobserved == [state |-> "NONE", confirmations |-> 0, attestations |-> {}]
Observed   == [Unobserved EXCEPT !.state = "OBSERVED"]

Init ==
  /\ records = [m \in Message |-> Unobserved]
  /\ transactions = {}
  /\ nonces = {}
  /\ executed = 0
  /\ paused = TRUE

Known(m) == records[m].state # "NONE"

Put(m, record) == records' = [records EXCEPT ![m] = record]

\* source_transaction as it is compared: the text the message carries.
SourceText(m) == <<m.transaction, m.spelling>>

NonceKey(m) == <<m.network, m.nonce>>

\* Mutant: the nonce is not looked up.
ObserveTransactionOnly(m) ==
  /\ ~Known(m)
  /\ SourceText(m) \notin transactions
  /\ Put(m, Observed)
  /\ transactions' = transactions \cup {SourceText(m)}
  /\ nonces' = nonces \cup {NonceKey(m)}
  /\ UNCHANGED <<executed, paused>>

Observe(m) ==
  /\ ~Known(m)
  /\ SourceText(m) \notin transactions
  /\ NonceKey(m) \notin nonces
  /\ Put(m, Observed)
  /\ transactions' = transactions \cup {SourceText(m)}
  /\ nonces' = nonces \cup {NonceKey(m)}
  /\ UNCHANGED <<executed, paused>>

Complete(confirmations, attestations) ==
  /\ confirmations >= RequiredConfirmations
  /\ Cardinality(attestations) >= Threshold

\* A record's confirmations may only grow; the state follows.
ApplyConfirmations(m, confirmations) ==
  LET r == records[m]
  IN  /\ r.state \in {"OBSERVED", "FINALITY_PENDING"}
      /\ confirmations >= r.confirmations
      /\ Put(m, [r EXCEPT !.confirmations = confirmations,
                          !.state = IF Complete(confirmations, r.attestations)
                                      THEN "ATTESTED" ELSE "FINALITY_PENDING"])
      /\ UNCHANGED <<transactions, nonces, executed, paused>>

Terminal == {"EXECUTED", "REJECTED"}

\* Mutant: an attestation waits for the next confirmation to take effect.
AttestLater(m, relayer) ==
  LET r == records[m]
  IN  /\ Known(m)
      /\ r.state \notin Terminal
      /\ relayer \notin r.attestations
      /\ Put(m, [r EXCEPT !.attestations = @ \cup {relayer}])
      /\ UNCHANGED <<transactions, nonces, executed, paused>>

\* Mutant: the threshold alone attests, whatever the finality.
AttestNotFinal(m, relayer) ==
  LET r == records[m]
      attestations == r.attestations \cup {relayer}
  IN  /\ Known(m)
      /\ r.state \notin Terminal
      /\ relayer \notin r.attestations
      /\ Put(m, [r EXCEPT !.attestations = attestations,
                          !.state = IF Cardinality(attestations) >= Threshold
                                      THEN "ATTESTED" ELSE @])
      /\ UNCHANGED <<transactions, nonces, executed, paused>>

\* A late attestation of a prepared record sends it back to ATTESTED.
Attest(m, relayer) ==
  LET r == records[m]
      attestations == r.attestations \cup {relayer}
  IN  /\ Known(m)
      /\ r.state \notin Terminal
      /\ relayer \notin r.attestations
      /\ Put(m, [r EXCEPT !.attestations = attestations,
                          !.state = IF Complete(r.confirmations, attestations)
                                      THEN "ATTESTED" ELSE @])
      /\ UNCHANGED <<transactions, nonces, executed, paused>>

\* The limits are checked here and nothing is reserved.
PrepareExecution(m) ==
  /\ records[m].state = "ATTESTED"
  /\ ~paused
  /\ m.value <= PerTransactionLimit
  /\ executed + m.value <= DailyLimit
  /\ Put(m, [records[m] EXCEPT !.state = "EXECUTION_READY"])
  /\ UNCHANGED <<transactions, nonces, executed, paused>>

MarkExecuted(m) ==
  /\ records[m].state = "EXECUTION_READY"
  /\ Put(m, [records[m] EXCEPT !.state = "EXECUTED"])
  /\ executed' = executed + m.value
  /\ UNCHANGED <<transactions, nonces, paused>>

Reject(m) ==
  /\ Known(m)
  /\ records[m].state # "EXECUTED"
  /\ Put(m, [records[m] EXCEPT !.state = "REJECTED"])
  /\ UNCHANGED <<transactions, nonces, executed, paused>>

SetPaused ==
  /\ paused' \in BOOLEAN
  /\ UNCHANGED <<records, transactions, nonces, executed>>

MessageNext(m) ==
  \/ Observe(m)
  \/ \E c \in 0 .. MaxConfirmations : ApplyConfirmations(m, c)
  \/ \E relayer \in Relayer : Attest(m, relayer)
  \/ PrepareExecution(m) \/ MarkExecuted(m)
  \/ Reject(m)

Next == SetPaused \/ \E m \in Message : MessageNext(m)

Spec == Init /\ [][Next]_vars
----------------------------------------------------------------------------
States == {"NONE", "OBSERVED", "FINALITY_PENDING", "ATTESTED",
           "EXECUTION_READY"} \cup Terminal

TypeOK ==
  /\ records \in [Message -> [state : States, confirmations : Nat,
                              attestations : SUBSET Relayer]]
  /\ transactions \subseteq {SourceText(m) : m \in Message}
  /\ nonces \subseteq {NonceKey(m) : m \in Message}
  /\ executed \in Nat
  /\ paused \in BOOLEAN

(***************************************************************************)
(* Whatever the order of confirmations and attestations, only a message    *)
(* final on its source and attested by a threshold gets past ATTESTED.     *)
(***************************************************************************)
ExecutionIsAttested ==
  \A m \in Message :
    records[m].state \in {"ATTESTED", "EXECUTION_READY", "EXECUTED"} =>
      Complete(records[m].confirmations, records[m].attestations)

(***************************************************************************)
(* The other way round: a record with everything it needs does not wait    *)
(* for a further confirmation or attestation that may never come.          *)
(***************************************************************************)
NoneLeftPending ==
  \A m \in Message :
    records[m].state \in {"OBSERVED", "FINALITY_PENDING"} =>
      ~Complete(records[m].confirmations, records[m].attestations)

(***************************************************************************)
(* Replay: of the messages with one source network and nonce, or with one  *)
(* source transaction spelled the same, at most one is ever taken,         *)
(* rejected ones included.  A transaction spelled otherwise, under another *)
(* nonce, is taken again: observe compares texts it does not normalize.    *)
(***************************************************************************)
NoReplay ==
  \A m, k \in Message :
    Known(m) /\ Known(k) /\ m # k =>
      /\ NonceKey(m) # NonceKey(k)
      /\ m.transaction = k.transaction => m.spelling # k.spelling
=============================================================================

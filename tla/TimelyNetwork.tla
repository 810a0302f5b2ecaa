--------------------------- MODULE TimelyNetwork ---------------------------
(***************************************************************************)
(* The validator network on schedule: no crash, no operator, and slots     *)
(* long enough for the loop of every node to run (it polls at least five   *)
(* times a slot) and for every frame sent in a slot to be processed in it. *)
(* Only sends that must fail do fail.  Fairness is weak fairness of each   *)
(* node's loop thread and receiving thread.  Time is strongly fair: the    *)
(* loops' retries do not hold it up.                                       *)
(***************************************************************************)
EXTENDS ValidatorNetwork

Delivered == \A s, n \in Validator : wire[s][n] = <<>>

Quiet ==
  /\ Delivered
  /\ \A n \in Validator : attempted[n] = SlotTime \/ ~LoopReady(n)

QuietTick == Quiet /\ Tick

\* A slot after the last one whose time the bound tells apart: the loops may
\* attempt again, on what is pending.
LaterSlot ==
  /\ clock = MaxClock
  /\ Quiet
  /\ attempted' = [n \in Validator |-> 0]
  /\ succeeded' = [n \in Validator |-> 0]
  /\ UNCHANGED <<clock, up, chain, journal, pending, votes, wire, crashes>>

\* A frame is processed before the loops poll for a second time in its slot.
Loop(n) ==
  /\ attempted[n] = SlotTime => Delivered
  /\ \E failed \in {0} \cup Validator : RunOnce(n, failed)

Receive(s, n) == Deliver(s, n)

TimelyNext ==
  \/ QuietTick
  \/ LaterSlot
  \/ \E n \in Validator : Loop(n) \/ \E s \in Validator : Receive(s, n)

TimelySpec ==
  /\ Init
  /\ [][TimelyNext]_vars
  /\ SF_vars(QuietTick)
  /\ SF_vars(LaterSlot)
  /\ \A n \in Validator :
       WF_vars(Loop(n)) /\ \A s \in Validator : WF_vars(Receive(s, n))
----------------------------------------------------------------------------
(***************************************************************************)
(* A proposal that is pending is retried until it is final.                *)
(***************************************************************************)
ProposalsFinalize == \A n \in Validator : ~Idle(n) ~> Idle(n)

(***************************************************************************)
(* Every validator keeps finalizing: all stores reach the height bound.    *)
(***************************************************************************)
HeightsAdvance == <>(\A n \in Validator : Len(chain[n]) = MaxHeight)
=============================================================================

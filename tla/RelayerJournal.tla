--------------------------- MODULE RelayerJournal ---------------------------
(***************************************************************************)
(* The relayers' durable queue (relayer_journal.py) as operators on a      *)
(* record of the table bridge_queue: its rows, and the order in which they *)
(* were created.  Each call but fail is one step of the table.             *)
(*                                                                         *)
(* A message is a record with, among others, its digest, its source        *)
(* transaction tx and its source nonce; all come from one source network.  *)
(* Whether a lease has expired depends on two clocks: expired is the set   *)
(* of messages whose lease the calling worker's clock takes for expired.   *)
(***************************************************************************)
EXTENDS Integers, SequencesExt

NoOwner == "none"

Absent == [state |-> "ABSENT", attempts |-> 0, owner |-> NoOwner]

EmptyQueue(messages) == [rows |-> [m \in messages |-> Absent], order |-> <<>>]

Present(q, m) == q.rows[m].state # "ABSENT"

\* The table's three unique constraints.
SameKey(m, n) == m.digest = n.digest \/ m.tx = n.tx \/ m.nonce = n.nonce

MayEnqueue(q, m) == \A n \in DOMAIN q.rows : Present(q, n) => ~SameKey(m, n)

\* Rows are ordered by created_at and then by digest.  created_at is in
\* whole seconds of the caller's clock: a new row's place may be any.
Enqueue(q, m, place) ==
  [rows  |-> [q.rows EXCEPT ![m].state = "PENDING"],
   order |-> InsertAt(q.order, place, m)]

\* Mutant: a lease is never taken over.
LeasablePending(q, m, expired) == q.rows[m].state = "PENDING"

\* Mutant: a lease is taken over before it has expired.
LeasableHeld(q, m, expired) == q.rows[m].state \in {"PENDING", "LEASED"}

Leasable(q, m, expired) ==
  \/ q.rows[m].state = "PENDING"
  \/ q.rows[m].state = "LEASED" /\ m \in expired

\* ORDER BY created_at, message_digest LIMIT 1
FirstLeasable(q, expired) ==
  {q.order[i] : i \in {j \in DOMAIN q.order :
     /\ Leasable(q, q.order[j], expired)
     /\ \A k \in 1..(j - 1) : ~Leasable(q, q.order[k], expired)}}

Lease(q, m, owner) ==
  [q EXCEPT !.rows[m] = [state    |-> "LEASED",
                         attempts |-> @.attempts + 1,
                         owner    |-> owner]]

Owns(q, m, owner) == q.rows[m].state = "LEASED" /\ q.rows[m].owner = owner

\* Mutant: the lease's owner stays.
AcknowledgeKeeping(q, m) == [q EXCEPT !.rows[m].state = "EXECUTED"]

Acknowledge(q, m) ==
  [q EXCEPT !.rows[m] = [@ EXCEPT !.state = "EXECUTED", !.owner = NoOwner]]

\* fail(): the state it decides on, and what it writes.
\* Mutant: one attempt too many.
AfterFailureLate(q, m, maxAttempts) ==
  IF q.rows[m].attempts > maxAttempts THEN "DEAD_LETTER" ELSE "PENDING"

AfterFailure(q, m, maxAttempts) ==
  IF q.rows[m].attempts >= maxAttempts THEN "DEAD_LETTER" ELSE "PENDING"

Release(q, m, state) ==
  [q EXCEPT !.rows[m] = [@ EXCEPT !.state = state, !.owner = NoOwner]]
=============================================================================

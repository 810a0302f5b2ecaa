--------------------------- MODULE SigningJournal ---------------------------
(***************************************************************************)
(* The persistent signing journal of one validator                         *)
(* (consensus_signing_journal.py).  A journal is a record of two durable   *)
(* tables:                                                                 *)
(*   rows  the votes already signed, one per coordinate <height, round>,   *)
(*   mark  the largest coordinate ever signed (height 0: none yet).        *)
(* The operators are pure: get_or_sign is one SQLite transaction, so a     *)
(* crash leaves the journal as it was before the call or after it.         *)
(***************************************************************************)
EXTENDS Integers

EmptyJournal == [rows |-> {}, mark |-> [height |-> 0, round |-> 0]]

\* The lexicographic order of coordinates the SQL comparisons spell out.
Before(a, b) ==
  \/ a.height < b.height
  \/ a.height = b.height /\ a.round < b.round

Coordinate(row) == [height |-> row.height, round |-> row.round]

SignedAt(j, coord) == {row \in j.rows : Coordinate(row) = coord}

(***************************************************************************)
(* get_or_sign returns a signature for vote v = [height, round, block]: a  *)
(* vote signed before is answered again from its row, without looking at   *)
(* the mark; a fresh coordinate is refused below the mark.                 *)
(***************************************************************************)
MaySign(j, v) ==
  \/ v \in j.rows
  \/ /\ SignedAt(j, Coordinate(v)) = {}
     /\ ~Before(Coordinate(v), j.mark)

Raised(mark, coord) == IF Before(mark, coord) THEN coord ELSE mark

\* Mutant: the signature is returned, its row is not committed.
SignOnly(j, v) == j

GetOrSign(j, v) ==
  IF v \in j.rows
    THEN j
    ELSE [rows |-> j.rows \cup {v}, mark |-> Raised(j.mark, Coordinate(v))]

(***************************************************************************)
(* What a restart does with the tables: _restore_watermarks lifts the mark *)
(* to the largest row, _validate_persisted_state refuses to start unless   *)
(* the mark is then exactly the largest row.                               *)
(***************************************************************************)
IsLatest(j, coord) ==
  IF j.rows = {}
    THEN coord = EmptyJournal.mark
    ELSE /\ \E row \in j.rows : Coordinate(row) = coord
         /\ \A row \in j.rows : ~Before(coord, Coordinate(row))

Restored(j) ==
  LET known == {j.mark} \cup {Coordinate(row) : row \in j.rows}
  IN  [j EXCEPT !.mark = CHOOSE m \in known : \A k \in known : ~Before(m, k)]

StartupAccepts(j) == IsLatest(j, j.mark)
=============================================================================

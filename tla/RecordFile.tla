----------------------------- MODULE RecordFile -----------------------------
(***************************************************************************)
(* A file of framed records (length, checksum, payload) as sbf.journal and *)
(* sbf.fabric are, and what scanning it from the start makes of it.        *)
(*                                                                         *)
(* A piece is what one append left in the file.  missing = 0 when all of   *)
(* its bytes are there; otherwise the reader takes the bytes of that many  *)
(* pieces behind it for the rest of its payload.                           *)
(***************************************************************************)
EXTENDS Integers, Sequences, FiniteSetsExt

CONSTANT MaxMissing   \* bound: how much of a record may be missing

ASSUME MissingAssumption == MaxMissing \in Nat

Piece == [seq: Nat, id: Nat, missing: 0..MaxMissing]

Whole(seq, id) == [seq |-> seq, id |-> id, missing |-> 0]

\* What a write that failed, or a crash during it, may leave behind: nothing,
\* part of the record or all of it.  Bytes that stdio kept in its buffer and
\* wrote later come to the same.
Interrupted(file, piece) ==
  {file} \cup {Append(file, [piece EXCEPT !.missing = m]) : m \in 0..MaxMissing}

\* bad is the set of the pieces the reader cannot accept; it stops at the first.
Stop(file, bad) == Min(bad \cup {Len(file) + 1})

Intact(file, bad) == SubSeq(file, 1, Stop(file, bad) - 1)

\* The pieces at some of the places, in the order of the file.
Picked(file, places) ==
  [k \in 1..Cardinality(places) |->
     file[CHOOSE i \in places : Cardinality(places \cap (1..i)) = k]]

\* The payload reaches past the end of the file: a torn tail, which is cut off.
Torn(file, bad) ==
  bad # {} /\ file[Stop(file, bad)].missing > Len(file) - Stop(file, bad)

\* Anything else is refused: a checksum over foreign bytes, a wrong sequence.
Corrupt(file, bad) == bad # {} /\ ~Torn(file, bad)

=============================================================================

---------------------------- MODULE StorageProofs ---------------------------
(***************************************************************************)
(* The registry's files, for journals and logs of any length, any number   *)
(* of faults, and records of which any part may be missing: they can be    *)
(* read back, and what is read back is what was acknowledged.              *)
(***************************************************************************)
EXTENDS Storage, FiniteSetTheorems, WellFoundedInduction, TLAPS

-----------------------------------------------------------------------------
(* Least and greatest elements, and where a reader stops. *)

\* A non-empty set of naturals has a least element.
LEMMA Least ==
  ASSUME NEW T \in SUBSET Nat, T # {}
  PROVE  \E x \in T : \A y \in T : x =< y
PROOF
<1>1. PICK x \in T : \A y \in T : ~ (<<y, x>> \in OpToRel(<, Nat))
  BY WFMin, NatLessThanWellFounded
<1>2. \A y \in T : x \in Nat /\ y \in Nat /\ ~(y < x)
  BY <1>1 DEF OpToRel
<1> QED
  BY <1>2

\* An element that is above all others is the greatest.
LEMMA MaxIs ==
  ASSUME NEW S \in SUBSET Int, NEW m \in S, \A x \in S : x =< m
  PROVE  Max(S) = m
PROOF
<1>1. \E x \in S : \A y \in S : x >= y
  OBVIOUS
<1>2. Max(S) \in S /\ \A y \in S : Max(S) >= y
  BY <1>1 DEF Max
<1>3. \A g \in S : (\A y \in S : g >= y) => g = m
  OBVIOUS
<1> QED
  BY <1>2, <1>3

\* A set of naturals with a bound has a greatest element.
LEMMA MaxOf ==
  ASSUME NEW S \in SUBSET Nat, S # {}, NEW b \in Nat, \A x \in S : x =< b
  PROVE  Max(S) \in S /\ \A x \in S : x =< Max(S)
PROOF
<1> DEFINE U == {u \in Nat : \A x \in S : x =< u}
<1>1. PICK u \in U : \A v \in U : u =< v
  <2>1. U \in SUBSET Nat /\ b \in U
    OBVIOUS
  <2> HIDE DEF U
  <2> QED
    BY <2>1, Least
<1>2. u \in S
  <2> SUFFICES ASSUME u \notin S PROVE FALSE
    OBVIOUS
  <2>1. PICK x \in S : TRUE
    OBVIOUS
  <2>2. u - 1 \in Nat /\ \A y \in S : y =< u - 1
    BY <2>1
  <2> QED
    BY <1>1, <2>2
<1>3. \E m \in S : \A x \in S : m >= x
  BY <1>1, <1>2
<1> QED
  BY <1>3 DEF Max

\* Where a reader stops: at the first piece it cannot accept, or at the end.
LEMMA StopIs ==
  ASSUME NEW n \in Nat, NEW file, Len(file) = n, NEW bad \in SUBSET (1..n)
  PROVE  /\ Stop(file, bad) \in bad \cup {n + 1}
         /\ Stop(file, bad) \in 1..(n + 1)
         /\ \A t \in bad : Stop(file, bad) =< t
         /\ \A i \in 1..(Stop(file, bad) - 1) : i \in 1..n /\ i \notin bad
         /\ Stop(file, bad) - 1 \in 0..n
PROOF
<1> DEFINE T == bad \cup {n + 1}
<1>1. T \in SUBSET Nat /\ T # {} /\ T \in SUBSET (1..(n + 1))
  OBVIOUS
<1>2. Min(T) \in T /\ \A y \in T : Min(T) =< y
  <2> HIDE DEF T
  <2>1. \E x \in T : \A y \in T : x =< y
    BY <1>1, Least
  <2> QED
    BY <2>1 DEF Min
<1>3. Stop(file, bad) = Min(T)
  BY DEF Stop
<1>4. \A y \in bad : y \in T /\ y \in 1..n
  OBVIOUS
<1>5. Min(T) \in bad \cup {n + 1} /\ Min(T) \in 1..(n + 1)
  BY <1>1, <1>2
<1>6. \A y \in bad : Min(T) =< y
  BY <1>2, <1>4
<1> HIDE DEF T
<1> QED
  BY <1>3, <1>4, <1>5, <1>6

\* A run of places picks a run of pieces.
LEMMA PickedRun ==
  ASSUME NEW file, NEW b \in Nat, NEW n \in 0..b
  PROVE  Picked(file, (b - n + 1)..b) = [k \in 1..n |-> file[b - n + k]]
PROOF
<1> DEFINE a == b - n + 1
<1>0. a \in Nat \ {0} /\ a =< b + 1 /\ b - a + 1 = n /\ \A k \in 1..n : a + k - 1 = b - n + k
  OBVIOUS
<1> HIDE DEF a
<1>1. Cardinality(a..b) = n
  <2>1. Cardinality(a..b) = IF a > b THEN 0 ELSE b - a + 1
    BY <1>0, FS_Interval
  <2> QED
    BY <1>0, <2>1
<1>2. ASSUME NEW k \in 1..n
      PROVE  (CHOOSE i \in a..b : Cardinality((a..b) \cap (1..i)) = k) = b - n + k
  <2>1. \A i \in a..b : (a..b) \cap (1..i) = a..i
    BY <1>0
  <2>2. \A i \in a..b : Cardinality(a..i) = i - a + 1
    <3> SUFFICES ASSUME NEW i \in a..b PROVE Cardinality(a..i) = i - a + 1
      OBVIOUS
    <3>1. Cardinality(a..i) = IF a > i THEN 0 ELSE i - a + 1
      BY <1>0, FS_Interval
    <3> QED
      BY <1>0, <3>1
  <2>3. \A i \in a..b : Cardinality((a..b) \cap (1..i)) = i - a + 1
    BY <2>1, <2>2
  <2>4. b - n + k \in a..b /\ \A i \in a..b : i - a + 1 = k <=> i = b - n + k
    BY <1>0
  <2>5. \A i \in a..b : Cardinality((a..b) \cap (1..i)) = k <=> i = b - n + k
    BY <2>3, <2>4
  <2> QED
    BY <2>4, <2>5
<1>3. Picked(file, a..b) =
        [k \in 1..n |-> file[CHOOSE i \in a..b : Cardinality((a..b) \cap (1..i)) = k]]
  BY <1>1 DEF Picked
<1>4. Picked(file, a..b) = [k \in 1..n |-> file[b - n + k]]
  BY <1>2, <1>3
<1> QED
  BY <1>4 DEF a

-----------------------------------------------------------------------------
(* A journal j behind a snapshot that covers the sequence numbers up to c.   *)

Scanned(j, c) ==
  {i \in DOMAIN j : \/ j[i].missing > 0
                    \/ j[i].seq > 1 + Max({c} \cup {j[k].seq : k \in 1..(i - 1)})}

Places(j, c) == {i \in 1..(Stop(j, Scanned(j, c)) - 1) : j[i].seq > c}

Suffix(j, c) == Picked(j, Places(j, c))

\* Its last record is not all there.
Ragged(j) == j # <<>> /\ j[Len(j)].missing > 0

\* How many records are whole.
Wholes(j) == IF Ragged(j) THEN Len(j) - 1 ELSE Len(j)

\* The numbers follow on each other, the first one on the snapshot at the latest, the
\* last one reaches it, and only the last record may be incomplete.
Consecutive(j, c) ==
  /\ j \in Seq(Piece) /\ c \in Nat
  /\ \A i \in 1..Len(j) : j[i].seq = j[1].seq + i - 1
  /\ \A i \in 1..Len(j) : i < Len(j) => j[i].missing = 0
  /\ j # <<>> => j[1].seq \in 1..(c + 1)
  /\ Wholes(j) > 0 => c =< j[Wholes(j)].seq

\* How many records are behind the snapshot.
Excess(j, c) == IF Wholes(j) > 0 THEN j[Wholes(j)].seq - c ELSE 0

\* The fields of a piece.
LEMMA PieceFields ==
  ASSUME NEW p \in Piece
  PROVE  p.seq \in Nat /\ p.id \in Nat /\ p.missing \in Nat
  BY MissingAssumption DEF Piece

\* A sequence of pieces and its fields.
LEMMA FileFacts ==
  ASSUME NEW j \in Seq(Piece)
  PROVE  /\ Len(j) \in Nat /\ DOMAIN j = 1..Len(j)
         /\ \A i \in 1..Len(j) : /\ j[i] \in Piece
                                 /\ j[i].seq \in Nat /\ j[i].id \in Nat /\ j[i].missing \in Nat
         /\ j # <<>> <=> Len(j) > 0
         /\ Wholes(j) \in 0..Len(j)
         /\ Ragged(j) <=> Len(j) > 0 /\ j[Len(j)].missing > 0
PROOF
<1>1. /\ Len(j) \in Nat /\ DOMAIN j = 1..Len(j) /\ \A i \in 1..Len(j) : j[i] \in Piece
      /\ j # <<>> <=> Len(j) > 0
  OBVIOUS
<1>2. \A i \in 1..Len(j) : j[i].seq \in Nat /\ j[i].id \in Nat /\ j[i].missing \in Nat
  BY <1>1, PieceFields
<1>3. Ragged(j) <=> Len(j) > 0 /\ j[Len(j)].missing > 0
  BY <1>1 DEF Ragged
<1>4. Wholes(j) \in 0..Len(j)
  BY <1>1, <1>3 DEF Wholes
<1> QED
  BY <1>1, <1>2, <1>3, <1>4

\* Only an incomplete tail stops the reader of such a journal.
LEMMA ScanIs ==
  ASSUME NEW j, NEW c, Consecutive(j, c)
  PROVE  /\ Scanned(j, c) = IF Ragged(j) THEN {Len(j)} ELSE {}
         /\ Stop(j, Scanned(j, c)) = Wholes(j) + 1
PROOF
<1>0. j \in Seq(Piece) /\ c \in Nat
  BY DEF Consecutive
<1>1. /\ Len(j) \in Nat /\ DOMAIN j = 1..Len(j)
      /\ \A i \in 1..Len(j) : j[i].seq \in Nat /\ j[i].missing \in Nat
      /\ j # <<>> <=> Len(j) > 0
      /\ Ragged(j) <=> Len(j) > 0 /\ j[Len(j)].missing > 0
  BY <1>0, FileFacts
<1>2. ASSUME NEW i \in 1..Len(j)
      PROVE  ~(j[i].seq > 1 + Max({c} \cup {j[k].seq : k \in 1..(i - 1)}))
  <2> DEFINE S == {c} \cup {j[k].seq : k \in 1..(i - 1)}
  <2>1. CASE i = 1
    <3>1. S = {c}
      BY <2>1
    <3>2. j[i].seq =< c + 1 /\ j[i].seq \in Nat
      BY <1>0, <1>1, <2>1 DEF Consecutive
    <3>3. Max({c}) = c
      <4> DEFINE C == {c}
      <4>1. C \in SUBSET Int /\ c \in C /\ \A x \in C : x =< c
        BY <1>0
      <4> HIDE DEF C
      <4>2. Max(C) = c
        BY <4>1, MaxIs
      <4> QED
        BY <4>2 DEF C
    <3>4. Max(S) = c
      BY <3>1, <3>3
    <3> HIDE DEF S
    <3>5. ~(j[i].seq > 1 + Max(S))
      BY <1>0, <3>2, <3>4
    <3> QED
      BY <3>5 DEF S
  <2>2. CASE i > 1
    <3>1. i - 1 \in 1..Len(j) /\ i - 1 \in 1..(i - 1)
      BY <1>1, <2>2
    <3>2. \A k \in 1..(i - 1) : k \in 1..Len(j)
      BY <1>1
    <3>3. j[i].seq = j[1].seq + i - 1 /\ \A k \in 1..(i - 1) : j[k].seq = j[1].seq + k - 1
      BY <3>2 DEF Consecutive
    <3>4. j[1].seq \in Nat
      BY <1>1, <2>2
    <3>5. j[i].seq = j[i - 1].seq + 1 /\ \A k \in 1..(i - 1) : j[k].seq =< j[i - 1].seq
      BY <1>1, <3>1, <3>3, <3>4
    <3>6. S \in SUBSET Nat /\ S # {} /\ j[i - 1].seq \in S
      BY <1>0, <1>1, <3>1, <3>2
    <3>7. c + j[i - 1].seq \in Nat /\ \A x \in S : x =< c + j[i - 1].seq
      BY <1>0, <1>1, <3>1, <3>2, <3>5
    <3>8. Max(S) \in S /\ \A x \in S : x =< Max(S)
      <4> HIDE DEF S
      <4> QED
        BY <3>6, <3>7, MaxOf
    <3> HIDE DEF S
    <3>9. ~(j[i].seq > 1 + Max(S))
      BY <1>1, <3>1, <3>5, <3>6, <3>8
    <3> QED
      BY <3>9 DEF S
  <2> QED
    BY <1>1, <2>1, <2>2
<1>3. Scanned(j, c) = {i \in 1..Len(j) : j[i].missing > 0}
  BY <1>1, <1>2 DEF Scanned
<1>4. \A i \in 1..Len(j) : i < Len(j) => j[i].missing = 0
  BY DEF Consecutive
<1>5. Scanned(j, c) = IF Ragged(j) THEN {Len(j)} ELSE {}
  <2>1. CASE Ragged(j)
    <3>1. Len(j) \in 1..Len(j) /\ j[Len(j)].missing > 0
      BY <1>1, <2>1 DEF Ragged
    <3>2. \A i \in 1..Len(j) : j[i].missing > 0 <=> i = Len(j)
      <4>1. Len(j) \in Nat
        BY <1>1
      <4> QED
        BY <1>4, <3>1, <4>1
    <3>3. Scanned(j, c) = {Len(j)}
      BY <1>3, <3>1, <3>2
    <3> QED
      BY <2>1, <3>3
  <2>2. CASE ~Ragged(j)
    <3>1. \A i \in 1..Len(j) : ~(j[i].missing > 0)
      BY <1>1, <1>4, <2>2 DEF Ragged
    <3> QED
      BY <1>3, <2>2, <3>1
  <2> QED
    BY <2>1, <2>2
<1>6. Scanned(j, c) \in SUBSET (1..Len(j))
  BY <1>3
<1>7. /\ Stop(j, Scanned(j, c)) \in Scanned(j, c) \cup {Len(j) + 1}
      /\ \A t \in Scanned(j, c) : Stop(j, Scanned(j, c)) =< t
  BY <1>1, <1>6, StopIs
<1>8. CASE Ragged(j)
  <2>1. Scanned(j, c) = {Len(j)} /\ Wholes(j) = Len(j) - 1
    BY <1>5, <1>8 DEF Wholes
  <2>2. Stop(j, Scanned(j, c)) \in {Len(j), Len(j) + 1} /\ Stop(j, Scanned(j, c)) =< Len(j)
    BY <1>7, <2>1
  <2>3. Stop(j, Scanned(j, c)) = Wholes(j) + 1
    BY <1>1, <2>1, <2>2
  <2> QED
    BY <1>5, <2>3
<1>9. CASE ~Ragged(j)
  BY <1>1, <1>5, <1>7, <1>9 DEF Wholes
<1> QED
  BY <1>8, <1>9

\* Numbers that follow on each other, counted from either end.
LEMMA Counted ==
  ASSUME NEW x \in Int, NEW i \in Int, NEW c \in Int, NEW n \in Int, NEW w \in Int,
         c + n = x + w - 1
  PROVE  /\ x + i - 1 > c <=> i > w - n
         /\ x + (w - n + i) - 1 = c + i
  OBVIOUS

\* What is behind the snapshot: the last records that are whole.
LEMMA SuffixIs ==
  ASSUME NEW j, NEW c, Consecutive(j, c)
  PROVE  /\ Wholes(j) \in 0..Len(j) /\ Len(j) \in Nat
         /\ Excess(j, c) \in 0..Wholes(j)
         /\ Places(j, c) = (Wholes(j) - Excess(j, c) + 1)..Wholes(j)
         /\ Suffix(j, c) = [i \in 1..Excess(j, c) |-> j[Wholes(j) - Excess(j, c) + i]]
         /\ Suffix(j, c) \in Seq(Piece) /\ Len(Suffix(j, c)) = Excess(j, c)
         /\ \A i \in 1..Excess(j, c) : Suffix(j, c)[i].seq = c + i
         /\ Wholes(j) > 0 => j[Wholes(j)].seq = c + Excess(j, c)
PROOF
<1> DEFINE W == Wholes(j)
           n == Excess(j, c)
<1>0. j \in Seq(Piece) /\ c \in Nat
  BY DEF Consecutive
<1>1. /\ Len(j) \in Nat
      /\ \A i \in 1..Len(j) : j[i] \in Piece /\ j[i].seq \in Nat
      /\ W \in 0..Len(j)
  BY <1>0, FileFacts
<1>2. \A i \in 1..Len(j) : j[i].seq = j[1].seq + i - 1
  BY DEF Consecutive
<1>3. W > 0 => j[1].seq \in 1..(c + 1) /\ c =< j[W].seq
  BY <1>0, <1>1 DEF Consecutive
<1>4. (W > 0 => n = j[W].seq - c) /\ (~(W > 0) => n = 0)
  BY DEF Excess
<1> HIDE DEF W, n
<1>5. n \in 0..W /\ (W > 0 => j[W].seq = c + n /\ j[W].seq = j[1].seq + W - 1)
  <2>1. CASE W > 0
    <3>1. W \in 1..Len(j) /\ 1 \in 1..Len(j) /\ W \in Nat
      BY <1>1, <2>1
    <3>2. /\ j[W].seq = j[1].seq + W - 1 /\ j[W].seq \in Nat /\ j[1].seq \in 1..(c + 1)
          /\ c =< j[W].seq /\ n = j[W].seq - c
      BY <1>1, <1>2, <1>3, <1>4, <2>1, <3>1
    <3> QED
      BY <1>0, <3>1, <3>2
  <2>2. CASE ~(W > 0)
    BY <1>1, <1>4, <2>2
  <2> QED
    BY <2>1, <2>2
<1>6. ASSUME NEW i \in 1..W
      PROVE  j[i].seq > c <=> i > W - n
  <2>1. i \in 1..Len(j) /\ W > 0
    BY <1>1
  <2>2. j[i].seq = j[1].seq + i - 1 /\ j[1].seq \in Nat
    BY <1>1, <1>2, <2>1
  <2>3. c + n = j[1].seq + W - 1
    BY <1>5, <2>1
  <2>4. j[1].seq \in Int /\ i \in Int /\ c \in Int /\ n \in Int /\ W \in Int
    BY <1>0, <1>1, <1>5, <2>2
  <2>5. j[1].seq + i - 1 > c <=> i > W - n
    BY <2>3, <2>4, Counted
  <2> QED
    BY <2>2, <2>5
<1>7. Places(j, c) = {i \in 1..W : j[i].seq > c}
  <2>1. Stop(j, Scanned(j, c)) = W + 1
    BY ScanIs DEF W
  <2>2. Stop(j, Scanned(j, c)) - 1 = W
    BY <1>1, <2>1
  <2> QED
    BY <2>2 DEF Places
<1>8. Places(j, c) = (W - n + 1)..W
  BY <1>1, <1>5, <1>6, <1>7
<1>9. Suffix(j, c) = [i \in 1..n |-> j[W - n + i]]
  <2>1. W \in Nat /\ n \in 0..W
    BY <1>1, <1>5
  <2>2. Picked(j, (W - n + 1)..W) = [k \in 1..n |-> j[W - n + k]]
    BY <2>1, PickedRun
  <2> QED
    BY <1>8, <2>2 DEF Suffix
<1>10. ASSUME NEW i \in 1..n
       PROVE  W - n + i \in 1..Len(j) /\ j[W - n + i].seq = c + i
  <2>1. W - n + i \in 1..Len(j) /\ W > 0
    BY <1>1, <1>5
  <2>2. j[W - n + i].seq = j[1].seq + (W - n + i) - 1 /\ j[1].seq \in Nat
    BY <1>1, <1>2, <2>1
  <2>3. c + n = j[1].seq + W - 1
    BY <1>5, <2>1
  <2>4. j[1].seq \in Int /\ W \in Int /\ n \in Int /\ c \in Int /\ i \in Int
    BY <1>0, <1>1, <1>5, <2>2
  <2>5. j[1].seq + (W - n + i) - 1 = c + i
    BY <2>3, <2>4, Counted
  <2> QED
    BY <2>1, <2>2, <2>5
<1>11. Suffix(j, c) \in Seq(Piece) /\ Len(Suffix(j, c)) = n
  BY <1>1, <1>5, <1>9, <1>10
<1>12. \A i \in 1..n : Suffix(j, c)[i].seq = c + i
  BY <1>9, <1>10
<1> QED
  BY <1>1, <1>5, <1>8, <1>9, <1>11, <1>12 DEF W, n

-----------------------------------------------------------------------------
(* What the steps of the store do to such a journal. *)

\* The records of j behind c, as ids in order.
Behinds(j, c) == Ids(Suffix(j, c))

\* The ids a reader finds behind c.
Beyond(j, c) == {j[i].id : i \in Places(j, c)}

\* A sequence that is one element longer.
LEMMA OneLonger ==
  ASSUME NEW X, NEW s \in Seq(X), NEW t \in Seq(X), NEW x \in X, Len(t) = Len(s) + 1,
         \A i \in 1..Len(s) : t[i] = s[i], t[Len(s) + 1] = x
  PROVE  t = Append(s, x)
PROOF
<1>1. Append(s, x) \in Seq(X) /\ Len(Append(s, x)) = Len(s) + 1 /\ Len(s) \in Nat
  OBVIOUS
<1>2. \A i \in 1..(Len(s) + 1) : Append(s, x)[i] = IF i = Len(s) + 1 THEN x ELSE s[i]
  OBVIOUS
<1>3. \A i \in 1..(Len(s) + 1) : i \in 1..Len(s) \/ i = Len(s) + 1
  BY <1>1
<1>4. \A i \in 1..(Len(s) + 1) : t[i] = Append(s, x)[i]
  BY <1>2, <1>3
<1> QED
  BY <1>1, <1>4

\* The ids behind a snapshot.
LEMMA BehindsIs ==
  ASSUME NEW j, NEW c, Consecutive(j, c)
  PROVE  /\ Behinds(j, c) = [i \in 1..Excess(j, c) |-> j[Wholes(j) - Excess(j, c) + i].id]
         /\ Behinds(j, c) \in Seq(Nat) /\ Len(Behinds(j, c)) = Excess(j, c)
         /\ Beyond(j, c) = {Behinds(j, c)[i] : i \in 1..Excess(j, c)}
         /\ Excess(j, c) \in Nat
PROOF
<1> DEFINE W == Wholes(j)
           n == Excess(j, c)
<1>1. /\ Suffix(j, c) = [i \in 1..n |-> j[W - n + i]]
      /\ Places(j, c) = (W - n + 1)..W
      /\ W \in 0..Len(j) /\ Len(j) \in Nat /\ n \in 0..W
  BY SuffixIs
<1>2. \A i \in 1..Len(j) : j[i].id \in Nat
  BY FileFacts DEF Consecutive
<1> HIDE DEF W, n
<1>3. Behinds(j, c) = [i \in 1..n |-> j[W - n + i].id]
  BY <1>1 DEF Behinds, Ids
<1>4. \A i \in 1..n : W - n + i \in 1..Len(j)
  BY <1>1
<1>5. \A i \in 1..n : j[W - n + i].id \in Nat
  BY <1>2, <1>4
<1>6. Behinds(j, c) \in Seq(Nat) /\ Len(Behinds(j, c)) = n
  BY <1>1, <1>3, <1>5
<1>7. \A p \in (W - n + 1)..W : \E i \in 1..n : p = W - n + i
  <2> SUFFICES ASSUME NEW p \in (W - n + 1)..W
               PROVE  \E i \in 1..n : p = W - n + i
    OBVIOUS
  <2>1. p - W + n \in 1..n /\ p = W - n + (p - W + n)
    BY <1>1
  <2> QED
    BY <2>1
<1>8. \A i \in 1..n : W - n + i \in (W - n + 1)..W
  BY <1>1
<1>9. {j[p].id : p \in (W - n + 1)..W} = {j[W - n + i].id : i \in 1..n}
  BY <1>7, <1>8
<1>10. Beyond(j, c) = {Behinds(j, c)[i] : i \in 1..n}
  <2>1. Beyond(j, c) = {j[p].id : p \in (W - n + 1)..W}
    BY <1>1 DEF Beyond
  <2>2. \A i \in 1..n : Behinds(j, c)[i] = j[W - n + i].id
    BY <1>3
  <2>3. {Behinds(j, c)[i] : i \in 1..n} = {j[W - n + i].id : i \in 1..n}
    BY <2>2
  <2> QED
    BY <1>9, <2>1, <2>3
<1> QED
  BY <1>1, <1>3, <1>6, <1>10 DEF W, n

\* An empty journal.
LEMMA EmptyJournal ==
  ASSUME NEW c \in Nat
  PROVE  Consecutive(<<>>, c) /\ ~Ragged(<<>>) /\ Excess(<<>>, c) = 0
  BY DEF Consecutive, Ragged, Wholes, Excess

\* The next record, or a part of it, behind whole ones.
LEMMA AppendedPiece ==
  ASSUME NEW j, NEW c, Consecutive(j, c), ~Ragged(j),
         NEW r \in Piece, r.seq = c + Excess(j, c) + 1
  PROVE  /\ Consecutive(Append(j, r), c)
         /\ r.missing = 0 => /\ ~Ragged(Append(j, r))
                             /\ Excess(Append(j, r), c) = Excess(j, c) + 1
                             /\ Behinds(Append(j, r), c) = Append(Behinds(j, c), r.id)
                             /\ Beyond(Append(j, r), c) = Beyond(j, c) \cup {r.id}
         /\ r.missing # 0 => /\ Ragged(Append(j, r))
                             /\ Excess(Append(j, r), c) = Excess(j, c)
                             /\ Behinds(Append(j, r), c) = Behinds(j, c)
                             /\ Beyond(Append(j, r), c) = Beyond(j, c)
PROOF
<1> DEFINE k == Append(j, r)
           L == Len(j)
           n == Excess(j, c)
<1>0. j \in Seq(Piece) /\ c \in Nat /\ r.seq \in Nat /\ r.missing \in Nat /\ r.id \in Nat
  BY PieceFields DEF Consecutive
<1>1. /\ L \in Nat /\ (j # <<>> <=> L > 0) /\ Wholes(j) = L
      /\ \A i \in 1..L : j[i].seq \in Nat /\ j[i].missing \in Nat /\ j[i].id \in Nat
      /\ n \in 0..L /\ (L > 0 => j[L].seq = c + n) /\ (L = 0 => n = 0)
  <2>1. Wholes(j) = L
    BY DEF Wholes
  <2>2. /\ L \in Nat /\ (j # <<>> <=> L > 0)
        /\ \A i \in 1..L : j[i].seq \in Nat /\ j[i].missing \in Nat /\ j[i].id \in Nat
    BY <1>0, FileFacts
  <2>3. n \in 0..L /\ (L > 0 => j[L].seq = c + n)
    BY <2>1, SuffixIs
  <2>4. L = 0 => n = 0
    BY <2>3
  <2> QED
    BY <2>1, <2>2, <2>3, <2>4
<1>2. k \in Seq(Piece) /\ Len(k) = L + 1 /\ k[L + 1] = r /\ \A i \in 1..L : k[i] = j[i]
  BY <1>0
<1>3. L > 0 => j[1].seq \in 1..(c + 1)
  BY <1>1 DEF Consecutive
<1>4. \A i \in 1..L : j[i].seq = j[1].seq + i - 1 /\ j[i].missing = 0
  <2>1. \A i \in 1..L : j[i].seq = j[1].seq + i - 1 /\ (i < L => j[i].missing = 0)
    BY DEF Consecutive
  <2>2. L > 0 => j[L].missing = 0
    BY <1>1 DEF Ragged
  <2>3. \A i \in 1..L : j[i].missing = 0
    <3>1. L \in Nat
      BY <1>1
    <3> HIDE DEF L
    <3>2. \A i \in 1..L : i < L \/ (i = L /\ L > 0)
      BY <3>1
    <3> QED
      BY <2>1, <2>2, <3>2
  <2> QED
    BY <2>1, <2>3
<1> HIDE DEF k, n
<1>5. r.seq = c + n + 1
  BY DEF n
<1>6. \A i \in 1..(L + 1) : k[i].seq = k[1].seq + i - 1
  <2>1. CASE L = 0
    BY <1>0, <1>1, <1>2, <2>1
  <2>2. CASE L > 0
    <3>1. k[1].seq = j[1].seq /\ j[1].seq \in Nat /\ j[L].seq = j[1].seq + L - 1
      BY <1>1, <1>2, <1>4, <2>2
    <3>2. r.seq = j[1].seq + L
      BY <1>0, <1>1, <1>5, <2>2, <3>1
    <3>3. k[L + 1].seq = k[1].seq + (L + 1) - 1
      BY <1>1, <1>2, <3>1, <3>2
    <3>4. \A i \in 1..L : k[i].seq = k[1].seq + i - 1
      BY <1>2, <1>4, <3>1
    <3> QED
      BY <1>1, <3>3, <3>4
  <2> QED
    BY <1>1, <2>1, <2>2
<1>7. \A i \in 1..(L + 1) : i < L + 1 => k[i].missing = 0
  BY <1>1, <1>2, <1>4
<1>8. k # <<>> /\ k[1].seq \in 1..(c + 1)
  BY <1>0, <1>1, <1>2, <1>3, <1>5
<1>9. CASE r.missing = 0
  <2>1. ~Ragged(k) /\ Wholes(k) = L + 1
    BY <1>1, <1>2, <1>9 DEF Ragged, Wholes
  <2>2. Excess(k, c) = n + 1 /\ c =< k[Wholes(k)].seq
    BY <1>0, <1>1, <1>2, <1>5, <2>1 DEF Excess
  <2>3. Consecutive(k, c)
    BY <1>0, <1>2, <1>6, <1>7, <1>8, <2>2 DEF Consecutive
  <2>4. /\ Behinds(k, c) = [i \in 1..(n + 1) |-> k[(L + 1) - (n + 1) + i].id]
        /\ Behinds(k, c) \in Seq(Nat) /\ Len(Behinds(k, c)) = n + 1
        /\ Beyond(k, c) = {Behinds(k, c)[i] : i \in 1..(n + 1)}
    BY <2>1, <2>2, <2>3, BehindsIs
  <2>5. /\ Behinds(j, c) = [i \in 1..n |-> j[L - n + i].id]
        /\ Behinds(j, c) \in Seq(Nat) /\ Len(Behinds(j, c)) = n
        /\ Beyond(j, c) = {Behinds(j, c)[i] : i \in 1..n}
    BY <1>1, BehindsIs DEF n
  <2>6. \A i \in 1..(n + 1) : (L + 1) - (n + 1) + i = L - n + i /\ L - n + i \in 1..(L + 1)
    BY <1>1
  <2>7. \A i \in 1..n : L - n + i \in 1..L /\ i \in 1..(n + 1)
    BY <1>1
  <2>8. \A i \in 1..n : Behinds(k, c)[i] = Behinds(j, c)[i]
    BY <1>2, <2>4, <2>5, <2>6, <2>7
  <2>9. Behinds(k, c)[n + 1] = r.id
    <3>1. n + 1 \in 1..(n + 1) /\ L - n + (n + 1) = L + 1
      BY <1>1
    <3> QED
      BY <1>2, <2>4, <2>6, <3>1
  <2>10. Behinds(k, c) = Append(Behinds(j, c), r.id)
    <3>1. Len(Behinds(k, c)) = Len(Behinds(j, c)) + 1 /\ Behinds(k, c)[Len(Behinds(j, c)) + 1] = r.id
      BY <2>4, <2>5, <2>9
    <3>2. \A i \in 1..Len(Behinds(j, c)) : Behinds(k, c)[i] = Behinds(j, c)[i]
      BY <2>5, <2>8
    <3>3. Behinds(k, c) \in Seq(Nat) /\ Behinds(j, c) \in Seq(Nat) /\ r.id \in Nat
      BY <1>0, <2>4, <2>5
    <3> QED
      BY <3>1, <3>2, <3>3, OneLonger
  <2>11. 1..(n + 1) = (1..n) \cup {n + 1}
    BY <1>1
  <2>12. Beyond(k, c) = Beyond(j, c) \cup {r.id}
    <3>1. Beyond(k, c) = {Behinds(k, c)[i] : i \in 1..n} \cup {Behinds(k, c)[n + 1]}
      BY <2>4, <2>11
    <3>2. {Behinds(k, c)[i] : i \in 1..n} = {Behinds(j, c)[i] : i \in 1..n}
      BY <2>8
    <3> QED
      BY <2>5, <2>9, <3>1, <3>2
  <2> QED
    BY <1>9, <2>1, <2>2, <2>3, <2>10, <2>12 DEF k, n
<1>10. CASE r.missing # 0
  <2>1. Ragged(k) /\ Wholes(k) = L
    BY <1>0, <1>1, <1>2, <1>8, <1>10 DEF Ragged, Wholes
  <2>2. Excess(k, c) = n /\ (L > 0 => c =< k[L].seq)
    BY <1>0, <1>1, <1>2, <2>1 DEF Excess
  <2>3. Consecutive(k, c)
    BY <1>0, <1>2, <1>6, <1>7, <1>8, <2>1, <2>2 DEF Consecutive
  <2>4. /\ Behinds(k, c) = [i \in 1..n |-> k[L - n + i].id]
        /\ Beyond(k, c) = {Behinds(k, c)[i] : i \in 1..n}
    BY <2>1, <2>2, <2>3, BehindsIs
  <2>5. /\ Behinds(j, c) = [i \in 1..n |-> j[L - n + i].id]
        /\ Beyond(j, c) = {Behinds(j, c)[i] : i \in 1..n}
    BY <1>1, BehindsIs DEF n
  <2>6. \A i \in 1..n : L - n + i \in 1..L
    BY <1>1
  <2>7. Behinds(k, c) = Behinds(j, c)
    BY <1>2, <2>4, <2>5, <2>6
  <2>8. Beyond(k, c) = Beyond(j, c)
    BY <2>4, <2>5, <2>7
  <2> QED
    BY <1>10, <2>1, <2>2, <2>3, <2>7, <2>8 DEF k, n
<1> QED
  BY <1>9, <1>10

\* A snapshot that covers more of the journal.
LEMMA CoveredMore ==
  ASSUME NEW j, NEW c, Consecutive(j, c), NEW d \in c..(c + Excess(j, c))
  PROVE  /\ Consecutive(j, d)
         /\ Excess(j, d) = c + Excess(j, c) - d
         /\ Beyond(j, d) \subseteq Beyond(j, c)
PROOF
<1>0. c \in Nat /\ Len(j) \in Nat /\ Wholes(j) \in 0..Len(j) /\ Excess(j, c) \in 0..Wholes(j)
  BY SuffixIs DEF Consecutive
<1>1. d \in Nat /\ c =< d /\ d =< c + Excess(j, c)
  BY <1>0
<1>2. Wholes(j) > 0 => j[Wholes(j)].seq = c + Excess(j, c)
  BY SuffixIs
<1>3. Wholes(j) = 0 => Excess(j, c) = 0
  BY <1>0
<1>4. Consecutive(j, d)
  <2>1. j # <<>> => j[1].seq \in 1..(d + 1)
    BY <1>0, <1>1 DEF Consecutive
  <2>2. Wholes(j) > 0 => d =< j[Wholes(j)].seq
    BY <1>1, <1>2
  <2> QED
    BY <1>1, <2>1, <2>2 DEF Consecutive
<1>5. Excess(j, d) = c + Excess(j, c) - d
  BY <1>0, <1>1, <1>2, <1>3 DEF Excess
<1>6. /\ Places(j, c) = (Wholes(j) - Excess(j, c) + 1)..Wholes(j)
      /\ Places(j, d) = (Wholes(j) - Excess(j, d) + 1)..Wholes(j)
  BY <1>4, SuffixIs
<1>7. Places(j, d) \subseteq Places(j, c)
  BY <1>0, <1>1, <1>5, <1>6
<1> QED
  BY <1>4, <1>5, <1>7 DEF Beyond

\* Reopening cuts off the record that is not all there.
LEMMA CutJournal ==
  ASSUME NEW j, NEW c, Consecutive(j, c)
  PROVE  LET k == Intact(j, Scanned(j, c))
         IN  /\ Consecutive(k, c) /\ ~Ragged(k)
             /\ Excess(k, c) = Excess(j, c)
             /\ Behinds(k, c) = Behinds(j, c) /\ Beyond(k, c) = Beyond(j, c)
PROOF
<1> DEFINE W == Wholes(j)
           k == SubSeq(j, 1, W)
           n == Excess(j, c)
<1>0. j \in Seq(Piece) /\ c \in Nat
  BY DEF Consecutive
<1>1. /\ Len(j) \in Nat /\ W \in 0..Len(j) /\ n \in 0..W
      /\ \A i \in 1..Len(j) : j[i].seq \in Nat /\ j[i].missing \in Nat
      /\ Stop(j, Scanned(j, c)) = W + 1
      /\ (j # <<>> <=> Len(j) > 0)
  BY <1>0, FileFacts, SuffixIs, ScanIs
<1>2. Intact(j, Scanned(j, c)) = k
  <2>1. Stop(j, Scanned(j, c)) - 1 = W
    BY <1>1
  <2> QED
    BY <2>1 DEF Intact
<1>3. k \in Seq(Piece) /\ Len(k) = W /\ \A i \in 1..W : k[i] = j[i]
  BY <1>0, <1>1
<1>4. \A i \in 1..W : i \in 1..Len(j) /\ j[i].seq = j[1].seq + i - 1 /\ j[i].missing = 0
  <2>1. \A i \in 1..Len(j) : j[i].seq = j[1].seq + i - 1 /\ (i < Len(j) => j[i].missing = 0)
    BY DEF Consecutive
  <2>2. W = Len(j) /\ W > 0 => j[W].missing = 0
    BY <1>1 DEF Wholes, Ragged
  <2>3. \A i \in 1..W : i \in 1..Len(j)
    BY <1>1
  <2>4. \A i \in 1..W : j[i].missing = 0
    <3>1. Len(j) \in Nat /\ W \in 0..Len(j)
      BY <1>1
    <3> HIDE DEF W
    <3>2. \A i \in 1..W : i < Len(j) \/ (i = W /\ W = Len(j) /\ W > 0)
      BY <3>1
    <3> QED
      BY <2>1, <2>2, <2>3, <3>2
  <2> QED
    BY <2>1, <2>3, <2>4
<1>5. W > 0 => j[1].seq \in 1..(c + 1) /\ c =< j[W].seq
  BY <1>1 DEF Consecutive
<1>6. (W > 0 => n = j[W].seq - c) /\ (~(W > 0) => n = 0)
  BY DEF Excess
<1> HIDE DEF k, n, W
<1>7. ~Ragged(k) /\ Wholes(k) = W /\ (k # <<>> <=> W > 0)
  <2>1. k # <<>> <=> W > 0
    BY <1>1, <1>3
  <2>2. ~Ragged(k)
    BY <1>1, <1>3, <1>4, <2>1 DEF Ragged
  <2> QED
    BY <1>3, <2>1, <2>2 DEF Wholes
<1>8. \A i \in 1..W : k[i].seq = k[1].seq + i - 1 /\ k[i].missing = 0
  <2> SUFFICES ASSUME NEW i \in 1..W
               PROVE  k[i].seq = k[1].seq + i - 1 /\ k[i].missing = 0
    OBVIOUS
  <2>1. 1 \in 1..W
    BY <1>1
  <2>2. k[i] = j[i] /\ k[1] = j[1]
    BY <1>3, <2>1
  <2> QED
    BY <1>4, <2>2
<1>9. W > 0 => k[1].seq = j[1].seq /\ k[W].seq = j[W].seq
  BY <1>1, <1>3
<1>10. Consecutive(k, c)
  BY <1>0, <1>3, <1>5, <1>7, <1>8, <1>9 DEF Consecutive
<1>11. Excess(k, c) = n
  BY <1>1, <1>6, <1>7, <1>9 DEF Excess
<1>12. /\ Behinds(k, c) = [i \in 1..n |-> k[W - n + i].id]
       /\ Beyond(k, c) = {Behinds(k, c)[i] : i \in 1..n}
  BY <1>7, <1>10, <1>11, BehindsIs
<1>13. /\ Behinds(j, c) = [i \in 1..n |-> j[W - n + i].id]
       /\ Beyond(j, c) = {Behinds(j, c)[i] : i \in 1..n}
  BY BehindsIs DEF n, W
<1>14. \A i \in 1..n : W - n + i \in 1..W
  BY <1>1
<1>15. Behinds(k, c) = Behinds(j, c)
  BY <1>3, <1>12, <1>13, <1>14
<1>16. Beyond(k, c) = Beyond(j, c)
  BY <1>12, <1>13, <1>15
<1> QED
  BY <1>2, <1>7, <1>10, <1>11, <1>15, <1>16 DEF n

-----------------------------------------------------------------------------
(* Sequences, and the fields of the process. *)

\* The elements of a concatenation.
LEMMA ConcatRange ==
  ASSUME NEW X, NEW s \in Seq(X), NEW t \in Seq(X)
  PROVE  s \o t \in Seq(X) /\ Range(s \o t) = Range(s) \cup Range(t)
PROOF
<1>1. /\ s \o t \in Seq(X) /\ Len(s \o t) = Len(s) + Len(t) /\ Len(s) \in Nat /\ Len(t) \in Nat
      /\ DOMAIN s = 1..Len(s) /\ DOMAIN t = 1..Len(t) /\ DOMAIN (s \o t) = 1..(Len(s) + Len(t))
  OBVIOUS
<1>2. \A i \in 1..Len(s) : i \in 1..(Len(s) + Len(t)) /\ (s \o t)[i] = s[i]
  BY <1>1
<1>3. \A i \in 1..Len(t) : Len(s) + i \in 1..(Len(s) + Len(t)) /\ (s \o t)[Len(s) + i] = t[i]
  BY <1>1
<1>4. ASSUME NEW i \in 1..(Len(s) + Len(t))
      PROVE  (s \o t)[i] \in Range(s) \cup Range(t)
  <2>1. CASE i =< Len(s)
    BY <1>1, <1>2, <2>1 DEF Range
  <2>2. CASE i > Len(s)
    <3>1. i - Len(s) \in 1..Len(t) /\ Len(s) + (i - Len(s)) = i
      BY <1>1, <2>2
    <3>2. (s \o t)[i] = t[i - Len(s)]
      BY <1>3, <3>1
    <3> QED
      BY <1>1, <3>1, <3>2 DEF Range
  <2> QED
    BY <1>1, <2>1, <2>2
<1>5. Range(s) \subseteq Range(s \o t) /\ Range(t) \subseteq Range(s \o t)
  BY <1>1, <1>2, <1>3 DEF Range
<1>6. Range(s \o t) \subseteq Range(s) \cup Range(t)
  <2> SUFFICES ASSUME NEW y \in Range(s \o t) PROVE y \in Range(s) \cup Range(t)
    OBVIOUS
  <2>1. PICK i \in 1..(Len(s) + Len(t)) : y = (s \o t)[i]
    BY <1>1 DEF Range
  <2> QED
    BY <1>4, <2>1
<1> QED
  BY <1>1, <1>5, <1>6

\* The elements of a sequence with one more.
LEMMA AppendRange ==
  ASSUME NEW X, NEW s \in Seq(X), NEW x \in X
  PROVE  Append(s, x) \in Seq(X) /\ Range(Append(s, x)) = Range(s) \cup {x}
PROOF
<1>1. /\ Append(s, x) \in Seq(X) /\ Len(Append(s, x)) = Len(s) + 1 /\ Len(s) \in Nat
      /\ DOMAIN s = 1..Len(s) /\ DOMAIN Append(s, x) = 1..(Len(s) + 1)
      /\ \A i \in 1..Len(s) : Append(s, x)[i] = s[i]
      /\ Append(s, x)[Len(s) + 1] = x
  OBVIOUS
<1>2. 1..(Len(s) + 1) = (1..Len(s)) \cup {Len(s) + 1}
  BY <1>1
<1> QED
  BY <1>1, <1>2 DEF Range

\* Sequences with the same elements are equal.
LEMMA SameElements ==
  ASSUME NEW X, NEW s \in Seq(X), NEW t \in Seq(X), NEW n, Len(s) = n, Len(t) = n,
         \A i \in 1..n : s[i] = t[i]
  PROVE  s = t
  OBVIOUS

\* The first element of t may as well be the last one of s.
LEMMA MovedOver ==
  ASSUME NEW X, NEW s \in Seq(X), NEW t \in Seq(X), t # <<>>
  PROVE  s \o t = Append(s, t[1]) \o Tail(t)
PROOF
<1>1. /\ s \o t \in Seq(X) /\ Len(s \o t) = Len(s) + Len(t) /\ Len(s) \in Nat /\ Len(t) \in Nat
      /\ Len(t) > 0 /\ t[1] \in X
      /\ Append(s, t[1]) \in Seq(X) /\ Len(Append(s, t[1])) = Len(s) + 1
      /\ Tail(t) \in Seq(X) /\ Len(Tail(t)) = Len(t) - 1
  OBVIOUS
<1>2. /\ \A i \in 1..Len(s) : Append(s, t[1])[i] = s[i]
      /\ Append(s, t[1])[Len(s) + 1] = t[1]
      /\ \A i \in 1..(Len(t) - 1) : Tail(t)[i] = t[i + 1]
  BY <1>1
<1> DEFINE a == Append(s, t[1])
           b == Tail(t)
<1> HIDE DEF a, b
<1>3. a \o b \in Seq(X) /\ Len(a \o b) = Len(s) + Len(t)
  BY <1>1 DEF a, b
<1>4. ASSUME NEW i \in 1..(Len(s) + Len(t))
      PROVE  (s \o t)[i] = (a \o b)[i]
  <2>0. /\ a \in Seq(X) /\ b \in Seq(X) /\ Len(a) = Len(s) + 1 /\ Len(b) = Len(t) - 1
        /\ \A p \in 1..Len(s) : a[p] = s[p]
        /\ a[Len(s) + 1] = t[1]
        /\ \A p \in 1..(Len(t) - 1) : b[p] = t[p + 1]
    BY <1>1, <1>2 DEF a, b
  <2>1. CASE i =< Len(s)
    BY <1>1, <2>0, <2>1
  <2>2. CASE i = Len(s) + 1
    BY <1>1, <2>0, <2>2
  <2>3. CASE i > Len(s) + 1
    <3>1. (s \o t)[i] = t[i - Len(s)]
      BY <1>1, <2>3
    <3>2. (a \o b)[i] = b[i - Len(a)] /\ i - Len(a) \in 1..(Len(t) - 1)
      BY <1>1, <2>0, <2>3
    <3>3. b[i - Len(a)] = t[i - Len(a) + 1]
      BY <2>0, <3>2
    <3>4. i - Len(a) + 1 = i - Len(s)
      <4>1. Len(s) \in Int /\ i \in Int /\ Len(a) = Len(s) + 1
        BY <1>1, <2>0
      <4> QED
        BY <4>1
    <3> QED
      BY <3>1, <3>2, <3>3, <3>4
  <2>4. i =< Len(s) \/ i = Len(s) + 1 \/ i > Len(s) + 1
    BY <1>1
  <2> QED
    BY <2>1, <2>2, <2>3, <2>4
<1>5. s \o t = a \o b
  BY <1>1, <1>3, <1>4, SameElements
<1> QED
  BY <1>5 DEF a, b

\* An element that is appended behind a concatenation.
LEMMA ConcatAppend ==
  ASSUME NEW X, NEW s \in Seq(X), NEW t \in Seq(X), NEW x \in X
  PROVE  s \o Append(t, x) = Append(s \o t, x)
PROOF
<1> DEFINE a == Append(t, x)
           b == s \o t
<1>1. /\ a \in Seq(X) /\ Len(a) = Len(t) + 1 /\ a[Len(t) + 1] = x
      /\ \A i \in 1..Len(t) : a[i] = t[i]
      /\ b \in Seq(X) /\ Len(b) = Len(s) + Len(t) /\ Len(s) \in Nat /\ Len(t) \in Nat
  OBVIOUS
<1>2. \A i \in 1..(Len(s) + Len(t)) : b[i] = IF i =< Len(s) THEN s[i] ELSE t[i - Len(s)]
  BY <1>1
<1> HIDE DEF a, b
<1>3. s \o a \in Seq(X) /\ Len(s \o a) = Len(b) + 1
  <2>1. a \in Seq(X) /\ Len(a) = Len(t) + 1 /\ Len(b) = Len(s) + Len(t)
    BY <1>1
  <2>2. s \o a \in Seq(X) /\ Len(s \o a) = Len(s) + Len(a)
    BY <2>1
  <2> QED
    BY <1>1, <2>1, <2>2
<1>4. (s \o a)[Len(b) + 1] = x
  BY <1>1
<1>5. ASSUME NEW i \in 1..Len(b)
      PROVE  (s \o a)[i] = b[i]
  <2>1. CASE i =< Len(s)
    BY <1>1, <1>2, <2>1
  <2>2. CASE i > Len(s)
    <3>1. (s \o a)[i] = a[i - Len(s)] /\ i - Len(s) \in 1..Len(t)
      BY <1>1, <2>2
    <3> QED
      BY <1>1, <1>2, <2>2, <3>1
  <2> QED
    BY <1>1, <2>1, <2>2
<1>6. s \o a = Append(b, x)
  BY <1>1, <1>3, <1>4, <1>5, OneLonger
<1> QED
  BY <1>6 DEF a, b

\* The same for numbers.
LEMMA ConcatAppendNat ==
  ASSUME NEW s \in Seq(Nat), NEW t \in Seq(Nat), NEW x \in Nat
  PROVE  s \o Append(t, x) = Append(s \o t, x)
  BY ConcatAppend

\* The fields of a process.
LEMMA ProcessFields ==
  ASSUME NEW p \in Process
  PROVE  /\ p.phase \in {"down", "opening", "ready"}
         /\ p.pc \in {"idle", "append", "snapshot", "close", "rotate"}
         /\ p.mem \in Seq(Nat) /\ p.regSeq \in Nat /\ p.pending \in Seq(Nat \X Nat)
         /\ p.batch \in SUBSET Nat /\ p.handle \in BOOLEAN /\ p.last \in Nat /\ p.since \in Nat
         /\ p.flast \in Nat /\ p.floor \in [Extents -> [hw: Nat, owner: Nat]]
  BY DEF Process

\* emit().
LEMMA EmittedFields ==
  ASSUME NEW p \in Process, NEW k \in Nat, nextId \in Nat
  PROVE  /\ Emitted(p, k) \in Process
         /\ Emitted(p, k).pc = "append" /\ Emitted(p, k).phase = p.phase
         /\ Emitted(p, k).mem = p.mem \o [i \in 1..k |-> nextId + i]
         /\ Emitted(p, k).regSeq = p.regSeq + k
         /\ Emitted(p, k).pending = [i \in 1..k |-> <<p.regSeq + i, nextId + i>>]
         /\ Emitted(p, k).batch = (nextId + 1)..(nextId + k)
         /\ Emitted(p, k).handle = p.handle /\ Emitted(p, k).last = p.last
         /\ Emitted(p, k).since = p.since
         /\ Emitted(p, k).flast = p.flast /\ Emitted(p, k).floor = p.floor
PROOF
<1>1. [i \in 1..k |-> nextId + i] \in Seq(Nat)
  OBVIOUS
<1>2. p.mem \o [i \in 1..k |-> nextId + i] \in Seq(Nat)
  BY <1>1, ProcessFields
<1>3. [i \in 1..k |-> <<p.regSeq + i, nextId + i>>] \in Seq(Nat \X Nat)
  BY ProcessFields
<1>4. (nextId + 1)..(nextId + k) \in SUBSET Nat /\ p.regSeq + k \in Nat
  BY ProcessFields
<1> DEFINE m == p.mem \o [i \in 1..k |-> nextId + i]
           w == [i \in 1..k |-> <<p.regSeq + i, nextId + i>>]
           b == (nextId + 1)..(nextId + k)
           q == [p EXCEPT !.pc = "append", !.mem = m, !.regSeq = p.regSeq + k,
                          !.pending = w, !.batch = b]
<1>5. Emitted(p, k) = q
  BY DEF Emitted
<1> HIDE DEF m, w, b
<1>6. m \in Seq(Nat) /\ w \in Seq(Nat \X Nat) /\ b \in SUBSET Nat
  BY <1>2, <1>3, <1>4 DEF m, w, b
<1>7. /\ q \in Process /\ q.pc = "append" /\ q.phase = p.phase /\ q.mem = m
      /\ q.regSeq = p.regSeq + k /\ q.pending = w /\ q.batch = b
      /\ q.handle = p.handle /\ q.last = p.last /\ q.since = p.since
      /\ q.flast = p.flast /\ q.floor = p.floor
  BY <1>4, <1>6 DEF Process
<1> QED
  BY <1>5, <1>7 DEF m, w, b

\* A process that is down.
LEMMA DownFields == Down \in Process /\ Down.phase = "down" /\ Down.pc = "idle"
  BY DEF Down, Process, NoFloor

\* append_records that fails.
LEMMA FailedFields ==
  ASSUME NEW p \in Process
  PROVE  /\ Failed(p) \in Process /\ Failed(p).pc = "idle"
         /\ p.phase = "opening" => Failed(p) = Down
         /\ p.phase # "opening" =>
              /\ Failed(p).phase = p.phase /\ Failed(p).pending = <<>>
              /\ Failed(p).mem = p.mem /\ Failed(p).regSeq = p.regSeq
              /\ Failed(p).batch = p.batch /\ Failed(p).last = p.last
              /\ Failed(p).flast = p.flast /\ Failed(p).floor = p.floor
PROOF
<1>1. CASE p.phase = "opening"
  BY <1>1, DownFields DEF Failed
<1>2. CASE p.phase # "opening"
  <2> DEFINE q == [p EXCEPT !.pc = "idle", !.pending = <<>>]
  <2>1. <<>> \in Seq(Nat \X Nat)
    OBVIOUS
  <2>2. q \in Process
    BY <2>1 DEF Process
  <2>3. /\ q.pc = "idle" /\ q.pending = <<>> /\ q.phase = p.phase /\ q.mem = p.mem
        /\ q.regSeq = p.regSeq /\ q.batch = p.batch /\ q.last = p.last
        /\ q.flast = p.flast /\ q.floor = p.floor
    BY DEF Process
  <2>4. Failed(p) = q
    BY <1>2 DEF Failed
  <2> QED
    BY <1>2, <2>2, <2>3, <2>4
<1> QED
  BY <1>1, <1>2

-----------------------------------------------------------------------------
(* The invariant of the journal. *)

\* The last sequence number a reader finds, and the one memory counts on in the file.
Tip == snapshot.covers + Excess(journal, snapshot.covers)

Offset == proc.regSeq - Len(proc.pending)

\* The ids that memory has and the journal is still to get.
Emits == [i \in 1..Len(proc.pending) |-> proc.pending[i][2]]

\* The files, whoever reads them.
FileInv ==
  /\ Consecutive(journal, snapshot.covers)
  /\ snapshot \in [covers: Nat, state: Seq(Nat), regSeq: Nat]
  /\ snapshot.covers =< snapshot.regSeq
  /\ nextId \in Nat
  /\ proc \in Process
  /\ proc.phase = "down" => proc.pc = "idle"
  /\ acked \subseteq Found
  /\ Found \subseteq 1..nextId

\* The numbers: the store is at the reader's tip, or one behind it where a write that
\* was reported as failed is in the file after all; in that case, and where a record
\* is not all there, memory's number has moved on and the store takes no other.
NumberInv ==
  /\ snapshot.covers =< proc.last /\ proc.last =< Tip /\ Tip =< proc.last + 1
  /\ proc.last =< Offset
  /\ Offset = proc.last => proc.last = Tip /\ ~Ragged(journal)
  /\ \A i \in 1..Len(proc.pending) :
       proc.pending[i] = <<Offset + i, nextId - Len(proc.pending) + i>>
  /\ proc.pc # "append" => proc.pending = <<>>

\* The contents: memory is what a reader finds and what is still to be appended, as
\* long as the numbers agree; it never lacks what a reader finds.
ContentInv ==
  /\ Offset = proc.last => proc.mem = Replayed \o Emits
  /\ proc.pc \in {"close", "rotate"} => snapshot.state = proc.mem /\ snapshot.covers = proc.last
  /\ proc.pc # "idle" /\ proc.pending = <<>> /\ Offset # proc.last => proc.batch = {}
  /\ proc.batch \subseteq Range(proc.mem)
  /\ Found \subseteq Range(proc.mem)
  /\ \A r \in Range(proc.mem) \ Found, q \in Found : q < r
  /\ Range(proc.mem) \subseteq 1..nextId

JournalInv == FileInv /\ (proc.phase # "down" => NumberInv /\ ContentInv)

\* What a step may do to the log a reader finds.
Grows ==
  /\ Found \subseteq Found'
  /\ \A r \in Found' \ Found, q \in Found : q < r
  /\ acked \subseteq acked'

\* The model's readers are those of the lemmas above.
LEMMA ReadersAre ==
  /\ JournalBad = Scanned(journal, snapshot.covers)
  /\ Behind = Suffix(journal, snapshot.covers)
  /\ Replayed = snapshot.state \o Behinds(journal, snapshot.covers)
  /\ Found = Range(snapshot.state) \cup Beyond(journal, snapshot.covers)
PROOF
<1>1. JournalBad = Scanned(journal, snapshot.covers)
  BY DEF JournalBad, Scanned
<1>2. Unseen = Places(journal, snapshot.covers)
  BY <1>1 DEF Unseen, Places
<1>3. Behind = Suffix(journal, snapshot.covers)
  BY <1>2 DEF Behind, Suffix
<1>4. Replayed = snapshot.state \o Behinds(journal, snapshot.covers)
  BY <1>3 DEF Replayed, Behinds
<1>5. Found = Range(snapshot.state) \cup Beyond(journal, snapshot.covers)
  BY <1>2 DEF Found, Beyond
<1> QED
  BY <1>1, <1>3, <1>4, <1>5

\* The same in the next state.
LEMMA NextReadersAre ==
  /\ JournalBad' = Scanned(journal', snapshot'.covers)
  /\ Replayed' = snapshot'.state \o Behinds(journal', snapshot'.covers)
  /\ Found' = Range(snapshot'.state) \cup Beyond(journal', snapshot'.covers)
  /\ Tip' = snapshot'.covers + Excess(journal', snapshot'.covers)
PROOF
<1>1. JournalBad' = Scanned(journal', snapshot'.covers)
  BY DEF JournalBad, Scanned
<1>2. Unseen' = Places(journal', snapshot'.covers)
  BY <1>1 DEF Unseen, Places
<1>3. Behind' = Suffix(journal', snapshot'.covers)
  BY <1>2 DEF Behind, Suffix
<1>4. Replayed' = snapshot'.state \o Behinds(journal', snapshot'.covers)
  BY <1>3 DEF Replayed, Behinds
<1>5. Found' = Range(snapshot'.state) \cup Beyond(journal', snapshot'.covers)
  BY <1>2 DEF Found, Beyond
<1>6. Tip' = snapshot'.covers + Excess(journal', snapshot'.covers)
  BY DEF Tip
<1> QED
  BY <1>1, <1>4, <1>5, <1>6

\* Files that stay as they are read the same.
LEMMA SameFiles ==
  ASSUME journal' = journal, snapshot' = snapshot
  PROVE  Found' = Found /\ Replayed' = Replayed /\ Tip' = Tip
  BY ReadersAre, NextReadersAre DEF Tip

\* A replay is a sequence of what a reader finds.
LEMMA ReplayIs ==
  ASSUME FileInv
  PROVE  /\ Replayed \in Seq(Nat) /\ Range(Replayed) = Found
         /\ Tip \in Nat /\ snapshot.covers \in Nat /\ snapshot.covers =< Tip
         /\ Excess(journal, snapshot.covers) \in Nat
         /\ snapshot.state \in Seq(Nat) /\ snapshot.regSeq \in Nat
         /\ journal \in Seq(Piece)
         /\ Found \subseteq Nat
PROOF
<1> DEFINE c == snapshot.covers
           b == Behinds(journal, c)
<1>1. /\ Consecutive(journal, c) /\ c \in Nat /\ snapshot.state \in Seq(Nat)
      /\ snapshot.regSeq \in Nat /\ nextId \in Nat /\ Found \subseteq 1..nextId
  BY DEF FileInv
<1>2. /\ b \in Seq(Nat) /\ Len(b) = Excess(journal, c) /\ Excess(journal, c) \in Nat
      /\ Beyond(journal, c) = {b[i] : i \in 1..Excess(journal, c)}
  BY <1>1, BehindsIs
<1>3. Range(b) = Beyond(journal, c)
  BY <1>2 DEF Range
<1>4. Replayed = snapshot.state \o b /\ Found = Range(snapshot.state) \cup Beyond(journal, c)
  BY ReadersAre
<1> HIDE DEF b
<1>5. Replayed \in Seq(Nat) /\ Range(Replayed) = Found
  BY <1>1, <1>2, <1>3, <1>4, ConcatRange
<1>6. Tip \in Nat /\ c =< Tip
  BY <1>1, <1>2 DEF Tip
<1>7. journal \in Seq(Piece) /\ Found \subseteq Nat
  BY <1>1 DEF Consecutive
<1> QED
  BY <1>1, <1>2, <1>5, <1>6, <1>7

\* What is pending.
LEMMA PendingIs ==
  ASSUME FileInv, NumberInv
  PROVE  /\ proc.pending \in Seq(Nat \X Nat) /\ Len(proc.pending) \in Nat
         /\ (proc.pending = <<>> <=> Len(proc.pending) = 0)
         /\ proc.regSeq \in Nat /\ proc.last \in Nat /\ Offset \in Int
         /\ Emits \in Seq(Nat) /\ Len(Emits) = Len(proc.pending)
         /\ \A i \in 1..Len(proc.pending) : Emits[i] = nextId - Len(proc.pending) + i
         /\ Offset = proc.regSeq - Len(proc.pending)
         /\ proc.pending = <<>> => Emits = <<>>
PROOF
<1>1. /\ proc.pending \in Seq(Nat \X Nat) /\ proc.regSeq \in Nat /\ proc.last \in Nat
      /\ nextId \in Nat
  BY ProcessFields DEF FileInv
<1>2. Len(proc.pending) \in Nat /\ (proc.pending = <<>> <=> Len(proc.pending) = 0)
  BY <1>1
<1>3. \A i \in 1..Len(proc.pending) : proc.pending[i][2] \in Nat
  BY <1>1
<1>4. Emits \in Seq(Nat) /\ Len(Emits) = Len(proc.pending)
  BY <1>2, <1>3 DEF Emits
<1>5. \A i \in 1..Len(proc.pending) : Emits[i] = nextId - Len(proc.pending) + i
  BY DEF NumberInv, Emits
<1>6. Offset \in Int /\ Offset = proc.regSeq - Len(proc.pending)
  BY <1>1, <1>2 DEF Offset
<1>7. proc.pending = <<>> => Emits = <<>>
  BY <1>2, <1>4
<1> QED
  BY <1>1, <1>2, <1>4, <1>5, <1>6, <1>7

\* The ids that are to be appended ascend.
LEMMA EmitsAscend ==
  ASSUME FileInv, NumberInv, NEW i \in 1..Len(proc.pending)
  PROVE  Emits[i] = Emits[1] \/ Emits[1] < Emits[i]
PROOF
<1>1. Len(proc.pending) \in Nat /\ nextId \in Nat
  BY PendingIs DEF FileInv
<1>2. i \in Int /\ 1 =< i /\ 1 \in 1..Len(proc.pending)
  BY <1>1
<1>3. Emits[i] = nextId - Len(proc.pending) + i /\ Emits[1] = nextId - Len(proc.pending) + 1
  BY <1>2, PendingIs
<1> DEFINE n == nextId - Len(proc.pending)
<1>4. n \in Int
  BY <1>1
<1> HIDE DEF n
<1>5. i # 1 => n + 1 < n + i
  BY <1>2, <1>4
<1> QED
  BY <1>3, <1>5 DEF n

\* The journal of the first process.
LEMMA JournalInit == Init => JournalInv
PROOF
<1> SUFFICES ASSUME Init PROVE JournalInv
  OBVIOUS
<1>1. /\ journal = <<>> /\ snapshot = [covers |-> 0, state |-> <<>>, regSeq |-> 0]
      /\ proc = Down /\ nextId = 0 /\ acked = {}
  BY DEF Init
<1>2. snapshot \in [covers: Nat, state: Seq(Nat), regSeq: Nat] /\ snapshot.covers = 0
      /\ snapshot.state = <<>> /\ snapshot.regSeq = 0
  BY <1>1
<1>3. Consecutive(<<>>, 0) /\ Excess(<<>>, 0) = 0
  BY EmptyJournal
<1>4. Beyond(<<>>, 0) = {}
  <2>1. Beyond(<<>>, 0) = {Behinds(<<>>, 0)[i] : i \in 1..0}
    BY <1>3, BehindsIs
  <2> QED
    BY <2>1
<1>5. Found = {}
  BY <1>1, <1>2, <1>4, ReadersAre DEF Range
<1>6. FileInv
  BY <1>1, <1>2, <1>3, <1>5, DownFields DEF FileInv
<1> QED
  BY <1>1, <1>6, DownFields DEF JournalInv

-----------------------------------------------------------------------------
(* Each step preserves it, and lets what a reader finds only grow. *)

\* Nothing of the journal, of memory or of the store moves; a request may end.
LEMMA SameJournal ==
  ASSUME JournalInv,
         UNCHANGED <<journal, snapshot, nextId>>, acked \subseteq acked', acked' \subseteq Found,
         proc' \in Process, proc'.phase = "down" => proc'.pc = "idle",
         proc'.phase # "down" =>
           /\ proc.phase # "down"
           /\ proc'.mem = proc.mem /\ proc'.regSeq = proc.regSeq /\ proc'.last = proc.last
           /\ proc'.pending = proc.pending \/ proc'.pending = <<>>
           /\ proc'.pc # "append" => proc'.pending = <<>>
           /\ proc'.pc \in {"close", "rotate"} => proc.pc \in {"close", "rotate"}
           /\ proc'.batch \subseteq proc.batch
           /\ proc'.pc # "idle" => proc.pc # "idle" /\ proc'.pending = proc.pending
  PROVE  JournalInv' /\ Grows
PROOF
<1>1. Found' = Found /\ Replayed' = Replayed /\ Tip' = Tip
  BY SameFiles
<1>2. FileInv /\ FileInv'
  BY <1>1 DEF JournalInv, FileInv
<1>3. Grows
  BY <1>1 DEF Grows
<1>4. ASSUME proc'.phase # "down" PROVE NumberInv' /\ ContentInv'
  <2>1. NumberInv /\ ContentInv
    BY <1>4 DEF JournalInv
  <2>2. /\ proc.pending \in Seq(Nat \X Nat) /\ Len(proc.pending) \in Nat
        /\ (proc.pending = <<>> <=> Len(proc.pending) = 0)
        /\ proc.regSeq \in Nat /\ proc.last \in Nat
        /\ Offset = proc.regSeq - Len(proc.pending)
    BY <1>2, <2>1, PendingIs
  <2>3. Len(proc'.pending) \in {0, Len(proc.pending)} /\ Offset' = proc'.regSeq - Len(proc'.pending)
    BY <1>4, <2>2 DEF Offset
  <2>4. proc.last =< Offset
    BY <2>1 DEF NumberInv
  <2>5. CASE proc'.pending = proc.pending
    <3>1. Offset' = Offset /\ Emits' = Emits
      BY <1>4, <2>5 DEF Offset, Emits
    <3>2. NumberInv'
      BY <1>1, <1>4, <2>1, <2>5, <3>1 DEF NumberInv
    <3>3. ContentInv'
      BY <1>1, <1>4, <2>1, <2>5, <3>1 DEF ContentInv
    <3> QED
      BY <3>2, <3>3
  <2>6. CASE proc'.pending # proc.pending
    <3>1. proc'.pending = <<>> /\ Len(proc'.pending) = 0 /\ proc'.pc = "idle"
      BY <1>4, <2>6
    <3>2. Len(proc.pending) > 0
      BY <2>2, <2>6, <3>1
    <3>3. Offset' = proc.regSeq /\ Offset' > proc'.last
      BY <1>4, <2>2, <2>3, <2>4, <3>1, <3>2
    <3>4. Offset' # proc'.last /\ proc'.last =< Offset'
      BY <1>4, <2>2, <3>3
    <3>5. NumberInv'
      BY <1>1, <1>4, <2>1, <3>1, <3>4 DEF NumberInv
    <3>6. ContentInv'
      BY <1>1, <1>4, <2>1, <3>1, <3>4 DEF ContentInv
    <3> QED
      BY <3>5, <3>6
  <2> QED
    BY <2>5, <2>6
<1> QED
  BY <1>2, <1>3, <1>4 DEF JournalInv

\* A request that fails, or a boot that does, and what is not in the file is lost.
LEMMA FailedStep ==
  ASSUME JournalInv, proc.phase # "down", UNCHANGED <<journal, snapshot, nextId, acked>>,
         proc' = Failed(proc)
  PROVE  JournalInv' /\ Grows
PROOF
<1>1. proc \in Process /\ acked \subseteq Found
  BY DEF JournalInv, FileInv
<1>2. CASE proc.phase = "opening"
  BY <1>1, <1>2, FailedFields, DownFields, SameJournal
<1>3. CASE proc.phase # "opening"
  <2>1. /\ proc' \in Process /\ proc'.pc = "idle" /\ proc'.phase = proc.phase
        /\ proc'.pending = <<>> /\ proc'.mem = proc.mem /\ proc'.regSeq = proc.regSeq
        /\ proc'.batch = proc.batch /\ proc'.last = proc.last
    BY <1>1, <1>3, FailedFields
  <2> QED
    BY <1>1, <2>1, SameJournal
<1> QED
  BY <1>2, <1>3

\* The ids of k new records.
LEMMA NewIds ==
  ASSUME NEW n \in Nat, NEW k \in Nat
  PROVE  /\ [i \in 1..k |-> n + i] \in Seq(Nat)
         /\ Len([i \in 1..k |-> n + i]) = k
         /\ Range([i \in 1..k |-> n + i]) = (n + 1)..(n + k)
PROOF
<1> DEFINE s == [i \in 1..k |-> n + i]
<1>1. s \in Seq(Nat) /\ Len(s) = k
  OBVIOUS
<1>2. \A y \in (n + 1)..(n + k) : y - n \in 1..k /\ s[y - n] = y
  OBVIOUS
<1>3. Range(s) = (n + 1)..(n + k)
  BY <1>2 DEF Range
<1> QED
  BY <1>1, <1>3

\* A handler that emits k records.
LEMMA EmitStep ==
  ASSUME JournalInv, proc.phase # "down", proc.pc = "idle", NEW k \in Nat,
         UNCHANGED <<journal, snapshot, acked>>, nextId' = nextId + k,
         proc' \in Process, proc'.phase = proc.phase, proc'.pc = "append",
         proc'.mem = proc.mem \o [i \in 1..k |-> nextId + i],
         proc'.regSeq = proc.regSeq + k,
         proc'.pending = [i \in 1..k |-> <<proc.regSeq + i, nextId + i>>],
         proc'.batch = (nextId + 1)..(nextId + k),
         proc'.last = proc.last
  PROVE  JournalInv' /\ Grows
PROOF
<1> DEFINE new == [i \in 1..k |-> nextId + i]
<1>0. FileInv /\ NumberInv /\ ContentInv /\ nextId \in Nat /\ proc \in Process
  BY DEF JournalInv, FileInv
<1>1. Found' = Found /\ Replayed' = Replayed /\ Tip' = Tip
  BY SameFiles
<1>2. proc.pending = <<>> /\ Offset = proc.regSeq /\ Emits = <<>> /\ Len(proc.pending) = 0
      /\ proc.regSeq \in Nat /\ proc.last \in Nat
  <2>1. proc.pending = <<>>
    BY <1>0 DEF NumberInv
  <2> QED
    BY <1>0, <2>1, PendingIs
<1>3. new \in Seq(Nat) /\ Range(new) = (nextId + 1)..(nextId + k)
  BY <1>0, NewIds
<1>4. Len(proc'.pending) = k /\ Offset' = proc.regSeq
  BY <1>2 DEF Offset
<1>5. Emits' = new
  <2>1. \A i \in 1..k : proc'.pending[i][2] = nextId + i
    OBVIOUS
  <2> QED
    BY <1>4, <2>1 DEF Emits
<1>6. FileInv'
  <2>1. nextId' \in Nat /\ 1..nextId \subseteq 1..nextId'
    BY <1>0
  <2> QED
    BY <1>0, <1>1, <2>1 DEF FileInv
<1>7. NumberInv'
  <2>1. \A i \in 1..k : proc'.pending[i] = <<Offset' + i, nextId' - Len(proc'.pending) + i>>
    BY <1>0, <1>4
  <2>2. Offset' = Offset /\ proc'.last = proc.last
    BY <1>2, <1>4
  <2> QED
    BY <1>0, <1>1, <1>4, <2>1, <2>2 DEF NumberInv
<1> HIDE DEF new
<1>8. /\ proc.mem \in Seq(Nat) /\ proc'.mem = proc.mem \o new
      /\ Range(proc'.mem) = Range(proc.mem) \cup Range(new)
  <2>1. proc.mem \in Seq(Nat)
    BY <1>0, ProcessFields
  <2>2. proc'.mem = proc.mem \o new
    BY DEF new
  <2>3. Range(proc.mem \o new) = Range(proc.mem) \cup Range(new)
    <3>1. new \in Seq(Nat)
      BY <1>3
    <3> QED
      BY <2>1, <3>1, ConcatRange
  <2> QED
    BY <2>1, <2>2, <2>3
<1>9. Offset' = proc'.last => proc'.mem = Replayed' \o Emits'
  <2> SUFFICES ASSUME Offset' = proc'.last PROVE proc'.mem = Replayed' \o Emits'
    OBVIOUS
  <2>1. proc.mem = Replayed \o <<>> /\ Replayed \in Seq(Nat)
    BY <1>0, <1>2, <1>4, ReplayIs DEF ContentInv
  <2>2. proc.mem = Replayed
    BY <2>1
  <2> QED
    BY <1>1, <1>5, <1>8, <2>2
<1>10. /\ Found \subseteq 1..nextId /\ Range(proc.mem) \subseteq 1..nextId
       /\ Found \subseteq Range(proc.mem)
       /\ \A r \in Range(proc.mem) \ Found, q \in Found : q < r
  BY <1>0 DEF FileInv, ContentInv
<1>11. \A r \in Range(proc'.mem) \ Found', q \in Found' : q < r
  <2>1. \A r \in (nextId + 1)..(nextId + k), q \in Found : q < r
    BY <1>0, <1>10
  <2> QED
    BY <1>1, <1>3, <1>8, <1>10, <2>1
<1>12. Range(proc'.mem) \subseteq 1..nextId'
  BY <1>0, <1>3, <1>8, <1>10
<1>13. proc'.pending = <<>> => proc'.batch = {}
  <2>1. proc'.pending = <<>> => k = 0
    BY <1>4
  <2> QED
    BY <1>0, <2>1
<1>14. ContentInv'
  BY <1>1, <1>3, <1>8, <1>9, <1>10, <1>11, <1>12, <1>13 DEF ContentInv
<1>15. Grows
  BY <1>1 DEF Grows
<1> QED
  BY <1>6, <1>7, <1>14, <1>15 DEF JournalInv

\* The journal has got a record of which m pieces are missing.
Wrote(m) == journal' = Append(journal, [Record EXCEPT !.missing = m])

\* What an append leaves in the file, all of the record or a part of it.
LEMMA Gained ==
  ASSUME FileInv, NumberInv, ContentInv, proc.pending # <<>>, Appendable(proc),
         NEW m \in 0..MaxMissing, Wrote(m), snapshot' = snapshot
  PROVE  /\ Consecutive(journal', snapshot'.covers)
         /\ Offset = proc.last /\ proc.last = Tip /\ Len(proc.pending) > 0
         /\ Record.seq = proc.last + 1
         /\ proc.mem = Replayed \o Emits
         /\ Emits[1] = nextId - Len(proc.pending) + 1
         /\ Found' \subseteq Range(proc.mem)
         /\ Found \subseteq Found'
         /\ \A r \in Range(proc.mem) \ Found', q \in Found' : q < r
         /\ \A r \in Found' \ Found, q \in Found : q < r
         /\ m = 0 => /\ ~Ragged(journal') /\ Tip' = Tip + 1
                     /\ Replayed' = Append(Replayed, Emits[1])
                     /\ Found' = Found \cup {Emits[1]}
         /\ m # 0 => Tip' = Tip /\ Found' = Found
PROOF
<1> DEFINE c == snapshot.covers
           b == Behinds(journal, c)
           r == [Record EXCEPT !.missing = m]
           x == Emits[1]
<1>1. /\ proc.pending \in Seq(Nat \X Nat) /\ Len(proc.pending) \in Nat /\ Len(proc.pending) > 0
      /\ proc.regSeq \in Nat /\ proc.last \in Nat /\ Offset \in Int
      /\ Emits \in Seq(Nat) /\ Len(Emits) = Len(proc.pending)
      /\ \A i \in 1..Len(proc.pending) : Emits[i] = nextId - Len(proc.pending) + i
  BY PendingIs
<1>2. nextId \in Nat /\ snapshot \in [covers: Nat, state: Seq(Nat), regSeq: Nat]
      /\ Consecutive(journal, c)
  BY DEF FileInv
<1>3. 1 \in 1..Len(proc.pending) /\ proc.pending[1] \in Nat \X Nat
      /\ proc.pending[1] = <<Offset + 1, nextId - Len(proc.pending) + 1>>
  <2>1. 1 \in 1..Len(proc.pending)
    BY <1>1
  <2>2. proc.pending[1] \in Nat \X Nat
    BY <1>1, <2>1
  <2>3. \A i \in 1..Len(proc.pending) :
          proc.pending[i] = <<Offset + i, nextId - Len(proc.pending) + i>>
    BY DEF NumberInv
  <2>4. proc.pending[1] = <<Offset + 1, nextId - Len(proc.pending) + 1>>
    BY <2>1, <2>3
  <2> QED
    BY <2>1, <2>2, <2>4
<1>4. proc.pending[1][1] = Offset + 1 /\ proc.pending[1][2] = x /\ x \in Nat
      /\ proc.pending[1][1] \in Nat
      /\ x = nextId - Len(proc.pending) + 1
  BY <1>1, <1>3
<1>5. Offset = proc.last
  BY <1>1, <1>4 DEF Appendable
<1>6. proc.last = Tip /\ ~Ragged(journal) /\ proc.mem = Replayed \o Emits
  BY <1>5 DEF NumberInv, ContentInv
<1>7. Record = [seq |-> proc.last + 1, id |-> x, missing |-> 0]
  BY <1>4, <1>5 DEF Record, Whole
<1>8. r \in Piece /\ r.seq = proc.last + 1 /\ r.id = x /\ r.missing = m /\ m \in Nat
  <2>1. r = [seq |-> proc.last + 1, id |-> x, missing |-> m]
    BY <1>7
  <2>2. r \in Piece
    BY <1>1, <1>4, <2>1 DEF Piece
  <2> QED
    BY <2>1, <2>2, MissingAssumption
<1>9. r.seq = c + Excess(journal, c) + 1
  BY <1>6, <1>8 DEF Tip
<1> HIDE DEF r, x
<1>10. /\ Consecutive(Append(journal, r), c)
       /\ r.missing = 0 => /\ ~Ragged(Append(journal, r))
                           /\ Excess(Append(journal, r), c) = Excess(journal, c) + 1
                           /\ Behinds(Append(journal, r), c) = Append(b, r.id)
                           /\ Beyond(Append(journal, r), c) = Beyond(journal, c) \cup {r.id}
       /\ r.missing # 0 => /\ Ragged(Append(journal, r))
                           /\ Excess(Append(journal, r), c) = Excess(journal, c)
                           /\ Behinds(Append(journal, r), c) = b
                           /\ Beyond(Append(journal, r), c) = Beyond(journal, c)
  BY <1>2, <1>6, <1>8, <1>9, AppendedPiece
<1>11. journal' = Append(journal, r) /\ snapshot'.covers = c /\ snapshot'.state = snapshot.state
  BY DEF r, Wrote
<1>12. /\ Replayed = snapshot.state \o b
       /\ Found = Range(snapshot.state) \cup Beyond(journal, c)
       /\ Replayed' = snapshot.state \o Behinds(journal', c)
       /\ Found' = Range(snapshot.state) \cup Beyond(journal', c)
       /\ Tip' = c + Excess(journal', c)
  BY <1>11, ReadersAre, NextReadersAre
<1>13. /\ Replayed \in Seq(Nat) /\ Range(Replayed) = Found
       /\ snapshot.state \in Seq(Nat) /\ b \in Seq(Nat)
       /\ Excess(journal, c) \in Nat /\ c \in Nat /\ Found \subseteq Nat
  BY <1>2, ReplayIs, BehindsIs
<1>14. m = 0 => /\ ~Ragged(journal') /\ Tip' = Tip + 1
                /\ Replayed' = Append(Replayed, x) /\ Found' = Found \cup {x}
  <2> SUFFICES ASSUME m = 0
               PROVE  /\ ~Ragged(journal') /\ Tip' = Tip + 1
                      /\ Replayed' = Append(Replayed, x) /\ Found' = Found \cup {x}
    OBVIOUS
  <2>1. /\ ~Ragged(journal') /\ Excess(journal', c) = Excess(journal, c) + 1
        /\ Behinds(journal', c) = Append(b, x)
        /\ Beyond(journal', c) = Beyond(journal, c) \cup {x}
    BY <1>8, <1>10, <1>11
  <2>2. Tip' = Tip + 1
    <3>1. Tip = c + Excess(journal, c)
      BY DEF Tip
    <3>2. Tip' = c + (Excess(journal, c) + 1)
      BY <1>12, <2>1
    <3> QED
      BY <1>13, <3>1, <3>2
  <2>3. Replayed' = Append(Replayed, x)
    <3> HIDE DEF b
    <3>1. snapshot.state \o Append(b, x) = Append(snapshot.state \o b, x)
      <4>1. x \in Nat
        BY <1>4 DEF x
      <4>2. snapshot.state \in Seq(Nat) /\ b \in Seq(Nat)
        BY <1>13
      <4> QED
        BY <4>1, <4>2, ConcatAppendNat
    <3> QED
      BY <1>12, <2>1, <3>1
  <2>4. Found' = Found \cup {x}
    BY <1>12, <2>1
  <2> QED
    BY <2>1, <2>2, <2>3, <2>4
<1>15. m # 0 => Tip' = Tip /\ Found' = Found
  BY <1>8, <1>10, <1>11, <1>12 DEF Tip
<1>16. Found' \in {Found, Found \cup {x}}
  BY <1>14, <1>15
<1>17. Range(proc.mem) = Found \cup Range(Emits) /\ x \in Range(Emits)
  <2>1. Range(Replayed \o Emits) = Range(Replayed) \cup Range(Emits)
    BY <1>1, <1>13, ConcatRange
  <2>2. x \in Range(Emits)
    BY <1>1, <1>3 DEF Range, x
  <2> QED
    BY <1>6, <1>13, <2>1, <2>2
<1>18. \A q \in Range(Emits) : q = x \/ x < q
  <2> SUFFICES ASSUME NEW q \in Range(Emits) PROVE q = x \/ x < q
    OBVIOUS
  <2>1. PICK i \in 1..Len(proc.pending) : q = Emits[i]
    BY <1>1 DEF Range
  <2> QED
    BY <2>1, EmitsAscend DEF x
<1>19. \A p \in Range(proc.mem) \ Found, q \in Found : q < p
  BY DEF ContentInv
<1>20. \A p \in Range(proc.mem) \ Found', q \in Found' : q < p
  <2> SUFFICES ASSUME NEW p \in Range(proc.mem) \ Found', NEW q \in Found' PROVE q < p
    OBVIOUS
  <2>1. CASE q \in Found
    BY <1>16, <1>19, <2>1
  <2>2. CASE q \notin Found
    <3>1. q = x /\ Found' = Found \cup {x}
      BY <1>16, <2>2
    <3>2. p \in Range(Emits) /\ p # x
      BY <1>17, <3>1
    <3> QED
      BY <1>18, <3>1, <3>2
  <2> QED
    BY <2>1, <2>2
<1>21. \A p \in Found' \ Found, q \in Found : q < p
  BY <1>16, <1>17, <1>19
<1>22. Found' \subseteq Range(proc.mem) /\ Found \subseteq Found'
  BY <1>16, <1>17
<1>23. Consecutive(journal', snapshot'.covers)
  BY <1>10, <1>11
<1>24. Record.seq = proc.last + 1
  BY <1>7
<1> QED
  BY <1>1, <1>4, <1>5, <1>6, <1>14, <1>15, <1>20, <1>21, <1>22, <1>23, <1>24 DEF x

\* A write that was interrupted, by its failure or by a crash, leaves the file as it was or
\* with a part of the record; memory is gone or has moved on.
LEMMA InterruptedStep ==
  ASSUME JournalInv, proc.phase # "down", proc.pending # <<>>, Appendable(proc),
         journal' \in Interrupted(journal, Record), proc' \in {Failed(proc), Down},
         UNCHANGED <<snapshot, nextId, acked>>
  PROVE  JournalInv' /\ Grows
PROOF
<1>0. FileInv /\ NumberInv /\ ContentInv /\ proc \in Process
  BY DEF JournalInv, FileInv
<1>1. CASE journal' = journal
  <2>1. CASE proc' = Failed(proc)
    BY <1>1, <2>1, FailedStep
  <2>2. CASE proc' = Down
    BY <1>0, <1>1, <2>2, DownFields, SameJournal DEF FileInv
  <2> QED
    BY <2>1, <2>2
<1>2. CASE journal' # journal
  <2>1. PICK m \in 0..MaxMissing : Wrote(m)
    BY <1>2 DEF Interrupted, Wrote
  <2>2. /\ Consecutive(journal', snapshot'.covers)
        /\ Offset = proc.last /\ proc.last = Tip /\ Len(proc.pending) > 0
        /\ Found' \subseteq Range(proc.mem)
        /\ Found \subseteq Found'
        /\ \A r \in Range(proc.mem) \ Found', q \in Found' : q < r
        /\ \A r \in Found' \ Found, q \in Found : q < r
        /\ Tip' \in {Tip, Tip + 1}
    BY <1>0, <2>1, Gained
  <2>3. Grows
    BY <2>2 DEF Grows
  <2>4. Range(proc.mem) \subseteq 1..nextId
    BY <1>0 DEF ContentInv
  <2>5. /\ proc' \in Process /\ proc'.pc = "idle"
        /\ proc'.phase # "down" =>
             /\ proc'.phase = proc.phase /\ proc'.pending = <<>> /\ proc'.mem = proc.mem
             /\ proc'.regSeq = proc.regSeq /\ proc'.batch = proc.batch /\ proc'.last = proc.last
    <3>1. CASE proc' = Down
      BY <3>1, DownFields
    <3>2. CASE proc' = Failed(proc) /\ proc.phase = "opening"
      BY <1>0, <3>2, FailedFields, DownFields
    <3>3. CASE proc' = Failed(proc) /\ proc.phase # "opening"
      BY <1>0, <3>3, FailedFields
    <3> QED
      BY <3>1, <3>2, <3>3
  <2>6. FileInv'
    <3>1. acked' \subseteq Found' /\ Found' \subseteq 1..nextId'
      BY <1>0, <2>2, <2>4 DEF FileInv
    <3> QED
      BY <1>0, <2>2, <2>5, <3>1 DEF FileInv
  <2>7. ASSUME proc'.phase # "down" PROVE NumberInv' /\ ContentInv'
    <3>1. /\ proc.regSeq \in Nat /\ proc.last \in Nat /\ Len(proc.pending) \in Nat
          /\ Offset = proc.regSeq - Len(proc.pending) /\ Tip \in Nat
      BY <1>0, PendingIs, ReplayIs
    <3>2. Offset' = proc.regSeq /\ Len(proc'.pending) = 0
      BY <2>5, <2>7, <3>1 DEF Offset
    <3>3. Offset' # proc'.last /\ proc'.last =< Offset'
      BY <2>2, <2>5, <2>7, <3>1, <3>2
    <3>4. snapshot'.covers =< proc'.last /\ proc'.last =< Tip' /\ Tip' =< proc'.last + 1
      <4>1. snapshot.covers =< proc.last
        BY <1>0 DEF NumberInv
      <4> QED
        BY <2>2, <2>5, <2>7, <3>1, <4>1
    <3>5. NumberInv'
      BY <2>5, <2>7, <3>2, <3>3, <3>4 DEF NumberInv
    <3>6. proc'.batch \subseteq Range(proc'.mem)
      BY <1>0, <2>5, <2>7 DEF ContentInv
    <3>7. ContentInv'
      BY <2>2, <2>4, <2>5, <2>7, <3>3, <3>6 DEF ContentInv
    <3> QED
      BY <3>5, <3>7
  <2> QED
    BY <2>3, <2>6, <2>7 DEF JournalInv
<1> QED
  BY <1>1, <1>2

\* Store::append.
LEMMA AppendStep ==
  ASSUME JournalInv, AppendRecord
  PROVE  JournalInv' /\ Grows
PROOF
<1>0. FileInv /\ NumberInv /\ ContentInv /\ proc \in Process /\ proc.phase # "down"
      /\ proc.pc = "append" /\ proc.pending # <<>>
      /\ UNCHANGED <<snapshot, nextId, acked>>
  BY DEF JournalInv, FileInv, AppendRecord
<1>1. CASE /\ Appendable(proc) /\ journal' = Append(journal, Record)
           /\ proc' = [proc EXCEPT !.pending = Tail(@), !.last = Record.seq, !.since = @ + 1]
  <2>1. /\ proc.pending \in Seq(Nat \X Nat) /\ Len(proc.pending) \in Nat /\ Len(proc.pending) > 0
        /\ proc.regSeq \in Nat /\ proc.last \in Nat
        /\ Offset = proc.regSeq - Len(proc.pending)
        /\ Emits \in Seq(Nat) /\ Len(Emits) = Len(proc.pending) /\ nextId \in Nat
    <3>1. nextId \in Nat
      BY <1>0 DEF FileInv
    <3>2. /\ proc.pending \in Seq(Nat \X Nat) /\ Len(proc.pending) \in Nat
          /\ (proc.pending = <<>> <=> Len(proc.pending) = 0)
          /\ proc.regSeq \in Nat /\ proc.last \in Nat
          /\ Offset = proc.regSeq - Len(proc.pending)
          /\ Emits \in Seq(Nat) /\ Len(Emits) = Len(proc.pending)
      BY <1>0, PendingIs
    <3>3. Len(proc.pending) > 0
      BY <1>0, <3>2
    <3> QED
      BY <3>1, <3>2, <3>3
  <2>2. Wrote(0) /\ 0 \in 0..MaxMissing
    <3>1. [Record EXCEPT !.missing = 0] = Record /\ 0 \in 0..MaxMissing
      BY MissingAssumption DEF Record, Whole
    <3> QED
      BY <1>1, <3>1 DEF Wrote
  <2>3. /\ Consecutive(journal', snapshot'.covers)
        /\ Offset = proc.last /\ proc.last = Tip
        /\ Record.seq = proc.last + 1
        /\ proc.mem = Replayed \o Emits
        /\ Found' \subseteq Range(proc.mem)
        /\ Found \subseteq Found'
        /\ \A r \in Range(proc.mem) \ Found', q \in Found' : q < r
        /\ \A r \in Found' \ Found, q \in Found : q < r
        /\ ~Ragged(journal') /\ Tip' = Tip + 1
        /\ Replayed' = Append(Replayed, Emits[1])
    BY <1>0, <1>1, <2>2, Gained
  <2>4. /\ Tail(proc.pending) \in Seq(Nat \X Nat) /\ Len(Tail(proc.pending)) = Len(proc.pending) - 1
        /\ \A i \in 1..(Len(proc.pending) - 1) : Tail(proc.pending)[i] = proc.pending[i + 1]
    BY <2>1
  <2>5. /\ proc' \in Process
        /\ proc'.pending = Tail(proc.pending) /\ proc'.last = proc.last + 1
        /\ proc'.mem = proc.mem /\ proc'.regSeq = proc.regSeq /\ proc'.batch = proc.batch
        /\ proc'.pc = "append" /\ proc'.phase = proc.phase
    <3> DEFINE w == Tail(proc.pending)
               l == Record.seq
               s == proc.since + 1
    <3>1. w \in Seq(Nat \X Nat) /\ l \in Nat /\ l = proc.last + 1 /\ s \in Nat
      <4>1. proc.since \in Nat /\ proc.last \in Nat /\ Record.seq = proc.last + 1
        BY <1>0, <2>3, ProcessFields
      <4>2. proc.since + 1 \in Nat /\ Record.seq \in Nat
        BY <4>1
      <4> QED
        BY <2>4, <4>1, <4>2
    <3>2. proc' = [proc EXCEPT !.pending = w, !.last = l, !.since = s]
      BY <1>1
    <3> HIDE DEF w, l, s
    <3>3. /\ proc' \in Process /\ proc'.pending = w /\ proc'.last = l
          /\ proc'.mem = proc.mem /\ proc'.regSeq = proc.regSeq /\ proc'.batch = proc.batch
          /\ proc'.pc = proc.pc /\ proc'.phase = proc.phase
      BY <1>0, <3>1, <3>2 DEF Process
    <3> QED
      BY <1>0, <3>1, <3>3 DEF w, l
  <2>6. Len(proc'.pending) = Len(proc.pending) - 1 /\ Offset' = Offset + 1
    BY <2>1, <2>4, <2>5 DEF Offset
  <2>7. Range(proc.mem) \subseteq 1..nextId
    BY <1>0 DEF ContentInv
  <2>8. FileInv'
    <3>1. acked' \subseteq Found' /\ Found' \subseteq 1..nextId'
      BY <1>0, <2>3, <2>7 DEF FileInv
    <3> QED
      BY <1>0, <2>3, <2>5, <3>1 DEF FileInv
  <2>9. NumberInv'
    <3>1. /\ snapshot'.covers =< proc'.last /\ proc'.last =< Tip' /\ Tip' =< proc'.last + 1
          /\ proc'.last = Offset' /\ proc'.last = Tip'
      <4>1. snapshot.covers =< proc.last /\ snapshot.covers \in Nat /\ Tip \in Nat
        BY <1>0, ReplayIs DEF NumberInv
      <4>2. /\ Offset = proc.last /\ proc.last = Tip /\ Tip' = Tip + 1 /\ Offset' = Offset + 1
            /\ proc'.last = proc.last + 1 /\ proc.last \in Nat /\ snapshot' = snapshot
        BY <1>0, <2>1, <2>3, <2>5, <2>6
      <4> QED
        BY <4>1, <4>2
    <3>2. proc'.last =< Offset'
      BY <2>1, <2>5, <3>1
    <3>3. ASSUME NEW i \in 1..Len(proc'.pending)
          PROVE  proc'.pending[i] = <<Offset' + i, nextId' - Len(proc'.pending) + i>>
      <4>1. i + 1 \in 1..Len(proc.pending) /\ proc'.pending[i] = proc.pending[i + 1]
        BY <2>1, <2>4, <2>5, <2>6
      <4>2. proc.pending[i + 1] = <<Offset + (i + 1), nextId - Len(proc.pending) + (i + 1)>>
        BY <1>0, <4>1 DEF NumberInv
      <4>3. /\ Offset + (i + 1) = Offset' + i
            /\ nextId - Len(proc.pending) + (i + 1) = nextId' - Len(proc'.pending) + i
        BY <1>0, <2>1, <2>6
      <4> QED
        BY <4>1, <4>2, <4>3
    <3> QED
      BY <2>3, <2>5, <3>1, <3>2, <3>3 DEF NumberInv
  <2>10. proc'.mem = Replayed' \o Emits'
    <3>1. Emits # <<>> /\ Tail(Emits) \in Seq(Nat) /\ Len(Tail(Emits)) = Len(proc.pending) - 1
          /\ \A i \in 1..(Len(proc.pending) - 1) : Tail(Emits)[i] = Emits[i + 1]
      BY <2>1
    <3>2. \A i \in 1..(Len(proc.pending) - 1) : i + 1 \in 1..Len(proc.pending)
      BY <2>1
    <3>3. \A i \in 1..(Len(proc.pending) - 1) : Emits'[i] = Tail(Emits)[i]
      BY <2>4, <2>5, <2>6, <3>1, <3>2 DEF Emits
    <3>4. Emits' \in Seq(Nat) /\ Len(Emits') = Len(proc.pending) - 1
      <4>1. Emits' = [i \in 1..(Len(proc.pending) - 1) |-> proc'.pending[i][2]]
        BY <2>6 DEF Emits
      <4>2. \A i \in 1..(Len(proc.pending) - 1) : proc'.pending[i][2] \in Nat
        BY <2>4, <2>5
      <4>3. Len(proc.pending) - 1 \in Nat
        BY <2>1
      <4> QED
        BY <4>1, <4>2, <4>3
    <3>5. Emits' = Tail(Emits)
      BY <3>1, <3>3, <3>4, SameElements
    <3>6. Replayed \o Emits = Append(Replayed, Emits[1]) \o Tail(Emits)
      <4>1. Replayed \in Seq(Nat)
        BY <1>0, ReplayIs
      <4> QED
        BY <2>1, <3>1, <4>1, MovedOver
    <3> QED
      BY <2>3, <2>5, <3>5, <3>6
  <2>11. ContentInv'
    <3>1. Offset' = proc'.last
      BY <2>1, <2>3, <2>5, <2>6
    <3>2. proc'.batch \subseteq Range(proc'.mem)
      BY <1>0, <2>5 DEF ContentInv
    <3> QED
      BY <1>0, <2>3, <2>5, <2>7, <2>10, <3>1, <3>2 DEF ContentInv
  <2>12. Grows
    BY <1>0, <2>3 DEF Grows
  <2> QED
    BY <2>8, <2>9, <2>11, <2>12 DEF JournalInv
<1>2. CASE /\ Appendable(proc) /\ journal' \in Interrupted(journal, Record)
           /\ proc' = Failed(proc)
  BY <1>0, <1>2, InterruptedStep
<1>3. CASE journal' = journal /\ proc' = Failed(proc)
  BY <1>0, <1>3, FailedStep
<1> QED
  BY <1>1, <1>2, <1>3 DEF AppendRecord

\* A request that is served, when nothing is left to append.
LEMMA ServedFields ==
  ASSUME NEW p \in Process
  PROVE  /\ Served(p) \in Process /\ Served(p).phase = "ready" /\ Served(p).pc = "idle"
         /\ Served(p).batch = {} /\ Served(p).mem = p.mem /\ Served(p).regSeq = p.regSeq
         /\ Served(p).last = p.last /\ Served(p).pending = p.pending
         /\ Served(p).flast = p.flast /\ Served(p).floor = p.floor
  BY DEF Served, Process

\* append_records after its last record: the answer, or the checkpoint.
LEMMA AppendsDoneStep ==
  ASSUME JournalInv, AppendsDone
  PROVE  JournalInv' /\ Grows
PROOF
<1>0. /\ FileInv /\ NumberInv /\ ContentInv /\ proc \in Process /\ proc.phase # "down"
      /\ proc.pc = "append" /\ proc.pending = <<>> /\ acked \subseteq Found
      /\ UNCHANGED <<journal, snapshot, nextId>>
  BY DEF JournalInv, FileInv, AppendsDone
<1>1. CASE proc' = Served(proc) /\ acked' = acked \cup proc.batch
  <2>1. proc.batch \subseteq Found
    <3>1. CASE Offset = proc.last
      <4>1. proc.mem = Replayed \o <<>> /\ Replayed \in Seq(Nat) /\ Range(Replayed) = Found
        BY <1>0, <3>1, PendingIs, ReplayIs DEF ContentInv
      <4>2. proc.mem = Replayed
        BY <4>1
      <4> QED
        BY <1>0, <4>1, <4>2 DEF ContentInv
    <3>2. CASE Offset # proc.last
      BY <1>0, <3>2 DEF ContentInv
    <3> QED
      BY <3>1, <3>2
  <2>2. /\ proc' \in Process /\ proc'.phase = "ready" /\ proc'.pc = "idle" /\ proc'.batch = {}
        /\ proc'.mem = proc.mem /\ proc'.regSeq = proc.regSeq /\ proc'.last = proc.last
        /\ proc'.pending = proc.pending
    BY <1>0, <1>1, ServedFields
  <2>3. acked \subseteq acked' /\ acked' \subseteq Found
    BY <1>0, <1>1, <2>1
  <2> QED
    BY <1>0, <2>2, <2>3, SameJournal
<1>2. CASE proc' = [proc EXCEPT !.pc = "snapshot"] /\ acked' = acked
  <2>1. /\ proc' \in Process /\ proc'.phase = proc.phase /\ proc'.pc = "snapshot"
        /\ proc'.batch = proc.batch /\ proc'.mem = proc.mem /\ proc'.regSeq = proc.regSeq
        /\ proc'.last = proc.last /\ proc'.pending = proc.pending
    BY <1>0, <1>2 DEF Process
  <2> QED
    BY <1>0, <1>2, <2>1, SameJournal
<1> QED
  BY <1>1, <1>2 DEF AppendsDone

\* The snapshot takes what is in memory, under the number of the last record in the
\* file: what a reader found before is in it, and what it adds is newer.
LEMMA SnapshotStep ==
  ASSUME JournalInv, WriteSnapshot
  PROVE  JournalInv' /\ Grows
PROOF
<1>0. /\ FileInv /\ NumberInv /\ ContentInv /\ proc \in Process /\ proc.phase # "down"
      /\ proc.pc = "snapshot" /\ UNCHANGED <<journal, nextId, acked>>
  BY DEF JournalInv, FileInv, WriteSnapshot
<1>1. CASE proc' = Failed(proc) /\ snapshot' = snapshot
  BY <1>0, <1>1, FailedStep
<1>2. CASE /\ snapshot' = [covers |-> proc.last, state |-> proc.mem, regSeq |-> proc.regSeq]
           /\ proc' = [proc EXCEPT !.pc = "close"]
  <2>0. /\ proc.mem \in Seq(Nat) /\ proc.regSeq \in Nat /\ proc.last \in Nat
        /\ Consecutive(journal, snapshot.covers) /\ nextId \in Nat
    BY <1>0, ProcessFields DEF FileInv
  <2>1. /\ proc' \in Process /\ proc'.phase = proc.phase /\ proc'.pc = "close"
        /\ proc'.batch = proc.batch /\ proc'.mem = proc.mem /\ proc'.regSeq = proc.regSeq
        /\ proc'.last = proc.last /\ proc'.pending = proc.pending
    BY <1>0, <1>2 DEF Process
  <2>2. /\ snapshot'.covers = proc.last /\ snapshot'.state = proc.mem
        /\ snapshot'.regSeq = proc.regSeq
        /\ snapshot' \in [covers: Nat, state: Seq(Nat), regSeq: Nat]
    BY <1>2, <2>0
  <2>3. /\ proc.pending = <<>> /\ Emits = <<>> /\ Offset = proc.regSeq
        /\ snapshot.covers \in Nat /\ Excess(journal, snapshot.covers) \in Nat /\ Tip \in Nat
    <3>1. proc.pending = <<>>
      BY <1>0 DEF NumberInv
    <3>2. Emits = <<>> /\ Offset = proc.regSeq
      BY <1>0, <2>0, <3>1, PendingIs
    <3> QED
      BY <1>0, <3>1, <3>2, ReplayIs
  <2>4. snapshot.covers =< proc.last /\ proc.last =< Tip /\ Tip =< proc.last + 1
        /\ proc.last =< Offset /\ Tip = snapshot.covers + Excess(journal, snapshot.covers)
    BY <1>0 DEF NumberInv, Tip
  <2>5. proc.last \in snapshot.covers..(snapshot.covers + Excess(journal, snapshot.covers))
    BY <2>0, <2>3, <2>4
  <2>6. /\ Consecutive(journal, proc.last)
        /\ Excess(journal, proc.last) = Tip - proc.last
        /\ Beyond(journal, proc.last) \subseteq Beyond(journal, snapshot.covers)
    <3>1. /\ Consecutive(journal, proc.last)
          /\ Excess(journal, proc.last)
               = snapshot.covers + Excess(journal, snapshot.covers) - proc.last
          /\ Beyond(journal, proc.last) \subseteq Beyond(journal, snapshot.covers)
      BY <2>0, <2>5, CoveredMore
    <3>2. Tip = snapshot.covers + Excess(journal, snapshot.covers)
      BY <2>4
    <3>3. Excess(journal, proc.last) = Tip - proc.last
      BY <2>0, <2>3, <3>1, <3>2
    <3> QED
      BY <3>1, <3>3
  <2>7. /\ Found \subseteq Range(proc.mem) /\ Range(proc.mem) \subseteq 1..nextId
        /\ \A r \in Range(proc.mem) \ Found, q \in Found : q < r
    BY <1>0 DEF ContentInv
  <2>8. Found' = Range(proc.mem)
    <3>1. Found' = Range(proc.mem) \cup Beyond(journal, proc.last)
      BY <1>0, <2>2, NextReadersAre
    <3>2. Beyond(journal, snapshot.covers) \subseteq Found
      BY ReadersAre
    <3> QED
      BY <2>6, <2>7, <3>1, <3>2
  <2>9. Tip' = Tip
    <3>1. Tip' = proc.last + Excess(journal, proc.last)
      BY <1>0, <2>2, NextReadersAre
    <3> QED
      BY <2>0, <2>3, <2>6, <3>1
  <2>10. Offset' = Offset /\ Emits' = Emits
    BY <2>1 DEF Offset, Emits
  <2>11. FileInv'
    <3>1. Consecutive(journal', snapshot'.covers) /\ snapshot'.covers =< snapshot'.regSeq
      BY <1>0, <2>2, <2>3, <2>4, <2>6
    <3>2. acked' \subseteq Found' /\ Found' \subseteq 1..nextId'
      BY <1>0, <2>7, <2>8 DEF FileInv
    <3> QED
      BY <1>0, <2>0, <2>1, <2>2, <3>1, <3>2 DEF FileInv
  <2>12. NumberInv'
    <3>1. snapshot'.covers =< proc'.last
      BY <2>0, <2>1, <2>2
    <3> QED
      BY <1>0, <2>1, <2>3, <2>9, <2>10, <3>1 DEF NumberInv
  <2>13. Offset' = proc'.last => proc'.mem = Replayed' \o Emits'
    <3> SUFFICES ASSUME Offset' = proc'.last PROVE proc'.mem = Replayed' \o Emits'
      OBVIOUS
    <3>1. proc.last = Tip
      BY <1>0, <2>1, <2>10 DEF NumberInv
    <3>2. Excess(journal, proc.last) = 0
      BY <2>3, <2>6, <3>1
    <3>3. Behinds(journal, proc.last) = <<>>
      <4>1. Behinds(journal, proc.last) \in Seq(Nat) /\ Len(Behinds(journal, proc.last)) = 0
        BY <2>6, <3>2, BehindsIs
      <4> QED
        BY <4>1
    <3>4. Replayed' = proc.mem \o <<>>
      BY <1>0, <2>2, <3>3, NextReadersAre
    <3>5. Replayed' = proc.mem
      BY <2>0, <3>4
    <3> QED
      BY <2>0, <2>1, <2>3, <2>10, <3>5
  <2>14. ContentInv'
    <3>1. proc.batch \subseteq Range(proc.mem)
          /\ (proc.pending = <<>> /\ Offset # proc.last => proc.batch = {})
      BY <1>0 DEF ContentInv
    <3> QED
      BY <1>0, <2>1, <2>2, <2>7, <2>8, <2>10, <2>13, <3>1 DEF ContentInv
  <2>15. Grows
    BY <1>0, <2>7, <2>8 DEF Grows
  <2> QED
    BY <2>11, <2>12, <2>14, <2>15 DEF JournalInv
<1> QED
  BY <1>1, <1>2 DEF WriteSnapshot

\* The journal is closed.
LEMMA CloseStep ==
  ASSUME JournalInv, CloseJournal
  PROVE  JournalInv' /\ Grows
PROOF
<1>0. /\ FileInv /\ proc \in Process /\ proc.phase # "down" /\ proc.pc = "close"
      /\ NumberInv /\ acked \subseteq Found /\ UNCHANGED <<journal, snapshot, nextId, acked>>
  BY DEF JournalInv, FileInv, CloseJournal
<1>1. CASE proc' = Failed(proc)
  BY <1>0, <1>1, FailedStep
<1>2. CASE proc' = [proc EXCEPT !.pc = "rotate", !.handle = FALSE]
  <2>1. /\ proc' \in Process /\ proc'.phase = proc.phase /\ proc'.pc = "rotate"
        /\ proc'.batch = proc.batch /\ proc'.mem = proc.mem /\ proc'.regSeq = proc.regSeq
        /\ proc'.last = proc.last /\ proc'.pending = proc.pending
    BY <1>0, <1>2 DEF Process
  <2>2. proc.pending = <<>>
    BY <1>0 DEF NumberInv
  <2> QED
    BY <1>0, <2>1, <2>2, SameJournal
<1> QED
  BY <1>1, <1>2 DEF CloseJournal

\* An empty journal behind a snapshot of all that is in memory: nothing is lost.
LEMMA EmptiedStep ==
  ASSUME JournalInv, proc.phase # "down", proc.pc = "rotate",
         journal' = <<>>, UNCHANGED <<snapshot, nextId>>,
         acked \subseteq acked', acked' \subseteq acked \cup proc.batch,
         proc' \in Process, proc'.pc = "idle",
         proc'.phase # "down" =>
           /\ proc'.mem = proc.mem /\ proc'.regSeq = proc.regSeq /\ proc'.last = proc.last
           /\ proc'.pending = <<>> /\ proc'.batch \subseteq proc.batch
  PROVE  JournalInv' /\ Grows
PROOF
<1>0. FileInv /\ NumberInv /\ ContentInv /\ proc \in Process
  BY DEF JournalInv, FileInv
<1>1. /\ snapshot.state = proc.mem /\ snapshot.covers = proc.last
      /\ Found \subseteq Range(proc.mem) /\ Range(proc.mem) \subseteq 1..nextId
      /\ proc.batch \subseteq Range(proc.mem)
  BY <1>0 DEF ContentInv
<1>2. /\ proc.pending = <<>> /\ Offset = proc.regSeq
      /\ proc.regSeq \in Nat /\ proc.last \in Nat /\ proc.mem \in Seq(Nat) /\ nextId \in Nat
      /\ proc.last =< Offset
  <2>1. proc.pending = <<>> /\ proc.last =< Offset
    BY <1>0 DEF NumberInv
  <2>2. proc.regSeq \in Nat /\ proc.last \in Nat /\ proc.mem \in Seq(Nat) /\ nextId \in Nat
    BY <1>0, ProcessFields DEF FileInv
  <2>3. Offset = proc.regSeq
    BY <1>0, <2>1, <2>2, PendingIs
  <2> QED
    BY <2>1, <2>2, <2>3
<1>3. /\ Consecutive(<<>>, proc.last) /\ ~Ragged(<<>>) /\ Excess(<<>>, proc.last) = 0
      /\ Behinds(<<>>, proc.last) = <<>> /\ Beyond(<<>>, proc.last) = {}
  <2>1. Consecutive(<<>>, proc.last) /\ ~Ragged(<<>>) /\ Excess(<<>>, proc.last) = 0
    BY <1>2, EmptyJournal
  <2>2. /\ Behinds(<<>>, proc.last) \in Seq(Nat) /\ Len(Behinds(<<>>, proc.last)) = 0
        /\ Beyond(<<>>, proc.last) = {Behinds(<<>>, proc.last)[i] : i \in 1..0}
    BY <2>1, BehindsIs
  <2>3. Behinds(<<>>, proc.last) = <<>>
    BY <2>2
  <2>4. Beyond(<<>>, proc.last) = {}
    BY <2>2
  <2> QED
    BY <2>1, <2>3, <2>4
<1>4. Found' = Range(proc.mem) /\ Replayed' = proc.mem \o <<>> /\ Tip' = proc.last + 0
  BY <1>1, <1>3, NextReadersAre
<1>5. Found = Range(proc.mem)
  BY <1>1, ReadersAre
<1>6. Replayed' = proc.mem /\ Tip' = proc.last
  BY <1>2, <1>4
<1>7. Grows
  BY <1>4, <1>5 DEF Grows
<1>8. FileInv'
  <2>1. acked' \subseteq Found' /\ Found' \subseteq 1..nextId'
    BY <1>0, <1>1, <1>4, <1>5 DEF FileInv
  <2> QED
    BY <1>0, <1>1, <1>3, <2>1 DEF FileInv
<1>9. ASSUME proc'.phase # "down" PROVE NumberInv' /\ ContentInv'
  <2>1. Len(proc'.pending) = 0 /\ Offset' = Offset
    BY <1>2, <1>9 DEF Offset
  <2>2. Emits' = <<>>
    BY <2>1 DEF Emits
  <2>3. NumberInv'
    BY <1>1, <1>2, <1>3, <1>6, <1>9, <2>1 DEF NumberInv
  <2>4. proc'.mem = Replayed' \o Emits'
    BY <1>2, <1>6, <1>9, <2>2
  <2>5. ContentInv'
    BY <1>1, <1>4, <1>9, <2>4 DEF ContentInv
  <2> QED
    BY <2>3, <2>5
<1> QED
  BY <1>7, <1>8, <1>9 DEF JournalInv

\* The rotation.
LEMMA RotateStep ==
  ASSUME JournalInv, Rotate
  PROVE  JournalInv' /\ Grows
PROOF
<1>0. /\ FileInv /\ proc \in Process /\ proc.phase # "down" /\ proc.pc = "rotate"
      /\ NumberInv /\ UNCHANGED <<snapshot, nextId>> /\ proc.pending = <<>>
  BY DEF JournalInv, FileInv, NumberInv, Rotate
<1>1. CASE /\ journal' = <<>> /\ proc' = Served([proc EXCEPT !.handle = TRUE, !.since = 0])
           /\ acked' = acked \cup proc.batch
  <2> DEFINE p == [proc EXCEPT !.handle = TRUE, !.since = 0]
  <2>1. /\ p \in Process /\ p.mem = proc.mem /\ p.regSeq = proc.regSeq
        /\ p.last = proc.last /\ p.pending = proc.pending
    BY <1>0 DEF Process
  <2>2. proc' = Served(p)
    BY <1>1
  <2> HIDE DEF p
  <2>3. /\ proc' \in Process /\ proc'.pc = "idle" /\ proc'.batch = {}
        /\ proc'.mem = proc.mem /\ proc'.regSeq = proc.regSeq /\ proc'.last = proc.last
        /\ proc'.pending = proc.pending
    BY <2>1, <2>2, ServedFields
  <2> QED
    BY <1>0, <1>1, <2>3, EmptiedStep
<1>2. CASE journal' \in {journal, <<>>} /\ proc' = Failed(proc) /\ acked' = acked
  <2>1. CASE journal' = journal
    BY <1>0, <1>2, <2>1, FailedStep
  <2>2. CASE journal' = <<>>
    <3>1. /\ proc' \in Process /\ proc'.pc = "idle"
          /\ proc'.phase # "down" =>
               /\ proc'.mem = proc.mem /\ proc'.regSeq = proc.regSeq /\ proc'.last = proc.last
               /\ proc'.pending = <<>> /\ proc'.batch = proc.batch
      <4>1. CASE proc.phase = "opening"
        BY <1>0, <1>2, <4>1, FailedFields, DownFields
      <4>2. CASE proc.phase # "opening"
        BY <1>0, <1>2, <4>2, FailedFields
      <4> QED
        BY <4>1, <4>2
    <3> QED
      BY <1>0, <1>2, <2>2, <3>1, EmptiedStep
  <2> QED
    BY <1>2, <2>1, <2>2
<1> QED
  BY <1>1, <1>2 DEF Rotate

\* The process is gone.
LEMMA GoneStep ==
  ASSUME JournalInv, proc' = Down, UNCHANGED <<journal, snapshot, nextId, acked>>
  PROVE  JournalInv' /\ Grows
  BY DownFields, SameJournal DEF JournalInv, FileInv

\* A crash, also inside an append.
LEMMA CrashStep ==
  ASSUME JournalInv, Crash
  PROVE  JournalInv' /\ Grows
PROOF
<1>0. proc.phase # "down" /\ proc' = Down /\ UNCHANGED <<snapshot, nextId, acked>>
  BY DEF Crash
<1>1. CASE proc.pc = "append" /\ proc.pending # <<>> /\ Appendable(proc)
  <2>1. journal' \in Interrupted(journal, Record)
    BY <1>1 DEF Crash
  <2> QED
    BY <1>0, <1>1, <2>1, InterruptedStep
<1>2. CASE ~(proc.pc = "append" /\ proc.pending # <<>> /\ Appendable(proc))
  <2>1. journal' = journal
    BY <1>2 DEF Crash
  <2> QED
    BY <1>0, <2>1, GoneStep
<1> QED
  BY <1>1, <1>2

-----------------------------------------------------------------------------
(* The fabric log: f a file, h the effects read from it, t those ever tried. *)

FScanned(f) == {i \in DOMAIN f : f[i].missing > 0 \/ f[i].seq # i}

Hist(f) == Ids(Intact(f, FScanned(f)))

Kept(f) == Stop(f, FScanned(f)) - 1

\* What a reader of the fabric log finds.
LEMMA HistIs ==
  ASSUME NEW f \in Seq(Piece)
  PROVE  /\ Len(f) \in Nat /\ Kept(f) \in 0..Len(f)
         /\ Hist(f) = [i \in 1..Kept(f) |-> f[i].id]
         /\ Hist(f) \in Seq(Nat) /\ Len(Hist(f)) = Kept(f) /\ DOMAIN Hist(f) = 1..Kept(f)
         /\ \A i \in 1..Kept(f) : i \in 1..Len(f) /\ f[i].missing = 0 /\ f[i].seq = i
         /\ Kept(f) < Len(f) => Kept(f) + 1 \in FScanned(f)
         /\ FScanned(f) = {} <=> Kept(f) = Len(f)
         /\ Intact(f, FScanned(f)) = SubSeq(f, 1, Kept(f))
         /\ FScanned(f) # {} => Stop(f, FScanned(f)) = Kept(f) + 1 /\ Kept(f) < Len(f)
PROOF
<1> DEFINE n == Kept(f)
           S == Stop(f, FScanned(f))
<1>1. /\ Len(f) \in Nat /\ DOMAIN f = 1..Len(f)
      /\ \A i \in 1..Len(f) : f[i] \in Piece /\ f[i].seq \in Nat /\ f[i].id \in Nat
                              /\ f[i].missing \in Nat
  BY FileFacts
<1>2. FScanned(f) \in SUBSET (1..Len(f))
  BY <1>1 DEF FScanned
<1>3. /\ S \in FScanned(f) \cup {Len(f) + 1} /\ S \in 1..(Len(f) + 1)
      /\ \A t \in FScanned(f) : S =< t
      /\ \A i \in 1..(S - 1) : i \in 1..Len(f) /\ i \notin FScanned(f)
      /\ S - 1 \in 0..Len(f)
  BY <1>1, <1>2, StopIs
<1>4. n = S - 1 /\ S = n + 1 /\ n \in 0..Len(f)
  BY <1>1, <1>3 DEF Kept
<1> HIDE DEF n, S
<1>5. \A i \in 1..n : i \in 1..Len(f) /\ i \notin FScanned(f)
  BY <1>3, <1>4
<1>6. \A i \in 1..n : f[i].missing = 0 /\ f[i].seq = i
  BY <1>1, <1>5 DEF FScanned
<1>7. n < Len(f) => n + 1 \in FScanned(f)
  BY <1>1, <1>3, <1>4
<1>8. FScanned(f) = {} <=> n = Len(f)
  <2>1. FScanned(f) = {} => n = Len(f)
    BY <1>1, <1>4, <1>7
  <2>2. n = Len(f) => FScanned(f) = {}
    BY <1>2, <1>5
  <2> QED
    BY <2>1, <2>2
<1>9. Intact(f, FScanned(f)) = SubSeq(f, 1, n)
  BY <1>4 DEF Intact, S
<1>10. /\ SubSeq(f, 1, n) \in Seq(Piece) /\ Len(SubSeq(f, 1, n)) = n
       /\ \A i \in 1..n : SubSeq(f, 1, n)[i] = f[i]
       /\ DOMAIN SubSeq(f, 1, n) = 1..n
  BY <1>1, <1>4
<1>11. Hist(f) = [i \in 1..n |-> f[i].id]
  BY <1>9, <1>10 DEF Hist, Ids
<1>12. Hist(f) \in Seq(Nat) /\ Len(Hist(f)) = n /\ DOMAIN Hist(f) = 1..n
  BY <1>1, <1>4, <1>5, <1>11
<1>13. FScanned(f) # {} => S = n + 1 /\ n < Len(f)
  BY <1>1, <1>4, <1>8
<1> QED
  BY <1>1, <1>4, <1>5, <1>6, <1>7, <1>8, <1>9, <1>11, <1>12, <1>13 DEF n, S

\* Where the reader stops, from the pieces.
LEMMA KeptIs ==
  ASSUME NEW f \in Seq(Piece), NEW n \in 0..Len(f),
         \A i \in 1..n : i \notin FScanned(f),
         n < Len(f) => n + 1 \in FScanned(f)
  PROVE  Kept(f) = n
PROOF
<1>1. /\ Len(f) \in Nat /\ Kept(f) \in 0..Len(f)
      /\ \A i \in 1..Kept(f) : i \in 1..Len(f) /\ f[i].missing = 0 /\ f[i].seq = i
      /\ Kept(f) < Len(f) => Kept(f) + 1 \in FScanned(f)
  BY HistIs
<1>2. \A i \in 1..Kept(f) : i \notin FScanned(f)
  BY <1>1 DEF FScanned
<1>3. ~(Kept(f) < n)
  <2> SUFFICES ASSUME Kept(f) < n PROVE FALSE
    OBVIOUS
  <2>1. Kept(f) + 1 \in 1..n /\ Kept(f) < Len(f)
    BY <1>1
  <2> QED
    BY <1>1, <2>1
<1>4. ~(n < Kept(f))
  <2> SUFFICES ASSUME n < Kept(f) PROVE FALSE
    OBVIOUS
  <2>1. n + 1 \in 1..Kept(f) /\ n < Len(f)
    BY <1>1
  <2> QED
    BY <1>2, <2>1
<1> QED
  BY <1>1, <1>3, <1>4

\* A piece that is written behind the others counts if it is whole, if it has the number
\* of its place, and if everything before it counts.
LEMMA HistAppend ==
  ASSUME NEW f \in Seq(Piece), NEW r \in Piece
  PROVE  /\ Append(f, r) \in Seq(Piece) /\ Len(Append(f, r)) = Len(f) + 1
         /\ FScanned(f) = {} /\ r.missing = 0 /\ r.seq = Len(f) + 1 =>
              /\ FScanned(Append(f, r)) = {}
              /\ Hist(Append(f, r)) = Append(Hist(f), r.id)
         /\ ~(FScanned(f) = {} /\ r.missing = 0 /\ r.seq = Len(f) + 1) =>
              Hist(Append(f, r)) = Hist(f)
PROOF
<1> DEFINE k == Append(f, r)
           L == Len(f)
           n == Kept(f)
<1>0. r.seq \in Nat /\ r.id \in Nat /\ r.missing \in Nat
  BY PieceFields
<1>1. /\ L \in Nat /\ n \in 0..L
      /\ Hist(f) = [i \in 1..n |-> f[i].id] /\ Hist(f) \in Seq(Nat) /\ Len(Hist(f)) = n
      /\ \A i \in 1..n : i \in 1..L /\ f[i].missing = 0 /\ f[i].seq = i
      /\ n < L => n + 1 \in FScanned(f)
      /\ FScanned(f) = {} <=> n = L
  BY HistIs
<1>2. /\ k \in Seq(Piece) /\ Len(k) = L + 1 /\ k[L + 1] = r /\ \A i \in 1..L : k[i] = f[i]
      /\ DOMAIN k = 1..(L + 1) /\ DOMAIN f = 1..L
  OBVIOUS
<1> HIDE DEF k, n, L
<1>3. \A i \in 1..L : i \in FScanned(k) <=> i \in FScanned(f)
  <2>1. \A i \in 1..L : i \in 1..(L + 1)
    BY <1>1
  <2> QED
    BY <1>2, <2>1 DEF FScanned
<1>4. \A i \in 1..n : i \notin FScanned(k)
  <2>1. \A i \in 1..n : i \notin FScanned(f)
    BY <1>1, <1>2 DEF FScanned
  <2> QED
    BY <1>1, <1>3, <2>1
<1>5. CASE n < L
  <2>1. n + 1 \in FScanned(k) /\ n \in 0..Len(k)
    BY <1>1, <1>2, <1>3, <1>5
  <2>2. Kept(k) = n
    BY <1>2, <1>4, <2>1, KeptIs
  <2>3. Hist(k) = [i \in 1..n |-> k[i].id]
    BY <1>2, <2>2, HistIs
  <2>4. Hist(k) = Hist(f)
    BY <1>1, <1>2, <2>3
  <2>5. FScanned(f) # {}
    BY <1>1, <1>5
  <2> QED
    BY <1>2, <2>4, <2>5 DEF k, L
<1>6. CASE n = L /\ r.missing = 0 /\ r.seq = L + 1
  <2>1. L + 1 \notin FScanned(k)
    BY <1>1, <1>2, <1>6 DEF FScanned
  <2>2. \A i \in 1..(L + 1) : i \notin FScanned(k)
    BY <1>1, <1>4, <1>6, <2>1
  <2>3. Kept(k) = L + 1
    BY <1>1, <1>2, <2>2, KeptIs
  <2>4. Hist(k) = [i \in 1..(L + 1) |-> k[i].id] /\ Hist(k) \in Seq(Nat) /\ Len(Hist(k)) = L + 1
        /\ FScanned(k) = {}
    BY <1>2, <2>3, HistIs
  <2>5. Hist(k)[L + 1] = r.id /\ \A i \in 1..L : Hist(k)[i] = Hist(f)[i]
    BY <1>1, <1>2, <1>6, <2>4
  <2>6. Hist(k) = Append(Hist(f), r.id)
    <3>1. Hist(k) \in Seq(Nat) /\ Hist(f) \in Seq(Nat) /\ Len(Hist(k)) = Len(Hist(f)) + 1
          /\ Len(Hist(f)) = L
      BY <1>1, <1>6, <2>4
    <3>2. Hist(k)[Len(Hist(f)) + 1] = r.id /\ \A i \in 1..Len(Hist(f)) : Hist(k)[i] = Hist(f)[i]
      BY <2>5, <3>1
    <3> QED
      BY <1>0, <3>1, <3>2, OneLonger
  <2>7. FScanned(f) = {}
    BY <1>1, <1>6
  <2> QED
    BY <1>2, <1>6, <2>4, <2>6, <2>7 DEF k, L
<1>7. CASE n = L /\ ~(r.missing = 0 /\ r.seq = L + 1)
  <2>1. L + 1 \in FScanned(k)
    BY <1>0, <1>1, <1>2, <1>7 DEF FScanned
  <2>2. Kept(k) = L
    <3>1. L \in 0..Len(k) /\ (L < Len(k) => L + 1 \in FScanned(k))
      BY <1>1, <1>2, <2>1
    <3> QED
      BY <1>2, <1>4, <1>7, <3>1, KeptIs
  <2>3. Hist(k) = [i \in 1..L |-> k[i].id]
    BY <1>2, <2>2, HistIs
  <2>4. Hist(k) = Hist(f)
    BY <1>1, <1>2, <1>7, <2>3
  <2> QED
    BY <1>2, <1>7, <2>4 DEF k, L
<1> QED
  BY <1>1, <1>5, <1>6, <1>7

\* Reopening cuts off what does not count.
LEMMA HistCut ==
  ASSUME NEW f \in Seq(Piece)
  PROVE  LET k == Intact(f, FScanned(f))
         IN  /\ k \in Seq(Piece) /\ Len(k) = Kept(f) /\ Kept(f) \in Nat
             /\ FScanned(k) = {} /\ Hist(k) = Hist(f)
             /\ \A i \in 1..Kept(f) : k[i].seq = i /\ k[i].missing = 0
PROOF
<1> DEFINE n == Kept(f)
           k == SubSeq(f, 1, n)
<1>1. /\ Len(f) \in Nat /\ n \in 0..Len(f)
      /\ Hist(f) = [i \in 1..n |-> f[i].id]
      /\ \A i \in 1..n : i \in 1..Len(f) /\ f[i].missing = 0 /\ f[i].seq = i
      /\ Intact(f, FScanned(f)) = k
  BY HistIs
<1>2. /\ k \in Seq(Piece) /\ Len(k) = n /\ DOMAIN k = 1..n /\ \A i \in 1..n : k[i] = f[i]
  BY <1>1
<1> HIDE DEF k, n
<1>3. FScanned(k) = {}
  BY <1>1, <1>2 DEF FScanned
<1>4. Kept(k) = n
  BY <1>2, <1>3, HistIs
<1>5. Hist(k) = [i \in 1..n |-> k[i].id]
  BY <1>2, <1>4, HistIs
<1>6. Hist(k) = Hist(f)
  BY <1>1, <1>2, <1>5
<1> QED
  BY <1>1, <1>2, <1>3, <1>6 DEF n

\* The floor a reader builds from h, and what the gate keeps.
Floors(h, t) ==
  [e \in Extents |->
     LET on == {i \in DOMAIN h : e \in t[h[i]].scope}
     IN  IF on = {} THEN [hw |-> 0, owner |-> 0]
         ELSE [hw |-> t[h[Max(on)]].token, owner |-> t[h[Max(on)]].inc]]

Gated(h, t) ==
  \A i, j \in DOMAIN h : i < j /\ t[h[i]].scope \cap t[h[j]].scope # {} =>
    /\ t[h[i]].token =< t[h[j]].token
    /\ t[h[i]].token = t[h[j]].token => t[h[i]].inc = t[h[j]].inc

Admitted(floor, c) ==
  \A e \in c.scope : floor[e].hw =< c.token /\ (floor[e].hw = c.token => floor[e].owner = c.inc)

\* The places of h on an extent.
On(h, t, e) == {i \in DOMAIN h : e \in t[h[i]].scope}

\* h are effects of t.
Known(h, t) ==
  /\ t \in Seq(Credentials) /\ h \in Seq(Nat)
  /\ \A i \in 1..Len(h) : h[i] \in 1..Len(t)

\* The fields of a credential.
LEMMA CredentialFields ==
  ASSUME NEW c \in Credentials
  PROVE  c.token \in Nat /\ c.inc \in Nat /\ c.scope \subseteq Extents
  BY StorageAssumption

\* The effects of a history are credentials.
LEMMA KnownAre ==
  ASSUME NEW h, NEW t, Known(h, t)
  PROVE  /\ DOMAIN h = 1..Len(h) /\ Len(h) \in Nat
         /\ \A i \in 1..Len(h) : t[h[i]] \in Credentials
  BY DEF Known

\* An extent without effects.
LEMMA FloorsNone ==
  ASSUME NEW h, NEW t, NEW e \in Extents, On(h, t, e) = {}
  PROVE  Floors(h, t)[e] = [hw |-> 0, owner |-> 0]
  BY DEF Floors, On

\* The last effect of an extent stands.
LEMMA FloorsSome ==
  ASSUME NEW h, NEW t, Known(h, t), NEW e \in Extents, On(h, t, e) # {}
  PROVE  LET m == Max(On(h, t, e))
         IN  /\ m \in 1..Len(h) /\ e \in t[h[m]].scope
             /\ \A i \in On(h, t, e) : i =< m
             /\ Floors(h, t)[e] = [hw |-> t[h[m]].token, owner |-> t[h[m]].inc]
PROOF
<1> DEFINE S == On(h, t, e)
           m == Max(S)
<1>1. S \in SUBSET Nat /\ \A i \in S : i =< Len(h)
  BY KnownAre DEF On
<1>2. Floors(h, t)[e] = [hw |-> t[h[m]].token, owner |-> t[h[m]].inc]
  BY DEF Floors, On
<1>3. Len(h) \in Nat /\ S # {}
  BY KnownAre
<1>4. m \in S /\ \A i \in S : i =< m
  <2> HIDE DEF S
  <2> QED
    BY <1>1, <1>3, MaxOf
<1> HIDE DEF m
<1>5. m \in 1..Len(h) /\ e \in t[h[m]].scope
  BY <1>4, KnownAre DEF On
<1> QED
  BY <1>2, <1>4, <1>5 DEF m

\* They are numbers.
LEMMA FloorsType ==
  ASSUME NEW h, NEW t, Known(h, t)
  PROVE  Floors(h, t) \in [Extents -> [hw: Nat, owner: Nat]]
PROOF
<1>1. ASSUME NEW e \in Extents PROVE Floors(h, t)[e] \in [hw: Nat, owner: Nat]
  <2>1. CASE On(h, t, e) = {}
    BY <2>1, FloorsNone
  <2>2. CASE On(h, t, e) # {}
    <3> DEFINE m == Max(On(h, t, e))
    <3>1. m \in 1..Len(h) /\ t[h[m]] \in Credentials
          /\ Floors(h, t)[e] = [hw |-> t[h[m]].token, owner |-> t[h[m]].inc]
      BY <2>2, FloorsSome, KnownAre
    <3> HIDE DEF m
    <3>2. t[h[m]].token \in Nat /\ t[h[m]].inc \in Nat
      BY <3>1, CredentialFields
    <3> QED
      BY <3>1, <3>2
  <2> QED
    BY <2>1, <2>2
<1>2. Floors(h, t) = [e \in Extents |-> Floors(h, t)[e]]
  BY DEF Floors
<1> QED
  BY <1>1, <1>2

\* An effect that was tried and is not in the file changes nothing.
LEMMA OneMoreTried ==
  ASSUME NEW h, NEW t, Known(h, t), NEW c \in Credentials
  PROVE  /\ Known(h, Append(t, c))
         /\ Floors(h, Append(t, c)) = Floors(h, t)
         /\ Gated(h, t) => Gated(h, Append(t, c))
PROOF
<1> DEFINE u == Append(t, c)
<1>1. /\ t \in Seq(Credentials) /\ h \in Seq(Nat) /\ DOMAIN h = 1..Len(h) /\ Len(t) \in Nat
      /\ Len(h) \in Nat
      /\ \A i \in 1..Len(h) : h[i] \in 1..Len(t)
  BY DEF Known
<1>2. u \in Seq(Credentials) /\ Len(u) = Len(t) + 1 /\ \A i \in 1..Len(t) : u[i] = t[i]
  BY <1>1
<1> HIDE DEF u
<1>3. \A i \in DOMAIN h : u[h[i]] = t[h[i]]
  BY <1>1, <1>2
<1>4. Known(h, u)
  BY <1>1, <1>2 DEF Known
<1>5. Gated(h, t) => Gated(h, u)
  BY <1>3 DEF Gated
<1>6. ASSUME NEW e \in Extents PROVE Floors(h, u)[e] = Floors(h, t)[e]
  <2>1. On(h, u, e) = On(h, t, e)
    BY <1>3 DEF On
  <2>2. CASE On(h, t, e) = {}
    BY <2>1, <2>2, FloorsNone
  <2>3. CASE On(h, t, e) # {}
    <3> DEFINE m == Max(On(h, t, e))
    <3>1. /\ m \in 1..Len(h)
          /\ Floors(h, t)[e] = [hw |-> t[h[m]].token, owner |-> t[h[m]].inc]
      BY <2>3, FloorsSome
    <3>2. Floors(h, u)[e] = [hw |-> u[h[m]].token, owner |-> u[h[m]].inc]
      BY <1>4, <2>1, <2>3, FloorsSome
    <3> HIDE DEF m
    <3> QED
      BY <1>1, <1>3, <3>1, <3>2
  <2> QED
    BY <2>2, <2>3
<1>7. Floors(h, u) = Floors(h, t)
  <2>1. /\ Floors(h, u) = [e \in Extents |-> Floors(h, u)[e]]
        /\ Floors(h, t) = [e \in Extents |-> Floors(h, t)[e]]
    BY DEF Floors
  <2> QED
    BY <1>6, <2>1
<1> QED
  BY <1>4, <1>5, <1>7 DEF u

\* One that is: it passed the gate, and the floor is raised to it.
LEMMA OneMoreKept ==
  ASSUME NEW h, NEW t, Known(h, t), NEW c \in Credentials
  PROVE  /\ Known(Append(h, Len(t) + 1), Append(t, c))
         /\ Floors(Append(h, Len(t) + 1), Append(t, c)) = Raised(Floors(h, t), c)
         /\ Gated(h, t) /\ Admitted(Floors(h, t), c) =>
              Gated(Append(h, Len(t) + 1), Append(t, c))
PROOF
<1> DEFINE u == Append(t, c)
           g == Append(h, Len(t) + 1)
           n == Len(h)
<1>1. /\ t \in Seq(Credentials) /\ h \in Seq(Nat) /\ DOMAIN h = 1..n /\ Len(t) \in Nat /\ n \in Nat
      /\ \A i \in 1..n : h[i] \in 1..Len(t)
  BY DEF Known
<1>2. /\ u \in Seq(Credentials) /\ Len(u) = Len(t) + 1 /\ u[Len(t) + 1] = c
      /\ \A i \in 1..Len(t) : u[i] = t[i]
  BY <1>1
<1>3. /\ g \in Seq(Nat) /\ Len(g) = n + 1 /\ DOMAIN g = 1..(n + 1) /\ g[n + 1] = Len(t) + 1
      /\ \A i \in 1..n : g[i] = h[i]
  BY <1>1
<1> HIDE DEF u, g, n
<1>4. /\ \A i \in 1..n : u[g[i]] = t[h[i]]
      /\ u[g[n + 1]] = c
  BY <1>1, <1>2, <1>3
<1>5. \A i \in 1..(n + 1) : i \in 1..n \/ i = n + 1
  BY <1>1
<1>6. Known(g, u)
  <2>1. \A i \in 1..(n + 1) : g[i] \in 1..(Len(t) + 1)
    <3>1. 1..Len(t) \subseteq 1..(Len(t) + 1) /\ Len(t) + 1 \in 1..(Len(t) + 1)
      BY <1>1
    <3>2. \A i \in 1..n : g[i] \in 1..Len(t)
      BY <1>1, <1>3
    <3> QED
      BY <1>3, <1>5, <3>1, <3>2
  <2> QED
    BY <1>2, <1>3, <2>1 DEF Known
<1>7. \A e \in Extents : On(g, u, e) = On(h, t, e) \cup (IF e \in c.scope THEN {n + 1} ELSE {})
  <2> SUFFICES ASSUME NEW e \in Extents
               PROVE  On(g, u, e) = On(h, t, e) \cup (IF e \in c.scope THEN {n + 1} ELSE {})
    OBVIOUS
  <2>1. \A i \in 1..n : i \in 1..(n + 1) /\ (i \in On(g, u, e) <=> i \in On(h, t, e))
    BY <1>1, <1>3, <1>4 DEF On
  <2>2. n + 1 \in On(g, u, e) <=> e \in c.scope
    BY <1>1, <1>3, <1>4 DEF On
  <2>3. On(g, u, e) \subseteq 1..(n + 1) /\ On(h, t, e) \subseteq 1..n
    BY <1>1, <1>3 DEF On
  <2> QED
    BY <1>5, <2>1, <2>2, <2>3
<1>8. ASSUME NEW e \in Extents
      PROVE  Floors(g, u)[e] = Raised(Floors(h, t), c)[e]
  <2>1. Raised(Floors(h, t), c)[e]
          = IF e \in c.scope THEN [hw |-> c.token, owner |-> c.inc] ELSE Floors(h, t)[e]
    BY DEF Raised
  <2>2. CASE e \in c.scope
    <3>1. On(g, u, e) # {} /\ n + 1 \in On(g, u, e) /\ On(g, u, e) \subseteq 1..(n + 1)
      BY <1>3, <1>7, <2>2 DEF On
    <3> DEFINE m == Max(On(g, u, e))
    <3>2. m \in 1..(n + 1) /\ n + 1 =< m
          /\ Floors(g, u)[e] = [hw |-> u[g[m]].token, owner |-> u[g[m]].inc]
      BY <1>3, <1>6, <3>1, FloorsSome
    <3> HIDE DEF m
    <3>3. m = n + 1
      BY <1>1, <3>2
    <3> QED
      BY <1>4, <2>1, <2>2, <3>2, <3>3
  <2>3. CASE e \notin c.scope
    <3>1. On(g, u, e) = On(h, t, e)
      BY <1>7, <2>3
    <3>2. CASE On(h, t, e) = {}
      BY <2>1, <2>3, <3>1, <3>2, FloorsNone
    <3>3. CASE On(h, t, e) # {}
      <4> DEFINE m == Max(On(h, t, e))
      <4>1. /\ m \in 1..n
            /\ Floors(h, t)[e] = [hw |-> t[h[m]].token, owner |-> t[h[m]].inc]
        BY <3>3, FloorsSome DEF n
      <4>2. Floors(g, u)[e] = [hw |-> u[g[m]].token, owner |-> u[g[m]].inc]
        BY <1>6, <3>1, <3>3, FloorsSome
      <4> HIDE DEF m
      <4> QED
        BY <1>4, <2>1, <2>3, <4>1, <4>2
    <3> QED
      BY <3>2, <3>3
  <2> QED
    BY <2>2, <2>3
<1>9. Floors(g, u) = Raised(Floors(h, t), c)
  <2>1. /\ Floors(g, u) = [e \in Extents |-> Floors(g, u)[e]]
        /\ Raised(Floors(h, t), c) = [e \in Extents |-> Raised(Floors(h, t), c)[e]]
    BY DEF Floors, Raised
  <2> QED
    BY <1>8, <2>1
<1>10. ASSUME Gated(h, t), Admitted(Floors(h, t), c)
       PROVE  Gated(g, u)
  <2> SUFFICES ASSUME NEW i \in 1..(n + 1), NEW j \in 1..(n + 1), i < j,
                      u[g[i]].scope \cap u[g[j]].scope # {}
               PROVE  /\ u[g[i]].token =< u[g[j]].token
                      /\ u[g[i]].token = u[g[j]].token => u[g[i]].inc = u[g[j]].inc
    BY <1>3 DEF Gated
  <2>1. CASE j \in 1..n
    <3>1. i \in 1..n
      BY <1>1, <2>1
    <3>2. u[g[i]] = t[h[i]] /\ u[g[j]] = t[h[j]]
      BY <1>4, <2>1, <3>1
    <3>3. i \in DOMAIN h /\ j \in DOMAIN h
      BY <1>1, <2>1, <3>1
    <3>4. t[h[i]].scope \cap t[h[j]].scope # {}
      BY <3>2
    <3>5. /\ t[h[i]].token =< t[h[j]].token
          /\ t[h[i]].token = t[h[j]].token => t[h[i]].inc = t[h[j]].inc
      BY <1>10, <3>3, <3>4 DEF Gated
    <3> QED
      BY <3>2, <3>5
  <2>2. CASE j = n + 1
    <3>1. i \in 1..n /\ u[g[j]] = c
      BY <1>1, <1>4, <2>2
    <3>2. u[g[i]] = t[h[i]]
      BY <1>4, <3>1
    <3>3. PICK e \in c.scope : e \in t[h[i]].scope
      BY <3>1, <3>2
    <3>4. e \in Extents /\ c.token \in Nat
      BY <3>3, CredentialFields
    <3>5. i \in On(h, t, e)
      BY <1>1, <3>1, <3>3 DEF On
    <3> DEFINE m == Max(On(h, t, e))
    <3>6. /\ m \in 1..Len(h) /\ e \in t[h[m]].scope /\ i =< m
          /\ Floors(h, t)[e] = [hw |-> t[h[m]].token, owner |-> t[h[m]].inc]
      BY <3>4, <3>5, FloorsSome
    <3> HIDE DEF m
    <3>7. m \in 1..n /\ e \in t[h[m]].scope
      BY <3>6 DEF n
    <3>8. /\ t[h[m]].token =< c.token
          /\ t[h[m]].token = c.token => t[h[m]].inc = c.inc
      BY <1>10, <3>3, <3>6 DEF Admitted
    <3>9. t[h[i]] \in Credentials /\ t[h[m]] \in Credentials
      BY <1>1, <3>1, <3>7
    <3>10. t[h[i]].token \in Nat /\ t[h[m]].token \in Nat
      BY <3>9, CredentialFields
    <3>11. /\ t[h[i]].token =< t[h[m]].token
           /\ t[h[i]].token = t[h[m]].token => t[h[i]].inc = t[h[m]].inc
      <4>1. CASE i = m
        BY <3>10, <4>1
      <4>2. CASE i # m
        <5>1. i < m
          BY <1>1, <3>1, <3>6, <3>7, <4>2
        <5>2. t[h[i]].scope \cap t[h[m]].scope # {}
          BY <3>3, <3>7
        <5> QED
          BY <1>1, <1>10, <3>1, <3>7, <5>1, <5>2 DEF Gated
      <4> QED
        BY <4>1, <4>2
    <3>12. t[h[i]].token =< c.token
      BY <3>4, <3>8, <3>10, <3>11
    <3>13. t[h[i]].token = c.token => t[h[i]].token = t[h[m]].token /\ t[h[m]].token = c.token
      BY <3>4, <3>8, <3>10, <3>11
    <3>14. t[h[i]].token = c.token => t[h[i]].inc = c.inc
      BY <3>8, <3>11, <3>13
    <3> QED
      BY <3>1, <3>2, <3>12, <3>14
  <2> QED
    BY <1>5, <2>1, <2>2
<1> QED
  BY <1>6, <1>9, <1>10 DEF u, g

-----------------------------------------------------------------------------
(* The invariant of the fabric log. *)

\* The process knows the log as it is.
Clean ==
  /\ FScanned(fabric) = {}
  /\ Len(fabric) = proc.flast
  /\ proc.floor = Floors(Hist(fabric), tried)

\* Either the process knows the log, or a write that it took for failed has left bytes
\* behind; the number it will use next is then taken, and no reader gets past it.  Without
\* such a write the log is known, holds what was reported, and ends in a torn record at worst.
FabricInv ==
  /\ fabric \in Seq(Piece) /\ flushFailed \in BOOLEAN
  /\ Known(Hist(fabric), tried)
  /\ Gated(Hist(fabric), tried)
  /\ proc.phase # "down" => Clean \/ Len(fabric) > proc.flast
  /\ flushFailed = FALSE =>
       /\ proc.phase # "down" => Clean
       /\ done \subseteq Range(Hist(fabric))
       /\ \A i \in 1..Len(fabric) :
            fabric[i].seq = i /\ (i < Len(fabric) => fabric[i].missing = 0)

\* The model's readers are those of the lemmas.
LEMMA FabricReadersAre ==
  /\ FabricBad = FScanned(fabric)
  /\ History = Hist(fabric)
  /\ FloorOf(History) = Floors(Hist(fabric), tried)
PROOF
<1>1. FabricBad = FScanned(fabric)
  BY DEF FabricBad, FScanned
<1>2. History = Hist(fabric)
  BY <1>1 DEF History, Hist
<1> QED
  BY <1>1, <1>2 DEF FloorOf, Floors

\* An effect that was written, all of it or a part.
LEMMA WrittenEffect ==
  ASSUME FabricInv, proc \in Process, proc.phase # "down",
         NEW c \in Credentials, FabricGate(c), NEW m \in 0..MaxMissing
  PROVE  LET f == Append(fabric, [Effect EXCEPT !.missing = m])
             t == Append(tried, c)
         IN  /\ f \in Seq(Piece) /\ Len(f) = Len(fabric) + 1 /\ Len(fabric) \in Nat
             /\ f[Len(fabric) + 1].seq = proc.flast + 1
             /\ \A i \in 1..Len(fabric) : f[i] = fabric[i]
             /\ Known(Hist(f), t) /\ Gated(Hist(f), t)
             /\ Range(Hist(fabric)) \subseteq Range(Hist(f))
             /\ Clean /\ m = 0 => /\ FScanned(f) = {}
                                  /\ Len(tried) + 1 \in Range(Hist(f))
                                  /\ Floors(Hist(f), t) = Raised(proc.floor, c)
PROOF
<1> DEFINE r == [Effect EXCEPT !.missing = m]
           f == Append(fabric, r)
           t == Append(tried, c)
           h == Hist(fabric)
           x == Len(tried) + 1
<1>1. /\ fabric \in Seq(Piece) /\ Known(h, tried) /\ Gated(h, tried)
      /\ tried \in Seq(Credentials) /\ h \in Seq(Nat)
      /\ Clean \/ Len(fabric) > proc.flast
  BY DEF FabricInv, Known
<1>2. Len(fabric) \in Nat /\ proc.flast \in Nat /\ x \in Nat
  BY <1>1, ProcessFields
<1>3. r = [seq |-> proc.flast + 1, id |-> x, missing |-> m]
  BY DEF Effect, Whole
<1>4. r \in Piece /\ r.seq = proc.flast + 1 /\ r.id = x /\ r.missing = m
  <2>1. r \in Piece
    BY <1>2, <1>3 DEF Piece
  <2> QED
    BY <1>3, <2>1
<1> HIDE DEF r, x
<1>5. /\ f \in Seq(Piece) /\ Len(f) = Len(fabric) + 1
      /\ FScanned(fabric) = {} /\ r.missing = 0 /\ r.seq = Len(fabric) + 1 =>
           FScanned(f) = {} /\ Hist(f) = Append(h, r.id)
      /\ ~(FScanned(fabric) = {} /\ r.missing = 0 /\ r.seq = Len(fabric) + 1) =>
           Hist(f) = h
  BY <1>1, <1>4, HistAppend
<1>6. f[Len(fabric) + 1] = r /\ \A i \in 1..Len(fabric) : f[i] = fabric[i]
  BY <1>1, <1>4
<1> HIDE DEF f, h
<1>7. CASE Clean /\ m = 0
  <2>1. FScanned(f) = {} /\ Hist(f) = Append(h, x)
    BY <1>4, <1>5, <1>7 DEF Clean
  <2>2. proc.floor = Floors(h, tried)
    BY <1>7 DEF Clean, h
  <2>3. Admitted(Floors(h, tried), c)
    BY <2>2 DEF Admitted, FabricGate
  <2>4. Known(Hist(f), t) /\ Gated(Hist(f), t) /\ Floors(Hist(f), t) = Raised(proc.floor, c)
    BY <1>1, <2>1, <2>2, <2>3, OneMoreKept DEF x
  <2>5. Range(Hist(f)) = Range(h) \cup {x}
    BY <1>1, <1>2, <2>1, AppendRange
  <2> QED
    BY <1>2, <1>4, <1>5, <1>6, <2>1, <2>4, <2>5 DEF f, h, r, x
<1>8. CASE ~(Clean /\ m = 0)
  <2>1. ~(FScanned(fabric) = {} /\ r.missing = 0 /\ r.seq = Len(fabric) + 1)
    <3>1. CASE Clean
      BY <1>4, <1>8, <3>1
    <3>2. CASE ~Clean
      <4>1. Len(fabric) > proc.flast
        BY <1>1, <3>2
      <4> QED
        BY <1>2, <1>4, <4>1
    <3> QED
      BY <3>1, <3>2
  <2>2. Hist(f) = h
    BY <1>5, <2>1
  <2>3. Known(Hist(f), t) /\ Gated(Hist(f), t)
    BY <1>1, <2>2, OneMoreTried
  <2> QED
    BY <1>2, <1>4, <1>5, <1>6, <1>8, <2>2, <2>3 DEF f, h, r
<1> QED
  BY <1>7, <1>8

\* The log of the first process.
LEMMA FabricInit == Init => FabricInv
PROOF
<1> SUFFICES ASSUME Init PROVE FabricInv
  OBVIOUS
<1>1. fabric = <<>> /\ tried = <<>> /\ done = {} /\ flushFailed = FALSE /\ proc = Down
  BY DEF Init
<1>2. <<>> \in Seq(Piece) /\ <<>> \in Seq(Credentials) /\ <<>> \in Seq(Nat)
  OBVIOUS
<1>3. Hist(fabric) = <<>>
  <2>1. Len(fabric) = 0 /\ fabric \in Seq(Piece)
    BY <1>1
  <2>2. /\ Kept(fabric) \in 0..Len(fabric) /\ Hist(fabric) \in Seq(Nat)
        /\ Len(Hist(fabric)) = Kept(fabric)
    BY <2>1, HistIs
  <2>3. Len(Hist(fabric)) = 0
    BY <2>1, <2>2
  <2> QED
    BY <2>2, <2>3
<1>4. Known(<<>>, <<>>) /\ Gated(<<>>, <<>>)
  BY <1>2 DEF Known, Gated
<1>5. fabric \in Seq(Piece) /\ flushFailed \in BOOLEAN /\ proc.phase = "down"
  BY <1>1, <1>2, DownFields
<1>6. Known(Hist(fabric), tried) /\ Gated(Hist(fabric), tried)
  BY <1>1, <1>3, <1>4
<1>7. \A i \in 1..Len(fabric) : FALSE
  BY <1>1
<1>8. done \subseteq Range(Hist(fabric))
  BY <1>1
<1> QED
  BY <1>5, <1>6, <1>7, <1>8 DEF FabricInv

\* Steps that do not touch the log.
LEMMA SameFabric ==
  ASSUME FabricInv, UNCHANGED <<fabric, tried, done, flushFailed>>,
         proc'.phase # "down" =>
           proc.phase # "down" /\ proc'.flast = proc.flast /\ proc'.floor = proc.floor
  PROVE  FabricInv'
PROOF
<1>1. proc'.phase # "down" => (Clean' <=> Clean)
  BY DEF Clean
<1> QED
  BY <1>1 DEF FabricInv

\* commit(): the fields it leaves.
LEMMA CommittedFields ==
  ASSUME proc \in Process, nextId \in Nat, NEW c \in Credentials,
         proc' = [Emitted(proc, 1) EXCEPT !.flast = @ + 1, !.floor = Raised(@, c)]
  PROVE  /\ proc' \in Process /\ proc'.flast = proc.flast + 1
         /\ proc'.floor = Raised(proc.floor, c)
         /\ proc'.phase = proc.phase /\ proc'.pc = "append"
         /\ proc'.mem = proc.mem \o [i \in 1..1 |-> nextId + i]
         /\ proc'.regSeq = proc.regSeq + 1
         /\ proc'.pending = [i \in 1..1 |-> <<proc.regSeq + i, nextId + i>>]
         /\ proc'.batch = (nextId + 1)..(nextId + 1)
         /\ proc'.last = proc.last
PROOF
<1> DEFINE q == Emitted(proc, 1)
           l == proc.flast + 1
           g == Raised(proc.floor, c)
<1>1. /\ q \in Process
      /\ q.pc = "append" /\ q.phase = proc.phase
      /\ q.mem = proc.mem \o [i \in 1..1 |-> nextId + i]
      /\ q.regSeq = proc.regSeq + 1
      /\ q.pending = [i \in 1..1 |-> <<proc.regSeq + i, nextId + i>>]
      /\ q.batch = (nextId + 1)..(nextId + 1)
      /\ q.last = proc.last /\ q.flast = proc.flast /\ q.floor = proc.floor
  BY EmittedFields
<1>2. l \in Nat
  BY ProcessFields
<1>3. g \in [Extents -> [hw: Nat, owner: Nat]]
  <2>1. proc.floor \in [Extents -> [hw: Nat, owner: Nat]] /\ c.token \in Nat /\ c.inc \in Nat
    BY ProcessFields, CredentialFields
  <2> QED
    BY <2>1 DEF Raised
<1>4. proc' = [q EXCEPT !.flast = l, !.floor = g]
  BY <1>1
<1> HIDE DEF q, l, g
<1>5. /\ proc' \in Process /\ proc'.flast = l /\ proc'.floor = g
      /\ proc'.phase = q.phase /\ proc'.pc = q.pc /\ proc'.mem = q.mem
      /\ proc'.regSeq = q.regSeq /\ proc'.pending = q.pending /\ proc'.batch = q.batch
      /\ proc'.last = q.last
  BY <1>1, <1>2, <1>3, <1>4 DEF Process
<1> QED
  BY <1>1, <1>5 DEF l, g

\* An effect that was reported durable.
LEMMA CommitFabric ==
  ASSUME FabricInv, proc \in Process, nextId \in Nat, NEW c \in Credentials, Commit(c)
  PROVE  FabricInv'
PROOF
<1>1. /\ proc.phase # "down" /\ FabricGate(c)
      /\ fabric' = Append(fabric, Effect) /\ tried' = Append(tried, c)
      /\ done' = done \cup {Len(tried) + 1} /\ flushFailed' = flushFailed
      /\ proc' = [Emitted(proc, 1) EXCEPT !.flast = @ + 1, !.floor = Raised(@, c)]
  BY DEF Commit, Serving
<1>2. /\ proc'.phase = proc.phase /\ proc'.flast = proc.flast + 1
      /\ proc'.floor = Raised(proc.floor, c) /\ proc.flast \in Nat
  BY <1>1, CommittedFields, ProcessFields
<1>3. [Effect EXCEPT !.missing = 0] = Effect /\ 0 \in 0..MaxMissing
  BY MissingAssumption DEF Effect, Whole
<1>4. /\ fabric' \in Seq(Piece) /\ Len(fabric') = Len(fabric) + 1 /\ Len(fabric) \in Nat
      /\ fabric'[Len(fabric) + 1].seq = proc.flast + 1
      /\ \A i \in 1..Len(fabric) : fabric'[i] = fabric[i]
      /\ Known(Hist(fabric'), tried') /\ Gated(Hist(fabric'), tried')
      /\ Range(Hist(fabric)) \subseteq Range(Hist(fabric'))
      /\ Clean => /\ FScanned(fabric') = {}
                  /\ Len(tried) + 1 \in Range(Hist(fabric'))
                  /\ Floors(Hist(fabric'), tried') = Raised(proc.floor, c)
  BY <1>1, <1>3, WrittenEffect
<1>5. Clean => Clean'
  <2> SUFFICES ASSUME Clean PROVE Clean'
    OBVIOUS
  <2>1. Len(fabric) = proc.flast
    BY DEF Clean
  <2> QED
    BY <1>2, <1>4, <2>1 DEF Clean
<1>6. Clean \/ Len(fabric) > proc.flast
  BY <1>1 DEF FabricInv
<1>7. Clean' \/ Len(fabric') > proc'.flast
  BY <1>2, <1>4, <1>5, <1>6
<1>8. ASSUME flushFailed' = FALSE
      PROVE  /\ Clean' /\ done' \subseteq Range(Hist(fabric'))
             /\ \A i \in 1..Len(fabric') :
                  fabric'[i].seq = i /\ (i < Len(fabric') => fabric'[i].missing = 0)
  <2>1. /\ Clean /\ done \subseteq Range(Hist(fabric))
        /\ \A i \in 1..Len(fabric) : fabric[i].seq = i
    BY <1>1, <1>8 DEF FabricInv
  <2>2. Len(fabric) = proc.flast /\ FScanned(fabric) = {} /\ fabric \in Seq(Piece)
    BY <2>1 DEF Clean, FabricInv
  <2>3. \A i \in 1..Len(fabric) : fabric[i].missing = 0
    <3>1. /\ Kept(fabric) = Len(fabric)
          /\ \A i \in 1..Kept(fabric) : fabric[i].missing = 0
      BY <2>2, HistIs
    <3> QED
      BY <3>1
  <2>4. ASSUME NEW i \in 1..Len(fabric')
        PROVE  fabric'[i].seq = i /\ (i < Len(fabric') => fabric'[i].missing = 0)
    <3>1. CASE i \in 1..Len(fabric)
      BY <1>4, <2>1, <2>3, <3>1
    <3>2. CASE i = Len(fabric) + 1
      BY <1>4, <2>2, <3>2
    <3> QED
      BY <1>4, <3>1, <3>2
  <2> QED
    BY <1>1, <1>4, <1>5, <2>1, <2>4
<1>9. flushFailed' \in BOOLEAN
  BY <1>1 DEF FabricInv
<1> QED
  BY <1>4, <1>7, <1>8, <1>9 DEF FabricInv

\* An effect whose write failed or crashed.
LEMMA InterruptedFabric ==
  ASSUME FabricInv, proc \in Process, proc.phase # "down", NEW c \in Credentials, FabricGate(c),
         fabric' \in Interrupted(fabric, Effect), tried' = Append(tried, c), done' = done,
         \/ /\ flushFailed' = TRUE
            /\ proc'.phase # "down" => proc'.flast = proc.flast /\ proc'.floor = proc.floor
         \/ flushFailed' = flushFailed /\ proc'.phase = "down"
  PROVE  FabricInv'
PROOF
<1>1. /\ fabric \in Seq(Piece) /\ Known(Hist(fabric), tried) /\ Gated(Hist(fabric), tried)
      /\ Clean \/ Len(fabric) > proc.flast
      /\ flushFailed' \in BOOLEAN /\ proc.flast \in Nat /\ Len(fabric) \in Nat
  <2>1. /\ fabric \in Seq(Piece) /\ Known(Hist(fabric), tried) /\ Gated(Hist(fabric), tried)
        /\ Clean \/ Len(fabric) > proc.flast
        /\ flushFailed \in BOOLEAN
    BY DEF FabricInv
  <2>2. flushFailed' \in BOOLEAN
    BY <2>1
  <2>3. proc.flast \in Nat /\ Len(fabric) \in Nat
    BY <2>1, ProcessFields
  <2> QED
    BY <2>1, <2>2, <2>3
<1>2. CASE fabric' = fabric
  <2>1. /\ Known(Hist(fabric'), tried') /\ Gated(Hist(fabric'), tried')
        /\ Floors(Hist(fabric'), tried') = Floors(Hist(fabric), tried)
    BY <1>1, <1>2, OneMoreTried
  <2>2. proc'.phase # "down" => (Clean => Clean')
    BY <1>2, <2>1 DEF Clean
  <2>3. proc'.phase # "down" => Clean' \/ Len(fabric') > proc'.flast
    BY <1>1, <1>2, <2>2
  <2> QED
    BY <1>1, <1>2, <2>1, <2>3 DEF FabricInv
<1>3. CASE fabric' # fabric
  <2>1. PICK m \in 0..MaxMissing : fabric' = Append(fabric, [Effect EXCEPT !.missing = m])
    BY <1>3 DEF Interrupted
  <2>2. /\ fabric' \in Seq(Piece) /\ Len(fabric') = Len(fabric) + 1
        /\ fabric'[Len(fabric) + 1].seq = proc.flast + 1
        /\ \A i \in 1..Len(fabric) : fabric'[i] = fabric[i]
        /\ Known(Hist(fabric'), tried') /\ Gated(Hist(fabric'), tried')
        /\ Range(Hist(fabric)) \subseteq Range(Hist(fabric'))
    BY <2>1, WrittenEffect
  <2>3. proc'.phase # "down" => Len(fabric') > proc'.flast
    <3>1. Len(fabric) >= proc.flast
      BY <1>1 DEF Clean
    <3> QED
      BY <1>1, <2>2, <3>1
  <2>4. ASSUME flushFailed' = FALSE
        PROVE  /\ proc'.phase = "down" /\ done' \subseteq Range(Hist(fabric'))
               /\ \A i \in 1..Len(fabric') :
                    fabric'[i].seq = i /\ (i < Len(fabric') => fabric'[i].missing = 0)
    <3>1. flushFailed = FALSE /\ proc'.phase = "down"
      BY <2>4
    <3>2. /\ Clean /\ done \subseteq Range(Hist(fabric))
          /\ \A i \in 1..Len(fabric) : fabric[i].seq = i
      BY <3>1 DEF FabricInv
    <3>3. Len(fabric) = proc.flast /\ FScanned(fabric) = {}
      BY <3>2 DEF Clean
    <3>4. \A i \in 1..Len(fabric) : fabric[i].missing = 0
      <4>1. /\ Kept(fabric) = Len(fabric)
            /\ \A i \in 1..Kept(fabric) : fabric[i].missing = 0
        BY <1>1, <3>3, HistIs
      <4> QED
        BY <4>1
    <3>5. ASSUME NEW i \in 1..Len(fabric')
          PROVE  fabric'[i].seq = i /\ (i < Len(fabric') => fabric'[i].missing = 0)
      <4>1. CASE i \in 1..Len(fabric)
        BY <2>2, <3>2, <3>4, <4>1
      <4>2. CASE i = Len(fabric) + 1
        BY <1>1, <2>2, <3>3, <4>2
      <4> QED
        BY <1>1, <2>2, <4>1, <4>2
    <3> QED
      BY <2>2, <3>1, <3>2, <3>5
  <2> QED
    BY <1>1, <2>2, <2>3, <2>4 DEF FabricInv
<1> QED
  BY <1>2, <1>3


-----------------------------------------------------------------------------
(* Opening the files. *)

\* What the process knows then.
LEMMA OpenedFields ==
  ASSUME FileInv, FabricInv
  PROVE  LET p == Opened(Behind, History)
         IN  /\ p \in Process /\ p.phase = "opening" /\ p.pc = "idle"
             /\ p.mem = Replayed /\ p.last = Tip /\ p.regSeq \in Nat /\ Tip =< p.regSeq
             /\ p.flast = Kept(fabric) /\ p.floor = Floors(Hist(fabric), tried)
PROOF
<1> DEFINE p == Opened(Behind, History)
           c == snapshot.covers
           n == Excess(journal, c)
           b == Suffix(journal, c)
           S == {c} \cup {b[i].seq : i \in DOMAIN b}
           r == IF b = <<>> THEN snapshot.regSeq ELSE b[Len(b)].seq
<1>1. /\ Consecutive(journal, c) /\ c \in Nat /\ snapshot.state \in Seq(Nat)
      /\ snapshot.regSeq \in Nat /\ c =< snapshot.regSeq
  BY DEF FileInv
<1>2. /\ b \in Seq(Piece) /\ Len(b) = n /\ n \in Nat
      /\ \A i \in 1..n : b[i].seq = c + i
  <2>1. n \in 0..Wholes(journal) /\ Wholes(journal) \in 0..Len(journal) /\ Len(journal) \in Nat
    BY <1>1, SuffixIs
  <2>2. n \in Nat
    BY <2>1
  <2> QED
    BY <1>1, <2>2, SuffixIs
<1>3. Behind = b /\ Tip = c + n /\ Replayed \in Seq(Nat)
  BY ReadersAre, ReplayIs DEF Tip
<1> HIDE DEF b, n, c
<1>4. DOMAIN b = 1..n
  BY <1>2
<1>5. S = c..(c + n)
  <2>1. \A i \in 1..n : b[i].seq \in c..(c + n)
    BY <1>1, <1>2
  <2>2. \A x \in c..(c + n) : x = c \/ (x - c \in 1..n /\ b[x - c].seq = x)
    BY <1>1, <1>2
  <2>3. c \in c..(c + n)
    BY <1>1, <1>2
  <2> QED
    BY <1>4, <2>1, <2>2, <2>3
<1>6. Max(S) = Tip
  <2>1. c..(c + n) \in SUBSET Int /\ c + n \in c..(c + n) /\ \A x \in c..(c + n) : x =< c + n
    BY <1>1, <1>2
  <2>2. Max(c..(c + n)) = c + n
    BY <2>1, MaxIs
  <2> QED
    BY <1>3, <1>5, <2>2
<1>7. r \in Nat /\ Tip =< r
  <2>1. CASE b = <<>>
    <3>1. n = 0
      BY <1>2, <2>1
    <3> QED
      BY <1>1, <1>3, <2>1, <3>1
  <2>2. CASE b # <<>>
    <3>1. n > 0 /\ n \in 1..n
      BY <1>2, <2>2
    <3>2. b[Len(b)].seq = c + n
      BY <1>2, <3>1
    <3> QED
      BY <1>1, <1>2, <1>3, <2>2, <3>2
  <2> QED
    BY <2>1, <2>2
<1>8. /\ History = Hist(fabric) /\ FloorOf(History) = Floors(Hist(fabric), tried)
      /\ Len(Hist(fabric)) = Kept(fabric) /\ Kept(fabric) \in Nat
  <2>1. fabric \in Seq(Piece)
    BY DEF FabricInv
  <2>2. Len(fabric) \in Nat /\ Kept(fabric) \in 0..Len(fabric) /\ Len(Hist(fabric)) = Kept(fabric)
    BY <2>1, HistIs
  <2> QED
    BY <2>2, FabricReadersAre
<1>9. Floors(Hist(fabric), tried) \in [Extents -> [hw: Nat, owner: Nat]]
  <2>1. Known(Hist(fabric), tried)
    BY DEF FabricInv
  <2> QED
    BY <2>1, FloorsType
<1>10. p = [Down EXCEPT !.phase = "opening", !.handle = TRUE, !.mem = Replayed, !.regSeq = r,
                        !.last = Tip, !.flast = Kept(fabric),
                        !.floor = Floors(Hist(fabric), tried)]
  <2>1. snapshot.state \o Ids(b) = Replayed
    BY <1>3 DEF Replayed
  <2>2. Max({snapshot.covers} \cup {b[i].seq : i \in DOMAIN b}) = Tip
    BY <1>6 DEF c
  <2>3. Opened(b, History) = [Down EXCEPT
           !.phase = "opening", !.handle = TRUE,
           !.mem = snapshot.state \o Ids(b),
           !.regSeq = IF b = <<>> THEN snapshot.regSeq ELSE b[Len(b)].seq,
           !.last = Max({snapshot.covers} \cup {b[i].seq : i \in DOMAIN b}),
           !.flast = Len(History), !.floor = FloorOf(History)]
    BY DEF Opened
  <2> QED
    BY <1>3, <1>8, <2>1, <2>2, <2>3
<1>11. Tip \in Nat
  BY <1>1, <1>2, <1>3
<1> HIDE DEF p, r, S
<1>12. /\ p \in Process /\ p.phase = "opening" /\ p.pc = "idle" /\ p.mem = Replayed
       /\ p.last = Tip /\ p.regSeq = r /\ p.flast = Kept(fabric)
       /\ p.floor = Floors(Hist(fabric), tried)
  <2> DEFINE g == Floors(Hist(fabric), tried)
             l == Kept(fabric)
             m == Replayed
             z == Tip
  <2>1. /\ g \in [Extents -> [hw: Nat, owner: Nat]] /\ l \in Nat /\ m \in Seq(Nat) /\ z \in Nat
        /\ r \in Nat
        /\ p = [Down EXCEPT !.phase = "opening", !.handle = TRUE, !.mem = m, !.regSeq = r,
                            !.last = z, !.flast = l, !.floor = g]
    BY <1>3, <1>7, <1>8, <1>9, <1>10, <1>11
  <2> HIDE DEF g, l, m, z
  <2>2. /\ p \in Process /\ p.phase = "opening" /\ p.pc = Down.pc /\ p.mem = m
        /\ p.last = z /\ p.regSeq = r /\ p.flast = l /\ p.floor = g
    BY <2>1, DownFields DEF Process
  <2> QED
    BY <2>2, DownFields DEF g, l, m, z
<1> QED
  BY <1>7, <1>12 DEF p

\* RegistryService::open and the journal: the boot record is all that is pending.
LEMMA OpenStep ==
  ASSUME JournalInv, FabricInv, Open
  PROVE  JournalInv' /\ Grows
PROOF
<1> DEFINE p == Opened(Behind, History)
           new == <<nextId + 1>>
           c == snapshot.covers
<1>0. /\ FileInv /\ nextId \in Nat /\ nextId' = nextId + 1 /\ snapshot' = snapshot
      /\ acked' = acked /\ journal' = Intact(journal, JournalBad) /\ proc' = Emitted(p, 1)
      /\ Consecutive(journal, c) /\ acked \subseteq Found /\ Found \subseteq 1..nextId
      /\ snapshot \in [covers: Nat, state: Seq(Nat), regSeq: Nat]
      /\ snapshot.covers =< snapshot.regSeq
  BY DEF JournalInv, FileInv, Open
<1>1. /\ p \in Process /\ p.phase = "opening" /\ p.mem = Replayed /\ p.last = Tip
      /\ p.regSeq \in Nat /\ Tip =< p.regSeq
  BY <1>0, OpenedFields
<1> HIDE DEF p
<1>2. /\ proc' \in Process /\ proc'.phase = "opening" /\ proc'.pc = "append"
      /\ proc'.mem = Replayed \o [i \in 1..1 |-> nextId + i]
      /\ proc'.regSeq = p.regSeq + 1
      /\ proc'.pending = [i \in 1..1 |-> <<p.regSeq + i, nextId + i>>]
      /\ proc'.batch = (nextId + 1)..(nextId + 1) /\ proc'.last = Tip
  <2> DEFINE q == Emitted(p, 1)
  <2>0. nextId \in Nat /\ p \in Process /\ 1 \in Nat
    BY <1>0, <1>1
  <2>1. /\ q \in Process /\ q.pc = "append" /\ q.phase = p.phase
        /\ q.mem = p.mem \o [i \in 1..1 |-> nextId + i]
        /\ q.regSeq = p.regSeq + 1
        /\ q.pending = [i \in 1..1 |-> <<p.regSeq + i, nextId + i>>]
        /\ q.batch = (nextId + 1)..(nextId + 1) /\ q.last = p.last
    BY <2>0, EmittedFields
  <2>2. proc' = q
    BY <1>0
  <2> HIDE DEF q
  <2> QED
    BY <1>1, <2>1, <2>2
<1>3. /\ Consecutive(journal', c) /\ ~Ragged(journal')
      /\ Excess(journal', c) = Excess(journal, c)
      /\ Behinds(journal', c) = Behinds(journal, c) /\ Beyond(journal', c) = Beyond(journal, c)
  BY <1>0, ReadersAre, CutJournal
<1>4. Found' = Found /\ Replayed' = Replayed /\ Tip' = Tip
  BY <1>0, <1>3, ReadersAre, NextReadersAre DEF Tip
<1>5. Replayed \in Seq(Nat) /\ Range(Replayed) = Found /\ Tip \in Nat /\ c =< Tip
  BY <1>0, ReplayIs
<1>6. Len(proc'.pending) = 1 /\ Offset' = p.regSeq
  BY <1>1, <1>2 DEF Offset
<1>7. [i \in 1..1 |-> nextId + i] = Emits'
  <2>1. \A i \in 1..1 : proc'.pending[i][2] = nextId + i
    BY <1>2
  <2> QED
    BY <1>6, <2>1 DEF Emits
<1>8. Range(proc'.mem) = Found \cup (nextId + 1)..(nextId + 1)
  <2> DEFINE s == [i \in 1..1 |-> nextId + i]
  <2>1. s \in Seq(Nat) /\ Range(s) = (nextId + 1)..(nextId + 1)
    BY <1>0, NewIds
  <2>2. proc'.mem = Replayed \o s
    BY <1>2
  <2> HIDE DEF s
  <2> QED
    BY <1>5, <2>1, <2>2, ConcatRange
<1>9. FileInv'
  <2>1. nextId' \in Nat /\ 1..nextId \subseteq 1..nextId'
    BY <1>0
  <2>2. Found' \subseteq 1..nextId' /\ acked' \subseteq Found'
    BY <1>0, <1>4, <2>1
  <2> QED
    BY <1>0, <1>2, <1>3, <2>1, <2>2 DEF FileInv
<1>10. NumberInv'
  <2>1. \A i \in 1..Len(proc'.pending) :
          proc'.pending[i] = <<Offset' + i, nextId' - Len(proc'.pending) + i>>
    <3>1. nextId' - 1 = nextId
      BY <1>0
    <3> QED
      BY <1>2, <1>6, <3>1
  <2>2. Tip =< Tip + 1 /\ Tip =< Tip
    BY <1>5
  <2>3. c =< proc'.last /\ proc'.last =< Tip' /\ Tip' =< proc'.last + 1 /\ proc'.last =< Offset'
    BY <1>1, <1>2, <1>4, <1>5, <1>6, <2>2
  <2> QED
    BY <1>0, <1>2, <1>3, <1>4, <2>1, <2>3 DEF NumberInv
<1>11. ContentInv'
  <2>1. \A r \in Range(proc'.mem) \ Found', q \in Found' : q < r
    <3>1. \A r \in (nextId + 1)..(nextId + 1), q \in Found : q < r
      BY <1>0
    <3> QED
      BY <1>4, <1>8, <3>1
  <2>2. Range(proc'.mem) \subseteq 1..nextId'
    <3>1. 1..nextId \subseteq 1..nextId' /\ (nextId + 1)..(nextId + 1) \subseteq 1..nextId'
      BY <1>0
    <3> QED
      BY <1>0, <1>8, <3>1
  <2>3. proc'.batch \subseteq Range(proc'.mem) /\ Found' \subseteq Range(proc'.mem)
    BY <1>2, <1>4, <1>8
  <2>4. proc'.mem = Replayed' \o Emits'
    BY <1>2, <1>4, <1>7
  <2>5. proc'.pending # <<>>
    BY <1>6
  <2> QED
    BY <1>2, <2>1, <2>2, <2>3, <2>4, <2>5 DEF ContentInv
<1>12. Grows
  BY <1>0, <1>4 DEF Grows
<1> QED
  BY <1>9, <1>10, <1>11, <1>12 DEF JournalInv

\* RegistryService::open and the fabric log: what cannot be read is cut off.
LEMMA OpenFabric ==
  ASSUME FileInv, FabricInv, Open
  PROVE  FabricInv'
PROOF
<1> DEFINE p == Opened(Behind, History)
<1>0. /\ fabric' = Intact(fabric, FabricBad) /\ UNCHANGED <<tried, done, flushFailed>>
      /\ proc' = Emitted(p, 1) /\ nextId \in Nat
  BY DEF Open, FileInv
<1>1. /\ fabric \in Seq(Piece) /\ flushFailed \in BOOLEAN
      /\ Known(Hist(fabric), tried) /\ Gated(Hist(fabric), tried)
      /\ flushFailed = FALSE => done \subseteq Range(Hist(fabric))
  BY DEF FabricInv
<1>2. /\ fabric' \in Seq(Piece) /\ Len(fabric') = Kept(fabric) /\ Kept(fabric) \in Nat
      /\ FScanned(fabric') = {} /\ Hist(fabric') = Hist(fabric)
      /\ \A i \in 1..Kept(fabric) : fabric'[i].seq = i /\ fabric'[i].missing = 0
  BY <1>0, <1>1, FabricReadersAre, HistCut
<1>3. p \in Process /\ p.flast = Kept(fabric) /\ p.floor = Floors(Hist(fabric), tried)
  BY OpenedFields
<1> HIDE DEF p
<1>4. proc'.flast = Kept(fabric) /\ proc'.floor = Floors(Hist(fabric), tried)
  BY <1>0, <1>3, EmittedFields
<1>5. Clean'
  BY <1>0, <1>2, <1>4 DEF Clean
<1>6. flushFailed' \in BOOLEAN
  BY <1>0, <1>1
<1>7. Known(Hist(fabric'), tried') /\ Gated(Hist(fabric'), tried')
  BY <1>0, <1>1, <1>2
<1>8. flushFailed' = FALSE => done' \subseteq Range(Hist(fabric'))
  BY <1>0, <1>1, <1>2
<1> QED
  BY <1>2, <1>5, <1>6, <1>7, <1>8 DEF FabricInv

-----------------------------------------------------------------------------
(* All steps, and the theorems. *)

\* What holds of the files and the process at all times.
StorageInv == JournalInv /\ FabricInv

\* The requests that reach the journal: a handler, and a commit that succeeded or failed.
LEMMA RequestStep ==
  ASSUME StorageInv,
         \/ \E k \in 0..MaxBatch : Handle(k)
         \/ \E c \in Credentials : Commit(c) \/ CommitFails(c)
  PROVE  StorageInv' /\ Grows
PROOF
<1>0. JournalInv /\ FabricInv /\ proc \in Process /\ nextId \in Nat
  BY DEF StorageInv, JournalInv, FileInv
<1>1. ASSUME NEW k \in Nat, Handle(k) PROVE StorageInv' /\ Grows
  <2>1. /\ proc.phase # "down" /\ proc.pc = "idle" /\ proc' = Emitted(proc, k)
        /\ nextId' = nextId + k /\ UNCHANGED <<journal, snapshot, acked>>
        /\ UNCHANGED <<fabric, tried, done, flushFailed>>
    BY <1>1 DEF Handle, Serving
  <2>2. JournalInv' /\ Grows
    BY <1>0, <2>1, EmittedFields, EmitStep
  <2>3. proc'.flast = proc.flast /\ proc'.floor = proc.floor
    BY <1>0, <2>1, EmittedFields
  <2>4. FabricInv'
    BY <1>0, <2>1, <2>3, SameFabric
  <2> QED
    BY <2>2, <2>4 DEF StorageInv
<1>2. ASSUME NEW c \in Credentials, Commit(c) PROVE StorageInv' /\ Grows
  <2>1. /\ proc.phase # "down" /\ proc.pc = "idle"
        /\ proc' = [Emitted(proc, 1) EXCEPT !.flast = @ + 1, !.floor = Raised(@, c)]
        /\ nextId' = nextId + 1 /\ UNCHANGED <<journal, snapshot, acked>>
    BY <1>2 DEF Commit, Serving
  <2>2. JournalInv' /\ Grows
    BY <1>0, <2>1, CommittedFields, EmitStep
  <2>3. FabricInv'
    BY <1>0, <1>2, CommitFabric
  <2> QED
    BY <2>2, <2>3 DEF StorageInv
<1>3. ASSUME NEW c \in Credentials, CommitFails(c) PROVE StorageInv' /\ Grows
  <2>1. /\ proc.phase # "down" /\ proc.pc = "idle" /\ proc' = Emitted(proc, 0)
        /\ UNCHANGED <<journal, snapshot, acked>> /\ nextId' = nextId
        /\ FabricGate(c) /\ fabric' \in Interrupted(fabric, Effect)
        /\ tried' = Append(tried, c) /\ done' = done /\ flushFailed' = TRUE
    BY <1>3 DEF CommitFails, Serving
  <2>2. nextId' = nextId + 0
    BY <1>0, <2>1
  <2>3. JournalInv' /\ Grows
    <3>1. /\ proc' \in Process /\ proc'.phase = proc.phase /\ proc'.pc = "append"
          /\ proc'.mem = proc.mem \o [i \in 1..0 |-> nextId + i]
          /\ proc'.regSeq = proc.regSeq + 0
          /\ proc'.pending = [i \in 1..0 |-> <<proc.regSeq + i, nextId + i>>]
          /\ proc'.batch = (nextId + 1)..(nextId + 0) /\ proc'.last = proc.last
      BY <1>0, <2>1, EmittedFields
    <3>2. 0 \in Nat
      OBVIOUS
    <3> QED
      BY <1>0, <2>1, <2>2, <3>1, <3>2, EmitStep
  <2>4. proc'.flast = proc.flast /\ proc'.floor = proc.floor
    BY <1>0, <2>1, EmittedFields
  <2>5. FabricInv'
    BY <1>0, <2>1, <2>4, InterruptedFabric
  <2> QED
    BY <2>3, <2>5 DEF StorageInv
<1>4. \A k \in 0..MaxBatch : k \in Nat
  OBVIOUS
<1> QED
  BY <1>1, <1>2, <1>3, <1>4

\* append_records, the checkpoint it may end in, and the crashes.
LEMMA WritingStep ==
  ASSUME StorageInv,
         \/ AppendRecord \/ AppendsDone \/ WriteSnapshot \/ CloseJournal \/ Rotate \/ Crash
         \/ \E c \in Credentials : CrashInCommit(c)
  PROVE  StorageInv' /\ Grows
PROOF
<1>0. JournalInv /\ FabricInv /\ proc \in Process /\ (proc.phase = "down" => proc.pc = "idle")
  BY DEF StorageInv, JournalInv, FileInv
<1>1. CASE AppendRecord
  <2>1. JournalInv' /\ Grows
    BY <1>0, <1>1, AppendStep
  <2>2. /\ UNCHANGED <<fabric, tried, done, flushFailed>> /\ proc.phase # "down"
        /\ \/ proc' = Failed(proc)
           \/ proc' = [proc EXCEPT !.pending = Tail(@), !.last = Record.seq, !.since = @ + 1]
    BY <1>0, <1>1 DEF AppendRecord
  <2>3. proc'.phase # "down" => proc'.flast = proc.flast /\ proc'.floor = proc.floor
    <3>1. CASE proc' = Failed(proc)
      BY <1>0, <3>1, FailedFields, DownFields
    <3>2. CASE proc' = [proc EXCEPT !.pending = Tail(@), !.last = Record.seq, !.since = @ + 1]
      BY <1>0, <3>2 DEF Process
    <3> QED
      BY <2>2, <3>1, <3>2
  <2> QED
    BY <1>0, <2>1, <2>2, <2>3, SameFabric DEF StorageInv
<1>2. CASE AppendsDone
  <2>1. JournalInv' /\ Grows
    BY <1>0, <1>2, AppendsDoneStep
  <2>2. /\ UNCHANGED <<fabric, tried, done, flushFailed>> /\ proc.phase # "down"
        /\ proc' = Served(proc) \/ proc' = [proc EXCEPT !.pc = "snapshot"]
    BY <1>0, <1>2 DEF AppendsDone
  <2>3. proc'.flast = proc.flast /\ proc'.floor = proc.floor
    <3>1. CASE proc' = Served(proc)
      BY <1>0, <3>1, ServedFields
    <3>2. CASE proc' = [proc EXCEPT !.pc = "snapshot"]
      BY <1>0, <3>2 DEF Process
    <3> QED
      BY <2>2, <3>1, <3>2
  <2> QED
    BY <1>0, <2>1, <2>2, <2>3, SameFabric DEF StorageInv
<1>3. CASE WriteSnapshot
  <2>1. JournalInv' /\ Grows
    BY <1>0, <1>3, SnapshotStep
  <2>2. /\ UNCHANGED <<fabric, tried, done, flushFailed>> /\ proc.phase # "down"
        /\ proc' = Failed(proc) \/ proc' = [proc EXCEPT !.pc = "close"]
    BY <1>0, <1>3 DEF WriteSnapshot
  <2>3. proc'.phase # "down" => proc'.flast = proc.flast /\ proc'.floor = proc.floor
    <3>1. CASE proc' = Failed(proc)
      BY <1>0, <3>1, FailedFields, DownFields
    <3>2. CASE proc' = [proc EXCEPT !.pc = "close"]
      BY <1>0, <3>2 DEF Process
    <3> QED
      BY <2>2, <3>1, <3>2
  <2> QED
    BY <1>0, <2>1, <2>2, <2>3, SameFabric DEF StorageInv
<1>4. CASE CloseJournal
  <2>1. JournalInv' /\ Grows
    BY <1>0, <1>4, CloseStep
  <2>2. /\ UNCHANGED <<fabric, tried, done, flushFailed>> /\ proc.phase # "down"
        /\ proc' = Failed(proc) \/ proc' = [proc EXCEPT !.pc = "rotate", !.handle = FALSE]
    BY <1>0, <1>4 DEF CloseJournal
  <2>3. proc'.phase # "down" => proc'.flast = proc.flast /\ proc'.floor = proc.floor
    <3>1. CASE proc' = Failed(proc)
      BY <1>0, <3>1, FailedFields, DownFields
    <3>2. CASE proc' = [proc EXCEPT !.pc = "rotate", !.handle = FALSE]
      BY <1>0, <3>2 DEF Process
    <3> QED
      BY <2>2, <3>1, <3>2
  <2> QED
    BY <1>0, <2>1, <2>2, <2>3, SameFabric DEF StorageInv
<1>5. CASE Rotate
  <2>1. JournalInv' /\ Grows
    BY <1>0, <1>5, RotateStep
  <2>2. /\ UNCHANGED <<fabric, tried, done, flushFailed>> /\ proc.phase # "down"
        /\ \/ proc' = Failed(proc)
           \/ proc' = Served([proc EXCEPT !.handle = TRUE, !.since = 0])
    BY <1>0, <1>5 DEF Rotate
  <2>3. proc'.phase # "down" => proc'.flast = proc.flast /\ proc'.floor = proc.floor
    <3>1. CASE proc' = Failed(proc)
      BY <1>0, <3>1, FailedFields, DownFields
    <3>2. CASE proc' = Served([proc EXCEPT !.handle = TRUE, !.since = 0])
      <4> DEFINE p == [proc EXCEPT !.handle = TRUE, !.since = 0]
      <4>1. p \in Process /\ p.flast = proc.flast /\ p.floor = proc.floor
        BY <1>0 DEF Process
      <4>2. proc' = Served(p)
        BY <3>2
      <4> HIDE DEF p
      <4> QED
        BY <4>1, <4>2, ServedFields
    <3> QED
      BY <2>2, <3>1, <3>2
  <2> QED
    BY <1>0, <2>1, <2>2, <2>3, SameFabric DEF StorageInv
<1>6. CASE Crash
  <2>1. JournalInv' /\ Grows
    BY <1>0, <1>6, CrashStep
  <2>2. UNCHANGED <<fabric, tried, done, flushFailed>> /\ proc'.phase = "down"
    BY <1>6, DownFields DEF Crash
  <2> QED
    BY <1>0, <2>1, <2>2, SameFabric DEF StorageInv
<1>7. ASSUME NEW c \in Credentials, CrashInCommit(c) PROVE StorageInv' /\ Grows
  <2>1. /\ proc.phase # "down" /\ proc' = Down /\ UNCHANGED <<journal, snapshot, nextId, acked>>
        /\ FabricGate(c) /\ fabric' \in Interrupted(fabric, Effect)
        /\ tried' = Append(tried, c) /\ done' = done /\ flushFailed' = flushFailed
    BY <1>7 DEF CrashInCommit, Serving
  <2>2. JournalInv' /\ Grows
    BY <1>0, <2>1, GoneStep
  <2>3. FabricInv'
    BY <1>0, <2>1, DownFields, InterruptedFabric
  <2> QED
    BY <2>2, <2>3 DEF StorageInv
<1> QED
  BY <1>1, <1>2, <1>3, <1>4, <1>5, <1>6, <1>7

\* Every step keeps the invariant, and what a reader finds only grows.
LEMMA StorageStep ==
  ASSUME StorageInv, [Next]_vars
  PROVE  StorageInv' /\ Grows
PROOF
<1>0. JournalInv /\ FabricInv /\ FileInv
  BY DEF StorageInv, JournalInv
<1>1. CASE \/ \E k \in 0..MaxBatch : Handle(k)
           \/ \E c \in Credentials : Commit(c) \/ CommitFails(c)
  BY <1>1, RequestStep
<1>2. CASE \/ AppendRecord \/ AppendsDone \/ WriteSnapshot \/ CloseJournal \/ Rotate \/ Crash
           \/ \E c \in Credentials : CrashInCommit(c)
  BY <1>2, WritingStep
<1>3. CASE Open
  BY <1>0, <1>3, OpenStep, OpenFabric DEF StorageInv
<1>4. CASE UNCHANGED vars
  <2>1. /\ UNCHANGED <<journal, snapshot, nextId, acked, fabric, tried, done, flushFailed>>
        /\ proc' = proc
    BY <1>4 DEF vars
  <2>2. JournalInv' /\ Grows
    <3>1. Found' = Found /\ Replayed' = Replayed /\ Tip' = Tip
      BY <2>1, SameFiles
    <3>2. FileInv'
      BY <1>0, <2>1, <3>1 DEF FileInv
    <3>3. NumberInv => NumberInv'
      BY <2>1, <3>1 DEF NumberInv, Offset
    <3>4. ContentInv => ContentInv'
      BY <2>1, <3>1 DEF ContentInv, Offset, Emits
    <3>5. Grows
      BY <2>1, <3>1 DEF Grows
    <3> QED
      BY <1>0, <2>1, <3>2, <3>3, <3>4, <3>5 DEF JournalInv
  <2>3. FabricInv'
    BY <1>0, <2>1, SameFabric
  <2> QED
    BY <2>2, <2>3 DEF StorageInv
<1>5. CASE OpenRefused
  BY <1>4, <1>5 DEF OpenRefused
<1> QED
  BY <1>1, <1>2, <1>3, <1>4, <1>5 DEF Next

\* The invariant of the files holds for every number of records, effects and faults.
THEOREM Stored == Spec => []StorageInv
PROOF
<1>1. Init => StorageInv
  BY JournalInit, FabricInit DEF StorageInv
<1>2. StorageInv /\ [Next]_vars => StorageInv'
  BY StorageStep
<1> QED
  BY <1>1, <1>2, PTL DEF Spec

\* The journal that failed and interrupted appends leave behind never reads as corrupt
\* (Store::open).
THEOREM Readable == Spec => []JournalReadable
PROOF
<1>1. ASSUME StorageInv PROVE JournalReadable
  <2> DEFINE c == snapshot.covers
  <2>1. Consecutive(journal, c) /\ journal \in Seq(Piece)
    BY <1>1 DEF StorageInv, JournalInv, FileInv, Consecutive
  <2>2. JournalBad = Scanned(journal, c)
    BY ReadersAre
  <2>3. /\ Scanned(journal, c) = IF Ragged(journal) THEN {Len(journal)} ELSE {}
        /\ Stop(journal, Scanned(journal, c)) = Wholes(journal) + 1
    BY <2>1, ScanIs
  <2>4. Len(journal) \in Nat /\ (Ragged(journal) <=> Len(journal) > 0 /\ journal[Len(journal)].missing > 0)
    BY <2>1, FileFacts
  <2>5. CASE ~Ragged(journal)
    BY <2>2, <2>3, <2>5 DEF JournalReadable, Corrupt
  <2>6. CASE Ragged(journal)
    <3>1. Stop(journal, JournalBad) = Len(journal)
      BY <2>2, <2>3, <2>4, <2>6 DEF Wholes
    <3>2. journal[Len(journal)].missing > Len(journal) - Len(journal)
      BY <2>4, <2>6
    <3>3. JournalBad # {}
      BY <2>2, <2>3, <2>6
    <3>4. Torn(journal, JournalBad)
      BY <3>1, <3>2, <3>3 DEF Torn
    <3> QED
      BY <3>4 DEF JournalReadable, Corrupt
  <2> QED
    BY <2>5, <2>6
<1> QED
  BY <1>1, Stored, PTL

\* While the numbers of memory and of the file agree, a restart would replay what is in
\* memory (emit(), append_records, Store::replay).
THEOREM Replays == Spec => []ReplayMatchesMemory
PROOF
<1>1. ASSUME StorageInv PROVE ReplayMatchesMemory
  <2> SUFFICES ASSUME Serving, proc.regSeq = proc.last PROVE Replayed = proc.mem
    BY DEF ReplayMatchesMemory
  <2>1. FileInv /\ NumberInv /\ ContentInv
    BY <1>1 DEF StorageInv, JournalInv, Serving
  <2>2. proc.pending = <<>>
    BY <2>1 DEF NumberInv, Serving
  <2>3. Offset = proc.last /\ Emits = <<>>
    <3>1. /\ Len(proc.pending) = 0 /\ Emits = <<>> /\ proc.regSeq \in Nat
          /\ Offset = proc.regSeq - Len(proc.pending)
      BY <2>1, <2>2, PendingIs
    <3> QED
      BY <3>1
  <2>4. proc.mem = Replayed \o <<>> /\ Replayed \in Seq(Nat)
    BY <2>1, <2>3, ReplayIs DEF ContentInv
  <2> QED
    BY <2>4
<1> QED
  BY <1>1, Stored, PTL

\* What can be read back from the fabric log was admitted in the order of the tokens, one
\* owner to a token, also behind failed flushes (FabricStore::admit).
THEOREM HistoryGated == Spec => []FabricHistoryGated
PROOF
<1>1. ASSUME StorageInv PROVE FabricHistoryGated
  <2>1. Gated(Hist(fabric), tried) /\ History = Hist(fabric)
    BY <1>1, FabricReadersAre DEF StorageInv, FabricInv
  <2> QED
    BY <2>1 DEF Gated, FabricHistoryGated
<1> QED
  BY <1>1, Stored, PTL

\* Without a failed flush the fabric log reopens after any crash, with every effect that
\* was reported durable in it (FabricStore::open).
THEOREM EffectsSurvive == Spec => []EffectsSurviveCrashes
PROOF
<1>1. ASSUME StorageInv PROVE EffectsSurviveCrashes
  <2> SUFFICES ASSUME ~flushFailed
               PROVE  /\ ~Corrupt(fabric, FabricBad)
                      /\ done \subseteq {History[i] : i \in DOMAIN History}
    BY DEF EffectsSurviveCrashes
  <2>1. /\ fabric \in Seq(Piece) /\ done \subseteq Range(Hist(fabric))
        /\ \A i \in 1..Len(fabric) :
             fabric[i].seq = i /\ (i < Len(fabric) => fabric[i].missing = 0)
    BY <1>1 DEF StorageInv, FabricInv
  <2>2. FabricBad = FScanned(fabric) /\ History = Hist(fabric)
    BY FabricReadersAre
  <2>3. done \subseteq {History[i] : i \in DOMAIN History}
    BY <2>1, <2>2 DEF Range
  <2>4. ASSUME FScanned(fabric) # {} PROVE Torn(fabric, FScanned(fabric))
    <3> DEFINE n == Kept(fabric)
    <3>1. /\ Len(fabric) \in Nat /\ n \in 0..Len(fabric)
          /\ n < Len(fabric) => n + 1 \in FScanned(fabric)
          /\ Stop(fabric, FScanned(fabric)) = n + 1 /\ n < Len(fabric)
      BY <2>1, <2>4, HistIs
    <3> HIDE DEF n
    <3>2. n + 1 \in 1..Len(fabric) /\ n + 1 \in FScanned(fabric)
      BY <3>1
    <3>3. fabric[n + 1].missing > 0 /\ fabric[n + 1].missing \in Nat
      BY <2>1, <3>2, FileFacts DEF FScanned
    <3>4. n + 1 = Len(fabric)
      BY <2>1, <3>1, <3>2, <3>3
    <3> QED
      BY <2>4, <3>1, <3>3, <3>4 DEF Torn
  <2> QED
    BY <2>2, <2>3, <2>4 DEF Corrupt
<1> QED
  BY <1>1, Stored, PTL

\* The journal and its snapshot implement a log that only grows, in order, and keeps what
\* was acknowledged (RegistryService::append_records, Store::checkpoint, Store::open).
THEOREM LogImplemented == Spec => ImplementsDurableLog
PROOF
<1>1. Init => Journalled!Empty
  <2> SUFFICES ASSUME Init PROVE Found = {} /\ acked = {}
    BY DEF Journalled!Empty
  <2>1. FileInv /\ acked = {} /\ nextId = 0
    BY JournalInit DEF Init, JournalInv
  <2>2. Found \subseteq 1..0
    BY <2>1 DEF FileInv
  <2> QED
    BY <2>1, <2>2
<1>2. StorageInv /\ [Next]_vars => [Journalled!Grow /\ Journalled!Acknowledge]_<<Found, acked>>
  <2> SUFFICES ASSUME StorageInv, [Next]_vars
               PROVE  Journalled!Grow /\ Journalled!Acknowledge
    OBVIOUS
  <2>1. StorageInv' /\ Grows
    BY StorageStep
  <2>2. acked' \subseteq Found'
    BY <2>1 DEF StorageInv, JournalInv, FileInv
  <2> QED
    BY <2>1, <2>2 DEF Grows, Journalled!Grow, Journalled!Acknowledge
<1> QED
  BY <1>1, <1>2, Stored, PTL DEF Spec, ImplementsDurableLog, Journalled!LogSpec
=============================================================================

------------------------------ MODULE Framing -------------------------------
(***************************************************************************)
(* Frames on a byte stream: encode_frame, and FrameDecoder, which takes    *)
(* chunks cut anywhere.  The bytes of a frame are two parts, its header    *)
(* and its payload; a flaw is whatever the checks on that part refuse.     *)
(***************************************************************************)
EXTENDS Integers, Sequences, FiniteSetsExt

Frame ==
  [kind: {"hello", "request", "refused", "foreign", "shutdown"},
   id: Nat,                                  \* FrameHeader::request_id
   flaw: {"none", "header", "payload"}]

\* encode_frame of each frame, one after the other.
Stream(frames) ==
  [i \in 1..(2 * Len(frames)) |->
     [part |-> IF i % 2 = 1 THEN "header" ELSE "payload", frame |-> frames[(i + 1) \div 2]]]

\* FrameDecoder
NewDecoder == [buffer |-> <<>>, poisoned |-> FALSE]

Poisoned == [buffer |-> <<>>, poisoned |-> TRUE]

\* The decoder reads a header where a frame begins, then its payload: magic,
\* version, type, declared length and both checksums are compared.
Sound(part, expected) == part.part = expected /\ part.frame.flaw # expected

Unsound(b) ==
  {i \in DOMAIN b : ~Sound(b[i], IF i % 2 = 1 THEN "header" ELSE "payload")}

\* Mutant of Push: what follows the last whole frame of a chunk is dropped.
PushDropsTail(d, chunk) ==
  LET b == d.buffer \o chunk
      n == Len(b) \div 2
  IN  IF d.poisoned \/ Unsound(b) # {}
      THEN [frames |-> <<>>, decoder |-> Poisoned]
      ELSE [frames |-> [i \in 1..n |-> b[2 * i].frame], decoder |-> NewDecoder]

\* FrameDecoder::push: the whole frames of what was buffered and the chunk, the
\* rest kept for the next one.  A flaw poisons the decoder for good.
Push(d, chunk) ==
  LET b == d.buffer \o chunk
      n == (IF Unsound(b) = {} THEN Len(b) ELSE Min(Unsound(b)) - 1) \div 2
  IN  IF d.poisoned
      THEN [frames |-> <<>>, decoder |-> d]
      ELSE [frames |-> [i \in 1..n |-> b[2 * i].frame],
            decoder |-> IF Unsound(b) # {} THEN Poisoned
                        ELSE [buffer |-> SubSeq(b, 2 * n + 1, Len(b)), poisoned |-> FALSE]]

=============================================================================

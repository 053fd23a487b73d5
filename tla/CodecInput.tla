----------------------------- MODULE CodecInput -----------------------------
(***************************************************************************)
(* What the codec may be given, and what it promises for it.  An input is  *)
(* of a kind, its subject, and grows by one element at a time:             *)
(*   numbers   values, for the deltas of the codec                         *)
(*   postings  postings of a term in any order, for the segment's encoding *)
(*   bytes     what the decoders may find in a file                        *)
(* There may be inputs of other kinds, for other components.               *)
(***************************************************************************)
EXTENDS PostingCodec

CONSTANTS
  Elements,  \* the elements of each kind of input
  Bounds     \* the largest length of each kind

\* Document IDs, frequencies and positions have the width of the integers.
Number == 0..MaxValue
Posting == [doc : Number, positions : {list \in Seq(Number) : Len(list) \in Number}]
Byte == [payload : 0..(Radix - 1), last : BOOLEAN]

ASSUME ElementsAssumption ==
  /\ Elements["numbers"] \subseteq Number
  /\ Elements["postings"] \subseteq Posting
  /\ Elements["bytes"] \subseteq Byte

VARIABLES subject, given

inputVars == <<subject, given>>

----------------------------------------------------------------------------
InputInit == subject \in DOMAIN Elements /\ given = <<>>

Extend(element) ==
  /\ Len(given) < Bounds[subject]
  /\ given' = Append(given, element)
  /\ UNCHANGED subject

Grow == \E element \in Elements[subject] : Extend(element)

InputSpec == InputInit /\ [][Grow]_inputVars

----------------------------------------------------------------------------
Increasing(values) == \A m, n \in DOMAIN values : m < n => values[m] < values[n]

\* The number of positions in a list.
Total(postings) ==
  LET total[n \in 0..Len(postings)] ==
        IF n = 0 THEN 0 ELSE total[n - 1] + Len(postings[n].positions)
  IN total[Len(postings)]

\* A list that a segment may hold.
InOrder(postings) ==
  /\ Increasing([n \in DOMAIN postings |-> postings[n].doc])
  /\ \A n \in DOMAIN postings :
       /\ postings[n].doc > 0
       /\ postings[n].positions # <<>> /\ Increasing(postings[n].positions)
  /\ Total(postings) <= MaxPositions

\* What is encoded is decoded as it was; a list that is out of order, whose
\* differences wrap around, is refused when the segment is read back, never
\* read as another list; and what a decoder accepts is the encoding of what
\* it returns, so that no two files mean the same and nothing overflows.
CodecFaithful ==
  LET counts == 0..(Len(given) + 1)
  IN CASE subject = "numbers" ->
            LET encoded == EncodeDeltas(given)
            IN IF encoded.failed
               THEN ~Increasing(<<0>> \o given)
               ELSE DecodeDeltas(encoded.bytes, Len(given), Len(given)).values = given
       [] subject = "postings" ->
            LET decoded == DecodePostings(EncodePostings(given), Len(given))
            IN IF InOrder(given) THEN decoded.postings = given ELSE decoded.failed
       [] subject = "bytes" ->
            \A count \in counts :
              LET list == DecodePostings(given, count)
                  values == DecodeDeltas(given, count, Len(given))
              IN /\ ~list.failed => /\ InOrder(list.postings)
                                    /\ EncodePostings(list.postings) = given
                 /\ ~values.failed => EncodeDeltas(values.values).bytes = given
       [] OTHER -> TRUE
=============================================================================

---------------------------- MODULE PostingCodec ----------------------------
(***************************************************************************)
(* Variable-byte integers (dse::storage::VariableByteCodec) and the        *)
(* compressed posting lists of segment files that are made of them.        *)
(*                                                                         *)
(* A byte is [payload, last]: a group of bits of the integer, the lowest   *)
(* group first, and the bit that marks the last byte.  The widths are      *)
(* parameters: 7 and 32 in the code, so that the fifth byte may only have  *)
(* four bits.                                                              *)
(*   posting  [doc, positions]: the internal ID and the sequence of the    *)
(*            positions, whose length is the term frequency                *)
(***************************************************************************)
EXTENDS Integers, Sequences

CONSTANTS
  PayloadBits, IntegerBits,
  MaxPositions   \* what the terms before have left of maximum_positions

ASSUME CodecAssumption ==
  /\ PayloadBits \in Nat \ {0} /\ IntegerBits \in Nat /\ PayloadBits < IntegerBits
  /\ MaxPositions \in Nat

\* A fact of arithmetic, which the provers do not know.
ASSUME PowerAssumption ==
  \A m, n \in 0..IntegerBits : 2^m \in Nat \ {0} /\ 2^(m + n) = 2^m * 2^n

Radix == 2^PayloadBits
MaxValue == 2^IntegerBits - 1
Groups == (IntegerBits + PayloadBits - 1) \div PayloadBits
LastPayload == 2^(IntegerBits - PayloadBits * (Groups - 1)) - 1

Refused == [failed |-> TRUE]

----------------------------------------------------------------------------
(* VariableByteCodec *)

\* The place of the n-th group, and an integer without the first n groups.
PlaceValue(n) == 2^(PayloadBits * (n - 1))
Shifted(value, n) == value \div PlaceValue(n + 1)

\* Groups go out until nothing of the value is left.
Encode(value) ==
  LET size == CHOOSE n \in 1..Groups :
                Shifted(value, n) = 0 /\ \A m \in 1..(n - 1) : Shifted(value, m) # 0
  IN [n \in 1..size |-> [payload |-> Shifted(value, n - 1) % Radix, last |-> n = size]]

ValueOf(input, at, size) ==
  LET sum[n \in 0..size] ==
        IF n = 0 THEN 0 ELSE sum[n - 1] + input[at + n - 1].payload * PlaceValue(n)
  IN sum[size]

\* The numbers of bytes after which an integer may end.
Ends(input, at) ==
  {n \in 1..Groups : at + n - 1 <= Len(input) /\ input[at + n - 1].last}

\* A mutated form: zeros after the last group that counts are accepted.
DecodeLoosely(input, at) ==
  LET size == CHOOSE n \in Ends(input, at) : \A m \in Ends(input, at) : n <= m
  IN IF \/ Ends(input, at) = {}
        \/ size = Groups /\ input[at + size - 1].payload > LastPayload
     THEN Refused
     ELSE [failed |-> FALSE, value |-> ValueOf(input, at, size), next |-> at + size]

\* Too long or truncated, too large, or with a last group of zeros: refused.
Decode(input, at) ==
  LET size == CHOOSE n \in Ends(input, at) : \A m \in Ends(input, at) : n <= m
  IN IF \/ Ends(input, at) = {}
        \/ size = Groups /\ input[at + size - 1].payload > LastPayload
        \/ size > 1 /\ input[at + size - 1].payload = 0
     THEN Refused
     ELSE [failed |-> FALSE, value |-> ValueOf(input, at, size), next |-> at + size]

\* The difference of two unsigned integers.
Minus(m, n) == (m - n) % (MaxValue + 1)

Before(values, n) == IF n = 1 THEN 0 ELSE values[n - 1]

\* Each value as the difference to the one before.
Deltas(values) ==
  LET bytes[n \in 0..Len(values)] ==
        IF n = 0 THEN <<>>
        ELSE bytes[n - 1] \o Encode(Minus(values[n], Before(values, n)))
  IN bytes[Len(values)]

EncodeDeltas(values) ==
  IF \E n \in DOMAIN values : values[n] <= Before(values, n) THEN Refused
  ELSE [failed |-> FALSE, bytes |-> Deltas(values)]

\* One value more; a difference is zero only for the first one, and only if
\* that is allowed.
ReadDelta(input, read, zeroFirst) ==
  LET delta == Decode(input, read.next)
      previous == Before(read.values, Len(read.values) + 1)
  IN IF read.failed THEN Refused
     ELSE IF \/ delta.failed
             \/ delta.value = 0 /\ ~(zeroFirst /\ read.values = <<>>)
             \/ delta.value > MaxValue - previous
     THEN Refused
     ELSE [failed |-> FALSE, values |-> Append(read.values, previous + delta.value),
           next |-> delta.next]

\* count values from a position.
ReadDeltas(input, at, count, zeroFirst) ==
  LET read[n \in 0..count] ==
        IF n = 0 THEN [failed |-> FALSE, values |-> <<>>, next |-> at]
        ELSE ReadDelta(input, read[n - 1], zeroFirst)
  IN read[count]

DecodeDeltas(input, count, maximum) ==
  LET read == ReadDeltas(input, 1, count, FALSE)
  IN IF count > maximum \/ read.failed THEN Refused
     ELSE IF read.next # Len(input) + 1 THEN Refused
     ELSE [failed |-> FALSE, values |-> read.values]

----------------------------------------------------------------------------
(* encode_index and SegmentReader::open: the list of one term *)

DocBefore(postings, n) == IF n = 1 THEN 0 ELSE postings[n - 1].doc

PostingBytes(posting, previous) ==
  Encode(Minus(posting.doc, previous)) \o Encode(Len(posting.positions))
    \o Deltas(posting.positions)

EncodePostings(postings) ==
  LET bytes[n \in 0..Len(postings)] ==
        IF n = 0 THEN <<>>
        ELSE bytes[n - 1] \o PostingBytes(postings[n], DocBefore(postings, n))
  IN bytes[Len(postings)]

ReadPosting(input, read) ==
  LET delta == Decode(input, read.next)
      frequency == Decode(input, delta.next)
      previous == DocBefore(read.postings, Len(read.postings) + 1)
      positions == ReadDeltas(input, frequency.next, frequency.value, TRUE)
  IN IF read.failed THEN Refused
     ELSE IF delta.failed THEN Refused
     ELSE IF \/ frequency.failed
             \/ delta.value = 0 \/ delta.value > MaxValue - previous
             \/ frequency.value = 0 \/ frequency.value > MaxPositions - read.used
     THEN Refused
     ELSE IF positions.failed THEN Refused
     ELSE [failed |-> FALSE,
           postings |-> Append(read.postings, [doc |-> previous + delta.value,
                                               positions |-> positions.values]),
           next |-> positions.next, used |-> read.used + frequency.value]

ReadPostings(input, count) ==
  LET read[n \in 0..count] ==
        IF n = 0 THEN [failed |-> FALSE, postings |-> <<>>, next |-> 1, used |-> 0]
        ELSE ReadPosting(input, read[n - 1])
  IN read[count]

DecodePostings(input, count) ==
  LET read == ReadPostings(input, count)
  IN IF read.failed THEN Refused
     ELSE IF read.next # Len(input) + 1 THEN Refused
     ELSE [failed |-> FALSE, postings |-> read.postings]
=============================================================================

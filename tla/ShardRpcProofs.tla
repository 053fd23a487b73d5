--------------------------- MODULE ShardRpcProofs ---------------------------
(***************************************************************************)
(* AnswerFaithful of ShardRpc, for every request, every set of hits, every *)
(* pair of limits, every size of a buffer and every way in which transfer  *)
(* cuts a frame into pieces.                                               *)
(*                                                                         *)
(* What an end has read of a frame, what is in the kernel's buffer and     *)
(* what the other end has left to write are, in this order, the frame: the *)
(* invariant says so with two places in the frame, up to which it was read *)
(* and written.                                                            *)
(***************************************************************************)
EXTENDS ShardRpc, TLAPS

\* The cells of s after the first a, up to place b.
Slice(s, a, b) == SubSeq(s, a + 1, b)

\* The payload that an end writes, if it comes to that.
Message(r, e) == IF e = "client" THEN EncodedRequest(r) ELSE Response(EncodedRequest(r))

\* The stages of an end before it writes, and those before it has read all.
BeforeWrite(e) == IF e = "client" THEN {"resolve", "connect"} ELSE {"accept", "header", "payload"}
BeforeRead(e) == IF e = "client" THEN {"resolve", "connect", "send", "header", "payload"}
                                 ELSE {"accept", "header", "payload"}

\* An end is in receive_frame.
Receiving(x) == x.stage \in {"header", "payload"}

\* The reader has the first a cells of the message's frame.
HasRead(message, reader, a) ==
  /\ reader.stage \notin {"header", "payload"} => a = 0
  /\ reader.stage = "header" =>
       a < 2 /\ reader.need = 2 /\ reader.cells = Slice(Framed(message), 0, a)
  /\ reader.stage = "payload" =>
       /\ 2 <= a /\ a < 2 + Len(message)
       /\ reader.need = Len(message) /\ reader.cells = Slice(Framed(message), 2, a)

\* The writer has written the first b cells.
HasWritten(message, writer, before, b) ==
  /\ writer.stage \in before => b = 0
  /\ writer.stage = "send" => writer.cells = Slice(Framed(message), b, 2 + Len(message))

Between(message, cells, a, b) ==
  /\ a \in Nat /\ b \in Nat /\ a <= b /\ b <= 2 + Len(message)
  /\ cells = Slice(Framed(message), a, b)

\* The frame of end e on its way to the other end, until that has read it.
Flow(message, before, writer, reader, cells) ==
  \E a, b \in Nat : /\ Between(message, cells, a, b)
                    /\ HasRead(message, reader, a)
                    /\ HasWritten(message, writer, before, b)

FlowOK(r, e, ends, cells) ==
  ends[Other(e)].stage \in BeforeRead(Other(e)) =>
    Flow(Message(r, e), BeforeWrite(e), ends[e], ends[Other(e)], cells)

\* The variables are functions of the ends, and an end is a record.
EndShape(x) == x = [stage |-> x.stage, polled |-> x.polled, need |-> x.need, cells |-> x.cells]

ShapeOK ==
  /\ request \in Requests
  /\ end = [e \in Ends |-> end[e]] /\ \A e \in Ends : EndShape(end[e])
  /\ pipe = [e \in Ends |-> pipe[e]] /\ outcome = [e \in Ends |-> outcome[e]]

\* A client that sends has looked at its limits.
WithinLimits(r, stage) ==
  stage \in {"send", "header", "payload"} =>
    /\ Len(r.query) <= Limits["client"].query /\ r.top_k <= Limits["client"].hits
    /\ Len(EncodedRequest(r)) <= Limits["client"].frame

\* What AnswerFaithful says of the client's outcome x.
Truthful(r, x) ==
  /\ x.code = "ok" => ~Refuses(r) /\ x.result = SearchFor(r.query, r.top_k)
  /\ x.code = "remote_error" => Refuses(r)
  /\ x.code = "resource_limit" =>
       \/ Len(r.query) > Limits["client"].query
       \/ r.top_k > Limits["client"].hits
       \/ Len(EncodedRequest(r)) > Limits["client"].frame
       \/ Len(Response(EncodedRequest(r))) > Limits["client"].frame
  /\ x.code # "protocol_error"

RpcInv ==
  /\ ShapeOK
  /\ \A e \in Ends : FlowOK(request, e, end, pipe[e])
  /\ WithinLimits(request, end["client"].stage)
  /\ Truthful(request, outcome["client"])

-----------------------------------------------------------------------------
(* Sequences and their slices                                              *)

\* A sequence over any set is one.
LEMMA Sequences ==
  /\ \A S, s : s \in Seq(S) => IsSequence(s)
  /\ \A s : IsSequence(s) => Len(s) \in Nat /\ DOMAIN s = 1..Len(s)
<1>1. ASSUME NEW S, NEW s \in Seq(S) PROVE IsSequence(s)
  BY DEF IsSequence
<1>2. ASSUME NEW s, IsSequence(s) PROVE Len(s) \in Nat /\ DOMAIN s = 1..Len(s)
  BY <1>2 DEF IsSequence
<1> QED BY <1>1, <1>2

\* u is s and then t.
Joins(u, s, t) ==
  /\ IsSequence(u) /\ Len(u) = Len(s) + Len(t)
  /\ \A i \in 1..Len(s) : u[i] = s[i]
  /\ \A i \in 1..Len(t) : u[Len(s) + i] = t[i]

\* Concatenation joins.
LEMMA Concatenated ==
  ASSUME NEW s, NEW t, IsSequence(s), IsSequence(t)
  PROVE  Joins(s \o t, s, t)
<1> DEFINE A == {s[i] : i \in DOMAIN s}  B == {t[i] : i \in DOMAIN t}  S == A \cup B
<1>1. s \in Seq(A) /\ t \in Seq(B)
  BY DEF IsSequence
<1>2. A \subseteq S /\ B \subseteq S
  OBVIOUS
<1> HIDE DEF A, B, S
<1>3. s \in Seq(S) /\ t \in Seq(S)
  BY <1>1, <1>2
<1>4. /\ s \o t \in Seq(S) /\ Len(s \o t) = Len(s) + Len(t)
      /\ \A i \in 1..Len(s) : (s \o t)[i] = s[i]
      /\ \A i \in 1..Len(t) : (s \o t)[Len(s) + i] = t[i]
  BY <1>3
<1> QED BY <1>4, Sequences, Zenon DEF Joins

\* What is in a slice.
LEMMA SliceFacts ==
  ASSUME NEW s, IsSequence(s), NEW a \in Nat, NEW b \in Nat, a <= b, b <= Len(s)
  PROVE  /\ IsSequence(Slice(s, a, b)) /\ Len(Slice(s, a, b)) = b - a
         /\ \A i \in 1..(b - a) : Slice(s, a, b)[i] = s[a + i]
<1> DEFINE S == {s[i] : i \in DOMAIN s}
<1>1. s \in Seq(S)
  BY DEF IsSequence
<1> HIDE DEF S
<1>2. /\ SubSeq(s, a + 1, b) \in Seq(S) /\ Len(SubSeq(s, a + 1, b)) = b - a
      /\ \A i \in 1..(b - a) : SubSeq(s, a + 1, b)[i] = s[a + i]
  BY <1>1
<1> QED BY <1>2, Sequences DEF Slice

\* Sequences with the same cells are the same.
LEMMA SameCells ==
  ASSUME NEW s, NEW t, IsSequence(s), IsSequence(t), Len(s) = Len(t),
         \A i \in 1..Len(s) : s[i] = t[i]
  PROVE  s = t
<1> DEFINE A == {s[i] : i \in DOMAIN s}  B == {t[i] : i \in DOMAIN t}
<1>1. s \in Seq(A) /\ t \in Seq(B)
  BY DEF IsSequence
<1> HIDE DEF A, B
<1> QED BY <1>1

\* Slices of slices and neighbouring slices.
LEMMA SliceAlgebra ==
  ASSUME NEW s, IsSequence(s), NEW a \in Nat, NEW b \in Nat, a <= b, b <= Len(s)
  PROVE  /\ Slice(s, a, a) = <<>> /\ Slice(s, 0, Len(s)) = s
         /\ \A c \in Nat : b <= c /\ c <= Len(s) => Slice(s, a, b) \o Slice(s, b, c) = Slice(s, a, c)
         /\ \A n \in Nat : n <= b - a =>
              /\ Prefix(Slice(s, a, b), n) = Slice(s, a, a + n)
              /\ After(Slice(s, a, b), n) = Slice(s, a + n, b)
<1>0. Len(s) \in Nat /\ a <= Len(s)
  BY Sequences
<1>1. Slice(s, a, a) = <<>>
  <2>1. IsSequence(Slice(s, a, a)) /\ Len(Slice(s, a, a)) = 0
    <3>1. a <= a /\ a - a = 0
      OBVIOUS
    <3> QED BY <1>0, <3>1, SliceFacts
  <2>2. \A S, t : t \in Seq(S) /\ Len(t) = 0 => t = <<>>
    OBVIOUS
  <2> QED BY <2>1, <2>2 DEF IsSequence
<1>2. Slice(s, 0, Len(s)) = s
  <2> DEFINE t == Slice(s, 0, Len(s))
  <2>1. /\ IsSequence(t) /\ Len(t) = Len(s) - 0
        /\ \A i \in 1..(Len(s) - 0) : t[i] = s[0 + i]
    <3>1. 0 \in Nat /\ 0 <= Len(s) /\ Len(s) <= Len(s)
      BY <1>0
    <3> QED BY <1>0, <3>1, SliceFacts
  <2> HIDE DEF t
  <2>2. Len(t) = Len(s) /\ \A i \in 1..Len(s) : t[i] = s[i]
    BY <1>0, <2>1
  <2>3. t = s
    BY <2>1, <2>2, SameCells
  <2> QED BY <2>3 DEF t
<1>3. ASSUME NEW c \in Nat, b <= c, c <= Len(s)
      PROVE  Slice(s, a, b) \o Slice(s, b, c) = Slice(s, a, c)
  <2> DEFINE x == Slice(s, a, b)  y == Slice(s, b, c)  z == Slice(s, a, c)
  <2>0. a <= c
    BY <1>3
  <2>1. IsSequence(x) /\ Len(x) = b - a /\ \A i \in 1..(b - a) : x[i] = s[a + i]
    BY SliceFacts
  <2>2. IsSequence(y) /\ Len(y) = c - b /\ \A i \in 1..(c - b) : y[i] = s[b + i]
    BY <1>3, SliceFacts
  <2>3. IsSequence(z) /\ Len(z) = c - a /\ \A i \in 1..(c - a) : z[i] = s[a + i]
    BY <1>3, <2>0, SliceFacts
  <2> HIDE DEF x, y, z
  <2>4. /\ IsSequence(x \o y) /\ Len(x \o y) = Len(x) + Len(y)
        /\ \A i \in 1..Len(x) : (x \o y)[i] = x[i]
        /\ \A i \in 1..Len(y) : (x \o y)[Len(x) + i] = y[i]
    <3>1. IsSequence(x) /\ IsSequence(y)
      BY <2>1, <2>2
    <3>2. Joins(x \o y, x, y)
      BY <3>1, Concatenated
    <3> QED BY <3>2, Zenon DEF Joins
  <2>5. Len(x \o y) = Len(z)
    BY <1>3, <2>1, <2>2, <2>3, <2>4
  <2>6. ASSUME NEW i \in 1..Len(x \o y) PROVE (x \o y)[i] = z[i]
    <3>1. i \in 1..(c - a)
      BY <2>3, <2>5
    <3>2. CASE i <= b - a
      <4>1. i \in 1..(b - a)
        BY <3>1, <3>2
      <4> QED BY <2>1, <2>3, <2>4, <3>1, <4>1
    <3>3. CASE ~(i <= b - a)
      <4> DEFINE j == i - (b - a)
      <4>1. j \in 1..(c - b) /\ Len(x) + j = i /\ b + j = a + i
        BY <1>3, <2>1, <3>1, <3>3
      <4>2. (x \o y)[i] = y[j]
        BY <2>2, <2>4, <4>1
      <4>3. y[j] = s[a + i]
        BY <2>2, <4>1
      <4> QED BY <2>3, <3>1, <4>2, <4>3
    <3> QED BY <3>2, <3>3
  <2>7. x \o y = z
    <3> DEFINE w == x \o y
    <3> HIDE DEF w
    <3>1. IsSequence(w) /\ Len(w) = Len(z) /\ \A i \in 1..Len(w) : w[i] = z[i]
      BY <2>4, <2>5, <2>6 DEF w
    <3>2. w = z
      BY <2>3, <3>1, SameCells
    <3> QED BY <3>2 DEF w
  <2> QED BY <2>7 DEF x, y, z
<1>4. ASSUME NEW n \in Nat, n <= b - a
      PROVE  /\ Prefix(Slice(s, a, b), n) = Slice(s, a, a + n)
             /\ After(Slice(s, a, b), n) = Slice(s, a + n, b)
  <2> DEFINE x == Slice(s, a, b)  c == a + n
  <2>0. c \in Nat /\ a <= c /\ c <= b /\ c <= Len(s) /\ b - a \in Nat
    BY <1>0, <1>4
  <2>1. IsSequence(x) /\ Len(x) = b - a /\ \A i \in 1..(b - a) : x[i] = s[a + i]
    BY SliceFacts
  <2> DEFINE p == Slice(x, 0, n)  q == Slice(x, n, Len(x))
             y == Slice(s, a, c)  z == Slice(s, c, b)
  <2>2. Prefix(x, n) = p /\ After(x, n) = q
    <3>1. 0 + 1 = 1
      OBVIOUS
    <3> QED BY <3>1, Zenon DEF Prefix, After, Slice
  <2>3. IsSequence(y) /\ Len(y) = c - a /\ \A i \in 1..(c - a) : y[i] = s[a + i]
    BY <2>0, SliceFacts
  <2>4. IsSequence(z) /\ Len(z) = b - c /\ \A i \in 1..(b - c) : z[i] = s[c + i]
    BY <2>0, SliceFacts
  <2> HIDE DEF x
  <2>5. IsSequence(p) /\ Len(p) = n - 0 /\ \A i \in 1..(n - 0) : p[i] = x[0 + i]
    <3>1. 0 \in Nat /\ 0 <= n /\ n <= Len(x)
      BY <1>4, <2>1
    <3>2. IsSequence(x)
      BY <2>1
    <3> QED BY <3>1, <3>2, SliceFacts
  <2>6. IsSequence(q) /\ Len(q) = Len(x) - n /\ \A i \in 1..(Len(x) - n) : q[i] = x[n + i]
    <3>1. Len(x) \in Nat /\ n <= Len(x) /\ Len(x) <= Len(x)
      BY <1>4, <2>0, <2>1
    <3>2. IsSequence(x)
      BY <2>1
    <3> QED BY <3>1, <3>2, SliceFacts
  <2> HIDE DEF p, q, y, z
  <2>7. p = y
    <3>1. Len(p) = Len(y) /\ \A i \in 1..Len(p) : p[i] = y[i]
      BY <1>4, <2>0, <2>1, <2>3, <2>5
    <3> QED BY <2>3, <2>5, <3>1, SameCells
  <2>8. q = z
    <3>1. Len(q) = Len(z) /\ \A i \in 1..Len(q) : q[i] = z[i]
      <4>1. Len(q) = b - c /\ Len(z) = b - c
        BY <1>4, <2>0, <2>1, <2>4, <2>6
      <4>2. ASSUME NEW i \in 1..(b - c) PROVE q[i] = z[i]
        <5>1. i \in 1..(Len(x) - n) /\ n + i \in 1..(b - a) /\ a + (n + i) = c + i
          BY <1>4, <2>0, <2>1
        <5> QED BY <2>1, <2>4, <2>6, <5>1
      <4> QED BY <4>1, <4>2
    <3> QED BY <2>4, <2>6, <3>1, SameCells
  <2> QED BY <2>2, <2>7, <2>8 DEF x, y, z
<1> QED BY <1>1, <1>2, <1>3, <1>4

\* Two neighbouring slices are one.
LEMMA SlicesJoin ==
  ASSUME NEW s, IsSequence(s), NEW a \in Nat, NEW b \in Nat, NEW c \in Nat,
         a <= b, b <= c, c <= Len(s)
  PROVE  Slice(s, a, b) \o Slice(s, b, c) = Slice(s, a, c)
<1>1. b <= Len(s)
  BY Sequences
<1> QED BY <1>1, SliceAlgebra

\* The two parts of a slice.
LEMMA SliceCut ==
  ASSUME NEW s, IsSequence(s), NEW a \in Nat, NEW b \in Nat, a <= b, b <= Len(s),
         NEW n \in Nat, n <= b - a
  PROVE  /\ Prefix(Slice(s, a, b), n) = Slice(s, a, a + n)
         /\ After(Slice(s, a, b), n) = Slice(s, a + n, b)
  BY SliceAlgebra

\* The length of a slice.
LEMMA SliceLength ==
  ASSUME NEW s, IsSequence(s), NEW a \in Nat, NEW b \in Nat, a <= b, b <= Len(s)
  PROVE  Len(Slice(s, a, b)) = b - a
  BY SliceFacts

-----------------------------------------------------------------------------
(* Messages                                                                *)

\* A length is read from its two cells as it was written.
LEMMA LengthCells ==
  ASSUME NEW n \in Nat
  PROVE  /\ IsSequence(u32(n)) /\ Len(u32(n)) = 2
         /\ \A cells : cells[1] = u32(n)[1] /\ cells[2] = u32(n)[2] => u32v(cells) = n
<1>1. Base \in Nat /\ Base # 0
  BY LimitsAssumption
<1>2. n % Base \in Nat /\ n \div Base \in Nat /\ (n % Base) + Base * (n \div Base) = n
  BY <1>1
<1>3. u32(n) = <<n % Base, n \div Base>>
  BY DEF u32
<1>4. u32(n) \in Seq(Nat) /\ Len(u32(n)) = 2 /\ u32(n)[1] = n % Base /\ u32(n)[2] = n \div Base
  BY <1>2, <1>3
<1> QED BY <1>2, <1>4, Sequences, Zenon DEF u32v

\* A frame is its length and its payload.
LEMMA FrameFacts ==
  ASSUME NEW m, IsSequence(m)
  PROVE  /\ IsSequence(Framed(m)) /\ Len(Framed(m)) = 2 + Len(m) /\ Len(m) \in Nat
         /\ u32v(Slice(Framed(m), 0, 2)) = Len(m)
         /\ Slice(Framed(m), 2, 2 + Len(m)) = m
<1> DEFINE h == u32(Len(m))  f == Framed(m)
<1>0. Len(m) \in Nat
  BY Sequences
<1>1. /\ IsSequence(h) /\ Len(h) = 2
      /\ \A cells : cells[1] = h[1] /\ cells[2] = h[2] => u32v(cells) = Len(m)
  BY <1>0, LengthCells
<1>2. f = h \o m
  BY DEF Framed
<1> HIDE DEF h, f
<1>3. /\ IsSequence(f) /\ Len(f) = Len(h) + Len(m)
      /\ \A i \in 1..Len(h) : f[i] = h[i]
      /\ \A i \in 1..Len(m) : f[Len(h) + i] = m[i]
  <2>1. Joins(f, h, m)
    BY <1>1, <1>2, Concatenated
  <2> QED BY <2>1, Zenon DEF Joins
<1>4. IsSequence(f) /\ Len(f) = 2 + Len(m)
  BY <1>1, <1>3
<1>5. u32v(Slice(f, 0, 2)) = Len(m)
  <2> DEFINE c == Slice(f, 0, 2)
  <2>1. 0 \in Nat /\ 2 \in Nat /\ 0 <= 2 /\ 2 <= Len(f)
    BY <1>0, <1>4
  <2>2. \A i \in 1..(2 - 0) : c[i] = f[0 + i]
    BY <1>4, <2>1, SliceFacts
  <2> HIDE DEF c
  <2>3. c[1] = h[1] /\ c[2] = h[2]
    BY <1>1, <1>3, <2>2
  <2>4. u32v(c) = Len(m)
    BY <1>1, <2>3
  <2> QED BY <2>4 DEF c
<1>6. Slice(f, 2, 2 + Len(m)) = m
  <2> DEFINE c == Slice(f, 2, 2 + Len(m))
  <2>1. 2 \in Nat /\ 2 + Len(m) \in Nat /\ 2 <= 2 + Len(m) /\ 2 + Len(m) <= Len(f)
    BY <1>0, <1>4
  <2>2. /\ IsSequence(c) /\ Len(c) = (2 + Len(m)) - 2
        /\ \A i \in 1..((2 + Len(m)) - 2) : c[i] = f[2 + i]
    BY <1>4, <2>1, SliceFacts
  <2> HIDE DEF c
  <2>3. Len(c) = Len(m) /\ \A i \in 1..Len(c) : c[i] = m[i]
    BY <1>0, <1>1, <1>3, <2>2
  <2>4. c = m
    BY <2>2, <2>3, SameCells
  <2> QED BY <2>4 DEF c
<1> QED BY <1>0, <1>4, <1>5, <1>6 DEF f

\* A request is read as it was written.
LEMMA RequestFacts ==
  ASSUME NEW r \in Requests
  PROVE  LET p == EncodedRequest(r) IN
           /\ IsSequence(p) /\ Len(p) = 3 + Len(r.query) /\ Len(r.query) \in Nat
           /\ r.top_k \in Nat
           /\ p[1] = 1 /\ p[2] = r.top_k /\ p[3] = Len(r.query) /\ After(p, 3) = r.query
<1> DEFINE h == <<1, r.top_k, Len(r.query)>>  q == r.query  p == EncodedRequest(r)
<1>0. IsSequence(q) /\ Len(q) \in Nat /\ r.top_k \in Nat
  BY RequestsAssumption, Sequences, Zenon
<1>1. h \in Seq(Nat) /\ Len(h) = 3 /\ h[1] = 1 /\ h[2] = r.top_k /\ h[3] = Len(q)
  BY <1>0
<1>2. IsSequence(h)
  BY <1>1, Sequences, Zenon
<1>3. p = h \o q
  BY Zenon DEF EncodedRequest
<1> HIDE DEF h, p, q
<1>4. /\ IsSequence(p) /\ Len(p) = Len(h) + Len(q)
      /\ \A i \in 1..Len(h) : p[i] = h[i]
      /\ \A i \in 1..Len(q) : p[Len(h) + i] = q[i]
  <2>1. Joins(p, h, q)
    BY <1>0, <1>2, <1>3, Concatenated
  <2> QED BY <2>1, Zenon DEF Joins
<1>5. Len(p) = 3 + Len(q) /\ p[1] = 1 /\ p[2] = r.top_k /\ p[3] = Len(q)
  BY <1>1, <1>4
<1>6. After(p, 3) = q
  <2> DEFINE c == Slice(p, 3, Len(p))
  <2>1. 3 \in Nat /\ Len(p) \in Nat /\ 3 <= Len(p) /\ Len(p) <= Len(p)
    BY <1>0, <1>5
  <2>2. IsSequence(c) /\ Len(c) = Len(p) - 3 /\ \A i \in 1..(Len(p) - 3) : c[i] = p[3 + i]
    BY <1>4, <2>1, SliceFacts
  <2> HIDE DEF c
  <2>3. Len(c) = Len(q) /\ \A i \in 1..Len(c) : c[i] = q[i]
    BY <1>0, <1>1, <1>4, <1>5, <2>2
  <2>4. c = q
    BY <1>0, <2>2, <2>3, SameCells
  <2> QED BY <2>4 DEF c, Slice, After
<1> QED BY <1>0, <1>4, <1>5, <1>6, Zenon DEF p, q

\* The list of the best hits.
HitList(hits) ==
  /\ IsSequence(hits)
  /\ \A i \in 1..Len(hits) : hits[i] = [id |-> hits[i].id, score |-> hits[i].score]

\* The executor's answer is a list of hits, not longer than was asked for.
LEMMA SearchFacts ==
  ASSUME NEW q, NEW k \in Nat
  PROVE  LET answer == SearchFor(q, k) IN
           /\ HitList(answer.hits) /\ Len(answer.hits) \in Nat /\ Len(answer.hits) <= k
           /\ answer = [total |-> answer.total, hits |-> answer.hits]
<1> DEFINE found == IF q \in DOMAIN Hits THEN Hits[q] ELSE <<>>
           n == Least(k, Len(found))  best == Slice(found, 0, n)
<1>1. HitList(found)
  <2>1. CASE q \in DOMAIN Hits
    <3>1. /\ IsSequence(Hits[q])
          /\ \A i \in DOMAIN Hits[q] : Hits[q][i] = [id |-> Hits[q][i].id, score |-> Hits[q][i].score]
      BY <2>1, RequestsAssumption, Zenon
    <3> QED BY <2>1, <3>1, Sequences, Zenon DEF HitList
  <2>2. CASE q \notin DOMAIN Hits
    <3>1. found = <<>> /\ <<>> \in Seq({}) /\ Len(<<>>) = 0 /\ 1..0 = {}
      BY <2>2
    <3>2. IsSequence(<<>>)
      BY <3>1, Sequences
    <3> QED BY <3>1, <3>2, Zenon DEF HitList
  <2> QED BY <2>1, <2>2
<1> HIDE DEF found
<1>2. n \in Nat /\ n <= k /\ n <= Len(found) /\ 0 \in Nat /\ 0 <= n
  <2>1. Len(found) \in Nat
    BY <1>1, Sequences, Zenon DEF HitList
  <2> QED BY <2>1 DEF Least
<1> HIDE DEF n
<1>3. /\ IsSequence(best) /\ Len(best) = n - 0
      /\ \A i \in 1..(n - 0) : best[i] = found[0 + i]
  <2>1. IsSequence(found)
    BY <1>1, Zenon DEF HitList
  <2> QED BY <1>2, <2>1, SliceFacts
<1> HIDE DEF best
<1>4. Len(best) = n /\ \A i \in 1..n : i \in 1..Len(found) /\ best[i] = found[i]
  <2>1. Len(found) \in Nat
    BY <1>1, Sequences, Zenon DEF HitList
  <2> QED BY <1>2, <1>3, <2>1
<1>5. HitList(best)
  BY <1>1, <1>3, <1>4, Zenon DEF HitList
<1>6. SearchFor(q, k) = [total |-> Len(found), hits |-> best]
  <2>1. 0 + 1 = 1
    OBVIOUS
  <2> QED BY <2>1, Zenon DEF SearchFor, Prefix, Slice, found, n, best
<1>7. SearchFor(q, k).hits = best /\ SearchFor(q, k).total = Len(found)
  BY <1>6
<1> QED BY <1>2, <1>4, <1>5, <1>6, <1>7, Zenon

\* p is the payload of an answer.
AnswerCells(p, total, hits) ==
  /\ IsSequence(p) /\ Len(p) = 4 + 2 * Len(hits)
  /\ p[1] = 1 /\ p[2] = 0 /\ p[3] = total /\ p[4] = Len(hits)
  /\ \A i \in 1..Len(hits) : p[3 + 2 * i] = hits[i].id /\ p[4 + 2 * i] = hits[i].score

\* The cells of an answer.
LEMMA ResultCells ==
  ASSUME NEW total, NEW hits, HitList(hits), NEW p,
         p = EncodedResult([total |-> total, hits |-> hits])
  PROVE  AnswerCells(p, total, hits)
<1> DEFINE L == Len(hits)  h == <<1, 0, total, L>>
           cell(i) == IF i % 2 = 1 THEN hits[(i + 1) \div 2].id ELSE hits[(i + 1) \div 2].score
           t == [i \in 1..2 * L |-> cell(i)]
<1>0. L \in Nat
  BY Sequences DEF HitList
<1>1. IsSequence(h) /\ Len(h) = 4 /\ h[1] = 1 /\ h[2] = 0 /\ h[3] = total /\ h[4] = L
  <2>1. h \in Seq({1, 0, total, L}) /\ Len(h) = 4 /\ h[1] = 1 /\ h[2] = 0 /\ h[3] = total /\ h[4] = L
    OBVIOUS
  <2> QED BY <2>1, Sequences, Zenon
<1>2. IsSequence(t) /\ Len(t) = 2 * L
  <2> DEFINE S == {cell(i) : i \in 1..2 * L}
  <2>1. 2 * L \in Nat
    BY <1>0
  <2>2. t \in [1..2 * L -> S]
    BY Zenon
  <2>3. \A T, n : n \in Nat => \A f \in [1..n -> T] : f \in Seq(T) /\ Len(f) = n
    OBVIOUS
  <2>4. t \in Seq(S) /\ Len(t) = 2 * L
    <3> HIDE DEF t, S
    <3> QED BY <2>1, <2>2, <2>3, Zenon
  <2> QED BY <2>4, Sequences, Zenon
<1>3. ASSUME NEW i \in 1..L
      PROVE  /\ 2 * i - 1 \in 1..2 * L /\ 2 * i \in 1..2 * L
             /\ t[2 * i - 1] = hits[i].id /\ t[2 * i] = hits[i].score
  <2>1. /\ 2 * i - 1 \in 1..2 * L /\ 2 * i \in 1..2 * L
        /\ (2 * i - 1) % 2 = 1 /\ (2 * i) % 2 = 0
        /\ ((2 * i - 1) + 1) \div 2 = i /\ (2 * i + 1) \div 2 = i
    BY <1>0
  <2>2. cell(2 * i - 1) = hits[i].id /\ cell(2 * i) = hits[i].score
    BY <2>1
  <2>3. t[2 * i - 1] = cell(2 * i - 1) /\ t[2 * i] = cell(2 * i)
    BY <2>1, Zenon
  <2> QED BY <2>1, <2>2, <2>3
<1>4. p = h \o t
  <2> DEFINE R == [total |-> total, hits |-> hits]
  <2>1. R.total = total /\ R.hits = hits
    OBVIOUS
  <2> HIDE DEF R
  <2>2. p = EncodedResult(R)
    BY DEF R
  <2> QED BY <2>1, <2>2, Zenon DEF EncodedResult
<1> HIDE DEF h, t
<1>5. Joins(p, h, t)
  BY <1>1, <1>2, <1>4, Concatenated
<1>6. /\ IsSequence(p) /\ Len(p) = Len(h) + Len(t)
      /\ \A i \in 1..Len(h) : p[i] = h[i]
      /\ \A i \in 1..Len(t) : p[Len(h) + i] = t[i]
  BY <1>5, Zenon DEF Joins
<1>7. /\ Len(p) = 4 + 2 * L
      /\ p[1] = 1 /\ p[2] = 0 /\ p[3] = total /\ p[4] = L
  BY <1>1, <1>2, <1>6
<1>8. ASSUME NEW i \in 1..L
      PROVE  p[3 + 2 * i] = hits[i].id /\ p[4 + 2 * i] = hits[i].score
  <2>1. p[4 + (2 * i - 1)] = t[2 * i - 1] /\ p[4 + 2 * i] = t[2 * i]
    BY <1>1, <1>2, <1>3, <1>6
  <2>2. 4 + (2 * i - 1) = 3 + 2 * i
    OBVIOUS
  <2> QED BY <1>3, <2>1, <2>2
<1> QED BY <1>6, <1>7, <1>8, Zenon DEF AnswerCells

\* A payload that reports an error.
ErrorCells(p) == IsSequence(p) /\ Len(p) \in Nat /\ Len(p) >= 3 /\ p[1] = 1 /\ p[2] = 1

\* Whatever its text is, an error is read as one.
LEMMA ErrorFacts ==
  ASSUME NEW t, IsSequence(t)
  PROVE  ErrorCells(EncodedError(t))
<1> DEFINE h == <<1, 1, Len(t)>>  p == EncodedError(t)
<1>0. Len(t) \in Nat
  BY Sequences, Zenon
<1>1. h \in Seq(Nat) /\ Len(h) = 3 /\ h[1] = 1 /\ h[2] = 1
  BY <1>0
<1>2. IsSequence(h)
  BY <1>1, Sequences, Zenon
<1>3. p = h \o t
  BY Zenon DEF EncodedError
<1> HIDE DEF h, p
<1>4. IsSequence(p) /\ Len(p) = Len(h) + Len(t) /\ \A i \in 1..Len(h) : p[i] = h[i]
  <2>1. Joins(p, h, t)
    BY <1>2, <1>3, Concatenated
  <2> QED BY <2>1, Zenon DEF Joins
<1>5. Len(p) \in Nat /\ Len(p) >= 3 /\ p[1] = 1 /\ p[2] = 1
  BY <1>0, <1>1, <1>4
<1> QED BY <1>4, <1>5, Zenon DEF ErrorCells, p

\* serve_one answers a request it has read as Refuses says.
LEMMA ResponseFacts ==
  ASSUME NEW r \in Requests
  PROVE  LET answer == Response(EncodedRequest(r)) IN
           /\ Refuses(r) => ErrorCells(answer)
           /\ ~Refuses(r) => answer = EncodedResult(SearchFor(r.query, r.top_k))
<1> DEFINE p == EncodedRequest(r)
<1>1. /\ Len(p) = 3 + Len(r.query) /\ Len(r.query) \in Nat /\ r.top_k \in Nat
      /\ p[1] = 1 /\ p[2] = r.top_k /\ p[3] = Len(r.query) /\ After(p, 3) = r.query
  BY RequestFacts, Zenon
<1> HIDE DEF p
<1>2. RequestValid(p) <=> /\ r.top_k <= Limits["server"].hits
                          /\ Len(r.query) <= Limits["server"].query
  BY <1>1 DEF RequestValid
<1>3. Limits["server"].hits \in Nat /\ Limits["server"].query \in Nat
  BY LimitsAssumption DEF Ends
<1>4. Refuses(r) <=> ~RequestValid(p) \/ After(p, 3) \in DOMAIN Complaints
  BY <1>1, <1>2, <1>3 DEF Refuses
<1>5. IsSequence(InvalidText) /\ \A q \in DOMAIN Complaints : IsSequence(Complaints[q])
  BY RequestsAssumption, Zenon
<1>6. ASSUME Refuses(r) PROVE ErrorCells(Response(p))
  <2>1. CASE ~RequestValid(p)
    BY <1>5, <2>1, ErrorFacts, Zenon DEF Response
  <2>2. CASE RequestValid(p) /\ After(p, 3) \in DOMAIN Complaints
    BY <1>5, <2>2, ErrorFacts, Zenon DEF Response
  <2> QED BY <1>4, <1>6, <2>1, <2>2
<1>7. ASSUME ~Refuses(r) PROVE Response(p) = EncodedResult(SearchFor(r.query, r.top_k))
  BY <1>1, <1>4, <1>7, Zenon DEF Response
<1> QED BY <1>6, <1>7, Zenon DEF p

\* Both messages are sequences of at least three cells.
LEMMA MessageFacts ==
  ASSUME NEW r \in Requests, NEW e \in Ends
  PROVE  IsSequence(Message(r, e)) /\ Len(Message(r, e)) \in Nat /\ Len(Message(r, e)) >= 3
<1>1. CASE e = "client"
  <2>1. IsSequence(Message(r, e)) /\ Len(Message(r, e)) = 3 + Len(r.query) /\ Len(r.query) \in Nat
    BY <1>1, RequestFacts, Zenon DEF Message
  <2> QED BY <2>1
<1>2. CASE e # "client"
  <2> DEFINE m == Response(EncodedRequest(r))
  <2>1. ErrorCells(m) \/ m = EncodedResult(SearchFor(r.query, r.top_k))
    BY ResponseFacts, Zenon
  <2>3. ASSUME m = EncodedResult(SearchFor(r.query, r.top_k))
        PROVE  IsSequence(m) /\ Len(m) \in Nat /\ Len(m) >= 3
    <3> DEFINE a == SearchFor(r.query, r.top_k)
    <3>1. r.top_k \in Nat
      BY RequestFacts, Zenon
    <3>2. HitList(a.hits) /\ Len(a.hits) \in Nat /\ a = [total |-> a.total, hits |-> a.hits]
      BY <3>1, SearchFacts, Zenon
    <3> HIDE DEF a, m
    <3>3. m = EncodedResult([total |-> a.total, hits |-> a.hits])
      BY <2>3, <3>2, Zenon DEF a
    <3>4. AnswerCells(m, a.total, a.hits)
      BY <3>2, <3>3, ResultCells
    <3>5. IsSequence(m) /\ Len(m) = 4 + 2 * Len(a.hits)
      BY <3>4, Zenon DEF AnswerCells
    <3> QED BY <3>2, <3>5
  <2>5. IsSequence(m) /\ Len(m) \in Nat /\ Len(m) >= 3
    <3> HIDE DEF m
    <3> QED BY <2>1, <2>3, Zenon DEF ErrorCells
  <2> QED BY <1>2, <2>5, Zenon DEF Message
<1> QED BY <1>1, <1>2

\* The client makes the right thing of the answer to its own request.
LEMMA DecodedTruth ==
  ASSUME NEW r \in Requests, r.top_k <= Limits["client"].hits
  PROVE  Truthful(r, Decoded(Message(r, "server")))
<1> DEFINE p == Message(r, "server")
<1>0. p = Response(EncodedRequest(r)) /\ r.top_k \in Nat /\ Limits["client"].hits \in Nat
  <2>1. Limits["client"].hits \in Nat
    BY LimitsAssumption DEF Ends
  <2>2. r.top_k \in Nat
    BY RequestFacts, Zenon
  <2>3. p = Response(EncodedRequest(r))
    BY DEF Message
  <2> QED BY <2>1, <2>2, <2>3
<1>1. CASE Refuses(r)
  <2>1. ErrorCells(p)
    BY <1>0, <1>1, ResponseFacts, Zenon
  <2> HIDE DEF p
  <2>2. ~(Len(p) < 2 \/ p[1] # 1) /\ p[2] # 0
    BY <2>1 DEF ErrorCells
  <2>3. Decoded(p) = Error("remote_error")
    BY <2>2, Zenon DEF Decoded
  <2>4. Error("remote_error").code = "remote_error"
    BY DEF Error, NoOutcome
  <2> QED BY <1>1, <2>3, <2>4 DEF Truthful, p
<1>2. CASE ~Refuses(r)
  <2> DEFINE a == SearchFor(r.query, r.top_k)  L == Len(a.hits)
  <2>1. HitList(a.hits) /\ L \in Nat /\ L <= r.top_k
        /\ a = [total |-> a.total, hits |-> a.hits]
    BY <1>0, SearchFacts, Zenon
  <2>2. p = EncodedResult(a)
    BY <1>0, <1>2, ResponseFacts, Zenon
  <2> HIDE DEF a, p
  <2>3. p = EncodedResult([total |-> a.total, hits |-> a.hits])
    BY <2>1, <2>2, Zenon
  <2>4. /\ Len(p) = 4 + 2 * L
        /\ p[1] = 1 /\ p[2] = 0 /\ p[3] = a.total /\ p[4] = L
        /\ \A i \in 1..L : p[3 + 2 * i] = a.hits[i].id /\ p[4 + 2 * i] = a.hits[i].score
    <3>1. AnswerCells(p, a.total, a.hits)
      BY <2>1, <2>3, ResultCells
    <3> QED BY <3>1, Zenon DEF AnswerCells
  <2>5. /\ ~(Len(p) < 2 \/ p[1] # 1) /\ ~(p[2] # 0)
        /\ ~(Len(p) < 4 \/ p[4] > Limits["client"].hits \/ Len(p) # 4 + 2 * p[4])
    BY <1>0, <2>1, <2>4
  <2> DEFINE got == [i \in 1..p[4] |-> [id |-> p[3 + 2 * i], score |-> p[4 + 2 * i]]]
  <2>6. Decoded(p) = [code |-> "ok", result |-> [total |-> p[3], hits |-> got]]
    BY <2>5, Zenon DEF Decoded
  <2>7. got = a.hits
    <3>1. got = [i \in 1..L |-> a.hits[i]]
      <4>1. \A i \in 1..L : [id |-> p[3 + 2 * i], score |-> p[4 + 2 * i]] = a.hits[i]
        BY <2>1, <2>4, Zenon DEF HitList
      <4> QED BY <2>4, <4>1, Zenon
    <3>2. IsSequence(a.hits)
      BY <2>1, Zenon DEF HitList
    <3>3. \A S, s : s \in Seq(S) => s = [i \in 1..Len(s) |-> s[i]]
      OBVIOUS
    <3>4. a.hits = [i \in 1..L |-> a.hits[i]]
      BY <3>2, <3>3, Zenon DEF IsSequence
    <3> QED BY <3>1, <3>4, Zenon
  <2>8. Decoded(p) = [code |-> "ok", result |-> a]
    <3> HIDE DEF got
    <3> QED BY <2>1, <2>4, <2>6, <2>7, Zenon
  <2>9. Decoded(p).code = "ok" /\ Decoded(p).result = a
    BY <2>8
  <2> QED BY <1>2, <2>9 DEF Truthful, a, p
<1> QED BY <1>1, <1>2

-----------------------------------------------------------------------------
(* The frame on its way                                                    *)

\* A step that leaves the stages and the cells as they are, or that only
\* takes the writer to a stage after its frame, leaves the frame in its place.
LEMMA FlowStays ==
  ASSUME NEW m, NEW bf, NEW w, NEW x, NEW c, Flow(m, bf, w, x, c),
         NEW v, v.stage \notin bf \cup {"send"} \/ (v.stage = w.stage /\ v.cells = w.cells),
         NEW y, y.stage = x.stage, y.need = x.need, y.cells = x.cells
  PROVE  Flow(m, bf, v, y, c)
<1>1. PICK a \in Nat, b \in Nat : /\ Between(m, c, a, b) /\ HasRead(m, x, a)
                                  /\ HasWritten(m, w, bf, b)
  BY Zenon DEF Flow
<1>2. HasRead(m, y, a)
  BY <1>1, Zenon DEF HasRead
<1>3. HasWritten(m, v, bf, b)
  BY <1>1, Zenon DEF HasWritten
<1> QED BY <1>1, <1>2, <1>3, Zenon DEF Flow

\* send_frame begins with the whole frame.
LEMMA FlowStarts ==
  ASSUME NEW m, IsSequence(m), NEW bf, "send" \notin bf, NEW w, w.stage \in bf,
         NEW x, NEW c, Flow(m, bf, w, x, c),
         NEW v, v.stage = "send", v.cells = Framed(m)
  PROVE  Flow(m, bf, v, x, c)
<1>1. PICK a \in Nat, b \in Nat : /\ Between(m, c, a, b) /\ HasRead(m, x, a)
                                  /\ HasWritten(m, w, bf, b)
  BY Zenon DEF Flow
<1>2. b = 0
  BY <1>1, Zenon DEF HasWritten
<1>3. /\ IsSequence(Framed(m)) /\ Len(Framed(m)) = 2 + Len(m) /\ Len(m) \in Nat
  BY FrameFacts
<1>4. Slice(Framed(m), 0, Len(Framed(m))) = Framed(m)
  <2>1. 0 \in Nat /\ 0 <= 0 /\ 0 <= Len(Framed(m))
    BY <1>3
  <2> QED BY <1>3, <2>1, SliceAlgebra
<1>5. HasWritten(m, v, bf, b)
  BY <1>2, <1>3, <1>4, Zenon DEF HasWritten
<1> QED BY <1>1, <1>5, Zenon DEF Flow

\* receive_frame begins with nothing read.
LEMMA FlowListens ==
  ASSUME NEW m, IsSequence(m), NEW bf, NEW w, NEW x, x.stage \notin {"header", "payload"},
         NEW c, Flow(m, bf, w, x, c),
         NEW y, y.stage = "header", y.need = 2, y.cells = <<>>
  PROVE  Flow(m, bf, w, y, c)
<1>1. PICK a \in Nat, b \in Nat : /\ Between(m, c, a, b) /\ HasRead(m, x, a)
                                  /\ HasWritten(m, w, bf, b)
  BY Zenon DEF Flow
<1>2. a = 0
  BY <1>1, Zenon DEF HasRead
<1>3. /\ IsSequence(Framed(m)) /\ Len(Framed(m)) = 2 + Len(m) /\ Len(m) \in Nat
  BY FrameFacts
<1>4. Slice(Framed(m), 0, 0) = <<>>
  <2>1. 0 \in Nat /\ 0 <= 0 /\ 0 <= Len(Framed(m))
    BY <1>3
  <2> QED BY <1>3, <2>1, SliceAlgebra
<1>5. HasRead(m, y, a)
  <2>1. 0 < 2 /\ "header" \in {"header", "payload"} /\ "header" # "payload"
    OBVIOUS
  <2> QED BY <1>2, <1>4, <2>1, Zenon DEF HasRead
<1> QED BY <1>1, <1>5, Zenon DEF Flow

\* A reader that does not read yet may do something else first.
LEMMA FlowWaits ==
  ASSUME NEW m, NEW bf, NEW w, NEW x, x.stage \notin {"header", "payload"},
         NEW c, Flow(m, bf, w, x, c), NEW y, y.stage \notin {"header", "payload"}
  PROVE  Flow(m, bf, w, y, c)
<1>1. PICK a \in Nat, b \in Nat : /\ Between(m, c, a, b) /\ HasRead(m, x, a)
                                  /\ HasWritten(m, w, bf, b)
  BY Zenon DEF Flow
<1>2. HasRead(m, y, a)
  BY <1>1 DEF HasRead
<1> QED BY <1>1, <1>2, Zenon DEF Flow

\* Nor does a writer that does not write yet move anything.
LEMMA FlowIdles ==
  ASSUME NEW m, NEW bf, "send" \notin bf, NEW w, w.stage \in bf, NEW x, NEW c,
         Flow(m, bf, w, x, c), NEW v, v.stage \in bf
  PROVE  Flow(m, bf, v, x, c)
<1>1. PICK a \in Nat, b \in Nat : /\ Between(m, c, a, b) /\ HasRead(m, x, a)
                                  /\ HasWritten(m, w, bf, b)
  BY Zenon DEF Flow
<1>2. HasWritten(m, v, bf, b)
  BY <1>1, Zenon DEF HasWritten
<1> QED BY <1>1, <1>2, Zenon DEF Flow

\* What is buffered and what is left to write have lengths.
LEMMA FlowLengths ==
  ASSUME NEW m, IsSequence(m), NEW bf, NEW w, w.stage = "send", NEW x, NEW c,
         Flow(m, bf, w, x, c)
  PROVE  Len(w.cells) \in Nat /\ Len(c) \in Nat
<1> DEFINE F == Framed(m)  N == 2 + Len(m)
<1>1. PICK a \in Nat, b \in Nat : Between(m, c, a, b) /\ HasWritten(m, w, bf, b)
  BY Zenon DEF Flow
<1>2. /\ a <= b /\ b <= N /\ c = Slice(F, a, b) /\ w.cells = Slice(F, b, N)
  BY <1>1, Zenon DEF Between, HasWritten
<1>3. IsSequence(F) /\ Len(F) = N /\ N \in Nat
  <2>1. IsSequence(F) /\ Len(F) = N /\ Len(m) \in Nat
    BY FrameFacts
  <2> QED BY <2>1
<1> HIDE DEF F, N
<1>4. Len(Slice(F, a, b)) = b - a /\ Len(Slice(F, b, N)) = N - b
  <2>1. a <= b /\ b <= N /\ b <= Len(F) /\ N <= Len(F)
    BY <1>2, <1>3
  <2>2. Len(Slice(F, a, b)) = b - a
    BY <1>3, <2>1, SliceLength, Zenon
  <2>3. Len(Slice(F, b, N)) = N - b
    BY <1>3, <2>1, SliceLength, Zenon
  <2> QED BY <2>2, <2>3
<1> QED BY <1>2, <1>3, <1>4

\* The pieces that a write of n cells leaves.
LEMMA FlowWrites ==
  ASSUME NEW m, IsSequence(m), NEW bf, "send" \notin bf, NEW w, w.stage = "send",
         NEW x, NEW c, Flow(m, bf, w, x, c), NEW n \in 1..Len(w.cells),
         NEW v, \/ v.stage = "send" /\ v.cells = After(w.cells, n)
                \/ v.stage \notin bf \cup {"send"}
  PROVE  Flow(m, bf, v, x, c \o Prefix(w.cells, n))
<1> DEFINE F == Framed(m)  N == 2 + Len(m)
<1>1. PICK a \in Nat, b \in Nat : /\ Between(m, c, a, b) /\ HasRead(m, x, a)
                                  /\ HasWritten(m, w, bf, b)
  BY Zenon DEF Flow
<1>2. /\ a <= b /\ b <= N /\ c = Slice(F, a, b)
  BY <1>1, Zenon DEF Between
<1>3. w.cells = Slice(F, b, N)
  BY <1>1, Zenon DEF HasWritten
<1>4. IsSequence(F) /\ Len(F) = N /\ N \in Nat /\ N <= Len(F)
  <2>1. IsSequence(F) /\ Len(F) = N /\ Len(m) \in Nat
    BY FrameFacts
  <2> QED BY <2>1
<1> HIDE DEF F, N
<1>5. Len(w.cells) = N - b
  BY <1>2, <1>3, <1>4, SliceFacts
<1>6. n \in Nat /\ n <= N - b /\ b + n \in Nat /\ b <= b + n /\ b + n <= N /\ a <= b + n
  BY <1>2, <1>4, <1>5
<1>7. /\ Prefix(w.cells, n) = Slice(F, b, b + n)
      /\ After(w.cells, n) = Slice(F, b + n, N)
  BY <1>2, <1>3, <1>4, <1>6, SliceAlgebra
<1>8. c \o Prefix(w.cells, n) = Slice(F, a, b + n)
  <2>1. b <= Len(F) /\ b + n <= Len(F)
    BY <1>2, <1>4, <1>6
  <2>2. Slice(F, a, b) \o Slice(F, b, b + n) = Slice(F, a, b + n)
    BY <1>2, <1>4, <1>6, <2>1, SlicesJoin, Zenon
  <2> QED BY <1>2, <1>7, <2>2, Zenon
<1>9. Between(m, c \o Prefix(w.cells, n), a, b + n)
  BY <1>6, <1>8, Zenon DEF Between, F, N
<1>10. HasWritten(m, v, bf, b + n)
  BY <1>7, Zenon DEF HasWritten, F, N
<1> QED BY <1>1, <1>6, <1>9, <1>10, Zenon DEF Flow

\* What becomes of a frame when its reader has got the cells, and rest is what
\* is left in the buffer.
ReadOn(m, bf, w, x, got, rest) ==
  /\ Len(got) < x.need =>
       \A y : y.stage = x.stage /\ y.need = x.need /\ y.cells = got => Flow(m, bf, w, y, rest)
  /\ ~(Len(got) < x.need) /\ x.stage = "header" =>
       /\ u32v(got) = Len(m)
       /\ \A y : y.stage = "payload" /\ y.need = Len(m) /\ y.cells = <<>> => Flow(m, bf, w, y, rest)
  /\ ~(Len(got) < x.need) /\ x.stage = "payload" => got = m

\* A read of n cells goes on with the frame, or completes its length and finds
\* that of the message, or completes the message.
LEMMA FlowReads ==
  ASSUME NEW m, IsSequence(m), Len(m) >= 3, NEW bf, NEW w,
         NEW x, Receiving(x), NEW c, Flow(m, bf, w, x, c),
         NEW n \in 1..Least(x.need - Len(x.cells), Len(c))
  PROVE  ReadOn(m, bf, w, x, x.cells \o Prefix(c, n), After(c, n))
<1> DEFINE F == Framed(m)  N == 2 + Len(m)
<1>1. PICK a \in Nat, b \in Nat : /\ Between(m, c, a, b) /\ HasRead(m, x, a)
                                  /\ HasWritten(m, w, bf, b)
  BY Zenon DEF Flow
<1>2. /\ a <= b /\ b <= N /\ c = Slice(F, a, b)
  BY <1>1, Zenon DEF Between
<1>3. /\ IsSequence(F) /\ Len(F) = N /\ N \in Nat /\ Len(m) \in Nat
      /\ u32v(Slice(F, 0, 2)) = Len(m) /\ Slice(F, 2, N) = m
  <2>1. IsSequence(F) /\ Len(F) = N /\ Len(m) \in Nat
    BY FrameFacts
  <2>2. u32v(Slice(F, 0, 2)) = Len(m) /\ Slice(F, 2, N) = m
    BY FrameFacts
  <2> QED BY <2>1, <2>2
<1>4. Len(m) = N - 2 /\ N >= 5
  BY <1>3
<1>s. PICK s \in {0, 2} :
        /\ s = (IF x.stage = "header" THEN 0 ELSE 2)
        /\ s <= a /\ x.cells = Slice(F, s, a)
        /\ x.stage = "header" => a < 2 /\ x.need = 2
        /\ x.stage = "payload" => a < N /\ x.need = Len(m)
  <2>1. CASE x.stage = "header"
    <3>1. a < 2 /\ x.need = 2 /\ x.cells = Slice(F, 0, a)
      BY <1>1, <2>1, Zenon DEF HasRead
    <3>2. 0 <= a /\ 0 \in {0, 2} /\ x.stage # "payload"
      BY <2>1
    <3> HIDE DEF F
    <3> QED BY <2>1, <3>1, <3>2
  <2>2. CASE x.stage = "payload"
    <3>1. 2 <= a /\ a < N /\ x.need = Len(m) /\ x.cells = Slice(F, 2, a)
      BY <1>1, <2>2, Zenon DEF HasRead
    <3>2. 2 \in {0, 2} /\ x.stage # "header"
      BY <2>2
    <3> HIDE DEF F
    <3> QED BY <2>2, <3>1, <3>2
  <2> QED BY <2>1, <2>2 DEF Receiving
<1> HIDE DEF F, N
<1>5. Len(x.cells) = a - s /\ Len(c) = b - a
  <2>1. s \in Nat /\ a <= Len(F) /\ b <= Len(F)
    BY <1>2, <1>3, <1>s
  <2>2. Len(Slice(F, s, a)) = a - s
    <3>1. s <= a
      BY <1>s
    <3> QED BY <1>3, <2>1, <3>1, SliceLength, Zenon
  <2>3. Len(Slice(F, a, b)) = b - a
    BY <1>2, <1>3, <2>1, SliceFacts
  <2> QED BY <1>2, <1>s, <2>2, <2>3, Zenon
<1>6. x.need \in Nat
  BY <1>3, <1>s DEF Receiving
<1>7. /\ n \in Nat /\ n > 0 /\ n <= x.need - (a - s) /\ n <= b - a
      /\ a + n \in Nat /\ s \in Nat /\ s <= a + n /\ a + n <= b /\ a + n <= N /\ a <= N /\ b <= Len(F)
  <2>1. n \in 1..Least(x.need - (a - s), b - a)
    BY <1>5, Zenon
  <2>2. n \in Nat /\ n > 0 /\ n <= x.need - (a - s) /\ n <= b - a
    BY <1>2, <1>6, <1>s, <2>1 DEF Least
  <2> QED BY <1>2, <1>3, <1>s, <2>2
<1> DEFINE got == x.cells \o Prefix(c, n)  rest == After(c, n)
<1>8. Prefix(c, n) = Slice(F, a, a + n) /\ rest = Slice(F, a + n, b)
  <2>1. Prefix(Slice(F, a, b), n) = Slice(F, a, a + n) /\ After(Slice(F, a, b), n) = Slice(F, a + n, b)
    <3>1. a <= b /\ b <= Len(F) /\ n \in Nat /\ n <= b - a
      BY <1>2, <1>7
    <3>2. IsSequence(F)
      BY <1>3
    <3> QED BY <3>1, <3>2, SliceCut
  <2> QED BY <1>2, <2>1, Zenon
<1>9. got = Slice(F, s, a + n)
  <2>1. a <= Len(F) /\ a + n <= Len(F) /\ a <= a + n
    BY <1>3, <1>7
  <2>2. Slice(F, s, a) \o Slice(F, a, a + n) = Slice(F, s, a + n)
    <3>1. s \in Nat /\ s <= a /\ a + n \in Nat /\ IsSequence(F)
      BY <1>3, <1>7, <1>s
    <3> DEFINE d == a + n
    <3> HIDE DEF d
    <3>2. d \in Nat /\ a <= d /\ d <= Len(F)
      BY <2>1, <3>1 DEF d
    <3>3. Slice(F, s, a) \o Slice(F, a, d) = Slice(F, s, d)
      BY <3>1, <3>2, SlicesJoin
    <3> QED BY <3>3 DEF d
  <2> QED BY <1>8, <1>s, <2>2, Zenon
<1> HIDE DEF got, rest
<1>10. Len(got) = (a + n) - s
  <2>1. a + n <= Len(F)
    BY <1>3, <1>7
  <2> QED BY <1>3, <1>7, <1>9, <2>1, SliceLength, Zenon
<1>11. Between(m, rest, a + n, b)
  BY <1>2, <1>7, <1>8, Zenon DEF Between, F, N
<1>12. ASSUME Len(got) < x.need,
              NEW y, y.stage = x.stage, y.need = x.need, y.cells = got
       PROVE  Flow(m, bf, w, y, rest)
  <2>1. HasRead(m, y, a + n)
    <3>1. CASE x.stage = "header"
      <4>1. a + n < 2 /\ s = 0
        BY <1>10, <1>12, <1>7, <1>s, <3>1
      <4> QED BY <1>12, <1>9, <1>s, <3>1, <4>1 DEF HasRead, F
    <3>2. CASE x.stage = "payload"
      <4>1. 2 <= a + n /\ a + n < N /\ s = 2
        BY <1>10, <1>12, <1>3, <1>4, <1>7, <1>s, <3>2
      <4> QED BY <1>12, <1>9, <1>s, <3>2, <4>1 DEF HasRead, F, N
    <3> QED BY <3>1, <3>2 DEF Receiving
  <2> QED BY <1>1, <1>7, <1>11, <2>1, Zenon DEF Flow
<1>13. ASSUME ~(Len(got) < x.need), x.stage = "header"
       PROVE  /\ u32v(got) = Len(m)
              /\ \A y : y.stage = "payload" /\ y.need = Len(m) /\ y.cells = <<>> => Flow(m, bf, w, y, rest)
  <2>1. s = 0 /\ a + n = 2
    BY <1>10, <1>13, <1>7, <1>s
  <2>2. u32v(got) = Len(m)
    BY <1>3, <1>9, <2>1, Zenon
  <2>3. Slice(F, 2, 2) = <<>>
    <3>1. 2 \in Nat /\ 2 <= 2 /\ 2 <= Len(F)
      BY <1>3, <1>4
    <3> QED BY <1>3, <3>1, SliceAlgebra
  <2>4. ASSUME NEW y, y.stage = "payload", y.need = Len(m), y.cells = <<>>
        PROVE  Flow(m, bf, w, y, rest)
    <3>1. HasRead(m, y, 2)
      <4>1. 2 <= 2 /\ 2 < N /\ "payload" \in {"header", "payload"} /\ "payload" # "header"
        BY <1>3, <1>4
      <4> QED BY <2>3, <2>4, <4>1, Zenon DEF HasRead, F, N
    <3> QED BY <1>1, <1>7, <1>11, <2>1, <3>1, Zenon DEF Flow
  <2> QED BY <2>2, <2>4
<1>14. ASSUME ~(Len(got) < x.need), x.stage = "payload" PROVE got = m
  <2>1. s = 2 /\ a + n = N
    <3>1. s = 2
      BY <1>14, <1>s
    <3> QED BY <1>10, <1>14, <1>3, <1>4, <1>7, <1>s, <3>1
  <2> QED BY <1>3, <1>9, <2>1, Zenon
<1> QED
  <2>1. ReadOn(m, bf, w, x, got, rest)
    BY <1>12, <1>13, <1>14, Zenon DEF ReadOn
  <2> QED BY <2>1 DEF got, rest

-----------------------------------------------------------------------------
(* One end moves                                                           *)

\* There are two ends.
LEMMA TwoEnds ==
  ASSUME NEW e \in Ends
  PROVE  /\ Other(e) \in Ends /\ Other(e) # e /\ Other(Other(e)) = e
         /\ \A f \in Ends : f = e \/ f = Other(e)
         /\ "client" \in Ends /\ "server" \in Ends
         /\ Other("client") = "server" /\ Other("server") = "client"
  BY DEF Ends, Other

\* The frame of end e is in its place when e becomes N and its cells are
\* in the buffer, and so is the frame that e reads.
SentOK(e, N, cells) ==
  end[Other(e)].stage \in BeforeRead(Other(e)) =>
    Flow(Message(request, e), BeforeWrite(e), N, end[Other(e)], cells)
ReadOK(e, N, cells) ==
  N.stage \in BeforeRead(e) =>
    Flow(Message(request, Other(e)), BeforeWrite(Other(e)), end[Other(e)], N, cells)

\* A step of end e keeps the invariant when it keeps both frames, and when
\* what the client returns is true.
LEMMA EndMoves ==
  ASSUME RpcInv, NEW e \in Ends, NEW N, EndShape(N), end' = [end EXCEPT ![e] = N],
         request' = request, pipe' = [f \in Ends |-> pipe'[f]],
         \/ outcome' = outcome
         \/ \E x : outcome' = [outcome EXCEPT ![e] = x] /\ (e = "client" => Truthful(request, x)),
         e = "client" => WithinLimits(request, N.stage),
         SentOK(e, N, pipe'[e]), ReadOK(e, N, pipe'[Other(e)])
  PROVE  RpcInv'
<1>1. /\ Other(e) \in Ends /\ Other(e) # e /\ Other(Other(e)) = e
      /\ \A f \in Ends : f = e \/ f = Other(e)
      /\ "client" \in Ends
  BY TwoEnds, Zenon
<1>2. \A g, v : g = [f \in Ends |-> g[f]] =>
        LET h == [g EXCEPT ![e] = v]
        IN h = [f \in Ends |-> h[f]] /\ h[e] = v /\ \A f \in Ends : f # e => h[f] = g[f]
  OBVIOUS
<1>3. /\ request \in Requests /\ end = [f \in Ends |-> end[f]] /\ outcome = [f \in Ends |-> outcome[f]]
      /\ \A f \in Ends : EndShape(end[f])
  BY Zenon DEF RpcInv, ShapeOK
<1>4. end' = [f \in Ends |-> end'[f]] /\ end'[e] = N /\ \A f \in Ends : f # e => end'[f] = end[f]
  BY <1>2, <1>3, Zenon
<1>5. outcome' = [f \in Ends |-> outcome'[f]] /\ Truthful(request, outcome'["client"])
  <2>0. Truthful(request, outcome["client"])
    BY Zenon DEF RpcInv
  <2>1. CASE outcome' = outcome
    BY <1>3, <2>0, <2>1, Zenon
  <2>2. CASE \E x : outcome' = [outcome EXCEPT ![e] = x] /\ (e = "client" => Truthful(request, x))
    <3>1. PICK x : outcome' = [outcome EXCEPT ![e] = x] /\ (e = "client" => Truthful(request, x))
      BY <2>2, Zenon
    <3>2. /\ outcome' = [f \in Ends |-> outcome'[f]] /\ outcome'[e] = x
          /\ \A f \in Ends : f # e => outcome'[f] = outcome[f]
      BY <1>2, <1>3, <3>1, Zenon
    <3> QED BY <1>1, <2>0, <3>1, <3>2, Zenon
  <2> QED BY <2>1, <2>2, Zenon
<1>6. ShapeOK'
  <2>1. \A f \in Ends : EndShape(end'[f])
    BY <1>3, <1>4, Zenon
  <2>2. request' \in Requests
    BY <1>3, Zenon
  <2> QED BY <1>4, <1>5, <2>1, <2>2, Zenon DEF ShapeOK, EndShape
<1>7. WithinLimits(request, end'["client"].stage)
  BY <1>1, <1>4, Zenon DEF RpcInv
<1>8. ASSUME NEW f \in Ends PROVE FlowOK(request, f, end', pipe'[f])
  <2>1. CASE f = e
    <3>1. end'[Other(e)] = end[Other(e)] /\ end'[e] = N
      BY <1>1, <1>4, Zenon
    <3> QED BY <2>1, <3>1, Zenon DEF SentOK, FlowOK
  <2>2. CASE f = Other(e)
    <3>1. end'[Other(f)] = N /\ end'[f] = end[Other(e)] /\ Other(f) = e
      BY <1>1, <1>4, <2>2, Zenon
    <3> QED BY <2>2, <3>1, Zenon DEF ReadOK, FlowOK
  <2> QED BY <1>1, <2>1, <2>2, Zenon
<1>9. /\ \A f \in Ends : FlowOK(request', f, end', pipe'[f])
      /\ WithinLimits(request', end'["client"].stage)
      /\ Truthful(request', outcome'["client"])
  BY <1>5, <1>7, <1>8, Zenon
<1> QED BY <1>6, <1>9, Zenon DEF RpcInv

\* What the invariant says of the two frames of end e.
LEMMA Frames ==
  ASSUME RpcInv, NEW e \in Ends
  PROVE  SentOK(e, end[e], pipe[e]) /\ ReadOK(e, end[e], pipe[Other(e)])
<1>1. Other(e) \in Ends /\ Other(Other(e)) = e
  BY TwoEnds, Zenon
<1>2. FlowOK(request, e, end, pipe[e]) /\ FlowOK(request, Other(e), end, pipe[Other(e)])
  BY <1>1, Zenon DEF RpcInv
<1> QED BY <1>1, <1>2, Zenon DEF SentOK, ReadOK, FlowOK

\* An end whose frame is behind it, or that keeps its stage and its cells,
\* leaves its frame in its place.
LEMMA SentStays ==
  ASSUME RpcInv, NEW e \in Ends, NEW N,
         \/ N.stage \notin BeforeWrite(e) \cup {"send"}
         \/ N.stage = end[e].stage /\ N.cells = end[e].cells
  PROVE  SentOK(e, N, pipe[e])
<1>1. SentOK(e, end[e], pipe[e])
  BY Frames
<1> QED BY <1>1, FlowStays, Zenon DEF SentOK

\* The call returns x.
LEMMA Returns ==
  ASSUME RpcInv, NEW e \in Ends, NEW x, Return(e, x), request' = request,
         pipe' = [f \in Ends |-> pipe'[f]], e = "client" => Truthful(request, x),
         pipe'[e] = pipe[e] \/ SentOK(e, At("returned", 0, <<>>), pipe'[e])
  PROVE  RpcInv'
<1> DEFINE N == At("returned", 0, <<>>)
<1>1. N.stage = "returned" /\ EndShape(N)
  BY DEF At, EndShape
<1>2. "returned" \notin BeforeWrite(e) \cup {"send"} /\ "returned" \notin BeforeRead(e)
  BY DEF BeforeWrite, BeforeRead
<1>3. "returned" \notin {"send", "header", "payload"}
  OBVIOUS
<1>4. /\ end' = [end EXCEPT ![e] = N]
      /\ \E z : outcome' = [outcome EXCEPT ![e] = z] /\ (e = "client" => Truthful(request, z))
  BY Zenon DEF Return
<1> HIDE DEF N
<1>5. SentOK(e, N, pipe[e])
  BY <1>1, <1>2, SentStays, Zenon
<1>6. SentOK(e, N, pipe'[e])
  BY <1>5, Zenon DEF N
<1>7. ReadOK(e, N, pipe'[Other(e)])
  BY <1>1, <1>2, Zenon DEF ReadOK
<1>8. e = "client" => WithinLimits(request, N.stage)
  BY <1>1, <1>3, Zenon DEF WithinLimits
<1> QED BY <1>1, <1>4, <1>6, <1>7, <1>8, EndMoves, Zenon

\* The failures that say nothing of the answer.
LEMMA FailureTruth ==
  ASSUME NEW r, NEW code, code \in {"timeout", "io_error", "disconnected", "rejected"}
  PROVE  Truthful(r, Error(code))
<1>1. Error(code).code = code
  BY DEF Error, NoOutcome
<1>2. code \notin {"ok", "remote_error", "resource_limit", "protocol_error"}
  OBVIOUS
<1> QED BY <1>1, <1>2, Zenon DEF Truthful

\* Steps that leave both ends, the buffers and the outcomes alone.
LEMMA Quiet ==
  ASSUME RpcInv, UNCHANGED <<request, end, pipe, outcome>>
  PROVE  RpcInv'
<1>1. request' = request /\ end' = end /\ pipe' = pipe /\ outcome' = outcome
  OBVIOUS
<1> QED BY <1>1, Zenon DEF RpcInv, ShapeOK, EndShape

\* The pipe and the request of an invariant state.
LEMMA Shapes ==
  ASSUME RpcInv
  PROVE  /\ request \in Requests
         /\ pipe = [f \in Ends |-> pipe[f]]
         /\ \A e \in Ends : EndShape(end[e])
  BY Zenon DEF RpcInv, ShapeOK

\* A call that fails with its buffers as they are.
LEMMA Fails ==
  ASSUME RpcInv, NEW e \in Ends, UNCHANGED <<request, pipe>>,
         NEW code \in {"timeout", "io_error", "disconnected", "rejected"}, Return(e, Error(code))
  PROVE  RpcInv'
<1>1. request' = request /\ pipe' = pipe
  OBVIOUS
<1>2. pipe' = [f \in Ends |-> pipe'[f]] /\ pipe'[e] = pipe[e]
  BY <1>1, Shapes, Zenon
<1>3. Truthful(request, Error(code))
  BY FailureTruth, Zenon
<1> QED BY <1>1, <1>2, <1>3, Returns, Zenon

\* An end that goes on, its frames in their places.
LEMMA GoesOn ==
  ASSUME RpcInv, NEW e \in Ends, NEW N, EndShape(N), GoOn(e, N),
         request' = request, pipe' = [f \in Ends |-> pipe'[f]],
         e = "client" => WithinLimits(request, N.stage),
         SentOK(e, N, pipe'[e]), ReadOK(e, N, pipe'[Other(e)])
  PROVE  RpcInv'
<1>1. end' = [end EXCEPT ![e] = N] /\ outcome' = outcome
  BY Zenon DEF GoOn
<1> QED BY <1>1, EndMoves, Zenon

\* poll says that the socket is ready, or the write returns early.
LEMMA Polls ==
  ASSUME RpcInv, NEW e \in Ends, NEW v, end' = [end EXCEPT ![e].polled = v],
         UNCHANGED <<request, pipe, outcome>>
  PROVE  RpcInv'
<1> DEFINE R == end[e]  N == [R EXCEPT !.polled = v]
           Type == [stage : {R.stage}, polled : {R.polled, v}, need : {R.need}, cells : {R.cells}]
<1>1. end' = [end EXCEPT ![e] = N]
  OBVIOUS
<1>2. R \in Type
  <2>1. R = [stage |-> R.stage, polled |-> R.polled, need |-> R.need, cells |-> R.cells]
    BY Shapes, Zenon DEF EndShape
  <2> HIDE DEF R
  <2> QED BY <2>1
<1>3. /\ N = [stage |-> N.stage, polled |-> N.polled, need |-> N.need, cells |-> N.cells]
      /\ N.stage = R.stage /\ N.need = R.need /\ N.cells = R.cells
  <2> HIDE DEF R
  <2> QED BY <1>2
<1> HIDE DEF N
<1>4. EndShape(N) /\ N.stage = end[e].stage /\ N.need = end[e].need /\ N.cells = end[e].cells
  BY <1>3, Zenon DEF EndShape
<1>5. request' = request /\ pipe' = pipe /\ outcome' = outcome /\ pipe' = [f \in Ends |-> pipe'[f]]
  BY Shapes, Zenon
<1>6. SentOK(e, N, pipe'[e])
  BY <1>4, <1>5, SentStays, Zenon
<1>7. ReadOK(e, N, pipe'[Other(e)])
  <2>1. ReadOK(e, end[e], pipe[Other(e)])
    BY Frames
  <2> QED BY <1>4, <1>5, <2>1, FlowStays, Zenon DEF ReadOK
<1>8. e = "client" => WithinLimits(request, N.stage)
  BY <1>4, Zenon DEF RpcInv
<1> QED BY <1>1, <1>4, <1>5, <1>6, <1>7, <1>8, EndMoves, Zenon

\* An end that writes has said nothing yet, and its frame is the message.
LEMMA BeginsFrame ==
  ASSUME RpcInv, NEW e \in Ends, end[e].stage \in BeforeWrite(e),
         NEW N, N.stage = "send", N.cells = Framed(Message(request, e))
  PROVE  SentOK(e, N, pipe[e])
<1>1. SentOK(e, end[e], pipe[e])
  BY Frames
<1>2. "send" \notin BeforeWrite(e)
  BY DEF BeforeWrite
<1>3. IsSequence(Message(request, e))
  BY Shapes, MessageFacts, Zenon
<1> QED BY <1>1, <1>2, <1>3, FlowStarts, Zenon DEF SentOK

\* A connection that stands.
LEMMA ConnectedKeeps ==
  ASSUME RpcInv, Connected
  PROVE  RpcInv'
<1> DEFINE m == EncodedRequest(request)
           over == \/ Len(request.query) > Limits["client"].query
                   \/ request.top_k > Limits["client"].hits
<1>0. request' = request /\ pipe' = pipe /\ end["client"].stage = "connect" /\ "client" \in Ends
  BY DEF Connected, Ends
<1>1. pipe' = [f \in Ends |-> pipe'[f]] /\ pipe'["client"] = pipe["client"]
  BY <1>0, Shapes, Zenon
<1>2. Error("resource_limit").code = "resource_limit"
  BY DEF Error, NoOutcome
<1>3. "resource_limit" \notin {"ok", "remote_error", "protocol_error"}
  OBVIOUS
<1>4. CASE over
  <2>1. Return("client", Error("resource_limit"))
    BY <1>4, Zenon DEF Connected
  <2>2. Truthful(request, Error("resource_limit"))
    BY <1>2, <1>3, <1>4, Zenon DEF Truthful
  <2> QED BY <1>0, <1>1, <2>1, <2>2, Returns, Zenon
<1>5. CASE ~over
  <2>1. SendFrame("client", m)
    BY <1>5, Zenon DEF Connected
  <2>2. CASE Len(m) > Limits["client"].frame
    <3>1. Return("client", Error("resource_limit"))
      BY <2>1, <2>2, Zenon DEF SendFrame
    <3>2. Truthful(request, Error("resource_limit"))
      BY <1>2, <1>3, <2>2, Zenon DEF Truthful
    <3> QED BY <1>0, <1>1, <3>1, <3>2, Returns, Zenon
  <2>3. CASE ~(Len(m) > Limits["client"].frame)
    <3> DEFINE N == At("send", 0, Framed(m))
    <3>1. GoOn("client", N)
      BY <2>1, <2>3, Zenon DEF SendFrame
    <3>2. EndShape(N) /\ N.stage = "send" /\ N.cells = Framed(m) /\ Message(request, "client") = m
      BY DEF At, EndShape, Message
    <3>3. "connect" \in BeforeWrite("client") /\ "connect" \notin {"header", "payload"}
          /\ "connect" \in BeforeRead("client") /\ "send" \notin {"header", "payload"}
      BY DEF BeforeWrite, BeforeRead
    <3> HIDE DEF N
    <3>4. SentOK("client", N, pipe'["client"])
      BY <1>0, <1>1, <3>2, <3>3, BeginsFrame, Zenon
    <3>5. ReadOK("client", N, pipe'[Other("client")])
      <4>1. ReadOK("client", end["client"], pipe[Other("client")])
        BY <1>0, Frames
      <4>2. Flow(Message(request, Other("client")), BeforeWrite(Other("client")),
                 end[Other("client")], end["client"], pipe[Other("client")])
        BY <1>0, <3>3, <4>1, Zenon DEF ReadOK
      <4>3. Flow(Message(request, Other("client")), BeforeWrite(Other("client")),
                 end[Other("client")], N, pipe[Other("client")])
        BY <1>0, <3>2, <3>3, <4>2, FlowWaits, Zenon
      <4> QED BY <1>0, <4>3, Zenon DEF ReadOK
    <3>6. WithinLimits(request, N.stage)
      <4>1. /\ Limits["client"].query \in Nat /\ Limits["client"].hits \in Nat
            /\ Limits["client"].frame \in Nat
        BY LimitsAssumption DEF Ends
      <4>2. Len(request.query) \in Nat /\ request.top_k \in Nat /\ Len(m) = 3 + Len(request.query)
        BY Shapes, RequestFacts, Zenon
      <4>3. Len(request.query) <= Limits["client"].query /\ request.top_k <= Limits["client"].hits
        BY <1>5, <4>1, <4>2
      <4>4. Len(m) <= Limits["client"].frame
        <5> HIDE DEF m
        <5> QED BY <2>3, <4>1, <4>2
      <4> QED BY <4>3, <4>4, Zenon DEF WithinLimits
    <3> QED BY <1>0, <1>1, <3>1, <3>2, <3>4, <3>5, <3>6, GoesOn, Zenon
  <2> QED BY <2>2, <2>3, Zenon
<1> QED BY <1>4, <1>5, Zenon

\* getaddrinfo returns.
LEMMA ResolveKeeps ==
  ASSUME RpcInv, Resolve
  PROVE  RpcInv'
<1>0. /\ request' = request /\ pipe' = pipe /\ end["client"].stage = "resolve" /\ "client" \in Ends
      /\ "io_error" \in {"timeout", "io_error", "disconnected", "rejected"}
  BY DEF Resolve, Ends
<1>1. CASE Return("client", Error("io_error"))
  BY <1>0, <1>1, Fails
<1>2. CASE GoOn("client", At("connect", 0, <<>>))
  <2> DEFINE N == At("connect", 0, <<>>)
  <2>1. EndShape(N) /\ N.stage = "connect"
    BY DEF At, EndShape
  <2>2. /\ "connect" \in BeforeWrite("client") /\ "resolve" \in BeforeWrite("client")
        /\ "resolve" \in BeforeRead("client") /\ "send" \notin BeforeWrite("client")
        /\ "connect" \notin {"header", "payload"} /\ "resolve" \notin {"header", "payload"}
        /\ "connect" \notin {"send", "header", "payload"} /\ "connect" # "send"
    BY DEF BeforeWrite, BeforeRead
  <2> HIDE DEF N
  <2>3. SentOK("client", N, pipe["client"])
    <3>1. SentOK("client", end["client"], pipe["client"])
      BY <1>0, Frames
    <3> QED BY <1>0, <2>1, <2>2, <3>1, FlowIdles, Zenon DEF SentOK
  <2>4. ReadOK("client", N, pipe[Other("client")])
    <3>1. ReadOK("client", end["client"], pipe[Other("client")])
      BY <1>0, Frames
    <3> QED BY <1>0, <2>1, <2>2, <3>1, FlowWaits, Zenon DEF ReadOK
  <2>5. WithinLimits(request, N.stage)
    BY <2>1, <2>2, Zenon DEF WithinLimits
  <2>6. pipe' = [f \in Ends |-> pipe'[f]] /\ GoOn("client", N)
    BY <1>0, <1>2, Shapes, Zenon DEF N
  <2> QED BY <1>0, <2>1, <2>3, <2>4, <2>5, <2>6, GoesOn, Zenon
<1> QED BY <1>1, <1>2, Zenon DEF Resolve

\* The worker begins with the request.
LEMMA ServeKeeps ==
  ASSUME RpcInv, Serve
  PROVE  RpcInv'
<1> DEFINE N == At("header", HeaderCells, <<>>)
<1>0. request' = request /\ pipe' = pipe /\ end["server"].stage = "accept" /\ "server" \in Ends
  BY DEF Serve, Ends
<1>1. EndShape(N) /\ N.stage = "header" /\ N.need = 2 /\ N.cells = <<>>
  BY DEF At, EndShape, HeaderCells
<1>2. /\ "accept" \in BeforeWrite("server") /\ "header" \in BeforeWrite("server")
      /\ "accept" \in BeforeRead("server") /\ "send" \notin BeforeWrite("server")
      /\ "accept" \notin {"header", "payload"} /\ "header" # "send" /\ "server" # "client"
  BY DEF BeforeWrite, BeforeRead
<1>3. GoOn("server", N)
  BY Zenon DEF Serve, ReceiveFrame
<1> HIDE DEF N
<1>4. SentOK("server", N, pipe["server"])
  <2>1. SentOK("server", end["server"], pipe["server"])
    BY <1>0, Frames
  <2> QED BY <1>0, <1>1, <1>2, <2>1, FlowIdles, Zenon DEF SentOK
<1>5. ReadOK("server", N, pipe[Other("server")])
  <2>1. ReadOK("server", end["server"], pipe[Other("server")])
    BY <1>0, Frames
  <2>2. IsSequence(Message(request, Other("server")))
    BY <1>0, TwoEnds, Shapes, MessageFacts, Zenon
  <2> QED BY <1>0, <1>1, <1>2, <2>1, <2>2, FlowListens, Zenon DEF ReadOK
<1>6. pipe' = [f \in Ends |-> pipe'[f]]
  BY <1>0, Shapes, Zenon
<1> QED BY <1>0, <1>1, <1>2, <1>3, <1>4, <1>5, <1>6, GoesOn, Zenon

\* A write moves cells into the buffer; the last of them ends the frame.
LEMMA WriteSomeKeeps ==
  ASSUME RpcInv, NEW e \in Ends, WriteSome(e)
  PROVE  RpcInv'
<1> DEFINE w == end[e]
<1>0. request' = request /\ w.stage = "send"
  BY Zenon DEF WriteSome, Writing
<1>1. PICK n \in 1..Least(Len(w.cells), Buffer - Len(pipe[e])) :
        /\ pipe' = [pipe EXCEPT ![e] = @ \o Prefix(w.cells, n)]
        /\ IF After(w.cells, n) = <<>> THEN FrameSent(e)
           ELSE GoOn(e, [w EXCEPT !.cells = After(w.cells, n)])
  BY Zenon DEF WriteSome
<1>2. /\ pipe' = [f \in Ends |-> pipe'[f]] /\ pipe'[e] = pipe[e] \o Prefix(w.cells, n)
      /\ pipe'[Other(e)] = pipe[Other(e)]
  <2>1. pipe = [f \in Ends |-> pipe[f]] /\ Other(e) \in Ends /\ Other(e) # e
    BY Shapes, TwoEnds, Zenon
  <2>2. \A g, v : g = [f \in Ends |-> g[f]] =>
        LET h == [g EXCEPT ![e] = v]
        IN h = [f \in Ends |-> h[f]] /\ h[e] = v /\ \A f \in Ends : f # e => h[f] = g[f]
    OBVIOUS
  <2>3. pipe' = [pipe EXCEPT ![e] = pipe[e] \o Prefix(w.cells, n)]
    BY <1>1
  <2> QED BY <2>1, <2>2, <2>3, Zenon
<1>3. /\ "send" \notin BeforeWrite(e) /\ "send" \notin {"header", "payload"}
      /\ "header" # "send" /\ (e = "client" => "header" \notin BeforeWrite(e) /\ "send" \in BeforeRead(e))
      /\ "returned" \notin BeforeWrite(e) \cup {"send"}
      /\ "header" \in {"send", "header", "payload"} /\ "send" \in {"send", "header", "payload"}
  BY DEF BeforeWrite, BeforeRead
<1>4. IsSequence(Message(request, e)) /\ IsSequence(Message(request, Other(e)))
  <2>1. Other(e) \in Ends
    BY TwoEnds, Zenon
  <2> QED BY <2>1, Shapes, MessageFacts, Zenon
<1>5. \A N : \/ N.stage = "send" /\ N.cells = After(w.cells, n)
             \/ N.stage \notin BeforeWrite(e) \cup {"send"}
             => SentOK(e, N, pipe'[e])
  <2> SUFFICES ASSUME NEW N, \/ N.stage = "send" /\ N.cells = After(w.cells, n)
                             \/ N.stage \notin BeforeWrite(e) \cup {"send"},
                      end[Other(e)].stage \in BeforeRead(Other(e))
               PROVE  Flow(Message(request, e), BeforeWrite(e), N, end[Other(e)], pipe'[e])
    BY Zenon DEF SentOK
  <2>1. Flow(Message(request, e), BeforeWrite(e), w, end[Other(e)], pipe[e])
    BY Frames, Zenon DEF SentOK
  <2>2. Len(w.cells) \in Nat /\ Len(pipe[e]) \in Nat
    BY <1>0, <1>4, <2>1, FlowLengths, Zenon
  <2>3. n \in 1..Len(w.cells)
    <3>1. Buffer \in Nat
      BY LimitsAssumption
    <3> HIDE DEF w
    <3> QED BY <2>2, <3>1 DEF Least
  <2>4. Flow(Message(request, e), BeforeWrite(e), N, end[Other(e)], pipe[e] \o Prefix(w.cells, n))
    <3> HIDE DEF w
    <3> QED BY <1>0, <1>3, <1>4, <2>1, <2>3, FlowWrites, Zenon
  <2> QED BY <1>2, <2>4, Zenon
<1>6. CASE After(w.cells, n) # <<>>
  <2> DEFINE N == [w EXCEPT !.cells = After(w.cells, n)]
             Type == [stage : {w.stage}, polled : {w.polled}, need : {w.need},
                      cells : {w.cells, After(w.cells, n)}]
  <2>1. GoOn(e, N)
    BY <1>1, <1>6, Zenon
  <2>2. w \in Type
    <3>1. w = [stage |-> w.stage, polled |-> w.polled, need |-> w.need, cells |-> w.cells]
      BY Shapes, Zenon DEF EndShape
    <3> HIDE DEF w
    <3> QED BY <3>1
  <2>3. /\ N = [stage |-> N.stage, polled |-> N.polled, need |-> N.need, cells |-> N.cells]
        /\ N.stage = w.stage /\ N.cells = After(w.cells, n)
    <3> HIDE DEF w
    <3> QED BY <2>2
  <2> HIDE DEF N
  <2>4. EndShape(N) /\ N.stage = "send"
    BY <1>0, <2>3, Zenon DEF EndShape
  <2>5. SentOK(e, N, pipe'[e])
    BY <1>5, <2>3, <2>4, Zenon
  <2>6. ReadOK(e, N, pipe'[Other(e)])
    <3>1. ReadOK(e, end[e], pipe[Other(e)])
      BY Frames
    <3> QED BY <1>0, <1>2, <1>3, <2>4, <3>1, FlowWaits, Zenon DEF ReadOK
  <2>7. e = "client" => WithinLimits(request, N.stage)
    BY <1>0, <2>4, Zenon DEF RpcInv
  <2> QED BY <1>0, <1>2, <2>1, <2>4, <2>5, <2>6, <2>7, GoesOn, Zenon
<1>7. CASE After(w.cells, n) = <<>> /\ e = "client"
  <2> DEFINE N == At("header", HeaderCells, <<>>)
  <2>1. GoOn(e, N)
    BY <1>1, <1>7, Zenon DEF FrameSent, ReceiveFrame
  <2>2. EndShape(N) /\ N.stage = "header" /\ N.need = 2 /\ N.cells = <<>>
    BY DEF At, EndShape, HeaderCells
  <2> HIDE DEF N
  <2>3. SentOK(e, N, pipe'[e])
    <3>1. N.stage \notin BeforeWrite(e) \cup {"send"}
      BY <1>3, <1>7, <2>2, Zenon
    <3> QED BY <1>5, <3>1, Zenon
  <2>4. ReadOK(e, N, pipe'[Other(e)])
    <3>1. ReadOK(e, end[e], pipe[Other(e)])
      BY Frames
    <3> QED BY <1>0, <1>2, <1>3, <1>4, <1>7, <2>2, <3>1, FlowListens, Zenon DEF ReadOK
  <2>5. WithinLimits(request, N.stage)
    <3>1. WithinLimits(request, "send")
      BY <1>0, <1>7, Zenon DEF RpcInv
    <3> QED BY <1>3, <2>2, <3>1, Zenon DEF WithinLimits
  <2> QED BY <1>0, <1>2, <2>1, <2>2, <2>3, <2>4, <2>5, GoesOn, Zenon
<1>8. CASE After(w.cells, n) = <<>> /\ e # "client"
  <2>1. Return(e, Error("ok"))
    BY <1>1, <1>8, Zenon DEF FrameSent
  <2>2. At("returned", 0, <<>>).stage = "returned"
    BY DEF At
  <2>3. SentOK(e, At("returned", 0, <<>>), pipe'[e])
    BY <1>3, <1>5, <2>2, Zenon
  <2> QED BY <1>0, <1>2, <1>8, <2>1, <2>3, Returns, Zenon
<1> QED BY <1>6, <1>7, <1>8, Zenon

\* Reading leaves the frame that an end writes in its place.
LEMMA SentWhileReading ==
  ASSUME RpcInv, NEW e \in Ends, Receiving(end[e]), NEW N, Receiving(N)
  PROVE  SentOK(e, N, pipe[e])
<1>1. CASE e = "client"
  <2>1. N.stage \notin BeforeWrite(e) \cup {"send"}
    BY <1>1 DEF BeforeWrite, Receiving
  <2> QED BY <2>1, SentStays, Zenon
<1>2. CASE e # "client"
  <2>1. N.stage \in BeforeWrite(e) /\ end[e].stage \in BeforeWrite(e) /\ "send" \notin BeforeWrite(e)
    BY <1>2 DEF BeforeWrite, Receiving
  <2>2. SentOK(e, end[e], pipe[e])
    BY Frames
  <2> QED BY <2>1, <2>2, FlowIdles, Zenon DEF SentOK
<1> QED BY <1>1, <1>2

\* A client that finds an answer too long is right about it.
LEMMA LimitTruth ==
  ASSUME NEW r, Len(Message(r, "server")) > Limits["client"].frame
  PROVE  Truthful(r, Error("resource_limit"))
<1>1. Len(Response(EncodedRequest(r))) > Limits["client"].frame
  BY DEF Message
<1>2. Error("resource_limit").code = "resource_limit"
  BY DEF Error, NoOutcome
<1>3. "resource_limit" \notin {"ok", "remote_error", "protocol_error"}
  OBVIOUS
<1> QED BY <1>1, <1>2, <1>3, Zenon DEF Truthful

\* A read takes cells from the buffer; the last of them ends the length of the
\* frame or its payload.
LEMMA ReadSomeKeeps ==
  ASSUME RpcInv, NEW e \in Ends, ReadSome(e)
  PROVE  RpcInv'
<1> DEFINE x == end[e]  o == Other(e)  m == Message(request, o)  bf == BeforeWrite(o)  c == pipe[o]
<1>0. request' = request /\ Receiving(x)
  BY Zenon DEF ReadSome, Reading, Receiving
<1>1. PICK n \in 1..Least(x.need - Len(x.cells), Len(c)) :
        /\ pipe' = [pipe EXCEPT ![o] = After(@, n)]
        /\ IF Len(x.cells \o Prefix(c, n)) < x.need
           THEN GoOn(e, At(x.stage, x.need, x.cells \o Prefix(c, n)))
           ELSE Received(e, x.cells \o Prefix(c, n))
  BY Zenon DEF ReadSome, Stream
<1> DEFINE got == x.cells \o Prefix(c, n)  rest == After(c, n)
<1>2. o \in Ends /\ o # e /\ request \in Requests /\ "client" \in Ends
  BY TwoEnds, Shapes, Zenon
<1>3. pipe' = [f \in Ends |-> pipe'[f]] /\ pipe'[o] = rest /\ pipe'[e] = pipe[e]
  <2>1. pipe = [f \in Ends |-> pipe[f]]
    BY Shapes, Zenon
  <2>2. pipe' = [pipe EXCEPT ![o] = rest]
    BY <1>1
  <2>3. \A g, v, k : g = [f \in Ends |-> g[f]] /\ k \in Ends =>
        LET h == [g EXCEPT ![k] = v]
        IN h = [f \in Ends |-> h[f]] /\ h[k] = v /\ \A f \in Ends : f # k => h[f] = g[f]
    OBVIOUS
  <2> HIDE DEF o, rest
  <2> QED BY <1>2, <2>1, <2>2, <2>3, Zenon
<1>4. IsSequence(m) /\ Len(m) >= 3 /\ Len(m) \in Nat
  BY <1>2, MessageFacts, Zenon
<1>5. ReadOn(m, bf, end[o], x, got, rest)
  <2>1. x.stage \in BeforeRead(e)
    BY <1>0 DEF BeforeRead, Receiving
  <2>2. Flow(m, bf, end[o], x, c)
    BY <2>1, Frames, Zenon DEF ReadOK
  <2> HIDE DEF x, m, bf, c, o
  <2> QED BY <1>0, <1>4, <2>2, FlowReads, Zenon
<1>6. e = "client" => WithinLimits(request, "header") /\ WithinLimits(request, "payload")
  <2>1. e = "client" => WithinLimits(request, x.stage)
    BY Zenon DEF RpcInv
  <2>2. /\ "header" \in {"send", "header", "payload"} /\ "payload" \in {"send", "header", "payload"}
        /\ x.stage \in {"send", "header", "payload"}
    BY <1>0 DEF Receiving
  <2> HIDE DEF x
  <2> QED BY <2>1, <2>2, Zenon DEF WithinLimits
<1> HIDE DEF got, rest
<1>7. CASE Len(got) < x.need
  <2> DEFINE N == At(x.stage, x.need, got)
  <2>1. GoOn(e, N)
    BY <1>1, <1>7, Zenon DEF got
  <2>2. EndShape(N) /\ N.stage = x.stage /\ N.need = x.need /\ N.cells = got
    <3> HIDE DEF x
    <3> QED BY DEF At, EndShape
  <2> HIDE DEF N
  <2>3. SentOK(e, N, pipe'[e])
    <3>1. Receiving(N)
      BY <1>0, <2>2, Zenon DEF Receiving
    <3> QED BY <1>0, <1>3, <3>1, SentWhileReading, Zenon
  <2>4. ReadOK(e, N, pipe'[Other(e)])
    <3>1. Flow(m, bf, end[o], N, rest)
      <4> HIDE DEF x, m, bf, o
      <4> QED BY <1>5, <1>7, <2>2, Zenon DEF ReadOn
    <3> QED BY <1>3, <3>1, Zenon DEF ReadOK
  <2>5. e = "client" => WithinLimits(request, N.stage)
    BY <2>2, Zenon DEF RpcInv
  <2> QED BY <1>0, <1>3, <2>1, <2>2, <2>3, <2>4, <2>5, GoesOn, Zenon
<1>8. CASE ~(Len(got) < x.need) /\ x.stage = "header"
  <2>1. HeaderReceived(e, got)
    BY <1>1, <1>8, Zenon DEF Received, got
  <2>2. /\ u32v(got) = Len(m)
        /\ \A y : y.stage = "payload" /\ y.need = Len(m) /\ y.cells = <<>> => Flow(m, bf, end[o], y, rest)
    <3> HIDE DEF x, m, bf, o
    <3> QED BY <1>5, <1>8, Zenon DEF ReadOn
  <2>3. CASE u32v(got) > Limits[e].frame
    <3>1. Return(e, Error("resource_limit"))
      BY <2>1, <2>3, Zenon DEF HeaderReceived
    <3>2. ASSUME e = "client" PROVE Truthful(request, Error("resource_limit"))
      <4>1. o = "server"
        BY <3>2 DEF Other
      <4>2. Len(Message(request, "server")) > Limits["client"].frame
        BY <2>2, <2>3, <3>2, <4>1, Zenon
      <4> QED BY <4>2, LimitTruth, Zenon
    <3> QED BY <1>0, <1>3, <3>1, <3>2, Returns, Zenon
  <2>4. CASE ~(u32v(got) > Limits[e].frame)
    <3> DEFINE N == At("payload", u32v(got), <<>>)
    <3>1. GoOn(e, N)
      BY <2>1, <2>4, Zenon DEF HeaderReceived
    <3>2. EndShape(N) /\ N.stage = "payload" /\ N.need = u32v(got) /\ N.cells = <<>>
      BY DEF At, EndShape
    <3> HIDE DEF N
    <3>3. SentOK(e, N, pipe'[e])
      <4>1. Receiving(N)
        BY <3>2 DEF Receiving
      <4> QED BY <1>0, <1>3, <4>1, SentWhileReading, Zenon
    <3>4. ReadOK(e, N, pipe'[Other(e)])
      <4>1. Flow(m, bf, end[o], N, rest)
        BY <2>2, <3>2, Zenon
      <4> QED BY <1>3, <4>1, Zenon DEF ReadOK
    <3>5. e = "client" => WithinLimits(request, N.stage)
      BY <1>6, <3>2, Zenon
    <3> QED BY <1>0, <1>3, <3>1, <3>2, <3>3, <3>4, <3>5, GoesOn, Zenon
  <2> QED BY <2>3, <2>4, Zenon
<1>9. CASE ~(Len(got) < x.need) /\ x.stage = "payload"
  <2>0. "payload" # "header"
    OBVIOUS
  <2>1. PayloadReceived(e, got)
    BY <1>1, <1>9, <2>0, Zenon DEF Received, got
  <2>2. got = m
    <3> HIDE DEF x, m, bf, o
    <3> QED BY <1>5, <1>9, Zenon DEF ReadOn
  <2>3. CASE e = "client"
    <3>1. o = "server"
      BY <2>3 DEF Other
    <3>2. Return(e, Decoded(Message(request, "server")))
      BY <2>1, <2>2, <2>3, <3>1, Zenon DEF PayloadReceived
    <3>3. Truthful(request, Decoded(Message(request, "server")))
      <4>1. "payload" \in {"send", "header", "payload"}
        OBVIOUS
      <4>2. request.top_k <= Limits["client"].hits
        BY <1>6, <2>3, <4>1, Zenon DEF WithinLimits
      <4> QED BY <1>2, <4>2, DecodedTruth, Zenon
    <3> QED BY <1>0, <1>3, <3>2, <3>3, Returns, Zenon
  <2>4. CASE e # "client"
    <3>1. o = "client" /\ m = EncodedRequest(request) /\ e = "server"
      BY <2>4 DEF Other, Message, Ends
    <3> DEFINE p == Message(request, e)
    <3>2. SendFrame(e, p)
      <4>1. p = Response(EncodedRequest(request))
        BY <2>4, Zenon DEF Message
      <4> QED BY <2>1, <2>2, <2>4, <3>1, <4>1, Zenon DEF PayloadReceived
    <3>3. CASE Len(p) > Limits[e].frame
      <4>1. Return(e, Error("resource_limit"))
        BY <3>2, <3>3, Zenon DEF SendFrame
      <4> QED BY <1>0, <1>3, <2>4, <4>1, Returns, Zenon
    <3>4. CASE ~(Len(p) > Limits[e].frame)
      <4> DEFINE N == At("send", 0, Framed(p))
      <4>1. GoOn(e, N)
        BY <3>2, <3>4, Zenon DEF SendFrame
      <4>2. EndShape(N) /\ N.stage = "send" /\ N.cells = Framed(p)
        <5> HIDE DEF p
        <5> QED BY DEF At, EndShape
      <4> HIDE DEF N
      <4>3. "payload" \in BeforeWrite(e) /\ "send" \notin BeforeRead(e)
        BY <2>4 DEF BeforeWrite, BeforeRead
      <4>4. SentOK(e, N, pipe'[e])
        BY <1>3, <1>9, <4>2, <4>3, BeginsFrame, Zenon
      <4>5. ReadOK(e, N, pipe'[Other(e)])
        BY <4>2, <4>3, Zenon DEF ReadOK
      <4> QED BY <1>0, <1>3, <2>4, <4>1, <4>2, <4>4, <4>5, GoesOn, Zenon
    <3> QED BY <3>3, <3>4, Zenon
  <2> QED BY <2>3, <2>4, Zenon
<1> QED BY <1>0, <1>7, <1>8, <1>9 DEF Receiving

-----------------------------------------------------------------------------
(* The invariant                                                           *)

\* Nothing was said and nothing was asked for.
LEMMA InitInv ==
  ASSUME Init
  PROVE  RpcInv
<1> DEFINE C == At("resolve", 0, <<>>)  S == At("accept", 0, <<>>)
<1>1. /\ request \in Requests /\ pipe = [e \in Ends |-> <<>>] /\ outcome = [e \in Ends |-> NoOutcome]
      /\ end = [e \in Ends |-> At(IF e = "client" THEN "resolve" ELSE "accept", 0, <<>>)]
  BY Zenon DEF Init
<1>2. /\ EndShape(C) /\ C.stage = "resolve" /\ EndShape(S) /\ S.stage = "accept"
  BY DEF At, EndShape
<1>3. /\ end["client"] = C /\ end["server"] = S /\ outcome["client"] = NoOutcome
      /\ pipe["client"] = <<>> /\ pipe["server"] = <<>>
      /\ end = [e \in Ends |-> end[e]]
      /\ pipe = [e \in Ends |-> pipe[e]] /\ outcome = [e \in Ends |-> outcome[e]]
  <2>1. "client" \in Ends /\ "server" \in Ends /\ "server" # "client"
    BY DEF Ends
  <2> HIDE DEF C, S
  <2> QED BY <1>1, <2>1, Zenon DEF C, S
<1> HIDE DEF C, S
<1>4. ShapeOK
  <2>1. \A e \in Ends : EndShape(end[e])
    BY <1>2, <1>3 DEF Ends
  <2> QED BY <1>1, <1>3, <2>1, Zenon DEF ShapeOK
<1>5. ASSUME NEW e \in Ends PROVE FlowOK(request, e, end, pipe[e])
  <2> DEFINE m == Message(request, e)
  <2>1. IsSequence(m) /\ Len(m) \in Nat
    BY <1>1, MessageFacts, Zenon
  <2>2. Other(e) \in Ends
    BY TwoEnds, Zenon
  <2>3. /\ end[e].stage \notin {"send", "header", "payload"}
        /\ end[Other(e)].stage \notin {"header", "payload"} /\ pipe[e] = <<>>
    BY <1>2, <1>3, <2>2 DEF Ends
  <2> HIDE DEF m
  <2>4. Between(m, <<>>, 0, 0)
    <3>1. IsSequence(Framed(m)) /\ Len(Framed(m)) = 2 + Len(m)
      BY <2>1, FrameFacts
    <3>2. 0 \in Nat /\ 0 <= 0 /\ 0 <= 2 + Len(m) /\ 0 <= Len(Framed(m))
      BY <2>1, <3>1
    <3>3. Slice(Framed(m), 0, 0) = <<>>
      BY <3>1, <3>2, SliceAlgebra
    <3> QED BY <3>2, <3>3, Zenon DEF Between
  <2>5. HasRead(m, end[Other(e)], 0)
    BY <2>3 DEF HasRead
  <2>6. HasWritten(m, end[e], BeforeWrite(e), 0)
    BY <2>3 DEF HasWritten
  <2>7. 0 \in Nat
    OBVIOUS
  <2>8. Flow(m, BeforeWrite(e), end[e], end[Other(e)], pipe[e])
    BY <2>3, <2>4, <2>5, <2>6, <2>7, Zenon DEF Flow
  <2> QED BY <2>8, Zenon DEF FlowOK, m
<1>6. WithinLimits(request, end["client"].stage)
  BY <1>2, <1>3 DEF WithinLimits
<1>7. Truthful(request, outcome["client"])
  <2>1. NoOutcome.code = "none"
    BY DEF NoOutcome
  <2>2. "none" \notin {"ok", "remote_error", "resource_limit", "protocol_error"}
    OBVIOUS
  <2> QED BY <1>3, <2>1, <2>2, Zenon DEF Truthful
<1> QED BY <1>4, <1>5, <1>6, <1>7, Zenon DEF RpcInv

\* Every step keeps the invariant.
LEMMA NextInv ==
  ASSUME RpcInv, [Next]_vars
  PROVE  RpcInv'
<1>0. /\ "client" \in Ends /\ "server" \in Ends
      /\ "timeout" \in {"timeout", "io_error", "disconnected", "rejected"}
      /\ "io_error" \in {"timeout", "io_error", "disconnected", "rejected"}
      /\ "disconnected" \in {"timeout", "io_error", "disconnected", "rejected"}
      /\ "rejected" \in {"timeout", "io_error", "disconnected", "rejected"}
  BY DEF Ends
<1>1. CASE UNCHANGED vars
  BY <1>1, Quiet DEF vars
<1>2. CASE Resolve
  BY <1>2, ResolveKeeps
<1>3. CASE ConnectExpires
  BY <1>0, <1>3, Fails, Zenon DEF ConnectExpires
<1>4. CASE ConnectRefused
  BY <1>4, Quiet DEF ConnectRefused
<1>5. CASE ConnectGivesUp
  BY <1>0, <1>5, Fails, Zenon DEF ConnectGivesUp
<1>6. CASE Connected
  BY <1>6, ConnectedKeeps
<1>7. CASE Serve
  BY <1>7, ServeKeeps
<1>8. CASE Reject
  BY <1>0, <1>8, Fails, Zenon DEF Reject
<1>9. CASE Reset \/ Cut
  BY <1>9, Quiet DEF Reset, Cut
<1>10. ASSUME NEW e \in Ends, Transfer(e) \/ WriteInterrupted(e) \/ Expire(e) \/ Refused(e)
       PROVE  RpcInv'
  <2>1. CASE WaitExpires(e)
    BY <1>0, <2>1, Fails, Zenon DEF WaitExpires
  <2>2. CASE WaitFails(e)
    BY <1>0, <2>2, Fails, Zenon DEF WaitFails
  <2>3. CASE WaitReady(e)
    BY <2>3, Polls, Zenon DEF WaitReady
  <2>4. CASE ReadSome(e)
    BY <2>4, ReadSomeKeeps
  <2>5. CASE EndOfStream(e)
    BY <1>0, <2>5, Fails, Zenon DEF EndOfStream
  <2>6. CASE WriteSome(e)
    BY <2>6, WriteSomeKeeps
  <2>7. CASE TransferFails(e)
    BY <1>0, <2>7, Fails, Zenon DEF TransferFails
  <2>8. CASE WriteInterrupted(e)
    BY <2>8, Polls, Zenon DEF WriteInterrupted
  <2>9. CASE Expire(e) \/ Refused(e)
    BY <2>9, Quiet DEF Expire, Refused
  <2> QED BY <1>10, <2>1, <2>2, <2>3, <2>4, <2>5, <2>6, <2>7, <2>8, <2>9, Zenon DEF Transfer
<1> QED BY <1>1, <1>2, <1>3, <1>4, <1>5, <1>6, <1>7, <1>8, <1>9, <1>10, Zenon DEF Next, ConnectStep

\* What was read, what is buffered and what is left to write are the frame of
\* the message, in every state that a call reaches.
THEOREM RpcInvariance == Spec => []RpcInv
<1>1. Init => RpcInv
  BY InitInv
<1>2. RpcInv /\ [Next]_vars => RpcInv'
  BY NextInv
<1> QED BY <1>1, <1>2, PTL DEF Spec

\* However transfer cuts the frames into pieces, and wherever the connection
\* breaks or a deadline passes, TcpShardClient::search returns the complete
\* answer to its own request or an error that is true.
THEOREM AnswersFaithful == Spec => []AnswerFaithful
<1>1. RpcInv => AnswerFaithful
  <2> SUFFICES ASSUME RpcInv PROVE AnswerFaithful
    OBVIOUS
  <2>1. Truthful(request, outcome["client"])
    BY Zenon DEF RpcInv
  <2> QED BY <2>1, Zenon DEF Truthful, AnswerFaithful
<1> QED BY <1>1, RpcInvariance, PTL

=============================================================================

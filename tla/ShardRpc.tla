------------------------------ MODULE ShardRpc ------------------------------
(***************************************************************************)
(* One remote search: TcpShardClient::search opens a connection, sends a   *)
(* request frame and reads the response frame; a worker of the shard runs  *)
(* ShardRpcServer::serve_one on the other end and closes.  Connections     *)
(* share nothing but the immutable view, so one call is all calls.         *)
(*                                                                         *)
(* A byte is a cell: a field of a message, or a digit of a frame's length. *)
(* Both ends move cells with transfer, which polls under the deadline and  *)
(* then reads what is there, or writes.  The sockets are blocking          *)
(* (connect_socket restores the flags, accept4 sets none), so a write that *)
(* has begun goes on until all of its cells are in the kernel's buffer,    *)
(* without another look at the deadline, unless a signal interrupts it.    *)
(* A connection may be reset, and the network may stop carrying anything.  *)
(***************************************************************************)
EXTENDS Integers, Sequences, FiniteSets

CONSTANTS
  Requests,    \* what may be asked: [query, top_k], the query a sequence of cells
  Hits,        \* the shard's ranked hits, by query (none for the other queries)
  Complaints,  \* the parser's or the planner's error text, by query it refuses
  InvalidText, \* "invalid search request"
  Limits,      \* RpcLimits of each end: [frame, query, hits]
  Addresses,   \* how many addresses the endpoint's name has
  Base,        \* values of a cell of the length
  Buffer       \* cells that the kernel holds in one direction

Ends == {"client", "server"}
Other(e) == IF e = "client" THEN "server" ELSE "client"

ASSUME LimitsAssumption ==
  /\ Limits \in [Ends -> [frame : Nat, query : Nat, hits : Nat]]
  /\ Base \in Nat \ {0} /\ Buffer \in Nat \ {0} /\ Addresses \in Nat
  /\ \A e \in Ends : Limits[e].frame < Base * Base

IsSequence(s) == s \in Seq({s[i] : i \in DOMAIN s})

\* A query is a string, top_k a number, an error a string, and a hit has an
\* ID and a score.
ASSUME RequestsAssumption ==
  /\ IsSequence(InvalidText) /\ \A q \in DOMAIN Complaints : IsSequence(Complaints[q])
  /\ \A r \in Requests : IsSequence(r.query) /\ r.top_k \in Nat
  /\ \A q \in DOMAIN Hits :
       /\ IsSequence(Hits[q])
       /\ \A i \in DOMAIN Hits[q] :
            Hits[q][i] = [id |-> Hits[q][i].id, score |-> Hits[q][i].score]

VARIABLES
  request,  \* the arguments of the call
  end,      \* each end: its stage, whether it is past poll, and its cells
  late,     \* the ends whose deadline has passed
  pipe,     \* cells that an end has written and the other has not read
  closed,   \* the ends that have closed the socket
  broken,   \* the connection was reset
  cut,      \* nothing passes between the ends any more
  left,     \* addresses left to try
  outcome   \* what each end returned

vars == <<request, end, late, pipe, closed, broken, cut, left, outcome>>

NoResult == [total |-> 0, hits |-> <<>>]
NoOutcome == [code |-> "none", result |-> NoResult]
Error(code) == [NoOutcome EXCEPT !.code = code]

Prefix(s, n) == SubSeq(s, 1, n)
After(s, n) == SubSeq(s, n + 1, Len(s))
Least(a, b) == IF a < b THEN a ELSE b

----------------------------------------------------------------------------
(* Messages *)

u32(n) == <<n % Base, n \div Base>>
u32v(cells) == cells[1] + Base * cells[2]
HeaderCells == 2
Framed(payload) == u32(Len(payload)) \o payload

EncodedRequest(r) == <<1, r.top_k, Len(r.query)>> \o r.query

RequestValid(p) ==
  /\ Len(p) >= 3 /\ p[1] = 1
  /\ p[2] <= Limits["server"].hits /\ p[3] <= Limits["server"].query
  /\ Len(p) = 3 + p[3]

\* QueryExecutor::search over the view: all hits counted, the best returned.
SearchFor(query, k) ==
  LET found == IF query \in DOMAIN Hits THEN Hits[query] ELSE <<>>
  IN [total |-> Len(found), hits |-> Prefix(found, Least(k, Len(found)))]

EncodedError(message) == <<1, 1, Len(message)>> \o message
EncodedResult(result) ==
  <<1, 0, result.total, Len(result.hits)>>
    \o [i \in 1..2 * Len(result.hits) |->
          LET hit == result.hits[(i + 1) \div 2] IN IF i % 2 = 1 THEN hit.id ELSE hit.score]

\* What serve_one answers to a payload.
Response(p) ==
  IF ~RequestValid(p) THEN EncodedError(InvalidText)
  ELSE IF After(p, 3) \in DOMAIN Complaints THEN EncodedError(Complaints[After(p, 3)])
  ELSE EncodedResult(SearchFor(After(p, 3), p[2]))

\* What the client makes of a payload.
Decoded(p) ==
  IF Len(p) < 2 \/ p[1] # 1 THEN Error("protocol_error")
  ELSE IF p[2] # 0 THEN Error("remote_error")
  ELSE IF Len(p) < 4 \/ p[4] > Limits["client"].hits \/ Len(p) # 4 + 2 * p[4]
  THEN Error("protocol_error")
  ELSE [code |-> "ok",
        result |-> [total |-> p[3],
                    hits |-> [i \in 1..p[4] |-> [id |-> p[3 + 2 * i], score |-> p[4 + 2 * i]]]]]

----------------------------------------------------------------------------
(* The ends *)

At(stage, need, cells) == [stage |-> stage, polled |-> FALSE, need |-> need, cells |-> cells]

Returned(e) == end[e].stage = "returned"
Reading(e) == end[e].stage \in {"header", "payload"}
Writing(e) == end[e].stage = "send"
Stream(e) == pipe[Other(e)]

\* The call returns and its Socket is closed; a socket closed with unread
\* input resets the connection.
Return(e, result) ==
  /\ end' = [end EXCEPT ![e] = At("returned", 0, <<>>)]
  /\ outcome' = [outcome EXCEPT ![e] = result]
  /\ closed' = closed \cup {e}
  /\ broken' = (broken \/ (Stream(e) # <<>> /\ ~cut))

GoOn(e, next) ==
  /\ end' = [end EXCEPT ![e] = next]
  /\ UNCHANGED <<outcome, closed, broken>>

\* send_frame, up to its transfer.
SendFrame(e, payload) ==
  IF Len(payload) > Limits[e].frame
  THEN Return(e, Error("resource_limit"))
  ELSE GoOn(e, At("send", 0, Framed(payload)))

ReceiveFrame(e) == GoOn(e, At("header", HeaderCells, <<>>))

\* What follows a transfer that is complete.
HeaderReceived(e, cells) ==
  IF u32v(cells) > Limits[e].frame
  THEN Return(e, Error("resource_limit"))
  ELSE GoOn(e, At("payload", u32v(cells), <<>>))

PayloadReceived(e, cells) ==
  IF e = "client" THEN Return(e, Decoded(cells)) ELSE SendFrame(e, Response(cells))

Received(e, cells) ==
  IF end[e].stage = "header" THEN HeaderReceived(e, cells) ELSE PayloadReceived(e, cells)

FrameSent(e) == IF e = "client" THEN ReceiveFrame(e) ELSE Return(e, Error("ok"))

----------------------------------------------------------------------------
(* transfer *)

\* A mutated form: poll is entered again without a look at the clock.
ExpiredNever(e) == FALSE

Expired(e) == e \in late

InWait(e) == (Reading(e) \/ Writing(e)) /\ ~end[e].polled

WaitExpires(e) ==
  /\ InWait(e) /\ Expired(e)
  /\ Return(e, Error("timeout"))
  /\ UNCHANGED <<request, late, pipe, cut, left>>

WaitFails(e) ==
  /\ InWait(e) /\ ~Expired(e)
  /\ broken
  /\ Return(e, Error("io_error"))
  /\ UNCHANGED <<request, late, pipe, cut, left>>

WaitReady(e) ==
  /\ InWait(e) /\ ~Expired(e) /\ ~broken
  /\ IF Writing(e) THEN Len(pipe[e]) < Buffer
     ELSE ~cut /\ (Stream(e) # <<>> \/ Other(e) \in closed)
  /\ end' = [end EXCEPT ![e].polled = TRUE]
  /\ UNCHANGED <<request, late, pipe, closed, broken, cut, left, outcome>>

ReadSome(e) ==
  /\ Reading(e) /\ end[e].polled
  /\ \E n \in 1..Least(end[e].need - Len(end[e].cells), Len(Stream(e))) :
       LET cells == end[e].cells \o Prefix(Stream(e), n)
       IN /\ pipe' = [pipe EXCEPT ![Other(e)] = After(@, n)]
          /\ IF Len(cells) < end[e].need
             THEN GoOn(e, At(end[e].stage, end[e].need, cells))
             ELSE Received(e, cells)
  /\ UNCHANGED <<request, late, cut, left>>

\* A mutated form: the end of the stream ends the frame, the rest of which
\* is zero.
EndOfStreamPadded(e) ==
  /\ Reading(e) /\ end[e].polled
  /\ Stream(e) = <<>> /\ Other(e) \in closed
  /\ Received(e, [i \in 1..end[e].need |->
                    IF i <= Len(end[e].cells) THEN end[e].cells[i] ELSE 0])
  /\ UNCHANGED <<request, late, pipe, cut, left>>

EndOfStream(e) ==
  /\ Reading(e) /\ end[e].polled
  /\ Stream(e) = <<>> /\ Other(e) \in closed
  /\ Return(e, Error("disconnected"))
  /\ UNCHANGED <<request, late, pipe, cut, left>>

\* The kernel takes more cells of a write that has begun.
WriteSome(e) ==
  /\ Writing(e) /\ end[e].polled /\ ~broken
  /\ \E n \in 1..Least(Len(end[e].cells), Buffer - Len(pipe[e])) :
       LET rest == After(end[e].cells, n)
       IN /\ pipe' = [pipe EXCEPT ![e] = @ \o Prefix(end[e].cells, n)]
          /\ IF rest = <<>>
             THEN FrameSent(e)
             ELSE GoOn(e, [end[e] EXCEPT !.cells = rest])
  /\ UNCHANGED <<request, late, cut, left>>

\* write returns early, with what it has moved or EINTR, and transfer polls
\* again.
WriteInterrupted(e) ==
  /\ Writing(e) /\ end[e].polled
  /\ end' = [end EXCEPT ![e].polled = FALSE]
  /\ UNCHANGED <<request, late, pipe, closed, broken, cut, left, outcome>>

\* read and write on a connection that was reset; SIGPIPE is held back.
TransferFails(e) ==
  /\ (Reading(e) \/ Writing(e)) /\ end[e].polled
  /\ broken
  /\ Return(e, Error("io_error"))
  /\ UNCHANGED <<request, late, pipe, cut, left>>

----------------------------------------------------------------------------
(* connect_socket and TcpShardClient::search; the worker takes the          *)
(* connection, or the acceptor closes it at once                            *)

\* getaddrinfo, which knows nothing of the deadline.
Resolve ==
  /\ end["client"].stage = "resolve"
  /\ \/ left' = Addresses /\ GoOn("client", At("connect", 0, <<>>))
     \/ left' = 0 /\ Return("client", Error("io_error"))
  /\ UNCHANGED <<request, late, pipe, cut>>

ConnectExpires ==
  /\ end["client"].stage = "connect" /\ left > 0
  /\ Expired("client")
  /\ Return("client", Error("timeout"))
  /\ UNCHANGED <<request, late, pipe, cut, left>>

ConnectRefused ==
  /\ end["client"].stage = "connect" /\ left > 0
  /\ ~cut
  /\ left' = left - 1
  /\ UNCHANGED <<request, end, late, pipe, closed, broken, cut, outcome>>

ConnectGivesUp ==
  /\ end["client"].stage = "connect" /\ left = 0
  /\ Return("client", Error("io_error"))
  /\ UNCHANGED <<request, late, pipe, cut, left>>

\* The request's limits are looked at only when the connection stands.
Connected ==
  /\ end["client"].stage = "connect" /\ left > 0
  /\ ~cut /\ ~Expired("client")
  /\ IF Len(request.query) > Limits["client"].query \/ request.top_k > Limits["client"].hits
     THEN Return("client", Error("resource_limit"))
     ELSE SendFrame("client", EncodedRequest(request))
  /\ UNCHANGED <<request, late, pipe, cut, left>>

\* The deadline of the worker begins here.
Serve ==
  /\ end["server"].stage = "accept"
  /\ end["client"].stage \notin {"resolve", "connect"}
  /\ ReceiveFrame("server")
  /\ UNCHANGED <<request, late, pipe, cut, left>>

Reject ==
  /\ end["server"].stage = "accept"
  /\ end["client"].stage \notin {"resolve", "connect"}
  /\ Return("server", Error("rejected"))
  /\ UNCHANGED <<request, late, pipe, cut, left>>

----------------------------------------------------------------------------
(* The clock and the network *)

Expire(e) ==
  /\ e \notin late /\ ~Returned(e)
  /\ end[e].stage # "accept"
  /\ late' = late \cup {e}
  /\ UNCHANGED <<request, end, pipe, closed, broken, cut, left, outcome>>

\* Cells that arrive at a closed socket are answered with a reset.
Refused(e) ==
  /\ Other(e) \in closed /\ pipe[e] # <<>>
  /\ ~cut /\ ~broken
  /\ broken' = TRUE
  /\ UNCHANGED <<request, end, late, pipe, closed, cut, left, outcome>>

\* A peer dies, or a router resets the connection.
Reset ==
  /\ end["server"].stage # "accept" /\ ~broken /\ ~cut
  /\ broken' = TRUE
  /\ UNCHANGED <<request, end, late, pipe, closed, cut, left, outcome>>

\* The network is partitioned, or a peer stands still with its socket open.
Cut ==
  /\ ~cut
  /\ cut' = TRUE
  /\ UNCHANGED <<request, end, late, pipe, closed, broken, left, outcome>>

----------------------------------------------------------------------------
Init ==
  /\ request \in Requests
  /\ end = [e \in Ends |-> At(IF e = "client" THEN "resolve" ELSE "accept", 0, <<>>)]
  /\ late = {} /\ closed = {} /\ broken = FALSE /\ cut = FALSE /\ left = 0
  /\ pipe = [e \in Ends |-> <<>>]
  /\ outcome = [e \in Ends |-> NoOutcome]

Transfer(e) ==
  \/ WaitExpires(e) \/ WaitFails(e) \/ WaitReady(e)
  \/ ReadSome(e) \/ EndOfStream(e) \/ WriteSome(e) \/ TransferFails(e)

ConnectStep == ConnectExpires \/ ConnectRefused \/ ConnectGivesUp \/ Connected

Next ==
  \/ Resolve \/ ConnectStep \/ Serve \/ Reject
  \/ \E e \in Ends : Transfer(e) \/ WriteInterrupted(e) \/ Expire(e) \/ Refused(e)
  \/ Reset \/ Cut

Spec == Init /\ [][Next]_vars

\* A thread that can run runs, time passes, and the kernel resets what
\* arrives at a closed socket.  The server serves or closes the connection
\* at last (TcpServer shows that it does while its workers come back).
\* Nobody needs to interrupt a write or to repair the network, and the name
\* service need not answer.
FairSpec ==
  /\ Spec
  /\ WF_vars(ConnectStep) /\ WF_vars(Serve \/ Reject)
  /\ \A e \in Ends : WF_vars(Transfer(e)) /\ WF_vars(Expire(e)) /\ WF_vars(Refused(e))

----------------------------------------------------------------------------
(* Properties *)

Refuses(r) ==
  \/ Len(r.query) > Limits["server"].query \/ r.top_k > Limits["server"].hits
  \/ r.query \in DOMAIN Complaints

\* Whatever the transfers were cut into, and wherever the connection broke or
\* a deadline passed, a client that returns a result returns the complete
\* answer of the shard to its own request; it reports a remote error only
\* when the shard refuses the request, a limit only when one is exceeded,
\* and never a malformed message.
AnswerFaithful ==
  LET code == outcome["client"].code
      answer == SearchFor(request.query, request.top_k)
      over(n) == n > Limits["client"].frame
  IN /\ code = "ok" => ~Refuses(request) /\ outcome["client"].result = answer
     /\ code = "remote_error" => Refuses(request)
     /\ code = "resource_limit" =>
          \/ Len(request.query) > Limits["client"].query
          \/ request.top_k > Limits["client"].hits
          \/ over(Len(EncodedRequest(request)))
          \/ over(Len(Response(EncodedRequest(request))))
     /\ code # "protocol_error"

\* An end that is inside a write that the kernel cannot take, to a peer that
\* neither reads nor resets.
Blocked(e) == Writing(e) /\ end[e].polled /\ cut /\ Len(pipe[e]) = Buffer

\* The call and the request on the server end, each by its own deadline, even
\* when the peer stops or the network carries nothing any more, with two
\* exceptions, in which connect_socket and transfer are inside a call to the
\* system that knows nothing of the deadline: getaddrinfo, and a write to a
\* peer that takes nothing.
DeadlineKept ==
  \A e \in Ends :
    e \in late ~> (Returned(e) \/ end[e].stage = "resolve" \/ Blocked(e))

\* What docs/rpc_and_replication.md says of transfer: "Every read and write is
\* governed by one monotonic deadline", a write that blocks among them.
TransfersGoverned ==
  \A e \in Ends : (e \in late /\ (Reading(e) \/ Writing(e))) ~> Returned(e)
=============================================================================

------------------------------ MODULE TcpServer ------------------------------
(***************************************************************************)
(* The shard's TCP service (dse::distributed::TcpShardServer): one acceptor *)
(* thread, a bounded queue of connections, a fixed pool of workers that     *)
(* serve one request each, and stop(), which any thread may call.           *)
(*                                                                         *)
(* Each critical section of mutex_ is one step; so is each call made        *)
(* without it.  The gauges are updated outside mutex_, after the queue has  *)
(* changed.  serve_one is a step.  It need not end: a client that leaves    *)
(* its answer unread holds the worker inside a blocking write for as long   *)
(* as it likes (ShardRpc).                                                  *)
(***************************************************************************)
EXTENDS Integers, Sequences, FiniteSets

CONSTANTS
  Connections,  \* connections that clients open
  NoConnection,
  Silent,       \* those whose client neither reads its answer nor closes
  Workers, Acceptor,
  Stoppers,     \* threads that call stop(), the destructor's among them
  MaxQueued,    \* maximum_queued_connections
  MaxErrors     \* bound on accept4 errors before the listener is closed

ASSUME ThreadsAssumption ==
  /\ NoConnection \notin Connections /\ Silent \subseteq Connections
  /\ IsFiniteSet(Workers) /\ Workers # {} /\ Acceptor \notin Workers
  /\ Stoppers \cap (Workers \cup {Acceptor}) = {}
ASSUME QueueAssumption == MaxQueued \in Nat \ {0} /\ MaxErrors \in Nat

VARIABLES
  state,     \* each connection: where its descriptor is
  queue,     \* connections_
  stopping,  \* stopping_
  listening, \* the listener has not been shut down
  pc,        \* each thread's next step
  holds,     \* the connection in a local of the acceptor or a worker
  gauges,    \* dse_tcp_connections_queued and dse_tcp_requests_active
  errors     \* accept4 errors so far

vars == <<state, queue, stopping, listening, pc, holds, gauges, errors>>

Threads == Workers \cup {Acceptor} \cup Stoppers

Goto(t, label) == pc' = [pc EXCEPT ![t] = label]

----------------------------------------------------------------------------
(* Clients; the kernel's backlog *)

Connect(c) ==
  /\ state[c] = "new"
  /\ listening
  /\ state' = [state EXCEPT ![c] = "backlog"]
  /\ UNCHANGED <<queue, stopping, listening, pc, holds, gauges, errors>>

----------------------------------------------------------------------------
(* accept_loop *)

AcceptConnection(c) ==
  /\ pc[Acceptor] = "accept"
  /\ listening
  /\ state[c] = "backlog"
  /\ state' = [state EXCEPT ![c] = "accepted"]
  /\ holds' = [holds EXCEPT ![Acceptor] = c]
  /\ Goto(Acceptor, "admit")
  /\ UNCHANGED <<queue, stopping, listening, gauges, errors>>

\* accept4 fails for a passing reason, or because the listener is closed.
\* (EINTR is retried at once and changes nothing.)
AcceptFails ==
  /\ pc[Acceptor] = "accept"
  /\ \/ ~listening /\ UNCHANGED errors
     \/ listening /\ errors < MaxErrors /\ errors' = errors + 1
  /\ Goto(Acceptor, "failed")
  /\ UNCHANGED <<state, queue, stopping, listening, holds, gauges>>

AcceptRetry ==
  /\ pc[Acceptor] = "failed"
  /\ Goto(Acceptor, IF stopping THEN "exited" ELSE "accept")
  /\ UNCHANGED <<state, queue, stopping, listening, holds, gauges, errors>>

\* A mutated form: the queue's bound is missed by one.
RoomOffByOne == Len(queue) <= MaxQueued

Room == Len(queue) < MaxQueued

Admits == ~stopping /\ Room

Admit ==
  /\ pc[Acceptor] = "admit"
  /\ IF Admits
     THEN /\ queue' = Append(queue, holds[Acceptor])
          /\ state' = [state EXCEPT ![holds[Acceptor]] = "queued"]
          /\ Goto(Acceptor, "gauge")
     ELSE /\ Goto(Acceptor, "reject")
          /\ UNCHANGED <<queue, state>>
  /\ UNCHANGED <<stopping, listening, holds, gauges, errors>>

CountQueued ==
  /\ pc[Acceptor] = "gauge"
  /\ gauges' = [gauges EXCEPT !.queued = @ + 1]
  /\ Goto(Acceptor, "notify")
  /\ UNCHANGED <<state, queue, stopping, listening, holds, errors>>

Asleep == {w \in Workers : pc[w] = "asleep"}

\* A mutated form: nobody is notified.
WakeNobody == Goto(Acceptor, "accept")

\* notify_one wakes one sleeping worker, if there is one.
WakeOne ==
  \/ Asleep = {} /\ Goto(Acceptor, "accept")
  \/ \E w \in Asleep : pc' = [pc EXCEPT ![w] = "lock", ![Acceptor] = "accept"]

NotifyOne ==
  /\ pc[Acceptor] = "notify"
  /\ WakeOne
  /\ holds' = [holds EXCEPT ![Acceptor] = NoConnection]
  /\ UNCHANGED <<state, queue, stopping, listening, gauges, errors>>

Reject ==
  /\ pc[Acceptor] = "reject"
  /\ state' = [state EXCEPT ![holds[Acceptor]] = "rejected"]
  /\ holds' = [holds EXCEPT ![Acceptor] = NoConnection]
  /\ Goto(Acceptor, "accept")
  /\ UNCHANGED <<queue, stopping, listening, gauges, errors>>

----------------------------------------------------------------------------
(* worker_loop *)

WorkerTake(w) ==
  /\ pc[w] = "lock"
  /\ queue # <<>>
  /\ holds' = [holds EXCEPT ![w] = Head(queue)]
  /\ state' = [state EXCEPT ![Head(queue)] = "taken"]
  /\ queue' = Tail(queue)
  /\ Goto(w, "begin")
  /\ UNCHANGED <<stopping, listening, gauges, errors>>

WorkerSleep(w) ==
  /\ pc[w] = "lock"
  /\ queue = <<>> /\ ~stopping
  /\ Goto(w, "asleep")
  /\ UNCHANGED <<state, queue, stopping, listening, holds, gauges, errors>>

\* A mutated form: a worker leaves as soon as the server stops.
LeavesEarly == stopping

Leaves == stopping /\ queue = <<>>

WorkerExit(w) ==
  /\ pc[w] = "lock"
  /\ Leaves
  /\ Goto(w, "exited")
  /\ UNCHANGED <<state, queue, stopping, listening, holds, gauges, errors>>

\* A mutated form: the connection still counts as queued.
WorkerBeginUncounted(w) ==
  /\ pc[w] = "begin"
  /\ Goto(w, "active")
  /\ UNCHANGED <<state, queue, stopping, listening, holds, gauges, errors>>

WorkerBegin(w) ==
  /\ pc[w] = "begin"
  /\ gauges' = [gauges EXCEPT !.queued = @ - 1]
  /\ Goto(w, "active")
  /\ UNCHANGED <<state, queue, stopping, listening, holds, errors>>

CountActive(w) ==
  /\ pc[w] = "active"
  /\ gauges' = [gauges EXCEPT !.active = @ + 1]
  /\ Goto(w, "serve")
  /\ UNCHANGED <<state, queue, stopping, listening, holds, errors>>

\* serve_one has returned, with a result or an error.
WorkerServed(w) ==
  /\ pc[w] = "serve"
  /\ gauges' = [gauges EXCEPT !.active = @ - 1]
  /\ Goto(w, "close")
  /\ UNCHANGED <<state, queue, stopping, listening, holds, errors>>

\* The Socket's destructor.
WorkerClose(w) ==
  /\ pc[w] = "close"
  /\ state' = [state EXCEPT ![holds[w]] = "served"]
  /\ holds' = [holds EXCEPT ![w] = NoConnection]
  /\ Goto(w, "lock")
  /\ UNCHANGED <<queue, stopping, listening, gauges, errors>>

----------------------------------------------------------------------------
(* stop *)

\* The second caller returns at once.
StopFlag(s) ==
  /\ pc[s] = "idle"
  /\ stopping' = TRUE
  /\ Goto(s, IF stopping THEN "skipped" ELSE "shutdown")
  /\ UNCHANGED <<state, queue, listening, holds, gauges, errors>>

\* What waits in the backlog is reset by the kernel.
StopListener(s) ==
  /\ pc[s] = "shutdown"
  /\ listening' = FALSE
  /\ state' = [c \in Connections |-> IF state[c] = "backlog" THEN "reset" ELSE state[c]]
  /\ Goto(s, "notify_all")
  /\ UNCHANGED <<queue, stopping, holds, gauges, errors>>

\* A mutated form: the sleeping workers are not woken.
NotifyNone(s) ==
  /\ pc[s] = "notify_all"
  /\ Goto(s, "join_acceptor")
  /\ UNCHANGED <<state, queue, stopping, listening, holds, gauges, errors>>

StopNotifyAll(s) ==
  /\ pc[s] = "notify_all"
  /\ pc' = [t \in DOMAIN pc |->
              IF t = s THEN "join_acceptor" ELSE IF t \in Asleep THEN "lock" ELSE pc[t]]
  /\ UNCHANGED <<state, queue, stopping, listening, holds, gauges, errors>>

StopJoinAcceptor(s) ==
  /\ pc[s] = "join_acceptor"
  /\ pc[Acceptor] = "exited"
  /\ Goto(s, "join_workers")
  /\ UNCHANGED <<state, queue, stopping, listening, holds, gauges, errors>>

\* The workers are joined; what is left in the queue is closed.
StopJoinWorkers(s) ==
  /\ pc[s] = "join_workers"
  /\ \A w \in Workers : pc[w] = "exited"
  /\ state' = [c \in Connections |-> IF state[c] = "queued" THEN "dropped" ELSE state[c]]
  /\ queue' = <<>>
  /\ Goto(s, "returned")
  /\ UNCHANGED <<stopping, listening, holds, gauges, errors>>

----------------------------------------------------------------------------
Init ==
  /\ state = [c \in Connections |-> "new"]
  /\ queue = <<>>
  /\ stopping = FALSE
  /\ listening = TRUE
  /\ pc = [t \in Threads |->
             IF t \in Workers THEN "lock" ELSE IF t = Acceptor THEN "accept" ELSE "idle"]
  /\ holds = [t \in Workers \cup {Acceptor} |-> NoConnection]
  /\ gauges = [queued |-> 0, active |-> 0]
  /\ errors = 0

AcceptStep == \/ \E c \in Connections : AcceptConnection(c)
              \/ AcceptFails \/ AcceptRetry \/ Admit \/ CountQueued \/ NotifyOne \/ Reject

WorkerStep(w) == \/ WorkerTake(w) \/ WorkerSleep(w) \/ WorkerExit(w)
                 \/ WorkerBegin(w) \/ CountActive(w) \/ WorkerServed(w) \/ WorkerClose(w)

\* The worker is inside serve_one, and its client takes nothing.
Held(w) == pc[w] = "serve" /\ holds[w] \in Silent

\* What stop() does once it has been called.
StopStep(s) == \/ StopListener(s) \/ StopNotifyAll(s)
               \/ StopJoinAcceptor(s) \/ StopJoinWorkers(s)

Next ==
  \/ \E c \in Connections : Connect(c)
  \/ AcceptStep
  \/ \E w \in Workers : WorkerStep(w)
  \/ \E s \in Stoppers : StopFlag(s) \/ StopStep(s)

Spec == Init /\ [][Next]_vars

\* Threads that can run are run.  Clients need not connect, nobody needs to
\* call stop(), and a worker that is held need not come back.
Fairness == /\ WF_vars(AcceptStep)
            /\ \A w \in Workers : WF_vars(~Held(w) /\ WorkerStep(w))
            /\ \A s \in Stoppers : WF_vars(StopStep(s))

FairSpec == Spec /\ Fairness

----------------------------------------------------------------------------
(* Properties *)

Stopped == \E s \in Stoppers : pc[s] = "returned"

Open(c) == state[c] \in {"accepted", "queued", "taken"}

AcceptorSteps == {"accept", "failed", "admit", "gauge", "notify", "reject", "exited"}
WorkerSteps == {"lock", "asleep", "begin", "active", "serve", "close", "exited"}
StopSteps == {"idle", "skipped", "shutdown", "notify_all", "join_acceptor", "join_workers",
              "returned"}

\* The variables have their types, and each thread is at a step of its own
\* loop.
TypeOK ==
  /\ state \in [Connections -> {"new", "backlog", "accepted", "queued", "taken",
                                "served", "rejected", "reset", "dropped"}]
  /\ queue \in Seq(Connections)
  /\ stopping \in BOOLEAN /\ listening \in BOOLEAN
  /\ pc \in [Threads -> AcceptorSteps \cup WorkerSteps \cup StopSteps]
  /\ pc[Acceptor] \in AcceptorSteps
  /\ \A w \in Workers : pc[w] \in WorkerSteps
  /\ \A s \in Stoppers : pc[s] \in StopSteps
  /\ holds \in [Workers \cup {Acceptor} -> Connections \cup {NoConnection}]
  /\ gauges \in [queued : Int, active : Int]
  /\ errors \in Nat

\* Overload is refused: the descriptors that are open never exceed the queue,
\* those that busy workers serve and the one in the acceptor's hands.
DescriptorsBounded ==
  Cardinality({c \in Connections : Open(c)})
    <= MaxQueued + Cardinality({t \in DOMAIN holds : holds[t] # NoConnection})

\* When the stop() that shut the server down has returned, every thread has
\* ended, no descriptor is open, and no admitted connection was dropped: the
\* workers have served what was queued.
StopDrains ==
  Stopped => /\ \A t \in Workers \cup {Acceptor} : pc[t] = "exited"
             /\ \A c \in Connections : ~Open(c) /\ state[c] # "dropped"

\* The gauges lag behind the queue and the workers only by the steps in
\* between: they are exact whenever no thread is on its way to an update.
GaugesBalanced ==
  /\ gauges.queued = Len(queue) + Cardinality({w \in Workers : pc[w] = "begin"})
                     - (IF pc[Acceptor] = "gauge" THEN 1 ELSE 0)
  /\ gauges.active = Cardinality({w \in Workers : pc[w] = "serve"})

\* No wakeup is lost: with a connection queued and announced, some worker is
\* not asleep.
NoLostWakeup ==
  queue # <<>> /\ pc[Acceptor] \notin {"gauge", "notify"} => Asleep # Workers

\* A client that reads its answer is served once it is admitted, also when
\* the server is stopped, as long as silent clients leave a worker.
AdmittedIsServed ==
  \A c \in Connections \ Silent :
    state[c] = "queued" ~> (state[c] = "served" \/ \A w \in Workers : Held(w))

\* stop() waits for nobody but the workers that silent clients hold: it comes
\* to the workers, the others have left, and it returns when none is held.
\* (docs/network_service.md has it join the workers whatever the clients do.)
StopWaitsForHeld ==
  \A s \in Stoppers :
    pc[s] = "shutdown" ~>
      \/ pc[s] = "returned"
      \/ pc[s] = "join_workers" /\ \A w \in Workers : pc[w] = "exited" \/ Held(w)
=============================================================================

--------------------------- MODULE TcpServerProofs ---------------------------
(***************************************************************************)
(* The safety properties of TcpServer, proved for every number of          *)
(* connections, workers and callers of stop(), and every queue.            *)
(*                                                                         *)
(* The inductive invariant says who owns each descriptor that is open      *)
(* (OwnerOK) and how far stop() and the threads it joins have come         *)
(* (StopOK).                                                               *)
(***************************************************************************)
EXTENDS TcpServer, FiniteSetTheorems, SequenceTheorems, TLAPS

\* A worker that has a connection in its hands.
Busy(w) == pc[w] \in {"begin", "active", "serve", "close"}

\* The acceptor has a connection that it has to admit or reject.
Deciding == pc[Acceptor] \in {"admit", "reject"}

\* The queued connections are those in the queue, each once.
QueueOwned ==
  /\ \A i \in 1..Len(queue) : state[queue[i]] = "queued"
  /\ \A i, j \in 1..Len(queue) : queue[i] = queue[j] => i = j
  /\ \A c \in Connections : state[c] = "queued" => \E i \in 1..Len(queue) : queue[i] = c
  /\ Len(queue) <= MaxQueued

\* The accepted connection is the one in the acceptor's hands.
AcceptorOwned ==
  /\ Deciding => holds[Acceptor] \in Connections /\ state[holds[Acceptor]] = "accepted"
  /\ \A c \in Connections : state[c] = "accepted" => Deciding /\ holds[Acceptor] = c

\* A taken connection is in the hands of one worker.
WorkersOwned ==
  /\ \A w \in Workers : Busy(w) => holds[w] \in Connections /\ state[holds[w]] = "taken"
  /\ \A v, w \in Workers : Busy(v) /\ Busy(w) /\ holds[v] = holds[w] => v = w
  /\ \A c \in Connections : state[c] = "taken" => \E w \in Workers : Busy(w) /\ holds[w] = c

OwnerOK == QueueOwned /\ AcceptorOwned /\ WorkersOwned
           /\ (\A c \in Connections : state[c] # "dropped")

\* Workers leave an empty queue, and nobody fills it once the server stops;
\* stop() goes on when those it joins have left.
StopOK ==
  /\ \A s \in Stoppers : pc[s] # "idle" => stopping
  /\ pc[Acceptor] = "exited" => stopping
  /\ \A w \in Workers : pc[w] = "exited" => stopping /\ queue = <<>>
  /\ \A s \in Stoppers : pc[s] \in {"join_workers", "returned"} => pc[Acceptor] = "exited"
  /\ \A s \in Stoppers : pc[s] = "returned" => \A w \in Workers : pc[w] = "exited"

ServerInv == TypeOK /\ OwnerOK /\ StopOK

----------------------------------------------------------------------------
(* Types *)

\* No thread has two roles.
LEMMA Disjoint ==
  /\ Acceptor \notin Workers
  /\ \A s \in Stoppers : s \notin Workers /\ s # Acceptor
  BY ThreadsAssumption

\* The initial state has the types of TypeOK.
LEMMA TypeInit == Init => TypeOK
<1> SUFFICES ASSUME Init PROVE TypeOK
  OBVIOUS
<1>1. /\ pc \in [Threads -> AcceptorSteps \cup WorkerSteps \cup StopSteps]
      /\ pc[Acceptor] \in AcceptorSteps
      /\ \A w \in Workers : pc[w] \in WorkerSteps
      /\ \A s \in Stoppers : pc[s] \in StopSteps
  BY Disjoint DEF Init, Threads, AcceptorSteps, WorkerSteps, StopSteps
<1>2. queue \in Seq(Connections) /\ gauges \in [queued : Int, active : Int]
  BY DEF Init
<1>3. holds \in [Workers \cup {Acceptor} -> Connections \cup {NoConnection}]
  BY DEF Init
<1> QED BY <1>1, <1>2, <1>3 DEF Init, TypeOK

\* Every step of every thread keeps the types.
LEMMA TypeStep == TypeOK /\ OwnerOK /\ [Next]_vars => TypeOK'
<1> SUFFICES ASSUME TypeOK, OwnerOK, [Next]_vars PROVE TypeOK'
  OBVIOUS
<1> USE Disjoint, QueueAssumption
      DEF TypeOK, Threads, Goto, AcceptorSteps, WorkerSteps, StopSteps
<1>1. ASSUME NEW c \in Connections, Connect(c) PROVE TypeOK'
  BY <1>1 DEF Connect
<1>2. ASSUME NEW c \in Connections, AcceptConnection(c) PROVE TypeOK'
  BY <1>2 DEF AcceptConnection
<1>3. CASE AcceptFails
  BY <1>3 DEF AcceptFails
<1>4. CASE AcceptRetry
  BY <1>4 DEF AcceptRetry
<1>5. CASE Admit
  <2>1. holds[Acceptor] \in Connections
    BY <1>5 DEF Admit, OwnerOK, AcceptorOwned, Deciding
  <2>2. queue' \in Seq(Connections)
    <3>1. queue' \in {queue, Append(queue, holds[Acceptor])}
      BY <1>5 DEF Admit
    <3>2. queue \in Seq(Connections)
      OBVIOUS
    <3> QED BY ONLY <2>1, <3>1, <3>2, AppendProperties
  <2> QED BY <1>5, <2>1, <2>2 DEF Admit
<1>6. CASE CountQueued
  BY <1>6 DEF CountQueued
<1>7. CASE NotifyOne
  BY <1>7 DEF NotifyOne, WakeOne, Asleep
<1>8. CASE Reject
  BY <1>8 DEF Reject
<1>9. ASSUME NEW w \in Workers, WorkerTake(w) PROVE TypeOK'
  <2>1. Head(queue) \in Connections /\ Tail(queue) \in Seq(Connections)
    BY <1>9, HeadTailProperties DEF WorkerTake
  <2> QED BY <1>9, <2>1 DEF WorkerTake
<1>10. ASSUME NEW w \in Workers, WorkerSleep(w) \/ WorkerExit(w) PROVE TypeOK'
  BY <1>10 DEF WorkerSleep, WorkerExit
<1>11. ASSUME NEW w \in Workers, WorkerBegin(w) \/ CountActive(w) \/ WorkerServed(w) PROVE TypeOK'
  BY <1>11 DEF WorkerBegin, CountActive, WorkerServed
<1>12. ASSUME NEW w \in Workers, WorkerClose(w) PROVE TypeOK'
  BY <1>12 DEF WorkerClose
<1>13. ASSUME NEW s \in Stoppers, StopFlag(s) PROVE TypeOK'
  BY <1>13 DEF StopFlag
<1>14. ASSUME NEW s \in Stoppers, StopListener(s) PROVE TypeOK'
  BY <1>14 DEF StopListener
<1>15. ASSUME NEW s \in Stoppers, StopNotifyAll(s) PROVE TypeOK'
  BY <1>15 DEF StopNotifyAll, Asleep
<1>16. ASSUME NEW s \in Stoppers, StopJoinAcceptor(s) PROVE TypeOK'
  BY <1>16 DEF StopJoinAcceptor
<1>17. ASSUME NEW s \in Stoppers, StopJoinWorkers(s) PROVE TypeOK'
  BY <1>17 DEF StopJoinWorkers
<1>18. CASE UNCHANGED vars
  BY <1>18 DEF vars
<1> HIDE DEF TypeOK
<1> QED
  BY <1>1, <1>2, <1>3, <1>4, <1>5, <1>6, <1>7, <1>8, <1>9, <1>10, <1>11, <1>12, <1>13,
     <1>14, <1>15, <1>16, <1>17, <1>18 DEF Next, AcceptStep, WorkerStep, StopStep

----------------------------------------------------------------------------
(* stop() *)

\* Nobody has stopped and nobody has left.
LEMMA StopInit == Init => StopOK
  BY Disjoint DEF Init, StopOK, Threads

\* A thread leaves when the server stops and its work is done, and stop()
\* does not go past a join before.
LEMMA StopOKStep == TypeOK /\ StopOK /\ [Next]_vars => StopOK'
<1> SUFFICES ASSUME TypeOK, StopOK, [Next]_vars PROVE StopOK'
  OBVIOUS
<1> USE Disjoint DEF StopOK, Threads, Goto
<1>0. /\ DOMAIN pc = Threads
      /\ \A w \in Workers : pc[w] \in WorkerSteps
      /\ \A s \in Stoppers : pc[s] \in StopSteps
      /\ pc[Acceptor] \in AcceptorSteps
      /\ pc = [t \in Threads |-> pc[t]]
      /\ stopping \in BOOLEAN
  BY DEF TypeOK
<1> USE <1>0
<1>1. ASSUME NEW c \in Connections, Connect(c) PROVE StopOK'
  BY <1>1 DEF Connect
<1>2. ASSUME NEW c \in Connections, AcceptConnection(c) PROVE StopOK'
  BY <1>2 DEF AcceptConnection
<1>3. CASE AcceptFails
  BY <1>3 DEF AcceptFails
<1>4. CASE AcceptRetry
  BY <1>4 DEF AcceptRetry
<1>5. CASE Admit
  BY <1>5 DEF Admit, Admits
<1>6. CASE CountQueued
  BY <1>6 DEF CountQueued
<1>7. CASE NotifyOne
  BY <1>7 DEF NotifyOne, WakeOne, Asleep
<1>8. CASE Reject
  BY <1>8 DEF Reject
<1>9. ASSUME NEW w \in Workers, WorkerTake(w) PROVE StopOK'
  BY <1>9 DEF WorkerTake
<1>10. ASSUME NEW w \in Workers, WorkerSleep(w) \/ WorkerExit(w) PROVE StopOK'
  BY <1>10 DEF WorkerSleep, WorkerExit, Leaves
<1>11. ASSUME NEW w \in Workers, WorkerBegin(w) \/ CountActive(w) \/ WorkerServed(w) PROVE StopOK'
  BY <1>11 DEF WorkerBegin, CountActive, WorkerServed
<1>12. ASSUME NEW w \in Workers, WorkerClose(w) PROVE StopOK'
  BY <1>12 DEF WorkerClose
<1>13. ASSUME NEW s \in Stoppers, StopFlag(s) PROVE StopOK'
  BY <1>13 DEF StopFlag
<1>14. ASSUME NEW s \in Stoppers, StopListener(s) PROVE StopOK'
  BY <1>14 DEF StopListener
<1>15. ASSUME NEW s \in Stoppers, StopNotifyAll(s) PROVE StopOK'
  BY <1>15 DEF StopNotifyAll, Asleep
<1>16. ASSUME NEW s \in Stoppers, StopJoinAcceptor(s) PROVE StopOK'
  BY <1>16 DEF StopJoinAcceptor
<1>17. ASSUME NEW s \in Stoppers, StopJoinWorkers(s) PROVE StopOK'
  BY <1>17 DEF StopJoinWorkers
<1>18. CASE UNCHANGED vars
  BY <1>18 DEF vars
<1> HIDE DEF StopOK
<1> QED
  BY <1>1, <1>2, <1>3, <1>4, <1>5, <1>6, <1>7, <1>8, <1>9, <1>10, <1>11, <1>12, <1>13,
     <1>14, <1>15, <1>16, <1>17, <1>18 DEF Next, AcceptStep, WorkerStep, StopStep

----------------------------------------------------------------------------
(* Who owns a descriptor *)

\* Nothing is open.
LEMMA OwnerInit == Init => OwnerOK
<1> SUFFICES ASSUME Init PROVE OwnerOK
  OBVIOUS
<1>1. pc[Acceptor] = "accept" /\ \A w \in Workers : pc[w] = "lock"
  BY Disjoint DEF Init, Threads
<1>2. Len(queue) = 0 /\ \A c \in Connections : state[c] = "new"
  BY DEF Init
<1>3. QueueOwned
  BY <1>2, QueueAssumption DEF QueueOwned
<1>4. AcceptorOwned /\ WorkersOwned
  BY <1>1, <1>2 DEF AcceptorOwned, WorkersOwned, Deciding, Busy
<1> QED BY <1>2, <1>3, <1>4 DEF OwnerOK

\* Steps that pass nothing on.
LEMMA OwnerFrame ==
  ASSUME OwnerOK,
         state' = state, queue' = queue,
         \A w \in Workers : holds'[w] = holds[w] /\ (Busy(w)' <=> Busy(w)),
         Deciding' <=> Deciding,
         Deciding => holds'[Acceptor] = holds[Acceptor]
  PROVE  OwnerOK'
<1>1. QueueOwned'
  BY DEF OwnerOK, QueueOwned
<1>2. AcceptorOwned'
  BY DEF OwnerOK, AcceptorOwned
<1>3. WorkersOwned'
  BY DEF OwnerOK, WorkersOwned
<1> QED BY <1>1, <1>2, <1>3 DEF OwnerOK

\* Steps at which no worker takes or closes a connection.
LEMMA WorkersFrame ==
  ASSUME WorkersOwned,
         \A w \in Workers : holds'[w] = holds[w] /\ (Busy(w)' <=> Busy(w)),
         \A c \in Connections : state'[c] = "taken" <=> state[c] = "taken"
  PROVE  WorkersOwned'
  BY DEF WorkersOwned

\* The threads that go on without a connection changing hands.
LEMMA OwnerIdle ==
  ASSUME TypeOK, OwnerOK,
         \/ AcceptFails \/ AcceptRetry \/ (Admit /\ ~Admits) \/ CountQueued \/ NotifyOne
         \/ \E w \in Workers : WorkerSleep(w) \/ WorkerExit(w)
         \/ \E w \in Workers : WorkerBegin(w) \/ CountActive(w) \/ WorkerServed(w)
         \/ \E s \in Stoppers : StopFlag(s) \/ StopNotifyAll(s) \/ StopJoinAcceptor(s)
         \/ UNCHANGED vars
  PROVE  OwnerOK'
<1>0. /\ DOMAIN pc = Threads /\ pc = [t \in Threads |-> pc[t]]
      /\ DOMAIN holds = Workers \cup {Acceptor}
      /\ holds = [t \in Workers \cup {Acceptor} |-> holds[t]]
  BY DEF TypeOK
<1> USE <1>0, Disjoint DEF Threads, Goto, Busy, Deciding
<1> DEFINE Frame == /\ state' = state /\ queue' = queue
                    /\ \A w \in Workers : holds'[w] = holds[w] /\ (Busy(w)' <=> Busy(w))
                    /\ Deciding' <=> Deciding
                    /\ Deciding => holds'[Acceptor] = holds[Acceptor]
<1>1. CASE AcceptFails
  <2> Frame BY <1>1 DEF AcceptFails
  <2> QED BY OwnerFrame
<1>2. CASE AcceptRetry
  <2> Frame BY <1>2 DEF AcceptRetry
  <2> QED BY OwnerFrame
<1>3. CASE Admit /\ ~Admits
  <2> Frame BY <1>3 DEF Admit
  <2> QED BY OwnerFrame
<1>4. CASE CountQueued
  <2> Frame BY <1>4 DEF CountQueued
  <2> QED BY OwnerFrame
<1>5. CASE NotifyOne
  <2> Frame BY <1>5 DEF NotifyOne, WakeOne, Asleep
  <2> QED BY OwnerFrame
<1>6. ASSUME NEW w \in Workers, WorkerSleep(w) \/ WorkerExit(w) PROVE OwnerOK'
  <2> Frame BY <1>6 DEF WorkerSleep, WorkerExit
  <2> QED BY OwnerFrame
<1>7. ASSUME NEW w \in Workers, WorkerBegin(w) \/ CountActive(w) \/ WorkerServed(w) PROVE OwnerOK'
  <2> Frame BY <1>7 DEF WorkerBegin, CountActive, WorkerServed
  <2> QED BY OwnerFrame
<1>8. ASSUME NEW s \in Stoppers, StopFlag(s) \/ StopJoinAcceptor(s) PROVE OwnerOK'
  <2> Frame BY <1>8 DEF StopFlag, StopJoinAcceptor
  <2> QED BY OwnerFrame
<1>9. ASSUME NEW s \in Stoppers, StopNotifyAll(s) PROVE OwnerOK'
  <2> Frame BY <1>9 DEF StopNotifyAll, Asleep
  <2> QED BY OwnerFrame
<1>10. CASE UNCHANGED vars
  <2> Frame BY <1>10 DEF vars
  <2> QED BY OwnerFrame
<1> QED BY <1>1, <1>2, <1>3, <1>4, <1>5, <1>6, <1>7, <1>8, <1>9, <1>10

\* A descriptor passes from one owner to the next, and is closed by its owner.
LEMMA OwnerStep == TypeOK /\ OwnerOK /\ StopOK /\ [Next]_vars => OwnerOK'
<1> SUFFICES ASSUME TypeOK, OwnerOK, StopOK, [Next]_vars PROVE OwnerOK'
  OBVIOUS
<1>0. /\ DOMAIN pc = Threads /\ DOMAIN holds = Workers \cup {Acceptor}
      /\ DOMAIN state = Connections
      /\ queue \in Seq(Connections) /\ Len(queue) \in Nat
      /\ \A i \in 1..Len(queue) : queue[i] \in Connections
  BY DEF TypeOK
<1>00. /\ pc = [t \in Threads |-> pc[t]]
       /\ holds = [t \in Workers \cup {Acceptor} |-> holds[t]]
       /\ state = [c \in Connections |-> state[c]]
  BY DEF TypeOK
<1> USE <1>0, <1>00, Disjoint DEF Threads, Goto, Busy, Deciding
<1>1. ASSUME NEW c \in Connections, Connect(c) PROVE OwnerOK'
  <2>1. QueueOwned' BY <1>1 DEF Connect, OwnerOK, QueueOwned
  <2>2. AcceptorOwned' BY <1>1 DEF Connect, OwnerOK, AcceptorOwned
  <2>3. WorkersOwned' BY <1>1 DEF Connect, OwnerOK, WorkersOwned
  <2> QED BY <1>1, <2>1, <2>2, <2>3 DEF Connect, OwnerOK
<1>2. ASSUME NEW c \in Connections, AcceptConnection(c) PROVE OwnerOK'
  <2>1. QueueOwned' BY <1>2 DEF AcceptConnection, OwnerOK, QueueOwned
  <2>2. AcceptorOwned' BY <1>2 DEF AcceptConnection, OwnerOK, AcceptorOwned
  <2>3. WorkersOwned'
    <3>1. \A w \in Workers : holds'[w] = holds[w] /\ (Busy(w)' <=> Busy(w))
      BY <1>2 DEF AcceptConnection
    <3>2. \A d \in Connections : state'[d] = "taken" <=> state[d] = "taken"
      BY <1>2 DEF AcceptConnection
    <3> HIDE DEF Busy
    <3> QED BY <3>1, <3>2, WorkersFrame DEF OwnerOK
  <2> QED BY <1>2, <2>1, <2>2, <2>3 DEF AcceptConnection, OwnerOK
<1>3. CASE Admit /\ Admits
  <2> DEFINE c == holds[Acceptor]
  <2>1. c \in Connections /\ state[c] = "accepted"
    BY <1>3 DEF Admit, OwnerOK, AcceptorOwned
  <2>2. /\ Len(queue') = Len(queue) + 1
        /\ \A i \in 1..Len(queue) : queue'[i] = queue[i]
        /\ queue'[Len(queue) + 1] = c
    BY <1>3, <2>1, AppendProperties DEF Admit
  <2>3. /\ state' = [state EXCEPT ![c] = "queued"]
        /\ pc' = [pc EXCEPT ![Acceptor] = "gauge"] /\ holds' = holds
        /\ Len(queue) < MaxQueued
    BY <1>3 DEF Admit, Admits, Room
  <2>4. \A i \in 1..Len(queue) : queue[i] # c
    BY <2>1 DEF OwnerOK, QueueOwned
  <2> HIDE DEF c
  <2>5. \A i \in 1..Len(queue') : state'[queue'[i]] = "queued"
    BY <2>1, <2>2, <2>3 DEF OwnerOK, QueueOwned
  <2>6. \A i, j \in 1..Len(queue') : queue'[i] = queue'[j] => i = j
    BY <2>2, <2>4 DEF OwnerOK, QueueOwned
  <2>7. \A d \in Connections : state'[d] = "queued" =>
          \E i \in 1..Len(queue') : queue'[i] = d
    BY <2>1, <2>2, <2>3 DEF OwnerOK, QueueOwned
  <2>8. QueueOwned'
    BY <2>2, <2>3, <2>5, <2>6, <2>7, QueueAssumption DEF QueueOwned
  <2>9. AcceptorOwned'
    BY <2>1, <2>3 DEF OwnerOK, AcceptorOwned, c
  <2>10. WorkersOwned'
    <3>1. \A w \in Workers : holds'[w] = holds[w] /\ (Busy(w)' <=> Busy(w))
      BY <2>3
    <3>2. \A d \in Connections : state'[d] = "taken" <=> state[d] = "taken"
      BY <2>1, <2>3
    <3> HIDE DEF Busy
    <3> QED BY <3>1, <3>2, WorkersFrame DEF OwnerOK
  <2> QED BY <2>1, <2>3, <2>8, <2>9, <2>10 DEF OwnerOK
<1>4. CASE Reject
  <2>1. holds[Acceptor] \in Connections /\ state[holds[Acceptor]] = "accepted"
    BY <1>4 DEF Reject, OwnerOK, AcceptorOwned
  <2>2. QueueOwned' BY <1>4, <2>1 DEF Reject, OwnerOK, QueueOwned
  <2>3. AcceptorOwned' BY <1>4, <2>1 DEF Reject, OwnerOK, AcceptorOwned
  <2>4. WorkersOwned' BY <1>4, <2>1 DEF Reject, OwnerOK, WorkersOwned
  <2> QED BY <1>4, <2>1, <2>2, <2>3, <2>4 DEF Reject, OwnerOK
<1>5. ASSUME NEW w \in Workers, WorkerTake(w) PROVE OwnerOK'
  <2> DEFINE c == queue[1]
  <2>1. /\ Len(queue') = Len(queue) - 1 /\ Len(queue) > 0
        /\ \A i \in 1..(Len(queue) - 1) : queue'[i] = queue[i + 1]
    BY <1>5, HeadTailProperties DEF WorkerTake
  <2>2. c \in Connections /\ state[c] = "queued"
    BY <2>1 DEF OwnerOK, QueueOwned
  <2>3. /\ state' = [state EXCEPT ![c] = "taken"]
        /\ holds' = [holds EXCEPT ![w] = c]
        /\ pc' = [pc EXCEPT ![w] = "begin"] /\ pc[w] = "lock"
    BY <1>5 DEF WorkerTake
  <2>4. \A i \in 2..Len(queue) : queue[i] # c
    BY <2>1 DEF OwnerOK, QueueOwned
  <2>5. \A d \in Connections : state'[d] = "queued" =>
          \E i \in 1..Len(queue') : queue'[i] = d
    <3> SUFFICES ASSUME NEW d \in Connections, state'[d] = "queued"
                 PROVE \E i \in 1..Len(queue') : queue'[i] = d
      OBVIOUS
    <3>1. PICK i \in 1..Len(queue) : queue[i] = d
      BY <2>2, <2>3 DEF OwnerOK, QueueOwned
    <3>2. i # 1
      BY <2>2, <2>3, <3>1
    <3>3. i - 1 \in 1..Len(queue') /\ queue'[i - 1] = d
      BY <2>1, <3>1, <3>2
    <3> QED BY <3>3
  <2> HIDE DEF c
  <2>6. \A i \in 1..Len(queue') : state'[queue'[i]] = "queued"
    BY <2>1, <2>2, <2>3, <2>4 DEF OwnerOK, QueueOwned
  <2>7. \A i, j \in 1..Len(queue') : queue'[i] = queue'[j] => i = j
    <3> SUFFICES ASSUME NEW i \in 1..Len(queue'), NEW j \in 1..Len(queue'),
                        queue'[i] = queue'[j]
                 PROVE  i = j
      OBVIOUS
    <3>1. i + 1 \in 1..Len(queue) /\ j + 1 \in 1..Len(queue) /\ queue[i + 1] = queue[j + 1]
      BY <2>1
    <3>2. i + 1 = j + 1
      BY <3>1 DEF OwnerOK, QueueOwned
    <3> QED BY <3>2, <2>1
  <2>8. QueueOwned'
    BY <2>1, <2>5, <2>6, <2>7, QueueAssumption DEF OwnerOK, QueueOwned
  <2>9. AcceptorOwned'
    BY <2>2, <2>3 DEF OwnerOK, AcceptorOwned
  <2>10. WorkersOwned'
    <3>1. \A v \in Workers \ {w} : holds'[v] = holds[v] /\ (Busy(v)' <=> Busy(v))
      BY <2>3
    <3>2. holds'[w] = c /\ Busy(w)' /\ ~Busy(w)
      BY <2>3
    <3>3. \A d \in Connections : state'[d] = "taken" <=> (d = c \/ state[d] = "taken")
      BY <2>2, <2>3
    <3> HIDE DEF Busy
    <3>4. \A v \in Workers : Busy(v)' => holds'[v] \in Connections /\ state'[holds'[v]] = "taken"
      BY <2>2, <3>1, <3>2, <3>3 DEF OwnerOK, WorkersOwned
    <3>5. \A v \in Workers \ {w} : Busy(v)' => holds'[v] # c
      BY <2>2, <3>1 DEF OwnerOK, WorkersOwned
    <3>6. \A u, v \in Workers : Busy(u)' /\ Busy(v)' /\ holds'[u] = holds'[v] => u = v
      BY <3>1, <3>2, <3>5 DEF OwnerOK, WorkersOwned
    <3>7. \A d \in Connections : state'[d] = "taken" => \E v \in Workers : Busy(v)' /\ holds'[v] = d
      BY <3>1, <3>2, <3>3 DEF OwnerOK, WorkersOwned
    <3> QED BY <3>4, <3>6, <3>7 DEF WorkersOwned
  <2> QED BY <2>2, <2>3, <2>8, <2>9, <2>10 DEF OwnerOK
<1>6. ASSUME NEW w \in Workers, WorkerClose(w) PROVE OwnerOK'
  <2> DEFINE c == holds[w]
  <2>1. /\ c \in Connections /\ state[c] = "taken"
        /\ state' = [state EXCEPT ![c] = "served"] /\ queue' = queue
        /\ holds' = [holds EXCEPT ![w] = NoConnection]
        /\ pc' = [pc EXCEPT ![w] = "lock"] /\ Busy(w)
    BY <1>6 DEF WorkerClose, OwnerOK, WorkersOwned
  <2>2. \A v \in Workers \ {w} : Busy(v) => holds[v] # c
    BY <2>1 DEF OwnerOK, WorkersOwned
  <2> HIDE DEF c
  <2>3. QueueOwned' BY <2>1 DEF OwnerOK, QueueOwned
  <2>4. AcceptorOwned' BY <2>1 DEF OwnerOK, AcceptorOwned
  <2>5. WorkersOwned'
    <3>1. \A v \in Workers : Busy(v)' =>
            v # w /\ holds'[v] = holds[v] /\ Busy(v)
      BY <2>1
    <3>2. \A v \in Workers : Busy(v)' => holds'[v] \in Connections /\ state'[holds'[v]] = "taken"
      BY <2>1, <2>2, <3>1 DEF OwnerOK, WorkersOwned
    <3>3. \A d \in Connections : state'[d] = "taken" => \E v \in Workers : Busy(v)' /\ holds'[v] = d
      BY <2>1 DEF OwnerOK, WorkersOwned, c
    <3> QED BY <3>1, <3>2, <3>3 DEF OwnerOK, WorkersOwned
  <2> QED BY <2>1, <2>3, <2>4, <2>5 DEF OwnerOK
<1>7. ASSUME NEW s \in Stoppers, StopListener(s) PROVE OwnerOK'
  <2>1. QueueOwned' BY <1>7 DEF StopListener, OwnerOK, QueueOwned
  <2>2. AcceptorOwned' BY <1>7 DEF StopListener, OwnerOK, AcceptorOwned
  <2>3. WorkersOwned' BY <1>7 DEF StopListener, OwnerOK, WorkersOwned
  <2> QED BY <1>7, <2>1, <2>2, <2>3 DEF StopListener, OwnerOK
<1>8. ASSUME NEW s \in Stoppers, StopJoinWorkers(s) PROVE OwnerOK'
  <2>1. queue = <<>>
    BY <1>8, ThreadsAssumption DEF StopJoinWorkers, StopOK
  <2>2. \A c \in Connections : state[c] # "queued"
    BY <2>1 DEF OwnerOK, QueueOwned
  <2>3. state' = state /\ queue' = queue
    BY <1>8, <2>1, <2>2 DEF StopJoinWorkers
  <2>4. \A w \in Workers : holds'[w] = holds[w] /\ (Busy(w)' <=> Busy(w))
    BY <1>8 DEF StopJoinWorkers
  <2>5. (Deciding' <=> Deciding) /\ holds' = holds
    BY <1>8 DEF StopJoinWorkers
  <2> HIDE DEF Busy, Deciding
  <2> QED BY <2>3, <2>4, <2>5, OwnerFrame
<1> QED
  BY <1>1, <1>2, <1>3, <1>4, <1>5, <1>6, <1>7, <1>8, OwnerIdle
     DEF Next, AcceptStep, WorkerStep, StopStep

----------------------------------------------------------------------------
(* The gauges *)

\* The workers at a step.
At(label) == {w \in Workers : pc[w] = label}

\* Their number is a natural number, and changes by one with each of them.
LEMMA AtFinite ==
  ASSUME NEW label
  PROVE  /\ IsFiniteSet(At(label)) /\ Cardinality(At(label)) \in Nat
         /\ \A w : /\ Cardinality(At(label) \cup {w}) =
                        IF w \in At(label) THEN Cardinality(At(label)) ELSE Cardinality(At(label)) + 1
                  /\ Cardinality(At(label) \ {w}) =
                        IF w \in At(label) THEN Cardinality(At(label)) - 1 ELSE Cardinality(At(label))
<1>1. At(label) \in SUBSET Workers
  BY DEF At
<1>2. IsFiniteSet(At(label))
  BY <1>1, ThreadsAssumption, FS_Subset
<1> DEFINE S == At(label)
<1>3. Cardinality(S) \in Nat
  BY <1>2, FS_CardinalityType
<1>4. ASSUME NEW w
      PROVE  /\ Cardinality(S \cup {w}) = IF w \in S THEN Cardinality(S) ELSE Cardinality(S) + 1
             /\ Cardinality(S \ {w}) = IF w \in S THEN Cardinality(S) - 1 ELSE Cardinality(S)
  <2> HIDE DEF S
  <2> IsFiniteSet(S) BY <1>2 DEF S
  <2> QED BY FS_AddElement, FS_RemoveElement
<1> QED BY <1>2, <1>3, <1>4

\* GaugesBalanced in terms of At.
LEMMA Balance ==
  GaugesBalanced <=>
    /\ gauges.queued = Len(queue) + Cardinality(At("begin"))
                         - (IF pc[Acceptor] = "gauge" THEN 1 ELSE 0)
    /\ gauges.active = Cardinality(At("serve"))
  BY DEF GaugesBalanced, At

\* The gauges start at zero.
LEMMA GaugesInit == Init => GaugesBalanced
<1> SUFFICES ASSUME Init PROVE GaugesBalanced
  OBVIOUS
<1>1. At("begin") = {} /\ At("serve") = {} /\ pc[Acceptor] = "accept"
  BY Disjoint DEF Init, Threads, At
<1>2. Len(queue) = 0 /\ gauges.queued = 0 /\ gauges.active = 0
  BY DEF Init
<1>3. Cardinality(At("begin")) = 0 /\ Cardinality(At("serve")) = 0
  BY <1>1, FS_EmptySet
<1> QED BY <1>1, <1>2, <1>3, Balance

\* Each change of a gauge makes up for the move of a connection that it
\* follows, whichever of acceptor and worker comes first.
LEMMA GaugesStep == TypeOK /\ OwnerOK /\ StopOK /\ GaugesBalanced /\ [Next]_vars => GaugesBalanced'
<1> SUFFICES ASSUME TypeOK, OwnerOK, StopOK, GaugesBalanced, [Next]_vars PROVE GaugesBalanced'
  OBVIOUS
<1>0. /\ DOMAIN pc = Threads /\ queue \in Seq(Connections) /\ Len(queue) \in Nat
      /\ gauges \in [queued : Int, active : Int]
      /\ gauges.queued \in Int /\ gauges.active \in Int
      /\ pc = [t \in Threads |-> pc[t]]
  BY DEF TypeOK
<1> DEFINE pending == IF pc[Acceptor] = "gauge" THEN 1 ELSE 0
           queued == Cardinality(At("begin"))
           active == Cardinality(At("serve"))
<1>00. /\ gauges.queued = Len(queue) + queued - pending
       /\ gauges.active = active
       /\ queued \in Nat /\ active \in Nat
  BY Balance, AtFinite
<1> SUFFICES /\ gauges'.queued = Len(queue') + queued' - pending'
             /\ gauges'.active = active'
  BY DEF GaugesBalanced, At
<1> USE <1>0, Disjoint DEF Threads, Goto
<1> DEFINE Still == /\ gauges' = gauges /\ queue' = queue
                    /\ At("begin")' = At("begin") /\ At("serve")' = At("serve")
                    /\ pending' = pending
<1>1. ASSUME Still PROVE /\ gauges'.queued = Len(queue') + queued' - pending'
                         /\ gauges'.active = active'
  BY <1>00, <1>1
<1>2. ASSUME NEW c \in Connections, Connect(c) \/ AcceptConnection(c) PROVE Still
  BY <1>2 DEF Connect, AcceptConnection, At
<1>3. ASSUME AcceptFails \/ AcceptRetry \/ (Admit /\ ~Admits) \/ Reject PROVE Still
  BY <1>3 DEF AcceptFails, AcceptRetry, Admit, Reject, At
<1>4. ASSUME NotifyOne PROVE Still
  BY <1>4 DEF NotifyOne, WakeOne, Asleep, At
<1>5. ASSUME NEW w \in Workers, WorkerSleep(w) \/ WorkerExit(w) \/ WorkerClose(w) PROVE Still
  BY <1>5 DEF WorkerSleep, WorkerExit, WorkerClose, At
<1>6. ASSUME NEW s \in Stoppers, StopFlag(s) \/ StopListener(s) \/ StopJoinAcceptor(s) PROVE Still
  BY <1>6 DEF StopFlag, StopListener, StopJoinAcceptor, At
<1>7. ASSUME NEW s \in Stoppers, StopNotifyAll(s) PROVE Still
  BY <1>7 DEF StopNotifyAll, Asleep, At
<1>8. ASSUME NEW s \in Stoppers, StopJoinWorkers(s) PROVE Still
  <2>1. queue = <<>>
    BY <1>8, ThreadsAssumption DEF StopJoinWorkers, StopOK
  <2> QED BY <1>8, <2>1 DEF StopJoinWorkers, At
<1>9. ASSUME UNCHANGED vars PROVE Still
  BY <1>9 DEF vars, At
<1>10. CASE Admit /\ Admits
  <2>1. holds[Acceptor] \in Connections
    BY <1>10 DEF Admit, OwnerOK, AcceptorOwned, Deciding
  <2>2. Len(queue') = Len(queue) + 1
    BY <1>10, <2>1, AppendProperties DEF Admit
  <2>3. /\ At("begin")' = At("begin") /\ At("serve")' = At("serve")
        /\ pending = 0 /\ pending' = 1 /\ gauges' = gauges
    BY <1>10 DEF Admit, At
  <2> QED BY <1>00, <2>2, <2>3
<1>11. CASE CountQueued
  <2>1. /\ At("begin")' = At("begin") /\ At("serve")' = At("serve")
        /\ pending = 1 /\ pending' = 0 /\ queue' = queue
    BY <1>11 DEF CountQueued, At
  <2>2. gauges'.queued = gauges.queued + 1 /\ gauges'.active = gauges.active
    BY <1>11 DEF CountQueued
  <2> QED BY <1>00, <2>1, <2>2
<1>12. ASSUME NEW w \in Workers, WorkerTake(w)
       PROVE  /\ gauges'.queued = Len(queue') + queued' - pending'
              /\ gauges'.active = active'
  <2>1. Len(queue') = Len(queue) - 1
    BY <1>12, HeadTailProperties DEF WorkerTake
  <2>2. /\ At("begin")' = At("begin") \cup {w} /\ w \notin At("begin")
        /\ At("serve")' = At("serve") /\ pending' = pending /\ gauges' = gauges
    BY <1>12 DEF WorkerTake, At
  <2>3. queued' = queued + 1
    BY <2>2, AtFinite
  <2> QED BY <1>00, <2>1, <2>2, <2>3
<1>13. ASSUME NEW w \in Workers, WorkerBegin(w)
       PROVE  /\ gauges'.queued = Len(queue') + queued' - pending'
              /\ gauges'.active = active'
  <2>1. /\ At("begin")' = At("begin") \ {w} /\ w \in At("begin")
        /\ At("serve")' = At("serve") /\ pending' = pending /\ queue' = queue
    BY <1>13 DEF WorkerBegin, At
  <2>2. queued' = queued - 1
    BY <2>1, AtFinite
  <2>3. gauges'.queued = gauges.queued - 1 /\ gauges'.active = gauges.active
    BY <1>13 DEF WorkerBegin
  <2> QED BY <1>00, <2>1, <2>2, <2>3
<1>15. ASSUME NEW w \in Workers, CountActive(w)
       PROVE  /\ gauges'.queued = Len(queue') + queued' - pending'
              /\ gauges'.active = active'
  <2>1. /\ At("serve")' = At("serve") \cup {w} /\ w \notin At("serve")
        /\ At("begin")' = At("begin") /\ pending' = pending /\ queue' = queue
    BY <1>15 DEF CountActive, At
  <2>2. active' = active + 1
    BY <2>1, AtFinite
  <2>3. gauges'.queued = gauges.queued /\ gauges'.active = gauges.active + 1
    BY <1>15 DEF CountActive
  <2> QED BY <1>00, <2>1, <2>2, <2>3
<1>14. ASSUME NEW w \in Workers, WorkerServed(w)
       PROVE  /\ gauges'.queued = Len(queue') + queued' - pending'
              /\ gauges'.active = active'
  <2>1. /\ At("serve")' = At("serve") \ {w} /\ w \in At("serve")
        /\ At("begin")' = At("begin") /\ pending' = pending /\ queue' = queue
    BY <1>14 DEF WorkerServed, At
  <2>2. active' = active - 1
    BY <2>1, AtFinite
  <2>3. gauges'.queued = gauges.queued /\ gauges'.active = gauges.active - 1
    BY <1>14 DEF WorkerServed
  <2> QED BY <1>00, <2>1, <2>2, <2>3
<1> HIDE DEF Still, queued, active, pending
<1> QED
  BY <1>1, <1>2, <1>3, <1>4, <1>5, <1>6, <1>7, <1>8, <1>9, <1>10, <1>11, <1>12, <1>13, <1>14,
     <1>15 DEF Next, AcceptStep, WorkerStep, StopStep

----------------------------------------------------------------------------
(* Wakeups *)

\* Initially the queue is empty.
LEMMA WakeupInit == Init => NoLostWakeup
  BY DEF Init, NoLostWakeup

\* A worker goes to sleep or leaves only when the queue is empty, and the
\* acceptor that fills it has yet to notify.
LEMMA WakeupStep == TypeOK /\ StopOK /\ NoLostWakeup /\ [Next]_vars => NoLostWakeup'
<1> SUFFICES ASSUME TypeOK, StopOK, NoLostWakeup, [Next]_vars PROVE NoLostWakeup'
  OBVIOUS
<1>0. /\ DOMAIN pc = Threads /\ pc = [t \in Threads |-> pc[t]]
      /\ pc[Acceptor] \in AcceptorSteps
  BY DEF TypeOK
<1> USE <1>0, Disjoint, ThreadsAssumption DEF NoLostWakeup, Asleep, Threads, Goto, AcceptorSteps
<1>1. ASSUME NEW c \in Connections, Connect(c) \/ AcceptConnection(c) PROVE NoLostWakeup'
  BY <1>1 DEF Connect, AcceptConnection
<1>2. CASE AcceptFails \/ AcceptRetry \/ CountQueued \/ Reject
  BY <1>2 DEF AcceptFails, AcceptRetry, CountQueued, Reject
<1>3. CASE Admit
  BY <1>3 DEF Admit
<1>4. CASE NotifyOne
  <2>1. \E w \in Workers : pc'[w] # "asleep"
    <3>1. CASE Asleep = {} /\ Goto(Acceptor, "accept")
      BY <3>1
    <3>2. ASSUME NEW w \in Asleep, pc' = [pc EXCEPT ![w] = "lock", ![Acceptor] = "accept"]
          PROVE  \E v \in Workers : pc'[v] # "asleep"
      BY <3>2
    <3> QED BY <1>4, <3>1, <3>2 DEF NotifyOne, WakeOne
  <2> QED BY <2>1
<1>5. ASSUME NEW w \in Workers, WorkerTake(w) \/ WorkerBegin(w) \/ CountActive(w)
                                    \/ WorkerServed(w) \/ WorkerClose(w)
      PROVE  NoLostWakeup'
  <2>1. pc'[w] # "asleep"
    BY <1>5 DEF WorkerTake, WorkerBegin, CountActive, WorkerServed, WorkerClose
  <2> QED BY <2>1
<1>6. ASSUME NEW w \in Workers, WorkerSleep(w) \/ WorkerExit(w) PROVE NoLostWakeup'
  BY <1>6 DEF WorkerSleep, WorkerExit, Leaves
<1>7. ASSUME NEW s \in Stoppers, StopFlag(s) \/ StopListener(s) \/ StopJoinAcceptor(s)
      PROVE  NoLostWakeup'
  BY <1>7 DEF StopFlag, StopListener, StopJoinAcceptor
<1>8. ASSUME NEW s \in Stoppers, StopNotifyAll(s) PROVE NoLostWakeup'
  BY <1>8 DEF StopNotifyAll
<1>9. ASSUME NEW s \in Stoppers, StopJoinWorkers(s) PROVE NoLostWakeup'
  BY <1>9 DEF StopJoinWorkers
<1>10. CASE UNCHANGED vars
  BY <1>10 DEF vars
<1> HIDE DEF NoLostWakeup
<1> QED
  BY <1>1, <1>2, <1>3, <1>4, <1>5, <1>6, <1>7, <1>8, <1>9, <1>10
     DEF Next, AcceptStep, WorkerStep, StopStep

----------------------------------------------------------------------------
(* The theorems *)

\* The inductive invariant: types, owners of descriptors, progress of stop().
THEOREM ServerInvariance == Spec => []ServerInv
<1>1. Init => ServerInv
  BY TypeInit, OwnerInit, StopInit DEF ServerInv
<1>2. ServerInv /\ [Next]_vars => ServerInv'
  BY TypeStep, OwnerStep, StopOKStep DEF ServerInv
<1> QED BY <1>1, <1>2, PTL DEF Spec

\* The variables of the service keep their types.
THEOREM TypeCorrect == Spec => []TypeOK
<1>1. ServerInv => TypeOK
  BY DEF ServerInv
<1> QED BY <1>1, ServerInvariance, PTL

\* When the stop() that shut the server down has returned, the acceptor and
\* every worker have ended, no descriptor is open and no admitted connection
\* was dropped, for any number of clients, workers and callers of stop().
THEOREM StopDrainsAll == Spec => []StopDrains
<1>1. ServerInv => StopDrains
  <2> SUFFICES ASSUME ServerInv, NEW s \in Stoppers, pc[s] = "returned"
               PROVE  /\ \A t \in Workers \cup {Acceptor} : pc[t] = "exited"
                      /\ \A c \in Connections : ~Open(c) /\ state[c] # "dropped"
    BY DEF StopDrains, Stopped
  <2>1. pc[Acceptor] = "exited" /\ \A w \in Workers : pc[w] = "exited"
    BY DEF ServerInv, StopOK
  <2>2. queue = <<>>
    BY <2>1, ThreadsAssumption DEF ServerInv, StopOK
  <2>3. \A c \in Connections : state[c] # "queued"
    BY <2>2 DEF ServerInv, OwnerOK, QueueOwned
  <2>4. \A c \in Connections : state[c] \notin {"accepted", "taken", "dropped"}
    BY <2>1 DEF ServerInv, OwnerOK, AcceptorOwned, WorkersOwned, Deciding, Busy
  <2> QED BY <2>1, <2>3, <2>4 DEF Open
<1> QED BY <1>1, ServerInvariance, PTL

\* The descriptors that are open never exceed the queue and the threads that
\* hold one: overload is refused.
THEOREM DescriptorsStayBounded == Spec => []DescriptorsBounded
<1>1. ServerInv => DescriptorsBounded
  <2> SUFFICES ASSUME ServerInv PROVE DescriptorsBounded
    OBVIOUS
  <2> DEFINE n == Len(queue)
             Q == {queue[i] : i \in 1..n}
             H == {t \in DOMAIN holds : holds[t] # NoConnection}
             C == {holds[t] : t \in H}
             D == {c \in Connections : Open(c)}
  <2>1. /\ n \in Nat /\ n <= MaxQueued /\ MaxQueued \in Nat
        /\ DOMAIN holds = Workers \cup {Acceptor}
    BY QueueAssumption DEF ServerInv, TypeOK, OwnerOK, QueueOwned
  <2>2. IsFiniteSet(1..n) /\ Cardinality(1..n) = n
    <3> HIDE DEF n
    <3> QED BY <2>1, FS_Interval
  <2>3. IsFiniteSet(H)
    <3>1. IsFiniteSet(Workers \cup {Acceptor})
      BY ThreadsAssumption, FS_AddElement
    <3>2. H \in SUBSET (Workers \cup {Acceptor})
      BY <2>1
    <3> HIDE DEF H
    <3> QED BY <3>1, <3>2, FS_Subset
  <2>4. IsFiniteSet(Q) /\ Cardinality(Q) <= n
    <3> DEFINE f == [i \in 1..n |-> queue[i]]
    <3>1. f \in Surjection(1..n, Q)
      BY DEF Surjection
    <3> HIDE DEF f, Q, n
    <3> QED BY <2>2, <3>1, FS_Surjection
  <2>5. IsFiniteSet(C) /\ Cardinality(C) <= Cardinality(H)
    <3> DEFINE f == [t \in H |-> holds[t]]
    <3>1. f \in Surjection(H, C)
      BY DEF Surjection
    <3> HIDE DEF f, H, C
    <3> QED BY <2>3, <3>1, FS_Surjection
  <2>6. D \in SUBSET (Q \cup C)
    <3> SUFFICES ASSUME NEW c \in Connections, Open(c) PROVE c \in Q \cup C
      OBVIOUS
    <3>1. CASE state[c] = "queued"
      BY <3>1 DEF ServerInv, OwnerOK, QueueOwned
    <3>2. CASE state[c] = "accepted"
      <4>1. holds[Acceptor] = c
        BY <3>2 DEF ServerInv, OwnerOK, AcceptorOwned
      <4> QED BY <4>1, <2>1, ThreadsAssumption
    <3>3. CASE state[c] = "taken"
      <4>1. PICK w \in Workers : holds[w] = c
        BY <3>3 DEF ServerInv, OwnerOK, WorkersOwned
      <4> QED BY <4>1, <2>1, ThreadsAssumption
    <3> QED BY <3>1, <3>2, <3>3 DEF Open
  <2> HIDE DEF n, Q, H, C, D
  <2>7. /\ IsFiniteSet(Q \cup C) /\ Cardinality(Q \cup C) <= Cardinality(Q) + Cardinality(C)
    <3>1. IsFiniteSet(Q \cap C)
      <4>1. Q \cap C \in SUBSET Q
        OBVIOUS
      <4> QED BY <2>4, <4>1, FS_Subset
    <3>2. /\ IsFiniteSet(Q \cup C)
          /\ Cardinality(Q \cup C) = Cardinality(Q) + Cardinality(C) - Cardinality(Q \cap C)
      BY <2>4, <2>5, FS_Union
    <3>3. /\ Cardinality(Q) \in Nat /\ Cardinality(C) \in Nat
          /\ Cardinality(Q \cap C) \in Nat
      BY <2>4, <2>5, <3>1, FS_CardinalityType
    <3> QED BY <3>2, <3>3
  <2>8. Cardinality(D) <= Cardinality(Q \cup C)
    BY <2>6, <2>7, FS_Subset
  <2>9. /\ Cardinality(D) \in Nat /\ Cardinality(Q \cup C) \in Nat
        /\ Cardinality(Q) \in Nat /\ Cardinality(C) \in Nat /\ Cardinality(H) \in Nat
    BY <2>3, <2>4, <2>5, <2>6, <2>7, FS_Subset, FS_CardinalityType
  <2>10. Cardinality(D) <= MaxQueued + Cardinality(H)
    BY <2>1, <2>4, <2>5, <2>7, <2>8, <2>9
  <2> QED BY <2>10 DEF DescriptorsBounded, D, H
<1> QED BY <1>1, ServerInvariance, PTL

\* The gauges differ from the queue and the workers only by the updates that
\* some thread has yet to make.
THEOREM GaugesStayBalanced == Spec => []GaugesBalanced
<1>1. ServerInv /\ GaugesBalanced /\ [Next]_vars => GaugesBalanced'
  BY GaugesStep DEF ServerInv
<1> QED BY <1>1, GaugesInit, ServerInvariance, PTL DEF Spec

\* No wakeup is lost: with a connection queued and announced, some worker is
\* not asleep, although notify_one is called without the lock.
THEOREM WakeupsArrive == Spec => []NoLostWakeup
<1>1. ServerInv /\ NoLostWakeup /\ [Next]_vars => NoLostWakeup'
  BY WakeupStep DEF ServerInv
<1> QED BY <1>1, WakeupInit, ServerInvariance, PTL DEF Spec
=============================================================================

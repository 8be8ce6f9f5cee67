-------------------------- MODULE AcceptLoopProofs --------------------------
(***************************************************************************)
(* Theorems about run_server, for any finite set of connections and any    *)
(* max_clients.                                                            *)
(***************************************************************************)
EXTENDS AcceptLoop, FiniteSetTheorems, TLAPS

\* Removing the head of a nonempty sequence shifts it by one.
LEMMA TailShifts ==
  ASSUME NEW S, NEW s \in Seq(S), s # <<>>
  PROVE  /\ Tail(s) \in Seq(S)
         /\ Len(Tail(s)) = Len(s) - 1
         /\ \A i \in 1..Len(Tail(s)) : Tail(s)[i] = s[i + 1]
         /\ Head(s) = s[1]
         /\ Len(s) \in Nat \ {0}
  OBVIOUS

\* The types of run_server's state are preserved by every step.
LEMMA LoopTypeStep == LoopTypeOK /\ [LoopNext]_loopVars => LoopTypeOK'
<1> SUFFICES ASSUME LoopTypeOK, [LoopNext]_loopVars PROVE LoopTypeOK'
  OBVIOUS
<1> USE DEF LoopTypeOK, ServerStates, TaskStates
<1> DEFINE End(result) == result \in {"stopped", "failed", "dropped"} /\ EndWith(result)
<1>1. ASSUME NEW result, End(result) PROVE LoopTypeOK'
  <2>1. <<>> \in Seq(Conns)  OBVIOUS
  <2> QED  BY <1>1, <2>1 DEF EndWith
<1> HIDE DEF End
<1>2. CASE AcceptFails  BY <1>2 DEF AcceptFails
<1>3. CASE SendSignal  BY <1>3 DEF SendSignal
<1>4. CASE Break  BY <1>4, <1>1 DEF Break, End
<1>5. CASE DropFuture  BY <1>5, <1>1 DEF DropFuture, End
<1>6. ASSUME NEW c \in Conns, Connect(c) PROVE LoopTypeOK'
  BY <1>6 DEF Connect
<1>7. ASSUME NEW c \in Conns, Spawn(c) PROVE LoopTypeOK'
  BY <1>7, TailShifts DEF Spawn, Accepting
<1>8. ASSUME NEW c \in Conns, Finish(c) PROVE LoopTypeOK'
  BY <1>8 DEF Finish
<1>9. ASSUME NEW c \in Conns, Reap(c) PROVE LoopTypeOK'
  BY <1>9 DEF Reap
<1>10. ASSUME NEW c \in Conns, Cancel(c) PROVE LoopTypeOK'
  BY <1>10 DEF Cancel
<1>11. ASSUME NEW c \in Conns, RejectSuspends(c) PROVE LoopTypeOK'
  BY <1>11, TailShifts DEF RejectSuspends, Accepting
<1>12. ASSUME NEW c \in Conns, RejectSent(c) PROVE LoopTypeOK'
  <2>1. BacklogAfter(c) \in Seq(Conns)
    BY <1>12, TailShifts DEF RejectSent, Rejecting, Accepting, BacklogAfter
  <2> QED  BY <1>12, <2>1 DEF RejectSent
<1>13. ASSUME NEW c \in Conns, RejectFails(c) PROVE LoopTypeOK'
  BY <1>13, <1>1 DEF RejectFails, End
<1>14. CASE UNCHANGED loopVars  BY <1>14 DEF loopVars
<1> QED
  BY <1>2, <1>3, <1>4, <1>5, <1>6, <1>7, <1>8, <1>9, <1>10, <1>11, <1>12, <1>13, <1>14
  DEF LoopNext

\* Type correctness of run_server.
THEOREM LoopTypeCorrect == LoopSpec => []LoopTypeOK
<1>1. LoopInit => LoopTypeOK
  <2>1. <<>> \in Seq(Conns)  OBVIOUS
  <2> QED  BY <2>1 DEF LoopInit, LoopTypeOK, ServerStates, TaskStates
<1> QED  BY <1>1, LoopTypeStep, PTL DEF LoopSpec

-----------------------------------------------------------------------------
\* The JoinSet is as large as its type allows and no larger.
LEMMA TasksFinite == IsFiniteSet(Tasks) /\ Cardinality(Tasks) \in Nat
  BY ConnsAssumption, FS_Subset, FS_CardinalityType DEF Tasks

\* A step that puts no connection in the JoinSet leaves it as small as it was.
LEMMA FewerTasks ==
  ASSUME LoopTypeOK, WithinCapacity, Tasks' \subseteq Tasks
  PROVE  WithinCapacity'
<1>1. Cardinality(Tasks') <= Cardinality(Tasks)
  BY TasksFinite, FS_Subset
<1>2. Cardinality(Tasks') \in Nat
  BY TasksFinite, FS_Subset, FS_CardinalityType
<1> QED  BY <1>1, <1>2, TasksFinite, MaxClientsAssumption DEF WithinCapacity

LEMMA CapacityStep ==
  LoopTypeOK /\ WithinCapacity /\ [LoopNext]_loopVars => WithinCapacity'
<1> SUFFICES ASSUME LoopTypeOK, WithinCapacity, [LoopNext]_loopVars
             PROVE  WithinCapacity'
  OBVIOUS
<1>1. ASSUME NEW c \in Conns, Spawn(c) PROVE WithinCapacity'
  <2>1. Tasks' = Tasks \cup {c}
    BY <1>1 DEF Spawn, Tasks, LoopTypeOK
  <2>2. Cardinality(Tasks \cup {c}) <= Cardinality(Tasks) + 1
    BY TasksFinite, FS_AddElement
  <2>3. Cardinality(Tasks \cup {c}) \in Nat
    BY TasksFinite, FS_AddElement, FS_CardinalityType
  <2>4. Cardinality(Tasks) < MaxClients
    BY <1>1 DEF Spawn
  <2> QED  BY <2>1, <2>2, <2>3, <2>4, TasksFinite, MaxClientsAssumption DEF WithinCapacity
<1>2. ASSUME ~ \E c \in Conns : Spawn(c) PROVE Tasks' \subseteq Tasks
  <2> USE DEF Tasks, LoopTypeOK
  <2>1. CASE AcceptFails  BY <2>1 DEF AcceptFails
  <2>2. CASE SendSignal  BY <2>2 DEF SendSignal
  <2>3. CASE Break  BY <2>3 DEF Break, EndWith
  <2>4. CASE DropFuture  BY <2>4 DEF DropFuture, EndWith
  <2>5. ASSUME NEW c \in Conns, Connect(c) PROVE Tasks' \subseteq Tasks
    BY <2>5 DEF Connect
  <2>6. ASSUME NEW c \in Conns, Finish(c) PROVE Tasks' \subseteq Tasks
    BY <2>6 DEF Finish
  <2>7. ASSUME NEW c \in Conns, Reap(c) PROVE Tasks' \subseteq Tasks
    BY <2>7 DEF Reap
  <2>8. ASSUME NEW c \in Conns, Cancel(c) PROVE Tasks' \subseteq Tasks
    BY <2>8 DEF Cancel
  <2>9. ASSUME NEW c \in Conns, RejectSuspends(c) PROVE Tasks' \subseteq Tasks
    BY <2>9 DEF RejectSuspends
  <2>10. ASSUME NEW c \in Conns, RejectSent(c) PROVE Tasks' \subseteq Tasks
    BY <2>10 DEF RejectSent
  <2>11. ASSUME NEW c \in Conns, RejectFails(c) PROVE Tasks' \subseteq Tasks
    BY <2>11 DEF RejectFails, EndWith
  <2>12. CASE UNCHANGED loopVars  BY <2>12 DEF loopVars
  <2> QED
    BY <1>2, <2>1, <2>2, <2>3, <2>4, <2>5, <2>6, <2>7, <2>8, <2>9, <2>10, <2>11, <2>12
    DEF LoopNext
<1> QED  BY <1>1, <1>2, FewerTasks

\* max_clients bounds the handlers alive at once (the guard tasks.len() >=
\* max_clients of run_server), for every max_clients and every number of
\* connections.
THEOREM CapacityHolds == LoopSpec => []WithinCapacity
<1>1. LoopInit => WithinCapacity
  <2> SUFFICES ASSUME LoopInit PROVE WithinCapacity
    OBVIOUS
  <2>1. Tasks = {}  BY DEF LoopInit, Tasks
  <2> QED  BY <2>1, FS_EmptySet, MaxClientsAssumption DEF WithinCapacity
<1> QED  BY <1>1, LoopTypeCorrect, CapacityStep, PTL DEF LoopSpec

-----------------------------------------------------------------------------
\* The kernel's queue and the loop's own view of who is waiting never drift
\* apart, in any step.
LEMMA BacklogStep ==
  LoopTypeOK /\ BacklogConsistent /\ [LoopNext]_loopVars => BacklogConsistent'
<1> SUFFICES ASSUME LoopTypeOK, BacklogConsistent, [LoopNext]_loopVars
             PROVE  BacklogConsistent'
  OBVIOUS
<1> USE DEF LoopTypeOK
<1>1. ASSUME NEW c \in Conns, Accepting(c) PROVE
        /\ task[c] = "queued"
        /\ server = "selecting"
        /\ \A i \in DOMAIN Tail(backlog) : Tail(backlog)[i] # c /\ task[Tail(backlog)[i]] = "queued"
        /\ \A i, j \in DOMAIN Tail(backlog) : Tail(backlog)[i] = Tail(backlog)[j] => i = j
        /\ \A d \in Conns \ {c} :
             task[d] = "queued" => \E i \in DOMAIN Tail(backlog) : Tail(backlog)[i] = d
  <2>1. /\ Len(backlog) \in Nat
        /\ DOMAIN backlog = 1..Len(backlog)
        /\ DOMAIN Tail(backlog) = 1..(Len(backlog) - 1)
        /\ \A i \in 1..(Len(backlog) - 1) : Tail(backlog)[i] = backlog[i + 1]
        /\ backlog[1] = c
        /\ 1 \in DOMAIN backlog
    BY <1>1, TailShifts DEF Accepting
  <2>2. \A i \in DOMAIN Tail(backlog) :
          Tail(backlog)[i] # c /\ task[Tail(backlog)[i]] = "queued"
    <3> SUFFICES ASSUME NEW i \in DOMAIN Tail(backlog)
                 PROVE  Tail(backlog)[i] # c /\ task[Tail(backlog)[i]] = "queued"
      OBVIOUS
    <3>1. i + 1 \in DOMAIN backlog /\ i + 1 # 1  BY <2>1
    <3> QED  BY <2>1, <3>1 DEF BacklogConsistent
  <2>3. ASSUME NEW i \in DOMAIN Tail(backlog), NEW j \in DOMAIN Tail(backlog),
               Tail(backlog)[i] = Tail(backlog)[j]
        PROVE  i = j
    <3>1. i + 1 \in DOMAIN backlog /\ j + 1 \in DOMAIN backlog  BY <2>1
    <3>2. i + 1 = j + 1  BY <2>1, <2>3, <3>1 DEF BacklogConsistent
    <3> QED  BY <2>1, <3>2
  <2>4. ASSUME NEW d \in Conns \ {c}, task[d] = "queued"
        PROVE  \E i \in DOMAIN Tail(backlog) : Tail(backlog)[i] = d
    <3>1. PICK k \in DOMAIN backlog : backlog[k] = d
      BY <2>4 DEF BacklogConsistent
    <3>2. k - 1 \in DOMAIN Tail(backlog)  BY <2>1, <3>1
    <3> QED  BY <2>1, <3>1, <3>2
  <2> QED  BY <1>1, <2>1, <2>2, <2>3, <2>4 DEF Accepting, BacklogConsistent
<1>2. ASSUME backlog' = <<>>, ~ (server' = "rejecting"),
             task' = [c \in Conns |-> IF task[c] \in {"queued", "rejecting"}
                                      THEN "refused" ELSE task[c]]
      PROVE  BacklogConsistent'
  BY <1>2 DEF BacklogConsistent
<1>3. ASSUME UNCHANGED <<server, backlog>>, NEW c \in Conns, NEW t,
             t \notin {"queued", "rejecting"}, task[c] \notin {"queued", "rejecting"},
             task' = [task EXCEPT ![c] = t]
      PROVE  BacklogConsistent'
  BY <1>3 DEF BacklogConsistent
<1>4. CASE AcceptFails  BY <1>4 DEF AcceptFails, BacklogConsistent
<1>5. CASE SendSignal  BY <1>5 DEF SendSignal, BacklogConsistent
<1>6. CASE Break  BY <1>6, <1>2 DEF Break, EndWith
<1>7. CASE DropFuture  BY <1>7, <1>2 DEF DropFuture, EndWith
<1>8. ASSUME NEW c \in Conns, Connect(c) PROVE BacklogConsistent'
  <2>1. /\ Len(backlog') = Len(backlog) + 1
        /\ Len(backlog) \in Nat
        /\ \A i \in 1..Len(backlog) : backlog'[i] = backlog[i] /\ backlog[i] \in Conns
        /\ backlog'[Len(backlog) + 1] = c
        /\ DOMAIN backlog = 1..Len(backlog)
        /\ DOMAIN backlog' = 1..(Len(backlog) + 1)
    BY <1>8 DEF Connect
  <2>2. \A i \in 1..Len(backlog) : backlog[i] # c
    BY <1>8, <2>1 DEF Connect, BacklogConsistent
  <2> QED  BY <1>8, <2>1, <2>2 DEF Connect, BacklogConsistent
<1>9. ASSUME NEW c \in Conns, Spawn(c) PROVE BacklogConsistent'
  BY <1>9, <1>1 DEF Spawn, BacklogConsistent
<1>10. ASSUME NEW c \in Conns, Finish(c) PROVE BacklogConsistent'
  BY <1>10, <1>3 DEF Finish
<1>11. ASSUME NEW c \in Conns, Reap(c) PROVE BacklogConsistent'
  BY <1>11, <1>3 DEF Reap
<1>12. ASSUME NEW c \in Conns, Cancel(c) PROVE BacklogConsistent'
  BY <1>12, <1>3 DEF Cancel
<1>13. ASSUME NEW c \in Conns, RejectSuspends(c) PROVE BacklogConsistent'
  BY <1>13, <1>1 DEF RejectSuspends, BacklogConsistent
<1>14. ASSUME NEW c \in Conns, RejectSent(c) PROVE BacklogConsistent'
  <2>1. CASE Accepting(c)
    BY <1>14, <1>1, <2>1 DEF RejectSent, BacklogAfter, BacklogConsistent
  <2>2. CASE task[c] = "rejecting"
    BY <1>14, <2>2 DEF RejectSent, BacklogAfter, BacklogConsistent
  <2> QED  BY <1>14, <2>1, <2>2 DEF RejectSent, Rejecting
<1>15. ASSUME NEW c \in Conns, RejectFails(c) PROVE BacklogConsistent'
  BY <1>15, <1>2 DEF RejectFails, EndWith
<1>16. CASE UNCHANGED loopVars  BY <1>16 DEF loopVars, BacklogConsistent
<1> QED
  BY <1>4, <1>5, <1>6, <1>7, <1>8, <1>9, <1>10, <1>11, <1>12, <1>13, <1>14, <1>15, <1>16
  DEF LoopNext

\* Every connection the kernel completed is queued exactly once, and the
\* loop is suspended on at most one connection it turns away.
LEMMA BacklogHolds == LoopSpec => []BacklogConsistent
<1>1. LoopInit => BacklogConsistent
  BY DEF LoopInit, BacklogConsistent
<1> QED  BY <1>1, LoopTypeCorrect, BacklogStep, PTL DEF LoopSpec

-----------------------------------------------------------------------------
\* The connections that neither have a handler nor were turned away.
Unanswered == {"absent", "queued", "rejecting"}

\* A connection that was answered, or has a handler, stays so.
LEMMA NeverFreshAgain ==
  ASSUME LoopTypeOK, BacklogConsistent, [LoopNext]_loopVars,
         NEW d \in Conns, task'[d] \in Unanswered
  PROVE  task[d] \in Unanswered
<1> USE DEF LoopTypeOK, Unanswered
<1>1. ASSUME NEW c \in Conns, Accepting(c) PROVE task[c] = "queued"
  BY <1>1 DEF Accepting, BacklogConsistent
<1>2. CASE AcceptFails \/ SendSignal \/ UNCHANGED loopVars
  BY <1>2 DEF AcceptFails, SendSignal, loopVars
<1>3. CASE Break \/ DropFuture  BY <1>3 DEF Break, DropFuture, EndWith
<1>4. ASSUME NEW c \in Conns, Connect(c) PROVE task[d] \in Unanswered
  BY <1>4 DEF Connect
<1>5. ASSUME NEW c \in Conns, Spawn(c) \/ Finish(c) \/ Reap(c) \/ Cancel(c)
      PROVE  task[d] \in Unanswered
  BY <1>5 DEF Spawn, Finish, Reap, Cancel
<1>6. ASSUME NEW c \in Conns, RejectSuspends(c) PROVE task[d] \in Unanswered
  BY <1>1, <1>6 DEF RejectSuspends
<1>7. ASSUME NEW c \in Conns, RejectSent(c) \/ RejectFails(c)
      PROVE  task[d] \in Unanswered
  BY <1>7 DEF RejectSent, RejectFails, EndWith
<1> QED  BY <1>2, <1>3, <1>4, <1>5, <1>6, <1>7 DEF LoopNext
=============================================================================

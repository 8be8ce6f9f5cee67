------------------------ MODULE MultiThreadedProofs ------------------------
(***************************************************************************)
(* Theorems about the multi-threaded server, for any finite set of         *)
(* connections, any names, any max_clients and any bounds of the           *)
(* transport.                                                              *)
(***************************************************************************)
EXTENDS MultiThreaded, AcceptLoopProofs, SelectionProofs

(***************************************************************************)
(* The server is an instance of run_server's loop: every step of a         *)
(* handler, a client or a socket is a step of the loop or leaves it alone. *)
(***************************************************************************)
LEMMA ContinuesLoop ==
  ASSUME NEW c \in Conns, NEW ok, Continues(c, ok)
  PROVE  [LoopNext]_loopVars
  BY DEF Continues, Queues, Goes, Writes, Ends, LoopNext

LEMMA HandlerLoop ==
  ASSUME NEW c \in Conns, Handler(c) \/ JoinTimeout(c)
  PROVE  [LoopNext]_loopVars
<1> USE DEF Queues, Goes, Writes, Refuses, Reacts, Replies, GrantedRead, GrantedWrite, LoopNext
<1>1. CASE JoinReads(c) \/ JoinOtherMessage(c) \/ JoinEof(c) \/ JoinTimeout(c)
  BY <1>1 DEF JoinReads, JoinOtherMessage, JoinEof, JoinTimeout
<1>2. CASE JoinUnreadable(c) \/ PanicOnRead(c) \/ RemoveWriter(c)
  BY <1>2 DEF JoinUnreadable, PanicOnRead, RemoveWriter, Ends
<1>3. CASE Lookup(c)  BY <1>3 DEF Lookup
<1>4. CASE InsertWriter(c) \/ ServeReads(c) \/ LeaveOnRead(c) \/ ReactUnnamed(c)
  BY <1>4 DEF InsertWriter, ServeReads, LeaveOnRead, ReactUnnamed
<1>5. CASE ReactPing(c) \/ ReactListUsers(c) \/ ReactJoin(c)
  BY <1>5 DEF ReactPing, ReactListUsers, ReactJoin
<1>6. CASE ReactBroadcast(c)  BY <1>6 DEF ReactBroadcast
<1>7. CASE ReactDirect(c)  BY <1>7 DEF ReactDirect
<1>8. CASE LockWriter(c) \/ ResumeWrite(c)
  BY <1>8, ContinuesLoop DEF LockWriter, ResumeWrite, SendEnds
<1> QED
  BY <1>1, <1>2, <1>3, <1>4, <1>5, <1>6, <1>7, <1>8 DEF Handler

LEMMA ServerLoop ==
  ASSUME NEW c \in Conns, Server(c)
  PROVE  LoopNext
  BY DEF Server, SpawnHandler, TurnAway, CancelHandler, LoopNext

LEMMA LoopStep == [Next]_vars => [LoopNext]_loopVars
<1> SUFFICES ASSUME [Next]_vars PROVE [LoopNext]_loopVars
  OBVIOUS
<1>1. CASE LoopAlone  BY <1>1 DEF LoopAlone, LoopNext
<1>2. ASSUME NEW c \in Conns, Client(c) \/ Reader(c) PROVE [LoopNext]_loopVars
  BY <1>2 DEF Client, Reader, Dial, LoopNext
<1>3. CASE UNCHANGED vars  BY <1>3 DEF vars, loopVars
<1> QED  BY <1>1, <1>2, <1>3, HandlerLoop, ServerLoop DEF Next

\* The multi-threaded server with its handlers, clients and sockets
\* implements the accept loop.
LEMMA ImplementsLoop == Spec => LoopSpec
<1>1. Init => LoopInit  BY DEF Init
<1> QED  BY <1>1, LoopStep, PTL DEF Spec, LoopSpec

\* It runs at most max_clients handlers at once.
THEOREM ServerWithinCapacity == Spec => []WithinCapacity
  BY ImplementsLoop, CapacityHolds, PTL

-----------------------------------------------------------------------------
(***************************************************************************)
(* What the building blocks do to the state of the handler they move, and  *)
(* to nothing else.                                                        *)
(***************************************************************************)

\* Every other handler is where it was.
OthersStay(c) ==
  \A d \in Conns \ {c} :
    pc'[d] = pc[d] /\ job'[d] = job[d] /\ name'[d] = name[d] /\ taken'[d] = taken[d]

\* So far as the place and the job go.
OthersPut(c) == \A d \in Conns \ {c} : pc'[d] = pc[d] /\ job'[d] = job[d]

HandlerTypes ==
  /\ LoopTypeOK
  /\ pc \in [Conns -> PcStates]
  /\ job \in [Conns -> Job \cup {NoJob}]

LEMMA GoesEffect ==
  ASSUME TypeOK, NEW c \in Conns, NEW where \in PcStates, Goes(c, where)
  PROVE  HandlerTypes' /\ OthersPut(c) /\ pc'[c] = where /\ job'[c] = NoJob
<1>1. LoopTypeOK'  BY LoopTypeStep DEF Goes, TypeOK
<1> HIDE DEF Job, NoJob, PcStates
<1> QED  BY <1>1 DEF Goes, TypeOK, OthersPut, HandlerTypes

LEMMA QueuesEffect ==
  ASSUME TypeOK, NEW c \in Conns, Queues(c, "lookup") \/ Queues(c, "inserting")
                                    \/ Queues(c, "reacting") \/ Queues(c, "removing")
  PROVE  /\ HandlerTypes' /\ OthersPut(c) /\ queue' \in Seq(Conns)
         /\ pc'[c] \in {"lookup", "inserting", "reacting", "removing"}
         /\ \A w \in {"lookup", "inserting", "reacting", "removing"} :
              Queues(c, w) => pc'[c] = w
         /\ job'[c] = NoJob
<1>1. Append(queue, c) \in Seq(Conns)  BY DEF TypeOK
<1>2. ASSUME NEW w \in {"lookup", "inserting", "reacting", "removing"}, Queues(c, w)
      PROVE  HandlerTypes' /\ OthersPut(c) /\ pc'[c] = w /\ queue' \in Seq(Conns) /\ job'[c] = NoJob
  <2>1. w \in PcStates  BY DEF PcStates
  <2> QED  BY <1>1, <1>2, <2>1, GoesEffect DEF Queues
<1> QED  BY <1>2

LEMMA EndsEffect ==
  ASSUME TypeOK, NEW c \in Conns, Ends(c)
  PROVE  /\ HandlerTypes' /\ OthersPut(c) /\ pc'[c] = "ended" /\ job'[c] = NoJob
         /\ task' = [task EXCEPT ![c] = "finished"] /\ UNCHANGED server
<1>1. LoopTypeOK'  BY LoopTypeStep DEF Ends, LoopNext, TypeOK
<1>2. "ended" \in PcStates  BY DEF PcStates
<1> HIDE DEF Job, NoJob, PcStates
<1> QED  BY <1>1, <1>2 DEF Ends, Finish, TypeOK, OthersPut, HandlerTypes

LEMMA WritesEffect ==
  ASSUME TypeOK, NEW c \in Conns, NEW to \in SUBSET Conns, NEW msg \in Outgoing,
         NEW then \in Continuations, Writes(c, to, msg, then)
  PROVE  /\ HandlerTypes' /\ OthersPut(c) /\ pc'[c] = "locking"
         /\ job'[c] \in Job
         /\ job'[c].msg = msg /\ job'[c].then = then
         /\ job'[c].at \in to /\ job'[c].todo = to \ {job'[c].at}
<1>1. LoopTypeOK'  BY LoopTypeStep DEF Writes, TypeOK
<1>2. "locking" \in PcStates  BY DEF PcStates
<1>3. PICK d \in to :
        job' = [job EXCEPT ![c] = [msg |-> msg, then |-> then, at |-> d, todo |-> to \ {d}]]
  BY DEF Writes
<1> DEFINE j == [msg |-> msg, then |-> then, at |-> d, todo |-> to \ {d}]
<1>4. j \in Job /\ j.msg = msg /\ j.then = then /\ j.at = d /\ j.todo = to \ {d}
  BY DEF Job
<1> HIDE DEF j, Job, NoJob, PcStates
<1>5. job' = [job EXCEPT ![c] = j]  BY <1>3 DEF j
<1> QED  BY <1>1, <1>2, <1>4, <1>5 DEF Writes, TypeOK, OthersPut, HandlerTypes

\* The next place in the line for a lock.
LEMMA GrantedEffect ==
  ASSUME TypeOK, NEW c, NEW where, GrantedRead(c, where)
  PROVE  queue' \in Seq(Conns) /\ pc[c] = where /\ ~Down
  BY DEF GrantedRead, TypeOK

\* Taking a line.
LEMMA TakeEffect ==
  ASSUME TypeOK, NEW c \in Conns, Take(c)
  PROVE  /\ taken' \in [Conns -> Nat]
         /\ \A d \in Conns : taken'[d] <= Len(sent[d])
         /\ taken'[c] = taken[c] + 1
         /\ \A d \in Conns \ {c} : taken'[d] = taken[d]
         /\ NextLine(c) \in Line
<1>1. /\ taken \in [Conns -> Nat]
      /\ sent \in [Conns -> Seq(Line)]
      /\ \A d \in Conns : taken[d] <= Len(sent[d]) /\ Len(sent[d]) \in Nat
  BY DEF TypeOK, SocketTypeOK
<1>2. taken' = [taken EXCEPT ![c] = taken[c] + 1] /\ taken[c] < Len(sent[c])
  BY DEF Take, HasLine
<1> HIDE DEF Line
<1>3. NextLine(c) \in Line  BY <1>1, <1>2 DEF NextLine
<1> QED  BY <1>1, <1>2, <1>3

\* Messages are appended to what a client was written, one at a time.
LEMMA WireEffect ==
  ASSUME TypeOK, NEW c \in Conns, NEW msg \in Outgoing, WriteLands(c, msg)
  PROVE  /\ wire' \in [Conns -> Seq(Outgoing)]
         /\ \A d \in Conns \ {c} : wire'[d] = wire[d]
         /\ wire'[c] = Append(wire[c], msg)
         /\ Len(wire[c]) \in Nat
         /\ Len(wire'[c]) = Len(wire[c]) + 1
         /\ \A d \in Conns : Len(wire'[d]) >= Len(wire[d])
<1>1. wire \in [Conns -> Seq(Outgoing)]  BY DEF TypeOK, SocketTypeOK
<1> HIDE DEF Outgoing
<1>2. /\ Append(wire[c], msg) \in Seq(Outgoing)
      /\ Len(Append(wire[c], msg)) = Len(wire[c]) + 1
      /\ \A d \in Conns : Len(wire[d]) \in Nat
  BY <1>1
<1>3. wire' = [wire EXCEPT ![c] = Append(wire[c], msg)]  BY DEF WriteLands
<1>4. \A d \in Conns : wire'[d] = IF d = c THEN Append(wire[c], msg) ELSE wire[d]
  BY <1>1, <1>3
<1> QED  BY <1>1, <1>2, <1>3, <1>4

-----------------------------------------------------------------------------
(***************************************************************************)
(* Type correctness.  A handler that is past its Join has a username, one  *)
(* that is writing has a message, and one that reacts has taken a line.    *)
(***************************************************************************)
Sound(c) ==
  /\ pc[c] \in {"lookup", "inserting", "serving", "reacting", "removing"} => name[c] \in Names
  /\ pc[c] \in {"locking", "writing"} =>
       job[c] \in Job /\ (job[c].then # "close" => name[c] \in Names)
  /\ pc[c] = "reacting" => taken[c] > 0

TypeInv == TypeOK /\ \A c \in Conns : Sound(c)

\* The messages the server makes up itself.
LEMMA OwnMessages ==
  /\ Welcome \in Outgoing
  /\ Pong \in Outgoing
  /\ \A t \in ErrorTexts : Error(t) \in Outgoing
  /\ UserList(Registered) \in Outgoing
<1>1. \A users \in SUBSET Names : UserList(users) \in Outgoing
  BY DEF Outgoing, ServerToClientMsg, UserList
<1> QED
  BY <1>1 DEF Outgoing, ServerToClientMsg, Welcome, Pong, Error, Registered

\* A step of the handler of c that is well typed in itself.
LEMMA PollTypes ==
  ASSUME TypeInv, NEW c \in Conns,
         HandlerTypes', OthersStay(c), Sound(c)',
         UNCHANGED <<peer, sent, seen>>,
         wire' \in [Conns -> Seq(Outgoing)],
         \A d \in Conns : Len(wire'[d]) >= Len(wire[d]),
         UNCHANGED taken \/ Take(c),
         queue' \in Seq(Conns),
         registry' \in [Names -> Conns \cup {NoConn}],
         name' \in [Conns -> Names \cup {NoName}]
  PROVE  TypeInv'
<1>1. SocketTypeOK'
  <2>1. taken' \in [Conns -> Nat] /\ \A d \in Conns : taken'[d] <= Len(sent[d])
    BY TakeEffect DEF TypeInv, TypeOK, SocketTypeOK
  <2>2. \A d \in Conns : seen[d] <= Len(wire'[d])
    BY DEF TypeInv, TypeOK, SocketTypeOK
  <2> QED  BY <2>1, <2>2 DEF TypeInv, TypeOK, SocketTypeOK
<1>2. TypeOK'  BY <1>1 DEF HandlerTypes, TypeOK
<1>3. \A d \in Conns \ {c} : Sound(d)'
  BY DEF TypeInv, Sound, OthersStay
<1> QED  BY <1>2, <1>3 DEF TypeInv

\* A step that leaves the sockets' outgoing side and the names alone.
LEMMA QuietTypes ==
  ASSUME TypeInv, NEW c \in Conns,
         HandlerTypes', OthersPut(c), Sound(c)',
         UNCHANGED <<peer, sent, seen, wire, name>>,
         UNCHANGED taken \/ Take(c),
         queue' \in Seq(Conns),
         registry' \in [Names -> Conns \cup {NoConn}]
  PROVE  TypeInv'
<1>1. TypeOK  BY DEF TypeInv
<1>2. OthersStay(c)  BY <1>1, TakeEffect DEF OthersPut, OthersStay
<1>3. /\ wire' \in [Conns -> Seq(Outgoing)]
      /\ \A d \in Conns : Len(wire'[d]) >= Len(wire[d])
      /\ name' \in [Conns -> Names \cup {NoName}]
  BY <1>1 DEF TypeOK, SocketTypeOK
<1> QED  BY <1>2, <1>3, PollTypes

LEMMA RefusesEffect ==
  ASSUME TypeOK, NEW c \in Conns, NEW t \in ErrorTexts, Refuses(c, t)
  PROVE  /\ HandlerTypes' /\ OthersPut(c) /\ pc'[c] = "locking" /\ UNCHANGED queue
         /\ job'[c] \in Job
         /\ job'[c].msg = Error(t) /\ job'[c].then = "close"
         /\ job'[c].at = c /\ job'[c].todo = {}
  BY OwnMessages, WritesEffect DEF Refuses, Continuations

LEMMA JoinTypes ==
  ASSUME TypeInv, NEW c \in Conns,
         \/ JoinReads(c) \/ JoinOtherMessage(c) \/ JoinUnreadable(c) \/ JoinEof(c)
         \/ JoinTimeout(c) \/ Lookup(c)
  PROVE  TypeInv'
<1> USE DEF JoinFrame, clientVars
<1>1. TypeOK  BY DEF TypeInv
<1>2. /\ queue \in Seq(Conns)
      /\ registry \in [Names -> Conns \cup {NoConn}]
      /\ name \in [Conns -> Names \cup {NoName}]
      /\ wire \in [Conns -> Seq(Outgoing)]
      /\ \A d \in Conns : Len(wire[d]) \in Nat
  BY <1>1 DEF TypeOK, SocketTypeOK
<1>3. ASSUME NEW t \in ErrorTexts, Refuses(c, t), UNCHANGED name, UNCHANGED taken \/ Take(c),
             JoinFrame
      PROVE  TypeInv'
  <2>1. /\ HandlerTypes' /\ OthersPut(c) /\ pc'[c] = "locking" /\ UNCHANGED queue
        /\ job'[c] \in Job /\ job'[c].then = "close"
    BY <1>1, <1>3, RefusesEffect
  <2>2. Sound(c)'  BY <2>1 DEF Sound
  <2> QED  BY <1>2, <1>3, <2>1, <2>2, QuietTypes
<1>4. CASE JoinReads(c)
  <2>1. /\ HandlerTypes' /\ OthersPut(c) /\ pc'[c] = "lookup" /\ queue' \in Seq(Conns)
        /\ taken'[c] = taken[c] + 1
        /\ \A d \in Conns \ {c} : taken'[d] = taken[d]
        /\ NextLine(c) \in Line /\ NextLine(c).kind = "Join"
        /\ name' = [name EXCEPT ![c] = NextLine(c).name]
        /\ Take(c)
    BY <1>1, <1>4, QueuesEffect, TakeEffect DEF JoinReads
  <2>2. NextLine(c).name \in Names  BY <2>1 DEF Line, Plain, Unreadable
  <2>3. /\ name' \in [Conns -> Names \cup {NoName}] /\ name'[c] \in Names
        /\ \A d \in Conns \ {c} : name'[d] = name[d]
    BY <1>2, <2>1, <2>2
  <2>4. OthersStay(c)  BY <2>1, <2>3 DEF OthersPut, OthersStay
  <2>5. Sound(c)'  BY <2>1, <2>3 DEF Sound
  <2>6. /\ UNCHANGED <<peer, sent, seen, registry>>
        /\ wire' \in [Conns -> Seq(Outgoing)]
        /\ \A d \in Conns : Len(wire'[d]) >= Len(wire[d])
    BY <1>2, <1>4 DEF JoinReads
  <2> QED  BY <1>2, <2>1, <2>3, <2>4, <2>5, <2>6, PollTypes
<1>5. CASE JoinOtherMessage(c)  BY <1>3, <1>5 DEF JoinOtherMessage, ErrorTexts
<1>6. CASE JoinUnreadable(c)
  <2>1. HandlerTypes' /\ OthersPut(c) /\ pc'[c] = "ended"
    BY <1>1, <1>6, EndsEffect DEF JoinUnreadable
  <2>2. Sound(c)'  BY <2>1 DEF Sound
  <2> QED  BY <1>2, <1>6, <2>1, <2>2, QuietTypes DEF JoinUnreadable
<1>7. CASE JoinEof(c)  BY <1>3, <1>7 DEF JoinEof, ErrorTexts
<1>8. CASE JoinTimeout(c)  BY <1>3, <1>8 DEF JoinTimeout, ErrorTexts
<1>9. CASE Lookup(c)
  <2>1. queue' \in Seq(Conns) /\ pc[c] = "lookup"
    BY <1>1, <1>9, GrantedEffect DEF Lookup
  <2>2. name[c] \in Names  BY <2>1 DEF TypeInv, Sound
  <2>3. ASSUME NEW msg \in Outgoing, NEW then \in Continuations, Writes(c, {c}, msg, then)
        PROVE  HandlerTypes' /\ OthersPut(c) /\ pc'[c] = "locking" /\ job'[c] \in Job
    BY <1>1, <2>3, WritesEffect
  <2>4. HandlerTypes' /\ OthersPut(c) /\ pc'[c] = "locking" /\ job'[c] \in Job
    BY <1>9, <2>3, OwnMessages DEF Lookup, ErrorTexts, Continuations
  <2>5. Sound(c)'  BY <1>9, <2>2, <2>4 DEF Lookup, Sound
  <2> QED  BY <1>2, <1>9, <2>1, <2>4, <2>5, QuietTypes DEF Lookup
<1> QED  BY <1>4, <1>5, <1>6, <1>7, <1>8, <1>9

LEMMA MapTypes ==
  ASSUME TypeInv, NEW c \in Conns,
         \/ InsertWriter(c) \/ RemoveWriter(c) \/ ServeReads(c) \/ LeaveOnRead(c)
         \/ PanicOnRead(c) \/ ReactUnnamed(c)
  PROVE  TypeInv'
<1> USE DEF clientVars, socketVars
<1>1. TypeOK  BY DEF TypeInv
<1>2. /\ queue \in Seq(Conns)
      /\ registry \in [Names -> Conns \cup {NoConn}]
      /\ taken \in [Conns -> Nat]
  BY <1>1 DEF TypeOK, SocketTypeOK
<1>3. "serving" \in PcStates  BY DEF PcStates
<1>4. CASE InsertWriter(c)
  <2>1. HandlerTypes' /\ OthersPut(c) /\ pc'[c] = "serving"
    BY <1>1, <1>3, <1>4, GoesEffect DEF InsertWriter
  <2>2. queue' \in Seq(Conns) /\ pc[c] = "inserting"
    BY <1>1, <1>4, GrantedEffect DEF InsertWriter, GrantedWrite
  <2>3. Sound(c)'  BY <1>4, <2>1, <2>2 DEF InsertWriter, TypeInv, Sound
  <2> QED  BY <1>2, <1>4, <2>1, <2>2, <2>3, QuietTypes DEF InsertWriter
<1>5. CASE RemoveWriter(c)
  <2>1. HandlerTypes' /\ OthersPut(c) /\ pc'[c] = "ended"
    BY <1>1, <1>5, EndsEffect DEF RemoveWriter
  <2>2. queue' \in Seq(Conns)
    BY <1>1, <1>5, GrantedEffect DEF RemoveWriter, GrantedWrite
  <2>3. Sound(c)'  BY <2>1 DEF Sound
  <2> QED  BY <1>2, <1>5, <2>1, <2>2, <2>3, QuietTypes DEF RemoveWriter
<1>6. CASE ServeReads(c)
  <2>1. HandlerTypes' /\ OthersPut(c) /\ pc'[c] = "reacting" /\ queue' \in Seq(Conns)
    BY <1>1, <1>6, QueuesEffect DEF ServeReads
  <2>2. taken'[c] = taken[c] + 1  BY <1>1, <1>6, TakeEffect DEF ServeReads
  <2>3. Sound(c)'  BY <1>2, <1>6, <2>1, <2>2 DEF ServeReads, TypeInv, Sound
  <2> QED  BY <1>2, <1>6, <2>1, <2>3, QuietTypes DEF ServeReads
<1>7. CASE LeaveOnRead(c)
  <2>1. HandlerTypes' /\ OthersPut(c) /\ pc'[c] = "removing" /\ queue' \in Seq(Conns)
    BY <1>1, <1>7, QueuesEffect DEF LeaveOnRead
  <2>2. Sound(c)'  BY <1>7, <2>1 DEF LeaveOnRead, TypeInv, Sound
  <2> QED  BY <1>2, <1>7, <2>1, <2>2, QuietTypes DEF LeaveOnRead
<1>8. CASE PanicOnRead(c)
  <2>1. HandlerTypes' /\ OthersPut(c) /\ pc'[c] = "ended"
    BY <1>1, <1>8, EndsEffect DEF PanicOnRead
  <2>2. Sound(c)'  BY <2>1 DEF Sound
  <2> QED  BY <1>2, <1>8, <2>1, <2>2, QuietTypes DEF PanicOnRead
<1>9. CASE ReactUnnamed(c)
  <2>1. HandlerTypes' /\ OthersPut(c) /\ pc'[c] = "serving"
    BY <1>1, <1>3, <1>9, GoesEffect DEF ReactUnnamed
  <2>2. queue' \in Seq(Conns) /\ pc[c] = "reacting"
    BY <1>1, <1>9, GrantedEffect DEF ReactUnnamed
  <2>3. Sound(c)'  BY <1>9, <2>1, <2>2 DEF ReactUnnamed, TypeInv, Sound
  <2> QED  BY <1>2, <1>9, <2>1, <2>2, <2>3, QuietTypes DEF ReactUnnamed
<1> QED  BY <1>4, <1>5, <1>6, <1>7, <1>8, <1>9

\* The writers in the map are those of connections.
LEMMA InMapConns ==
  ASSUME TypeOK
  PROVE  /\ InMap \subseteq Conns
         /\ \A n \in Registered : registry[n] \in InMap
         /\ \A n \in Names : registry[n] \in Conns => n \in Registered
  BY NoConnAssumption DEF TypeOK, InMap, Registered

Reacting(c) ==
  ReactPing(c) \/ ReactListUsers(c) \/ ReactJoin(c) \/ ReactBroadcast(c) \/ ReactDirect(c)

\* What react_client_msg sends, and to whom: to writers of the map, an answer
\* that fits or the client's own chat message; a reply goes to the writer of
\* the name only; it gives up on the client only if that joins twice.
LEMMA ReactShape ==
  ASSUME TypeInv, NEW c \in Conns, Reacting(c)
  PROVE  /\ GrantedRead(c, "reacting")
         /\ UNCHANGED <<socketVars, name, registry>>
         /\ \/ Goes(c, "serving") /\ Request(c).kind \notin {"Ping", "ListUsers"}
            \/ \E to \in SUBSET InMap, msg \in Outgoing, then \in {"reply", "kick"} :
                 /\ Writes(c, to, msg, then)
                 /\ msg # Welcome
                 /\ msg.kind = "Message" => msg = Chat(c)
                 /\ then = "kick" => Request(c).kind = "Join"
                 /\ IsReply(Request(c).kind, msg.kind)
                 /\ msg.kind \in {"Pong", "UserList"} =>
                      then = "reply" /\ to = {registry[name[c]]} /\ name[c] \in Registered
<1> DEFINE Makes(to, msg, then) ==
             /\ to \in SUBSET InMap /\ msg \in Outgoing /\ then \in {"reply", "kick"}
             /\ Writes(c, to, msg, then)
             /\ msg # Welcome
             /\ msg.kind = "Message" => msg = Chat(c)
             /\ then = "kick" => Request(c).kind = "Join"
             /\ IsReply(Request(c).kind, msg.kind)
             /\ msg.kind \in {"Pong", "UserList"} =>
                  then = "reply" /\ to = {registry[name[c]]} /\ name[c] \in Registered
<1>1. TypeOK  BY DEF TypeInv
<1>2. /\ GrantedRead(c, "reacting") /\ name[c] \in Registered
      /\ UNCHANGED <<socketVars, name, registry>>
  BY DEF Reacting, ReactPing, ReactListUsers, ReactJoin, ReactBroadcast, ReactDirect, Reacts
<1>3. pc[c] = "reacting"  BY <1>2 DEF GrantedRead
<1> SUFFICES \/ Goes(c, "serving") /\ Request(c).kind \notin {"Ping", "ListUsers"}
             \/ \E to, msg, then : Makes(to, msg, then)
  <2> HIDE DEF Outgoing, Writes, InMap, GrantedRead, Goes, Request, Chat
  <2> QED  BY <1>2
<1>4. {registry[name[c]]} \in SUBSET InMap  BY <1>1, <1>2, InMapConns
<1>5. Chat(c) \in Outgoing /\ Chat(c).kind = "Message" /\ Chat(c) # Welcome
  <2>1. /\ taken[c] \in Nat /\ taken[c] > 0
        /\ Len(sent[c]) \in Nat /\ taken[c] <= Len(sent[c]) /\ Len(sent[c]) <= MaxSends
        /\ name[c] \in Names
    BY <1>1, <1>3 DEF TypeInv, Sound, TypeOK, SocketTypeOK
  <2>2. <<c, taken[c]>> \in Text  BY <2>1, MaxSendsAssumption DEF Text
  <2>3. Message(name[c], <<c, taken[c]>>) \in Outgoing
    BY <2>1, <2>2 DEF Message, Outgoing, ServerToClientMsg
  <2> QED  BY <2>3 DEF Chat, Message, Welcome
<1>6. \A t \in ErrorTexts : Error(t) \in Outgoing /\ Error(t).kind = "Error"
  BY OwnMessages DEF Error
<1>7. ASSUME NEW msg \in Outgoing, NEW then \in {"reply", "kick"}, Replies(c, msg, then),
             msg # Welcome, msg.kind # "Message", then = "kick" => Request(c).kind = "Join",
             IsReply(Request(c).kind, msg.kind),
             msg.kind \in {"Pong", "UserList"} => then = "reply"
      PROVE  Makes({registry[name[c]]}, msg, then)
  <2>1. Writes(c, {registry[name[c]]}, msg, then)  BY <1>7 DEF Replies
  <2> HIDE DEF Outgoing, Writes, InMap, Request, Chat
  <2> QED  BY <1>2, <1>4, <1>7, <2>1
<1>8. ASSUME NEW t \in ErrorTexts, NEW then \in {"reply", "kick"}, Replies(c, Error(t), then),
             Request(c).kind \notin {"Ping", "ListUsers"},
             then = "kick" => Request(c).kind = "Join"
      PROVE  Makes({registry[name[c]]}, Error(t), then)
  <2>1. /\ Error(t) \in Outgoing /\ Error(t).kind = "Error" /\ Error(t) # Welcome
        /\ IsReply(Request(c).kind, Error(t).kind)
    BY <1>6, <1>8 DEF IsReply, Welcome
  <2> HIDE DEF Makes, Outgoing
  <2> QED  BY <1>7, <1>8, <2>1
<1>9. ASSUME NEW to \in SUBSET InMap, Writes(c, to, Chat(c), "reply"),
             Request(c).kind \notin {"Ping", "ListUsers"}
      PROVE  Makes(to, Chat(c), "reply")
  <2> HIDE DEF Outgoing, Writes, InMap, Request, Chat
  <2> QED  BY <1>5, <1>9 DEF IsReply
<1> HIDE DEF Makes
<1>10. CASE ReactPing(c)
  <2>1. Pong \in Outgoing /\ Pong.kind = "Pong" /\ Pong # Welcome
    BY OwnMessages DEF Pong, Welcome
  <2>2. Request(c).kind = "Ping" /\ Replies(c, Pong, "reply")
    BY <1>10 DEF ReactPing, Reacts
  <2> HIDE DEF Outgoing, Replies, Request
  <2> QED  BY <1>7, <2>1, <2>2 DEF IsReply
<1>11. CASE ReactListUsers(c)
  <2>1. /\ UserList(Registered) \in Outgoing /\ UserList(Registered).kind = "UserList"
        /\ UserList(Registered) # Welcome
    BY OwnMessages DEF UserList, Welcome
  <2>2. Request(c).kind = "ListUsers" /\ Replies(c, UserList(Registered), "reply")
    BY <1>11 DEF ReactListUsers, Reacts
  <2> HIDE DEF Outgoing, Replies, Request
  <2> QED  BY <1>7, <2>1, <2>2 DEF IsReply
<1>12. CASE ReactJoin(c)
  <2>1. "Unexpected message received" \in ErrorTexts  BY DEF ErrorTexts
  <2> QED  BY <1>8, <1>12, <2>1 DEF ReactJoin, Reacts
<1>13. CASE ReactBroadcast(c)
  <2>1. Audience(c) \in SUBSET InMap  BY DEF Audience, InMap
  <2> QED  BY <1>9, <1>13, <2>1 DEF ReactBroadcast, Reacts
<1>14. CASE ReactDirect(c)
  <2>1. ASSUME Request(c).name \in Registered
        PROVE  {registry[Request(c).name]} \in SUBSET InMap
    BY <2>1 DEF InMap
  <2>2. Request(c).kind \notin {"Ping", "ListUsers"}  BY <1>14 DEF ReactDirect, Reacts
  <2>3. {"Cannot send a DM to yourself", "User does not exist"} \subseteq ErrorTexts
    BY DEF ErrorTexts
  <2> QED  BY <1>8, <1>9, <1>14, <2>1, <2>2, <2>3 DEF ReactDirect
<1> QED  BY <1>10, <1>11, <1>12, <1>13, <1>14 DEF Reacting

LEMMA ReactTypes ==
  ASSUME TypeInv, NEW c \in Conns, Reacting(c)
  PROVE  TypeInv'
<1>1. TypeOK  BY DEF TypeInv
<1>2. GrantedRead(c, "reacting") /\ UNCHANGED <<socketVars, name, registry>>
  BY ReactShape
<1>3. queue' \in Seq(Conns) /\ pc[c] = "reacting"  BY <1>1, <1>2, GrantedEffect
<1>4. name[c] \in Names  BY <1>3 DEF TypeInv, Sound
<1>5. HandlerTypes' /\ OthersPut(c) /\ Sound(c)'
  <2>1. CASE Goes(c, "serving")
    <3>1. HandlerTypes' /\ OthersPut(c) /\ pc'[c] = "serving"
      BY <1>1, <2>1, GoesEffect DEF PcStates
    <3> QED  BY <1>2, <1>4, <3>1 DEF Sound
  <2>2. ASSUME NEW to \in SUBSET InMap, NEW msg \in Outgoing, NEW then \in {"reply", "kick"},
               Writes(c, to, msg, then)
        PROVE  HandlerTypes' /\ OthersPut(c) /\ Sound(c)'
    <3>1. to \in SUBSET Conns /\ then \in Continuations
      BY <1>1, InMapConns DEF Continuations
    <3>2. HandlerTypes' /\ OthersPut(c) /\ pc'[c] = "locking" /\ job'[c] \in Job
      BY <1>1, <2>2, <3>1, WritesEffect
    <3> QED  BY <1>2, <1>4, <3>2 DEF Sound
  <2> QED  BY <2>1, <2>2, ReactShape
<1> QED
  BY <1>1, <1>2, <1>3, <1>5, QuietTypes DEF socketVars, TypeOK

\* A step of a handler that is writing: the send ends well, ends badly, or is
\* suspended.
Sending(c) == LockWriter(c) \/ ResumeWrite(c)

Suspends(c) ==
  /\ pc[c] = "locking" /\ pc' = [pc EXCEPT ![c] = "writing"]
  /\ MutexFree(job[c].at)
  /\ UNCHANGED <<loopVars, wire, job, queue>>

LEMMA SendShape ==
  ASSUME TypeInv, NEW c \in Conns, Sending(c)
  PROVE  /\ ~Down /\ pc[c] \in {"locking", "writing"}
         /\ UNCHANGED <<clientVars, taken, name, registry>>
         /\ \/ WriteLands(job[c].at, job[c].msg) /\ Continues(c, TRUE)
            \/ WriteFails(job[c].at) /\ Continues(c, FALSE)
            \/ Suspends(c)
         /\ job[c] \in Job
         /\ job[c].msg \in Outgoing /\ job[c].then \in Continuations
         /\ job[c].at \in Conns /\ job[c].todo \in SUBSET Conns
         /\ job[c].then # "close" => name[c] \in Names
<1>1. pc[c] \in {"locking", "writing"}  BY DEF Sending, LockWriter, ResumeWrite
<1>2. job[c] \in Job /\ (job[c].then # "close" => name[c] \in Names)
  BY <1>1 DEF TypeInv, Sound
<1>3. /\ job[c].msg \in Outgoing /\ job[c].then \in Continuations
      /\ job[c].at \in Conns /\ job[c].todo \in SUBSET Conns
  <2> HIDE DEF Outgoing, Continuations
  <2> QED  BY <1>2 DEF Job
<1> QED  BY <1>1, <1>2, <1>3 DEF Sending, LockWriter, ResumeWrite, SendEnds, Suspends

LEMMA ContinuesEffect ==
  ASSUME TypeInv, NEW c \in Conns, NEW ok \in BOOLEAN, job[c] \in Job, Continues(c, ok),
         job[c].then # "close" => name[c] \in Names,
         UNCHANGED name
  PROVE  HandlerTypes' /\ OthersPut(c) /\ Sound(c)' /\ queue' \in Seq(Conns)
<1>1. TypeOK  BY DEF TypeInv
<1>2. queue \in Seq(Conns)  BY <1>1 DEF TypeOK
<1>3. /\ job[c].msg \in Outgoing /\ job[c].then \in Continuations
      /\ job[c].todo \in SUBSET Conns
  <2> HIDE DEF Outgoing, Continuations
  <2> QED  BY DEF Job
<1>4. CASE job[c].then = "welcome" /\ Queues(c, "inserting")
  <2>1. /\ HandlerTypes' /\ OthersPut(c) /\ queue' \in Seq(Conns)
        /\ pc'[c] = "inserting"
    BY <1>1, <1>4, QueuesEffect
  <2> QED  BY <1>4, <2>1 DEF Sound
<1>5. CASE job[c].then = "reply" /\ Writes(c, job[c].todo, job[c].msg, "reply") /\ UNCHANGED queue
  <2>1. HandlerTypes' /\ OthersPut(c) /\ pc'[c] = "locking" /\ job'[c] \in Job
    BY <1>1, <1>3, <1>5, WritesEffect DEF Continuations
  <2> QED  BY <1>2, <1>5, <2>1 DEF Sound
<1>6. CASE job[c].then = "reply" /\ Goes(c, "serving") /\ UNCHANGED queue
  <2>1. HandlerTypes' /\ OthersPut(c) /\ pc'[c] = "serving"
    BY <1>1, <1>6, GoesEffect DEF PcStates
  <2> QED  BY <1>2, <1>6, <2>1 DEF Sound
<1>7. CASE job[c].then \in {"kick", "reply"} /\ Queues(c, "removing")
  <2>1. /\ HandlerTypes' /\ OthersPut(c) /\ queue' \in Seq(Conns)
        /\ pc'[c] = "removing"
    BY <1>1, <1>7, QueuesEffect
  <2> QED  BY <1>7, <2>1 DEF Sound
<1>8. CASE Ends(c) /\ UNCHANGED queue
  <2>1. HandlerTypes' /\ OthersPut(c) /\ pc'[c] = "ended"
    BY <1>1, <1>8, EndsEffect
  <2> QED  BY <1>2, <1>8, <2>1 DEF Sound
<1> QED  BY <1>4, <1>5, <1>6, <1>7, <1>8 DEF Continues

LEMMA SuspendsEffect ==
  ASSUME TypeInv, NEW c \in Conns, Suspends(c)
  PROVE  /\ HandlerTypes' /\ OthersPut(c) /\ pc'[c] = "writing"
         /\ UNCHANGED <<wire, job, queue>>
<1>1. LoopTypeOK'  BY LoopTypeStep DEF Suspends, TypeInv, TypeOK
<1> HIDE DEF Job, NoJob
<1> QED  BY <1>1 DEF Suspends, HandlerTypes, OthersPut, TypeInv, TypeOK, PcStates

LEMMA SendTypes ==
  ASSUME TypeInv, NEW c \in Conns, Sending(c)
  PROVE  TypeInv'
<1> USE DEF clientVars
<1>1. TypeOK  BY DEF TypeInv
<1>2. /\ pc[c] \in {"locking", "writing"}
      /\ UNCHANGED <<peer, sent, seen, taken, name, registry>>
      /\ job[c] \in Job
      /\ job[c].msg \in Outgoing /\ job[c].at \in Conns
      /\ job[c].then # "close" => name[c] \in Names
  BY SendShape
<1>3. HandlerTypes' /\ OthersPut(c) /\ Sound(c)' /\ queue' \in Seq(Conns)
  <2>1. CASE Continues(c, TRUE) \/ Continues(c, FALSE)
    BY <1>2, <2>1, ContinuesEffect
  <2>2. CASE Suspends(c)
    <3>1. /\ HandlerTypes' /\ OthersPut(c) /\ pc'[c] = "writing"
          /\ UNCHANGED <<wire, job, queue>>
      BY <2>2, SuspendsEffect
    <3> QED  BY <1>1, <1>2, <3>1 DEF Sound, TypeOK
  <2> QED  BY <2>1, <2>2, SendShape
<1>4. /\ wire' \in [Conns -> Seq(Outgoing)]
      /\ \A d \in Conns : Len(wire'[d]) >= Len(wire[d])
  <2>1. CASE WriteLands(job[c].at, job[c].msg)  BY <1>1, <1>2, <2>1, WireEffect
  <2>2. CASE UNCHANGED wire
    <3>1. wire \in [Conns -> Seq(Outgoing)]  BY <1>1 DEF TypeOK, SocketTypeOK
    <3>2. \A d \in Conns : Len(wire[d]) \in Nat  BY <3>1
    <3> QED  BY <2>2, <3>1, <3>2
  <2> QED  BY <2>1, <2>2, SendShape DEF WriteFails, Suspends
<1>5. OthersStay(c)  BY <1>2, <1>3 DEF OthersPut, OthersStay
<1> QED  BY <1>1, <1>2, <1>3, <1>4, <1>5, PollTypes DEF TypeOK

LEMMA ServerTypes ==
  ASSUME TypeInv, NEW c \in Conns, Server(c)
  PROVE  TypeInv'
<1> USE DEF clientVars, socketVars, handlerVars
<1>1. TypeOK /\ LoopTypeOK'
  BY ServerLoop, LoopTypeStep DEF TypeInv, TypeOK
<1>2. CASE SpawnHandler(c)
  BY <1>1, <1>2 DEF SpawnHandler, TypeInv, TypeOK, SocketTypeOK, Sound, PcStates
<1>3. CASE TurnAway(c)
  <2>1. UNCHANGED <<peer, sent, seen, taken, pc, name, job, queue, registry>>
    BY <1>3 DEF TurnAway
  <2>2. /\ wire' \in [Conns -> Seq(Outgoing)]
        /\ \A d \in Conns : Len(wire'[d]) >= Len(wire[d])
    <3>1. CASE WriteLands(c, Error("Server is full"))
      BY <1>1, <3>1, WireEffect, OwnMessages DEF ErrorTexts
    <3>2. CASE UNCHANGED wire
      <4>1. wire \in [Conns -> Seq(Outgoing)]  BY <1>1 DEF TypeOK, SocketTypeOK
      <4>2. \A d \in Conns : Len(wire[d]) \in Nat  BY <4>1
      <4> QED  BY <3>2, <4>1, <4>2
    <3> QED  BY <1>3, <3>1, <3>2 DEF TurnAway, WriteFails
  <2>3. \A d \in Conns : seen[d] <= Len(wire'[d])
    BY <1>1, <2>2 DEF TypeOK, SocketTypeOK
  <2> QED  BY <1>1, <2>1, <2>2, <2>3 DEF TypeInv, TypeOK, SocketTypeOK, Sound
<1>4. CASE CancelHandler(c)
  BY <1>1, <1>4 DEF CancelHandler, TypeInv, TypeOK, SocketTypeOK, Sound, PcStates
<1> QED  BY <1>2, <1>3, <1>4 DEF Server

\* What a client may send is a line.
LEMMA MaySendLines ==
  ASSUME NEW c \in Conns, sent \in [Conns -> Seq(Line)]
  PROVE  MaySend(c) \subseteq Line
<1> HIDE DEF Line
<1>1. Len(sent[c]) < MaxSends => Len(sent[c]) + 1 \in 1..MaxSends
  BY MaxSendsAssumption
<1>2. \A k \in 1..MaxSends : Requests[c][k] \subseteq Line
  BY RequestsAssumption
<1> QED  BY <1>1, <1>2 DEF MaySend

\* A client adds a line to what it sent.
LEMMA LineEffect ==
  ASSUME TypeOK, NEW c \in Conns, NEW line \in MaySend(c), ClientSends(c, line)
  PROVE  /\ sent' \in [Conns -> Seq(Line)]
         /\ \A d \in Conns : /\ taken[d] <= Len(sent'[d])
                             /\ Len(sent'[d]) <= MaxSends
         /\ \A d \in Conns : \A i \in 1..taken[d] : sent'[d][i] = sent[d][i]
         /\ \A d \in Conns \ {c} : sent'[d] = sent[d]
<1>1. /\ sent \in [Conns -> Seq(Line)]
      /\ taken \in [Conns -> Nat]
      /\ \A d \in Conns : taken[d] <= Len(sent[d]) /\ Len(sent[d]) <= MaxSends
      /\ line \in Line
      /\ sent' = [sent EXCEPT ![c] = Append(sent[c], line)]
      /\ Len(sent[c]) < MaxSends
  BY MaySendLines DEF ClientSends, TypeOK, SocketTypeOK
<1> HIDE DEF Line
<1>2. /\ Append(sent[c], line) \in Seq(Line)
      /\ Len(Append(sent[c], line)) = Len(sent[c]) + 1
      /\ \A i \in 1..Len(sent[c]) : Append(sent[c], line)[i] = sent[c][i]
      /\ \A d \in Conns : Len(sent[d]) \in Nat
  BY <1>1
<1>3. \A d \in Conns : sent'[d] = IF d = c THEN Append(sent[c], line) ELSE sent[d]
  BY <1>1
<1>4. \A d \in Conns : taken[d] <= Len(sent'[d]) /\ Len(sent'[d]) <= MaxSends
  BY <1>1, <1>2, <1>3, MaxSendsAssumption
<1>5. \A d \in Conns : \A i \in 1..taken[d] : sent'[d][i] = sent[d][i]
  BY <1>1, <1>2, <1>3
<1> QED  BY <1>1, <1>2, <1>3, <1>4, <1>5

\* A step of the clients: dial, send, close, vanish or read.
LEMMA ClientTypes ==
  ASSUME TypeInv, NEW c \in Conns, Client(c) \/ Reader(c)
  PROVE  TypeInv'
<1> USE DEF loopVars, handlerVars
<1>1. TypeOK  BY DEF TypeInv
<1>2. CASE Dial(c) /\ UNCHANGED handlerVars
  <2>1. LoopTypeOK'
    BY <1>1, <1>2, LoopTypeStep DEF Dial, LoopNext, TypeOK
  <2> QED
    BY <1>1, <1>2, <2>1 DEF Dial, TypeInv, TypeOK, SocketTypeOK, Sound, PeerStates
<1>3. ASSUME NEW line \in MaySend(c), ClientSends(c, line), UNCHANGED <<loopVars, handlerVars>>
      PROVE  TypeInv'
  BY <1>1, <1>3, LineEffect
  DEF ClientSends, TypeInv, TypeOK, SocketTypeOK, Sound, LoopTypeOK
<1>4. CASE (ClientCloses(c) \/ ClientVanishes(c)) /\ UNCHANGED <<loopVars, handlerVars>>
  BY <1>1, <1>4
  DEF ClientCloses, ClientVanishes, PeerStates, TypeInv, TypeOK, SocketTypeOK, Sound,
      LoopTypeOK
<1>5. CASE Reader(c)
  <2>1. \A d \in Conns : seen'[d] \in Nat /\ seen'[d] <= Len(wire[d])
    BY <1>1, <1>5, OutCapAssumption DEF Reader, ClientReads, HasRoom, TypeOK, SocketTypeOK
  <2> QED
    BY <1>1, <1>5, <2>1
    DEF Reader, ClientReads, TypeInv, TypeOK, SocketTypeOK, Sound, LoopTypeOK
<1> QED  BY <1>2, <1>3, <1>4, <1>5 DEF Client

\* The steps of a handler, by what they touch.
LEMMA HandlerCases ==
  ASSUME NEW c \in Conns, Handler(c) \/ JoinTimeout(c)
  PROVE  \/ JoinReads(c) \/ JoinOtherMessage(c) \/ JoinUnreadable(c) \/ JoinEof(c)
         \/ JoinTimeout(c) \/ Lookup(c)
         \/ InsertWriter(c) \/ RemoveWriter(c) \/ ServeReads(c) \/ LeaveOnRead(c)
         \/ PanicOnRead(c) \/ ReactUnnamed(c)
         \/ Reacting(c)
         \/ Sending(c)
  BY DEF Handler, Reacting, Sending

LEMMA TypeStep == TypeInv /\ [Next]_vars => TypeInv'
<1> SUFFICES ASSUME TypeInv, [Next]_vars PROVE TypeInv'
  OBVIOUS
<1>1. CASE LoopAlone
  <2>1. LoopTypeOK'  BY <1>1, LoopTypeStep DEF LoopAlone, LoopNext, TypeInv, TypeOK
  <2> QED
    BY <1>1, <2>1 DEF LoopAlone, socketVars, handlerVars, TypeInv, TypeOK, SocketTypeOK, Sound
<1>2. CASE UNCHANGED vars
  BY <1>2
  DEF vars, loopVars, socketVars, handlerVars, TypeInv, TypeOK, SocketTypeOK, Sound, LoopTypeOK
<1>3. ASSUME NEW c \in Conns, Handler(c) \/ JoinTimeout(c) PROVE TypeInv'
  BY <1>3, HandlerCases, JoinTypes, MapTypes, ReactTypes, SendTypes
<1> QED  BY <1>1, <1>2, <1>3, ServerTypes, ClientTypes DEF Next

LEMMA TypeInvCorrect == Spec => []TypeInv
<1>1. Init => TypeInv
  <2> SUFFICES ASSUME Init PROVE TypeInv
    OBVIOUS
  <2>1. <<>> \in Seq(Conns) /\ <<>> \in Seq(Line) /\ <<>> \in Seq(Outgoing)
    OBVIOUS
  <2>2. LoopTypeOK  BY <2>1 DEF Init, LoopInit, LoopTypeOK, ServerStates, TaskStates
  <2>3. SocketTypeOK
    BY <2>1, MaxSendsAssumption DEF Init, SocketInit, SocketTypeOK, PeerStates
  <2> QED
    BY <2>1, <2>2, <2>3 DEF Init, TypeInv, TypeOK, Sound, PcStates
<1> QED  BY <1>1, TypeStep, PTL DEF Spec

\* Type correctness of the whole multi-threaded server.
THEOREM TypeCorrect == Spec => []TypeOK
  BY TypeInvCorrect, PTL DEF TypeInv

-----------------------------------------------------------------------------
(***************************************************************************)
(* The locks.  The write lock is granted only while no handler has a read  *)
(* guard, so the map does not change under a handler that writes to the    *)
(* writers it found there.                                                 *)
(***************************************************************************)
\* A step of the handler of c that leaves the map alone.
LEMMA GuardedPoll ==
  ASSUME TargetsStay, NEW c \in Conns, OthersPut(c), UNCHANGED registry,
         ReadGuard(c)' => {job'[c].at} \cup job'[c].todo \subseteq InMap
  PROVE  TargetsStay'
<1>1. InMap' = InMap  BY DEF InMap, Registered
<1> QED  BY <1>1 DEF TargetsStay, ReadGuard, OthersPut

\* One after which it holds no read guard.
LEMMA UnguardedPoll ==
  ASSUME TargetsStay, NEW c \in Conns, OthersPut(c), UNCHANGED registry,
         pc'[c] # "writing",
         pc'[c] = "locking" => job'[c].then \in {"close", "welcome"}
  PROVE  TargetsStay'
  BY GuardedPoll DEF ReadGuard

\* One with the write lock, which ends outside of any send.
LEMMA ExclusivePoll ==
  ASSUME TargetsStay, NEW c \in Conns, OthersPut(c), \A d \in Conns : ~ReadGuard(d),
         pc'[c] \notin {"locking", "writing"}
  PROVE  TargetsStay'
<1>1. \A d \in Conns : ~ReadGuard(d)'  BY DEF ReadGuard, OthersPut
<1> QED  BY <1>1 DEF TargetsStay

LEMMA JoinLocks ==
  ASSUME TypeInv, TargetsStay, NEW c \in Conns,
         \/ JoinReads(c) \/ JoinOtherMessage(c) \/ JoinUnreadable(c) \/ JoinEof(c)
         \/ JoinTimeout(c) \/ Lookup(c)
  PROVE  TargetsStay'
<1> USE DEF JoinFrame
<1>1. TypeOK  BY DEF TypeInv
<1>2. ASSUME NEW t \in ErrorTexts, Refuses(c, t), JoinFrame
      PROVE  TargetsStay'
  BY <1>1, <1>2, RefusesEffect, UnguardedPoll
<1>3. CASE JoinReads(c)  BY <1>1, <1>3, QueuesEffect, UnguardedPoll DEF JoinReads
<1>4. CASE JoinOtherMessage(c)  BY <1>2, <1>4 DEF JoinOtherMessage, ErrorTexts
<1>5. CASE JoinUnreadable(c)  BY <1>1, <1>5, EndsEffect, UnguardedPoll DEF JoinUnreadable
<1>6. CASE JoinEof(c)  BY <1>2, <1>6 DEF JoinEof, ErrorTexts
<1>7. CASE JoinTimeout(c)  BY <1>2, <1>7 DEF JoinTimeout, ErrorTexts
<1>8. CASE Lookup(c)
  <2>1. ASSUME NEW msg \in Outgoing, NEW then \in {"close", "welcome"},
               Writes(c, {c}, msg, then)
        PROVE  OthersPut(c) /\ pc'[c] = "locking" /\ job'[c].then = then
    BY <1>1, <2>1, WritesEffect DEF Continuations
  <2>2. OthersPut(c) /\ pc'[c] = "locking" /\ job'[c].then \in {"close", "welcome"}
    BY <1>8, <2>1, OwnMessages DEF Lookup, ErrorTexts
  <2> QED  BY <1>8, <2>2, UnguardedPoll DEF Lookup
<1> QED  BY <1>3, <1>4, <1>5, <1>6, <1>7, <1>8

LEMMA MapLocks ==
  ASSUME TypeInv, TargetsStay, NEW c \in Conns,
         \/ InsertWriter(c) \/ RemoveWriter(c) \/ ServeReads(c) \/ LeaveOnRead(c)
         \/ PanicOnRead(c) \/ ReactUnnamed(c)
  PROVE  TargetsStay'
<1>1. TypeOK /\ "serving" \in PcStates  BY DEF TypeInv, PcStates
<1>2. CASE InsertWriter(c)
  BY <1>1, <1>2, GoesEffect, ExclusivePoll DEF InsertWriter, GrantedWrite
<1>3. CASE RemoveWriter(c)
  BY <1>1, <1>3, EndsEffect, ExclusivePoll DEF RemoveWriter, GrantedWrite
<1>4. CASE ServeReads(c)  BY <1>1, <1>4, QueuesEffect, UnguardedPoll DEF ServeReads
<1>5. CASE LeaveOnRead(c)  BY <1>1, <1>5, QueuesEffect, UnguardedPoll DEF LeaveOnRead
<1>6. CASE PanicOnRead(c)  BY <1>1, <1>6, EndsEffect, UnguardedPoll DEF PanicOnRead
<1>7. CASE ReactUnnamed(c)  BY <1>1, <1>7, GoesEffect, UnguardedPoll DEF ReactUnnamed
<1> QED  BY <1>2, <1>3, <1>4, <1>5, <1>6, <1>7

LEMMA WriteLocks ==
  ASSUME TypeInv, TargetsStay, NEW c \in Conns, Reacting(c) \/ Sending(c)
  PROVE  TargetsStay'
<1>1. TypeOK /\ "serving" \in PcStates  BY DEF TypeInv, PcStates
<1>2. UNCHANGED registry  BY ReactShape, SendShape
<1>3. ASSUME NEW to \in SUBSET InMap, NEW msg \in Outgoing, NEW then \in {"reply", "kick"},
             Writes(c, to, msg, then)
      PROVE  TargetsStay'
  <2>1. to \in SUBSET Conns /\ then \in Continuations
    BY <1>1, InMapConns DEF Continuations
  <2>2. /\ OthersPut(c) /\ pc'[c] = "locking"
        /\ job'[c].at \in to /\ job'[c].todo = to \ {job'[c].at}
    BY <1>1, <1>3, <2>1, WritesEffect
  <2> QED  BY <1>2, <2>2, GuardedPoll
<1>4. CASE Goes(c, "serving")  BY <1>1, <1>2, <1>4, GoesEffect, UnguardedPoll
<1>5. CASE Reacting(c)  BY <1>3, <1>4, <1>5, ReactShape
<1>6. CASE Sending(c)
  <2>1. pc[c] \in {"locking", "writing"} /\ job[c].msg \in Outgoing
    BY <1>6, SendShape
  <2>2. CASE Suspends(c)
    <3>1. /\ OthersPut(c) /\ pc'[c] = "writing" /\ UNCHANGED job
          /\ pc[c] = "locking" /\ MutexFree(job[c].at)
      BY <2>2, SuspendsEffect DEF Suspends
    <3>2. ReadGuard(c)' => ReadGuard(c)  BY <3>1 DEF ReadGuard
    <3> QED  BY <1>2, <3>1, <3>2, GuardedPoll DEF TargetsStay
  <2>3. CASE job[c].then = "reply" /\ Writes(c, job[c].todo, job[c].msg, "reply")
    <3>1. job[c].todo \in SUBSET InMap
      BY <2>1, <2>3 DEF TargetsStay, ReadGuard
    <3> QED  BY <1>3, <2>1, <2>3, <3>1
  <2>4. CASE Queues(c, "inserting") \/ Queues(c, "removing")
    BY <1>1, <1>2, <2>4, QueuesEffect, UnguardedPoll
  <2>5. CASE Ends(c)  BY <1>1, <1>2, <2>5, EndsEffect, UnguardedPoll
  <2> QED  BY <1>4, <1>6, <2>2, <2>3, <2>4, <2>5, SendShape DEF Continues
<1> QED  BY <1>5, <1>6

LEMMA LocksStep == TypeInv /\ TargetsStay /\ [Next]_vars => TargetsStay'
<1> SUFFICES ASSUME TypeInv, TargetsStay, [Next]_vars PROVE TargetsStay'
  OBVIOUS
<1> USE DEF TargetsStay, InMap, Registered, ReadGuard
<1>1. CASE LoopAlone  BY <1>1 DEF LoopAlone, handlerVars
<1>2. CASE UNCHANGED vars  BY <1>2 DEF vars, handlerVars
<1>3. ASSUME NEW c \in Conns, Client(c) \/ Reader(c) PROVE TargetsStay'
  BY <1>3 DEF Client, Reader, handlerVars
<1>4. ASSUME NEW c \in Conns, Server(c) PROVE TargetsStay'
  <2>1. /\ UNCHANGED registry
        /\ \A d \in Conns : pc'[d] \in {"locking", "writing"} => pc'[d] = pc[d] /\ job'[d] = job[d]
    BY <1>4
    DEF Server, SpawnHandler, TurnAway, CancelHandler, handlerVars, TypeInv, TypeOK
  <2> QED  BY <2>1
<1> HIDE DEF TargetsStay, InMap, Registered, ReadGuard
<1>5. ASSUME NEW c \in Conns, Handler(c) \/ JoinTimeout(c) PROVE TargetsStay'
  BY <1>5, HandlerCases, JoinLocks, MapLocks, WriteLocks
<1> QED  BY <1>1, <1>2, <1>3, <1>4, <1>5 DEF Next

\* A writer that a handler is sending to, or is about to, is not taken out
\* of the map meanwhile: neither by a client that leaves nor by one that
\* comes in under the same name.
THEOREM TargetsKept == Spec => []TargetsStay
<1>1. Init => TargetsStay
  BY DEF Init, TargetsStay, ReadGuard
<1> QED  BY <1>1, LocksStep, TypeInvCorrect, PTL DEF Spec

-----------------------------------------------------------------------------
(***************************************************************************)
(* The map.  An entry bears the name of the handler it leads to, and that  *)
(* handler is in its loop, on its way out, or panicked.                    *)
(***************************************************************************)
Live(c) ==
  \/ InLoop(c) \/ pc[c] = "removing"
  \/ pc[c] = "ended" /\ taken[c] > 0 /\ Request(c).kind = "Oversized"

EntryOK(n) == name[registry[n]] = n /\ (~Down => Live(registry[n]))

EntriesInv == \A n \in Registered : EntryOK(n)

\* A handler that is still joining is not in the map.
LEMMA JoiningUnlisted ==
  ASSUME EntriesInv, ~Down, NEW c \in Conns, c \in InMap, pc[c] # "ended"
  PROVE  InLoop(c) \/ pc[c] = "removing"
  BY DEF EntriesInv, EntryOK, InMap, Live

LEMMA PollEntries ==
  ASSUME TypeInv, EntriesInv, NEW c \in Conns, OthersStay(c), UNCHANGED <<sent, registry>>,
         Down => Down',
         c \in InMap => name'[c] = name[c] /\ (~Down' => Live(c)')
  PROVE  EntriesInv'
<1>1. Registered' = Registered  BY DEF Registered
<1>2. ASSUME NEW n \in Registered PROVE EntryOK(n)'
  <2>1. registry[n] \in Conns /\ registry[n] \in InMap
    BY <1>2, InMapConns DEF TypeInv
  <2>2. CASE registry[n] = c
    BY <1>2, <2>1, <2>2 DEF EntriesInv, EntryOK
  <2>3. CASE registry[n] # c
    BY <1>2, <2>1, <2>3 DEF EntriesInv, EntryOK, OthersStay, Live, InLoop, Request
  <2> QED  BY <2>2, <2>3
<1> QED  BY <1>1, <1>2 DEF EntriesInv

LEMMA JoinEntries ==
  ASSUME TypeInv, EntriesInv, NEW c \in Conns,
         \/ JoinReads(c) \/ JoinOtherMessage(c) \/ JoinUnreadable(c) \/ JoinEof(c)
         \/ JoinTimeout(c) \/ Lookup(c)
  PROVE  EntriesInv'
<1> USE DEF JoinFrame, clientVars
<1>1. TypeOK  BY DEF TypeInv
<1>2. ~Down /\ pc[c] \in {"joining", "lookup"} /\ UNCHANGED <<sent, registry>>
  BY DEF JoinReads, JoinOtherMessage, JoinUnreadable, JoinEof, JoinTimeout, Lookup,
         Joining, GrantedRead
<1>3. c \notin InMap  BY <1>2, JoiningUnlisted DEF InLoop
<1>4. OthersPut(c)
  <2>1. ASSUME NEW t \in ErrorTexts, Refuses(c, t) PROVE OthersPut(c)
    BY <1>1, <2>1, RefusesEffect
  <2>2. ASSUME NEW msg \in Outgoing, NEW then \in {"close", "welcome"},
               Writes(c, {c}, msg, then)
        PROVE  OthersPut(c)
    <3>1. {c} \in SUBSET Conns /\ then \in Continuations  BY DEF Continuations
    <3> QED  BY <1>1, <2>2, <3>1, WritesEffect
  <2>3. CASE JoinReads(c)  BY <1>1, <2>3, QueuesEffect DEF JoinReads
  <2>4. CASE JoinUnreadable(c)  BY <1>1, <2>4, EndsEffect DEF JoinUnreadable
  <2>5. CASE JoinOtherMessage(c) \/ JoinEof(c) \/ JoinTimeout(c)
    BY <2>1, <2>5 DEF JoinOtherMessage, JoinEof, JoinTimeout, ErrorTexts
  <2>6. CASE Lookup(c)  BY <2>2, <2>6, OwnMessages DEF Lookup, ErrorTexts
  <2> QED  BY <2>3, <2>4, <2>5, <2>6
<1>5. \A d \in Conns \ {c} : name'[d] = name[d] /\ taken'[d] = taken[d]
  <2>1. \A d \in Conns \ {c} : name'[d] = name[d]
    BY <1>1
    DEF JoinReads, JoinOtherMessage, JoinUnreadable, JoinEof, JoinTimeout, Lookup, TypeOK
  <2>2. UNCHANGED taken \/ Take(c)
    BY DEF JoinReads, JoinOtherMessage, JoinUnreadable, JoinEof, JoinTimeout, Lookup
  <2> QED  BY <1>1, <2>1, <2>2, TakeEffect
<1>6. OthersStay(c)  BY <1>4, <1>5 DEF OthersStay, OthersPut
<1> QED  BY <1>2, <1>3, <1>6, PollEntries

LEMMA MapEntries ==
  ASSUME TypeInv, EntriesInv, NEW c \in Conns,
         \/ InsertWriter(c) \/ RemoveWriter(c) \/ ServeReads(c) \/ LeaveOnRead(c)
         \/ PanicOnRead(c) \/ ReactUnnamed(c)
  PROVE  EntriesInv'
<1> USE DEF clientVars, socketVars
<1>1. TypeOK /\ "serving" \in PcStates  BY DEF TypeInv, PcStates
<1>2. /\ registry \in [Names -> Conns \cup {NoConn}]
      /\ \A d \in Conns : taken[d] \in Nat /\ taken[d] <= Len(sent[d]) /\ Len(sent[d]) \in Nat
  BY <1>1 DEF TypeOK, SocketTypeOK
<1>3. ASSUME UNCHANGED taken \/ Take(c), OthersPut(c), UNCHANGED name PROVE OthersStay(c)
  BY <1>1, <1>3, TakeEffect DEF OthersPut, OthersStay
<1>4. ASSUME NEW n \in Registered, registry[n] # c, registry'[n] = registry[n],
             OthersStay(c), UNCHANGED <<sent, server>>
      PROVE  EntryOK(n)'
  <2>1. registry[n] \in Conns \ {c}  BY <1>1, <1>4, InMapConns
  <2> QED
    BY <1>4, <2>1 DEF EntriesInv, EntryOK, OthersStay, Live, InLoop, Request, Down
<1>5. CASE InsertWriter(c)
  <2>1. /\ OthersPut(c) /\ pc'[c] = "serving" /\ pc[c] = "inserting"
        /\ registry' = [registry EXCEPT ![name[c]] = c]
        /\ UNCHANGED <<sent, taken, name, server>> /\ ~Down
    BY <1>1, <1>5, GoesEffect
    DEF InsertWriter, GrantedWrite, GrantedRead, Goes, loopVars
  <2>2. OthersStay(c) /\ name[c] \in Names
    BY <1>3, <2>1 DEF TypeInv, Sound
  <2>3. c \notin InMap  BY <2>1, JoiningUnlisted DEF InLoop
  <2>4. ASSUME NEW n \in Registered' PROVE EntryOK(n)'
    <3>1. CASE n = name[c]
      BY <1>2, <2>1, <2>2, <3>1 DEF EntryOK, Live, InLoop
    <3>2. CASE n # name[c]
      <4>1. n \in Registered /\ registry'[n] = registry[n]
        BY <1>2, <2>1, <2>4, <3>2 DEF Registered
      <4>2. registry[n] # c  BY <2>3, <4>1 DEF InMap
      <4> QED  BY <1>4, <2>1, <2>2, <4>1, <4>2
    <3> QED  BY <3>1, <3>2
  <2> QED  BY <2>4 DEF EntriesInv
<1>6. CASE RemoveWriter(c)
  <2>1. /\ OthersPut(c) /\ pc[c] = "removing"
        /\ registry' = [registry EXCEPT ![name[c]] = NoConn]
        /\ UNCHANGED <<sent, taken, name, server>>
    BY <1>1, <1>6, EndsEffect DEF RemoveWriter, GrantedWrite, GrantedRead
  <2>2. OthersStay(c) /\ name[c] \in Names
    BY <1>3, <2>1 DEF TypeInv, Sound
  <2>3. ASSUME NEW n \in Registered' PROVE EntryOK(n)'
    <3>1. n # name[c] /\ n \in Registered /\ registry'[n] = registry[n]
      BY <1>2, <2>1, <2>2, <2>3 DEF Registered
    <3>2. registry[n] # c  BY <3>1 DEF EntriesInv, EntryOK
    <3> QED  BY <1>4, <2>1, <2>2, <3>1, <3>2
  <2> QED  BY <2>3 DEF EntriesInv
<1>7. CASE ServeReads(c)
  <2>1. OthersPut(c) /\ pc'[c] = "reacting"  BY <1>1, <1>7, QueuesEffect DEF ServeReads
  <2> QED
    BY <1>3, <1>7, <2>1, PollEntries DEF ServeReads, Live, InLoop
<1>8. CASE LeaveOnRead(c)
  <2>1. OthersPut(c) /\ pc'[c] = "removing"  BY <1>1, <1>8, QueuesEffect DEF LeaveOnRead
  <2> QED
    BY <1>3, <1>8, <2>1, PollEntries DEF LeaveOnRead, Live
<1>9. CASE PanicOnRead(c)
  <2>1. /\ OthersPut(c) /\ pc'[c] = "ended" /\ Take(c)
        /\ UNCHANGED <<sent, name, registry, server>>
    BY <1>1, <1>9, EndsEffect DEF PanicOnRead
  <2>2. taken'[c] = taken[c] + 1  BY <1>1, <2>1, TakeEffect
  <2>3. Live(c)'
    BY <1>2, <1>9, <2>1, <2>2 DEF PanicOnRead, Live, Request, NextLine
  <2> QED  BY <1>3, <2>1, <2>3, PollEntries DEF Down
<1>10. CASE ReactUnnamed(c)
  <2>1. OthersPut(c) /\ pc'[c] = "serving"  BY <1>1, <1>10, GoesEffect DEF ReactUnnamed
  <2> QED
    BY <1>3, <1>10, <2>1, PollEntries DEF ReactUnnamed, Live, InLoop, GrantedRead
<1> QED  BY <1>5, <1>6, <1>7, <1>8, <1>9, <1>10

LEMMA WriteEntries ==
  ASSUME TypeInv, EntriesInv, NEW c \in Conns, Reacting(c) \/ Sending(c)
  PROVE  EntriesInv'
<1> USE DEF clientVars, socketVars
<1>1. TypeOK /\ "serving" \in PcStates  BY DEF TypeInv, PcStates
<1>2. /\ ~Down /\ pc[c] \in {"reacting", "locking", "writing"}
      /\ UNCHANGED <<sent, taken, name, registry>>
  BY <1>1, ReactShape, SendShape, GrantedEffect
<1>3. ASSUME OthersPut(c), c \in InMap => Live(c)' PROVE EntriesInv'
  <2>1. OthersStay(c)  BY <1>2, <1>3 DEF OthersPut, OthersStay
  <2> QED  BY <1>2, <1>3, <2>1, PollEntries
<1>4. CASE Goes(c, "serving")  BY <1>1, <1>3, <1>4, GoesEffect DEF Live, InLoop
<1>5. CASE Reacting(c)
  <2>1. ASSUME NEW to \in SUBSET InMap, NEW msg \in Outgoing, NEW then \in {"reply", "kick"},
               Writes(c, to, msg, then)
        PROVE  EntriesInv'
    <3>1. to \in SUBSET Conns /\ then \in Continuations
      BY <1>1, InMapConns DEF Continuations
    <3>2. OthersPut(c) /\ pc'[c] = "locking" /\ job'[c].then = then
      BY <1>1, <2>1, <3>1, WritesEffect
    <3> QED  BY <1>3, <3>2 DEF Live, InLoop
  <2> QED  BY <1>4, <1>5, <2>1, ReactShape
<1>6. CASE Sending(c)
  <2>1. /\ pc[c] \in {"locking", "writing"} /\ job[c].msg \in Outgoing
        /\ job[c].todo \in SUBSET Conns
    BY <1>6, SendShape
  <2>2. c \in InMap => InLoop(c)  BY <1>2, <2>1, JoiningUnlisted
  <2>3. CASE Suspends(c)
    <3>1. OthersPut(c) /\ pc'[c] = "writing" /\ UNCHANGED job
      BY <2>3, SuspendsEffect
    <3> QED  BY <1>3, <2>1, <2>2, <3>1 DEF Live, InLoop
  <2>4. CASE job[c].then = "reply" /\ Writes(c, job[c].todo, job[c].msg, "reply")
    <3>1. OthersPut(c) /\ pc'[c] = "locking" /\ job'[c].then = "reply"
      BY <1>1, <2>1, <2>4, WritesEffect DEF Continuations
    <3> QED  BY <1>3, <3>1 DEF Live, InLoop
  <2>5. CASE job[c].then = "welcome" /\ Queues(c, "inserting")
    <3>1. OthersPut(c)  BY <1>1, <2>5, QueuesEffect
    <3> QED  BY <1>3, <2>1, <2>2, <2>5, <3>1 DEF InLoop
  <2>6. CASE Queues(c, "removing")
    <3>1. OthersPut(c) /\ pc'[c] = "removing"  BY <1>1, <2>6, QueuesEffect
    <3> QED  BY <1>3, <3>1 DEF Live
  <2>7. CASE job[c].then \in {"close", "welcome"} /\ Ends(c)
    <3>1. OthersPut(c)  BY <1>1, <2>7, EndsEffect
    <3> QED  BY <1>3, <2>1, <2>2, <2>7, <3>1 DEF InLoop
  <2> QED  BY <1>4, <1>6, <2>3, <2>4, <2>5, <2>6, <2>7, SendShape DEF Continues
<1> QED  BY <1>5, <1>6

\* A connection that has no handler yet has none in the model either.
IdleInv == \A c \in Conns : task[c] \in Unanswered => pc[c] = "idle"

\* A step of a handler is not the first of its connection's, and concerns
\* no other handler.
LEMMA HandlerAtWork ==
  ASSUME TypeInv, NEW c \in Conns, Handler(c) \/ JoinTimeout(c)
  PROVE  ~Down /\ pc[c] \notin {"idle", "ended"}
  BY HandlerCases, ReactShape, SendShape
  DEF JoinReads, JoinOtherMessage, JoinUnreadable, JoinEof, JoinTimeout, Lookup, InsertWriter,
      RemoveWriter, ServeReads, LeaveOnRead, PanicOnRead, ReactUnnamed, GrantedRead,
      GrantedWrite, Joining

LEMMA HandlerAlone ==
  ASSUME TypeInv, NEW c \in Conns, Handler(c) \/ JoinTimeout(c)
  PROVE  OthersPut(c) /\ UNCHANGED server
<1>1. TypeOK /\ "serving" \in PcStates  BY DEF TypeInv, PcStates
<1>2. ASSUME NEW t \in ErrorTexts, Refuses(c, t) PROVE OthersPut(c) /\ UNCHANGED server
  BY <1>1, <1>2, RefusesEffect DEF Refuses, Writes, loopVars
<1>3. ASSUME NEW to \in SUBSET Conns, NEW msg \in Outgoing, NEW then \in Continuations,
             Writes(c, to, msg, then)
      PROVE  OthersPut(c) /\ UNCHANGED server
  <2>1. OthersPut(c)  BY <1>1, <1>3, WritesEffect
  <2> QED  BY <1>3, <2>1 DEF Writes, loopVars
<1>4. ASSUME Goes(c, "serving") PROVE OthersPut(c) /\ UNCHANGED server
  BY <1>1, <1>4, GoesEffect DEF Goes, loopVars
<1>5. ASSUME \/ Queues(c, "lookup") \/ Queues(c, "inserting")
             \/ Queues(c, "reacting") \/ Queues(c, "removing")
      PROVE  OthersPut(c) /\ UNCHANGED server
  BY <1>1, <1>5, QueuesEffect DEF Queues, Goes, loopVars
<1>6. ASSUME Ends(c) PROVE OthersPut(c) /\ UNCHANGED server
  BY <1>1, <1>6, EndsEffect
<1>7. CASE JoinReads(c) \/ JoinUnreadable(c)
  BY <1>5, <1>6, <1>7 DEF JoinReads, JoinUnreadable
<1>8. CASE JoinOtherMessage(c) \/ JoinEof(c) \/ JoinTimeout(c)
  BY <1>2, <1>8 DEF JoinOtherMessage, JoinEof, JoinTimeout, ErrorTexts
<1>9. CASE Lookup(c)
  <2>1. {c} \in SUBSET Conns /\ {"close", "welcome"} \subseteq Continuations
    BY DEF Continuations
  <2> QED  BY <1>3, <1>9, <2>1, OwnMessages DEF Lookup, ErrorTexts
<1>10. CASE InsertWriter(c) \/ ReactUnnamed(c)
  BY <1>4, <1>10 DEF InsertWriter, ReactUnnamed
<1>11. CASE RemoveWriter(c) \/ PanicOnRead(c)  BY <1>6, <1>11 DEF RemoveWriter, PanicOnRead
<1>12. CASE ServeReads(c) \/ LeaveOnRead(c)  BY <1>5, <1>12 DEF ServeReads, LeaveOnRead
<1>13. CASE Reacting(c)
  <2>1. {"reply", "kick"} \subseteq Continuations /\ SUBSET InMap \subseteq SUBSET Conns
    BY <1>1, InMapConns DEF Continuations
  <2> QED  BY <1>3, <1>4, <1>13, <2>1, ReactShape
<1>14. CASE Sending(c)
  <2>1. /\ job[c].msg \in Outgoing /\ job[c].todo \in SUBSET Conns /\ "reply" \in Continuations
    BY <1>14, SendShape DEF Continuations
  <2>2. CASE Suspends(c)  BY <2>1, <2>2, SuspendsEffect DEF Suspends, loopVars
  <2> QED  BY <1>3, <1>4, <1>5, <1>6, <1>14, <2>1, <2>2, SendShape DEF Continues
<1> QED
  BY <1>7, <1>8, <1>9, <1>10, <1>11, <1>12, <1>13, <1>14, HandlerCases

LEMMA IdleStep == TypeInv /\ BacklogConsistent /\ IdleInv /\ [Next]_vars => IdleInv'
<1> SUFFICES ASSUME TypeInv, BacklogConsistent, IdleInv, [Next]_vars PROVE IdleInv'
  OBVIOUS
<1>1. \A d \in Conns : task'[d] \in Unanswered => task[d] \in Unanswered
  BY LoopStep, NeverFreshAgain DEF TypeInv, TypeOK
<1>2. CASE LoopAlone \/ UNCHANGED vars
  BY <1>1, <1>2 DEF LoopAlone, vars, handlerVars, IdleInv
<1>3. ASSUME NEW c \in Conns, Client(c) \/ Reader(c) PROVE IdleInv'
  BY <1>1, <1>3 DEF Client, Reader, handlerVars, IdleInv
<1>4. ASSUME NEW c \in Conns, Server(c) PROVE IdleInv'
  BY <1>1, <1>4
  DEF Server, SpawnHandler, Spawn, TurnAway, CancelHandler, Cancel, handlerVars, IdleInv,
      Unanswered, TypeInv, TypeOK, LoopTypeOK
<1>5. ASSUME NEW c \in Conns, Handler(c) \/ JoinTimeout(c) PROVE IdleInv'
  BY <1>1, <1>5, HandlerAtWork, HandlerAlone DEF IdleInv, OthersPut
<1> QED  BY <1>2, <1>3, <1>4, <1>5 DEF Next

\* What was taken from a client is not changed by what it sends next.
LEMMA ClientRequests ==
  ASSUME TypeOK, NEW c \in Conns, Client(c) \/ Reader(c)
  PROVE  \A d \in Conns : taken[d] > 0 => Request(d)' = Request(d)
<1>1. \A d \in Conns : taken[d] \in Nat
  BY DEF TypeOK, SocketTypeOK
<1>2. CASE UNCHANGED <<sent, taken>>  BY <1>2 DEF Request
<1>3. ASSUME NEW line \in MaySend(c), ClientSends(c, line)
      PROVE  \A d \in Conns : taken[d] > 0 => Request(d)' = Request(d)
  <2>1. UNCHANGED taken  BY <1>3 DEF ClientSends
  <2>2. \A d \in Conns : \A i \in 1..taken[d] : sent'[d][i] = sent[d][i]
    BY <1>3, LineEffect
  <2>3. \A d \in Conns : taken[d] > 0 => taken[d] \in 1..taken[d]  BY <1>1
  <2> QED  BY <2>1, <2>2, <2>3 DEF Request
<1> QED
  BY <1>2, <1>3 DEF Client, Reader, Dial, ClientCloses, ClientVanishes, ClientReads

LEMMA EntriesStep ==
  TypeInv /\ BacklogConsistent /\ IdleInv /\ EntriesInv /\ [Next]_vars => EntriesInv'
<1> SUFFICES ASSUME TypeInv, BacklogConsistent, IdleInv, EntriesInv, [Next]_vars
             PROVE  EntriesInv'
  OBVIOUS
<1>1. TypeOK  BY DEF TypeInv
<1>2. \A d \in Conns : taken[d] \in Nat /\ taken[d] <= Len(sent[d]) /\ Len(sent[d]) \in Nat
  BY <1>1 DEF TypeOK, SocketTypeOK
\* Outside of the handlers, one that is live stays so.
<1>3. ASSUME UNCHANGED <<name, registry, taken>>, Down => Down',
             \A d \in InMap : ~Down' =>
               \/ pc'[d] = pc[d] /\ job'[d] = job[d] /\ (taken[d] > 0 => Request(d)' = Request(d))
      PROVE  EntriesInv'
  <2>1. \A d \in InMap : ~Down' /\ Live(d) => Live(d)'
    BY <1>3 DEF Live, InLoop
  <2> QED  BY <1>3, <2>1 DEF EntriesInv, EntryOK, InMap, Registered
<1>4. CASE LoopAlone
  BY <1>3, <1>4
  DEF LoopAlone, socketVars, handlerVars, Request, AcceptFails, SendSignal, Break, DropFuture,
      Reap, EndWith, Down
<1>5. CASE UNCHANGED vars
  BY <1>3, <1>5 DEF vars, loopVars, socketVars, handlerVars, Request, Down
<1>6. ASSUME NEW c \in Conns, Client(c) \/ Reader(c) PROVE EntriesInv'
  <2>1. \A d \in Conns : taken[d] > 0 => Request(d)' = Request(d)
    BY <1>1, <1>2, <1>6, ClientRequests
  <2>2. UNCHANGED <<name, registry, taken, pc, job>> /\ (Down => Down')
    BY <1>6
    DEF Client, Reader, Dial, Connect, ClientCloses, ClientVanishes, ClientReads, ClientSends,
        handlerVars, loopVars, Down
  <2> QED  BY <1>1, <1>3, <2>1, <2>2, InMapConns
<1>7. ASSUME NEW c \in Conns, Server(c) PROVE EntriesInv'
  <2>1. UNCHANGED <<name, registry, taken, sent>> /\ (Down => Down')
    BY <1>7
    DEF Server, SpawnHandler, TurnAway, CancelHandler, Spawn, Accepting, RejectSent,
        RejectFails, RejectSuspends, Rejecting, EndWith, Cancel, socketVars, handlerVars,
        clientVars, Down
  <2>2. CASE SpawnHandler(c)
    <3>1. task[c] = "queued" /\ ~Down
      BY <2>2 DEF SpawnHandler, Spawn, Accepting, BacklogConsistent, TypeInv, TypeOK,
                  LoopTypeOK, Down
    <3>2. pc[c] = "idle"  BY <3>1 DEF IdleInv, Unanswered
    <3>3. c \notin InMap  BY <3>1, <3>2, JoiningUnlisted DEF InLoop
    <3>4. \A d \in Conns \ {c} : pc'[d] = pc[d] /\ UNCHANGED job
      BY <1>1, <2>2 DEF SpawnHandler, TypeOK
    <3> QED  BY <1>1, <1>3, <2>1, <3>3, <3>4, InMapConns DEF Request
  <2>3. CASE TurnAway(c)
    BY <1>3, <2>1, <2>3 DEF TurnAway, handlerVars, Request
  <2>4. CASE CancelHandler(c)
    <3>1. Down'  BY <2>4 DEF CancelHandler, Cancel, Down
    <3> QED  BY <1>3, <2>1, <3>1
  <2> QED  BY <1>7, <2>2, <2>3, <2>4 DEF Server
<1>8. ASSUME NEW c \in Conns, Handler(c) \/ JoinTimeout(c) PROVE EntriesInv'
  BY <1>8, HandlerCases, JoinEntries, MapEntries, WriteEntries
<1> QED  BY <1>4, <1>5, <1>6, <1>7, <1>8 DEF Next

LEMMA EntriesHold == Spec => [](IdleInv /\ EntriesInv)
<1>1. Init => IdleInv /\ EntriesInv
  BY NoConnAssumption DEF Init, LoopInit, IdleInv, EntriesInv, EntryOK, Registered
<1> QED
  BY <1>1, IdleStep, EntriesStep, TypeInvCorrect, ImplementsLoop, BacklogHolds, PTL DEF Spec

\* However a handler returns, and whoever else had its name, it leaves no
\* entry in the map; only one that panics does.
THEOREM GhostsPanicked == Spec => []OnlyPanicsLeaveEntries
<1>1. EntriesInv => OnlyPanicsLeaveEntries
  BY DEF EntriesInv, EntryOK, Live, OnlyPanicsLeaveEntries
<1> QED  BY <1>1, EntriesHold, PTL

-----------------------------------------------------------------------------
(***************************************************************************)
(* What a client is told, from the first message on.  Until its Join is    *)
(* answered nobody writes to it but its own handler, and only then: it is  *)
(* not in the map, and what other handlers hold is for writers of the map. *)
(***************************************************************************)
Unheard(c) ==
  \/ task[c] \in Unanswered
  \/ pc[c] \in {"joining", "lookup"}
  \/ pc[c] \in {"locking", "writing"} /\ job[c].then \in {"close", "welcome"}

\* The message in hand fits what the handler does next.
Fitting(c) ==
  pc[c] \in {"locking", "writing"} =>
    /\ job[c].then = "close" => job[c].at = c /\ job[c].msg.kind = "Error"
    /\ job[c].then = "welcome" => job[c].at = c /\ job[c].msg = Welcome
    /\ job[c].then \in {"reply", "kick"} => job[c].msg # Welcome

Inside(c) == InLoop(c) \/ pc[c] \in {"inserting", "removing"} \/ c \in InMap

\* Welcome, once, or one Error.
FirstDecides(c) ==
  wire[c] # <<>> =>
    \/ Welcomed(c) /\ \A i \in 2..Len(wire[c]) : wire[c][i] # Welcome
    \/ Head(wire[c]).kind = "Error" /\ Len(wire[c]) = 1

Story(c) ==
  /\ Unheard(c) => wire[c] = <<>>
  /\ Fitting(c)
  /\ Inside(c) => Welcomed(c)
  /\ FirstDecides(c)

StoryInv == \A c \in Conns : Story(c)

LEMMA Appended ==
  ASSUME NEW S, NEW s \in Seq(S), NEW m \in S
  PROVE  /\ Append(s, m) # <<>>
         /\ Len(Append(s, m)) = Len(s) + 1 /\ Len(s) \in Nat
         /\ \A i \in 1..Len(s) : Append(s, m)[i] = s[i]
         /\ Append(s, m)[Len(s) + 1] = m
         /\ s # <<>> => Head(Append(s, m)) = Head(s) /\ Len(s) > 0
         /\ s = <<>> => Head(Append(s, m)) = m /\ Len(Append(s, m)) = 1
  OBVIOUS

\* Nothing is written to d.
LEMMA StoryKept ==
  ASSUME NEW d \in Conns, Story(d), pc'[d] = pc[d], job'[d] = job[d], wire'[d] = wire[d],
         task'[d] \in Unanswered => task[d] \in Unanswered,
         d \in InMap' => d \in InMap
  PROVE  Story(d)'
<1>1. Welcomed(d)' = Welcomed(d)  BY DEF Welcomed
<1>2. Unheard(d)' => Unheard(d)  BY DEF Unheard
<1>3. Inside(d)' => Inside(d)  BY DEF Inside, InLoop
<1>4. Fitting(d)'  BY DEF Story, Fitting
<1>5. FirstDecides(d)'  BY <1>1 DEF Story, FirstDecides
<1> QED  BY <1>1, <1>2, <1>3, <1>4, <1>5 DEF Story

\* Something other than Welcome is written to a welcomed client.
LEMMA StoryGrows ==
  ASSUME TypeOK, NEW d \in Conns, FirstDecides(d), Welcomed(d),
         NEW m \in Outgoing, m # Welcome, wire'[d] = Append(wire[d], m)
  PROVE  Welcomed(d)' /\ FirstDecides(d)'
<1> HIDE DEF Outgoing
<1>1. wire[d] \in Seq(Outgoing)  BY DEF TypeOK, SocketTypeOK
<1>2. /\ wire'[d] # <<>>
      /\ Len(wire'[d]) = Len(wire[d]) + 1 /\ Len(wire[d]) \in Nat
      /\ \A i \in 1..Len(wire[d]) : wire'[d][i] = wire[d][i]
      /\ wire'[d][Len(wire[d]) + 1] = m
      /\ Head(wire'[d]) = Head(wire[d]) /\ wire[d] # <<>>
  BY <1>1, Appended DEF Welcomed
<1>3. \A i \in 2..Len(wire[d]) : wire[d][i] # Welcome
  BY <1>1, <1>2 DEF FirstDecides, Welcomed, Welcome
<1>4. \A i \in 2..Len(wire'[d]) : wire'[d][i] # Welcome
  <2> TAKE i \in 2..Len(wire'[d])
  <2>1. i \in 2..Len(wire[d]) \/ i = Len(wire[d]) + 1  BY <1>2
  <2> QED  BY <1>2, <1>3, <2>1
<1> QED  BY <1>2, <1>4 DEF Welcomed, FirstDecides

\* A step of the handler of c in which nothing is written.
LEMMA QuietStory ==
  ASSUME TypeInv, BacklogConsistent, StoryInv, [LoopNext]_loopVars,
         NEW c \in Conns, OthersPut(c), UNCHANGED wire,
         InMap' \subseteq InMap \cup {c}, task[c] \notin Unanswered,
         pc'[c] \notin {"joining", "lookup"} \/ wire[c] = <<>>,
         pc'[c] \in {"locking", "writing"} /\ job'[c].then \in {"close", "welcome"}
           => wire[c] = <<>>,
         Fitting(c)',
         Inside(c)' => Welcomed(c)
  PROVE  StoryInv'
<1>1. \A d \in Conns : task'[d] \in Unanswered => task[d] \in Unanswered
  BY NeverFreshAgain DEF TypeInv, TypeOK
<1>2. \A d \in Conns \ {c} : Story(d)'
  BY <1>1, StoryKept DEF StoryInv, OthersPut
<1>3. Welcomed(c)' = Welcomed(c) /\ FirstDecides(c)'
  BY DEF Welcomed, StoryInv, Story, FirstDecides
<1>4. Unheard(c)' => wire'[c] = <<>>  BY <1>1 DEF Unheard
<1>5. Story(c)'  BY <1>3, <1>4 DEF Story
<1> QED  BY <1>2, <1>5 DEF StoryInv

LEMMA JoinStory ==
  ASSUME TypeInv, BacklogConsistent, IdleInv, EntriesInv, StoryInv, NEW c \in Conns,
         \/ JoinReads(c) \/ JoinOtherMessage(c) \/ JoinUnreadable(c) \/ JoinEof(c)
         \/ JoinTimeout(c) \/ Lookup(c)
  PROVE  StoryInv'
<1> USE DEF JoinFrame
<1>1. TypeOK  BY DEF TypeInv
<1>2. /\ ~Down /\ pc[c] \in {"joining", "lookup"} /\ UNCHANGED <<wire, registry>>
      /\ [LoopNext]_loopVars
  <2>1. [LoopNext]_loopVars  BY HandlerLoop DEF Handler
  <2> QED
    BY <2>1
    DEF JoinReads, JoinOtherMessage, JoinUnreadable, JoinEof, JoinTimeout, Lookup, Joining,
        GrantedRead
<1>3. /\ c \notin InMap /\ InMap' = InMap
      /\ wire[c] = <<>>
      /\ task[c] \notin Unanswered
  BY <1>2, JoiningUnlisted DEF InLoop, InMap, Registered, StoryInv, Story, Unheard, IdleInv
<1>4. ASSUME NEW t \in ErrorTexts, Refuses(c, t) PROVE StoryInv'
  <2>1. /\ OthersPut(c) /\ pc'[c] = "locking"
        /\ job'[c].msg = Error(t) /\ job'[c].then = "close" /\ job'[c].at = c
    BY <1>1, <1>4, RefusesEffect
  <2>2. Fitting(c)' /\ ~Inside(c)'
    BY <1>3, <2>1 DEF Fitting, Inside, InLoop, Error
  <2> QED  BY <1>2, <1>3, <2>1, <2>2, QuietStory
<1>5. CASE JoinReads(c)
  <2>1. OthersPut(c) /\ pc'[c] = "lookup"  BY <1>1, <1>5, QueuesEffect DEF JoinReads
  <2>2. Fitting(c)' /\ ~Inside(c)'  BY <1>3, <2>1 DEF Fitting, Inside, InLoop
  <2> QED  BY <1>2, <1>3, <2>1, <2>2, QuietStory
<1>6. CASE JoinOtherMessage(c)  BY <1>4, <1>6 DEF JoinOtherMessage, ErrorTexts
<1>7. CASE JoinUnreadable(c)
  <2>1. OthersPut(c) /\ pc'[c] = "ended"  BY <1>1, <1>7, EndsEffect DEF JoinUnreadable
  <2>2. Fitting(c)' /\ ~Inside(c)'  BY <1>3, <2>1 DEF Fitting, Inside, InLoop
  <2> QED  BY <1>2, <1>3, <2>1, <2>2, QuietStory
<1>8. CASE JoinEof(c)  BY <1>4, <1>8 DEF JoinEof, ErrorTexts
<1>9. CASE JoinTimeout(c)  BY <1>4, <1>9 DEF JoinTimeout, ErrorTexts
<1>10. CASE Lookup(c)
  <2>1. ASSUME NEW msg \in Outgoing, NEW then \in {"close", "welcome"},
               Writes(c, {c}, msg, then),
               then = "close" => msg.kind = "Error", then = "welcome" => msg = Welcome
        PROVE  StoryInv'
    <3>1. {c} \in SUBSET Conns /\ then \in Continuations  BY DEF Continuations
    <3>2. /\ OthersPut(c) /\ pc'[c] = "locking"
          /\ job'[c].msg = msg /\ job'[c].then = then /\ job'[c].at = c
      BY <1>1, <2>1, <3>1, WritesEffect
    <3>3. Fitting(c)' /\ ~Inside(c)'
      BY <1>3, <2>1, <3>2 DEF Fitting, Inside, InLoop
    <3> QED  BY <1>2, <1>3, <3>2, <3>3, QuietStory
  <2>2. ASSUME Writes(c, {c}, Error("Username already taken"), "close") PROVE StoryInv'
    <3>1. /\ Error("Username already taken") \in Outgoing
          /\ Error("Username already taken").kind = "Error"
      BY OwnMessages DEF ErrorTexts, Error
    <3> QED  BY <2>1, <2>2, <3>1
  <2> QED  BY <1>10, <2>1, <2>2, OwnMessages DEF Lookup
<1> QED  BY <1>5, <1>6, <1>7, <1>8, <1>9, <1>10

LEMMA MapStory ==
  ASSUME TypeInv, BacklogConsistent, IdleInv, StoryInv, NEW c \in Conns,
         \/ InsertWriter(c) \/ RemoveWriter(c) \/ ServeReads(c) \/ LeaveOnRead(c)
         \/ PanicOnRead(c) \/ ReactUnnamed(c) \/ Reacting(c)
  PROVE  StoryInv'
<1> USE DEF socketVars
<1>1. TypeOK /\ "serving" \in PcStates  BY DEF TypeInv, PcStates
<1>2. /\ pc[c] \in {"inserting", "serving", "reacting", "removing"}
      /\ UNCHANGED wire /\ [LoopNext]_loopVars
  <2>1. [LoopNext]_loopVars  BY HandlerLoop DEF Handler, Reacting
  <2> QED
    BY <2>1, ReactShape
    DEF InsertWriter, RemoveWriter, ServeReads, LeaveOnRead, PanicOnRead, ReactUnnamed,
        GrantedWrite, GrantedRead
<1>3. Welcomed(c) /\ task[c] \notin Unanswered
  BY <1>2 DEF StoryInv, Story, Inside, InLoop, IdleInv
<1>4. InMap' \subseteq InMap \cup {c}
  <2>1. registry \in [Names -> Conns \cup {NoConn}]  BY <1>1 DEF TypeOK
  <2>2. CASE UNCHANGED registry  BY <2>2 DEF InMap, Registered
  <2>3. CASE InsertWriter(c)
    BY <2>1, <2>3 DEF InsertWriter, InMap, Registered
  <2>4. CASE RemoveWriter(c)
    BY <2>1, <2>4 DEF RemoveWriter, InMap, Registered
  <2> QED
    BY <2>2, <2>3, <2>4, ReactShape DEF ServeReads, LeaveOnRead, PanicOnRead, ReactUnnamed
<1>5. ASSUME OthersPut(c), pc'[c] \notin {"locking", "writing", "joining", "lookup"}
      PROVE  StoryInv'
  BY <1>2, <1>3, <1>4, <1>5, QuietStory DEF Fitting
<1>6. CASE InsertWriter(c) \/ ReactUnnamed(c)
  BY <1>1, <1>5, <1>6, GoesEffect DEF InsertWriter, ReactUnnamed
<1>7. CASE RemoveWriter(c) \/ PanicOnRead(c)
  BY <1>1, <1>5, <1>7, EndsEffect DEF RemoveWriter, PanicOnRead
<1>8. CASE ServeReads(c) \/ LeaveOnRead(c)
  BY <1>1, <1>5, <1>8, QueuesEffect DEF ServeReads, LeaveOnRead
<1>9. CASE Reacting(c)
  <2>1. CASE Goes(c, "serving")  BY <1>1, <1>5, <2>1, GoesEffect
  <2>2. ASSUME NEW to \in SUBSET InMap, NEW msg \in Outgoing, NEW then \in {"reply", "kick"},
               Writes(c, to, msg, then), msg # Welcome
        PROVE  StoryInv'
    <3>1. to \in SUBSET Conns /\ then \in Continuations
      BY <1>1, InMapConns DEF Continuations
    <3>2. /\ OthersPut(c) /\ pc'[c] = "locking"
          /\ job'[c].msg = msg /\ job'[c].then = then
      BY <1>1, <2>2, <3>1, WritesEffect
    <3>3. Fitting(c)'  BY <2>2, <3>2 DEF Fitting
    <3> QED  BY <1>2, <1>3, <1>4, <3>2, <3>3, QuietStory
  <2> QED  BY <1>9, <2>1, <2>2, ReactShape
<1> QED  BY <1>6, <1>7, <1>8, <1>9

LEMMA SendStory ==
  ASSUME TypeInv, BacklogConsistent, TargetsStay, IdleInv, EntriesInv, StoryInv,
         NEW c \in Conns, Sending(c)
  PROVE  StoryInv'
<1> DEFINE j == job[c]
<1> USE DEF clientVars
<1>1. TypeOK /\ "serving" \in PcStates  BY DEF TypeInv, PcStates
<1>2. /\ ~Down /\ pc[c] \in {"locking", "writing"}
      /\ UNCHANGED <<name, registry>>
      /\ j.msg \in Outgoing /\ j.then \in Continuations
      /\ j.at \in Conns /\ j.todo \in SUBSET Conns
      /\ [LoopNext]_loopVars
  <2>1. [LoopNext]_loopVars  BY HandlerLoop DEF Handler, Sending
  <2> QED  BY <2>1, SendShape
<1>3. Story(c) /\ InMap' = InMap /\ task[c] \notin Unanswered
  BY <1>2 DEF StoryInv, InMap, Registered, IdleInv
<1>4. \A d \in Conns : task'[d] \in Unanswered => task[d] \in Unanswered
  BY <1>1, <1>2, NeverFreshAgain DEF TypeOK
<1>5. OthersPut(c)  BY HandlerAlone DEF Handler, Sending
<1>6. \A d \in Conns \ {c} : UNCHANGED wire[d] => Story(d)'
  BY <1>3, <1>4, <1>5, StoryKept DEF StoryInv, OthersPut
<1>7. CASE j.then \in {"close", "welcome"}
  <2>1. /\ j.at = c /\ wire[c] = <<>> /\ c \notin InMap
        /\ j.then = "close" => j.msg.kind = "Error"
        /\ j.then = "welcome" => j.msg = Welcome
    BY <1>2, <1>3, <1>7 DEF Story, Unheard, Fitting, Inside, Welcomed
  <2>2. \A d \in Conns \ {c} : UNCHANGED wire[d]
    BY <1>1, <1>2, <2>1, WireEffect, SendShape DEF WriteFails, Suspends
  <2>3. CASE Suspends(c)
    <3>1. pc'[c] = "writing" /\ UNCHANGED <<wire, job>>  BY <2>3, SuspendsEffect
    <3>2. Fitting(c)' /\ ~Inside(c)' /\ FirstDecides(c)' /\ (Unheard(c)' => wire'[c] = <<>>)
      BY <1>2, <1>3, <1>7, <2>1, <3>1 DEF Story, Fitting, Inside, InLoop, FirstDecides
    <3> QED  BY <1>6, <2>2, <3>2 DEF StoryInv, Story
  <2>4. CASE WriteFails(c) /\ Continues(c, FALSE)
    <3>1. pc'[c] = "ended" /\ UNCHANGED wire
      BY <1>1, <1>7, <2>4, EndsEffect DEF Continues, WriteFails
    <3>2. Fitting(c)' /\ ~Inside(c)' /\ FirstDecides(c)' /\ (Unheard(c)' => wire'[c] = <<>>)
      BY <1>3, <2>1, <3>1 DEF Fitting, Inside, InLoop, FirstDecides
    <3> QED  BY <1>6, <2>2, <3>2 DEF StoryInv, Story
  <2>5. CASE WriteLands(c, j.msg) /\ Continues(c, TRUE)
    <3>1. /\ wire'[c] = Append(wire[c], j.msg)
          /\ wire[c] \in Seq(Outgoing)
      BY <1>1, <1>2, <2>5, WireEffect DEF TypeOK, SocketTypeOK
    <3>2. Head(wire'[c]) = j.msg /\ Len(wire'[c]) = 1 /\ wire'[c] # <<>>
      <4> HIDE DEF j, Outgoing
      <4> QED  BY <1>2, <2>1, <3>1, Appended
    <3>3. /\ pc'[c] \in {"inserting", "ended"}
          /\ j.then = "close" => pc'[c] = "ended"
      BY <1>1, <1>7, <2>5, EndsEffect, QueuesEffect DEF Continues
    <3>4. Fitting(c)' /\ ~Unheard(c)'
      BY <1>3, <1>4, <3>3 DEF Fitting, Unheard
    <3>5. j.then = "welcome" => Welcomed(c)'
      BY <2>1, <3>2 DEF Welcomed
    <3>6. Inside(c)' => Welcomed(c)'
      BY <1>3, <1>7, <2>1, <3>3, <3>5 DEF Inside, InLoop
    <3>7. FirstDecides(c)'
      BY <1>7, <2>1, <3>2, <3>5 DEF FirstDecides
    <3> QED  BY <1>6, <2>2, <3>4, <3>6, <3>7 DEF StoryInv, Story
  <2> QED  BY <2>1, <2>3, <2>4, <2>5, SendShape
<1>8. CASE j.then \in {"reply", "kick"}
  <2> PICK at \in Conns : at = j.at  BY <1>2
  <2>1. /\ at \in InMap /\ j.msg # Welcome
        /\ Welcomed(at) /\ Welcomed(c)
        /\ FirstDecides(at)
    BY <1>2, <1>3, <1>8
    DEF TargetsStay, ReadGuard, StoryInv, Story, Fitting, Inside, InLoop
  <2>2. \A d \in Conns \ {at} : UNCHANGED wire[d]
    BY <1>1, <1>2, WireEffect, SendShape DEF WriteFails, Suspends
  <2>3. Welcomed(at)' /\ FirstDecides(at)'
    <3>1. CASE UNCHANGED wire  BY <2>1, <3>1 DEF Welcomed, FirstDecides
    <3>2. CASE WriteLands(at, j.msg)
      <4>1. wire'[at] = Append(wire[at], j.msg)  BY <1>1, <1>2, <3>2, WireEffect
      <4> HIDE DEF j
      <4> QED  BY <1>1, <1>2, <2>1, <4>1, StoryGrows
    <3> QED  BY <3>1, <3>2, SendShape DEF WriteFails, Suspends
  <2>4. Welcomed(c)' /\ FirstDecides(c)'
    BY <1>3, <2>1, <2>2, <2>3 DEF Story, Welcomed, FirstDecides
  <2>5. ASSUME pc'[c] \in {"serving", "removing"} PROVE Fitting(c)' /\ ~Unheard(c)'
    BY <1>3, <1>4, <2>5 DEF Fitting, Unheard
  <2>6. Fitting(c)' /\ ~Unheard(c)'
    <3>1. CASE Suspends(c)
      <4>1. pc'[c] = "writing" /\ UNCHANGED job  BY <3>1, SuspendsEffect
      <4> QED  BY <1>2, <1>3, <1>4, <1>8, <4>1 DEF Story, Fitting, Unheard
    <3>2. CASE j.then = "reply" /\ Writes(c, j.todo, j.msg, "reply")
      <4>1. "reply" \in Continuations  BY DEF Continuations
      <4>2. pc'[c] = "locking" /\ job'[c].msg = j.msg /\ job'[c].then = "reply"
        <5> DEFINE to == j.todo  msg == j.msg
        <5>1. to \in SUBSET Conns /\ msg \in Outgoing /\ Writes(c, to, msg, "reply")
          BY <1>2, <3>2
        <5> HIDE DEF to, msg
        <5>2. pc'[c] = "locking" /\ job'[c].msg = msg /\ job'[c].then = "reply"
          BY <1>1, <4>1, <5>1, WritesEffect
        <5> QED  BY <5>2 DEF to, msg
      <4> QED  BY <1>3, <1>4, <2>1, <4>2 DEF Fitting, Unheard
    <3>3. CASE Goes(c, "serving")  BY <1>1, <2>5, <3>3, GoesEffect
    <3>4. CASE Queues(c, "removing")  BY <1>1, <2>5, <3>4, QueuesEffect
    <3> QED  BY <1>8, <3>1, <3>2, <3>3, <3>4, SendShape DEF Continues
  <2>7. Story(c)'  BY <2>4, <2>6 DEF Story
  <2>8. ASSUME at # c PROVE Story(at)'
    <3>1. pc'[at] = pc[at] /\ job'[at] = job[at]
      BY <1>2, <1>5, <2>8 DEF OthersPut
    <3>2. ~Unheard(at) /\ Fitting(at)
      BY <1>2, <2>1 DEF StoryInv, Story, Welcomed
    <3>3. ~Unheard(at)' /\ Fitting(at)'
      <4> HIDE DEF j
      <4> QED  BY <1>2, <1>4, <3>1, <3>2 DEF Unheard, Fitting
    <3> QED  BY <2>3, <3>3 DEF Story
  <2> QED  BY <1>6, <2>2, <2>7, <2>8 DEF StoryInv
<1> QED  BY <1>2, <1>7, <1>8 DEF Continuations

LEMMA ServerStory ==
  ASSUME TypeInv, BacklogConsistent, IdleInv, StoryInv, NEW c \in Conns, Server(c)
  PROVE  StoryInv'
<1> USE DEF handlerVars, socketVars, clientVars
<1>1. TypeOK /\ LoopTypeOK  BY DEF TypeInv, TypeOK
<1>2. \A d \in Conns : task'[d] \in Unanswered => task[d] \in Unanswered
  BY <1>1, ServerLoop, NeverFreshAgain
<1>3. UNCHANGED registry /\ InMap' = InMap
  <2>1. UNCHANGED registry  BY DEF Server, SpawnHandler, TurnAway, CancelHandler
  <2> QED  BY <2>1 DEF InMap, Registered
<1>4. ASSUME OthersPut(c), \A d \in Conns \ {c} : UNCHANGED wire[d]
      PROVE  \A d \in Conns \ {c} : Story(d)'
  BY <1>2, <1>3, <1>4, StoryKept DEF StoryInv, OthersPut
<1>5. Accepting(c) => task[c] = "queued"
  BY <1>1 DEF Accepting, BacklogConsistent, LoopTypeOK
<1>6. Story(c)  BY DEF StoryInv
<1>7. CASE SpawnHandler(c)
  <2>1. /\ wire[c] = <<>> /\ pc'[c] = "joining" /\ OthersPut(c) /\ UNCHANGED wire
        /\ c \notin InMap
    BY <1>1, <1>5, <1>6, <1>7
    DEF SpawnHandler, Spawn, Story, Unheard, Unanswered, Inside, Welcomed, OthersPut, TypeOK
  <2>2. Story(c)'
    BY <1>3, <2>1 DEF Story, Fitting, Inside, InLoop, FirstDecides
  <2> QED  BY <1>4, <2>1, <2>2 DEF StoryInv
<1>8. CASE TurnAway(c)
  <2>1. /\ task[c] \in Unanswered
        /\ OthersPut(c) /\ UNCHANGED <<pc, job>>
    BY <1>5, <1>8
    DEF TurnAway, RejectSent, RejectFails, RejectSuspends, Rejecting, Unanswered, OthersPut
  <2>2. pc[c] = "idle" /\ wire[c] = <<>> /\ c \notin InMap
    BY <1>6, <2>1 DEF IdleInv, Story, Unheard, Inside, Welcomed
  <2>3. CASE UNCHANGED wire
    BY <1>3, <1>4, <2>1, <2>2, <2>3 DEF StoryInv, Story, Fitting, Inside, InLoop, FirstDecides
  <2>4. CASE RejectSent(c) /\ WriteLands(c, Error("Server is full"))
    <3>1. Error("Server is full") \in Outgoing /\ Error("Server is full").kind = "Error"
      BY OwnMessages DEF ErrorTexts, Error
    <3>2. /\ wire'[c] = Append(wire[c], Error("Server is full"))
          /\ wire[c] \in Seq(Outgoing)
          /\ \A d \in Conns \ {c} : UNCHANGED wire[d]
      BY <1>1, <2>4, <3>1, WireEffect DEF TypeOK, SocketTypeOK
    <3>3. Head(wire'[c]).kind = "Error" /\ Len(wire'[c]) = 1
      <4> DEFINE full == Error("Server is full")
      <4>1. full \in Outgoing /\ full.kind = "Error" /\ wire'[c] = Append(wire[c], full)
        BY <3>1, <3>2
      <4> HIDE DEF full, Outgoing
      <4>2. <<>> \in Seq(Outgoing)  OBVIOUS
      <4>3. Head(Append(<<>>, full)) = full /\ Len(Append(<<>>, full)) = 1
        BY <4>1, <4>2, Appended
      <4> QED  BY <2>2, <4>1, <4>3
    <3>4. task'[c] = "refused"
      BY <1>1, <2>4 DEF RejectSent, LoopTypeOK
    <3>5. Story(c)'
      BY <1>3, <2>1, <2>2, <3>3, <3>4
      DEF Story, Unheard, Unanswered, Fitting, Inside, InLoop, FirstDecides
    <3> QED  BY <1>4, <2>1, <3>2, <3>5 DEF StoryInv
  <2> QED  BY <1>8, <2>3, <2>4 DEF TurnAway, WriteFails
<1>9. CASE CancelHandler(c)
  <2>1. /\ pc'[c] = "ended" /\ OthersPut(c) /\ UNCHANGED wire
        /\ task'[c] = "cancelled"
    BY <1>1, <1>9 DEF CancelHandler, Cancel, OthersPut, TypeOK, LoopTypeOK
  <2>2. Story(c)'
    BY <1>3, <1>6, <2>1
    DEF Story, Unheard, Unanswered, Fitting, Inside, InLoop, FirstDecides, Welcomed
  <2> QED  BY <1>4, <2>1, <2>2 DEF StoryInv
<1> QED  BY <1>7, <1>8, <1>9 DEF Server

LEMMA StoryStep ==
  /\ TypeInv /\ BacklogConsistent /\ TargetsStay /\ IdleInv /\ EntriesInv /\ StoryInv
  /\ [Next]_vars
  => StoryInv'
<1> SUFFICES ASSUME TypeInv, BacklogConsistent, TargetsStay, IdleInv, EntriesInv, StoryInv,
                    [Next]_vars
             PROVE  StoryInv'
  OBVIOUS
<1>1. ASSUME UNCHANGED <<pc, job, wire, registry>> PROVE StoryInv'
  <2>1. \A d \in Conns : task'[d] \in Unanswered => task[d] \in Unanswered
    BY LoopStep, NeverFreshAgain DEF TypeInv, TypeOK
  <2>2. InMap' = InMap  BY <1>1 DEF InMap, Registered
  <2> QED  BY <1>1, <2>1, <2>2, StoryKept DEF StoryInv
<1>2. CASE LoopAlone \/ UNCHANGED vars
  BY <1>1, <1>2 DEF LoopAlone, vars, handlerVars, socketVars
<1>3. ASSUME NEW c \in Conns, Client(c) \/ Reader(c) PROVE StoryInv'
  BY <1>1, <1>3
  DEF Client, Reader, Dial, ClientSends, ClientCloses, ClientVanishes, ClientReads, handlerVars
<1>4. ASSUME NEW c \in Conns, Handler(c) \/ JoinTimeout(c) PROVE StoryInv'
  BY <1>4, HandlerCases, JoinStory, MapStory, SendStory
<1> QED  BY <1>2, <1>3, <1>4, ServerStory DEF Next

LEMMA StoryHolds == Spec => []StoryInv
<1>1. Init => StoryInv
  BY NoConnAssumption
  DEF Init, SocketInit, StoryInv, Story, Fitting, Inside, InLoop, InMap, Registered,
      FirstDecides
<1> QED
  BY <1>1, StoryStep, TypeInvCorrect, ImplementsLoop, BacklogHolds, TargetsKept, EntriesHold, PTL
  DEF Spec

\* The first message decides, for each client: Welcome, once, or one Error
\* that is the last word, to a client that is not in the map.
THEOREM Admitted == Spec => []Admission
<1>1. StoryInv => Admission
  BY DEF StoryInv, Story, FirstDecides, Inside, Admission, Welcomed, Welcome
<1> QED  BY <1>1, StoryHolds, PTL
=============================================================================

--------------------------- MODULE MultiThreaded ----------------------------
(***************************************************************************)
(* The multi-threaded server, tokio-talk-mt/src/server.rs: run_server      *)
(* (AcceptLoop), the sockets (Transport) and, here, handle_client.  The    *)
(* handlers run in parallel, so an action is what a handler does between   *)
(* two points at which another thread can matter: an await, or the taking  *)
(* or giving back of a lock.  The map is behind a tokio RwLock, which      *)
(* grants in the order of the requests: a waiting writer holds up readers  *)
(* that come after it.  Each writer (a socket's write half) is behind a    *)
(* Mutex.                                                                  *)
(***************************************************************************)
EXTENDS Transport, Selection

CONSTANT NoConn    \* not a connection

ASSUME NoConnAssumption == NoConn \notin Conns

VARIABLES pc,        \* where the handler of each connection is
          name,      \* the username its Join asked for
          job,       \* the message it is writing, and to whom
          queue,     \* handlers waiting for the RwLock, first come first
          registry   \* ClientMap: the connection whose writer a name maps to

handlerVars == <<pc, name, job, queue, registry>>
vars == <<loopVars, socketVars, handlerVars>>

(***************************************************************************)
(* "lookup", "inserting", "reacting" and "removing" wait for the map's     *)
(* lock (to write in the second and the last); "locking" waits for the     *)
(* mutex of the writer job.at, "writing" holds it, suspended in send.      *)
(***************************************************************************)
PcStates == {"idle", "joining", "lookup", "inserting", "serving", "reacting",
             "locking", "writing", "removing", "ended"}

\* What follows the send: Err from join_client; registration; the next
\* message, or the end if the send failed; the end in any case.
Continuations == {"close", "welcome", "reply", "kick"}

NoJob == [then |-> "none"]
Job == [msg : Outgoing, then : Continuations, at : Conns, todo : SUBSET Conns]

Registered == {n \in Names : registry[n] # NoConn}

\* The writers in the map: a handler reaches only these, its own included.
InMap == {registry[n] : n \in Registered}

\* The handler has inserted its writer and not begun to leave.
InLoop(c) ==
  \/ pc[c] \in {"serving", "reacting"}
  \/ pc[c] \in {"locking", "writing"} /\ job[c].then \in {"reply", "kick"}

\* Mutant: the guard lives until the handler has its write lock.
ReadGuardKept(c) ==
  \/ pc[c] \in {"locking", "writing"} /\ job[c].then \in {"reply", "kick"}
  \/ pc[c] = "removing"

\* react_client_msg holds the read guard from its lookup to its return.
ReadGuard(c) == pc[c] \in {"locking", "writing"} /\ job[c].then \in {"reply", "kick"}

\* Nobody is inside send on the writer of d.
MutexFree(d) == \A c \in Conns : ~(pc[c] = "writing" /\ job[c].at = d)

TypeOK ==
  /\ LoopTypeOK
  /\ SocketTypeOK
  /\ pc \in [Conns -> PcStates]
  /\ name \in [Conns -> Names \cup {NoName}]
  /\ job \in [Conns -> Job \cup {NoJob}]
  /\ queue \in Seq(Conns)
  /\ registry \in [Names -> Conns \cup {NoConn}]

Init ==
  /\ LoopInit
  /\ SocketInit
  /\ pc = [c \in Conns |-> "idle"]
  /\ name = [c \in Conns |-> NoName]
  /\ job = [c \in Conns |-> NoJob]
  /\ queue = <<>>
  /\ registry = [n \in Names |-> NoConn]

-----------------------------------------------------------------------------
(***************************************************************************)
(* Building blocks: where a handler goes next.                             *)
(***************************************************************************)
Goes(c, where) ==
  /\ pc' = [pc EXCEPT ![c] = where]
  /\ job' = [job EXCEPT ![c] = NoJob]
  /\ UNCHANGED loopVars

\* clients.read().await or clients.write().await: get in line.
Queues(c, where) ==
  /\ Goes(c, where)
  /\ queue' = Append(queue, c)

\* The read lock is granted: the front of the line, whoever else reads.
GrantedRead(c, where) ==
  /\ ~Down
  /\ pc[c] = where
  /\ queue # <<>>
  /\ Head(queue) = c
  /\ queue' = Tail(queue)

\* Mutant: the map is not behind a lock.
GrantedWriteAtOnce(c, where) == GrantedRead(c, where)

\* The write lock is granted: no handler holds a read guard any more.
GrantedWrite(c, where) ==
  /\ GrantedRead(c, where)
  /\ \A d \in Conns : ~ReadGuard(d)

\* Mutant: the recipient being written to is not taken off the list.
WritesAgain(c, to, msg, then) ==
  /\ \E d \in to :
       job' = [job EXCEPT ![c] = [msg |-> msg, then |-> then, at |-> d, todo |-> to]]
  /\ pc' = [pc EXCEPT ![c] = "locking"]
  /\ UNCHANGED loopVars

\* writer.lock().await for each of to in turn, in no particular order, to
\* send it msg.
Writes(c, to, msg, then) ==
  /\ \E d \in to :
       job' = [job EXCEPT ![c] = [msg |-> msg, then |-> then, at |-> d, todo |-> to \ {d}]]
  /\ pc' = [pc EXCEPT ![c] = "locking"]
  /\ UNCHANGED loopVars

\* handle_client returns or unwinds: the reader drops, and so does the writer
\* if it is still the handler's own (WriterAlive).
Ends(c) ==
  /\ pc' = [pc EXCEPT ![c] = "ended"]
  /\ job' = [job EXCEPT ![c] = NoJob]
  /\ Finish(c)

\* The send of job[c] is over, well (ok) or not; the mutex is given back,
\* and the read guard with the last send.
Continues(c, ok) ==
  LET j == job[c] IN
  \/ /\ j.then = "welcome" /\ ok
     /\ Queues(c, "inserting")
  \/ /\ j.then = "reply" /\ ok /\ j.todo # {}
     /\ Writes(c, j.todo, j.msg, "reply")
     /\ UNCHANGED queue
  \/ /\ j.then = "reply" /\ ok /\ j.todo = {}
     /\ Goes(c, "serving")
     /\ UNCHANGED queue
  \/ /\ j.then = "kick" \/ (j.then = "reply" /\ ~ok)
     /\ Queues(c, "removing")
  \/ /\ j.then = "close" \/ (j.then = "welcome" /\ ~ok)
     /\ Ends(c)
     /\ UNCHANGED queue

\* Mutant: let _ = writer.send(..), whatever became of it.
SendEndsRegardless(c) ==
  /\ WriteLands(job[c].at, job[c].msg) \/ WriteFails(job[c].at)
  /\ Continues(c, TRUE)

SendEnds(c) ==
  \/ WriteLands(job[c].at, job[c].msg) /\ Continues(c, TRUE)
  \/ WriteFails(job[c].at) /\ Continues(c, FALSE)

\* Mutant: a full socket counts as a broken one.
LockWriterOrFail(c) ==
  /\ ~Down
  /\ pc[c] = "locking"
  /\ MutexFree(job[c].at)
  /\ \/ SendEnds(c)
     \/ ~HasRoom(job[c].at) /\ Continues(c, FALSE) /\ UNCHANGED wire
  /\ UNCHANGED <<clientVars, taken, name, registry>>

(***************************************************************************)
(* The mutex is taken and the send completes, or is suspended with the     *)
(* mutex held: by a full socket, or because the poll, which may have gone  *)
(* through many lines, has used up its budget.  A poll of join_client has  *)
(* not (see SingleThreaded).                                               *)
(***************************************************************************)
LockWriter(c) ==
  /\ ~Down
  /\ pc[c] = "locking"
  /\ MutexFree(job[c].at)
  /\ \/ SendEnds(c)
     \/ /\ \/ WriteMayYield /\ job[c].then \in {"reply", "kick"}
           \/ ~HasRoom(job[c].at) /\ peer[job[c].at] # "gone"
        /\ pc' = [pc EXCEPT ![c] = "writing"]
        /\ UNCHANGED <<loopVars, wire, job, queue>>
  /\ UNCHANGED <<clientVars, taken, name, registry>>

ResumeWrite(c) ==
  /\ ~Down
  /\ pc[c] = "writing"
  /\ SendEnds(c)
  /\ UNCHANGED <<clientVars, taken, name, registry>>

-----------------------------------------------------------------------------
(***************************************************************************)
(* join_client: the writer is still the handler's own.                     *)
(***************************************************************************)
Joining(c) == ~Down /\ pc[c] = "joining"

Refuses(c, text) ==
  /\ Writes(c, {c}, Error(text), "close")
  /\ UNCHANGED queue

JoinFrame == UNCHANGED <<clientVars, wire, registry>>

JoinReads(c) ==
  /\ Joining(c)
  /\ Take(c)
  /\ NextLine(c).kind = "Join"
  /\ name' = [name EXCEPT ![c] = NextLine(c).name]
  /\ Queues(c, "lookup")
  /\ JoinFrame

JoinOtherMessage(c) ==
  /\ Joining(c)
  /\ Take(c)
  /\ NextLine(c).kind \notin {"Join"} \cup Unreadable
  /\ Refuses(c, "Unexpected message received")
  /\ UNCHANGED name
  /\ JoinFrame

\* A line that does not parse, or one that trips the assertion in recv, or
\* a reset: the handler ends without a word.
JoinUnreadable(c) ==
  /\ Joining(c)
  /\ \/ Take(c) /\ NextLine(c).kind \in Unreadable
     \/ AtReset(c) /\ UNCHANGED taken
  /\ Ends(c)
  /\ UNCHANGED <<queue, name>>
  /\ JoinFrame

JoinEof(c) ==
  /\ Joining(c)
  /\ AtEof(c)
  /\ Refuses(c, "Connection closed")
  /\ UNCHANGED <<taken, name>>
  /\ JoinFrame

\* Mutant: no Err is returned after the write.
JoinTimeoutGoesOn(c) ==
  /\ Joining(c)
  /\ \E n \in Names : name' = [name EXCEPT ![c] = n]
  /\ Writes(c, {c}, Error("Timed out waiting for Join"), "welcome")
  /\ UNCHANGED <<queue, taken>>
  /\ JoinFrame

JoinTimeout(c) ==
  /\ Joining(c)
  /\ Refuses(c, "Timed out waiting for Join")
  /\ UNCHANGED <<taken, name>>
  /\ JoinFrame

\* if clients.read().await.contains_key(&name): the guard is gone before
\* either branch is entered.
Lookup(c) ==
  /\ GrantedRead(c, "lookup")
  /\ \/ /\ name[c] \in Registered
        /\ Writes(c, {c}, Error("Username already taken"), "close")
     \/ /\ name[c] \notin Registered
        /\ Writes(c, {c}, Welcome, "welcome")
  /\ UNCHANGED <<taken, name>>
  /\ JoinFrame

\* clients.write().await.insert(name, writer): a writer that was under the
\* name is dropped, and the stream of its client over (StreamOver).
InsertWriter(c) ==
  /\ GrantedWrite(c, "inserting")
  /\ registry' = [registry EXCEPT ![name[c]] = c]
  /\ Goes(c, "serving")
  /\ UNCHANGED <<socketVars, name>>

-----------------------------------------------------------------------------
(***************************************************************************)
(* The loop of handle_client.                                              *)
(***************************************************************************)
ServeReads(c) ==
  /\ ~Down
  /\ pc[c] = "serving"
  /\ Take(c)
  /\ NextLine(c).kind \notin Unreadable
  /\ Queues(c, "reacting")
  /\ UNCHANGED <<clientVars, wire, name, registry>>

\* Mutant: return where the loop ends.
LeaveOnReadReturns(c) ==
  /\ ~Down
  /\ pc[c] = "serving"
  /\ \/ Take(c) /\ NextLine(c).kind = "Garbage"
     \/ AtEof(c) /\ UNCHANGED taken
  /\ Ends(c)
  /\ UNCHANGED <<clientVars, wire, name, registry, queue>>

\* End of stream, a reset, or a line that does not parse.
LeaveOnRead(c) ==
  /\ ~Down
  /\ pc[c] = "serving"
  /\ \/ Take(c) /\ NextLine(c).kind = "Garbage"
     \/ AtEof(c) /\ UNCHANGED taken
  /\ Queues(c, "removing")
  /\ UNCHANGED <<clientVars, wire, name, registry>>

\* The assertion in MessageReader::recv unwinds through handle_client; the
\* writer stays in the map.
PanicOnRead(c) ==
  /\ ~Down
  /\ pc[c] = "serving"
  /\ Take(c)
  /\ NextLine(c).kind = "Oversized"
  /\ Ends(c)
  /\ UNCHANGED <<clientVars, wire, name, registry, queue>>

\* Mutant: the entry stays.
RemoveForgets(c) ==
  /\ GrantedWrite(c, "removing")
  /\ Ends(c)
  /\ UNCHANGED <<socketVars, name, registry>>

\* clients.write().await.remove(&name): whoever's writer is under the name is
\* dropped, and the stream of its client over (StreamOver).
RemoveWriter(c) ==
  /\ GrantedWrite(c, "removing")
  /\ registry' = [registry EXCEPT ![name[c]] = NoConn]
  /\ Ends(c)
  /\ UNCHANGED <<socketVars, name>>

-----------------------------------------------------------------------------
(***************************************************************************)
(* react_client_msg, from the read guard to the first writer.              *)
(***************************************************************************)
Request(c) == sent[c][taken[c]]
Chat(c) == Message(name[c], <<c, taken[c]>>)

\* The read lock is granted and the handler finds its name in the map.
Reacts(c, kinds) ==
  /\ GrantedRead(c, "reacting")
  /\ Request(c).kind \in kinds
  /\ name[c] \in Registered
  /\ UNCHANGED <<socketVars, name, registry>>

\* sender: the writer its name maps to.
Replies(c, msg, then) == Writes(c, {registry[name[c]]}, msg, then)

\* The name is not in the map: Ok(()), and no answer.
ReactUnnamed(c) ==
  /\ GrantedRead(c, "reacting")
  /\ name[c] \notin Registered
  /\ Goes(c, "serving")
  /\ UNCHANGED <<socketVars, name, registry>>

\* Mutant: the reply is dropped if the writer is in use.
ReactPingTries(c) ==
  /\ Reacts(c, {"Ping"})
  /\ \/ MutexFree(registry[name[c]]) /\ Replies(c, Pong, "reply")
     \/ ~MutexFree(registry[name[c]]) /\ Goes(c, "serving")

ReactPing(c) ==
  /\ Reacts(c, {"Ping"})
  /\ Replies(c, Pong, "reply")

ReactListUsers(c) ==
  /\ Reacts(c, {"ListUsers"})
  /\ Replies(c, UserList(Registered), "reply")

ReactJoin(c) ==
  /\ Reacts(c, {"Join"})
  /\ Replies(c, Error("Unexpected message received"), "kick")

\* The writers of a broadcast by c: everyone under another name.
Audience(c) == {registry[n] : n \in Registered \ {name[c]}}

ReactBroadcast(c) ==
  /\ Reacts(c, {"Broadcast"})
  /\ \/ Audience(c) # {} /\ Writes(c, Audience(c), Chat(c), "reply")
     \/ Audience(c) = {} /\ Goes(c, "serving")

ReactDirect(c) ==
  /\ Reacts(c, {"SendDM"})
  /\ LET to == Request(c).name IN
     \/ /\ to = name[c]
        /\ Replies(c, Error("Cannot send a DM to yourself"), "reply")
     \/ /\ to \notin Registered
        /\ Replies(c, Error("User does not exist"), "reply")
     \/ /\ to \in Registered \ {name[c]}
        /\ Writes(c, {registry[to]}, Chat(c), "reply")

-----------------------------------------------------------------------------
(***************************************************************************)
(* run_server, with the socket and the handler of the connection.          *)
(***************************************************************************)
SpawnHandler(c) ==
  /\ Spawn(c)
  /\ pc' = [pc EXCEPT ![c] = "joining"]
  /\ UNCHANGED <<socketVars, name, job, queue, registry>>

TurnAway(c) ==
  /\ \/ RejectSent(c) /\ WriteLands(c, Error("Server is full"))
     \/ RejectFails(c) /\ WriteFails(c)
     \/ RejectSuspends(c) /\ UNCHANGED wire
  /\ UNCHANGED <<clientVars, taken, handlerVars>>

\* The runtime drops the future of an aborted task, and with it what the
\* handler holds or waits for.  No handler is followed past this point.
CancelHandler(c) ==
  /\ Cancel(c)
  /\ pc' = [pc EXCEPT ![c] = "ended"]
  /\ job' = [job EXCEPT ![c] = NoJob]
  /\ UNCHANGED <<socketVars, name, queue, registry>>

LoopAlone ==
  /\ \/ AcceptFails \/ SendSignal \/ Break \/ DropFuture
     \/ \E c \in Conns : Reap(c)
  /\ UNCHANGED <<socketVars, handlerVars>>

(***************************************************************************)
(* Who keeps a writer alive: the handler until it inserts it, then the map *)
(* while it has it under some name, as long as anybody has the map.        *)
(***************************************************************************)
MapAlive == ~Down \/ \E c \in Conns : task[c] = "running"

WriterAlive(c) ==
  \/ pc[c] \in {"joining", "lookup", "inserting"}
  \/ pc[c] \in {"locking", "writing"} /\ job[c].then \in {"close", "welcome"}
  \/ c \in InMap /\ MapAlive

\* A dropped writer shuts its side of the socket down: the client of c gets
\* nothing more, though its handler may go on reading.
StreamOver(c) == task[c] \notin {"absent", "queued", "rejecting"} /\ ~WriterAlive(c)

\* The socket of c is closed on the server's side: the reader is dropped too.
Closed(c) == task[c] \in {"finished", "reaped", "refused", "cancelled"} /\ ~WriterAlive(c)

Client(c) ==
  \/ Dial(c) /\ UNCHANGED handlerVars
  \/ /\ ~Down /\ ~Closed(c)
     /\ (\E line \in MaySend(c) : ClientSends(c, line)) \/ ClientCloses(c) \/ ClientVanishes(c)
     /\ UNCHANGED <<loopVars, handlerVars>>

Reader(c) == ~Down /\ ClientReads(c) /\ UNCHANGED <<loopVars, handlerVars>>

Handler(c) ==
  \/ JoinReads(c) \/ JoinOtherMessage(c) \/ JoinUnreadable(c) \/ JoinEof(c)
  \/ Lookup(c) \/ InsertWriter(c)
  \/ ServeReads(c) \/ LeaveOnRead(c) \/ PanicOnRead(c) \/ RemoveWriter(c)
  \/ ReactUnnamed(c) \/ ReactPing(c) \/ ReactListUsers(c) \/ ReactJoin(c)
  \/ ReactBroadcast(c) \/ ReactDirect(c)
  \/ LockWriter(c) \/ ResumeWrite(c)

Server(c) == SpawnHandler(c) \/ TurnAway(c) \/ CancelHandler(c)

Next ==
  \/ LoopAlone
  \/ \E c \in Conns :
       Client(c) \/ Reader(c) \/ Server(c) \/ Handler(c) \/ JoinTimeout(c)

Spec == Init /\ [][Next]_vars

-----------------------------------------------------------------------------
(***************************************************************************)
(* Locks.                                                                  *)
(***************************************************************************)

\* A handler writes to writers of the map, or to its own before it is in
\* the map; none of them is taken out of the map, and so dropped, meanwhile.
TargetsStay ==
  \A c \in Conns : ReadGuard(c) => {job[c].at} \cup job[c].todo \subseteq InMap

\* "Removes client from active clients when connection ends": an entry leads to
\* a handler in its loop, or on its way to remove it.
NoGhosts ==
  ~Down => \A n \in Registered : InLoop(registry[n]) \/ pc[registry[n]] = "removing"

\* It does, but for handlers that panicked: however a handler returns, and
\* whoever else had its name, it leaves no entry.
OnlyPanicsLeaveEntries ==
  ~Down => \A n \in Registered :
             LET c == registry[n] IN
               \/ InLoop(c) \/ pc[c] = "removing"
               \/ pc[c] = "ended" /\ taken[c] > 0 /\ Request(c).kind = "Oversized"

-----------------------------------------------------------------------------
(***************************************************************************)
(* Clients.                                                                *)
(***************************************************************************)
Welcomed(c) == wire[c] # <<>> /\ Head(wire[c]) = Welcome

\* The first message decides, as in the single-threaded server: Welcome,
\* once, or an Error that is the last word.
Admission ==
  \A c \in Conns : wire[c] # <<>> =>
    \/ /\ Welcomed(c)
       /\ \A i \in 2..Len(wire[c]) : wire[c][i] # Welcome
    \/ /\ Head(wire[c]).kind = "Error"
       /\ Len(wire[c]) = 1
       /\ c \notin InMap

\* Messages of one sender reach a client in the order they were sent, and at
\* most once, though several handlers write to its socket.
PairwiseFifo ==
  \A c \in Conns : \A i, j \in DOMAIN wire[c] :
    LET a == wire[c][i]
        b == wire[c][j]
    IN  i < j /\ a.kind = "Message" /\ b.kind = "Message" /\ a.message[1] = b.message[1]
          => a.message[2] < b.message[2]

\* A handler back at its reader has answered each Ping and ListUsers, in
\* order, on its own connection: only a second client welcomed under its
\* name can change that.
RepliesInOrder ==
  LET ReplyTo(kind) == IF kind = "Ping" THEN "Pong" ELSE "UserList"
      Alone(c) == \A d \in Conns \ {c} : ~(Welcomed(d) /\ name[d] = name[c])
  IN  \A c \in Conns : pc[c] = "serving" /\ Alone(c) =>
        LET asked == OfKind(SubSeq(sent[c], 2, taken[c]), {"Ping", "ListUsers"})
            given == OfKind(wire[c], {"Pong", "UserList"})
        IN  /\ Len(asked) = Len(given)
            /\ \A i \in DOMAIN asked : given[i].kind = ReplyTo(asked[i].kind)

\* c is served: its handler is in the loop and the map has its writer.
Served(c) == InLoop(c) /\ c \in InMap

(***************************************************************************)
(* A client that is being served goes on being served until its stream has *)
(* ended, its last line was not one to serve, or the write its handler is  *)
(* in is to a client that is gone; or until another client welcomed under  *)
(* its name takes its place in the map, or removes it.                     *)
(***************************************************************************)
DroppedForCause ==
  [][\A c \in Conns : Served(c) /\ ~Served(c)' /\ ~Down =>
       \/ AtEof(c)
       \/ taken'[c] > 1 /\ sent[c][taken'[c]].kind \in {"Join"} \cup Unreadable
       \/ pc[c] \in {"locking", "writing"} /\ peer[job[c].at] = "gone"
       \/ \E d \in Conns \ {c} : Welcomed(d) /\ name[d] = name[c]]_vars

\* messages.rs: "When some other client with the same name already exists,
\* the server should respond with an error "Username already taken" and
\* disconnect the new client."
UniqueNames ==
  \A c, d \in Conns : InLoop(c) /\ InLoop(d) /\ name[c] = name[d] => c = d

-----------------------------------------------------------------------------
(***************************************************************************)
(* Progress.  Every step of a handler uses up a line or brings it closer   *)
(* to its next line, so a handler that cannot be stuck gets there.         *)
(***************************************************************************)

\* What the handler of c waits for is there: the map's lock, which goes to the
\* first in line, and for writing when nobody reads; the mutex; room in the
\* socket.  Or its client has something to read.
MayGoOn(c) ==
  \/ /\ task[c] = "running"
     /\ \/ /\ pc[c] \in {"lookup", "inserting", "reacting", "removing"}
           /\ queue # <<>> /\ Head(queue) = c
           /\ pc[c] = "reacting" => Request(c).kind \notin Unreadable
           /\ pc[c] \in {"inserting", "removing"} => \A d \in Conns : ~ReadGuard(d)
        \/ pc[c] = "locking" /\ MutexFree(job[c].at)
        \/ pc[c] = "writing" /\ (HasRoom(job[c].at) \/ peer[job[c].at] = "gone")
  \/ peer[c] \in {"open", "half"} /\ ~HasRoom(c)

Waiting == \E c \in Conns : pc[c] \notin {"idle", "joining", "serving", "ended"}

\* Locks and sockets never leave handlers waiting for each other: as long as
\* clients read, each comes back to its client's next line, or to its end.
\* (A client that does not read is another matter: its full socket holds
\* the read lock, and the first handler to ask for the write lock stalls
\* all others.)
NobodyWaitsForNothing == ~Down /\ Waiting => \E c \in Conns : MayGoOn(c)

\* The same of steps: somebody who may go on has a step, or its client has.
NobodyStuck ==
  ~Down /\ Waiting =>
    \E c \in Conns : MayGoOn(c) /\ (ENABLED Reader(c) \/ ENABLED Handler(c))

-----------------------------------------------------------------------------
(***************************************************************************)
(* The abstract forum.  A handler is in it from the insertion of its       *)
(* writer until it asks for the lock to remove it, or panics; what it has  *)
(* found the writers for and not written yet is due.                       *)
(***************************************************************************)
StageOf(c) ==
  IF InLoop(c) THEN "in"
  ELSE IF pc[c] = "removing" THEN "leaving"
  ELSE IF pc[c] = "ended" THEN "out"
  ELSE IF pc[c] = "inserting" THEN "welcome" ELSE "new"

Letters(to, msg) == {[to |-> d, msg |-> msg] : d \in to}

DueOf(c) ==
  IF ReadGuard(c) /\ job[c].msg.kind = "Message"
  THEN Letters({job[c].at} \cup job[c].todo, job[c].msg) ELSE {}

Stage == [c \in Conns |-> StageOf(c)]
Due == [c \in Conns |-> DueOf(c)]

Forum == INSTANCE Forum WITH stage <- Stage, alias <- name, entry <- registry, inbox <- wire,
                             due <- Due, Texts <- Text, Reasons <- ErrorTexts

\* Though handlers write to one another's sockets, and a broadcast may be
\* suspended at any of its recipients, what clients are told is what a forum
\* tells: a message goes to everybody under another name at one moment, each
\* once, or is its sender's last; a list of users is true when it is written.
ImplementsForum == Forum!Spec
=============================================================================

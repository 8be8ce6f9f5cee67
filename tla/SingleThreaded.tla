--------------------------- MODULE SingleThreaded ---------------------------
(***************************************************************************)
(* The single-threaded server, tokio-talk-st/src/server.rs: run_server     *)
(* (AcceptLoop), the sockets (Transport) and, here, handle_client.  All    *)
(* tasks share one thread, so an action is what one poll of a handler does *)
(* between two points where it can return Pending: waiting in a select!,   *)
(* or suspended inside writer.send(..).await.  The RefCell borrows of the  *)
(* client map therefore never span two actions.                            *)
(***************************************************************************)
EXTENDS Transport

CONSTANT NoConn    \* not a connection

ASSUME NoConnAssumption == NoConn \notin Conns

VARIABLES pc,        \* where the handler of each connection is
          name,      \* the username its Join asked for
          pending,   \* the writer.send it is suspended in
          chan,      \* its unbounded channel: messages other handlers sent it
          registry   \* ClientMap: the connection whose channel a name maps to

handlerVars == <<pc, name, pending, chan, registry>>
vars == <<loopVars, socketVars, handlerVars>>

PcStates == {"idle", "joining", "serving", "writing", "ended"}

(***************************************************************************)
(* What follows the writer.send a handler is in: "close" returns Err from  *)
(* join_client; "welcome" registers the client; "reply" goes back to the   *)
(* select! loop, or leaves it if the send failed; "kick" leaves it in any  *)
(* case; "forward" is the send of a message from the channel.              *)
(***************************************************************************)
Continuations == {"close", "welcome", "reply", "kick", "forward"}

NoWrite == [then |-> "none"]
Write == [msg : Outgoing, then : Continuations]

Registered == {n \in Names : registry[n] # NoConn}

\* The handler is past its registration: its receiver is alive.
InLoop(c) ==
  \/ pc[c] = "serving"
  \/ pc[c] = "writing" /\ pending[c].then \in {"reply", "kick", "forward"}

TypeOK ==
  /\ LoopTypeOK
  /\ SocketTypeOK
  /\ pc \in [Conns -> PcStates]
  /\ name \in [Conns -> Names \cup {NoName}]
  /\ pending \in [Conns -> Write \cup {NoWrite}]
  /\ chan \in [Conns -> Seq(Outgoing)]
  /\ registry \in [Names -> Conns \cup {NoConn}]

Init ==
  /\ LoopInit
  /\ SocketInit
  /\ pc = [c \in Conns |-> "idle"]
  /\ name = [c \in Conns |-> NoName]
  /\ pending = [c \in Conns |-> NoWrite]
  /\ chan = [c \in Conns |-> <<>>]
  /\ registry = [n \in Names |-> NoConn]

-----------------------------------------------------------------------------
(***************************************************************************)
(* How a poll of the handler of c can end.                                 *)
(***************************************************************************)

\* Back in the select! loop.
Serves(c) ==
  /\ pc' = [pc EXCEPT ![c] = "serving"]
  /\ pending' = [pending EXCEPT ![c] = NoWrite]
  /\ UNCHANGED loopVars

\* handle_client returns or unwinds: reader, writer and receiver drop.
Ends(c) ==
  /\ pc' = [pc EXCEPT ![c] = "ended"]
  /\ pending' = [pending EXCEPT ![c] = NoWrite]
  /\ Finish(c)

\* break, then clients.borrow_mut().remove(&name): whoever holds the name.
Leaves(c) ==
  /\ Ends(c)
  /\ registry' = [registry EXCEPT ![name[c]] = NoConn]

Suspends(c, msg, then) ==
  /\ pc' = [pc EXCEPT ![c] = "writing"]
  /\ pending' = [pending EXCEPT ![c] = [msg |-> msg, then |-> then]]
  /\ UNCHANGED <<loopVars, wire, registry>>

\* The write succeeded (ok) or failed, and the handler goes on.  The `?` on
\* a forwarded message returns without removing the name.
Continues(c, then, ok) ==
  \/ /\ then = "welcome" /\ ok
     /\ registry' = [registry EXCEPT ![name'[c]] = c]
     /\ Serves(c)
  \/ /\ then \in {"reply", "forward"} /\ ok
     /\ Serves(c)
     /\ UNCHANGED registry
  \/ /\ then = "kick" \/ (then = "reply" /\ ~ok)
     /\ Leaves(c)
  \/ /\ then = "close" \/ (then \in {"welcome", "forward"} /\ ~ok)
     /\ Ends(c)
     /\ UNCHANGED registry

Completes(c, msg, then) ==
  \/ WriteLands(c, msg) /\ Continues(c, then, TRUE)
  \/ WriteFails(c) /\ Continues(c, then, FALSE)

\* Mutant: the writer is flushed, or anything else awaited, before the write.
SendsLater(c, msg, then) == Suspends(c, msg, then)

(***************************************************************************)
(* writer.send(msg).await, in the poll that reaches it.  It returns        *)
(* Pending if the socket is full; and, with room, if the poll has used up  *)
(* its budget (128 operations in tokio), as one may that goes through the  *)
(* lines and messages waiting for it.  A poll of join_client has a read or *)
(* two behind it, and the socket it read from is known to be writable: it  *)
(* writes.                                                                 *)
(***************************************************************************)
Sends(c, msg, then) ==
  \/ Completes(c, msg, then)
  \/ /\ \/ WriteMayYield /\ then \in {"reply", "kick", "forward"}
        \/ ~HasRoom(c) /\ peer[c] # "gone"
     /\ Suspends(c, msg, then)

\* The receiver of c drops with its handler, and with it what it holds.
RestOfChannel(c, rest) ==
  chan' = [chan EXCEPT ![c] = IF pc'[c] = "ended" THEN <<>> ELSE rest]

KeepChannel(c) == RestOfChannel(c, chan[c])

-----------------------------------------------------------------------------
(***************************************************************************)
(* run_server, with the socket and the handler of the connection.          *)
(***************************************************************************)
SpawnHandler(c) ==
  /\ Spawn(c)
  /\ pc' = [pc EXCEPT ![c] = "joining"]
  /\ UNCHANGED <<socketVars, name, pending, chan, registry>>

TurnAwayNow(c) ==
  /\ RejectSent(c)
  /\ WriteLands(c, Error("Server is full"))
  /\ UNCHANGED <<clientVars, taken, handlerVars>>

TurnAwayFails(c) ==
  /\ RejectFails(c)
  /\ WriteFails(c)
  /\ UNCHANGED <<clientVars, taken, handlerVars>>

\* The socket was registered with the reactor just now: whether it is
\* writable may not be known yet.
TurnAwayLater(c) ==
  /\ RejectSuspends(c)
  /\ UNCHANGED <<socketVars, handlerVars>>

\* JoinSet::join_next
ReapHandler(c) ==
  /\ Reap(c)
  /\ UNCHANGED <<socketVars, handlerVars>>

\* Mutant: a handler suspended in a write is not aborted.
CancelUnlessWriting(c) ==
  /\ Cancel(c)
  /\ pc[c] # "writing"
  /\ pc' = [pc EXCEPT ![c] = "ended"]
  /\ pending' = [pending EXCEPT ![c] = NoWrite]
  /\ KeepChannel(c)
  /\ UNCHANGED <<socketVars, name, registry>>

\* The runtime drops the future of an aborted task.
CancelHandler(c) ==
  /\ Cancel(c)
  /\ pc' = [pc EXCEPT ![c] = "ended"]
  /\ pending' = [pending EXCEPT ![c] = NoWrite]
  /\ KeepChannel(c)
  /\ UNCHANGED <<socketVars, name, registry>>

LoopAlone ==
  /\ AcceptFails \/ SendSignal \/ Break \/ DropFuture
  /\ UNCHANGED <<socketVars, handlerVars>>

-----------------------------------------------------------------------------
(***************************************************************************)
(* join_client.                                                            *)
(***************************************************************************)
Joining(c) == ~Down /\ pc[c] = "joining"

JoinFrame(c) == KeepChannel(c) /\ UNCHANGED clientVars

\* Join with a free name: Welcome, then handle_client registers the name.
JoinFreeName(c) ==
  /\ Joining(c)
  /\ Take(c)
  /\ NextLine(c).kind = "Join"
  /\ NextLine(c).name \notin Registered
  /\ name' = [name EXCEPT ![c] = NextLine(c).name]
  /\ Sends(c, Welcome, "welcome")
  /\ JoinFrame(c)

\* Mutant: the name is removed on this way out too.
JoinTakenCleansUp(c) ==
  /\ Joining(c)
  /\ Take(c)
  /\ NextLine(c).kind = "Join"
  /\ NextLine(c).name \in Registered
  /\ WriteLands(c, Error("Username already taken"))
  /\ Ends(c)
  /\ registry' = [registry EXCEPT ![NextLine(c).name] = NoConn]
  /\ UNCHANGED name
  /\ JoinFrame(c)

JoinTakenName(c) ==
  /\ Joining(c)
  /\ Take(c)
  /\ NextLine(c).kind = "Join"
  /\ NextLine(c).name \in Registered
  /\ Sends(c, Error("Username already taken"), "close")
  /\ UNCHANGED name
  /\ JoinFrame(c)

JoinOtherMessage(c) ==
  /\ Joining(c)
  /\ Take(c)
  /\ NextLine(c).kind \notin {"Join"} \cup Unreadable
  /\ Sends(c, Error("Unexpected message received"), "close")
  /\ UNCHANGED name
  /\ JoinFrame(c)

\* A line that does not parse returns Err, an oversized one panics; neither
\* is answered, and nor is a connection that was reset.
JoinUnreadable(c) ==
  /\ Joining(c)
  /\ \/ Take(c) /\ NextLine(c).kind \in Unreadable
     \/ AtReset(c) /\ UNCHANGED taken
  /\ Ends(c)
  /\ UNCHANGED <<wire, name, registry>>
  /\ JoinFrame(c)

JoinEof(c) ==
  /\ Joining(c)
  /\ AtEof(c)
  /\ Sends(c, Error("Connection closed"), "close")
  /\ UNCHANGED <<taken, name>>
  /\ JoinFrame(c)

\* Mutant: the timer starts with the first byte.
JoinTimeoutOnceHeard(c) ==
  /\ Joining(c)
  /\ sent[c] # <<>>
  /\ Sends(c, Error("Timed out waiting for Join"), "close")
  /\ UNCHANGED <<taken, name>>
  /\ JoinFrame(c)

\* Mutant: no Err is returned after the write.
JoinTimeoutGoesOn(c) ==
  /\ Joining(c)
  /\ Sends(c, Error("Timed out waiting for Join"), "reply")
  /\ UNCHANGED <<taken, name>>
  /\ JoinFrame(c)

\* The two seconds are over before a line came; once a line is being
\* handled the timer is gone.
JoinTimeout(c) ==
  /\ Joining(c)
  /\ Sends(c, Error("Timed out waiting for Join"), "close")
  /\ UNCHANGED <<taken, name>>
  /\ JoinFrame(c)

-----------------------------------------------------------------------------
(***************************************************************************)
(* The select! loop of handle_client, the branch reading the socket:       *)
(* react_client_msg and what it calls.                                     *)
(***************************************************************************)
Serving(c) == ~Down /\ pc[c] = "serving"

Reacts(c, kind) == Serving(c) /\ Take(c) /\ NextLine(c).kind = kind

ReplyFrame(c) == KeepChannel(c) /\ UNCHANGED <<clientVars, name>>

PostFrame == UNCHANGED <<clientVars, wire, name>>

\* Mutant: the reply is dropped when the socket is full.
ReactPingTries(c) ==
  /\ Reacts(c, "Ping")
  /\ \/ HasRoom(c) /\ Sends(c, Pong, "reply")
     \/ ~HasRoom(c) /\ Serves(c) /\ UNCHANGED <<wire, registry>>
  /\ ReplyFrame(c)

ReactPing(c) ==
  /\ Reacts(c, "Ping")
  /\ Sends(c, Pong, "reply")
  /\ ReplyFrame(c)

\* The names are collected before the write, which may be suspended.
ReactListUsers(c) ==
  /\ Reacts(c, "ListUsers")
  /\ Sends(c, UserList(Registered), "reply")
  /\ ReplyFrame(c)

ReactJoin(c) ==
  /\ Reacts(c, "Join")
  /\ Sends(c, Error("Unexpected message received"), "kick")
  /\ ReplyFrame(c)

\* Mutant: the channel holds the newest message only.
PostedLast(c, to) ==
  [d \in Conns |-> IF d \in to THEN <<Message(name[c], NextText(c))>> ELSE chan[d]]

\* The message of a client, put in the channels of the handlers in to.
Posted(c, to) ==
  [d \in Conns |-> IF d \in to THEN Append(chan[d], Message(name[c], NextText(c)))
                               ELSE chan[d]]

\* Mutant: channels hold one message, and full ones are skipped.
AudienceReady(c) ==
  {registry[n] : n \in {m \in Registered \ {name[c]} : chan[registry[m]] = <<>>}}

\* The handlers a broadcast by c goes to: everyone under another name.
Audience(c) == {registry[n] : n \in Registered \ {name[c]}}

\* Mutant: the sender waits for the recipients' writes.
ReactBroadcastWaits(c) ==
  /\ Reacts(c, "Broadcast")
  /\ \A d \in Audience(c) : pc[d] = "serving"
  /\ chan' = Posted(c, Audience(c))
  /\ Serves(c)
  /\ UNCHANGED registry
  /\ PostFrame

ReactBroadcast(c) ==
  /\ Reacts(c, "Broadcast")
  /\ \A d \in Audience(c) : InLoop(d)
  /\ chan' = Posted(c, Audience(c))
  /\ Serves(c)
  /\ UNCHANGED registry
  /\ PostFrame

\* The map is walked in no particular order; the first channel whose
\* receiver is gone fails the send, and the sender leaves.
ReactBroadcastFails(c) ==
  /\ Reacts(c, "Broadcast")
  /\ \E d \in Audience(c) : ~InLoop(d)
  /\ \E reached \in SUBSET {d \in Audience(c) : InLoop(d)} :
       chan' = [Posted(c, reached) EXCEPT ![c] = <<>>]
  /\ Leaves(c)
  /\ PostFrame

ReactDirect(c) ==
  /\ Reacts(c, "SendDM")
  /\ NextLine(c).name \in Registered \ {name[c]}
  /\ LET to == registry[NextLine(c).name] IN
       /\ InLoop(to)
       /\ chan' = Posted(c, {to})
  /\ Serves(c)
  /\ UNCHANGED registry
  /\ PostFrame

ReactDirectFails(c) ==
  /\ Reacts(c, "SendDM")
  /\ NextLine(c).name \in Registered \ {name[c]}
  /\ ~InLoop(registry[NextLine(c).name])
  /\ chan' = [chan EXCEPT ![c] = <<>>]
  /\ Leaves(c)
  /\ PostFrame

\* A message to oneself, or to a name nobody holds, is answered.
ReactDirectRefused(c) ==
  /\ Reacts(c, "SendDM")
  /\ \/ /\ NextLine(c).name = name[c]
        /\ Sends(c, Error("Cannot send a DM to yourself"), "reply")
     \/ /\ NextLine(c).name \notin Registered \cup {name[c]}
        /\ Sends(c, Error("User does not exist"), "reply")
  /\ ReplyFrame(c)

\* rx.recv() returns None: nothing is left in the channel, and the map no
\* longer holds its sender.  (It never comes to that: see OwnEntry.)
ChannelClosed(c) == chan[c] = <<>> /\ \A n \in Names : registry[n] # c

\* Mutant: return instead of break.
LeaveLoopReturns(c) ==
  /\ Serving(c)
  /\ \/ Take(c) /\ NextLine(c).kind = "Garbage"
     \/ AtEof(c) /\ UNCHANGED taken
  /\ Ends(c)
  /\ UNCHANGED <<wire, registry>>
  /\ ReplyFrame(c)

\* The two breaks of the select! loop: end of stream, a reset or a line that
\* does not parse; and None from the channel.
LeaveLoop(c) ==
  /\ Serving(c)
  /\ \/ Take(c) /\ NextLine(c).kind = "Garbage"
     \/ (AtEof(c) \/ ChannelClosed(c)) /\ UNCHANGED taken
  /\ Leaves(c)
  /\ UNCHANGED wire
  /\ ReplyFrame(c)

\* The assertion in MessageReader::recv unwinds through handle_client.
PanicOnRead(c) ==
  /\ Reacts(c, "Oversized")
  /\ Ends(c)
  /\ UNCHANGED <<wire, registry>>
  /\ ReplyFrame(c)

-----------------------------------------------------------------------------
(***************************************************************************)
(* The branch reading the channel.                                         *)
(***************************************************************************)
\* Mutant: only input wakes the handler.
ForwardOnInput(c) ==
  /\ Serving(c)
  /\ HasLine(c)
  /\ chan[c] # <<>>
  /\ Sends(c, Head(chan[c]), "forward")
  /\ RestOfChannel(c, Tail(chan[c]))
  /\ UNCHANGED <<clientVars, taken, name>>

\* Mutant: the message leaves the channel only if its write completes at once.
ForwardPeeks(c) ==
  /\ Serving(c)
  /\ chan[c] # <<>>
  /\ Sends(c, Head(chan[c]), "forward")
  /\ RestOfChannel(c, IF pc'[c] = "writing" THEN chan[c] ELSE Tail(chan[c]))
  /\ UNCHANGED <<clientVars, taken, name>>

\* Mutant: the channel is emptied and one message sent.
ForwardDrains(c) ==
  /\ Serving(c)
  /\ chan[c] # <<>>
  /\ Sends(c, Head(chan[c]), "forward")
  /\ RestOfChannel(c, <<>>)
  /\ UNCHANGED <<clientVars, taken, name>>

Forward(c) ==
  /\ Serving(c)
  /\ chan[c] # <<>>
  /\ Sends(c, Head(chan[c]), "forward")
  /\ RestOfChannel(c, Tail(chan[c]))
  /\ UNCHANGED <<clientVars, taken, name>>

\* The write the handler is suspended in completes.
Resume(c) ==
  /\ ~Down
  /\ pc[c] = "writing"
  /\ UNCHANGED <<clientVars, taken, name>>
  /\ Completes(c, pending[c].msg, pending[c].then)
  /\ KeepChannel(c)

-----------------------------------------------------------------------------
\* The socket of c is closed on the server's side.
Closed(c) == task[c] \in {"finished", "reaped", "refused", "cancelled"}

\* What clients do once the server, or their connection, is down is not
\* followed: no handler is left to see it.
Client(c) ==
  \/ Dial(c) /\ UNCHANGED handlerVars
  \/ /\ ~Down /\ ~Closed(c)
     /\ (\E line \in MaySend(c) : ClientSends(c, line)) \/ ClientCloses(c) \/ ClientVanishes(c)
     /\ UNCHANGED <<loopVars, handlerVars>>

Reader(c) == ~Down /\ ClientReads(c) /\ UNCHANGED <<loopVars, handlerVars>>

Join(c) ==
  \/ JoinFreeName(c) \/ JoinTakenName(c) \/ JoinOtherMessage(c)
  \/ JoinUnreadable(c) \/ JoinEof(c)

React(c) ==
  \/ ReactPing(c) \/ ReactListUsers(c) \/ ReactJoin(c)
  \/ ReactBroadcast(c) \/ ReactBroadcastFails(c)
  \/ ReactDirect(c) \/ ReactDirectFails(c) \/ ReactDirectRefused(c)
  \/ LeaveLoop(c) \/ PanicOnRead(c)

Handler(c) == Join(c) \/ React(c) \/ Forward(c) \/ Resume(c)

Server(c) ==
  \/ SpawnHandler(c) \/ TurnAwayNow(c) \/ TurnAwayFails(c) \/ TurnAwayLater(c)
  \/ ReapHandler(c) \/ CancelHandler(c)

Next ==
  \/ LoopAlone
  \/ \E c \in Conns :
       Client(c) \/ Reader(c) \/ Server(c) \/ Handler(c) \/ JoinTimeout(c)

Spec == Init /\ [][Next]_vars

-----------------------------------------------------------------------------
(***************************************************************************)
(* Properties of the client map.                                           *)
(***************************************************************************)

\* No two handlers serve clients under one name: a Join that finds its name
\* free still finds it free when the Welcome is out and the name goes in.
UniqueNames ==
  \A c, d \in Conns : InLoop(c) /\ InLoop(d) /\ name[c] = name[d] => c = d

\* A handler in its loop is the one its name leads to: no other handler
\* has taken its entry over, or removed it on its own way out.
OwnEntry == \A c \in Conns : InLoop(c) => registry[name[c]] = c
=============================================================================

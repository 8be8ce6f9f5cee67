---------------------- MODULE SingleThreadedProperties ----------------------
(***************************************************************************)
(* What the single-threaded server promises its clients: safety properties *)
(* over the messages each client was written, and liveness under the       *)
(* fairness of the runtime.  Checked by TLC.                               *)
(***************************************************************************)
EXTENDS SingleThreaded, Selection, SequencesExt

CONSTANT Attentive    \* clients that keep reading what they are sent

ASSUME AttentiveAssumption == Attentive \subseteq Conns

\* The message the handler of c is suspended on, if any.
InHand(c) == IF pc[c] = "writing" THEN <<pending[c].msg>> ELSE <<>>

\* What is on its way to c or was written to it, oldest first.
Arriving(c) == wire[c] \o InHand(c) \o chan[c]

\* The chat messages among it.
Pipeline(c) == OfKind(Arriving(c), {"Message"})

\* The first message decides: either Welcome, once, with everything else
\* behind it, or an Error that is the last word and leaves c without a name
\* in the map.  In particular nobody is welcomed after timing out, and no
\* chat message overtakes the Welcome.
Admission ==
  \A c \in Conns : wire[c] # <<>> =>
    \/ /\ Head(wire[c]) = Welcome
       /\ \A i \in 2..Len(wire[c]) : wire[c][i] # Welcome
    \/ /\ Head(wire[c]).kind = "Error"
       /\ Len(wire[c]) = 1
       /\ ~InLoop(c)
       /\ \A n \in Names : registry[n] # c

\* Messages of one sender reach a client in the order they were sent and at
\* most once, also when direct messages and broadcasts mix and names change
\* hands.
PairwiseFifo ==
  \A c \in Conns : \A i, j \in DOMAIN Arriving(c) :
    LET a == Arriving(c)[i]
        b == Arriving(c)[j]
    IN  i < j /\ a.kind = "Message" /\ b.kind = "Message" /\ a.message[1] = b.message[1]
          => a.message[2] < b.message[2]

\* While a client is served, no message under way to it is dropped or
\* overtaken, whichever handlers run and wherever its own is suspended.
NothingLost ==
  [][\A c \in Conns : InLoop(c) /\ InLoop(c)' => IsPrefix(Pipeline(c), Pipeline(c)')]_vars

\* The handlers in the loop are the members of a chat room, and what is on
\* its way to a client was said to it there.
Member == [n \in Names |-> IF n \in Registered /\ InLoop(registry[n])
                           THEN registry[n] ELSE NoConn]

Inbox == [c \in Conns |-> Pipeline(c)]

Room == INSTANCE ChatRoom WITH member <- Member, inbox <- Inbox, Texts <- Text

\* Tasks, channels and suspended writes do not show: the server implements
\* the chat room, where names are unique and a message is said in one step,
\* once, under the name of its sender, to members only; also with ghosts
\* of clients that vanished in the map.
ImplementsRoom == Room!Spec

\* Each Ping and each ListUsers is answered once, in order, by the handler
\* of the connection it came in on, however its replies interleave with
\* forwarded messages.
RepliesInOrder ==
  LET ReplyTo(kind) == IF kind = "Ping" THEN "Pong" ELSE "UserList"
  IN  \A c \in Conns : InLoop(c) =>
        LET asked == OfKind(SubSeq(sent[c], 2, taken[c]), {"Ping", "ListUsers"})
            given == OfKind(wire[c] \o InHand(c), {"Pong", "UserList"})
        IN  /\ Len(asked) = Len(given)
            /\ \A i \in DOMAIN asked : given[i].kind = ReplyTo(asked[i].kind)

\* The client of d vanished, or sent a line that made its handler panic.
Broken(d) ==
  \/ peer[d] = "gone"
  \/ taken[d] > 0 /\ sent[d][taken[d]].kind = "Oversized"

\* An entry that outlives its handler is one of a broken client: all other
\* ways out of handle_client remove it, and remove no other.
GhostsWereBroken ==
  ~Down => \A n \in Registered : InLoop(registry[n]) \/ Broken(registry[n])

\* A client that was welcomed is dropped for its own doing - it closed its
\* side, or the last line taken from it was not one to serve - or some other
\* client is broken, to whose ghost it may have written.
DroppedForCause ==
  \A c \in Conns :
    pc[c] = "ended" /\ wire[c] # <<>> /\ Head(wire[c]) = Welcome /\ ~Down =>
      \/ peer[c] \in {"half", "gone"}
      \/ taken[c] > 1 /\ sent[c][taken[c]].kind \in {"Join"} \cup Unreadable
      \/ \E d \in Conns \ {c} : Broken(d)

\* A step in which the handler of c handles a broadcast.
HandlesBroadcast(c) ==
  InLoop(c) /\ taken'[c] > taken[c] /\ NextLine(c).kind = "Broadcast"

\* d has more in its channel.
Reached(d) == Len(chan'[d]) > Len(chan[d])

\* "Broadcast - Sends message to all other connected clients": every other
\* client that is being served has the message in its channel when the
\* broadcast has been handled.
BroadcastReachesAll ==
  [][\A c \in Conns : HandlesBroadcast(c) =>
       \A d \in Conns \ {c} : InLoop(d) => Reached(d)]_vars

\* It does, as long as there is no ghost in the map.
BroadcastReachesHealthy ==
  [][\A c \in Conns :
       HandlesBroadcast(c) /\ (\A n \in Registered : InLoop(registry[n])) =>
         \A d \in Conns \ {c} : InLoop(d) => Reached(d)]_vars

-----------------------------------------------------------------------------
(***************************************************************************)
(* Fairness.  The LocalSet polls every woken task in turn: weak fairness   *)
(* of each handler, of its timer and of its abortion (a handler's select!  *)
(* has only finitely many lines and messages to choose from here).  Only   *)
(* the Attentive clients are assumed to read.  Nothing is assumed of       *)
(* run_server: handlers make progress whatever it does.                    *)
(***************************************************************************)
ServingFairness ==
  /\ \A c \in Conns : WF_vars(Handler(c)) /\ WF_vars(JoinTimeout(c)) /\ WF_vars(CancelHandler(c))
  /\ \A c \in Attentive : WF_vars(Reader(c))

ServingSpec == Spec /\ ServingFairness

\* A connection does not hold its slot without joining: within the timeout
\* it is welcomed or its handler is gone.
SilentClientsExpire ==
  \A c \in Conns : pc[c] = "joining" ~> (InLoop(c) \/ pc[c] = "ended")

\* A client that keeps reading has its requests served, even while others
\* it writes to do not read: a slow reader holds up nobody else.
RequestsServed ==
  \A c \in Attentive :
    (InLoop(c) /\ HasLine(c)) ~> (~HasLine(c) \/ pc[c] = "ended" \/ Down)

\* What is put in the channel of a client that keeps reading leaves it.
ChannelsDrain ==
  \A c \in Attentive : chan[c] # <<>> ~> (chan[c] = <<>> \/ Down)

\* A stopped server closes every socket.
ShutdownCloses ==
  Down ~> \A c \in Conns : pc[c] \in {"idle", "ended"}
=============================================================================

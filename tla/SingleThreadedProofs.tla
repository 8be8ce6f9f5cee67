------------------------ MODULE SingleThreadedProofs ------------------------
(***************************************************************************)
(* Theorems about the single-threaded server, for any finite set of        *)
(* connections, any names, any max_clients and any bounds of the           *)
(* transport.                                                              *)
(***************************************************************************)
EXTENDS SingleThreaded, AcceptLoopProofs

(***************************************************************************)
(* The server is an instance of run_server's loop: every step of a         *)
(* handler, a client or a socket is a step of the loop or leaves it alone. *)
(***************************************************************************)
LEMMA ContinuesLoop ==
  ASSUME NEW c \in Conns, NEW then, NEW ok, Continues(c, then, ok)
  PROVE  [LoopNext]_loopVars
  BY DEF Continues, Serves, Leaves, Ends, LoopNext

LEMMA SendsLoop ==
  ASSUME NEW c \in Conns, NEW msg, NEW then, Sends(c, msg, then)
  PROVE  [LoopNext]_loopVars
  BY ContinuesLoop DEF Sends, Completes, Suspends

LEMMA JoinLoop ==
  ASSUME NEW c \in Conns, Join(c) \/ JoinTimeout(c)
  PROVE  [LoopNext]_loopVars
<1>1. CASE JoinFreeName(c)  BY <1>1, SendsLoop DEF JoinFreeName
<1>2. CASE JoinTakenName(c)  BY <1>2, SendsLoop DEF JoinTakenName
<1>3. CASE JoinOtherMessage(c)  BY <1>3, SendsLoop DEF JoinOtherMessage
<1>4. CASE JoinUnreadable(c)  BY <1>4 DEF JoinUnreadable, Ends, LoopNext
<1>5. CASE JoinEof(c)  BY <1>5, SendsLoop DEF JoinEof
<1>6. CASE JoinTimeout(c)  BY <1>6, SendsLoop DEF JoinTimeout
<1> QED  BY <1>1, <1>2, <1>3, <1>4, <1>5, <1>6 DEF Join

LEMMA ReactLoop ==
  ASSUME NEW c \in Conns, React(c)
  PROVE  [LoopNext]_loopVars
<1> USE DEF LoopNext
<1>1. CASE ReactPing(c)  BY <1>1, SendsLoop DEF ReactPing
<1>2. CASE ReactListUsers(c)  BY <1>2, SendsLoop DEF ReactListUsers
<1>3. CASE ReactJoin(c)  BY <1>3, SendsLoop DEF ReactJoin
<1>4. CASE ReactBroadcast(c)  BY <1>4 DEF ReactBroadcast, Serves
<1>5. CASE ReactBroadcastFails(c)  BY <1>5 DEF ReactBroadcastFails, Leaves, Ends
<1>6. CASE ReactDirect(c)  BY <1>6 DEF ReactDirect, Serves
<1>7. CASE ReactDirectFails(c)  BY <1>7 DEF ReactDirectFails, Leaves, Ends
<1>8. CASE ReactDirectRefused(c)  BY <1>8, SendsLoop DEF ReactDirectRefused
<1>9. CASE LeaveLoop(c)  BY <1>9 DEF LeaveLoop, Leaves, Ends
<1>10. CASE PanicOnRead(c)  BY <1>10 DEF PanicOnRead, Ends
<1> QED
  BY <1>1, <1>2, <1>3, <1>4, <1>5, <1>6, <1>7, <1>8, <1>9, <1>10 DEF React

LEMMA LoopStep == [Next]_vars => [LoopNext]_loopVars
<1> SUFFICES ASSUME [Next]_vars PROVE [LoopNext]_loopVars
  OBVIOUS
<1>1. CASE LoopAlone  BY <1>1 DEF LoopAlone, LoopNext
<1>2. ASSUME NEW c \in Conns, Client(c) \/ Reader(c) PROVE [LoopNext]_loopVars
  BY <1>2 DEF Client, Reader, Dial, LoopNext
<1>3. ASSUME NEW c \in Conns, Server(c) PROVE [LoopNext]_loopVars
  BY <1>3 DEF Server, SpawnHandler, TurnAwayNow, TurnAwayFails, TurnAwayLater,
              ReapHandler, CancelHandler, LoopNext
<1>4. ASSUME NEW c \in Conns, Forward(c) PROVE [LoopNext]_loopVars
  BY <1>4, SendsLoop DEF Forward
<1>5. ASSUME NEW c \in Conns, Resume(c) PROVE [LoopNext]_loopVars
  BY <1>5, ContinuesLoop DEF Resume, Completes
<1>6. CASE UNCHANGED vars  BY <1>6 DEF vars, loopVars
<1> QED
  BY <1>1, <1>2, <1>3, <1>4, <1>5, <1>6, JoinLoop, ReactLoop DEF Next, Handler

\* The single-threaded server with its handlers, clients and sockets
\* implements the accept loop.
LEMMA ImplementsLoop == Spec => LoopSpec
<1>1. Init => LoopInit  BY DEF Init
<1> QED  BY <1>1, LoopStep, PTL DEF Spec, LoopSpec

\* It runs at most max_clients handlers at once.
THEOREM ServerWithinCapacity == Spec => []WithinCapacity
  BY ImplementsLoop, CapacityHolds, PTL

-----------------------------------------------------------------------------
(***************************************************************************)
(* Type correctness.  A handler that is past join_client has a username,   *)
(* and one that is suspended has a message in hand: without the two, a     *)
(* step could write a message from nobody.                                 *)
(***************************************************************************)
NamedOK ==
  \A c \in Conns :
    /\ pc[c] = "serving" => name[c] \in Names
    /\ pc[c] = "writing" => /\ pending[c] \in Write
                            /\ pending[c].then # "close" => name[c] \in Names

TypeInv == TypeOK /\ NamedOK

\* The messages a server makes up itself.
LEMMA OwnMessages ==
  /\ Welcome \in Outgoing
  /\ Pong \in Outgoing
  /\ \A t \in ErrorTexts : Error(t) \in Outgoing
  /\ TypeOK => UserList(Registered) \in Outgoing
<1>1. \A users \in SUBSET Names : UserList(users) \in Outgoing
  BY DEF Outgoing, ServerToClientMsg, UserList
<1> QED
  BY <1>1 DEF Outgoing, ServerToClientMsg, Welcome, Pong, Error, Registered

\* What a handler's own poll leaves well typed: its place, its write, the
\* map, the socket it writes to and the tasks.
OwnTypes ==
  /\ LoopTypeOK
  /\ pc \in [Conns -> PcStates]
  /\ pending \in [Conns -> Write \cup {NoWrite}]
  /\ registry \in [Names -> Conns \cup {NoConn}]
  /\ wire \in [Conns -> Seq(Outgoing)]

\* The part of NamedOK a poll of c that leaves the other handlers alone
\* has to establish.
OwnName(c) ==
  /\ pc[c] = "serving" => name[c] \in Names
  /\ pc[c] = "writing" => /\ pending[c] \in Write
                          /\ pending[c].then # "close" => name[c] \in Names

\* Every other handler is where it was.
OthersStay(c) ==
  \A d \in Conns \ {c} : pc'[d] = pc[d] /\ pending'[d] = pending[d]

\* Messages are appended to what a client was written, one at a time.
LEMMA WireTypes ==
  ASSUME TypeOK, NEW c \in Conns, NEW msg \in Outgoing,
         WriteLands(c, msg) \/ WriteFails(c) \/ UNCHANGED wire
  PROVE  /\ wire' \in [Conns -> Seq(Outgoing)]
         /\ \A d \in Conns : Len(wire'[d]) >= Len(wire[d])
<1>1. wire \in [Conns -> Seq(Outgoing)]  BY DEF TypeOK, SocketTypeOK
<1>2. /\ Append(wire[c], msg) \in Seq(Outgoing)
      /\ Len(Append(wire[c], msg)) = Len(wire[c]) + 1
  BY <1>1
<1>3. CASE WriteLands(c, msg)
  <2>1. wire' = [wire EXCEPT ![c] = Append(wire[c], msg)]
    BY <1>3 DEF WriteLands
  <2> HIDE DEF Outgoing
  <2>2. \A d \in Conns : wire'[d] = IF d = c THEN Append(wire[c], msg) ELSE wire[d]
    BY <1>1, <2>1
  <2> QED  BY <1>1, <1>2, <2>1, <2>2
<1>4. CASE UNCHANGED wire  BY <1>1, <1>4
<1> QED  BY <1>3, <1>4 DEF WriteFails

LEMMA EndsTypes ==
  ASSUME TypeOK, NEW c \in Conns, Ends(c)
  PROVE  /\ LoopTypeOK'
         /\ pc' \in [Conns -> PcStates]
         /\ pending' \in [Conns -> Write \cup {NoWrite}]
         /\ pc'[c] = "ended"
         /\ OthersStay(c)
<1>1. LoopTypeOK'  BY LoopTypeStep DEF Ends, LoopNext, TypeOK
<1> QED  BY <1>1 DEF Ends, TypeOK, OthersStay, PcStates

LEMMA ServesTypes ==
  ASSUME TypeOK, NEW c \in Conns, Serves(c)
  PROVE  /\ LoopTypeOK'
         /\ pc' \in [Conns -> PcStates]
         /\ pending' \in [Conns -> Write \cup {NoWrite}]
         /\ pc'[c] = "serving"
         /\ OthersStay(c)
<1>1. LoopTypeOK'  BY LoopTypeStep DEF Serves, TypeOK
<1> QED  BY <1>1 DEF Serves, TypeOK, OthersStay, PcStates

LEMMA LeavesTypes ==
  ASSUME TypeOK, NEW c \in Conns, Leaves(c)
  PROVE  registry' \in [Names -> Conns \cup {NoConn}] /\ Ends(c)
  BY DEF Leaves, TypeOK

LEMMA ContinuesTypes ==
  ASSUME TypeOK, NEW c \in Conns, NEW then \in Continuations, NEW ok \in BOOLEAN,
         Continues(c, then, ok), wire' \in [Conns -> Seq(Outgoing)],
         then # "close" => name'[c] \in Names
  PROVE  OwnTypes' /\ OwnName(c)' /\ OthersStay(c)
<1> USE DEF OwnTypes, OwnName
<1>1. CASE then = "welcome" /\ ok /\ Serves(c) /\ registry' = [registry EXCEPT ![name'[c]] = c]
  <2>1. registry' \in [Names -> Conns \cup {NoConn}]  BY <1>1 DEF TypeOK
  <2> QED  BY <1>1, <2>1, ServesTypes
<1>2. CASE then \in {"reply", "forward"} /\ Serves(c) /\ UNCHANGED registry
  BY <1>2, ServesTypes DEF TypeOK
<1>3. CASE Leaves(c)  BY <1>3, LeavesTypes, EndsTypes
<1>4. CASE Ends(c) /\ UNCHANGED registry  BY <1>4, EndsTypes DEF TypeOK
<1> QED  BY <1>1, <1>2, <1>3, <1>4 DEF Continues

LEMMA CompletesTypes ==
  ASSUME TypeOK, NEW c \in Conns, NEW msg \in Outgoing, NEW then \in Continuations,
         Completes(c, msg, then), then # "close" => name'[c] \in Names
  PROVE  OwnTypes' /\ OwnName(c)' /\ OthersStay(c)
<1>1. wire' \in [Conns -> Seq(Outgoing)]
  BY WireTypes DEF Completes
<1> QED  BY <1>1, ContinuesTypes DEF Completes

LEMMA SendsTypes ==
  ASSUME TypeOK, NEW c \in Conns, NEW msg \in Outgoing, NEW then \in Continuations,
         Sends(c, msg, then), then # "close" => name'[c] \in Names
  PROVE  OwnTypes' /\ OwnName(c)' /\ OthersStay(c)
<1>1. CASE Completes(c, msg, then)  BY <1>1, CompletesTypes
<1>2. CASE Suspends(c, msg, then)
  <2>1. LoopTypeOK'  BY <1>2, LoopTypeStep DEF Suspends, TypeOK
  <2>2. [msg |-> msg, then |-> then] \in Write  BY DEF Write
  <2> QED
    BY <1>2, <2>1, <2>2
    DEF Suspends, TypeOK, SocketTypeOK, OwnTypes, OwnName, OthersStay, PcStates
<1> QED  BY <1>1, <1>2 DEF Sends

\* A poll of the handler of c that is well typed in itself, changes no other
\* handler's name and leaves the counts in order preserves the invariant.
LEMMA PollTypes ==
  ASSUME TypeInv, NEW c \in Conns,
         OwnTypes', OwnName(c)', OthersStay(c),
         UNCHANGED <<peer, sent, seen>>,
         \A d \in Conns : Len(wire'[d]) >= Len(wire[d]),
         UNCHANGED taken \/ Take(c),
         chan' \in [Conns -> Seq(Outgoing)],
         name' \in [Conns -> Names \cup {NoName}],
         \A d \in Conns \ {c} : name'[d] = name[d]
  PROVE  TypeInv'
<1>1. SocketTypeOK'
  <2>1. /\ taken' \in [Conns -> Nat]
        /\ \A d \in Conns : taken'[d] <= Len(sent[d])
    <3>1. /\ taken \in [Conns -> Nat]
          /\ \A d \in Conns : taken[d] <= Len(sent[d]) /\ Len(sent[d]) \in Nat
      BY DEF TypeInv, TypeOK, SocketTypeOK
    <3>2. CASE UNCHANGED taken  BY <3>1, <3>2
    <3>3. CASE Take(c)
      <4>1. /\ taken' = [taken EXCEPT ![c] = taken[c] + 1]
            /\ taken[c] < Len(sent[c])
        BY <3>3 DEF Take, HasLine
      <4> QED  BY <3>1, <4>1
    <3> QED  BY <3>2, <3>3
  <2>2. \A d \in Conns : seen[d] <= Len(wire'[d])
    BY DEF TypeInv, TypeOK, SocketTypeOK, OwnTypes
  <2> QED  BY <2>1, <2>2 DEF TypeInv, TypeOK, SocketTypeOK, OwnTypes
<1>2. TypeOK'  BY <1>1 DEF OwnTypes, TypeOK
<1>3. NamedOK'
  BY DEF TypeInv, NamedOK, OwnName, OthersStay
<1> QED  BY <1>2, <1>3 DEF TypeInv

LEMMA ChannelTypes ==
  ASSUME TypeOK, NEW c \in Conns, NEW rest \in Seq(Outgoing), RestOfChannel(c, rest)
  PROVE  chan' \in [Conns -> Seq(Outgoing)]
<1>1. chan \in [Conns -> Seq(Outgoing)]  BY DEF TypeOK
<1>2. <<>> \in Seq(Outgoing)  OBVIOUS
<1> HIDE DEF Outgoing
<1> QED  BY <1>1, <1>2 DEF RestOfChannel

LEMMA KeepTypes ==
  ASSUME TypeOK, NEW c \in Conns, KeepChannel(c)
  PROVE  chan' \in [Conns -> Seq(Outgoing)]
<1>1. chan[c] \in Seq(Outgoing)  BY DEF TypeOK
<1> QED  BY <1>1, ChannelTypes DEF KeepChannel

\* A poll that ends in a write.
LEMMA SendingPoll ==
  ASSUME TypeInv, NEW c \in Conns, NEW msg \in Outgoing, NEW then \in Continuations,
         Sends(c, msg, then), then # "close" => name'[c] \in Names,
         UNCHANGED <<peer, sent, seen>>, UNCHANGED taken \/ Take(c),
         chan' \in [Conns -> Seq(Outgoing)],
         name' \in [Conns -> Names \cup {NoName}],
         \A d \in Conns \ {c} : name'[d] = name[d]
  PROVE  TypeInv'
<1>1. OwnTypes' /\ OwnName(c)' /\ OthersStay(c)  BY SendsTypes DEF TypeInv
<1>2. \A d \in Conns : Len(wire'[d]) >= Len(wire[d])
  BY WireTypes DEF Sends, Completes, Suspends, TypeInv
<1> QED  BY <1>1, <1>2, PollTypes

\* A poll that ends in no write, in the select! loop or in the end.
LEMMA SilentPoll ==
  ASSUME TypeInv, NEW c \in Conns,
         \/ Serves(c) /\ name[c] \in Names /\ UNCHANGED registry
         \/ Leaves(c)
         \/ Ends(c) /\ UNCHANGED registry,
         UNCHANGED <<wire, name, peer, sent, seen>>, UNCHANGED taken \/ Take(c),
         chan' \in [Conns -> Seq(Outgoing)]
  PROVE  TypeInv'
<1>1. OwnTypes' /\ OwnName(c)' /\ OthersStay(c)
  BY ServesTypes, EndsTypes, LeavesTypes DEF TypeInv, TypeOK, SocketTypeOK, OwnTypes, OwnName
<1>2. \A d \in Conns : Len(wire'[d]) >= Len(wire[d])
  BY DEF TypeInv, TypeOK, SocketTypeOK
<1>3. name' \in [Conns -> Names \cup {NoName}]
  BY DEF TypeInv, TypeOK
<1> QED  BY <1>1, <1>2, <1>3, PollTypes

-----------------------------------------------------------------------------
LEMMA JoinTypes ==
  ASSUME TypeInv, NEW c \in Conns, Join(c) \/ JoinTimeout(c)
  PROVE  TypeInv'
<1> USE DEF JoinFrame, clientVars
<1>1. TypeOK  BY DEF TypeInv
<1>2. name \in [Conns -> Names \cup {NoName}]  BY DEF TypeInv, TypeOK
<1>3. ASSUME NEW t \in ErrorTexts, Sends(c, Error(t), "close"), JoinFrame(c),
             UNCHANGED name, UNCHANGED taken \/ Take(c)
      PROVE  TypeInv'
  BY <1>1, <1>2, <1>3, OwnMessages, KeepTypes, SendingPoll DEF Continuations
<1> HIDE DEF JoinFrame
<1>4. CASE JoinFreeName(c)
  <2>1. NextLine(c).name \in Names
    <3>1. /\ HasLine(c)
          /\ taken[c] \in Nat /\ sent[c] \in Seq(Line)
          /\ NextLine(c).kind = "Join"
      BY <1>4 DEF JoinFreeName, Take, TypeInv, TypeOK, SocketTypeOK
    <3>2. NextLine(c) \in Line  BY <3>1 DEF NextLine, HasLine
    <3> QED  BY <3>1, <3>2 DEF Line, Plain, Unreadable
  <2>2. /\ name' \in [Conns -> Names \cup {NoName}]
        /\ name'[c] \in Names
        /\ \A d \in Conns \ {c} : name'[d] = name[d]
    BY <1>2, <1>4, <2>1 DEF JoinFreeName
  <2> QED
    BY <1>1, <1>4, <2>2, OwnMessages, KeepTypes, SendingPoll
    DEF JoinFreeName, JoinFrame, Continuations
<1>5. CASE JoinTakenName(c)  BY <1>3, <1>5 DEF JoinTakenName, ErrorTexts
<1>6. CASE JoinOtherMessage(c)  BY <1>3, <1>6 DEF JoinOtherMessage, ErrorTexts
<1>7. CASE JoinUnreadable(c)
  BY <1>1, <1>7, KeepTypes, SilentPoll DEF JoinUnreadable, JoinFrame
<1>8. CASE JoinEof(c)  BY <1>3, <1>8 DEF JoinEof, ErrorTexts
<1>9. CASE JoinTimeout(c)  BY <1>3, <1>9 DEF JoinTimeout, ErrorTexts
<1> QED  BY <1>4, <1>5, <1>6, <1>7, <1>8, <1>9 DEF Join

\* The message a client hands over is one of its own.
LEMMA PostedTypes ==
  ASSUME TypeInv, NEW c \in Conns, Serving(c), HasLine(c), NEW to
  PROVE  Posted(c, to) \in [Conns -> Seq(Outgoing)]
<1>1. NextText(c) \in Text
  BY MaxSendsAssumption DEF NextText, Text, HasLine, TypeInv, TypeOK, SocketTypeOK
<1>2. name[c] \in Names  BY DEF TypeInv, NamedOK, Serving
<1>3. Message(name[c], NextText(c)) \in Outgoing
  BY <1>1, <1>2 DEF Message, Outgoing, ServerToClientMsg
<1>4. chan \in [Conns -> Seq(Outgoing)]  BY DEF TypeInv, TypeOK
<1> HIDE DEF Outgoing
<1>5. \A d \in Conns : Append(chan[d], Message(name[c], NextText(c))) \in Seq(Outgoing)
  BY <1>3, <1>4
<1> QED  BY <1>4, <1>5 DEF Posted

LEMMA ReactTypes ==
  ASSUME TypeInv, NEW c \in Conns, React(c)
  PROVE  TypeInv'
<1> USE DEF clientVars
<1>1. TypeOK  BY DEF TypeInv
<1>2. name \in [Conns -> Names \cup {NoName}]  BY DEF TypeInv, TypeOK
<1>3. name[c] \in Names /\ Serving(c)
  BY DEF React, ReactPing, ReactListUsers, ReactJoin, ReactBroadcast, ReactBroadcastFails,
         ReactDirect, ReactDirectFails, ReactDirectRefused, LeaveLoop, PanicOnRead,
         Reacts, Serving, TypeInv, NamedOK
<1>4. ASSUME NEW msg \in Outgoing, NEW then \in {"reply", "kick"}, Sends(c, msg, then),
             ReplyFrame(c), Take(c)
      PROVE  TypeInv'
  BY <1>1, <1>2, <1>3, <1>4, KeepTypes, SendingPoll DEF ReplyFrame, Continuations
<1>5. ASSUME NEW to, Take(c), PostFrame, chan' = Posted(c, to),
             Serves(c) /\ UNCHANGED registry
      PROVE  TypeInv'
  BY <1>3, <1>5, PostedTypes, SilentPoll DEF PostFrame, Take
<1>6. ASSUME NEW to, Take(c), PostFrame, Leaves(c),
             chan' = [Posted(c, to) EXCEPT ![c] = <<>>]
      PROVE  TypeInv'
  <2>1. Posted(c, to) \in [Conns -> Seq(Outgoing)]
    BY <1>3, <1>6, PostedTypes DEF Take
  <2>2. chan' \in [Conns -> Seq(Outgoing)]
    <3>1. <<>> \in Seq(Outgoing)  OBVIOUS
    <3> HIDE DEF Posted, Outgoing
    <3> QED  BY <1>6, <2>1, <3>1
  <2> QED  BY <1>6, <2>2, SilentPoll DEF PostFrame
<1>7. CASE ReactPing(c)  BY <1>4, <1>7, OwnMessages DEF ReactPing, Reacts
<1>8. CASE ReactListUsers(c)
  BY <1>1, <1>4, <1>8, OwnMessages DEF ReactListUsers, Reacts
<1>9. CASE ReactJoin(c)
  BY <1>4, <1>9, OwnMessages DEF ReactJoin, Reacts, ErrorTexts
<1>10. CASE ReactBroadcast(c)  BY <1>5, <1>10 DEF ReactBroadcast, Reacts
<1>11. CASE ReactBroadcastFails(c)  BY <1>6, <1>11 DEF ReactBroadcastFails, Reacts
<1>12. CASE ReactDirect(c)
  <2> DEFINE to == registry[NextLine(c).name]
  <2>1. chan' = Posted(c, {to})  BY <1>12 DEF ReactDirect
  <2> HIDE DEF to
  <2> QED  BY <1>5, <1>12, <2>1 DEF ReactDirect, Reacts
<1>13. CASE ReactDirectFails(c)
  <2>1. chan' \in [Conns -> Seq(Outgoing)]
    <3>1. <<>> \in Seq(Outgoing)  OBVIOUS
    <3>2. chan \in [Conns -> Seq(Outgoing)]  BY <1>1 DEF TypeOK
    <3> HIDE DEF Outgoing
    <3> QED  BY <1>13, <3>1, <3>2 DEF ReactDirectFails
  <2> QED  BY <1>13, <2>1, SilentPoll DEF ReactDirectFails, PostFrame, Reacts
<1>14. CASE ReactDirectRefused(c)
  BY <1>4, <1>14, OwnMessages DEF ReactDirectRefused, Reacts, ErrorTexts
<1>15. CASE LeaveLoop(c)
  BY <1>1, <1>15, KeepTypes, SilentPoll DEF LeaveLoop, ReplyFrame
<1>16. CASE PanicOnRead(c)
  BY <1>1, <1>16, KeepTypes, SilentPoll DEF PanicOnRead, ReplyFrame, Reacts
<1> QED
  BY <1>7, <1>8, <1>9, <1>10, <1>11, <1>12, <1>13, <1>14, <1>15, <1>16 DEF React

\* A message that leaves the channel is one that was put there.
LEMMA ChannelHead ==
  ASSUME TypeInv, NEW c \in Conns, chan[c] # <<>>
  PROVE  Head(chan[c]) \in Outgoing /\ Tail(chan[c]) \in Seq(Outgoing)
<1>1. chan[c] \in Seq(Outgoing)  BY DEF TypeInv, TypeOK
<1> HIDE DEF Outgoing
<1> QED  BY <1>1

LEMMA ForwardTypes ==
  ASSUME TypeInv, NEW c \in Conns, Forward(c) \/ Resume(c)
  PROVE  TypeInv'
<1> USE DEF clientVars
<1>1. TypeOK  BY DEF TypeInv
<1>2. name \in [Conns -> Names \cup {NoName}]  BY DEF TypeInv, TypeOK
<1>3. CASE Forward(c)
  <2>1. name[c] \in Names  BY <1>3 DEF Forward, Serving, TypeInv, NamedOK
  <2>2. chan' \in [Conns -> Seq(Outgoing)]
    BY <1>1, <1>3, ChannelHead, ChannelTypes DEF Forward
  <2> QED
    BY <1>2, <1>3, <2>1, <2>2, ChannelHead, SendingPoll DEF Forward, Continuations
<1>4. CASE Resume(c)
  <2>1. /\ pending[c].msg \in Outgoing
        /\ pending[c].then \in Continuations
        /\ pending[c].then # "close" => name[c] \in Names
    <3>1. pending[c] \in Write /\ (pending[c].then # "close" => name[c] \in Names)
      BY <1>4 DEF Resume, TypeInv, NamedOK
    <3> HIDE DEF Outgoing, Continuations
    <3> QED  BY <3>1 DEF Write
  <2>2. Sends(c, pending[c].msg, pending[c].then)  BY <1>4 DEF Resume, Sends
  <2> QED  BY <1>1, <1>2, <1>4, <2>1, <2>2, KeepTypes, SendingPoll DEF Resume
<1> QED  BY <1>3, <1>4

LEMMA ServerTypes ==
  ASSUME TypeInv, NEW c \in Conns, Server(c)
  PROVE  TypeInv'
<1> USE DEF clientVars, socketVars, handlerVars
<1>1. TypeOK /\ NamedOK  BY DEF TypeInv
<1>2. LoopTypeOK'
  <2>1. LoopNext
    BY DEF Server, SpawnHandler, TurnAwayNow, TurnAwayFails, TurnAwayLater, ReapHandler,
           CancelHandler, LoopNext
  <2> QED  BY <1>1, <2>1, LoopTypeStep DEF TypeOK
<1>3. CASE SpawnHandler(c)
  BY <1>1, <1>2, <1>3
  DEF SpawnHandler, TypeInv, TypeOK, SocketTypeOK, NamedOK, PcStates
<1>4. CASE TurnAwayNow(c)
  <2>1. /\ wire' \in [Conns -> Seq(Outgoing)]
        /\ \A d \in Conns : Len(wire'[d]) >= Len(wire[d])
    BY <1>1, <1>4, WireTypes, OwnMessages DEF TurnAwayNow, ErrorTexts
  <2>2. \A d \in Conns : seen[d] <= Len(wire'[d])
    BY <1>1, <2>1 DEF TypeOK, SocketTypeOK
  <2> QED
    BY <1>1, <1>2, <1>4, <2>1, <2>2 DEF TurnAwayNow, TypeInv, TypeOK, SocketTypeOK, NamedOK
<1>5. CASE TurnAwayFails(c)
  BY <1>1, <1>2, <1>5 DEF TurnAwayFails, WriteFails, TypeInv, TypeOK, SocketTypeOK, NamedOK
<1>6. CASE TurnAwayLater(c)
  BY <1>1, <1>2, <1>6 DEF TurnAwayLater, TypeInv, TypeOK, SocketTypeOK, NamedOK
<1>7. CASE ReapHandler(c)
  BY <1>1, <1>2, <1>7 DEF ReapHandler, TypeInv, TypeOK, SocketTypeOK, NamedOK
<1>8. CASE CancelHandler(c)
  <2>1. chan' \in [Conns -> Seq(Outgoing)]
    BY <1>1, <1>8, KeepTypes DEF CancelHandler
  <2> QED
    BY <1>1, <1>2, <1>8, <2>1
    DEF CancelHandler, TypeInv, TypeOK, SocketTypeOK, NamedOK, PcStates
<1> QED  BY <1>3, <1>4, <1>5, <1>6, <1>7, <1>8 DEF Server

\* What a client may send is a line.
LEMMA MaySendLines ==
  ASSUME NEW c \in Conns, sent \in [Conns -> Seq(Line)]
  PROVE  MaySend(c) \subseteq Line
<1> HIDE DEF Line
<1>1. Len(sent[c]) < MaxSends => Len(sent[c]) + 1 \in 1..MaxSends
  BY MaxSendsAssumption
<1>2. \A k \in 1..MaxSends : Requests[c][k] \subseteq Line
  BY RequestsAssumption
<1> QED  BY <1>1, <1>2 DEF MaySend

LEMMA ClientTypes ==
  ASSUME TypeInv, NEW c \in Conns, Client(c) \/ Reader(c)
  PROVE  TypeInv'
<1> USE DEF loopVars, handlerVars
<1>1. TypeOK /\ NamedOK  BY DEF TypeInv
<1>2. CASE Dial(c) /\ UNCHANGED handlerVars
  <2>1. LoopTypeOK'
    BY <1>1, <1>2, LoopTypeStep DEF Dial, LoopNext, TypeOK
  <2> QED
    BY <1>1, <1>2, <2>1 DEF Dial, TypeInv, TypeOK, SocketTypeOK, NamedOK, PeerStates
<1>3. ASSUME NEW line \in MaySend(c), ClientSends(c, line), UNCHANGED <<loopVars, handlerVars>>
      PROVE  TypeInv'
  <2>1. /\ sent \in [Conns -> Seq(Line)]
        /\ line \in Line
        /\ sent' = [sent EXCEPT ![c] = Append(sent[c], line)]
        /\ Len(sent[c]) < MaxSends
    BY <1>1, <1>3, MaySendLines DEF ClientSends, TypeOK, SocketTypeOK
  <2>2. /\ Append(sent[c], line) \in Seq(Line)
        /\ Len(Append(sent[c], line)) = Len(sent[c]) + 1
        /\ Len(sent[c]) \in Nat
    BY <2>1
  <2> HIDE DEF Line
  <2>3. /\ sent' \in [Conns -> Seq(Line)]
        /\ \A d \in Conns : Len(sent'[d]) = Len(sent[d]) + (IF d = c THEN 1 ELSE 0)
    BY <2>1, <2>2
  <2>4. \A d \in Conns : taken[d] <= Len(sent'[d]) /\ Len(sent'[d]) <= MaxSends
    BY <1>1, <2>1, <2>2, <2>3, MaxSendsAssumption DEF TypeOK, SocketTypeOK
  <2> QED
    BY <1>1, <1>3, <2>3, <2>4
    DEF ClientSends, TypeInv, TypeOK, SocketTypeOK, NamedOK, LoopTypeOK
<1>4. CASE (ClientCloses(c) \/ ClientVanishes(c)) /\ UNCHANGED <<loopVars, handlerVars>>
  BY <1>1, <1>4
  DEF ClientCloses, ClientVanishes, PeerStates, TypeInv, TypeOK, SocketTypeOK, NamedOK,
      LoopTypeOK
<1>5. CASE Reader(c)
  <2>1. \A d \in Conns : seen'[d] \in Nat /\ seen'[d] <= Len(wire[d])
    BY <1>1, <1>5, OutCapAssumption DEF Reader, ClientReads, HasRoom, TypeOK, SocketTypeOK
  <2> QED
    BY <1>1, <1>5, <2>1
    DEF Reader, ClientReads, TypeInv, TypeOK, SocketTypeOK, NamedOK, LoopTypeOK
<1> QED  BY <1>2, <1>3, <1>4, <1>5 DEF Client

LEMMA TypeStep == TypeInv /\ [Next]_vars => TypeInv'
<1> SUFFICES ASSUME TypeInv, [Next]_vars PROVE TypeInv'
  OBVIOUS
<1>1. CASE LoopAlone
  <2>1. LoopTypeOK'  BY <1>1, LoopTypeStep DEF LoopAlone, LoopNext, TypeInv, TypeOK
  <2> QED
    BY <1>1, <2>1
    DEF LoopAlone, socketVars, handlerVars, TypeInv, TypeOK, SocketTypeOK, NamedOK
<1>2. CASE UNCHANGED vars
  BY <1>2
  DEF vars, loopVars, socketVars, handlerVars, TypeInv, TypeOK, SocketTypeOK, NamedOK,
      LoopTypeOK
<1> QED
  BY <1>1, <1>2, JoinTypes, ReactTypes, ForwardTypes, ServerTypes, ClientTypes
  DEF Next, Handler

LEMMA TypeInvCorrect == Spec => []TypeInv
<1>1. Init => TypeInv
  <2> SUFFICES ASSUME Init PROVE TypeInv
    OBVIOUS
  <2>1. <<>> \in Seq(Conns) /\ <<>> \in Seq(Line) /\ <<>> \in Seq(Outgoing)
    OBVIOUS
  <2>2. LoopTypeOK  BY <2>1 DEF Init, LoopInit, LoopTypeOK, ServerStates, TaskStates
  <2>3. SocketTypeOK
    BY <2>1, MaxSendsAssumption DEF Init, SocketInit, SocketTypeOK, PeerStates
  <2> QED
    BY <2>1, <2>2, <2>3 DEF Init, TypeInv, TypeOK, NamedOK, PcStates
<1> QED  BY <1>1, TypeStep, PTL DEF Spec

\* Type correctness of the whole single-threaded server.
THEOREM TypeCorrect == Spec => []TypeOK
  BY TypeInvCorrect, PTL DEF TypeInv

-----------------------------------------------------------------------------
(***************************************************************************)
(* Unique names.  join_client looks the name up before it writes Welcome   *)
(* and handle_client inserts it after.  With other handlers between the    *)
(* two a name could be given twice; what rules that out is that the first  *)
(* write to a socket finds room.  NamesInv says so: nothing is written to  *)
(* a connection before its handler answers the Join, so no handler is ever *)
(* suspended in its Welcome, and a handler in its loop owns the entry of   *)
(* its name.                                                               *)
(***************************************************************************)
NamesInv ==
  /\ \A c \in Conns : task[c] \in Unanswered => pc[c] = "idle" /\ wire[c] = <<>>
  /\ \A c \in Conns : pc[c] = "joining" => wire[c] = <<>>
  /\ \A c \in Conns : pc[c] = "writing" => pending[c].then # "welcome"
  /\ OwnEntry

\* How a poll of c may touch the map: register a free name, leave it alone,
\* or remove its own entry on the way out.
Outcome(c) ==
  \/ /\ name'[c] \in Names \ Registered
     /\ registry' = [registry EXCEPT ![name'[c]] = c]
  \/ /\ UNCHANGED registry
     /\ InLoop(c)' => InLoop(c) /\ name'[c] = name[c]
  \/ /\ InLoop(c) /\ ~InLoop(c)'
     /\ registry' = [registry EXCEPT ![name[c]] = NoConn]

LEMMA PollNames ==
  ASSUME TypeInv, BacklogConsistent, NamesInv, [LoopNext]_loopVars,
         NEW c \in Conns, pc[c] # "idle", OthersStay(c), Outcome(c),
         pc'[c] \notin {"idle", "joining"},
         pc'[c] = "writing" => pending'[c].then # "welcome",
         \A d \in Conns \ {c} : name'[d] = name[d] /\ wire'[d] = wire[d]
  PROVE  NamesInv'
<1>1. LoopTypeOK  BY DEF TypeInv, TypeOK
<1>2. \A d \in Conns : task'[d] \in Unanswered => pc'[d] = "idle" /\ wire'[d] = <<>>
  BY <1>1, NeverFreshAgain DEF NamesInv, OthersStay
<1>3. \A d \in Conns : pc'[d] = "joining" => wire'[d] = <<>>
  BY DEF NamesInv, OthersStay
<1>4. \A d \in Conns : pc'[d] = "writing" => pending'[d].then # "welcome"
  BY DEF NamesInv, OthersStay
<1>5. ASSUME NEW d \in Conns, InLoop(d)' PROVE registry'[name'[d]] = d
  <2>1. /\ registry \in [Names -> Conns \cup {NoConn}]
        /\ \A e \in Conns : InLoop(e) => name[e] \in Names /\ registry[name[e]] = e
    BY DEF TypeInv, TypeOK, NamedOK, NamesInv, OwnEntry, InLoop
  <2>2. CASE d = c
    BY <1>5, <2>1, <2>2 DEF Outcome
  <2>3. CASE d # c
    <3>1. InLoop(d) /\ name'[d] = name[d]
      BY <1>5, <2>3 DEF InLoop, OthersStay
    <3>2. name[d] \in Names /\ registry[name[d]] = d  BY <2>1, <3>1
    <3>3. name[d] \in Registered
      BY <3>2, NoConnAssumption DEF Registered
    <3>4. InLoop(c) => name[c] # name[d]  BY <2>1, <2>3, <3>2
    <3> QED  BY <2>1, <3>1, <3>2, <3>3, <3>4 DEF Outcome
  <2> QED  BY <2>2, <2>3
<1> QED  BY <1>2, <1>3, <1>4, <1>5 DEF NamesInv, OwnEntry

\* Without room there would be a gap between the lookup and the insertion.
LEMMA SendsNames ==
  ASSUME TypeInv, BacklogConsistent, NamesInv,
         NEW c \in Conns, NEW msg \in Outgoing, NEW then \in Continuations,
         Sends(c, msg, then), pc[c] # "idle",
         then = "welcome" => wire[c] = <<>> /\ name'[c] \in Names \ Registered,
         then \in {"reply", "kick", "forward"} => InLoop(c),
         then # "welcome" => name'[c] = name[c],
         \A d \in Conns \ {c} : name'[d] = name[d]
  PROVE  NamesInv'
<1>1. TypeOK  BY DEF TypeInv
<1>2. [LoopNext]_loopVars  BY SendsLoop
<1>3. \A d \in Conns \ {c} : wire'[d] = wire[d]
  BY <1>1 DEF Sends, Completes, Suspends, WriteLands, WriteFails, TypeOK, SocketTypeOK
<1>4. ASSUME NEW ok \in BOOLEAN, Continues(c, then, ok)
      PROVE  /\ OthersStay(c) /\ Outcome(c)
             /\ pc'[c] \in {"serving", "ended"}
  <2>1. CASE then = "welcome" /\ ok /\ Serves(c) /\ registry' = [registry EXCEPT ![name'[c]] = c]
    BY <1>1, <2>1, ServesTypes DEF Outcome
  <2>2. CASE then \in {"reply", "forward"} /\ Serves(c) /\ UNCHANGED registry
    BY <1>1, <2>2, ServesTypes DEF Outcome
  <2>3. CASE then \in {"kick", "reply"} /\ Leaves(c)
    BY <1>1, <2>3, LeavesTypes, EndsTypes DEF Leaves, Outcome, InLoop
  <2>4. CASE Ends(c) /\ UNCHANGED registry
    BY <1>1, <2>4, EndsTypes DEF Outcome, InLoop
  <2> QED  BY <1>4, <2>1, <2>2, <2>3, <2>4 DEF Continues
<1>5. CASE Completes(c, msg, then)
  <2>1. OthersStay(c) /\ Outcome(c) /\ pc'[c] \in {"serving", "ended"}
    BY <1>4, <1>5 DEF Completes
  <2> QED  BY <1>2, <1>3, <2>1, PollNames
<1>6. CASE Suspends(c, msg, then) /\ (then \in {"reply", "kick", "forward"} \/ ~HasRoom(c))
  <2>1. then # "welcome"
    <3>1. ASSUME wire[c] = <<>> PROVE HasRoom(c)
      <4>1. seen[c] = 0 /\ Len(wire[c]) = 0
        BY <1>1, <3>1 DEF TypeOK, SocketTypeOK
      <4> QED  BY <4>1, OutCapAssumption DEF HasRoom
    <3> QED  BY <1>6, <3>1
  <2>2. /\ pc'[c] = "writing" /\ pending'[c].then = then
        /\ OthersStay(c) /\ UNCHANGED registry
    BY <1>1, <1>6 DEF Suspends, TypeOK, OthersStay
  <2>3. Outcome(c)
    BY <2>1, <2>2 DEF Outcome, InLoop, Continuations
  <2> QED  BY <1>2, <1>3, <2>1, <2>2, <2>3, PollNames
<1> QED  BY <1>5, <1>6 DEF Sends

LEMMA SilentNames ==
  ASSUME TypeInv, BacklogConsistent, NamesInv, NEW c \in Conns,
         \/ Serves(c) /\ InLoop(c) /\ UNCHANGED registry
         \/ Leaves(c) /\ InLoop(c)
         \/ Ends(c) /\ UNCHANGED registry,
         pc[c] # "idle", UNCHANGED <<wire, name>>
  PROVE  NamesInv'
<1>1. [LoopNext]_loopVars  BY DEF Serves, Leaves, Ends, LoopNext
<1>2. /\ OthersStay(c) /\ Outcome(c)
      /\ pc'[c] \in {"serving", "ended"}
  BY ServesTypes, LeavesTypes, EndsTypes DEF TypeInv, Leaves, Outcome, InLoop
<1> QED  BY <1>1, <1>2, PollNames

LEMMA JoinNames ==
  ASSUME TypeInv, BacklogConsistent, NamesInv,
         NEW c \in Conns, Join(c) \/ JoinTimeout(c)
  PROVE  NamesInv'
<1>1. TypeOK  BY DEF TypeInv
<1>2. pc[c] = "joining" /\ wire[c] = <<>>
  BY DEF Join, JoinFreeName, JoinTakenName, JoinOtherMessage, JoinUnreadable, JoinEof,
         JoinTimeout, Joining, NamesInv
<1>3. ASSUME NEW t \in ErrorTexts, Sends(c, Error(t), "close"), UNCHANGED name
      PROVE  NamesInv'
  BY <1>1, <1>2, <1>3, OwnMessages, SendsNames DEF Continuations
<1>4. CASE JoinFreeName(c)
  <2>1. NextLine(c).name \in Names \ Registered
    <3>1. /\ HasLine(c)
          /\ taken[c] \in Nat /\ sent[c] \in Seq(Line)
          /\ NextLine(c).kind = "Join"
          /\ NextLine(c).name \notin Registered
      BY <1>1, <1>4 DEF JoinFreeName, Take, TypeOK, SocketTypeOK
    <3>2. NextLine(c) \in Line  BY <3>1 DEF NextLine, HasLine
    <3> QED  BY <3>1, <3>2 DEF Line, Plain, Unreadable
  <2>2. name'[c] = NextLine(c).name /\ \A d \in Conns \ {c} : name'[d] = name[d]
    BY <1>1, <1>4 DEF JoinFreeName, TypeOK
  <2> QED
    BY <1>1, <1>2, <1>4, <2>1, <2>2, OwnMessages, SendsNames DEF JoinFreeName, Continuations
<1>5. CASE JoinTakenName(c)  BY <1>3, <1>5 DEF JoinTakenName, ErrorTexts
<1>6. CASE JoinOtherMessage(c)  BY <1>3, <1>6 DEF JoinOtherMessage, ErrorTexts
<1>7. CASE JoinUnreadable(c)  BY <1>2, <1>7, SilentNames DEF JoinUnreadable
<1>8. CASE JoinEof(c)  BY <1>3, <1>8 DEF JoinEof, ErrorTexts
<1>9. CASE JoinTimeout(c)  BY <1>3, <1>9 DEF JoinTimeout, ErrorTexts
<1> QED  BY <1>4, <1>5, <1>6, <1>7, <1>8, <1>9 DEF Join

LEMMA ReactNames ==
  ASSUME TypeInv, BacklogConsistent, NamesInv,
         NEW c \in Conns, React(c)
  PROVE  NamesInv'
<1>1. TypeOK  BY DEF TypeInv
<1>2. pc[c] = "serving" /\ InLoop(c)
  BY DEF React, ReactPing, ReactListUsers, ReactJoin, ReactBroadcast, ReactBroadcastFails,
         ReactDirect, ReactDirectFails, ReactDirectRefused, LeaveLoop, PanicOnRead,
         Reacts, Serving, InLoop
<1>3. ASSUME NEW msg \in Outgoing, NEW then \in {"reply", "kick"}, Sends(c, msg, then),
             ReplyFrame(c)
      PROVE  NamesInv'
  BY <1>2, <1>3, SendsNames DEF ReplyFrame, Continuations
<1>4. CASE ReactPing(c)  BY <1>3, <1>4, OwnMessages DEF ReactPing
<1>5. CASE ReactListUsers(c)  BY <1>1, <1>3, <1>5, OwnMessages DEF ReactListUsers
<1>6. CASE ReactJoin(c)  BY <1>3, <1>6, OwnMessages DEF ReactJoin, ErrorTexts
<1>7. CASE ReactBroadcast(c)  BY <1>2, <1>7, SilentNames DEF ReactBroadcast, PostFrame
<1>8. CASE ReactBroadcastFails(c)
  BY <1>2, <1>8, SilentNames DEF ReactBroadcastFails, PostFrame
<1>9. CASE ReactDirect(c)  BY <1>2, <1>9, SilentNames DEF ReactDirect, PostFrame
<1>10. CASE ReactDirectFails(c)
  BY <1>2, <1>10, SilentNames DEF ReactDirectFails, PostFrame
<1>11. CASE ReactDirectRefused(c)
  BY <1>3, <1>11, OwnMessages DEF ReactDirectRefused, ErrorTexts
<1>12. CASE LeaveLoop(c)  BY <1>2, <1>12, SilentNames DEF LeaveLoop, ReplyFrame
<1>13. CASE PanicOnRead(c)  BY <1>2, <1>13, SilentNames DEF PanicOnRead, ReplyFrame
<1> QED
  BY <1>4, <1>5, <1>6, <1>7, <1>8, <1>9, <1>10, <1>11, <1>12, <1>13 DEF React

LEMMA ForwardNames ==
  ASSUME TypeInv, BacklogConsistent, NamesInv,
         NEW c \in Conns, Forward(c) \/ Resume(c)
  PROVE  NamesInv'
<1>1. CASE Forward(c)
  <2>1. pc[c] = "serving" /\ InLoop(c)  BY <1>1 DEF Forward, Serving, InLoop
  <2> QED  BY <1>1, <2>1, ChannelHead, SendsNames DEF Forward, Continuations
<1>2. CASE Resume(c)
  <2>1. pc[c] = "writing"  BY <1>2 DEF Resume
  <2>2. /\ pending[c].msg \in Outgoing
        /\ pending[c].then \in Continuations
        /\ pending[c].then # "welcome"
    <3>1. pending[c] \in Write /\ pending[c].then # "welcome"
      BY <2>1 DEF TypeInv, NamedOK, NamesInv
    <3> HIDE DEF Outgoing, Continuations
    <3> QED  BY <3>1 DEF Write
  <2>3. Sends(c, pending[c].msg, pending[c].then)  BY <1>2 DEF Resume, Sends
  <2>4. pending[c].then \in {"reply", "kick", "forward"} => InLoop(c)
    BY <2>1 DEF InLoop
  <2> QED  BY <1>2, <2>1, <2>2, <2>3, <2>4, SendsNames DEF Resume
<1> QED  BY <1>1, <1>2

\* run_server's own steps and the clients' leave the handlers in their loops
\* and the map alone.
LEMMA OutsideNames ==
  ASSUME TypeInv, BacklogConsistent, NamesInv, [LoopNext]_loopVars,
         UNCHANGED <<name, registry>>,
         \A d \in Conns : InLoop(d)' => InLoop(d),
         \A d \in Conns : pc'[d] = pc[d] \/ pc'[d] = "ended"
                            \/ (pc'[d] = "joining" /\ wire'[d] = <<>>),
         \A d \in Conns : pc'[d] = "writing" => pending'[d] = pending[d],
         \A d \in Conns : wire'[d] = wire[d] \/ pc'[d] # "joining",
         \A d \in Conns : task'[d] \in Unanswered => pc'[d] = pc[d] /\ wire'[d] = wire[d]
  PROVE  NamesInv'
<1>1. \A d \in Conns : task'[d] \in Unanswered => pc'[d] = "idle" /\ wire'[d] = <<>>
  BY NeverFreshAgain DEF NamesInv, TypeInv, TypeOK
<1> QED  BY <1>1 DEF NamesInv, OwnEntry

LEMMA ServerNames ==
  ASSUME TypeInv, BacklogConsistent, NamesInv, NEW c \in Conns, Server(c)
  PROVE  NamesInv'
<1> USE DEF socketVars, handlerVars, clientVars
<1>1. TypeOK /\ LoopTypeOK  BY DEF TypeInv, TypeOK
<1>2. [LoopNext]_loopVars
  BY DEF Server, SpawnHandler, TurnAwayNow, TurnAwayFails, TurnAwayLater, ReapHandler,
         CancelHandler, LoopNext
<1>3. ASSUME Accepting(c) PROVE task[c] = "queued"
  BY <1>1, <1>3 DEF Accepting, LoopTypeOK, BacklogConsistent
<1>4. CASE SpawnHandler(c)
  <2>1. task[c] = "queued" /\ pc[c] = "idle" /\ wire[c] = <<>>
    BY <1>3, <1>4 DEF SpawnHandler, Spawn, NamesInv, Unanswered
  <2>2. task'[c] = "running"
    BY <1>1, <1>4 DEF SpawnHandler, Spawn, LoopTypeOK
  <2> QED
    BY <1>1, <1>2, <1>4, <2>1, <2>2, OutsideNames
    DEF SpawnHandler, InLoop, TypeOK, Unanswered
<1>5. CASE TurnAwayNow(c)
  <2>1. task[c] \in Unanswered
    BY <1>3, <1>5 DEF TurnAwayNow, RejectSent, Rejecting, Unanswered
  <2>2. pc[c] = "idle"  BY <2>1 DEF NamesInv
  <2>3. task'[c] = "refused"
    BY <1>1, <1>5 DEF TurnAwayNow, RejectSent, LoopTypeOK
  <2>4. \A d \in Conns \ {c} : wire'[d] = wire[d]
    BY <1>1, <1>5 DEF TurnAwayNow, WriteLands, TypeOK, SocketTypeOK
  <2> QED
    BY <1>2, <1>5, <2>2, <2>3, <2>4, OutsideNames DEF TurnAwayNow, InLoop, Unanswered
<1>6. CASE TurnAwayFails(c) \/ TurnAwayLater(c) \/ ReapHandler(c)
  BY <1>2, <1>6, OutsideNames
  DEF TurnAwayFails, WriteFails, TurnAwayLater, ReapHandler, InLoop
<1>7. CASE CancelHandler(c)
  <2>1. /\ pc'[c] = "ended" /\ OthersStay(c)
        /\ task'[c] = "cancelled"
    BY <1>1, <1>7 DEF CancelHandler, Cancel, TypeOK, LoopTypeOK, OthersStay
  <2> QED
    BY <1>2, <1>7, <2>1, OutsideNames DEF CancelHandler, InLoop, OthersStay, Unanswered
<1> QED  BY <1>4, <1>5, <1>6, <1>7 DEF Server

LEMMA NamesStep ==
  TypeInv /\ BacklogConsistent /\ NamesInv /\ [Next]_vars => NamesInv'
<1> SUFFICES ASSUME TypeInv, BacklogConsistent, NamesInv, [Next]_vars PROVE NamesInv'
  OBVIOUS
<1>1. CASE LoopAlone
  BY <1>1, LoopStep, OutsideNames DEF LoopAlone, socketVars, handlerVars, InLoop
<1>2. ASSUME NEW c \in Conns, Client(c) \/ Reader(c) PROVE NamesInv'
  <2>1. UNCHANGED <<pc, pending, name, registry, wire>>
    BY <1>2 DEF Client, Reader, Dial, ClientSends, ClientCloses, ClientVanishes,
                ClientReads, handlerVars
  <2> QED  BY <2>1, LoopStep, OutsideNames DEF InLoop
<1>3. CASE UNCHANGED vars
  BY <1>3, LoopStep, OutsideNames DEF vars, socketVars, handlerVars, InLoop
<1> QED
  BY <1>1, <1>2, <1>3, JoinNames, ReactNames, ForwardNames, ServerNames DEF Next, Handler

LEMMA NamesHold == Spec => []NamesInv
<1>1. Init => NamesInv
  BY DEF Init, LoopInit, SocketInit, NamesInv, OwnEntry, InLoop
<1> QED
  BY <1>1, NamesStep, TypeInvCorrect, ImplementsLoop, BacklogHolds, PTL DEF Spec

\* A handler in its loop is the one its name leads to, in every reachable
\* state: nobody else's entry is overwritten or removed.
THEOREM EntriesOwned == Spec => []OwnEntry
<1>1. NamesInv => OwnEntry  BY DEF NamesInv
<1> QED  BY <1>1, NamesHold, PTL

\* No two clients are ever served under one name.
THEOREM NamesUnique == Spec => []UniqueNames
<1>1. OwnEntry => UniqueNames  BY DEF OwnEntry, UniqueNames
<1> QED  BY <1>1, EntriesOwned, PTL
=============================================================================

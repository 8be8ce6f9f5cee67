-------------------- MODULE SingleThreadedDeliveryProofs --------------------
(***************************************************************************)
(* More about the single-threaded server: what its clients are written,    *)
(* in which order, whom the map forgets and why a client is dropped; that  *)
(* chat messages are not lost while a client is served, that the server    *)
(* implements the chat room, and that requests are answered one by one.    *)
(* For any connections, names and bounds.                                  *)
(***************************************************************************)
EXTENDS SingleThreadedProperties, SingleThreadedProofs, SelectionProofs, SequenceTheorems

-----------------------------------------------------------------------------
(***************************************************************************)
(* What a poll of a handler does, once for all invariants.                 *)
(***************************************************************************)

\* A message is written, or is not because the client is gone, or waits.
SendOutcome(c, msg, then) ==
  \/ /\ pc'[c] = "writing" /\ pending'[c] = [msg |-> msg, then |-> then]
     /\ UNCHANGED <<wire, registry>>
  \/ /\ WriteLands(c, msg)
     /\ \/ /\ then = "welcome" /\ pc'[c] = "serving"
           /\ registry' = [registry EXCEPT ![name'[c]] = c]
        \/ then \in {"reply", "forward"} /\ pc'[c] = "serving" /\ UNCHANGED registry
        \/ /\ then = "kick" /\ pc'[c] = "ended"
           /\ registry' = [registry EXCEPT ![name[c]] = NoConn]
        \/ then = "close" /\ pc'[c] = "ended" /\ UNCHANGED registry
  \/ /\ WriteFails(c) /\ pc'[c] = "ended"
     /\ \/ /\ then \in {"reply", "kick"}
           /\ registry' = [registry EXCEPT ![name[c]] = NoConn]
        \/ then \in {"close", "welcome", "forward"} /\ UNCHANGED registry

LEMMA SendsEffect ==
  ASSUME TypeOK, NEW c \in Conns, NEW msg, NEW then \in Continuations,
         Sends(c, msg, then)
  PROVE  OthersStay(c) /\ SendOutcome(c, msg, then)
<1>1. CASE Suspends(c, msg, then)
  <2>1. /\ pc'[c] = "writing" /\ pending'[c] = [msg |-> msg, then |-> then]
        /\ OthersStay(c) /\ UNCHANGED <<wire, registry>>
    BY <1>1 DEF Suspends, TypeOK, OthersStay
  <2> QED  BY <2>1 DEF SendOutcome
<1>2. ASSUME NEW ok \in BOOLEAN, Continues(c, then, ok)
      PROVE  /\ OthersStay(c)
             /\ \/ /\ ok /\ then = "welcome" /\ pc'[c] = "serving"
                   /\ registry' = [registry EXCEPT ![name'[c]] = c]
                \/ /\ ok /\ then \in {"reply", "forward"} /\ pc'[c] = "serving"
                   /\ UNCHANGED registry
                \/ /\ then = "kick" \/ (then = "reply" /\ ~ok)
                   /\ pc'[c] = "ended"
                   /\ registry' = [registry EXCEPT ![name[c]] = NoConn]
                \/ /\ then = "close" \/ (then \in {"welcome", "forward"} /\ ~ok)
                   /\ pc'[c] = "ended" /\ UNCHANGED registry
  BY <1>2, ServesTypes, EndsTypes DEF Continues, Leaves
<1>3. CASE WriteLands(c, msg) /\ Continues(c, then, TRUE)
  BY <1>2, <1>3 DEF SendOutcome
<1>4. CASE WriteFails(c) /\ Continues(c, then, FALSE)
  BY <1>2, <1>4 DEF SendOutcome
<1> QED  BY <1>1, <1>3, <1>4 DEF Sends, Completes

\* What a client hears that sends something out of place.
Unexpected == Error("Unexpected message received")

\* The ways a poll begins.  A refusal before the Join is answered:
Refuses(c) ==
  /\ pc[c] = "joining"
  /\ \E t \in ErrorTexts :
       /\ Sends(c, Error(t), "close")
       /\ Error(t) = Unexpected => Take(c) /\ NextLine(c).kind # "Join"
  /\ KeepChannel(c) /\ UNCHANGED name

\* an answer to a request, which makes a client that joins again leave;
Answers(c) ==
  /\ pc[c] = "serving" /\ Take(c)
  /\ \E msg \in Outgoing, then \in {"reply", "kick"} :
       /\ Sends(c, msg, then)
       /\ msg.kind \notin {"Welcome", "Message"} /\ IsReply(NextLine(c).kind, msg.kind)
       /\ then = "kick" => NextLine(c).kind = "Join"
       /\ then = "reply" => msg # Unexpected
  /\ KeepChannel(c) /\ UNCHANGED name

\* a message for clients that are served;
Served(c) == {d \in Audience(c) : InLoop(d)}

Posts(c) ==
  /\ pc[c] = "serving" /\ Take(c) /\ NextLine(c).kind \in {"Broadcast", "SendDM"}
  /\ \E to \in SUBSET Served(c) : chan' = Posted(c, to)
  /\ Serves(c) /\ UNCHANGED <<registry, wire, name>>

\* one that meets a client whose handler is gone;
PostFails(c) ==
  /\ pc[c] = "serving" /\ Take(c) /\ NextLine(c).kind \in {"Broadcast", "SendDM"}
  /\ \E n \in Registered : ~InLoop(registry[n])
  /\ \E to \in SUBSET Served(c) : chan' = [Posted(c, to) EXCEPT ![c] = <<>>]
  /\ Leaves(c) /\ UNCHANGED <<wire, name>>

\* nothing to read any more, from the socket or the channel.
GivesUp(c) ==
  /\ pc[c] = "serving"
  /\ \/ Take(c) /\ NextLine(c).kind = "Garbage"
     \/ peer[c] \in {"half", "gone"} /\ UNCHANGED taken
     \/ (\A n \in Names : registry[n] # c) /\ UNCHANGED taken
  /\ Leaves(c) /\ KeepChannel(c) /\ UNCHANGED <<wire, name>>

Polls(c) ==
  \/ JoinFreeName(c) \/ Refuses(c) \/ JoinUnreadable(c)
  \/ Answers(c) \/ Posts(c) \/ PostFails(c) \/ GivesUp(c) \/ PanicOnRead(c)
  \/ Forward(c) \/ Resume(c)

\* What all of them have in common.
PollFrame(c) ==
  /\ ~Down /\ pc[c] \in {"joining", "serving", "writing"}
  /\ UNCHANGED <<peer, sent, seen>>
  /\ UNCHANGED taken \/ Take(c)
  /\ \A d \in Conns \ {c} : name'[d] = name[d]

LEMMA ServedConns ==
  ASSUME TypeOK, NEW c \in Conns
  PROVE  Served(c) \subseteq Conns /\ \A d \in Served(c) : InLoop(d)
BY DEF Served, Audience, Registered, TypeOK

LEMMA HandlerPolls ==
  ASSUME TypeInv, NEW c \in Conns, Handler(c) \/ JoinTimeout(c)
  PROVE  Polls(c) /\ PollFrame(c)
<1> USE DEF clientVars
<1>1. /\ name \in [Conns -> Names \cup {NoName}]
      /\ registry \in [Names -> Conns \cup {NoConn}]
      /\ chan \in [Conns -> Seq(Outgoing)]
  BY DEF TypeInv, TypeOK
<1>2. ASSUME Joining(c), NEW t \in ErrorTexts, Sends(c, Error(t), "close"), JoinFrame(c),
             UNCHANGED name, UNCHANGED taken \/ Take(c),
             t = "Unexpected message received" => Take(c) /\ NextLine(c).kind # "Join"
      PROVE  Polls(c) /\ PollFrame(c)
  <2>1. Error(t) = Unexpected => t = "Unexpected message received"  BY DEF Error, Unexpected
  <2>2. Refuses(c)  BY <1>2, <2>1 DEF Joining, JoinFrame, Refuses
  <2> QED  BY <1>2, <2>2 DEF Joining, JoinFrame, Polls, PollFrame
<1>3. CASE JoinFreeName(c)
  BY <1>1, <1>3 DEF JoinFreeName, Joining, JoinFrame, Polls, PollFrame
<1>4. CASE JoinTakenName(c)  BY <1>2, <1>4 DEF JoinTakenName, ErrorTexts
<1>5. CASE JoinOtherMessage(c)  BY <1>2, <1>5 DEF JoinOtherMessage, ErrorTexts
<1>6. CASE JoinUnreadable(c)
  BY <1>6 DEF JoinUnreadable, Joining, JoinFrame, Polls, PollFrame
<1>7. CASE JoinEof(c)  BY <1>2, <1>7 DEF JoinEof, ErrorTexts
<1>8. CASE JoinTimeout(c)  BY <1>2, <1>8 DEF JoinTimeout, ErrorTexts
<1>9. ASSUME Serving(c), Take(c), NEW msg \in Outgoing, NEW then \in {"reply", "kick"},
             Sends(c, msg, then), msg.kind \notin {"Welcome", "Message"},
             IsReply(NextLine(c).kind, msg.kind),
             then = "kick" => NextLine(c).kind = "Join", ReplyFrame(c),
             then = "reply" => msg # Unexpected
      PROVE  Polls(c) /\ PollFrame(c)
  <2>1. Answers(c)  BY <1>9 DEF Serving, ReplyFrame, Answers
  <2> QED  BY <1>9, <2>1 DEF Serving, ReplyFrame, Polls, PollFrame
<1>10. \A t \in ErrorTexts :
         /\ Error(t).kind \notin {"Welcome", "Message"}
         /\ NextLine(c).kind \notin {"Ping", "ListUsers"}
              => IsReply(NextLine(c).kind, Error(t).kind)
  BY DEF Error, IsReply
<1>11. CASE ReactPing(c)
  <2>1. Pong.kind \notin {"Welcome", "Message"} /\ IsReply("Ping", Pong.kind)
    BY DEF Pong, IsReply
  <2>2. Pong # Unexpected  BY DEF Pong, Unexpected, Error
  <2> QED  BY <2>2, <1>9, <1>11, <2>1, OwnMessages DEF ReactPing, Reacts
<1>12. CASE ReactListUsers(c)
  <2>1. UserList(Registered) \in Outgoing  BY OwnMessages DEF TypeInv
  <2>2. /\ UserList(Registered).kind \notin {"Welcome", "Message"}
        /\ IsReply("ListUsers", UserList(Registered).kind)
        /\ UserList(Registered) # Unexpected
    BY DEF UserList, IsReply, Unexpected, Error
  <2> QED  BY <1>9, <1>12, <2>1, <2>2 DEF ReactListUsers, Reacts
<1>13. CASE ReactJoin(c)
  BY <1>9, <1>10, <1>13, OwnMessages DEF ReactJoin, Reacts, ErrorTexts
<1>14. CASE ReactDirectRefused(c)
  <2>1. /\ Error("Cannot send a DM to yourself") # Unexpected
        /\ Error("User does not exist") # Unexpected
    BY DEF Error, Unexpected
  <2> QED  BY <1>9, <1>10, <1>14, <2>1, OwnMessages DEF ReactDirectRefused, Reacts, ErrorTexts
<1>16. CASE ReactBroadcast(c)
  <2>1. Audience(c) \in SUBSET Served(c)  BY <1>16 DEF ReactBroadcast, Served
  <2>2. Posts(c)
    BY <1>16, <2>1 DEF ReactBroadcast, Reacts, Serving, PostFrame, Posts
  <2> QED
    BY <1>16, <2>2 DEF ReactBroadcast, Reacts, Serving, PostFrame, Polls, PollFrame
<1>17. CASE ReactBroadcastFails(c)
  <2>1. \E n \in Registered : ~InLoop(registry[n])
    BY <1>17 DEF ReactBroadcastFails, Audience
  <2>2. PICK to \in SUBSET {d \in Audience(c) : InLoop(d)} :
          chan' = [Posted(c, to) EXCEPT ![c] = <<>>]
    BY <1>17 DEF ReactBroadcastFails
  <2>3. PostFails(c)
    BY <1>17, <2>1, <2>2
    DEF Served, ReactBroadcastFails, Reacts, Serving, PostFrame, PostFails
  <2> QED
    BY <1>17, <2>3 DEF ReactBroadcastFails, Reacts, Serving, PostFrame, Polls, PollFrame
<1>18. CASE ReactDirect(c)
  <2>1. {registry[NextLine(c).name]} \in SUBSET Served(c)
    BY <1>18 DEF ReactDirect, Served, Audience
  <2>2. Posts(c)
    BY <1>18, <2>1 DEF ReactDirect, Reacts, Serving, PostFrame, Posts
  <2> QED
    BY <1>18, <2>2 DEF ReactDirect, Reacts, Serving, PostFrame, Polls, PollFrame
<1>19. CASE ReactDirectFails(c)
  <2>1. \E n \in Registered : ~InLoop(registry[n])
    BY <1>19 DEF ReactDirectFails
  <2>2. Posted(c, {}) = chan
    <3> HIDE DEF Outgoing
    <3> QED  BY <1>1 DEF Posted
  <2>3. PostFails(c)
    BY <1>19, <2>1, <2>2 DEF ReactDirectFails, Reacts, Serving, PostFrame, PostFails
  <2> QED
    BY <1>19, <2>3 DEF ReactDirectFails, Reacts, Serving, PostFrame, Polls, PollFrame
<1>20. CASE LeaveLoop(c)
  BY <1>20
  DEF LeaveLoop, ChannelClosed, AtEof, Serving, ReplyFrame, GivesUp, Polls, PollFrame
<1>21. CASE PanicOnRead(c)
  BY <1>21 DEF PanicOnRead, Reacts, Serving, ReplyFrame, Polls, PollFrame
<1>22. CASE Forward(c)  BY <1>22 DEF Forward, Serving, Polls, PollFrame
<1>23. CASE Resume(c)  BY <1>23 DEF Resume, Polls, PollFrame
<1> QED
  BY <1>3, <1>4, <1>5, <1>6, <1>7, <1>8, <1>11, <1>12, <1>13, <1>14, <1>16, <1>17, <1>18,
     <1>19, <1>20, <1>21, <1>22, <1>23
  DEF Handler, Join, React

\* A handler that resumes has a message and what follows it.
LEMMA ResumeSends ==
  ASSUME TypeInv, NEW c \in Conns, Resume(c)
  PROVE  /\ pc[c] = "writing"
         /\ pending[c].msg \in Outgoing /\ pending[c].then \in Continuations
         /\ Sends(c, pending[c].msg, pending[c].then)
<1>1. pc[c] = "writing" /\ pending[c] \in Write
  BY DEF Resume, TypeInv, NamedOK
<1>2. pending[c].msg \in Outgoing /\ pending[c].then \in Continuations
  <2> HIDE DEF Outgoing, Continuations
  <2> QED  BY <1>1 DEF Write
<1> QED  BY <1>1, <1>2 DEF Resume, Sends

-----------------------------------------------------------------------------
(***************************************************************************)
(* The first message decides.  A handler writes nothing before it answers  *)
(* the Join, then one Error or the Welcome, and Welcome never again: what  *)
(* goes through a channel is chat messages only, and those are only put in *)
(* the channel of a connection in the map, which has been welcomed.        *)
(***************************************************************************)
Welcomed(c) == wire[c] # <<>> /\ wire[c][1] = Welcome

\* What may be written to a client, depending on what it was written.
Fits(c, msg, then) ==
  /\ then = "close" => wire[c] = <<>> /\ msg.kind = "Error"
  /\ then = "welcome" => wire[c] = <<>> /\ msg = Welcome
  /\ then \notin {"close", "welcome"} => Welcomed(c) /\ msg # Welcome

FirstDecides(c) ==
  wire[c] # <<>> =>
    \/ wire[c][1] = Welcome /\ \A i \in 2..Len(wire[c]) : wire[c][i] # Welcome
    \/ wire[c][1].kind = "Error" /\ Len(wire[c]) = 1

Telling(c) ==
  /\ pc[c] = "joining" => wire[c] = <<>>
  /\ pc[c] = "serving" => Welcomed(c)
  /\ pc[c] = "writing" => Fits(c, pending[c].msg, pending[c].then)
  /\ FirstDecides(c)

OnlyChat(c) == \A i \in DOMAIN chan[c] : chan[c][i].kind = "Message"

StoryInv ==
  /\ \A c \in Conns : task[c] \in Unanswered => pc[c] = "idle" /\ wire[c] = <<>>
  /\ \A c \in Conns : Telling(c) /\ OnlyChat(c)
  /\ \A n \in Names, c \in Conns : registry[n] = c => Welcomed(c)

\* A message is added to what c was written.
LEMMA WireEffect ==
  ASSUME TypeOK, NEW c \in Conns, NEW msg, WriteLands(c, msg)
  PROVE  /\ \A d \in Conns \ {c} : wire'[d] = wire[d]
         /\ wire[c] \in Seq(Outgoing) /\ wire'[c] = Append(wire[c], msg)
  BY DEF WriteLands, TypeOK, SocketTypeOK

LEMMA AppendedAt ==
  ASSUME NEW S, NEW s \in Seq(S), NEW m \in S
  PROVE  /\ Append(s, m) \in Seq(S) /\ Append(s, m) # <<>>
         /\ Len(s) \in Nat /\ Len(Append(s, m)) = Len(s) + 1
         /\ \A i \in 1..Len(s) : Append(s, m)[i] = s[i]
         /\ Append(s, m)[Len(s) + 1] = m
         /\ s # <<>> => Len(s) >= 1
         /\ s = <<>> <=> Len(s) = 0
<1>1. /\ Append(s, m) \in Seq(S) /\ Len(s) \in Nat /\ Len(Append(s, m)) = Len(s) + 1
      /\ \A i \in 1..Len(s) : Append(s, m)[i] = s[i]
      /\ Append(s, m)[Len(s) + 1] = m
  OBVIOUS
<1>2. s = <<>> <=> Len(s) = 0  OBVIOUS
<1>3. Append(s, m) # <<>>  BY <1>1
<1> QED  BY <1>1, <1>2, <1>3

\* What fits keeps the story of the client it is written to.
LEMMA LandsTelling ==
  ASSUME TypeOK, NEW c \in Conns, NEW msg \in Outgoing, NEW then,
         WriteLands(c, msg), FirstDecides(c), Fits(c, msg, then)
  PROVE  /\ FirstDecides(c)'
         /\ then # "close" => Welcomed(c)'
         /\ Welcomed(c) => Welcomed(c)'
<1> DEFINE w == wire[c]
<1>1. w \in Seq(Outgoing) /\ wire'[c] = Append(w, msg)  BY WireEffect
<1>2. /\ wire'[c] # <<>> /\ Len(w) \in Nat /\ Len(wire'[c]) = Len(w) + 1
      /\ \A i \in 1..Len(w) : wire'[c][i] = w[i]
      /\ wire'[c][Len(w) + 1] = msg
      /\ w # <<>> => Len(w) >= 1
      /\ w = <<>> => Len(w) = 0
  <2> HIDE DEF Outgoing, w
  <2> QED  BY <1>1, AppendedAt
<1>3. CASE then = "close" \/ then = "welcome"
  BY <1>2, <1>3 DEF Fits, FirstDecides, Welcomed
<1>4. CASE then \notin {"close", "welcome"}
  <2>1. Len(w) >= 1 /\ w[1] = Welcome /\ msg # Welcome  BY <1>2, <1>4 DEF Fits, Welcomed
  <2>2. Welcome.kind # "Error"  BY DEF Welcome
  <2>3. \A i \in 2..Len(w) : w[i] # Welcome  BY <1>2, <2>1, <2>2 DEF FirstDecides
  <2>4. \A i \in 2..Len(wire'[c]) : wire'[c][i] # Welcome
    <3> TAKE i \in 2..Len(wire'[c])
    <3>1. i \in 2..Len(w) \/ i = Len(w) + 1  BY <1>2
    <3> QED  BY <1>2, <2>1, <2>3, <3>1
  <2> QED  BY <1>2, <2>1, <2>4 DEF FirstDecides, Welcomed
<1> QED  BY <1>3, <1>4

\* A poll of c that writes, or does not.
LEMMA PollStory ==
  ASSUME TypeInv, BacklogConsistent, StoryInv, [LoopNext]_loopVars,
         NEW c \in Conns, OthersStay(c), pc[c] # "idle",
         \A d \in Conns : OnlyChat(d)',
         \/ /\ UNCHANGED wire
            /\ pc'[c] = "ended" \/ (pc'[c] = "serving" /\ pc[c] = "serving")
            /\ \A n \in Names : registry'[n] \in {registry[n], NoConn}
         \/ \E msg \in Outgoing, then \in Continuations :
              Fits(c, msg, then) /\ SendOutcome(c, msg, then)
  PROVE  StoryInv'
<1>1. /\ TypeOK /\ LoopTypeOK /\ registry \in [Names -> Conns \cup {NoConn}]
      /\ NoConn \notin Conns
  BY NoConnAssumption DEF TypeInv, TypeOK
<1>2. ASSUME \A d \in Conns \ {c} : wire'[d] = wire[d], Telling(c)',
             \A n \in Names, d \in Conns : registry'[n] = d => Welcomed(d)'
      PROVE  StoryInv'
  <2>1. \A d \in Conns : task'[d] \in Unanswered => pc'[d] = "idle" /\ wire'[d] = <<>>
    BY <1>1, <1>2, NeverFreshAgain DEF StoryInv, OthersStay
  <2>2. \A d \in Conns \ {c} : Telling(d)'
    BY <1>2 DEF StoryInv, Telling, Fits, FirstDecides, Welcomed, OthersStay
  <2> QED  BY <1>2, <2>1, <2>2 DEF StoryInv
<1>3. Telling(c) /\ \A n \in Names, d \in Conns : registry[n] = d => Welcomed(d)
  BY DEF StoryInv
<1>4. ASSUME UNCHANGED wire, \A n \in Names : registry'[n] \in {registry[n], NoConn}
      PROVE  \A n \in Names, d \in Conns : registry'[n] = d => Welcomed(d)'
  BY <1>1, <1>3, <1>4 DEF Welcomed
<1>5. CASE /\ UNCHANGED wire
           /\ pc'[c] = "ended" \/ (pc'[c] = "serving" /\ pc[c] = "serving")
           /\ \A n \in Names : registry'[n] \in {registry[n], NoConn}
  <2>1. Telling(c)'  BY <1>3, <1>5 DEF Telling, FirstDecides, Welcomed
  <2> QED  BY <1>2, <1>4, <1>5, <2>1
<1>6. ASSUME NEW msg \in Outgoing, NEW then \in Continuations,
             Fits(c, msg, then), SendOutcome(c, msg, then)
      PROVE  StoryInv'
  <2>1. CASE /\ pc'[c] = "writing" /\ pending'[c] = [msg |-> msg, then |-> then]
             /\ UNCHANGED <<wire, registry>>
    <3>1. Telling(c)'  BY <1>3, <1>6, <2>1 DEF Telling, FirstDecides, Welcomed, Fits
    <3> QED  BY <1>2, <1>4, <2>1, <3>1
  <2>2. CASE WriteFails(c) /\ pc'[c] = "ended"
               /\ \/ registry' = [registry EXCEPT ![name[c]] = NoConn]
                  \/ UNCHANGED registry
    <3>1. Telling(c)'  BY <1>3, <2>2 DEF Telling, FirstDecides, WriteFails
    <3>2. UNCHANGED wire /\ \A n \in Names : registry'[n] \in {registry[n], NoConn}
      BY <1>1, <2>2 DEF WriteFails
    <3> QED  BY <1>2, <1>4, <3>1, <3>2
  <2>3. CASE /\ WriteLands(c, msg)
             /\ pc'[c] \in {"serving", "ended"} /\ (pc'[c] = "serving" => then # "close")
             /\ \A n \in Names :
                  registry'[n] \in {registry[n], NoConn} \/ (registry'[n] = c /\ then # "close")
    <3>1. /\ FirstDecides(c)' /\ (Welcomed(c) => Welcomed(c)')
          /\ then # "close" => Welcomed(c)'
      BY <1>1, <1>3, <1>6, <2>3, LandsTelling DEF Telling
    <3>2. \A d \in Conns \ {c} : wire'[d] = wire[d]  BY <1>1, <2>3, WireEffect
    <3>3. Telling(c)'  BY <2>3, <3>1 DEF Telling
    <3>4. \A d \in Conns : Welcomed(d) => Welcomed(d)'
      BY <3>1, <3>2 DEF Welcomed
    <3>5. \A n \in Names, d \in Conns : registry'[n] = d => Welcomed(d)'
      BY <1>1, <1>3, <2>3, <3>1, <3>4
    <3> QED  BY <1>2, <3>2, <3>3, <3>5
  <2>4. \A x, n \in Names : /\ [registry EXCEPT ![x] = NoConn][n] \in {registry[n], NoConn}
                            /\ [registry EXCEPT ![x] = c][n] \in {registry[n], c}
    BY <1>1
  <2>5. ASSUME WriteLands(c, msg), then = "welcome", pc'[c] = "serving",
               registry' = [registry EXCEPT ![name'[c]] = c]
        PROVE  StoryInv'
    BY <2>3, <2>4, <2>5
  <2>6. ASSUME WriteLands(c, msg), then = "kick", pc'[c] = "ended",
               registry' = [registry EXCEPT ![name[c]] = NoConn]
        PROVE  StoryInv'
    BY <2>3, <2>4, <2>6
  <2>7. ASSUME WriteLands(c, msg), UNCHANGED registry, then \in {"reply", "forward", "close"},
               pc'[c] = IF then = "close" THEN "ended" ELSE "serving"
        PROVE  StoryInv'
    BY <2>3, <2>7
  <2> HIDE DEF Outgoing
  <2> QED  BY <1>6, <2>1, <2>2, <2>5, <2>6, <2>7 DEF SendOutcome
<1> QED  BY <1>5, <1>6

\* What a poll does to the channels.
LEMMA RestChat ==
  ASSUME TypeOK, NEW c \in Conns, \A d \in Conns : OnlyChat(d),
         KeepChannel(c) \/ (chan[c] # <<>> /\ RestOfChannel(c, Tail(chan[c])))
  PROVE  \A d \in Conns : OnlyChat(d)'
<1>1. chan \in [Conns -> Seq(Outgoing)]  BY DEF TypeOK
<1>2. /\ \A d \in Conns \ {c} : chan'[d] = chan[d]
      /\ chan'[c] = <<>> \/ chan'[c] = chan[c]
           \/ (chan[c] # <<>> /\ chan'[c] = Tail(chan[c]))
  BY <1>1 DEF KeepChannel, RestOfChannel
<1>3. ASSUME chan[c] # <<>>
      PROVE  \A i \in DOMAIN Tail(chan[c]) :
               i + 1 \in DOMAIN chan[c] /\ Tail(chan[c])[i] = chan[c][i + 1]
  <2> DEFINE s == chan[c]
  <2>1. s \in Seq(Outgoing) /\ s # <<>>  BY <1>1, <1>3
  <2> HIDE DEF Outgoing, s
  <2>2. /\ Len(s) \in Nat /\ Len(s) # 0 /\ DOMAIN s = 1..Len(s)
        /\ DOMAIN Tail(s) = 1..(Len(s) - 1)
        /\ \A i \in 1..(Len(s) - 1) : Tail(s)[i] = s[i + 1]
    BY <2>1
  <2>3. \A i \in DOMAIN Tail(s) : i + 1 \in DOMAIN s /\ Tail(s)[i] = s[i + 1]
    BY <2>2
  <2> QED  BY <2>3 DEF s
<1>4. OnlyChat(c)'
  <2>1. CASE chan'[c] = <<>>  BY <2>1 DEF OnlyChat
  <2>2. CASE chan'[c] = chan[c]  BY <2>2 DEF OnlyChat
  <2>3. CASE chan[c] # <<>> /\ chan'[c] = Tail(chan[c])  BY <1>3, <2>3 DEF OnlyChat
  <2> QED  BY <1>2, <2>1, <2>2, <2>3
<1> QED  BY <1>2, <1>4 DEF OnlyChat

LEMMA PostedChat ==
  ASSUME TypeInv, NEW c \in Conns, \A d \in Conns : OnlyChat(d), Serving(c), HasLine(c),
         NEW to \in SUBSET Conns,
         chan' = Posted(c, to) \/ chan' = [Posted(c, to) EXCEPT ![c] = <<>>]
  PROVE  \A d \in Conns : OnlyChat(d)'
<1> DEFINE m == Message(name[c], NextText(c))
<1>1. chan \in [Conns -> Seq(Outgoing)]  BY DEF TypeInv, TypeOK
<1>2. \A d \in Conns : chan'[d] \in {<<>>, chan[d], Append(chan[d], m)}
  <2> HIDE DEF m
  <2>1. \A d \in Conns : Posted(c, to)[d] \in {chan[d], Append(chan[d], m)}
    BY DEF Posted, m
  <2>2. DOMAIN Posted(c, to) = Conns  BY DEF Posted
  <2> HIDE DEF Posted
  <2> QED  BY <2>1, <2>2
<1>3. m.kind = "Message"  BY DEF Message
<1> HIDE DEF Outgoing, m
<1>4. ASSUME NEW d \in Conns PROVE OnlyChat(d)'
  <2>1. CASE chan'[d] = <<>>  BY <2>1 DEF OnlyChat
  <2>2. CASE chan'[d] = chan[d]  BY <2>2 DEF OnlyChat
  <2>3. CASE chan'[d] = Append(chan[d], m)
    <3>1. chan[d] \in Seq(Outgoing)  BY <1>1
    <3>2. /\ DOMAIN Append(chan[d], m) = 1..(Len(chan[d]) + 1)
          /\ DOMAIN chan[d] = 1..Len(chan[d]) /\ Len(chan[d]) \in Nat
          /\ \A i \in 1..Len(chan[d]) : Append(chan[d], m)[i] = chan[d][i]
          /\ Append(chan[d], m)[Len(chan[d]) + 1] = m
      BY <3>1
    <3>3. \A i \in DOMAIN Append(chan[d], m) :
            (i \in DOMAIN chan[d] /\ Append(chan[d], m)[i] = chan[d][i])
              \/ Append(chan[d], m)[i] = m
      BY <3>2
    <3> QED  BY <1>3, <2>3, <3>3 DEF OnlyChat
  <2> QED  BY <1>2, <2>1, <2>2, <2>3
<1> QED  BY <1>4

LEMMA PollsStory ==
  ASSUME TypeInv, BacklogConsistent, StoryInv, [LoopNext]_loopVars,
         NEW c \in Conns, Polls(c), PollFrame(c)
  PROVE  StoryInv'
<1>1. /\ TypeOK /\ pc[c] # "idle" /\ Telling(c)
      /\ \A d \in Conns : OnlyChat(d)
  BY DEF TypeInv, PollFrame, StoryInv
<1>2. Welcome.kind = "Welcome"  BY DEF Welcome
<1>3. ASSUME NEW msg \in Outgoing, NEW then \in Continuations, Sends(c, msg, then),
             Fits(c, msg, then), \A d \in Conns : OnlyChat(d)'
      PROVE  StoryInv'
  <2>1. OthersStay(c) /\ SendOutcome(c, msg, then)  BY <1>1, <1>3, SendsEffect
  <2> HIDE DEF Outgoing
  <2> QED  BY <1>1, <1>3, <2>1, PollStory
<1>4. ASSUME UNCHANGED wire, OthersStay(c),
             pc'[c] = "ended" \/ (pc'[c] = "serving" /\ pc[c] = "serving"),
             \A n \in Names : registry'[n] \in {registry[n], NoConn},
             \A d \in Conns : OnlyChat(d)'
      PROVE  StoryInv'
  BY <1>1, <1>4, PollStory
<1>5. Leaves(c) => /\ OthersStay(c) /\ pc'[c] = "ended"
                   /\ \A n \in Names : registry'[n] \in {registry[n], NoConn}
  BY <1>1, EndsTypes DEF Leaves, TypeOK
<1>6. CASE JoinFreeName(c)
  <2>1. Sends(c, Welcome, "welcome") /\ pc[c] = "joining" /\ KeepChannel(c)
    BY <1>6 DEF JoinFreeName, Joining, JoinFrame
  <2>2. Fits(c, Welcome, "welcome")  BY <1>1, <2>1 DEF Telling, Fits
  <2> QED  BY <1>1, <1>3, <2>1, <2>2, RestChat, OwnMessages DEF Continuations
<1>7. CASE Refuses(c)
  <2>1. PICK t \in ErrorTexts : Sends(c, Error(t), "close")  BY <1>7 DEF Refuses
  <2>2. Fits(c, Error(t), "close")  BY <1>1, <1>7 DEF Refuses, Telling, Fits, Error
  <2> QED  BY <1>1, <1>3, <1>7, <2>1, <2>2, RestChat, OwnMessages DEF Refuses, Continuations
<1>8. CASE JoinUnreadable(c)
  BY <1>1, <1>4, <1>8, EndsTypes, RestChat DEF JoinUnreadable, JoinFrame
<1>9. CASE Answers(c)
  <2>1. PICK msg \in Outgoing, then \in {"reply", "kick"} :
          Sends(c, msg, then) /\ msg.kind \notin {"Welcome", "Message"}
    BY <1>9 DEF Answers
  <2>2. Fits(c, msg, then)
    <3> HIDE DEF Outgoing
    <3> QED  BY <1>1, <1>2, <1>9, <2>1 DEF Answers, Telling, Fits
  <2>3. \A d \in Conns : OnlyChat(d)'  BY <1>1, <1>9, RestChat DEF Answers
  <2> HIDE DEF Outgoing
  <2> QED  BY <1>3, <2>1, <2>2, <2>3 DEF Continuations
<1>10. CASE Posts(c)
  <2>1. PICK to \in SUBSET Conns : chan' = Posted(c, to)
    BY <1>1, <1>10, ServedConns DEF Posts
  <2>2. \A d \in Conns : OnlyChat(d)'
    BY <1>1, <1>10, <2>1, PostedChat DEF Posts, PollFrame, Serving, Take
  <2> QED  BY <1>1, <1>4, <1>10, <2>2, ServesTypes DEF Posts
<1>11. CASE PostFails(c)
  <2>1. PICK to \in SUBSET Conns : chan' = [Posted(c, to) EXCEPT ![c] = <<>>]
    BY <1>1, <1>11, ServedConns DEF PostFails
  <2>2. \A d \in Conns : OnlyChat(d)'
    BY <1>1, <1>11, <2>1, PostedChat DEF PostFails, PollFrame, Serving, Take
  <2> QED  BY <1>4, <1>5, <1>11, <2>2 DEF PostFails
<1>12. CASE GivesUp(c)  BY <1>1, <1>4, <1>5, <1>12, RestChat DEF GivesUp
<1>13. CASE PanicOnRead(c)
  BY <1>1, <1>4, <1>13, EndsTypes, RestChat DEF PanicOnRead, ReplyFrame
<1>14. CASE Forward(c)
  <2>1. /\ Sends(c, Head(chan[c]), "forward") /\ pc[c] = "serving"
        /\ chan[c] # <<>> /\ RestOfChannel(c, Tail(chan[c]))
    BY <1>14 DEF Forward, Serving
  <2>2. Head(chan[c]) \in Outgoing /\ Head(chan[c]).kind = "Message"
    <3>1. chan[c] \in Seq(Outgoing)  BY <1>1 DEF TypeOK
    <3>2. Head(chan[c]) = chan[c][1] /\ 1 \in DOMAIN chan[c]
      <4> HIDE DEF Outgoing
      <4> QED  BY <2>1, <3>1
    <3> QED  BY <1>1, <2>1, <3>2, ChannelHead DEF OnlyChat
  <2>3. Fits(c, Head(chan[c]), "forward")
    BY <1>1, <1>2, <2>1, <2>2 DEF Telling, Fits
  <2>4. \A d \in Conns : OnlyChat(d)'  BY <1>1, <2>1, RestChat
  <2> HIDE DEF Outgoing
  <2> QED  BY <1>3, <2>1, <2>2, <2>3, <2>4 DEF Continuations
<1>15. CASE Resume(c)
  <2>1. Fits(c, pending[c].msg, pending[c].then)  BY <1>1, <1>15, ResumeSends DEF Telling
  <2>2. \A d \in Conns : OnlyChat(d)'  BY <1>1, <1>15, RestChat DEF Resume
  <2> HIDE DEF Outgoing, Continuations
  <2> QED  BY <1>3, <1>15, <2>1, <2>2, ResumeSends
<1> QED
  BY <1>6, <1>7, <1>8, <1>9, <1>10, <1>11, <1>12, <1>13, <1>14, <1>15 DEF Polls

\* run_server's steps and the clients' write at most the Error to a
\* connection that has no handler and never gets one.
LEMMA StoryStep == TypeInv /\ BacklogConsistent /\ StoryInv /\ [Next]_vars => StoryInv'
<1> SUFFICES ASSUME TypeInv, BacklogConsistent, StoryInv, [Next]_vars PROVE StoryInv'
  OBVIOUS
<1> USE DEF handlerVars, socketVars, clientVars
<1>1. TypeOK /\ LoopTypeOK /\ [LoopNext]_loopVars  BY LoopStep DEF TypeInv, TypeOK
<1>2. ASSUME UNCHANGED <<pc, pending, wire, chan, registry>> PROVE StoryInv'
  BY <1>1, <1>2, NeverFreshAgain
  DEF StoryInv, Telling, Fits, FirstDecides, Welcomed, OnlyChat
<1>3. CASE LoopAlone \/ UNCHANGED vars
  BY <1>2, <1>3 DEF LoopAlone, vars
<1>4. ASSUME NEW c \in Conns, Client(c) \/ Reader(c) PROVE StoryInv'
  BY <1>2, <1>4
  DEF Client, Reader, Dial, ClientSends, ClientCloses, ClientVanishes, ClientReads
<1>5. ASSUME NEW c \in Conns, Accepting(c) PROVE task[c] = "queued"
  BY <1>1, <1>5 DEF Accepting, LoopTypeOK, BacklogConsistent
<1>6. ASSUME NEW c \in Conns, SpawnHandler(c) PROVE StoryInv'
  <2>1. wire[c] = <<>>  BY <1>5, <1>6 DEF SpawnHandler, Spawn, StoryInv, Unanswered
  <2>2. /\ task'[c] = "running" /\ pc'[c] = "joining"
        /\ \A d \in Conns \ {c} : pc'[d] = pc[d]
        /\ UNCHANGED <<pending, wire, chan, registry>>
    BY <1>1, <1>6 DEF SpawnHandler, Spawn, LoopTypeOK, TypeOK
  <2>3. \A d \in Conns : task'[d] \in Unanswered => pc'[d] = "idle" /\ wire'[d] = <<>>
    BY <1>1, <2>2, NeverFreshAgain DEF StoryInv, Unanswered
  <2> QED
    BY <2>1, <2>2, <2>3 DEF StoryInv, Telling, Fits, FirstDecides, Welcomed, OnlyChat
<1>7. ASSUME NEW c \in Conns, TurnAwayNow(c) PROVE StoryInv'
  <2> DEFINE msg == Error("Server is full")
  <2>1. /\ task[c] \in Unanswered /\ task'[c] = "refused"
        /\ WriteLands(c, msg) /\ UNCHANGED <<pc, pending, chan, registry>>
    BY <1>1, <1>5, <1>7 DEF TurnAwayNow, RejectSent, Rejecting, Unanswered, LoopTypeOK
  <2>2. pc[c] = "idle" /\ wire[c] = <<>> /\ FirstDecides(c) /\ msg \in Outgoing
    BY <2>1, OwnMessages DEF StoryInv, Telling, ErrorTexts
  <2>3. Fits(c, msg, "close")  BY <2>2 DEF Fits, Error
  <2>4. FirstDecides(c)' /\ \A d \in Conns \ {c} : wire'[d] = wire[d]
    <3> HIDE DEF msg
    <3> QED  BY <1>1, <2>1, <2>2, <2>3, LandsTelling, WireEffect
  <2>5. ~Welcomed(c)  BY <2>2 DEF Welcomed
  <2>6. \A d \in Conns : task'[d] \in Unanswered => pc'[d] = "idle" /\ wire'[d] = <<>>
    BY <1>1, <2>1, <2>4, NeverFreshAgain DEF StoryInv, Unanswered
  <2>7. \A d \in Conns : Telling(d)' /\ OnlyChat(d)'
    <3>1. Telling(c)'  BY <2>1, <2>2, <2>4 DEF Telling
    <3>2. \A d \in Conns \ {c} : Telling(d)'
      <4> HIDE DEF msg
      <4> QED  BY <2>1, <2>4 DEF StoryInv, Telling, Fits, FirstDecides, Welcomed
    <3>3. \A d \in Conns : OnlyChat(d)'  BY <2>1 DEF StoryInv, OnlyChat
    <3> QED  BY <3>1, <3>2, <3>3
  <2>8. \A n \in Names, d \in Conns : registry'[n] = d => Welcomed(d)'
    BY <2>1, <2>4, <2>5 DEF StoryInv, Welcomed
  <2> QED  BY <2>6, <2>7, <2>8 DEF StoryInv
<1>8. ASSUME NEW c \in Conns, TurnAwayFails(c) \/ TurnAwayLater(c) \/ ReapHandler(c)
      PROVE  StoryInv'
  BY <1>2, <1>8 DEF TurnAwayFails, TurnAwayLater, ReapHandler, WriteFails
<1>9. ASSUME NEW c \in Conns, CancelHandler(c) PROVE StoryInv'
  <2>1. /\ pc'[c] = "ended" /\ OthersStay(c) /\ task[c] = "running"
        /\ UNCHANGED <<wire, registry>>
    BY <1>1, <1>9 DEF CancelHandler, Cancel, OthersStay, TypeOK
  <2>2. \A d \in Conns : OnlyChat(d)'
    BY <1>1, <1>9, RestChat DEF CancelHandler, StoryInv
  <2>3. task'[c] = "cancelled"  BY <1>1, <1>9 DEF CancelHandler, Cancel, LoopTypeOK
  <2>4. \A d \in Conns : task'[d] \in Unanswered => pc'[d] = "idle" /\ wire'[d] = <<>>
    BY <1>1, <2>1, <2>3, NeverFreshAgain DEF StoryInv, OthersStay, Unanswered
  <2> QED
    BY <2>1, <2>2, <2>4 DEF StoryInv, Telling, Fits, FirstDecides, Welcomed, OthersStay
<1>10. ASSUME NEW c \in Conns, Handler(c) \/ JoinTimeout(c) PROVE StoryInv'
  BY <1>1, <1>10, HandlerPolls, PollsStory
<1> QED  BY <1>3, <1>4, <1>6, <1>7, <1>8, <1>9, <1>10 DEF Next, Server

LEMMA StoryHolds == Spec => []StoryInv
<1>1. Init => StoryInv
  BY NoConnAssumption
  DEF Init, LoopInit, SocketInit, StoryInv, Telling, FirstDecides, OnlyChat
<1> QED  BY <1>1, StoryStep, TypeInvCorrect, ImplementsLoop, BacklogHolds, PTL DEF Spec

\* The first message a client gets decides: the Welcome, which comes once, or
\* an Error, which is the last word, to a client the map does not know.
THEOREM FirstMessageDecides == Spec => []Admission
<1>1. TypeInv /\ StoryInv => Admission
  <2> SUFFICES ASSUME TypeInv, StoryInv, NEW c \in Conns, wire[c] # <<>>
               PROVE  \/ /\ Head(wire[c]) = Welcome
                         /\ \A i \in 2..Len(wire[c]) : wire[c][i] # Welcome
                      \/ /\ Head(wire[c]).kind = "Error"
                         /\ Len(wire[c]) = 1
                         /\ ~InLoop(c)
                         /\ \A n \in Names : registry[n] # c
    BY DEF Admission
  <2>1. Head(wire[c]) = wire[c][1]
    <3>1. wire[c] \in Seq(Outgoing)  BY DEF TypeInv, TypeOK, SocketTypeOK
    <3> HIDE DEF Outgoing
    <3> QED  BY <3>1
  <2>2. wire[c][1].kind = "Error" => ~Welcomed(c)  BY DEF Welcomed, Welcome
  <2>3. InLoop(c) => Welcomed(c)
    BY DEF StoryInv, Telling, Fits, InLoop
  <2> QED  BY <2>1, <2>2, <2>3 DEF StoryInv, Telling, FirstDecides
<1> QED  BY <1>1, StoryHolds, TypeInvCorrect, PTL

-----------------------------------------------------------------------------
(***************************************************************************)
(* Whom the map forgets.  An entry is that of a connection that goes by    *)
(* the name; its handler is in its loop, or is over, and then its client   *)
(* is broken, and stays so.                                                *)
(***************************************************************************)

\* Who has not dialled has no socket to close or to leave.
AwayInv == \A c \in Conns : task[c] = "absent" => peer[c] = "away"

GhostInv ==
  \A n \in Names, c \in Conns : registry[n] = c =>
    /\ name[c] = n
    /\ InLoop(c) \/ pc[c] = "ended"
    /\ InLoop(c) \/ Down \/ Broken(c)

\* Nobody who closed or left comes back, and a line is what it was.
Stays(d) ==
  /\ peer[d] = "half" => peer'[d] \in {"half", "gone"}
  /\ peer[d] = "gone" => peer'[d] = "gone"
  /\ taken'[d] = taken[d]
  /\ taken[d] > 0 => sent'[d][taken[d]] = sent[d][taken[d]]

\* A handler that takes a line takes the next one.
LEMMA TakeEffect ==
  ASSUME TypeOK, NEW c \in Conns
  PROVE  /\ taken[c] \in Nat
         /\ UNCHANGED taken \/ Take(c) => \A d \in Conns \ {c} : taken'[d] = taken[d]
         /\ Take(c) => taken'[c] = taken[c] + 1
  BY DEF Take, TypeOK, SocketTypeOK

LEMMA ClientStays ==
  ASSUME TypeOK, AwayInv, NEW c \in Conns, Client(c) \/ Reader(c)
  PROVE  \A d \in Conns : Stays(d)
<1>1. peer \in [Conns -> PeerStates] /\ UNCHANGED taken
  BY DEF TypeOK, SocketTypeOK, Client, Reader, Dial, ClientSends, ClientCloses, ClientVanishes,
         ClientReads
<1>2. \A d \in Conns : /\ peer[d] = "half" => peer'[d] \in {"half", "gone"}
                       /\ peer[d] = "gone" => peer'[d] = "gone"
  BY <1>1
  DEF Client, Reader, Dial, Connect, ClientSends, ClientCloses, ClientVanishes, ClientReads,
      AwayInv
<1>3. \A d \in Conns : taken[d] > 0 => sent'[d][taken[d]] = sent[d][taken[d]]
  <2>1. CASE UNCHANGED sent  BY <2>1
  <2>2. ASSUME NEW line, ClientSends(c, line), NEW d \in Conns, taken[d] > 0
        PROVE  sent'[d][taken[d]] = sent[d][taken[d]]
    <3>1. /\ sent \in [Conns -> Seq(Line)] /\ taken[d] \in 1..Len(sent[d])
          /\ sent' = [sent EXCEPT ![c] = Append(sent[c], line)]
      BY <2>2 DEF ClientSends, TypeOK, SocketTypeOK
    <3>2. \A i \in 1..Len(sent[d]) : Append(sent[d], line)[i] = sent[d][i]
      BY <3>1
    <3>3. sent'[d] \in {sent[d], Append(sent[d], line)}  BY <3>1
    <3> QED  BY <3>1, <3>2, <3>3
  <2> QED
    BY <2>1, <2>2 DEF Client, Reader, Dial, ClientCloses, ClientVanishes, ClientReads
<1> QED  BY <1>1, <1>2, <1>3 DEF Stays

LEMMA AwayStep == TypeInv /\ AwayInv /\ [Next]_vars => AwayInv'
<1> SUFFICES ASSUME TypeInv, AwayInv, [Next]_vars PROVE AwayInv'
  OBVIOUS
<1> USE DEF socketVars, clientVars
<1>1. TypeOK /\ LoopTypeOK  BY DEF TypeInv, TypeOK
<1>2. peer \in [Conns -> PeerStates]  BY <1>1 DEF TypeOK, SocketTypeOK
<1>3. ASSUME NEW d \in Conns, task'[d] = "absent" PROVE task[d] = "absent"
  <2> USE DEF LoopTypeOK
  <2>1. ASSUME NEW c \in Conns, Connect(c) \/ Spawn(c) \/ Finish(c) \/ Reap(c) \/ Cancel(c)
        PROVE  task[d] = "absent"
    BY <1>1, <1>3, <2>1 DEF Connect, Spawn, Finish, Reap, Cancel
  <2>2. ASSUME NEW c \in Conns, RejectSuspends(c) \/ RejectSent(c) \/ RejectFails(c)
        PROVE  task[d] = "absent"
    BY <1>1, <1>3, <2>2 DEF RejectSuspends, RejectSent, RejectFails, EndWith
  <2>3. CASE AcceptFails \/ SendSignal \/ Break \/ DropFuture \/ UNCHANGED loopVars
    BY <1>3, <2>3 DEF AcceptFails, SendSignal, Break, DropFuture, EndWith, loopVars
  <2> QED  BY <2>1, <2>2, <2>3, LoopStep DEF LoopNext
<1>4. ASSUME UNCHANGED peer PROVE AwayInv'  BY <1>3, <1>4 DEF AwayInv
<1>5. CASE LoopAlone \/ UNCHANGED vars  BY <1>4, <1>5 DEF LoopAlone, vars
<1>6. ASSUME NEW c \in Conns, Server(c) PROVE AwayInv'
  BY <1>4, <1>6 DEF Server, SpawnHandler, TurnAwayNow, TurnAwayFails, TurnAwayLater,
                    ReapHandler, CancelHandler
<1>7. ASSUME NEW c \in Conns, Handler(c) \/ JoinTimeout(c) PROVE AwayInv'
  BY <1>4, <1>7, HandlerPolls DEF PollFrame
<1>8. ASSUME NEW c \in Conns, Client(c) \/ Reader(c) PROVE AwayInv'
  <2>1. CASE Dial(c)
    BY <1>1, <1>2, <1>3, <2>1 DEF Dial, Connect, AwayInv, LoopTypeOK
  <2>2. CASE ClientCloses(c) \/ ClientVanishes(c)
    BY <1>2, <1>3, <2>2 DEF ClientCloses, ClientVanishes, AwayInv
  <2> QED
    BY <1>4, <1>8, <2>1, <2>2 DEF Client, Reader, ClientSends, ClientReads
<1> QED  BY <1>5, <1>6, <1>7, <1>8 DEF Next

-----------------------------------------------------------------------------
\* A poll of c registers c, keeps its place, or removes it; or c is not in
\* the map; or its client is broken.
LEMMA PollGhost ==
  ASSUME TypeInv, GhostInv, ~Down, NEW c \in Conns, OthersStay(c), PollFrame(c),
         \/ ~InLoop(c) /\ InLoop(c)' /\ registry' = [registry EXCEPT ![name'[c]] = c]
         \/ InLoop(c)' /\ UNCHANGED <<registry, name>>
         \/ UNCHANGED name /\ registry' = [registry EXCEPT ![name[c]] = NoConn]
         \/ ~InLoop(c) /\ UNCHANGED registry
         \/ pc'[c] = "ended" /\ Broken(c)' /\ UNCHANGED <<registry, name>>
  PROVE  GhostInv'
<1>1. /\ registry \in [Names -> Conns \cup {NoConn}] /\ NoConn \notin Conns
      /\ pc[c] # "ended"
  BY NoConnAssumption DEF TypeInv, TypeOK, PollFrame
<1>2. ASSUME NEW n \in Names, NEW d \in Conns \ {c}, registry'[n] = d
      PROVE  /\ name'[d] = n /\ (InLoop(d)' \/ pc'[d] = "ended")
             /\ InLoop(d)' \/ Down' \/ Broken(d)'
  <2>1. registry[n] = d  BY <1>1, <1>2
  <2>2. name'[d] = name[d] /\ (InLoop(d)' <=> InLoop(d)) /\ pc'[d] = pc[d]
    BY DEF OthersStay, InLoop, PollFrame
  <2>3. taken'[d] = taken[d] /\ peer'[d] = peer[d] /\ sent'[d] = sent[d]
    BY TakeEffect DEF PollFrame, TypeInv
  <2> QED  BY <2>1, <2>2, <2>3 DEF GhostInv, Broken
<1>3. ASSUME NEW n \in Names, registry'[n] = c
      PROVE  /\ name'[c] = n /\ (InLoop(c)' \/ pc'[c] = "ended")
             /\ InLoop(c)' \/ Down' \/ Broken(c)'
  <2>1. registry[n] = c => name[c] = n /\ InLoop(c)  BY <1>1 DEF GhostInv
  <2> QED  BY <1>1, <1>3, <2>1
<1>4. \A n \in Names, d \in Conns : registry'[n] = d =>
        /\ name'[d] = n /\ (InLoop(d)' \/ pc'[d] = "ended")
        /\ InLoop(d)' \/ Down' \/ Broken(d)'
  BY <1>2, <1>3
<1> QED  BY <1>4 DEF GhostInv

LEMMA SendGhost ==
  ASSUME TypeInv, GhostInv, NEW c \in Conns, PollFrame(c),
         NEW msg, NEW then \in Continuations, Sends(c, msg, then),
         IF then \in {"close", "welcome"} THEN ~InLoop(c) ELSE UNCHANGED name
  PROVE  GhostInv'
<1>1. OthersStay(c) /\ SendOutcome(c, msg, then) /\ ~Down
  BY SendsEffect DEF PollFrame, TypeInv
<1>2. ASSUME UNCHANGED registry, InLoop(c)' PROVE GhostInv'
  BY <1>1, <1>2, PollGhost DEF Continuations
<1>3. CASE pc'[c] = "writing" /\ pending'[c] = [msg |-> msg, then |-> then] /\ UNCHANGED registry
  <2>1. CASE then \in {"close", "welcome"}  BY <1>1, <1>3, <2>1, PollGhost
  <2>2. CASE then \notin {"close", "welcome"}
    <3>1. InLoop(c)'  BY <1>3, <2>2 DEF InLoop, Continuations
    <3> QED  BY <1>2, <1>3, <3>1
  <2> QED  BY <2>1, <2>2
<1>4. CASE then = "welcome" /\ pc'[c] = "serving" /\ registry' = [registry EXCEPT ![name'[c]] = c]
  <2>1. InLoop(c)'  BY <1>4 DEF InLoop
  <2> QED  BY <1>1, <1>4, <2>1, PollGhost
<1>5. CASE then \in {"reply", "forward"} /\ pc'[c] = "serving" /\ UNCHANGED registry
  BY <1>2, <1>5 DEF InLoop
<1>6. CASE then \in {"reply", "kick"} /\ registry' = [registry EXCEPT ![name[c]] = NoConn]
  BY <1>1, <1>6, PollGhost
<1>7. CASE then \in {"close", "welcome"} /\ UNCHANGED registry
  BY <1>1, <1>7, PollGhost
<1>8. CASE then = "forward" /\ WriteFails(c) /\ pc'[c] = "ended" /\ UNCHANGED registry
  <2>1. Broken(c)'  BY <1>8 DEF WriteFails, PollFrame, Broken
  <2> QED  BY <1>1, <1>8, <2>1, PollGhost
<1> QED  BY <1>1, <1>3, <1>4, <1>5, <1>6, <1>7, <1>8 DEF SendOutcome

LEMMA PollsGhost ==
  ASSUME TypeInv, GhostInv, NEW c \in Conns, Polls(c), PollFrame(c)
  PROVE  GhostInv'
<1>1. TypeOK /\ ~Down  BY DEF TypeInv, PollFrame
<1>2. CASE JoinFreeName(c)
  <2>1. Sends(c, Welcome, "welcome") /\ ~InLoop(c)
    BY <1>2 DEF JoinFreeName, Joining, InLoop
  <2> QED  BY <2>1, SendGhost DEF Continuations
<1>3. CASE Refuses(c)  BY <1>3, SendGhost DEF Refuses, InLoop, Continuations
<1>4. CASE JoinUnreadable(c)
  BY <1>1, <1>4, EndsTypes, PollGhost DEF JoinUnreadable, Joining, InLoop
<1>5. CASE Answers(c)  BY <1>5, SendGhost DEF Answers, Continuations
<1>6. CASE Posts(c)  BY <1>1, <1>6, ServesTypes, PollGhost DEF Posts, InLoop
<1>7. CASE PostFails(c) \/ GivesUp(c)
  BY <1>1, <1>7, LeavesTypes, EndsTypes, PollGhost DEF PostFails, GivesUp, Leaves
<1>8. CASE PanicOnRead(c)
  <2>1. /\ taken'[c] = taken[c] + 1 /\ taken[c] \in Nat /\ sent' = sent
        /\ sent[c][taken[c] + 1].kind = "Oversized"
    BY <1>1, <1>8, TakeEffect DEF PanicOnRead, Reacts, NextLine, PollFrame
  <2>2. Broken(c)'  BY <2>1 DEF Broken
  <2> QED
    BY <1>1, <1>8, <2>2, EndsTypes, PollGhost DEF PanicOnRead, ReplyFrame
<1>9. CASE Forward(c)
  BY <1>9, SendGhost DEF Forward, Continuations
<1>10. CASE Resume(c)
  <2>1. pending[c].then \in {"close", "welcome"} => ~InLoop(c)
    BY <1>10 DEF Resume, InLoop
  <2> HIDE DEF Continuations
  <2> QED  BY <1>10, <2>1, ResumeSends, SendGhost DEF Resume
<1> QED  BY <1>2, <1>3, <1>4, <1>5, <1>6, <1>7, <1>8, <1>9, <1>10 DEF Polls

LEMMA GhostStep ==
  TypeInv /\ BacklogConsistent /\ StoryInv /\ AwayInv /\ GhostInv /\ [Next]_vars => GhostInv'
<1> SUFFICES ASSUME TypeInv, BacklogConsistent, StoryInv, AwayInv, GhostInv, [Next]_vars
             PROVE  GhostInv'
  OBVIOUS
<1> USE DEF handlerVars, socketVars, clientVars
<1>1. TypeOK /\ LoopTypeOK  BY DEF TypeInv, TypeOK
<1>2. ASSUME UNCHANGED <<registry, name, pc, pending>>, Down => Down', \A d \in Conns : Stays(d)
      PROVE  GhostInv'
  BY <1>2 DEF GhostInv, InLoop, Broken, Stays
<1>3. ASSUME UNCHANGED socketVars PROVE \A d \in Conns : Stays(d)
  BY <1>3 DEF Stays
<1>4. CASE LoopAlone \/ UNCHANGED vars
  <2>1. UNCHANGED <<socketVars, handlerVars>> /\ (Down => Down')
    BY <1>4
    DEF LoopAlone, AcceptFails, SendSignal, Break, DropFuture, EndWith, vars, loopVars, Down
  <2> QED  BY <1>2, <1>3, <2>1
<1>5. ASSUME NEW c \in Conns, Client(c) \/ Reader(c) PROVE GhostInv'
  <2>1. UNCHANGED <<registry, name, pc, pending, server>>
    BY <1>5 DEF Client, Reader, Dial, Connect, loopVars
  <2> QED  BY <1>1, <1>2, <1>5, <2>1, ClientStays DEF Down
<1>6. ASSUME NEW c \in Conns, SpawnHandler(c) PROVE GhostInv'
  <2>1. task[c] \in Unanswered
    BY <1>1, <1>6 DEF SpawnHandler, Spawn, Accepting, BacklogConsistent, LoopTypeOK, Unanswered
  <2>2. \A n \in Names : registry[n] # c
    BY <2>1 DEF StoryInv, Welcomed
  <2>3. /\ UNCHANGED <<registry, name, pending, peer, sent, taken, server>>
        /\ \A d \in Conns \ {c} : pc'[d] = pc[d]
    BY <1>1, <1>6 DEF SpawnHandler, Spawn, TypeOK
  <2> QED  BY <2>2, <2>3 DEF GhostInv, InLoop, Broken, Down
<1>7. ASSUME NEW c \in Conns,
             TurnAwayNow(c) \/ TurnAwayFails(c) \/ TurnAwayLater(c) \/ ReapHandler(c)
      PROVE  GhostInv'
  <2>1. UNCHANGED <<registry, name, pc, pending, peer, sent, taken>> /\ (Down => Down')
    BY <1>7
    DEF TurnAwayNow, TurnAwayFails, TurnAwayLater, ReapHandler, RejectSent, RejectFails,
        RejectSuspends, Rejecting, Accepting, Reap, EndWith, Down
  <2> QED  BY <1>2, <2>1 DEF Stays
<1>8. ASSUME NEW c \in Conns, CancelHandler(c) PROVE GhostInv'
  <2>1. /\ pc'[c] = "ended" /\ OthersStay(c) /\ Down'
        /\ UNCHANGED <<registry, name>>
    BY <1>1, <1>8 DEF CancelHandler, Cancel, OthersStay, TypeOK, Down
  <2> QED  BY <2>1 DEF GhostInv, OthersStay, InLoop
<1>9. ASSUME NEW c \in Conns, Handler(c) \/ JoinTimeout(c) PROVE GhostInv'
  BY <1>9, HandlerPolls, PollsGhost
<1> QED  BY <1>4, <1>5, <1>6, <1>7, <1>8, <1>9 DEF Next, Server

LEMMA GhostsHold == Spec => [](AwayInv /\ GhostInv)
<1>1. Init => AwayInv /\ GhostInv
  BY NoConnAssumption DEF Init, SocketInit, AwayInv, GhostInv
<1> QED
  BY <1>1, AwayStep, GhostStep, TypeInvCorrect, StoryHolds, ImplementsLoop, BacklogHolds, PTL
  DEF Spec

\* An entry without a handler is that of a client that vanished or sent a
\* line that made its handler panic.
THEOREM GhostsAreBroken == Spec => []GhostsWereBroken
<1>1. TypeInv /\ GhostInv => GhostsWereBroken
  BY DEF TypeInv, TypeOK, GhostInv, GhostsWereBroken, Registered
<1> QED  BY <1>1, GhostsHold, TypeInvCorrect, PTL

-----------------------------------------------------------------------------
(***************************************************************************)
(* Why a client is dropped.  The cause is there when its handler ends, or  *)
(* when it is suspended in its last write, and it does not go.             *)
(***************************************************************************)
LastLine(c) == sent[c][taken[c]]

Asked(c) ==
  /\ pc[c] = "serving" => taken[c] >= 1
  /\ pc[c] = "writing" =>
       /\ pending[c].then # "close" => taken[c] >= 1
       /\ pending[c].then = "kick" => taken[c] > 1 /\ LastLine(c).kind = "Join"

Caused(c) ==
  \/ peer[c] \in {"half", "gone"}
  \/ taken[c] > 1 /\ LastLine(c).kind \in {"Join"} \cup Unreadable
  \/ \E d \in Conns \ {c} : pc[d] = "ended" /\ Broken(d)

CauseInv ==
  \A c \in Conns :
    /\ Asked(c)
    /\ pc[c] = "ended" /\ Welcomed(c) => Down \/ Caused(c)

LEMMA PollCause ==
  ASSUME TypeInv, CauseInv, NEW c \in Conns, OthersStay(c), PollFrame(c),
         \A d \in Conns \ {c} : wire'[d] = wire[d],
         Asked(c)', pc'[c] = "ended" /\ Welcomed(c)' => Caused(c)'
  PROVE  CauseInv'
<1>1. /\ ~Down /\ pc[c] # "ended" /\ UNCHANGED <<peer, sent>>
      /\ \A d \in Conns \ {c} : taken'[d] = taken[d]
  BY TakeEffect DEF PollFrame, TypeInv
<1>2. ASSUME NEW d \in Conns \ {c}
      PROVE  Asked(d)' /\ (pc'[d] = "ended" /\ Welcomed(d)' => Caused(d)')
  <2>1. Asked(d)'
    BY <1>1 DEF CauseInv, Asked, LastLine, OthersStay
  <2>2. ASSUME pc'[d] = "ended", Welcomed(d)' PROVE Caused(d)'
    <3>1. Caused(d)  BY <1>1, <2>2 DEF CauseInv, Welcomed, OthersStay
    <3>2. ASSUME NEW e \in Conns \ {d}, pc[e] = "ended", Broken(e)
          PROVE  pc'[e] = "ended" /\ Broken(e)'
      <4>1. e # c  BY <1>1, <3>2
      <4> QED  BY <1>1, <3>2, <4>1 DEF Broken, OthersStay
    <3> QED  BY <1>1, <3>1, <3>2 DEF Caused, LastLine
  <2> QED  BY <2>1, <2>2
<1> QED  BY <1>2 DEF CauseInv

LEMMA SendCause ==
  ASSUME TypeInv, CauseInv, NEW c \in Conns, PollFrame(c),
         NEW msg \in Outgoing, NEW then \in Continuations, Sends(c, msg, then),
         Fits(c, msg, then), then # "close" => taken'[c] >= 1,
         then = "kick" => taken'[c] > 1 /\ LastLine(c)'.kind = "Join"
  PROVE  CauseInv'
<1>1. TypeOK /\ OthersStay(c) /\ SendOutcome(c, msg, then)
  BY SendsEffect DEF TypeInv
<1>2. \A d \in Conns \ {c} : wire'[d] = wire[d]
  BY <1>1, WireEffect DEF SendOutcome, WriteFails
<1>3. ASSUME Asked(c)', pc'[c] = "ended" /\ Welcomed(c)' => Caused(c)' PROVE CauseInv'
  BY <1>1, <1>2, <1>3, PollCause
<1>4. CASE pc'[c] = "writing" /\ pending'[c] = [msg |-> msg, then |-> then]
  BY <1>3, <1>4 DEF Asked
<1>5. CASE pc'[c] = "serving" /\ then # "close"
  BY <1>3, <1>5 DEF Asked
<1>6. CASE pc'[c] = "ended" /\ then = "kick"
  BY <1>3, <1>6 DEF Asked, Caused, LastLine
<1>7. CASE pc'[c] = "ended" /\ then = "close" /\ WriteLands(c, msg)
  <2>1. wire'[c] = Append(<<>>, msg) /\ msg.kind = "Error"
    BY <1>1, <1>7, WireEffect DEF Fits
  <2>2. wire'[c][1] = msg
    <3>1. <<>> \in Seq(Outgoing) /\ Len(<<>>) = 0  OBVIOUS
    <3> HIDE DEF Outgoing
    <3> QED  BY <2>1, <3>1, AppendedAt
  <2>3. ~Welcomed(c)'  BY <2>1, <2>2 DEF Welcomed, Welcome
  <2> QED  BY <1>3, <1>7, <2>3 DEF Asked
<1>8. CASE pc'[c] = "ended" /\ WriteFails(c)
  BY <1>3, <1>8 DEF Asked, Caused, WriteFails, PollFrame
<1> HIDE DEF Outgoing
<1> QED  BY <1>1, <1>4, <1>5, <1>6, <1>7, <1>8 DEF SendOutcome

LEMMA PollsCause ==
  ASSUME TypeInv, OwnEntry, StoryInv, GhostInv, CauseInv, NEW c \in Conns, Polls(c), PollFrame(c)
  PROVE  CauseInv'
<1>1. TypeOK /\ Telling(c) /\ Asked(c) /\ UNCHANGED <<peer, sent>> /\ ~Down
  BY DEF TypeInv, StoryInv, CauseInv, PollFrame
<1>2. Welcome.kind = "Welcome" /\ taken[c] \in Nat  BY <1>1, TakeEffect DEF Welcome
<1>3. ASSUME Take(c)
      PROVE  /\ taken'[c] >= 1 /\ LastLine(c)' = NextLine(c)
             /\ pc[c] = "serving" => taken'[c] > 1
  BY <1>1, <1>2, <1>3, TakeEffect DEF LastLine, NextLine, Asked
<1>4. ASSUME UNCHANGED wire, OthersStay(c), pc'[c] = "ended", Welcomed(c) => Caused(c)'
      PROVE  CauseInv'
  BY <1>4, PollCause DEF Asked, Welcomed
<1>5. Leaves(c) => OthersStay(c) /\ pc'[c] = "ended"
  BY <1>1, EndsTypes DEF Leaves
<1>6. CASE JoinFreeName(c)
  <2>1. Sends(c, Welcome, "welcome") /\ pc[c] = "joining" /\ Take(c)
    BY <1>6 DEF JoinFreeName, Joining
  <2>2. Fits(c, Welcome, "welcome")  BY <1>1, <2>1 DEF Telling, Fits
  <2> QED  BY <1>3, <2>1, <2>2, OwnMessages, SendCause DEF Continuations
<1>7. CASE Refuses(c)
  <2>1. PICK t \in ErrorTexts : Sends(c, Error(t), "close")  BY <1>7 DEF Refuses
  <2>2. Fits(c, Error(t), "close")  BY <1>1, <1>7 DEF Refuses, Telling, Fits, Error
  <2> QED  BY <2>1, <2>2, OwnMessages, SendCause DEF Continuations
<1>8. CASE JoinUnreadable(c)
  <2>1. ~Welcomed(c)  BY <1>1, <1>8 DEF JoinUnreadable, Joining, Telling, Welcomed
  <2> QED  BY <1>1, <1>4, <1>8, <2>1, EndsTypes DEF JoinUnreadable
<1>9. CASE Answers(c)
  <2>1. PICK msg \in Outgoing, then \in {"reply", "kick"} :
          /\ Sends(c, msg, then) /\ msg.kind \notin {"Welcome", "Message"}
          /\ then = "kick" => NextLine(c).kind = "Join"
    BY <1>9 DEF Answers
  <2> HIDE DEF Outgoing
  <2>2. Fits(c, msg, then)
    BY <1>1, <1>2, <1>9, <2>1 DEF Answers, Telling, Fits
  <2> QED  BY <1>3, <1>9, <2>1, <2>2, SendCause DEF Answers, Continuations
<1>10. CASE Posts(c)
  <2>1. OthersStay(c) /\ pc'[c] = "serving" /\ UNCHANGED wire
    BY <1>1, <1>10, ServesTypes DEF Posts
  <2>2. Asked(c)'  BY <1>3, <1>10, <2>1 DEF Posts, Asked
  <2> QED  BY <2>1, <2>2, PollCause
<1>11. CASE PostFails(c)
  <2>1. PICK n \in Registered : ~InLoop(registry[n])  BY <1>11 DEF PostFails
  <2>2. PICK d \in Conns : d = registry[n]
    BY <1>1, <2>1 DEF TypeOK, Registered
  <2>3. pc[d] = "ended" /\ Broken(d)
    BY <1>1, <2>1, <2>2 DEF GhostInv, Registered
  <2>4. pc'[d] = "ended" /\ Broken(d)' /\ d # c
    <3>1. d # c  BY <1>11, <2>3 DEF PostFails
    <3>2. taken'[d] = taken[d] /\ pc'[d] = pc[d]
      BY <1>1, <1>5, <1>11, <3>1, TakeEffect DEF PostFails, OthersStay
    <3> QED  BY <1>1, <2>3, <3>1, <3>2 DEF Broken
  <2>5. Caused(c)'  BY <2>4 DEF Caused
  <2> QED  BY <1>4, <1>5, <1>11, <2>5 DEF PostFails
<1>12. CASE GivesUp(c)
  <2>1. name[c] \in Names /\ registry[name[c]] = c
    BY <1>12 DEF GivesUp, TypeInv, NamedOK, OwnEntry, InLoop
  <2>2. Caused(c)'  BY <1>1, <1>3, <1>12, <2>1 DEF GivesUp, Caused, Unreadable
  <2> QED  BY <1>4, <1>5, <1>12, <2>2 DEF GivesUp
<1>13. CASE PanicOnRead(c)
  <2>1. Caused(c)'
    BY <1>3, <1>13 DEF PanicOnRead, Reacts, Serving, Caused, Unreadable
  <2> QED  BY <1>1, <1>4, <1>13, <2>1, EndsTypes DEF PanicOnRead
<1>14. CASE Forward(c)
  <2>1. /\ Sends(c, Head(chan[c]), "forward") /\ pc[c] = "serving"
        /\ chan[c] # <<>> /\ UNCHANGED taken
    BY <1>14 DEF Forward, Serving
  <2>2. Head(chan[c]) \in Outgoing /\ Head(chan[c]).kind = "Message"
    <3>1. chan[c] \in Seq(Outgoing)  BY <1>1 DEF TypeOK
    <3>2. Head(chan[c]) = chan[c][1] /\ 1 \in DOMAIN chan[c]
      <4> HIDE DEF Outgoing
      <4> QED  BY <2>1, <3>1
    <3> QED  BY <2>1, <3>2, ChannelHead DEF StoryInv, OnlyChat
  <2> HIDE DEF Outgoing
  <2>3. Fits(c, Head(chan[c]), "forward")
    BY <1>1, <1>2, <2>1, <2>2 DEF Telling, Fits
  <2>4. taken'[c] >= 1  BY <1>1, <2>1 DEF Asked
  <2> QED  BY <2>1, <2>2, <2>3, <2>4, SendCause DEF Continuations
<1>15. CASE Resume(c)
  <2> HIDE DEF Outgoing, Continuations
  <2>1. /\ Fits(c, pending[c].msg, pending[c].then) /\ pc[c] = "writing"
        /\ UNCHANGED taken
    BY <1>1, <1>15, ResumeSends DEF Telling, Resume
  <2>2. LastLine(c)' = LastLine(c)  BY <1>1, <2>1 DEF LastLine
  <2> QED  BY <1>1, <1>15, <2>1, <2>2, ResumeSends, SendCause DEF Asked
<1> QED
  BY <1>6, <1>7, <1>8, <1>9, <1>10, <1>11, <1>12, <1>13, <1>14, <1>15 DEF Polls

LEMMA CauseStep ==
  /\ TypeInv /\ BacklogConsistent /\ OwnEntry /\ StoryInv /\ AwayInv /\ GhostInv
  /\ CauseInv /\ [Next]_vars
  => CauseInv'
<1> SUFFICES ASSUME TypeInv, BacklogConsistent, OwnEntry, StoryInv, AwayInv, GhostInv,
                    CauseInv, [Next]_vars
             PROVE  CauseInv'
  OBVIOUS
<1> USE DEF handlerVars, socketVars, clientVars
<1>1. TypeOK /\ LoopTypeOK /\ \A d \in Conns : taken[d] \in Nat
  BY TakeEffect DEF TypeInv, TypeOK
<1>2. ASSUME Down => Down', \A d \in Conns : Stays(d), UNCHANGED pending,
             \A d \in Conns :
               \/ pc'[d] = pc[d] /\ (wire'[d] = wire[d] \/ pc[d] = "idle")
               \/ pc[d] = "idle" /\ pc'[d] = "joining"
      PROVE  CauseInv'
  <2>1. \A d \in Conns : Asked(d)'
    BY <1>1, <1>2 DEF CauseInv, Asked, LastLine, Stays
  <2>2. \A d \in Conns : Broken(d) => Broken(d)'
    BY <1>1, <1>2 DEF Broken, Stays
  <2>3. \A d \in Conns : Caused(d) => Caused(d)'
    BY <1>1, <1>2, <2>2 DEF Caused, LastLine, Stays
  <2> QED  BY <1>2, <2>1, <2>3 DEF CauseInv, Welcomed
<1>3. ASSUME UNCHANGED <<peer, sent, taken>> PROVE \A d \in Conns : Stays(d)
  BY <1>3 DEF Stays
<1>4. CASE LoopAlone \/ UNCHANGED vars
  <2>1. UNCHANGED <<socketVars, handlerVars>> /\ (Down => Down')
    BY <1>4
    DEF LoopAlone, AcceptFails, SendSignal, Break, DropFuture, EndWith, vars, loopVars, Down
  <2> QED  BY <1>2, <1>3, <2>1
<1>5. ASSUME NEW c \in Conns, Client(c) \/ Reader(c) PROVE CauseInv'
  <2>1. UNCHANGED <<wire, pc, pending, server>>
    BY <1>5 DEF Client, Reader, Dial, Connect, loopVars, ClientSends, ClientCloses,
                ClientVanishes, ClientReads
  <2> QED  BY <1>1, <1>2, <1>5, <2>1, ClientStays DEF Down
<1>6. ASSUME NEW c \in Conns, Accepting(c) \/ Rejecting(c) PROVE pc[c] = "idle"
  BY <1>1, <1>6 DEF Accepting, Rejecting, BacklogConsistent, LoopTypeOK, Unanswered, StoryInv
<1>7. ASSUME NEW c \in Conns,
             \/ SpawnHandler(c) \/ TurnAwayNow(c) \/ TurnAwayFails(c) \/ TurnAwayLater(c)
             \/ ReapHandler(c)
      PROVE  CauseInv'
  <2>1. UNCHANGED <<peer, sent, taken, pending>> /\ (Down => Down')
    BY <1>7
    DEF SpawnHandler, TurnAwayNow, TurnAwayFails, TurnAwayLater, ReapHandler, Spawn, RejectSent,
        RejectFails, RejectSuspends, Rejecting, Accepting, Reap, EndWith, Down
  <2>2. CASE SpawnHandler(c)
    <3>1. /\ pc[c] = "idle" /\ pc'[c] = "joining" /\ UNCHANGED wire
          /\ \A d \in Conns \ {c} : pc'[d] = pc[d]
      BY <1>1, <1>6, <2>2 DEF SpawnHandler, Spawn, TypeOK
    <3> QED  BY <1>2, <1>3, <2>1, <3>1
  <2>3. CASE TurnAwayNow(c)
    <3>1. /\ pc[c] = "idle" /\ UNCHANGED pc
          /\ \A d \in Conns \ {c} : wire'[d] = wire[d]
      BY <1>1, <1>6, <2>3, WireEffect DEF TurnAwayNow, RejectSent
    <3> QED  BY <1>2, <1>3, <2>1, <3>1
  <2>4. CASE TurnAwayFails(c) \/ TurnAwayLater(c) \/ ReapHandler(c)
    <3>1. UNCHANGED <<pc, wire>>
      BY <2>4 DEF TurnAwayFails, TurnAwayLater, ReapHandler, WriteFails
    <3> QED  BY <1>2, <1>3, <2>1, <3>1
  <2> QED  BY <1>7, <2>2, <2>3, <2>4
<1>8. ASSUME NEW c \in Conns, CancelHandler(c) PROVE CauseInv'
  <2>1. /\ pc'[c] = "ended" /\ OthersStay(c) /\ Down'
        /\ UNCHANGED <<sent, taken>>
    BY <1>1, <1>8 DEF CancelHandler, Cancel, OthersStay, TypeOK, Down
  <2> QED  BY <2>1 DEF CauseInv, Asked, LastLine, OthersStay
<1>9. ASSUME NEW c \in Conns, Handler(c) \/ JoinTimeout(c) PROVE CauseInv'
  BY <1>9, HandlerPolls, PollsCause
<1> QED  BY <1>4, <1>5, <1>7, <1>8, <1>9 DEF Next, Server

\* A welcomed client is dropped because it closed or vanished, joined again,
\* sent what cannot be read, or because another one is broken.
THEOREM DroppedWithCause == Spec => []DroppedForCause
<1>1. Init => CauseInv
  BY DEF Init, CauseInv, Asked
<1>2. Spec => []CauseInv
  BY <1>1, CauseStep, TypeInvCorrect, ImplementsLoop, BacklogHolds, EntriesOwned, StoryHolds,
     GhostsHold, PTL
  DEF Spec
<1>3. TypeInv /\ CauseInv => DroppedForCause
  <2> SUFFICES ASSUME TypeInv, CauseInv, NEW c \in Conns, pc[c] = "ended",
                      wire[c] # <<>>, Head(wire[c]) = Welcome, ~Down
               PROVE  \/ peer[c] \in {"half", "gone"}
                      \/ taken[c] > 1 /\ sent[c][taken[c]].kind \in {"Join"} \cup Unreadable
                      \/ \E d \in Conns \ {c} : Broken(d)
    BY DEF DroppedForCause
  <2>1. Head(wire[c]) = wire[c][1]
    <3>1. wire[c] \in Seq(Outgoing)  BY DEF TypeInv, TypeOK, SocketTypeOK
    <3> HIDE DEF Outgoing
    <3> QED  BY <3>1
  <2> QED  BY <2>1 DEF CauseInv, Caused, LastLine, Welcomed
<1> QED  BY <1>2, <1>3, TypeInvCorrect, PTL

-----------------------------------------------------------------------------
\* A line of c is taken by c's own handler; a served client's Broadcast only
\* in the branch for it.
LEMMA BroadcastBranch ==
  ASSUME TypeInv, NEW c \in Conns, Next, HandlesBroadcast(c)
  PROVE  ReactBroadcast(c) \/ ReactBroadcastFails(c)
<1> USE DEF handlerVars, socketVars, clientVars
<1>1. TypeOK /\ taken[c] \in Nat  BY TakeEffect DEF TypeInv
<1>2. InLoop(c) /\ taken'[c] # taken[c] /\ NextLine(c).kind = "Broadcast"
  BY <1>1 DEF HandlesBroadcast
<1>3. PICK e \in Conns : Handler(e) \/ JoinTimeout(e)
  BY <1>2
  DEF Next, LoopAlone, Client, Reader, Dial, ClientSends, ClientCloses, ClientVanishes,
      ClientReads, Server, SpawnHandler, TurnAwayNow, TurnAwayFails, TurnAwayLater,
      ReapHandler, CancelHandler
<1>4. e = c
  <2>1. UNCHANGED taken \/ Take(e)  BY <1>3, HandlerPolls DEF PollFrame
  <2> QED  BY <1>1, <1>2, <2>1, TakeEffect
<1>5. pc[c] # "joining"  BY <1>2 DEF InLoop
<1>6. React(c)
  BY <1>2, <1>3, <1>4, <1>5
  DEF Handler, Join, JoinFreeName, JoinTakenName, JoinOtherMessage, JoinUnreadable, JoinEof,
      JoinTimeout, Joining, Forward, Resume
<1> QED
  BY <1>2, <1>6
  DEF React, ReactPing, ReactListUsers, ReactJoin, ReactDirect, ReactDirectFails,
      ReactDirectRefused, LeaveLoop, PanicOnRead, Reacts

\* Without a ghost in the map a broadcast reaches every other client that is
\* being served.
THEOREM BroadcastsReach == Spec => BroadcastReachesHealthy
<1>1. ASSUME TypeInv, OwnEntry, Next, NEW c \in Conns, HandlesBroadcast(c),
             \A n \in Registered : InLoop(registry[n]),
             NEW d \in Conns \ {c}, InLoop(d)
      PROVE  Reached(d)
  <2>1. /\ chan \in [Conns -> Seq(Outgoing)] /\ NoConn \notin Conns
        /\ name[d] \in Names
    BY <1>1, NoConnAssumption DEF TypeInv, TypeOK, NamedOK, InLoop
  <2>2. registry[name[d]] = d /\ registry[name[c]] = c
    BY <1>1 DEF OwnEntry, HandlesBroadcast
  <2>3. d \in Audience(c)
    BY <2>1, <2>2 DEF Audience, Registered
  <2>4. ReactBroadcast(c)
    BY <1>1, BroadcastBranch DEF ReactBroadcastFails, Audience
  <2>5. chan'[d] = Append(chan[d], Message(name[c], NextText(c)))
    BY <2>3, <2>4 DEF ReactBroadcast, Posted
  <2>6. chan[d] \in Seq(Outgoing)  BY <2>1
  <2> HIDE DEF Outgoing
  <2>7. Len(Append(chan[d], Message(name[c], NextText(c)))) = Len(chan[d]) + 1
        /\ Len(chan[d]) \in Nat
    BY <2>6
  <2> QED  BY <2>5, <2>7 DEF Reached
<1>2. TypeInv /\ OwnEntry /\ [Next]_vars =>
        [\A c \in Conns :
           HandlesBroadcast(c) /\ (\A n \in Registered : InLoop(registry[n])) =>
             \A d \in Conns \ {c} : InLoop(d) => Reached(d)]_vars
  BY <1>1
<1> QED
  BY <1>2, TypeInvCorrect, EntriesOwned, PTL DEF Spec, BroadcastReachesHealthy

-----------------------------------------------------------------------------
(***************************************************************************)
(* The order of chat messages.  A message is numbered by the line it was   *)
(* made of, so it comes after all its sender's messages that are on their  *)
(* way anywhere; and what is on its way to a client, from the channel over *)
(* the message in hand to the socket, moves without being rearranged: a    *)
(* reply is put between what was written and the channel, and what is lost *)
(* when a handler ends is lost from the end.                               *)
(***************************************************************************)

\* The chat messages of s: in order, and of lines that have been taken.
Told(s, lines) ==
  /\ \A i, j \in DOMAIN s :
       i < j /\ s[i].kind = "Message" /\ s[j].kind = "Message"
         /\ s[i].message[1] = s[j].message[1]
       => s[i].message[2] < s[j].message[2]
  /\ \A i \in DOMAIN s :
       s[i].kind = "Message" => s[i].message[2] <= lines[s[i].message[1]]

FifoInv == \A c \in Conns : Told(Arriving(c), taken)

LEMMA Numbered ==
  ASSUME NEW m \in Outgoing, m.kind = "Message"
  PROVE  m.message[1] \in Conns /\ m.message[2] \in Nat
<1>1. m \in [kind : {"Message"}, from : Names, message : Text]
  BY DEF Outgoing, ServerToClientMsg, Welcome, Pong
<1>2. m.message \in Text  BY <1>1
<1> QED  BY <1>2, MaxSendsAssumption DEF Text

\* What is lost is lost from the end.
LEMMA PrefixTold ==
  ASSUME NEW s \in Seq(Outgoing), NEW t \in Seq(Outgoing), NEW lines, Told(s \o t, lines)
  PROVE  Told(s, lines)
<1> HIDE DEF Outgoing
<1>1. /\ DOMAIN s \subseteq DOMAIN (s \o t)
      /\ \A i \in DOMAIN s : (s \o t)[i] = s[i]
  OBVIOUS
<1> QED  BY <1>1 DEF Told

\* Another message in between, which is no chat message.
LEMMA InsertTold ==
  ASSUME NEW s \in Seq(Outgoing), NEW t \in Seq(Outgoing), NEW m \in Outgoing,
         m.kind # "Message", NEW lines, Told(s \o t, lines)
  PROVE  Told(s \o <<m>> \o t, lines)
<1> DEFINE u == s \o <<m>> \o t
           at(i) == IF i <= Len(s) THEN i ELSE i - 1
<1> HIDE DEF Outgoing
<1>1. /\ Len(s) \in Nat /\ Len(t) \in Nat
      /\ DOMAIN (s \o t) = 1..(Len(s) + Len(t))
      /\ DOMAIN u = 1..(Len(s) + 1 + Len(t))
  OBVIOUS
<1>2. \A i \in DOMAIN u : i # Len(s) + 1 =>
        at(i) \in DOMAIN (s \o t) /\ u[i] = (s \o t)[at(i)]
  OBVIOUS
<1>3. u[Len(s) + 1] = m  OBVIOUS
<1>4. \A i, j \in DOMAIN u :
        i < j /\ i # Len(s) + 1 /\ j # Len(s) + 1 => at(i) < at(j)
  BY <1>1
<1>5. \A i \in DOMAIN u : u[i].kind = "Message" => i # Len(s) + 1  BY <1>3
<1> HIDE DEF u, at
<1>6. Told(u, lines)
  <2> DEFINE v == s \o t
  <2>1. \A i \in DOMAIN u : u[i].kind = "Message" => at(i) \in DOMAIN v /\ u[i] = v[at(i)]
    BY <1>2, <1>5
  <2>2. \A i, j \in DOMAIN u :
          i < j /\ u[i].kind = "Message" /\ u[j].kind = "Message" => at(i) < at(j)
    BY <1>4, <1>5
  <2> HIDE DEF v
  <2>3. Told(v, lines)  BY DEF v
  <2> QED  BY <2>1, <2>2, <2>3 DEF Told
<1> QED  BY <1>6 DEF u

\* A message made of the line that is taken now.
LEMMA AppendTold ==
  ASSUME NEW s \in Seq(Outgoing), NEW m \in Outgoing, m.kind = "Message",
         NEW lines \in [Conns -> Nat], Told(s, lines),
         m.message[2] = lines[m.message[1]] + 1
  PROVE  Told(Append(s, m), [lines EXCEPT ![m.message[1]] = lines[m.message[1]] + 1])
<1> HIDE DEF Outgoing
<1> DEFINE c == m.message[1]
           more == [lines EXCEPT ![c] = lines[c] + 1]
           u == Append(s, m)
<1>1. c \in Conns  BY Numbered
<1>2. /\ lines[c] \in Nat /\ more[c] = lines[c] + 1
      /\ \A d \in Conns : lines[d] \in Nat /\ more[d] \in Nat /\ lines[d] <= more[d]
  BY <1>1
<1>3. /\ Len(s) \in Nat /\ DOMAIN s = 1..Len(s) /\ DOMAIN u = 1..(Len(s) + 1)
      /\ \A i \in 1..Len(s) : u[i] = s[i]
      /\ u[Len(s) + 1] = m
  OBVIOUS
<1>4. \A i \in DOMAIN u : (i \in DOMAIN s /\ u[i] = s[i]) \/ (i = Len(s) + 1 /\ u[i] = m)
  BY <1>3
<1>5. \A i \in DOMAIN s : s[i].kind = "Message" =>
        /\ s[i].message[1] \in Conns /\ s[i].message[2] \in Nat
        /\ s[i].message[2] <= lines[s[i].message[1]]
  <2>1. \A i \in DOMAIN s : s[i] \in Outgoing  OBVIOUS
  <2> QED  BY <2>1, Numbered DEF Told
<1>6. m.message[2] = lines[c] + 1 /\ m.kind = "Message"  OBVIOUS
<1> HIDE DEF u, more, c
<1>7. \A i \in DOMAIN u : u[i].kind = "Message" => u[i].message[2] <= more[u[i].message[1]]
  <2> TAKE i \in DOMAIN u
  <2>1. CASE i \in DOMAIN s /\ u[i] = s[i]  BY <1>2, <1>5, <2>1
  <2>2. CASE u[i] = m  BY <1>2, <1>6, <2>2 DEF c
  <2> QED  BY <1>4, <2>1, <2>2
<1>8. ASSUME NEW i \in DOMAIN u, NEW j \in DOMAIN u, i < j,
             u[i].kind = "Message", u[j].kind = "Message", u[i].message[1] = u[j].message[1]
      PROVE  u[i].message[2] < u[j].message[2]
  <2>1. i \in DOMAIN s /\ u[i] = s[i]  BY <1>3, <1>4, <1>8
  <2>2. CASE j \in DOMAIN s /\ u[j] = s[j]  BY <1>8, <2>1, <2>2 DEF Told
  <2>3. CASE u[j] = m
    <3>1. s[i].message[1] = c  BY <1>8, <2>1, <2>3 DEF c
    <3>2. s[i].message[2] \in Nat /\ s[i].message[2] <= lines[c]
      BY <1>5, <1>8, <2>1, <3>1
    <3> QED  BY <1>2, <1>6, <2>1, <2>3, <3>2
  <2> QED  BY <1>4, <2>2, <2>3
<1>9. Told(u, more)  BY <1>7, <1>8 DEF Told
<1> QED  BY <1>9 DEF u, more, c

\* Who has taken more lines has told of no others.
LEMMA MoreTold ==
  ASSUME NEW s \in Seq(Outgoing), NEW lines \in [Conns -> Nat], NEW more \in [Conns -> Nat],
         \A c \in Conns : lines[c] <= more[c], Told(s, lines)
  PROVE  Told(s, more)
<1> HIDE DEF Outgoing
<1>1. ASSUME NEW i \in DOMAIN s, s[i].kind = "Message"
      PROVE  s[i].message[2] <= more[s[i].message[1]]
  <2>1. s[i] \in Outgoing  OBVIOUS
  <2>2. s[i].message[1] \in Conns /\ s[i].message[2] \in Nat  BY <1>1, <2>1, Numbered
  <2>3. s[i].message[2] <= lines[s[i].message[1]]  BY <1>1 DEF Told
  <2> QED  BY <2>2, <2>3
<1> QED  BY <1>1 DEF Told

-----------------------------------------------------------------------------
\* What is on its way, when nothing is in hand, and when something is.
LEMMA InTransit ==
  ASSUME NEW w \in Seq(Outgoing), NEW q \in Seq(Outgoing), NEW m \in Outgoing
  PROVE  /\ w \o <<>> \o q = w \o q
         /\ Append(w, m) \o <<>> \o q = w \o <<m>> \o q
         /\ w \o <<m>> \o q = w \o (<<m>> \o q)
         /\ w \o <<>> \o <<>> = w
         /\ Append(w, m) \o <<>> \o <<>> = w \o <<m>>
<1> HIDE DEF Outgoing
<1>1. <<>> \in Seq(Outgoing) /\ <<m>> \in Seq(Outgoing) /\ w \o <<m>> \in Seq(Outgoing)
  OBVIOUS
<1>2. \A s \in Seq(Outgoing) : s \o <<>> = s  BY ConcatEmptySeq
<1>3. Append(w, m) = w \o <<m>>  BY AppendIsConcat
<1> QED  BY <1>1, <1>2, <1>3, ConcatAssociative

LEMMA ArrivingTypes ==
  ASSUME TypeInv, NEW c \in Conns
  PROVE  /\ wire[c] \in Seq(Outgoing) /\ chan[c] \in Seq(Outgoing)
         /\ InHand(c) \in Seq(Outgoing)
         /\ wire[c] \o InHand(c) \in Seq(Outgoing) /\ Arriving(c) \in Seq(Outgoing)
<1>1. wire[c] \in Seq(Outgoing) /\ chan[c] \in Seq(Outgoing)
  BY DEF TypeInv, TypeOK, SocketTypeOK
<1>2. pc[c] = "writing" => pending[c].msg \in Outgoing
  <2>1. pc[c] = "writing" => pending[c] \in Write  BY DEF TypeInv, NamedOK
  <2> HIDE DEF Outgoing, Continuations
  <2> QED  BY <2>1 DEF Write
<1> HIDE DEF Outgoing
<1>3. InHand(c) \in Seq(Outgoing)  BY <1>2 DEF InHand
<1>4. wire[c] \o InHand(c) \in Seq(Outgoing)  BY <1>1, <1>3
<1> QED  BY <1>1, <1>3, <1>4 DEF Arriving

\* A write moves what it writes, which was in hand or was taken from the
\* channel, or is new; if it ends the handler, the channel is lost.
LEMMA SendArrives ==
  ASSUME TypeInv, NEW c \in Conns, NEW msg \in Outgoing, NEW then \in Continuations,
         Sends(c, msg, then), NEW rest \in Seq(Outgoing), RestOfChannel(c, rest)
  PROVE  /\ \A d \in Conns \ {c} : Arriving(d)' = Arriving(d)
         /\ pc'[c] # "ended" => Arriving(c)' = wire[c] \o <<msg>> \o rest
         /\ pc'[c] = "ended" => Arriving(c)' \in {wire[c], wire[c] \o <<msg>>}
<1>1. /\ TypeOK /\ OthersStay(c) /\ SendOutcome(c, msg, then)
      /\ chan \in [Conns -> Seq(Outgoing)] /\ wire[c] \in Seq(Outgoing)
  BY SendsEffect DEF TypeInv, TypeOK, SocketTypeOK
<1>2. \A d \in Conns \ {c} : wire'[d] = wire[d]
  BY <1>1, WireEffect DEF SendOutcome, WriteFails
<1>3. /\ \A d \in Conns \ {c} : chan'[d] = chan[d]
      /\ chan'[c] = IF pc'[c] = "ended" THEN <<>> ELSE rest
  BY <1>1 DEF RestOfChannel
<1>4. \A d \in Conns \ {c} : Arriving(d)' = Arriving(d)
  BY <1>1, <1>2, <1>3 DEF Arriving, InHand, OthersStay
<1>5. /\ pc'[c] # "ended" => Arriving(c)' = wire[c] \o <<msg>> \o rest
      /\ pc'[c] = "ended" => Arriving(c)' \in {wire[c], wire[c] \o <<msg>>}
  <2> DEFINE w == wire[c]
  <2> HIDE DEF Outgoing, w
  <2>1. w \in Seq(Outgoing)  BY <1>1 DEF w
  <2>2. CASE pc'[c] = "writing" /\ pending'[c].msg = msg /\ UNCHANGED wire
    <3>1. wire'[c] = w /\ chan'[c] = rest /\ InHand(c)' = <<msg>>
      BY <1>3, <2>2 DEF InHand, w
    <3> QED  BY <2>2, <3>1 DEF Arriving, w
  <2>3. CASE pc'[c] = "serving" /\ wire'[c] = Append(w, msg)
    <3>1. Arriving(c)' = Append(w, msg) \o <<>> \o rest
      BY <1>3, <2>3 DEF Arriving, InHand
    <3>2. Append(w, msg) \o <<>> \o rest = w \o <<msg>> \o rest  BY <2>1, InTransit
    <3> QED  BY <2>3, <3>1, <3>2 DEF w
  <2>4. CASE pc'[c] = "ended" /\ wire'[c] = Append(w, msg)
    <3>1. Arriving(c)' = Append(w, msg) \o <<>> \o <<>>
      BY <1>3, <2>4 DEF Arriving, InHand
    <3>2. Append(w, msg) \o <<>> \o <<>> = w \o <<msg>>  BY <2>1, InTransit
    <3> QED  BY <2>4, <3>1, <3>2 DEF w
  <2>5. CASE pc'[c] = "ended" /\ UNCHANGED wire
    <3>1. wire'[c] = w /\ chan'[c] = <<>> /\ InHand(c)' = <<>>
      BY <1>3, <2>5 DEF InHand, w
    <3>2. Arriving(c)' = w \o <<>> \o <<>>  BY <3>1 DEF Arriving
    <3>3. w \o <<>> \o <<>> = w  BY <2>1, InTransit
    <3> QED  BY <2>5, <3>2, <3>3 DEF w
  <2>6. WriteLands(c, msg) => wire'[c] = Append(w, msg)
    BY <1>1, WireEffect DEF w
  <2>7. \/ pc'[c] = "writing" /\ pending'[c].msg = msg /\ UNCHANGED wire
        \/ pc'[c] \in {"serving", "ended"} /\ wire'[c] = Append(w, msg)
        \/ pc'[c] = "ended" /\ UNCHANGED wire
    BY <1>1, <2>6 DEF SendOutcome, WriteFails
  <2> QED  BY <2>2, <2>3, <2>4, <2>5, <2>7
<1> QED  BY <1>4, <1>5

LEMMA SendTold ==
  ASSUME TypeInv, NEW c \in Conns, NEW msg \in Outgoing, NEW then \in Continuations,
         Sends(c, msg, then), NEW rest \in Seq(Outgoing), RestOfChannel(c, rest), NEW lines,
         Told(wire[c] \o <<msg>> \o rest, lines)
  PROVE  /\ Told(Arriving(c)', lines)
         /\ \A d \in Conns \ {c} : Arriving(d)' = Arriving(d)
<1> DEFINE w == wire[c]
<1>1. w \in Seq(Outgoing)  BY ArrivingTypes
<1>2. /\ \A d \in Conns \ {c} : Arriving(d)' = Arriving(d)
      /\ Arriving(c)' \in {w, w \o <<msg>>, w \o <<msg>> \o rest}
  BY SendArrives
<1> HIDE DEF Outgoing, w
<1>3. <<msg>> \o rest \in Seq(Outgoing) /\ w \o <<msg>> \in Seq(Outgoing)  BY <1>1
<1>4. Told(w \o <<msg>> \o rest, lines)  BY DEF w
<1>5. Told(w \o <<msg>>, lines)  BY <1>3, <1>4, PrefixTold
<1>6. Told(w, lines)
  <2>1. w \o <<msg>> \o rest = w \o (<<msg>> \o rest)  BY <1>1, InTransit
  <2>2. Told(w \o (<<msg>> \o rest), lines)  BY <1>4, <2>1
  <2> QED  BY <1>1, <1>3, <2>2, PrefixTold
<1> QED  BY <1>2, <1>4, <1>5, <1>6

\* A handler that ends keeps what was written.
LEMMA EndArrives ==
  ASSUME TypeInv, NEW c \in Conns, pc'[c] = "ended", wire'[c] = wire[c], chan'[c] = <<>>
  PROVE  Arriving(c)' = wire[c]
<1>1. wire[c] \in Seq(Outgoing)  BY ArrivingTypes
<1>2. Arriving(c)' = wire[c] \o <<>> \o <<>>  BY DEF Arriving, InHand
<1> HIDE DEF Outgoing
<1>3. \A s \in Seq(Outgoing) : s \o <<>> = s  BY ConcatEmptySeq
<1> QED  BY <1>1, <1>2, <1>3

LEMMA EndTold ==
  ASSUME TypeInv, NEW c \in Conns, pc'[c] = "ended", wire'[c] = wire[c], chan'[c] = <<>>,
         NEW lines, Told(Arriving(c), lines)
  PROVE  Told(Arriving(c)', lines)
<1> DEFINE w == wire[c]
           h == InHand(c)
           q == chan[c]
<1>1. w \in Seq(Outgoing) /\ h \in Seq(Outgoing) /\ q \in Seq(Outgoing)
  BY ArrivingTypes
<1>2. Arriving(c)' = w  BY EndArrives
<1>3. Told(w \o h \o q, lines)  BY DEF Arriving
<1> HIDE DEF Outgoing, w, h, q
<1>4. Told(w \o h, lines)
  <2>1. w \o h \in Seq(Outgoing)  BY <1>1
  <2> QED  BY <1>1, <1>3, <2>1, PrefixTold
<1>5. Told(w, lines)  BY <1>1, <1>4, PrefixTold
<1> QED  BY <1>2, <1>5

\* A message is put at the end of a channel, and it is its sender's latest.
LEMMA PostTold ==
  ASSUME TypeInv, NEW c \in Conns, Serving(c), Take(c), NEW d \in Conns,
         Told(Arriving(d), taken), InHand(d)' = InHand(d), wire'[d] = wire[d],
         chan'[d] = Append(chan[d], Message(name[c], NextText(c)))
  PROVE  Told(Arriving(d)', taken')
<1> DEFINE m == Message(name[c], NextText(c))
           x == wire[d] \o InHand(d)
           q == chan[d]
<1>1. /\ taken \in [Conns -> Nat] /\ taken' = [taken EXCEPT ![c] = taken[c] + 1]
      /\ m.kind = "Message" /\ m.message[1] = c /\ m.message[2] = taken[c] + 1
  BY DEF TypeInv, TypeOK, SocketTypeOK, Take, Message, NextText
<1>2. m \in Outgoing
  <2>1. NextText(c) \in Text
    BY MaxSendsAssumption DEF NextText, Text, Take, HasLine, TypeInv, TypeOK, SocketTypeOK
  <2>2. name[c] \in Names  BY DEF TypeInv, NamedOK, Serving
  <2> QED  BY <2>1, <2>2 DEF Message, Outgoing, ServerToClientMsg
<1>3. x \in Seq(Outgoing) /\ q \in Seq(Outgoing) /\ x \o q \in Seq(Outgoing)
  BY ArrivingTypes DEF Arriving
<1>4. Told(x \o q, taken)  BY DEF Arriving
<1>5. Arriving(d)' = x \o Append(q, m)  BY DEF Arriving
<1> HIDE DEF Outgoing, m, x, q
<1>6. x \o Append(q, m) = Append(x \o q, m)
  <2>1. <<m>> \in Seq(Outgoing)  BY <1>2
  <2>2. Append(q, m) = q \o <<m>> /\ Append(x \o q, m) = (x \o q) \o <<m>>
    BY <1>2, <1>3, AppendIsConcat
  <2>3. (x \o q) \o <<m>> = x \o (q \o <<m>>)  BY <1>3, <2>1, ConcatAssociative
  <2> QED  BY <2>2, <2>3
<1>7. Told(Append(x \o q, m), taken')
  BY <1>1, <1>2, <1>3, <1>4, AppendTold
<1> QED  BY <1>5, <1>6, <1>7

LEMMA PollsFifo ==
  ASSUME TypeInv, TypeInv', StoryInv, FifoInv, NEW c \in Conns, Polls(c), PollFrame(c)
  PROVE  FifoInv'
<1> DEFINE w == wire[c]
           q == chan[c]
<1>1. /\ TypeOK /\ chan \in [Conns -> Seq(Outgoing)]
      /\ taken \in [Conns -> Nat] /\ taken' \in [Conns -> Nat]
      /\ w \in Seq(Outgoing) /\ q \in Seq(Outgoing)
  BY DEF TypeInv, TypeOK, SocketTypeOK
<1>2. \A d \in Conns : Told(Arriving(d), taken')
  <2>1. \A d \in Conns : taken[d] <= taken'[d]
    <3>1. /\ taken \in [Conns -> Nat]
          /\ UNCHANGED taken \/ taken' = [taken EXCEPT ![c] = taken[c] + 1]
      BY <1>1 DEF PollFrame, Take
    <3> HIDE DEF w, q
    <3> QED  BY <3>1
  <2>2. \A d \in Conns : Arriving(d) \in Seq(Outgoing)  BY ArrivingTypes
  <2> HIDE DEF Outgoing
  <2> QED  BY <1>1, <2>1, <2>2, MoreTold DEF FifoInv
<1>3. pc[c] # "writing" => Told(w \o q, taken')
  <2>1. ASSUME pc[c] # "writing" PROVE Arriving(c) = w \o <<>> \o q
    BY <2>1 DEF Arriving, InHand
  <2>2. w \o <<>> \o q = w \o q
    <3>1. \A u \in Seq(Outgoing) : u \o <<>> = u  BY ConcatEmptySeq
    <3> HIDE DEF Outgoing, w, q
    <3> QED  BY <1>1, <3>1
  <2> QED  BY <1>2, <2>1, <2>2
<1>4. ASSUME NEW msg \in Outgoing, NEW then \in Continuations, Sends(c, msg, then),
             NEW rest \in Seq(Outgoing), RestOfChannel(c, rest),
             Told(w \o <<msg>> \o rest, taken')
      PROVE  FifoInv'
  <2>1. /\ Told(Arriving(c)', taken')
        /\ \A d \in Conns \ {c} : Arriving(d)' = Arriving(d)
    BY <1>4, SendTold
  <2>2. ASSUME NEW d \in Conns PROVE Told(Arriving(d)', taken')
    BY <1>2, <2>1
  <2> QED  BY <2>2 DEF FifoInv
<1>5. ASSUME NEW msg \in Outgoing, NEW then \in Continuations, Sends(c, msg, then),
             KeepChannel(c), pc[c] # "writing", msg.kind # "Message"
      PROVE  FifoInv'
  <2>1. Told(w \o <<msg>> \o q, taken')
    BY <1>1, <1>3, <1>5, InsertTold
  <2> QED  BY <1>1, <1>4, <1>5, <2>1 DEF KeepChannel
<1>6. ASSUME pc'[c] = "ended", OthersStay(c), UNCHANGED wire, chan'[c] = <<>>,
             \A d \in Conns \ {c} : chan'[d] = chan[d]
      PROVE  FifoInv'
  <2>1. Told(Arriving(c)', taken')  BY <1>2, <1>6, EndTold
  <2>2. \A d \in Conns \ {c} : Arriving(d)' = Arriving(d)
    BY <1>6 DEF Arriving, InHand, OthersStay
  <2>3. ASSUME NEW d \in Conns PROVE Told(Arriving(d)', taken')
    BY <1>2, <2>1, <2>2
  <2> QED  BY <2>3 DEF FifoInv
<1>7. ASSUME pc'[c] = "ended", KeepChannel(c)
      PROVE  chan'[c] = <<>> /\ \A d \in Conns \ {c} : chan'[d] = chan[d]
  BY <1>1, <1>7 DEF KeepChannel, RestOfChannel
<1>8. Leaves(c) => OthersStay(c) /\ pc'[c] = "ended"
  BY <1>1, EndsTypes DEF Leaves
<1>9. CASE JoinFreeName(c)
  <2>1. Welcome.kind # "Message"  BY DEF Welcome
  <2> QED
    BY <1>5, <1>9, <2>1, OwnMessages DEF JoinFreeName, Joining, JoinFrame, Continuations
<1>10. CASE Refuses(c)
  <2>1. PICK t \in ErrorTexts : Sends(c, Error(t), "close")  BY <1>10 DEF Refuses
  <2>2. Error(t).kind # "Message"  BY DEF Error
  <2> QED  BY <1>5, <1>10, <2>1, <2>2, OwnMessages DEF Refuses, Continuations
<1>11. CASE JoinUnreadable(c)
  BY <1>1, <1>6, <1>7, <1>11, EndsTypes DEF JoinUnreadable, JoinFrame
<1>12. CASE Answers(c)
  <2>1. PICK msg \in Outgoing, then \in {"reply", "kick"} :
          Sends(c, msg, then) /\ msg.kind \notin {"Welcome", "Message"}
    BY <1>12 DEF Answers
  <2> HIDE DEF Outgoing
  <2> QED  BY <1>5, <1>12, <2>1 DEF Answers, Continuations
<1>13. ASSUME NEW to \in SUBSET Conns, NEW d \in Conns, Serving(c), Take(c),
              chan'[d] = Posted(c, to)[d], InHand(d)' = InHand(d), wire'[d] = wire[d]
       PROVE  Told(Arriving(d)', taken')
  <2>1. CASE chan'[d] = chan[d]
    <3>1. Arriving(d)' = Arriving(d)  BY <1>13, <2>1 DEF Arriving
    <3> QED  BY <1>2, <3>1
  <2>2. CASE chan'[d] = Append(chan[d], Message(name[c], NextText(c)))
    BY <1>13, <2>2, PostTold DEF FifoInv
  <2> QED  BY <1>13, <2>1, <2>2 DEF Posted
<1>14. CASE Posts(c)
  <2>1. PICK to \in SUBSET Conns : chan' = Posted(c, to)
    BY <1>1, <1>14, ServedConns DEF Posts
  <2>2. OthersStay(c) /\ pc'[c] = "serving" /\ pc[c] = "serving" /\ UNCHANGED wire
    BY <1>1, <1>14, ServesTypes DEF Posts
  <2>3. \A d \in Conns : InHand(d)' = InHand(d)  BY <2>2 DEF InHand, OthersStay
  <2>4. ASSUME NEW d \in Conns PROVE Told(Arriving(d)', taken')
    BY <1>13, <1>14, <2>1, <2>2, <2>3 DEF Posts, PollFrame, Serving
  <2> QED  BY <2>4 DEF FifoInv
<1>15. CASE PostFails(c)
  <2>1. PICK to \in SUBSET Conns : chan' = [Posted(c, to) EXCEPT ![c] = <<>>]
    BY <1>1, <1>15, ServedConns DEF PostFails
  <2>2. OthersStay(c) /\ pc'[c] = "ended" /\ pc[c] = "serving" /\ UNCHANGED wire
    BY <1>8, <1>15 DEF PostFails
  <2>3. \A d \in Conns \ {c} : InHand(d)' = InHand(d)  BY <2>2 DEF InHand, OthersStay
  <2>4. chan'[c] = <<>> /\ \A d \in Conns \ {c} : chan'[d] = Posted(c, to)[d]
    <3>1. DOMAIN Posted(c, to) = Conns  BY DEF Posted
    <3> HIDE DEF Posted
    <3> QED  BY <2>1, <3>1
  <2>5. Told(Arriving(c)', taken')  BY <1>2, <2>2, <2>4, EndTold
  <2>6. ASSUME NEW d \in Conns \ {c} PROVE Told(Arriving(d)', taken')
    BY <1>13, <1>15, <2>2, <2>3, <2>4 DEF PostFails, PollFrame, Serving
  <2>7. \A d \in Conns : Told(Arriving(d)', taken')  BY <2>5, <2>6
  <2> QED  BY <2>7 DEF FifoInv
<1>16. CASE GivesUp(c)  BY <1>6, <1>7, <1>8, <1>16 DEF GivesUp
<1>17. CASE PanicOnRead(c)
  BY <1>1, <1>6, <1>7, <1>17, EndsTypes DEF PanicOnRead, ReplyFrame
<1>18. CASE Forward(c)
  <2>1. /\ Sends(c, Head(q), "forward") /\ pc[c] = "serving"
        /\ q # <<>> /\ RestOfChannel(c, Tail(q))
    BY <1>18 DEF Forward, Serving
  <2>2. Head(q) \in Outgoing /\ Tail(q) \in Seq(Outgoing)  BY <2>1, ChannelHead
  <2> HIDE DEF Outgoing, w, q
  <2>3. w \o <<Head(q)>> \o Tail(q) = w \o q
    <3>1. <<Head(q)>> \o Tail(q) = q  BY <1>1, <2>1
    <3>2. w \o <<Head(q)>> \o Tail(q) = w \o (<<Head(q)>> \o Tail(q))
      BY <1>1, <2>2, InTransit
    <3> QED  BY <3>1, <3>2
  <2>4. Told(w \o <<Head(q)>> \o Tail(q), taken')  BY <1>3, <2>1, <2>3
  <2> QED  BY <1>4, <2>1, <2>2, <2>4 DEF Continuations
<1>19. CASE Resume(c)
  <2>1. Arriving(c) = w \o <<pending[c].msg>> \o q
    BY <1>19, ResumeSends DEF Arriving, InHand
  <2>2. RestOfChannel(c, q)  BY <1>19 DEF Resume, KeepChannel
  <2> HIDE DEF Outgoing, Continuations, w, q
  <2>3. Told(w \o <<pending[c].msg>> \o q, taken')  BY <1>2, <2>1
  <2> QED  BY <1>1, <1>4, <1>19, <2>2, <2>3, ResumeSends
<1> QED
  BY <1>9, <1>10, <1>11, <1>12, <1>14, <1>15, <1>16, <1>17, <1>18, <1>19 DEF Polls

LEMMA FifoStep ==
  TypeInv /\ BacklogConsistent /\ StoryInv /\ FifoInv /\ [Next]_vars => FifoInv'
<1> SUFFICES ASSUME TypeInv, BacklogConsistent, StoryInv, FifoInv, [Next]_vars PROVE FifoInv'
  OBVIOUS
<1> USE DEF handlerVars, socketVars, clientVars
<1>1. TypeOK /\ LoopTypeOK  BY DEF TypeInv, TypeOK
<1>2. ASSUME UNCHANGED <<pc, pending, wire, chan, taken>> PROVE FifoInv'
  BY <1>2 DEF FifoInv, Arriving, InHand
<1>3. CASE LoopAlone \/ UNCHANGED vars
  BY <1>2, <1>3 DEF LoopAlone, vars
<1>4. ASSUME NEW c \in Conns, Client(c) \/ Reader(c) PROVE FifoInv'
  BY <1>2, <1>4
  DEF Client, Reader, Dial, ClientSends, ClientCloses, ClientVanishes, ClientReads
<1>5. ASSUME NEW c \in Conns, Accepting(c) \/ Rejecting(c) PROVE pc[c] = "idle"
  BY <1>1, <1>5 DEF Accepting, Rejecting, BacklogConsistent, LoopTypeOK, Unanswered, StoryInv
<1>6. ASSUME NEW c \in Conns, SpawnHandler(c) PROVE FifoInv'
  <2>1. /\ pc[c] = "idle" /\ pc'[c] = "joining" /\ UNCHANGED <<pending, wire, chan, taken>>
        /\ \A d \in Conns \ {c} : pc'[d] = pc[d]
    BY <1>1, <1>5, <1>6 DEF SpawnHandler, Spawn, TypeOK
  <2>2. \A d \in Conns : InHand(d)' = InHand(d)  BY <2>1 DEF InHand
  <2> QED  BY <2>1, <2>2 DEF FifoInv, Arriving
<1>7. ASSUME NEW c \in Conns, TurnAwayNow(c) PROVE FifoInv'
  <2> DEFINE m == Error("Server is full")
             w == wire[c]
             q == chan[c]
  <2>1. /\ pc[c] = "idle" /\ UNCHANGED <<pc, pending, chan, taken>>
        /\ \A d \in Conns \ {c} : wire'[d] = wire[d]
        /\ w \in Seq(Outgoing) /\ q \in Seq(Outgoing) /\ wire'[c] = Append(w, m)
    BY <1>1, <1>5, <1>7, WireEffect DEF TurnAwayNow, RejectSent, TypeOK
  <2>2. m \in Outgoing /\ m.kind # "Message"  BY OwnMessages DEF ErrorTexts, Error
  <2>3. Arriving(c) = w \o <<>> \o q  BY <2>1 DEF Arriving, InHand
  <2>4. Arriving(c)' = Append(w, m) \o <<>> \o q  BY <2>1 DEF Arriving, InHand
  <2>5. \A d \in Conns \ {c} : Arriving(d)' = Arriving(d)
    BY <2>1 DEF Arriving, InHand
  <2> HIDE DEF Outgoing, m, w, q
  <2>6. w \o <<>> \o q = w \o q /\ Append(w, m) \o <<>> \o q = w \o <<m>> \o q
    BY <2>1, <2>2, InTransit
  <2>7. Told(w \o q, taken)  BY <2>3, <2>6 DEF FifoInv
  <2>8. Told(Arriving(c)', taken)
    BY <2>1, <2>2, <2>4, <2>6, <2>7, InsertTold
  <2>9. ASSUME NEW d \in Conns PROVE Told(Arriving(d)', taken')
    BY <2>1, <2>5, <2>8 DEF FifoInv
  <2> QED  BY <2>9 DEF FifoInv
<1>8. ASSUME NEW c \in Conns, TurnAwayFails(c) \/ TurnAwayLater(c) \/ ReapHandler(c)
      PROVE  FifoInv'
  BY <1>2, <1>8 DEF TurnAwayFails, TurnAwayLater, ReapHandler, WriteFails
<1>9. ASSUME NEW c \in Conns, CancelHandler(c) PROVE FifoInv'
  <2>1. /\ pc'[c] = "ended" /\ OthersStay(c) /\ UNCHANGED <<wire, taken>>
        /\ chan'[c] = <<>> /\ \A d \in Conns \ {c} : chan'[d] = chan[d]
    BY <1>1, <1>9 DEF CancelHandler, OthersStay, TypeOK, KeepChannel, RestOfChannel
  <2>2. Told(Arriving(c)', taken)  BY <2>1, EndTold DEF FifoInv
  <2>3. \A d \in Conns \ {c} : Arriving(d)' = Arriving(d)
    BY <2>1 DEF Arriving, InHand, OthersStay
  <2>4. ASSUME NEW d \in Conns PROVE Told(Arriving(d)', taken')
    BY <2>1, <2>2, <2>3 DEF FifoInv
  <2> QED  BY <2>4 DEF FifoInv
<1>10. ASSUME NEW c \in Conns, Handler(c) \/ JoinTimeout(c) PROVE FifoInv'
  BY <1>10, HandlerPolls, PollsFifo, TypeStep
<1> QED  BY <1>3, <1>4, <1>6, <1>7, <1>8, <1>9, <1>10 DEF Next, Server

LEMMA FifoHolds == Spec => []FifoInv
<1>1. Init => FifoInv
  <2> SUFFICES ASSUME Init, NEW c \in Conns PROVE Told(Arriving(c), taken)
    BY DEF FifoInv
  <2>1. Arriving(c) = <<>> \o <<>> \o <<>>
    BY DEF Init, SocketInit, Arriving, InHand
  <2>2. DOMAIN (<<>> \o <<>> \o <<>>) = {}  OBVIOUS
  <2> QED  BY <2>1, <2>2 DEF Told
<1> QED
  BY <1>1, FifoStep, TypeInvCorrect, ImplementsLoop, BacklogHolds, StoryHolds, PTL DEF Spec

\* Direct messages and broadcasts of one sender reach a client in the order
\* they were sent, and each once.
THEOREM InOrder == Spec => []PairwiseFifo
<1>1. FifoInv => PairwiseFifo
  BY DEF FifoInv, Told, PairwiseFifo
<1> QED  BY <1>1, FifoHolds, PTL

-----------------------------------------------------------------------------
(***************************************************************************)
(* The chat messages on their way to a client.  A poll of a handler keeps  *)
(* them, unless the handler ends: then the end of them is lost; and those  *)
(* it tells something have one more.                                       *)
(***************************************************************************)
Said(s) == OfKind(s, {"Message"})

LEMMA SaidParts ==
  /\ \A s \in Seq(Outgoing) : Said(s) \in Seq(Outgoing)
  /\ \A s, t \in Seq(Outgoing) : Said(s \o t) = Said(s) \o Said(t)
  /\ \A s \in Seq(Outgoing), m \in Outgoing :
       Said(Append(s, m)) = IF m.kind = "Message" THEN Append(Said(s), m) ELSE Said(s)
<1> DEFINE K == {"Message"}
<1> HIDE DEF Outgoing, K
<1>1. \A s \in Seq(Outgoing) : OfKind(s, K) \in Seq(Outgoing)  BY OfKindSeq
<1>2. \A s, t \in Seq(Outgoing) : OfKind(s \o t, K) = OfKind(s, K) \o OfKind(t, K)
  BY OfKindConcat
<1>3. \A s \in Seq(Outgoing), m \in Outgoing :
        OfKind(Append(s, m), K) = IF m.kind \in K THEN Append(OfKind(s, K), m)
                                                  ELSE OfKind(s, K)
  BY OfKindAppend
<1>4. \A x : x \in K <=> x = "Message"  BY DEF K
<1>5. \A s \in Seq(Outgoing), m \in Outgoing :
        OfKind(Append(s, m), K) = IF m.kind = "Message" THEN Append(OfKind(s, K), m)
                                                       ELSE OfKind(s, K)
  BY <1>3, <1>4
<1>6. \A s : Said(s) = OfKind(s, K)  BY DEF Said, K
<1> QED  BY <1>1, <1>2, <1>5, <1>6

\* A message that is no chat message makes no difference, wherever it is.
LEMMA SaidSkips ==
  ASSUME NEW s \in Seq(Outgoing), NEW t \in Seq(Outgoing), NEW m \in Outgoing,
         m.kind # "Message"
  PROVE  Said(s \o <<m>> \o t) = Said(s \o t)
<1> HIDE DEF Outgoing
<1>1. s \o <<m>> = Append(s, m) /\ Append(s, m) \in Seq(Outgoing)  BY AppendIsConcat
<1>2. Said(Append(s, m)) = Said(s)  BY SaidParts
<1>3. Said(Append(s, m) \o t) = Said(Append(s, m)) \o Said(t)  BY <1>1, SaidParts
<1>4. Said(s \o t) = Said(s) \o Said(t)  BY SaidParts
<1> QED  BY <1>1, <1>2, <1>3, <1>4

LEMMA PipelineTypes ==
  ASSUME TypeInv, NEW c \in Conns
  PROVE  Pipeline(c) \in Seq(Outgoing)
<1> HIDE DEF Outgoing
<1> QED  BY ArrivingTypes, SaidParts DEF Pipeline, Said

\* t is what is left of s when the end is lost.
Start(t, s) == \E k \in 0..Len(s) : t = SubSeq(s, 1, k)

LEMMA StartOf ==
  ASSUME NEW s \in Seq(Outgoing), NEW t \in Seq(Outgoing)
  PROVE  Start(Said(s), Said(s \o t)) /\ Start(Said(s), Said(s))
<1> DEFINE x == Said(s)
           y == Said(t)
<1>1. /\ x \in Seq(Outgoing) /\ y \in Seq(Outgoing) /\ Said(s \o t) = x \o y
  <2> HIDE DEF Outgoing
  <2> QED  BY SaidParts
<1> HIDE DEF Outgoing, x, y
<1>2. /\ Len(x) \in Nat /\ Len(y) \in Nat /\ Len(x \o y) = Len(x) + Len(y)
      /\ SubSeq(x, 1, Len(x)) = x
  BY <1>1, SubSeqFull
<1>3. SubSeq(x \o y, 1, Len(x)) = x
  <2>1. CASE Len(x) = 0
    <3>1. x = <<>> /\ x \o y \in Seq(Outgoing)  BY <1>1, <1>2, <2>1, EmptySeq
    <3> QED  BY <2>1, <3>1, SubSeqEmpty
  <2>2. CASE Len(x) # 0
    <3>1. 1 \in 1..Len(x) /\ Len(x) \in 1..Len(x)  BY <1>2, <2>2
    <3>2. SubSeq(x \o y, 1, Len(x)) = SubSeq(x, 1, Len(x))
      BY <1>1, <3>1, SubSeqOfConcat1
    <3> QED  BY <1>2, <3>2
  <2> QED  BY <2>1, <2>2
<1>4. Start(x, x \o y) /\ Start(x, x)
  <2>1. Len(x) \in 0..Len(x \o y) /\ Len(x) \in 0..Len(x)  BY <1>2
  <2> QED  BY <1>2, <1>3, <2>1 DEF Start
<1> QED  BY <1>1, <1>4 DEF x

\* A poll that writes.
LEMMA SendsPipeline ==
  ASSUME TypeInv, NEW c \in Conns, NEW msg \in Outgoing, NEW then \in Continuations,
         Sends(c, msg, then), NEW rest \in Seq(Outgoing), RestOfChannel(c, rest),
         Pipeline(c) = Said(wire[c] \o <<msg>> \o rest)
  PROVE  /\ \A d \in Conns \ {c} : Pipeline(d)' = Pipeline(d)
         /\ pc'[c] # "ended" => Pipeline(c)' = Pipeline(c)
         /\ pc'[c] = "ended" => Start(Pipeline(c)', Pipeline(c))
<1> DEFINE w == wire[c]
<1>1. w \in Seq(Outgoing)  BY ArrivingTypes
<1>2. /\ \A d \in Conns \ {c} : Arriving(d)' = Arriving(d)
      /\ pc'[c] # "ended" => Arriving(c)' = w \o <<msg>> \o rest
      /\ pc'[c] = "ended" => Arriving(c)' \in {w, w \o <<msg>>}
  BY SendArrives
<1>3. Pipeline(c) = Said(w \o <<msg>> \o rest)  OBVIOUS
<1> HIDE DEF Outgoing, w
<1>4. <<msg>> \o rest \in Seq(Outgoing) /\ w \o <<msg>> \in Seq(Outgoing)  BY <1>1
<1>5. w \o <<msg>> \o rest = w \o (<<msg>> \o rest)  BY <1>1, InTransit
<1>6. /\ Start(Said(w), Pipeline(c))
      /\ Start(Said(w \o <<msg>>), Pipeline(c))
  BY <1>1, <1>3, <1>4, <1>5, StartOf
<1>7. \A d \in Conns : Pipeline(d)' = Said(Arriving(d)') /\ Pipeline(d) = Said(Arriving(d))
  BY DEF Pipeline, Said
<1> QED  BY <1>2, <1>3, <1>6, <1>7

\* One that ends the handler without a write.
LEMMA EndsPipeline ==
  ASSUME TypeInv, NEW c \in Conns, pc'[c] = "ended", wire'[c] = wire[c], chan'[c] = <<>>
  PROVE  Start(Pipeline(c)', Pipeline(c))
<1> DEFINE w == wire[c]
           h == InHand(c)
           q == chan[c]
<1>1. w \in Seq(Outgoing) /\ h \in Seq(Outgoing) /\ q \in Seq(Outgoing)
  BY ArrivingTypes
<1>2. Pipeline(c)' = Said(w) /\ Pipeline(c) = Said(w \o h \o q)
  BY EndArrives DEF Pipeline, Said, Arriving
<1> HIDE DEF Outgoing, w, h, q
<1>3. h \o q \in Seq(Outgoing) /\ w \o h \o q = w \o (h \o q)
  BY <1>1, ConcatAssociative
<1> QED  BY <1>1, <1>2, <1>3, StartOf

\* One that puts a message in the channels of the handlers in to.
LEMMA PostedPipeline ==
  ASSUME TypeInv, NEW c \in Conns, Serving(c), HasLine(c), NEW to \in SUBSET Conns,
         NEW d \in Conns, chan'[d] = Posted(c, to)[d], InHand(d)' = InHand(d),
         wire'[d] = wire[d]
  PROVE  Pipeline(d)' = IF d \in to THEN Append(Pipeline(d), Message(name[c], NextText(c)))
                                    ELSE Pipeline(d)
<1> DEFINE m == Message(name[c], NextText(c))
           x == wire[d] \o InHand(d)
           q == chan[d]
<1>1. m \in Outgoing /\ m.kind = "Message"
  <2>1. NextText(c) \in Text
    BY MaxSendsAssumption DEF NextText, Text, HasLine, TypeInv, TypeOK, SocketTypeOK
  <2>2. name[c] \in Names  BY DEF TypeInv, NamedOK, Serving
  <2> QED  BY <2>1, <2>2 DEF Message, Outgoing, ServerToClientMsg
<1>2. x \in Seq(Outgoing) /\ q \in Seq(Outgoing) /\ x \o q \in Seq(Outgoing)
      /\ Arriving(d) = x \o q
  BY ArrivingTypes DEF Arriving
<1>3. Arriving(d)' = x \o chan'[d]  BY DEF Arriving
<1>4. chan'[d] = IF d \in to THEN Append(q, m) ELSE q  BY DEF Posted
<1>5. Pipeline(d)' = Said(Arriving(d)') /\ Pipeline(d) = Said(Arriving(d))
  BY DEF Pipeline, Said
<1> HIDE DEF Outgoing, m, x, q
<1>6. x \o Append(q, m) = Append(x \o q, m)
  <2>1. <<m>> \in Seq(Outgoing)  BY <1>1
  <2>2. Append(q, m) = q \o <<m>> /\ Append(x \o q, m) = (x \o q) \o <<m>>
    BY <1>1, <1>2, AppendIsConcat
  <2>3. (x \o q) \o <<m>> = x \o (q \o <<m>>)  BY <1>2, <2>1, ConcatAssociative
  <2> QED  BY <2>2, <2>3
<1>7. Said(Append(x \o q, m)) = Append(Said(x \o q), m)  BY <1>1, <1>2, SaidParts
<1>8. Pipeline(d)' = IF d \in to THEN Append(Pipeline(d), m) ELSE Pipeline(d)
  BY <1>2, <1>3, <1>4, <1>5, <1>6, <1>7
<1> QED  BY <1>8 DEF m

\* Those c tells something are others than c.
Tells(c, to) ==
  \A d \in Conns \ {c} :
    Pipeline(d)' = IF d \in to THEN Append(Pipeline(d), Message(name[c], NextText(c)))
                               ELSE Pipeline(d)

LEMMA ServedOthers ==
  ASSUME TypeInv, GhostInv, NEW c \in Conns
  PROVE  Served(c) \subseteq Conns \ {c} /\ \A d \in Served(c) : InLoop(d)
BY DEF Served, Audience, Registered, TypeInv, TypeOK, GhostInv

LEMMA PollsPipelines ==
  ASSUME TypeInv, StoryInv, GhostInv, NEW c \in Conns, Polls(c), PollFrame(c)
  PROVE  /\ pc'[c] # "ended" => Pipeline(c)' = Pipeline(c)
         /\ pc'[c] = "ended" => Start(Pipeline(c)', Pipeline(c))
         /\ \/ \A d \in Conns \ {c} : Pipeline(d)' = Pipeline(d)
            \/ /\ Posts(c) \/ PostFails(c)
               /\ \E to \in SUBSET Served(c) : Tells(c, to)
<1> DEFINE w == wire[c]
           q == chan[c]
<1>1. /\ TypeOK /\ chan \in [Conns -> Seq(Outgoing)]
      /\ w \in Seq(Outgoing) /\ q \in Seq(Outgoing)
  BY DEF TypeInv, TypeOK, SocketTypeOK
<1>2. pc[c] # "writing" => Pipeline(c) = Said(w \o q)
  <2>1. ASSUME pc[c] # "writing" PROVE Arriving(c) = w \o <<>> \o q
    BY <2>1 DEF Arriving, InHand
  <2>2. w \o <<>> \o q = w \o q
    <3>1. \A u \in Seq(Outgoing) : u \o <<>> = u  BY ConcatEmptySeq
    <3> HIDE DEF Outgoing, w, q
    <3> QED  BY <1>1, <3>1
  <2> QED  BY <2>1, <2>2 DEF Pipeline, Said
<1>3. ASSUME NEW msg \in Outgoing, NEW then \in Continuations, Sends(c, msg, then),
             NEW rest \in Seq(Outgoing), RestOfChannel(c, rest),
             Pipeline(c) = Said(w \o <<msg>> \o rest)
      PROVE  /\ \A d \in Conns \ {c} : Pipeline(d)' = Pipeline(d)
             /\ pc'[c] # "ended" => Pipeline(c)' = Pipeline(c)
             /\ pc'[c] = "ended" => Start(Pipeline(c)', Pipeline(c))
  BY <1>3, SendsPipeline
<1>4. ASSUME NEW msg \in Outgoing, NEW then \in Continuations, Sends(c, msg, then),
             KeepChannel(c), pc[c] # "writing", msg.kind # "Message"
      PROVE  /\ \A d \in Conns \ {c} : Pipeline(d)' = Pipeline(d)
             /\ pc'[c] # "ended" => Pipeline(c)' = Pipeline(c)
             /\ pc'[c] = "ended" => Start(Pipeline(c)', Pipeline(c))
  <2>1. Said(w \o <<msg>> \o q) = Said(w \o q)  BY <1>1, <1>4, SaidSkips
  <2> QED  BY <1>2, <1>1, <1>3, <1>4, <2>1 DEF KeepChannel
<1>5. ASSUME pc'[c] = "ended", OthersStay(c), UNCHANGED wire, KeepChannel(c)
      PROVE  /\ \A d \in Conns \ {c} : Pipeline(d)' = Pipeline(d)
             /\ Start(Pipeline(c)', Pipeline(c))
  <2>1. chan'[c] = <<>> /\ \A d \in Conns \ {c} : chan'[d] = chan[d]
    BY <1>1, <1>5 DEF KeepChannel, RestOfChannel
  <2>2. \A d \in Conns \ {c} : Arriving(d)' = Arriving(d)
    BY <1>5, <2>1 DEF Arriving, InHand, OthersStay
  <2> QED  BY <1>5, <2>1, <2>2, EndsPipeline DEF Pipeline
<1>6. Leaves(c) => OthersStay(c) /\ pc'[c] = "ended"
  BY <1>1, EndsTypes DEF Leaves
<1>7. CASE JoinFreeName(c)
  <2>1. Welcome.kind # "Message"  BY DEF Welcome
  <2> QED
    BY <1>4, <1>7, <2>1, OwnMessages DEF JoinFreeName, Joining, JoinFrame, Continuations
<1>8. CASE Refuses(c)
  <2>1. PICK t \in ErrorTexts : Sends(c, Error(t), "close")  BY <1>8 DEF Refuses
  <2>2. Error(t).kind # "Message"  BY DEF Error
  <2> QED  BY <1>4, <1>8, <2>1, <2>2, OwnMessages DEF Refuses, Continuations
<1>9. CASE JoinUnreadable(c)
  BY <1>1, <1>5, <1>9, EndsTypes DEF JoinUnreadable, JoinFrame
<1>10. CASE Answers(c)
  <2>1. PICK msg \in Outgoing, then \in {"reply", "kick"} :
          Sends(c, msg, then) /\ msg.kind \notin {"Welcome", "Message"}
    BY <1>10 DEF Answers
  <2> HIDE DEF Outgoing
  <2> QED  BY <1>4, <1>10, <2>1 DEF Answers, Continuations
<1>11. CASE Posts(c)
  <2>1. PICK to \in SUBSET Served(c) : chan' = Posted(c, to)  BY <1>11 DEF Posts
  <2>2. to \subseteq Conns \ {c}  BY ServedOthers
  <2>3. OthersStay(c) /\ pc'[c] = "serving" /\ pc[c] = "serving" /\ UNCHANGED wire
    BY <1>1, <1>11, ServesTypes DEF Posts
  <2>4. \A d \in Conns : InHand(d)' = InHand(d)  BY <2>3 DEF InHand, OthersStay
  <2>5. ASSUME NEW d \in Conns
        PROVE  Pipeline(d)' = IF d \in to THEN Append(Pipeline(d), Message(name[c], NextText(c)))
                                          ELSE Pipeline(d)
    BY <1>11, <2>1, <2>2, <2>3, <2>4, PostedPipeline DEF PollFrame, Serving, Posts, Take
  <2>6. Pipeline(c)' = Pipeline(c)  BY <2>2, <2>5
  <2>7. Tells(c, to)  BY <2>5 DEF Tells
  <2> QED  BY <1>11, <2>3, <2>6, <2>7
<1>12. CASE PostFails(c)
  <2>1. PICK to \in SUBSET Served(c) : chan' = [Posted(c, to) EXCEPT ![c] = <<>>]
    BY <1>12 DEF PostFails
  <2>2. to \subseteq Conns \ {c}  BY ServedOthers
  <2>3. OthersStay(c) /\ pc'[c] = "ended" /\ pc[c] = "serving" /\ UNCHANGED wire
    BY <1>6, <1>12 DEF PostFails
  <2>4. \A d \in Conns \ {c} : InHand(d)' = InHand(d)  BY <2>3 DEF InHand, OthersStay
  <2>5. chan'[c] = <<>> /\ \A d \in Conns \ {c} : chan'[d] = Posted(c, to)[d]
    <3>1. DOMAIN Posted(c, to) = Conns  BY DEF Posted
    <3> HIDE DEF Posted
    <3> QED  BY <2>1, <3>1
  <2>6. ASSUME NEW d \in Conns \ {c}
        PROVE  Pipeline(d)' = IF d \in to THEN Append(Pipeline(d), Message(name[c], NextText(c)))
                                          ELSE Pipeline(d)
    BY <1>12, <2>2, <2>3, <2>4, <2>5, PostedPipeline DEF PollFrame, Serving, PostFails, Take
  <2>7. Tells(c, to)  BY <2>6 DEF Tells
  <2> QED  BY <1>12, <2>3, <2>5, <2>7, EndsPipeline
<1>13. CASE GivesUp(c)  BY <1>5, <1>6, <1>13 DEF GivesUp
<1>14. CASE PanicOnRead(c)
  BY <1>1, <1>5, <1>14, EndsTypes DEF PanicOnRead, ReplyFrame
<1>15. CASE Forward(c)
  <2>1. /\ Sends(c, Head(q), "forward") /\ pc[c] = "serving"
        /\ q # <<>> /\ RestOfChannel(c, Tail(q))
    BY <1>15 DEF Forward, Serving
  <2>2. Head(q) \in Outgoing /\ Tail(q) \in Seq(Outgoing)  BY <2>1, ChannelHead
  <2> HIDE DEF Outgoing, w, q
  <2>3. w \o <<Head(q)>> \o Tail(q) = w \o q
    <3>1. <<Head(q)>> \o Tail(q) = q  BY <1>1, <2>1
    <3>2. w \o <<Head(q)>> \o Tail(q) = w \o (<<Head(q)>> \o Tail(q))
      BY <1>1, <2>2, InTransit
    <3> QED  BY <3>1, <3>2
  <2> QED  BY <1>2, <1>3, <2>1, <2>2, <2>3 DEF Continuations
<1>16. CASE Resume(c)
  <2>1. Pipeline(c) = Said(w \o <<pending[c].msg>> \o q)
    BY <1>16, ResumeSends DEF Pipeline, Said, Arriving, InHand
  <2>2. RestOfChannel(c, q)  BY <1>16 DEF Resume, KeepChannel
  <2> HIDE DEF Outgoing, Continuations, w, q
  <2> QED  BY <1>1, <1>3, <1>16, <2>1, <2>2, ResumeSends
<1> QED
  BY <1>7, <1>8, <1>9, <1>10, <1>11, <1>12, <1>13, <1>14, <1>15, <1>16 DEF Polls

\* The steps that are no poll of a handler: none of them touches what is on
\* its way to anyone, but for an abortion, which loses the end of it.
Aside(c) == Client(c) \/ Reader(c) \/ Server(c)

Same(d) ==
  /\ Pipeline(d)' = Pipeline(d) /\ chan'[d] = chan[d] /\ (InLoop(d)' <=> InLoop(d))
  /\ pc'[d] = "ended" <=> pc[d] = "ended"

Aborted(c) ==
  /\ pc'[c] = "ended" /\ OthersStay(c)
  /\ chan'[c] = <<>> /\ \A d \in Conns \ {c} : chan'[d] = chan[d]
  /\ Start(Pipeline(c)', Pipeline(c))
  /\ pc[c] = "ended" /\ chan[c] = <<>> => Pipeline(c)' = Pipeline(c)
  /\ \A d \in Conns \ {c} : Pipeline(d)' = Pipeline(d)

LEMMA AsidePipelines ==
  ASSUME TypeInv, BacklogConsistent, StoryInv,
         LoopAlone \/ UNCHANGED vars \/ \E c \in Conns : Aside(c)
  PROVE  /\ UNCHANGED registry
         /\ (\A d \in Conns : Same(d)) \/ \E c \in Conns : Aborted(c)
<1> USE DEF handlerVars, socketVars, clientVars
<1>1. TypeOK /\ LoopTypeOK  BY DEF TypeInv, TypeOK
<1>2. ASSUME UNCHANGED <<pc, pending, wire, chan>>, NEW d \in Conns
      PROVE  Same(d)
  BY <1>2 DEF Same, Pipeline, Arriving, InHand, InLoop
<1>3. CASE LoopAlone \/ UNCHANGED vars
  BY <1>2, <1>3 DEF LoopAlone, vars
<1>4. ASSUME NEW c \in Conns, Client(c) \/ Reader(c)
      PROVE  UNCHANGED <<pc, pending, wire, chan, registry>>
  BY <1>4 DEF Client, Reader, Dial, ClientSends, ClientCloses, ClientVanishes, ClientReads
<1>5. ASSUME NEW c \in Conns, Accepting(c) \/ Rejecting(c) PROVE pc[c] = "idle"
  BY <1>1, <1>5 DEF Accepting, Rejecting, BacklogConsistent, LoopTypeOK, Unanswered, StoryInv
<1>6. ASSUME NEW c \in Conns, SpawnHandler(c)
      PROVE  /\ UNCHANGED registry
             /\ \A d \in Conns : Same(d)
  <2>1. /\ pc[c] = "idle" /\ pc'[c] = "joining" /\ UNCHANGED <<pending, wire, chan, registry>>
        /\ \A d \in Conns \ {c} : pc'[d] = pc[d]
    BY <1>1, <1>5, <1>6 DEF SpawnHandler, Spawn, TypeOK
  <2>2. \A d \in Conns : InHand(d)' = InHand(d)  BY <2>1 DEF InHand
  <2> QED  BY <2>1, <2>2 DEF Same, Pipeline, Arriving, InLoop
<1>7. ASSUME NEW c \in Conns, TurnAwayNow(c)
      PROVE  /\ UNCHANGED registry
             /\ \A d \in Conns : Same(d)
  <2> DEFINE m == Error("Server is full")
             w == wire[c]
             q == chan[c]
  <2>1. /\ pc[c] = "idle" /\ UNCHANGED <<pc, pending, chan, registry>>
        /\ \A d \in Conns \ {c} : wire'[d] = wire[d]
        /\ w \in Seq(Outgoing) /\ q \in Seq(Outgoing) /\ wire'[c] = Append(w, m)
    BY <1>1, <1>5, <1>7, WireEffect DEF TurnAwayNow, RejectSent, TypeOK
  <2>2. m \in Outgoing /\ m.kind # "Message"  BY OwnMessages DEF ErrorTexts, Error
  <2>3. /\ Pipeline(c) = Said(w \o <<>> \o q)
        /\ Pipeline(c)' = Said(Append(w, m) \o <<>> \o q)
    BY <2>1 DEF Pipeline, Said, Arriving, InHand
  <2>4. \A d \in Conns \ {c} : Pipeline(d)' = Pipeline(d)
    BY <2>1 DEF Pipeline, Arriving, InHand
  <2>5. Pipeline(c)' = Pipeline(c)
    <3> HIDE DEF Outgoing, m, w, q
    <3>1. w \o <<>> \o q = w \o q /\ Append(w, m) \o <<>> \o q = w \o <<m>> \o q
      BY <2>1, <2>2, InTransit
    <3>2. Said(w \o <<m>> \o q) = Said(w \o q)  BY <2>1, <2>2, SaidSkips
    <3> QED  BY <2>3, <3>1, <3>2
  <2> QED  BY <2>1, <2>4, <2>5 DEF Same, InLoop
<1>8. ASSUME NEW c \in Conns, TurnAwayFails(c) \/ TurnAwayLater(c) \/ ReapHandler(c)
      PROVE  UNCHANGED <<pc, pending, wire, chan, registry>>
  BY <1>8 DEF TurnAwayFails, TurnAwayLater, ReapHandler, WriteFails
<1>9. ASSUME NEW c \in Conns, CancelHandler(c)
      PROVE  UNCHANGED registry /\ Aborted(c)
  <2>1. /\ pc'[c] = "ended" /\ OthersStay(c) /\ UNCHANGED <<wire, registry>>
        /\ chan'[c] = <<>> /\ \A d \in Conns \ {c} : chan'[d] = chan[d]
    BY <1>1, <1>9 DEF CancelHandler, OthersStay, TypeOK, KeepChannel, RestOfChannel
  <2>2. \A d \in Conns \ {c} : Pipeline(d)' = Pipeline(d)
    BY <2>1 DEF Pipeline, Arriving, InHand, OthersStay
  <2>3. ASSUME pc[c] = "ended", chan[c] = <<>> PROVE Pipeline(c)' = Pipeline(c)
    BY <2>1, <2>3 DEF Pipeline, Arriving, InHand
  <2> QED  BY <2>1, <2>2, <2>3, EndsPipeline DEF Aborted
<1> QED  BY <1>2, <1>3, <1>4, <1>6, <1>7, <1>8, <1>9 DEF Aside, Server

\* While a client is served, no message under way to it is dropped or
\* overtaken.
THEOREM MessagesKept == Spec => NothingLost
<1>1. ASSUME TypeInv, BacklogConsistent, StoryInv, GhostInv, [Next]_vars,
             NEW c \in Conns, InLoop(c), InLoop(c)'
      PROVE  IsPrefix(Pipeline(c), Pipeline(c)')
  <2> DEFINE p == Pipeline(c)
             r == Pipeline(c)'
  <2>1. p \in Seq(Outgoing)  BY <1>1, PipelineTypes
  <2>2. pc'[c] # "ended"  BY <1>1 DEF InLoop
  <2>3. r = p \/ \E m : r = Append(p, m)
    <3>1. CASE LoopAlone \/ UNCHANGED vars \/ \E d \in Conns : Aside(d)
      BY <1>1, <2>2, <3>1, AsidePipelines DEF Same, Aborted
    <3>2. ASSUME NEW d \in Conns, Handler(d) \/ JoinTimeout(d)
          PROVE  r = p \/ \E m : r = Append(p, m)
      <4>1. Polls(d) /\ PollFrame(d)  BY <1>1, <3>2, HandlerPolls
      <4>2. CASE d = c  BY <1>1, <2>2, <4>1, <4>2, PollsPipelines
      <4>3. CASE d # c
        <5>1. r = p \/ \E to : Tells(d, to)  BY <1>1, <4>1, <4>3, PollsPipelines
        <5> QED  BY <4>3, <5>1 DEF Tells
      <4> QED  BY <4>2, <4>3
    <3> QED  BY <1>1, <3>1, <3>2 DEF Next, Aside
  <2> HIDE DEF Outgoing, p, r
  <2>4. ASSUME NEW m, r = Append(p, m)
        PROVE  Len(p) <= Len(r) /\ SubSeq(p, 1, Len(p)) = SubSeq(r, 1, Len(p))
    <3> DEFINE S == Outgoing \cup {m}
    <3>1. p \in Seq(S) /\ m \in S  BY <2>1
    <3> HIDE DEF S
    <3> QED  BY <2>4, <3>1
  <2>5. Len(p) <= Len(r) /\ SubSeq(p, 1, Len(p)) = SubSeq(r, 1, Len(p))
    <3>1. Len(p) \in Nat  BY <2>1
    <3> QED  BY <2>3, <2>4, <3>1
  <2> QED  BY <2>5 DEF IsPrefix, p, r
<1>2. /\ TypeInv /\ BacklogConsistent /\ StoryInv /\ GhostInv /\ [Next]_vars =>
        [\A c \in Conns : InLoop(c) /\ InLoop(c)' => IsPrefix(Pipeline(c), Pipeline(c)')]_vars
  BY <1>1
<1> QED
  BY <1>2, TypeInvCorrect, ImplementsLoop, BacklogHolds, StoryHolds, GhostsHold, PTL
  DEF Spec, NothingLost

-----------------------------------------------------------------------------
(***************************************************************************)
(* The chat room.  Who is in its loop is in the room, under the name it    *)
(* owns; nothing was said to a connection before it enters, and nothing is *)
(* once it has left.                                                       *)
(***************************************************************************)
QuietInv ==
  \A c \in Conns : /\ ~InLoop(c) /\ pc[c] # "ended" => Pipeline(c) = <<>>
                   /\ pc[c] = "ended" => chan[c] = <<>>

\* How a poll moves its handler in or out of the loop.
EntersRoom(c) ==
  /\ ~InLoop(c) /\ InLoop(c)' /\ name'[c] \in Names \ Registered
  /\ registry' = [registry EXCEPT ![name'[c]] = c]

StaysPut(c) ==
  /\ pc[c] # "ended" /\ pc'[c] # "ended" /\ (InLoop(c)' <=> InLoop(c))
  /\ UNCHANGED registry

EndsRoom(c) ==
  /\ pc'[c] = "ended"
  /\ \/ UNCHANGED registry
     \/ InLoop(c) /\ registry' = [registry EXCEPT ![name[c]] = NoConn]

LEMMA PollsRoom ==
  ASSUME TypeInv, NamesInv, NamesInv', NEW c \in Conns, Polls(c), PollFrame(c)
  PROVE  /\ OthersStay(c)
         /\ EntersRoom(c) \/ StaysPut(c) \/ EndsRoom(c)
<1> USE DEF EntersRoom, StaysPut, EndsRoom
<1>1. TypeOK  BY DEF TypeInv
<1>2. pc[c] # "ended"  BY DEF PollFrame
<1>3. ASSUME NEW msg \in Outgoing, NEW then \in Continuations, Sends(c, msg, then),
             IF then \in {"close", "welcome"} THEN ~InLoop(c) ELSE InLoop(c),
             then = "welcome" => name'[c] \in Names \ Registered
      PROVE  /\ OthersStay(c)
             /\ EntersRoom(c) \/ StaysPut(c) \/ EndsRoom(c)
  <2>1. OthersStay(c) /\ SendOutcome(c, msg, then)  BY <1>1, <1>3, SendsEffect
  <2>2. CASE pc'[c] = "writing" /\ pending'[c] = [msg |-> msg, then |-> then] /\ UNCHANGED registry
    <3>1. then # "welcome"  BY <2>2 DEF NamesInv
    <3>2. InLoop(c)' <=> then # "close"  BY <2>2, <3>1 DEF InLoop, Continuations
    <3> QED  BY <1>2, <1>3, <2>1, <2>2, <3>1, <3>2
  <2>3. CASE then = "welcome" /\ pc'[c] = "serving" /\ registry' = [registry EXCEPT ![name'[c]] = c]
    BY <1>3, <2>1, <2>3 DEF InLoop
  <2>4. CASE then \in {"reply", "forward"} /\ pc'[c] = "serving" /\ UNCHANGED registry
    BY <1>2, <1>3, <2>1, <2>4 DEF InLoop
  <2>5. CASE pc'[c] = "ended" /\ then \in {"reply", "kick"}
               /\ registry' = [registry EXCEPT ![name[c]] = NoConn]
    BY <1>3, <2>1, <2>5
  <2>6. CASE pc'[c] = "ended" /\ UNCHANGED registry
    BY <2>1, <2>6
  <2> HIDE DEF Outgoing
  <2> QED  BY <2>1, <2>2, <2>3, <2>4, <2>5, <2>6 DEF SendOutcome
<1>4. Leaves(c) => OthersStay(c) /\ pc'[c] = "ended"
                     /\ registry' = [registry EXCEPT ![name[c]] = NoConn]
  BY <1>1, EndsTypes DEF Leaves
<1>5. CASE JoinFreeName(c)
  <2>1. /\ Sends(c, Welcome, "welcome") /\ ~InLoop(c)
        /\ name'[c] = NextLine(c).name /\ NextLine(c).name \notin Registered
    BY <1>1, <1>5 DEF JoinFreeName, Joining, InLoop, TypeOK
  <2>2. NextLine(c).name \in Names
    <3>1. sent[c] \in Seq(Line) /\ taken[c] + 1 \in 1..Len(sent[c])
      BY <1>1, <1>5 DEF JoinFreeName, Take, HasLine, TypeOK, SocketTypeOK
    <3>2. NextLine(c) \in Line  BY <3>1 DEF NextLine
    <3> QED  BY <1>5, <3>2 DEF JoinFreeName, Line, Addressed, Plain, Unreadable
  <2> QED  BY <1>3, <2>1, <2>2, OwnMessages DEF Continuations
<1>6. CASE Refuses(c)
  <2>1. PICK t \in ErrorTexts : Sends(c, Error(t), "close")  BY <1>6 DEF Refuses
  <2>2. ~InLoop(c)  BY <1>6 DEF Refuses, InLoop
  <2> QED  BY <1>3, <2>1, <2>2, OwnMessages DEF Continuations
<1>7. CASE JoinUnreadable(c)
  BY <1>1, <1>7, EndsTypes DEF JoinUnreadable
<1>8. CASE Answers(c)
  <2>1. PICK msg \in Outgoing, then \in {"reply", "kick"} : Sends(c, msg, then)
    BY <1>8 DEF Answers
  <2>2. InLoop(c)  BY <1>8 DEF Answers, InLoop
  <2> HIDE DEF Outgoing
  <2> QED  BY <1>3, <2>1, <2>2 DEF Continuations
<1>9. CASE Posts(c)
  BY <1>1, <1>9, ServesTypes DEF Posts, InLoop
<1>10. CASE PostFails(c) \/ GivesUp(c)
  BY <1>4, <1>10 DEF PostFails, GivesUp, InLoop
<1>11. CASE PanicOnRead(c)
  BY <1>1, <1>11, EndsTypes DEF PanicOnRead
<1>12. CASE Forward(c)
  <2>1. /\ Sends(c, Head(chan[c]), "forward") /\ InLoop(c) /\ Head(chan[c]) \in Outgoing
    BY <1>12, ChannelHead DEF Forward, Serving, InLoop
  <2> HIDE DEF Outgoing
  <2> QED  BY <1>3, <2>1 DEF Continuations
<1>13. CASE Resume(c)
  <2>1. pending[c].then # "welcome"  BY <1>13 DEF Resume, NamesInv
  <2>2. InLoop(c) <=> pending[c].then # "close"
    BY <1>13, <2>1, ResumeSends DEF InLoop, Continuations
  <2> HIDE DEF Outgoing, Continuations
  <2> QED  BY <1>3, <1>13, <2>1, <2>2, ResumeSends
<1> QED
  BY <1>5, <1>6, <1>7, <1>8, <1>9, <1>10, <1>11, <1>12, <1>13 DEF Polls

\* A poll puts messages in the channels of others in their loops only.
LEMMA PollsChannels ==
  ASSUME TypeInv, NEW c \in Conns, Polls(c), PollFrame(c)
  PROVE  /\ pc'[c] = "ended" => chan'[c] = <<>>
         /\ \A d \in Conns \ {c} : ~InLoop(d) => chan'[d] = chan[d]
<1>1. chan \in [Conns -> Seq(Outgoing)] /\ TypeOK  BY DEF TypeInv, TypeOK
<1>2. ASSUME NEW rest, RestOfChannel(c, rest)
      PROVE  /\ pc'[c] = "ended" => chan'[c] = <<>>
             /\ \A d \in Conns \ {c} : chan'[d] = chan[d]
  BY <1>1, <1>2 DEF RestOfChannel
<1>3. CASE KeepChannel(c)  BY <1>2, <1>3 DEF KeepChannel
<1>4. CASE JoinFreeName(c) \/ Refuses(c) \/ JoinUnreadable(c) \/ Answers(c) \/ GivesUp(c)
             \/ PanicOnRead(c) \/ Resume(c)
  BY <1>3, <1>4
  DEF JoinFreeName, Refuses, JoinUnreadable, JoinFrame, Answers, GivesUp, PanicOnRead,
      ReplyFrame, Resume
<1>5. CASE Posts(c)
  BY <1>1, <1>5, ServedConns, ServesTypes DEF Posts, Posted
<1>6. CASE PostFails(c)
  <2>1. PICK to \in SUBSET Served(c) : chan' = [Posted(c, to) EXCEPT ![c] = <<>>]
    BY <1>6 DEF PostFails
  <2>2. DOMAIN Posted(c, to) = Conns
        /\ \A d \in Conns : ~InLoop(d) => Posted(c, to)[d] = chan[d]
    BY <1>1, ServedConns DEF Posted
  <2> HIDE DEF Posted
  <2> QED  BY <2>1, <2>2
<1>7. CASE Forward(c)  BY <1>2, <1>7 DEF Forward
<1> QED  BY <1>4, <1>5, <1>6, <1>7 DEF Polls

LEMMA QuietStep ==
  /\ TypeInv /\ BacklogConsistent /\ NamesInv /\ NamesInv' /\ StoryInv /\ GhostInv
  /\ QuietInv /\ [Next]_vars
  => QuietInv'
<1> SUFFICES ASSUME TypeInv, BacklogConsistent, NamesInv, NamesInv', StoryInv, GhostInv,
                    QuietInv, [Next]_vars
             PROVE  QuietInv'
  OBVIOUS
<1>1. ASSUME LoopAlone \/ UNCHANGED vars \/ \E c \in Conns : Aside(c)
      PROVE  QuietInv'
  <2>1. CASE \A d \in Conns : Same(d)  BY <2>1 DEF Same, QuietInv
  <2>2. ASSUME NEW c \in Conns, Aborted(c) PROVE QuietInv'
    BY <2>2 DEF Aborted, QuietInv, OthersStay, InLoop
  <2> QED  BY <1>1, <2>1, <2>2, AsidePipelines
<1>2. ASSUME NEW c \in Conns, Handler(c) \/ JoinTimeout(c) PROVE QuietInv'
  <2>1. Polls(c) /\ PollFrame(c)  BY <1>2, HandlerPolls
  <2>2. OthersStay(c) /\ (EntersRoom(c) \/ StaysPut(c) \/ EndsRoom(c))
    BY <2>1, PollsRoom
  <2>3. ASSUME NEW d \in Conns \ {c}
        PROVE  /\ pc'[d] = pc[d] /\ (InLoop(d)' <=> InLoop(d))
               /\ ~InLoop(d) => Pipeline(d)' = Pipeline(d) /\ chan'[d] = chan[d]
    <3>1. pc'[d] = pc[d] /\ (InLoop(d)' <=> InLoop(d))
      BY <2>2 DEF OthersStay, InLoop
    <3>2. ~InLoop(d) => Pipeline(d)' = Pipeline(d)
      BY <2>1, PollsPipelines, ServedOthers DEF Tells
    <3> QED  BY <2>1, <3>1, <3>2, PollsChannels
  <2>4. pc[c] # "ended" /\ (pc'[c] = "ended" => chan'[c] = <<>>)
    BY <2>1, PollsChannels DEF PollFrame
  <2>5. ~InLoop(c)' /\ pc'[c] # "ended" => Pipeline(c)' = <<>>
    BY <2>1, <2>2, <2>4, PollsPipelines DEF QuietInv, EntersRoom, StaysPut, EndsRoom
  <2>6. ASSUME NEW d \in Conns
        PROVE  /\ ~InLoop(d)' /\ pc'[d] # "ended" => Pipeline(d)' = <<>>
               /\ pc'[d] = "ended" => chan'[d] = <<>>
    BY <2>3, <2>4, <2>5 DEF QuietInv, InLoop
  <2> QED  BY <2>6 DEF QuietInv
<1> QED  BY <1>1, <1>2 DEF Next, Aside

-----------------------------------------------------------------------------
\* The members are the connections in their loops.
LEMMA MemberOf ==
  ASSUME TypeInv, OwnEntry, GhostInv
  PROVE  /\ \A n \in Names : Member[n] \in Conns \cup {NoConn}
         /\ \A n \in Names, c \in Conns : Member[n] = c <=> InLoop(c) /\ name[c] = n
         /\ Room!Members = {c \in Conns : InLoop(c)}
<1>1. registry \in [Names -> Conns \cup {NoConn}] /\ NoConn \notin Conns
  BY NoConnAssumption DEF TypeInv, TypeOK
<1>2. \A n \in Names : Member[n] \in Conns \cup {NoConn}
  BY <1>1 DEF Member
<1>3. ASSUME NEW c \in Conns, InLoop(c) PROVE name[c] \in Names /\ registry[name[c]] = c
  BY <1>3 DEF TypeInv, NamedOK, OwnEntry, InLoop
<1>4. ASSUME NEW n \in Names, NEW c \in Conns
      PROVE  Member[n] = c <=> InLoop(c) /\ name[c] = n
  BY <1>1, <1>3, <1>4 DEF Member, Registered, GhostInv
<1>5. Room!Members = {c \in Conns : InLoop(c)}
  <2>1. Room!Members = {Member[n] : n \in Names} \ {NoConn}  BY DEF Room!Members
  <2>2. ASSUME NEW c \in Conns, InLoop(c) PROVE c \in Room!Members
    BY <1>1, <1>3, <1>4, <2>1, <2>2
  <2> QED  BY <1>1, <1>2, <1>4, <2>1, <2>2
<1> QED  BY <1>2, <1>4, <1>5

LEMMA MembersStay ==
  ASSUME UNCHANGED registry, TypeInv, \A d \in Conns : InLoop(d)' <=> InLoop(d)
  PROVE  Member' = Member
<1>1. ASSUME NEW n \in Names
      PROVE  /\ n \in Registered' <=> n \in Registered
             /\ n \in Registered => (InLoop(registry[n])' <=> InLoop(registry[n]))
  BY DEF Registered, InLoop, TypeInv, TypeOK
<1> QED  BY <1>1 DEF Member

LEMMA MemberAt ==
  ASSUME NEW n \in Names
  PROVE  /\ registry[n] = NoConn => Member[n] = NoConn
         /\ \A d \in Conns : registry[n] = d =>
              Member[n] = IF InLoop(d) THEN d ELSE NoConn
         /\ registry'[n] = NoConn => Member'[n] = NoConn
         /\ \A d \in Conns : registry'[n] = d =>
              Member'[n] = IF InLoop(d)' THEN d ELSE NoConn
BY NoConnAssumption DEF Member, Registered, InLoop

LEMMA MembersOut ==
  ASSUME TypeInv, OwnEntry, GhostInv, NEW c \in Conns, OthersStay(c), pc'[c] = "ended",
         UNCHANGED registry \/ (InLoop(c) /\ registry' = [registry EXCEPT ![name[c]] = NoConn])
  PROVE  Room!Out(c)
<1>1. registry \in [Names -> Conns \cup {NoConn}] /\ NoConn \notin Conns
  BY NoConnAssumption DEF TypeInv, TypeOK
<1>2. ~InLoop(c)' /\ \A d \in Conns \ {c} : InLoop(d)' <=> InLoop(d)
  BY DEF OthersStay, InLoop
<1>3. ASSUME NEW n \in Names
      PROVE  Member'[n] = IF Member[n] = c THEN NoConn ELSE Member[n]
  <2>1. CASE registry'[n] = registry[n]
    <3>1. CASE registry[n] \in Conns  BY <1>1, <1>2, <2>1, <3>1, MemberAt
    <3>2. CASE registry[n] = NoConn  BY <1>1, <2>1, <3>2, MemberAt
    <3> QED  BY <1>1, <3>1, <3>2
  <2>2. CASE registry'[n] # registry[n]
    <3>1. InLoop(c) /\ n = name[c] /\ registry'[n] = NoConn  BY <1>1, <2>2
    <3>2. Member[n] = c  BY <3>1, MemberOf
    <3> QED  BY <3>1, <3>2, MemberAt
  <2> QED  BY <2>1, <2>2
<1>4. Member' = [n \in Names |-> Member'[n]]  BY DEF Member
<1> HIDE DEF Member
<1> QED  BY <1>3, <1>4 DEF Room!Out

LEMMA MembersIn ==
  ASSUME TypeInv, OwnEntry, GhostInv, NEW c \in Conns, OthersStay(c), EntersRoom(c), pc[c] # "ended"
  PROVE  Member[name'[c]] = NoConn /\ Member' = [Member EXCEPT ![name'[c]] = c]
<1>1. registry \in [Names -> Conns \cup {NoConn}] /\ NoConn \notin Conns
  BY NoConnAssumption DEF TypeInv, TypeOK
<1>2. Member[name'[c]] = NoConn /\ name'[c] \in Names  BY DEF Member, EntersRoom
<1>3. ASSUME NEW n \in Names
      PROVE  Member'[n] = IF n = name'[c] THEN c ELSE Member[n]
  <2>1. CASE n = name'[c]
    <3>1. registry'[n] = c /\ InLoop(c)'  BY <1>1, <2>1 DEF EntersRoom
    <3> QED  BY <2>1, <3>1, MemberAt
  <2>2. CASE n # name'[c]
    <3>1. registry'[n] = registry[n]  BY <1>1, <2>2 DEF EntersRoom
    <3>2. registry[n] # c  BY <3>1 DEF GhostInv, EntersRoom
    <3>3. \A d \in Conns \ {c} : InLoop(d)' <=> InLoop(d)
      BY DEF OthersStay, InLoop
    <3>4. CASE registry[n] \in Conns  BY <2>2, <3>1, <3>2, <3>3, <3>4, MemberAt
    <3>5. CASE registry[n] = NoConn  BY <2>2, <3>1, <3>5, MemberAt
    <3> QED  BY <1>1, <3>4, <3>5
  <2> QED  BY <2>1, <2>2
<1>4. Member' = [n \in Names |-> Member'[n]] /\ Member = [n \in Names |-> Member[n]]
  BY DEF Member
<1> HIDE DEF Member
<1> QED  BY <1>2, <1>3, <1>4

-----------------------------------------------------------------------------
\* What c says now was not said to anybody before.
LEMMA NewWords ==
  ASSUME TypeInv, FifoInv, NEW c \in Conns
  PROVE  \A d \in Conns : \A i \in DOMAIN Inbox[d] : Inbox[d][i] # Message(name[c], NextText(c))
<1> DEFINE m == Message(name[c], NextText(c))
<1>1. m.kind = "Message" /\ m.message[1] = c /\ m.message[2] = taken[c] + 1 /\ taken[c] \in Nat
  BY DEF Message, NextText, TypeInv, TypeOK, SocketTypeOK
<1>2. SUFFICES ASSUME NEW d \in Conns, NEW i \in DOMAIN Pipeline(d), Pipeline(d)[i] = m
               PROVE  FALSE
  BY DEF Inbox
<1> HIDE DEF m
<1>3. Arriving(d) \in Seq(Outgoing)  BY ArrivingTypes
<1>4. \E j \in DOMAIN Arriving(d) : Pipeline(d)[i] = Arriving(d)[j]
  <2> HIDE DEF Outgoing
  <2> QED  BY <1>3, OfKindElements DEF Pipeline
<1>5. PICK j \in DOMAIN Arriving(d) : Arriving(d)[j] = m  BY <1>2, <1>4
<1>6. m.message[2] <= taken[m.message[1]]  BY <1>1, <1>5 DEF FifoInv, Told
<1> QED  BY <1>1, <1>6

\* A member leaves the room, and no one else notices.
LEMMA RoomLeaves ==
  ASSUME TypeInv, OwnEntry, GhostInv, NEW c \in Conns, InLoop(c), Room!Out(c),
         Start(Pipeline(c)', Pipeline(c)),
         \A d \in Conns \ {c} : Pipeline(d)' = Pipeline(d)
  PROVE  Room!Next
<1>1. c \in Room!Members  BY MemberOf
<1>2. Inbox' = [Inbox EXCEPT ![c] = Pipeline(c)']  BY DEF Inbox
<1>3. Pipeline(c)' \in Room!Kept(c)
  BY DEF Start, Room!Kept, Inbox
<1>4. Room!Leave(c)  BY <1>1, <1>2, <1>3 DEF Room!Leave
<1> QED  BY <1>4 DEF Room!Next

\* A member tells others something, and may leave.
LEMMA RoomSays ==
  ASSUME TypeInv, OwnEntry, GhostInv, FifoInv, NEW c \in Conns, InLoop(c), HasLine(c),
         NEW to \in SUBSET (Conns \ {c}), \A d \in to : InLoop(d), to # {}, Tells(c, to),
         \/ UNCHANGED Member /\ Pipeline(c)' = Pipeline(c)
         \/ Room!Out(c) /\ Start(Pipeline(c)', Pipeline(c))
  PROVE  Room!Next
<1> DEFINE n == name[c]
           text == NextText(c)
           m == Message(n, text)
           rest == Pipeline(c)'
<1>1. n \in Names /\ text \in Text
  BY MaxSendsAssumption
  DEF InLoop, TypeInv, NamedOK, NextText, Text, HasLine, TypeOK, SocketTypeOK
<1>2. Member[n] = c /\ to \in SUBSET (Room!Members \ {c})
  BY <1>1, MemberOf
<1>3. m = [kind |-> "Message", from |-> n, message |-> text]  BY DEF Message
<1>4. \A d \in Conns : \A i \in DOMAIN Inbox[d] : Inbox[d][i] # m  BY NewWords
<1>5. Inbox' # Inbox
  <2>1. PICK d \in to : TRUE  OBVIOUS
  <2>2. Pipeline(d) \in Seq(Outgoing)  BY PipelineTypes
  <2>3. Inbox'[d] = Append(Inbox[d], m) /\ Inbox[d] = Pipeline(d)
    BY <2>1 DEF Tells, Inbox
  <2>4. Append(Pipeline(d), m) # Pipeline(d)
    <3> DEFINE S == Outgoing \cup {m}
    <3>1. Pipeline(d) \in Seq(S) /\ m \in S  BY <2>2
    <3> HIDE DEF S, m
    <3>2. Len(Append(Pipeline(d), m)) = Len(Pipeline(d)) + 1 /\ Len(Pipeline(d)) \in Nat
      BY <3>1
    <3> QED  BY <3>2
  <2> QED  BY <2>3, <2>4
<1>6. CASE UNCHANGED Member /\ Pipeline(c)' = Pipeline(c)
  <2>1. Inbox' = [d \in Conns |-> IF d \in to THEN Append(Inbox[d], m) ELSE Inbox[d]]
    BY <1>6 DEF Inbox, Tells
  <2> HIDE DEF m, Text, n, text
  <2>2. Room!Tell(n, to, text, Inbox)  BY <1>3, <1>4, <2>1 DEF Room!Tell
  <2>3. Room!Say(c, n)  BY <1>1, <1>2, <1>5, <1>6, <2>2 DEF Room!Say
  <2> QED  BY <1>1, <2>3 DEF Room!Next
<1>7. CASE Room!Out(c) /\ Start(Pipeline(c)', Pipeline(c))
  <2> DEFINE before == [Inbox EXCEPT ![c] = rest]
  <2>1. Inbox' = [d \in Conns |-> IF d \in to THEN Append(before[d], m) ELSE before[d]]
    BY <1>7 DEF Inbox, Tells
  <2>2. rest \in Room!Kept(c)  BY <1>7 DEF Start, Room!Kept, Inbox
  <2> HIDE DEF m, Text, n, text, rest
  <2>3. Room!Tell(n, to, text, before)  BY <1>3, <1>4, <2>1 DEF Room!Tell
  <2>4. Room!Say(c, n)  BY <1>1, <1>2, <1>5, <1>7, <2>2, <2>3 DEF Room!Say
  <2> QED  BY <1>1, <2>4 DEF Room!Next
<1> QED  BY <1>6, <1>7

RoomInv == TypeInv /\ NamesInv /\ StoryInv /\ GhostInv /\ FifoInv /\ QuietInv

LEMMA PollsInRoom ==
  ASSUME RoomInv, NamesInv', NEW c \in Conns, Polls(c), PollFrame(c)
  PROVE  [Room!Next]_<<Member, Inbox>>
<1> USE DEF RoomInv
<1>1. /\ OthersStay(c) /\ (EntersRoom(c) \/ StaysPut(c) \/ EndsRoom(c))
      /\ pc[c] # "ended" /\ OwnEntry
  BY PollsRoom DEF PollFrame, NamesInv
<1>2. /\ pc'[c] # "ended" => Pipeline(c)' = Pipeline(c)
      /\ pc'[c] = "ended" => Start(Pipeline(c)', Pipeline(c))
  BY PollsPipelines
<1>3. \A d \in Conns \ {c} : InLoop(d)' <=> InLoop(d)
  BY <1>1 DEF OthersStay, InLoop
<1>4. ASSUME \A d \in Conns \ {c} : Pipeline(d)' = Pipeline(d)
      PROVE  [Room!Next]_<<Member, Inbox>>
  <2>1. CASE EntersRoom(c)
    <3> DEFINE n == name'[c]
    <3>1. Member[n] = NoConn /\ Member' = [Member EXCEPT ![n] = c]
      BY <1>1, <2>1, MembersIn
    <3>2. Pipeline(c)' = Pipeline(c) /\ Pipeline(c) = <<>>
      BY <1>1, <1>2, <2>1 DEF EntersRoom, InLoop, QuietInv
    <3>3. UNCHANGED Inbox /\ Inbox[c] = <<>>  BY <1>4, <3>2 DEF Inbox
    <3>4. n \in Names /\ c \notin Room!Members
      BY <1>1, <2>1, MemberOf DEF EntersRoom
    <3> HIDE DEF n
    <3> QED  BY <3>1, <3>3, <3>4 DEF Room!Enter, Room!Next
  <2>2. CASE StaysPut(c)
    <3>1. UNCHANGED Member  BY <1>3, <2>2, MembersStay DEF StaysPut
    <3>2. UNCHANGED Inbox  BY <1>2, <1>4, <2>2 DEF Inbox, StaysPut
    <3> QED  BY <3>1, <3>2
  <2>3. CASE EndsRoom(c)
    <3>1. CASE InLoop(c)
      BY <1>1, <1>2, <1>4, <2>3, <3>1, MembersOut, RoomLeaves DEF EndsRoom
    <3>2. CASE ~InLoop(c)
      <4>1. Pipeline(c) = <<>>  BY <1>1, <3>2 DEF QuietInv
      <4>2. Pipeline(c)' = <<>>
        <5>1. PICK k \in 0..0 : Pipeline(c)' = SubSeq(<<>>, 1, k)
          BY <1>2, <2>3, <4>1 DEF EndsRoom, Start
        <5> QED  BY <5>1
      <4>3. UNCHANGED Inbox  BY <1>4, <4>1, <4>2 DEF Inbox
      <4>4. UNCHANGED Member
        BY <1>3, <2>3, <3>2, MembersStay DEF EndsRoom, InLoop
      <4> QED  BY <4>3, <4>4
    <3> QED  BY <3>1, <3>2
  <2> QED  BY <1>1, <2>1, <2>2, <2>3
<1>5. ASSUME Posts(c) \/ PostFails(c), NEW to \in SUBSET Served(c), Tells(c, to)
      PROVE  [Room!Next]_<<Member, Inbox>>
  <2>1. CASE to = {}  BY <1>4, <1>5, <2>1 DEF Tells
  <2>2. CASE to # {}
    <3>1. /\ InLoop(c) /\ HasLine(c) /\ to \subseteq Conns \ {c}
          /\ \A d \in to : InLoop(d)
      BY <1>5, ServedOthers DEF Posts, PostFails, Take, InLoop
    <3>2. CASE StaysPut(c)
      <4>1. UNCHANGED Member  BY <1>3, <3>2, MembersStay DEF StaysPut
      <4> QED  BY <1>1, <1>2, <1>5, <2>2, <3>1, <3>2, <4>1, RoomSays DEF StaysPut
    <3>3. CASE EndsRoom(c)
      <4>1. Room!Out(c)  BY <1>1, <3>3, MembersOut DEF EndsRoom
      <4> QED  BY <1>1, <1>2, <1>5, <2>2, <3>1, <3>3, <4>1, RoomSays DEF EndsRoom
    <3>4. ~EntersRoom(c)  BY <3>1 DEF EntersRoom
    <3> QED  BY <1>1, <3>2, <3>3, <3>4
  <2> QED  BY <2>1, <2>2
<1> QED  BY <1>4, <1>5, PollsPipelines

LEMMA RoomStep ==
  RoomInv /\ BacklogConsistent /\ NamesInv' /\ [Next]_vars => [Room!Next]_<<Member, Inbox>>
<1> SUFFICES ASSUME RoomInv, BacklogConsistent, NamesInv', [Next]_vars
             PROVE  [Room!Next]_<<Member, Inbox>>
  OBVIOUS
<1>1. ASSUME NEW c \in Conns, Handler(c) \/ JoinTimeout(c)
      PROVE  [Room!Next]_<<Member, Inbox>>
  BY <1>1, HandlerPolls, PollsInRoom DEF RoomInv
<1>2. CASE LoopAlone \/ UNCHANGED vars \/ \E c \in Conns : Aside(c)
  <2>1. UNCHANGED registry /\ ((\A d \in Conns : Same(d)) \/ \E c \in Conns : Aborted(c))
    BY <1>2, AsidePipelines DEF RoomInv
  <2>2. CASE \A d \in Conns : Same(d)
    <3>1. UNCHANGED Member  BY <2>1, <2>2, MembersStay DEF Same, RoomInv
    <3>2. UNCHANGED Inbox  BY <2>2 DEF Inbox, Same
    <3> QED  BY <3>1, <3>2
  <2>3. ASSUME NEW c \in Conns, Aborted(c) PROVE [Room!Next]_<<Member, Inbox>>
    <3>1. CASE InLoop(c)
      <4>1. Room!Out(c)
        BY <2>1, <2>3, MembersOut DEF Aborted, RoomInv, NamesInv
      <4> QED  BY <2>3, <3>1, <4>1, RoomLeaves DEF Aborted, RoomInv, NamesInv
    <3>2. CASE ~InLoop(c)
      <4>1. Pipeline(c)' = Pipeline(c)
        <5>1. CASE pc[c] = "ended"  BY <2>3, <5>1 DEF Aborted, RoomInv, QuietInv
        <5>2. CASE pc[c] # "ended"
          <6>1. Pipeline(c) = <<>>  BY <3>2, <5>2 DEF RoomInv, QuietInv
          <6>2. PICK k \in 0..0 : Pipeline(c)' = SubSeq(<<>>, 1, k)
            BY <2>3, <6>1 DEF Aborted, Start
          <6> QED  BY <6>1, <6>2
        <5> QED  BY <5>1, <5>2
      <4>2. UNCHANGED Inbox  BY <2>3, <4>1 DEF Inbox, Aborted
      <4>3. \A d \in Conns : InLoop(d)' <=> InLoop(d)
        BY <2>3, <3>2 DEF Aborted, OthersStay, InLoop
      <4>4. UNCHANGED Member  BY <2>1, <4>3, MembersStay DEF RoomInv
      <4> QED  BY <4>2, <4>4
    <3> QED  BY <3>1, <3>2
  <2> QED  BY <2>1, <2>2, <2>3
<1> QED  BY <1>1, <1>2 DEF Next, Aside

LEMMA RoomInit == Init => Room!Init
<1> SUFFICES ASSUME Init PROVE Room!Init  OBVIOUS
<1>1. \A n \in Names : registry[n] = NoConn  BY DEF Init
<1>2. Member = [n \in Names |-> NoConn]  BY <1>1 DEF Member, Registered
<1>3. ASSUME NEW c \in Conns PROVE Pipeline(c) = <<>>
  <2>1. Arriving(c) = <<>> \o <<>> \o <<>>
    BY DEF Init, SocketInit, Arriving, InHand
  <2>2. Arriving(c) = <<>>  BY <2>1
  <2> QED  BY <2>2, OfKindEmpty DEF Pipeline
<1> QED  BY <1>2, <1>3 DEF Room!Init, Inbox

LEMMA QuietHolds == Spec => []QuietInv
<1>1. Init => QuietInv
  <2> SUFFICES ASSUME Init, NEW c \in Conns PROVE Pipeline(c) = <<>> /\ chan[c] = <<>>
    BY DEF QuietInv
  <2> QED  BY RoomInit DEF Init, Room!Init, Inbox
<1> QED
  BY <1>1, QuietStep, TypeInvCorrect, ImplementsLoop, BacklogHolds, NamesHold, StoryHolds,
     GhostsHold, PTL DEF Spec

\* The single-threaded server implements the chat room: every step of it is
\* a client entering, leaving or saying something in the room, or none.
THEOREM ServerIsChatRoom == Spec => ImplementsRoom
<1>1. Spec => []RoomInv
  BY TypeInvCorrect, NamesHold, StoryHolds, GhostsHold, FifoHolds, QuietHolds, PTL DEF RoomInv
<1> QED
  BY <1>1, RoomInit, RoomStep, ImplementsLoop, BacklogHolds, NamesHold, PTL
  DEF Spec, ImplementsRoom, Room!Spec, Room!vars

-----------------------------------------------------------------------------
(***************************************************************************)
(* Requests and replies.  The lines taken after the Join and what was      *)
(* written, the message in hand included, agree: a poll that takes a Ping  *)
(* or a ListUsers has the reply written or in hand when it ends.           *)
(***************************************************************************)
Lines(c) == SubSeq(sent[c], 2, taken[c])
Written(c) == wire[c] \o InHand(c)

AllAnswered(c) ==
  /\ pc[c] \in {"idle", "joining"} => taken[c] = 0
  /\ pc[c] = "writing" /\ pending[c].then = "welcome" => taken[c] = 1
  /\ InLoop(c) => taken[c] >= 1 /\ Answered(Lines(c), Written(c))

ReplyInv == \A c \in Conns : AllAnswered(c)

LEMMA LinesTypes ==
  ASSUME TypeInv, NEW c \in Conns
  PROVE  /\ sent[c] \in Seq(Line) /\ taken[c] \in Nat /\ taken[c] <= Len(sent[c])
         /\ taken[c] >= 1 => Lines(c) \in Seq(Line)
         /\ taken[c] <= 1 => Lines(c) = <<>>
<1>1. sent[c] \in Seq(Line) /\ taken[c] \in Nat /\ taken[c] <= Len(sent[c])
  BY DEF TypeInv, TypeOK, SocketTypeOK
<1> DEFINE s == sent[c]
           k == taken[c]
<1>2. Lines(c) = SubSeq(s, 2, k)  BY DEF Lines
<1> HIDE DEF Line, s, k
<1> QED  BY <1>1, <1>2 DEF s, k

\* A line more is taken.
LEMMA TakesLine ==
  ASSUME TypeInv, NEW c \in Conns, Take(c), UNCHANGED sent
  PROVE  /\ NextLine(c) \in Line /\ taken'[c] = taken[c] + 1
         /\ taken[c] >= 1 => Lines(c)' = Append(Lines(c), NextLine(c))
         /\ taken[c] = 0 => Lines(c)' = <<>>
<1> DEFINE s == sent[c]
           k == taken[c]
<1>1. /\ s \in Seq(Line) /\ k \in Nat /\ k < Len(s)
      /\ taken'[c] = k + 1 /\ NextLine(c) = s[k + 1]
      /\ Lines(c)' = SubSeq(s, 2, k + 1) /\ Lines(c) = SubSeq(s, 2, k)
  BY DEF TypeInv, TypeOK, SocketTypeOK, Take, HasLine, NextLine, Lines
<1> HIDE DEF Line, s, k
<1>2. s[k + 1] \in Line  BY <1>1
<1>3. k >= 1 => SubSeq(s, 2, k + 1) = Append(SubSeq(s, 2, k), s[k + 1])  BY <1>1
<1>4. k = 0 => SubSeq(s, 2, k + 1) = <<>>  BY <1>1
<1> QED  BY <1>1, <1>2, <1>3, <1>4 DEF k

\* What is written more.
LEMMA SendWritten ==
  ASSUME TypeInv, NEW c \in Conns, NEW msg \in Outgoing, NEW then \in Continuations,
         Sends(c, msg, then)
  PROVE  /\ OthersStay(c) /\ \A d \in Conns \ {c} : wire'[d] = wire[d]
         /\ pc'[c] # "ended" => Written(c)' = Append(wire[c], msg)
         /\ pc'[c] \in {"writing", "serving", "ended"}
         /\ pc'[c] = "writing" => pending'[c].then = then
         /\ pc'[c] = "serving" => then \in {"welcome", "reply", "forward"}
<1> DEFINE w == wire[c]
<1>1. /\ TypeOK /\ OthersStay(c) /\ SendOutcome(c, msg, then) /\ w \in Seq(Outgoing)
  BY SendsEffect DEF TypeInv, TypeOK, SocketTypeOK
<1>2. \A d \in Conns \ {c} : wire'[d] = wire[d]
  BY <1>1, WireEffect DEF SendOutcome, WriteFails
<1>3. WriteLands(c, msg) => wire'[c] = Append(w, msg)  BY <1>1, WireEffect
<1>4. \/ /\ pc'[c] = "writing" /\ pending'[c].msg = msg /\ pending'[c].then = then
         /\ wire'[c] = w
      \/ /\ pc'[c] = "serving" /\ wire'[c] = Append(w, msg)
         /\ then \in {"welcome", "reply", "forward"}
      \/ pc'[c] = "ended"
  BY <1>1, <1>3 DEF SendOutcome
<1>5. pc'[c] # "ended" => Written(c)' = Append(w, msg)
  <2> HIDE DEF Outgoing, w
  <2>1. w \in Seq(Outgoing) /\ msg \in Outgoing  BY <1>1
  <2>2. Append(w, msg) = w \o <<msg>> /\ Append(w, msg) \o <<>> = Append(w, msg)
    BY <2>1, AppendIsConcat, ConcatEmptySeq, AppendProperties
  <2>3. CASE pc'[c] = "writing"  BY <1>4, <2>2, <2>3 DEF Written, InHand
  <2>4. CASE pc'[c] = "serving"  BY <1>4, <2>2, <2>4 DEF Written, InHand
  <2> QED  BY <1>4, <2>3, <2>4
<1> QED  BY <1>1, <1>2, <1>4, <1>5

\* What was written, before a poll.
LEMMA WrittenIs ==
  ASSUME TypeInv, NEW c \in Conns
  PROVE  /\ wire[c] \in Seq(Outgoing)
         /\ pc[c] = "writing" => Written(c) = Append(wire[c], pending[c].msg)
         /\ pc[c] # "writing" => Written(c) = wire[c]
<1> DEFINE w == wire[c]
<1>1. w \in Seq(Outgoing) /\ (pc[c] = "writing" => pending[c].msg \in Outgoing)
  <2>1. pc[c] = "writing" => pending[c] \in Write  BY DEF TypeInv, NamedOK
  <2>2. \A x \in Write : x.msg \in Outgoing
    <3> HIDE DEF Outgoing, Continuations
    <3> QED  BY DEF Write
  <2> QED  BY <2>1, <2>2 DEF TypeInv, TypeOK, SocketTypeOK
<1> HIDE DEF Outgoing, w
<1>2. w \o <<>> = w  BY <1>1, ConcatEmptySeq
<1>3. pc[c] = "writing" => w \o <<pending[c].msg>> = Append(w, pending[c].msg)
  BY <1>1, AppendIsConcat
<1> QED  BY <1>1, <1>2, <1>3 DEF Written, InHand, w

\* Whose lines and messages are left alone has them answered as before.
LEMMA StillAnswered ==
  ASSUME NEW d \in Conns, AllAnswered(d), pc'[d] = pc[d], pending'[d] = pending[d],
         taken'[d] = taken[d], wire'[d] = wire[d], Lines(d)' = Lines(d)
  PROVE  AllAnswered(d)'
<1>1. Written(d)' = Written(d)  BY DEF Written, InHand
<1> QED  BY <1>1 DEF AllAnswered, InLoop

LEMMA PollAnswered ==
  ASSUME TypeInv, StoryInv, ReplyInv, NEW c \in Conns, Polls(c), PollFrame(c)
  PROVE  AllAnswered(c)'
<1> DEFINE w == wire[c]
<1>1. /\ TypeOK /\ AllAnswered(c) /\ w \in Seq(Outgoing)
      /\ pc[c] # "writing" => Written(c) = w
  BY WrittenIs DEF TypeInv, ReplyInv
<1>2. /\ pc[c] = "joining" => taken[c] = 0 /\ w = <<>>
      /\ pc[c] = "serving" => taken[c] \in Nat /\ taken[c] >= 1 /\ Answered(Lines(c), w)
  BY <1>1, LinesTypes DEF StoryInv, Telling, AllAnswered, InLoop
<1>3. pc'[c] = "ended" => AllAnswered(c)'  BY DEF AllAnswered, InLoop
<1>4. Leaves(c) \/ Ends(c) => pc'[c] = "ended"  BY <1>1, EndsTypes DEF Leaves
<1>5. UNCHANGED sent /\ (UNCHANGED taken => Lines(c)' = Lines(c))
  BY DEF PollFrame, Lines
<1>6. CASE JoinFreeName(c)
  <2>1. /\ Sends(c, Welcome, "welcome") /\ Take(c) /\ pc[c] = "joining"
        /\ Welcome \in Outgoing /\ Welcome.kind \notin {"Pong", "UserList"}
        /\ "welcome" \in Continuations
    BY <1>6, OwnMessages DEF JoinFreeName, Joining, Welcome, Continuations
  <2>2. taken'[c] = 1 /\ Lines(c)' = <<>>  BY <1>2, <1>5, <2>1, TakesLine
  <2>3. /\ pc'[c] # "ended" => Written(c)' = Append(<<>>, Welcome)
        /\ pc'[c] \in {"writing", "serving", "ended"}
    BY <1>2, <2>1, SendWritten
  <2>4. Answered(<<>>, Append(<<>>, Welcome))
    <3>1. <<>> \in Seq(Outgoing)  OBVIOUS
    <3> HIDE DEF Outgoing
    <3> QED  BY <2>1, <3>1, NoneAnswered, OtherWritten
  <2> QED  BY <1>3, <2>2, <2>3, <2>4 DEF AllAnswered, InLoop
<1>7. CASE Refuses(c)
  <2>1. PICK t \in ErrorTexts : Sends(c, Error(t), "close")  BY <1>7 DEF Refuses
  <2>2. pc'[c] \in {"writing", "ended"} /\ (pc'[c] = "writing" => pending'[c].then = "close")
    BY <2>1, OwnMessages, SendWritten DEF Continuations
  <2> QED  BY <2>2 DEF AllAnswered, InLoop
<1>8. CASE JoinUnreadable(c) \/ PanicOnRead(c) \/ PostFails(c) \/ GivesUp(c)
  BY <1>3, <1>4, <1>8 DEF JoinUnreadable, PanicOnRead, PostFails, GivesUp
<1>9. CASE Answers(c)
  <2>1. PICK msg \in Outgoing, then \in {"reply", "kick"} :
          Sends(c, msg, then) /\ IsReply(NextLine(c).kind, msg.kind)
    BY <1>9 DEF Answers
  <2>2. then \in Continuations /\ then # "welcome"  BY DEF Continuations
  <2>3. /\ pc'[c] # "ended" => Written(c)' = Append(w, msg)
        /\ pc'[c] \in {"writing", "serving", "ended"}
        /\ pc'[c] = "writing" => pending'[c].then = then
    BY <2>1, <2>2, SendWritten
  <2>4. /\ taken'[c] = taken[c] + 1 /\ Lines(c)' = Append(Lines(c), NextLine(c))
        /\ Lines(c) \in Seq(Line) /\ NextLine(c) \in Line
    BY <1>2, <1>5, <1>9, TakesLine, LinesTypes DEF Answers
  <2>5. Answered(Append(Lines(c), NextLine(c)), Append(w, msg))
    <3>1. Answered(Lines(c), w)  BY <1>2, <1>9 DEF Answers
    <3> HIDE DEF Outgoing, Line, w
    <3> QED  BY <1>1, <2>1, <2>4, <3>1, MoreAnswered
  <2>6. taken'[c] >= 1  BY <1>2, <1>9, <2>4 DEF Answers
  <2> QED
    BY <1>3, <2>2, <2>3, <2>4, <2>5, <2>6 DEF AllAnswered, InLoop
<1>10. CASE Posts(c)
  <2>1. /\ pc'[c] = "serving" /\ wire'[c] = w /\ pc[c] = "serving"
        /\ NextLine(c).kind \in {"Broadcast", "SendDM"}
    BY <1>1, <1>10, ServesTypes DEF Posts
  <2>2. Written(c)' = w
    <3>1. Written(c)' = w \o <<>>  BY <2>1 DEF Written, InHand
    <3> HIDE DEF Outgoing, w
    <3> QED  BY <1>1, <3>1, ConcatEmptySeq
  <2>3. /\ taken'[c] = taken[c] + 1 /\ Lines(c)' = Append(Lines(c), NextLine(c))
        /\ Lines(c) \in Seq(Line) /\ NextLine(c) \in Line
    BY <1>2, <1>5, <1>10, TakesLine, LinesTypes DEF Posts
  <2>4. Answered(Append(Lines(c), NextLine(c)), w)
    <3>1. Answered(Lines(c), w)  BY <1>2, <2>1
    <3>2. NextLine(c).kind \notin {"Ping", "ListUsers"}  BY <2>1
    <3> HIDE DEF Line, w
    <3> QED  BY <2>3, <3>1, <3>2, OtherTaken
  <2>5. taken'[c] >= 1  BY <1>2, <2>1, <2>3
  <2> QED  BY <2>1, <2>2, <2>3, <2>4, <2>5 DEF AllAnswered, InLoop
<1>11. CASE Forward(c)
  <2>1. /\ Sends(c, Head(chan[c]), "forward") /\ pc[c] = "serving" /\ chan[c] # <<>>
        /\ UNCHANGED taken
    BY <1>11 DEF Forward, Serving
  <2>2. Head(chan[c]) \in Outgoing /\ Head(chan[c]).kind = "Message"
    <3>1. Head(chan[c]) \in Outgoing /\ chan[c] \in Seq(Outgoing)
      BY <2>1, ChannelHead DEF TypeInv, TypeOK
    <3>2. 1 \in DOMAIN chan[c] /\ Head(chan[c]) = chan[c][1]
      <4> DEFINE q == chan[c]
      <4> HIDE DEF Outgoing, q
      <4>1. 1 \in DOMAIN q /\ Head(q) = q[1]  BY <2>1, <3>1 DEF q
      <4> QED  BY <4>1 DEF q
    <3> QED  BY <3>1, <3>2 DEF StoryInv, OnlyChat
  <2>3. /\ pc'[c] # "ended" => Written(c)' = Append(w, Head(chan[c]))
        /\ pc'[c] \in {"writing", "serving", "ended"}
        /\ pc'[c] = "writing" => pending'[c].then = "forward"
    BY <2>1, <2>2, SendWritten DEF Continuations
  <2>4. Answered(Lines(c), Append(w, Head(chan[c])))
    <3>1. Answered(Lines(c), w)  BY <1>2, <2>1
    <3> HIDE DEF Outgoing, w
    <3> QED  BY <1>1, <2>2, <3>1, OtherWritten
  <2> QED  BY <1>2, <1>3, <1>5, <2>1, <2>3, <2>4 DEF AllAnswered, InLoop
<1>12. CASE Resume(c)
  <2> DEFINE m == pending[c].msg
             then == pending[c].then
  <2>1. /\ pc[c] = "writing" /\ m \in Outgoing /\ then \in Continuations
        /\ Sends(c, m, then) /\ UNCHANGED taken /\ Written(c) = Append(w, m)
    BY <1>12, ResumeSends, WrittenIs DEF Resume
  <2>2. /\ pc'[c] # "ended" => Written(c)' = Append(w, m)
        /\ pc'[c] \in {"writing", "serving", "ended"}
        /\ pc'[c] = "writing" => pending'[c].then = then
        /\ pc'[c] = "serving" => then \in {"welcome", "reply", "forward"}
    BY <2>1, SendWritten
  <2>3. CASE then = "welcome"
    <3>1. taken[c] = 1 /\ w = <<>> /\ m = Welcome
      BY <1>1, <2>1, <2>3 DEF AllAnswered, StoryInv, Telling, Fits
    <3>2. Lines(c) = <<>>  BY <3>1, LinesTypes
    <3>3. Answered(<<>>, Append(<<>>, Welcome))
      <4>1. <<>> \in Seq(Outgoing) /\ Welcome \in Outgoing
            /\ Welcome.kind \notin {"Pong", "UserList"}
        BY OwnMessages DEF Welcome
      <4> HIDE DEF Outgoing
      <4> QED  BY <4>1, NoneAnswered, OtherWritten
    <3> QED
      BY <1>3, <1>5, <2>1, <2>2, <2>3, <3>1, <3>2, <3>3 DEF AllAnswered, InLoop
  <2>4. CASE then = "close"
    BY <2>2, <2>4 DEF AllAnswered, InLoop
  <2>5. CASE then \in {"reply", "kick", "forward"}
    <3>1. taken[c] >= 1 /\ Answered(Lines(c), Append(w, m))
      BY <1>1, <2>1, <2>5 DEF AllAnswered, InLoop
    <3> QED  BY <1>3, <1>5, <2>1, <2>2, <2>5, <3>1 DEF AllAnswered, InLoop
  <2> QED  BY <2>1, <2>3, <2>4, <2>5 DEF Continuations
<1> QED  BY <1>6, <1>7, <1>8, <1>9, <1>10, <1>11, <1>12 DEF Polls

\* A poll of c leaves the others where they are, and writes to c only.
LEMMA PollsAlone ==
  ASSUME TypeInv, NEW c \in Conns, Polls(c)
  PROVE  OthersStay(c) /\ \A d \in Conns \ {c} : wire'[d] = wire[d]
<1>1. TypeOK  BY DEF TypeInv
<1>2. ASSUME NEW msg \in Outgoing, NEW then \in Continuations, Sends(c, msg, then)
      PROVE  OthersStay(c) /\ \A d \in Conns \ {c} : wire'[d] = wire[d]
  BY <1>2, SendWritten
<1>3. ASSUME UNCHANGED wire, Ends(c) \/ Serves(c)
      PROVE  OthersStay(c) /\ \A d \in Conns \ {c} : wire'[d] = wire[d]
  BY <1>1, <1>3, EndsTypes, ServesTypes
<1>4. CASE JoinFreeName(c)
  BY <1>2, <1>4, OwnMessages DEF JoinFreeName, Continuations
<1>5. CASE Refuses(c)  BY <1>2, <1>5, OwnMessages DEF Refuses, Continuations
<1>6. CASE Answers(c)
  <2> HIDE DEF Outgoing
  <2> QED  BY <1>2, <1>6 DEF Answers, Continuations
<1>7. CASE Forward(c)
  BY <1>2, <1>7, ChannelHead DEF Forward, Continuations
<1>8. CASE Resume(c)  BY <1>2, <1>8, ResumeSends
<1>9. CASE Posts(c) \/ PostFails(c) \/ GivesUp(c) \/ JoinUnreadable(c) \/ PanicOnRead(c)
  BY <1>3, <1>9 DEF Posts, PostFails, GivesUp, JoinUnreadable, PanicOnRead, Leaves
<1> QED  BY <1>4, <1>5, <1>6, <1>7, <1>8, <1>9 DEF Polls

LEMMA MoreSent ==
  ASSUME NEW s \in Seq(Line), NEW line \in Line, NEW k \in Nat, k <= Len(s)
  PROVE  SubSeq(Append(s, line), 2, k) = SubSeq(s, 2, k)
<1> HIDE DEF Line
<1> QED  OBVIOUS

LEMMA ReplyStep ==
  TypeInv /\ BacklogConsistent /\ StoryInv /\ ReplyInv /\ [Next]_vars => ReplyInv'
<1> SUFFICES ASSUME TypeInv, BacklogConsistent, StoryInv, ReplyInv, [Next]_vars
             PROVE  ReplyInv'
  OBVIOUS
<1> USE DEF handlerVars, socketVars, clientVars
<1>1. TypeOK /\ LoopTypeOK  BY DEF TypeInv, TypeOK
<1>2. CASE UNCHANGED <<pc, pending, taken, wire, sent>>
  <2>1. \A d \in Conns : Lines(d)' = Lines(d)  BY <1>2 DEF Lines
  <2> QED  BY <1>2, <2>1, StillAnswered DEF ReplyInv
<1>3. ASSUME NEW c \in Conns, \E line \in MaySend(c) : ClientSends(c, line),
             UNCHANGED handlerVars
      PROVE  ReplyInv'
  <2>1. PICK line \in Line : ClientSends(c, line)
    BY <1>1, <1>3, MaySendLines DEF TypeOK, SocketTypeOK
  <2>2. /\ sent' = [sent EXCEPT ![c] = Append(sent[c], line)] /\ UNCHANGED <<taken, wire>>
        /\ sent \in [Conns -> Seq(Line)] /\ taken[c] \in Nat /\ taken[c] <= Len(sent[c])
    BY <1>1, <2>1 DEF ClientSends, TypeOK, SocketTypeOK
  <2>3. Lines(c)' = Lines(c)
    BY <2>2, MoreSent DEF Lines
  <2>4. \A d \in Conns : Lines(d)' = Lines(d)
    BY <2>2, <2>3 DEF Lines
  <2> QED  BY <1>3, <2>2, <2>4, StillAnswered DEF ReplyInv
<1>4. ASSUME NEW c \in Conns, AllAnswered(c)', UNCHANGED <<sent, taken>>, OthersStay(c),
             \A d \in Conns \ {c} : wire'[d] = wire[d]
      PROVE  ReplyInv'
  <2>1. \A d \in Conns : Lines(d)' = Lines(d)  BY <1>4 DEF Lines
  <2> QED  BY <1>4, <2>1, StillAnswered DEF ReplyInv, OthersStay
<1>5. ASSUME NEW c \in Conns, Accepting(c) \/ Rejecting(c) PROVE pc[c] = "idle"
  BY <1>1, <1>5 DEF Accepting, Rejecting, BacklogConsistent, LoopTypeOK, Unanswered, StoryInv
<1>6. CASE LoopAlone \/ UNCHANGED vars  BY <1>2, <1>6 DEF LoopAlone, vars
<1>7. ASSUME NEW c \in Conns, Client(c) \/ Reader(c) PROVE ReplyInv'
  BY <1>2, <1>3, <1>7 DEF Client, Reader, Dial, ClientCloses, ClientVanishes, ClientReads
<1>8. ASSUME NEW c \in Conns, Server(c) PROVE ReplyInv'
  <2>1. CASE SpawnHandler(c)
    <3>1. /\ pc[c] = "idle" /\ pc'[c] = "joining" /\ OthersStay(c)
          /\ UNCHANGED <<wire, sent, taken>>
      BY <1>1, <1>5, <2>1 DEF SpawnHandler, Spawn, TypeOK, OthersStay
    <3>2. AllAnswered(c)'  BY <3>1 DEF ReplyInv, AllAnswered, InLoop
    <3> QED  BY <1>4, <3>1, <3>2
  <2>2. CASE TurnAwayNow(c)
    <3>1. /\ pc[c] = "idle" /\ UNCHANGED <<pc, pending, sent, taken>>
          /\ \A d \in Conns \ {c} : wire'[d] = wire[d]
      BY <1>1, <1>5, <2>2, WireEffect DEF TurnAwayNow, RejectSent
    <3>2. AllAnswered(c)'  BY <3>1 DEF ReplyInv, AllAnswered, InLoop
    <3> QED  BY <1>4, <3>1, <3>2 DEF OthersStay
  <2>3. CASE TurnAwayFails(c) \/ TurnAwayLater(c) \/ ReapHandler(c)
    BY <1>2, <2>3 DEF TurnAwayFails, TurnAwayLater, ReapHandler, WriteFails
  <2>4. CASE CancelHandler(c)
    <3>1. /\ pc'[c] = "ended" /\ OthersStay(c) /\ UNCHANGED <<wire, sent, taken>>
      BY <1>1, <2>4 DEF CancelHandler, TypeOK, OthersStay
    <3>2. AllAnswered(c)'  BY <3>1 DEF AllAnswered, InLoop
    <3> QED  BY <1>4, <3>1, <3>2
  <2> QED  BY <1>8, <2>1, <2>2, <2>3, <2>4 DEF Server
<1>9. ASSUME NEW c \in Conns, Handler(c) \/ JoinTimeout(c) PROVE ReplyInv'
  <2>1. Polls(c) /\ PollFrame(c)  BY <1>9, HandlerPolls
  <2>2. AllAnswered(c)'  BY <2>1, PollAnswered
  <2>3. OthersStay(c) /\ \A d \in Conns \ {c} : wire'[d] = wire[d]
    BY <2>1, PollsAlone
  <2>4. ASSUME NEW d \in Conns \ {c} PROVE taken'[d] = taken[d] /\ Lines(d)' = Lines(d)
    BY <1>1, <2>1 DEF PollFrame, Take, Lines, TypeOK, SocketTypeOK
  <2>5. ASSUME NEW d \in Conns \ {c} PROVE AllAnswered(d)'
    BY <2>3, <2>4, StillAnswered DEF ReplyInv, OthersStay
  <2> QED  BY <2>2, <2>5 DEF ReplyInv
<1> QED  BY <1>6, <1>7, <1>8, <1>9 DEF Next

\* Each Ping and each ListUsers is answered once, in order.
THEOREM RequestsAnswered == Spec => []RepliesInOrder
<1>1. Init => ReplyInv
  BY DEF Init, SocketInit, ReplyInv, AllAnswered, InLoop
<1>2. Spec => []ReplyInv
  BY <1>1, ReplyStep, TypeInvCorrect, ImplementsLoop, BacklogHolds, StoryHolds, PTL DEF Spec
<1>3. TypeInv /\ ReplyInv => RepliesInOrder
  <2> SUFFICES ASSUME TypeInv, ReplyInv, NEW c \in Conns, InLoop(c)
               PROVE  /\ Len(OfKind(Lines(c), {"Ping", "ListUsers"}))
                            = Len(OfKind(Written(c), {"Pong", "UserList"}))
                      /\ \A i \in DOMAIN OfKind(Lines(c), {"Ping", "ListUsers"}) :
                           OfKind(Written(c), {"Pong", "UserList"})[i].kind =
                             IF OfKind(Lines(c), {"Ping", "ListUsers"})[i].kind = "Ping"
                             THEN "Pong" ELSE "UserList"
    BY DEF RepliesInOrder, Lines, Written
  <2>1. Answered(Lines(c), Written(c))  BY DEF ReplyInv, AllAnswered
  <2> QED  BY <2>1 DEF Answered, Paired
<1> QED  BY <1>2, <1>3, TypeInvCorrect, PTL
=============================================================================

------------------------ MODULE TerminalClientProofs ------------------------
(***************************************************************************)
(* The terminal client follows the protocol, for any number of processes,  *)
(* any names, bounds and commands.  The processes take the place of the    *)
(* clients of SingleThreaded, so what is proved of a step of the server    *)
(* carries over, and what a process does to the sockets is added here.     *)
(***************************************************************************)
EXTENDS TerminalClient, SingleThreadedDeliveryProofs

MainStates == {"off", "connected", "joining", "prompt", "spinning", "quitting", "exited",
               "panicked"}

-----------------------------------------------------------------------------
(***************************************************************************)
(* What a process does to the server and the sockets: it dials, or leaves  *)
(* the loop alone; it adds at most one line to what it sent, and to a      *)
(* socket that is open; and it reads at most one message.                  *)
(***************************************************************************)
Speaks(c, line) ==
  /\ ~Closed(c) /\ line \in Line
  /\ Len(sent[c]) < MaxSends
  /\ sent' = [sent EXCEPT ![c] = Append(sent[c], line)]

Hears(c) == Unread(c) /\ seen' = [seen EXCEPT ![c] = seen[c] + 1]

ProcessFrame(c) ==
  /\ UNCHANGED <<handlerVars, taken, wire>>
  /\ Connect(c) \/ UNCHANGED loopVars
  /\ peer' = peer \/ \E p \in PeerStates : peer' = [peer EXCEPT ![c] = p]
  /\ UNCHANGED sent \/ \E line \in Line : Speaks(c, line)
  /\ UNCHANGED seen \/ Hears(c)

\* What it says, and when: a Join first, and nothing but commands after it.
Talk(c) ==
  \/ UNCHANGED sent
  \/ main[c] = "connected" /\ \E line \in Line : line.kind = "Join" /\ Speaks(c, line)
  \/ main[c] = "prompt" /\ \E line \in Line : line.kind # "Join" /\ Speaks(c, line)

\* Where main goes: it is past the Join once it has said it, or could not.
Moves(c) ==
  /\ \E where \in MainStates : main' = [main EXCEPT ![c] = where]
  /\ main'[c] \in {"off", "connected"} => main[c] \in {"off", "connected"} /\ UNCHANGED sent
  /\ main'[c] \in {"joining", "prompt"} =>
       \/ main[c] \in {"joining", "prompt"}
       \/ Closed(c)
       \/ \E line \in Line : Speaks(c, line)

LEMMA LineParts ==
  /\ \A n \in Names : [kind |-> "Join", name |-> n] \in Line
  /\ \A line \in Commands : line.kind # "Join"
  BY DEF Line, Addressed, Commands

\* A line that is sent, or that the kernel takes and nobody reads, or a panic.
LEMMA TransmitsEffect ==
  ASSUME TypeInv, main \in [Conns -> MainStates],
         NEW c \in Conns, NEW line \in Line, NEW where \in {"joining", "prompt"},
         Transmits(c, line, where)
  PROVE  /\ ProcessFrame(c)
         /\ \E to \in MainStates : main' = [main EXCEPT ![c] = to]
         /\ UNCHANGED sent \/ Speaks(c, line)
         /\ main'[c] \in {where, "panicked"}
         /\ main'[c] = "panicked" \/ Closed(c) \/ Speaks(c, line)
<1> USE DEF loopVars, handlerVars, socketVars, MainStates, PeerStates
<1> HIDE DEF Line
<1>1. CASE ~Closed(c) /\ ClientSends(c, line) /\ Goes(c, where)
             /\ UNCHANGED <<printer, loopVars, handlerVars>>
  <2>1. Speaks(c, line)  BY <1>1 DEF ClientSends, Speaks
  <2>2. /\ main' = [main EXCEPT ![c] = where] /\ main'[c] = where
        /\ UNCHANGED <<peer, taken, wire, seen>>
    BY <1>1 DEF ClientSends, Goes
  <2> QED  BY <1>1, <2>1, <2>2 DEF ProcessFrame
<1>2. CASE Closed(c) /\ Goes(c, where)
             /\ UNCHANGED <<printer, socketVars, loopVars, handlerVars>>
  BY <1>2 DEF Goes, ProcessFrame
<1>3. CASE Closed(c) /\ Dies(c, "panicked") /\ UNCHANGED <<sent, seen>> /\ Frame
  BY <1>3 DEF Dies, Goes, Frame, ProcessFrame
<1> QED  BY <1>1, <1>2, <1>3 DEF Transmits

LEMMA ProcessEffect ==
  ASSUME TypeInv, main \in [Conns -> MainStates], NEW c \in Conns, Process(c)
  PROVE  ProcessFrame(c) /\ Talk(c) /\ Moves(c)
<1> USE DEF loopVars, handlerVars, socketVars, MainStates, PeerStates
<1>1. CASE Launch(c)  BY <1>1 DEF Launch, Dial, Goes, ProcessFrame, Talk, Moves
<1>2. CASE Joins(c)
  <2>1. PICK n \in Names : Transmits(c, [kind |-> "Join", name |-> n], "joining")
    BY <1>2 DEF Joins
  <2> DEFINE line == [kind |-> "Join", name |-> n]
  <2>2. line \in Line /\ line.kind = "Join" /\ Transmits(c, line, "joining")
    BY <2>1, LineParts
  <2> HIDE DEF line
  <2> QED  BY <1>2, <2>2, TransmitsEffect DEF Joins, Talk, Moves
<1>3. CASE Command(c)
  <2>1. PICK line \in Commands \cap MaySend(c) : Transmits(c, line, "prompt")
    BY <1>3 DEF Command
  <2>2. line \in Line /\ line.kind # "Join"
    BY <2>1, LineParts, MaySendLines DEF TypeInv, TypeOK, SocketTypeOK
  <2> QED  BY <1>3, <2>1, <2>2, TransmitsEffect DEF Command, Talk, Moves
<1>4. CASE FirstMessage(c)
  <2>1. Hears(c) /\ UNCHANGED sent /\ Frame /\ main[c] = "joining"
    BY <1>4 DEF FirstMessage, Hears
  <2>2. \/ Goes(c, "prompt") /\ UNCHANGED peer
        \/ Dies(c, "exited") \/ Dies(c, "panicked")
    BY <1>4 DEF FirstMessage
  <2> QED  BY <2>1, <2>2 DEF Goes, Dies, Frame, ProcessFrame, Talk, Moves
<1>5. CASE LostBeforeWelcome(c) \/ EndOfInput(c) \/ Quits(c) \/ Exits(c)
  BY <1>5
  DEF LostBeforeWelcome, EndOfInput, Quits, Exits, Dies, Goes, Frame, ProcessFrame, Talk, Moves
<1>6. CASE Prints(c) \/ PrinterPanics(c)
  <2>1. main' = [main EXCEPT ![c] = main[c]] /\ UNCHANGED <<main, sent, peer>> /\ Frame
    BY <1>6 DEF Prints, PrinterPanics, Frame, clientState
  <2>2. UNCHANGED seen \/ Hears(c)  BY <1>6 DEF Prints, PrinterPanics, Hears
  <2> QED  BY <2>1, <2>2 DEF Frame, ProcessFrame, Talk, Moves
<1> QED  BY <1>1, <1>2, <1>3, <1>4, <1>5, <1>6 DEF Process

-----------------------------------------------------------------------------
(***************************************************************************)
(* What is known of the server holds with processes for its clients.       *)
(***************************************************************************)
ServerSteps == LoopAlone \/ \E c \in Conns : Server(c) \/ Handler(c) \/ JoinTimeout(c)

\* A step of the server, of a process, or none.
LEMMA ProcessSteps ==
  ASSUME [ProcessNext]_allVars
  PROVE  \/ ServerSteps /\ UNCHANGED main
         \/ \E c \in Conns : Process(c)
         \/ UNCHANGED vars /\ UNCHANGED main
  BY DEF ProcessNext, ServerSteps, allVars, clientState

LEMMA ServerStepsNext == ServerSteps => Next
  BY DEF ServerSteps, Next

LEMMA ProcessLoop ==
  ASSUME NEW c \in Conns, ProcessFrame(c)
  PROVE  [LoopNext]_loopVars
  BY DEF ProcessFrame, LoopNext

LEMMA ProcessTypes ==
  ASSUME TypeInv, NEW c \in Conns, ProcessFrame(c)
  PROVE  TypeInv'
<1> USE DEF handlerVars
<1>1. TypeOK /\ NamedOK /\ SocketTypeOK  BY DEF TypeInv, TypeOK
<1>2. LoopTypeOK'  BY <1>1, ProcessLoop, LoopTypeStep DEF TypeOK
<1>3. peer' \in [Conns -> PeerStates]  BY <1>1 DEF ProcessFrame, SocketTypeOK
<1>4. /\ sent' \in [Conns -> Seq(Line)]
      /\ \A d \in Conns : taken[d] <= Len(sent'[d]) /\ Len(sent'[d]) <= MaxSends
  <2>1. CASE UNCHANGED sent  BY <1>1, <2>1 DEF SocketTypeOK
  <2>2. ASSUME NEW line \in Line, Speaks(c, line)
        PROVE  /\ sent' \in [Conns -> Seq(Line)]
               /\ \A d \in Conns : taken[d] <= Len(sent'[d]) /\ Len(sent'[d]) <= MaxSends
    <3> HIDE DEF Line
    <3>1. sent \in [Conns -> Seq(Line)]  BY <1>1 DEF SocketTypeOK
    <3>2. /\ Append(sent[c], line) \in Seq(Line)
          /\ Len(Append(sent[c], line)) = Len(sent[c]) + 1
          /\ Len(sent[c]) \in Nat
      BY <3>1
    <3>3. /\ sent' \in [Conns -> Seq(Line)] /\ sent'[c] = Append(sent[c], line)
          /\ \A d \in Conns \ {c} : sent'[d] = sent[d]
      BY <2>2, <3>1, <3>2 DEF Speaks
    <3>4. /\ \A d \in Conns : taken[d] \in Nat /\ taken[d] <= Len(sent[d])
          /\ \A d \in Conns : Len(sent[d]) <= MaxSends
          /\ Len(sent[c]) < MaxSends
      BY <1>1, <2>2 DEF SocketTypeOK, Speaks
    <3>5. \A d \in Conns : taken[d] <= Len(sent'[d]) /\ Len(sent'[d]) <= MaxSends
      <4> TAKE d \in Conns
      <4>1. CASE d # c  BY <3>3, <3>4, <4>1
      <4>2. CASE d = c
        <5>1. Len(sent'[c]) = Len(sent[c]) + 1  BY <3>2, <3>3
        <5>2. /\ taken[c] \in Nat /\ taken[c] <= Len(sent[c])
              /\ Len(sent[c]) < MaxSends
          BY <3>4
        <5> QED  BY <3>2, <4>2, <5>1, <5>2, MaxSendsAssumption
      <4> QED  BY <4>1, <4>2
    <3> QED  BY <3>3, <3>5
  <2> QED  BY <2>1, <2>2 DEF ProcessFrame
<1>5. seen' \in [Conns -> Nat] /\ \A d \in Conns : seen'[d] <= Len(wire[d])
  <2>1. CASE UNCHANGED seen  BY <1>1, <2>1 DEF SocketTypeOK
  <2>2. CASE Hears(c)
    <3>1. /\ seen \in [Conns -> Nat] /\ \A d \in Conns : seen[d] <= Len(wire[d])
          /\ Len(wire[c]) \in Nat
      BY <1>1 DEF SocketTypeOK
    <3> QED  BY <2>2, <3>1 DEF Hears, Unread
  <2> QED  BY <2>1, <2>2 DEF ProcessFrame
<1>6. UNCHANGED <<pc, name, pending, chan, registry, taken, wire>>  BY DEF ProcessFrame
<1>7. SocketTypeOK'  BY <1>1, <1>3, <1>4, <1>5, <1>6 DEF SocketTypeOK
<1>8. NamedOK'  BY <1>1, <1>6 DEF NamedOK
<1> QED  BY <1>1, <1>2, <1>6, <1>7, <1>8 DEF TypeInv, TypeOK

LEMMA ProcessStory ==
  ASSUME TypeInv, BacklogConsistent, StoryInv, NEW c \in Conns, ProcessFrame(c)
  PROVE  StoryInv'
<1>1. LoopTypeOK /\ [LoopNext]_loopVars  BY ProcessLoop DEF TypeInv, TypeOK
<1>2. UNCHANGED <<pc, pending, wire, chan, registry>>  BY DEF ProcessFrame, handlerVars
<1> QED
  BY <1>1, <1>2, NeverFreshAgain
  DEF StoryInv, Telling, Fits, FirstDecides, Welcomed, OnlyChat

LEMMA InitHolds == ASSUME Init PROVE TypeInv /\ BacklogConsistent /\ StoryInv
<1>1. <<>> \in Seq(Conns) /\ <<>> \in Seq(Line) /\ <<>> \in Seq(Outgoing)
  OBVIOUS
<1>2. LoopTypeOK /\ BacklogConsistent
  <2>1. LoopInit  BY DEF Init
  <2>2. LoopTypeOK  BY <1>1, <2>1 DEF LoopInit, LoopTypeOK, ServerStates, TaskStates
  <2>3. BacklogConsistent  BY <2>1 DEF LoopInit, BacklogConsistent
  <2> QED  BY <2>2, <2>3
<1>3. SocketTypeOK
  BY <1>1, MaxSendsAssumption DEF Init, SocketInit, SocketTypeOK, PeerStates
<1>4. TypeInv  BY <1>1, <1>2, <1>3 DEF Init, TypeInv, TypeOK, NamedOK, PcStates
<1>5. StoryInv
  BY NoConnAssumption
  DEF Init, LoopInit, SocketInit, StoryInv, Telling, FirstDecides, OnlyChat
<1> QED  BY <1>2, <1>4, <1>5

ServerInv ==
  TypeInv /\ BacklogConsistent /\ StoryInv /\ main \in [Conns -> MainStates]

LEMMA ServerInvStep ==
  ASSUME ServerInv, [ProcessNext]_allVars
  PROVE  ServerInv' /\ [LoopNext]_loopVars
<1>1. /\ TypeInv /\ BacklogConsistent /\ StoryInv /\ main \in [Conns -> MainStates]
      /\ LoopTypeOK
  BY DEF ServerInv, TypeInv, TypeOK
<1>2. CASE (ServerSteps \/ UNCHANGED vars) /\ UNCHANGED main
  <2>1. [Next]_vars  BY <1>2, ServerStepsNext
  <2>2. [LoopNext]_loopVars  BY <2>1, LoopStep
  <2>3. TypeInv' /\ StoryInv'  BY <1>1, <2>1, TypeStep, StoryStep
  <2> QED  BY <1>1, <1>2, <2>2, <2>3, BacklogStep DEF ServerInv
<1>3. ASSUME NEW c \in Conns, Process(c)
      PROVE  ServerInv' /\ [LoopNext]_loopVars
  <2>1. ProcessFrame(c) /\ Moves(c)  BY <1>1, <1>3, ProcessEffect
  <2>2. [LoopNext]_loopVars /\ TypeInv' /\ StoryInv'
    BY <1>1, <2>1, ProcessLoop, ProcessTypes, ProcessStory
  <2>3. main' \in [Conns -> MainStates]  BY <1>1, <2>1 DEF Moves
  <2> QED  BY <1>1, <2>2, <2>3, BacklogStep DEF ServerInv
<1> QED  BY <1>2, <1>3, ProcessSteps

-----------------------------------------------------------------------------
(***************************************************************************)
(* The two ends in step.  A handler that serves, or answers anything but a *)
(* refusal, has taken a line, and one that waits for the Join has not; the *)
(* first line a process says is the Join, the only one; and at its prompt  *)
(* a process has said it, or found the socket closed, and then says        *)
(* nothing any more.  So the Join meets a handler that waits for it, and   *)
(* what follows meets one that serves.                                     *)
(***************************************************************************)
InStep(c) ==
  /\ pc[c] \in {"idle", "joining"} => taken[c] = 0
  /\ pc[c] = "serving" \/ (pc[c] = "writing" /\ pending[c].then # "close") => taken[c] >= 1

Polite(c) == \A i \in DOMAIN sent[c] : sent[c][i].kind = "Join" <=> i = 1

Spoken(c) ==
  /\ main[c] \in {"off", "connected"} => sent[c] = <<>>
  /\ main[c] \in {"joining", "prompt"} => sent[c] # <<>> \/ Closed(c)

Unfaulted(c) ==
  /\ \A i \in DOMAIN wire[c] : wire[c][i] # Unexpected
  /\ pc[c] = "writing" => pending[c].msg # Unexpected

TalkInv == \A c \in Conns : InStep(c) /\ Polite(c) /\ Spoken(c) /\ Unfaulted(c)

\* What is closed stays closed.
LEMMA StaysClosed ==
  ASSUME LoopTypeOK, BacklogConsistent, [LoopNext]_loopVars, NEW d \in Conns, Closed(d)
  PROVE  Closed(d)'
<1> USE DEF LoopTypeOK, Closed
<1>1. ASSUME NEW c \in Conns, Accepting(c) PROVE task[c] = "queued"
  BY <1>1 DEF Accepting, BacklogConsistent
<1>2. CASE AcceptFails \/ SendSignal \/ UNCHANGED loopVars
  BY <1>2 DEF AcceptFails, SendSignal, loopVars
<1>3. CASE Break \/ DropFuture  BY <1>3 DEF Break, DropFuture, EndWith
<1>4. ASSUME NEW c \in Conns, Connect(c) \/ Finish(c) \/ Reap(c) \/ Cancel(c)
      PROVE  Closed(d)'
  BY <1>4 DEF Connect, Finish, Reap, Cancel
<1>5. ASSUME NEW c \in Conns, Spawn(c) \/ RejectSuspends(c) PROVE Closed(d)'
  BY <1>1, <1>5 DEF Spawn, RejectSuspends
<1>6. ASSUME NEW c \in Conns, RejectSent(c) \/ RejectFails(c) PROVE Closed(d)'
  BY <1>6 DEF RejectSent, RejectFails, EndWith
<1> QED  BY <1>2, <1>3, <1>4, <1>5, <1>6 DEF LoopNext

\* A connection the step does not touch.
LEMMA SteadyTalk ==
  ASSUME NEW d \in Conns, InStep(d), Unfaulted(d),
         pc'[d] = pc[d], pending'[d] = pending[d], wire'[d] = wire[d], taken'[d] = taken[d]
  PROVE  InStep(d)' /\ Unfaulted(d)'
  BY DEF InStep, Unfaulted

\* A write that is not the message in question.
LEMMA LandsTalk ==
  ASSUME TypeOK, NEW c \in Conns, NEW msg \in Outgoing, msg # Unexpected,
         WriteLands(c, msg), \A i \in DOMAIN wire[c] : wire[c][i] # Unexpected
  PROVE  \A i \in DOMAIN wire'[c] : wire'[c][i] # Unexpected
<1> HIDE DEF Outgoing
<1>1. wire[c] \in Seq(Outgoing) /\ wire'[c] = Append(wire[c], msg)  BY WireEffect
<1>2. /\ Len(wire[c]) \in Nat /\ Len(wire'[c]) = Len(wire[c]) + 1
      /\ wire'[c] \in Seq(Outgoing)
      /\ \A i \in 1..Len(wire[c]) : wire'[c][i] = wire[c][i]
      /\ wire'[c][Len(wire[c]) + 1] = msg
  BY <1>1, AppendedAt
<1>3. DOMAIN wire[c] = 1..Len(wire[c]) /\ DOMAIN wire'[c] = 1..(Len(wire[c]) + 1)
  BY <1>1, <1>2
<1> SUFFICES ASSUME NEW i \in 1..(Len(wire[c]) + 1) PROVE wire'[c][i] # Unexpected
  BY <1>3
<1>4. i \in 1..Len(wire[c]) \/ i = Len(wire[c]) + 1  BY <1>2
<1> QED  BY <1>2, <1>3, <1>4

LEMMA SendsTalk ==
  ASSUME TypeOK, NEW c \in Conns, NEW msg \in Outgoing, NEW then \in Continuations,
         Sends(c, msg, then), msg # Unexpected, Unfaulted(c),
         then # "close" => taken'[c] >= 1
  PROVE  /\ InStep(c)' /\ Unfaulted(c)'
         /\ \A d \in Conns \ {c} :
              pc'[d] = pc[d] /\ pending'[d] = pending[d] /\ wire'[d] = wire[d]
<1> HIDE DEF Outgoing
<1>1. OthersStay(c) /\ SendOutcome(c, msg, then)  BY SendsEffect
<1>2. \A i \in DOMAIN wire[c] : wire[c][i] # Unexpected  BY DEF Unfaulted
<1>3. CASE /\ pc'[c] = "writing" /\ pending'[c] = [msg |-> msg, then |-> then]
           /\ UNCHANGED <<wire, registry>>
  BY <1>1, <1>2, <1>3 DEF InStep, Unfaulted, OthersStay
<1>4. CASE WriteLands(c, msg) /\ pc'[c] \in {"serving", "ended"}
             /\ (pc'[c] = "serving" => then # "close")
  <2>1. \A i \in DOMAIN wire'[c] : wire'[c][i] # Unexpected  BY <1>2, <1>4, LandsTalk
  <2>2. \A d \in Conns \ {c} : wire'[d] = wire[d]  BY <1>4, WireEffect
  <2> QED  BY <1>1, <1>4, <2>1, <2>2 DEF InStep, Unfaulted, OthersStay
<1>5. CASE WriteFails(c) /\ pc'[c] = "ended"
  BY <1>1, <1>2, <1>5 DEF WriteFails, InStep, Unfaulted, OthersStay
<1> QED  BY <1>1, <1>3, <1>4, <1>5 DEF SendOutcome

\* A poll in which c is written nothing.
LEMMA SilentTalk ==
  ASSUME NEW c \in Conns, OthersStay(c), UNCHANGED wire, Unfaulted(c),
         pc'[c] = "ended" \/ (pc'[c] = "serving" /\ taken'[c] >= 1)
  PROVE  /\ InStep(c)' /\ Unfaulted(c)'
         /\ \A d \in Conns \ {c} :
              pc'[d] = pc[d] /\ pending'[d] = pending[d] /\ wire'[d] = wire[d]
  BY DEF OthersStay, InStep, Unfaulted

\* A handler that gets what a client says that follows the protocol.
LEMMA PollsTalk ==
  ASSUME ServerInv, TalkInv, NEW c \in Conns, Polls(c), PollFrame(c)
  PROVE  \A d \in Conns : InStep(d)' /\ Unfaulted(d)'
<1>1. /\ TypeInv /\ TypeOK /\ OnlyChat(c)
      /\ InStep(c) /\ Polite(c) /\ Unfaulted(c)
  BY DEF ServerInv, TypeInv, StoryInv, TalkInv
<1>2. /\ taken[c] \in Nat
      /\ \A d \in Conns \ {c} : taken'[d] = taken[d]
      /\ taken'[c] = taken[c] \/ (Take(c) /\ taken'[c] = taken[c] + 1)
      /\ Take(c) => taken'[c] = taken[c] + 1
  BY <1>1, TakeEffect DEF PollFrame
<1>3. Take(c) => (NextLine(c).kind = "Join" <=> taken[c] = 0)
  <2>1. sent[c] \in Seq(Line)  BY <1>1 DEF TypeOK, SocketTypeOK
  <2>2. DOMAIN sent[c] = 1..Len(sent[c]) /\ Len(sent[c]) \in Nat
    <3> HIDE DEF Line
    <3> QED  BY <2>1
  <2>3. Take(c) => taken[c] + 1 \in DOMAIN sent[c]
    BY <1>2, <2>2 DEF Take, HasLine
  <2> QED  BY <1>1, <1>2, <2>3 DEF Polite, NextLine
<1>4. pc[c] = "serving" => taken[c] >= 1 /\ taken'[c] >= 1
  BY <1>1, <1>2 DEF InStep
<1>5. ASSUME /\ InStep(c)' /\ Unfaulted(c)'
             /\ \A d \in Conns \ {c} :
                  pc'[d] = pc[d] /\ pending'[d] = pending[d] /\ wire'[d] = wire[d]
      PROVE  \A d \in Conns : InStep(d)' /\ Unfaulted(d)'
  <2>1. ASSUME NEW d \in Conns \ {c} PROVE InStep(d)' /\ Unfaulted(d)'
    BY <1>2, <1>5, <2>1, SteadyTalk DEF TalkInv
  <2> QED  BY <1>5, <2>1
<1>6. ASSUME NEW msg \in Outgoing, NEW then \in Continuations, Sends(c, msg, then),
             msg # Unexpected, then # "close" => taken'[c] >= 1
      PROVE  \A d \in Conns : InStep(d)' /\ Unfaulted(d)'
  <2> HIDE DEF Outgoing
  <2> QED  BY <1>1, <1>5, <1>6, SendsTalk
<1>7. ASSUME OthersStay(c), UNCHANGED wire,
             pc'[c] = "ended" \/ (pc'[c] = "serving" /\ taken'[c] >= 1)
      PROVE  \A d \in Conns : InStep(d)' /\ Unfaulted(d)'
  BY <1>1, <1>5, <1>7, SilentTalk
<1>8. Leaves(c) => OthersStay(c) /\ pc'[c] = "ended"  BY <1>1, EndsTypes DEF Leaves
<1>9. Unexpected.kind = "Error"  BY DEF Unexpected, Error
<1>10. CASE JoinFreeName(c)
  <2>1. Sends(c, Welcome, "welcome") /\ Take(c)  BY <1>10 DEF JoinFreeName
  <2>2. Welcome # Unexpected /\ taken'[c] >= 1  BY <1>2, <1>9, <2>1 DEF Welcome
  <2> QED  BY <1>6, <2>1, <2>2, OwnMessages DEF Continuations
<1>11. CASE Refuses(c)
  <2>1. PICK t \in ErrorTexts :
          /\ Sends(c, Error(t), "close")
          /\ Error(t) = Unexpected => Take(c) /\ NextLine(c).kind # "Join"
    BY <1>11 DEF Refuses
  <2>2. taken[c] = 0  BY <1>1, <1>11 DEF Refuses, InStep
  <2>3. Error(t) # Unexpected  BY <1>3, <2>1, <2>2
  <2> QED  BY <1>6, <2>1, <2>3, OwnMessages DEF Continuations
<1>12. CASE JoinUnreadable(c)  BY <1>1, <1>7, <1>12, EndsTypes DEF JoinUnreadable
<1>13. CASE Answers(c)
  <2>1. PICK msg \in Outgoing, then \in {"reply", "kick"} :
          /\ Sends(c, msg, then)
          /\ then = "kick" => NextLine(c).kind = "Join"
          /\ then = "reply" => msg # Unexpected
    BY <1>13 DEF Answers
  <2>2. Take(c) /\ taken[c] >= 1  BY <1>4, <1>13 DEF Answers
  <2>3. NextLine(c).kind # "Join"  BY <1>2, <1>3, <2>2
  <2>4. msg # Unexpected  BY <2>1, <2>3
  <2> HIDE DEF Outgoing
  <2> QED  BY <1>4, <1>6, <1>13, <2>1, <2>4 DEF Answers, Continuations
<1>14. CASE Posts(c)  BY <1>1, <1>4, <1>7, <1>14, ServesTypes DEF Posts
<1>15. CASE PostFails(c)  BY <1>7, <1>8, <1>15 DEF PostFails
<1>16. CASE GivesUp(c)  BY <1>7, <1>8, <1>16 DEF GivesUp
<1>17. CASE PanicOnRead(c)  BY <1>1, <1>7, <1>17, EndsTypes DEF PanicOnRead
<1>18. CASE Forward(c)
  <2>1. Sends(c, Head(chan[c]), "forward") /\ pc[c] = "serving" /\ chan[c] # <<>>
    BY <1>18 DEF Forward, Serving
  <2>2. Head(chan[c]) \in Outgoing /\ Head(chan[c]).kind = "Message"
    <3>1. chan[c] \in Seq(Outgoing)  BY <1>1 DEF TypeOK
    <3>2. Head(chan[c]) = chan[c][1] /\ 1 \in DOMAIN chan[c]
      <4> HIDE DEF Outgoing
      <4> QED  BY <2>1, <3>1
    <3> QED  BY <1>1, <2>1, <3>2, ChannelHead DEF OnlyChat
  <2>3. Head(chan[c]) # Unexpected  BY <1>9, <2>2
  <2> HIDE DEF Outgoing
  <2> QED  BY <1>4, <1>6, <2>1, <2>2, <2>3 DEF Continuations
<1>19. CASE Resume(c)
  <2>1. /\ pc[c] = "writing" /\ Sends(c, pending[c].msg, pending[c].then)
        /\ pending[c].msg \in Outgoing /\ pending[c].then \in Continuations
    BY <1>1, <1>19, ResumeSends
  <2>2. pending[c].msg # Unexpected  BY <1>1, <2>1 DEF Unfaulted
  <2>3. pending[c].then # "close" => taken'[c] >= 1  BY <1>1, <1>2, <2>1 DEF InStep
  <2> HIDE DEF Outgoing, Continuations
  <2> QED  BY <1>6, <2>1, <2>2, <2>3
<1> QED
  BY <1>10, <1>11, <1>12, <1>13, <1>14, <1>15, <1>16, <1>17, <1>18, <1>19 DEF Polls

\* run_server gives a connection a handler before it has taken a line of it,
\* and writes "Server is full" and nothing else.
LEMMA ServerTalk ==
  ASSUME ServerInv, TalkInv, ServerSteps
  PROVE  \A d \in Conns : InStep(d)' /\ Unfaulted(d)'
<1> USE DEF handlerVars, socketVars, clientVars
<1>1. TypeInv /\ TypeOK /\ LoopTypeOK  BY DEF ServerInv, TypeInv, TypeOK
<1>2. \A d \in Conns : InStep(d) /\ Unfaulted(d)  BY DEF TalkInv
<1>3. ASSUME UNCHANGED <<pc, pending, wire, taken>>
      PROVE  \A d \in Conns : InStep(d)' /\ Unfaulted(d)'
  BY <1>2, <1>3, SteadyTalk
<1>4. CASE LoopAlone  BY <1>3, <1>4 DEF LoopAlone
<1>5. ASSUME NEW c \in Conns, Accepting(c) PROVE task[c] \in Unanswered
  BY <1>1, <1>5 DEF Accepting, LoopTypeOK, BacklogConsistent, ServerInv, Unanswered
<1>6. ASSUME NEW c \in Conns, SpawnHandler(c)
      PROVE  \A d \in Conns : InStep(d)' /\ Unfaulted(d)'
  <2>1. pc[c] = "idle"  BY <1>5, <1>6 DEF SpawnHandler, Spawn, ServerInv, StoryInv
  <2>2. /\ pc'[c] = "joining" /\ UNCHANGED <<pending, wire, taken>>
        /\ \A d \in Conns \ {c} : pc'[d] = pc[d]
    BY <1>1, <1>6 DEF SpawnHandler, TypeOK
  <2>3. InStep(c)' /\ Unfaulted(c)'  BY <1>2, <2>1, <2>2 DEF InStep, Unfaulted
  <2> QED  BY <1>2, <2>2, <2>3, SteadyTalk
<1>7. ASSUME NEW c \in Conns, TurnAwayNow(c)
      PROVE  \A d \in Conns : InStep(d)' /\ Unfaulted(d)'
  <2> DEFINE msg == Error("Server is full")
  <2>1. WriteLands(c, msg) /\ UNCHANGED <<pc, pending, taken>>  BY <1>7 DEF TurnAwayNow
  <2>2. msg \in Outgoing /\ msg # Unexpected
    BY OwnMessages DEF ErrorTexts, Error, Unexpected
  <2> HIDE DEF msg
  <2>3. /\ \A i \in DOMAIN wire'[c] : wire'[c][i] # Unexpected
        /\ \A d \in Conns \ {c} : wire'[d] = wire[d]
    BY <1>1, <1>2, <2>1, <2>2, LandsTalk, WireEffect DEF Unfaulted
  <2>4. InStep(c)' /\ Unfaulted(c)'  BY <1>2, <2>1, <2>3 DEF InStep, Unfaulted
  <2> QED  BY <1>2, <2>1, <2>3, <2>4, SteadyTalk
<1>8. ASSUME NEW c \in Conns, TurnAwayFails(c) \/ TurnAwayLater(c) \/ ReapHandler(c)
      PROVE  \A d \in Conns : InStep(d)' /\ Unfaulted(d)'
  BY <1>3, <1>8 DEF TurnAwayFails, TurnAwayLater, ReapHandler, WriteFails
<1>9. ASSUME NEW c \in Conns, CancelHandler(c)
      PROVE  \A d \in Conns : InStep(d)' /\ Unfaulted(d)'
  <2>1. /\ pc'[c] = "ended" /\ OthersStay(c) /\ UNCHANGED <<wire, taken>>
    BY <1>1, <1>9 DEF CancelHandler, OthersStay, TypeOK
  <2> QED  BY <1>2, <2>1, SteadyTalk, SilentTalk DEF OthersStay
<1>10. ASSUME NEW c \in Conns, Handler(c) \/ JoinTimeout(c)
       PROVE  \A d \in Conns : InStep(d)' /\ Unfaulted(d)'
  BY <1>1, <1>10, HandlerPolls, PollsTalk
<1> QED  BY <1>4, <1>6, <1>7, <1>8, <1>9, <1>10 DEF ServerSteps, Server

\* The server does not touch what was said to it.
LEMMA ServerHearsOnly == ASSUME TypeInv, ServerSteps PROVE UNCHANGED sent
<1> USE DEF socketVars, clientVars
<1>1. ASSUME NEW c \in Conns, Handler(c) \/ JoinTimeout(c) PROVE UNCHANGED sent
  BY <1>1, HandlerPolls DEF PollFrame
<1>2. ASSUME NEW c \in Conns, Server(c) PROVE UNCHANGED sent
  BY <1>2
  DEF Server, SpawnHandler, TurnAwayNow, TurnAwayFails, TurnAwayLater, ReapHandler,
      CancelHandler
<1> QED  BY <1>1, <1>2 DEF ServerSteps, LoopAlone

\* A line is added to what c said.
LEMMA SpeaksEffect ==
  ASSUME TypeOK, NEW c \in Conns, NEW line \in Line, Speaks(c, line)
  PROVE  /\ \A d \in Conns \ {c} : sent'[d] = sent[d]
         /\ sent'[c] # <<>> /\ Len(sent[c]) \in Nat
         /\ DOMAIN sent[c] = 1..Len(sent[c])
         /\ DOMAIN sent'[c] = 1..(Len(sent[c]) + 1)
         /\ \A i \in 1..Len(sent[c]) : sent'[c][i] = sent[c][i]
         /\ sent'[c][Len(sent[c]) + 1] = line
         /\ sent[c] = <<>> <=> Len(sent[c]) = 0
<1> HIDE DEF Line
<1>1. sent \in [Conns -> Seq(Line)]  BY DEF TypeOK, SocketTypeOK
<1>2. /\ sent'[c] = Append(sent[c], line) /\ sent[c] \in Seq(Line)
      /\ \A d \in Conns \ {c} : sent'[d] = sent[d]
  BY <1>1 DEF Speaks
<1>3. /\ sent'[c] \in Seq(Line) /\ sent'[c] # <<>>
      /\ Len(sent[c]) \in Nat /\ Len(sent'[c]) = Len(sent[c]) + 1
      /\ \A i \in 1..Len(sent[c]) : sent'[c][i] = sent[c][i]
      /\ sent'[c][Len(sent[c]) + 1] = line
      /\ sent[c] = <<>> <=> Len(sent[c]) = 0
  BY <1>2, AppendedAt
<1>4. DOMAIN sent[c] = 1..Len(sent[c]) /\ DOMAIN sent'[c] = 1..(Len(sent[c]) + 1)
  BY <1>2, <1>3
<1> QED  BY <1>2, <1>3, <1>4

\* A process that speaks keeps to the order: its Join is its first line, and
\* nothing else is.
LEMMA ProcessTalk ==
  ASSUME ServerInv, TalkInv, NEW c \in Conns, Process(c), [LoopNext]_loopVars
  PROVE  TalkInv'
<1>1. /\ TypeInv /\ TypeOK /\ LoopTypeOK /\ BacklogConsistent
      /\ main \in [Conns -> MainStates]
      /\ \A d \in Conns : InStep(d) /\ Polite(d) /\ Spoken(d) /\ Unfaulted(d)
  BY DEF ServerInv, TypeInv, TypeOK, TalkInv
<1>2. ProcessFrame(c) /\ Talk(c) /\ Moves(c)  BY <1>1, ProcessEffect
<1>3. \A d \in Conns : InStep(d)' /\ Unfaulted(d)'
  BY <1>1, <1>2, SteadyTalk DEF ProcessFrame, handlerVars
<1>4. /\ \A d \in Conns : Closed(d) => Closed(d)'
      /\ \A d \in Conns \ {c} : main'[d] = main[d]
  BY <1>1, <1>2, StaysClosed DEF Moves
<1>5. CASE UNCHANGED sent /\ ~\E line \in Line : Speaks(c, line)
  <2>1. \A d \in Conns : Polite(d)'  BY <1>1, <1>5 DEF Polite
  <2>2. Spoken(c)'  BY <1>1, <1>2, <1>4, <1>5 DEF Spoken, Moves
  <2>3. \A d \in Conns \ {c} : Spoken(d)'  BY <1>1, <1>4, <1>5 DEF Spoken
  <2> QED  BY <1>3, <2>1, <2>2, <2>3 DEF TalkInv
<1>6. ASSUME NEW line \in Line, Speaks(c, line)
      PROVE  TalkInv'
  <2>1. /\ \A d \in Conns \ {c} : sent'[d] = sent[d]
        /\ sent'[c] # <<>> /\ Len(sent[c]) \in Nat
        /\ DOMAIN sent[c] = 1..Len(sent[c])
        /\ DOMAIN sent'[c] = 1..(Len(sent[c]) + 1)
        /\ \A i \in 1..Len(sent[c]) : sent'[c][i] = sent[c][i]
        /\ sent'[c][Len(sent[c]) + 1] = line
        /\ sent[c] = <<>> <=> Len(sent[c]) = 0
    BY <1>1, <1>6, SpeaksEffect
  <2>2. sent' # sent
    <3>1. sent'[c] # sent[c]  BY <2>1
    <3> QED  BY <3>1
  <2>3. line.kind = "Join" <=> Len(sent[c]) = 0
    <3>1. CASE main[c] = "connected"
      <4>1. sent[c] = <<>>  BY <1>1, <3>1 DEF Spoken
      <4>2. PICK said \in Line : said.kind = "Join" /\ Speaks(c, said)
        BY <1>2, <2>2, <3>1 DEF Talk
      <4>3. sent'[c][Len(sent[c]) + 1] = said  BY <1>1, <4>2, SpeaksEffect
      <4> QED  BY <2>1, <4>1, <4>2, <4>3
    <3>2. CASE main[c] = "prompt"
      <4>1. sent[c] # <<>>  BY <1>1, <1>6, <3>2 DEF Spoken, Speaks
      <4>2. PICK said \in Line : said.kind # "Join" /\ Speaks(c, said)
        BY <1>2, <2>2, <3>2 DEF Talk
      <4>3. sent'[c][Len(sent[c]) + 1] = said  BY <1>1, <4>2, SpeaksEffect
      <4> QED  BY <2>1, <4>1, <4>2, <4>3
    <3> QED  BY <1>2, <2>2, <3>1, <3>2 DEF Talk
  <2>4. Polite(c)'
    <3> SUFFICES ASSUME NEW i \in 1..(Len(sent[c]) + 1)
                 PROVE  sent'[c][i].kind = "Join" <=> i = 1
      BY <2>1 DEF Polite
    <3>1. CASE i = Len(sent[c]) + 1  BY <2>1, <2>3, <3>1
    <3>2. CASE i \in 1..Len(sent[c])  BY <1>1, <2>1, <3>2 DEF Polite
    <3> QED  BY <2>1, <3>1, <3>2
  <2>5. Spoken(c)'  BY <1>2, <2>1, <2>2 DEF Spoken, Moves
  <2>6. \A d \in Conns \ {c} : Polite(d)' /\ Spoken(d)'
    BY <1>1, <1>4, <2>1 DEF Polite, Spoken
  <2> QED  BY <1>3, <2>4, <2>5, <2>6 DEF TalkInv
<1> QED  BY <1>2, <1>5, <1>6 DEF ProcessFrame

LEMMA TalkStep ==
  ASSUME ServerInv, TalkInv, [ProcessNext]_allVars
  PROVE  TalkInv'
<1>1. [LoopNext]_loopVars /\ TypeInv /\ LoopTypeOK /\ BacklogConsistent
  BY ServerInvStep DEF ServerInv, TypeInv, TypeOK
<1>2. CASE (ServerSteps \/ UNCHANGED vars) /\ UNCHANGED main
  <2>1. UNCHANGED sent  BY <1>1, <1>2, ServerHearsOnly DEF vars, socketVars
  <2>2. \A d \in Conns : Polite(d)' /\ Spoken(d)'
    BY <1>1, <1>2, <2>1, StaysClosed DEF TalkInv, Polite, Spoken
  <2>3. \A d \in Conns : InStep(d)' /\ Unfaulted(d)'
    <3>1. CASE ServerSteps  BY <3>1, ServerTalk
    <3>2. CASE UNCHANGED vars
      BY <3>2, SteadyTalk DEF TalkInv, vars, socketVars, handlerVars
    <3> QED  BY <1>2, <3>1, <3>2
  <2> QED  BY <2>2, <2>3 DEF TalkInv
<1> QED  BY <1>1, <1>2, ProcessSteps, ProcessTalk

\* Whatever the users type, the server never answers a terminal client that
\* its message was unexpected: bin/client.rs and handle_client keep in step.
THEOREM ClientsFollowProtocol == ProcessSpec => []FollowsProtocol
<1>1. ProcessInit => ServerInv /\ TalkInv
  <2> SUFFICES ASSUME ProcessInit PROVE ServerInv /\ TalkInv
    OBVIOUS
  <2>1. Init /\ main = [c \in Conns |-> "off"]  BY DEF ProcessInit
  <2>2. TypeInv /\ BacklogConsistent /\ StoryInv  BY <2>1, InitHolds
  <2>3. TalkInv
    BY <2>1
    DEF Init, LoopInit, SocketInit, TalkInv, InStep, Polite, Spoken, Unfaulted
  <2> QED  BY <2>1, <2>2, <2>3 DEF ServerInv, MainStates
<1>2. ServerInv /\ TalkInv /\ [ProcessNext]_allVars => ServerInv' /\ TalkInv'
  BY ServerInvStep, TalkStep
<1>3. TalkInv => FollowsProtocol  BY DEF TalkInv, Unfaulted, FollowsProtocol, Unexpected
<1>4. ProcessSpec => ProcessInit /\ [][ProcessNext]_allVars  BY PTL DEF ProcessSpec
<1> QED  BY <1>1, <1>2, <1>3, <1>4, PTL
=============================================================================

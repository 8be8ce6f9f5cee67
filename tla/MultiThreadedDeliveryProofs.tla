-------------------- MODULE MultiThreadedDeliveryProofs --------------------
(***************************************************************************)
(* More about the multi-threaded server: the order of chat messages, why   *)
(* clients are dropped, replies to requests, that nobody waits for         *)
(* nothing, and that all of it implements a Forum.  Any handler may write  *)
(* to any socket of the map, so the order of a sender's messages at a      *)
(* recipient is that of the sender's steps.                                *)
(***************************************************************************)
EXTENDS MultiThreadedProofs

\* m is a chat message that c sent.
From(m, c) == m.kind = "Message" /\ m.message[1] = c

\* What d was written of c's messages comes from lines of c before the k-th.
Before(d, c, k) ==
  \A i \in DOMAIN wire[d] : From(wire[d][i], c) => wire[d][i].message[2] < k

Ordered(d) ==
  \A i, j \in DOMAIN wire[d] :
    i < j /\ wire[d][i].kind = "Message" /\ From(wire[d][j], wire[d][i].message[1])
      => wire[d][i].message[2] < wire[d][j].message[2]

\* While c's handler reacts to a line, nobody has the message made of it;
\* while it writes the message, those on its list do not have it yet.
InTurn(c) ==
  /\ \A d \in Conns : Before(d, c, taken[c] + 1)
  /\ pc[c] = "reacting" => \A d \in Conns : Before(d, c, taken[c])
  /\ pc[c] \in {"locking", "writing"} /\ job[c].msg.kind = "Message" =>
       /\ job[c].msg.message = <<c, taken[c]>>
       /\ job[c].at \notin job[c].todo
       /\ \A d \in {job[c].at} \cup job[c].todo : Before(d, c, taken[c])

FifoInv == \A c \in Conns : InTurn(c) /\ Ordered(c)

-----------------------------------------------------------------------------
\* A chat message is numbered.
LEMMA Numbered ==
  ASSUME NEW m \in Outgoing, m.kind = "Message"
  PROVE  m.message[1] \in Conns /\ m.message[2] \in Nat
<1>1. m \in [kind : {"Message"}, from : Names, message : Text]
  BY DEF Outgoing, ServerToClientMsg, Welcome, Pong
<1>2. m.message \in Text  BY <1>1
<1> QED  BY <1>2, MaxSendsAssumption DEF Text

\* What d was written is made of messages.
LEMMA WireElements ==
  ASSUME TypeOK, NEW d \in Conns, NEW i \in DOMAIN wire[d]
  PROVE  wire[d][i] \in Outgoing /\ i \in Nat
<1>1. wire[d] \in Seq(Outgoing)  BY DEF TypeOK, SocketTypeOK
<1> HIDE DEF Outgoing
<1> QED  BY <1>1

LEMMA BeforeLater ==
  ASSUME TypeOK, NEW c \in Conns, NEW d \in Conns, NEW k \in Nat, Before(d, c, k)
  PROVE  Before(d, c, k + 1)
<1> SUFFICES ASSUME NEW i \in DOMAIN wire[d], From(wire[d][i], c)
             PROVE  wire[d][i].message[2] < k + 1
  BY DEF Before
<1>1. wire[d][i].message[2] \in Nat  BY WireElements, Numbered DEF From
<1> QED  BY <1>1 DEF Before

\* A message is written: what was there stays where it was.
LEMMA WireLonger ==
  ASSUME TypeOK, NEW at \in Conns, NEW msg \in Outgoing, WriteLands(at, msg)
  PROVE  /\ \A d \in Conns \ {at} : wire'[d] = wire[d]
         /\ \A i \in DOMAIN wire'[at] :
              \/ i \in DOMAIN wire[at] /\ wire'[at][i] = wire[at][i]
              \/ wire'[at][i] = msg /\ \A j \in DOMAIN wire'[at] : ~(i < j)
<1> HIDE DEF Outgoing
<1>1. /\ \A d \in Conns \ {at} : wire'[d] = wire[d]
      /\ wire'[at] = Append(wire[at], msg)
  BY WireEffect
<1>2. wire[at] \in Seq(Outgoing)  BY DEF TypeOK, SocketTypeOK
<1>3. /\ Len(wire[at]) \in Nat
      /\ DOMAIN wire[at] = 1..Len(wire[at])
      /\ DOMAIN wire'[at] = 1..(Len(wire[at]) + 1)
      /\ \A i \in 1..Len(wire[at]) : wire'[at][i] = wire[at][i]
      /\ wire'[at][Len(wire[at]) + 1] = msg
  BY <1>1, <1>2
<1> QED  BY <1>1, <1>3

\* If what is written comes after all the recipient has of its sender, the
\* order is kept; and nothing changes for other senders.
LEMMA LandsInOrder ==
  ASSUME TypeOK, NEW at \in Conns, NEW msg \in Outgoing, WriteLands(at, msg),
         \A d \in Conns : Ordered(d),
         \A e \in Conns : From(msg, e) => Before(at, e, msg.message[2])
  PROVE  /\ \A d \in Conns : Ordered(d)'
         /\ \A d, e \in Conns : \A k \in Nat :
              /\ Before(d, e, k)
              /\ d = at /\ From(msg, e) => msg.message[2] < k
              => Before(d, e, k)'
<1>1. /\ \A d \in Conns \ {at} : wire'[d] = wire[d]
      /\ \A i \in DOMAIN wire'[at] :
           \/ i \in DOMAIN wire[at] /\ wire'[at][i] = wire[at][i]
           \/ wire'[at][i] = msg /\ \A j \in DOMAIN wire'[at] : ~(i < j)
  BY WireLonger
<1>2. Ordered(at)'
  <2> SUFFICES ASSUME NEW i \in DOMAIN wire'[at], NEW j \in DOMAIN wire'[at], i < j,
                      wire'[at][i].kind = "Message",
                      From(wire'[at][j], wire'[at][i].message[1])
               PROVE  wire'[at][i].message[2] < wire'[at][j].message[2]
    BY DEF Ordered
  <2>1. i \in DOMAIN wire[at] /\ wire'[at][i] = wire[at][i]  BY <1>1
  <2>2. CASE j \in DOMAIN wire[at] /\ wire'[at][j] = wire[at][j]
    BY <2>1, <2>2 DEF Ordered
  <2>3. CASE wire'[at][j] = msg
    <3>1. wire[at][i].message[1] \in Conns  BY <2>1, WireElements, Numbered
    <3>2. PICK e \in Conns : e = wire[at][i].message[1]  BY <3>1
    <3>3. Before(at, e, msg.message[2])  BY <2>1, <2>3, <3>2
    <3> QED  BY <2>1, <2>3, <3>2, <3>3 DEF Before, From
  <2> QED  BY <1>1, <2>2, <2>3
<1>3. \A d \in Conns \ {at} : Ordered(d)'  BY <1>1 DEF Ordered
<1>4. ASSUME NEW d \in Conns, NEW e \in Conns, NEW k \in Nat, Before(d, e, k),
             d = at /\ From(msg, e) => msg.message[2] < k
      PROVE  Before(d, e, k)'
  BY <1>1, <1>4 DEF Before
<1> QED  BY <1>2, <1>3, <1>4

-----------------------------------------------------------------------------
\* A step of the handler of c in which nothing is written.
LEMMA QuietFifo ==
  ASSUME TypeInv, FifoInv, NEW c \in Conns, OthersPut(c), UNCHANGED wire,
         UNCHANGED taken \/ Take(c),
         pc'[c] = "reacting" => Take(c),
         pc'[c] \in {"locking", "writing"} /\ job'[c].msg.kind = "Message" =>
           /\ UNCHANGED taken
           /\ job'[c].msg.message = <<c, taken[c]>>
           /\ job'[c].at \notin job'[c].todo
           /\ \A d \in {job'[c].at} \cup job'[c].todo : Before(d, c, taken[c])
  PROVE  FifoInv'
<1>1. TypeOK /\ \A d \in Conns : taken[d] \in Nat  BY DEF TypeInv, TypeOK, SocketTypeOK
<1>2. \A d \in Conns : Ordered(d)'  BY DEF FifoInv, Ordered
<1>3. \A d, e, k : Before(d, e, k) => \A n : n = k => Before(d, e, n)'
  BY DEF Before
<1>4. \A e \in Conns \ {c} : taken'[e] = taken[e]  BY <1>1, TakeEffect
<1>5. ASSUME NEW e \in Conns \ {c} PROVE InTurn(e)'
  <2>1. InTurn(e) /\ taken'[e] = taken[e] /\ pc'[e] = pc[e] /\ job'[e] = job[e]
    BY <1>4 DEF FifoInv, OthersPut
  <2> QED  BY <2>1, <1>3 DEF InTurn
<1>6. \A d \in Conns : Before(d, c, taken[c] + 1)  BY DEF FifoInv, InTurn
<1>7. CASE UNCHANGED taken
  <2>1. InTurn(c)'
    BY <1>1, <1>3, <1>6, <1>7, TakeEffect DEF InTurn
  <2> QED  BY <1>2, <1>5, <2>1 DEF FifoInv
<1>8. CASE Take(c)
  <2>1. taken'[c] = taken[c] + 1 /\ ~UNCHANGED taken
    BY <1>1, <1>8, TakeEffect
  <2>2. \A d \in Conns : Before(d, c, (taken[c] + 1) + 1)  BY <1>1, <1>6, BeforeLater
  <2>3. InTurn(c)'
    BY <1>3, <1>6, <2>1, <2>2 DEF InTurn
  <2> QED  BY <1>2, <1>5, <2>3 DEF FifoInv
<1> QED  BY <1>7, <1>8

\* What a handler says on its own account is no chat message.
LEMMA RefusesFifo ==
  ASSUME TypeInv, FifoInv, NEW c \in Conns, NEW t \in ErrorTexts, Refuses(c, t),
         UNCHANGED wire, UNCHANGED taken \/ Take(c)
  PROVE  FifoInv'
<1>1. OthersPut(c) /\ pc'[c] = "locking" /\ job'[c].msg = Error(t)
  BY RefusesEffect DEF TypeInv
<1>2. job'[c].msg.kind # "Message"  BY <1>1 DEF Error
<1> QED  BY <1>1, <1>2, QuietFifo

LEMMA JoinFifo ==
  ASSUME TypeInv, FifoInv, NEW c \in Conns,
         \/ JoinReads(c) \/ JoinOtherMessage(c) \/ JoinUnreadable(c) \/ JoinEof(c)
         \/ JoinTimeout(c) \/ Lookup(c)
  PROVE  FifoInv'
<1> USE DEF JoinFrame
<1>1. TypeOK  BY DEF TypeInv
<1>2. CASE JoinReads(c)
  <2>1. OthersPut(c) /\ pc'[c] = "lookup"  BY <1>1, <1>2, QueuesEffect DEF JoinReads
  <2> QED  BY <1>2, <2>1, QuietFifo DEF JoinReads
<1>3. CASE JoinUnreadable(c)
  <2>1. OthersPut(c) /\ pc'[c] = "ended"  BY <1>1, <1>3, EndsEffect DEF JoinUnreadable
  <2> QED  BY <1>3, <2>1, QuietFifo DEF JoinUnreadable
<1>4. CASE JoinOtherMessage(c) \/ JoinEof(c) \/ JoinTimeout(c)
  BY <1>4, RefusesFifo DEF JoinOtherMessage, JoinEof, JoinTimeout, ErrorTexts
<1>5. CASE Lookup(c)
  <2>1. ASSUME NEW msg \in Outgoing, msg.kind # "Message", NEW then \in Continuations,
               Writes(c, {c}, msg, then)
        PROVE  FifoInv'
    <3>1. {c} \in SUBSET Conns  OBVIOUS
    <3>2. OthersPut(c) /\ pc'[c] = "locking" /\ job'[c].msg = msg
      BY <1>1, <2>1, <3>1, WritesEffect
    <3> QED  BY <1>5, <2>1, <3>2, QuietFifo DEF Lookup
  <2>2. \A t \in ErrorTexts : Error(t) \in Outgoing /\ Error(t).kind # "Message"
    BY OwnMessages DEF Error
  <2>3. Welcome \in Outgoing /\ Welcome.kind # "Message"  BY OwnMessages DEF Welcome
  <2>4. "Username already taken" \in ErrorTexts /\ {"close", "welcome"} \subseteq Continuations
    BY DEF ErrorTexts, Continuations
  <2> QED  BY <1>5, <2>1, <2>2, <2>3, <2>4 DEF Lookup
<1> QED  BY <1>2, <1>3, <1>4, <1>5

LEMMA MapFifo ==
  ASSUME TypeInv, FifoInv, NEW c \in Conns,
         \/ InsertWriter(c) \/ RemoveWriter(c) \/ ServeReads(c) \/ LeaveOnRead(c)
         \/ PanicOnRead(c) \/ ReactUnnamed(c)
  PROVE  FifoInv'
<1> USE DEF socketVars
<1>1. TypeOK /\ "serving" \in PcStates  BY DEF TypeInv, PcStates
<1>2. CASE InsertWriter(c) \/ ReactUnnamed(c)
  <2>1. OthersPut(c) /\ pc'[c] = "serving"
    BY <1>1, <1>2, GoesEffect DEF InsertWriter, ReactUnnamed
  <2> QED  BY <1>2, <2>1, QuietFifo DEF InsertWriter, ReactUnnamed
<1>3. CASE RemoveWriter(c) \/ PanicOnRead(c)
  <2>1. OthersPut(c) /\ pc'[c] = "ended"
    BY <1>1, <1>3, EndsEffect DEF RemoveWriter, PanicOnRead
  <2> QED  BY <1>3, <2>1, QuietFifo DEF RemoveWriter, PanicOnRead
<1>4. CASE ServeReads(c)
  <2>1. OthersPut(c) /\ pc'[c] = "reacting"  BY <1>1, <1>4, QueuesEffect DEF ServeReads
  <2> QED  BY <1>4, <2>1, QuietFifo DEF ServeReads
<1>5. CASE LeaveOnRead(c)
  <2>1. OthersPut(c) /\ pc'[c] = "removing"  BY <1>1, <1>5, QueuesEffect DEF LeaveOnRead
  <2> QED  BY <1>5, <2>1, QuietFifo DEF LeaveOnRead
<1> QED  BY <1>2, <1>3, <1>4, <1>5

\* The message of a line is made when nobody has it.
LEMMA ReactFifo ==
  ASSUME TypeInv, FifoInv, NEW c \in Conns, Reacting(c)
  PROVE  FifoInv'
<1>1. TypeOK /\ "serving" \in PcStates  BY DEF TypeInv, PcStates
<1>2. pc[c] = "reacting" /\ UNCHANGED <<wire, taken>>
  BY ReactShape DEF GrantedRead, socketVars
<1>3. CASE Goes(c, "serving")
  <2>1. OthersPut(c) /\ pc'[c] = "serving"  BY <1>1, <1>3, GoesEffect
  <2> QED  BY <1>2, <2>1, QuietFifo
<1>4. ASSUME NEW to \in SUBSET InMap, NEW msg \in Outgoing, NEW then \in {"reply", "kick"},
             Writes(c, to, msg, then), msg.kind = "Message" => msg = Chat(c)
      PROVE  FifoInv'
  <2>1. to \in SUBSET Conns /\ then \in Continuations
    BY <1>1, InMapConns DEF Continuations
  <2>2. /\ OthersPut(c) /\ pc'[c] = "locking" /\ job'[c].msg = msg
        /\ job'[c].at \in to /\ job'[c].todo = to \ {job'[c].at}
    BY <1>1, <1>4, <2>1, WritesEffect
  <2>3. job'[c].msg.kind = "Message" => job'[c].msg.message = <<c, taken[c]>>
    BY <1>4, <2>2 DEF Chat, Message
  <2>4. \A d \in to : Before(d, c, taken[c])
    BY <1>2, <2>1 DEF FifoInv, InTurn
  <2> HIDE DEF Outgoing
  <2> QED  BY <1>2, <2>2, <2>3, <2>4, QuietFifo
<1> QED  BY <1>3, <1>4, ReactShape

\* A message lands: its recipient did not have it yet, and those still on
\* the list do not.
LEMMA SendFifo ==
  ASSUME TypeInv, FifoInv, NEW c \in Conns, Sending(c)
  PROVE  FifoInv'
<1> DEFINE j == job[c]
<1>1. TypeOK /\ "serving" \in PcStates /\ "reply" \in Continuations
  BY DEF TypeInv, PcStates, Continuations
<1>2. /\ pc[c] \in {"locking", "writing"} /\ UNCHANGED taken
      /\ j.msg \in Outgoing /\ j.at \in Conns /\ j.todo \in SUBSET Conns
  BY SendShape
<1>3. OthersPut(c)  BY HandlerAlone DEF Handler, Sending
<1>4. InTurn(c) /\ \A d \in Conns : Ordered(d)  BY DEF FifoInv
<1>5. CASE Suspends(c)
  <2>1. pc'[c] = "writing" /\ UNCHANGED <<wire, job>>  BY <1>5, SuspendsEffect
  <2> QED  BY <1>2, <1>3, <1>4, <2>1, QuietFifo DEF InTurn
<1>6. CASE WriteFails(j.at) /\ Continues(c, FALSE)
  <2>1. pc'[c] \in {"removing", "ended"} /\ UNCHANGED wire
    BY <1>1, <1>6, EndsEffect, QueuesEffect DEF Continues, WriteFails
  <2> QED  BY <1>2, <1>3, <2>1, QuietFifo
<1>7. CASE WriteLands(j.at, j.msg) /\ Continues(c, TRUE)
  <2> PICK at \in Conns, msg \in Outgoing : at = j.at /\ msg = j.msg
    <3> HIDE DEF Outgoing
    <3> QED  BY <1>2
  <2>1. msg.kind = "Message" =>
          /\ msg.message = <<c, taken[c]>> /\ at \notin j.todo
          /\ \A d \in {at} \cup j.todo : Before(d, c, taken[c])
    BY <1>2, <1>4 DEF InTurn
  <2>2. \A e \in Conns : From(msg, e) =>
          e = c /\ msg.message[2] = taken[c] /\ Before(at, e, msg.message[2])
    BY <2>1 DEF From
  <2>3. /\ \A d \in Conns : Ordered(d)'
        /\ \A d, e \in Conns : \A k \in Nat :
             /\ Before(d, e, k)
             /\ d = at /\ From(msg, e) => msg.message[2] < k
             => Before(d, e, k)'
    BY <1>1, <1>4, <1>7, <2>2, LandsInOrder
  <2>4. \A e \in Conns : taken[e] \in Nat /\ taken'[e] = taken[e]
    BY <1>1, <1>2 DEF TypeOK, SocketTypeOK
  <2>5. ASSUME NEW d \in Conns, NEW e \in Conns \ {c}, NEW k \in Nat, Before(d, e, k)
        PROVE  Before(d, e, k)'
    BY <2>2, <2>3, <2>5
  <2>6. ASSUME NEW e \in Conns \ {c} PROVE InTurn(e)'
    <3>1. InTurn(e) /\ pc'[e] = pc[e] /\ job'[e] = job[e]
      BY <1>3 DEF FifoInv, OthersPut
    <3>2. pc[e] \in {"locking", "writing"} => {job[e].at} \cup job[e].todo \subseteq Conns
      <4> HIDE DEF Outgoing, Continuations
      <4> QED  BY DEF TypeInv, Sound, Job
    <3> QED  BY <2>4, <2>5, <3>1, <3>2 DEF InTurn
  <2>7. \A d \in Conns : Before(d, c, taken[c] + 1)'
    <3>1. \A d \in Conns : Before(d, c, taken[c] + 1)  BY <1>4 DEF InTurn
    <3>2. taken[c] + 1 \in Nat /\ taken[c] < taken[c] + 1  BY <2>4
    <3>3. \A d \in Conns, k \in Nat : k = taken[c] + 1 => Before(d, c, k)'
      BY <2>2, <2>3, <3>1, <3>2
    <3> QED  BY <2>4, <3>2, <3>3
  <2>8. CASE j.then = "reply" /\ j.todo # {} /\ Writes(c, j.todo, j.msg, "reply")
    <3>1. /\ pc'[c] = "locking" /\ job'[c].msg = msg
          /\ job'[c].at \in j.todo /\ job'[c].todo = j.todo \ {job'[c].at}
      BY <1>1, <1>2, <2>8, WritesEffect
    <3>2. msg.kind = "Message" => \A d \in j.todo : Before(d, c, taken[c])'
      BY <1>2, <2>1, <2>3, <2>4
    <3>3. InTurn(c)'
      <4> HIDE DEF j
      <4> QED  BY <2>1, <2>4, <2>7, <3>1, <3>2 DEF InTurn
    <3> QED  BY <2>3, <2>6, <3>3 DEF FifoInv
  <2>9. CASE pc'[c] \in {"inserting", "serving", "removing", "ended"}
    <3>1. InTurn(c)'  BY <2>7, <2>9 DEF InTurn
    <3> QED  BY <2>3, <2>6, <3>1 DEF FifoInv
  <2>10. \/ j.then = "reply" /\ j.todo # {} /\ Writes(c, j.todo, j.msg, "reply")
         \/ pc'[c] \in {"inserting", "serving", "removing", "ended"}
    BY <1>1, <1>7, EndsEffect, QueuesEffect, GoesEffect DEF Continues
  <2> QED  BY <2>8, <2>9, <2>10
<1> QED  BY <1>5, <1>6, <1>7, SendShape

\* A connection that is turned away is told so, which is no chat message.
LEMMA TurnAwayFifo ==
  ASSUME TypeInv, FifoInv, NEW c \in Conns, TurnAway(c)
  PROVE  FifoInv'
<1> USE DEF handlerVars
<1>1. TypeOK  BY DEF TypeInv
<1>2. UNCHANGED <<pc, job, taken>>  BY DEF TurnAway
<1>3. \A e \in Conns : InTurn(e) /\ Ordered(e)  BY DEF FifoInv
<1>4. CASE UNCHANGED wire
  BY <1>2, <1>3, <1>4 DEF FifoInv, InTurn, Ordered, Before
<1>5. ASSUME NEW msg \in Outgoing, msg.kind # "Message", WriteLands(c, msg)
      PROVE  FifoInv'
  <2>1. \A e \in Conns : ~From(msg, e)  BY <1>5 DEF From
  <2>2. /\ \A d \in Conns : Ordered(d)'
        /\ \A d, e \in Conns : \A k \in Nat : Before(d, e, k) => Before(d, e, k)'
    BY <1>1, <1>3, <1>5, <2>1, LandsInOrder
  <2>3. ASSUME NEW e \in Conns PROVE InTurn(e)'
    <3>1. InTurn(e) /\ taken[e] \in Nat /\ taken[e] + 1 \in Nat
      BY <1>1, <1>3 DEF TypeOK, SocketTypeOK
    <3>2. pc[e] \in {"locking", "writing"} => {job[e].at} \cup job[e].todo \subseteq Conns
      <4> HIDE DEF Outgoing, Continuations
      <4> QED  BY DEF TypeInv, Sound, Job
    <3>3. \A d \in Conns : \A k \in Nat : Before(d, e, k) => \A n : n = k => Before(d, e, n)'
      BY <2>2 DEF Before
    <3> QED  BY <1>2, <3>1, <3>2, <3>3 DEF InTurn
  <2> QED  BY <2>2, <2>3 DEF FifoInv
<1>6. Error("Server is full") \in Outgoing /\ Error("Server is full").kind # "Message"
  BY OwnMessages DEF ErrorTexts, Error
<1> QED  BY <1>4, <1>5, <1>6 DEF TurnAway, WriteFails

LEMMA FifoStep == TypeInv /\ FifoInv /\ [Next]_vars => FifoInv'
<1> SUFFICES ASSUME TypeInv, FifoInv, [Next]_vars PROVE FifoInv'
  OBVIOUS
<1> USE DEF handlerVars, socketVars
<1>1. TypeOK  BY DEF TypeInv
<1>2. ASSUME UNCHANGED <<pc, job, taken, wire>> PROVE FifoInv'
  BY <1>2 DEF FifoInv, InTurn, Ordered, Before
<1>3. CASE LoopAlone \/ UNCHANGED vars
  BY <1>2, <1>3 DEF LoopAlone, vars
<1>4. ASSUME NEW c \in Conns, Client(c) \/ Reader(c) PROVE FifoInv'
  BY <1>2, <1>4
  DEF Client, Reader, Dial, ClientSends, ClientCloses, ClientVanishes, ClientReads
<1>5. ASSUME NEW c \in Conns, SpawnHandler(c) \/ CancelHandler(c) PROVE FifoInv'
  <2>1. OthersPut(c) /\ pc'[c] \in {"joining", "ended"} /\ UNCHANGED <<wire, taken>>
    BY <1>1, <1>5 DEF SpawnHandler, CancelHandler, OthersPut, TypeOK
  <2> QED  BY <2>1, QuietFifo
<1>6. ASSUME NEW c \in Conns, Handler(c) \/ JoinTimeout(c) PROVE FifoInv'
  BY <1>6, HandlerCases, JoinFifo, MapFifo, ReactFifo, SendFifo
<1> QED  BY <1>3, <1>4, <1>5, <1>6, TurnAwayFifo DEF Next, Server

LEMMA FifoHolds == Spec => []FifoInv
<1>1. Init => FifoInv
  BY DEF Init, SocketInit, FifoInv, InTurn, Ordered, Before
<1> QED  BY <1>1, FifoStep, TypeInvCorrect, PTL DEF Spec

\* Though several handlers write to one socket, and a broadcast is written to
\* one recipient after another, each recipient gets the messages of a sender
\* in the order they were sent, and each once.
THEOREM InOrder == Spec => []PairwiseFifo
<1>1. TypeInv /\ FifoInv => PairwiseFifo
  <2> SUFFICES ASSUME FifoInv, NEW c \in Conns,
                      NEW i \in DOMAIN wire[c], NEW j \in DOMAIN wire[c], i < j,
                      wire[c][i].kind = "Message", wire[c][j].kind = "Message",
                      wire[c][i].message[1] = wire[c][j].message[1]
               PROVE  wire[c][i].message[2] < wire[c][j].message[2]
    BY DEF PairwiseFifo
  <2> QED  BY DEF FifoInv, Ordered, From
<1> QED  BY <1>1, FifoHolds, TypeInvCorrect, PTL

-----------------------------------------------------------------------------
(***************************************************************************)
(* Requests and replies.  The lines after the Join that a handler is done  *)
(* with, and what its client was written, agree, unless a second client    *)
(* was welcomed under the name: then the handlers of the two may write to  *)
(* one socket.  Once that is so, it stays so.                              *)
(***************************************************************************)
Shared(c) == \E d \in Conns \ {c} : Welcomed(d) /\ name[d] = name[c]

Replying(c) == pc[c] \in {"locking", "writing"} /\ job[c].msg.kind \in {"Pong", "UserList"}

\* The last line taken is a request that may have no reply yet.
Owes(c) == pc[c] = "reacting" \/ Replying(c)

Done(c) == SubSeq(sent[c], 2, IF Owes(c) THEN taken[c] - 1 ELSE taken[c])

\* How many lines were taken, by where the handler is.
Counted(c) ==
  /\ pc[c] \in {"idle", "joining"} => taken[c] = 0
  /\ pc[c] \in {"lookup", "inserting"} => taken[c] = 1
  /\ pc[c] \in {"locking", "writing"} /\ job[c].then = "welcome" => taken[c] = 1
  /\ InLoop(c) => taken[c] >= 1
  /\ Owes(c) => taken[c] >= 2

\* A reply fits its request, and is for one writer, which bears the name.
ReplyFits(c) ==
  Replying(c) =>
    /\ job[c].then = "reply" /\ job[c].todo = {} /\ name[job[c].at] = name[c]
    /\ IsReply(Request(c).kind, job[c].msg.kind)

\* Who has its name alone has its entry, and its replies.
Kept(c) ==
  /\ pc[c] = "inserting" => Answered(<<>>, wire[c])
  /\ InLoop(c) /\ ~Shared(c) =>
       /\ name[c] \in Registered /\ registry[name[c]] = c
       /\ Answered(Done(c), wire[c])

OnTrack(c) == Counted(c) /\ ReplyFits(c) /\ Kept(c)

ReplyInv == \A c \in Conns : OnTrack(c)

-----------------------------------------------------------------------------
\* Names change as a Join is read, and not otherwise.
LEMMA NamesStay ==
  ASSUME TypeInv, [Next]_vars, NEW d \in Conns, pc[d] # "joining"
  PROVE  name'[d] = name[d]
<1> USE DEF handlerVars
<1>1. TypeOK  BY DEF TypeInv
<1>2. CASE UNCHANGED name  BY <1>2
<1>3. ASSUME NEW c \in Conns, JoinReads(c) PROVE name'[d] = name[d]
  <2>1. c # d /\ name' = [name EXCEPT ![c] = NextLine(c).name]
    BY <1>3 DEF JoinReads, Joining
  <2> QED  BY <1>1, <2>1 DEF TypeOK
<1>4. ASSUME NEW c \in Conns, Handler(c) \/ JoinTimeout(c) PROVE UNCHANGED name \/ JoinReads(c)
  BY <1>4, HandlerCases, ReactShape, SendShape
  DEF JoinOtherMessage, JoinUnreadable, JoinEof, JoinTimeout, Lookup, InsertWriter, ServeReads,
      LeaveOnRead, PanicOnRead, RemoveWriter, ReactUnnamed
<1>5. ASSUME NEW c \in Conns, Client(c) \/ Reader(c) \/ Server(c) PROVE UNCHANGED name
  BY <1>5 DEF Client, Reader, Server, SpawnHandler, TurnAway, CancelHandler
<1>6. CASE LoopAlone \/ UNCHANGED vars  BY <1>6 DEF LoopAlone, vars
<1> QED  BY <1>2, <1>3, <1>4, <1>5, <1>6 DEF Next

\* A step writes to one client, or to none.
LEMMA OneWritten ==
  ASSUME TypeInv, [Next]_vars
  PROVE  UNCHANGED wire \/ \E at \in Conns, msg \in Outgoing : WriteLands(at, msg)
<1> USE DEF handlerVars, socketVars
<1>1. ASSUME NEW c \in Conns, Handler(c) \/ JoinTimeout(c)
      PROVE  UNCHANGED wire \/ \E at \in Conns, msg \in Outgoing : WriteLands(at, msg)
  <2>1. CASE Sending(c)
    <3> HIDE DEF Outgoing
    <3> QED  BY <2>1, SendShape DEF WriteFails, Suspends
  <2>2. CASE ~Sending(c)
    <3>1. UNCHANGED wire
      BY <1>1, <2>2, HandlerCases, ReactShape
      DEF JoinReads, JoinOtherMessage, JoinUnreadable, JoinEof, JoinTimeout, Lookup, InsertWriter,
          ServeReads, LeaveOnRead, PanicOnRead, RemoveWriter, ReactUnnamed, JoinFrame
    <3> QED  BY <3>1
  <2> QED  BY <2>1, <2>2
<1>2. ASSUME NEW c \in Conns, TurnAway(c)
      PROVE  UNCHANGED wire \/ \E at \in Conns, msg \in Outgoing : WriteLands(at, msg)
  <2>1. Error("Server is full") \in Outgoing  BY OwnMessages DEF ErrorTexts
  <2> HIDE DEF Outgoing
  <2> QED  BY <1>2, <2>1 DEF TurnAway, WriteFails
<1>3. ASSUME NEW c \in Conns, Client(c) \/ Reader(c) \/ SpawnHandler(c) \/ CancelHandler(c)
      PROVE  UNCHANGED wire
  BY <1>3 DEF Client, Reader, SpawnHandler, CancelHandler, Dial, ClientSends, ClientCloses,
              ClientVanishes, ClientReads
<1>4. CASE LoopAlone \/ UNCHANGED vars  BY <1>4 DEF LoopAlone, vars
<1> HIDE DEF Outgoing
<1> QED  BY <1>1, <1>2, <1>3, <1>4 DEF Next, Server

LEMMA WelcomeStays ==
  ASSUME TypeInv, [Next]_vars, NEW d \in Conns, Welcomed(d)
  PROVE  Welcomed(d)'
<1>1. CASE UNCHANGED wire  BY <1>1 DEF Welcomed
<1>2. ASSUME NEW at \in Conns, NEW msg \in Outgoing, WriteLands(at, msg) PROVE Welcomed(d)'
  <2>1. /\ wire[d] \in Seq(Outgoing) /\ wire[d] # <<>> /\ Head(wire[d]) = Welcome
        /\ wire'[d] = wire[d] \/ wire'[d] = Append(wire[d], msg)
    BY <1>2, WireEffect DEF TypeInv, TypeOK, SocketTypeOK, Welcomed
  <2>2. wire'[d] # <<>> /\ Head(wire'[d]) = Head(wire[d])
    <3> HIDE DEF Outgoing
    <3> QED  BY <2>1, Appended
  <2> QED  BY <2>1, <2>2 DEF Welcomed
<1> QED  BY <1>1, <1>2, OneWritten

\* A name that is shared remains so.
LEMMA SharedStays ==
  ASSUME TypeInv, StoryInv, [Next]_vars, NEW c \in Conns, pc[c] # "joining", Shared(c)
  PROVE  Shared(c)'
<1>1. PICK d \in Conns \ {c} : Welcomed(d) /\ name[d] = name[c]  BY DEF Shared
<1>2. pc[d] # "joining"  BY <1>1 DEF StoryInv, Story, Unheard, Welcomed
<1>3. name'[d] = name[d] /\ name'[c] = name[c]  BY <1>2, NamesStay
<1>4. Welcomed(d)'  BY <1>1, WelcomeStays
<1> QED  BY <1>1, <1>3, <1>4 DEF Shared

\* The lines taken after the Join.
LEMMA LinesTypes ==
  ASSUME TypeOK, NEW c \in Conns
  PROVE  /\ sent[c] \in Seq(Line) /\ taken[c] \in Nat /\ taken[c] <= Len(sent[c])
         /\ \A k \in Nat : 1 <= k /\ k <= taken[c] => SubSeq(sent[c], 2, k) \in Seq(Line)
         /\ taken[c] >= 2 => /\ Request(c) \in Line
                             /\ SubSeq(sent[c], 2, taken[c])
                                  = Append(SubSeq(sent[c], 2, taken[c] - 1), Request(c))
         /\ SubSeq(sent[c], 2, 1) = <<>>
<1> DEFINE s == sent[c]
           k == taken[c]
<1>1. s \in Seq(Line) /\ k \in Nat /\ k <= Len(s) /\ Request(c) = s[k]
  BY DEF TypeOK, SocketTypeOK, Request
<1> HIDE DEF Line, s, k
<1>2. \A i \in Nat : 1 <= i /\ i <= k => SubSeq(s, 2, i) \in Seq(Line)  BY <1>1
<1>3. k >= 2 => s[k] \in Line /\ SubSeq(s, 2, k) = Append(SubSeq(s, 2, k - 1), s[k])
  BY <1>1
<1>4. SubSeq(s, 2, 1) = <<>>  BY <1>1
<1> QED  BY <1>1, <1>2, <1>3, <1>4 DEF s, k

-----------------------------------------------------------------------------
\* The writer a reply is for is the client's own, if its name is not shared.
LEMMA OwnReply ==
  ASSUME TypeInv, TargetsStay, StoryInv, NEW d \in Conns, ReplyFits(d), Replying(d)
  PROVE  /\ job[d].at \in Conns /\ job[d].at \in InMap
         /\ Welcomed(job[d].at) /\ Welcomed(d) /\ pc[job[d].at] # "joining"
         /\ job[d].at = d \/ Shared(d)
<1>1. pc[d] \in {"locking", "writing"} /\ job[d].then = "reply" /\ name[job[d].at] = name[d]
  BY DEF ReplyFits, Replying
<1>2. job[d].at \in InMap  BY <1>1 DEF TargetsStay, ReadGuard
<1>3. job[d].at \in Conns  BY <1>2, InMapConns DEF TypeInv
<1>4. Welcomed(job[d].at) /\ Welcomed(d)
  BY <1>1, <1>2, <1>3 DEF StoryInv, Story, Inside, InLoop
<1>5. pc[job[d].at] # "joining"
  BY <1>3, <1>4 DEF StoryInv, Story, Unheard, Welcomed
<1> QED  BY <1>1, <1>2, <1>3, <1>4, <1>5 DEF Shared

\* A step that does not move d, nor changes what it took: others may write
\* to its client, replies only if its name is shared.
LEMMA Bystander ==
  ASSUME TypeInv, TargetsStay, StoryInv, ReplyInv, [Next]_vars, NEW d \in Conns,
         pc'[d] = pc[d], job'[d] = job[d], taken'[d] = taken[d],
         Done(d)' = Done(d), taken[d] > 0 => Request(d)' = Request(d),
         InLoop(d) /\ ~Shared(d) =>
           \A n \in Names : registry[n] = d => registry'[n] = d,
         \/ wire'[d] = wire[d]
         \/ \E msg \in Outgoing :
              /\ wire'[d] = Append(wire[d], msg) /\ pc[d] # "inserting"
              /\ msg.kind \notin {"Pong", "UserList"} \/ Shared(d)
  PROVE  OnTrack(d)'
<1>1. TypeOK /\ OnTrack(d)  BY DEF TypeInv, ReplyInv
<1>2. /\ InLoop(d)' <=> InLoop(d)
      /\ Owes(d)' <=> Owes(d)
      /\ Replying(d)' <=> Replying(d)
  BY DEF InLoop, Owes, Replying
<1>3. Counted(d)'  BY <1>1, <1>2 DEF OnTrack, Counted
<1>4. ReplyFits(d)'
  <2>1. CASE ~Replying(d)  BY <1>2, <2>1 DEF ReplyFits
  <2>2. CASE Replying(d)
    <3>1. /\ job[d].then = "reply" /\ job[d].todo = {} /\ name[job[d].at] = name[d]
          /\ IsReply(Request(d).kind, job[d].msg.kind)
      BY <1>1, <2>2 DEF OnTrack, ReplyFits
    <3>2. job[d].at \in Conns /\ pc[job[d].at] # "joining" /\ pc[d] # "joining"
      BY <1>1, <2>2, OwnReply DEF OnTrack, Replying
    <3>3. name'[job[d].at] = name[job[d].at] /\ name'[d] = name[d]  BY <3>2, NamesStay
    <3>4. Request(d)' = Request(d)
      <4>1. taken[d] \in Nat /\ taken[d] >= 2
        BY <1>1, <2>2, LinesTypes DEF OnTrack, Counted, Owes
      <4> QED  BY <4>1
    <3> QED  BY <3>1, <3>3, <3>4 DEF ReplyFits
  <2> QED  BY <2>1, <2>2
<1>5. Kept(d)'
  <2>1. pc'[d] = "inserting" => Answered(<<>>, wire[d])' /\ wire'[d] = wire[d]
    <3>1. CASE wire'[d] = wire[d]
      <4>1. pc[d] = "inserting" => Answered(<<>>, wire[d])  BY <1>1 DEF OnTrack, Kept
      <4> QED  BY <3>1, <4>1
    <3>2. CASE pc[d] # "inserting"  BY <3>2
    <3> QED  BY <3>1, <3>2
  <2>2. ASSUME InLoop(d)', ~Shared(d)'
        PROVE  /\ name'[d] \in Registered' /\ registry'[name'[d]] = d
               /\ Answered(Done(d)', wire'[d])
    <3>1. InLoop(d) /\ pc[d] # "joining"  BY <1>2, <2>2 DEF InLoop
    <3>2. ~Shared(d)  BY <2>2, <3>1, SharedStays
    <3>3. name'[d] = name[d]  BY <3>1, NamesStay
    <3>4. name[d] \in Registered /\ registry[name[d]] = d /\ Answered(Done(d), wire[d])
      BY <1>1, <3>1, <3>2 DEF OnTrack, Kept
    <3>5. name[d] \in Names /\ registry'[name[d]] = d
      BY <3>1, <3>2, <3>4 DEF Registered
    <3>6. name[d] \in Registered'  BY <3>5, NoConnAssumption DEF Registered
    <3>7. Answered(Done(d), wire'[d])
      <4>1. CASE wire'[d] = wire[d]  BY <3>4, <4>1
      <4>2. ASSUME NEW msg \in Outgoing, wire'[d] = Append(wire[d], msg),
                   msg.kind \notin {"Pong", "UserList"}
            PROVE  Answered(Done(d), wire'[d])
        <5>1. wire[d] \in Seq(Outgoing)  BY <1>1 DEF TypeOK, SocketTypeOK
        <5> HIDE DEF Outgoing
        <5> QED  BY <3>4, <4>2, <5>1, OtherWritten
      <4> HIDE DEF Outgoing
      <4> QED  BY <3>2, <4>1, <4>2
    <3> QED  BY <3>3, <3>5, <3>6, <3>7
  <2> QED  BY <2>1, <2>2 DEF Kept
<1> QED  BY <1>3, <1>4, <1>5 DEF OnTrack

\* What a step of the handler of c does to the rest.
LEMMA HandlerFrame ==
  ASSUME TypeInv, NEW c \in Conns, Handler(c) \/ JoinTimeout(c)
  PROVE  /\ OthersPut(c) /\ UNCHANGED sent /\ (UNCHANGED taken \/ Take(c))
         /\ \A d \in Conns \ {c} : taken'[d] = taken[d]
         /\ UNCHANGED wire \/ Sending(c)
         /\ UNCHANGED registry \/ InsertWriter(c) \/ RemoveWriter(c)
<1> USE DEF socketVars, clientVars
<1>1. /\ UNCHANGED sent /\ (UNCHANGED taken \/ Take(c))
      /\ UNCHANGED wire \/ Sending(c)
      /\ UNCHANGED registry \/ InsertWriter(c) \/ RemoveWriter(c)
  BY HandlerCases, ReactShape, SendShape
  DEF JoinReads, JoinOtherMessage, JoinUnreadable, JoinEof, JoinTimeout, Lookup, InsertWriter,
      ServeReads, LeaveOnRead, PanicOnRead, RemoveWriter, ReactUnnamed, JoinFrame
<1>2. \A d \in Conns \ {c} : taken'[d] = taken[d]
  BY <1>1, TakeEffect DEF TypeInv, TypeOK, SocketTypeOK
<1> QED  BY <1>1, <1>2, HandlerAlone

\* It leaves all others on their track.
LEMMA HandlerBystanders ==
  ASSUME TypeInv, TargetsStay, EntriesInv, StoryInv, ReplyInv, [Next]_vars,
         NEW c \in Conns, Handler(c) \/ JoinTimeout(c), NEW d \in Conns \ {c}
  PROVE  OnTrack(d)'
<1>1. /\ TypeOK /\ ~Down /\ pc'[d] = pc[d] /\ job'[d] = job[d]
      /\ UNCHANGED sent /\ taken'[d] = taken[d]
  BY HandlerFrame, HandlerAtWork DEF TypeInv, OthersPut
<1>2. Done(d)' = Done(d) /\ Request(d)' = Request(d)
  BY <1>1 DEF Done, Request, Owes, Replying
<1>3. ASSUME ~Shared(d), NEW n \in Names, registry[n] = d PROVE registry'[n] = d
  <2>1. CASE UNCHANGED registry  BY <1>3, <2>1
  <2>2. CASE InsertWriter(c) \/ RemoveWriter(c)
    <3>1. n \in Registered /\ name[d] = n
      BY <1>3, NoConnAssumption DEF Registered, EntriesInv, EntryOK
    <3>2. Welcomed(c)
      BY <2>2 DEF InsertWriter, RemoveWriter, GrantedWrite, GrantedRead, StoryInv, Story, Inside
    <3>3. n # name[c]  BY <1>3, <3>1, <3>2 DEF Shared
    <3> QED  BY <1>1, <1>3, <2>2, <3>3 DEF InsertWriter, RemoveWriter, TypeOK
  <2> QED  BY <2>1, <2>2, HandlerFrame
<1>4. CASE UNCHANGED wire
  BY <1>1, <1>2, <1>3, <1>4, Bystander
<1>5. CASE Sending(c)
  <2>1. /\ pc[c] \in {"locking", "writing"} /\ job[c].then \in Continuations
        /\ job[c].msg \in Outgoing /\ job[c].at \in Conns
        /\ WriteLands(job[c].at, job[c].msg) \/ UNCHANGED wire
    BY <1>5, SendShape DEF WriteFails, Suspends
  <2>2. CASE WriteLands(job[c].at, job[c].msg) /\ job[c].at = d
    <3>1. job[c].then \in {"reply", "kick"}
      BY <2>1, <2>2 DEF StoryInv, Story, Fitting, Continuations
    <3>2. d \in InMap  BY <2>1, <2>2, <3>1 DEF TargetsStay, ReadGuard
    <3>3. pc[d] # "inserting"  BY <1>1, <3>2, JoiningUnlisted DEF InLoop
    <3>4. wire'[d] = Append(wire[d], job[c].msg)  BY <1>1, <2>1, <2>2, WireEffect
    <3>5. job[c].msg.kind \notin {"Pong", "UserList"} \/ Shared(d)
      <4>1. SUFFICES ASSUME Replying(c) PROVE Shared(d)  BY <2>1 DEF Replying
      <4>2. ReplyFits(c)  BY DEF ReplyInv, OnTrack
      <4>3. name[d] = name[c] /\ Welcomed(c)  BY <2>2, <4>1, <4>2, OwnReply DEF ReplyFits
      <4> QED  BY <4>3 DEF Shared
    <3>6. \E msg \in Outgoing :
            /\ wire'[d] = Append(wire[d], msg) /\ pc[d] # "inserting"
            /\ msg.kind \notin {"Pong", "UserList"} \/ Shared(d)
      <4> HIDE DEF Outgoing
      <4> QED  BY <2>1, <3>3, <3>4, <3>5
    <3> HIDE DEF Outgoing
    <3> QED  BY <1>1, <1>2, <1>3, <3>6, Bystander
  <2>3. CASE UNCHANGED wire  BY <1>4, <2>3
  <2>4. CASE WriteLands(job[c].at, job[c].msg) /\ job[c].at # d
    <3>1. wire'[d] = wire[d]  BY <1>1, <2>1, <2>4, WireEffect
    <3> QED  BY <1>1, <1>2, <1>3, <3>1, Bystander
  <2> QED  BY <2>1, <2>2, <2>3, <2>4
<1> QED  BY <1>4, <1>5, HandlerFrame

-----------------------------------------------------------------------------
\* Nothing is claimed of a handler that is on its way out.
LEMMA OnTheWayOut ==
  ASSUME NEW c \in Conns,
         \/ pc'[c] \in {"removing", "ended"}
         \/ /\ pc'[c] = "locking" /\ job'[c].then = "close"
            /\ job'[c].msg.kind \notin {"Pong", "UserList"}
  PROVE  OnTrack(c)'
<1>1. ~InLoop(c)' /\ ~Owes(c)' /\ ~Replying(c)'
  BY DEF InLoop, Owes, Replying
<1> QED  BY <1>1 DEF OnTrack, Counted, ReplyFits, Kept

LEMMA JoinTrack ==
  ASSUME TypeInv, ReplyInv, NEW c \in Conns,
         \/ JoinReads(c) \/ JoinOtherMessage(c) \/ JoinUnreadable(c) \/ JoinEof(c)
         \/ JoinTimeout(c) \/ Lookup(c)
  PROVE  OnTrack(c)'
<1>1. TypeOK /\ OnTrack(c)  BY DEF TypeInv, ReplyInv
<1>2. ASSUME NEW t \in ErrorTexts, Refuses(c, t) PROVE OnTrack(c)'
  <2>1. pc'[c] = "locking" /\ job'[c].msg = Error(t) /\ job'[c].then = "close"
    BY <1>1, <1>2, RefusesEffect
  <2>2. job'[c].msg.kind = "Error"  BY <2>1 DEF Error
  <2> QED  BY <2>1, <2>2, OnTheWayOut
<1>3. CASE JoinReads(c)
  <2>1. pc'[c] = "lookup" /\ Take(c) /\ pc[c] = "joining"
    BY <1>1, <1>3, QueuesEffect DEF JoinReads, Joining
  <2>2. taken[c] = 0 /\ taken'[c] = 0 + 1
    BY <1>1, <2>1, TakeEffect DEF OnTrack, Counted
  <2> QED
    BY <2>1, <2>2 DEF OnTrack, Counted, ReplyFits, Kept, InLoop, Owes, Replying
<1>4. CASE JoinUnreadable(c)
  <2>1. pc'[c] = "ended"  BY <1>1, <1>4, EndsEffect DEF JoinUnreadable
  <2> QED  BY <2>1, OnTheWayOut
<1>5. CASE JoinOtherMessage(c) \/ JoinEof(c) \/ JoinTimeout(c)
  BY <1>2, <1>5 DEF JoinOtherMessage, JoinEof, JoinTimeout, ErrorTexts
<1>6. CASE Lookup(c)
  <2>1. pc[c] = "lookup" /\ UNCHANGED taken  BY <1>6 DEF Lookup, GrantedRead
  <2>2. taken'[c] = 1  BY <1>1, <2>1 DEF OnTrack, Counted
  <2>3. ASSUME NEW msg \in Outgoing, NEW then \in {"close", "welcome"},
               msg.kind \notin {"Pong", "UserList"}, Writes(c, {c}, msg, then)
        PROVE  OnTrack(c)'
    <3> DEFINE to == {c}
    <3>1. to \in SUBSET Conns /\ then \in Continuations /\ Writes(c, to, msg, then)
      BY <2>3 DEF Continuations
    <3> HIDE DEF to, Outgoing
    <3>2. pc'[c] = "locking" /\ job'[c].msg = msg /\ job'[c].then = then
      BY <1>1, <3>1, WritesEffect
    <3>3. ~InLoop(c)' /\ ~Owes(c)' /\ ~Replying(c)'
      BY <2>3, <3>2 DEF InLoop, Owes, Replying
    <3> QED  BY <2>2, <3>2, <3>3 DEF OnTrack, Counted, ReplyFits, Kept
  <2>4. \A t \in ErrorTexts :
          Error(t) \in Outgoing /\ Error(t).kind \notin {"Pong", "UserList"}
    BY OwnMessages DEF Error
  <2>5. Welcome \in Outgoing /\ Welcome.kind \notin {"Pong", "UserList"}
    BY OwnMessages DEF Welcome
  <2>6. "Username already taken" \in ErrorTexts  BY DEF ErrorTexts
  <2> HIDE DEF Outgoing
  <2> QED  BY <1>6, <2>3, <2>4, <2>5, <2>6 DEF Lookup
<1> QED  BY <1>3, <1>4, <1>5, <1>6

LEMMA MapTrack ==
  ASSUME TypeInv, StoryInv, ReplyInv, [Next]_vars, NEW c \in Conns,
         \/ InsertWriter(c) \/ RemoveWriter(c) \/ ServeReads(c) \/ LeaveOnRead(c)
         \/ PanicOnRead(c) \/ ReactUnnamed(c)
  PROVE  OnTrack(c)'
<1> USE DEF socketVars, clientVars
<1>1. TypeOK /\ OnTrack(c) /\ "serving" \in PcStates  BY DEF TypeInv, ReplyInv, PcStates
<1>2. CASE InsertWriter(c)
  <2>1. /\ pc[c] = "inserting" /\ pc'[c] = "serving" /\ UNCHANGED <<sent, taken, wire, name>>
        /\ registry' = [registry EXCEPT ![name[c]] = c]
    BY <1>1, <1>2, GoesEffect DEF InsertWriter, GrantedWrite, GrantedRead
  <2>2. taken[c] = 1 /\ Answered(<<>>, wire[c])  BY <1>1, <2>1 DEF OnTrack, Counted, Kept
  <2>3. name[c] \in Names /\ registry'[name[c]] = c
    BY <1>1, <2>1 DEF TypeInv, Sound, TypeOK
  <2>4. name'[c] \in Registered'  BY <2>1, <2>3, NoConnAssumption DEF Registered
  <2>5. Done(c)' = <<>>
    <3>1. Done(c)' = SubSeq(sent[c], 2, 1)  BY <2>1, <2>2 DEF Done, Owes, Replying
    <3> QED  BY <1>1, <3>1, LinesTypes
  <2> QED
    BY <2>1, <2>2, <2>3, <2>4, <2>5
    DEF OnTrack, Counted, ReplyFits, Kept, Owes, Replying
<1>3. CASE RemoveWriter(c) \/ LeaveOnRead(c) \/ PanicOnRead(c)
  <2>1. pc'[c] \in {"removing", "ended"}
    BY <1>1, <1>3, EndsEffect, QueuesEffect DEF RemoveWriter, LeaveOnRead, PanicOnRead
  <2> QED  BY <2>1, OnTheWayOut
<1>4. CASE ServeReads(c)
  <2>1. /\ pc[c] = "serving" /\ pc'[c] = "reacting" /\ Take(c)
        /\ UNCHANGED <<sent, wire, name, registry>>
    BY <1>1, <1>4, QueuesEffect DEF ServeReads
  <2>2. taken[c] \in Nat /\ taken[c] >= 1 /\ taken'[c] = taken[c] + 1
    BY <1>1, <2>1, TakeEffect, LinesTypes DEF OnTrack, Counted, InLoop
  <2>3. taken'[c] >= 2 /\ taken'[c] >= 1 /\ taken'[c] - 1 = taken[c]  BY <2>2
  <2>4. Done(c)' = Done(c)  BY <2>1, <2>3 DEF Done, Owes, Replying
  <2>5. InLoop(c) /\ InLoop(c)' /\ Owes(c)' /\ ~Replying(c)' /\ pc[c] # "joining"
    BY <2>1 DEF InLoop, Owes, Replying
  <2>6. ~Shared(c)' => ~Shared(c)  BY <2>5, SharedStays
  <2>7. Registered' = Registered  BY <2>1 DEF Registered
  <2> QED
    BY <1>1, <2>1, <2>3, <2>4, <2>5, <2>6, <2>7 DEF OnTrack, Counted, ReplyFits, Kept
<1>5. CASE ReactUnnamed(c)
  <2>1. /\ pc[c] = "reacting" /\ pc'[c] = "serving" /\ UNCHANGED taken
        /\ name[c] \notin Registered
    BY <1>1, <1>5, GoesEffect DEF ReactUnnamed, GrantedRead
  <2>2. InLoop(c) /\ pc[c] # "joining"  BY <2>1 DEF InLoop
  <2>3. Shared(c)'  BY <1>1, <2>1, <2>2, SharedStays DEF OnTrack, Kept
  <2>4. taken'[c] >= 1  BY <1>1, <2>1, <2>2 DEF OnTrack, Counted
  <2> QED  BY <2>1, <2>3, <2>4 DEF OnTrack, Counted, ReplyFits, Kept, Owes, Replying
<1> QED  BY <1>2, <1>3, <1>4, <1>5

\* A line is reacted to: a reply to it is due, or none.
LEMMA ReactTrack ==
  ASSUME TypeInv, EntriesInv, StoryInv, ReplyInv, [Next]_vars, NEW c \in Conns, Reacting(c)
  PROVE  OnTrack(c)'
<1> USE DEF socketVars
<1> DEFINE lines == SubSeq(sent[c], 2, taken[c] - 1)
<1>1. TypeOK /\ OnTrack(c) /\ "serving" \in PcStates  BY DEF TypeInv, ReplyInv, PcStates
<1>2. pc[c] = "reacting" /\ UNCHANGED <<sent, taken, wire, name, registry>>
  BY ReactShape DEF GrantedRead
<1>3. InLoop(c) /\ Owes(c) /\ pc[c] # "joining" /\ (~Shared(c)' => ~Shared(c))
  BY <1>2, SharedStays DEF InLoop, Owes
<1>4. /\ taken[c] \in Nat /\ taken[c] >= 2 /\ taken[c] >= 1
      /\ Request(c) \in Line /\ lines \in Seq(Line)
      /\ SubSeq(sent[c], 2, taken[c]) = Append(lines, Request(c))
  <2>1. taken[c] \in Nat /\ taken[c] >= 2  BY <1>1, <1>3, LinesTypes DEF OnTrack, Counted
  <2>2. taken[c] - 1 \in Nat /\ 1 <= taken[c] - 1 /\ taken[c] - 1 <= taken[c] /\ taken[c] >= 1
    BY <2>1
  <2> HIDE DEF Line
  <2> QED  BY <1>1, <2>1, <2>2, LinesTypes
<1>5. Done(c) = lines  BY <1>3 DEF Done
<1>6. ~Shared(c)' =>
        /\ name'[c] \in Registered' /\ registry'[name'[c]] = c
        /\ Answered(lines, wire'[c])
  <2>1. Registered' = Registered  BY <1>2 DEF Registered
  <2> QED  BY <1>1, <1>2, <1>3, <1>5, <2>1 DEF OnTrack, Kept
<1>7. Request(c)' = Request(c)  BY <1>2 DEF Request
<1>8. Answered(lines, wire'[c]) /\ Request(c).kind \notin {"Ping", "ListUsers"}
        => Answered(SubSeq(sent[c], 2, taken[c]), wire'[c])
  <2> HIDE DEF Line, lines
  <2> QED  BY <1>4, OtherTaken
<1>9. CASE Goes(c, "serving") /\ Request(c).kind \notin {"Ping", "ListUsers"}
  <2>1. pc'[c] = "serving"  BY <1>1, <1>9, GoesEffect
  <2>2. Done(c)' = SubSeq(sent[c], 2, taken[c])  BY <1>2, <2>1 DEF Done, Owes, Replying
  <2> HIDE DEF lines
  <2> QED
    BY <1>2, <1>4, <1>6, <1>8, <1>9, <2>1, <2>2
    DEF OnTrack, Counted, ReplyFits, Kept, Owes, Replying
<1>10. ASSUME NEW to \in SUBSET InMap, NEW msg \in Outgoing, NEW then \in {"reply", "kick"},
              Writes(c, to, msg, then), IsReply(Request(c).kind, msg.kind),
              msg.kind \in {"Pong", "UserList"} =>
                then = "reply" /\ to = {registry[name[c]]} /\ name[c] \in Registered
       PROVE  OnTrack(c)'
  <2>1. to \in SUBSET Conns /\ then \in Continuations
    BY <1>1, InMapConns DEF Continuations
  <2>2. /\ pc'[c] = "locking" /\ job'[c].msg = msg /\ job'[c].then = then
        /\ job'[c].at \in to /\ job'[c].todo = to \ {job'[c].at}
    BY <1>1, <1>10, <2>1, WritesEffect
  <2>3. Replying(c)' <=> msg.kind \in {"Pong", "UserList"}
    <3> HIDE DEF Outgoing
    <3> QED  BY <2>2 DEF Replying
  <2>4. Owes(c)' <=> msg.kind \in {"Pong", "UserList"}  BY <2>2, <2>3 DEF Owes
  <2>5. Counted(c)'
    <3> HIDE DEF Outgoing
    <3> QED  BY <1>2, <1>4, <2>2 DEF Counted
  <2>6. CASE msg.kind \in {"Pong", "UserList"}
    <3>1. ReplyFits(c)'
      <4>1. name[c] \in Registered /\ job'[c].at = registry[name[c]]
        BY <1>10, <2>2, <2>6
      <4>2. name'[job'[c].at] = name'[c]
        BY <1>2, <4>1 DEF EntriesInv, EntryOK
      <4>3. job'[c].todo = {}  BY <1>10, <2>2, <2>6
      <4> HIDE DEF Outgoing
      <4> QED  BY <1>7, <1>10, <2>2, <2>6, <4>2, <4>3 DEF ReplyFits
    <3>2. Done(c)' = lines  BY <1>2, <2>4, <2>6 DEF Done
    <3> QED  BY <1>6, <2>2, <2>5, <3>1, <3>2 DEF OnTrack, Kept
  <2>7. CASE msg.kind \notin {"Pong", "UserList"}
    <3>1. Request(c).kind \notin {"Ping", "ListUsers"}  BY <1>10, <2>7 DEF IsReply
    <3>2. Done(c)' = SubSeq(sent[c], 2, taken[c])  BY <1>2, <2>4, <2>7 DEF Done
    <3>3. ReplyFits(c)'  BY <2>3, <2>7 DEF ReplyFits
    <3> QED  BY <1>6, <1>8, <2>2, <2>5, <3>1, <3>2, <3>3 DEF OnTrack, Kept
  <2> QED  BY <2>6, <2>7
<1> HIDE DEF Outgoing, InMap
<1> QED  BY <1>9, <1>10, ReactShape

\* The send in progress ends, or is suspended: a reply that lands is written
\* to the handler's own client, or to another that has its name.
LEMMA SendTrack ==
  ASSUME TypeInv, TargetsStay, StoryInv, ReplyInv, [Next]_vars, NEW c \in Conns, Sending(c)
  PROVE  OnTrack(c)'
<1> USE DEF clientVars
<1> DEFINE j == job[c]
           lines == SubSeq(sent[c], 2, taken[c] - 1)
<1>1. /\ TypeOK /\ OnTrack(c) /\ Story(c) /\ wire[c] \in Seq(Outgoing)
      /\ "serving" \in PcStates /\ "reply" \in Continuations
  BY DEF TypeInv, ReplyInv, StoryInv, TypeOK, SocketTypeOK, PcStates, Continuations
<1>2. /\ pc[c] \in {"locking", "writing"} /\ UNCHANGED <<sent, taken, name, registry>>
      /\ j.msg \in Outgoing /\ j.at \in Conns /\ j.todo \in SUBSET Conns
      /\ j.then \in Continuations
  BY SendShape
<1>3. /\ pc[c] # "joining" /\ (~Shared(c)' => ~Shared(c)) /\ Request(c)' = Request(c)
      /\ Registered' = Registered
  BY <1>2, SharedStays DEF Request, Registered
<1>4. CASE Suspends(c)
  <2>1. pc'[c] = "writing" /\ UNCHANGED <<wire, job>>  BY <1>4, SuspendsEffect
  <2>2. /\ (InLoop(c)' <=> InLoop(c)) /\ (Owes(c)' <=> Owes(c))
        /\ (Replying(c)' <=> Replying(c)) /\ Done(c)' = Done(c)
    BY <1>2, <2>1 DEF InLoop, Owes, Replying, Done
  <2> QED
    BY <1>1, <1>2, <1>3, <2>1, <2>2 DEF OnTrack, Counted, ReplyFits, Kept
<1>5. CASE WriteFails(j.at) /\ Continues(c, FALSE)
  <2>1. pc'[c] \in {"removing", "ended"}
    BY <1>1, <1>5, EndsEffect, QueuesEffect DEF Continues
  <2> QED  BY <2>1, OnTheWayOut
<1>6. CASE WriteLands(j.at, j.msg) /\ Continues(c, TRUE)
  <2> PICK at \in Conns, msg \in Outgoing, todo \in SUBSET Conns :
             at = j.at /\ msg = j.msg /\ todo = j.todo
    <3> HIDE DEF Outgoing
    <3> QED  BY <1>2
  <2>1. /\ \A d \in Conns \ {at} : wire'[d] = wire[d]
        /\ wire'[at] = Append(wire[at], msg)
    BY <1>1, <1>6, WireEffect
  <2>2. CASE j.then \in {"kick", "close"}
    <3>1. pc'[c] \in {"removing", "ended"}
      BY <1>1, <1>6, <2>2, EndsEffect, QueuesEffect DEF Continues
    <3> QED  BY <3>1, OnTheWayOut
  <2>3. CASE j.then = "welcome"
    <3>1. pc'[c] = "inserting"  BY <1>1, <1>6, <2>3, QueuesEffect DEF Continues
    <3>2. taken[c] = 1 /\ wire[c] = <<>> /\ at = c /\ msg = Welcome
      BY <1>1, <1>2, <2>3 DEF OnTrack, Counted, Story, Unheard, Fitting
    <3>3. Answered(<<>>, wire'[c])
      <4>1. msg.kind \notin {"Pong", "UserList"} /\ wire'[c] = Append(<<>>, msg)
        BY <2>1, <3>2 DEF Welcome
      <4>2. <<>> \in Seq(Outgoing)  OBVIOUS
      <4> HIDE DEF Outgoing
      <4> QED  BY <4>1, <4>2, NoneAnswered, OtherWritten
    <3> QED
      BY <1>2, <3>1, <3>2, <3>3 DEF OnTrack, Counted, ReplyFits, Kept, InLoop, Owes, Replying
  <2>4. CASE j.then = "reply"
    <3>1. InLoop(c) /\ taken[c] >= 1  BY <1>1, <1>2, <2>4 DEF InLoop, OnTrack, Counted
    <3>2. ~Shared(c)' => name'[c] \in Registered' /\ registry'[name'[c]] = c
      BY <1>1, <1>2, <1>3, <3>1 DEF OnTrack, Kept
    <3>3. CASE Replying(c)
      <4>1. /\ Owes(c) /\ taken[c] >= 2 /\ todo = {} /\ IsReply(Request(c).kind, msg.kind)
            /\ at = c \/ Shared(c)
        BY <1>1, <3>3, OwnReply DEF Owes, OnTrack, Counted, ReplyFits
      <4>2. pc'[c] = "serving"
        BY <1>1, <1>6, <2>4, <4>1, GoesEffect DEF Continues
      <4>3. Done(c) = lines /\ Done(c)' = SubSeq(sent[c], 2, taken[c])
        BY <1>2, <4>1, <4>2 DEF Done, Owes, Replying
      <4>4. ~Shared(c)' => Answered(Done(c)', wire'[c])
        <5> SUFFICES ASSUME ~Shared(c)' PROVE Answered(Done(c)', wire'[c])
          OBVIOUS
        <5>1. Answered(lines, wire[c]) /\ wire'[c] = Append(wire[c], msg)
          BY <1>1, <1>3, <2>1, <3>1, <4>1, <4>3 DEF OnTrack, Kept
        <5>2. /\ Request(c) \in Line /\ lines \in Seq(Line)
              /\ SubSeq(sent[c], 2, taken[c]) = Append(lines, Request(c))
          <6>1. taken[c] \in Nat  BY <1>1, LinesTypes
          <6>2. taken[c] - 1 \in Nat /\ 1 <= taken[c] - 1 /\ taken[c] - 1 <= taken[c]
            BY <4>1, <6>1
          <6> HIDE DEF Line
          <6> QED  BY <1>1, <4>1, <6>2, LinesTypes
        <5> HIDE DEF Outgoing, Line, lines
        <5> QED  BY <1>1, <4>1, <4>3, <5>1, <5>2, MoreAnswered
      <4> HIDE DEF lines
      <4> QED
        BY <1>2, <3>1, <3>2, <4>2, <4>4 DEF OnTrack, Counted, ReplyFits, Kept, Owes, Replying
    <3>4. CASE ~Replying(c)
      <4>1. msg.kind \notin {"Pong", "UserList"} /\ ~Owes(c)
        BY <1>2, <3>4 DEF Replying, Owes
      <4>2. \/ pc'[c] = "serving"
            \/ pc'[c] = "locking" /\ job'[c].msg = msg /\ job'[c].then = "reply"
        <5>1. CASE Writes(c, todo, msg, "reply")
          <6>1. TypeOK /\ "reply" \in Continuations  BY <1>1
          <6>2. pc'[c] = "locking" /\ job'[c].msg = msg /\ job'[c].then = "reply"
            BY <5>1, <6>1, WritesEffect
          <6> QED  BY <6>2
        <5>2. CASE Goes(c, "serving")  BY <1>1, <5>2, GoesEffect
        <5> QED  BY <1>6, <2>4, <5>1, <5>2 DEF Continues
      <4>3. ~Owes(c)' /\ ~Replying(c)'
        <5> HIDE DEF Outgoing
        <5> QED  BY <4>1, <4>2 DEF Owes, Replying
      <4>4. Done(c)' = Done(c) /\ Done(c) = SubSeq(sent[c], 2, taken[c])
        BY <1>2, <4>1, <4>3 DEF Done
      <4>5. ~Shared(c)' => Answered(Done(c)', wire'[c])
        <5> SUFFICES ASSUME ~Shared(c)' PROVE Answered(Done(c), wire'[c])
          BY <4>4
        <5>1. Answered(Done(c), wire[c])  BY <1>1, <1>3, <3>1 DEF OnTrack, Kept
        <5>2. wire'[c] = wire[c] \/ wire'[c] = Append(wire[c], msg)  BY <2>1
        <5> HIDE DEF Outgoing
        <5> QED  BY <1>1, <4>1, <5>1, <5>2, OtherWritten
      <4>6. pc'[c] \in {"locking", "serving"}
            /\ (pc'[c] = "locking" => job'[c].then = "reply")
        BY <4>2
      <4> QED
        BY <1>2, <3>1, <3>2, <4>3, <4>5, <4>6 DEF OnTrack, Counted, ReplyFits, Kept
    <3> QED  BY <3>3, <3>4
  <2> QED  BY <1>2, <2>2, <2>3, <2>4 DEF Continuations
<1> QED  BY <1>4, <1>5, <1>6, SendShape

-----------------------------------------------------------------------------
LEMMA MoreSent ==
  ASSUME NEW s \in Seq(Line), NEW line \in Line, NEW k \in Nat, k <= Len(s)
  PROVE  SubSeq(Append(s, line), 2, k) = SubSeq(s, 2, k)
<1> HIDE DEF Line
<1> QED  OBVIOUS

\* What a client sends next is no part of what was taken.
LEMMA ClientTrack ==
  ASSUME TypeInv, TargetsStay, StoryInv, ReplyInv, [Next]_vars,
         NEW c \in Conns, Client(c) \/ Reader(c), NEW d \in Conns
  PROVE  OnTrack(d)'
<1> USE DEF handlerVars
<1>1. TypeOK /\ OnTrack(d)  BY DEF TypeInv, ReplyInv
<1>2. UNCHANGED <<pc, job, taken, wire, registry>>
  BY DEF Client, Reader, Dial, ClientSends, ClientCloses, ClientVanishes, ClientReads
<1>3. taken[d] > 0 => Request(d)' = Request(d)  BY <1>1, ClientRequests
<1>4. Done(d)' = Done(d)
  <2>1. Owes(d)' <=> Owes(d)  BY <1>2 DEF Owes, Replying
  <2>2. CASE UNCHANGED sent  BY <1>2, <2>1, <2>2 DEF Done
  <2>3. ASSUME NEW line \in MaySend(c), ClientSends(c, line) PROVE Done(d)' = Done(d)
    <3>1. /\ sent[d] \in Seq(Line) /\ taken[d] \in Nat /\ taken[d] <= Len(sent[d])
          /\ sent'[d] = sent[d] \/ sent'[d] = Append(sent[d], line)
      BY <1>1, <2>3 DEF TypeOK, SocketTypeOK, ClientSends
    <3> DEFINE k == IF Owes(d) THEN taken[d] - 1 ELSE taken[d]
               s == sent[d]
    <3>2. k \in Nat /\ k <= Len(s) /\ line \in Line
      <4>1. Owes(d) => taken[d] >= 2  BY <1>1 DEF OnTrack, Counted
      <4>2. Len(s) \in Nat
        <5> HIDE DEF Line
        <5> QED  BY <3>1
      <4>3. line \in Line  BY <1>1, <2>3, MaySendLines DEF TypeOK, SocketTypeOK
      <4> QED  BY <3>1, <4>1, <4>2, <4>3
    <3>3. Done(d) = SubSeq(s, 2, k) /\ Done(d)' = SubSeq(sent'[d], 2, k)
      BY <1>2, <2>1 DEF Done
    <3> HIDE DEF Line, k, s
    <3> QED  BY <3>1, <3>2, <3>3, MoreSent DEF s
  <2> QED
    BY <2>2, <2>3
    DEF Client, Reader, Dial, ClientCloses, ClientVanishes, ClientReads
<1> QED  BY <1>2, <1>3, <1>4, Bystander

LEMMA ServerTrack ==
  ASSUME TypeInv, BacklogConsistent, TargetsStay, IdleInv, StoryInv, ReplyInv, [Next]_vars,
         NEW c \in Conns, Server(c), NEW d \in Conns
  PROVE  OnTrack(d)'
<1> USE DEF handlerVars, socketVars, clientVars
<1>1. TypeOK /\ LoopTypeOK /\ OnTrack(d)  BY DEF TypeInv, TypeOK, ReplyInv
<1>2. UNCHANGED <<sent, taken, registry>>
  BY DEF Server, SpawnHandler, TurnAway, CancelHandler
<1>3. Request(d)' = Request(d)  BY <1>2 DEF Request
<1>4. ASSUME UNCHANGED <<pc, job, wire>> PROVE OnTrack(d)'
  <2>1. Done(d)' = Done(d)  BY <1>2, <1>4 DEF Done, Owes, Replying
  <2> QED  BY <1>2, <1>3, <1>4, <2>1, Bystander
<1>5. ASSUME d # c, OthersPut(c), wire'[d] = wire[d] PROVE OnTrack(d)'
  <2>1. Done(d)' = Done(d)  BY <1>2, <1>5 DEF Done, Owes, Replying, OthersPut
  <2> QED  BY <1>2, <1>3, <1>5, <2>1, Bystander DEF OthersPut
<1>6. Accepting(c) \/ Rejecting(c) => task[c] \in Unanswered
  BY <1>1 DEF Accepting, Rejecting, BacklogConsistent, LoopTypeOK, Unanswered
<1>7. CASE SpawnHandler(c)
  <2>1. pc[c] = "idle" /\ pc'[c] = "joining" /\ OthersPut(c) /\ UNCHANGED wire
    BY <1>1, <1>6, <1>7 DEF SpawnHandler, Spawn, IdleInv, OthersPut, TypeOK
  <2>2. CASE d = c
    BY <1>1, <1>2, <2>1, <2>2 DEF OnTrack, Counted, ReplyFits, Kept, InLoop, Owes, Replying
  <2> QED  BY <1>5, <2>1, <2>2
<1>8. CASE TurnAway(c)
  <2>1. pc[c] = "idle" /\ UNCHANGED <<pc, job>> /\ OthersPut(c)
    BY <1>6, <1>8 DEF TurnAway, RejectSent, RejectFails, RejectSuspends, IdleInv, OthersPut
  <2>2. CASE d = c
    BY <1>1, <1>2, <2>1, <2>2 DEF OnTrack, Counted, ReplyFits, Kept, InLoop, Owes, Replying
  <2>3. CASE d # c
    <3>1. wire'[d] = wire[d]
      <4>1. CASE UNCHANGED wire  BY <4>1
      <4>2. CASE WriteLands(c, Error("Server is full"))
        BY <1>1, <2>3, <4>2, WireEffect, OwnMessages DEF ErrorTexts
      <4> QED  BY <1>8, <4>1, <4>2 DEF TurnAway, WriteFails
    <3> QED  BY <1>5, <2>1, <2>3, <3>1
  <2> QED  BY <2>2, <2>3
<1>9. CASE CancelHandler(c)
  <2>1. pc'[c] = "ended" /\ OthersPut(c) /\ UNCHANGED wire
    BY <1>1, <1>9 DEF CancelHandler, OthersPut, TypeOK
  <2> QED  BY <1>5, <2>1, OnTheWayOut
<1> QED  BY <1>7, <1>8, <1>9 DEF Server

LEMMA ReplyStep ==
  /\ TypeInv /\ BacklogConsistent /\ TargetsStay /\ IdleInv /\ EntriesInv /\ StoryInv /\ ReplyInv
  /\ [Next]_vars
  => ReplyInv'
<1> SUFFICES ASSUME TypeInv, BacklogConsistent, TargetsStay, IdleInv, EntriesInv, StoryInv,
                    ReplyInv, [Next]_vars, NEW d \in Conns
             PROVE  OnTrack(d)'
  BY DEF ReplyInv
<1>1. CASE LoopAlone \/ UNCHANGED vars
  <2>1. UNCHANGED <<pc, job, taken, sent, wire, registry>>
    BY <1>1 DEF LoopAlone, vars, handlerVars, socketVars
  <2>2. Done(d)' = Done(d) /\ Request(d)' = Request(d)
    BY <2>1 DEF Done, Request, Owes, Replying
  <2> QED  BY <2>1, <2>2, Bystander
<1>2. ASSUME NEW c \in Conns, Handler(c) \/ JoinTimeout(c) PROVE OnTrack(d)'
  <2>1. CASE d # c  BY <1>2, <2>1, HandlerBystanders
  <2>2. CASE d = c
    BY <1>2, <2>2, HandlerCases, JoinTrack, MapTrack, ReactTrack, SendTrack
  <2> QED  BY <2>1, <2>2
<1> QED  BY <1>1, <1>2, ClientTrack, ServerTrack DEF Next

LEMMA ReplyHolds == Spec => []ReplyInv
<1>1. Init => ReplyInv
  BY DEF Init, SocketInit, ReplyInv, OnTrack, Counted, ReplyFits, Kept, InLoop, Owes, Replying
<1> QED
  BY <1>1, ReplyStep, TypeInvCorrect, ImplementsLoop, BacklogHolds, TargetsKept, EntriesHold,
     StoryHolds, PTL DEF Spec

\* A handler back at its reader has answered each Ping and each ListUsers,
\* in order, on its own client's socket, as long as no second client was
\* welcomed under the name.
THEOREM RequestsAnswered == Spec => []RepliesInOrder
<1>1. ReplyInv => RepliesInOrder
  <2> SUFFICES ASSUME ReplyInv, NEW c \in Conns, pc[c] = "serving", ~Shared(c)
               PROVE  LET asked == OfKind(SubSeq(sent[c], 2, taken[c]), {"Ping", "ListUsers"})
                          given == OfKind(wire[c], {"Pong", "UserList"})
                      IN  /\ Len(asked) = Len(given)
                          /\ \A i \in DOMAIN asked :
                               given[i].kind = IF asked[i].kind = "Ping" THEN "Pong"
                                               ELSE "UserList"
    BY DEF RepliesInOrder, Shared
  <2>1. Done(c) = SubSeq(sent[c], 2, taken[c])  BY DEF Done, Owes, Replying
  <2>2. Answered(Done(c), wire[c])  BY DEF ReplyInv, OnTrack, Kept, InLoop
  <2> QED  BY <2>1, <2>2 DEF Answered, Paired
<1> QED  BY <1>1, ReplyHolds, PTL

-----------------------------------------------------------------------------
(***************************************************************************)
(* Why a client is dropped.  A handler that will leave its loop once its   *)
(* message is written has read a Join after the first.                     *)
(***************************************************************************)
Kicking(c) == pc[c] \in {"locking", "writing"} /\ job[c].then = "kick"

KickInv == \A c \in Conns : Kicking(c) => taken[c] > 1 /\ Request(c).kind = "Join"

\* A handler comes to write an error and leave from a Join, or goes on with it.
LEMMA HandlerKicks ==
  ASSUME TypeInv, ReplyInv, KickInv, NEW c \in Conns, Handler(c) \/ JoinTimeout(c), Kicking(c)'
  PROVE  /\ taken[c] > 1 /\ Request(c).kind = "Join"
         /\ UNCHANGED <<sent, taken>>
<1> USE DEF socketVars, clientVars
<1>1. TypeOK /\ "serving" \in PcStates  BY DEF TypeInv, PcStates
<1>2. ASSUME NEW to \in SUBSET Conns, NEW msg \in Outgoing, NEW then \in Continuations,
             Writes(c, to, msg, then)
      PROVE  job'[c].then = then
  BY <1>1, <1>2, WritesEffect
<1>3. ASSUME NEW t \in ErrorTexts, Refuses(c, t) PROVE FALSE
  BY <1>1, <1>3, RefusesEffect DEF Kicking
<1>4. CASE JoinOtherMessage(c) \/ JoinEof(c) \/ JoinTimeout(c)
  BY <1>3, <1>4 DEF JoinOtherMessage, JoinEof, JoinTimeout, ErrorTexts
<1>5. CASE Lookup(c)
  <2>1. /\ {c} \in SUBSET Conns /\ {"close", "welcome"} \subseteq Continuations
        /\ Welcome \in Outgoing /\ Error("Username already taken") \in Outgoing
    BY OwnMessages DEF Continuations, ErrorTexts
  <2> HIDE DEF Outgoing, Continuations
  <2>2. job'[c].then \in {"close", "welcome"}  BY <1>2, <1>5, <2>1 DEF Lookup
  <2> QED  BY <2>2 DEF Kicking
<1>6. CASE JoinReads(c) \/ ServeReads(c) \/ LeaveOnRead(c)
  BY <1>1, <1>6, QueuesEffect DEF JoinReads, ServeReads, LeaveOnRead, Kicking
<1>7. CASE InsertWriter(c) \/ ReactUnnamed(c)
  BY <1>1, <1>7, GoesEffect DEF InsertWriter, ReactUnnamed, Kicking
<1>8. CASE JoinUnreadable(c) \/ PanicOnRead(c) \/ RemoveWriter(c)
  BY <1>1, <1>8, EndsEffect DEF JoinUnreadable, PanicOnRead, RemoveWriter, Kicking
<1>9. CASE Reacting(c)
  <2>1. ~Goes(c, "serving")  BY <1>1, GoesEffect DEF Kicking
  <2>2. PICK to \in SUBSET InMap, msg \in Outgoing, then \in {"reply", "kick"} :
           Writes(c, to, msg, then) /\ (then = "kick" => Request(c).kind = "Join")
    BY <1>9, <2>1, ReactShape
  <2>3. to \in SUBSET Conns /\ then \in Continuations
    BY <1>1, InMapConns DEF Continuations
  <2>4. then = "kick"  BY <1>2, <2>2, <2>3 DEF Kicking
  <2>5. pc[c] = "reacting" /\ UNCHANGED <<sent, taken>>
    BY <1>9, ReactShape DEF GrantedRead
  <2>6. taken[c] \in Nat /\ taken[c] >= 2
    BY <1>1, <2>5, LinesTypes DEF ReplyInv, OnTrack, Counted, Owes
  <2> QED  BY <2>2, <2>4, <2>5, <2>6
<1>10. CASE Sending(c)
  <2>1. UNCHANGED <<sent, taken>>  BY <1>10, SendShape
  <2>2. CASE Suspends(c)
    BY <1>1, <2>1, <2>2, SuspendsEffect DEF KickInv, Kicking, Suspends
  <2>3. ASSUME NEW ok \in BOOLEAN, Continues(c, ok) PROVE FALSE
    <3>1. ~(Queues(c, "inserting") \/ Queues(c, "removing"))
      BY <1>1, QueuesEffect DEF Kicking
    <3>2. ~Goes(c, "serving")  BY <1>1, GoesEffect DEF Kicking
    <3>3. ~Ends(c)  BY <1>1, EndsEffect DEF Kicking
    <3>4. ~Writes(c, job[c].todo, job[c].msg, "reply")
      <4> DEFINE to == job[c].todo  msg == job[c].msg
      <4>1. to \in SUBSET Conns /\ msg \in Outgoing /\ "reply" \in Continuations
        BY <1>10, SendShape DEF Continuations
      <4> HIDE DEF to, msg, Outgoing, Continuations
      <4>2. ~Writes(c, to, msg, "reply")  BY <1>2, <4>1 DEF Kicking
      <4> QED  BY <4>2 DEF to, msg
    <3> QED  BY <2>3, <3>1, <3>2, <3>3, <3>4 DEF Continues
  <2> QED  BY <1>10, <2>2, <2>3, SendShape
<1> QED  BY <1>4, <1>5, <1>6, <1>7, <1>8, <1>9, <1>10, HandlerCases

LEMMA KickStep ==
  TypeInv /\ BacklogConsistent /\ IdleInv /\ ReplyInv /\ KickInv /\ [Next]_vars => KickInv'
<1> SUFFICES ASSUME TypeInv, BacklogConsistent, IdleInv, ReplyInv, KickInv, [Next]_vars,
                    NEW d \in Conns, Kicking(d)'
             PROVE  (taken[d] > 1 /\ Request(d).kind = "Join")'
  BY DEF KickInv
<1> USE DEF handlerVars, socketVars, clientVars
<1>1. TypeOK  BY DEF TypeInv
<1>2. ASSUME Kicking(d), taken'[d] = taken[d], taken[d] > 0 => Request(d)' = Request(d)
      PROVE  (taken[d] > 1 /\ Request(d).kind = "Join")'
  <2>1. taken[d] \in Nat  BY <1>1, LinesTypes
  <2> QED  BY <1>2, <2>1 DEF KickInv
<1>3. CASE LoopAlone \/ UNCHANGED vars
  BY <1>2, <1>3 DEF LoopAlone, vars, Kicking, Request
<1>4. ASSUME NEW c \in Conns, Client(c) \/ Reader(c)
      PROVE  (taken[d] > 1 /\ Request(d).kind = "Join")'
  <2>1. UNCHANGED <<pc, job, taken>>
    BY <1>4 DEF Client, Reader, Dial, ClientSends, ClientCloses, ClientVanishes, ClientReads
  <2> QED  BY <1>1, <1>2, <1>4, <2>1, ClientRequests DEF Kicking
<1>5. ASSUME NEW c \in Conns, Server(c)
      PROVE  (taken[d] > 1 /\ Request(d).kind = "Join")'
  <2>1. UNCHANGED <<sent, taken>> /\ Kicking(d)
    BY <1>1, <1>5
    DEF Server, SpawnHandler, TurnAway, CancelHandler, Kicking, TypeOK
  <2> QED  BY <1>2, <2>1 DEF Request
<1>6. ASSUME NEW c \in Conns, Handler(c) \/ JoinTimeout(c)
      PROVE  (taken[d] > 1 /\ Request(d).kind = "Join")'
  <2>1. CASE d = c  BY <1>6, <2>1, HandlerKicks DEF Request
  <2>2. CASE d # c
    <3>1. UNCHANGED sent /\ taken'[d] = taken[d] /\ Kicking(d)
      BY <1>6, <2>2, HandlerFrame DEF OthersPut, Kicking
    <3> QED  BY <1>2, <3>1 DEF Request
  <2> QED  BY <2>1, <2>2
<1> QED  BY <1>3, <1>4, <1>5, <1>6 DEF Next

LEMMA KickHolds == Spec => []KickInv
<1>1. Init => KickInv  BY DEF Init, KickInv, Kicking
<1> QED
  BY <1>1, KickStep, TypeInvCorrect, ImplementsLoop, BacklogHolds, EntriesHold, ReplyHolds, PTL
  DEF Spec

\* What ends the service of c, in the step that does.
Cause(c) ==
  \/ AtEof(c)
  \/ taken'[c] > 1 /\ sent[c][taken'[c]].kind \in {"Join"} \cup Unreadable
  \/ pc[c] \in {"locking", "writing"} /\ peer[job[c].at] = "gone"
  \/ \E d \in Conns \ {c} : Welcomed(d) /\ name[d] = name[c]

\* A step of its own handler, that does not touch the map: it leaves the loop.
LEMMA LeavesWithCause ==
  ASSUME TypeInv, ReplyInv, KickInv, NEW c \in Conns, Handler(c) \/ JoinTimeout(c),
         InLoop(c), ~InLoop(c)'
  PROVE  Cause(c)
<1> USE DEF socketVars, clientVars
<1>1. TypeOK /\ "serving" \in PcStates  BY DEF TypeInv, PcStates
<1>2. /\ pc[c] \in {"serving", "reacting", "locking", "writing"}
      /\ pc[c] \in {"locking", "writing"} => job[c].then \in {"reply", "kick"}
  BY DEF InLoop
<1>3. taken[c] \in Nat /\ taken[c] >= 1
  BY <1>1, LinesTypes DEF ReplyInv, OnTrack, Counted
<1>4. ASSUME Take(c), NextLine(c).kind \in Unreadable PROVE Cause(c)
  <2>1. taken'[c] = taken[c] + 1  BY <1>1, <1>4, TakeEffect DEF TypeOK, SocketTypeOK
  <2> QED  BY <1>3, <1>4, <2>1 DEF Cause, NextLine
<1>5. CASE LeaveOnRead(c)
  BY <1>4, <1>5 DEF LeaveOnRead, Cause, Unreadable
<1>6. CASE PanicOnRead(c)
  BY <1>4, <1>6 DEF PanicOnRead, Unreadable
<1>7. CASE Sending(c)
  <2>1. UNCHANGED <<sent, taken>>  BY <1>7, SendShape
  <2>2. CASE Suspends(c)
    BY <1>1, <1>2, <2>2, SuspendsEffect DEF InLoop, Suspends
  <2>3. CASE WriteFails(job[c].at)
    BY <1>7, <2>3, SendShape DEF WriteFails, Cause
  <2>4. CASE Continues(c, TRUE)
    <3>1. ~Goes(c, "serving")  BY <1>1, GoesEffect DEF InLoop
    <3>2. ~Writes(c, job[c].todo, job[c].msg, "reply")
      <4> DEFINE to == job[c].todo  msg == job[c].msg
      <4>1. to \in SUBSET Conns /\ msg \in Outgoing /\ "reply" \in Continuations
        BY <1>7, SendShape DEF Continuations
      <4> HIDE DEF to, msg, Outgoing, Continuations
      <4>2. Writes(c, to, msg, "reply") => pc'[c] = "locking" /\ job'[c].then = "reply"
        BY <1>1, <4>1, WritesEffect
      <4>3. ~Writes(c, to, msg, "reply")  BY <4>2 DEF InLoop
      <4> QED  BY <4>3 DEF to, msg
    <3>3. Kicking(c)
      <4>1. job[c].then \in {"reply", "kick"} /\ pc[c] \in {"locking", "writing"}
        BY <1>2, <1>7, SendShape
      <4> QED  BY <2>4, <3>1, <3>2, <4>1 DEF Continues, Kicking
    <3> QED  BY <2>1, <3>3 DEF KickInv, Cause, Request
  <2> QED  BY <1>7, <2>2, <2>3, <2>4, SendShape
<1>8. CASE ServeReads(c)
  BY <1>1, <1>8, QueuesEffect DEF ServeReads, InLoop
<1>9. CASE ReactUnnamed(c)
  BY <1>1, <1>9, GoesEffect DEF ReactUnnamed, InLoop
<1>10. CASE Reacting(c)
  <2>1. ~Goes(c, "serving")  BY <1>1, GoesEffect DEF InLoop
  <2>2. PICK to \in SUBSET InMap, msg \in Outgoing, then \in {"reply", "kick"} :
           Writes(c, to, msg, then)
    BY <1>10, <2>1, ReactShape
  <2>3. to \in SUBSET Conns /\ then \in Continuations
    BY <1>1, InMapConns DEF Continuations
  <2>4. pc'[c] = "locking" /\ job'[c].then = then  BY <1>1, <2>2, <2>3, WritesEffect
  <2> QED  BY <2>4 DEF InLoop
<1> QED
  BY <1>2, <1>5, <1>6, <1>7, <1>8, <1>9, <1>10, HandlerCases
  DEF JoinReads, JoinOtherMessage, JoinUnreadable, JoinEof, JoinTimeout, Lookup, InsertWriter,
      RemoveWriter, GrantedWrite, GrantedRead, Joining

\* One that takes the writer of c out of the map, or puts another in its place,
\* is of a client that was welcomed under the same name.
LEMMA DisplacedBySharer ==
  ASSUME TypeInv, EntriesInv, StoryInv, NEW c \in Conns, NEW d \in Conns \ {c},
         Handler(d) \/ JoinTimeout(d), c \in InMap, c \notin InMap'
  PROVE  Welcomed(d) /\ name[d] = name[c]
<1>1. PICK n \in Registered : registry[n] = c  BY DEF InMap
<1>2. name[c] = n  BY <1>1 DEF EntriesInv, EntryOK
<1>3. InsertWriter(d) \/ RemoveWriter(d)
  <2>1. ~UNCHANGED registry  BY DEF InMap, Registered
  <2> QED  BY <2>1, HandlerFrame
<1>4. registry'[n] # c  BY <1>1, NoConnAssumption DEF InMap, Registered
<1>5. name[d] = n
  BY <1>1, <1>3, <1>4 DEF InsertWriter, RemoveWriter, TypeInv, TypeOK, Registered
<1>6. Welcomed(d)
  BY <1>3 DEF InsertWriter, RemoveWriter, GrantedWrite, GrantedRead, StoryInv, Story, Inside
<1> QED  BY <1>2, <1>5, <1>6

LEMMA DroppedStep ==
  ASSUME TypeInv, BacklogConsistent, IdleInv, EntriesInv, StoryInv, ReplyInv, KickInv,
         [Next]_vars, NEW c \in Conns, Served(c), ~Served(c)', ~Down
  PROVE  Cause(c)
<1> USE DEF handlerVars, socketVars, clientVars
<1>1. TypeOK /\ LoopTypeOK  BY DEF TypeInv, TypeOK
<1>2. InLoop(c) /\ c \in InMap  BY DEF Served
<1>3. ASSUME UNCHANGED registry, pc'[c] = pc[c], job'[c] = job[c] PROVE FALSE
  BY <1>2, <1>3 DEF Served, InLoop, InMap, Registered
<1>4. CASE LoopAlone \/ UNCHANGED vars  BY <1>3, <1>4 DEF LoopAlone, vars
<1>5. ASSUME NEW d \in Conns, Client(d) \/ Reader(d) PROVE Cause(c)
  BY <1>3, <1>5
  DEF Client, Reader, Dial, ClientSends, ClientCloses, ClientVanishes, ClientReads
<1>6. ASSUME NEW d \in Conns, Server(d) PROVE Cause(c)
  <2>1. CASE TurnAway(d)  BY <1>3, <2>1 DEF TurnAway
  <2>2. CASE CancelHandler(d)  BY <2>2 DEF CancelHandler, Cancel, Down
  <2>3. CASE SpawnHandler(d)
    <3>1. pc[d] = "idle"
      BY <1>1, <2>3
      DEF SpawnHandler, Spawn, Accepting, BacklogConsistent, LoopTypeOK, IdleInv, Unanswered
    <3>2. d # c  BY <1>2, <3>1 DEF InLoop
    <3> QED  BY <1>1, <1>3, <2>3, <3>2 DEF SpawnHandler, TypeOK
  <2> QED  BY <1>6, <2>1, <2>2, <2>3 DEF Server
<1>7. ASSUME NEW d \in Conns, Handler(d) \/ JoinTimeout(d) PROVE Cause(c)
  <2>1. CASE d = c
    <3>1. CASE ~InLoop(c)'  BY <1>2, <1>7, <2>1, <3>1, LeavesWithCause
    <3>2. CASE InLoop(c)'
      <4>1. c \notin InMap' /\ ~UNCHANGED registry
        BY <1>2, <3>2 DEF Served, InMap, Registered
      <4>2. InsertWriter(c) \/ RemoveWriter(c)  BY <1>7, <2>1, <4>1, HandlerFrame
      <4> QED
        BY <1>2, <4>2 DEF InsertWriter, RemoveWriter, GrantedWrite, GrantedRead, InLoop
    <3> QED  BY <3>1, <3>2
  <2>2. CASE d # c
    <3>1. pc'[c] = pc[c] /\ job'[c] = job[c]  BY <1>7, <2>2, HandlerFrame DEF OthersPut
    <3>2. c \notin InMap'  BY <1>2, <3>1 DEF Served, InLoop
    <3>3. Welcomed(d) /\ name[d] = name[c]
      BY <1>2, <1>7, <2>2, <3>2, DisplacedBySharer
    <3> QED  BY <2>2, <3>3 DEF Cause
  <2> QED  BY <2>1, <2>2
<1> QED  BY <1>4, <1>5, <1>6, <1>7 DEF Next

\* A client that is being served goes on being served, its stream open and its
\* handler in the loop, until its own stream has ended, its last line was not
\* one to serve, or a client its handler is writing to is gone; or until
\* another client that was welcomed under its name takes or removes its entry.
THEOREM DroppedWithCause == Spec => DroppedForCause
<1>1. /\ TypeInv /\ BacklogConsistent /\ IdleInv /\ EntriesInv /\ StoryInv /\ ReplyInv
      /\ KickInv /\ [Next]_vars
      => [\A c \in Conns : Served(c) /\ ~Served(c)' /\ ~Down =>
            \/ AtEof(c)
            \/ taken'[c] > 1 /\ sent[c][taken'[c]].kind \in {"Join"} \cup Unreadable
            \/ pc[c] \in {"locking", "writing"} /\ peer[job[c].at] = "gone"
            \/ \E d \in Conns \ {c} : Welcomed(d) /\ name[d] = name[c]]_vars
  BY DroppedStep DEF Cause
<1> QED
  BY <1>1, TypeInvCorrect, ImplementsLoop, BacklogHolds, EntriesHold, StoryHolds, ReplyHolds,
     KickHolds, PTL
  DEF Spec, DroppedForCause

-----------------------------------------------------------------------------
(***************************************************************************)
(* Nobody waits for nothing.  The line for the map's lock holds exactly    *)
(* the handlers that wait for it, each once; a handler past its start and  *)
(* before its end has a running task; one that waits to react has taken a  *)
(* line that can be read; and a connection not dialled has no task.        *)
(***************************************************************************)
Waits == {"lookup", "inserting", "reacting", "removing"}

Holds(q, c) == \E i \in DOMAIN q : q[i] = c
Distinct(q) == \A i, j \in DOMAIN q : q[i] = q[j] => i = j

QueueInv == ~Down => Distinct(queue) /\ \A c \in Conns : Holds(queue, c) <=> pc[c] \in Waits
WorkInv == ~Down => \A c \in Conns : pc[c] \notin {"idle", "ended"} => task[c] = "running"
ReadInv == \A c \in Conns : pc[c] = "reacting" => Request(c).kind \notin Unreadable
DialInv == \A c \in Conns : peer[c] = "away" => task[c] = "absent"

WaitInv == QueueInv /\ WorkInv /\ ReadInv /\ DialInv

\* Getting in line: one more, at the back.
LEMMA LineGrows ==
  ASSUME NEW S, NEW q \in Seq(S), NEW c \in S, Distinct(q), ~Holds(q, c)
  PROVE  /\ Distinct(Append(q, c))
         /\ \A d \in S : Holds(Append(q, c), d) <=> Holds(q, d) \/ d = c
<1> DEFINE t == Append(q, c)
<1>1. /\ Len(q) \in Nat /\ DOMAIN q = 1..Len(q) /\ DOMAIN t = 1..(Len(q) + 1)
      /\ \A i \in 1..Len(q) : t[i] = q[i]
      /\ t[Len(q) + 1] = c
  OBVIOUS
<1> HIDE DEF t
<1>2. \A i \in DOMAIN t : i \in DOMAIN q \/ i = Len(q) + 1  BY <1>1
<1>3. \A i \in DOMAIN q : i \in DOMAIN t /\ t[i] = q[i]  BY <1>1
<1>4. Len(q) + 1 \in DOMAIN t  BY <1>1
<1>5. Distinct(t)  BY <1>1, <1>2, <1>3 DEF Distinct, Holds
<1>6. \A d \in S : Holds(t, d) <=> Holds(q, d) \/ d = c
  BY <1>1, <1>2, <1>3, <1>4 DEF Holds
<1> QED  BY <1>5, <1>6 DEF t

\* Leaving it: the first goes, and nobody else.
LEMMA LineShrinks ==
  ASSUME NEW S, NEW q \in Seq(S), q # <<>>, Distinct(q)
  PROVE  /\ Distinct(Tail(q))
         /\ \A d \in S : Holds(Tail(q), d) <=> Holds(q, d) /\ d # Head(q)
<1> DEFINE t == Tail(q)
<1>1. /\ Len(q) \in Nat \ {0} /\ DOMAIN q = 1..Len(q) /\ DOMAIN t = 1..(Len(q) - 1)
      /\ \A i \in 1..(Len(q) - 1) : t[i] = q[i + 1]
      /\ Head(q) = q[1]
  BY TailShifts
<1> HIDE DEF t
<1>2. \A i \in DOMAIN t : i + 1 \in DOMAIN q /\ i + 1 # 1 /\ t[i] = q[i + 1]  BY <1>1
<1>3. \A i \in DOMAIN q : i = 1 \/ (i - 1 \in DOMAIN t /\ t[i - 1] = q[i])  BY <1>1
<1>4. 1 \in DOMAIN q  BY <1>1
<1>5. Distinct(t)
  <2> SUFFICES ASSUME NEW i \in DOMAIN t, NEW j \in DOMAIN t, t[i] = t[j] PROVE i = j
    BY DEF Distinct
  <2>1. i + 1 = j + 1  BY <1>2 DEF Distinct
  <2> QED  BY <1>1, <2>1
<1>6. ASSUME NEW d \in S, Holds(t, d) PROVE Holds(q, d) /\ d # Head(q)
  BY <1>1, <1>2, <1>4, <1>6 DEF Holds, Distinct
<1>7. ASSUME NEW d \in S, Holds(q, d), d # Head(q) PROVE Holds(t, d)
  BY <1>1, <1>3, <1>7 DEF Holds
<1> QED  BY <1>5, <1>6, <1>7 DEF t

\* A step of a handler joins the line, leaves it at the front, or has nothing
\* to do with it.
JoinsLine(c) == pc[c] \notin Waits /\ pc'[c] \in Waits /\ queue' = Append(queue, c)

LeavesLine(c) ==
  /\ pc[c] \in Waits /\ pc'[c] \notin Waits
  /\ queue # <<>> /\ Head(queue) = c /\ queue' = Tail(queue)

OffLine(c) == pc[c] \notin Waits /\ pc'[c] \notin Waits /\ UNCHANGED queue

\* Its task runs on, unless this is its end.
TaskOf(c) ==
  \/ UNCHANGED task
  \/ pc'[c] = "ended" /\ \A d \in Conns \ {c} : task'[d] = task[d]

LEMMA LineCases ==
  ASSUME TypeInv, NEW c \in Conns, Handler(c) \/ JoinTimeout(c)
  PROVE  /\ JoinsLine(c) \/ LeavesLine(c) \/ OffLine(c)
         /\ TaskOf(c)
<1>1. /\ pc \in [Conns -> PcStates] /\ TypeOK /\ queue \in Seq(Conns)
      /\ task \in [Conns -> TaskStates]
  BY DEF TypeInv, TypeOK, LoopTypeOK
<1>2. ASSUME NEW where, Goes(c, where) PROVE pc'[c] = where /\ TaskOf(c)
  BY <1>1, <1>2 DEF Goes, loopVars, TaskOf
<1>3. ASSUME NEW to, NEW msg, NEW then, Writes(c, to, msg, then)
      PROVE  pc'[c] = "locking" /\ TaskOf(c)
  BY <1>1, <1>3 DEF Writes, loopVars, TaskOf
<1>4. ASSUME Ends(c) PROVE pc'[c] = "ended" /\ TaskOf(c)
  BY <1>1, <1>4 DEF Ends, Finish, TaskOf
<1>5. ASSUME NEW where \in Waits, Queues(c, where), pc[c] \notin Waits
      PROVE  JoinsLine(c) /\ TaskOf(c)
  BY <1>2, <1>5 DEF Queues, JoinsLine
<1>6. CASE JoinReads(c) \/ ServeReads(c) \/ LeaveOnRead(c)
  BY <1>5, <1>6 DEF JoinReads, ServeReads, LeaveOnRead, Joining, Waits
<1>7. CASE JoinOtherMessage(c) \/ JoinEof(c) \/ JoinTimeout(c)
  BY <1>3, <1>7 DEF JoinOtherMessage, JoinEof, JoinTimeout, Refuses, Joining, OffLine, Waits
<1>8. CASE JoinUnreadable(c) \/ PanicOnRead(c)
  BY <1>4, <1>8 DEF JoinUnreadable, PanicOnRead, Joining, OffLine, Waits
<1>9. CASE Lookup(c)
  BY <1>3, <1>9 DEF Lookup, GrantedRead, LeavesLine, Waits
<1>10. CASE InsertWriter(c) \/ RemoveWriter(c)
  BY <1>2, <1>4, <1>10 DEF InsertWriter, RemoveWriter, GrantedWrite, GrantedRead, LeavesLine, Waits
<1>11. CASE ReactUnnamed(c) \/ Reacting(c)
  BY <1>2, <1>3, <1>11, ReactShape DEF ReactUnnamed, GrantedRead, LeavesLine, Waits
<1>12. CASE Sending(c)
  <2>1. pc[c] \notin Waits  BY <1>12, SendShape DEF Waits
  <2>2. CASE Suspends(c)
    BY <1>1, <2>1, <2>2 DEF Suspends, loopVars, OffLine, TaskOf, Waits
  <2>3. ASSUME NEW ok \in BOOLEAN, Continues(c, ok)
        PROVE  (JoinsLine(c) \/ OffLine(c)) /\ TaskOf(c)
    BY <1>2, <1>3, <1>4, <1>5, <2>1, <2>3 DEF Continues, OffLine, Waits
  <2> QED  BY <1>12, <2>2, <2>3, SendShape
<1> QED
  BY <1>6, <1>7, <1>8, <1>9, <1>10, <1>11, <1>12, HandlerCases

-----------------------------------------------------------------------------
\* A server that is up was up.
LEMMA StaysUp ==
  ASSUME [Next]_vars, ~Down'
  PROVE  ~Down
<1> USE DEF Down
<1>1. ASSUME NEW c \in Conns, Connect(c) \/ Spawn(c) \/ Finish(c) \/ Reap(c) \/ Cancel(c)
      PROVE  ~Down
  BY <1>1 DEF Connect, Spawn, Finish, Reap, Cancel
<1>2. ASSUME NEW c \in Conns, RejectSuspends(c) \/ RejectSent(c) \/ RejectFails(c)
      PROVE  ~Down
  BY <1>2 DEF RejectSuspends, RejectSent, RejectFails, Rejecting, Accepting, EndWith
<1>3. CASE AcceptFails \/ SendSignal \/ Break \/ DropFuture \/ UNCHANGED loopVars
  BY <1>3 DEF AcceptFails, SendSignal, Break, DropFuture, EndWith, loopVars
<1> QED  BY <1>1, <1>2, <1>3, LoopStep DEF LoopNext

\* The steps that are not a handler's move one handler to its start, when the
\* server is up, or none.
LEMMA OtherPlaces ==
  ASSUME TypeInv, BacklogConsistent, IdleInv, ~Down',
         \/ LoopAlone \/ UNCHANGED vars
         \/ \E c \in Conns : Client(c) \/ Reader(c) \/ Server(c)
  PROVE  /\ UNCHANGED queue
         /\ \/ UNCHANGED pc
            \/ \E c \in Conns : /\ SpawnHandler(c) /\ pc[c] = "idle" /\ pc'[c] = "joining"
                                /\ \A d \in Conns \ {c} : pc'[d] = pc[d]
<1> USE DEF handlerVars
<1>1. CASE LoopAlone \/ UNCHANGED vars  BY <1>1 DEF LoopAlone, vars
<1>2. ASSUME NEW c \in Conns, Client(c) \/ Reader(c)
      PROVE  UNCHANGED <<pc, queue>>
  BY <1>2 DEF Client, Reader
<1>3. ASSUME NEW c \in Conns, TurnAway(c) \/ CancelHandler(c)
      PROVE  UNCHANGED <<pc, queue>>
  BY <1>3 DEF TurnAway, CancelHandler, Cancel, Down
<1>4. ASSUME NEW c \in Conns, SpawnHandler(c)
      PROVE  /\ UNCHANGED queue /\ pc[c] = "idle" /\ pc'[c] = "joining"
             /\ \A d \in Conns \ {c} : pc'[d] = pc[d]
  <2>1. task[c] = "queued"
    BY <1>4, TailShifts
    DEF SpawnHandler, Spawn, Accepting, BacklogConsistent, TypeInv, TypeOK, LoopTypeOK
  <2> QED  BY <1>4, <2>1 DEF SpawnHandler, IdleInv, Unanswered, TypeInv, TypeOK
<1> QED  BY <1>1, <1>2, <1>3, <1>4 DEF Server

LEMMA QueueStep ==
  ASSUME TypeInv, BacklogConsistent, IdleInv, QueueInv, [Next]_vars
  PROVE  QueueInv'
<1> SUFFICES ASSUME ~Down'
             PROVE  /\ Distinct(queue')
                    /\ \A d \in Conns : Holds(queue', d) <=> pc'[d] \in Waits
  BY DEF QueueInv
<1>1. /\ queue \in Seq(Conns)
      /\ Distinct(queue)
      /\ \A d \in Conns : Holds(queue, d) <=> pc[d] \in Waits
  BY StaysUp DEF QueueInv, TypeInv, TypeOK
<1>2. ASSUME NEW c \in Conns, Handler(c) \/ JoinTimeout(c)
      PROVE  Distinct(queue') /\ \A d \in Conns : Holds(queue', d) <=> pc'[d] \in Waits
  <2>1. \A d \in Conns \ {c} : pc'[d] = pc[d]  BY <1>2, HandlerAlone DEF OthersPut
  <2>2. CASE JoinsLine(c)
    <3>1. ~Holds(queue, c)  BY <1>1, <2>2 DEF JoinsLine
    <3> QED  BY <1>1, <2>1, <2>2, <3>1, LineGrows DEF JoinsLine
  <2>3. CASE LeavesLine(c)  BY <1>1, <2>1, <2>3, LineShrinks DEF LeavesLine
  <2>4. CASE OffLine(c)  BY <1>1, <2>1, <2>4 DEF OffLine
  <2> QED  BY <1>2, <2>2, <2>3, <2>4, LineCases
<1>3. CASE \/ LoopAlone \/ UNCHANGED vars
           \/ \E c \in Conns : Client(c) \/ Reader(c) \/ Server(c)
  BY <1>1, <1>3, OtherPlaces DEF Waits
<1> QED  BY <1>2, <1>3 DEF Next

LEMMA WorkStep ==
  ASSUME TypeInv, BacklogConsistent, IdleInv, WorkInv, [Next]_vars
  PROVE  WorkInv'
<1> SUFFICES ASSUME ~Down', NEW d \in Conns, pc'[d] \notin {"idle", "ended"}
             PROVE  task'[d] = "running"
  BY DEF WorkInv
<1>1. /\ LoopTypeOK
      /\ pc[d] \notin {"idle", "ended"} => task[d] = "running"
  BY StaysUp DEF WorkInv, TypeInv, TypeOK
<1>2. ASSUME NEW c \in Conns, Handler(c) \/ JoinTimeout(c) PROVE task'[d] = "running"
  BY <1>1, <1>2, LineCases, HandlerAlone, HandlerAtWork DEF TaskOf, OthersPut
<1>3. CASE \/ LoopAlone \/ UNCHANGED vars
           \/ \E c \in Conns : Client(c) \/ Reader(c) \/ Server(c)
  <2>1. CASE \E c \in Conns : SpawnHandler(c) /\ \A e \in Conns \ {c} : pc'[e] = pc[e]
    BY <1>1, <2>1 DEF SpawnHandler, Spawn, LoopTypeOK
  <2>2. CASE UNCHANGED pc
    <3>1. task[d] = "running"  BY <1>1, <2>2
    <3>2. CASE LoopAlone \/ UNCHANGED vars
      BY <1>1, <3>1, <3>2
      DEF LoopAlone, AcceptFails, SendSignal, Break, DropFuture, Reap, EndWith, vars, loopVars,
          Down, LoopTypeOK
    <3>3. ASSUME NEW c \in Conns, Client(c) \/ Reader(c) PROVE task'[d] = "running"
      BY <1>1, <3>1, <3>3 DEF Client, Dial, Connect, Reader, loopVars, LoopTypeOK
    <3>4. ASSUME NEW c \in Conns, Server(c) PROVE task'[d] = "running"
      <4>1. CASE SpawnHandler(c)
        BY <1>1, <3>1, <4>1 DEF SpawnHandler, Spawn, LoopTypeOK
      <4>2. CASE TurnAway(c)
        <5>1. Accepting(c) => task[c] = "queued"
          BY <1>1, TailShifts DEF Accepting, BacklogConsistent, LoopTypeOK
        <5> QED
          BY <1>1, <3>1, <4>2, <5>1
          DEF TurnAway, RejectSent, RejectFails, RejectSuspends, Rejecting, EndWith, LoopTypeOK
      <4>3. CASE CancelHandler(c)  BY <4>3 DEF CancelHandler, Cancel, Down
      <4> QED  BY <3>4, <4>1, <4>2, <4>3 DEF Server
    <3> QED  BY <1>3, <3>2, <3>3, <3>4
  <2> QED  BY <1>3, <2>1, <2>2, OtherPlaces
<1> QED  BY <1>2, <1>3 DEF Next

\* A handler gets in line to react with the line it has just taken.
LEMMA ReactsToRead ==
  ASSUME TypeInv, NEW c \in Conns, Handler(c) \/ JoinTimeout(c), pc'[c] = "reacting"
  PROVE  ServeReads(c)
<1>1. pc \in [Conns -> PcStates]  BY DEF TypeInv, TypeOK
<1>2. ASSUME NEW where, Goes(c, where) PROVE pc'[c] = where
  BY <1>1, <1>2 DEF Goes
<1>3. \A to, msg, then : ~Writes(c, to, msg, then)  BY <1>1 DEF Writes
<1>4. ~Ends(c)  BY <1>1 DEF Ends
<1>5. ASSUME NEW where, Queues(c, where) PROVE pc'[c] = where  BY <1>2, <1>5 DEF Queues
<1>6. ~JoinReads(c) /\ ~LeaveOnRead(c)  BY <1>5 DEF JoinReads, LeaveOnRead
<1>7. ~JoinOtherMessage(c) /\ ~JoinEof(c) /\ ~JoinTimeout(c) /\ ~Lookup(c)
  BY <1>3 DEF JoinOtherMessage, JoinEof, JoinTimeout, Refuses, Lookup
<1>8. ~JoinUnreadable(c) /\ ~PanicOnRead(c) /\ ~RemoveWriter(c)
  BY <1>4 DEF JoinUnreadable, PanicOnRead, RemoveWriter
<1>9. ~InsertWriter(c) /\ ~ReactUnnamed(c)  BY <1>2 DEF InsertWriter, ReactUnnamed
<1>10. ~Reacting(c)  BY <1>2, <1>3, ReactShape
<1>11. ~Sending(c)
  <2>1. ~Suspends(c)  BY <1>1 DEF Suspends
  <2>2. ASSUME NEW ok \in BOOLEAN PROVE ~Continues(c, ok)
    BY <1>2, <1>3, <1>4, <1>5 DEF Continues
  <2> QED  BY <2>1, <2>2, SendShape
<1> QED  BY <1>6, <1>7, <1>8, <1>9, <1>10, <1>11, HandlerCases

LEMMA ReadStep ==
  ASSUME TypeInv, ReadInv, [Next]_vars
  PROVE  ReadInv'
<1> USE DEF socketVars, clientVars, handlerVars
<1> SUFFICES ASSUME NEW d \in Conns, pc'[d] = "reacting"
             PROVE  Request(d)'.kind \notin Unreadable
  BY DEF ReadInv
<1>1. /\ TypeOK /\ taken \in [Conns -> Nat]
      /\ pc[d] = "reacting" => taken[d] > 0 /\ Request(d).kind \notin Unreadable
  BY DEF ReadInv, TypeInv, Sound, TypeOK, SocketTypeOK
<1>2. CASE pc[d] = "reacting" /\ Request(d)' = Request(d)  BY <1>1, <1>2
<1>3. ASSUME NEW c \in Conns, Handler(c) \/ JoinTimeout(c)
      PROVE  Request(d)'.kind \notin Unreadable
  <2>1. CASE c = d
    <3>1. ServeReads(d)  BY <1>3, <2>1, ReactsToRead
    <3>2. /\ taken'[d] = taken[d] + 1 /\ sent' = sent
          /\ NextLine(d).kind \notin Unreadable
      BY <1>1, <3>1 DEF ServeReads, Take
    <3> QED  BY <3>2 DEF Request, NextLine
  <2>2. CASE c # d
    BY <1>2, <1>3, <2>2, HandlerFrame DEF OthersPut, Request
  <2> QED  BY <2>1, <2>2
<1>4. ASSUME NEW c \in Conns, Client(c) \/ Reader(c) PROVE Request(d)'.kind \notin Unreadable
  BY <1>1, <1>2, <1>4, ClientRequests DEF Client, Reader
<1>5. ASSUME NEW c \in Conns, Server(c) PROVE Request(d)'.kind \notin Unreadable
  BY <1>1, <1>2, <1>5
  DEF Server, SpawnHandler, TurnAway, CancelHandler, Request, TypeOK
<1>6. CASE LoopAlone \/ UNCHANGED vars
  BY <1>2, <1>6 DEF LoopAlone, vars, Request
<1> QED  BY <1>3, <1>4, <1>5, <1>6 DEF Next

LEMMA DialStep ==
  ASSUME TypeInv, BacklogConsistent, WorkInv, DialInv, [Next]_vars
  PROVE  DialInv'
<1> USE DEF socketVars, clientVars
<1> SUFFICES ASSUME NEW d \in Conns, peer'[d] = "away" PROVE task'[d] = "absent"
  BY DEF DialInv
<1>1. LoopTypeOK /\ peer \in [Conns -> PeerStates]
  BY DEF TypeInv, TypeOK, SocketTypeOK
<1>2. ASSUME NEW c \in Conns, Handler(c) \/ JoinTimeout(c) PROVE task'[d] = "absent"
  <2>1. UNCHANGED peer
    BY <1>2, HandlerCases, ReactShape, SendShape
    DEF JoinReads, JoinOtherMessage, JoinUnreadable, JoinEof, JoinTimeout, Lookup, InsertWriter,
        RemoveWriter, ServeReads, LeaveOnRead, PanicOnRead, ReactUnnamed, JoinFrame
  <2>2. task[d] = "absent"  BY <2>1 DEF DialInv
  <2>3. c = d => UNCHANGED task
    BY <1>2, <2>2, HandlerAtWork DEF WorkInv
  <2> QED  BY <1>2, <2>2, <2>3, LineCases DEF TaskOf
<1>3. ASSUME NEW c \in Conns, Client(c) \/ Reader(c) PROVE task'[d] = "absent"
  BY <1>1, <1>3
  DEF Client, Reader, Dial, Connect, ClientSends, ClientCloses, ClientVanishes, ClientReads,
      loopVars, DialInv, LoopTypeOK
<1>4. ASSUME NEW c \in Conns, Server(c) PROVE task'[d] = "absent"
  <2>1. task[d] = "absent"
    BY <1>4 DEF Server, SpawnHandler, TurnAway, CancelHandler, DialInv
  <2>2. Accepting(c) => task[c] = "queued"
    BY <1>1, TailShifts DEF Accepting, BacklogConsistent, LoopTypeOK
  <2>3. CASE SpawnHandler(c)
    BY <1>1, <2>1, <2>2, <2>3 DEF SpawnHandler, Spawn, LoopTypeOK
  <2>4. CASE TurnAway(c)
    BY <1>1, <2>1, <2>2, <2>4
    DEF TurnAway, RejectSent, RejectFails, RejectSuspends, Rejecting, EndWith, LoopTypeOK
  <2>5. CASE CancelHandler(c)
    BY <1>1, <2>1, <2>5 DEF CancelHandler, Cancel, LoopTypeOK
  <2> QED  BY <1>4, <2>3, <2>4, <2>5 DEF Server
<1>5. CASE LoopAlone \/ UNCHANGED vars
  BY <1>1, <1>5
  DEF LoopAlone, AcceptFails, SendSignal, Break, DropFuture, Reap, EndWith, vars, loopVars,
      DialInv, LoopTypeOK
<1> QED  BY <1>2, <1>3, <1>4, <1>5 DEF Next

\* If a handler is suspended in a write, it has room again, or its client has
\* something to read. If none is, the first to wait for a mutex gets it, and
\* if none waits for one either, nobody reads the map and the first in the
\* line for it gets it.
LEMMA SomebodyMay ==
  ASSUME TypeInv, StoryInv, WaitInv
  PROVE  NobodyWaitsForNothing
<1> SUFFICES ASSUME ~Down, NEW c \in Conns, pc[c] \notin {"idle", "joining", "serving", "ended"}
             PROVE  \E d \in Conns : MayGoOn(d)
  BY DEF NobodyWaitsForNothing, Waiting
<1>1. /\ pc \in [Conns -> PcStates] /\ queue \in Seq(Conns) /\ peer \in [Conns -> PeerStates]
      /\ \A d \in Conns : seen[d] \in Nat
  BY DEF TypeInv, TypeOK, SocketTypeOK
<1>2. \A d \in Conns : pc[d] \in {"locking", "writing"} \cup Waits => task[d] = "running"
  BY DEF WaitInv, WorkInv, Waits
<1>3. ASSUME NEW d \in Conns, pc[d] = "writing" PROVE \E e \in Conns : MayGoOn(e)
  <2>1. job[d].at \in Conns  BY <1>3 DEF TypeInv, Sound, Job
  <2>2. CASE HasRoom(job[d].at) \/ peer[job[d].at] = "gone"
    BY <1>2, <1>3, <2>2 DEF MayGoOn
  <2>3. CASE peer[job[d].at] = "away"
    <3>1. wire[job[d].at] = <<>>
      BY <2>1, <2>3 DEF WaitInv, DialInv, StoryInv, Story, Unheard, Unanswered
    <3>2. Len(wire[job[d].at]) = 0 /\ seen[job[d].at] \in Nat  BY <1>1, <2>1, <3>1
    <3>3. HasRoom(job[d].at)  BY <3>2, OutCapAssumption DEF HasRoom
    <3> QED  BY <2>2, <3>3
  <2>4. CASE ~HasRoom(job[d].at) /\ peer[job[d].at] \in {"open", "half"}
    BY <2>1, <2>4 DEF MayGoOn
  <2> QED  BY <1>1, <2>1, <2>2, <2>3, <2>4 DEF PeerStates
<1>4. ASSUME \A e \in Conns : pc[e] # "writing", NEW d \in Conns, pc[d] = "locking"
      PROVE  MayGoOn(d)
  BY <1>2, <1>4 DEF MayGoOn, MutexFree
<1>5. CASE \A e \in Conns : pc[e] \notin {"locking", "writing"}
  <2>1. Holds(queue, c)
    BY <1>1, <1>5 DEF WaitInv, QueueInv, PcStates, Waits
  <2>2. queue # <<>> /\ Head(queue) \in Conns /\ Holds(queue, Head(queue))
    <3>1. queue # <<>>  BY <2>1 DEF Holds
    <3>2. Head(queue) = queue[1] /\ 1 \in DOMAIN queue /\ queue[1] \in Conns
      BY <1>1, <3>1, TailShifts
    <3> QED  BY <3>1, <3>2 DEF Holds
  <2>3. pc[Head(queue)] \in Waits  BY <2>2 DEF WaitInv, QueueInv
  <2>4. \A e \in Conns : ~ReadGuard(e)  BY <1>5 DEF ReadGuard
  <2>5. pc[Head(queue)] = "reacting" => Request(Head(queue)).kind \notin Unreadable
    BY <2>2 DEF WaitInv, ReadInv
  <2> QED  BY <1>2, <2>2, <2>3, <2>4, <2>5 DEF MayGoOn, Waits
<1> QED  BY <1>3, <1>4, <1>5

\* The locks and sockets of the server leave nobody waiting for nothing: as
\* long as a handler is between its reader and its end, some handler has what
\* it waits for, or some client has something to read.
THEOREM SomebodyMayGoOn == Spec => []NobodyWaitsForNothing
<1>1. Init => WaitInv
  BY DEF Init, SocketInit, LoopInit, WaitInv, QueueInv, WorkInv, ReadInv, DialInv, Distinct,
         Holds, Waits
<1>2. TypeInv /\ BacklogConsistent /\ IdleInv /\ WaitInv /\ [Next]_vars => WaitInv'
  BY QueueStep, WorkStep, ReadStep, DialStep DEF WaitInv
<1>3. TypeInv /\ StoryInv /\ WaitInv => NobodyWaitsForNothing
  BY SomebodyMay
<1> QED
  BY <1>1, <1>2, <1>3, TypeInvCorrect, ImplementsLoop, BacklogHolds, EntriesHold, StoryHolds,
     PTL DEF Spec

-----------------------------------------------------------------------------
(***************************************************************************)
(* The forum.  What a handler holds while it has the read guard fits the   *)
(* map as it is, since the map does not change meanwhile: a reply is for   *)
(* the writer its name leads to, a list names the names there are.  And a  *)
(* client that is welcome has been told so, and nothing else.              *)
(***************************************************************************)
Answers(c) ==
  /\ name[c] \in Registered /\ job[c].at = registry[name[c]] /\ job[c].todo = {}
  /\ job[c].msg.kind \in {"Pong", "UserList", "Error"}
  /\ job[c].msg.kind = "UserList" => job[c].msg = UserList(Registered)
  /\ job[c].then = "kick" => job[c].msg.kind = "Error"

Fits(c) ==
  /\ pc[c] \in {"idle", "joining"} => name[c] = NoName
  /\ pc[c] = "inserting" => wire[c] = <<Welcome>>
  /\ ReadGuard(c) /\ job[c].msg.kind = "Message" => job[c].then = "reply"
  /\ ReadGuard(c) /\ job[c].msg.kind # "Message" => Answers(c)

FitsInv == \A c \in Conns : Fits(c)

\* What others do leaves it so.
LEMMA FitsKept ==
  ASSUME NEW d \in Conns, Fits(d), pc'[d] = pc[d], job'[d] = job[d], name'[d] = name[d],
         UNCHANGED registry \/ ~ReadGuard(d),
         pc[d] = "inserting" => wire'[d] = wire[d]
  PROVE  Fits(d)'
<1>1. ReadGuard(d)' <=> ReadGuard(d)  BY DEF ReadGuard
<1>2. UNCHANGED registry => Registered' = Registered /\ (Answers(d) => Answers(d)')
  BY DEF Registered, Answers, UserList
<1> QED  BY <1>1, <1>2 DEF Fits

\* A step of one handler, or none, seen in the forum.
LEMMA Mapped ==
  ASSUME NEW c \in Conns, OthersPut(c)
  PROVE  /\ Stage[c] = StageOf(c) /\ Due[c] = DueOf(c)
         /\ Stage' = [Stage EXCEPT ![c] = StageOf(c)'] /\ Stage'[c] = StageOf(c)'
         /\ Due' = [Due EXCEPT ![c] = DueOf(c)']
         /\ StageOf(c)' = StageOf(c) => UNCHANGED Stage
         /\ DueOf(c)' = DueOf(c) => UNCHANGED Due
<1>1. \A d \in Conns \ {c} : StageOf(d)' = StageOf(d)
  BY DEF OthersPut, StageOf, InLoop
<1>2. \A d \in Conns \ {c} : DueOf(d)' = DueOf(d)
  BY DEF OthersPut, DueOf, ReadGuard
<1> QED  BY <1>1, <1>2 DEF Stage, Due

LEMMA NothingTold ==
  ASSUME NEW c \in Conns, OthersPut(c), UNCHANGED <<name, registry, wire>>,
         StageOf(c)' = StageOf(c), DueOf(c)' = DueOf(c)
  PROVE  UNCHANGED Forum!vars
  BY Mapped DEF Forum!vars

LEMMA Falling ==
  ASSUME NEW c \in Conns, OthersPut(c), UNCHANGED <<name, registry, wire>>, DueOf(c)' = {},
         \/ StageOf(c) = "in" /\ StageOf(c)' = "leaving"
         \/ StageOf(c) # "out" /\ StageOf(c)' = "out"
  PROVE  Forum!Steps
<1>1. CASE StageOf(c) = "in" /\ StageOf(c)' = "leaving"
  <2>1. Forum!GiveUp(c)  BY <1>1, Mapped DEF Forum!GiveUp, Forum!Falls, Forum!Moves
  <2> QED  BY <2>1 DEF Forum!Steps
<1>2. CASE StageOf(c) # "out" /\ StageOf(c)' = "out"
  <2>1. Forum!Stop(c)  BY <1>2, Mapped DEF Forum!Stop, Forum!Falls, Forum!Moves
  <2> QED  BY <2>1 DEF Forum!Steps
<1> QED  BY <1>1, <1>2

\* A message landed.
LEMMA ToldOne ==
  ASSUME TypeOK, NEW at \in Conns, NEW msg \in Outgoing, WriteLands(at, msg), NEW msgs, msg \in msgs
  PROVE  Forum!Told(at, msgs)
<1>1. wire' = [wire EXCEPT ![at] = Append(wire[at], msg)]  BY DEF WriteLands
<1>2. Len(wire'[at]) = Len(wire[at]) + 1 /\ Len(wire[at]) \in Nat  BY WireEffect
<1>3. wire' # wire  BY <1>2
<1> HIDE DEF Outgoing
<1> QED  BY <1>1, <1>3 DEF Forum!Told

\* What the step of a handler does to its own part, to those that are
\* welcome, and to the forum.
InForum(c) ==
  /\ Fits(c)'
  /\ \A d \in Conns \ {c} : pc[d] = "inserting" => wire'[d] = wire[d]
  /\ [Forum!Steps]_(Forum!vars)

\* Nobody but the handler itself writes to a client that is welcome and not
\* in yet.
LEMMA LeftAlone ==
  ASSUME TypeInv, TargetsStay, EntriesInv, StoryInv, ~Down, NEW c \in Conns, NEW at \in Conns,
         pc[c] \in {"locking", "writing"}, job[c].at = at, job[c].then \in Continuations,
         NEW d \in Conns \ {c}, pc[d] = "inserting"
  PROVE  at # d
<1>1. CASE job[c].then \in {"close", "welcome"}
  BY <1>1 DEF StoryInv, Story, Fitting
<1>2. CASE job[c].then \in {"reply", "kick"}
  <2>1. at \in InMap  BY <1>2 DEF TargetsStay, ReadGuard
  <2>2. d \notin InMap  BY JoiningUnlisted DEF InLoop
  <2> QED  BY <2>1, <2>2
<1> QED  BY <1>1, <1>2 DEF Continuations

LEMMA JoinForum ==
  ASSUME TypeInv, FitsInv, NEW c \in Conns,
         \/ JoinReads(c) \/ JoinOtherMessage(c) \/ JoinUnreadable(c) \/ JoinEof(c)
         \/ JoinTimeout(c) \/ Lookup(c)
  PROVE  InForum(c)
<1> USE DEF JoinFrame
<1>1. TypeOK /\ Fits(c)  BY DEF TypeInv, FitsInv
<1>2. pc[c] \in {"joining", "lookup"} /\ UNCHANGED <<wire, registry>>
  BY DEF JoinReads, JoinOtherMessage, JoinUnreadable, JoinEof, JoinTimeout, Lookup,
         Joining, GrantedRead
<1>3. StageOf(c) = "new" /\ DueOf(c) = {} /\ StageOf(c) # "out"
  BY <1>2 DEF StageOf, DueOf, InLoop, ReadGuard
<1>4. ASSUME OthersPut(c), UNCHANGED name, pc'[c] = "locking", job'[c].then \in {"close", "welcome"}
      PROVE  InForum(c)
  <2>1. StageOf(c)' = "new" /\ DueOf(c)' = {} /\ ~ReadGuard(c)'
    BY <1>4 DEF StageOf, DueOf, InLoop, ReadGuard
  <2>2. Fits(c)'  BY <1>4, <2>1 DEF Fits
  <2>3. UNCHANGED Forum!vars  BY <1>2, <1>3, <1>4, <2>1, NothingTold
  <2> QED  BY <1>2, <2>2, <2>3 DEF InForum
<1>5. ASSUME NEW t \in ErrorTexts, Refuses(c, t), UNCHANGED name PROVE InForum(c)
  BY <1>1, <1>4, <1>5, RefusesEffect
<1>6. CASE JoinReads(c)
  <2>1. /\ pc[c] = "joining" /\ OthersPut(c) /\ pc'[c] = "lookup"
        /\ name' = [name EXCEPT ![c] = NextLine(c).name]
    BY <1>1, <1>6, QueuesEffect DEF JoinReads, Joining
  <2>2. NextLine(c).name \in Names
    <3>1. NextLine(c) \in Line /\ NextLine(c).kind = "Join"
      BY <1>1, <1>6, TakeEffect DEF JoinReads
    <3> QED  BY <3>1 DEF Line, Addressed, Plain, Unreadable
  <2>3. name[c] = NoName  BY <1>1, <2>1 DEF Fits
  <2>4. StageOf(c)' = "new" /\ DueOf(c)' = {} /\ ~ReadGuard(c)'
    BY <2>1 DEF StageOf, DueOf, InLoop, ReadGuard
  <2>5. UNCHANGED <<Stage, Due>> /\ Stage[c] = "new"  BY <1>3, <2>1, <2>4, Mapped
  <2>6. Forum!Ask(c, NextLine(c).name)
    BY <1>2, <2>1, <2>3, <2>5 DEF Forum!Ask
  <2>7. Fits(c)'  BY <2>1, <2>4 DEF Fits
  <2> QED  BY <1>2, <2>2, <2>6, <2>7 DEF InForum, Forum!Steps
<1>7. CASE JoinUnreadable(c)
  <2>1. OthersPut(c) /\ pc'[c] = "ended" /\ UNCHANGED name
    BY <1>1, <1>7, EndsEffect DEF JoinUnreadable
  <2>2. StageOf(c)' = "out" /\ DueOf(c)' = {} /\ Fits(c)'
    BY <2>1 DEF StageOf, DueOf, InLoop, ReadGuard, Fits
  <2>3. Forum!Steps  BY <1>2, <1>3, <2>1, <2>2, Falling
  <2> QED  BY <1>2, <2>2, <2>3 DEF InForum
<1>8. CASE JoinOtherMessage(c) \/ JoinEof(c) \/ JoinTimeout(c)
  BY <1>5, <1>8 DEF JoinOtherMessage, JoinEof, JoinTimeout, ErrorTexts
<1>9. CASE Lookup(c)
  <2>1. ASSUME NEW msg \in Outgoing, NEW then \in {"close", "welcome"},
               Writes(c, {c}, msg, then)
        PROVE  InForum(c)
    <3>1. {c} \in SUBSET Conns /\ then \in Continuations  BY DEF Continuations
    <3>2. OthersPut(c) /\ pc'[c] = "locking" /\ job'[c].then = then
      BY <1>1, <2>1, <3>1, WritesEffect
    <3> QED  BY <1>4, <1>9, <3>2 DEF Lookup
  <2> QED  BY <1>9, <2>1, OwnMessages DEF Lookup, ErrorTexts
<1> QED  BY <1>6, <1>7, <1>8, <1>9

\* With the write lock nothing is due.
LEMMA NothingDue ==
  ASSUME \A d \in Conns : ~ReadGuard(d)
  PROVE  Forum!Settled
  BY DEF Forum!Settled, Due, DueOf

LEMMA MapForum ==
  ASSUME TypeInv, EntriesInv, FitsInv, NEW c \in Conns,
         \/ InsertWriter(c) \/ RemoveWriter(c) \/ ServeReads(c) \/ LeaveOnRead(c)
         \/ PanicOnRead(c) \/ ReactUnnamed(c)
  PROVE  InForum(c)
<1> USE DEF socketVars
<1>1. TypeOK /\ Fits(c) /\ "serving" \in PcStates  BY DEF TypeInv, FitsInv, PcStates
<1>2. UNCHANGED <<name, wire>>
  BY DEF InsertWriter, RemoveWriter, ServeReads, LeaveOnRead, PanicOnRead, ReactUnnamed
<1>3. ASSUME OthersPut(c), pc'[c] \in {"serving", "reacting", "removing", "ended"}
      PROVE  /\ Fits(c)' /\ DueOf(c)' = {}
             /\ pc'[c] \in {"serving", "reacting"} => StageOf(c)' = "in"
             /\ pc'[c] = "removing" => StageOf(c)' = "leaving"
             /\ pc'[c] = "ended" => StageOf(c)' = "out"
  BY <1>3 DEF Fits, DueOf, StageOf, InLoop, ReadGuard
<1>4. DueOf(c) = {}
  BY DEF DueOf, ReadGuard, InsertWriter, RemoveWriter, ServeReads, LeaveOnRead, PanicOnRead,
         ReactUnnamed, GrantedRead, GrantedWrite
<1>5. CASE InsertWriter(c)
  <2>1. /\ OthersPut(c) /\ pc'[c] = "serving" /\ pc[c] = "inserting"
        /\ registry' = [registry EXCEPT ![name[c]] = c]
        /\ Forum!Settled
    BY <1>1, <1>5, GoesEffect, NothingDue DEF InsertWriter, GrantedWrite, GrantedRead
  <2>2. StageOf(c) = "welcome" /\ wire[c] = <<Welcome>>
    BY <1>1, <2>1 DEF StageOf, InLoop, Fits
  <2>3. Forum!Enter(c)
    BY <1>2, <1>3, <1>4, <2>1, <2>2, Mapped DEF Forum!Enter, Forum!Moves, Welcome
  <2> QED  BY <1>2, <1>3, <2>1, <2>3 DEF InForum, Forum!Steps
<1>6. CASE RemoveWriter(c)
  <2>1. /\ OthersPut(c) /\ pc'[c] = "ended" /\ pc[c] = "removing"
        /\ registry' = [registry EXCEPT ![name[c]] = NoConn]
        /\ Forum!Settled
    BY <1>1, <1>6, EndsEffect, NothingDue DEF RemoveWriter, GrantedWrite, GrantedRead
  <2>2. StageOf(c) = "leaving"  BY <2>1 DEF StageOf, InLoop
  <2>3. Forum!Leave(c)
    BY <1>2, <1>3, <1>4, <2>1, <2>2, Mapped DEF Forum!Leave, Forum!Moves
  <2> QED  BY <1>2, <1>3, <2>1, <2>3 DEF InForum, Forum!Steps
<1>7. CASE ServeReads(c) \/ ReactUnnamed(c)
  <2>1. /\ OthersPut(c) /\ pc'[c] \in {"reacting", "serving"} /\ UNCHANGED registry
        /\ pc[c] \in {"reacting", "serving"}
    BY <1>1, <1>7, QueuesEffect, GoesEffect DEF ServeReads, ReactUnnamed, GrantedRead
  <2>2. StageOf(c) = "in"  BY <2>1 DEF StageOf, InLoop
  <2>3. UNCHANGED Forum!vars  BY <1>2, <1>3, <1>4, <2>1, <2>2, NothingTold
  <2> QED  BY <1>2, <1>3, <2>1, <2>3 DEF InForum
<1>8. CASE LeaveOnRead(c) \/ PanicOnRead(c)
  <2>1. /\ OthersPut(c) /\ pc'[c] \in {"removing", "ended"} /\ UNCHANGED registry
        /\ pc[c] = "serving"
    BY <1>1, <1>8, QueuesEffect, EndsEffect DEF LeaveOnRead, PanicOnRead
  <2>2. StageOf(c) = "in" /\ StageOf(c) # "out"  BY <2>1 DEF StageOf, InLoop
  <2>3. Forum!Steps  BY <1>2, <1>3, <2>1, <2>2, Falling
  <2> QED  BY <1>2, <1>3, <2>1, <2>3 DEF InForum
<1> QED  BY <1>5, <1>6, <1>7, <1>8

\* An error is one of those a forum knows.
LEMMA ErrorShape ==
  ASSUME NEW msg \in Outgoing, msg.kind = "Error"
  PROVE  msg \in Forum!Errors
  BY DEF Outgoing, ServerToClientMsg, Welcome, Pong, Forum!Errors

LEMMA ReactForum ==
  ASSUME TypeInv, FifoInv, FitsInv, NEW c \in Conns, Reacting(c)
  PROVE  InForum(c)
<1>1. TypeOK /\ Fits(c) /\ "serving" \in PcStates  BY DEF TypeInv, FitsInv, PcStates
<1>2. pc[c] = "reacting" /\ UNCHANGED <<wire, taken, name, registry>> /\ name[c] \in Registered
  BY ReactShape
  DEF GrantedRead, socketVars, Reacting, ReactPing, ReactListUsers, ReactJoin, ReactBroadcast,
      ReactDirect, Reacts
<1>3. StageOf(c) = "in" /\ DueOf(c) = {}  BY <1>2 DEF StageOf, InLoop, DueOf, ReadGuard
<1>4. Registered' = Registered  BY <1>2 DEF Registered
<1>5. CASE Goes(c, "serving")
  <2>1. OthersPut(c) /\ pc'[c] = "serving"  BY <1>1, <1>5, GoesEffect
  <2>2. StageOf(c)' = "in" /\ DueOf(c)' = {} /\ Fits(c)'
    BY <2>1 DEF StageOf, InLoop, DueOf, ReadGuard, Fits
  <2>3. UNCHANGED Forum!vars  BY <1>2, <1>3, <2>1, <2>2, NothingTold
  <2> QED  BY <1>2, <2>2, <2>3 DEF InForum
<1>6. ASSUME NEW msg \in Outgoing, NEW then \in {"reply", "kick"}, Replies(c, msg, then),
             msg.kind \in {"Pong", "UserList", "Error"},
             msg.kind = "UserList" => msg = UserList(Registered),
             then = "kick" => msg.kind = "Error"
      PROVE  InForum(c)
  <2>1. {registry[name[c]]} \in SUBSET Conns /\ then \in Continuations
    BY <1>1, <1>2, InMapConns DEF Continuations
  <2>2. /\ OthersPut(c) /\ pc'[c] = "locking" /\ job'[c].msg = msg /\ job'[c].then = then
        /\ job'[c].at = registry[name[c]] /\ job'[c].todo = {}
    <3>1. Writes(c, {registry[name[c]]}, msg, then)  BY <1>6 DEF Replies
    <3> HIDE DEF Outgoing
    <3> QED  BY <1>1, <2>1, <3>1, WritesEffect
  <2>3. StageOf(c)' = "in" /\ DueOf(c)' = {}
    BY <1>6, <2>2 DEF StageOf, InLoop, DueOf, ReadGuard
  <2>4. Answers(c)'
    <3> HIDE DEF Outgoing
    <3> QED  BY <1>2, <1>4, <1>6, <2>2 DEF Answers, UserList
  <2>5. Fits(c)'  BY <1>6, <2>2, <2>4 DEF Fits
  <2>6. UNCHANGED Forum!vars  BY <1>2, <1>3, <2>2, <2>3, NothingTold
  <2> QED  BY <1>2, <2>5, <2>6 DEF InForum
<1>7. ASSUME NEW to \in SUBSET InMap, Writes(c, to, Chat(c), "reply"),
             to = Audience(c) \/ \E n \in Registered \ {name[c]} : to = {registry[n]}
      PROVE  InForum(c)
  <2> DEFINE msg == Chat(c)
             text == <<c, taken[c]>>
  <2>1. /\ taken[c] \in Nat /\ text \in Text /\ name[c] \in Names
    <3>1. /\ taken[c] \in Nat /\ taken[c] > 0
          /\ Len(sent[c]) \in Nat /\ taken[c] <= Len(sent[c]) /\ Len(sent[c]) <= MaxSends
      BY <1>1, <1>2 DEF TypeInv, Sound, TypeOK, SocketTypeOK
    <3> QED  BY <1>2, <3>1, MaxSendsAssumption DEF Text, Registered
  <2>2. /\ msg = [kind |-> "Message", from |-> name[c], message |-> text]
        /\ msg.kind = "Message" /\ msg \in Outgoing
    BY <2>1 DEF Chat, Message, Outgoing, ServerToClientMsg
  <2>3. /\ OthersPut(c) /\ pc'[c] = "locking" /\ job'[c].msg = msg /\ job'[c].then = "reply"
        /\ job'[c].at \in to /\ job'[c].todo = to \ {job'[c].at}
    <3>1. to \in SUBSET Conns /\ "reply" \in Continuations
      BY <1>1, InMapConns DEF Continuations
    <3> HIDE DEF msg, Outgoing
    <3> QED  BY <1>1, <1>7, <2>2, <3>1, WritesEffect DEF msg
  <2>4. {job'[c].at} \cup job'[c].todo = to /\ to # {}  BY <2>3
  <2>5. StageOf(c)' = "in" /\ DueOf(c)' = Letters(to, msg) /\ Fits(c)'
    <3>1. ReadGuard(c)'  BY <2>3 DEF ReadGuard
    <3> HIDE DEF msg
    <3> QED  BY <2>2, <2>3, <2>4, <3>1 DEF StageOf, InLoop, DueOf, Fits
  <2>6. to \in {Forum!Others(c)} \cup {{d} : d \in Forum!Others(c)}
    <3>1. Forum!Others(c) = Audience(c)
      BY DEF Forum!Others, Forum!Taken, Audience, Registered
    <3> QED  BY <1>7, <3>1 DEF Audience
  <2>7. Forum!New(msg)
    <3>1. ASSUME NEW d \in Conns, NEW i \in DOMAIN wire[d] PROVE wire[d][i] # msg
      <4>1. Before(d, c, taken[c])  BY <1>2 DEF FifoInv, InTurn
      <4>2. From(msg, c) /\ msg.message[2] = taken[c]  BY <2>2 DEF From
      <4> HIDE DEF msg
      <4> QED  BY <2>1, <4>1, <4>2 DEF Before
    <3>2. ASSUME NEW d \in Conns, NEW letter \in Due[d] PROVE letter.msg # msg
      <4>1. ReadGuard(d) /\ job[d].msg.kind = "Message" /\ letter.msg = job[d].msg
        BY <3>2 DEF Due, DueOf, Letters
      <4>2. d # c /\ job[d].msg.message = <<d, taken[d]>>
        BY <1>2, <4>1 DEF ReadGuard, FifoInv, InTurn
      <4> QED  BY <2>2, <4>1, <4>2
    <3> QED  BY <3>1, <3>2 DEF Forum!New
  <2>8. Due' = [Due EXCEPT ![c] = Forum!Letters(to, msg)] /\ Due'[c] # {}
    <3>1. Due' = [Due EXCEPT ![c] = Letters(to, msg)]  BY <2>3, <2>5, Mapped
    <3>2. Due'[c] = Letters(to, msg)
      <4>1. Due'[c] = DueOf(c)'  BY DEF Due
      <4> QED  BY <2>5, <4>1
    <3>3. Letters(to, msg) # {}
      <4>1. [to |-> job'[c].at, msg |-> msg] \in Letters(to, msg)  BY <2>3 DEF Letters
      <4> QED  BY <4>1
    <3> QED  BY <3>1, <3>2, <3>3 DEF Forum!Letters, Letters
  <2>9. Stage[c] = "in" /\ UNCHANGED Stage /\ Due[c] = {}
    BY <1>3, <2>3, <2>5, Mapped
  <2>10. name[c] \in Forum!Taken  BY <1>2 DEF Forum!Taken, Registered
  <2>11. Forum!Speak(c)
    <3> HIDE DEF text
    <3> QED  BY <1>2, <2>1, <2>2, <2>6, <2>7, <2>8, <2>9, <2>10 DEF Forum!Speak
  <2> QED  BY <1>2, <2>5, <2>11 DEF InForum, Forum!Steps
<1>8. CASE ReactPing(c)
  BY <1>6, <1>8, OwnMessages DEF ReactPing, Pong
<1>9. CASE ReactListUsers(c)
  BY <1>6, <1>9, OwnMessages DEF ReactListUsers, UserList
<1>10. ASSUME NEW t \in ErrorTexts, NEW then \in {"reply", "kick"}, Replies(c, Error(t), then)
       PROVE  InForum(c)
  <2>1. Error(t) \in Outgoing /\ Error(t).kind = "Error"  BY OwnMessages DEF Error
  <2> HIDE DEF Outgoing
  <2> QED  BY <1>6, <1>10, <2>1
<1>11. CASE ReactJoin(c)  BY <1>10, <1>11 DEF ReactJoin, ErrorTexts
<1>12. CASE ReactBroadcast(c)
  <2>1. Audience(c) \in SUBSET InMap  BY DEF Audience, InMap
  <2> QED  BY <1>5, <1>7, <1>12, <2>1 DEF ReactBroadcast
<1>13. CASE ReactDirect(c)
  <2>1. ASSUME Request(c).name \in Registered
        PROVE  {registry[Request(c).name]} \in SUBSET InMap
    BY <2>1 DEF InMap
  <2> QED  BY <1>7, <1>10, <1>13, <2>1 DEF ReactDirect, ErrorTexts
<1> QED  BY <1>8, <1>9, <1>11, <1>12, <1>13 DEF Reacting

\* The letter that is delivered is one of those that are due, and the others
\* stay due.
LEMMA LetterTold ==
  ASSUME NEW at, NEW todo, NEW to, at \notin todo, to = {at} \cup todo, NEW msg,
         NEW letter, letter = [to |-> at, msg |-> msg]
  PROVE  /\ letter \in Letters(to, msg)
         /\ Letters(to, msg) \ {letter} = Letters(todo, msg)
         /\ letter.to = at /\ letter.msg = msg
<1>1. \A d : d # at => [to |-> d, msg |-> msg] # letter
  <2> TAKE d
  <2>1. [to |-> d, msg |-> msg].to = d /\ letter.to = at  OBVIOUS
  <2> QED  BY <2>1
<1> QED  BY <1>1 DEF Letters

LEMMA PongShape ==
  ASSUME NEW msg \in Outgoing, msg.kind = "Pong"
  PROVE  msg = Pong
  BY DEF Outgoing, ServerToClientMsg, Welcome, Pong

\* Before the map: the one message decides.
LEMMA FirstSendForum ==
  ASSUME TypeInv, StoryInv, FitsInv, NEW c \in Conns, Sending(c),
         job[c].then \in {"close", "welcome"}
  PROVE  InForum(c)
<1>1. TypeOK  BY DEF TypeInv
<1>2. /\ pc[c] \in {"locking", "writing"} /\ UNCHANGED <<name, registry>>
      /\ job[c].at = c /\ wire[c] = <<>> /\ job[c].msg \in Outgoing
      /\ job[c].then = "close" => job[c].msg.kind = "Error"
      /\ job[c].then = "welcome" => job[c].msg = Welcome /\ name[c] \in Names
  BY SendShape DEF StoryInv, Story, Unheard, Fitting
<1>3. OthersPut(c)  BY HandlerAlone DEF Handler, Sending
<1>4. StageOf(c) = "new" /\ StageOf(c) # "out" /\ DueOf(c) = {}
  BY <1>2 DEF StageOf, InLoop, DueOf, ReadGuard
<1>5. ASSUME pc'[c] \in {"inserting", "ended"}
      PROVE  /\ DueOf(c)' = {} /\ ~ReadGuard(c)'
             /\ pc'[c] = "inserting" => StageOf(c)' = "welcome"
             /\ pc'[c] = "ended" => StageOf(c)' = "out"
  BY <1>5 DEF StageOf, InLoop, DueOf, ReadGuard
<1>6. CASE Suspends(c)
  <2>1. pc'[c] = "writing" /\ UNCHANGED <<wire, job>>  BY <1>6, SuspendsEffect
  <2>2. StageOf(c)' = "new" /\ DueOf(c)' = {} /\ ~ReadGuard(c)'
    BY <1>2, <2>1 DEF StageOf, InLoop, DueOf, ReadGuard
  <2>3. UNCHANGED Forum!vars  BY <1>2, <1>3, <1>4, <2>1, <2>2, NothingTold
  <2> QED  BY <2>1, <2>2, <2>3 DEF InForum, Fits
<1>7. CASE WriteFails(job[c].at) /\ Continues(c, FALSE)
  <2>1. pc'[c] = "ended" /\ UNCHANGED wire
    BY <1>1, <1>7, EndsEffect DEF Continues, WriteFails
  <2>2. Forum!Steps  BY <1>2, <1>3, <1>4, <1>5, <2>1, Falling
  <2> QED  BY <1>5, <2>1, <2>2 DEF InForum, Fits
<1>8. CASE WriteLands(job[c].at, job[c].msg) /\ Continues(c, TRUE)
  <2> PICK msg \in Outgoing : msg = job[c].msg
    <3> HIDE DEF Outgoing
    <3> QED  BY <1>2
  <2>1. WriteLands(c, msg)  BY <1>2, <1>8
  <2>2. /\ \A d \in Conns \ {c} : wire'[d] = wire[d]
        /\ wire'[c] = Append(<<>>, msg)
    BY <1>1, <1>2, <2>1, WireEffect
  <2>3. CASE job[c].then = "close"
    <3>1. pc'[c] = "ended"  BY <1>1, <1>8, <2>3, EndsEffect DEF Continues
    <3>2. Forum!Told(c, Forum!Errors)  BY <1>1, <1>2, <2>1, <2>3, ErrorShape, ToldOne
    <3>3. Forum!Refuse(c)
      BY <1>2, <1>3, <1>4, <1>5, <3>1, <3>2, Mapped DEF Forum!Refuse, Forum!Moves
    <3> QED  BY <1>5, <2>2, <3>1, <3>3 DEF InForum, Fits, Forum!Steps
  <2>4. CASE job[c].then = "welcome"
    <3>1. pc'[c] = "inserting"  BY <1>1, <1>8, <2>4, QueuesEffect DEF Continues
    <3>2. msg = Welcome /\ name[c] \in Names  BY <1>2, <2>4
    <3>3. Forum!Told(c, {[kind |-> "Welcome"]})
      BY <1>1, <2>1, <3>2, ToldOne DEF Welcome
    <3>4. Forum!Greet(c)
      BY <1>2, <1>3, <1>4, <1>5, <3>1, <3>2, <3>3, Mapped DEF Forum!Greet, Forum!Moves
    <3>5. wire'[c] = <<Welcome>>
      <4>1. Append(<<>>, Welcome) = <<Welcome>>  OBVIOUS
      <4> QED  BY <2>2, <3>2, <4>1
    <3> QED  BY <1>5, <2>2, <3>1, <3>4, <3>5 DEF InForum, Fits, Forum!Steps
  <2> QED  BY <2>3, <2>4
<1> QED  BY <1>6, <1>7, <1>8, SendShape

\* In the loop: one more of those a message is for has it, or an answer is
\* given.
LEMMA LoopSendForum ==
  ASSUME TypeInv, TargetsStay, EntriesInv, StoryInv, FifoInv, FitsInv, NEW c \in Conns, Sending(c),
         job[c].then \in {"reply", "kick"}
  PROVE  InForum(c)
<1> USE DEF clientVars
<1>1. TypeOK /\ "serving" \in PcStates /\ "reply" \in Continuations
  BY DEF TypeInv, PcStates, Continuations
<1>2. /\ ~Down /\ pc[c] \in {"locking", "writing"} /\ UNCHANGED <<name, registry, taken>>
      /\ job[c].msg \in Outgoing /\ job[c].then \in Continuations
      /\ job[c].at \in Conns /\ job[c].todo \in SUBSET Conns
  BY SendShape
<1>3. OthersPut(c)  BY HandlerAlone DEF Handler, Sending
<1>4. ReadGuard(c) /\ StageOf(c) = "in" /\ StageOf(c) # "out" /\ Fits(c)
  BY <1>2 DEF StageOf, InLoop, ReadGuard, FitsInv
<1>5. Registered' = Registered  BY <1>2 DEF Registered
<1>6. ASSUME pc'[c] \in {"serving", "removing"}
      PROVE  /\ DueOf(c)' = {} /\ Fits(c)'
             /\ pc'[c] = "serving" => StageOf(c)' = "in"
             /\ pc'[c] = "removing" => StageOf(c)' = "leaving"
  BY <1>6 DEF StageOf, InLoop, DueOf, ReadGuard, Fits
<1>7. CASE Suspends(c)
  <2>1. pc'[c] = "writing" /\ UNCHANGED <<wire, job>>  BY <1>7, SuspendsEffect
  <2>2. ReadGuard(c)' /\ StageOf(c)' = "in" /\ DueOf(c)' = DueOf(c)
    BY <1>4, <2>1 DEF StageOf, InLoop, DueOf, ReadGuard
  <2>3. Fits(c)'
    <3>1. Answers(c) => Answers(c)'  BY <1>2, <1>5, <2>1 DEF Answers, UserList
    <3> QED  BY <1>4, <2>1, <2>2, <3>1 DEF Fits
  <2>4. UNCHANGED Forum!vars  BY <1>2, <1>3, <1>4, <2>1, <2>2, NothingTold
  <2> QED  BY <2>1, <2>3, <2>4 DEF InForum
<1>8. CASE WriteFails(job[c].at) /\ Continues(c, FALSE)
  <2>1. pc'[c] = "removing" /\ UNCHANGED wire
    BY <1>1, <1>8, QueuesEffect DEF Continues, WriteFails
  <2>2. Forum!Steps  BY <1>2, <1>3, <1>4, <1>6, <2>1, Falling
  <2> QED  BY <1>6, <2>1, <2>2 DEF InForum
<1>9. CASE WriteLands(job[c].at, job[c].msg) /\ Continues(c, TRUE)
  <2> PICK at \in Conns, msg \in Outgoing, todo \in SUBSET Conns :
             at = job[c].at /\ msg = job[c].msg /\ todo = job[c].todo
    <3> HIDE DEF Outgoing
    <3> QED  BY <1>2
  <2>1. WriteLands(at, msg)  BY <1>9
  <2>2. ASSUME NEW d \in Conns \ {c}, pc[d] = "inserting" PROVE wire'[d] = wire[d]
    <3>1. at # d  BY <1>2, <2>2, LeftAlone
    <3> QED  BY <1>1, <2>1, <3>1, WireEffect
  <2>3. CASE msg.kind = "Message"
    <3>1. job[c].then = "reply"  BY <1>4, <2>3 DEF Fits
    <3>2. at \notin todo  BY <1>2, <2>3 DEF FifoInv, InTurn
    <3>3. DueOf(c) = Letters({at} \cup todo, msg)  BY <1>4, <2>3 DEF DueOf
    <3>4. StageOf(c)' = "in" /\ DueOf(c)' = Letters(todo, msg) /\ Fits(c)'
      <4>1. CASE Writes(c, todo, msg, "reply")
        <5>1. /\ pc'[c] = "locking" /\ job'[c].msg = msg /\ job'[c].then = "reply"
              /\ job'[c].at \in todo /\ job'[c].todo = todo \ {job'[c].at}
          BY <1>1, <4>1, WritesEffect
        <5>2. ReadGuard(c)' /\ {job'[c].at} \cup job'[c].todo = todo
          BY <5>1 DEF ReadGuard
        <5> HIDE DEF Outgoing
        <5> QED  BY <2>3, <5>1, <5>2 DEF StageOf, InLoop, DueOf, Fits
      <4>2. CASE todo = {} /\ Goes(c, "serving")
        <5>1. pc'[c] = "serving"  BY <1>1, <4>2, GoesEffect
        <5> QED  BY <1>6, <4>2, <5>1 DEF Letters
      <4> QED  BY <1>9, <3>1, <4>1, <4>2 DEF Continues
    <3>5. Forum!Told(at, {msg})  BY <1>1, <2>1, ToldOne
    <3>6. Forum!Tell(c)
      <4> PICK letter : letter = [to |-> at, msg |-> msg]  OBVIOUS
      <4> PICK to : to = {at} \cup todo  OBVIOUS
      <4>1. /\ letter \in Letters(to, msg)
            /\ Letters(to, msg) \ {letter} = Letters(todo, msg)
            /\ letter.to = at /\ letter.msg = msg
        BY <3>2, LetterTold
      <4> HIDE DEF Outgoing
      <4>2. Due[c] = DueOf(c) /\ Due' = [Due EXCEPT ![c] = DueOf(c)']
        BY <1>3, Mapped
      <4>3. letter \in Due[c] /\ Due' = [Due EXCEPT ![c] = Due[c] \ {letter}]
        BY <3>3, <3>4, <4>1, <4>2
      <4>4. Stage[c] = "in" /\ UNCHANGED Stage  BY <1>3, <1>4, <3>4, Mapped
      <4> QED  BY <1>2, <3>5, <4>1, <4>3, <4>4 DEF Forum!Tell
    <3> QED  BY <2>2, <3>4, <3>6 DEF InForum, Forum!Steps
  <2>4. CASE msg.kind # "Message"
    <3>1. /\ name[c] \in Registered /\ at = registry[name[c]] /\ todo = {}
          /\ msg.kind \in {"Pong", "UserList", "Error"}
          /\ msg.kind = "UserList" => msg = UserList(Registered)
          /\ job[c].then = "kick" => msg.kind = "Error"
      BY <1>4, <2>4 DEF Fits, Answers
    <3>2. DueOf(c) = {} /\ name[c] \in Forum!Taken
      BY <2>4, <3>1 DEF DueOf, Forum!Taken, Registered
    <3>3. CASE job[c].then = "reply"
      <4>1. pc'[c] = "serving"  BY <1>1, <1>9, <3>1, <3>3, GoesEffect DEF Continues
      <4>2. msg \in {[kind |-> "Pong"], [kind |-> "UserList", users |-> Forum!Taken]}
                      \cup Forum!Errors
        BY <3>1, PongShape, ErrorShape DEF Pong, UserList, Registered, Forum!Taken
      <4>3. Forum!Told(at, {[kind |-> "Pong"], [kind |-> "UserList", users |-> Forum!Taken]}
                             \cup Forum!Errors)
        <5> HIDE DEF Outgoing
        <5> QED  BY <1>1, <2>1, <4>2, ToldOne
      <4>4. Forum!Reply(c)
        <5> HIDE DEF Outgoing
        <5> QED
          BY <1>2, <1>3, <1>4, <1>6, <3>1, <3>2, <4>1, <4>3, Mapped
          DEF Forum!Reply, Forum!Replies
      <4> QED  BY <1>6, <2>2, <4>1, <4>4 DEF InForum, Forum!Steps
    <3>4. CASE job[c].then = "kick"
      <4>1. pc'[c] = "removing"  BY <1>1, <1>9, <3>4, QueuesEffect DEF Continues
      <4>2. Forum!Told(at, Forum!Errors)
        BY <1>1, <2>1, <3>1, <3>4, ErrorShape, ToldOne
      <4>3. Forum!Expel(c)
        <5> HIDE DEF Outgoing
        <5> QED
          BY <1>2, <1>3, <1>4, <1>6, <3>1, <3>2, <4>1, <4>2, Mapped
          DEF Forum!Expel, Forum!Moves, Forum!Replies
      <4> QED  BY <1>6, <2>2, <4>1, <4>3 DEF InForum, Forum!Steps
    <3> QED  BY <3>3, <3>4
  <2> QED  BY <2>3, <2>4
<1> QED  BY <1>7, <1>8, <1>9, SendShape

\* The loop over connections: a handler starts, a connection is turned away,
\* a handler is cancelled.
LEMMA ServerForum ==
  ASSUME TypeInv, BacklogConsistent, IdleInv, StoryInv, FitsInv, NEW c \in Conns, Server(c)
  PROVE  /\ InForum(c) /\ OthersPut(c) /\ UNCHANGED <<name, registry>>
<1> USE DEF handlerVars, socketVars, clientVars
<1>1. TypeOK /\ LoopTypeOK /\ Fits(c)  BY DEF TypeInv, TypeOK, FitsInv
<1>2. UNCHANGED <<name, registry>>
  BY DEF Server, SpawnHandler, TurnAway, CancelHandler
<1>3. Accepting(c) \/ Rejecting(c) => task[c] \in Unanswered
  BY <1>1 DEF Accepting, Rejecting, BacklogConsistent, LoopTypeOK, Unanswered
<1>4. task[c] \in Unanswered =>
        pc[c] = "idle" /\ wire[c] = <<>> /\ StageOf(c) = "new" /\ DueOf(c) = {}
  BY DEF IdleInv, StoryInv, Story, Unheard, StageOf, InLoop, DueOf, ReadGuard
<1>5. CASE SpawnHandler(c)
  <2>1. pc[c] = "idle" /\ pc'[c] = "joining" /\ OthersPut(c) /\ UNCHANGED wire
    BY <1>1, <1>3, <1>4, <1>5 DEF SpawnHandler, Spawn, OthersPut, TypeOK
  <2>2. /\ StageOf(c)' = "new" /\ DueOf(c)' = {} /\ ~ReadGuard(c)'
        /\ StageOf(c) = "new" /\ DueOf(c) = {}
    BY <2>1 DEF StageOf, InLoop, DueOf, ReadGuard
  <2>3. Fits(c)'  BY <1>1, <1>2, <2>1, <2>2 DEF Fits
  <2>4. UNCHANGED Forum!vars  BY <1>2, <2>1, <2>2, NothingTold
  <2> QED  BY <1>2, <2>1, <2>3, <2>4 DEF InForum
<1>6. CASE TurnAway(c)
  <2>1. UNCHANGED <<pc, job>> /\ OthersPut(c) /\ task[c] \in Unanswered
    BY <1>3, <1>6
    DEF TurnAway, RejectSent, RejectFails, RejectSuspends, Rejecting, OthersPut
  <2>2. pc[c] = "idle" /\ wire[c] = <<>>  BY <1>4, <2>1
  <2>3. /\ StageOf(c) = "new" /\ DueOf(c) = {} /\ ~ReadGuard(c)'
        /\ StageOf(c)' = "new" /\ DueOf(c)' = {}
    BY <2>1, <2>2 DEF StageOf, InLoop, DueOf, ReadGuard
  <2>4. Fits(c)'  BY <1>1, <1>2, <2>1, <2>2, <2>3 DEF Fits
  <2>5. CASE UNCHANGED wire
    <3>1. UNCHANGED Forum!vars  BY <1>2, <2>1, <2>3, <2>5, NothingTold
    <3> QED  BY <1>2, <2>1, <2>4, <2>5, <3>1 DEF InForum
  <2>6. CASE WriteLands(c, Error("Server is full"))
    <3> DEFINE full == Error("Server is full")
    <3>1. full \in Outgoing /\ full \in Forum!Errors
      BY OwnMessages DEF ErrorTexts, Error, Forum!Errors
    <3>2. WriteLands(c, full)  BY <2>6
    <3> HIDE DEF full, Outgoing
    <3>3. Forum!Told(c, Forum!Errors)  BY <1>1, <3>1, <3>2, ToldOne
    <3>4. \A d \in Conns \ {c} : wire'[d] = wire[d]  BY <1>1, <3>1, <3>2, WireEffect
    <3>5. Forum!Refuse(c)
      BY <1>2, <2>1, <2>2, <2>3, <3>3, Mapped DEF Forum!Refuse
    <3> QED  BY <1>2, <2>1, <2>4, <3>4, <3>5 DEF InForum, Forum!Steps
  <2> QED  BY <1>6, <2>5, <2>6 DEF TurnAway, WriteFails
<1>7. CASE CancelHandler(c)
  <2>1. pc'[c] = "ended" /\ OthersPut(c) /\ UNCHANGED wire
    BY <1>1, <1>7 DEF CancelHandler, OthersPut, TypeOK
  <2>2. StageOf(c)' = "out" /\ DueOf(c)' = {} /\ ~ReadGuard(c)' /\ Fits(c)'
    BY <2>1 DEF StageOf, InLoop, DueOf, ReadGuard, Fits
  <2>3. StageOf(c) = "out" => DueOf(c) = {}
    BY DEF StageOf, InLoop, DueOf, ReadGuard
  <2>4. [Forum!Steps]_(Forum!vars)
    <3>1. CASE StageOf(c) = "out"  BY <1>2, <2>1, <2>2, <2>3, <3>1, NothingTold
    <3>2. CASE StageOf(c) # "out"  BY <1>2, <2>1, <2>2, <3>2, Falling
    <3> QED  BY <3>1, <3>2
  <2> QED  BY <1>2, <2>1, <2>2, <2>4 DEF InForum
<1> QED  BY <1>5, <1>6, <1>7 DEF Server

LEMMA ForumStep ==
  /\ TypeInv /\ BacklogConsistent /\ TargetsStay /\ IdleInv /\ EntriesInv /\ StoryInv
  /\ FifoInv /\ FitsInv /\ [Next]_vars
  => FitsInv' /\ [Forum!Steps]_(Forum!vars)
<1> SUFFICES ASSUME TypeInv, BacklogConsistent, TargetsStay, IdleInv, EntriesInv, StoryInv,
                    FifoInv, FitsInv, [Next]_vars
             PROVE  FitsInv' /\ [Forum!Steps]_(Forum!vars)
  OBVIOUS
<1>1. ASSUME NEW c \in Conns, InForum(c), OthersPut(c),
             \A d \in Conns \ {c} : name'[d] = name[d],
             UNCHANGED registry \/ \A d \in Conns : ~ReadGuard(d)
      PROVE  FitsInv' /\ [Forum!Steps]_(Forum!vars)
  <2>1. ASSUME NEW d \in Conns \ {c} PROVE Fits(d)'
    BY <1>1, FitsKept DEF InForum, OthersPut, FitsInv
  <2> QED  BY <1>1, <2>1 DEF InForum, FitsInv
<1>2. ASSUME UNCHANGED <<pc, job, name, registry, wire>>
      PROVE  FitsInv' /\ [Forum!Steps]_(Forum!vars)
  <2>1. \A d \in Conns : Fits(d)'  BY <1>2, FitsKept DEF FitsInv
  <2>2. UNCHANGED <<Stage, Due>>
    BY <1>2 DEF Stage, StageOf, InLoop, Due, DueOf, ReadGuard
  <2> QED  BY <1>2, <2>1, <2>2 DEF FitsInv, Forum!vars
<1>3. CASE LoopAlone \/ UNCHANGED vars
  BY <1>2, <1>3 DEF LoopAlone, vars, handlerVars, socketVars
<1>4. ASSUME NEW c \in Conns, Client(c) \/ Reader(c)
      PROVE  FitsInv' /\ [Forum!Steps]_(Forum!vars)
  BY <1>2, <1>4
  DEF Client, Reader, Dial, ClientSends, ClientCloses, ClientVanishes, ClientReads, handlerVars
<1>5. ASSUME NEW c \in Conns, Handler(c) \/ JoinTimeout(c)
      PROVE  FitsInv' /\ [Forum!Steps]_(Forum!vars)
  <2>1. OthersPut(c) /\ (UNCHANGED registry \/ InsertWriter(c) \/ RemoveWriter(c))
    BY <1>5, HandlerFrame
  <2>2. UNCHANGED registry \/ \A d \in Conns : ~ReadGuard(d)
    BY <2>1 DEF InsertWriter, RemoveWriter, GrantedWrite
  <2>3. \A d \in Conns \ {c} : name'[d] = name[d]
    <3>1. UNCHANGED name \/ JoinReads(c)
      BY <1>5, HandlerCases, ReactShape, SendShape
      DEF JoinOtherMessage, JoinUnreadable, JoinEof, JoinTimeout, Lookup, InsertWriter,
          ServeReads, LeaveOnRead, PanicOnRead, RemoveWriter, ReactUnnamed
    <3> QED  BY <3>1 DEF JoinReads, TypeInv, TypeOK
  <2>4. InForum(c)
    <3>1. CASE Sending(c)
      <4>1. job[c].then \in {"close", "welcome"} \/ job[c].then \in {"reply", "kick"}
        BY <3>1, SendShape DEF Continuations
      <4> QED  BY <3>1, <4>1, FirstSendForum, LoopSendForum
    <3> QED  BY <1>5, <3>1, HandlerCases, JoinForum, MapForum, ReactForum
  <2> QED  BY <1>1, <2>1, <2>2, <2>3, <2>4
<1>6. ASSUME NEW c \in Conns, Server(c)
      PROVE  FitsInv' /\ [Forum!Steps]_(Forum!vars)
  BY <1>1, <1>6, ServerForum
<1> QED  BY <1>3, <1>4, <1>5, <1>6 DEF Next

LEMMA ForumInit == Init => FitsInv /\ Forum!Init
<1> SUFFICES ASSUME Init PROVE FitsInv /\ Forum!Init
  OBVIOUS
<1>1. \A c \in Conns : StageOf(c) = "new" /\ DueOf(c) = {} /\ Fits(c)
  BY DEF Init, StageOf, InLoop, DueOf, ReadGuard, Fits
<1> QED  BY <1>1 DEF Init, SocketInit, FitsInv, Forum!Init, Stage, Due

\* What the clients of the multi-threaded server are told, whatever its
\* handlers do at once, is what a forum tells: a message goes to everybody
\* under another name at one moment, each once, unless its sender is to
\* leave; a list of users is true as it is written; and while anything is to
\* be told, nobody enters and nobody leaves.
THEOREM ServerIsForum == Spec => ImplementsForum
<1>1. TypeInv /\ BacklogConsistent /\ TargetsStay /\ (IdleInv /\ EntriesInv) /\ StoryInv
      /\ FifoInv /\ FitsInv /\ [Next]_vars
      => FitsInv' /\ [Forum!Next]_(Forum!vars)
  BY ForumStep DEF Forum!Next
<1> QED
  BY <1>1, ForumInit, TypeInvCorrect, ImplementsLoop, BacklogHolds, TargetsKept, EntriesHold,
     StoryHolds, FifoHolds, PTL
  DEF Spec, ImplementsForum, Forum!Spec
=============================================================================

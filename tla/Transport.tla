----------------------------- MODULE Transport ------------------------------
(***************************************************************************)
(* The sockets between the clients and a server, a line at a time, and the *)
(* client side of client.rs.  sent[c] holds every line client c wrote and  *)
(* taken[c] how many of them the server's MessageReader returned; wire[c]  *)
(* holds every message the server wrote to c and seen[c] how many of them  *)
(* the client read.  What lies between the counts is in flight.            *)
(***************************************************************************)
EXTENDS Protocol, AcceptLoop

CONSTANTS Requests,    \* the lines a client may send in this instance, as its k-th
          MaxSends,    \* bound on the lines a client sends
          InFlight,    \* bound on the lines of a client the server has not taken
          OutCap,      \* messages a server-to-client socket buffers unread
          MayVanish,   \* may a client close its socket, reading side too?
          WriteMayYield  \* may a write of a handler that has room still return
                         \* Pending, when its task is to make way for others?

ASSUME RequestsAssumption == Requests \in [Conns -> [1..MaxSends -> SUBSET Line]]
ASSUME MaxSendsAssumption == MaxSends \in Nat
ASSUME InFlightAssumption == InFlight \in Nat
ASSUME OutCapAssumption == OutCap \in Nat \ {0}
ASSUME MayVanishAssumption == MayVanish \in BOOLEAN
ASSUME WriteMayYieldAssumption == WriteMayYield \in BOOLEAN

VARIABLES peer, sent, taken, wire, seen

clientVars == <<peer, sent, seen>>
socketVars == <<peer, sent, taken, wire, seen>>

\* "half": the client shut down its writing side and still reads.
PeerStates == {"away", "open", "half", "gone"}

\* The text of the k-th line of c.
Text == Conns \X (1..MaxSends)

Outgoing == ServerToClientMsg(Text)

SocketTypeOK ==
  /\ peer \in [Conns -> PeerStates]
  /\ sent \in [Conns -> Seq(Line)]
  /\ taken \in [Conns -> Nat]
  /\ wire \in [Conns -> Seq(Outgoing)]
  /\ seen \in [Conns -> Nat]
  /\ \A c \in Conns : /\ taken[c] <= Len(sent[c])
                      /\ Len(sent[c]) <= MaxSends
                      /\ seen[c] <= Len(wire[c])

SocketInit ==
  /\ peer = [c \in Conns |-> "away"]
  /\ sent = [c \in Conns |-> <<>>]
  /\ taken = [c \in Conns |-> 0]
  /\ wire = [c \in Conns |-> <<>>]
  /\ seen = [c \in Conns |-> 0]

-----------------------------------------------------------------------------
(***************************************************************************)
(* The client: ClientSpawner::client, ClientWriter::send, ::close,         *)
(* dropping a Client, and ClientReader::recv.                              *)
(***************************************************************************)
Dial(c) ==
  /\ Connect(c)
  /\ peer' = [peer EXCEPT ![c] = "open"]
  /\ UNCHANGED <<sent, taken, wire, seen>>

\* What c may send next.
MaySend(c) == IF Len(sent[c]) < MaxSends THEN Requests[c][Len(sent[c]) + 1] ELSE {}

ClientSends(c, line) ==
  /\ peer[c] = "open"
  /\ Len(sent[c]) < MaxSends
  /\ Len(sent[c]) - taken[c] < InFlight
  /\ sent' = [sent EXCEPT ![c] = Append(@, line)]
  /\ UNCHANGED <<peer, taken, wire, seen>>

ClientCloses(c) ==
  /\ peer[c] = "open"
  /\ peer' = [peer EXCEPT ![c] = "half"]
  /\ UNCHANGED <<sent, taken, wire, seen>>

ClientVanishes(c) ==
  /\ MayVanish
  /\ peer[c] \in {"open", "half"}
  /\ peer' = [peer EXCEPT ![c] = "gone"]
  /\ UNCHANGED <<sent, taken, wire, seen>>

\* A message fits as long as the client keeps up.
HasRoom(c) == Len(wire[c]) - seen[c] < OutCap

\* A read is a step only when the socket is full: one that makes more room
\* where there is some changes nothing the server can observe.
ClientReads(c) ==
  /\ peer[c] \in {"open", "half"}
  /\ ~HasRoom(c)
  /\ seen' = [seen EXCEPT ![c] = @ + 1]
  /\ UNCHANGED <<peer, sent, taken, wire>>

-----------------------------------------------------------------------------
(***************************************************************************)
(* The server's end: MessageReader::recv and MessageWriter::send.          *)
(***************************************************************************)
HasLine(c) == taken[c] < Len(sent[c])
NextLine(c) == sent[c][taken[c] + 1]
NextText(c) == <<c, taken[c] + 1>>

\* recv returns the next line of c.
Take(c) ==
  /\ HasLine(c)
  /\ taken' = [taken EXCEPT ![c] = @ + 1]

\* recv returns None: everything is read and the client shut its side.
AtEof(c) == ~HasLine(c) /\ peer[c] \in {"half", "gone"}

\* recv may return Some(Err(_)) instead: the client reset the connection.
AtReset(c) == ~HasLine(c) /\ peer[c] = "gone"

(***************************************************************************)
(* A write to a client that is gone is accepted by the kernel until the    *)
(* reset comes back, and fails from then on: either may happen.            *)
(***************************************************************************)
WriteLands(c, msg) ==
  /\ HasRoom(c) \/ peer[c] = "gone"
  /\ wire' = [wire EXCEPT ![c] = Append(@, msg)]

WriteFails(c) ==
  /\ peer[c] = "gone"
  /\ UNCHANGED wire
=============================================================================

------------------------------- MODULE Forum -------------------------------
(***************************************************************************)
(* All that the clients of the multi-threaded server are told, with        *)
(* nothing said of threads, locks, queues and sockets.  A forum is less    *)
(* than a ChatRoom: a name may pass to another member, and it takes time   *)
(* to tell everybody something.  What makes up for it: while anybody is    *)
(* still to be told anything, nobody enters and nobody leaves.             *)
(***************************************************************************)
EXTENDS Sequences, Naturals

CONSTANTS Conns, Names, NoConn, NoName,
          Texts,     \* what may be said
          Reasons    \* what an error says

VARIABLES stage,   \* "new", "welcome", "in", "leaving" or "out"
          alias,   \* the one name each connection asked for, or NoName
          entry,   \* whom a name leads to, or NoConn
          inbox,   \* all that each connection was told
          due      \* of what each member said, who is still to be told

vars == <<stage, alias, entry, inbox, due>>

Taken == {n \in Names : entry[n] # NoConn}
Settled == \A c \in Conns : due[c] = {}

Errors == [kind : {"Error"}, text : Reasons]

Init ==
  /\ stage = [c \in Conns |-> "new"]
  /\ alias = [c \in Conns |-> NoName]
  /\ entry = [n \in Names |-> NoConn]
  /\ inbox = [c \in Conns |-> <<>>]
  /\ due = [c \in Conns |-> {}]

Moves(c, from, to) == stage[c] = from /\ stage'[c] = to /\ stage' = [stage EXCEPT ![c] = to]

\* d is told one of msgs.
Told(d, msgs) ==
  /\ inbox' # inbox
  /\ \E msg \in msgs : inbox' = [inbox EXCEPT ![d] = Append(@, msg)]

Ask(c, n) ==
  /\ stage[c] = "new" /\ alias[c] = NoName
  /\ alias' = [alias EXCEPT ![c] = n]
  /\ UNCHANGED <<stage, entry, inbox, due>>

\* The first thing c is told is that it is not wanted, and why; or that it is.
Refuse(c) ==
  /\ inbox[c] = <<>>
  /\ Told(c, Errors)
  /\ \/ stage[c] = "new" /\ UNCHANGED stage
     \/ Moves(c, "new", "out")
  /\ UNCHANGED <<alias, entry, due>>

Greet(c) ==
  /\ inbox[c] = <<>> /\ alias[c] \in Names
  /\ Moves(c, "new", "welcome")
  /\ Told(c, {[kind |-> "Welcome"]})
  /\ UNCHANGED <<alias, entry, due>>

\* c, told no more than that, gets the name it asked for, whoever had it.
Enter(c) ==
  /\ Moves(c, "welcome", "in")
  /\ inbox[c] = <<[kind |-> "Welcome"]>>
  /\ Settled
  /\ entry' = [entry EXCEPT ![alias[c]] = c]
  /\ UNCHANGED <<alias, inbox, due>>

\* c says something new, in its own name, to all under other names or to one
\* of them.
Others(c) == {entry[n] : n \in Taken \ {alias[c]}}

Letters(to, msg) == {[to |-> d, msg |-> msg] : d \in to}

New(msg) ==
  \A d \in Conns : /\ \A i \in DOMAIN inbox[d] : inbox[d][i] # msg
                   /\ \A letter \in due[d] : letter.msg # msg

Speak(c) ==
  /\ stage[c] = "in" /\ due[c] = {} /\ alias[c] \in Taken
  /\ due'[c] # {}
  /\ \E to \in {Others(c)} \cup {{d} : d \in Others(c)}, text \in Texts :
       LET msg == [kind |-> "Message", from |-> alias[c], message |-> text] IN
       /\ due' = [due EXCEPT ![c] = Letters(to, msg)]
       /\ New(msg)
  /\ UNCHANGED <<stage, alias, entry, inbox>>

\* One more of those it is meant for is told.
Tell(c) ==
  /\ stage[c] = "in"
  /\ \E letter \in due[c] :
       /\ Told(letter.to, {letter.msg})
       /\ due' = [due EXCEPT ![c] = @ \ {letter}]
  /\ UNCHANGED <<stage, alias, entry>>

\* Whom the name of c leads to is told what c asked for: the names taken are
\* those taken as it is told.
Replies(c, msgs) ==
  /\ due[c] = {} /\ alias[c] \in Taken
  /\ Told(entry[alias[c]], msgs)
  /\ UNCHANGED <<alias, entry, due>>

Reply(c) ==
  /\ stage[c] = "in"
  /\ Replies(c, {[kind |-> "Pong"], [kind |-> "UserList", users |-> Taken]} \cup Errors)
  /\ UNCHANGED stage

Expel(c) == Moves(c, "in", "leaving") /\ Replies(c, Errors)

\* c says no more, and whoever is still to be told is not told.
Falls(c, from, to) ==
  /\ Moves(c, from, to)
  /\ due' = [due EXCEPT ![c] = {}]
  /\ UNCHANGED <<alias, entry, inbox>>

GiveUp(c) == Falls(c, "in", "leaving")

\* Out without leaving: if its name leads to it, it goes on doing so.
Stop(c) == stage[c] # "out" /\ Falls(c, stage[c], "out")

\* The name of c is free, whoever has it.
Leave(c) ==
  /\ Moves(c, "leaving", "out")
  /\ Settled
  /\ entry' = [entry EXCEPT ![alias[c]] = NoConn]
  /\ UNCHANGED <<alias, inbox, due>>

Steps ==
  \E c \in Conns :
    \/ \E n \in Names : Ask(c, n)
    \/ Refuse(c) \/ Greet(c) \/ Enter(c)
    \/ Speak(c) \/ Tell(c) \/ Reply(c) \/ Expel(c)
    \/ GiveUp(c) \/ Stop(c) \/ Leave(c)

\* Something is told, or becomes due, or somebody moves.
Next == vars' # vars /\ Steps

Spec == Init /\ [][Next]_vars
=============================================================================

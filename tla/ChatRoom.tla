------------------------------ MODULE ChatRoom ------------------------------
(***************************************************************************)
(* What a chat server is for, with nothing said of tasks, channels and     *)
(* sockets: a room of members under distinct names, and for each           *)
(* connection the messages said to it, in the order they were said.        *)
(***************************************************************************)
EXTENDS Sequences, Naturals

CONSTANTS Conns, Names, NoConn,
          Texts      \* what may be said

VARIABLES member,   \* who goes by a name in the room, or NoConn
          inbox     \* the messages said to each connection

vars == <<member, inbox>>

Members == {member[n] : n \in Names} \ {NoConn}

Init ==
  /\ member = [n \in Names |-> NoConn]
  /\ inbox = [c \in Conns |-> <<>>]

\* c enters under a name nobody has, and nothing was said to it before.
Enter(c, n) ==
  /\ member[n] = NoConn /\ c \notin Members
  /\ inbox[c] = <<>>
  /\ member' = [member EXCEPT ![n] = c]
  /\ UNCHANGED inbox

\* c is out of the room; of what was said to it, it may lose the end.
Out(c) == member' = [n \in Names |-> IF member[n] = c THEN NoConn ELSE member[n]]
Kept(c) == {SubSeq(inbox[c], 1, k) : k \in 0..Len(inbox[c])}

Leave(c) ==
  /\ c \in Members
  /\ Out(c)
  /\ \E rest \in Kept(c) : inbox' = [inbox EXCEPT ![c] = rest]

\* At one moment, the members in to are told something new in the name n.
Tell(n, to, text, before) ==
  LET msg == [kind |-> "Message", from |-> n, message |-> text] IN
  /\ \A d \in Conns : \A i \in DOMAIN inbox[d] : inbox[d][i] # msg
  /\ inbox' = [d \in Conns |-> IF d \in to THEN Append(before[d], msg) ELSE before[d]]

\* c says something to some of the others.  If it cannot reach all it means
\* to, it is put out.
Say(c, n) ==
  /\ member[n] = c
  /\ inbox' # inbox
  /\ \E to \in SUBSET (Members \ {c}), text \in Texts :
       \/ UNCHANGED member /\ Tell(n, to, text, inbox)
       \/ Out(c) /\ \E rest \in Kept(c) : Tell(n, to, text, [inbox EXCEPT ![c] = rest])

Next ==
  \E c \in Conns :
    \/ Leave(c)
    \/ \E n \in Names : Enter(c, n) \/ Say(c, n)

Spec == Init /\ [][Next]_vars
=============================================================================

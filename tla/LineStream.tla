----------------------------- MODULE LineStream -----------------------------
(***************************************************************************)
(* What MessageWriter and MessageReader promise each other: a stream of    *)
(* bytes that grows at one end and loses whole lines, one at a time, at    *)
(* the other.  How the bytes travel and where they are kept is left open.  *)
(***************************************************************************)
EXTENDS Naturals, Sequences

CONSTANTS Newline, Valid    \* the line end; the lines that parse

VARIABLES unread,   \* bytes written and not part of a line returned yet
          got       \* the lines returned

Bytes(s, first, last) == [i \in 1..(last - first + 1) |-> s[first + i - 1]]

\* The first line of s ends at p.
EndsAt(s, p) == s[p] = Newline /\ \A i \in 1..(p - 1) : s[i] # Newline

Init == unread = <<>> /\ got = <<>>

Written ==
  /\ Len(unread') >= Len(unread)
  /\ \A i \in 1..Len(unread) : unread'[i] = unread[i]
  /\ UNCHANGED got

Returned ==
  \E p \in 1..Len(unread) :
    /\ EndsAt(unread, p)
    /\ Bytes(unread, 1, p - 1) \in Valid
    /\ unread' = Bytes(unread, p + 1, Len(unread))
    /\ got' = Append(got, Bytes(unread, 1, p - 1))

Next == Written \/ Returned

Spec == Init /\ [][Next]_<<unread, got>>
=============================================================================

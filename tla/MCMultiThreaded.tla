-------------------------- MODULE MCMultiThreaded ---------------------------
EXTENDS MultiThreaded, Situations

\* c has sent a line its handler ends at.
Rude(c) ==
  \E i \in DOMAIN sent[c] :
    sent[c][i].kind \in (IF i = 1 THEN {"Broadcast"} ELSE {"Join"}) \cup Unreadable

\* Of two clients one may close or vanish, and one, the same or the other, may
\* send a line its handler ends at.
Tame ==
  /\ \E c \in Conns : \A d \in Conns \ {c} : ~Rude(d)
  /\ \E c \in Conns : \A d \in Conns \ {c} : peer[d] \in {"away", "open"}

BoundTame == Bound /\ (Dialled(Third) \/ Tame)
=============================================================================

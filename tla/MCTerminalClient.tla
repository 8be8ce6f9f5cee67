-------------------------- MODULE MCTerminalClient --------------------------
EXTENDS TerminalClient

\* The lines the users of an instance can type.
ChatLines == [c \in Conns |-> [k \in 1..MaxSends |-> {l \in Line : l.kind = "Broadcast"}]]
=============================================================================

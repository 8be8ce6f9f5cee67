-------------------------- MODULE MCSingleThreaded --------------------------
EXTENDS SingleThreadedProperties, Situations

\* OfKind is SelectSeq with the test of the kind, here on all sequences of up
\* to four messages of two kinds.
ASSUME OfKindSelects ==
  LET Messages == {[kind |-> k, pos |-> p] : k \in {"Pong", "Message"}, p \in 1..2}
  IN  \A n \in 0..4 : \A msgs \in [1..n -> Messages] : \A kinds \in SUBSET {"Pong", "Message"} :
         OfKind(msgs, kinds) = SelectSeq(msgs, LAMBDA m : m.kind \in kinds)
=============================================================================

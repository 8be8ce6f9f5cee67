----------------------------- MODULE Selection ------------------------------
(***************************************************************************)
(* The messages of some kinds among those in a sequence.  It is SelectSeq  *)
(* with that test, written out as a recursive function because what        *)
(* SelectSeq returns cannot be reasoned about.                             *)
(***************************************************************************)
EXTENDS Sequences, Naturals

OfKind(msgs, kinds) ==
  LET picked[i \in 0..Len(msgs)] ==
        IF i = 0 THEN <<>>
        ELSE IF msgs[i].kind \in kinds THEN Append(picked[i - 1], msgs[i])
        ELSE picked[i - 1]
  IN  picked[Len(msgs)]
=============================================================================

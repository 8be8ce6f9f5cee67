----------------------------- MODULE MCFraming ------------------------------
EXTENDS Framing

\* Lines that parse: a short one, one that fills the buffer with its line
\* end; lines that do not: an empty one, one with the bytes of another; and
\* one that does not fit.
ParsingBodies == {<<"a">>, <<"b", "a">>, <<"a", "b", "a">>}
AllBodies == ParsingBodies \cup {<<>>, <<"b">>, <<"a", "b", "a", "a">>}
=============================================================================

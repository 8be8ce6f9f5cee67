----------------------------- MODULE Situations -----------------------------
(***************************************************************************)
(* What the TLC instances of the two servers are about.  The state         *)
(* constraint Bound keeps an instance to the situations of interest: it    *)
(* goes no further where they end.  Who dials third and fourth, and which  *)
(* name is the third, is a matter of naming.                               *)
(***************************************************************************)
EXTENDS Transport, TLC

CONSTANTS Third, Fourth,  \* connections opened after two others, and after three
          Spare           \* a name only the third client asks for

Bare(kinds) == {l \in Line : l.kind \in kinds}

\* The lines of clients that all send the same: their first, second and so on.
ByPosition(lines) == [c \in Conns |-> [k \in 1..MaxSends |-> lines[k]]]

JoinsAndCries == [c \in Conns |-> [k \in 1..MaxSends |-> Bare({"Join", "Broadcast"})]]
JoinAndCry == ByPosition(<<Bare({"Join"}), Bare({"Broadcast"})>>)
JoinAndPanic == ByPosition(<<Bare({"Join"}), Bare({"Oversized"})>>)

Asks == {"Ping", "ListUsers"}
Chats == {"Broadcast", "SendDM"}

\* Anything, from two clients: one Broadcast stands for all the lines
\* join_client takes for unexpected.  The third joins and the fourth is silent.
Everything ==
  LET Of(kinds) == {l \in Bare(kinds) : l.name # Spare}
  IN  [ByPosition(<<Of({"Join", "Broadcast", "Garbage"}),
                    Of(Addressed \cup Plain \cup Unreadable),
                    Of(Asks \cup Chats)>>) EXCEPT
         ![Third] = <<Bare({"Join"}), {}, {}>>,
         ![Fourth] = <<{}, {}, {}>>]

Dialled(c) == task[c] # "absent"
Kinds(c) == [i \in DOMAIN sent[c] |-> sent[c][i].kind]

\* Nothing is sent after a first line that is not a Join, and the name in a
\* second Join is not looked at.
Relevant(c) ==
  Len(sent[c]) > 1 => /\ sent[c][1].kind = "Join"
                      /\ sent[c][2].kind = "Join" => sent[c][2].name = sent[c][1].name

\* Two clients, with two lines each.
Pair == \A c \in Conns : Len(sent[c]) <= 2

\* Two clients that stay: one sends two requests, or two messages, after its Join.
Order ==
  /\ \A c \in Conns : peer[c] \in {"away", "open"}
  /\ \E c \in Conns :
       /\ Len(sent[c]) = 3
       /\ \E kinds \in {Asks, Chats} : {sent[c][2].kind, sent[c][3].kind} \subseteq kinds
       /\ \A d \in Conns \ {c} : Kinds(d) \in {<<>>, <<"Join">>, <<"Join", "Broadcast">>}

AtMostOne(S) == Cardinality(S) <= 1

\* Three clients, welcomed one at a time.  Two of them broadcast, or one does and
\* one may vanish.
Crowd ==
  /\ \A c \in Conns : /\ Kinds(c) \in {<<>>, <<"Join">>, <<"Join", "Broadcast">>}
                      /\ wire[c] # <<>> => wire[c][1] = Welcome
                      /\ peer[c] # "half"
  /\ AtMostOne({c \in Conns : sent[c] # <<>> /\ wire[c] = <<>>})
  /\ LET gone == {c \in Conns : peer[c] = "gone"} IN
       /\ AtMostOne(gone)
       /\ gone = {} \/ AtMostOne({c \in Conns : Len(sent[c]) = 2})

\* A fourth client is turned away, or ends the server if it leaves meanwhile.
\* The others are silent.
Full ==
  \A c \in Conns \ {Fourth} : peer[c] = "open" /\ sent[c] = <<>> /\ wire[c] = <<>>

\* listener.accept() fails in front of the fourth only.
Bound ==
  /\ \A c \in Conns : Relevant(c)
  /\ \/ ~Dialled(Third) /\ ~Dialled(Fourth) /\ armed /\ (Pair \/ Order)
     \/ (\A c \in Conns : Dialled(c) <=> c # Fourth) /\ armed /\ Crowd
     \/ (\A c \in Conns \ {Fourth} : Dialled(c)) /\ Full

\* The first two connections and names are interchangeable: sound for the runs
\* without liveness.
Symmetry == Permutations(Conns \ {Third, Fourth}) \cup Permutations(Names \ {Spare})
=============================================================================

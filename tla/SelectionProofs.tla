-------------------------- MODULE SelectionProofs ---------------------------
(***************************************************************************)
(* What OfKind returns, for any sequence: of the empty sequence, of one    *)
(* that was appended to and of a concatenation; and when requests and      *)
(* replies agree. The proofs are by induction, on numbers and on           *)
(* sequences, with the set of those the claim holds of in place of a       *)
(* predicate, because the library's induction theorems that take an        *)
(* operator cannot be used.                                                *)
(***************************************************************************)
EXTENDS Selection, TLAPS, SequenceTheorems, WellFoundedInduction

-----------------------------------------------------------------------------
(***************************************************************************)
(* Induction.                                                              *)
(***************************************************************************)

LEMMA LeastNumber ==
  ASSUME NEW T, T \subseteq Nat, T # {}
  PROVE  \E n \in T : \A m \in T : n <= m
<1>1. PICK n \in T : \A m \in T : <<m, n>> \notin OpToRel(<, Nat)
  BY NatLessThanWellFounded, WFMin
<1>2. \A m \in T : ~ (m < n)
  BY <1>1 DEF OpToRel
<1> QED BY <1>2

LEMMA ByAppending ==
  ASSUME NEW S, NEW X, <<>> \in X,
         \A s \in Seq(S), e \in S : s \in X => Append(s, e) \in X
  PROVE  Seq(S) \subseteq X
<1> SUFFICES ASSUME Seq(S) \ X # {} PROVE FALSE  OBVIOUS
<1> DEFINE T == {Len(s) : s \in Seq(S) \ X}
<1>1. T \subseteq Nat /\ T # {}  BY LenProperties
<1>2. PICK n \in T : \A m \in T : n <= m  BY <1>1, LeastNumber
<1>3. PICK s \in Seq(S) \ X : Len(s) = n  OBVIOUS
<1>4. PICK t \in Seq(S), e \in S : s = Append(t, e)  BY SequenceEmptyOrAppend
<1>5. Len(t) \in Nat /\ Len(s) = Len(t) + 1  BY <1>4, AppendProperties, LenProperties
<1>6. t \notin X  BY <1>3, <1>4
<1>7. Len(t) \in T  BY <1>6
<1> QED  BY <1>2, <1>3, <1>5, <1>7

\* picked, up to n.
Picks(g, s, K, n) ==
  g = [i \in 0..n |-> IF i = 0 THEN <<>>
                      ELSE IF s[i].kind \in K THEN Append(g[i - 1], s[i])
                      ELSE g[i - 1]]

LEMMA PicksExist ==
  ASSUME NEW s, NEW K, NEW n \in Nat
  PROVE  \E g : Picks(g, s, K, n)
<1> DEFINE T == {m \in Nat : \A g : ~Picks(g, s, K, m)}
<1> SUFFICES ASSUME T # {} PROVE FALSE  OBVIOUS
<1>1. PICK m \in T : \A k \in T : m <= k  BY LeastNumber
<1>2. CASE m = 0
  <2>1. Picks([i \in 0..0 |-> <<>>], s, K, 0)  BY DEF Picks
  <2> QED  BY <1>2, <2>1
<1>3. CASE m # 0
  <2>1. m - 1 \in Nat /\ m - 1 \notin T  BY <1>1, <1>3
  <2>2. PICK g : Picks(g, s, K, m - 1)  BY <2>1
  <2> DEFINE h == [i \in 0..m |-> IF i # m THEN g[i]
                                  ELSE IF s[m].kind \in K THEN Append(g[m - 1], s[m])
                                  ELSE g[m - 1]]
  <2>3. ASSUME NEW i \in 0..m
        PROVE  h[i] = IF i = 0 THEN <<>>
                      ELSE IF s[i].kind \in K THEN Append(h[i - 1], s[i])
                      ELSE h[i - 1]
    <3>1. CASE i = m  BY <1>3, <3>1
    <3>2. CASE i # m
      <4>1. i \in 0..(m - 1)  BY <3>2
      <4>2. h[i] = g[i] /\ (i # 0 => h[i - 1] = g[i - 1])  BY <4>1
      <4>3. g[i] = IF i = 0 THEN <<>>
                   ELSE IF s[i].kind \in K THEN Append(g[i - 1], s[i])
                   ELSE g[i - 1]
        BY <2>2, <4>1 DEF Picks
      <4> HIDE DEF h
      <4> QED  BY <4>2, <4>3
    <3> QED  BY <3>1, <3>2
  <2>4. h = [i \in 0..m |-> h[i]]  OBVIOUS
  <2>5. Picks(h, s, K, m)
    <3> HIDE DEF h
    <3> QED  BY <2>3, <2>4 DEF Picks
  <2> QED  BY <2>5
<1> QED  BY <1>2, <1>3

LEMMA PicksAgree ==
  ASSUME NEW s, NEW t, NEW K, NEW m \in Nat, NEW n \in Nat, m <= n,
         \A i \in 1..m : s[i] = t[i],
         NEW g, Picks(g, s, K, m), NEW h, Picks(h, t, K, n)
  PROVE  g[m] = h[m]
<1> DEFINE T == {i \in 0..m : g[i] # h[i]}
<1> SUFFICES ASSUME T # {} PROVE FALSE  OBVIOUS
<1>1. PICK i \in T : \A k \in T : i <= k
  <2>1. T \subseteq Nat  OBVIOUS
  <2> HIDE DEF T
  <2> QED  BY <2>1, LeastNumber
<1>2. i # 0  BY <1>1, 0 \in 0..m, 0 \in 0..n DEF Picks
<1>3. i - 1 \in 0..m /\ g[i - 1] = h[i - 1]  BY <1>1, <1>2
<1>4. g[i] = IF s[i].kind \in K THEN Append(g[i - 1], s[i]) ELSE g[i - 1]
  BY <1>2 DEF Picks
<1>5. h[i] = IF t[i].kind \in K THEN Append(h[i - 1], t[i]) ELSE h[i - 1]
  BY <1>2, i \in 0..n DEF Picks
<1> QED  BY <1>2, <1>3, <1>4, <1>5

LEMMA OfKindPicks ==
  ASSUME NEW S, NEW s \in Seq(S), NEW K
  PROVE  \E g : Picks(g, s, K, Len(s)) /\ OfKind(s, K) = g[Len(s)]
<1> DEFINE n == Len(s)
           g == CHOOSE f : Picks(f, s, K, n)
<1>1. OfKind(s, K) = g[n]  BY DEF OfKind, Picks
<1>2. n \in Nat  BY LenProperties
<1>3. Picks(g, s, K, n)
  <2> HIDE DEF n
  <2> QED  BY <1>2, PicksExist
<1> QED  BY <1>1, <1>3

LEMMA OfKindEmpty == \A K : OfKind(<<>>, K) = <<>>
<1> SUFFICES ASSUME NEW K PROVE OfKind(<<>>, K) = <<>>  OBVIOUS
<1> DEFINE s == <<>>
<1>1. s \in Seq({}) /\ Len(s) = 0  BY EmptySeq
<1> HIDE DEF s
<1>2. PICK g : Picks(g, s, K, Len(s)) /\ OfKind(s, K) = g[Len(s)]  BY <1>1, OfKindPicks
<1>3. g[0] = <<>>  BY <1>1, <1>2 DEF Picks
<1> QED  BY <1>1, <1>2, <1>3 DEF s

LEMMA OfKindAppend ==
  ASSUME NEW S, NEW s \in Seq(S), NEW e \in S, NEW K
  PROVE  OfKind(Append(s, e), K) =
           IF e.kind \in K THEN Append(OfKind(s, K), e) ELSE OfKind(s, K)
<1> DEFINE n == Len(s)
           t == Append(s, e)
<1>1. /\ n \in Nat /\ t \in Seq(S) /\ Len(t) = n + 1
      /\ \A i \in 1..n : s[i] = t[i]
      /\ t[n + 1] = e
  BY AppendProperties, LenProperties
<1>2. PICK g : Picks(g, s, K, n) /\ OfKind(s, K) = g[n]  BY OfKindPicks
<1>3. PICK h : Picks(h, t, K, n + 1) /\ OfKind(t, K) = h[n + 1]  BY <1>1, OfKindPicks
<1>4. g[n] = h[n] 
  <2> HIDE DEF n, t
  <2> QED  BY <1>1, <1>2, <1>3, PicksAgree
<1>5. h[n + 1] = IF t[n + 1].kind \in K THEN Append(h[n], t[n + 1]) ELSE h[n]
  <2> HIDE DEF n, t
  <2>1. n + 1 \in 0..(n + 1) /\ n + 1 # 0 /\ (n + 1) - 1 = n  BY <1>1
  <2> QED  BY <2>1, <1>3 DEF Picks
<1> HIDE DEF n, t
<1> QED  BY <1>1, <1>2, <1>3, <1>4, <1>5 DEF t

LEMMA OfKindSeq ==
  ASSUME NEW S, NEW s \in Seq(S), NEW K
  PROVE  OfKind(s, K) \in Seq(S)
<1> DEFINE X == {t \in Seq(S) : OfKind(t, K) \in Seq(S)}
<1>1. <<>> \in X
  <2>1. OfKind(<<>>, K) = <<>> /\ <<>> \in Seq(S)  BY OfKindEmpty
  <2> QED  BY <2>1
<1>2. ASSUME NEW t \in Seq(S), NEW e \in S, t \in X PROVE Append(t, e) \in X
  <2>1. Append(t, e) \in Seq(S) /\ Append(OfKind(t, K), e) \in Seq(S)  BY <1>2
  <2>2. OfKind(Append(t, e), K) \in {OfKind(t, K), Append(OfKind(t, K), e)}
    BY OfKindAppend
  <2> QED  BY <1>2, <2>1, <2>2
<1>3. Seq(S) \subseteq X
  <2> HIDE DEF X
  <2> QED  BY <1>1, <1>2, ByAppending
<1> QED  BY <1>3

\* What is picked from a concatenation.
LEMMA OfKindConcat ==
  ASSUME NEW S, NEW s \in Seq(S), NEW t \in Seq(S), NEW K
  PROVE  OfKind(s \o t, K) = OfKind(s, K) \o OfKind(t, K)
<1> DEFINE X == {u \in Seq(S) : OfKind(s \o u, K) = OfKind(s, K) \o OfKind(u, K)}
<1>1. <<>> \in X
  <2>1. s \o <<>> = s /\ OfKind(s, K) \o <<>> = OfKind(s, K)
    BY OfKindSeq, ConcatEmptySeq
  <2>2. OfKind(<<>>, K) = <<>> /\ <<>> \in Seq(S)  BY OfKindEmpty
  <2> QED  BY <2>1, <2>2
<1>2. ASSUME NEW u \in Seq(S), NEW e \in S, u \in X PROVE Append(u, e) \in X
  <2>1. /\ <<e>> \in Seq(S) /\ s \o u \in Seq(S) /\ Append(u, e) \in Seq(S)
        /\ OfKind(s, K) \in Seq(S) /\ OfKind(u, K) \in Seq(S)
    BY OfKindSeq
  <2>2. s \o Append(u, e) = Append(s \o u, e)
    <3>1. Append(u, e) = u \o <<e>> /\ Append(s \o u, e) = (s \o u) \o <<e>>
      BY <2>1, AppendIsConcat
    <3> QED  BY <2>1, <3>1, ConcatAssociative
  <2>3. OfKind(s, K) \o Append(OfKind(u, K), e) = Append(OfKind(s, K) \o OfKind(u, K), e)
    <3> DEFINE a == OfKind(s, K)
               b == OfKind(u, K)
    <3> HIDE DEF a, b
    <3>1. a \in Seq(S) /\ b \in Seq(S)  BY <2>1 DEF a, b
    <3>2. a \o b \in Seq(S)  BY <3>1
    <3>3. Append(b, e) = b \o <<e>>  BY <3>1, AppendIsConcat
    <3>4. Append(a \o b, e) = (a \o b) \o <<e>>  BY <3>2, AppendIsConcat
    <3>5. (a \o b) \o <<e>> = a \o (b \o <<e>>)
      <4> DEFINE one == <<e>>
      <4>1. one \in Seq(S)  BY <2>1
      <4> HIDE DEF one
      <4>2. (a \o b) \o one = a \o (b \o one)  BY <3>1, <4>1, ConcatAssociative
      <4> QED  BY <4>2 DEF one
    <3> QED  BY <3>3, <3>4, <3>5 DEF a, b
  <2>4. OfKind(s \o u, K) = OfKind(s, K) \o OfKind(u, K)  BY <1>2
  <2>5. OfKind(Append(u, e), K) =
          IF e.kind \in K THEN Append(OfKind(u, K), e) ELSE OfKind(u, K)
    BY OfKindAppend
  <2>6. OfKind(Append(s \o u, e), K) =
          IF e.kind \in K THEN Append(OfKind(s \o u, K), e) ELSE OfKind(s \o u, K)
    BY <2>1, OfKindAppend
  <2> QED  BY <2>1, <2>2, <2>3, <2>4, <2>5, <2>6
<1>3. Seq(S) \subseteq X
  <2> HIDE DEF X
  <2> QED  BY <1>1, <1>2, ByAppending
<1> QED  BY <1>3

\* Whatever is picked is in the sequence.
LEMMA OfKindElements ==
  ASSUME NEW S, NEW s \in Seq(S), NEW K, NEW i \in DOMAIN OfKind(s, K)
  PROVE  \E j \in DOMAIN s : OfKind(s, K)[i] = s[j] /\ s[j].kind \in K
<1> DEFINE In(t, x) == \E j \in DOMAIN t : x = t[j] /\ t[j].kind \in K
           X == {t \in Seq(S) : \A k \in DOMAIN OfKind(t, K) : In(t, OfKind(t, K)[k])}
<1>1. <<>> \in X
  <2>1. DOMAIN OfKind(<<>>, K) = {}  BY OfKindEmpty
  <2> QED  BY <2>1
<1>2. ASSUME NEW t \in Seq(S), NEW e \in S, t \in X PROVE Append(t, e) \in X
  <2> DEFINE o == OfKind(t, K)
             u == Append(t, e)
  <2>1. /\ u \in Seq(S) /\ \A j \in DOMAIN t : j \in DOMAIN u /\ u[j] = t[j]
        /\ Len(t) + 1 \in DOMAIN u /\ u[Len(t) + 1] = e
    OBVIOUS
  <2>2. o \in Seq(S)  BY OfKindSeq
  <2>3. OfKind(u, K) = IF e.kind \in K THEN Append(o, e) ELSE o  BY OfKindAppend
  <2>4. ASSUME NEW k \in DOMAIN o PROVE In(u, o[k])
    <3>1. PICK j \in DOMAIN t : o[k] = t[j] /\ t[j].kind \in K  BY <1>2
    <3> HIDE DEF u, o
    <3> QED  BY <2>1, <3>1
  <2>5. e.kind \in K => In(u, e)
    <3> HIDE DEF u
    <3> QED  BY <2>1
  <2> HIDE DEF u, o, In
  <2>6. \A k \in DOMAIN OfKind(u, K) : In(u, OfKind(u, K)[k])
    <3>1. CASE e.kind \notin K  BY <2>3, <2>4, <3>1
    <3>2. CASE e.kind \in K
      <4>1. OfKind(u, K) = Append(o, e)  BY <2>3, <3>2
      <4>2. \A k \in DOMAIN Append(o, e) :
              (k \in DOMAIN o /\ Append(o, e)[k] = o[k]) \/ Append(o, e)[k] = e
        BY <2>2
      <4> QED  BY <2>4, <2>5, <3>2, <4>1, <4>2
    <3> QED  BY <3>1, <3>2
  <2> USE DEF In
  <2> QED  BY <2>1, <2>6 DEF u
<1>3. Seq(S) \subseteq X
  <2> HIDE DEF X
  <2> QED  BY <1>1, <1>2, ByAppending
<1> QED  BY <1>3

-----------------------------------------------------------------------------
(***************************************************************************)
(* Requests and replies: those of kinds K in s and those of kinds L in t   *)
(* correspond one to one, in order, each pair of kinds being one of P.     *)
(***************************************************************************)
Paired(s, K, t, L, P) ==
  LET a == OfKind(s, K)
      b == OfKind(t, L)
  IN  Len(a) = Len(b) /\ \A i \in DOMAIN a : <<a[i].kind, b[i].kind>> \in P

LEMMA PairedEmpty == \A K, L, P : Paired(<<>>, K, <<>>, L, P)
<1> SUFFICES ASSUME NEW K, NEW L, NEW P PROVE Paired(<<>>, K, <<>>, L, P)  OBVIOUS
<1>1. OfKind(<<>>, K) = <<>> /\ OfKind(<<>>, L) = <<>>  BY OfKindEmpty
<1>2. DOMAIN <<>> = {}  OBVIOUS
<1> QED  BY <1>1, <1>2 DEF Paired

\* One of another kind, on either side, pairs with nothing.
LEMMA PairedSkips ==
  ASSUME NEW S, NEW s \in Seq(S), NEW e \in S, NEW K, NEW t, NEW L, NEW P
  PROVE  /\ e.kind \notin K /\ Paired(s, K, t, L, P) => Paired(Append(s, e), K, t, L, P)
         /\ e.kind \notin K /\ Paired(t, L, s, K, P) => Paired(t, L, Append(s, e), K, P)
<1>1. e.kind \notin K => OfKind(Append(s, e), K) = OfKind(s, K)  BY OfKindAppend
<1> QED  BY <1>1 DEF Paired

LEMMA PairedMore ==
  ASSUME NEW S, NEW s \in Seq(S), NEW e \in S, NEW K, e.kind \in K,
         NEW T, NEW t \in Seq(T), NEW f \in T, NEW L, f.kind \in L,
         NEW P, <<e.kind, f.kind>> \in P, Paired(s, K, t, L, P)
  PROVE  Paired(Append(s, e), K, Append(t, f), L, P)
<1> DEFINE a == OfKind(s, K)
           b == OfKind(t, L)
<1>0. a \in Seq(S) /\ b \in Seq(T)  BY OfKindSeq
<1>1. OfKind(Append(s, e), K) = Append(a, e) /\ OfKind(Append(t, f), L) = Append(b, f)
  <2>1. OfKind(Append(s, e), K) = Append(a, e)  BY OfKindAppend
  <2>2. OfKind(Append(t, f), L) = Append(b, f)  BY OfKindAppend
  <2> QED  BY <2>1, <2>2
<1>2. Len(a) = Len(b) /\ \A i \in DOMAIN a : <<a[i].kind, b[i].kind>> \in P
  BY DEF Paired
<1> HIDE DEF a, b
<1>3. /\ Len(a) \in Nat /\ DOMAIN a = 1..Len(a) /\ DOMAIN Append(a, e) = 1..(Len(a) + 1)
      /\ Len(Append(a, e)) = Len(a) + 1 /\ Len(Append(b, f)) = Len(b) + 1
      /\ \A i \in 1..Len(a) : Append(a, e)[i] = a[i]
      /\ \A i \in 1..Len(b) : Append(b, f)[i] = b[i]
      /\ Append(a, e)[Len(a) + 1] = e /\ Append(b, f)[Len(b) + 1] = f
  BY <1>0
<1>4. ASSUME NEW i \in 1..(Len(a) + 1)
      PROVE  <<Append(a, e)[i].kind, Append(b, f)[i].kind>> \in P
  <2>1. CASE i \in 1..Len(a)
    <3>1. Append(a, e)[i] = a[i] /\ Append(b, f)[i] = b[i]  BY <1>2, <1>3, <2>1
    <3> QED  BY <1>2, <1>3, <2>1, <3>1
  <2>2. CASE i = Len(a) + 1
    <3>1. Append(a, e)[i] = e /\ Append(b, f)[i] = f  BY <1>2, <1>3, <2>2
    <3> QED  BY <3>1
  <2>3. i \in 1..Len(a) \/ i = Len(a) + 1  BY <1>3
  <2> QED  BY <2>1, <2>2, <2>3
<1> QED  BY <1>1, <1>2, <1>3, <1>4 DEF Paired

\* In the chat protocol: what a request is replied with, by kind, and that
\* all requests in s are replied to in w.
IsReply(request, reply) ==
  \/ request = "Ping" /\ reply = "Pong"
  \/ request = "ListUsers" /\ reply = "UserList"
  \/ request \notin {"Ping", "ListUsers"} /\ reply \notin {"Pong", "UserList"}

Answered(s, w) ==
  Paired(s, {"Ping", "ListUsers"}, w, {"Pong", "UserList"},
         {<<"Ping", "Pong">>, <<"ListUsers", "UserList">>})

LEMMA NoneAnswered == Answered(<<>>, <<>>)
<1> QED  BY PairedEmpty DEF Answered

LEMMA OtherWritten ==
  ASSUME NEW T, NEW w \in Seq(T), NEW m \in T, m.kind \notin {"Pong", "UserList"},
         NEW s, Answered(s, w)
  PROVE  Answered(s, Append(w, m))
<1> DEFINE L == {"Pong", "UserList"}
<1>1. m.kind \notin L  OBVIOUS
<1> HIDE DEF L
<1>2. \A K, P : Paired(s, K, w, L, P) => Paired(s, K, Append(w, m), L, P)
  BY <1>1, PairedSkips
<1> QED  BY <1>2 DEF Answered, L

LEMMA OtherTaken ==
  ASSUME NEW S, NEW s \in Seq(S), NEW e \in S, e.kind \notin {"Ping", "ListUsers"},
         NEW w, Answered(s, w)
  PROVE  Answered(Append(s, e), w)
<1> DEFINE K == {"Ping", "ListUsers"}
<1>1. e.kind \notin K  OBVIOUS
<1> HIDE DEF K
<1>2. \A L, P : Paired(s, K, w, L, P) => Paired(Append(s, e), K, w, L, P)
  BY <1>1, PairedSkips
<1> QED  BY <1>2 DEF Answered, K

LEMMA MoreAnswered ==
  ASSUME NEW S, NEW s \in Seq(S), NEW e \in S, NEW T, NEW w \in Seq(T), NEW m \in T,
         IsReply(e.kind, m.kind), Answered(s, w)
  PROVE  Answered(Append(s, e), Append(w, m))
<1> DEFINE K == {"Ping", "ListUsers"}
           L == {"Pong", "UserList"}
           P == {<<"Ping", "Pong">>, <<"ListUsers", "UserList">>}
<1>1. CASE e.kind \in K
  <2>1. m.kind \in L /\ <<e.kind, m.kind>> \in P  BY <1>1 DEF IsReply
  <2> HIDE DEF K, L, P
  <2>2. Paired(s, K, w, L, P)  BY DEF Answered, K, L, P
  <2>3. Paired(Append(s, e), K, Append(w, m), L, P)  BY <1>1, <2>1, <2>2, PairedMore
  <2> QED  BY <2>3 DEF Answered, K, L, P
<1>2. CASE e.kind \notin K
  <2>1. m.kind \notin L  BY <1>2 DEF IsReply
  <2>2. Answered(s, Append(w, m))  BY <2>1, OtherWritten
  <2> QED  BY <1>2, <2>2, OtherTaken
<1> QED  BY <1>1, <1>2
=============================================================================

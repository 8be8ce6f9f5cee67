--------------------------- MODULE FramingProofs ----------------------------
(***************************************************************************)
(* Framing for every buffer size, every socket capacity and every set of   *)
(* bodies: the buffer stays within its bounds, an error sticks, and recv   *)
(* implements LineStream.                                                  *)
(***************************************************************************)
EXTENDS Framing, Integers, TLAPS

-----------------------------------------------------------------------------
(***************************************************************************)
(* Sequences of bytes.                                                     *)
(***************************************************************************)

\* Taking the first k elements off a sequence.
LEMMA Front ==
  ASSUME NEW S, NEW s \in Seq(S), NEW k \in 1..Len(s)
  PROVE  /\ SubSeq(s, 1, k) \in Seq(S)
         /\ Len(SubSeq(s, 1, k)) = k
         /\ SubSeq(s, k + 1, Len(s)) \in Seq(S)
         /\ Len(SubSeq(s, k + 1, Len(s))) = Len(s) - k
         /\ \A i \in 1..(Len(s) - k) : SubSeq(s, k + 1, Len(s))[i] = s[k + i]
OBVIOUS

\* Putting one sequence behind another.
LEMMA Behind ==
  ASSUME NEW S, NEW s \in Seq(S), NEW t \in Seq(S)
  PROVE  /\ s \o t \in Seq(S)
         /\ Len(s \o t) = Len(s) + Len(t)
         /\ \A i \in 1..Len(s) : (s \o t)[i] = s[i]
OBVIOUS

\* A function on 1..n is a sequence of length n.
LEMMA Listed ==
  ASSUME NEW S, NEW n \in Nat, NEW f, f \in [1..n -> S]
  PROVE  f \in Seq(S) /\ Len(f) = n
OBVIOUS

-----------------------------------------------------------------------------
(***************************************************************************)
(* Types.                                                                  *)
(***************************************************************************)

\* A send puts a body and its line end before the socket.
LEMMA SendTypes == TypeOK /\ (\E body \in Bodies : Send(body)) => TypeOK'
<1> SUFFICES ASSUME TypeOK, NEW body \in Bodies, Send(body) PROVE TypeOK'
  OBVIOUS
<1>1. body \in Seq(Byte)
  BY BodiesAssumption
<1>2. Append(body, Newline) \in Seq(Byte)
  BY <1>1, ByteAssumption
<1>3. Append(sent, body) \in Seq(Bodies)
  BY DEF TypeOK
<1> QED  BY <1>2, <1>3 DEF Send, ReaderFrame, TypeOK

\* How many bytes one write or read moves.
LEMMA Moved ==
  ASSUME NEW m \in Nat, NEW n \in Int, NEW k \in 1..Min(m, n)
  PROVE  k \in 1..m /\ k <= n
BY DEF Min

LEMMA WriteTypes == TypeOK /\ Write => TypeOK'
<1> SUFFICES ASSUME TypeOK, Write PROVE TypeOK'
  OBVIOUS
<1>1. PICK k \in 1..Min(Len(pending), PipeCap - Len(pipe)) :
        /\ pipe' = pipe \o SubSeq(pending, 1, k)
        /\ pending' = SubSeq(pending, k + 1, Len(pending))
  BY DEF Write
<1>2. k \in 1..Len(pending)
  <2>1. Len(pending) \in Nat /\ PipeCap - Len(pipe) \in Int
    BY PipeCapAssumption DEF TypeOK
  <2> QED  BY <2>1, Moved
<1>3. SubSeq(pending, 1, k) \in Seq(Byte) /\ pending' \in Seq(Byte)
  BY <1>1, <1>2, Front DEF TypeOK
<1>4. pipe' \in Seq(Byte)
  BY <1>1, <1>3, Behind DEF TypeOK
<1> QED  BY <1>3, <1>4 DEF Write, ReaderFrame, TypeOK

\* What a read does to the buffer and the socket.
LEMMA ReadEffect ==
  ASSUME TypeOK, Read
  PROVE  \E k \in 1..Len(pipe) :
           /\ k <= BufSize - loaded
           /\ loaded' = loaded + k
           /\ buffer' = [i \in Place |-> IF i \in (loaded + 1)..(loaded + k)
                                         THEN pipe[i - loaded] ELSE buffer[i]]
           /\ pipe' = SubSeq(pipe, k + 1, Len(pipe))
           /\ pipe' \in Seq(Byte)
           /\ Len(pipe') = Len(pipe) - k
           /\ \A i \in 1..(Len(pipe) - k) : pipe'[i] = pipe[k + i]
<1>1. PICK k \in 1..Min(Len(pipe), BufSize - loaded) :
        /\ buffer' = [i \in Place |-> IF i \in (loaded + 1)..(loaded + k)
                                      THEN pipe[i - loaded] ELSE buffer[i]]
        /\ loaded' = loaded + k
        /\ pipe' = SubSeq(pipe, k + 1, Len(pipe))
  BY DEF Read
<1>2. k \in 1..Len(pipe) /\ k <= BufSize - loaded
  <2>1. Len(pipe) \in Nat /\ BufSize - loaded \in Int
    BY BufSizeAssumption DEF TypeOK
  <2> QED  BY <2>1, Moved
<1> QED  BY <1>1, <1>2, Front DEF TypeOK

LEMMA ReadTypes == TypeOK /\ Read => TypeOK'
<1> SUFFICES ASSUME TypeOK, Read PROVE TypeOK'
  OBVIOUS
<1>1. PICK k \in 1..Len(pipe) :
        /\ k <= BufSize - loaded
        /\ loaded' = loaded + k
        /\ buffer' = [i \in Place |-> IF i \in (loaded + 1)..(loaded + k)
                                      THEN pipe[i - loaded] ELSE buffer[i]]
        /\ pipe' \in Seq(Byte)
  BY ReadEffect
<1>2. loaded' \in 0..BufSize
  BY <1>1, BufSizeAssumption DEF TypeOK
<1>3. buffer' \in [Place -> Byte \cup {"zero"}]
  BY <1>1 DEF TypeOK, Place
<1> QED  BY <1>1, <1>2, <1>3 DEF Read, WriterFrame, writerVars, TypeOK

LEMMA ReturnTypes == TypeOK /\ ReturnLine => TypeOK'
<1> SUFFICES ASSUME TypeOK, ReturnLine PROVE TypeOK'
  OBVIOUS
<1>1. PICK p \in 1..loaded : /\ Body(p) \in Valid
                             /\ buffer' = Shift(p)
                             /\ loaded' = loaded - p
                             /\ got' = Append(got, Body(p))
  BY DEF ReturnLine
<1>2. got' \in Seq(Valid)
  BY <1>1 DEF TypeOK
<1>3. loaded' \in 0..BufSize
  BY <1>1, BufSizeAssumption DEF TypeOK
<1>4. buffer' \in [Place -> Byte \cup {"zero"}]
  BY <1>1, BufSizeAssumption DEF TypeOK, Place, Shift
<1> QED
  BY <1>2, <1>3, <1>4 DEF ReturnLine, Returns, WriterFrame, writerVars, TypeOK

\* Every step keeps the types.
LEMMA TypeStep == TypeOK /\ [Next]_vars => TypeOK'
<1> SUFFICES ASSUME TypeOK, [Next]_vars PROVE TypeOK'
  OBVIOUS
<1>1. ASSUME NEW body \in Bodies, Send(body) PROVE TypeOK'  BY <1>1, SendTypes
<1>2. CASE Write  BY <1>2, WriteTypes
<1>3. CASE Close
  <2>1. <<>> \in Seq(Byte)  OBVIOUS
  <2> QED  BY <1>3, <2>1 DEF Close, ReaderFrame, TypeOK
<1>4. CASE Recv  BY <1>4 DEF Recv, WriterFrame, writerVars, TypeOK
<1>5. CASE ReturnLine  BY <1>5, ReturnTypes
<1>6. CASE ReturnGarbled
  BY <1>6 DEF ReturnGarbled, Returns, WriterFrame, writerVars, TypeOK
<1>7. CASE Overflow  BY <1>7 DEF Overflow, WriterFrame, writerVars, TypeOK
<1>8. CASE Await  BY <1>8 DEF Await, WriterFrame, writerVars, TypeOK
<1>9. CASE Read  BY <1>9, ReadTypes
<1>10. CASE ReadEnd  BY <1>10 DEF ReadEnd, Returns, WriterFrame, writerVars, TypeOK
<1>11. CASE Cancel  BY <1>11 DEF Cancel, Returns, WriterFrame, writerVars, TypeOK
<1>12. CASE UNCHANGED vars  BY <1>12 DEF vars, writerVars, TypeOK
<1> QED
  BY <1>1, <1>2, <1>3, <1>4, <1>5, <1>6, <1>7, <1>8, <1>9, <1>10, <1>11, <1>12 DEF Next

\* The reader's indices stay within its buffer: neither the slice that read
\* fills nor copy_within is ever out of bounds.
THEOREM TypeCorrect == Spec => []TypeOK
<1>1. Init => TypeOK
  <2>1. <<>> \in Seq(Bodies) /\ <<>> \in Seq(Byte) /\ <<>> \in Seq(Valid)  OBVIOUS
  <2> QED  BY <2>1, BufSizeAssumption DEF Init, TypeOK
<1> QED  BY <1>1, TypeStep, PTL DEF Spec

-----------------------------------------------------------------------------
(***************************************************************************)
(* An error sticks.                                                        *)
(***************************************************************************)

\* What recv failed to parse stays at the front of the buffer.
Garbled == \E p \in 1..loaded : Position(p) /\ Body(p) \notin Valid

StuckInv == result = "garbled" => Garbled /\ reader \in {"idle", "scanning"}

\* There is one first line end.
LEMMA OnePosition ==
  ASSUME TypeOK, NEW p \in 1..loaded, NEW q \in 1..loaded, Position(p), Position(q)
  PROVE  p = q
BY DEF Position, TypeOK

\* With a garbled line in front, recv returns its error again.
LEMMA OnlyGarbled == TypeOK /\ Garbled => ~ReturnLine /\ ~Await /\ ~Overflow
<1> SUFFICES ASSUME TypeOK, Garbled PROVE ~ReturnLine /\ ~Await /\ ~Overflow
  OBVIOUS
<1>1. PICK p \in 1..loaded : Position(p) /\ Body(p) \notin Valid
  BY DEF Garbled
<1>2. ~ReturnLine  BY <1>1, OnePosition DEF ReturnLine
<1>3. ~NoPosition  BY <1>1 DEF Position, NoPosition
<1> QED  BY <1>2, <1>3 DEF Await, Overflow

\* Every step keeps the garbled line, and the error with it.
LEMMA StuckStep ==
  ASSUME TypeOK, StuckInv, [Next]_vars
  PROVE  StuckInv' /\ (result = "garbled" => result' = "garbled" /\ got' = got)
<1> USE DEF StuckInv
<1>1. ASSUME UNCHANGED <<buffer, loaded>> PROVE Garbled' = Garbled
  BY <1>1 DEF Garbled, Position, Body
<1>2. ASSUME ReaderFrame PROVE StuckInv' /\ UNCHANGED <<result, got>>
  BY <1>1, <1>2 DEF ReaderFrame
<1>3. ASSUME NEW body \in Bodies, Send(body) PROVE ReaderFrame
  BY <1>3 DEF Send
<1>4. ASSUME Write \/ Close PROVE ReaderFrame
  BY <1>4 DEF Write, Close
<1>5. CASE Recv  BY <1>5, <1>1 DEF Recv
<1>6. CASE ReturnGarbled
  BY <1>6, <1>1 DEF ReturnGarbled, Returns, Garbled
<1>7. CASE ReturnLine
  BY <1>7, OnlyGarbled DEF ReturnLine, Returns
<1>8. CASE Await \/ Overflow
  BY <1>8, OnlyGarbled DEF Await, Overflow
<1>9. CASE Read \/ ReadEnd \/ Cancel
  BY <1>9 DEF Read, ReadEnd, Cancel, Returns
<1>10. CASE UNCHANGED vars
  BY <1>10, <1>1 DEF vars
<1> QED
  BY <1>2, <1>3, <1>4, <1>5, <1>6, <1>7, <1>8, <1>9, <1>10 DEF Next

\* A line that does not parse is never passed.
THEOREM ErrorsStick == Spec => ErrorSticks
<1>1. Init => StuckInv
  BY DEF Init, StuckInv
<1>2. TypeOK /\ StuckInv /\ [Next]_vars => StuckInv'
  BY StuckStep
<1>3. TypeOK /\ StuckInv /\ [Next]_vars
        => [result = "garbled" => result' = "garbled" /\ got' = got]_vars
  BY StuckStep
<1> QED  BY <1>1, <1>2, <1>3, TypeCorrect, PTL DEF Spec, ErrorSticks

-----------------------------------------------------------------------------
(***************************************************************************)
(* recv implements LineStream.                                             *)
(***************************************************************************)

\* The bytes under way are those of the buffer and then those of the socket.
LEMMA UnreadIs ==
  ASSUME TypeOK
  PROVE  /\ Len(Unread) = loaded + Len(pipe)
         /\ DOMAIN Unread = 1..(loaded + Len(pipe))
         /\ \A i \in 1..(loaded + Len(pipe)) :
              Unread[i] = IF i <= loaded THEN buffer[i] ELSE pipe[i - loaded]
<1>1. loaded + Len(pipe) \in Nat
  BY DEF TypeOK
<1> QED  BY <1>1 DEF Unread

\* A step that leaves buffer and socket alone leaves those bytes alone.
LEMMA SameUnread ==
  ASSUME UNCHANGED <<buffer, loaded, pipe>>
  PROVE  Unread' = Unread
BY DEF Unread

LEMMA WriteGrows == TypeOK /\ Write => Stream!Written
<1> SUFFICES ASSUME TypeOK, Write PROVE Stream!Written
  OBVIOUS
<1>1. loaded \in Nat /\ Len(pipe) \in Nat /\ Len(pipe') \in Nat
  <2>1. TypeOK'  BY WriteTypes
  <2> QED  BY <2>1 DEF TypeOK
<1>2. PICK k \in 1..Min(Len(pending), PipeCap - Len(pipe)) :
        pipe' = pipe \o SubSeq(pending, 1, k)
  BY DEF Write
<1>3. SubSeq(pending, 1, k) \in Seq(Byte)
  <2>1. Len(pending) \in Nat /\ PipeCap - Len(pipe) \in Int
    BY PipeCapAssumption DEF TypeOK
  <2>2. k \in 1..Len(pending)
    BY <2>1, Moved
  <2> QED  BY <2>2, Front DEF TypeOK
<1>4. Len(pipe') >= Len(pipe) /\ \A i \in 1..Len(pipe) : pipe'[i] = pipe[i]
  BY <1>2, <1>3, Behind DEF TypeOK
<1>5. UNCHANGED <<buffer, loaded, got>>
  BY DEF Write, ReaderFrame
<1>6. Unread' = [i \in 1..(loaded + Len(pipe')) |->
                   IF i <= loaded THEN buffer[i] ELSE pipe'[i - loaded]]
  BY <1>5 DEF Unread
<1>7. Len(Unread') >= Len(Unread)
  <2>1. Len(Unread') = loaded + Len(pipe')  BY <1>1, <1>6
  <2> QED  BY <1>1, <1>4, <2>1, UnreadIs
<1>8. ASSUME NEW i \in 1..Len(Unread) PROVE Unread'[i] = Unread[i]
  <2>1. i \in 1..(loaded + Len(pipe)) /\ i \in 1..(loaded + Len(pipe'))
    BY <1>1, <1>4, UnreadIs
  <2>2. i > loaded => i - loaded \in 1..Len(pipe)
    BY <1>1, <2>1
  <2>3. Unread[i] = IF i <= loaded THEN buffer[i] ELSE pipe[i - loaded]
    BY <2>1, UnreadIs
  <2>4. Unread'[i] = IF i <= loaded THEN buffer[i] ELSE pipe'[i - loaded]
    BY <1>6, <2>1, Zenon
  <2>5. CASE i <= loaded
    BY <2>3, <2>4, <2>5
  <2>6. CASE i > loaded
    <3>1. pipe'[i - loaded] = pipe[i - loaded]
      BY <1>4, <2>2, <2>6
    <3>2. ~(i <= loaded)
      BY <1>1, <2>1, <2>6
    <3> QED  BY <2>3, <2>4, <3>1, <3>2, Zenon
  <2> QED  BY <1>1, <2>1, <2>5, <2>6
<1> QED  BY <1>5, <1>7, <1>8 DEF Stream!Written

\* A read moves bytes from the socket to the buffer, behind those there.
LEMMA ReadKeeps == TypeOK /\ Read => Unread' = Unread
<1> SUFFICES ASSUME TypeOK, Read PROVE Unread' = Unread
  OBVIOUS
<1>1. PICK k \in 1..Len(pipe) :
        /\ k <= BufSize - loaded
        /\ loaded' = loaded + k
        /\ buffer' = [i \in Place |-> IF i \in (loaded + 1)..(loaded + k)
                                      THEN pipe[i - loaded] ELSE buffer[i]]
        /\ Len(pipe') = Len(pipe) - k
        /\ \A i \in 1..(Len(pipe) - k) : pipe'[i] = pipe[k + i]
  BY ReadEffect
<1> DEFINE n == loaded + Len(pipe)
<1>2. n \in Nat /\ loaded \in Nat /\ Len(pipe) \in Nat /\ BufSize \in Nat
  BY BufSizeAssumption DEF TypeOK
<1>3. loaded' + Len(pipe') = n
  BY <1>1, <1>2
<1>4. ASSUME NEW i \in 1..n
      PROVE  (IF i <= loaded' THEN buffer'[i] ELSE pipe'[i - loaded'])
               = (IF i <= loaded THEN buffer[i] ELSE pipe[i - loaded])
  <2>1. CASE i <= loaded
    BY <1>1, <1>2, <2>1 DEF Place
  <2>2. CASE i > loaded /\ i <= loaded + k
    BY <1>1, <1>2, <2>2 DEF Place
  <2>3. CASE i > loaded + k
    <3>1. i - loaded' \in 1..(Len(pipe) - k) /\ k + (i - loaded') = i - loaded
      BY <1>1, <1>2, <2>3
    <3> QED  BY <1>1, <1>2, <2>3, <3>1
  <2> QED  BY <1>2, <2>1, <2>2, <2>3
<1> QED  BY <1>3, <1>4 DEF Unread

\* recv returns the first line of the bytes under way.
LEMMA ReturnTakes == TypeOK /\ ReturnLine => Stream!Returned
<1> SUFFICES ASSUME TypeOK, ReturnLine PROVE Stream!Returned
  OBVIOUS
<1>1. PICK p \in 1..loaded : /\ Position(p)
                             /\ Body(p) \in Valid
                             /\ buffer' = Shift(p)
                             /\ loaded' = loaded - p
                             /\ got' = Append(got, Body(p))
  BY DEF ReturnLine
<1>2. UNCHANGED pipe
  BY DEF ReturnLine
<1> DEFINE n == loaded + Len(pipe)
<1>3. n \in Nat /\ loaded \in Nat /\ Len(pipe) \in Nat /\ loaded <= BufSize /\ BufSize \in Nat
  BY BufSizeAssumption DEF TypeOK
<1>4. Len(Unread) = n /\ p \in 1..n
  BY <1>3, UnreadIs
<1>5. \A i \in 1..loaded : Unread[i] = buffer[i]
  BY <1>3, UnreadIs
<1>6. Stream!EndsAt(Unread, p)
  BY <1>1, <1>3, <1>5 DEF Stream!EndsAt, Position
<1>7. Stream!Bytes(Unread, 1, p - 1) = Body(p)
  <2>1. p - 1 - 1 + 1 = p - 1
    BY <1>3
  <2>2. \A i \in 1..(p - 1) : Unread[1 + i - 1] = buffer[i]
    BY <1>3, <1>5
  <2> QED  BY <1>3, <2>1, <2>2 DEF Stream!Bytes, Body
<1>8. Unread' = Stream!Bytes(Unread, p + 1, Len(Unread))
  <2>1. loaded' + Len(pipe') = n - p /\ n - (p + 1) + 1 = n - p
    BY <1>1, <1>2, <1>3
  <2>2. ASSUME NEW i \in 1..(n - p)
        PROVE  (IF i <= loaded' THEN buffer'[i] ELSE pipe'[i - loaded'])
                 = Unread[p + 1 + i - 1]
    <3>1. p + 1 + i - 1 = i + p /\ i + p \in 1..n
      BY <1>3
    <3>2. CASE i <= loaded - p
      <4>1. buffer'[i] = buffer[i + p]
        BY <1>1, <1>3, <3>2 DEF Shift, Place
      <4> QED  BY <1>1, <1>3, <1>5, <3>1, <3>2, <4>1
    <3>3. CASE i > loaded - p
      <4>1. i - loaded' = (i + p) - loaded
        BY <1>1, <1>3, <3>3
      <4>2. Unread[i + p] = pipe[(i + p) - loaded]
        BY <1>3, <3>1, <3>3, UnreadIs
      <4> QED  BY <1>1, <1>2, <1>3, <3>1, <3>3, <4>1, <4>2
    <3> QED  BY <1>3, <3>2, <3>3
  <2> QED  BY <1>4, <2>1, <2>2 DEF Unread, Stream!Bytes
<1> QED  BY <1>1, <1>4, <1>6, <1>7, <1>8 DEF Stream!Returned

\* Every step of writer, socket and reader is one of LineStream, or none.
LEMMA StreamStep ==
  ASSUME TypeOK, [Next]_vars
  PROVE  [Stream!Next]_<<Unread, got>>
<1>1. ASSUME NEW body \in Bodies, Send(body) PROVE UNCHANGED <<Unread, got>>
  BY <1>1, SameUnread DEF Send, ReaderFrame
<1>2. CASE Write  BY <1>2, WriteGrows DEF Stream!Next
<1>3. CASE Close  BY <1>3, SameUnread DEF Close, ReaderFrame
<1>4. CASE Recv  BY <1>4, SameUnread DEF Recv
<1>5. CASE ReturnLine  BY <1>5, ReturnTakes DEF Stream!Next
<1>6. CASE ReturnGarbled  BY <1>6, SameUnread DEF ReturnGarbled
<1>7. CASE Overflow  BY <1>7, SameUnread DEF Overflow
<1>8. CASE Await  BY <1>8, SameUnread DEF Await
<1>9. CASE Read
  <2>1. UNCHANGED got  BY <1>9 DEF Read
  <2> QED  BY <1>9, <2>1, ReadKeeps
<1>10. CASE ReadEnd  BY <1>10, SameUnread DEF ReadEnd
<1>11. CASE Cancel  BY <1>11, SameUnread DEF Cancel
<1>12. CASE UNCHANGED vars  BY <1>12, SameUnread DEF vars
<1> QED
  BY <1>1, <1>2, <1>3, <1>4, <1>5, <1>6, <1>7, <1>8, <1>9, <1>10, <1>11, <1>12 DEF Next

\* MessageWriter, the socket and MessageReader together are a LineStream.
THEOREM StreamImplemented == Spec => ImplementsStream
<1>1. Init => Stream!Init
  <2> SUFFICES ASSUME Init PROVE Stream!Init
    OBVIOUS
  <2>1. loaded = 0 /\ Len(pipe) = 0 /\ got = <<>>
    BY DEF Init
  <2>2. Unread = <<>>
    BY <2>1 DEF Unread
  <2> QED  BY <2>1, <2>2 DEF Stream!Init
<1>2. TypeOK /\ [Next]_vars => [Stream!Next]_<<Unread, got>>
  BY StreamStep
<1> QED  BY <1>1, <1>2, TypeCorrect, PTL DEF Spec, ImplementsStream, Stream!Spec

-----------------------------------------------------------------------------
(***************************************************************************)
(* What recv returns is what was sent, for every buffer size, every socket *)
(* capacity and all bodies.                                                *)
(***************************************************************************)
\* All bytes sent and not returned: in the buffer, in the socket and in send.
UnderWay ==
  [i \in 1..(Len(Unread) + Len(pending)) |->
     IF i <= Len(Unread) THEN Unread[i] ELSE pending[i - Len(Unread)]]

(***************************************************************************)
(* ends[n] is where line n ends, counted from the first byte ever sent.    *)
(* The bytes under way are the lines after those returned, one after the   *)
(* other, of which the last are missing or cut off if the writer is gone.  *)
(***************************************************************************)
Marks(ends) ==
  /\ \A n \in 1..Len(sent) : ends[n] = ends[n - 1] + Len(sent[n]) + 1
  /\ \A m, n \in 0..Len(sent) : m <= n => ends[m] <= ends[n]

Holds(ends) ==
  \A n \in (Len(got) + 1)..Len(sent) :
    LET before == ends[n - 1] - ends[Len(got)]
        last == ends[n] - ends[Len(got)]
    IN  /\ \A i \in 1..Len(sent[n]) :
             before + i <= Len(UnderWay) => UnderWay[before + i] = sent[n][i]
        /\ last <= Len(UnderWay) => UnderWay[last] = Newline

Fills(ends) ==
  /\ Len(UnderWay) <= ends[Len(sent)] - ends[Len(got)]
  /\ end = "open" => Len(UnderWay) = ends[Len(sent)] - ends[Len(got)]

Carries(ends) == Marks(ends) /\ Holds(ends) /\ Fills(ends)

Returned ==
  /\ Len(got) <= Len(sent)
  /\ \A i \in DOMAIN got : got[i] = sent[i]

\* A failure of recv is the fault of a line that was sent.
Blamed ==
  result = "garbled" \/ reader = "panicked"
    => \E i \in DOMAIN sent : sent[i] \notin Valid \/ Len(sent[i]) >= BufSize

Carried == \E ends \in [Nat -> Nat] : Carries(ends)

LinesInv == Returned /\ Blamed /\ Carried

-----------------------------------------------------------------------------
(***************************************************************************)
(* The bytes under way.                                                    *)
(***************************************************************************)

\* What joining two sequences of bytes this way gives.
LEMMA Joined ==
  ASSUME NEW m \in Nat, NEW n \in Nat, NEW f, NEW g, NEW joined,
         joined = [i \in 1..(m + n) |-> IF i <= m THEN f[i] ELSE g[i - m]]
  PROVE  /\ Len(joined) = m + n
         /\ \A i \in 1..m : joined[i] = f[i]
         /\ \A i \in 1..n : joined[m + i] = g[i]
<1>1. Len(joined) = m + n
  OBVIOUS
<1>2. \A i \in 1..m : joined[i] = f[i]
  OBVIOUS
<1>3. ASSUME NEW i \in 1..n PROVE joined[m + i] = g[i]
  <2>1. m + i \in 1..(m + n) /\ ~(m + i <= m) /\ m + i - m = i
    OBVIOUS
  <2> QED  BY <2>1
<1> QED  BY <1>1, <1>2, <1>3

\* The bytes of the buffer, then those of the socket.
LEMMA UnreadJoins ==
  ASSUME loaded \in Nat, Len(pipe) \in Nat
  PROVE  /\ Len(Unread) = loaded + Len(pipe)
         /\ \A i \in 1..loaded : Unread[i] = buffer[i]
         /\ \A i \in 1..Len(pipe) : Unread[loaded + i] = pipe[i]
BY Joined DEF Unread

\* The same of the next state.
LEMMA UnreadJoinsNext ==
  ASSUME loaded' \in Nat, Len(pipe') \in Nat
  PROVE  /\ Len(Unread') = loaded' + Len(pipe')
         /\ \A i \in 1..loaded' : Unread'[i] = buffer'[i]
         /\ \A i \in 1..Len(pipe') : Unread'[loaded' + i] = pipe'[i]
<1>1. PICK m \in Nat, n \in Nat : m = loaded' /\ n = Len(pipe')
  OBVIOUS
<1>2. Unread' = [i \in 1..(m + n) |-> IF i <= m THEN buffer'[i] ELSE pipe'[i - m]]
  BY <1>1 DEF Unread
<1>3. /\ Len(Unread') = m + n
      /\ \A i \in 1..m : Unread'[i] = buffer'[i]
      /\ \A i \in 1..n : Unread'[m + i] = pipe'[i]
  BY <1>2, Joined
<1> QED  BY <1>1, <1>3

\* Those bytes, then the ones in send.
LEMMA UnderWayIs ==
  ASSUME TypeOK
  PROVE  /\ Len(Unread) \in Nat /\ Len(pending) \in Nat /\ loaded \in Nat
         /\ Len(pipe) \in Nat /\ Len(Unread) = loaded + Len(pipe)
         /\ Len(UnderWay) = Len(Unread) + Len(pending)
         /\ \A i \in 1..Len(Unread) : UnderWay[i] = Unread[i]
         /\ \A i \in 1..Len(pending) : UnderWay[Len(Unread) + i] = pending[i]
         /\ \A i \in 1..loaded : UnderWay[i] = buffer[i]
<1>1. loaded \in Nat /\ Len(pipe) \in Nat /\ Len(pending) \in Nat
  BY DEF TypeOK
<1>2. Len(Unread) = loaded + Len(pipe) /\ \A i \in 1..loaded : Unread[i] = buffer[i]
  BY <1>1, UnreadJoins
<1>3. Len(Unread) \in Nat
  BY <1>1, <1>2
<1>4. /\ Len(UnderWay) = Len(Unread) + Len(pending)
      /\ \A i \in 1..Len(Unread) : UnderWay[i] = Unread[i]
      /\ \A i \in 1..Len(pending) : UnderWay[Len(Unread) + i] = pending[i]
  BY <1>1, <1>3, Joined DEF UnderWay
<1>5. \A i \in 1..loaded : UnderWay[i] = buffer[i]
  BY <1>1, <1>2, <1>4
<1> QED  BY <1>1, <1>2, <1>3, <1>4, <1>5

\* The same of the next state.
LEMMA UnderWayNext ==
  ASSUME Len(Unread') \in Nat, Len(pending') \in Nat
  PROVE  /\ Len(UnderWay') = Len(Unread') + Len(pending')
         /\ \A i \in 1..Len(Unread') : UnderWay'[i] = Unread'[i]
         /\ \A i \in 1..Len(pending') : UnderWay'[Len(Unread') + i] = pending'[i]
BY Joined DEF UnderWay

\* A step that leaves the bytes of reader, socket and writer alone.
LEMMA SameUnderWay ==
  ASSUME UNCHANGED <<Unread, pending>>
  PROVE  UnderWay' = UnderWay
BY DEF UnderWay

\* The socket takes bytes from send: they are where they were in the stream.
LEMMA WriteMoves ==
  ASSUME TypeOK, Write
  PROVE  UnderWay' = UnderWay
<1>1. PICK k \in 1..Min(Len(pending), PipeCap - Len(pipe)) :
        /\ pipe' = pipe \o SubSeq(pending, 1, k)
        /\ pending' = SubSeq(pending, k + 1, Len(pending))
  BY DEF Write
<1>2. k \in 1..Len(pending)
  <2>1. Len(pending) \in Nat /\ PipeCap - Len(pipe) \in Int
    BY PipeCapAssumption DEF TypeOK
  <2> QED  BY <2>1, Moved
<1>3. /\ Len(pipe') = Len(pipe) + k
      /\ \A i \in 1..Len(pipe) : pipe'[i] = pipe[i]
      /\ \A i \in 1..k : pipe'[Len(pipe) + i] = pending[i]
      /\ Len(pending') = Len(pending) - k
      /\ \A i \in 1..(Len(pending) - k) : pending'[i] = pending[k + i]
  <2>1. /\ SubSeq(pending, 1, k) \in Seq(Byte)
        /\ Len(SubSeq(pending, 1, k)) = k
        /\ \A i \in 1..k : SubSeq(pending, 1, k)[i] = pending[i]
    BY <1>2, Front DEF TypeOK
  <2>2. pipe \in Seq(Byte)
    BY DEF TypeOK
  <2>3. /\ Len(pipe') = Len(pipe) + k
        /\ \A i \in 1..Len(pipe) : pipe'[i] = pipe[i]
        /\ \A i \in 1..k : pipe'[Len(pipe) + i] = SubSeq(pending, 1, k)[i]
    BY <1>1, <1>2, <2>1, <2>2
  <2>4. /\ Len(pending') = Len(pending) - k
        /\ \A i \in 1..(Len(pending) - k) : pending'[i] = pending[k + i]
    BY <1>1, <1>2, Front DEF TypeOK
  <2> QED  BY <2>1, <2>3, <2>4
<1>4. UNCHANGED <<buffer, loaded>> /\ TypeOK'
  BY WriteTypes DEF Write, ReaderFrame
<1>5. /\ loaded \in Nat /\ Len(pipe) \in Nat /\ Len(pending) \in Nat /\ k \in Nat
      /\ loaded' = loaded /\ Len(pipe') \in Nat /\ Len(pending') \in Nat /\ k <= Len(pending)
  BY <1>2, <1>3, <1>4 DEF TypeOK
<1> DEFINE u == loaded + Len(pipe)
<1>6. /\ Len(Unread) = u /\ u \in Nat
      /\ \A i \in 1..loaded : Unread[i] = buffer[i]
      /\ \A i \in 1..Len(pipe) : Unread[loaded + i] = pipe[i]
  BY <1>5, UnreadJoins
<1>7. /\ Len(Unread') = u + k
      /\ \A i \in 1..loaded : Unread'[i] = buffer[i]
      /\ \A i \in 1..Len(pipe') : Unread'[loaded + i] = pipe'[i]
  <2>1. loaded' \in Nat  BY <1>5
  <2>2. /\ Len(Unread') = loaded' + Len(pipe')
        /\ \A i \in 1..loaded' : Unread'[i] = buffer'[i]
        /\ \A i \in 1..Len(pipe') : Unread'[loaded' + i] = pipe'[i]
    BY <1>5, <2>1, UnreadJoinsNext
  <2> QED  BY <1>3, <1>4, <1>5, <2>2
<1>8. ASSUME NEW i \in 1..u PROVE Unread'[i] = Unread[i]
  <2>1. CASE i <= loaded
    BY <1>5, <1>6, <1>7, <2>1
  <2>2. CASE i > loaded
    <3> DEFINE j == i - loaded
    <3>1. j \in 1..Len(pipe) /\ j \in 1..Len(pipe') /\ i = loaded + j
      BY <1>3, <1>5, <2>2
    <3> HIDE DEF j
    <3> QED  BY <1>3, <1>6, <1>7, <3>1
  <2> QED  BY <1>5, <2>1, <2>2
<1>9. ASSUME NEW i \in 1..k PROVE Unread'[u + i] = pending[i]
  <2>1. Len(pipe) + i \in 1..Len(pipe') /\ loaded + (Len(pipe) + i) = u + i
    BY <1>3, <1>5
  <2> QED  BY <1>3, <1>7, <2>1
<1>10. /\ Len(UnderWay) = u + Len(pending)
       /\ \A i \in 1..u : UnderWay[i] = Unread[i]
       /\ \A i \in 1..Len(pending) : UnderWay[u + i] = pending[i]
  BY <1>6, UnderWayIs
<1>11. /\ Len(UnderWay') = u + Len(pending)
       /\ \A i \in 1..(u + k) : UnderWay'[i] = Unread'[i]
       /\ \A i \in 1..(Len(pending) - k) : UnderWay'[u + k + i] = pending'[i]
  <2>1. Len(Unread') \in Nat
    BY <1>5, <1>6, <1>7
  <2>2. /\ Len(UnderWay') = Len(Unread') + Len(pending')
        /\ \A i \in 1..Len(Unread') : UnderWay'[i] = Unread'[i]
        /\ \A i \in 1..Len(pending') : UnderWay'[Len(Unread') + i] = pending'[i]
    BY <1>5, <2>1, UnderWayNext
  <2> QED  BY <1>3, <1>5, <1>6, <1>7, <2>2
<1>12. ASSUME NEW i \in 1..(u + Len(pending)) PROVE UnderWay'[i] = UnderWay[i]
  <2>1. CASE i <= u
    <3>1. i \in 1..u /\ i \in 1..(u + k)
      BY <1>5, <1>6, <2>1
    <3> HIDE DEF u
    <3> QED  BY <1>8, <1>10, <1>11, <3>1
  <2>2. CASE i > u /\ i <= u + k
    <3> DEFINE j == i - u
    <3>1. j \in 1..k /\ j \in 1..Len(pending) /\ i = u + j /\ i \in 1..(u + k)
      BY <1>5, <1>6, <2>2
    <3> HIDE DEF j, u
    <3> QED  BY <1>9, <1>10, <1>11, <3>1
  <2>3. CASE i > u + k
    <3> DEFINE j == i - (u + k)
    <3>1. /\ j \in 1..(Len(pending) - k) /\ i = u + k + j
          /\ k + j \in 1..Len(pending) /\ i = u + (k + j)
      BY <1>5, <1>6, <2>3
    <3>2. UnderWay'[i] = pending'[j] /\ pending'[j] = pending[k + j]
      BY <1>3, <1>11, <3>1
    <3>3. UnderWay[i] = pending[k + j]
      BY <1>10, <3>1
    <3> QED  BY <3>2, <3>3
  <2> QED  BY <1>5, <1>6, <2>1, <2>2, <2>3
<1>13. Len(Unread) + Len(pending) = u + Len(pending)
       /\ Len(Unread') + Len(pending') = u + Len(pending)
  BY <1>3, <1>5, <1>6, <1>7
<1>14. /\ UnderWay = [i \in 1..(u + Len(pending)) |-> UnderWay[i]]
       /\ UnderWay' = [i \in 1..(u + Len(pending)) |-> UnderWay'[i]]
  BY <1>13 DEF UnderWay
<1> QED  BY <1>12, <1>14

\* A send puts a line and its end behind the bytes under way.
LEMMA SendAppends ==
  ASSUME TypeOK, NEW body \in Bodies, Send(body)
  PROVE  /\ Len(UnderWay') = Len(UnderWay) + Len(body) + 1
         /\ \A i \in 1..Len(UnderWay) : UnderWay'[i] = UnderWay[i]
         /\ \A i \in 1..Len(body) : UnderWay'[Len(UnderWay) + i] = body[i]
         /\ UnderWay'[Len(UnderWay) + Len(body) + 1] = Newline
<1>1. body \in Seq(Byte) /\ Len(body) \in Nat
  BY BodiesAssumption
<1>2. /\ Len(pending') = Len(body) + 1
      /\ \A i \in 1..Len(body) : pending'[i] = body[i]
      /\ pending'[Len(body) + 1] = Newline
  BY <1>1 DEF Send
<1>3. Unread' = Unread /\ Len(pending) = 0
  BY SameUnread DEF Send, ReaderFrame
<1>4. Len(Unread) \in Nat /\ Len(UnderWay) = Len(Unread)
  BY <1>3, UnderWayIs
<1>5. \A i \in 1..Len(UnderWay) : UnderWay[i] = Unread[i]
  BY <1>4, UnderWayIs
<1>6. UnderWay' = [i \in 1..(Len(Unread) + (Len(body) + 1)) |->
                     IF i <= Len(Unread) THEN Unread[i] ELSE pending'[i - Len(Unread)]]
  BY <1>2, <1>3 DEF UnderWay
<1>7. Len(UnderWay') = Len(UnderWay) + Len(body) + 1
  BY <1>1, <1>4, <1>6
<1>8. \A i \in 1..Len(UnderWay) : UnderWay'[i] = UnderWay[i]
  BY <1>1, <1>4, <1>5, <1>6
<1>9. ASSUME NEW i \in 1..(Len(body) + 1)
      PROVE  UnderWay'[Len(UnderWay) + i] = pending'[i]
  <2>1. /\ Len(Unread) + i \in 1..(Len(Unread) + (Len(body) + 1))
        /\ ~(Len(Unread) + i <= Len(Unread)) /\ Len(Unread) + i - Len(Unread) = i
    BY <1>1, <1>4
  <2> QED  BY <1>4, <1>6, <2>1
<1>10. ASSUME NEW i \in 1..Len(body) PROVE UnderWay'[Len(UnderWay) + i] = body[i]
  BY <1>1, <1>2, <1>9
<1>11. UnderWay'[Len(UnderWay) + Len(body) + 1] = Newline
  <2>1. Len(UnderWay) + (Len(body) + 1) = Len(UnderWay) + Len(body) + 1
    BY <1>1, <1>4
  <2> QED  BY <1>1, <1>2, <1>9, <2>1
<1> QED  BY <1>7, <1>8, <1>10, <1>11

\* A writer that goes takes what it had not written along.
LEMMA CloseCuts ==
  ASSUME TypeOK, Close
  PROVE  /\ Len(UnderWay') \in Nat /\ Len(UnderWay') <= Len(UnderWay)
         /\ \A i \in 1..Len(UnderWay') : UnderWay'[i] = UnderWay[i]
<1>1. Unread' = Unread /\ pending' = <<>>
  BY SameUnread DEF Close, ReaderFrame
<1>2. Len(Unread) \in Nat /\ Len(UnderWay) >= Len(Unread)
  BY UnderWayIs
<1>3. \A i \in 1..Len(Unread) : UnderWay[i] = Unread[i]
  BY <1>2, UnderWayIs
<1>4. UnderWay' = [i \in 1..Len(Unread) |->
                     IF i <= Len(Unread) THEN Unread[i] ELSE pending'[i - Len(Unread)]]
  <2>1. Len(Unread') + Len(pending') = Len(Unread)
    BY <1>1, <1>2
  <2> QED  BY <1>1, <2>1 DEF UnderWay
<1> QED  BY <1>2, <1>3, <1>4

\* A line that is returned is taken off the bytes under way.
LEMMA ReturnShifts ==
  ASSUME TypeOK, ReturnLine, NEW p \in 1..loaded, Position(p)
  PROVE  /\ got' = Append(got, Body(p))
         /\ Len(UnderWay') = Len(UnderWay) - p
         /\ \A i \in 1..(Len(UnderWay) - p) : UnderWay'[i] = UnderWay[p + i]
<1>1. got' = Append(got, Body(p)) /\ loaded' = loaded - p /\ buffer' = Shift(p)
  BY OnePosition DEF ReturnLine
<1>2. UNCHANGED <<pipe, pending>> /\ TypeOK'
  BY ReturnTypes DEF ReturnLine, WriterFrame, writerVars
<1>3. /\ loaded \in Nat /\ Len(pipe) \in Nat /\ Len(pending) \in Nat
      /\ p \in Nat /\ p <= loaded /\ loaded <= BufSize /\ BufSize \in Nat
      /\ loaded' = loaded - p /\ pipe' = pipe /\ pending' = pending
  BY <1>1, <1>2, BufSizeAssumption DEF TypeOK
<1> DEFINE u == loaded + Len(pipe)
<1>4. /\ Len(Unread) = u /\ u \in Nat
      /\ \A i \in 1..loaded : Unread[i] = buffer[i]
      /\ \A i \in 1..Len(pipe) : Unread[loaded + i] = pipe[i]
  BY <1>3, UnreadJoins
<1>5. /\ Len(Unread') = u - p /\ u - p \in Nat
      /\ \A i \in 1..(loaded - p) : Unread'[i] = buffer'[i]
      /\ \A i \in 1..Len(pipe) : Unread'[loaded - p + i] = pipe[i]
  <2>1. loaded' \in Nat /\ Len(pipe') \in Nat  BY <1>3
  <2>2. /\ Len(Unread') = loaded' + Len(pipe')
        /\ \A i \in 1..loaded' : Unread'[i] = buffer'[i]
        /\ \A i \in 1..Len(pipe') : Unread'[loaded' + i] = pipe'[i]
    BY <2>1, UnreadJoinsNext
  <2> QED  BY <1>3, <2>2
<1>6. ASSUME NEW i \in 1..(u - p) PROVE Unread'[i] = Unread[p + i]
  <2>1. CASE i <= loaded - p
    <3>1. i \in Place /\ i + p \in Place /\ p + i = i + p /\ p + i \in 1..loaded
      BY <1>3, <2>1 DEF Place
    <3>2. buffer'[i] = buffer[i + p]
      BY <1>1, <3>1 DEF Shift
    <3> QED  BY <1>3, <1>4, <1>5, <2>1, <3>1, <3>2
  <2>2. CASE i > loaded - p
    <3> DEFINE j == i - (loaded - p)
    <3>1. j \in 1..Len(pipe) /\ i = loaded - p + j /\ p + i = loaded + j
      BY <1>3, <2>2
    <3> HIDE DEF j
    <3> QED  BY <1>4, <1>5, <3>1
  <2> QED  BY <1>3, <2>1, <2>2
<1>7. /\ Len(UnderWay) = u + Len(pending)
      /\ \A i \in 1..u : UnderWay[i] = Unread[i]
      /\ \A i \in 1..Len(pending) : UnderWay[u + i] = pending[i]
  BY <1>4, UnderWayIs
<1>8. /\ Len(UnderWay') = u - p + Len(pending)
      /\ \A i \in 1..(u - p) : UnderWay'[i] = Unread'[i]
      /\ \A i \in 1..Len(pending) : UnderWay'[u - p + i] = pending[i]
  <2>1. Len(Unread') \in Nat /\ Len(pending') \in Nat
    BY <1>3, <1>5
  <2>2. /\ Len(UnderWay') = Len(Unread') + Len(pending')
        /\ \A i \in 1..Len(Unread') : UnderWay'[i] = Unread'[i]
        /\ \A i \in 1..Len(pending') : UnderWay'[Len(Unread') + i] = pending'[i]
    BY <2>1, UnderWayNext
  <2> QED  BY <1>3, <1>5, <2>2
<1>9. Len(UnderWay') = Len(UnderWay) - p /\ Len(UnderWay) - p = u - p + Len(pending)
  BY <1>3, <1>4, <1>7, <1>8
<1>10. ASSUME NEW i \in 1..(u - p + Len(pending)) PROVE UnderWay'[i] = UnderWay[p + i]
  <2>1. CASE i <= u - p
    <3>1. i \in 1..(u - p) /\ p + i \in 1..u
      BY <1>3, <1>5, <2>1
    <3> QED  BY <1>6, <1>7, <1>8, <3>1
  <2>2. CASE i > u - p
    <3> DEFINE j == i - (u - p)
    <3>1. j \in 1..Len(pending) /\ i = u - p + j /\ p + i = u + j
      BY <1>3, <1>4, <1>5, <2>2
    <3> HIDE DEF j, u
    <3> QED  BY <1>7, <1>8, <3>1
  <2> QED  BY <1>3, <1>5, <2>1, <2>2
<1> QED  BY <1>1, <1>9, <1>10

-----------------------------------------------------------------------------
(***************************************************************************)
(* The line in front.                                                      *)
(***************************************************************************)

\* What is sent are lines, without their ends.
LEMMA Lines ==
  ASSUME TypeOK
  PROVE  /\ Len(sent) \in Nat /\ Len(got) \in Nat
         /\ \A n \in 1..Len(sent) : /\ sent[n] \in Seq(Byte \ {Newline})
                                    /\ Len(sent[n]) \in Nat
<1>1. sent \in Seq(Bodies) /\ got \in Seq(Valid)
  BY DEF TypeOK
<1>2. \A n \in 1..Len(sent) : sent[n] \in Seq(Byte \ {Newline})
  BY <1>1, BodiesAssumption
<1> QED  BY <1>1, <1>2

\* What a body is.
LEMMA BodyIs ==
  ASSUME NEW S, NEW s \in Seq(S \ {Newline})
  PROVE  /\ Len(s) \in Nat
         /\ s = [i \in 1..Len(s) |-> s[i]]
         /\ \A i \in 1..Len(s) : s[i] # Newline
OBVIOUS

\* Where fewer have come back than went out there is a next one.
LEMMA Another ==
  ASSUME NEW g \in Nat, NEW s \in Nat, g <= s, g # s
  PROVE  g + 1 \in 1..s
OBVIOUS

\* What has been read is the start of the first line not returned.
LEMMA NextLine ==
  ASSUME TypeOK, Returned, NEW ends \in [Nat -> Nat], Carries(ends), loaded >= 1
  PROVE  \E n \in 1..Len(sent), l \in Nat :
           /\ n = Len(got) + 1
           /\ l = Len(sent[n])
           /\ ends[n] - ends[Len(got)] = l + 1
           /\ \A i \in 1..l : i <= loaded => buffer[i] = sent[n][i]
           /\ l + 1 <= loaded => buffer[l + 1] = Newline
<1>1. Len(sent) \in Nat /\ Len(got) \in Nat /\ Len(got) <= Len(sent)
  BY Lines DEF Returned
<1>2. loaded \in Nat /\ loaded <= Len(UnderWay) /\ Len(UnderWay) \in Nat
  <2>1. /\ Len(pending) \in Nat /\ loaded \in Nat /\ Len(pipe) \in Nat
        /\ Len(Unread) = loaded + Len(pipe)
        /\ Len(UnderWay) = Len(Unread) + Len(pending)
    BY UnderWayIs
  <2> QED  BY <2>1
<1>3. Len(got) + 1 \in 1..Len(sent)
  <2>1. ends[Len(sent)] - ends[Len(got)] >= 1
    BY <1>1, <1>2 DEF Carries, Fills
  <2>2. Len(got) # Len(sent)
    BY <1>1, <2>1
  <2> QED  BY <1>1, <2>2, Another
<1>4. PICK n \in 1..Len(sent), l \in Nat : n = Len(got) + 1 /\ l = Len(sent[n])
  BY <1>3, Lines
<1>5. n \in Nat /\ n - 1 = Len(got)
  BY <1>1, <1>4
<1>6. ends[Len(got)] \in Nat /\ ends[n] \in Nat
  BY <1>1, <1>5
<1>7. ends[n] - ends[Len(got)] = l + 1
  <2>1. ends[n] = ends[n - 1] + Len(sent[n]) + 1
    BY <1>4 DEF Carries, Marks
  <2>2. ends[n] = ends[Len(got)] + l + 1
    BY <1>4, <1>5, <2>1
  <2> QED  BY <1>6, <2>2
<1>8. /\ \A i \in 1..l : i <= Len(UnderWay) => UnderWay[i] = sent[n][i]
      /\ l + 1 <= Len(UnderWay) => UnderWay[l + 1] = Newline
  <2>1. n \in (Len(got) + 1)..Len(sent)
    BY <1>1, <1>4
  <2>2. ends[n - 1] - ends[Len(got)] = 0
    BY <1>5, <1>6
  <2>3. /\ \A i \in 1..l :
             (ends[n - 1] - ends[Len(got)]) + i <= Len(UnderWay)
               => UnderWay[(ends[n - 1] - ends[Len(got)]) + i] = sent[n][i]
        /\ ends[n] - ends[Len(got)] <= Len(UnderWay)
             => UnderWay[ends[n] - ends[Len(got)]] = Newline
    BY <1>4, <2>1 DEF Carries, Holds
  <2>4. \A i \in 1..l : 0 + i = i
    OBVIOUS
  <2> QED  BY <1>7, <2>2, <2>3, <2>4
<1>9. ASSUME NEW i \in 1..l, i <= loaded PROVE buffer[i] = sent[n][i]
  <2>1. i \in 1..loaded /\ i <= Len(UnderWay)
    BY <1>2, <1>9
  <2> QED  BY <1>8, <2>1, UnderWayIs
<1>10. ASSUME l + 1 <= loaded PROVE buffer[l + 1] = Newline
  <2>1. l + 1 \in 1..loaded /\ l + 1 <= Len(UnderWay)
    BY <1>2, <1>10
  <2> QED  BY <1>8, <2>1, UnderWayIs
<1> QED  BY <1>4, <1>7, <1>9, <1>10

\* The first line end in the buffer is that of this line.
LEMMA FirstLine ==
  ASSUME TypeOK, Returned, NEW ends \in [Nat -> Nat], Carries(ends),
         NEW p \in 1..loaded, Position(p)
  PROVE  /\ Len(got) + 1 \in 1..Len(sent)
         /\ ends[Len(got) + 1] - ends[Len(got)] = p
         /\ Body(p) = sent[Len(got) + 1]
<1>1. loaded \in Nat /\ p \in Nat /\ loaded >= 1
  BY DEF TypeOK
<1>2. PICK n \in 1..Len(sent), l \in Nat :
        /\ n = Len(got) + 1
        /\ l = Len(sent[n])
        /\ ends[n] - ends[Len(got)] = l + 1
        /\ \A i \in 1..l : i <= loaded => buffer[i] = sent[n][i]
        /\ l + 1 <= loaded => buffer[l + 1] = Newline
  BY <1>1, NextLine
<1>3. sent[n] = [i \in 1..l |-> sent[n][i]] /\ \A i \in 1..l : sent[n][i] # Newline
  <2>1. sent[n] \in Seq(Byte \ {Newline})
    BY Lines
  <2> QED  BY <1>2, <2>1, BodyIs
<1>4. buffer[p] = Newline /\ \A i \in 1..(p - 1) : buffer[i] # Newline
  BY DEF Position
<1>6. ~(p <= l)
  <2> SUFFICES ASSUME p <= l PROVE FALSE
    OBVIOUS
  <2>1. p \in 1..l /\ p <= loaded
    BY <1>1
  <2> QED  BY <1>2, <1>3, <1>4, <2>1
<1>7. ~(p > l + 1)
  <2> SUFFICES ASSUME p > l + 1 PROVE FALSE
    OBVIOUS
  <2>1. l + 1 \in 1..(p - 1) /\ l + 1 <= loaded
    BY <1>1, <1>3
  <2> QED  BY <1>2, <1>4, <2>1
<1>8. p = l + 1
  BY <1>1, <1>3, <1>6, <1>7
<1>9. Body(p) = sent[n]
  <2>1. p - 1 = l
    BY <1>8
  <2>2. \A i \in 1..l : buffer[i] = sent[n][i]
    <3> TAKE i \in 1..l
    <3>1. i <= loaded
      BY <1>1, <1>8
    <3> QED  BY <1>2, <3>1
  <2> QED  BY <1>3, <2>1, <2>2 DEF Body
<1> QED  BY <1>2, <1>8, <1>9

\* A buffer that is full and has no line end is full of one line.
LEMMA TooLong ==
  ASSUME TypeOK, LinesInv, NoPosition, loaded >= BufSize
  PROVE  \E i \in DOMAIN sent : Len(sent[i]) >= BufSize
<1>1. loaded \in Nat /\ BufSize \in Nat /\ loaded >= 1
  BY BufSizeAssumption DEF TypeOK
<1>2. PICK n \in 1..Len(sent), l \in Nat :
        l = Len(sent[n]) /\ (l + 1 <= loaded => buffer[l + 1] = Newline)
  BY <1>1, NextLine DEF LinesInv, Carried
<1>3. ~(l + 1 <= loaded)
  <2> SUFFICES ASSUME l + 1 <= loaded PROVE FALSE
    OBVIOUS
  <2>1. l + 1 \in 1..loaded
    BY <1>1
  <2> QED  BY <1>2, <2>1 DEF NoPosition
<1>4. n \in DOMAIN sent
  BY DEF TypeOK
<1> QED  BY <1>1, <1>2, <1>3, <1>4

-----------------------------------------------------------------------------
(***************************************************************************)
(* Every step keeps the lines.                                             *)
(***************************************************************************)

\* A step that leaves the lines and the bytes under way alone.
LEMMA StillCarried ==
  ASSUME Carried, UNCHANGED <<sent, got, UnderWay, end>>
  PROVE  Carried'
BY DEF Carried, Carries, Marks, Holds, Fills

\* Where a line begins and ends, seen from the end of an earlier one.
LEMMA Offsets ==
  ASSUME NEW a \in Nat, NEW b \in Nat, NEW c \in Nat, NEW l \in Nat,
         a <= b, c = b + l + 1
  PROVE  b - a \in Nat /\ c - a \in Nat /\ c - a = (b - a) + l + 1
OBVIOUS

\* A line is sent: it ends its length behind the line before.
LEMMA SendCarries ==
  ASSUME TypeOK, Returned, Carried, NEW body \in Bodies, Send(body)
  PROVE  Carried'
<1>1. PICK ends \in [Nat -> Nat] : Carries(ends)
  BY DEF Carried
<1>2. PICK s \in Nat, g \in Nat, b \in Nat :
        s = Len(sent) /\ g = Len(got) /\ b = Len(body) /\ g <= s
  <2>1. Len(body) \in Nat
    BY BodiesAssumption
  <2> QED  BY <2>1, Lines DEF Returned
<1>2a. g <= s
  BY <1>2
<1> DEFINE longer == [ends EXCEPT ![s + 1] = ends[s] + b + 1]
<1>3. /\ longer \in [Nat -> Nat]
      /\ longer[s + 1] = ends[s] + b + 1
      /\ \A n \in 0..s : longer[n] = ends[n]
  <2>1. s + 1 \in Nat /\ ends[s] + b + 1 \in Nat
    OBVIOUS
  <2>2. \A n \in 0..s : n \in Nat /\ n # s + 1
    OBVIOUS
  <2> QED  BY <2>1, <2>2
<1> HIDE DEF longer
<1>4. /\ Len(sent') = s + 1 /\ sent'[s + 1] = body /\ got' = got /\ end = "open"
      /\ \A n \in 1..s : sent'[n] = sent[n]
  BY <1>2 DEF Send, ReaderFrame, TypeOK
<1>5. Marks(longer)'
  <2>1. \A n \in 1..s : ends[n] = ends[n - 1] + Len(sent[n]) + 1
    BY <1>1, <1>2 DEF Carries, Marks
  <2>2. ASSUME NEW n \in 1..(s + 1)
        PROVE  longer[n] = longer[n - 1] + Len(sent'[n]) + 1
    <3>1. CASE n = s + 1
      <4>1. n - 1 = s /\ s \in 0..s
        BY <3>1
      <4> QED  BY <1>2, <1>3, <1>4, <3>1, <4>1
    <3>2. CASE n # s + 1
      <4>1. n \in 1..s /\ n \in 0..s /\ n - 1 \in 0..s
        BY <3>2
      <4> QED  BY <1>3, <1>4, <2>1, <4>1
    <3> QED  BY <3>1, <3>2
  <2>3. \A m, n \in 0..s : m <= n => ends[m] <= ends[n]
    BY <1>1, <1>2 DEF Carries, Marks
  <2>4. ASSUME NEW m \in 0..(s + 1), NEW n \in 0..(s + 1), m <= n
        PROVE  longer[m] <= longer[n]
    <3>1. CASE n # s + 1
      <4>1. m \in 0..s /\ n \in 0..s
        BY <2>4, <3>1
      <4> QED  BY <1>3, <2>3, <2>4, <4>1
    <3>2. CASE n = s + 1 /\ m # s + 1
      <4>1. m \in 0..s /\ s \in 0..s /\ m <= s
        BY <3>2
      <4>2. longer[m] = ends[m] /\ ends[m] <= ends[s]
        BY <1>3, <2>3, <4>1
      <4>3. ends[m] \in Nat /\ ends[s] \in Nat
        BY <1>2, <4>1
      <4>4. longer[n] = ends[s] + b + 1
        BY <1>3, <3>2
      <4> QED  BY <4>2, <4>3, <4>4
    <3>3. CASE n = s + 1 /\ m = s + 1
      <4>1. longer[n] \in Nat
        BY <1>2, <1>3, <3>3
      <4> QED  BY <3>3, <4>1
    <3> QED  BY <3>1, <3>2, <3>3
  <2> QED  BY <1>4, <2>2, <2>4 DEF Marks
<1>6. PICK u \in Nat : u = Len(UnderWay) /\ u = ends[s] - ends[g]
  <2>1. Len(UnderWay) = ends[s] - ends[g]
    BY <1>1, <1>2, <1>4 DEF Carries, Fills
  <2>2. Len(UnderWay) \in Nat
    <3>1. /\ Len(Unread) \in Nat /\ Len(pending) \in Nat
          /\ Len(UnderWay) = Len(Unread) + Len(pending)
      BY UnderWayIs
    <3> QED  BY <3>1
  <2> QED  BY <2>1, <2>2
<1>7. /\ Len(UnderWay') = u + b + 1
      /\ \A i \in 1..u : UnderWay'[i] = UnderWay[i]
      /\ \A i \in 1..b : UnderWay'[u + i] = body[i]
      /\ UnderWay'[u + b + 1] = Newline
  BY <1>2, <1>6, SendAppends
<1>8. longer[g] = ends[g] /\ ends[g] \in Nat /\ ends[s] \in Nat
  BY <1>2, <1>3
<1>9. Fills(longer)'
  <2>1. longer[s + 1] - longer[g] = u + b + 1
    BY <1>3, <1>6, <1>8
  <2> QED  BY <1>2, <1>4, <1>7, <2>1 DEF Fills
<1>10. ASSUME NEW n \in (g + 1)..(s + 1)
       PROVE  /\ \A i \in 1..Len(sent'[n]) :
                    (longer[n - 1] - longer[g]) + i <= Len(UnderWay')
                      => UnderWay'[(longer[n - 1] - longer[g]) + i] = sent'[n][i]
              /\ longer[n] - longer[g] <= Len(UnderWay')
                   => UnderWay'[longer[n] - longer[g]] = Newline
  <2>1. CASE n = s + 1
    <3>1. n - 1 = s /\ s \in 0..s
      BY <2>1
    <3>2. longer[n - 1] - longer[g] = u
      BY <1>3, <1>6, <1>8, <3>1
    <3>3. longer[n] - longer[g] = u + b + 1
      BY <1>3, <1>6, <1>8, <2>1
    <3>4. sent'[n] = body
      BY <1>4, <2>1
    <3> QED  BY <1>2, <1>7, <3>2, <3>3, <3>4
  <2>2. CASE n # s + 1
    <3>1. /\ n \in (g + 1)..s /\ n \in 0..s /\ n - 1 \in 0..s /\ n \in 1..s
          /\ n \in Nat /\ n - 1 \in Nat /\ g <= n - 1 /\ n <= s /\ g \in 0..s /\ s \in 0..s
      BY <1>2a, <2>2
    <3>2. PICK l \in Nat : l = Len(sent[n])
      BY <1>2, <3>1, Lines
    <3>3. /\ ends[n] = ends[n - 1] + l + 1
          /\ ends[g] <= ends[n - 1] /\ ends[n] <= ends[s]
      BY <1>1, <1>2, <3>1, <3>2 DEF Carries, Marks
    <3>4. PICK before \in Nat, last \in Nat :
            /\ before = ends[n - 1] - ends[g] /\ last = ends[n] - ends[g]
            /\ last = before + l + 1
      BY <1>8, <3>1, <3>3, Offsets
    <3>5. last = before + l + 1 /\ last <= u
      <4>1. \A x, y, z \in Nat : y <= z => y - x <= z - x
        OBVIOUS
      <4>2. last <= u
        BY <1>6, <1>8, <3>1, <3>3, <3>4, <4>1
      <4> QED  BY <3>4, <4>2
    <3>6. /\ \A i \in 1..l : before + i <= u => UnderWay[before + i] = sent[n][i]
          /\ last <= u => UnderWay[last] = Newline
      BY <1>1, <1>2, <1>6, <3>1, <3>2, <3>4 DEF Carries, Holds
    <3>7. \A i \in 1..l : UnderWay'[before + i] = sent[n][i]
      <4> TAKE i \in 1..l
      <4>1. before + i \in 1..u /\ before + i <= u
        BY <3>5
      <4> QED  BY <1>7, <3>6, <4>1
    <3>8. UnderWay'[last] = Newline
      <4>1. last \in 1..u
        BY <3>5
      <4> QED  BY <1>7, <3>5, <3>6, <4>1
    <3>9. before = longer[n - 1] - longer[g] /\ last = longer[n] - longer[g]
      BY <1>3, <1>8, <3>1, <3>4
    <3> QED  BY <1>4, <3>1, <3>2, <3>7, <3>8, <3>9
  <2> QED  BY <2>1, <2>2
<1>11. Holds(longer)'
  BY <1>2, <1>4, <1>10 DEF Holds
<1> QED  BY <1>3, <1>5, <1>9, <1>11 DEF Carried, Carries

\* The writer goes: what is left is a front part of what was.
LEMMA CloseCarries ==
  ASSUME TypeOK, Carried, Close
  PROVE  Carried'
<1>1. PICK ends \in [Nat -> Nat] : Carries(ends)
  BY DEF Carried
<1>2. UNCHANGED <<sent, got>> /\ end' # "open"
  BY DEF Close, ReaderFrame
<1>3. PICK u \in Nat, v \in Nat : u = Len(UnderWay) /\ v = Len(UnderWay') /\ v <= u
  <2>1. /\ Len(Unread) \in Nat /\ Len(pending) \in Nat
        /\ Len(UnderWay) = Len(Unread) + Len(pending)
    BY UnderWayIs
  <2> QED  BY <2>1, CloseCuts
<1>3a. v <= u
  BY <1>3
<1>4. \A i \in 1..v : UnderWay'[i] = UnderWay[i]
  BY <1>3, CloseCuts
<1>5. Marks(ends)'
  BY <1>1, <1>2 DEF Carries, Marks
<1>6. /\ Len(got) \in Nat /\ Len(sent) \in Nat
      /\ \A n \in 1..Len(sent) : Len(sent[n]) \in Nat
  BY Lines
<1>7. Fills(ends)'
  <2>1. u <= ends[Len(sent)] - ends[Len(got)]
    BY <1>1, <1>3 DEF Carries, Fills
  <2>2. ends[Len(sent)] - ends[Len(got)] \in Int
    BY <1>6
  <2>3. v <= ends[Len(sent)] - ends[Len(got)]
    BY <1>3, <2>1, <2>2
  <2> QED  BY <1>2, <1>3, <2>3 DEF Fills
<1>8. ASSUME NEW n \in (Len(got) + 1)..Len(sent)
      PROVE  /\ \A i \in 1..Len(sent[n]) :
                   (ends[n - 1] - ends[Len(got)]) + i <= v
                     => UnderWay'[(ends[n - 1] - ends[Len(got)]) + i] = sent[n][i]
             /\ ends[n] - ends[Len(got)] <= v
                  => UnderWay'[ends[n] - ends[Len(got)]] = Newline
  <2>1. /\ n \in 1..Len(sent) /\ n \in 0..Len(sent) /\ n - 1 \in Nat /\ n \in Nat
        /\ Len(got) <= n - 1 /\ n - 1 \in 0..Len(sent) /\ Len(got) \in 0..Len(sent)
    <3>1. \A g, k \in Nat : \A m \in (g + 1)..k :
            /\ m \in 1..k /\ m \in 0..k /\ m - 1 \in Nat /\ m \in Nat
            /\ g <= m - 1 /\ m - 1 \in 0..k /\ g \in 0..k
      OBVIOUS
    <3> QED  BY <1>6, <3>1
  <2>2. PICK l \in Nat : l = Len(sent[n])
    BY <1>6, <2>1
  <2>3. PICK before \in Nat, last \in Nat :
          /\ before = ends[n - 1] - ends[Len(got)] /\ last = ends[n] - ends[Len(got)]
          /\ last = before + l + 1
    <3>1. ends[n] = ends[n - 1] + l + 1 /\ ends[Len(got)] <= ends[n - 1]
      BY <1>1, <2>1, <2>2 DEF Carries, Marks
    <3>2. ends[n] \in Nat /\ ends[n - 1] \in Nat /\ ends[Len(got)] \in Nat
      BY <1>6, <2>1
    <3>3. /\ ends[n - 1] - ends[Len(got)] \in Nat /\ ends[n] - ends[Len(got)] \in Nat
          /\ ends[n] - ends[Len(got)] = (ends[n - 1] - ends[Len(got)]) + l + 1
      <4>1. \A a, b, c \in Nat :
              a <= b /\ c = b + l + 1
                => b - a \in Nat /\ c - a \in Nat /\ c - a = (b - a) + l + 1
        BY Offsets
      <4>2. ends[Len(got)] \in Nat  BY <3>2
      <4>3. ends[n - 1] \in Nat  BY <3>2
      <4>4. ends[n] \in Nat  BY <3>2
      <4> QED  BY <3>1, <4>1, <4>2, <4>3, <4>4, Zenon
    <3> QED  BY <3>3, Zenon
  <2>4. last = before + l + 1
    BY <2>3
  <2>5. /\ \A i \in 1..l : before + i <= u => UnderWay[before + i] = sent[n][i]
        /\ last <= u => UnderWay[last] = Newline
    BY <1>1, <1>3, <2>2, <2>3 DEF Carries, Holds
  <2>6. ASSUME NEW i \in 1..l, before + i <= v PROVE UnderWay'[before + i] = sent[n][i]
    <3>1. before + i \in 1..v /\ before + i <= u
      BY <1>3a, <2>6
    <3> QED  BY <1>4, <2>5, <3>1
  <2>7. ASSUME last <= v PROVE UnderWay'[last] = Newline
    <3>1. last \in 1..v /\ last <= u
      BY <1>3a, <2>4, <2>7
    <3> QED  BY <1>4, <2>5, <3>1
  <2> QED  BY <2>2, <2>3, <2>6, <2>7
<1>9. Holds(ends)'
  BY <1>2, <1>3, <1>8 DEF Holds
<1> QED  BY <1>5, <1>7, <1>9 DEF Carried, Carries

\* A line is returned: the bytes under way begin where it ended.
LEMMA ReturnCarries ==
  ASSUME TypeOK, Returned, Carried, ReturnLine
  PROVE  Carried' /\ Returned'
<1>1. PICK ends \in [Nat -> Nat] : Carries(ends)
  BY DEF Carried
<1>2. PICK p \in 1..loaded : Position(p)
  BY DEF ReturnLine
<1>3. PICK s \in Nat, g \in Nat : s = Len(sent) /\ g = Len(got) /\ g <= s
  BY Lines DEF Returned
<1>3a. g <= s
  BY <1>3
<1>4. /\ g + 1 \in 1..s
      /\ ends[g + 1] - ends[g] = p
      /\ Body(p) = sent[g + 1]
  BY <1>1, <1>2, <1>3, FirstLine
<1>5. PICK u \in Nat : u = Len(UnderWay) /\ p <= u /\ p \in Nat
  <2>1. /\ Len(Unread) \in Nat /\ Len(pending) \in Nat /\ loaded \in Nat
        /\ Len(pipe) \in Nat /\ Len(Unread) = loaded + Len(pipe)
        /\ Len(UnderWay) = Len(Unread) + Len(pending)
    BY UnderWayIs
  <2> QED  BY <2>1
<1>5a. p <= u /\ p \in Nat
  BY <1>5
<1>6. /\ got' = Append(got, sent[g + 1])
      /\ Len(UnderWay') = u - p
      /\ \A i \in 1..(u - p) : UnderWay'[i] = UnderWay[p + i]
  BY <1>2, <1>4, <1>5, ReturnShifts
<1>7. UNCHANGED <<sent, end>>
  BY DEF ReturnLine, WriterFrame, writerVars
<1>8. got \in Seq(Valid)
  BY DEF TypeOK
<1>9. /\ Len(got') = g + 1
      /\ \A i \in 1..g : got'[i] = got[i]
      /\ got'[g + 1] = sent[g + 1]
      /\ DOMAIN got' = 1..(g + 1)
  BY <1>3, <1>6, <1>8
<1>10. Returned'
  <2>1. \A i \in 1..g : got[i] = sent[i]
    BY <1>3, <1>8 DEF Returned
  <2>2. ASSUME NEW i \in 1..(g + 1) PROVE got'[i] = sent[i]
    <3>1. i \in 1..g \/ i = g + 1
      OBVIOUS
    <3> QED  BY <1>9, <2>1, <3>1
  <2>3. g + 1 <= s
    BY <1>4
  <2> QED  BY <1>3, <1>7, <1>9, <2>2, <2>3 DEF Returned
<1>11. ends[g] \in Nat /\ ends[g + 1] \in Nat /\ ends[s] \in Nat
  BY <1>3
<1>12. Marks(ends)'
  BY <1>1, <1>7 DEF Carries, Marks
<1>13. Fills(ends)'
  <2>1. /\ u <= ends[s] - ends[g]
        /\ end = "open" => u = ends[s] - ends[g]
    BY <1>1, <1>3, <1>5 DEF Carries, Fills
  <2>2. /\ u - p <= ends[s] - ends[g + 1]
        /\ end = "open" => u - p = ends[s] - ends[g + 1]
    <3>1. \A a, b, c, d \in Nat :
            d = b - a => /\ u <= c - a => u - d <= c - b
                         /\ u = c - a => u - d = c - b
      OBVIOUS
    <3> QED  BY <1>4, <1>5a, <1>11, <2>1, <3>1
  <2> QED  BY <1>3, <1>6, <1>7, <1>9, <2>2 DEF Fills
<1>14. ASSUME NEW n \in (g + 2)..s
       PROVE  /\ \A i \in 1..Len(sent[n]) :
                    (ends[n - 1] - ends[g + 1]) + i <= u - p
                      => UnderWay'[(ends[n - 1] - ends[g + 1]) + i] = sent[n][i]
              /\ ends[n] - ends[g + 1] <= u - p
                   => UnderWay'[ends[n] - ends[g + 1]] = Newline
  <2>1. /\ n \in (g + 1)..s /\ n \in 1..s /\ n \in Nat /\ n - 1 \in 0..s
        /\ g + 1 <= n - 1 /\ g + 1 \in 0..s /\ n - 1 \in Nat
    OBVIOUS
  <2>2. PICK l \in Nat : l = Len(sent[n])
    BY <1>3, <2>1, Lines
  <2>3. PICK before \in Nat, last \in Nat :
          /\ before = ends[n - 1] - ends[g + 1] /\ last = ends[n] - ends[g + 1]
          /\ last = before + l + 1
    <3>1. ends[n] = ends[n - 1] + l + 1 /\ ends[g + 1] <= ends[n - 1]
      BY <1>1, <1>3, <2>1, <2>2 DEF Carries, Marks
    <3>2. ends[n] \in Nat /\ ends[n - 1] \in Nat
      BY <2>1
    <3> QED  BY <1>11, <3>1, <3>2, Offsets
  <2>4. last = before + l + 1
    BY <2>3
  <2>5. ends[n - 1] - ends[g] = p + before /\ ends[n] - ends[g] = p + last
    <3>1. ends[n] \in Nat /\ ends[n - 1] \in Nat
      BY <2>1
    <3>2. \A a, b, c \in Nat : c - a = (b - a) + (c - b)
      OBVIOUS
    <3> QED  BY <1>4, <1>11, <2>3, <3>1, <3>2
  <2>6. /\ \A i \in 1..l : (p + before) + i <= u => UnderWay[(p + before) + i] = sent[n][i]
        /\ p + last <= u => UnderWay[p + last] = Newline
    BY <1>1, <1>3, <1>5, <2>1, <2>2, <2>5 DEF Carries, Holds
  <2>7. ASSUME NEW i \in 1..l, before + i <= u - p PROVE UnderWay'[before + i] = sent[n][i]
    <3>1. /\ before + i \in 1..(u - p) /\ (p + before) + i <= u
          /\ p + (before + i) = (p + before) + i
      BY <1>5a, <2>7
    <3> QED  BY <1>6, <2>6, <3>1
  <2>8. ASSUME last <= u - p PROVE UnderWay'[last] = Newline
    <3>1. last \in 1..(u - p) /\ p + last <= u
      BY <1>5a, <2>4, <2>8
    <3> QED  BY <1>6, <2>6, <3>1
  <2> QED  BY <2>2, <2>3, <2>7, <2>8
<1>15. Holds(ends)'
  <2>1. Len(got') + 1 = g + 2
    BY <1>9
  <2> QED  BY <1>3, <1>6, <1>7, <1>9, <1>14, <2>1 DEF Holds
<1> QED  BY <1>10, <1>12, <1>13, <1>15 DEF Carried, Carries

\* The lines returned stay as they are when no line is returned or sent.
LEMMA StillReturned ==
  ASSUME Returned, UNCHANGED <<sent, got>>
  PROVE  Returned'
BY DEF Returned

\* A failure has a line to blame.
LEMMA BlamedStep ==
  ASSUME TypeOK, LinesInv, [Next]_vars
  PROVE  Blamed'
<1>1. DOMAIN sent = 1..Len(sent) /\ Len(sent) \in Nat
  BY DEF TypeOK
<1>2. ASSUME UNCHANGED <<sent, result, reader>> PROVE Blamed'
  BY <1>2 DEF LinesInv, Blamed
<1>3. ASSUME NEW body \in Bodies, Send(body) PROVE Blamed'
  <2>1. \A i \in DOMAIN sent : i \in DOMAIN sent' /\ sent'[i] = sent[i]
    BY <1>1, <1>3 DEF Send, TypeOK
  <2>2. UNCHANGED <<result, reader>>
    BY <1>3 DEF Send, ReaderFrame
  <2> QED  BY <2>1, <2>2 DEF LinesInv, Blamed
<1>4. CASE Write \/ Close
  BY <1>4, <1>2 DEF Write, Close, ReaderFrame
<1>5. ASSUME UNCHANGED sent, ~(result' = "garbled" \/ reader' = "panicked")
      PROVE  Blamed'
  BY <1>5 DEF Blamed
<1>6. ASSUME UNCHANGED <<sent, result>>, reader' # "panicked" PROVE Blamed'
  BY <1>6 DEF LinesInv, Blamed
<1>7. CASE Recv \/ Await \/ Read
  BY <1>6, <1>7 DEF Recv, Await, Read, WriterFrame, writerVars
<1>8. CASE ReturnLine \/ ReadEnd \/ Cancel
  BY <1>5, <1>8 DEF ReturnLine, ReadEnd, Cancel, Returns, WriterFrame, writerVars
<1>9. CASE ReturnGarbled
  <2>1. PICK p \in 1..loaded : Position(p) /\ Body(p) \notin Valid
    BY <1>9 DEF ReturnGarbled
  <2>2. Len(got) + 1 \in DOMAIN sent /\ sent[Len(got) + 1] \notin Valid
    BY <1>1, <2>1, FirstLine DEF LinesInv, Carried
  <2> QED  BY <1>9, <2>2 DEF ReturnGarbled, WriterFrame, writerVars, Blamed
<1>10. CASE Overflow
  <2>1. \E i \in DOMAIN sent : Len(sent[i]) >= BufSize
    BY <1>10, TooLong DEF Overflow
  <2> QED  BY <1>10, <2>1 DEF Overflow, WriterFrame, writerVars, Blamed
<1>11. CASE UNCHANGED vars
  BY <1>2, <1>11 DEF vars, writerVars
<1> QED
  BY <1>3, <1>4, <1>7, <1>8, <1>9, <1>10, <1>11 DEF Next

\* Every step keeps the lines, wherever their bytes are.
LEMMA LinesStep == TypeOK /\ LinesInv /\ [Next]_vars => LinesInv'
<1> SUFFICES ASSUME TypeOK, LinesInv, [Next]_vars PROVE LinesInv'
  OBVIOUS
<1>1. Blamed'
  BY BlamedStep
<1>2. Returned /\ Carried
  BY DEF LinesInv
<1>3. ASSUME UNCHANGED <<sent, got, end, pending, Unread>> PROVE Returned' /\ Carried'
  BY <1>2, <1>3, SameUnderWay, StillCarried, StillReturned
<1>4. ASSUME UNCHANGED <<sent, got, end, pending, buffer, loaded, pipe>>
      PROVE  Returned' /\ Carried'
  BY <1>3, <1>4, SameUnread
<1>5. ASSUME NEW body \in Bodies, Send(body) PROVE Returned' /\ Carried'
  <2>1. Returned'
    <3>1. /\ Len(sent') = Len(sent) + 1 /\ UNCHANGED got
          /\ \A i \in 1..Len(sent) : sent'[i] = sent[i]
      BY <1>5 DEF Send, ReaderFrame, TypeOK
    <3>2. DOMAIN got = 1..Len(got) /\ Len(got) \in Nat /\ Len(sent) \in Nat
      BY DEF TypeOK
    <3> QED  BY <1>2, <3>1, <3>2 DEF Returned
  <2> QED  BY <1>2, <1>5, <2>1, SendCarries
<1>6. CASE Write
  <2>1. UNCHANGED <<sent, got, end>>
    BY <1>6 DEF Write, ReaderFrame
  <2> QED  BY <1>1, <1>2, <1>6, <2>1, WriteMoves, StillCarried, StillReturned DEF LinesInv
<1>7. CASE Close
  <2>1. UNCHANGED <<sent, got>>
    BY <1>7 DEF Close, ReaderFrame
  <2> QED  BY <1>1, <1>2, <1>7, <2>1, CloseCarries, StillReturned DEF LinesInv
<1>8. CASE ReturnLine
  BY <1>1, <1>2, <1>8, ReturnCarries DEF LinesInv
<1>9. CASE Recv \/ ReturnGarbled \/ Overflow \/ Await \/ ReadEnd \/ Cancel
  BY <1>1, <1>4, <1>9
  DEF Recv, ReturnGarbled, Overflow, Await, ReadEnd, Cancel, WriterFrame, writerVars, LinesInv
<1>10. CASE Read
  BY <1>1, <1>3, <1>10, ReadKeeps DEF Read, WriterFrame, writerVars, LinesInv
<1>11. CASE UNCHANGED vars
  BY <1>1, <1>4, <1>11 DEF vars, writerVars, LinesInv
<1> QED
  BY <1>1, <1>5, <1>6, <1>7, <1>8, <1>9, <1>10, <1>11 DEF Next, LinesInv

\* Nothing is sent, nothing under way.
LEMMA LinesStart == Init => LinesInv
<1> SUFFICES ASSUME Init PROVE LinesInv
  OBVIOUS
<1>1. Len(sent) = 0 /\ Len(got) = 0 /\ DOMAIN got = {} /\ Len(pending) = 0
  BY DEF Init
<1>2. Len(UnderWay) = 0
  <2>1. Len(Unread) = 0
    BY UnreadJoins DEF Init
  <2>2. Len(Unread) + Len(pending) = 0
    BY <1>1, <2>1
  <2>3. UnderWay = <<>>
    BY <2>2 DEF UnderWay
  <2> QED  BY <2>3
<1> DEFINE ends == [n \in Nat |-> 0]
<1>3. ends \in [Nat -> Nat] /\ ends[0] = 0
  OBVIOUS
<1> HIDE DEF ends
<1>4. Carries(ends)
  <2>1. \A m, n \in 0..0 : ends[m] <= ends[n]
    BY <1>3
  <2> QED  BY <1>1, <1>2, <1>3, <2>1 DEF Carries, Marks, Holds, Fills
<1> QED  BY <1>1, <1>3, <1>4 DEF LinesInv, Carried, Returned, Blamed, Init

\* However the bytes travel, recv returns the lines that were sent, in order,
\* and fails on none unless one of them does not parse or does not fit.
THEOREM LinesDelivered == Spec => []LinesIntact
<1>1. TypeOK /\ LinesInv => LinesIntact
  <2> SUFFICES ASSUME TypeOK, LinesInv PROVE LinesIntact
    OBVIOUS
  <2>1. \A i \in DOMAIN sent : Len(sent[i]) \in Nat
    BY Lines DEF TypeOK
  <2>2. \A m \in Nat : m >= BufSize => ~(m < BufSize)
    BY BufSizeAssumption
  <2> QED  BY <2>1, <2>2, Zenon DEF LinesInv, Returned, Blamed, LinesIntact
<1> QED  BY <1>1, LinesStart, LinesStep, TypeCorrect, PTL DEF Spec
=============================================================================

------------------------------- MODULE Framing ------------------------------
(***************************************************************************)
(* One direction of one socket, byte by byte: MessageWriter::send and      *)
(* MessageReader::recv (writer.rs and reader.rs, the same in both crates). *)
(* A message is the byte sequence serde_json makes of it, which has no     *)
(* newline in it.  The lines of a peer that is not MessageWriter are       *)
(* bodies too, with the ones that do not parse.                            *)
(***************************************************************************)
EXTENDS Naturals, Sequences

CONSTANTS Byte, Newline,
          Bodies,      \* what may be sent, without the line end
          Valid,       \* the bodies from_slice accepts
          BufSize,     \* 1024 in the code
          PipeCap,     \* bytes the socket holds
          MaxLines     \* bound on the lines sent

ASSUME ByteAssumption == Newline \in Byte
ASSUME BodiesAssumption == Bodies \subseteq Seq(Byte \ {Newline})
ASSUME ValidAssumption == Valid \subseteq Bodies
ASSUME BufSizeAssumption == BufSize \in Nat \ {0}
ASSUME PipeCapAssumption == PipeCap \in Nat \ {0}
ASSUME MaxLinesAssumption == MaxLines \in Nat

VARIABLES sent,      \* the bodies given to send
          pending,   \* bytes send has not got rid of
          pipe,      \* bytes in the socket
          end,       \* is the writing end still there?
          buffer, loaded,   \* MessageReader
          reader,    \* where recv is
          result,    \* what recv returned last
          got        \* the bodies recv returned

writerVars == <<sent, pending, end>>
vars == <<writerVars, pipe, buffer, loaded, reader, result, got>>

Place == 1..BufSize

TypeOK ==
  /\ sent \in Seq(Bodies)
  /\ pending \in Seq(Byte)
  /\ pipe \in Seq(Byte)
  /\ end \in {"open", "closed", "reset"}
  /\ buffer \in [Place -> Byte \cup {"zero"}]
  /\ loaded \in 0..BufSize
  /\ reader \in {"idle", "scanning", "awaiting", "panicked"}
  /\ result \in {"none", "line", "garbled", "closed", "error"}
  /\ got \in Seq(Valid)

Init ==
  /\ sent = <<>> /\ pending = <<>> /\ pipe = <<>> /\ end = "open"
  /\ buffer = [i \in Place |-> "zero"]
  /\ loaded = 0
  /\ reader = "idle" /\ result = "none" /\ got = <<>>

-----------------------------------------------------------------------------
(***************************************************************************)
(* The writer.                                                             *)
(***************************************************************************)
ReaderFrame == UNCHANGED <<buffer, loaded, reader, result, got>>

Send(body) ==
  /\ end = "open" /\ pending = <<>>
  /\ Len(sent) < MaxLines
  /\ sent' = Append(sent, body)
  /\ pending' = Append(body, Newline)
  /\ UNCHANGED <<end, pipe>>
  /\ ReaderFrame

Min(m, n) == IF m < n THEN m ELSE n

\* Mutant: a line is written when all of it fits.
WriteWhole ==
  /\ end = "open"
  /\ pending # <<>> /\ Len(pending) <= PipeCap - Len(pipe)
  /\ pipe' = pipe \o pending
  /\ pending' = <<>>
  /\ UNCHANGED <<sent, end>>
  /\ ReaderFrame

\* A write of write_all: the socket accepts the next k bytes.
Write ==
  /\ end = "open"
  /\ \E k \in 1..Min(Len(pending), PipeCap - Len(pipe)) :
       /\ pipe' = pipe \o SubSeq(pending, 1, k)
       /\ pending' = SubSeq(pending, k + 1, Len(pending))
  /\ UNCHANGED <<sent, end>>
  /\ ReaderFrame

\* The writer is dropped, possibly inside send (its task is aborted).
Close ==
  /\ end = "open"
  /\ end' \in {"closed", "reset"}
  /\ pending' = <<>>
  /\ UNCHANGED <<sent, pipe>>
  /\ ReaderFrame

-----------------------------------------------------------------------------
(***************************************************************************)
(* The reader.                                                             *)
(***************************************************************************)
WriterFrame == UNCHANGED writerVars

\* recv is called, by a caller that may not mind an error returned before.
Recv ==
  /\ reader = "idle"
  /\ result \notin {"closed", "error"}
  /\ reader' = "scanning"
  /\ UNCHANGED <<pipe, buffer, loaded, result, got>>
  /\ WriterFrame

Returns(r) == reader' = "idle" /\ result' = r

\* buffer[..loaded].iter().position(|c| *c == b'\n') is Some(p - 1).
Position(p) ==
  /\ p \in 1..loaded
  /\ buffer[p] = Newline
  /\ \A i \in 1..(p - 1) : buffer[i] # Newline

NoPosition == \A i \in 1..loaded : buffer[i] # Newline

Body(p) == [i \in 1..(p - 1) |-> buffer[i]]

\* Mutant: the line end stays.
ShiftShort(p) == [i \in Place |-> IF i + p - 1 \in Place THEN buffer[i + p - 1] ELSE buffer[i]]

\* buffer.copy_within(p.., 0): what lies behind stays as it was.
Shift(p) == [i \in Place |-> IF i + p \in Place THEN buffer[i + p] ELSE buffer[i]]

ReturnLine ==
  /\ reader = "scanning"
  /\ \E p \in 1..loaded :
       /\ Position(p)
       /\ Body(p) \in Valid
       /\ buffer' = Shift(p)
       /\ loaded' = loaded - p
       /\ got' = Append(got, Body(p))
  /\ Returns("line")
  /\ UNCHANGED pipe
  /\ WriterFrame

\* Mutant: the line is used up before it is parsed.
ReturnGarbledTakes ==
  /\ reader = "scanning"
  /\ \E p \in 1..loaded :
       /\ Position(p) /\ Body(p) \notin Valid
       /\ buffer' = Shift(p)
       /\ loaded' = loaded - p
  /\ Returns("garbled")
  /\ UNCHANGED <<pipe, got>>
  /\ WriterFrame

\* from_slice fails and returns before the line is taken out.
ReturnGarbled ==
  /\ reader = "scanning"
  /\ \E p \in 1..loaded : Position(p) /\ Body(p) \notin Valid
  /\ Returns("garbled")
  /\ UNCHANGED <<pipe, buffer, loaded, got>>
  /\ WriterFrame

\* Mutant: the last byte of the buffer is never used.
OverflowEarly ==
  /\ reader = "scanning"
  /\ NoPosition
  /\ loaded >= BufSize - 1
  /\ reader' = "panicked"
  /\ UNCHANGED <<pipe, buffer, loaded, result, got>>
  /\ WriterFrame

\* assert!(self.loaded < self.buffer.len())
Overflow ==
  /\ reader = "scanning"
  /\ NoPosition
  /\ loaded >= BufSize
  /\ reader' = "panicked"
  /\ UNCHANGED <<pipe, buffer, loaded, result, got>>
  /\ WriterFrame

Await ==
  /\ reader = "scanning"
  /\ NoPosition
  /\ loaded < BufSize
  /\ reader' = "awaiting"
  /\ UNCHANGED <<pipe, buffer, loaded, result, got>>
  /\ WriterFrame

\* Mutant: the buffer is taken to have room.
ReadPastEnd ==
  /\ reader = "awaiting"
  /\ \E k \in 1..Len(pipe) :
       /\ buffer' = [i \in Place |-> IF i \in (loaded + 1)..(loaded + k)
                                     THEN pipe[i - loaded] ELSE buffer[i]]
       /\ loaded' = loaded + k
       /\ pipe' = SubSeq(pipe, k + 1, Len(pipe))
  /\ reader' = "scanning"
  /\ UNCHANGED <<result, got>>
  /\ WriterFrame

\* read(&mut buffer[loaded..]) fills in the next k bytes.
Read ==
  /\ reader = "awaiting"
  /\ \E k \in 1..Min(Len(pipe), BufSize - loaded) :
       /\ buffer' = [i \in Place |-> IF i \in (loaded + 1)..(loaded + k)
                                     THEN pipe[i - loaded] ELSE buffer[i]]
       /\ loaded' = loaded + k
       /\ pipe' = SubSeq(pipe, k + 1, Len(pipe))
  /\ reader' = "scanning"
  /\ UNCHANGED <<result, got>>
  /\ WriterFrame

\* read returns 0, or an error: bytes of an unfinished line stay behind.
ReadEnd ==
  /\ reader = "awaiting"
  /\ pipe = <<>>
  /\ \/ end = "closed" /\ Returns("closed")
     \/ end = "reset" /\ Returns("error")
  /\ UNCHANGED <<pipe, buffer, loaded, got>>
  /\ WriterFrame

\* Mutant: the bytes of a line live in the future of recv.
CancelForgets ==
  /\ reader = "awaiting"
  /\ Returns("none")
  /\ loaded' = 0
  /\ UNCHANGED <<pipe, buffer, got>>
  /\ WriterFrame

\* A select! with recv in it takes another branch and drops the future.
Cancel ==
  /\ reader = "awaiting"
  /\ Returns("none")
  /\ UNCHANGED <<pipe, buffer, loaded, got>>
  /\ WriterFrame

Next ==
  \/ \E body \in Bodies : Send(body)
  \/ Write \/ Close
  \/ Recv \/ ReturnLine \/ ReturnGarbled \/ Overflow \/ Await
  \/ Read \/ ReadEnd \/ Cancel

Spec == Init /\ [][Next]_vars

(***************************************************************************)
(* The socket takes what it has room for; the reader's caller calls recv   *)
(* again and again; a select! around it, which polls its branches in       *)
(* random order, may drop recv any number of times but not whenever there  *)
(* are bytes to read.                                                      *)
(***************************************************************************)
Scans == ReturnLine \/ ReturnGarbled \/ Overflow \/ Await

FairSpec == Spec /\ WF_vars(Write) /\ WF_vars(Recv) /\ WF_vars(Scans)
                 /\ SF_vars(Read) /\ SF_vars(ReadEnd)

-----------------------------------------------------------------------------
\* The bytes between send and the caller of recv: first those in the buffer.
Unread ==
  [i \in 1..(loaded + Len(pipe)) |-> IF i <= loaded THEN buffer[i] ELSE pipe[i - loaded]]

Stream == INSTANCE LineStream WITH unread <- Unread, got <- got

\* However the bytes are cut up, whatever is left of earlier lines in the
\* buffer and however often recv is dropped half-way, recv turns the bytes
\* written into their lines: it implements LineStream.
ImplementsStream == Stream!Spec

\* The lines returned are the ones sent, in order; if all of them parse and
\* fit, recv neither panics nor fails to parse one, even when the writer is
\* dropped in the middle of a line.
LinesIntact ==
  /\ Len(got) <= Len(sent)
  /\ \A i \in DOMAIN got : got[i] = sent[i]
  /\ (\A i \in DOMAIN sent : sent[i] \in Valid /\ Len(sent[i]) < BufSize)
       => reader # "panicked" /\ result # "garbled"

\* A line that does not parse is never passed: calling recv again returns
\* the same error and no line, so its callers must, and do, give up.
ErrorSticks == [][result = "garbled" => result' = "garbled" /\ got' = got]_vars

\* A line that is sent is returned to a caller that keeps calling recv,
\* unless an earlier one, or itself, does not parse or does not fit, or the
\* writer goes away.
LinesArrive ==
  \A n \in 1..MaxLines :
    Len(sent) >= n ~> (Len(got) >= n \/ result = "garbled" \/ reader = "panicked" \/ end # "open")
=============================================================================

--------------------------- MODULE TerminalClient ---------------------------
(***************************************************************************)
(* The terminal client, bin/client.rs, at both ends of a conversation: one *)
(* process per connection, talking to the single-threaded server.  main    *)
(* joins, then reads commands from standard input, blocking; a task of its *)
(* own prints what the server sends.  They share nothing but the socket.   *)
(***************************************************************************)
EXTENDS SingleThreaded

(***************************************************************************)
(* main is "off", "connected", "joining" (waiting for the first message),  *)
(* at its "prompt", "spinning" (at the end of input read_line returns      *)
(* Ok(0) again and again), "quitting", "exited" or "panicked".  The task   *)
(* of handle_server_messages is "none", "reading", "panicked" or, with its *)
(* runtime, "aborted".                                                     *)
(***************************************************************************)
VARIABLES main, printer

clientState == <<main, printer>>
allVars == <<vars, clientState>>

Alive(c) == main[c] \notin {"off", "exited", "panicked"}

ProcessInit ==
  /\ Init
  /\ main = [c \in Conns |-> "off"]
  /\ printer = [c \in Conns |-> "none"]

Goes(c, where) == main' = [main EXCEPT ![c] = where]

\* main returns or panics: the runtime goes, and the socket with it.
Dies(c, how) ==
  /\ Goes(c, how)
  /\ printer' = [printer EXCEPT ![c] = IF @ = "reading" THEN "aborted" ELSE @]
  /\ peer' = [peer EXCEPT ![c] = "gone"]

Unread(c) == seen[c] < Len(wire[c])
NextMessage(c) == wire[c][seen[c] + 1]

\* MessageReader::recv returns None or an error.
Lost(c) == ~Unread(c) /\ (Closed(c) \/ Down)

Frame == UNCHANGED <<loopVars, handlerVars, taken, wire>>

-----------------------------------------------------------------------------
(***************************************************************************)
(* main.                                                                   *)
(***************************************************************************)

\* spawner.client()
Launch(c) ==
  /\ main[c] = "off"
  /\ Dial(c)
  /\ Goes(c, "connected")
  /\ UNCHANGED <<printer, handlerVars>>

\* ClientWriter::send: to a socket the server has closed the kernel may take
\* the line once more, or the expect panics.
Transmits(c, line, where) ==
  \/ /\ ~Closed(c) /\ ClientSends(c, line)
     /\ Goes(c, where)
     /\ UNCHANGED <<printer, loopVars, handlerVars>>
  \/ /\ Closed(c) /\ Goes(c, where)
     /\ UNCHANGED <<printer, socketVars, loopVars, handlerVars>>
  \/ /\ Closed(c) /\ Dies(c, "panicked")
     /\ UNCHANGED <<sent, seen>> /\ Frame

\* Mutant: the prompt is there before the Join.
JoinsAtPrompt(c) ==
  /\ main[c] = "connected"
  /\ Goes(c, "prompt")
  /\ UNCHANGED <<printer, socketVars, loopVars, handlerVars>>

\* writer.join(&args.username)
Joins(c) ==
  /\ main[c] = "connected"
  /\ \E n \in Names : Transmits(c, [kind |-> "Join", name |-> n], "joining")

\* The first message: Welcome starts the reader task; a name that is taken
\* ends main; anything else, or none, makes it panic.
FirstMessage(c) ==
  /\ main[c] = "joining"
  /\ \/ /\ Unread(c) /\ NextMessage(c) = Welcome
        /\ Goes(c, "prompt")
        /\ printer' = [printer EXCEPT ![c] = "reading"]
        /\ UNCHANGED peer
     \/ Unread(c) /\ NextMessage(c) = Error("Username already taken") /\ Dies(c, "exited")
     \/ Unread(c) /\ NextMessage(c) \notin {Welcome, Error("Username already taken")}
                  /\ Dies(c, "panicked")
  /\ seen' = [seen EXCEPT ![c] = @ + 1]
  /\ UNCHANGED sent /\ Frame

LostBeforeWelcome(c) ==
  /\ main[c] = "joining"
  /\ Lost(c)
  /\ Dies(c, "panicked")
  /\ UNCHANGED <<sent, seen>> /\ Frame

\* run_command_loop and handle_command, for a line that makes them send:
\* /l, /b or /d.  (Help, a usage note and a line without a slash change
\* nothing.)
Commands == [kind : {"ListUsers", "Broadcast"}, name : {NoName}]
              \cup [kind : {"SendDM"}, name : Names]

Command(c) ==
  /\ main[c] = "prompt"
  /\ \E line \in Commands \cap MaySend(c) : Transmits(c, line, "prompt")

EndOfInput(c) ==
  /\ main[c] = "prompt"
  /\ Goes(c, "spinning")
  /\ UNCHANGED <<printer, socketVars>> /\ UNCHANGED <<loopVars, handlerVars>>

\* Mutant: the loop goes on after /q.
QuitsToPrompt(c) ==
  /\ main[c] = "prompt"
  /\ Goes(c, "prompt")
  /\ peer' = [peer EXCEPT ![c] = "half"]
  /\ UNCHANGED <<printer, sent, seen>> /\ Frame

\* /q: writer.close() shuts the writing side; its unwrap may panic if the
\* connection was reset.
Quits(c) ==
  /\ main[c] = "prompt"
  /\ \/ /\ Goes(c, "quitting")
        /\ peer' = [peer EXCEPT ![c] = "half"]
        /\ UNCHANGED printer
     \/ Closed(c) /\ Dies(c, "panicked")
  /\ UNCHANGED <<sent, seen>> /\ Frame

\* reader_handle.abort(), and main returns.
Exits(c) ==
  /\ main[c] = "quitting"
  /\ Dies(c, "exited")
  /\ UNCHANGED <<sent, seen>> /\ Frame

-----------------------------------------------------------------------------
(***************************************************************************)
(* handle_server_messages.                                                 *)
(***************************************************************************)

\* Mutant: messages are printed between two commands.
PrintsAfterInput(c) ==
  /\ printer[c] = "reading"
  /\ Unread(c)
  /\ Len(sent[c]) > 1
  /\ seen' = [seen EXCEPT ![c] = @ + 1]
  /\ UNCHANGED <<clientState, peer, sent>> /\ Frame

Prints(c) ==
  /\ printer[c] = "reading"
  /\ Unread(c)
  /\ seen' = [seen EXCEPT ![c] = @ + 1]
  /\ UNCHANGED <<clientState, peer, sent>> /\ Frame

\* recv's expect("connection was closed") panics in the task; main goes on.
PrinterPanics(c) ==
  /\ printer[c] = "reading"
  /\ Lost(c)
  /\ printer' = [printer EXCEPT ![c] = "panicked"]
  /\ UNCHANGED <<main, socketVars, loopVars, handlerVars>>

-----------------------------------------------------------------------------
Process(c) ==
  \/ Launch(c) \/ Joins(c) \/ FirstMessage(c) \/ LostBeforeWelcome(c)
  \/ Command(c) \/ EndOfInput(c) \/ Quits(c) \/ Exits(c)
  \/ Prints(c) \/ PrinterPanics(c)

ProcessNext ==
  \/ LoopAlone /\ UNCHANGED clientState
  \/ \E c \in Conns :
       \/ (Server(c) \/ Handler(c) \/ JoinTimeout(c)) /\ UNCHANGED clientState
       \/ Process(c)

(***************************************************************************)
(* Processes and handlers run; users need not type, and may type /q.       *)
(***************************************************************************)
ProcessSpec ==
  /\ ProcessInit /\ [][ProcessNext]_allVars
  /\ \A c \in Conns :
       /\ WF_allVars(Handler(c) /\ UNCHANGED clientState)
       /\ WF_allVars(CancelHandler(c) /\ UNCHANGED clientState)
       /\ WF_allVars(Joins(c) \/ FirstMessage(c) \/ LostBeforeWelcome(c) \/ Exits(c))
       /\ WF_allVars(Prints(c) \/ PrinterPanics(c))

-----------------------------------------------------------------------------
\* Whatever the user types, the server takes it for a client that follows
\* the protocol: it never answers that a message was unexpected.
FollowsProtocol ==
  \A c \in Conns : \A i \in DOMAIN wire[c] :
    wire[c][i] # Error("Unexpected message received")

\* What the server writes to a client is printed while it runs, though its
\* user types nothing and main is blocked in read_line.
MessagesShown ==
  \A c \in Conns : (printer[c] = "reading" /\ Unread(c)) ~> (~Unread(c) \/ ~Alive(c))

\* Whose writing side is shut by /q is gone soon, for the server as well,
\* whatever the server was about to write to it.
QuitLeaves ==
  \A c \in Conns :
    peer[c] = "half" ~> (main[c] = "exited" /\ (pc[c] \in {"idle", "ended"} \/ Down))
=============================================================================

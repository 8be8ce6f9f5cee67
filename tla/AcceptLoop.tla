----------------------------- MODULE AcceptLoop -----------------------------
(***************************************************************************)
(* run_server: the select! loop shared, line for line, by both servers     *)
(* (tokio-talk-st/src/server.rs and tokio-talk-mt/src/server.rs).  It      *)
(* accepts connections, turns them away when the JoinSet is full, spawns a *)
(* task per admitted connection, reaps finished tasks, and stops on the    *)
(* shutdown signal.  What a task does is left open here: it runs until it  *)
(* finishes.  SingleThreaded and MultiThreaded fill that in.               *)
(***************************************************************************)
EXTENDS Naturals, Sequences, FiniteSets

CONSTANTS Conns,          \* the TCP connections clients may open
          MaxClients,     \* ServerOpts::max_clients
          AcceptMayFail,  \* may listener.accept() return Err (EMFILE, ECONNABORTED)?
          MayStop         \* is the server told to stop in this instance?

ASSUME ConnsAssumption == IsFiniteSet(Conns)
ASSUME MaxClientsAssumption == MaxClients \in Nat
ASSUME AcceptMayFailAssumption == AcceptMayFail \in BOOLEAN
ASSUME MayStopAssumption == MayStop \in BOOLEAN

VARIABLES server,    \* where run_server is, or how it ended
          signal,    \* has the oneshot been sent (or its sender dropped)?
          armed,     \* is the accept branch enabled in the current select! call?
          backlog,   \* connections completed by the kernel, not yet accepted
          task       \* what became of each connection

loopVars == <<server, signal, armed, backlog, task>>

ServerStates == {"selecting", "rejecting", "stopped", "failed", "dropped"}

TaskStates == {"absent", "queued", "rejecting", "running", "finished",
               "reaped", "refused", "cancelled"}

Down == server \in {"stopped", "failed", "dropped"}

\* The JoinSet: it keeps a finished task until join_next returns it, so
\* tasks.len() counts finished tasks too.
Tasks == {c \in Conns : task[c] \in {"running", "finished"}}

LoopTypeOK ==
  /\ server \in ServerStates
  /\ signal \in BOOLEAN
  /\ armed \in BOOLEAN
  /\ backlog \in Seq(Conns)
  /\ task \in [Conns -> TaskStates]

LoopInit ==
  /\ server = "selecting"
  /\ signal = FALSE
  /\ armed = TRUE
  /\ backlog = <<>>
  /\ task = [c \in Conns |-> "absent"]

-----------------------------------------------------------------------------
(***************************************************************************)
(* The listener.                                                           *)
(***************************************************************************)

\* The kernel completes the handshake of c and queues it.
Connect(c) ==
  /\ ~Down
  /\ task[c] = "absent"
  /\ backlog' = Append(backlog, c)
  /\ task' = [task EXCEPT ![c] = "queued"]
  /\ UNCHANGED <<server, signal, armed>>

\* listener.accept() would return c to the select! call in progress.
Accepting(c) ==
  /\ server = "selecting"
  /\ armed
  /\ backlog # <<>>
  /\ Head(backlog) = c

\* The pattern Ok((client, _)) does not match an Err: select! disables the
\* branch for the rest of this call and waits for the others.
AcceptFails ==
  /\ AcceptMayFail
  /\ server = "selecting"
  /\ armed
  /\ armed' = FALSE
  /\ UNCHANGED <<server, signal, backlog, task>>

\* Mutant: the connection is rejected when tasks.len() > max_clients.
SpawnOneMore(c) ==
  /\ Accepting(c)
  /\ Cardinality(Tasks) <= MaxClients
  /\ backlog' = Tail(backlog)
  /\ task' = [task EXCEPT ![c] = "running"]
  /\ UNCHANGED <<server, signal, armed>>

\* tasks.spawn / tasks.spawn_local
Spawn(c) ==
  /\ Accepting(c)
  /\ Cardinality(Tasks) < MaxClients
  /\ backlog' = Tail(backlog)
  /\ task' = [task EXCEPT ![c] = "running"]
  /\ UNCHANGED <<server, signal, armed>>

(***************************************************************************)
(* "Server is full": writer.send(..).await? runs inside the branch, so the *)
(* loop neither accepts, reaps nor listens for the signal meanwhile.       *)
(***************************************************************************)
Rejecting(c) ==
  \/ Accepting(c) /\ Cardinality(Tasks) >= MaxClients
  \/ server = "rejecting" /\ task[c] = "rejecting"

BacklogAfter(c) == IF task[c] = "queued" THEN Tail(backlog) ELSE backlog

\* The write returns Pending: run_server is suspended in it.
RejectSuspends(c) ==
  /\ Accepting(c)
  /\ Cardinality(Tasks) >= MaxClients
  /\ server' = "rejecting"
  /\ backlog' = Tail(backlog)
  /\ task' = [task EXCEPT ![c] = "rejecting"]
  /\ UNCHANGED <<signal, armed>>

\* The write completes; continue drops the socket and selects again, with
\* every branch enabled.
RejectSent(c) ==
  /\ Rejecting(c)
  /\ server' = "selecting"
  /\ backlog' = BacklogAfter(c)
  /\ task' = [task EXCEPT ![c] = "refused"]
  /\ UNCHANGED <<signal, armed>>

(***************************************************************************)
(* The end of run_server.  The listener goes (what it still queued is      *)
(* reset) and so does the JoinSet, which aborts every running task: each   *)
(* is cancelled when the runtime next polls it.                            *)
(***************************************************************************)
EndWith(result) ==
  /\ server' = result
  /\ backlog' = <<>>
  /\ task' = [c \in Conns |-> IF task[c] \in {"queued", "rejecting"}
                              THEN "refused" ELSE task[c]]
  /\ UNCHANGED <<signal, armed>>

\* The write of "Server is full" fails and `?` returns from run_server.
RejectFails(c) ==
  /\ Rejecting(c)
  /\ EndWith("failed")

SendSignal ==
  /\ MayStop
  /\ ~Down
  /\ ~signal
  /\ signal' = TRUE
  /\ UNCHANGED <<server, armed, backlog, task>>

\* Mutant: the loop breaks once its tasks are done.
BreakWhenIdle ==
  /\ server = "selecting"
  /\ signal
  /\ Tasks = {}
  /\ EndWith("stopped")

Break ==
  /\ server = "selecting"
  /\ signal
  /\ EndWith("stopped")

\* Ctrl+C in the server binaries: main drops the future of run_server, with
\* or without sending the signal first (the multi-threaded one has select!
\* drop it, the single-threaded one drops the LocalSet it was spawned on).
DropFuture ==
  /\ MayStop
  /\ ~Down
  /\ EndWith("dropped")

\* The runtime drops the future of an aborted task when it next polls it, or
\* when the poll another thread is in returns.
Cancel(c) ==
  /\ Down
  /\ task[c] = "running"
  /\ task' = [task EXCEPT ![c] = "cancelled"]
  /\ UNCHANGED <<server, signal, armed, backlog>>

-----------------------------------------------------------------------------
(***************************************************************************)
(* The tasks.                                                              *)
(***************************************************************************)

\* handle_client returns or panics.
Finish(c) ==
  /\ ~Down
  /\ task[c] = "running"
  /\ task' = [task EXCEPT ![c] = "finished"]
  /\ UNCHANGED <<server, signal, armed, backlog>>

\* tasks.join_next() returns the task of c; the next select! call has its
\* accept branch back.
Reap(c) ==
  /\ server = "selecting"
  /\ task[c] = "finished"
  /\ task' = [task EXCEPT ![c] = "reaped"]
  /\ armed' = TRUE
  /\ UNCHANGED <<server, signal, backlog>>

-----------------------------------------------------------------------------
LoopNext ==
  \/ AcceptFails \/ SendSignal \/ Break \/ DropFuture
  \/ \E c \in Conns :
       \/ Connect(c) \/ Spawn(c) \/ Finish(c) \/ Reap(c) \/ Cancel(c)
       \/ RejectSuspends(c) \/ RejectSent(c) \/ RejectFails(c)

\* run_server with tasks that do anything.
LoopSpec == LoopInit /\ [][LoopNext]_loopVars

(***************************************************************************)
(* The runtime polls a woken task, and the kernel reports a fresh socket   *)
(* writable or broken: weak fairness.  select! starts at a random branch   *)
(* on every poll, so a branch that is ready again and again is taken:      *)
(* strong fairness of the branches.  A task need never finish, and nobody  *)
(* need connect or stop the server.                                        *)
(***************************************************************************)
LoopFairness ==
  /\ SF_loopVars(Break)
  /\ SF_loopVars(\E c \in Conns : Reap(c))
  /\ SF_loopVars(\E c \in Conns : Spawn(c) \/ RejectSent(c) \/ RejectFails(c))
  /\ WF_loopVars(\E c \in Conns : Cancel(c))

FairLoopSpec == LoopSpec /\ LoopFairness

-----------------------------------------------------------------------------
(***************************************************************************)
(* Properties.                                                             *)
(***************************************************************************)

\* max_clients bounds the tasks of the JoinSet, hence the handlers alive at
\* once, in every interleaving of accepting, finishing and reaping.
WithinCapacity == Cardinality(Tasks) <= MaxClients

\* What run_server knows of a connection is what the kernel knows: the queued
\* ones are in the backlog, each once, and at most one is being turned away,
\* while run_server is suspended on it.  Proofs need it.
BacklogConsistent ==
  /\ \A i \in DOMAIN backlog : task[backlog[i]] = "queued"
  /\ \A i, j \in DOMAIN backlog : backlog[i] = backlog[j] => i = j
  /\ \A c \in Conns : task[c] = "queued" => \E i \in DOMAIN backlog : backlog[i] = c
  /\ \A c, d \in Conns :
       task[c] = "rejecting" /\ task[d] = "rejecting" => c = d
  /\ server = "rejecting" <=> \E c \in Conns : task[c] = "rejecting"

(***************************************************************************)
(* What the documentation of run_server says and the loop does not do.     *)
(***************************************************************************)

\* "During shutdown, it stops accepting new connections and waits for existing
\* client tasks to complete."
ShutdownWaits == server = "stopped" => \A c \in Conns : task[c] # "running"

\* "Err if there are errors accepting connections": once accept() has
\* returned one, run_server returns it.
AcceptErrorsReturned == ~armed ~> server = "failed"

\* "The loop continues until a shutdown signal is received".
LoopsUntilSignalled == server \in {"stopped", "failed"} => signal
=============================================================================

# tokio-talk: specification and verification

TLA+ specifications of the two chat servers of this repository, of the framing
they share, of the terminal client and of the test suite; TLC instances that check
them, and TLAPS proofs about them. Line numbers refer to `tokio-talk-st/src/` (ST)
and `tokio-talk-mt/src/` (MT).

## 1. The system

Two crates implement one protocol: lines of JSON over TCP. `messages.rs`,
`reader.rs`, `writer.rs`, `client.rs` and `bin/client.rs` are the same in both
(up to the crate name); `server.rs` differs in how clients reach each other.

| component | state | operations | what makes it correct |
|---|---|---|---|
| accept loop, `run_server` (ST 86-116, MT 83-111) | listener, `JoinSet`, shutdown receiver, which select! branches are enabled | accept and spawn, turn away, reap, stop | never more than `max_clients` tasks; a shutdown ends it and its tasks; it ends for no other reason |
| ST handler, `handle_client` (ST 133-330) | where its future is suspended, its name, its unbounded channel; shared: `Rc<RefCell<HashMap<name, sender>>>` | join (with 2 s timeout), ping, list, broadcast, direct message, forward from the channel, leave | unique names, an entry per live handler and none without, replies match requests, order and no loss, nobody dropped for another's sake |
| MT handler (MT 114-310) | the same without channels; shared: `Arc<RwLock<HashMap<name, Mutex<writer>>>>` | the same, writing to other clients' sockets under locks | the same, plus: a writer stays alive while it is used, no deadlock |
| framing, `MessageReader` / `MessageWriter` | 1024-byte buffer, `loaded`; a stream | `recv`, `send` | the messages received are those sent, in order, whatever the chunks |
| client library, `client.rs` | two halves of a socket | connect, send, receive, close | sees the server's messages in order |
| terminal client, `bin/client.rs` | prompt, printing task | parse a command, send; print | prints while it waits for input, follows the protocol, can be quit |
| server binaries | the future, the LocalSet (ST) | start, Ctrl+C | stops on Ctrl+C |
| tests, `lib.rs` | scripted clients | 26 tests per crate | they pass in every order of events |

How they interact: the loop spawns a handler task per admitted connection. ST
handlers run on one thread and reach each other through channels; each owns its
writer, and multiplexes socket and channel in a `select!`. MT handlers run in
parallel and write to each other's sockets under the map's read lock and the
writer's mutex. Clients see only the socket.

What is hard: a handler is suspended inside its writes while the world goes on
(other handlers post to it, its name is looked up, the client resets the
connection, the server stops); the name check and the registration are separated
by a write; `?` returns from the middle of handlers and of the loop; select!
disables a branch whose pattern does not match, and drops the futures it does not
take; locks are held across writes to somebody else's socket; dropping the
`JoinSet` aborts handlers at whatever await they are in. `PROJECT.json` lists each
hazard at its line with the properties aimed at it.

## 2. Modules

| module | models |
|---|---|
| `Protocol` | `messages.rs`: the lines a client can send, the messages a server can send |
| `AcceptLoop` | `run_server` of both servers; what a task does is left open |
| `Transport` (extends the two) | sockets, whole lines at a time, and the client side of `client.rs` |
| `SingleThreaded` (extends `Transport`) | `handle_client` and everything it calls in ST, with the properties of the client map |
| `ChatRoom` | the abstract chat server: members, and what is said to them |
| `Selection` | the messages of some kinds in a sequence, which the properties compare |
| `SingleThreadedProperties` | properties over message histories, the refinement of `ChatRoom`, fairness and liveness of ST |
| `MultiThreaded` (extends `Transport`) | `handle_client` and everything it calls in MT, with its locks; its properties, the refinement of `Forum` |
| `Forum` | the abstract multi-threaded server: who has asked, entered and left, whom a name leads to, what each was told and who is still to be told what |
| `MultiThreadedTests` (extends `MultiThreaded`) | the tests of MT `lib.rs` as scripts, on the current-thread runtime |
| `LineStream` | the abstract framing: bytes in, whole lines out |
| `Framing` | `reader.rs` and `writer.rs`, byte by byte; implements `LineStream` |
| `TerminalClient` (extends `SingleThreaded`) | `bin/client.rs`, one process per connection, with the server |
| `Situations` | what the instances of the two servers are about: the lines their clients send, and the state constraint `Bound` |
| `MCSingleThreaded`, `MCMultiThreaded`, `MCFraming`, `MCTerminalClient` | instances for TLC |
| `AcceptLoopProofs`, `SingleThreadedProofs`, `SingleThreadedDeliveryProofs`, `TerminalClientProofs`, `MultiThreadedProofs`, `MultiThreadedDeliveryProofs`, `FramingProofs`, `SelectionProofs` | theorems, checked by TLAPS |

### From code to model

*AcceptLoop.* `server` is where `run_server` is: waiting in select!
("selecting"), suspended in the "Server is full" write ("rejecting"), or ended.
`armed` says whether the accept branch is still enabled in the current select!
call: an `Err` does not match `Ok((client, _))`, so the branch is disabled until
the call returns (`AcceptFails`, `Reap`). `task[c]` follows a connection; a task
is in the `JoinSet` while "running" or "finished" (`Tasks`), because
`tasks.len()` counts finished tasks until `join_next` returns them. Returning
drops the set: running tasks are aborted, each when the runtime gets to it
(`Cancel`). `DropFuture` is Ctrl+C in the binaries.

*Transport.* `sent`/`taken` are the lines of a client and how many the server's
reader returned; `wire`/`seen` the messages written to it and how many it read.
A socket holds `OutCap` unread messages; a write to a full one suspends.
A client may shut its writing side ("half") or go away ("gone"), after which a
write may land (the reset is still on its way) or fail.

*SingleThreaded.* One action is one poll of a handler from one await point to
the next. That is what single-threadedness buys the code, and `RefCell` borrows
never span an await. A write is `Sends(c, msg, then)`: it lands, fails, or
suspends, and then `Continues` with what the code does next ("welcome" inserts
the name; "reply" goes back to the loop or, on failure, breaks out of it; "kick"
breaks out; "forward" goes back or, on failure, returns *without* removing the
name; "close" returns). The `RefCell` map is `registry`: name to connection, a
connection standing for the sender of its channel.

A write suspends when the socket is full and, with `WriteMayYield`, also when it has
room: tokio makes a task return Pending once its poll has used up a budget of 128
operations, and a poll of the loop may go through many lines and messages. A poll of
`join_client` may not. It has a read or two behind it (a read that does not fill the
buffer shows the socket drained, and the next one waits for the reactor, which does
not run within a poll), the reactor that reported the socket readable reported it
writable too, and the Welcome is the first thing ever written to it. So `Sends` lets a
Welcome suspend only when there is no room, and there always is: the lookup (ST 141), the
Welcome (145) and the insertion (194) happen in one poll. That is an argument about
tokio and not about this code, where an await stands between the two; the mutant
`SendsLater` is the code with any other await there, and it breaks `UniqueNames`.

*MultiThreaded.* One action is what a handler does between two points where
another thread can matter: an await, or the taking or giving back of a lock.
`queue` is the line in front of tokio's fair `RwLock`: it is served from its head
only, so a waiting writer holds up the readers behind it. A read guard that is
gone by the end of its statement (`Lookup`) is one step; the one
`react_client_msg` keeps until it returns is `ReadGuard`, which follows from
where the handler is. Granting the write lock and the statement under it
(`InsertWriter`, `RemoveWriter`) is one step, since no await lies between them.
`job[c]` is the send in progress: the message, the writer it locks (`at`), those
of a broadcast still to come (`todo`, in any order: a `HashMap` is walked), and
what follows. "locking" waits for the mutex, "writing" holds it, suspended. A name
leads to a *writer*, which may be another connection's: a handler replies to
`registry[name[c]]` because the code looks its writer up by name (MT 284).

Who owns a writer decides what its client sees. The handler has it until it inserts
it; from then on the map alone keeps it alive (`WriterAlive`), and the map lives as long as
`run_server` or a handler does (`MapAlive`). When `insert` (MT 195) replaces a writer or
`remove` (201) takes one out, it is dropped, which shuts the sending side of its
socket: that client reads the end of its stream (`StreamOver`) though its handler may
still be in its loop, and may still be read from. Conversely the writer of a handler that
panicked in its loop stays in the map and its socket open: the connection is closed only
when the handler is over and the writer dropped (`Closed`). A Welcome that yields could
not be told from one that waits for its mutex, so `LockWriter` lets only the writes of the
loop yield.

*MultiThreadedTests.* A test is a sequence of phases, a phase a set of concurrent
scripts of the steps that `Client` of `lib.rs` offers. `Turn`, `MidPoll` and
`current` say what `#[tokio::test]` adds: one thread, so a handler that was polled
runs until it must wait. The sleeps of the tests let the server do all it can,
and only one of two seconds or more lets the join timer fire. The assertions of
`run_test` itself are steps too: the signal is sent, `run_server` returns `Ok`, and one
more connection is refused (`Stop`).

*Framing.* `buffer`, `loaded` and the three places `recv` can be: scanning for a
newline, awaiting `read`, or panicked at the assertion. `Read` and `Write` move any
number of bytes the socket allows. `Cancel` is a select! around `recv` that drops
its future. `buffer` keeps what lies behind `loaded`, as `copy_within` does. What
`serde_json` accepts is a set of bodies.

*TerminalClient.* `main` of the process, which blocks in `read_line`, and the task
that prints, over the whole ST server. Any `expect` or `unwrap` may end its task.

### What is abstracted

- Text is identity: a message carries the connection and position of the line it
  came from, so order, loss and duplication can be seen.
- Bytes, outside `Framing`: a line arrives whole, does not parse, or is too long
  (which panics the handler); a message is written in one piece. `Framing` is why
  this is sound: `recv` returns the lines sent, or stops where it should.
- The two seconds of the join timer: it may fire at any moment before a line is
  taken (outside the tests, which depend on it).
- The length of the kernel's accept queue.
- What clients do after the server or their connection is gone, except in
  `TerminalClient`.

## 3. Runs

| run | instance | checks |
|---|---|---|
| `st_chat` | ST: two to four connections, three slots, every kind of line, clients that close or vanish, sockets of one message, writes that yield, accept errors | `TypeOK`, `WithinCapacity`, `Admission`, `UniqueNames`, `GhostsWereBroken`, `RepliesInOrder`, `PairwiseFifo`, `NothingLost`, `DroppedForCause`, `BroadcastReachesHealthy`, `ImplementsRoom` |
| `st_live` | ST: two clients, only one of them reads; shutdown | `SilentClientsExpire`, `RequestsServed`, `ChannelsDrain`, `ShutdownCloses` |
| `mt_chat` | MT: as `st_chat`, handlers in parallel | `TargetsStay`, `OnlyPanicsLeaveEntries`, `Admission`, `RepliesInOrder`, `PairwiseFifo`, `DroppedForCause`, `NobodyStuck`, `ImplementsForum` |
| `framing` | buffer and socket of 4 bytes, 3 lines of 0 to 4 | `TypeOK`, `LinesIntact`, `ImplementsStream`, `ErrorSticks`, `LinesArrive` |
| `terminal` | 2 processes and the ST server, shutdown | `FollowsProtocol`, `MessagesShown`, `QuitLeaves` |
| `tests` | the 25 tests, 4 connections, 3 slots | `TestsPass`, `TestsEnd` |
| `loop_ends_unasked` | 2 connections, 1 slot | **violated** `LoopsUntilSignalled` |
| `st_broadcast` | ST: 3 clients that may vanish | **violated** `BroadcastReachesAll` |
| `mt_names` | MT: 2 clients | **violated** `UniqueNames` |
| `loop_shutdown` | 2 connections, 2 slots | **violated** `ShutdownWaits` |
| `loop_accept_errors` | 2 connections, 1 slot, accept errors, fair | **violated** `AcceptErrorsReturned` |
| `mt_ghosts` | MT: 2 clients, lines that overflow the reader | **violated** `NoGhosts` |

### What the violations show

Three are errors of the code:

1. *A refused client can end the server* (`loop_ends_unasked`). The `?` at ST
   103 / MT 98: a failed "Server is full" write returns from `run_server`. ST 79
   says the loop continues until a shutdown signal.
2. *One vanished client breaks broadcasts for others* (`st_broadcast`). The `?`
   at ST 206 leaves the name of a vanished client in the map; the closed channel
   behind it then ends somebody else's broadcast half way (`?` at ST 231) and
   their connection with it. `messages.rs` 18 promises a broadcast to all.
   `BroadcastReachesHealthy`, in `st_chat`, is the other side: without such a
   ghost a broadcast reaches everyone.
3. *Two clients under one name* (`mt_names`). MT looks a name up under one lock
   acquisition (152), writes the Welcome, and inserts it under another (195): two
   clients that join at once are both welcomed, and the second insertion drops the
   writer of the first. `messages.rs` 4-5 promises an error to the second.

In three the code and its own documentation say different things:

4. *Shutdown does not wait* (`loop_shutdown`). ST 80-81 and MT 81-82 say that it
   "waits for existing client tasks to complete". On the signal the loop breaks and
   `run_server` returns, which drops the `JoinSet` and aborts what is running; the
   test `drop_clients_on_shutdown` (MT `lib.rs` 593-605) expects that. Read
   `ShutdownCloses` beside this: what the code does instead of waiting is close every
   socket, wherever its handler is suspended.
5. *Accept errors are not returned* (`loop_accept_errors`). ST 84-85 say `Err` is
   returned on "errors accepting connections". The pattern `Ok((client, _))` (ST 98)
   drops the error and disables the branch until another branch completes. With no task
   running there is only the shutdown branch, and the server accepts nobody any more.
6. *A panicked handler stays in the map* (`mt_ghosts`). ST 173 and MT 174 say that the
   client is removed "when connection ends". A line that fills the reader's buffer
   panics in `recv` (`reader.rs` 36), past `remove(&name)`: the name stays taken and,
   in MT, the writer and with it the socket stay open. `OnlyPanicsLeaveEntries`, in
   `mt_chat`, is the other side: no other way out leaves an entry.

### What else the models say of the code

- In MT a client that does not read holds up everybody: a handler suspended in a
  write to it keeps the map's read lock, and the first handler that asks for the
  write lock holds up all others. `NobodyStuck` therefore supposes that clients
  read. In ST it holds up nobody but itself (`RequestsServed`).
- A client can be dropped for what others do. In MT when its handler writes to a
  client that is gone, and when another client that was welcomed under the same name
  (finding 3) is inserted in its place or removes the entry on its way out;
  `DroppedForCause` says that there is no other way. In ST when its handler sends to a
  ghost; the property of that name allows it whenever some other client is broken, and
  does not say that the handler wrote to that one.
- In ST an entry of the map outlives its handler when the client vanishes as a
  message is forwarded to it, or quits while one is under way, or when a line overflows
  the reader (`GhostsWereBroken`).
- A finished task counts against `max_clients` until `join_next` returns it, so a
  client can be turned away while a slot is free: `WithinCapacity` says only that one
  too many is never let in.
- At the end of its input the terminal client spins: `read_line` returns `Ok(0)`
  again and again (`EndOfInput`).

### Bounds and why they suffice

Everything at once is out of TLC's reach, and what goes wrong in these servers goes wrong
between two or three clients. `Situations` therefore says what the two big runs are about,
and its state constraint `Bound` goes no further where a situation ends. In all of them a
socket holds one unread message (`OutCap` = 1), so that a client that has not read its
Welcome blocks every further write and a handler is suspended in any message; and a write
of the loop may yield.

- `Pair`: two clients of two lines each: any first line, any second, names shared or not,
  closing, half closing and vanishing at any moment. All races over a name, an
  entry, a lock or a ghost between two parties.
- `Order`: two clients that stay; one sends two requests, or two chat messages, after its
  Join, so that replies and messages have an order to get wrong, the other may broadcast
  in between.
- `Crowd`: three clients, welcomed one at a time under any of three names; two
  broadcast, or one does and another may vanish. A broadcast has two recipients
  here, so it can stop half way, and a third client sees a name change hands.
- `Full`: three silent clients fill the server and a fourth is turned away,
  possibly with a failing write, or after an accept error in `st_chat`.
- In MT (`Tame` in `MCMultiThreaded`) only one of the two clients of `Pair` closes or
  vanishes, and only one sends a line that its handler ends at, the same or
  the other; handlers in parallel make more than that too many states.

What `Bound` identifies is the same to the code: one Broadcast stands for all first lines
that are not a Join (`join_client` does not tell them apart), nothing is sent after such
a line since it would not be read, a second Join repeats the first's name since the code
does not look at it, who dials third and fourth is a matter of naming, and connections
and names that are left are symmetric. `InFlight` = 1: the server takes lines one at a
time, so a longer queue changes only what is already decided.

- `st_live`: two clients with a Join or a Broadcast as either line, one that reads and
  one that need not; no symmetry and no constraint, since it checks liveness.
- `framing`: lines one byte shorter than the buffer with their line end, exactly as
  long, and longer; three of them, so that a line is read behind one that was
  shifted out of the buffer and another waits in the socket. Nothing in the code
  depends on 1024 but the comparison with it.
- `tests`: the crowds of the tests are smaller (their bounds are noted at the
  scripts); a full server is one with three clients.
- Every cfg has `CHECK_DEADLOCK FALSE`: clients may stop, and after the bounded
  number of lines the system is quiet; what must not stop is stated as liveness or,
  for MT, as `NobodyStuck`.

### Fairness

- `LoopFairness` (`loop_accept_errors`): a select! starts polling at a random branch each time, so a
  branch that is ready again and again is taken (strong fairness of each branch);
  an aborted task is polled (weak). Tasks need not finish. Under it the error of
  `accept()` is not merely late: run_server waits, and has not failed.
- `ServingFairness` (`st_live`): the `LocalSet` polls every woken task and the timer
  of tokio fires (weak fairness per handler, timer and abortion). Nothing is
  assumed of clients, except that those in `Attentive` read, and nothing of
  `run_server`, so the results do not lean on it.
- `FairSpec` of `Framing`: the socket takes what it has room for and the caller calls
  `recv` again (weak); the select! around it may drop `recv` again and again, but not
  for ever when there are bytes to read (strong fairness of `Read` and `ReadEnd`).
- `ProcessSpec`: handlers, and the steps of the processes that wait for no user. Nobody
  need type anything.
- `TestSpec`: the runtime runs whatever can run (weak fairness of the whole step).

## 4. Properties

Of the map: `UniqueNames`, `GhostsWereBroken` / `OnlyPanicsLeaveEntries`, and `OwnEntry` (a live
handler is the one its name leads to; so leaving removes one's own entry), which is proved
(`EntriesOwned`); what it is for, that nobody leaves in another's place, `ImplementsRoom`
checks. Of admission: `WithinCapacity`, `Admission` (the first message decides, once; a client told it timed out or was
refused holds no name). Of delivery: `PairwiseFifo`, `NothingLost` (an action
property: whatever is on the way to a served client stays on the way, in order, at
every step), `RepliesInOrder`, `BroadcastReachesHealthy`. Of losing a client: `DroppedForCause`, for MT
an action property about being served, that is, having a handler in its loop *and* a writer
in the map: a step that ends either is one for which there is a cause. Of locks:
`TargetsStay`, `NobodyStuck` (whenever a handler waits, some handler or client
has what it waits for: `NobodyWaitsForNothing`; and then it has a step). Of bytes:
`LinesIntact`, `ErrorSticks`. Of progress: the liveness properties of each module. Each property of a passing run
has a mutant, defined next to the definition it replaces and marked `Mutant`, that
violates it.

The type invariants of the accept loop and of MT are not in a run, since the theorems
`LoopTypeCorrect` and `TypeCorrect` cover every instance. Nor are facts that hold by the way the
models are composed, and that the proofs use as lemmas: that both servers implement
`LoopSpec` (`ImplementsLoop`), and that the kernel's queue and the loop agree on every
connection (`BacklogConsistent`).

Three abstract specifications say what the parts promise, and refinement mappings
show that they keep it. `ChatRoom` knows no tasks, channels or suspended writes: members
under unique names enter, leave and say things to members, each in one step; in
`SingleThreadedProperties` its `inbox` is the pipeline of a client (written, in hand,
in the channel). `LineStream` knows no buffer: bytes grow at one end, whole lines
leave at the other; in `Framing` its bytes are those in the buffer and the socket.

MT does not implement `ChatRoom`: its names are not unique (finding 3), and a broadcast
takes time and may fail half way. What it does implement is `Forum`, which knows no
threads, locks, queues or sockets. A member speaks to everybody under another name, or
to one of them, all found at one moment; it is in debt of its message (`due`) to each
until they are told, each once, in any order, and says nothing else meanwhile; if it
falls, the rest are not told. Nobody enters or leaves while anybody is still to be told
anything (`Settled`), so a message never reaches one who came after it or misses one for
having left. A reply goes to whom the name leads, and a list of users names exactly
those there are when it is written, however long its write was suspended: so the list is
never out of date there, as it may be in ST. In `MultiThreaded`, `Stage` is where the handler
is (in from the insertion of its writer until it asks for the lock to remove it), `Due`
the writers a handler with the read guard has found and not written to, and `inbox` what
was written to a socket.

## 5. Proofs

`AcceptLoopProofs`, assuming only that the connections are finite and
`max_clients` is a natural number:

- `LoopTypeCorrect`, `CapacityHolds`. Types and capacity are inductive together. The
  steps of capacity split in two: `Spawn` adds one task under its guard; no other step
  adds any (`FewerTasks`). The lemma `BacklogHolds` is used further down.

`SingleThreadedProofs`, for any connections, names and bounds:

- `ServerWithinCapacity`, from the loop: every step of the full server is a step of
  the loop or leaves it alone (the lemma `ImplementsLoop`), so what is proved of the loop
  holds of the server.
- `TypeCorrect`: `TypeOK` is not inductive: a broadcast needs a sender and a
  suspended write a message. `NamedOK` adds both: a handler past its join has a name,
  one that is suspended has a write. Lemmas on the four ways a poll ends
  (`ServesTypes`, `EndsTypes`, `LeavesTypes`, `SendsTypes`) carry the cases.
- `EntriesOwned`, `NamesUnique`. `NamesInv` strengthens `OwnEntry`: nothing is written to a
  connection before its Join is answered, so the Welcome always finds room, so no
  handler is ever suspended between looking its name up (ST 141) and inserting it
  (ST 194). It needs `BacklogConsistent` to know that a spawned connection was not written
  to before. Nothing is assumed of suspended writes; that a Welcome with room does not
  yield is in `Sends`, for the reasons given in section 2, and without it two
  handlers could take one name (the mutant `SendsLater`).

`SingleThreadedDeliveryProofs`, on top of these invariants. `PollFrame` says what all polls
of a handler have in common, `Polls` sorts the actions of a handler by how a poll
begins and `SendOutcome` says how a write ends, so each invariant has ten cases instead of
a tree of them:

- `FirstMessageDecides`: `Admission`, by `StoryInv`: nothing is written before the Join is
  answered, the Welcome is first for whoever is in the loop or in the map, and a message in
  hand fits what it will follow. It needs that no channel holds anything but chat messages.
- `GhostsAreBroken`: `GhostsWereBroken`, by `GhostInv`: an entry bears the name of the
  connection it leads to, whose handler is in its loop, or is over and its client broken. A
  client stays broken: it does not come back, and the line that caused a panic is the last
  one taken.
- `DroppedWithCause`: `DroppedForCause`, by `CauseInv`. The cause is there
  from the moment a handler leaves or knows that it will (`Asked`), and stays. The channel of
  a handler in its loop closes only with its entry, so `EntriesOwned` excludes that cause.
- `BroadcastsReach`: `BroadcastReachesHealthy`, since everyone who is served has an entry of the
  map (`OwnEntry`).
- `InOrder`: `PairwiseFifo`, by `FifoInv`. What is on its way to a client, from the channel over
  the message in hand to the socket, moves without being rearranged: a reply is put
  between what was written and the channel, and what an ending handler loses is
  lost from the end. A message is newer than all of its sender's because it bears
  the number of the line it was made of.

`SelectionProofs` is about `OfKind`, which picks the messages of some kinds: what it
makes of a sequence that grows at its end, of a concatenation, and when the requests in
one sequence and the replies in another agree (`Answered`). `OfKind` is a recursive
function, equal to `SelectSeq` with that test (`MCSingleThreaded` has TLC compare the
two), because `SelectSeq` cannot be reasoned about. The proofs are by induction, over
the set of sequences for which the claim holds in place of a predicate (`ByAppending`).

With these lemmas, `SingleThreadedDeliveryProofs` goes on to:

- `MessagesKept`: `NothingLost`. For each way a poll can end, the chat messages on
  their way to each client stay, with at most one more at the end; only an ending
  or aborted handler loses messages, those of the end, and its client is then no
  longer served.
- `ServerIsChatRoom`: `Spec => Room!Spec`. Of the polls of a
  handler only four kinds show in the room: one that inserts the name is `Enter`, one
  that ends the handler `Leave`, a broadcast or direct message that was posted `Say`, and
  everything else a stutter. `QuietInv` adds that nothing is on its way to one that has
  not entered yet, nor in the channel of one that has left. `NamesInv` gives that
  members have a name each of their own.
- `RequestsAnswered`: `RepliesInOrder`, by `ReplyInv`: the lines taken after the Join, and
  what was written with the message in hand, agree at every await: a handler
  takes no line while it has a message in hand.

`TerminalClientProofs`, for any number of processes and any commands:

- `ClientsFollowProtocol`: `FollowsProtocol`, by `TalkInv`, which relates the two ends: a handler
  that waits for the Join has taken nothing (`InStep`), the first line a process says is
  a Join, the only one (`Polite`), and at its prompt it has said it, or found the
  socket closed (`Spoken`), and then the server is not there to answer. The
  steps of the server are those of `SingleThreaded`, whose step lemmas are used again
  (`ServerInv`); a process's are sorted by what they do to the sockets (`ProcessFrame`).

`FramingProofs`, for any bytes, lines, sizes of buffer and socket:

- `TypeCorrect`: `recv` never reads past its buffer. The step that could is `Read`, which
  fills what is left; it needs that a reader that awaits has room.
- `ErrorsStick`: a reader that returned a garbled line has that line at the start of its
  buffer, which no step but taking a line would move; and it is not taken.
- `StreamImplemented`: `Spec => Stream!Spec`. Under the mapping `Write` appends to the
  unread bytes, `ReturnLine` takes the first line off them (`Shift` and `loaded - p`
  together are `Bytes(unread, p + 1, ...)`), and `Read`, which only moves bytes
  from the socket to the buffer, is a stutter.
- `LinesDelivered`: `LinesIntact`, by `LinesInv`. Say where each line ends in the
  stream of all bytes ever sent; then the bytes in the buffer, in the socket and in
  `send` are, one after the other, the lines not yet returned (`Holds`), all of them while
  the writer is there (`Fills`). So the first newline in the buffer is the end of the next line
  (`FirstLine`), and a buffer that is full without one is full of one line
  (`TooLong`). The ends are a function that the proof carries along, because a
  sum over the lines would need induction.

`MultiThreadedProofs`, for any connections, names and bounds:

- `ServerWithinCapacity`: as for ST.
- `TypeCorrect`, by `TypeInv`: a handler past its join has a name, and one that locks
  or writes a job; otherwise a reply could have no message.
- `TargetsKept`: `TargetsStay`, inductive together with the types. Only `RemoveWriter` and
  `InsertWriter` take writers out of the map, and they are granted when no handler has the
  guard; a handler that comes to hold it has just found its writers there.
- `GhostsPanicked`: `OnlyPanicsLeaveEntries`, by `EntriesInv`: an entry bears the name of the handler it leads
  to, and that handler is in its loop, about to remove it, or panicked. The first
  half is what makes `remove(&name)` of one handler leave no other's entry behind.
- `Admitted`, by `StoryInv`: what was written to a client, told by where its handler is:
  nothing before its Join is answered; Welcome first for whoever is inserting, in
  the loop or in the map; and a message in hand that fits what follows it. It needs
  `TargetsStay` to know that handlers write to writers of the map only, and `IdleInv` to
  know that a connection whose handler was not spawned yet is not one of them.

`MultiThreadedDeliveryProofs`, on top of these invariants:

- `InOrder`: `PairwiseFifo`, by `FifoInv`. Nobody has the message of a line that its
  handler has not reacted to; of a broadcast under way, those still on the list do not
  have it; so what is written next is newer than all that is there.
- `RequestsAnswered`: `RepliesInOrder`, by `ReplyInv`. Unless a second client was welcomed
  under the name (`Shared`), the lines a handler is done with and what its client was
  written agree; it is done with all it took, or all but the last while it waits to
  react to that or has the reply to it in hand; and such a reply goes to its own
  client. The last part needs `EntriesInv`: the entry of a name that is not shared leads to
  nobody else. Once shared a name stays shared, because wires only grow and names do
  not change (`SharedStays`), so a second client never makes the claim true again too early.
- `DroppedWithCause`: `DroppedForCause`. A client stops being served in a step of its own handler or
  of another. Its own leaves the loop after its last line, at the end of its stream, or
  after a failed write, which is one to a client that is gone; or because it was told that
  its Join was unexpected, and `KickInv` (with `ReplyInv`, which says that a handler in its loop
  has taken a Join before) has kept since then that this is its last line. Another takes the writer of
  the client out of the map only under its name, and then was welcomed (`EntriesInv`: the entry
  bears the name of both; `StoryInv`: who inserts or removes was welcomed).
- `SomebodyMayGoOn`: no deadlock, `NobodyWaitsForNothing`, by `WaitInv`: the line for the
  map's lock holds exactly the handlers that wait for it, each once (`QueueInv`), and
  handlers between start and end have a running task. The argument goes by what is
  held: a handler suspended in a write waits for the client it writes to, which has something to
  read; if none is, every mutex is free; if none waits for one either, nobody holds a
  read guard and the head of the line is granted whatever it asks for. That the
  guards named in `MayGoOn` are all an action needs is the other half of `NobodyStuck`.

- `ServerIsForum`: `Spec => Forum!Spec`, which is `ImplementsForum`. `FitsInv` says that what
  a handler holds with the read guard fits the map as it is: a reply is for the writer
  its name leads to, a list names the names there are; this lasts because the map does
  not change under a guard. It adds that a client being inserted was told Welcome and
  nothing else. A line that ends the handler is a `GiveUp`, or a `Stop` if it panics; reacting
  to a message with somebody to send it to is `Speak`, and to anything else a stutter; a write in
  the loop is a `Tell`, a `Reply` or an `Expel`, and a `GiveUp` if it fails; before it, a `Greet` or a
  `Refuse`, and a `Stop` if it fails; `InsertWriter` is `Enter` and `RemoveWriter` is `Leave`.
  `TargetsStay` gives `Settled` and that recipients have entered, `FifoInv` that a message is new and that one who was told is off the list.

Only model-checked: liveness, and that half of `NobodyStuck`, which speaks of `ENABLED`
(both out of the prover's reach); and the tests, `TestsPass`, whose scripts fix their
clients and names.

## 6. Not modelled

- Argument parsing, printing and colours, the builders of the runtimes, build
  files: no state that matters to the protocol. `run_server` of `lib.rs` only wraps
  `RunningServer::new`.
- `dm_spam` of the tests: the one test with four worker threads, so that handlers
  run in parallel with the clients, which `Turn` and `MidPoll` rule out. There the
  insertion after a Welcome (MT 195) need not have happened when the other client
  sends its first message, which is then not delivered, and the test would wait for it.
  The other tests are safe from this gap because a handler that wrote a Welcome runs
  on to its next await before the test does.
- The tests of ST: the same scripts; its server is checked through its properties.
- The growth of a channel of ST (193): it is unbounded by design, and the model
  bounds what clients send.
- How old a user list of ST is when it arrives (ST 311): the protocol promises only a
  list of users. (That of MT is true as it is written, by `ImplementsForum`.)

------------------------- MODULE MultiThreadedTests -------------------------
(***************************************************************************)
(* The tests of tokio-talk-mt/src/lib.rs, run against the model of the     *)
(* server.  A test is a script of what its clients do and expect; the      *)
(* server interleaves with it as the current-thread runtime of             *)
(* #[tokio::test] lets it.  (dm_spam, the one test on a multi-thread       *)
(* runtime, is left out: see README.)  Clients and names are numbered; the *)
(* server has MaxClients slots in every test, and the crowds are smaller.  *)
(***************************************************************************)
EXTENDS MultiThreaded

VARIABLES test,     \* the name of the test running
          phase,    \* its phase: a phase is a sequence of concurrent futures
          at,       \* the position of each future in its script
          verdict,
          current   \* the handler polled last, if nothing has run since

testVars == <<test, phase, at, verdict>>
allVars == <<vars, testVars, current>>

-----------------------------------------------------------------------------
(***************************************************************************)
(* Steps of a script: the helpers of the tests' Client.                    *)
(***************************************************************************)
Opens(c) == <<[op |-> "connect", c |-> c]>>
Send(c, line) == <<[op |-> "send", c |-> c, line |-> line]>>
TrySend(c, line) == <<[op |-> "try_send", c |-> c, line |-> line]>>
Recv(c, expected) == <<[op |-> "recv", c |-> c, expected |-> expected]>>
Answer(c) == <<[op |-> "answer", c |-> c]>>
Close(c) == <<[op |-> "close", c |-> c]>>
CheckClosed(c) == <<[op |-> "check_closed", c |-> c]>>
Sleep(ms) == <<[op |-> "sleep", ms |-> ms]>>

To(kind, n) == [kind |-> kind, name |-> n]
Just(kind) == To(kind, NoName)

ExpectError(c, text) == Recv(c, {Error(text)})
ExpectMessage(c, from, d, k) == Recv(c, {Message(from, <<d, k>>)})
JoinAs(c, n) == Send(c, To("Join", n)) \o Recv(c, {Welcome})
PingPong(c) == Send(c, Just("Ping")) \o Recv(c, {Pong})
List(c, users) == Send(c, Just("ListUsers")) \o Recv(c, {UserList(users)})
Dm(c, to) == Send(c, To("SendDM", to))
Cry(c) == Send(c, Just("Broadcast"))
Enter(c, n) == Opens(c) \o JoinAs(c, n)
AnyMessage(c) == Recv(c, Outgoing)

\* run_test: the test, its clients dropped, the signal, the end of the server,
\* and a last connection, which must be refused.
Stop == <<[op |-> "stop"], [op |-> "await"], [op |-> "refused"]>>
RunTest(script) == <<<<script \o <<[op |-> "drop"]>> \o Stop>>>>

\* The same for a test whose clients act concurrently between two parts.
RunTests(before, threads, after) ==
  <<<<before>>, threads, <<after \o <<[op |-> "drop"]>> \o Stop>>>>

-----------------------------------------------------------------------------
(***************************************************************************)
(* The tests.                                                              *)
(***************************************************************************)
empty_server_shuts_down == RunTest(<<>>)

\* opts(2) in the code: two idle clients fill the server.
max_clients ==
  RunTest(Opens(1) \o Opens(2) \o Opens(3) \o Opens(4)
          \o ExpectError(4, "Server is full") \o CheckClosed(4))

max_clients_after_client_leaves ==
  RunTest(Opens(1) \o Opens(2) \o Opens(3) \o Close(3) \o Sleep(500) \o Enter(4, "Foo"))

\* Fifty clients for five slots in the code.
max_clients_herd ==
  LET Guest(c, n) == Opens(c) \o TrySend(c, To("Join", n)) \o Answer(c)
  IN  RunTests(<<>>,
               <<Guest(1, "Foo"), Guest(2, "Bar"), Guest(3, "Baz"), Guest(4, "Qux")>>,
               <<[op |-> "count", errors |-> 4 - MaxClients]>>)

list_users_before_join ==
  RunTest(Opens(1) \o Send(1, Just("ListUsers"))
          \o ExpectError(1, "Unexpected message received"))

join_after_half_sec ==
  RunTest(Opens(1) \o Sleep(500) \o JoinAs(1, "Foo") \o List(1, {"Foo"}))

\* If the late Join cannot be sent, the test asks for nothing more.
join_timeout ==
  RunTest(Opens(1) \o Sleep(3000) \o TrySend(1, To("Join", "Foo"))
          \o ExpectError(1, "Timed out waiting for Join"))

duplicated_join ==
  RunTest(Enter(1, "Foo") \o Send(1, To("Join", "Bar"))
          \o ExpectError(1, "Unexpected message received"))

error_then_disconnect ==
  RunTest(Enter(1, "Foo") \o Send(1, To("Join", "Bar")) \o Close(1) \o Enter(2, "Bar"))

duplicated_username ==
  RunTest(Enter(1, "Foo") \o Opens(2) \o Send(2, To("Join", "Foo"))
          \o ExpectError(2, "Username already taken"))

ping == RunTest(Enter(1, "Foo") \o PingPong(1))

ping_before_join ==
  RunTest(Opens(1) \o Send(1, Just("Ping")) \o ExpectError(1, "Unexpected message received"))

list_users_reconnect ==
  RunTest(Enter(1, "Foo") \o Close(1) \o Enter(2, "Foo") \o List(2, {"Foo"}))

list_users_self == RunTest(Enter(1, "Foo") \o List(1, {"Foo"}))

list_users_ignore_not_joined_users ==
  RunTest(Opens(1) \o Enter(2, "Foo") \o List(2, {"Foo"}))

list_users_after_error ==
  RunTest(Enter(1, "Foo") \o Enter(2, "Bar") \o Send(1, To("Join", "Baz")) \o Sleep(1000)
          \o List(2, {"Bar"}))

list_users ==
  RunTest(Enter(1, "Foo") \o Enter(2, "Bar") \o List(2, {"Foo", "Bar"}) \o Close(2)
          \o Sleep(1000) \o List(1, {"Foo"}))

dm_nonexistent_user ==
  RunTest(Enter(1, "Foo") \o Dm(1, "Bar") \o ExpectError(1, "User does not exist"))

dm_self ==
  RunTest(Enter(1, "Foo") \o Dm(1, "Foo") \o ExpectError(1, "Cannot send a DM to yourself"))

dm_other ==
  RunTest(Enter(1, "Foo") \o Enter(2, "Bar") \o Dm(1, "Bar") \o ExpectMessage(2, "Foo", 1, 2))

\* Ten thousand messages each way in the code, two here.
dm_spam_2 ==
  LET spam == Recv(2, {Pong, Message("Foo", <<1, 2>>), Message("Foo", <<1, 3>>)})
      angry == Send(2, Just("Ping")) \o spam
  IN  RunTests(Enter(1, "Foo") \o Enter(2, "Bar"),
               <<Dm(1, "Bar") \o Dm(1, "Bar") \o Close(1),
                 angry \o angry \o spam \o spam \o Close(2)>>,
               <<>>)

broadcast_empty == RunTest(Enter(1, "Foo") \o Cry(1) \o PingPong(1))

\* Five other users in the code.
broadcast ==
  RunTests(Enter(1, "Foo"),
           <<Enter(2, "Bar"), Enter(3, "Baz")>>,
           Cry(1) \o PingPong(1)
             \o ExpectMessage(2, "Foo", 1, 2) \o ExpectMessage(3, "Foo", 1, 2))

\* Fewer rounds than in the code.
message_timeout_receiving_dms ==
  RunTest(Enter(1, "Foo") \o Enter(2, "Bar")
          \o Sleep(1500) \o Dm(2, "Foo") \o AnyMessage(1)
          \o Sleep(2000) \o Cry(2) \o AnyMessage(1)
          \o Sleep(2000) \o PingPong(1))

drop_clients_on_shutdown ==
  <<<<Enter(1, "Foo") \o Enter(2, "Bar") \o Stop \o CheckClosed(1) \o CheckClosed(2)>>>>

Scripts ==
  [empty_server_shuts_down |-> empty_server_shuts_down,
   max_clients |-> max_clients,
   max_clients_after_client_leaves |-> max_clients_after_client_leaves,
   max_clients_herd |-> max_clients_herd,
   list_users_before_join |-> list_users_before_join,
   join_after_half_sec |-> join_after_half_sec,
   join_timeout |-> join_timeout,
   duplicated_join |-> duplicated_join,
   error_then_disconnect |-> error_then_disconnect,
   duplicated_username |-> duplicated_username,
   ping |-> ping,
   ping_before_join |-> ping_before_join,
   list_users_reconnect |-> list_users_reconnect,
   list_users_self |-> list_users_self,
   list_users_ignore_not_joined_users |-> list_users_ignore_not_joined_users,
   list_users_after_error |-> list_users_after_error,
   list_users |-> list_users,
   dm_nonexistent_user |-> dm_nonexistent_user,
   dm_self |-> dm_self,
   dm_other |-> dm_other,
   dm_spam_2 |-> dm_spam_2,
   broadcast_empty |-> broadcast_empty,
   broadcast |-> broadcast,
   message_timeout_receiving_dms |-> message_timeout_receiving_dms,
   drop_clients_on_shutdown |-> drop_clients_on_shutdown]

-----------------------------------------------------------------------------
(***************************************************************************)
(* Running a script.                                                       *)
(***************************************************************************)
Futures == DOMAIN Scripts[test][phase]
Done(f) == at[f] > Len(Scripts[test][phase][f])
Step(f) == Scripts[test][phase][f][at[f]]

\* A handler goes on until it has to wait.  (In its loop it may yield before
\* that, when the budget of its task is used up.)
MidPoll == current # NoConn /\ pc[current] # "serving" /\ ENABLED Handler(current)

\* Future f of the test is polled at a step named op, done once this is over.
Does(f, op) ==
  /\ verdict = "running" /\ ~MidPoll
  /\ ~Done(f)
  /\ Step(f).op = op
  /\ at' = [at EXCEPT ![f] = @ + 1]
  /\ current' = NoConn
  /\ UNCHANGED <<test, phase, handlerVars>>

Passes == verdict' = "running"

\* An assertion of the test fails, or something it unwraps is an Err.
Fails == verdict' = "failed" /\ UNCHANGED <<loopVars, socketVars>>

DoesConnect(f) ==
  /\ Does(f, "connect")
  /\ Dial(Step(f).c)
  /\ Passes

\* A message to a socket the server has closed may still be accepted.
DoesSend(f) ==
  LET c == Step(f).c IN
  /\ Does(f, "send") \/ Does(f, "try_send")
  /\ \/ ClientSends(c, Step(f).line) /\ UNCHANGED loopVars /\ Passes
     \/ Closed(c) /\ Step(f).op = "send" /\ Fails
     \/ /\ Closed(c) /\ Step(f).op = "try_send" /\ Passes
        /\ UNCHANGED <<loopVars, socketVars>>

Unread(c) == seen[c] < Len(wire[c])
Reads(c) ==
  /\ seen' = [seen EXCEPT ![c] = @ + 1]
  /\ UNCHANGED <<loopVars, peer, sent, taken, wire>>

DoesRecv(f) ==
  LET c == Step(f).c IN
  /\ Does(f, "recv")
  /\ \/ Unread(c) /\ wire[c][seen[c] + 1] \in Step(f).expected /\ Reads(c) /\ Passes
     \/ Unread(c) /\ wire[c][seen[c] + 1] \notin Step(f).expected /\ Fails
     \/ ~Unread(c) /\ StreamOver(c) /\ Fails

\* A guest of max_clients_herd keeps its connection if it is welcomed, drops
\* it if it is told an error, and panics at anything else.
DoesAnswer(f) ==
  LET c == Step(f).c IN
  /\ Does(f, "answer")
  /\ \/ /\ Unread(c) /\ (Welcomed(c) \/ Head(wire[c]).kind = "Error") /\ Passes
        /\ peer' = [peer EXCEPT ![c] = IF Welcomed(c) THEN "open" ELSE "gone"]
        /\ seen' = [seen EXCEPT ![c] = @ + 1]
        /\ UNCHANGED <<loopVars, sent, taken, wire>>
     \/ Unread(c) /\ ~Welcomed(c) /\ Head(wire[c]).kind # "Error" /\ Fails
     \/ ~Unread(c) /\ StreamOver(c) /\ Fails

DoesCheckClosed(f) ==
  LET c == Step(f).c IN
  /\ Does(f, "check_closed")
  /\ \/ ~Unread(c) /\ StreamOver(c) /\ Passes /\ UNCHANGED <<loopVars, socketVars>>
     \/ Unread(c) /\ Fails

\* The writer is shut down and the reader dropped with it.
DoesClose(f) ==
  /\ Does(f, "close") \/ Does(f, "drop")
  /\ peer' = [c \in Conns |-> IF peer[c] # "away" /\ (Step(f).op = "drop" \/ Step(f).c = c)
                              THEN "gone" ELSE peer[c]]
  /\ Passes
  /\ UNCHANGED <<loopVars, sent, taken, wire, seen>>

DoesCount(f) ==
  /\ Does(f, "count")
  /\ verdict' = IF Cardinality({c \in Conns : ~Welcomed(c)}) = Step(f).errors
                THEN "running" ELSE "failed"
  /\ UNCHANGED <<loopVars, socketVars>>

\* server.tx.send(()).unwrap()
DoesStop(f) ==
  /\ Does(f, "stop")
  /\ \/ SendSignal /\ Passes /\ UNCHANGED socketVars
     \/ Down /\ Fails

\* server_fut.await.unwrap().unwrap()
DoesAwait(f) ==
  /\ Does(f, "await")
  /\ \/ server = "stopped" /\ Passes /\ UNCHANGED <<loopVars, socketVars>>
     \/ server = "failed" /\ Fails

\* TcpStream::connect(..).expect_err(..): no listener has the port any more.
DoesRefused(f) ==
  /\ Does(f, "refused")
  /\ \/ Down /\ Passes /\ UNCHANGED <<loopVars, socketVars>>
     \/ ~Down /\ Fails

NextPhase ==
  /\ verdict = "running" /\ ~MidPoll
  /\ \A f \in Futures : Done(f)
  /\ \/ /\ phase < Len(Scripts[test])
        /\ phase' = phase + 1
        /\ at' = [f \in DOMAIN Scripts[test][phase'] |-> 1]
        /\ UNCHANGED verdict
     \/ /\ phase = Len(Scripts[test])
        /\ verdict' = "passed"
        /\ UNCHANGED <<phase, at>>
  /\ current' = NoConn
  /\ UNCHANGED <<test, vars>>

-----------------------------------------------------------------------------
(***************************************************************************)
(* The server under test.                                                  *)
(***************************************************************************)

\* The run queue is first come, first served: the handler of a client that
\* is gone was woken before that of a client that joined later.
Turn(c) ==
  pc[c] = "joining" /\ peer[c] # "gone" =>
    \A d \in Conns \ {c} : ~(peer[d] = "gone" /\ pc[d] \in {"joining", "serving"})

Poll(c) ==
  /\ MidPoll => current = c
  /\ Turn(c)
  /\ Handler(c)
  /\ current' = c

Accepts == (\E c \in Conns : SpawnHandler(c) \/ TurnAway(c) \/ CancelHandler(c))
Selects == (Break \/ \E c \in Conns : Reap(c)) /\ UNCHANGED <<socketVars, handlerVars>>
RunServer == ~MidPoll /\ (Accepts \/ Selects) /\ current' = NoConn

Runtime == RunServer \/ \E c \in Conns : Poll(c)

\* The test is in a sleep of at least ms milliseconds.
Sleeping(ms) ==
  \E f \in Futures : ~Done(f) /\ Step(f).op = "sleep" /\ Step(f).ms >= ms

\* The two seconds pass in long sleeps and nowhere else.
Expire(c) ==
  /\ ~MidPoll
  /\ Sleeping(2000)
  /\ JoinTimeout(c)
  /\ current' = c

\* While the test sleeps the server does all it can.
DoesSleep(f) ==
  /\ Does(f, "sleep")
  /\ ~ENABLED Runtime
  /\ Step(f).ms >= 2000 => \A c \in Conns : pc[c] # "joining"
  /\ Passes
  /\ UNCHANGED <<loopVars, socketVars>>

\* Clients send what their scripts say, and nothing of their own.
Scripted == [c \in Conns |-> [k \in 1..MaxSends |-> {}]]

TestInit ==
  /\ Init
  /\ test \in DOMAIN Scripts
  /\ phase = 1
  /\ at = [f \in DOMAIN Scripts[test][1] |-> 1]
  /\ verdict = "running"
  /\ current = NoConn

TestNext ==
  \/ Runtime /\ UNCHANGED testVars
  \/ \E c \in Conns : Expire(c) /\ UNCHANGED testVars
  \/ NextPhase
  \/ \E f \in Futures :
       \/ DoesConnect(f) \/ DoesSend(f) \/ DoesRecv(f) \/ DoesAnswer(f)
       \/ DoesCheckClosed(f) \/ DoesClose(f) \/ DoesCount(f)
       \/ DoesStop(f) \/ DoesAwait(f) \/ DoesRefused(f) \/ DoesSleep(f)

\* No behaviour is infinite: the runtime runs whatever can run.
TestSpec == TestInit /\ [][TestNext]_allVars /\ WF_allVars(TestNext)

-----------------------------------------------------------------------------
\* No assertion of the test-suite fails, in any order of events.
TestsPass == verdict # "failed"

\* No test hangs: every future gets its answer, and the server stops.
TestsEnd == <>(verdict = "passed")
=============================================================================

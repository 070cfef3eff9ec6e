--------------------------- MODULE ServerLifecycle ---------------------------
(***************************************************************************)
(* From main to the end of the process: the start and the stop of PServer  *)
(* (main.cpp, server.cpp), its three threads, and the signals that stop it *)
(* (psignal.cpp).                                                          *)
(*                                                                         *)
(* A signal interrupts any live thread, which does not go on before the    *)
(* handler returns; while a handler runs, its signal is blocked on that    *)
(* thread and on no other.  What the threads do between two tests of       *)
(* IsRunning is one step, of any duration.                                 *)
(***************************************************************************)
EXTENDS Integers, Sequences

CONSTANT NumSignals  \* bound: signals sent

ASSUME ConstantsAssumption == NumSignals \in Nat

Thread == <<"PackDeal", "Timer", "SignalDeal">>  \* m_thread, in the order of Init
THREAD_NUM == 3

Signal == {"SIGINT", "SIGTERM"}  \* two of the five that SignalHandler handles

\* The calls of sigaction.  The condition of Regist's loop is true of every
\* signal, so all are ignored first, also those that then get the handler.
RegistCalls ==
  <<[signal |-> "SIGINT",  action |-> "ignore"],
    [signal |-> "SIGTERM", action |-> "ignore"],
    [signal |-> "SIGINT",  action |-> "handler"],
    [signal |-> "SIGTERM", action |-> "handler"]>>

VARIABLES
  main,         \* where main() is
  i,            \* the thread it creates or joins next
  thread,       \* where the threads are
  server,       \* *pServer: "none", "alive" or "deleted"
  g_pServer,    \* whether the handler finds it
  m_isRunning,
  action,       \* of each signal: "default", "ignore" or "handler"
  calls,        \* what Regist has still to call
  handler,      \* of each signal: where its handler is, and on which thread
  sent,         \* the number of signals sent
  process       \* "up", "exited" or "killed"

served == <<server, g_pServer, m_isRunning>>
signals == <<action, handler, sent>>
vars == <<main, i, thread, served, signals, calls, process>>

Live(t) == IF t = 0 THEN TRUE ELSE thread[t] \notin {"none", "ended"}
Idle == [at |-> "idle", on |-> 0]

\* Thread t, 0 for main, is free to go on.
Free(t) ==
  /\ process = "up"
  /\ \A s \in Signal : handler[s].at # "idle" => handler[s].on # t

-----------------------------------------------------------------------------
(* main, PServer::Init, Run and Join.                                      *)

Goto(pc) == main' = pc

\* The configuration and the database, whose failure ends main.
Configure ==
  /\ Free(0) /\ main = "configure"
  /\ \/ Goto("create") /\ UNCHANGED process
     \/ process' = "exited" /\ UNCHANGED main
  /\ UNCHANGED <<i, thread, served, signals, calls>>

\* new PServer
Create ==
  /\ Free(0) /\ main = "create"
  /\ server' = "alive" /\ m_isRunning' = TRUE
  /\ i' = 1 /\ Goto("spawn")
  /\ UNCHANGED <<thread, g_pServer, signals, calls, process>>

\* The threads are created one by one before the sockets.
AllDone_TooLate == i > THREAD_NUM
AllDone == i = THREAD_NUM
Spawn ==
  /\ Free(0) /\ main = "spawn"
  /\ thread' = [thread EXCEPT ![i] =
                  IF Thread[i] = "SignalDeal" THEN "regist" ELSE "test"]
  /\ IF AllDone THEN Goto("init") /\ UNCHANGED i
                ELSE i' = i + 1 /\ UNCHANGED main
  /\ UNCHANGED <<served, signals, calls, process>>

\* SocketServer::Init and Bind; g_pServer is set when both have succeeded.
InitSockets ==
  /\ Free(0) /\ main = "init"
  /\ Goto("publish") \/ Goto("delete")
  /\ UNCHANGED <<i, thread, served, signals, calls, process>>

Publish ==
  /\ Free(0) /\ main = "publish"
  /\ g_pServer' = TRUE /\ Goto("run")
  /\ UNCHANGED <<i, thread, server, m_isRunning, signals, calls, process>>

\* while (IsRunning()) DespatchEvent
Run ==
  /\ Free(0) /\ main = "run"
  /\ IF m_isRunning THEN Goto("despatch") /\ UNCHANGED i
                    ELSE Goto("join") /\ i' = 1
  /\ UNCHANGED <<thread, served, signals, calls, process>>

DespatchEvent ==
  /\ Free(0) /\ main = "despatch"
  /\ Goto("run")
  /\ UNCHANGED <<i, thread, served, signals, calls, process>>

\* join waits for the end of the thread.
Joinable_Started == thread[i] # "none"
Joinable == thread[i] = "ended"
Join ==
  /\ Free(0) /\ main = "join"
  /\ Joinable
  /\ IF i = THREAD_NUM THEN Goto("delete") /\ UNCHANGED i
                       ELSE i' = i + 1 /\ UNCHANGED main
  /\ UNCHANGED <<thread, served, signals, calls, process>>

\* delete pServer, which leaves g_pServer as it is.
Delete ==
  /\ Free(0) /\ main = "delete"
  /\ server' = "deleted" /\ Goto("return")
  /\ UNCHANGED <<i, thread, g_pServer, m_isRunning, signals, calls, process>>

\* The end of main ends the process and every thread.
Return ==
  /\ Free(0) /\ main = "return"
  /\ process' = "exited"
  /\ UNCHANGED <<main, i, thread, served, signals, calls>>

MainStep ==
  \/ Configure \/ Create \/ Spawn \/ InitSockets \/ Publish
  \/ Run \/ DespatchEvent \/ Join \/ Delete \/ Return

-----------------------------------------------------------------------------
(* The threads: PackDeal, Timer and SignalDeal.                            *)

At(t, pc) == Free(t) /\ t \in DOMAIN thread /\ thread[t] = pc
Enter(t, pc) == thread' = [thread EXCEPT ![t] = pc]

\* while (IsRunning()), which may say anything when the server is deleted.
AfterTest_Timer(t, running) ==
  IF running \/ Thread[t] = "Timer" THEN "work" ELSE "ended"
AfterTest(t, running) == IF running THEN "work" ELSE "ended"
Test(t) ==
  /\ At(t, "test")
  /\ \E running \in IF server = "deleted" THEN BOOLEAN ELSE {m_isRunning} :
       Enter(t, AfterTest(t, running))
  /\ UNCHANGED <<main, i, served, signals, calls, process>>

\* A message is dealt with, or the thread sleeps.
Work(t) ==
  /\ At(t, "work")
  /\ Enter(t, "test")
  /\ UNCHANGED <<main, i, served, signals, calls, process>>

\* SignalDeal first registers the actions of the signals, call by call.
Regist(t) ==
  /\ At(t, "regist")
  /\ \/ /\ calls # <<>>
        /\ action' = [action EXCEPT ![Head(calls).signal] = Head(calls).action]
        /\ calls' = Tail(calls)
        /\ UNCHANGED thread
     \/ calls = <<>> /\ Enter(t, "test") /\ UNCHANGED <<action, calls>>
  /\ UNCHANGED <<main, i, served, handler, sent, process>>

ThreadStep(t) == Test(t) \/ Work(t) \/ Regist(t)

-----------------------------------------------------------------------------
(* Signals.                                                                *)

\* The threads a signal may be delivered to: it is blocked on the one that runs
\* its handler.
Takes(s) == {t \in 0..THREAD_NUM : Live(t) /\ (handler[s] # Idle => handler[s].on # t)}

\* A signal is delivered to a thread.  SA_ONESHOT resets its action, so a second
\* one that another thread takes while the handler runs ends the process.
Deliver(s) ==
  /\ process = "up" /\ sent < NumSignals /\ Takes(s) # {}
  /\ sent' = sent + 1
  /\ \/ /\ action[s] = "default"
        /\ process' = "killed"
        /\ UNCHANGED <<action, handler>>
     \/ /\ action[s] = "ignore"
        /\ UNCHANGED <<action, handler, process>>
     \/ /\ action[s] = "handler"
        /\ \E t \in Takes(s) :
             handler' = [handler EXCEPT ![s] = [at |-> "test", on |-> t]]
        /\ action' = [action EXCEPT ![s] = "default"]
        /\ UNCHANGED process
  /\ UNCHANGED <<main, i, thread, served, calls>>

\* SignalHandler: stops the server if there is one.
HandlerTest(s) ==
  /\ process = "up" /\ handler[s].at = "test"
  /\ handler' = [handler EXCEPT ![s] =
                   IF g_pServer THEN [@ EXCEPT !.at = "stop"] ELSE Idle]
  /\ UNCHANGED <<main, i, thread, served, action, sent, calls, process>>

Stop(s) ==
  /\ process = "up" /\ handler[s].at = "stop"
  /\ m_isRunning' = FALSE
  /\ handler' = [handler EXCEPT ![s] = Idle]
  /\ UNCHANGED <<main, i, thread, server, g_pServer, action, sent, calls, process>>

-----------------------------------------------------------------------------
Init ==
  /\ main = "configure" /\ i = 1
  /\ thread = [t \in 1..THREAD_NUM |-> "none"]
  /\ server = "none" /\ g_pServer = FALSE /\ m_isRunning = TRUE
  /\ action = [s \in Signal |-> "default"] /\ calls = RegistCalls
  /\ handler = [s \in Signal |-> Idle]
  /\ sent = 0 /\ process = "up"

Next ==
  \/ MainStep
  \/ \E t \in 1..THREAD_NUM : ThreadStep(t)
  \/ \E s \in Signal : Deliver(s) \/ HandlerTest(s) \/ Stop(s)

Spec == Init /\ [][Next]_vars

\* The operating system runs every thread and every handler; epoll_wait and
\* sleep have timeouts.  Nobody has to send a signal.
FairSpec ==
  /\ Spec
  /\ WF_vars(MainStep)
  /\ \A t \in 1..THREAD_NUM : WF_vars(ThreadStep(t))
  /\ \A s \in Signal : WF_vars(HandlerTest(s) \/ Stop(s))

-----------------------------------------------------------------------------
TypeOK ==
  /\ main \in {"configure", "create", "spawn", "init", "publish", "run",
              "despatch", "join", "delete", "return"}
  /\ i \in 1..THREAD_NUM
  /\ thread \in [1..THREAD_NUM -> {"none", "regist", "test", "work", "ended"}]
  /\ server \in {"none", "alive", "deleted"}
  /\ g_pServer \in BOOLEAN /\ m_isRunning \in BOOLEAN
  /\ action \in [Signal -> {"default", "ignore", "handler"}]
  /\ handler \in [Signal -> [at: {"idle", "test", "stop"}, on: 0..THREAD_NUM]]
  /\ calls \in Seq([signal: Signal, action: {"ignore", "handler"}])
  /\ sent \in 0..NumSignals
  /\ process \in {"up", "exited", "killed"}

\* A server that has run is deleted when all its threads have ended: none of
\* them reads m_isRunning, the queue or the sockets of a deleted server.
RunEndsAlone ==
  server = "deleted" /\ g_pServer => \A t \in 1..THREAD_NUM : thread[t] = "ended"

\* Once g_pServer is set, a handler ends the process: it stops the server, every
\* loop sees it, and main joins every thread, also the one that the handler
\* interrupted, which may be main itself.
HandlerEndsProcess ==
  \A s \in Signal : g_pServer /\ handler[s].at = "test" ~> process # "up"

-----------------------------------------------------------------------------
(* What readme.txt says and the code does not do.                          *)

\* readme.txt: the main thread waits for the end of all threads and then stops
\* the server.  When SocketServer::Init or Bind fails it does not wait.
ServerOutlivesThreads ==
  server = "deleted" => \A t \in 1..THREAD_NUM : thread[t] \in {"none", "ended"}

\* readme.txt: on a termination signal all threads are told to end.  When the
\* handler runs before g_pServer is set, nobody is told, and it runs only once.
SignalEndsServer == \A s \in Signal : handler[s].at = "test" ~> process # "up"
=============================================================================

------------------------ MODULE ServerLifecycleProofs ------------------------
(***************************************************************************)
(* Proofs about ServerLifecycle.tla, for any number of signals: a server   *)
(* that has run is deleted after the end of its last thread.               *)
(***************************************************************************)
EXTENDS ServerLifecycle, SequenceTheorems, TLAPS

\* The threads that main has joined have ended, all of them when it is past
\* the join; a server that failed to start is never published.
Joined(n) == \A t \in 1..THREAD_NUM : t < n => thread[t] = "ended"

IInv ==
  /\ TypeOK
  /\ server = "deleted" => main = "return"
  /\ g_pServer => main \in {"run", "despatch", "join", "delete", "return"}
  /\ main = "join" => Joined(i)
  /\ g_pServer /\ main \in {"delete", "return"} => Joined(THREAD_NUM + 1)

\* Initially nothing was created.
LEMMA IInvInit == Init => IInv
<1> SUFFICES ASSUME Init PROVE IInv
  OBVIOUS
<1>1. RegistCalls \in Seq([signal: Signal, action: {"ignore", "handler"}])
  BY DEF RegistCalls, Signal
<1>2. Idle \in [at: {"idle", "test", "stop"}, on: 0..THREAD_NUM] /\ 1 \in 1..THREAD_NUM
  BY DEF Idle, THREAD_NUM
<1>3. 0 \in 0..NumSignals
  BY ConstantsAssumption
<1>4. TypeOK
  BY <1>1, <1>2, <1>3 DEF Init, TypeOK
<1> QED BY <1>4 DEF Init, IInv

-----------------------------------------------------------------------------
(* One lemma per process: main, a thread, a signal.                        *)

\* main goes from one join to the next when the thread has ended.
LEMMA MainKeeps == ASSUME IInv, MainStep PROVE IInv'
<1>1. CASE Configure
  BY <1>1 DEF Configure, Goto, IInv, TypeOK, Joined, served, signals
<1>2. CASE Create
  BY <1>2 DEF Create, Goto, IInv, TypeOK, Joined, signals, THREAD_NUM
<1>3. CASE Spawn
  <2>1. thread' \in [1..THREAD_NUM -> {"none", "regist", "test", "work", "ended"}]
    BY <1>3 DEF Spawn, IInv, TypeOK
  <2>2. i' \in 1..THREAD_NUM
    BY <1>3 DEF Spawn, AllDone, IInv, TypeOK, THREAD_NUM
  <2>3. TypeOK'
    BY <1>3, <2>1, <2>2 DEF Spawn, Goto, IInv, TypeOK, served, signals
  <2> QED BY <1>3, <2>3 DEF Spawn, Goto, IInv, Joined, served
<1>4. CASE InitSockets
  BY <1>4 DEF InitSockets, Goto, IInv, TypeOK, Joined, served, signals
<1>5. CASE Publish
  BY <1>5 DEF Publish, Goto, IInv, TypeOK, Joined, signals
<1>6. CASE Run
  <2>1. TypeOK'
    BY <1>6 DEF Run, Goto, IInv, TypeOK, served, signals, THREAD_NUM
  <2>2. Joined(1)
    BY DEF Joined, THREAD_NUM
  <2> QED BY <1>6, <2>1, <2>2 DEF Run, Goto, IInv, Joined, served
<1>7. CASE DespatchEvent
  BY <1>7 DEF DespatchEvent, Goto, IInv, TypeOK, Joined, served, signals
<1>8. CASE Join
  <2>1. /\ main = "join" /\ thread[i] = "ended" /\ Joined(i) /\ i \in 1..THREAD_NUM
        /\ UNCHANGED <<thread, served>>
    BY <1>8 DEF Join, Joinable, IInv, TypeOK
  <2>2. Joined(i + 1)
    BY <2>1 DEF Joined, THREAD_NUM
  <2>3. TypeOK'
    BY <1>8, <2>1 DEF Join, Goto, IInv, TypeOK, served, signals, THREAD_NUM
  <2>4. CASE i = THREAD_NUM
    BY <1>8, <2>1, <2>2, <2>3, <2>4 DEF Join, Goto, IInv, Joined, served
  <2>5. CASE i # THREAD_NUM
    BY <1>8, <2>1, <2>2, <2>3, <2>5 DEF Join, IInv, Joined, served
  <2> QED BY <2>4, <2>5
<1>9. CASE Delete
  BY <1>9 DEF Delete, Goto, IInv, TypeOK, Joined, signals
<1>10. CASE Return
  BY <1>10 DEF Return, IInv, TypeOK, Joined, served, signals
<1> QED BY <1>1, <1>2, <1>3, <1>4, <1>5, <1>6, <1>7, <1>8, <1>9, <1>10 DEF MainStep

\* A thread that has ended takes no step.
LEMMA ThreadKeeps ==
  ASSUME IInv, NEW t \in 1..THREAD_NUM, ThreadStep(t)
  PROVE  IInv'
<1>1. /\ thread[t] # "ended"
      /\ UNCHANGED <<main, i, served, handler, sent, process>>
  BY DEF ThreadStep, Test, Work, Regist, At, served, signals
<1>2. \E pc \in {"regist", "test", "work", "ended"} :
        thread' = [thread EXCEPT ![t] = pc]
  <2>1. CASE Test(t)
    BY <2>1 DEF Test, Enter, AfterTest
  <2>2. CASE Work(t)
    BY <2>2 DEF Work, Enter
  <2>3. CASE Regist(t)
    <3>1. thread' = thread \/ thread' = [thread EXCEPT ![t] = "test"]
      BY <2>3 DEF Regist, Enter
    <3>2. thread[t] = "regist" /\ thread = [thread EXCEPT ![t] = "regist"]
      BY <2>3 DEF Regist, At, IInv, TypeOK
    <3> QED BY <3>1, <3>2
  <2> QED BY <2>1, <2>2, <2>3 DEF ThreadStep
<1>3. /\ action' \in [Signal -> {"default", "ignore", "handler"}]
      /\ calls' \in Seq([signal: Signal, action: {"ignore", "handler"}])
  <2>1. CASE UNCHANGED <<action, calls>>
    BY <2>1 DEF IInv, TypeOK
  <2>2. CASE /\ calls # <<>>
             /\ action' = [action EXCEPT ![Head(calls).signal] = Head(calls).action]
             /\ calls' = Tail(calls)
    <3>1. calls \in Seq([signal: Signal, action: {"ignore", "handler"}])
      BY DEF IInv, TypeOK
    <3>2. /\ Head(calls) \in [signal: Signal, action: {"ignore", "handler"}]
          /\ calls' \in Seq([signal: Signal, action: {"ignore", "handler"}])
      BY <2>2, <3>1, HeadTailProperties
    <3> QED BY <2>2, <3>2 DEF IInv, TypeOK
  <2> QED BY <2>1, <2>2 DEF ThreadStep, Test, Work, Regist, signals
<1>4. TypeOK'
  BY <1>1, <1>2, <1>3 DEF IInv, TypeOK, served
<1>5. \A u \in 1..THREAD_NUM : thread[u] = "ended" => thread'[u] = "ended"
  BY <1>1, <1>2 DEF IInv, TypeOK
<1>6. \A n : Joined(n) => (\A u \in 1..THREAD_NUM : u < n => thread'[u] = "ended")
  BY <1>5 DEF Joined
<1> QED BY <1>1, <1>4, <1>6 DEF IInv, Joined, served

\* A signal touches neither main nor the threads.
LEMMA SignalKeeps ==
  ASSUME IInv, NEW s \in Signal, Deliver(s) \/ HandlerTest(s) \/ Stop(s)
  PROVE  IInv'
<1>1. UNCHANGED <<main, i, thread, server, g_pServer, calls>>
  BY DEF Deliver, HandlerTest, Stop, served
<1>2. m_isRunning' \in BOOLEAN /\ process' \in {"up", "exited", "killed"}
  BY DEF Deliver, HandlerTest, Stop, served, IInv, TypeOK
<1>3. sent' \in 0..NumSignals
  BY ConstantsAssumption DEF Deliver, HandlerTest, Stop, IInv, TypeOK
<1>4. action' \in [Signal -> {"default", "ignore", "handler"}]
  BY DEF Deliver, HandlerTest, Stop, IInv, TypeOK
<1>5. handler' \in [Signal -> [at: {"idle", "test", "stop"}, on: 0..THREAD_NUM]]
  <2> DEFINE H == [at: {"idle", "test", "stop"}, on: 0..THREAD_NUM]
  <2> SUFFICES handler' \in [Signal -> H]
    OBVIOUS
  <2>1. handler \in [Signal -> H] /\ Idle \in H
    BY DEF IInv, TypeOK, Idle, THREAD_NUM
  <2>2. CASE Deliver(s)
    <3>1. ASSUME NEW t \in 0..THREAD_NUM PROVE [at |-> "test", on |-> t] \in H
      BY <3>1
    <3>2. \/ handler' = handler
          \/ \E t \in 0..THREAD_NUM :
               handler' = [handler EXCEPT ![s] = [at |-> "test", on |-> t]]
      BY <2>2 DEF Deliver, Takes
    <3> HIDE DEF H
    <3> QED BY <2>1, <3>1, <3>2
  <2>3. CASE HandlerTest(s)
    <3>1. [handler[s] EXCEPT !.at = "stop"] \in H
      BY <2>1
    <3>2. \/ handler' = [handler EXCEPT ![s] = [handler[s] EXCEPT !.at = "stop"]]
          \/ handler' = [handler EXCEPT ![s] = Idle]
      BY <2>1, <2>3 DEF HandlerTest
    <3> HIDE DEF H
    <3> QED BY <2>1, <3>1, <3>2
  <2>4. CASE Stop(s)
    BY <2>1, <2>4 DEF Stop
  <2> QED BY <2>2, <2>3, <2>4
<1>6. TypeOK'
  BY <1>1, <1>2, <1>3, <1>4, <1>5 DEF IInv, TypeOK
<1> QED BY <1>1, <1>6 DEF IInv, Joined

LEMMA IInvNext == IInv /\ [Next]_vars => IInv'
<1> SUFFICES ASSUME IInv, [Next]_vars PROVE IInv'
  OBVIOUS
<1>1. CASE UNCHANGED vars
  BY <1>1 DEF vars, served, signals, IInv, TypeOK, Joined
<1> QED BY <1>1, MainKeeps, ThreadKeeps, SignalKeeps DEF Next

-----------------------------------------------------------------------------
(* The theorems.                                                           *)

\* Positions of main, the threads and the handlers keep their ranges, and main's
\* loops over the threads stay within the array.
THEOREM TypeCorrect == Spec => []TypeOK
<1>1. IInv => TypeOK
  BY DEF IInv
<1> QED BY <1>1, IInvInit, IInvNext, PTL DEF Spec

\* A server that has run is deleted when all its threads have ended.
THEOREM DeletedAlone == Spec => []RunEndsAlone
<1>1. IInv => RunEndsAlone
  <2> SUFFICES ASSUME IInv, server = "deleted", g_pServer
               PROVE  \A t \in 1..THREAD_NUM : thread[t] = "ended"
    BY DEF RunEndsAlone
  <2>1. Joined(THREAD_NUM + 1)
    BY DEF IInv
  <2> QED BY <2>1 DEF Joined, THREAD_NUM
<1> QED BY <1>1, IInvInit, IInvNext, PTL DEF Spec
=============================================================================

--------------------------- MODULE WaitersProofs ---------------------------
(***************************************************************************)
(* Theorems about Waiters, for any set of requests, any sharing of host    *)
(* names between them and, where it matters, a stated bound on aborts.     *)
(***************************************************************************)
EXTENDS Waiters, TLAPS

(* What the constant tables map to.                                        *)
LEMMA FirstStateType == \A j \in Jobs : FirstState[Kind[j]] \in WorkStates
<1>1. TAKE j \in Jobs
<1>2. Kind[j] = "conn" \/ Kind[j] = "run"
  BY KindAssumption
<1>3. FirstState["conn"] \in WorkStates /\ FirstState["run"] \in WorkStates
  BY DEF FirstState, WorkStates
<1> QED
  BY <1>2, <1>3

(* The state after a wait state is a wait state or the end of the work.    *)
LEMMA NextStateType ==
    \A s \in WorkStates : NextState[s] \in WorkStates \cup {"done"}
BY DEF NextState, WorkStates

(* The key of a request is in the tables' domain.                          *)
LEMMA KeyType == \A j \in Jobs : Key(j) \in Keys
BY DEF Keys

-----------------------------------------------------------------------------
(* What the serializer's requests do to the tables.                        *)
LEMMA SetWaitInfoType ==
    ASSUME TypeOK, NEW j \in Jobs, SetWaitInfo(j)
    PROVE  waiters' \in [Keys -> Entry \cup {NoEntry}]
<1>1. [job |-> j, state |-> FirstState[Kind[j]]] \in Entry
  BY FirstStateType DEF Entry
<1> QED
  BY <1>1 DEF SetWaitInfo, TypeOK

(* Setting the state of an entry leaves an entry.                          *)
LEMMA SetWaitStateType ==
    ASSUME TypeOK, NEW j \in Jobs, NEW s \in WorkStates \cup {"done"},
           SetWaitState(j, s)
    PROVE  waiters' \in [Keys -> Entry \cup {NoEntry}]
<1>1. CASE waiters[Key(j)] = NoEntry
  BY <1>1 DEF SetWaitState, TypeOK
<1>2. CASE waiters[Key(j)] # NoEntry
  <2>1. waiters[Key(j)] \in Entry
    BY <1>2, KeyType DEF TypeOK
  <2>2. [waiters[Key(j)] EXCEPT !.state = s] \in Entry
    BY <2>1 DEF Entry
  <2> QED
    BY <1>2, <2>2 DEF SetWaitState, TypeOK
<1> QED
  BY <1>1, <1>2

(* Deleting an entry leaves the tables well typed.                         *)
LEMMA DeleteWaitInfoType ==
    ASSUME TypeOK, NEW j \in Jobs, DeleteWaitInfo(j)
    PROVE  waiters' \in [Keys -> Entry \cup {NoEntry}]
BY DEF DeleteWaitInfo, TypeOK

(* SetWaitState neither adds, removes nor reassigns an entry.              *)
LEMMA SetWaitStateOwner ==
    ASSUME TypeOK, NEW j \in Jobs, NEW s \in WorkStates \cup {"done"},
           SetWaitState(j, s), NEW k \in Keys
    PROVE  /\ waiters'[k] = NoEntry <=> waiters[k] = NoEntry
           /\ waiters[k] # NoEntry => waiters'[k].job = waiters[k].job
<1>1. CASE waiters[Key(j)] = NoEntry \/ k # Key(j)
  BY <1>1 DEF SetWaitState, TypeOK
<1>2. CASE waiters[Key(j)] # NoEntry /\ k = Key(j)
  <2>1. waiters[k] \in Entry
    BY <1>2 DEF TypeOK
  <2> DEFINE e == [waiters[k] EXCEPT !.state = s]
  <2>2. waiters'[k] = e
    BY <1>2 DEF SetWaitState, TypeOK
  <2>3. e.job = waiters[k].job /\ e \in Entry
    BY <2>1 DEF Entry
  <2> QED
    BY <1>2, <2>2, <2>3, NoEntryAssumption
<1> QED
  BY <1>1, <1>2

-----------------------------------------------------------------------------
(* Type correctness, for any requests and any number of aborts.            *)
LEMMA TypeInit == Init => TypeOK
BY FirstStateType, AbortsAssumption DEF Init, TypeOK

(* Every step of the goroutines and of the serializer keeps the types.     *)
LEMMA TypeStep == TypeOK /\ [Next]_vars => TypeOK'
<1> SUFFICES ASSUME TypeOK, [Next]_vars PROVE TypeOK'
  OBVIOUS
<1> USE DEF jobVars, tableVars
<1>1. ASSUME NEW j \in Jobs, Register(j) PROVE TypeOK'
  BY <1>1, SetWaitInfoType, FirstStateType DEF Register, TypeOK
<1>2. ASSUME NEW j \in Jobs, SelectResponse(j) PROVE TypeOK'
  BY <1>2 DEF SelectResponse, TypeOK
<1>3. ASSUME NEW j \in Jobs, SelectTimeout(j) PROVE TypeOK'
  BY <1>3 DEF SelectTimeout, TypeOK
<1>4. ASSUME NEW j \in Jobs, Reply(j) PROVE TypeOK'
  BY <1>4 DEF Reply, ReplyWithHelper, TypeOK
<1>5. ASSUME NEW j \in Jobs, Deregister(j) PROVE TypeOK'
  BY <1>5, DeleteWaitInfoType DEF Deregister, TypeOK
<1>6. ASSUME NEW j \in Jobs, WorkerAdvance(j) PROVE TypeOK'
  <2> DEFINE s == NextState[worker[j]]
  <2>1. s \in WorkStates \cup {"done"} /\ SetWaitState(j, s)
    BY <1>6, NextStateType DEF WorkerAdvance
  <2>2. waiters' \in [Keys -> Entry \cup {NoEntry}]
    BY <2>1, SetWaitStateType
  <2>3. CASE s = "done"
    BY <1>6, <2>2, <2>3 DEF WorkerAdvance, Results, TypeOK
  <2>4. CASE s # "done"
    BY <1>6, <2>1, <2>2, <2>4 DEF WorkerAdvance, TypeOK
  <2> QED
    BY <2>3, <2>4
<1>7. ASSUME NEW j \in Jobs, WorkerFail(j) PROVE TypeOK'
  BY <1>7 DEF WorkerFail, TypeOK
<1>8. ASSUME NEW j \in Jobs, TimerFire(j) PROVE TypeOK'
  BY <1>8 DEF TimerFire, TypeOK
<1>9. ASSUME NEW j \in Jobs, Helper(j) PROVE TypeOK'
  BY <1>9 DEF Helper, DrainTimeout, CatchStraggler, TypeOK
<1>10. ASSUME NEW j \in Jobs, Serializer(j) PROVE TypeOK'
  BY <1>10 DEF Serializer, PickWaiter, SendAbort, TypeOK
<1>11. ASSUME TimeoutWaiters PROVE TypeOK'
  <2>1. Registered \subseteq Jobs
    BY DEF TypeOK, Registered, Entry
  <2> QED
    BY <1>11, <2>1, AbortsAssumption DEF TimeoutWaiters, TypeOK
<1>12. CASE UNCHANGED vars
  BY <1>12 DEF vars, TypeOK
<1> QED
  BY <1>1, <1>2, <1>3, <1>4, <1>5, <1>6, <1>7, <1>8, <1>9, <1>10, <1>11,
     <1>12 DEF Next, Handler, Worker, Terminated

(* The variables keep their types, for any requests, keys and number of    *)
(* aborts.                                                                 *)
THEOREM TypeCorrect == Spec => []TypeOK
BY TypeInit, TypeStep, PTL DEF Spec

-----------------------------------------------------------------------------
(* An entry never outlives its handler, whoever shares its key.            *)
LEMMA NoStaleInit == Init => NoStaleWaiter
BY DEF Init, NoStaleWaiter

(* Only the handler of an entry's job takes the entry's job out of flight, *)
(* and it deletes what its key holds in the same step: the invariant is    *)
(* inductive.                                                              *)
LEMMA NoStaleStep == TypeOK /\ NoStaleWaiter /\ [Next]_vars => NoStaleWaiter'
<1> SUFFICES ASSUME TypeOK, NoStaleWaiter, [Next]_vars,
                    NEW k \in Keys, waiters'[k] # NoEntry
             PROVE  /\ handler'[waiters'[k].job]
                          \in {"selecting", "replying", "deregistering"}
                    /\ Key(waiters'[k].job) = k
  BY DEF NoStaleWaiter, InFlight, Key
<1> USE DEF jobVars, tableVars, InFlight
<1> DEFINE Owned == /\ handler'[waiters'[k].job]
                          \in {"selecting", "replying", "deregistering"}
                    /\ Key(waiters'[k].job) = k
<1>0. waiters[k] # NoEntry => /\ waiters[k].job \in Jobs
                              /\ InFlight(waiters[k].job)
                              /\ Key(waiters[k].job) = k
  BY DEF TypeOK, Entry, NoStaleWaiter
<1>1. ASSUME NEW j \in Jobs, Register(j)
      PROVE  Owned
  <2>1. handler' = [handler EXCEPT ![j] = "selecting"] /\ SetWaitInfo(j)
    BY <1>1 DEF Register
  <2>2. CASE k = Key(j)
    <3>1. waiters'[k].job = j
      BY <2>1, <2>2 DEF SetWaitInfo, TypeOK
    <3> QED
      BY <2>1, <2>2, <3>1 DEF TypeOK
  <2>3. CASE k # Key(j)
    BY <2>1, <2>3, <1>0 DEF SetWaitInfo, TypeOK
  <2> QED
    BY <2>2, <2>3
<1>2. ASSUME NEW j \in Jobs, SelectResponse(j) \/ SelectTimeout(j) \/ Reply(j)
      PROVE  Owned
  BY <1>2, <1>0
     DEF SelectResponse, SelectTimeout, Reply, ReplyWithHelper, TypeOK
<1>3. ASSUME NEW j \in Jobs, Deregister(j)
      PROVE  Owned
  <2>1. /\ handler' = [handler EXCEPT ![j] = "done"]
        /\ waiters' = [waiters EXCEPT ![Key(j)] = NoEntry]
    BY <1>3 DEF Deregister, DeleteWaitInfo
  <2>2. k # Key(j) /\ waiters'[k] = waiters[k]
    BY <2>1 DEF TypeOK
  <2>3. waiters[k].job # j
    BY <2>2, <1>0
  <2> QED
    BY <2>1, <2>2, <2>3, <1>0 DEF TypeOK
<1>4. ASSUME NEW j \in Jobs, WorkerAdvance(j)
      PROVE  Owned
  <2> DEFINE s == NextState[worker[j]]
  <2>1. s \in WorkStates \cup {"done"} /\ SetWaitState(j, s)
    BY <1>4, NextStateType DEF WorkerAdvance
  <2>2. handler' = handler
    BY <1>4 DEF WorkerAdvance
  <2>3. waiters[k] # NoEntry /\ waiters'[k].job = waiters[k].job
    BY <2>1, SetWaitStateOwner
  <2> QED
    BY <1>0, <2>2, <2>3
<1>5. ASSUME UNCHANGED <<handler, waiters>>
      PROVE  Owned
  BY <1>5, <1>0
<1>6. ASSUME NEW j \in Jobs,
             WorkerFail(j) \/ TimerFire(j) \/ Helper(j) \/ Serializer(j)
      PROVE  UNCHANGED <<handler, waiters>>
  BY <1>6 DEF WorkerFail, TimerFire, Helper, DrainTimeout, CatchStraggler,
              Serializer, PickWaiter, SendAbort
<1>7. TimeoutWaiters \/ UNCHANGED vars => UNCHANGED <<handler, waiters>>
  BY DEF TimeoutWaiters, vars
<1> QED
  BY <1>1, <1>2, <1>3, <1>4, <1>5, <1>6, <1>7
     DEF Next, Handler, Worker, Terminated

(* An entry of the wait tables never outlives its handler (proxy.go:32,    *)
(* run.go:33), however the requests share host names and however often the *)
(* waiters are aborted.                                                    *)
THEOREM NoStaleWaiterCorrect == Spec => []NoStaleWaiter
BY TypeInit, TypeStep, NoStaleInit, NoStaleStep, PTL DEF Spec

-----------------------------------------------------------------------------
(* A worker always has somebody to send to.  The helper is started by      *)
(* Reply, so it cannot have been there before.                             *)
HelperComesLast ==
    \A j \in Jobs : handler[j] \in {"new", "selecting", "replying"} =>
        helper[j] = "none"

WorkerInv == HelperComesLast /\ WorkerNeverStranded

(* At first no worker has started.                                         *)
LEMMA WorkerInit == Init => WorkerInv
BY DEF Init, WorkerInv, HelperComesLast, WorkerNeverStranded

(* The helper is chosen by what the select received, so the step that      *)
(* takes the handler away from a worker's message leaves a helper for it.  *)
LEMMA WorkerStep == TypeOK /\ WorkerInv /\ [Next]_vars => WorkerInv'
<1> SUFFICES ASSUME TypeOK, WorkerInv, [Next]_vars PROVE WorkerInv'
  OBVIOUS
<1> USE DEF jobVars, tableVars, WorkerInv, HelperComesLast,
            WorkerNeverStranded, TimedOut, TypeOK
<1>1. ASSUME NEW j \in Jobs, Register(j) PROVE WorkerInv'
  BY <1>1 DEF Register
<1>2. ASSUME NEW j \in Jobs, SelectResponse(j) PROVE WorkerInv'
  BY <1>2 DEF SelectResponse
<1>3. ASSUME NEW j \in Jobs, SelectTimeout(j) PROVE WorkerInv'
  BY <1>3 DEF SelectTimeout
<1>4. ASSUME NEW j \in Jobs, Reply(j) PROVE WorkerInv'
  BY <1>4 DEF Reply, ReplyWithHelper
<1>5. ASSUME NEW j \in Jobs, Deregister(j) PROVE WorkerInv'
  BY <1>5 DEF Deregister
<1>6. ASSUME NEW j \in Jobs, Worker(j) PROVE WorkerInv'
  <2>1. /\ UNCHANGED <<handler, helper, verdict>>
        /\ worker[j] \in WorkStates
        /\ \A i \in Jobs : i # j => worker'[i] = worker[i]
    BY <1>6 DEF Worker, WorkerAdvance, WorkerFail, MayFail, WorkStates
  <2>2. worker[j] \notin {"none", "gone"}
    BY <2>1 DEF WorkStates
  <2> QED
    BY <2>1, <2>2
<1>7. ASSUME NEW j \in Jobs, DrainTimeout(j) PROVE WorkerInv'
  BY <1>7 DEF DrainTimeout
<1>8. ASSUME NEW j \in Jobs, CatchStraggler(j) PROVE WorkerInv'
  BY <1>8 DEF CatchStraggler
<1>9. ASSUME UNCHANGED <<handler, worker, verdict, helper>> PROVE WorkerInv'
  BY <1>9
<1>10. ASSUME NEW j \in Jobs, TimerFire(j) \/ Serializer(j)
       PROVE  UNCHANGED <<handler, worker, verdict, helper>>
  BY <1>10 DEF TimerFire, Serializer, PickWaiter, SendAbort
<1>11. TimeoutWaiters \/ UNCHANGED vars =>
           UNCHANGED <<handler, worker, verdict, helper>>
  BY DEF TimeoutWaiters, vars
<1> QED
  BY <1>1, <1>2, <1>3, <1>4, <1>5, <1>6, <1>7, <1>8, <1>9, <1>10, <1>11
     DEF Next, Handler, Helper, Terminated

(* No worker is left behind with a result nobody receives (proxy.go:87,    *)
(* run.go:157), whatever wins the select.                                  *)
THEOREM WorkerNeverStrandedCorrect == Spec => []WorkerNeverStranded
<1>1. Spec => []WorkerInv
  BY TypeInit, TypeStep, WorkerInit, WorkerStep, PTL DEF Spec
<1> QED
  BY <1>1, PTL DEF WorkerInv

-----------------------------------------------------------------------------
(* With at most one call of TimeoutWaiters, two messages at most go into a *)
(* timeout channel.  As it holds one and one is received, neither sender   *)
(* stays blocked.  Pending(j): the serializer has still to send to j.      *)
Pending(j) == j \in aborting \/ serving = j
Received(j) == handler[j] # "new" /\ ~WillReceive(j)

ChannelInv(j) ==
    /\ handler[j] = "new" => timer[j] = "none" /\ ~Pending(j)
    /\ timeoutChan[j] = "organic" => timer[j] = "gone"
    /\ timeoutChan[j] = "abort" => aborts = 1 /\ ~Pending(j)
    /\ Pending(j) => aborts = 1
    /\ ~(j \in aborting /\ serving = j)
    /\ Received(j) /\ timer[j] = "sleeping" =>
           timeoutChan[j] = "empty" /\ aborts = 1 /\ ~Pending(j)
    /\ Received(j) /\ (Pending(j) \/ aborts = 0) => timeoutChan[j] = "empty"

SendersInv == HelperComesLast /\ \A j \in Jobs : ChannelInv(j)

(* At first nothing has been sent and nobody is sending.                   *)
LEMMA SendersInit == Init => SendersInv
BY NobodyAssumption
   DEF Init, SendersInv, HelperComesLast, ChannelInv, Pending, Received

(* A step of j's own goroutines leaves the other channels as they were.    *)
LEMMA SendersFrame ==
    ASSUME NEW j \in Jobs, NEW i \in Jobs, ChannelInv(i),
           handler'[i] = handler[i], verdict'[i] = verdict[i],
           helper'[i] = helper[i], timer'[i] = timer[i],
           timeoutChan'[i] = timeoutChan[i],
           Pending(i)' = Pending(i),
           (i \in aborting /\ serving = i)' => (i \in aborting /\ serving = i),
           aborts' = aborts
    PROVE  ChannelInv(i)'
<1>1. WillReceive(i)' = WillReceive(i)
  BY DEF WillReceive, TimedOut
<1>2. Received(i)' = Received(i)
  BY <1>1 DEF Received
<1> QED
  BY <1>2 DEF ChannelInv

(* A step of any goroutine keeps the count of those that have sent, or may *)
(* still send, on a timeout channel.                                       *)
LEMMA SendersStep ==
    ASSUME MaxAborts \leq 1, TypeOK, NoStaleWaiter, WorkerInv, SendersInv,
           [Next]_vars
    PROVE  SendersInv'
<1>0. HelperComesLast'
  BY WorkerStep DEF WorkerInv
<1> SUFFICES ASSUME NEW i \in Jobs PROVE ChannelInv(i)'
  BY <1>0 DEF SendersInv
<1>i. /\ ChannelInv(i) /\ aborts \in {0, 1}
      /\ handler[i] \in {"new", "selecting", "replying"} => helper[i] = "none"
  BY AbortsAssumption DEF SendersInv, HelperComesLast, TypeOK
<1> USE DEF jobVars, tableVars
<1>1. ASSUME NEW j \in Jobs, i # j,
             Handler(j) \/ Worker(j) \/ TimerFire(j) \/ Helper(j)
      PROVE  ChannelInv(i)'
  <2>1. /\ handler'[i] = handler[i] /\ verdict'[i] = verdict[i]
        /\ helper'[i] = helper[i] /\ timer'[i] = timer[i]
        /\ timeoutChan'[i] = timeoutChan[i]
    BY <1>1 DEF Handler, Register, SelectResponse, SelectTimeout, Reply,
       ReplyWithHelper, Deregister, Worker, WorkerAdvance, WorkerFail,
       TimerFire, Helper, DrainTimeout, CatchStraggler, TypeOK
  <2>2. UNCHANGED <<aborting, serving, aborts>>
    BY <1>1 DEF Handler, Register, SelectResponse, SelectTimeout, Reply,
       ReplyWithHelper, Deregister, Worker, WorkerAdvance, WorkerFail,
       TimerFire, Helper, DrainTimeout, CatchStraggler
  <2> QED
    BY <1>i, <2>1, <2>2, SendersFrame DEF Pending
<1> USE DEF ChannelInv, Pending, Received, WillReceive, TimedOut, TypeOK
<1>2. ASSUME Register(i) PROVE ChannelInv(i)'
  BY <1>2, <1>i DEF Register, SerializerIdle, SetWaitInfo
<1>3. ASSUME SelectResponse(i) PROVE ChannelInv(i)'
  <2>1. result[i] \notin {"timedOut", "aborted"}
    OBVIOUS
  <2> QED
    BY <1>3, <1>i, <2>1 DEF SelectResponse
<1>4. ASSUME SelectTimeout(i) PROVE ChannelInv(i)'
  BY <1>4, <1>i DEF SelectTimeout
<1>5. ASSUME Reply(i) PROVE ChannelInv(i)'
  BY <1>5, <1>i DEF Reply, ReplyWithHelper
<1>6. ASSUME Deregister(i) PROVE ChannelInv(i)'
  BY <1>6, <1>i DEF Deregister
<1>7. ASSUME Worker(i) PROVE ChannelInv(i)'
  BY <1>7, <1>i DEF Worker, WorkerAdvance, WorkerFail
<1>8. ASSUME TimerFire(i) PROVE ChannelInv(i)'
  BY <1>8, <1>i DEF TimerFire
<1>9. ASSUME Helper(i) PROVE ChannelInv(i)'
  BY <1>9, <1>i DEF Helper, DrainTimeout, CatchStraggler
<1>10. ASSUME NEW j \in Jobs, PickWaiter(j) PROVE ChannelInv(i)'
  BY <1>10, <1>i, NobodyAssumption DEF PickWaiter
<1>11. ASSUME NEW j \in Jobs, SendAbort(j) PROVE ChannelInv(i)'
  BY <1>11, <1>i, NobodyAssumption DEF SendAbort
<1>12. ASSUME TimeoutWaiters PROVE ChannelInv(i)'
  <2>1. i \in Registered => handler[i] # "new"
    BY DEF Registered, NoStaleWaiter, InFlight
  <2>2. aborts = 0 /\ aborts' = 1 /\ aborting' = Registered /\ serving' = Nobody
    BY <1>12, <1>i, AbortsAssumption DEF TimeoutWaiters, SerializerIdle
  <2> QED
    BY <1>12, <1>i, <2>1, <2>2, NobodyAssumption DEF TimeoutWaiters
<1>13. CASE UNCHANGED vars
  BY <1>13, <1>i DEF vars
<1> QED
  BY <1>1, <1>2, <1>3, <1>4, <1>5, <1>6, <1>7, <1>8, <1>9, <1>10, <1>11,
     <1>12, <1>13 DEF Next, Handler, Serializer, Terminated

(* A timer is never left blocked on its channel by one abort.              *)
THEOREM TimerNeverStrandedCorrect ==
    ASSUME MaxAborts \leq 1 PROVE Spec => []TimerNeverStranded
<1>1. TypeOK /\ SendersInv => TimerNeverStranded
  BY DEF SendersInv, ChannelInv, Received, TimerNeverStranded
<1> QED
  BY <1>1, TypeInit, TypeStep, NoStaleInit, NoStaleStep, WorkerInit,
     WorkerStep, SendersInit, SendersStep, PTL DEF Spec

(* Nor is the serializer, and with it the whole program.                   *)
THEOREM SerializerNeverStrandedCorrect ==
    ASSUME MaxAborts \leq 1 PROVE Spec => []SerializerNeverStranded
<1>1. TypeOK /\ SendersInv => SerializerNeverStranded
  BY DEF SendersInv, ChannelInv, Received, Pending, SerializerNeverStranded
<1> QED
  BY <1>1, TypeInit, TypeStep, NoStaleInit, NoStaleStep, WorkerInit,
     WorkerStep, SendersInit, SendersStep, PTL DEF Spec

-----------------------------------------------------------------------------
(* While no two requests share a key, each has its own entry.              *)
DistinctKeys == \A i, j \in Jobs : Key(i) = Key(j) => i = j

(* When keys are distinct nobody else touches the entry of a request.      *)
LEMMA RegisteredStep ==
    ASSUME DistinctKeys, TypeOK, InFlightRegistered, [Next]_vars
    PROVE  InFlightRegistered'
<1> SUFFICES ASSUME NEW i \in Jobs, InFlight(i)'
             PROVE  waiters'[Key(i)] # NoEntry /\ waiters'[Key(i)].job = i
  BY DEF InFlightRegistered, Key
<1> USE DEF jobVars, tableVars, InFlight
<1> DEFINE Own == waiters'[Key(i)] # NoEntry /\ waiters'[Key(i)].job = i
<1>k. Key(i) \in Keys /\ (\A j \in Jobs : j # i => Key(j) # Key(i))
  BY KeyType DEF DistinctKeys
<1>0. InFlight(i) => waiters[Key(i)] # NoEntry /\ waiters[Key(i)].job = i
  BY DEF InFlightRegistered
<1>1. ASSUME NEW j \in Jobs, Register(j) PROVE Own
  <2>1. CASE j = i
    <3>1. waiters'[Key(i)] = [job |-> i, state |-> FirstState[Kind[i]]]
      BY <1>1, <1>k, <2>1 DEF Register, SetWaitInfo, TypeOK
    <3>2. waiters'[Key(i)] \in Entry
      BY <3>1, FirstStateType DEF Entry
    <3> QED
      BY <3>1, <3>2, NoEntryAssumption
  <2>2. CASE j # i
    BY <1>1, <1>k, <1>0, <2>2 DEF Register, SetWaitInfo, TypeOK
  <2> QED
    BY <2>1, <2>2
<1>2. ASSUME NEW j \in Jobs, SelectResponse(j) \/ SelectTimeout(j) \/ Reply(j)
      PROVE  Own
  BY <1>2, <1>0
     DEF SelectResponse, SelectTimeout, Reply, ReplyWithHelper, TypeOK
<1>3. ASSUME NEW j \in Jobs, Deregister(j) PROVE Own
  <2>1. j # i
    BY <1>3 DEF Deregister, TypeOK
  <2> QED
    BY <1>3, <2>1, <1>k, <1>0 DEF Deregister, DeleteWaitInfo, TypeOK
<1>4. ASSUME NEW j \in Jobs, WorkerAdvance(j) PROVE Own
  <2> DEFINE s == NextState[worker[j]]
  <2>1. s \in WorkStates \cup {"done"} /\ SetWaitState(j, s)
    BY <1>4, NextStateType DEF WorkerAdvance
  <2>2. InFlight(i)
    BY <1>4 DEF WorkerAdvance
  <2> QED
    BY <1>k, <1>0, <2>1, <2>2, SetWaitStateOwner
<1>5. ASSUME UNCHANGED <<handler, waiters>> PROVE Own
  BY <1>5, <1>0
<1>6. ASSUME NEW j \in Jobs,
             WorkerFail(j) \/ TimerFire(j) \/ Helper(j) \/ Serializer(j)
      PROVE  UNCHANGED <<handler, waiters>>
  BY <1>6 DEF WorkerFail, TimerFire, Helper, DrainTimeout, CatchStraggler,
              Serializer, PickWaiter, SendAbort
<1>7. TimeoutWaiters \/ UNCHANGED vars => UNCHANGED <<handler, waiters>>
  BY DEF TimeoutWaiters, vars
<1> QED
  BY <1>1, <1>2, <1>3, <1>4, <1>5, <1>6, <1>7
     DEF Next, Handler, Worker, Terminated

(* Then an abort reaches, and the statistics count, every request.         *)
THEOREM InFlightRegisteredCorrect ==
    ASSUME DistinctKeys PROVE Spec => []InFlightRegistered
<1>1. Init => InFlightRegistered
  BY DEF Init, InFlightRegistered, InFlight
<1> QED
  BY <1>1, TypeInit, TypeStep, RegisteredStep, PTL DEF Spec

-----------------------------------------------------------------------------
(* The entry of a request is set when its worker starts, and whenever the  *)
(* worker goes on.                                                         *)
LEMMA OwnStateStep ==
    ASSUME DistinctKeys, TypeOK, NoStaleWaiter, WaitStateIsOwn, [Next]_vars
    PROVE  WaitStateIsOwn'
<1> SUFFICES ASSUME NEW k \in Keys, waiters'[k] # NoEntry,
                    worker'[waiters'[k].job] \in WorkStates
             PROVE  waiters'[k].state = worker'[waiters'[k].job]
  BY DEF WaitStateIsOwn
<1> USE DEF jobVars, tableVars
<1> DEFINE Own == waiters'[k].state = worker'[waiters'[k].job]
<1>0. waiters[k] # NoEntry =>
          /\ waiters[k] \in Entry /\ waiters[k].job \in Jobs
          /\ Key(waiters[k].job) = k
          /\ worker[waiters[k].job] \in WorkStates =>
                waiters[k].state = worker[waiters[k].job]
  BY DEF WaitStateIsOwn, NoStaleWaiter, TypeOK, Entry
<1>1. ASSUME NEW j \in Jobs, Register(j) PROVE Own
  <2>1. CASE k = Key(j)
    BY <1>1, <2>1 DEF Register, SetWaitInfo, TypeOK
  <2>2. CASE k # Key(j)
    <3>1. waiters'[k] = waiters[k] /\ waiters[k].job # j
      BY <1>0, <1>1, <2>2 DEF Register, SetWaitInfo, TypeOK
    <3> QED
      BY <1>0, <1>1, <3>1 DEF Register, TypeOK
  <2> QED
    BY <2>1, <2>2
<1>2. ASSUME NEW j \in Jobs, WorkerAdvance(j) PROVE Own
  <2> DEFINE s == NextState[worker[j]]
  <2>1. /\ s \in WorkStates \cup {"done"} /\ SetWaitState(j, s)
        /\ worker'[j] = (IF s = "done" THEN "sending" ELSE s)
        /\ \A i \in Jobs \ {j} : worker'[i] = worker[i]
    BY <1>2, NextStateType DEF WorkerAdvance, TypeOK
  <2>2. waiters[k] # NoEntry /\ waiters'[k].job = waiters[k].job
    BY <2>1, SetWaitStateOwner
  <2>3. CASE k = Key(j)
    <3>1. waiters[k].job = j /\ s # "done"
      BY <1>0, <2>1, <2>2, <2>3 DEF DistinctKeys, WorkStates
    <3>2. waiters'[k] = [waiters[k] EXCEPT !.state = s]
      BY <2>1, <2>2, <2>3 DEF SetWaitState, TypeOK
    <3>3. waiters'[k].state = s
      BY <1>0, <2>2, <3>2 DEF Entry
    <3> QED
      BY <2>1, <2>2, <3>1, <3>3
  <2>4. CASE k # Key(j)
    <3>1. waiters'[k] = waiters[k] /\ waiters[k].job # j
      BY <1>0, <2>1, <2>2, <2>4 DEF SetWaitState, TypeOK
    <3> QED
      BY <1>0, <2>1, <3>1
  <2> QED
    BY <2>3, <2>4
<1>3. ASSUME NEW j \in Jobs, Deregister(j) PROVE Own
  BY <1>0, <1>3 DEF Deregister, DeleteWaitInfo, TypeOK
<1>4. ASSUME UNCHANGED waiters,
             \A i \in Jobs : worker'[i] \in WorkStates => worker'[i] = worker[i]
      PROVE  Own
  BY <1>0, <1>4
<1>5. ASSUME NEW j \in Jobs,
             \/ SelectResponse(j) \/ SelectTimeout(j) \/ Reply(j)
             \/ WorkerFail(j) \/ TimerFire(j) \/ Helper(j) \/ Serializer(j)
      PROVE  Own
  <2>1. UNCHANGED waiters
    BY <1>5 DEF SelectResponse, SelectTimeout, Reply, ReplyWithHelper,
       WorkerFail, TimerFire, Helper, DrainTimeout, CatchStraggler, Serializer,
       PickWaiter, SendAbort
  <2>2. \A i \in Jobs : worker'[i] = worker[i] \/ worker'[i] \in {"gone", "sending"}
    BY <1>5 DEF SelectResponse, SelectTimeout, Reply, ReplyWithHelper,
       WorkerFail, TimerFire, Helper, DrainTimeout, CatchStraggler, Serializer,
       PickWaiter, SendAbort, TypeOK
  <2> QED
    BY <1>4, <2>1, <2>2 DEF WorkStates
<1>6. TimeoutWaiters \/ UNCHANGED vars => UNCHANGED <<worker, waiters>>
  BY DEF TimeoutWaiters, vars
<1> QED
  BY <1>1, <1>2, <1>3, <1>4, <1>5, <1>6 DEF Next, Handler, Worker, Terminated

(* The state recorded for a request is the one its own worker has reached  *)
(* (state.go:390 and 396), if no two requests share a key.                 *)
THEOREM WaitStateIsOwnCorrect ==
    ASSUME DistinctKeys PROVE Spec => []WaitStateIsOwn
<1>1. Init => WaitStateIsOwn
  BY DEF Init, WaitStateIsOwn
<1> QED
  BY <1>1, TypeInit, TypeStep, NoStaleInit, NoStaleStep, OwnStateStep, PTL
     DEF Spec

=============================================================================

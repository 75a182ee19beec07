------------------------------ MODULE Waiters ------------------------------
(***************************************************************************)
(* Requests in flight, their timeouts, and how they are aborted.           *)
(*                                                                         *)
(* Every proxied connection (proxyConnect in proxy.go) and every remote    *)
(* command (runCmd in run.go) is handled the same way.  The handler        *)
(* goroutine                                                               *)
(*                                                                         *)
(*   - registers a waitInfo in the State serializer's table of waiters,    *)
(*   - starts a worker goroutine that does the network calls and reports   *)
(*     its progress to that table, and a timer goroutine,                  *)
(*   - waits for whichever speaks first on an unbuffered result channel    *)
(*     or a timeout channel of capacity one,                               *)
(*   - answers the requester, starts a helper goroutine that receives the  *)
(*     message of the one that lost, and deletes its waitInfo.             *)
(*                                                                         *)
(* The tables are maps keyed by host name.  TimeoutWaiters makes the       *)
(* serializer itself send a fake timeout to every registered waiter, and   *)
(* while one of those sends blocks the serializer serves nobody.           *)
(***************************************************************************)
EXTENDS Naturals, FiniteSets

CONSTANTS
    Jobs,       \* the connection and run requests made in the behaviour
    Kind,       \* Kind[j] is "conn" (proxyConnect) or "run" (runCmd)
    Host,       \* Host[j] is the host name that keys j's waitInfo
    MaxAborts,  \* bound: how often TimeoutWaiters is called
    Nobody,     \* the serializer is not sending to any waiter
    NoEntry     \* the key is not in the table of waiters

ASSUME KindAssumption == Kind \in [Jobs -> {"conn", "run"}]
ASSUME HostAssumption == DOMAIN Host = Jobs
ASSUME AbortsAssumption == MaxAborts \in Nat
ASSUME NobodyAssumption == Nobody \notin Jobs

(* Mutant: one table for connections and commands.                         *)
OneTable(j) == Host[j]

(* The two maps connWaiters and runWaiters are one function over keys.     *)
Key(j) == <<Kind[j], Host[j]>>
Keys == {Key(j) : j \in Jobs}

FirstState == [conn |-> "dialing", run |-> "newSession"]
WorkStates == {"dialing", "establishing", "newClient",
               "newSession", "startSession", "running"}
(* Mutant: a wait state that is not one of the constants.                  *)
MistypedState == [dialing |-> "establishing", establishing |-> "newClient",
                  newClient |-> "done", newSession |-> "starting",
                  starting |-> "running", running |-> "done"]
NextState == [dialing |-> "establishing", establishing |-> "newClient",
              newClient |-> "done", newSession |-> "startSession",
              startSession |-> "running", running |-> "done"]

(* Where the worker may give up instead of going on: every call that can   *)
(* fail sends the error at once.  NewClient cannot fail, and a command     *)
(* that fails while running still goes through the state "done".           *)
MayFail == {"dialing", "establishing", "newSession", "startSession"}
Results(s) == IF s = "running" THEN {"ok", "err"} ELSE {"ok"}

Entry == [job : Jobs, state : WorkStates \cup {"done"}]

ASSUME NoEntryAssumption == NoEntry \notin Entry

VARIABLES
    handler,      \* the goroutine of proxyConnect or runCmd
    worker,       \* its worker goroutine
    result,       \* what the worker has to send
    timer,        \* its timer goroutine
    timeoutChan,  \* the timeout channel, of capacity one
    verdict,      \* what the handler's select received
    answer,       \* what the requester got
    helper,       \* the goroutine that receives the loser's message
    waiters,      \* connWaiters and runWaiters
    aborting,     \* waiters TimeoutWaiters has still to send to
    serving,      \* the waiter it is sending to now
    aborts        \* how many times TimeoutWaiters was called

jobVars == <<handler, worker, result, timer, verdict, answer, helper>>
tableVars == <<waiters, aborting, serving, aborts>>
vars == <<jobVars, tableVars, timeoutChan>>

Init ==
    /\ handler = [j \in Jobs |-> "new"]
    /\ worker = [j \in Jobs |-> "none"]
    /\ result = [j \in Jobs |-> "none"]
    /\ timer = [j \in Jobs |-> "none"]
    /\ timeoutChan = [j \in Jobs |-> "empty"]
    /\ verdict = [j \in Jobs |-> "none"]
    /\ answer = [j \in Jobs |-> "none"]
    /\ helper = [j \in Jobs |-> "none"]
    /\ waiters = [k \in Keys |-> NoEntry]
    /\ aborting = {}
    /\ serving = Nobody
    /\ aborts = 0

-----------------------------------------------------------------------------
(* The serializer takes a request only between two cases of its switch.    *)
SerializerIdle == aborting = {} /\ serving = Nobody

(* setConnWaitInfo and setRunWaitInfo store over whatever the key holds;   *)
(* set*WaitState changes the state of whoever's entry is there; delete*    *)
(* removes it, whoever put it there.                                       *)
SetWaitInfo(j) ==
    /\ SerializerIdle
    /\ waiters' = [waiters EXCEPT
           ![Key(j)] = [job |-> j, state |-> FirstState[Kind[j]]]]

(* Mutants: the state is set without looking whether the key exists, which *)
(* brings a deleted entry back; and it is never set at all.                *)
SetWithoutLooking(j, s) ==
    /\ SerializerIdle
    /\ waiters' = [waiters EXCEPT ![Key(j)] = [job |-> j, state |-> s]]

SetNothing(j, s) == SerializerIdle /\ UNCHANGED waiters

SetWaitState(j, s) ==
    /\ SerializerIdle
    /\ waiters' = IF waiters[Key(j)] = NoEntry THEN waiters
                  ELSE [waiters EXCEPT ![Key(j)].state = s]

DeleteWaitInfo(j) ==
    /\ SerializerIdle
    /\ waiters' = [waiters EXCEPT ![Key(j)] = NoEntry]

-----------------------------------------------------------------------------
(* The handler.                                                            *)
Register(j) ==
    /\ handler[j] = "new"
    /\ SetWaitInfo(j)
    /\ handler' = [handler EXCEPT ![j] = "selecting"]
    /\ worker' = [worker EXCEPT ![j] = FirstState[Kind[j]]]
    /\ timer' = [timer EXCEPT ![j] = "sleeping"]
    /\ UNCHANGED <<result, verdict, answer, helper, timeoutChan,
                   aborting, serving, aborts>>

SelectResponse(j) ==
    /\ handler[j] = "selecting"
    /\ worker[j] = "sending"
    /\ worker' = [worker EXCEPT ![j] = "gone"]
    /\ handler' = [handler EXCEPT ![j] = "replying"]
    /\ verdict' = [verdict EXCEPT ![j] = result[j]]
    /\ UNCHANGED <<result, timer, answer, helper, timeoutChan, tableVars>>

(* Mutants: an abort is taken for a spurious wake-up; a timeout is, and    *)
(* the timer started again; and the two are mistaken for each other.       *)
IgnoreAbort(j) ==
    /\ handler[j] = "selecting"
    /\ timeoutChan[j] # "empty"
    /\ timeoutChan' = [timeoutChan EXCEPT ![j] = "empty"]
    /\ IF timeoutChan[j] = "organic"
       THEN /\ handler' = [handler EXCEPT ![j] = "replying"]
            /\ verdict' = [verdict EXCEPT ![j] = "timedOut"]
       ELSE UNCHANGED <<handler, verdict>>
    /\ UNCHANGED <<worker, result, timer, answer, helper, tableVars>>

StartTimerAgain(j) ==
    /\ handler[j] = "selecting"
    /\ timeoutChan[j] # "empty"
    /\ timeoutChan' = [timeoutChan EXCEPT ![j] = "empty"]
    /\ IF timeoutChan[j] = "abort"
       THEN /\ handler' = [handler EXCEPT ![j] = "replying"]
            /\ verdict' = [verdict EXCEPT ![j] = "aborted"]
            /\ UNCHANGED timer
       ELSE /\ timer' = [timer EXCEPT ![j] = "sleeping"]
            /\ UNCHANGED <<handler, verdict>>
    /\ UNCHANGED <<worker, result, answer, helper, tableVars>>

ConfuseTimeouts(j) ==
    /\ handler[j] = "selecting"
    /\ timeoutChan[j] # "empty"
    /\ timeoutChan' = [timeoutChan EXCEPT ![j] = "empty"]
    /\ handler' = [handler EXCEPT ![j] = "replying"]
    /\ verdict' = [verdict EXCEPT
           ![j] = IF timeoutChan[j] = "organic" THEN "aborted" ELSE "timedOut"]
    /\ UNCHANGED <<worker, result, timer, answer, helper, tableVars>>

SelectTimeout(j) ==
    /\ handler[j] = "selecting"
    /\ timeoutChan[j] # "empty"
    /\ timeoutChan' = [timeoutChan EXCEPT ![j] = "empty"]
    /\ handler' = [handler EXCEPT ![j] = "replying"]
    /\ verdict' = [verdict EXCEPT
           ![j] = IF timeoutChan[j] = "organic" THEN "timedOut" ELSE "aborted"]
    /\ UNCHANGED <<worker, result, timer, answer, helper, tableVars>>

TimedOut(j) == verdict[j] \in {"timedOut", "aborted"}

(* The answer goes out, then the helper starts.                            *)
ReplyWithHelper(j, h) ==
    /\ handler[j] = "replying"
    /\ answer' = [answer EXCEPT ![j] = verdict[j]]
    /\ helper' = [helper EXCEPT ![j] = h]
    /\ handler' = [handler EXCEPT ![j] = "deregistering"]
    /\ UNCHANGED <<worker, result, timer, verdict, timeoutChan, tableVars>>

(* Mutants: nobody drains the timer; nobody catches the straggler.         *)
ReplyLeavingTimer(j) ==
    ReplyWithHelper(j, IF TimedOut(j) THEN "catchStraggler" ELSE "gone")
ReplyLeavingWorker(j) ==
    ReplyWithHelper(j, IF TimedOut(j) THEN "gone" ELSE "drainTimeout")

Reply(j) ==
    ReplyWithHelper(j, IF TimedOut(j) THEN "catchStraggler" ELSE "drainTimeout")

Deregister(j) ==
    /\ handler[j] = "deregistering"
    /\ DeleteWaitInfo(j)
    /\ handler' = [handler EXCEPT ![j] = "done"]
    /\ UNCHANGED <<worker, result, timer, verdict, answer, helper,
                   timeoutChan, aborting, serving, aborts>>

Handler(j) ==
    Register(j) \/ SelectResponse(j) \/ SelectTimeout(j)
        \/ Reply(j) \/ Deregister(j)

-----------------------------------------------------------------------------
(* The worker: a network call returns and its progress is recorded, or it  *)
(* fails and the error is the result.                                      *)
WorkerAdvance(j) ==
    /\ worker[j] \in WorkStates
    /\ LET s == NextState[worker[j]] IN
       /\ SetWaitState(j, s)
       /\ IF s = "done"
          THEN \E r \in Results(worker[j]) :
                  /\ worker' = [worker EXCEPT ![j] = "sending"]
                  /\ result' = [result EXCEPT ![j] = r]
          ELSE /\ worker' = [worker EXCEPT ![j] = s]
               /\ UNCHANGED result
    /\ UNCHANGED <<handler, timer, verdict, answer, helper, timeoutChan,
                   aborting, serving, aborts>>

WorkerFail(j) ==
    /\ worker[j] \in MayFail
    /\ worker' = [worker EXCEPT ![j] = "sending"]
    /\ result' = [result EXCEPT ![j] = "err"]
    /\ UNCHANGED <<handler, timer, verdict, answer, helper, timeoutChan,
                   tableVars>>

Worker(j) == WorkerAdvance(j) \/ WorkerFail(j)

(* The timer wakes up and sends true, blocking while the channel is full.  *)
TimerFire(j) ==
    /\ timer[j] = "sleeping"
    /\ timeoutChan[j] = "empty"
    /\ timeoutChan' = [timeoutChan EXCEPT ![j] = "organic"]
    /\ timer' = [timer EXCEPT ![j] = "gone"]
    /\ UNCHANGED <<handler, worker, result, verdict, answer, helper,
                   tableVars>>

(* The helpers.                                                            *)
DrainTimeout(j) ==
    /\ helper[j] = "drainTimeout"
    /\ timeoutChan[j] # "empty"
    /\ timeoutChan' = [timeoutChan EXCEPT ![j] = "empty"]
    /\ helper' = [helper EXCEPT ![j] = "gone"]
    /\ UNCHANGED <<handler, worker, result, timer, verdict, answer, tableVars>>

CatchStraggler(j) ==
    /\ helper[j] = "catchStraggler"
    /\ worker[j] = "sending"
    /\ worker' = [worker EXCEPT ![j] = "gone"]
    /\ helper' = [helper EXCEPT ![j] = "gone"]
    /\ UNCHANGED <<handler, result, timer, verdict, answer, timeoutChan,
                   tableVars>>

Helper(j) == DrainTimeout(j) \/ CatchStraggler(j)

-----------------------------------------------------------------------------
(* TimeoutWaiters: the serializer ranges over the waiters it has, those of *)
(* connections before those of commands, and sends false to each.          *)
Registered == {waiters[k].job : k \in {k \in Keys : waiters[k] # NoEntry}}

TimeoutWaiters ==
    /\ aborts < MaxAborts
    /\ SerializerIdle
    /\ aborts' = aborts + 1
    /\ aborting' = Registered
    /\ UNCHANGED <<jobVars, timeoutChan, waiters, serving>>

PickWaiter(j) ==
    /\ serving = Nobody
    /\ j \in aborting
    /\ Kind[j] = "run" => \A i \in aborting : Kind[i] = "run"
    /\ serving' = j
    /\ aborting' = aborting \ {j}
    /\ UNCHANGED <<jobVars, timeoutChan, waiters, aborts>>

SendAbort(j) ==
    /\ serving = j
    /\ timeoutChan[j] = "empty"
    /\ timeoutChan' = [timeoutChan EXCEPT ![j] = "abort"]
    /\ serving' = Nobody
    /\ UNCHANGED <<jobVars, waiters, aborting, aborts>>

Serializer(j) == PickWaiter(j) \/ SendAbort(j)

(* Everything has ended: no goroutine is left.                             *)
Terminated ==
    /\ \A j \in Jobs : /\ handler[j] = "done" /\ worker[j] = "gone"
                       /\ timer[j] = "gone" /\ helper[j] = "gone"
    /\ SerializerIdle
    /\ UNCHANGED vars

Next ==
    \/ \E j \in Jobs : \/ Handler(j) \/ Worker(j) \/ TimerFire(j)
                       \/ Helper(j) \/ Serializer(j)
    \/ TimeoutWaiters
    \/ Terminated

Spec == Init /\ [][Next]_vars

(* Goroutines that can run do run.  Nothing is assumed of the network: a   *)
(* worker may wait forever.  A sleep takes time, and only FairSpec waits   *)
(* for it to end: what PromptSpec promises is promised without it.         *)
PromptSpec ==
    Spec /\ \A j \in Jobs :
        WF_vars(Handler(j)) /\ WF_vars(Helper(j)) /\ WF_vars(Serializer(j))
FairSpec == PromptSpec /\ \A j \in Jobs : WF_vars(TimerFire(j))

-----------------------------------------------------------------------------
(* The type of every variable: the phases of the goroutines of a request,  *)
(* what its channel holds, and the tables.                                 *)
TypeOK ==
    /\ handler \in [Jobs -> {"new", "selecting", "replying",
                             "deregistering", "done"}]
    /\ worker \in [Jobs -> {"none", "sending", "gone"} \cup WorkStates]
    /\ result \in [Jobs -> {"none", "ok", "err"}]
    /\ timer \in [Jobs -> {"none", "sleeping", "gone"}]
    /\ timeoutChan \in [Jobs -> {"empty", "organic", "abort"}]
    /\ verdict \in [Jobs -> {"none", "ok", "err", "timedOut", "aborted"}]
    /\ answer \in [Jobs -> {"none", "ok", "err", "timedOut", "aborted"}]
    /\ helper \in [Jobs -> {"none", "drainTimeout", "catchStraggler", "gone"}]
    /\ waiters \in [Keys -> Entry \cup {NoEntry}]
    /\ aborting \subseteq Jobs
    /\ serving \in Jobs \cup {Nobody}
    /\ aborts \in 0..MaxAborts

InFlight(j) == handler[j] \in {"selecting", "replying", "deregistering"}

(* A waitInfo is never left behind: an entry of the tables belongs to a    *)
(* request whose handler has not finished, whoever else used the same host *)
(* name meanwhile (proxy.go:32, run.go:33, state.go:521-532).  Otherwise   *)
(* an abort would send to a channel nobody reads and stop the serializer.  *)
NoStaleWaiter ==
    \A k \in Keys : waiters[k] # NoEntry =>
        InFlight(waiters[k].job) /\ Key(waiters[k].job) = k

(* proxy.go:87, "No goroutines left behind": whatever order the result,    *)
(* the timer and an abort come in, a worker that has still to send has     *)
(* somebody to receive it, now or after steps its handler takes alone.     *)
WorkerNeverStranded ==
    \A j \in Jobs : worker[j] \notin {"none", "gone"} =>
        \/ handler[j] = "selecting"
        \/ handler[j] = "replying" /\ TimedOut(j)
        \/ helper[j] = "catchStraggler"

(* Somebody will still take a message off j's timeout channel.             *)
WillReceive(j) ==
    \/ handler[j] = "selecting"
    \/ handler[j] = "replying" /\ ~TimedOut(j)
    \/ helper[j] = "drainTimeout"

(* proxy.go:76, "Don't leave that timeout goroutine hangin'": a timer that *)
(* finds the channel full is not blocked for good.                         *)
TimerNeverStranded ==
    \A j \in Jobs : timer[j] = "sleeping" /\ timeoutChan[j] # "empty" =>
        WillReceive(j)

(* The serializer, blocked sending an abort (state.go:483 and 486), is     *)
(* freed by somebody who does not need the serializer first.               *)
SerializerNeverStranded ==
    \A j \in Jobs : serving = j /\ timeoutChan[j] # "empty" => WillReceive(j)

(* state.go:412 and 433-436: every request in flight has its own entry, so *)
(* an abort reaches it and the statistics count it.                        *)
InFlightRegistered ==
    \A j \in Jobs : InFlight(j) =>
        waiters[Key(j)] # NoEntry /\ waiters[Key(j)].job = j

(* state.go:390 and 396: the state recorded for a request is the one its   *)
(* own worker has reached.                                                 *)
WaitStateIsOwn ==
    \A k \in Keys : waiters[k] # NoEntry =>
        LET j == waiters[k].job IN
        worker[j] \in WorkStates => waiters[k].state = worker[j]

(* resolve.go:51, run.go:177 and 215: whoever asked waits without a limit  *)
(* of his own, so every request that was made is answered, at the latest   *)
(* when its timer ends, whatever the network does.                         *)
EveryRequestAnswered ==
    \A j \in Jobs : InFlight(j) ~> handler[j] = "done"

(* state.go:433-436: a waiter that is aborted "finishes up immediately",   *)
(* before its timer ends and whatever the network does.                    *)
AbortFinishes ==
    \A j \in Jobs : (j \in aborting \/ serving = j) ~> handler[j] = "done"

(* What the requesters rely on, RequestReply: one answer each, "aborted"   *)
(* only for a request that was in flight when TimeoutWaiters was called,   *)
(* and an answer for every one of those.                                   *)
Phase(j) == CASE handler[j] = "new" -> "idle"
              [] handler[j] \in {"selecting", "replying"} -> "inFlight"
              [] OTHER -> "answered"

Doomed(j) ==
    /\ Phase(j) = "inFlight"
    /\ \/ j \in aborting \/ serving = j
       \/ timeoutChan[j] = "abort" \/ verdict[j] = "aborted"

Abstract == INSTANCE RequestReply WITH
    phase <- [j \in Jobs |-> Phase(j)],
    doomed <- {j \in Jobs : Doomed(j)}

Implements == Abstract!FairSpec

=============================================================================

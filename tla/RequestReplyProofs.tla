------------------------- MODULE RequestReplyProofs -------------------------
(***************************************************************************)
(* Waiters implements RequestReply, for any requests on hosts of their own *)
(* and any number of aborts: the part of Implements without fairness.      *)
(***************************************************************************)
EXTENDS WaitersProofs

(* What the mapping rests on: nothing was sent to a request that was not   *)
(* made, a worker that sends has a result, and a select that is over       *)
(* received something.                                                     *)
MappingInv ==
    \A j \in Jobs :
        /\ handler[j] = "new" => /\ timer[j] = "none" /\ timeoutChan[j] = "empty"
                                 /\ ~Pending(j)
        /\ handler[j] \in {"new", "selecting"} => verdict[j] = "none"
        /\ handler[j] = "replying" => verdict[j] # "none"
        /\ worker[j] = "sending" => result[j] # "none"

(* It holds at the start,                                                  *)
LEMMA MappingInit == Init => MappingInv
BY NobodyAssumption DEF Init, MappingInv, Pending

(* and every step keeps it.                                                *)
LEMMA MappingStep ==
    ASSUME TypeOK, NoStaleWaiter, MappingInv, [Next]_vars
    PROVE  MappingInv'
<1> USE DEF jobVars, tableVars, MappingInv, TypeOK, Pending
<1>1. ASSUME NEW j \in Jobs, Register(j) PROVE MappingInv'
  BY <1>1, FirstStateType DEF Register, WorkStates
<1>2. ASSUME NEW j \in Jobs, SelectResponse(j) PROVE MappingInv'
  BY <1>2 DEF SelectResponse
<1>3. ASSUME NEW j \in Jobs, SelectTimeout(j) PROVE MappingInv'
  BY <1>3 DEF SelectTimeout
<1>4. ASSUME NEW j \in Jobs, Reply(j) PROVE MappingInv'
  BY <1>4 DEF Reply, ReplyWithHelper
<1>5. ASSUME NEW j \in Jobs, Deregister(j) PROVE MappingInv'
  BY <1>5 DEF Deregister
<1>6. ASSUME NEW j \in Jobs, WorkerAdvance(j) PROVE MappingInv'
  BY <1>6, NextStateType DEF WorkerAdvance, Results, WorkStates
<1>7. ASSUME NEW j \in Jobs, WorkerFail(j) PROVE MappingInv'
  BY <1>7 DEF WorkerFail
<1>8. ASSUME NEW j \in Jobs, TimerFire(j) PROVE MappingInv'
  BY <1>8 DEF TimerFire
<1>9. ASSUME NEW j \in Jobs, Helper(j) PROVE MappingInv'
  BY <1>9 DEF Helper, DrainTimeout, CatchStraggler
<1>10. ASSUME NEW j \in Jobs, Serializer(j) PROVE MappingInv'
  BY <1>10, NobodyAssumption DEF Serializer, PickWaiter, SendAbort
<1>11. ASSUME TimeoutWaiters PROVE MappingInv'
  <2>1. \A i \in Jobs : i \in Registered => handler[i] # "new"
    BY DEF Registered, NoStaleWaiter, InFlight
  <2>2. aborting' = Registered /\ serving' = Nobody
    BY <1>11 DEF TimeoutWaiters, SerializerIdle
  <2> QED
    BY <1>11, <2>1, <2>2, NobodyAssumption DEF TimeoutWaiters
<1>12. CASE UNCHANGED vars
  BY <1>12 DEF vars
<1> QED
  BY <1>1, <1>2, <1>3, <1>4, <1>5, <1>6, <1>7, <1>8, <1>9, <1>10, <1>11,
     <1>12 DEF Next, Handler, Worker, Terminated

-----------------------------------------------------------------------------
(* The phase of a request follows its handler.                             *)
LEMMA PhaseOf ==
    \A j \in Jobs :
        /\ Phase(j) = "idle" <=> handler[j] = "new"
        /\ Phase(j) = "inFlight" <=> handler[j] \in {"selecting", "replying"}
        /\ Phase(j) \in {"idle", "inFlight", "answered"}
BY DEF Phase

(* A step that changes no phase, no answer and nobody's doom is a stutter. *)
LEMMA Stutters ==
    ASSUME UNCHANGED answer,
           \A j \in Jobs : Phase(j)' = Phase(j) /\ (Doomed(j)' <=> Doomed(j))
    PROVE  UNCHANGED Abstract!vars
BY DEF Abstract!vars

(* The initial states are initial states of RequestReply.                  *)
LEMMA AbstractInit == Init => Abstract!Init
BY PhaseOf DEF Init, Abstract!Init, Doomed

(* Every step of the goroutines is one of RequestReply or a stutter.       *)
LEMMA AbstractStep ==
    ASSUME TypeOK, NoStaleWaiter, HelperComesLast, MappingInv,
           InFlightRegistered, [Next]_vars
    PROVE  [Abstract!Next]_(Abstract!vars)
<1> DEFINE Same == /\ UNCHANGED answer
                   /\ \A i \in Jobs : /\ Phase(i)' = Phase(i)
                                      /\ Doomed(i)' <=> Doomed(i)
           Refines == [Abstract!Next]_(Abstract!vars)
<1>0. Same => Refines
  BY Stutters
<1> USE DEF jobVars, tableVars
<1>1. ASSUME NEW j \in Jobs, Register(j) PROVE Refines
  <2>1. Phase(j) = "idle" /\ Phase(j)' = "inFlight"
    BY <1>1 DEF Register, Phase, TypeOK
  <2>2. \A i \in Jobs \ {j} : Phase(i)' = Phase(i)
    BY <1>1 DEF Register, Phase, TypeOK
  <2>3. \A i \in Jobs : Doomed(i)' <=> Doomed(i)
    <3>1. ~Doomed(j) /\ ~Doomed(j)'
      <4>1. ~Doomed(j)
        BY <2>1 DEF Doomed
      <4>2. /\ timeoutChan'[j] = "empty" /\ verdict'[j] = "none"
            /\ j \notin aborting' /\ serving' # j
        BY <1>1 DEF Register, MappingInv, Pending
      <4> QED
        BY <4>1, <4>2 DEF Doomed
    <3>2. \A i \in Jobs \ {j} : Doomed(i)' <=> Doomed(i)
      BY <1>1, <2>2 DEF Register, Doomed
    <3> QED
      BY <3>1, <3>2
  <2>4. Abstract!Request(j)
    BY <1>1, <2>1, <2>2, <2>3 DEF Abstract!Request, Register
  <2> QED
    BY <2>4 DEF Abstract!Next
<1>2. ASSUME NEW j \in Jobs, SelectResponse(j) PROVE Same
  BY <1>2 DEF SelectResponse, Phase, Doomed, MappingInv, TypeOK
<1>3. ASSUME NEW j \in Jobs, SelectTimeout(j) PROVE Same
  BY <1>3 DEF SelectTimeout, Phase, Doomed, MappingInv, TypeOK
<1>4. ASSUME NEW j \in Jobs, Reply(j) PROVE Refines
  <2>1. Phase(j) = "inFlight" /\ Phase(j)' = "answered"
    BY <1>4 DEF Reply, ReplyWithHelper, Phase, TypeOK
  <2>2. \A i \in Jobs \ {j} : Phase(i)' = Phase(i) /\ (Doomed(i)' <=> Doomed(i))
    BY <1>4 DEF Reply, ReplyWithHelper, Phase, Doomed, TypeOK
  <2>3. ~Doomed(j)'
    BY <2>1 DEF Doomed
  <2>4. /\ verdict[j] \in {"ok", "err", "timedOut", "aborted"}
        /\ verdict[j] = "aborted" => Doomed(j)
    BY <1>4, <2>1 DEF Reply, ReplyWithHelper, Doomed, MappingInv, TypeOK
  <2>5. answer' = [answer EXCEPT ![j] = verdict[j]]
    BY <1>4 DEF Reply, ReplyWithHelper
  <2>6. Abstract!Answer(j)
    BY <2>1, <2>2, <2>3, <2>4, <2>5 DEF Abstract!Answer
  <2> QED
    BY <2>6 DEF Abstract!Next
<1>5. ASSUME NEW j \in Jobs, Deregister(j) PROVE Same
  BY <1>5 DEF Deregister, Phase, Doomed, TypeOK
<1>6. ASSUME NEW j \in Jobs, Worker(j) PROVE Same
  BY <1>6 DEF Worker, WorkerAdvance, WorkerFail, Phase, Doomed
<1>7. ASSUME NEW j \in Jobs, TimerFire(j) PROVE Same
  BY <1>7 DEF TimerFire, Phase, Doomed, TypeOK
<1>8. ASSUME NEW j \in Jobs, DrainTimeout(j) PROVE Same
  <2>1. handler[j] \notin {"new", "selecting", "replying"}
    BY <1>8 DEF DrainTimeout, HelperComesLast
  <2>2. Phase(j) = "answered" /\ Phase(j)' = "answered"
    BY <1>8, <2>1, PhaseOf DEF DrainTimeout, Phase
  <2> QED
    BY <1>8, <2>2 DEF DrainTimeout, Phase, Doomed, TypeOK
<1>9. ASSUME NEW j \in Jobs, CatchStraggler(j) PROVE Same
  BY <1>9 DEF CatchStraggler, Phase, Doomed
<1>10. ASSUME NEW j \in Jobs, Serializer(j) PROVE Same
  BY <1>10, NobodyAssumption
     DEF Serializer, PickWaiter, SendAbort, Phase, Doomed, TypeOK
<1>11. ASSUME TimeoutWaiters PROVE Refines
  <2>1. \A i \in Jobs : Phase(i)' = Phase(i)
    BY <1>11 DEF TimeoutWaiters, Phase
  <2>2. \A i \in Jobs : Phase(i) = "inFlight" => i \in Registered
    BY PhaseOf, KeyType DEF InFlightRegistered, InFlight, Registered
  <2>3. \A i \in Jobs : Doomed(i)' <=> Phase(i) = "inFlight"
    BY <1>11, <2>1, <2>2 DEF TimeoutWaiters, Doomed
  <2>4. Abstract!AbortAll
    BY <1>11, <2>1, <2>3 DEF Abstract!AbortAll, Abstract!InFlight, TimeoutWaiters
  <2> QED
    BY <2>4 DEF Abstract!Next
<1>12. CASE UNCHANGED vars
  <2>1. Same
    BY <1>12 DEF vars, Phase, Doomed
  <2> QED
    BY <1>0, <2>1
<1> QED
  BY <1>0, <1>1, <1>2, <1>3, <1>4, <1>5, <1>6, <1>7, <1>8, <1>9, <1>10, <1>11,
     <1>12 DEF Next, Handler, Helper, Terminated

(* What proxyConnect and runCmd do is what their callers rely on           *)
(* (resolve.go:51, run.go:177 and 215, state.go:433-436): a request is     *)
(* answered once, and "aborted" only if TimeoutWaiters found it in flight, *)
(* however often that is called.                                           *)
THEOREM AnswersOnce == ASSUME DistinctKeys PROVE Spec => Abstract!Spec
<1>1. Init => InFlightRegistered
  BY DEF Init, InFlightRegistered, InFlight
<1>2. Init => HelperComesLast
  BY DEF Init, HelperComesLast
<1> QED
  BY <1>1, <1>2, TypeInit, TypeStep, NoStaleInit, NoStaleStep, WorkerInit,
     WorkerStep, MappingInit, MappingStep, RegisteredStep, AbstractInit,
     AbstractStep, PTL DEF Spec, Abstract!Spec, WorkerInv

=============================================================================

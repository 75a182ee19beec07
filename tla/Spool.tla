------------------------------- MODULE Spool -------------------------------
(***************************************************************************)
(* What becomes of a remote command's outcome: the worker goroutine of     *)
(* runCmd and its spool files (run.go), the status recorded for the host   *)
(* (state.go), and the summary printed of it (summary.go).                 *)
(*                                                                         *)
(* Sessions connect, disconnect and toggle spooling whenever they like;    *)
(* one of them gives run commands.  A worker that cannot make its files    *)
(* turns spooling off too: e.c.Spool is one flag for all goroutines, and a *)
(* worker reads it three times.                                            *)
(*                                                                         *)
(* The handler of a run may give up first (Waiters).  Then its worker goes *)
(* on as a straggler, while the next run starts another one for the host.  *)
(* Tee only chooses whether output is printed besides, and is left out.    *)
(***************************************************************************)
EXTENDS Integers, FiniteSets

CONSTANTS
    Hosts,       \* the targets
    MaxRuns,     \* bound: run commands
    MaxConnects, \* bound: connect commands
    MaxToggles,  \* bound: spool commands
    FailingFiles \* spool files, of .out, .err and .ret, that may not be made

Files == {"out", "err", "ret"}

ASSUME HostsAssumption == IsFiniteSet(Hosts)
ASSUME MaxRunsAssumption == MaxRuns \in Nat
ASSUME MaxConnectsAssumption == MaxConnects \in Nat
ASSUME MaxTogglesAssumption == MaxToggles \in Nat
ASSUME FailingFilesAssumption == FailingFiles \subseteq Files

(* The workers of runCmd: one for each host and run.                       *)
Workers == Hosts \X (1..MaxRuns)
Nil == "nil"
Errors == {"refused", "no session", "exit status", "unknown",
           "invalid file", "run timed out", "run aborted"}

VARIABLES
    spool,      \* e.c.Spool
    toggles,    \* how often it was toggled by command
    listed,     \* the hosts that are connected
    info,       \* HostInfo of each
    runs,       \* how many run commands were given
    connects,   \* how many connect commands
    pc,         \* the workers
    handles,    \* the spool files each holds open
    seen,       \* at which of its three looks spooling was on, for a worker
    exit,       \* how its command ended
    err,        \* its variable err, which becomes its response
    recorded    \* what was recorded of the run

commandVars == <<spool, toggles>>
hostVars == <<listed, info, connects>>
workerVars == <<pc, handles, seen, exit, err>>
vars == <<commandVars, hostVars, runs, workerVars, recorded>>

HostInfo == [connectedOK : BOOLEAN, runOK : BOOLEAN, runOnce : BOOLEAN,
             lastError : Errors \cup {Nil}]

Init ==
    /\ spool \in BOOLEAN
    /\ toggles = 0
    /\ listed = {}
    /\ info = [h \in Hosts |-> [connectedOK |-> FALSE, runOK |-> FALSE,
                                runOnce |-> FALSE, lastError |-> Nil]]
    /\ runs = 0
    /\ connects = 0
    /\ pc = [w \in Workers |-> "none"]
    /\ handles = [w \in Workers |-> {}]
    /\ seen = [w \in Workers |-> {}]
    /\ exit = [w \in Workers |-> "none"]
    /\ err = [w \in Workers |-> Nil]
    /\ recorded = [w \in Workers |-> "none"]

-----------------------------------------------------------------------------
(* The commands.  The next run is given when the last has returned.        *)
Returned == \A w \in Workers : pc[w] = "none" \/ recorded[w] # "none"

ToggleSpool ==
    /\ toggles < MaxToggles
    /\ spool' = ~spool
    /\ toggles' = toggles + 1
    /\ UNCHANGED <<hostVars, runs, workerVars, recorded>>

(* Mutant: an error of the connection is kept until there is another.      *)
KeepError(h, e) ==
    info' = [info EXCEPT ![h].connectedOK = e = Nil,
                         ![h].lastError = IF e = Nil THEN @ ELSE e]

SetConnectionStatus(h, e) ==
    info' = [info EXCEPT ![h].connectedOK = e = Nil, ![h].lastError = e]

SetRunStatus(h, e) ==
    info' = [info EXCEPT ![h].runOK = e = Nil, ![h].runOnce = TRUE,
                         ![h].lastError = e]

(* connect tries a host that is not connected.                             *)
Connect(h, e) ==
    /\ h \notin listed /\ connects < MaxConnects
    /\ connects' = connects + 1
    /\ SetConnectionStatus(h, e)
    /\ listed' = IF e = Nil THEN listed \cup {h} ELSE listed
    /\ UNCHANGED <<commandVars, runs, workerVars, recorded>>

Disconnect ==
    /\ listed # {}
    /\ listed' = {}
    /\ UNCHANGED <<commandVars, info, connects, runs, workerVars, recorded>>

Run ==
    /\ Returned /\ runs < MaxRuns /\ listed # {}
    /\ runs' = runs + 1
    /\ pc' = [w \in Workers |->
                 IF w[1] \in listed /\ w[2] = runs + 1 THEN "files" ELSE pc[w]]
    /\ UNCHANGED <<commandVars, hostVars, handles, seen, exit, err, recorded>>

-----------------------------------------------------------------------------
(* spoolHandles makes three files.  When the second or the third cannot be *)
(* made it closes the others, and returns no files and the error of Close, *)
(* which is nil.                                                           *)
Made == [files |-> Files, failed |-> FALSE]

(* Mutant: the second file stays open when the third cannot be made.       *)
LeaveOpen ==
    {Made} \cup {[files |-> IF f = "ret" THEN {"err"} ELSE {},
                  failed |-> TRUE] : f \in FailingFiles}

SpoolHandles ==
    {Made} \cup {[files |-> {}, failed |-> f = "out"] : f \in FailingFiles}

(* With spooling on the worker makes its files, and turns spooling off if  *)
(* it is told that it could not.                                           *)
MakeFiles(w) ==
    /\ pc[w] = "files"
    /\ pc' = [pc EXCEPT ![w] = "session"]
    /\ IF spool
       THEN \E r \in SpoolHandles :
               /\ spool' = ~r.failed
               /\ handles' = [handles EXCEPT ![w] = r.files]
               /\ seen' = IF r.failed THEN seen
                          ELSE [seen EXCEPT ![w] = @ \cup {"files"}]
       ELSE UNCHANGED <<spool, handles, seen>>
    /\ UNCHANGED <<toggles, hostVars, runs, exit, err, recorded>>

(* The worker sends its response, to the handler or, when that has given   *)
(* up, to the goroutine that waits for stragglers.                         *)
Respond(w, e) ==
    /\ pc' = [pc EXCEPT ![w] = "responded"]
    /\ err' = [err EXCEPT ![w] = e]

(* NewSession, or Start, fails.                                            *)
NoSession(w) ==
    /\ pc[w] \in {"session", "running"}
    /\ Respond(w, "no session")
    /\ UNCHANGED <<commandVars, hostVars, runs, handles, seen, exit, recorded>>

(* The session is there; the output goes to the files or to memory.        *)
StartCommand(w) ==
    /\ pc[w] = "session"
    /\ pc' = [pc EXCEPT ![w] = "running"]
    /\ seen' = [seen EXCEPT ![w] = IF spool THEN @ \cup {"pipes"} ELSE @]
    /\ UNCHANGED <<commandVars, hostVars, runs, handles, exit, err, recorded>>

(* Wait returns.  With spooling on the exit code is written, and the error *)
(* of that is the error there is.                                          *)
ErrorOf(how) == CASE how = "zero" -> Nil [] how = "status" -> "exit status"
                  [] how = "lost" -> "unknown"

(* Mutant: the error is forgotten in any case.                             *)
ForgetError(w, how) == Nil

ResultOf(w, how) ==
    IF ~spool THEN ErrorOf(how)
    ELSE IF "ret" \in handles[w] THEN Nil ELSE "invalid file"

CommandEnds(w, how) ==
    /\ pc[w] = "running"
    /\ exit' = [exit EXCEPT ![w] = how]
    /\ Respond(w, ResultOf(w, how))
    /\ seen' = [seen EXCEPT ![w] = IF spool THEN @ \cup {"ret"} ELSE @]
    /\ UNCHANGED <<commandVars, hostVars, runs, handles, recorded>>

(* When the response was received the worker returns, and the files that   *)
(* were promised are closed.                                               *)
CloseFiles(w) ==
    /\ pc[w] = "responded"
    /\ pc' = [pc EXCEPT ![w] = "returned"]
    /\ handles' = [handles EXCEPT ![w] = IF "files" \in seen[w] THEN {} ELSE @]
    /\ UNCHANGED <<commandVars, hostVars, runs, seen, exit, err, recorded>>

Worker(w) ==
    \/ MakeFiles(w) \/ NoSession(w) \/ StartCommand(w) \/ CloseFiles(w)
    \/ \E how \in {"zero", "status", "lost"} : CommandEnds(w, how)

(* runEverywhere's goroutine records the response, or the handler's error  *)
(* when it gives up; the straggler's response is dropped.                  *)
Record(w) ==
    /\ pc[w] \in {"responded", "returned"} /\ recorded[w] = "none"
    /\ SetRunStatus(w[1], err[w])
    /\ recorded' = [recorded EXCEPT ![w] = IF err[w] = Nil THEN "ok" ELSE "failed"]
    /\ UNCHANGED <<commandVars, listed, connects, runs, workerVars>>

GivesUp(w, e) ==
    /\ pc[w] \notin {"none", "returned"} /\ recorded[w] = "none"
    /\ SetRunStatus(w[1], e)
    /\ recorded' = [recorded EXCEPT ![w] = "given up"]
    /\ UNCHANGED <<commandVars, listed, connects, runs, workerVars>>

(* Mutant: an error the summary's list does not have.                      *)
MisspelledTimeout(w) == GivesUp(w, "run time out")

HandlerGivesUp(w) == \E e \in {"run timed out", "run aborted"} : GivesUp(w, e)

Next ==
    \/ ToggleSpool \/ Disconnect \/ Run
    \/ \E h \in Hosts, e \in {Nil, "refused"} : Connect(h, e)
    \/ \E w \in Workers : Worker(w) \/ Record(w) \/ HandlerGivesUp(w)

Spec == Init /\ [][Next]_vars

-----------------------------------------------------------------------------
(* printSummary: the failures, and how many errors of each kind there are. *)
ConnectedOK == {h \in Hosts : info[h].connectedOK}
RunOnce == {h \in Hosts : info[h].runOnce}
RunOK == {h \in Hosts : info[h].runOK}
ConnectFail == Cardinality(Hosts) - Cardinality(ConnectedOK)
RunFail == Cardinality(RunOnce) - Cardinality(RunOK)

(* Errors it does not know are counted together.                           *)
Known == Errors \ {"no session", "unknown", "invalid file"}
Kinds == Known \cup {"unknown error"}
KindOf(e) == IF e \in Known THEN e ELSE "unknown error"
Counts(hosts) ==
    [k \in Kinds |-> Cardinality({h \in hosts : info[h].lastError # Nil
                                              /\ KindOf(info[h].lastError) = k})]
ConnectErrorCounts == Counts(Hosts \ ConnectedOK)
RunErrorCounts == Counts(ConnectedOK)
Total(counts) ==
    counts["refused"] + counts["exit status"] + counts["run timed out"]
        + counts["run aborted"] + counts["unknown error"]

(* The heading of the run failures is left out when no run went OK.  Their *)
(* errors are listed all the same, below the connection failures.          *)
RunHeading == RunOnce \cap RunOK # {}
UnderRun == IF RunHeading THEN Total(RunErrorCounts) ELSE 0
UnderConnect == Total(ConnectErrorCounts)
                    + IF RunHeading THEN 0 ELSE Total(RunErrorCounts)

-----------------------------------------------------------------------------
(* The type of every variable.                                             *)
TypeOK ==
    /\ spool \in BOOLEAN
    /\ toggles \in 0..MaxToggles
    /\ listed \subseteq Hosts
    /\ info \in [Hosts -> HostInfo]
    /\ runs \in 0..MaxRuns /\ connects \in 0..MaxConnects
    /\ pc \in [Workers -> {"none", "files", "session", "running", "responded",
                           "returned"}]
    /\ handles \in [Workers -> SUBSET Files]
    /\ seen \in [Workers -> SUBSET {"files", "pipes", "ret"}]
    /\ exit \in [Workers -> {"none", "zero", "status", "lost"}]
    /\ err \in [Workers -> (Errors \ {"refused"}) \cup {Nil}]
    /\ recorded \in [Workers -> {"none", "ok", "failed", "given up"}]

(* run.go:48-63 and 235-261: whichever file cannot be made, and whatever   *)
(* happens to the flag and the run, a worker that has returned holds none  *)
(* of its spool files open.                                                *)
NoHandleLeft == \A w \in Workers : pc[w] = "returned" => handles[w] = {}

(* summary.go:79-111 and 136-149: in whatever order hosts are connected,   *)
(* disconnected and run on, every error the summary lists is that of a     *)
(* failure it counts.  Under "run failures" there are never more than the  *)
(* heading says, and no connection error is taken for one of a run.  Under *)
(* "connection failures" there are more than it says only when no run went *)
(* OK, and then no more than failed runs.                                  *)
ErrorsAreOfFailures ==
    /\ UnderRun \leq RunFail
    /\ UnderConnect \leq ConnectFail + IF RunHeading THEN 0 ELSE RunFail
    /\ RunErrorCounts["refused"] = 0

(* run.go:114-135: a worker that saw spooling off all along says that the  *)
(* command succeeded exactly when it did.                                  *)
UnspooledTruth ==
    \A w \in Workers : recorded[w] \in {"ok", "failed"} /\ seen[w] = {} =>
        (recorded[w] = "ok" <=> exit[w] = "zero")

(* state.go:81-82 and 110: SetRunStatus records, for a command, whether it *)
(* went OK, and what was the error if not.                                 *)
OKMeansZero ==
    \A w \in Workers : recorded[w] = "ok" => exit[w] = "zero"

=============================================================================

---------------------------- MODULE SpoolProofs ----------------------------
(***************************************************************************)
(* Theorems about Spool, for any hosts, any number of commands, and any    *)
(* files that cannot be made.                                              *)
(***************************************************************************)
EXTENDS Spool, FiniteSetTheorems, TLAPS

States == {"none", "files", "session", "running", "responded", "returned"}
RunErrors == Errors \ {"refused"}

(* The types hold at the start,                                            *)
LEMMA TypeInit == Init => TypeOK
BY MaxRunsAssumption, MaxConnectsAssumption, MaxTogglesAssumption
   DEF Init, TypeOK, HostInfo, Nil, Errors, Files, States, RunErrors

(* SetConnectionStatus and SetRunStatus keep a HostInfo a HostInfo,        *)
LEMMA StatusType ==
    ASSUME TypeOK, NEW h \in Hosts, NEW e \in Errors \cup {Nil},
           SetConnectionStatus(h, e) \/ SetRunStatus(h, e)
    PROVE  info' \in [Hosts -> HostInfo]
<1> DEFINE Connected(b) == [info EXCEPT ![h].connectedOK = b, ![h].lastError = e]
           Ran(b) == [info EXCEPT ![h].runOK = b, ![h].runOnce = TRUE,
                                  ![h].lastError = e]
<1>1. \A b \in BOOLEAN : /\ Connected(b) \in [Hosts -> HostInfo]
                         /\ Ran(b) \in [Hosts -> HostInfo]
  <2> TAKE b \in BOOLEAN
  <2> DEFINE c1 == [info[h] EXCEPT !.connectedOK = b, !.lastError = e]
             r1 == [info[h] EXCEPT !.runOK = b, !.runOnce = TRUE, !.lastError = e]
  <2>1. info \in [Hosts -> HostInfo]
    BY DEF TypeOK
  <2>2. c1 \in HostInfo /\ r1 \in HostInfo
    BY <2>1 DEF HostInfo
  <2>3. /\ Connected(b) = [info EXCEPT ![h] = c1]
        /\ Ran(b) = [info EXCEPT ![h] = r1]
    BY <2>1
  <2> HIDE DEF Connected, Ran, c1, r1
  <2> QED
    BY <2>1, <2>2, <2>3
<1>2. (e = Nil) \in BOOLEAN
  OBVIOUS
<1>3. info' = Connected(e = Nil) \/ info' = Ran(e = Nil)
  BY Zenon DEF SetConnectionStatus, SetRunStatus
<1> HIDE DEF Connected, Ran
<1> QED
  BY <1>1, <1>2, <1>3, Zenon

(* the files that could be made are spool files, and none are promised     *)
(* when making them failed,                                                *)
LEMMA SpoolHandlesFiles ==
    \A r \in SpoolHandles : r.files \subseteq Files /\ (r.files # {} => ~r.failed)
<1> SUFFICES ASSUME NEW r \in SpoolHandles
             PROVE  r.files \subseteq Files /\ (r.files # {} => ~r.failed)
  OBVIOUS
<1>1. CASE r = Made
  BY <1>1 DEF Made
<1>2. CASE \E f \in FailingFiles : r = [files |-> {}, failed |-> f = "out"]
  BY <1>2
<1> QED
  BY <1>1, <1>2, Zenon DEF SpoolHandles

(* and every step keeps the types.                                         *)
LEMMA TypeStep == TypeOK /\ [Next]_vars => TypeOK'
<1> SUFFICES ASSUME TypeOK, [Next]_vars PROVE TypeOK'
  OBVIOUS
<1> USE MaxRunsAssumption, MaxConnectsAssumption, MaxTogglesAssumption
    DEF commandVars, hostVars, workerVars, States, RunErrors
<1>1. CASE ToggleSpool
  <2>1. spool' \in BOOLEAN
    BY <1>1, Zenon DEF ToggleSpool
  <2>2. toggles' \in 0..MaxToggles
    <3>1. toggles < MaxToggles /\ toggles' = toggles + 1
      BY <1>1 DEF ToggleSpool
    <3>2. toggles \in 0..MaxToggles
      BY DEF TypeOK
    <3> QED
      BY <3>1, <3>2
  <2> QED
    BY <1>1, <2>1, <2>2 DEF ToggleSpool, TypeOK
<1>2. CASE Disconnect
  BY <1>2 DEF Disconnect, TypeOK
<1>3. CASE Run
  <2>1. runs' \in 0..MaxRuns
    <3>1. runs < MaxRuns /\ runs' = runs + 1
      BY <1>3 DEF Run
    <3>2. runs \in 0..MaxRuns
      BY DEF TypeOK
    <3> QED
      BY <3>1, <3>2
  <2>2. pc' \in [Workers -> States]
    BY <1>3 DEF Run, TypeOK
  <2> QED
    BY <1>3, <2>1, <2>2 DEF Run, TypeOK
<1>4. ASSUME NEW h \in Hosts, NEW e \in {Nil, "refused"}, Connect(h, e)
      PROVE  TypeOK'
  <2>1. info' \in [Hosts -> HostInfo]
    BY <1>4, StatusType DEF Connect, Errors
  <2>2. connects' \in 0..MaxConnects
    <3>1. connects < MaxConnects /\ connects' = connects + 1
      BY <1>4 DEF Connect
    <3>2. connects \in 0..MaxConnects
      BY DEF TypeOK
    <3> QED
      BY <3>1, <3>2
  <2>3. listed' \subseteq Hosts
    <3>1. listed' \subseteq listed \cup {h}
      BY <1>4 DEF Connect
    <3> QED
      BY <3>1 DEF TypeOK
  <2> QED
    BY <1>4, <2>1, <2>2, <2>3 DEF Connect, TypeOK
<1>5. ASSUME NEW w \in Workers, MakeFiles(w) PROVE TypeOK'
  <2>1. spool' \in BOOLEAN /\ handles' \in [Workers -> SUBSET Files]
    <3>1. CASE spool
      <4>1. PICK r \in SpoolHandles : spool' = ~r.failed
                                    /\ handles' = [handles EXCEPT ![w] = r.files]
        BY <1>5, <3>1 DEF MakeFiles
      <4>2. (~r.failed) \in BOOLEAN
        OBVIOUS
      <4>3. spool' \in BOOLEAN
        BY <4>1, <4>2, Zenon
      <4> QED
        BY <4>1, <4>3, SpoolHandlesFiles DEF TypeOK
    <3>2. CASE ~spool
      BY <1>5, <3>2 DEF MakeFiles, TypeOK
    <3> QED
      BY <3>1, <3>2
  <2>2. seen' \in [Workers -> SUBSET {"files", "pipes", "ret"}]
    <3>1. seen' = seen \/ seen' = [seen EXCEPT ![w] = @ \cup {"files"}]
      BY <1>5, Zenon DEF MakeFiles
    <3>2. seen \in [Workers -> SUBSET {"files", "pipes", "ret"}]
      BY DEF TypeOK
    <3>3. seen[w] \cup {"files"} \in SUBSET {"files", "pipes", "ret"}
      BY <3>2
    <3> QED
      BY <3>1, <3>2, <3>3
  <2>3. pc' \in [Workers -> States]
    <3>1. pc' = [pc EXCEPT ![w] = "session"]
      BY <1>5 DEF MakeFiles
    <3> QED
      BY <3>1 DEF TypeOK
  <2> QED
    BY <1>5, <2>1, <2>2, <2>3 DEF MakeFiles, TypeOK
<1>6. ASSUME NEW w \in Workers, NoSession(w) PROVE TypeOK'
  BY <1>6 DEF NoSession, Respond, TypeOK, Errors
<1>7. ASSUME NEW w \in Workers, StartCommand(w) PROVE TypeOK'
  BY <1>7 DEF StartCommand, TypeOK
<1>8. ASSUME NEW w \in Workers, NEW how \in {"zero", "status", "lost"},
             CommandEnds(w, how)
      PROVE  TypeOK'
  <2>1. ResultOf(w, how) \in RunErrors \cup {Nil}
    BY DEF ResultOf, ErrorOf, Errors, Nil
  <2> QED
    BY <1>8, <2>1 DEF CommandEnds, Respond, TypeOK
<1>9. ASSUME NEW w \in Workers, Record(w) PROVE TypeOK'
  <2>1. w[1] \in Hosts /\ err[w] \in Errors \cup {Nil}
    BY DEF Workers, TypeOK
  <2>2. info' \in [Hosts -> HostInfo]
    BY <1>9, <2>1, StatusType DEF Record
  <2> QED
    BY <1>9, <2>2 DEF Record, TypeOK
<1>10. ASSUME NEW w \in Workers, HandlerGivesUp(w) PROVE TypeOK'
  <2>1. PICK e \in {"run timed out", "run aborted"} : GivesUp(w, e)
    BY <1>10 DEF HandlerGivesUp
  <2>2. w[1] \in Hosts /\ e \in Errors \cup {Nil}
    BY DEF Workers, Errors
  <2>3. info' \in [Hosts -> HostInfo]
    BY <2>1, <2>2, StatusType DEF GivesUp
  <2> QED
    BY <2>1, <2>3 DEF GivesUp, TypeOK
<1>11. ASSUME NEW w \in Workers, CloseFiles(w) PROVE TypeOK'
  <2>1. handles' = handles \/ handles' = [handles EXCEPT ![w] = {}]
    BY <1>11 DEF CloseFiles, TypeOK
  <2> QED
    BY <1>11, <2>1 DEF CloseFiles, TypeOK
<1>12. CASE UNCHANGED vars
  BY <1>12 DEF vars, TypeOK
<1> QED
  BY <1>1, <1>2, <1>3, <1>4, <1>5, <1>6, <1>7, <1>8, <1>9, <1>10, <1>11, <1>12
     DEF Next, Worker

(* The variables of Spool keep their types.                                *)
THEOREM SpoolTypeCorrect == Spec => []TypeOK
BY TypeInit, TypeStep, PTL DEF Spec

-----------------------------------------------------------------------------
(* A worker holds either nothing, or all the files it was promised, which  *)
(* it closes when it returns: spoolHandles never leaves one behind that    *)
(* the worker does not know of.                                            *)
HandlesKnown(w) ==
    /\ w[2] > runs => pc[w] = "none"
    /\ pc[w] \in {"none", "files", "returned"} => handles[w] = {}
    /\ handles[w] # {} => "files" \in seen[w]
KnownHandles == \A w \in Workers : HandlesKnown(w)

(* At each line between, files are held only as promised.                  *)
LEMMA KnownHandlesStep ==
    TypeOK /\ KnownHandles /\ [Next]_vars => KnownHandles'
<1> USE DEF HandlesKnown, States
<1> SUFFICES ASSUME TypeOK, KnownHandles, [Next]_vars, NEW v \in Workers
             PROVE  HandlesKnown(v)'
  BY DEF KnownHandles
<1>0. v[2] \in Nat /\ runs \in Nat /\ HandlesKnown(v)
  <2>1. v[2] \in Nat
    BY MaxRunsAssumption DEF Workers
  <2>2. runs \in 0..MaxRuns
    BY DEF TypeOK
  <2>3. HandlesKnown(v)
    BY DEF KnownHandles
  <2> QED
    BY <2>1, <2>2, <2>3, MaxRunsAssumption
<1>a. pc \in [Workers -> States]
  BY DEF TypeOK
<1>b. handles \in [Workers -> SUBSET Files]
  BY DEF TypeOK
<1>c. seen \in [Workers -> SUBSET {"files", "pipes", "ret"}]
  BY DEF TypeOK
<1> USE <1>0, <1>a, <1>b, <1>c DEF commandVars, hostVars, workerVars
<1>1. CASE UNCHANGED <<runs, pc, handles, seen>>
  BY <1>1
<1>2. CASE Run
  <2>1. runs' = runs + 1
    BY <1>2 DEF Run
  <2>2. UNCHANGED <<handles, seen>>
    BY <1>2 DEF Run
  <2>3. pc'[v] = IF v[1] \in listed /\ v[2] = runs + 1 THEN "files" ELSE pc[v]
    BY <1>2 DEF Run
  <2> QED
    BY <2>1, <2>2, <2>3
<1>3. ASSUME NEW w \in Workers, MakeFiles(w) PROVE HandlesKnown(v)'
  <2>1. CASE spool
    <3>1. PICK r \in SpoolHandles :
             /\ handles' = [handles EXCEPT ![w] = r.files]
             /\ seen' = IF r.failed THEN seen
                        ELSE [seen EXCEPT ![w] = @ \cup {"files"}]
      BY <1>3, <2>1 DEF MakeFiles
    <3> QED
      BY <1>3, <3>1, SpoolHandlesFiles DEF MakeFiles
  <2>2. CASE ~spool
    BY <1>3, <2>2 DEF MakeFiles
  <2> QED
    BY <2>1, <2>2
<1>4. ASSUME NEW w \in Workers, NoSession(w) PROVE HandlesKnown(v)'
  BY <1>4 DEF NoSession, Respond
<1>5. ASSUME NEW w \in Workers, StartCommand(w) PROVE HandlesKnown(v)'
  BY <1>5 DEF StartCommand
<1>6. ASSUME NEW w \in Workers, NEW how \in {"zero", "status", "lost"},
             CommandEnds(w, how)
      PROVE  HandlesKnown(v)'
  BY <1>6 DEF CommandEnds, Respond
<1>7. ASSUME NEW w \in Workers, CloseFiles(w) PROVE HandlesKnown(v)'
  BY <1>7 DEF CloseFiles
<1> QED
  BY <1>1, <1>2, <1>3, <1>4, <1>5, <1>6, <1>7
     DEF Next, Worker, vars, ToggleSpool, Disconnect, Connect, Record,
         HandlerGivesUp, GivesUp

(* A worker that has returned holds none of its spool files open           *)
(* (run.go:48-63 and 235-261), whichever files cannot be made and however  *)
(* spooling is toggled meanwhile.                                          *)
THEOREM NoHandleLeftCorrect == Spec => []NoHandleLeft
<1>1. Init => TypeOK /\ KnownHandles
  BY TypeInit DEF Init, KnownHandles, HandlesKnown, Workers
<1>2. KnownHandles => NoHandleLeft
  BY DEF KnownHandles, HandlesKnown, NoHandleLeft
<1>3. TypeOK /\ KnownHandles /\ [Next]_vars => TypeOK' /\ KnownHandles'
  BY TypeStep, KnownHandlesStep
<1> QED
  BY <1>1, <1>2, <1>3, PTL DEF Spec

-----------------------------------------------------------------------------
(* What becomes of a command that was never spooled: its error is Nil if   *)
(* it exited with zero, and that is what is recorded.                      *)
Over == {"responded", "returned"}
Truthful ==
    \A w \in Workers :
        /\ pc[w] \notin Over => exit[w] = "none" /\ recorded[w] \notin {"ok", "failed"}
        /\ pc[w] \in Over /\ seen[w] = {} => (err[w] = Nil <=> exit[w] = "zero")
        /\ recorded[w] \in {"ok", "failed"} => (recorded[w] = "ok" <=> err[w] = Nil)

(* A worker responds once, and its response is what Record reads.          *)
LEMMA TruthfulStep ==
    TypeOK /\ KnownHandles /\ Truthful /\ [Next]_vars => Truthful'
<1> DEFINE True(v) ==
        /\ pc[v] \notin Over => exit[v] = "none" /\ recorded[v] \notin {"ok", "failed"}
        /\ pc[v] \in Over /\ seen[v] = {} => (err[v] = Nil <=> exit[v] = "zero")
        /\ recorded[v] \in {"ok", "failed"} => (recorded[v] = "ok" <=> err[v] = Nil)
<1> SUFFICES ASSUME TypeOK, KnownHandles, Truthful, [Next]_vars, NEW v \in Workers
             PROVE  True(v)'
  BY DEF Truthful
<1> USE DEF Over, States
<1>0. True(v)
  BY DEF Truthful
<1>a. pc \in [Workers -> States]
  BY DEF TypeOK
<1>b. seen \in [Workers -> SUBSET {"files", "pipes", "ret"}]
  BY DEF TypeOK
<1>c. exit \in [Workers -> {"none", "zero", "status", "lost"}]
  BY DEF TypeOK
<1>d. err \in [Workers -> RunErrors \cup {Nil}]
  BY DEF TypeOK, RunErrors
<1>e. recorded \in [Workers -> {"none", "ok", "failed", "given up"}]
  BY DEF TypeOK
<1>f. v[2] = runs + 1 => pc[v] = "none"
  <2>1. v[2] \in Nat
    BY MaxRunsAssumption DEF Workers
  <2>2. runs \in 0..MaxRuns
    BY DEF TypeOK
  <2>3. v[2] > runs => pc[v] = "none"
    BY DEF KnownHandles, HandlesKnown
  <2> QED
    BY <2>1, <2>2, <2>3, MaxRunsAssumption
<1> USE <1>0, <1>a, <1>b, <1>c, <1>d, <1>e DEF commandVars, hostVars, workerVars
<1>1. CASE UNCHANGED <<pc, seen, exit, err, recorded>>
  BY <1>1
<1>2. CASE Run
  <2>1. pc[v] # "none" => pc'[v] = pc[v]
    <3>1. pc'[v] = IF v[1] \in listed /\ v[2] = runs + 1 THEN "files" ELSE pc[v]
      BY <1>2 DEF Run
    <3> QED
      BY <3>1, <1>f
  <2>2. pc'[v] # "files" => pc'[v] = pc[v]
    BY <1>2 DEF Run
  <2>3. UNCHANGED <<seen, exit, err, recorded>>
    BY <1>2 DEF Run
  <2> QED
    BY <2>1, <2>2, <2>3
<1>3. ASSUME NEW w \in Workers, MakeFiles(w) PROVE True(v)'
  <2>1. pc[w] = "files" /\ pc' = [pc EXCEPT ![w] = "session"]
    BY <1>3 DEF MakeFiles
  <2>2. UNCHANGED <<exit, err, recorded>>
    BY <1>3 DEF MakeFiles
  <2>3. v # w => seen'[v] = seen[v]
    BY <1>3 DEF MakeFiles
  <2> QED
    BY <2>1, <2>2, <2>3
<1>4. ASSUME NEW w \in Workers, NoSession(w) PROVE True(v)'
  BY <1>4 DEF NoSession, Respond, Nil
<1>5. ASSUME NEW w \in Workers, StartCommand(w) PROVE True(v)'
  BY <1>5 DEF StartCommand
<1>6. ASSUME NEW w \in Workers, NEW how \in {"zero", "status", "lost"},
             CommandEnds(w, how)
      PROVE  True(v)'
  <2>1. CASE spool
    <3>1. seen'[w] # {}
      BY <1>6, <2>1 DEF CommandEnds
    <3> QED
      BY <1>6, <2>1, <3>1 DEF CommandEnds, Respond
  <2>2. CASE ~spool
    <3>1. ResultOf(w, how) = Nil <=> how = "zero"
      BY <2>2 DEF ResultOf, ErrorOf, Nil
    <3> QED
      BY <1>6, <2>2, <3>1 DEF CommandEnds, Respond
  <2> QED
    BY <2>1, <2>2
<1>7. ASSUME NEW w \in Workers, Record(w) PROVE True(v)'
  BY <1>7 DEF Record
<1>8. ASSUME NEW w \in Workers, HandlerGivesUp(w) PROVE True(v)'
  BY <1>8 DEF HandlerGivesUp, GivesUp
<1>9. ASSUME NEW w \in Workers, CloseFiles(w) PROVE True(v)'
  BY <1>9 DEF CloseFiles
<1> QED
  BY <1>1, <1>2, <1>3, <1>4, <1>5, <1>6, <1>7, <1>8, <1>9
     DEF Next, Worker, vars, ToggleSpool, Disconnect, Connect

(* A worker that saw spooling off all along says that the command          *)
(* succeeded exactly when it did (run.go:114-135), whatever else toggles   *)
(* spooling or gives up.                                                   *)
THEOREM UnspooledTruthCorrect == Spec => []UnspooledTruth
<1>1. Init => TypeOK /\ KnownHandles /\ Truthful
  BY TypeInit DEF Init, KnownHandles, HandlesKnown, Truthful, Workers, Over
<1>2. TypeOK /\ Truthful => UnspooledTruth
  BY DEF Truthful, UnspooledTruth, TypeOK
<1>3. TypeOK /\ KnownHandles /\ Truthful /\ [Next]_vars
        => TypeOK' /\ KnownHandles' /\ Truthful'
  BY TypeStep, KnownHandlesStep, TruthfulStep
<1> QED
  BY <1>1, <1>2, <1>3, PTL DEF Spec

-----------------------------------------------------------------------------
(* What the summary relies on: a host counted as having run OK did run, and *)
(* an error left with a host that is connected is that of its last run,    *)
(* and not one of a connection.                                            *)
StatusFits ==
    \A h \in Hosts :
        /\ info[h].runOK => info[h].runOnce
        /\ info[h].connectedOK /\ info[h].lastError # Nil
             => /\ info[h].runOnce /\ ~info[h].runOK
                /\ info[h].lastError # "refused"

(* SetConnectionStatus and SetRunStatus keep the status of a host so: the  *)
(* first replaces the error of the last run too,                           *)
LEMMA StatusKeeps ==
    ASSUME TypeOK, StatusFits, NEW h \in Hosts, NEW e \in Errors \cup {Nil},
           SetConnectionStatus(h, e) \/ (SetRunStatus(h, e) /\ e # "refused")
    PROVE  StatusFits'
<1> SUFFICES ASSUME NEW g \in Hosts
             PROVE  /\ info'[g].runOK => info'[g].runOnce
                    /\ info'[g].connectedOK /\ info'[g].lastError # Nil
                         => /\ info'[g].runOnce /\ ~info'[g].runOK
                            /\ info'[g].lastError # "refused"
  BY DEF StatusFits
<1>1. info \in [Hosts -> HostInfo]
  BY DEF TypeOK
<1>2. /\ info[g].runOK => info[g].runOnce
      /\ info[g].connectedOK /\ info[g].lastError # Nil
           => /\ info[g].runOnce /\ ~info[g].runOK
              /\ info[g].lastError # "refused"
  BY DEF StatusFits
<1>3. CASE g # h
  <2>1. info'[g] = info[g]
    BY <1>1, <1>3 DEF SetConnectionStatus, SetRunStatus
  <2> QED
    BY <1>2, <2>1
<1>4. CASE g = h
  <2>1. CASE SetConnectionStatus(h, e)
    <3>1. info'[h] = [info[h] EXCEPT !.connectedOK = e = Nil, !.lastError = e]
      BY <1>1, <2>1 DEF SetConnectionStatus
    <3>2. /\ info'[h].runOK = info[h].runOK /\ info'[h].runOnce = info[h].runOnce
          /\ info'[h].connectedOK = (e = Nil) /\ info'[h].lastError = e
      BY <1>1, <3>1 DEF HostInfo
    <3> QED
      BY <1>2, <1>4, <3>2
  <2>2. CASE SetRunStatus(h, e) /\ e # "refused"
    <3>1. info'[h] = [info[h] EXCEPT !.runOK = e = Nil, !.runOnce = TRUE,
                                     !.lastError = e]
      BY <1>1, <2>2 DEF SetRunStatus
    <3>2. /\ info'[h].runOK = (e = Nil) /\ info'[h].runOnce = TRUE
          /\ info'[h].lastError = e
      BY <1>1, <3>1 DEF HostInfo
    <3>3. info'[h].runOnce
      BY <3>2
    <3>4. info'[h].lastError # Nil => ~info'[h].runOK
      BY <3>2
    <3>5. info'[h].lastError # "refused"
      BY <2>2, <3>2
    <3> QED
      BY <1>4, <3>3, <3>4, <3>5
  <2> QED
    BY <2>1, <2>2
<1> QED
  BY <1>3, <1>4

(* and no other line writes it.                                            *)
LEMMA StatusStep == TypeOK /\ StatusFits /\ [Next]_vars => StatusFits'
<1> SUFFICES ASSUME TypeOK, StatusFits, [Next]_vars PROVE StatusFits'
  OBVIOUS
<1> USE DEF commandVars, hostVars, workerVars
<1>1. CASE UNCHANGED info
  BY <1>1 DEF StatusFits
<1>2. ASSUME NEW h \in Hosts, NEW e \in {Nil, "refused"}, Connect(h, e)
      PROVE  StatusFits'
  BY <1>2, StatusKeeps DEF Connect, Errors
<1>3. ASSUME NEW w \in Workers, Record(w) PROVE StatusFits'
  <2>1. w[1] \in Hosts /\ err[w] \in Errors \cup {Nil} /\ err[w] # "refused"
    BY DEF Workers, TypeOK, Nil
  <2> QED
    BY <1>3, <2>1, StatusKeeps DEF Record
<1>4. ASSUME NEW w \in Workers, HandlerGivesUp(w) PROVE StatusFits'
  <2>1. PICK e \in {"run timed out", "run aborted"} : GivesUp(w, e)
    BY <1>4 DEF HandlerGivesUp
  <2>2. w[1] \in Hosts /\ e \in Errors \cup {Nil}
    BY DEF Workers, Errors
  <2> QED
    BY <2>1, <2>2, StatusKeeps DEF GivesUp
<1>5. ASSUME NEW w \in Workers, Worker(w) PROVE UNCHANGED info
  BY <1>5 DEF Worker, MakeFiles, NoSession, StartCommand, CommandEnds, CloseFiles
<1>6. CASE ToggleSpool \/ Disconnect \/ Run \/ UNCHANGED vars
  BY <1>1, <1>6 DEF ToggleSpool, Disconnect, Run, vars
<1> QED
  BY <1>1, <1>2, <1>3, <1>4, <1>5, <1>6, Zenon DEF Next

(* A set in five parts is as large as the five.                            *)
LEMMA FiveParts ==
    ASSUME NEW S, IsFiniteSet(S), NEW A, NEW B, NEW C, NEW D, NEW E,
           A \subseteq S, B \subseteq S, C \subseteq S, D \subseteq S, E \subseteq S,
           A \cap B = {}, (A \cup B) \cap C = {}, (A \cup B \cup C) \cap D = {},
           (A \cup B \cup C \cup D) \cap E = {}
    PROVE  Cardinality(A) + Cardinality(B) + Cardinality(C) + Cardinality(D)
             + Cardinality(E) \leq Cardinality(S)
<1>1. /\ IsFiniteSet(A) /\ IsFiniteSet(B) /\ IsFiniteSet(C)
      /\ IsFiniteSet(D) /\ IsFiniteSet(E)
  BY FS_Subset
<1>2. \A P, Q : IsFiniteSet(P) /\ IsFiniteSet(Q) /\ P \cap Q = {} =>
                   /\ IsFiniteSet(P \cup Q)
                   /\ Cardinality(P \cup Q) = Cardinality(P) + Cardinality(Q)
  <2> SUFFICES ASSUME NEW P, NEW Q, IsFiniteSet(P), IsFiniteSet(Q), P \cap Q = {}
               PROVE  /\ IsFiniteSet(P \cup Q)
                      /\ Cardinality(P \cup Q) = Cardinality(P) + Cardinality(Q)
    OBVIOUS
  <2>1. Cardinality(P \cap Q) = 0
    BY FS_EmptySet
  <2>2. Cardinality(P) \in Nat /\ Cardinality(Q) \in Nat
    BY FS_CardinalityType
  <2>3. /\ IsFiniteSet(P \cup Q)
        /\ Cardinality(P \cup Q)
             = Cardinality(P) + Cardinality(Q) - Cardinality(P \cap Q)
    BY FS_Union
  <2> QED
    BY <2>1, <2>2, <2>3
<1> DEFINE AB == A \cup B
           ABC == AB \cup C
           ABCD == ABC \cup D
           ABCDE == ABCD \cup E
<1>3. IsFiniteSet(AB) /\ Cardinality(AB) = Cardinality(A) + Cardinality(B)
  BY <1>1, <1>2
<1>4. IsFiniteSet(ABC) /\ Cardinality(ABC) = Cardinality(AB) + Cardinality(C)
  <2>1. AB \cap C = {}
    OBVIOUS
  <2> HIDE DEF AB
  <2> QED
    BY <1>1, <1>2, <1>3, <2>1
<1>5. IsFiniteSet(ABCD) /\ Cardinality(ABCD) = Cardinality(ABC) + Cardinality(D)
  <2>1. ABC \cap D = {}
    OBVIOUS
  <2> HIDE DEF ABC
  <2> QED
    BY <1>1, <1>2, <1>4, <2>1
<1>6. IsFiniteSet(ABCDE) /\ Cardinality(ABCDE) = Cardinality(ABCD) + Cardinality(E)
  <2>1. ABCD \cap E = {}
    OBVIOUS
  <2> HIDE DEF ABCD
  <2> QED
    BY <1>1, <1>2, <1>5, <2>1
<1>7. Cardinality(ABCDE) \leq Cardinality(S)
  BY FS_Subset
<1>8. /\ Cardinality(A) \in Nat /\ Cardinality(B) \in Nat /\ Cardinality(C) \in Nat
      /\ Cardinality(D) \in Nat /\ Cardinality(E) \in Nat /\ Cardinality(S) \in Nat
  BY <1>1, FS_CardinalityType
<1> HIDE DEF AB, ABC, ABCD, ABCDE
<1> QED
  BY <1>3, <1>4, <1>5, <1>6, <1>7, <1>8

(* The errors counted for some hosts are no more than those of them that   *)
(* have one: a host has one error, and it is of one kind.                  *)
LEMMA CountedOnce ==
    ASSUME NEW hosts, IsFiniteSet(hosts)
    PROVE  /\ Total(Counts(hosts)) \in Nat
           /\ Total(Counts(hosts))
                \leq Cardinality({h \in hosts : info[h].lastError # Nil})
<1> DEFINE Failed == {h \in hosts : info[h].lastError # Nil}
           Of(k) == {h \in hosts : info[h].lastError # Nil
                                   /\ KindOf(info[h].lastError) = k}
<1>1. IsFiniteSet(Failed)
  BY FS_Subset
<1>2. \A k \in Kinds : Counts(hosts)[k] = Cardinality(Of(k))
  BY DEF Counts
<1>3. {"refused", "exit status", "run timed out", "run aborted", "unknown error"}
        \subseteq Kinds
  BY DEF Kinds, Known, Errors
<1>4. Total(Counts(hosts)) =
        Cardinality(Of("refused")) + Cardinality(Of("exit status"))
          + Cardinality(Of("run timed out")) + Cardinality(Of("run aborted"))
          + Cardinality(Of("unknown error"))
  <2> HIDE DEF Of
  <2> QED
    BY <1>2, <1>3 DEF Total
<1>5. \A j, k : j # k => Of(j) \cap Of(k) = {}
  OBVIOUS
<1>6. \A k : Of(k) \subseteq Failed
  OBVIOUS
<1> HIDE DEF Of, Failed
<1>7. /\ (Of("refused") \cup Of("exit status")) \cap Of("run timed out") = {}
      /\ (Of("refused") \cup Of("exit status") \cup Of("run timed out"))
           \cap Of("run aborted") = {}
      /\ (Of("refused") \cup Of("exit status") \cup Of("run timed out")
            \cup Of("run aborted")) \cap Of("unknown error") = {}
      /\ Of("refused") \cap Of("exit status") = {}
  BY <1>5
<1>8. Total(Counts(hosts)) \leq Cardinality(Failed)
  BY <1>1, <1>4, <1>6, <1>7, FiveParts
<1>9. Total(Counts(hosts)) \in Nat
  <2>1. \A k : Cardinality(Of(k)) \in Nat
    <3>1. \A k : IsFiniteSet(Of(k))
      BY <1>1, <1>6, FS_Subset
    <3> QED
      BY <3>1, FS_CardinalityType
  <2>2. /\ Cardinality(Of("refused")) \in Nat
        /\ Cardinality(Of("exit status")) \in Nat
        /\ Cardinality(Of("run timed out")) \in Nat
        /\ Cardinality(Of("run aborted")) \in Nat
        /\ Cardinality(Of("unknown error")) \in Nat
    BY <2>1, Zenon
  <2>3. Cardinality(Of("refused")) + Cardinality(Of("exit status"))
          + Cardinality(Of("run timed out")) + Cardinality(Of("run aborted"))
          + Cardinality(Of("unknown error")) \in Nat
    <3> DEFINE a == Cardinality(Of("refused"))
               b == Cardinality(Of("exit status"))
               c == Cardinality(Of("run timed out"))
               d == Cardinality(Of("run aborted"))
               e == Cardinality(Of("unknown error"))
    <3>1. a \in Nat /\ b \in Nat /\ c \in Nat /\ d \in Nat /\ e \in Nat
      BY <2>2
    <3> HIDE DEF a, b, c, d, e
    <3>2. a + b + c + d + e \in Nat
      BY <3>1
    <3> QED
      BY <3>2 DEF a, b, c, d, e
  <2> QED
    BY <1>4, <2>3, Zenon
<1> QED
  BY <1>8, <1>9 DEF Failed

(* For any number of hosts, in whatever order they are connected,          *)
(* disconnected and run on, the errors the summary lists (summary.go:79-   *)
(* 111 and 136-149) are those of failures it counts: below the heading of  *)
(* the run failures no more than it says and none of a connection, and     *)
(* below that of the connection failures at most the failed runs more, if  *)
(* no run went OK, and otherwise none.                                     *)
THEOREM ErrorsAreOfFailuresCorrect == Spec => []ErrorsAreOfFailures
<1>1. Init => TypeOK /\ StatusFits
  BY TypeInit DEF Init, StatusFits
<1>2. TypeOK /\ StatusFits /\ [Next]_vars => TypeOK' /\ StatusFits'
  BY TypeStep, StatusStep
<1>3. ASSUME TypeOK, StatusFits PROVE ErrorsAreOfFailures
  <2>1. /\ ConnectedOK \subseteq Hosts /\ RunOnce \subseteq Hosts /\ RunOK \subseteq RunOnce
    BY <1>3 DEF ConnectedOK, RunOnce, RunOK, StatusFits
  <2>2. /\ IsFiniteSet(ConnectedOK) /\ IsFiniteSet(Hosts \ ConnectedOK)
        /\ IsFiniteSet(RunOnce) /\ IsFiniteSet(RunOnce \ RunOK)
    BY <2>1, HostsAssumption, FS_Subset
  <2>3. Total(ConnectErrorCounts) \leq ConnectFail
    <3> DEFINE Failed == {h \in Hosts \ ConnectedOK : info[h].lastError # Nil}
    <3>1. Total(ConnectErrorCounts) \in Nat /\ Total(ConnectErrorCounts) \leq Cardinality(Failed)
      BY <2>2, CountedOnce DEF ConnectErrorCounts
    <3>2. Cardinality(Failed) \leq Cardinality(Hosts \ ConnectedOK)
      BY <2>2, FS_Subset
    <3>3. Cardinality(Hosts \ ConnectedOK) = ConnectFail
      <4>1. Hosts \cap ConnectedOK = ConnectedOK
        BY <2>1
      <4> QED
        BY <4>1, HostsAssumption, FS_Difference DEF ConnectFail
    <3>5. Cardinality(Failed) \in Nat
      BY <2>2, FS_Subset, FS_CardinalityType
    <3>6. Cardinality(Hosts \ ConnectedOK) \in Nat
      BY <2>2, FS_CardinalityType
    <3> HIDE DEF Failed
    <3> QED
      BY <3>1, <3>2, <3>3, <3>5, <3>6
  <2>4. Total(RunErrorCounts) \leq RunFail
    <3> DEFINE Failed == {h \in ConnectedOK : info[h].lastError # Nil}
    <3>1. Total(RunErrorCounts) \in Nat /\ Total(RunErrorCounts) \leq Cardinality(Failed)
      BY <2>2, CountedOnce DEF RunErrorCounts
    <3>2. Failed \subseteq RunOnce \ RunOK
      BY <1>3 DEF ConnectedOK, RunOnce, RunOK, StatusFits
    <3>3. Cardinality(Failed) \leq Cardinality(RunOnce \ RunOK)
      BY <2>2, <3>2, FS_Subset
    <3>4. Cardinality(RunOnce \ RunOK) = RunFail
      <4>1. RunOnce \cap RunOK = RunOK
        BY <2>1
      <4> QED
        BY <2>2, <4>1, FS_Difference DEF RunFail
    <3>5. Cardinality(Failed) \in Nat
      BY <2>2, FS_Subset, FS_CardinalityType
    <3>6. Cardinality(RunOnce \ RunOK) \in Nat
      BY <2>2, FS_CardinalityType
    <3> HIDE DEF Failed
    <3> QED
      BY <3>1, <3>3, <3>4, <3>5, <3>6
  <2>5. RunErrorCounts["refused"] = 0
    <3>1. {h \in ConnectedOK : info[h].lastError # Nil
                               /\ KindOf(info[h].lastError) = "refused"} = {}
      BY <1>3 DEF ConnectedOK, StatusFits, KindOf
    <3>2. "refused" \in Kinds
      BY DEF Kinds, Known, Errors
    <3> QED
      BY <3>1, <3>2, FS_EmptySet DEF RunErrorCounts, Counts
  <2>6. /\ Total(ConnectErrorCounts) \in Nat /\ Total(RunErrorCounts) \in Nat
        /\ ConnectFail \in Int /\ RunFail \in Int
    <3>1. Total(ConnectErrorCounts) \in Nat /\ Total(RunErrorCounts) \in Nat
      BY <2>2, CountedOnce DEF ConnectErrorCounts, RunErrorCounts
    <3>2. /\ Cardinality(Hosts) \in Nat /\ Cardinality(ConnectedOK) \in Nat
          /\ Cardinality(RunOnce) \in Nat /\ Cardinality(RunOK) \in Nat
      <4>1. IsFiniteSet(RunOK)
        BY <2>1, <2>2, FS_Subset
      <4> QED
        BY <2>2, <4>1, HostsAssumption, FS_CardinalityType
    <3> QED
      BY <3>1, <3>2 DEF ConnectFail, RunFail
  <2>7. UnderRun \leq RunFail
    <3>1. 0 \leq RunFail
      BY <2>4, <2>6
    <3> QED
      BY <2>4, <3>1 DEF UnderRun
  <2>8. UnderConnect \leq ConnectFail + IF RunHeading THEN 0 ELSE RunFail
    BY <2>3, <2>4, <2>6 DEF UnderConnect
  <2> QED
    BY <2>5, <2>7, <2>8 DEF ErrorsAreOfFailures
<1> QED
  BY <1>1, <1>2, <1>3, PTL DEF Spec

=============================================================================

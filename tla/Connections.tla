---------------------------- MODULE Connections ----------------------------
(***************************************************************************)
(* The commands that make, use and drop connections, as the goroutines     *)
(* that run them interleave: connectEverywhere, disconnectEverywhere and   *)
(* disconnectHost (connect.go), resolveProxies (resolve.go), runEverywhere *)
(* and runOnce (run.go), clean, clear and target (commands.go), the death  *)
(* of the program by a signal (signals.go), keep-alives, and the           *)
(* goroutines a remoteHost starts when its host stops answering            *)
(* (remotehost.go).                                                        *)
(*                                                                         *)
(* Every session (the command line of main, a CLI or exec channel of the   *)
(* server, a signal handler, a command put in the background) runs its     *)
(* commands one after the other.  A command is a plan of loops over a      *)
(* snapshot of keys, taken in any order, as Go ranges over a map.          *)
(*                                                                         *)
(* The TimeoutWaiters call that begins disconnectEverywhere only makes     *)
(* answers come sooner, and they may come at any time here: see Waiters.   *)
(***************************************************************************)
EXTENDS Resolve

CONSTANTS
    Commands,     \* Commands[s]: the commands session s may run
    MaxOps,       \* bound: how many commands are run in a behaviour
    Concurrency,  \* e.c.Concurrency: workers of connect and run at once
    Execute       \* e.c.Execute: run the test command once connected

(* Mutants: the direct proxies are forgotten; and they are taken second.   *)
Other == [connect |-> <<"proxies", "connect">>, run |-> <<"run">>,
          clean |-> <<"clean">>, target |-> <<"target">>]
PlanTeardown(stages) ==
    [op \in {"connect", "run", "clean", "target", "disco", "clear", "exit"} |->
        IF op \in DOMAIN Other THEN Other[op] ELSE stages]
LeaveDirect == PlanTeardown(<<"nonProxies", "indirectProxies">>)
DirectSecond ==
    PlanTeardown(<<"nonProxies", "directProxies", "indirectProxies">>)

Plan == [connect |-> <<"proxies", "connect">>,
         run     |-> <<"run">>,
         clean   |-> <<"clean">>,
         target  |-> <<"target">>,
         disco   |-> <<"nonProxies", "indirectProxies", "directProxies">>,
         clear   |-> <<"nonProxies", "indirectProxies", "directProxies">>,
         exit    |-> <<"nonProxies", "indirectProxies", "directProxies">>]

ASSUME CommandsAssumption == Commands \in [Sessions -> SUBSET DOMAIN Plan]
ASSUME MaxOpsAssumption == MaxOps \in Nat
ASSUME ConcurrencyAssumption == Concurrency \in Nat \ {0}
ASSUME ExecuteAssumption == Execute \in BOOLEAN

VARIABLE
    ops           \* how many commands were started

allVars == <<vars, ops>>

(* Main has loaded the file of targets before anything else happens.       *)
Init ==
    /\ targets = [h \in Names |-> IF h \in Targets THEN NewHost ELSE NoInfo]
    /\ conn = [l \in Names |-> NoInfo]
    /\ up = "running"
    /\ remotes = {}
    /\ th = [t \in Threads |-> Idle]
    /\ ops = 0

Stage(t) == Plan[th[t].op][th[t].stage]
Teardown == {"nonProxies", "indirectProxies", "directProxies"}

-----------------------------------------------------------------------------
(* The loops of the commands.                                              *)
Start(s, op) ==
    /\ At(s, "idle") /\ ops < MaxOps /\ op \in Commands[s]
    /\ Become(s, [Idle EXCEPT !.pc = "keys", !.op = op, !.stage = 1])
    /\ ops' = ops + 1
    /\ UNCHANGED <<stateVars, remotes>>

(* GetHostKeys, GetConnKeys, or the hosts of the user's blob.              *)
TakeKeys(s) ==
    /\ At(s, "keys")
    /\ th' = [th EXCEPT ![s].pc = "loop",
           ![s].todo = CASE Stage(s) = "target" -> Targets
                         [] Stage(s) \in Teardown \cup {"run"} -> GetConnKeys
                         [] OTHER -> GetHostKeys]
    /\ UNCHANGED <<stateVars, remotes>>

Pick(s) ==
    /\ At(s, "loop")
    /\ \E x \in th[s].todo :
          th' = [th EXCEPT ![s].at = x, ![s].todo = @ \ {x},
              ![s].pc = CASE Stage(s) = "connect" -> "skipConnected"
                          [] Stage(s) \in Teardown \cup {"run"} -> "connExists"
                          [] OTHER -> "hostExists"]
    /\ UNCHANGED <<stateVars, remotes>>

(* Mutant: the next loop is never reached.                                 *)
SameLoop(s) ==
    /\ At(s, "loop") /\ th[s].todo = {}
    /\ Become(s, [Idle EXCEPT !.op = th[s].op, !.pc = "keys",
                              !.stage = th[s].stage])
    /\ UNCHANGED <<stateVars, remotes>>

EndLoop(s) ==
    /\ At(s, "loop") /\ th[s].todo = {}
    /\ Become(s, [Idle EXCEPT !.op = th[s].op,
           !.pc = IF th[s].stage < Len(Plan[th[s].op]) THEN "keys" ELSE "wait",
           !.stage = IF th[s].stage < Len(Plan[th[s].op])
                     THEN th[s].stage + 1 ELSE th[s].stage])
    /\ UNCHANGED <<stateVars, remotes>>

WorkersOf(s) == {w \in {<<s, x>> : x \in Names} : th[w].pc # "idle"}

(* wg.Wait(), and what clear and the signal handlers do at the end.        *)
Finish(s) ==
    /\ At(s, "wait") /\ WorkersOf(s) = {}
    /\ Become(s, Idle)
    /\ CASE th[s].op = "clear" -> ClearHostInfo
         [] th[s].op = "exit" -> Exit
         [] OTHER -> UNCHANGED stateVars
    /\ UNCHANGED remotes

(* connectEverywhere passes over the hosts it finds connected.             *)
SkipConnected(s) ==
    /\ At(s, "skipConnected")
    /\ Goto(s, IF ConnExists(th[s].at) THEN "loop" ELSE "acquire")
    /\ UNCHANGED <<stateVars, remotes>>

(* limiter <- struct{}{}, then the worker starts.                          *)
Acquire(s) ==
    /\ At(s, "acquire") /\ Cardinality(WorkersOf(s)) < Concurrency
    /\ th' = [th EXCEPT ![s].pc = "loop",
           ![<<s, th[s].at>>] = [Idle EXCEPT !.op = th[s].op, !.at = th[s].at,
               !.pc = IF th[s].op = "connect" THEN "hostExists"
                      ELSE "connExists"]]
    /\ UNCHANGED <<stateVars, remotes>>

-----------------------------------------------------------------------------
(* GetHostInfo asks whether the host is there; LoadBlob adds it if not.    *)
AskHostExists(t) ==
    /\ At(t, "hostExists")
    /\ LET loading == t \in Sessions /\ Stage(t) = "target" IN
       IF HostExists(th[t].at)
       THEN Goto(t, IF loading THEN "loop" ELSE "getHostInfo")
            /\ UNCHANGED stateVars
       ELSE CASE loading -> Goto(t, "setHostInfo") /\ UNCHANGED stateVars
              [] t \in Workers -> Become(t, Idle) /\ UNCHANGED stateVars
              [] t \in Sessions /\ Stage(t) = "proxies" -> Exit /\ UNCHANGED th
              [] OTHER -> Goto(t, "loop") /\ UNCHANGED stateVars
    /\ UNCHANGED remotes

LoadHost(s) ==
    /\ At(s, "setHostInfo")
    /\ SetHostInfo(th[s].at)
    /\ Goto(s, "loop")
    /\ UNCHANGED remotes

(* GetHostInfo dereferences what it found a request ago.                   *)
HostGone(t) ==
    /\ At(t, "getHostInfo") /\ ~HostExists(th[t].at)
    /\ Panic
    /\ UNCHANGED <<remotes, th>>

(* connectEverywhere's worker resolves the whole chain of its host.        *)
WorkerResolves(w) ==
    /\ w \in Workers
    /\ At(w, "getHostInfo") /\ HostExists(th[w].at)
    /\ Become(w, Begin(th[w]))
    /\ UNCHANGED <<stateVars, remotes>>

(* resolveProxies resolves each chain of proxies once.                     *)
ProxiesResolve(s) ==
    /\ s \in Sessions
    /\ At(s, "getHostInfo") /\ HostExists(th[s].at) /\ Stage(s) = "proxies"
    /\ LET chain == Front(Chain[th[s].at]) IN
       IF Len(chain) = 0 \/ chain \in th[s].seen THEN Goto(s, "loop")
       ELSE Become(s, [Begin(th[s]) EXCEPT !.seen = @ \cup {chain}])
    /\ UNCHANGED <<stateVars, remotes>>

(* clean starts a worker for a host that failed, with what it knew of it.  *)
CleanHost(s) ==
    /\ s \in Sessions
    /\ At(s, "getHostInfo") /\ HostExists(th[s].at) /\ Stage(s) = "clean"
    /\ LET hi == targets[th[s].at] IN
       IF ~hi.connectedOK \/ (~hi.runOK /\ hi.runOnce)
       THEN th' = [th EXCEPT ![s].pc = "loop",
                ![<<s, th[s].at>>] = [Idle EXCEPT !.op = "clean",
                    !.at = th[s].at,
                    !.pc = IF hi.connectedOK THEN "connExists"
                           ELSE "deleteHost"]]
       ELSE Goto(s, "loop")
    /\ UNCHANGED <<stateVars, remotes>>

DeleteHost(w) ==
    /\ At(w, "deleteHost")
    /\ DeleteHostInfo(th[w].at)
    /\ Become(w, Idle)
    /\ UNCHANGED remotes

-----------------------------------------------------------------------------
(* GetConnInfo asks whether the connection is there.                       *)
AskConnExists(t) ==
    /\ At(t, "connExists")
    /\ IF ConnExists(th[t].at) THEN Goto(t, "getConnInfo")
       ELSE CASE t \in Sessions -> Goto(t, "loop")
              [] t \in Workers /\ th[t].op = "clean" -> Goto(t, "deleteHost")
              [] OTHER -> Become(t, Idle)
    /\ UNCHANGED <<stateVars, remotes>>

ConnGone(t) ==
    /\ At(t, "getConnInfo") /\ ~ConnExists(th[t].at)
    /\ Panic
    /\ UNCHANGED <<remotes, th>>

(* Mutant: run takes proxies too.                                          *)
AboutAny(stage, ci) ==
    CASE stage = "run" -> TRUE
      [] stage = "nonProxies" -> ~ci.isProxy
      [] stage = "indirectProxies" -> ci.isProxy /\ ~ci.isDirect
      [] stage = "directProxies" -> ci.isProxy /\ ci.isDirect

(* Which connections a loop is about, and how many remoteHosts of each the *)
(* teardown cleans up.                                                     *)
About(stage, ci) ==
    CASE stage \in {"run", "nonProxies"} -> ~ci.isProxy
      [] stage = "indirectProxies" -> ci.isProxy /\ ~ci.isDirect
      [] stage = "directProxies" -> ci.isProxy /\ ci.isDirect

(* Mutant: one cleanup for every connection, direct proxies included.      *)
CleanupOne(s) ==
    /\ s \in Sessions
    /\ At(s, "getConnInfo") /\ ConnExists(th[s].at)
    /\ LET ci == conn[th[s].at] IN
       IF ~About(Stage(s), ci) THEN Goto(s, "loop")
       ELSE IF Stage(s) = "run" THEN Goto(s, "acquire")
       ELSE th' = [th EXCEPT ![s].pc = "cleanup", ![s].chan = ci.chan,
                             ![s].left = 1]
    /\ UNCHANGED <<stateVars, remotes>>

SessionGetsConn(s) ==
    /\ s \in Sessions
    /\ At(s, "getConnInfo") /\ ConnExists(th[s].at)
    /\ LET ci == conn[th[s].at] IN
       IF ~About(Stage(s), ci) THEN Goto(s, "loop")
       ELSE IF Stage(s) = "run" THEN Goto(s, "acquire")
       ELSE th' = [th EXCEPT ![s].pc = "cleanup", ![s].chan = ci.chan,
                ![s].left = IF Stage(s) = "directProxies"
                            THEN BastionConns ELSE 1]
    /\ UNCHANGED <<stateVars, remotes>>

(* disconnectHost, of clean's workers and of the reapers.                  *)
DisconnectGetsConn(t) ==
    /\ t \in Reapers \/ (t \in Workers /\ th[t].op = "clean")
    /\ At(t, "getConnInfo") /\ ConnExists(th[t].at)
    /\ th' = [th EXCEPT ![t].pc = "cleanup", ![t].left = 1,
                        ![t].chan = conn[th[t].at].chan]
    /\ UNCHANGED <<stateVars, remotes>>

RunGetsConn(w) ==
    /\ w \in Workers /\ th[w].op # "clean"
    /\ At(w, "getConnInfo") /\ ConnExists(th[w].at)
    /\ th' = [th EXCEPT ![w].pc = "sendRun", ![w].chan = conn[th[w].at].chan]
    /\ UNCHANGED <<stateVars, remotes>>

(* Mutant: the cleanups are counted the wrong way.                         *)
CountUp(t) ==
    /\ At(t, "cleanup") /\ th[t].left > 0
    /\ \E r \in Listening(th[t].chan) : Cleanup(r)
    /\ th' = [th EXCEPT ![t].left = @ + 1]

(* A cleanup request is taken by a remoteHost that listens on the channel. *)
SendCleanup(t) ==
    /\ At(t, "cleanup") /\ th[t].left > 0
    /\ \E r \in Listening(th[t].chan) : Cleanup(r)
    /\ th' = [th EXCEPT ![t].left = @ - 1]

(* Mutant: the ConnInfo stays.                                             *)
KeepConnInfo(t) ==
    /\ At(t, "cleanup") /\ th[t].left = 0
    /\ CASE t \in Sessions -> th' = [th EXCEPT ![t].pc = "loop",
                                               ![t].chan = NoChan]
         [] t \in Workers -> th' = [th EXCEPT ![t].pc = "deleteHost",
                                              ![t].chan = NoChan]
         [] OTHER -> Become(t, Idle)
    /\ UNCHANGED <<stateVars, remotes>>

(* DeleteConnInfo, by name.                                                *)
CleanupDone(t) ==
    /\ At(t, "cleanup") /\ th[t].left = 0
    /\ DeleteConnInfo(th[t].at)
    /\ CASE t \in Sessions -> th' = [th EXCEPT ![t].pc = "loop",
                                               ![t].chan = NoChan]
         [] t \in Workers -> th' = [th EXCEPT ![t].pc = "deleteHost",
                                              ![t].chan = NoChan]
         [] OTHER -> Become(t, Idle)
    /\ UNCHANGED remotes

-----------------------------------------------------------------------------
(* The outcome of a worker's resolve, and the test command after it.       *)
(* Mutant: it is always a success.                                         *)
SetStatusOK(w) ==
    /\ At(w, "setStatus")
    /\ SetConnectionStatus(th[w].at, TRUE)
    /\ Become(w, Idle)
    /\ UNCHANGED remotes

SetStatus(w) ==
    /\ At(w, "setStatus")
    /\ SetConnectionStatus(th[w].at, th[w].ok)
    /\ IF th[w].ok /\ Execute THEN Goto(w, "connExists") ELSE Become(w, Idle)
    /\ UNCHANGED remotes

SendRun(w) ==
    /\ At(w, "sendRun")
    /\ Listening(th[w].chan) # {}
    /\ th' = [th EXCEPT ![w].pc = "awaitRun", ![w].chan = NoChan]
    /\ UNCHANGED <<stateVars, remotes>>

RunAnswered(w, ok) ==
    /\ At(w, "awaitRun")
    /\ SetRunStatus(th[w].at, ok)
    /\ Become(w, Idle)
    /\ UNCHANGED remotes

(* go disconnectHost(e, me).                                               *)
GoDisconnect(x, r) ==
    /\ At(x, "idle")
    /\ Become(x, [Idle EXCEPT !.pc = "connExists", !.op = "reap",
                              !.at = r.link])

(* The session for keep-alives cannot be made.                             *)
NewSessionFails(x, r) ==
    /\ ~r.asking
    /\ GoDisconnect(x, r)
    /\ UNCHANGED <<stateVars, remotes>>

(* A keep-alive is sent, answered, or fails.                               *)
AskAlive(r) == SendKeepAlive(r) /\ UNCHANGED <<th, ops>>
Alive(r) == KeepAliveReply(r) /\ UNCHANGED <<th, ops>>
NotAlive(x, r) == KeepAliveReply(r) /\ GoDisconnect(x, r)

-----------------------------------------------------------------------------
SessionStep(s) ==
    \/ TakeKeys(s) \/ Pick(s) \/ EndLoop(s) \/ Finish(s) \/ SkipConnected(s)
    \/ Acquire(s) \/ LoadHost(s) \/ ProxiesResolve(s) \/ CleanHost(s)
    \/ SessionGetsConn(s)

WorkerStep(w) ==
    \/ WorkerResolves(w) \/ DeleteHost(w) \/ RunGetsConn(w) \/ SetStatus(w)
    \/ SendRun(w) \/ \E ok \in BOOLEAN : RunAnswered(w, ok)

CommonStep(t) ==
    \/ AskHostExists(t) \/ HostGone(t) \/ AskConnExists(t) \/ ConnGone(t)
    \/ DisconnectGetsConn(t) \/ SendCleanup(t) \/ CleanupDone(t)
    \/ ResolveStep(t)

ThreadStep(t) ==
    /\ \/ t \in Sessions /\ SessionStep(t)
       \/ t \in Workers /\ WorkerStep(t)
       \/ CommonStep(t)
    /\ UNCHANGED ops

(* The program has ended, or has nothing to do.                            *)
Rest ==
    /\ up # "running" \/ \A t \in Threads : th[t].pc = "idle"
    /\ UNCHANGED allVars

Next ==
    \/ \E s \in Sessions, op \in DOMAIN Plan : Start(s, op)
    \/ \E t \in Threads : ThreadStep(t)
    \/ \E r \in remotes :
          \/ AskAlive(r) \/ Alive(r)
          \/ \E x \in Reapers :
                (NewSessionFails(x, r) \/ NotAlive(x, r)) /\ UNCHANGED ops
    \/ Rest

(* Goroutines that can go on do, and every dial and request is answered    *)
(* (Waiters).  Nobody has to type a command, and hosts need not fail.      *)
(* Without keep-alives, so that a remoteHost always comes back to listen.  *)
Fairness == \A t \in Threads : WF_allVars(ThreadStep(t))

Spec == Init /\ [][Next]_allVars
FairSpec == Spec /\ Fairness

-----------------------------------------------------------------------------
(* The type of every variable, and the counts a goroutine keeps.           *)
TypeOK ==
    /\ StateTypeOK
    /\ remotes \subseteq Remote
    /\ \A t \in Threads :
          /\ th[t].at \in Names \cup {NoInfo}
          /\ th[t].todo \subseteq Names
          /\ th[t].chan \in Channels \cup {NoChan}
          /\ th[t].dialing \subseteq Ids /\ th[t].dialed \subseteq Ids
          /\ th[t].left \in 0..BastionConns \cup {1}
    /\ ops \in 0..MaxOps

(* state.go:443-445, "to ensure that reading and writing them is           *)
(* thread-safe": no goroutine makes the serializer, or itself, follow a    *)
(* nil pointer.                                                            *)
NoPanic == up # "panicked"

(* Somebody has cleaned up the last remoteHost of l and is about to delete *)
(* its ConnInfo.                                                           *)
BeingDeleted(l) ==
    \E t \in Threads : /\ th[t].pc = "cleanup" /\ th[t].at = l
                       /\ th[t].left = 0 /\ th[t].chan = conn[l].chan

(* state.go:302-305: a connection that is listed has a remoteHost that     *)
(* serves its channel, for that host and in that role, whoever connects,   *)
(* disconnects, cleans and reaps at the same time; only one that has just  *)
(* been cleaned up waits for its own entry to be deleted.                  *)
ListedConnIsServed ==
    \A l \in GetConnKeys :
        \/ BeingDeleted(l)
        \/ \E r \in remotes :
              /\ r.chan = conn[l].chan
              /\ r.link = l /\ r.isProxy = conn[l].isProxy

(* Someone is about to register channel c as the one of link l.            *)
AboutToRegister(l, c) ==
    \E t \in Threads : /\ th[t].chan = c
                       /\ th[t].pc \in {"register", "dialing"} /\ Link(t) = l

(* Every remoteHost can be reached: its channel is the one listed for its  *)
(* host, or is about to be.  One that cannot be reached keeps its SSH      *)
(* connection open until the program ends.                                 *)
NoOrphans ==
    \A r \in remotes :
        \/ ConnExists(r.link) /\ conn[r.link].chan = r.chan
        \/ AboutToRegister(r.link, r.chan)

(* A host that somebody has to dial, for it is the first link of a chain.  *)
DialedFirst(l) == \E h \in Targets : Chain[h][1] = l

(* resolve.go:154-158 and 171-186: no host gets more connections than      *)
(* intended, BastionConns if it is dialled directly and one if it is       *)
(* reached through a proxy.                                                *)
ProxyConnsBounded ==
    \A l \in Names : Cardinality({r \in remotes : r.link = l})
                        \leq IF DialedFirst(l) THEN BastionConns ELSE 1

(* run.go:24-25: commands run on targets, not on bastions.                 *)
OnlyTargetsRun ==
    \A w \in Workers : th[w].pc = "awaitRun" => th[w].at \in Targets

(* signals.go:6, connect.go:105 and 124: when disconnectEverywhere is      *)
(* done, no connection is listed and none is open.                         *)
DiscoLeavesNothing ==
    \A s \in Sessions :
        th[s].pc = "wait" /\ th[s].op \in {"disco", "clear", "exit"} =>
            GetConnKeys = {} /\ remotes = {}

(* The links that a connection to l goes through.                          *)
Before(l) ==
    {m \in Names : \E h \in Targets : \E i, j \in DOMAIN Chain[h] :
        i < j /\ Chain[h][i] = m /\ Chain[h][j] = l}

(* The SSH client a remoteHost has.                                        *)
Client(r) == <<r.link, r.chan, r.id>>

(* connect.go:78, 96 and 115: a connection is not closed under another one *)
(* that is tunnelled through it.                                           *)
TunnelsCloseFirst ==
    [][\A r \in remotes : Client(r) \notin {Client(q) : q \in remotes'} =>
          \A q \in remotes' : r.link \notin Before(q.link)]_allVars

(* state.go:81-82, "Did it connect OK": a host is said to be connected     *)
(* only when the last link of its chain is, whatever the proxies refuse,   *)
(* unless the link it dials first is one whose dials may fail: that is not *)
(* reported (resolve.go:107-110).                                          *)
ReportedConnected ==
    [][\A h \in Targets :
          targets'[h] # NoInfo /\ targets'[h].connectedOK
              /\ ~(targets[h] # NoInfo /\ targets[h].connectedOK)
          => ConnExists(Last(Chain[h])) \/ Chain[h][1] \in FailingDials]_allVars

(* Every command returns to its session, if the program lives.             *)
EveryCommandReturns ==
    \A s \in Sessions : At(s, "keys") ~> (th[s].pc = "idle" \/ up # "running")

(* signals.go:6-7, "SIGTERM: Clean up all our open sockets, exit."         *)
SignalEndsProgram ==
    \A s \in Sessions :
        (At(s, "keys") /\ th[s].op = "exit") ~> up # "running"

=============================================================================

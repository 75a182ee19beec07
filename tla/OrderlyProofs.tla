--------------------------- MODULE OrderlyProofs ---------------------------
(***************************************************************************)
(* Theorems about Connections when connecting and disconnecting do not     *)
(* overlap: one session runs any commands, or any number of sessions only  *)
(* connect and run, and no host stops answering.                           *)
(*                                                                         *)
(* NoPanicCorrect: nothing is dereferenced that was deleted since it was   *)
(* looked up.  ReportedConnectedCorrect: a host is only reported as        *)
(* connected while it is, unless the link it dials first may fail.         *)
(* OnlyTargetsRunCorrect: when dials are reliable, the test command runs   *)
(* on targets alone.  And then, for one session,                           *)
(* NoOrphansCorrect and ProxyConnsBoundedCorrect: every connection can be  *)
(* found, and there are no more than intended; DiscoLeavesNothingCorrect:  *)
(* and none is left in the end.  TunnelsCloseFirstCorrect: none is closed  *)
(* under another that goes through it.                                     *)
(*                                                                         *)
(* The invariants build on each other.  OpsInv says what each command does *)
(* at which program counter, and that workers are those of their session's *)
(* command.  From it a step either works with the maps as they are, grows  *)
(* them, or belongs to a command that takes down (Effects, Grows).         *)
(* PresentInv: what was looked up is still there, for whoever deletes is   *)
(* about something else.  WalkInv: the links behind a goroutine are        *)
(* connected, if the first is sure to be.  ProxiesInv: a session that      *)
(* starts workers has connected every proxy.  TargetsInv: what is not a    *)
(* proxy is a target.  LinksInv: what is dialled or asked for is not       *)
(* connected yet.  HeldInv: a host and its channel belong together, from   *)
(* the dial to the last cleanup.  CountsInv: as many remoteHosts listen as *)
(* were made and not cleaned up.  TearInv: a loop of a teardown leaves     *)
(* none of what it is about.  RolesInv: proxies are where the chains have  *)
(* them.                                                                   *)
(***************************************************************************)
EXTENDS ConnectionsProofs, FiniteSetTheorems

(* What a goroutine keeps: its walk along a chain, and all but its program *)
(* counter, its channel and its count of cleanups.                         *)
KeepsWalk(r, q) == r.seen = q.seen /\ r.idx = q.idx /\ r.ok = q.ok
Keeps(r, q) == KeepsLoop(r, q) /\ KeepsDials(r, q) /\ KeepsWalk(r, q)

(* The ways a goroutine moves: it goes to p with channel c and n cleanups  *)
(* to send, or with what it had; it comes to rest; nothing else happens.   *)
Grabs(t, p, c, n) ==
    /\ Frame(t) /\ th'[t].pc = p /\ Keeps(th'[t], th[t])
    /\ th'[t].chan = c /\ th'[t].left = n
Goes(t, p) == Grabs(t, p, th[t].chan, th[t].left)
Rests(t) == Frame(t) /\ th'[t] = Idle
Same == UNCHANGED <<targets, conn, remotes, up>>

(* A goroutine that goes on only changes its program counter.              *)
LEMMA GotoHops ==
    ASSUME ThreadsOK, NEW t \in Threads, NEW p \in Pcs, Goto(t, p)
    PROVE  Goes(t, p)
<1> DEFINE r == [th[t] EXCEPT !.pc = p]
<1>1. th \in [Threads -> ThreadState] /\ th[t] \in ThreadState
  BY DEF ThreadsOK
<1>2. /\ r.pc = p /\ r.chan = th[t].chan /\ r.left = th[t].left
      /\ Keeps(r, th[t])
  BY <1>1 DEF ThreadState, Keeps, KeepsLoop, KeepsDials, KeepsWalk
<1>3. th' = [th EXCEPT ![t] = r]
  BY <1>1 DEF Goto
<1> HIDE DEF r
<1> QED
  BY <1>1, <1>2, <1>3 DEF Frame, Goes, Grabs

(* So does one that takes a channel, or counts its cleanups.               *)
LEMMA TakingHops ==
    ASSUME ThreadsOK, NEW t \in Threads, NEW p, NEW c, NEW n,
           \/ th' = [th EXCEPT ![t].pc = p, ![t].chan = c] /\ n = th[t].left
           \/ th' = [th EXCEPT ![t].pc = p, ![t].chan = c, ![t].left = n]
           \/ th' = [th EXCEPT ![t].pc = p, ![t].left = n, ![t].chan = c]
           \/ th' = [th EXCEPT ![t].left = n] /\ p = th[t].pc /\ c = th[t].chan
    PROVE  Grabs(t, p, c, n)
<1> DEFINE q == th[t]
           r1 == [[q EXCEPT !.pc = p] EXCEPT !.chan = c]
           r2 == [[[q EXCEPT !.pc = p] EXCEPT !.chan = c] EXCEPT !.left = n]
           r3 == [[[q EXCEPT !.pc = p] EXCEPT !.left = n] EXCEPT !.chan = c]
           r4 == [q EXCEPT !.left = n]
           Good(r) == /\ r.pc = p /\ Keeps(r, q) /\ r.chan = c /\ r.left = n
<1>1. th \in [Threads -> ThreadState] /\ q \in ThreadState
  BY DEF ThreadsOK
<1> USE DEF ThreadState, Keeps, KeepsLoop, KeepsDials, KeepsWalk
<1>2. CASE th' = [th EXCEPT ![t].pc = p, ![t].chan = c] /\ n = q.left
  <2>1. th' = [th EXCEPT ![t] = r1]
    BY <1>1, <1>2
  <2>2. Good(r1)
    BY <1>1, <1>2
  <2> HIDE DEF r1
  <2> QED
    BY <1>1, <2>1, <2>2 DEF Frame, Grabs
<1>3. CASE th' = [th EXCEPT ![t].pc = p, ![t].chan = c, ![t].left = n]
  <2>1. th' = [th EXCEPT ![t] = r2]
    BY <1>1, <1>3
  <2>2. Good(r2)
    BY <1>1
  <2> HIDE DEF r2
  <2> QED
    BY <1>1, <2>1, <2>2 DEF Frame, Grabs
<1>4. CASE th' = [th EXCEPT ![t].pc = p, ![t].left = n, ![t].chan = c]
  <2>1. th' = [th EXCEPT ![t] = r3]
    BY <1>1, <1>4
  <2>2. Good(r3)
    BY <1>1
  <2> HIDE DEF r3
  <2> QED
    BY <1>1, <2>1, <2>2 DEF Frame, Grabs
<1>5. CASE th' = [th EXCEPT ![t].left = n] /\ p = q.pc /\ c = q.chan
  <2>1. th' = [th EXCEPT ![t] = r4]
    BY <1>1, <1>5
  <2>2. Good(r4)
    BY <1>1, <1>5
  <2> HIDE DEF r4
  <2> QED
    BY <1>1, <2>1, <2>2 DEF Frame, Grabs
<1> QED
  BY <1>2, <1>3, <1>4, <1>5

(* What becomes of a goroutine that comes to rest.                         *)
LEMMA IdleRests ==
    ASSUME ThreadsOK, NEW t \in Threads, Become(t, Idle)
    PROVE  Rests(t)
BY DEF ThreadsOK, Become, Frame, Rests

(* The loops: a command begins, looks at its keys, takes one, goes on to   *)
(* its next loop, and ends.                                                *)
LEMMA StartFields ==
    ASSUME ThreadsOK, NEW s \in Sessions, NEW op \in DOMAIN Plan, Start(s, op)
    PROVE  /\ Frame(s) /\ Same /\ th[s].pc = "idle" /\ op \in Commands[s]
           /\ th'[s].pc = "keys" /\ th'[s].op = op /\ th'[s].stage = 1
           /\ th'[s].seen = {} /\ th'[s].todo = {}
<1> DEFINE r == [Idle EXCEPT !.pc = "keys", !.op = op, !.stage = 1]
<1>1. /\ r.pc = "keys" /\ r.op = op /\ r.stage = 1 /\ r.seen = {} /\ r.todo = {}
  BY DEF Idle
<1>2. /\ th[s].pc = "idle" /\ op \in Commands[s] /\ Become(s, r) /\ Same
  BY DEF Start, At, Same, stateVars
<1> HIDE DEF r
<1>3. s \in Threads
  BY DEF Threads
<1> QED
  BY <1>1, <1>2, <1>3 DEF ThreadsOK, Become, Frame

(* The keys are those of the hosts, of the connections, or of the file.    *)
LEMMA TakeKeysFields ==
    ASSUME ThreadsOK, NEW s \in Sessions, TakeKeys(s)
    PROVE  /\ Frame(s) /\ Same /\ th[s].pc = "keys" /\ th'[s].pc = "loop"
           /\ th'[s].op = th[s].op /\ th'[s].stage = th[s].stage
           /\ th'[s].at = th[s].at /\ th'[s].seen = th[s].seen
           /\ th'[s].todo = CASE Stage(s) = "target" -> Targets
                              [] Stage(s) \in Teardown \cup {"run"} -> GetConnKeys
                              [] OTHER -> GetHostKeys
<1> DEFINE todo == CASE Stage(s) = "target" -> Targets
                     [] Stage(s) \in Teardown \cup {"run"} -> GetConnKeys
                     [] OTHER -> GetHostKeys
           q == th[s]
           r(d) == [[q EXCEPT !.pc = "loop"] EXCEPT !.todo = d]
<1>1. th \in [Threads -> ThreadState] /\ q \in ThreadState /\ s \in Threads
  BY DEF ThreadsOK, Threads
<1>2. /\ q.pc = "keys" /\ Same
      /\ th' = [th EXCEPT ![s].pc = "loop", ![s].todo = todo]
  BY DEF TakeKeys, At, Same, stateVars
<1> HIDE DEF todo
<1>3. th' = [th EXCEPT ![s] = r(todo)]
  BY <1>1, <1>2
<1>4. /\ r(todo).pc = "loop" /\ r(todo).op = q.op /\ r(todo).stage = q.stage
      /\ r(todo).at = q.at /\ r(todo).seen = q.seen /\ r(todo).todo = todo
  BY <1>1 DEF ThreadState
<1> HIDE DEF r
<1>5. /\ Frame(s) /\ th'[s].pc = "loop" /\ th'[s].op = q.op /\ th'[s].stage = q.stage
      /\ th'[s].at = q.at /\ th'[s].seen = q.seen /\ th'[s].todo = todo
  BY <1>1, <1>3, <1>4 DEF Frame
<1> QED
  BY <1>2, <1>5 DEF todo

(* One of them is taken, and looked at as the loop does.                   *)
LEMMA PickFields ==
    ASSUME ThreadsOK, NEW s \in Sessions, Pick(s)
    PROVE  /\ Frame(s) /\ Same /\ th[s].pc = "loop"
           /\ th'[s].op = th[s].op /\ th'[s].stage = th[s].stage
           /\ th'[s].seen = th[s].seen
           /\ th'[s].at \in th[s].todo
           /\ th'[s].todo = th[s].todo \ {th'[s].at}
           /\ th'[s].pc = CASE Stage(s) = "connect" -> "skipConnected"
                            [] Stage(s) \in Teardown \cup {"run"} -> "connExists"
                            [] OTHER -> "hostExists"
<1> DEFINE p == CASE Stage(s) = "connect" -> "skipConnected"
                  [] Stage(s) \in Teardown \cup {"run"} -> "connExists"
                  [] OTHER -> "hostExists"
           q == th[s]
           r(x) == [[[q EXCEPT !.at = x] EXCEPT !.todo = q.todo \ {x}] EXCEPT !.pc = p]
<1>1. th \in [Threads -> ThreadState] /\ q \in ThreadState /\ s \in Threads
  BY DEF ThreadsOK, Threads
<1>2. /\ q.pc = "loop" /\ Same
      /\ \E x \in q.todo : th' = [th EXCEPT ![s].at = x, ![s].todo = @ \ {x}, ![s].pc = p]
  BY DEF Pick, At, Same, stateVars
<1> HIDE DEF p
<1>3. PICK x \in q.todo : th' = [th EXCEPT ![s] = r(x)]
  BY <1>1, <1>2
<1>4. /\ r(x).pc = p /\ r(x).op = q.op /\ r(x).stage = q.stage
      /\ r(x).at = x /\ r(x).seen = q.seen /\ r(x).todo = q.todo \ {x}
  BY <1>1 DEF ThreadState
<1> HIDE DEF r
<1>5. /\ Frame(s) /\ th'[s].pc = p /\ th'[s].op = q.op /\ th'[s].stage = q.stage
      /\ th'[s].at = x /\ th'[s].seen = q.seen /\ th'[s].todo = q.todo \ {x}
  BY <1>1, <1>3, <1>4 DEF Frame
<1> QED
  BY <1>2, <1>5 DEF p

(* When none is left the next loop begins, or the command waits.           *)
LEMMA EndLoopFields ==
    ASSUME ThreadsOK, NEW s \in Sessions, EndLoop(s)
    PROVE  /\ Frame(s) /\ Same /\ th[s].pc = "loop" /\ th[s].todo = {}
           /\ th'[s].op = th[s].op /\ th'[s].seen = {} /\ th'[s].todo = {}
           /\ \/ /\ th[s].stage < Len(Plan[th[s].op])
                 /\ th'[s].pc = "keys" /\ th'[s].stage = th[s].stage + 1
              \/ /\ ~(th[s].stage < Len(Plan[th[s].op]))
                 /\ th'[s].pc = "wait" /\ th'[s].stage = th[s].stage
<1> DEFINE q == th[s]
           more == q.stage < Len(Plan[q.op])
           r == [Idle EXCEPT !.op = q.op, !.pc = IF more THEN "keys" ELSE "wait",
                             !.stage = IF more THEN q.stage + 1 ELSE q.stage]
<1>1. th \in [Threads -> ThreadState] /\ s \in Threads
  BY DEF ThreadsOK, Threads
<1>2. /\ q.pc = "loop" /\ q.todo = {} /\ Same /\ Become(s, r)
  BY DEF EndLoop, At, Same, stateVars
<1>3. /\ r.op = q.op /\ r.seen = {} /\ r.todo = {}
      /\ r.pc = (IF more THEN "keys" ELSE "wait")
      /\ r.stage = (IF more THEN q.stage + 1 ELSE q.stage)
  BY DEF Idle
<1> HIDE DEF r
<1>4. Frame(s) /\ th'[s] = r
  BY <1>1, <1>2 DEF Become, Frame
<1> QED
  BY <1>2, <1>3, <1>4

(* Hosts that are connected are passed over.                               *)
LEMMA SkipFields ==
    ASSUME ThreadsOK, NEW s \in Sessions, SkipConnected(s)
    PROVE  /\ Same /\ th[s].pc = "skipConnected"
           /\ \/ Goes(s, "loop") /\ ConnExists(th[s].at)
              \/ Goes(s, "acquire") /\ ~ConnExists(th[s].at)
<1>1. s \in Threads /\ {"loop", "acquire"} \subseteq Pcs
  BY DEF Threads, Pcs
<1> QED
  BY <1>1, GotoHops DEF SkipConnected, At, Same, stateVars

(* A worker starts, for the host its session is at.                        *)
Starts(s, op, p) ==
    LET w == <<s, th[s].at>> IN
    /\ Same /\ th[s].at \in Names /\ w \in Workers
    /\ \A u \in Threads \ {s, w} : th'[u] = th[u]
    /\ th'[s].pc = "loop" /\ Keeps(th'[s], th[s])
    /\ th'[s].chan = NoChan /\ th'[s].left = th[s].left
    /\ th'[w].pc = p /\ th'[w].op = op /\ th'[w].at = th[s].at
    /\ th'[w].chan = NoChan /\ th'[w].dialing = {} /\ th'[w].dialed = {}

(* connect and run start theirs at what comes first, clean where the host  *)
(* failed.                                                                 *)
LEMMA StartsFields ==
    ASSUME ThreadsOK, NEW s \in Sessions, Acquire(s) \/ CleanHost(s)
    PROVE  \/ /\ th[s].pc = "acquire"
              /\ Starts(s, th[s].op, IF th[s].op = "connect" THEN "hostExists"
                                     ELSE "connExists")
           \/ /\ th[s].pc = "getHostInfo" /\ Stage(s) = "clean"
              /\ \/ \E p \in {"connExists", "deleteHost"} : Starts(s, "clean", p)
                 \/ Same /\ Goes(s, "loop")
<1> DEFINE q == th[s]
           w == <<s, q.at>>
           Launch(op, p) ==
               th' = [th EXCEPT ![s].pc = "loop",
                         ![w] = [Idle EXCEPT !.op = op, !.at = q.at, !.pc = p]]
<1>0. /\ s \in Threads /\ th \in [Threads -> ThreadState] /\ q \in ThreadState
      /\ LocalOK(s, q) /\ "loop" \in Pcs
  BY DEF Threads, ThreadsOK, Pcs
<1>1. ASSUME NEW op, NEW p, q.pc \in {"acquire", "getHostInfo"}, Same,
             Launch(op, p)
      PROVE  Starts(s, op, p)
  <2> DEFINE r == [q EXCEPT !.pc = "loop"]
             v == [Idle EXCEPT !.op = op, !.at = q.at, !.pc = p]
  <2>1. q.chan = NoChan /\ q.at \in Names
    BY <1>0, <1>1 DEF LocalOK, AboutHost, Pcs, Holding
  <2>2. w \in Workers /\ w \in Threads /\ w \notin Sessions /\ w # s
    BY <1>0, <2>1, ThreadsAssumption DEF Workers, Threads
  <2>3. /\ r.pc = "loop" /\ Keeps(r, q) /\ r.chan = q.chan /\ r.left = q.left
    BY <1>0 DEF ThreadState, Keeps, KeepsLoop, KeepsDials, KeepsWalk
  <2>4. /\ v.pc = p /\ v.op = op /\ v.at = q.at /\ v.chan = NoChan
        /\ v.dialing = {} /\ v.dialed = {}
    BY DEF Idle
  <2>5. th' = [[th EXCEPT ![s] = r] EXCEPT ![w] = v]
    BY <1>0, <1>1, <2>2
  <2> HIDE DEF r, v
  <2>6. /\ \A u \in Threads \ {s, w} : th'[u] = th[u]
        /\ th'[s] = r /\ th'[w] = v
    BY <1>0, <2>2, <2>5
  <2> QED
    BY <1>1, <2>1, <2>2, <2>3, <2>4, <2>6 DEF Starts
<1>2. CASE Acquire(s)
  <2> DEFINE p == IF q.op = "connect" THEN "hostExists" ELSE "connExists"
  <2>1. Same /\ q.pc = "acquire" /\ Launch(q.op, p)
    BY <1>2 DEF Acquire, At, Same, stateVars
  <2>2. q.pc = "acquire" /\ Starts(s, q.op, p)
    <3> HIDE DEF Launch, p
    <3> QED
      BY <1>1, <2>1
  <2> QED
    BY <2>2
<1>3. CASE CleanHost(s)
  <2>1. Same /\ q.pc = "getHostInfo" /\ Stage(s) = "clean"
    BY <1>3 DEF CleanHost, At, Same, stateVars
  <2>2. CASE Goto(s, "loop")
    BY <1>0, <2>1, <2>2, GotoHops
  <2> DEFINE p == IF targets[q.at].connectedOK THEN "connExists" ELSE "deleteHost"
  <2>4. \/ Goto(s, "loop")
        \/ Launch("clean", p)
    BY <1>3 DEF CleanHost
  <2>5. p \in {"connExists", "deleteHost"}
    OBVIOUS
  <2> HIDE DEF p, Launch
  <2> QED
    BY <1>1, <2>1, <2>2, <2>4, <2>5
<1> QED
  BY <1>2, <1>3

(* A command is over when its workers are; clear and a signal do the rest. *)
LEMMA FinishFields ==
    ASSUME ThreadsOK, NEW s \in Sessions, Finish(s)
    PROVE  /\ Rests(s) /\ th[s].pc = "wait" /\ UNCHANGED <<conn, remotes>>
           /\ \A x \in Names : th[<<s, x>>].pc = "idle"
           /\ \/ UNCHANGED <<targets, up>>
              \/ th[s].op = "clear" /\ up' = up /\ \A h \in Names : targets'[h] = NoInfo
              \/ th[s].op = "exit" /\ up' = "exited" /\ targets' = targets
<1>1. s \in Threads
  BY DEF Threads
<1>2. Rests(s) /\ th[s].pc = "wait" /\ UNCHANGED remotes
  BY <1>1, IdleRests DEF Finish, At
<1>3. \A x \in Names : th[<<s, x>>].pc = "idle"
  BY DEF Finish, WorkersOf
<1>4. CASE th[s].op = "clear"
  BY <1>2, <1>3, <1>4 DEF Finish, ClearHostInfo
<1>5. CASE th[s].op = "exit"
  BY <1>2, <1>3, <1>5 DEF Finish, Exit
<1>6. CASE th[s].op \notin {"clear", "exit"}
  BY <1>2, <1>3, <1>6 DEF Finish, stateVars
<1> QED
  BY <1>4, <1>5, <1>6

-----------------------------------------------------------------------------
(* Whether a host is there: it is looked at, added, or passed over; the    *)
(* program ends if a host whose proxies are wanted is gone.                *)
LEMMA AskHostFields ==
    ASSUME Reapers = {}, ThreadsOK, NEW t \in Threads, AskHostExists(t)
    PROVE  /\ th[t].pc = "hostExists" /\ UNCHANGED <<targets, conn, remotes>>
           /\ \/ Goes(t, "getHostInfo") /\ HostExists(th[t].at) /\ UNCHANGED up
              \/ /\ t \in Sessions /\ Goes(t, "loop") /\ UNCHANGED up
                 /\ Stage(t) # "proxies"
              \/ /\ t \in Sessions /\ Goes(t, "setHostInfo") /\ UNCHANGED up
                 /\ Stage(t) = "target"
              \/ t \in Workers /\ Rests(t) /\ UNCHANGED up
              \/ UNCHANGED th /\ up' = "exited"
<1>1. {"loop", "getHostInfo", "setHostInfo"} \subseteq Pcs
  BY DEF Pcs
<1>2. t \in Sessions \/ t \in Workers
  BY DEF Threads
<1>3. th[t].pc = "hostExists" /\ UNCHANGED <<targets, conn, remotes>>
  BY DEF AskHostExists, At, stateVars, Exit
<1>4. \A p \in {"loop", "getHostInfo", "setHostInfo"} : Goto(t, p) => Goes(t, p)
  BY <1>1, GotoHops
<1>5. CASE HostExists(th[t].at)
  BY <1>3, <1>4, <1>5 DEF AskHostExists, stateVars
<1>6. CASE ~HostExists(th[t].at) /\ t \in Workers
  <2>1. t \notin Sessions
    BY <1>6, ThreadsAssumption
  <2> QED
    BY <1>3, <1>6, <2>1, IdleRests DEF AskHostExists, stateVars
<1>7. CASE ~HostExists(th[t].at) /\ t \in Sessions
  <2>1. t \notin Workers
    BY <1>7, ThreadsAssumption
  <2>2. CASE Stage(t) = "target"
    BY <1>3, <1>4, <1>7, <2>1, <2>2 DEF AskHostExists, stateVars
  <2>3. CASE Stage(t) = "proxies"
    BY <1>3, <1>4, <1>7, <2>1, <2>3 DEF AskHostExists, Exit
  <2>4. CASE Stage(t) \notin {"target", "proxies"}
    BY <1>3, <1>4, <1>7, <2>1, <2>4 DEF AskHostExists, stateVars
  <2> QED
    BY <2>2, <2>3, <2>4
<1> QED
  BY <1>2, <1>5, <1>6, <1>7

(* A host of the file is added, and one that clean is about deleted.       *)
LEMMA HostFields ==
    ASSUME ThreadsOK, NEW t \in Threads
    PROVE  /\ LoadHost(t) => /\ th[t].pc = "setHostInfo" /\ Goes(t, "loop")
                             /\ SetHostInfo(th[t].at) /\ UNCHANGED remotes
           /\ DeleteHost(t) => /\ th[t].pc = "deleteHost" /\ Rests(t)
                               /\ DeleteHostInfo(th[t].at) /\ UNCHANGED remotes
<1>1. "loop" \in Pcs
  BY DEF Pcs
<1> QED
  BY <1>1, GotoHops, IdleRests DEF LoadHost, DeleteHost, At

(* resolve begins with the first link, for a worker or for a session that  *)
(* has not yet asked for these proxies.                                    *)
SetsOut(t) ==
    /\ Frame(t) /\ th'[t].pc = "link" /\ th'[t].idx = 1
    /\ KeepsLoop(th'[t], th[t]) /\ KeepsDials(th'[t], th[t])
    /\ th'[t].chan = th[t].chan /\ th'[t].left = th[t].left
    /\ th'[t].ok = th[t].ok

(* Both begin where the host was found.                                    *)
LEMMA BeginFields ==
    ASSUME ThreadsOK, TablesOK, NEW t \in Threads,
           \/ t \in Sessions /\ ProxiesResolve(t)
           \/ t \in Workers /\ WorkerResolves(t)
    PROVE  /\ Same /\ th[t].pc = "getHostInfo" /\ th[t].at \in Targets
           /\ \/ t \in Workers /\ SetsOut(t) /\ th'[t].seen = th[t].seen
              \/ /\ t \in Sessions /\ SetsOut(t) /\ Stage(t) = "proxies"
                 /\ Front(Chain[th[t].at]) \notin th[t].seen
                 /\ th'[t].seen = th[t].seen \cup {Front(Chain[th[t].at])}
              \/ /\ t \in Sessions /\ Goes(t, "loop") /\ Stage(t) = "proxies"
                 /\ \/ Front(Chain[th[t].at]) = << >>
                    \/ Front(Chain[th[t].at]) \in th[t].seen
<1> DEFINE q == th[t]
           chain == Front(Chain[q.at])
           b == [[q EXCEPT !.pc = "link"] EXCEPT !.idx = 1]
           r == [b EXCEPT !.seen = q.seen \cup {chain}]
<1>1. /\ th \in [Threads -> ThreadState] /\ q \in ThreadState /\ LocalOK(t, q)
      /\ "loop" \in Pcs
  BY DEF ThreadsOK, Pcs
<1>2. Same /\ q.pc = "getHostInfo" /\ HostExists(q.at)
  BY DEF ProxiesResolve, WorkerResolves, At, Same, stateVars
<1>3. q.at \in Targets
  BY <1>1, <1>2 DEF LocalOK, TablesOK, AboutHost, Pcs
<1>4. chain \in Seq(Names)
  BY <1>3, ChainAssumption DEF Front
<1>5. /\ b.pc = "link" /\ b.idx = 1 /\ KeepsLoop(b, q) /\ KeepsDials(b, q)
      /\ b.chan = q.chan /\ b.left = q.left /\ b.ok = q.ok /\ b.seen = q.seen
      /\ r.pc = "link" /\ r.idx = 1 /\ KeepsLoop(r, q) /\ KeepsDials(r, q)
      /\ r.chan = q.chan /\ r.left = q.left /\ r.ok = q.ok
      /\ r.seen = q.seen \cup {chain}
  BY <1>1 DEF ThreadState, KeepsLoop, KeepsDials
<1>6. Begin(q) = b /\ [Begin(q) EXCEPT !.seen = @ \cup {chain}] = r
  BY <1>1 DEF Begin, ThreadState
<1>7. \A s : Become(t, s) => Frame(t) /\ th'[t] = s
  BY <1>1 DEF Become, Frame
<1>8. CASE t \in Workers /\ WorkerResolves(t)
  <2>1. Become(t, b)
    BY <1>6, <1>8 DEF WorkerResolves
  <2> HIDE DEF b
  <2> QED
    BY <1>2, <1>3, <1>5, <1>7, <1>8, <2>1 DEF SetsOut
<1>9. CASE t \in Sessions /\ ProxiesResolve(t)
  <2>1. /\ Stage(t) = "proxies"
        /\ \/ (Len(chain) = 0 \/ chain \in q.seen) /\ Goto(t, "loop")
           \/ chain \notin q.seen /\ Become(t, r)
    BY <1>6, <1>9 DEF ProxiesResolve
  <2>2. Len(chain) = 0 => chain = << >>
    BY <1>4
  <2> HIDE DEF r, b
  <2>3. Goto(t, "loop") => Goes(t, "loop")
    BY <1>1, GotoHops
  <2> QED
    BY <1>2, <1>3, <1>5, <1>7, <1>9, <2>1, <2>2, <2>3 DEF SetsOut
<1> QED
  BY <1>8, <1>9

(* Whether a connection is there: it is looked at, or passed over; clean   *)
(* deletes the host without one.                                           *)
LEMMA AskConnFields ==
    ASSUME Reapers = {}, ThreadsOK, NEW t \in Threads, AskConnExists(t)
    PROVE  /\ th[t].pc = "connExists" /\ Same
           /\ \/ Goes(t, "getConnInfo") /\ ConnExists(th[t].at)
              \/ t \in Sessions /\ Goes(t, "loop") /\ ~ConnExists(th[t].at)
              \/ t \in Workers /\ Goes(t, "deleteHost") /\ th[t].op = "clean"
              \/ t \in Workers /\ Rests(t)
<1>1. {"loop", "getConnInfo", "deleteHost"} \subseteq Pcs
  BY DEF Pcs
<1>2. \A p \in {"loop", "getConnInfo", "deleteHost"} : Goto(t, p) => Goes(t, p)
  BY <1>1, GotoHops
<1>3. th[t].pc = "connExists" /\ Same
  BY DEF AskConnExists, At, Same, stateVars
<1>4. (t \in Sessions /\ t \notin Workers) \/ (t \in Workers /\ t \notin Sessions)
  BY ThreadsAssumption DEF Threads
<1>5. CASE ConnExists(th[t].at)
  BY <1>2, <1>3, <1>5 DEF AskConnExists
<1>6. CASE ~ConnExists(th[t].at) /\ t \in Sessions
  BY <1>2, <1>3, <1>4, <1>6 DEF AskConnExists
<1>7. CASE ~ConnExists(th[t].at) /\ t \in Workers
  <2>1. CASE th[t].op = "clean"
    BY <1>2, <1>3, <1>4, <1>7, <2>1 DEF AskConnExists
  <2>2. CASE th[t].op # "clean"
    BY <1>2, <1>3, <1>4, <1>7, <2>2, IdleRests DEF AskConnExists
  <2> QED
    BY <2>1, <2>2
<1> QED
  BY <1>4, <1>5, <1>6, <1>7

(* What is found of a connection: a session passes over it, has it run or  *)
(* cleans it up; a worker of clean cleans it up and another runs.          *)
LEMMA GetsConnFields ==
    ASSUME Reapers = {}, ThreadsOK, NEW t \in Threads,
           \/ t \in Sessions /\ SessionGetsConn(t)
           \/ DisconnectGetsConn(t) \/ RunGetsConn(t)
    PROVE  /\ th[t].pc = "getConnInfo" /\ Same /\ ConnExists(th[t].at)
           /\ \/ /\ t \in Sessions /\ Goes(t, "loop")
                 /\ ~About(Stage(t), conn[th[t].at])
              \/ /\ t \in Sessions /\ Goes(t, "acquire") /\ Stage(t) = "run"
                 /\ About("run", conn[th[t].at])
              \/ /\ t \in Sessions /\ Stage(t) # "run"
                 /\ About(Stage(t), conn[th[t].at])
                 /\ Grabs(t, "cleanup", conn[th[t].at].chan,
                          IF Stage(t) = "directProxies" THEN BastionConns ELSE 1)
              \/ /\ t \in Workers /\ th[t].op = "clean"
                 /\ Grabs(t, "cleanup", conn[th[t].at].chan, 1)
              \/ /\ t \in Workers /\ th[t].op # "clean"
                 /\ Grabs(t, "sendRun", conn[th[t].at].chan, th[t].left)
<1> DEFINE q == th[t]
           c == conn[q.at].chan
<1>1. {"loop", "acquire"} \subseteq Pcs
  BY DEF Pcs
<1>2. \A p \in {"loop", "acquire"} : Goto(t, p) => Goes(t, p)
  BY <1>1, GotoHops
<1>3. q.pc = "getConnInfo" /\ Same /\ ConnExists(q.at)
  BY DEF SessionGetsConn, DisconnectGetsConn, RunGetsConn, At, Same, stateVars
<1>4. CASE t \in Sessions /\ SessionGetsConn(t)
  <2> DEFINE n == IF Stage(t) = "directProxies" THEN BastionConns ELSE 1
  <2>1. CASE ~About(Stage(t), conn[q.at])
    BY <1>2, <1>3, <1>4, <2>1 DEF SessionGetsConn
  <2>2. CASE About(Stage(t), conn[q.at]) /\ Stage(t) = "run"
    BY <1>2, <1>3, <1>4, <2>2 DEF SessionGetsConn
  <2>3. CASE About(Stage(t), conn[q.at]) /\ Stage(t) # "run"
    <3>1. th' = [th EXCEPT ![t].pc = "cleanup", ![t].chan = c, ![t].left = n]
      BY <1>4, <2>3 DEF SessionGetsConn
    <3> HIDE DEF c, n
    <3>2. Grabs(t, "cleanup", c, n)
      BY <3>1, TakingHops
    <3> QED
      BY <1>3, <1>4, <2>3, <3>2 DEF c, n
  <2> QED
    BY <2>1, <2>2, <2>3
<1>5. CASE DisconnectGetsConn(t)
  <2>1. /\ t \in Workers /\ q.op = "clean"
        /\ th' = [th EXCEPT ![t].pc = "cleanup", ![t].left = 1, ![t].chan = c]
    BY <1>5 DEF DisconnectGetsConn
  <2> HIDE DEF c
  <2>2. Grabs(t, "cleanup", c, 1)
    BY <2>1, TakingHops
  <2> QED
    BY <1>3, <2>1, <2>2 DEF c
<1>6. CASE RunGetsConn(t)
  <2>1. /\ t \in Workers /\ q.op # "clean"
        /\ th' = [th EXCEPT ![t].pc = "sendRun", ![t].chan = c]
    BY <1>6 DEF RunGetsConn
  <2> HIDE DEF c
  <2>2. Grabs(t, "sendRun", c, q.left)
    BY <2>1, TakingHops
  <2> QED
    BY <1>3, <2>1, <2>2 DEF c
<1> QED
  BY <1>4, <1>5, <1>6

(* A cleanup ends a remoteHost that listens, or the whole program; the     *)
(* last one is followed by the end of the entry.                           *)
LEMMA CleanupFields ==
    ASSUME Reapers = {}, ThreadsOK, NEW t \in Threads
    PROVE  /\ SendCleanup(t) =>
                /\ th[t].pc = "cleanup" /\ th[t].left > 0
                /\ Grabs(t, "cleanup", th[t].chan, th[t].left - 1)
                /\ \E r \in Listening(th[t].chan) : Cleanup(r)
           /\ CleanupDone(t) =>
                /\ th[t].pc = "cleanup" /\ th[t].left = 0
                /\ DeleteConnInfo(th[t].at) /\ UNCHANGED remotes
                /\ \/ t \in Sessions /\ Grabs(t, "loop", NoChan, th[t].left)
                   \/ t \in Workers /\ Grabs(t, "deleteHost", NoChan, th[t].left)
<1> DEFINE q == th[t]
<1>1. ASSUME SendCleanup(t)
      PROVE  /\ q.pc = "cleanup" /\ q.left > 0
             /\ Grabs(t, "cleanup", q.chan, q.left - 1)
             /\ \E r \in Listening(q.chan) : Cleanup(r)
  <2>1. /\ q.pc = "cleanup" /\ q.left > 0
        /\ \E r \in Listening(q.chan) : Cleanup(r)
        /\ th' = [th EXCEPT ![t].left = @ - 1]
    BY <1>1 DEF SendCleanup, At
  <2> DEFINE n == q.left - 1
  <2>2. th' = [th EXCEPT ![t].left = n]
    BY <2>1 DEF ThreadsOK
  <2> HIDE DEF n
  <2>3. Grabs(t, q.pc, q.chan, n)
    BY <2>2, TakingHops
  <2> QED
    BY <2>1, <2>3 DEF n
<1>2. ASSUME CleanupDone(t)
      PROVE  /\ q.pc = "cleanup" /\ q.left = 0
             /\ DeleteConnInfo(q.at) /\ UNCHANGED remotes
             /\ \/ t \in Sessions /\ Grabs(t, "loop", NoChan, q.left)
                \/ t \in Workers /\ Grabs(t, "deleteHost", NoChan, q.left)
  <2>1. /\ q.pc = "cleanup" /\ q.left = 0
        /\ DeleteConnInfo(q.at) /\ UNCHANGED remotes
    BY <1>2 DEF CleanupDone, At
  <2>2. \/ t \in Sessions /\ th' = [th EXCEPT ![t].pc = "loop", ![t].chan = NoChan]
        \/ t \in Workers /\ th' = [th EXCEPT ![t].pc = "deleteHost", ![t].chan = NoChan]
    <3>1. (t \in Sessions /\ t \notin Workers) \/ (t \in Workers /\ t \notin Sessions)
      BY ThreadsAssumption DEF Threads
    <3> QED
      BY <1>2, <3>1 DEF CleanupDone
  <2>3. CASE t \in Sessions /\ th' = [th EXCEPT ![t].pc = "loop", ![t].chan = NoChan]
    BY <2>1, <2>3, TakingHops
  <2>4. CASE t \in Workers /\ th' = [th EXCEPT ![t].pc = "deleteHost", ![t].chan = NoChan]
    BY <2>1, <2>4, TakingHops
  <2> QED
    BY <2>1, <2>2, <2>3, <2>4
<1> QED
  BY <1>1, <1>2

(* The outcomes are recorded, and the test command is run.                 *)
LEMMA OutcomeFields ==
    ASSUME ThreadsOK, NEW t \in Threads
    PROVE  /\ SetStatus(t) =>
                /\ th[t].pc = "setStatus" /\ (Goes(t, "connExists") \/ Rests(t))
                /\ SetConnectionStatus(th[t].at, th[t].ok) /\ UNCHANGED remotes
           /\ SendRun(t) =>
                /\ th[t].pc = "sendRun" /\ Same
                /\ Grabs(t, "awaitRun", NoChan, th[t].left)
           /\ \A ok \in BOOLEAN : RunAnswered(t, ok) =>
                /\ th[t].pc = "awaitRun" /\ Rests(t)
                /\ SetRunStatus(th[t].at, ok) /\ UNCHANGED remotes
<1>1. "connExists" \in Pcs
  BY DEF Pcs
<1>2. SetStatus(t) => /\ th[t].pc = "setStatus" /\ (Goes(t, "connExists") \/ Rests(t))
                      /\ SetConnectionStatus(th[t].at, th[t].ok) /\ UNCHANGED remotes
  BY <1>1, GotoHops, IdleRests DEF SetStatus, At
<1>3. SendRun(t) => /\ th[t].pc = "sendRun" /\ Same
                    /\ Grabs(t, "awaitRun", NoChan, th[t].left)
  BY TakingHops DEF SendRun, At, Same, stateVars
<1>4. \A ok \in BOOLEAN : RunAnswered(t, ok) =>
                /\ th[t].pc = "awaitRun" /\ Rests(t)
                /\ SetRunStatus(th[t].at, ok) /\ UNCHANGED remotes
  BY IdleRests DEF RunAnswered, At
<1> QED
  BY <1>2, <1>3, <1>4

-----------------------------------------------------------------------------
(* resolve goes on to the next link, or returns.                           *)
Leaves(t, ok) ==
    /\ Frame(t) /\ KeepsLoop(th'[t], th[t]) /\ KeepsDials(th'[t], th[t])
    /\ th'[t].seen = th[t].seen /\ th'[t].chan = NoChan
    /\ th'[t].left = th[t].left
    /\ \/ t \in Sessions /\ th'[t].pc = "loop"
       \/ t \notin Sessions /\ th'[t].pc = "setStatus" /\ th'[t].ok = ok

Advances(t) ==
    /\ Frame(t) /\ KeepsLoop(th'[t], th[t]) /\ KeepsDials(th'[t], th[t])
    /\ th'[t].seen = th[t].seen /\ th'[t].chan = NoChan
    /\ th'[t].left = th[t].left /\ th'[t].ok = th[t].ok
    /\ th'[t].pc = "link" /\ th'[t].idx = th[t].idx + 1
    /\ th[t].idx < Len(WayOf(t, th[t].at))

Ended(t) == th[t].idx = Len(WayOf(t, th[t].at)) /\ Leaves(t, TRUE)

(* What it returns is the state the goroutine goes on in.                  *)
LEMMA ReturnFields ==
    ASSUME ThreadsOK, NEW t \in Threads, th[t].pc \in Resolving
    PROVE  /\ Become(t, Continue(t)) => Advances(t) \/ Ended(t)
           /\ Become(t, Return(t, FALSE)) => Leaves(t, FALSE)
<1> DEFINE q == th[t]
           next == [[[q EXCEPT !.pc = "link"] EXCEPT !.idx = q.idx + 1]
                       EXCEPT !.chan = NoChan]
           loop == [[[q EXCEPT !.pc = "loop"] EXCEPT !.idx = 0]
                       EXCEPT !.chan = NoChan]
           done(b) == [[[[q EXCEPT !.pc = "setStatus"] EXCEPT !.idx = 0]
                           EXCEPT !.chan = NoChan] EXCEPT !.ok = b]
           more == q.idx < Len(WayOf(t, q.at))
<1>1. /\ th \in [Threads -> ThreadState] /\ q \in ThreadState /\ LocalOK(t, q)
  BY DEF ThreadsOK
<1>2. /\ q.at \in Targets /\ q.idx \in 1..Len(WayOf(t, q.at))
      /\ Way(t) = WayOf(t, q.at) /\ Len(WayOf(t, q.at)) \in Nat
  BY <1>1, WayType DEF LocalOK, Way, WayOf, AsProxy
<1>3. \A b \in BOOLEAN : Return(t, b) = IF t \in Sessions THEN loop ELSE done(b)
  BY DEF Return, AsProxy
<1>4. Continue(t) = IF more THEN next ELSE Return(t, TRUE)
  BY <1>2 DEF Continue
<1>5. ~more => q.idx = Len(WayOf(t, q.at))
  BY <1>2
<1>6. \A s : Become(t, s) => Frame(t) /\ th'[t] = s
  BY <1>1 DEF Become, Frame
<1>7. /\ next.pc = "link" /\ next.idx = q.idx + 1 /\ next.chan = NoChan
      /\ KeepsLoop(next, q) /\ KeepsDials(next, q) /\ next.seen = q.seen
      /\ next.ok = q.ok /\ next.left = q.left
  BY <1>1 DEF ThreadState, KeepsLoop, KeepsDials
<1>8. /\ loop.pc = "loop" /\ loop.chan = NoChan /\ loop.left = q.left
      /\ KeepsLoop(loop, q) /\ KeepsDials(loop, q) /\ loop.seen = q.seen
  BY <1>1 DEF ThreadState, KeepsLoop, KeepsDials
<1>9. \A b \in BOOLEAN :
         /\ done(b).pc = "setStatus" /\ done(b).chan = NoChan /\ done(b).left = q.left
         /\ KeepsLoop(done(b), q) /\ KeepsDials(done(b), q) /\ done(b).seen = q.seen
         /\ done(b).ok = b
  BY <1>1 DEF ThreadState, KeepsLoop, KeepsDials
<1> HIDE DEF next, loop, done
<1>10. ASSUME NEW b \in BOOLEAN, Become(t, Return(t, b)) PROVE Leaves(t, b)
  <2>1. CASE t \in Sessions
    <3>1. Frame(t) /\ th'[t] = loop
      BY <1>3, <1>6, <1>10, <2>1
    <3> QED
      BY <1>8, <2>1, <3>1 DEF Leaves
  <2>2. CASE t \notin Sessions
    <3>1. Frame(t) /\ th'[t] = done(b)
      BY <1>3, <1>6, <1>10, <2>2
    <3> QED
      BY <1>9, <2>2, <3>1 DEF Leaves
  <2> QED
    BY <2>1, <2>2
<1>11. ASSUME Become(t, Continue(t)) PROVE Advances(t) \/ Ended(t)
  <2>1. CASE more
    <3>1. Frame(t) /\ th'[t] = next
      BY <1>4, <1>6, <1>11, <2>1
    <3> QED
      BY <1>7, <2>1, <3>1 DEF Advances
  <2>2. CASE ~more
    BY <1>4, <1>5, <1>10, <1>11, <2>2 DEF Ended
  <2> QED
    BY <2>1, <2>2
<1> QED
  BY <1>10, <1>11

(* resolve's steps name the link and its proxy of the state.               *)
ProxyOf(t, r) == WayOf(t, r.at)[r.idx - 1]

(* A link is passed, or dialled, or has its proxy looked for.              *)
LEMMA LinkFields ==
    ASSUME ThreadsOK, NEW t \in Threads, ExamineLink(t)
    PROVE  /\ th[t].pc = "link" /\ Same
           /\ \/ ConnExists(LinkOf(t, th[t])) /\ (Advances(t) \/ Ended(t))
              \/ /\ ~ConnExists(LinkOf(t, th[t])) /\ th[t].idx > 1
                 /\ Goes(t, "proxyExists")
              \/ /\ ~ConnExists(LinkOf(t, th[t])) /\ th[t].idx = 1 /\ ChannelLeft
                 /\ Frame(t) /\ th'[t].pc = "dialing"
                 /\ KeepsLoop(th'[t], th[t]) /\ KeepsWalk(th'[t], th[t])
                 /\ th'[t].chan = FreshChan /\ th'[t].left = th[t].left
                 /\ th'[t].dialing = Ids /\ th'[t].dialed = th[t].dialed
<1> DEFINE q == th[t]
           c == FreshChan
           d == Ids
           r == [[[q EXCEPT !.pc = "dialing"] EXCEPT !.chan = c] EXCEPT !.dialing = d]
<1>1. /\ th \in [Threads -> ThreadState] /\ q \in ThreadState
      /\ "proxyExists" \in Pcs /\ Link(t) = LinkOf(t, q)
  BY DEF ThreadsOK, Pcs, Link, LinkOf, Way, WayOf, AsProxy
<1>2. q.pc = "link" /\ Same
  BY DEF ExamineLink, At, Same, stateVars
<1>3. CASE ConnExists(Link(t)) /\ Become(t, Continue(t))
  BY <1>1, <1>2, <1>3, ReturnFields DEF Resolving
<1>4. CASE ~ConnExists(Link(t)) /\ q.idx > 1 /\ Goto(t, "proxyExists")
  BY <1>1, <1>2, <1>4, GotoHops
<1>5. CASE /\ ~ConnExists(Link(t)) /\ q.idx = 1 /\ ChannelLeft
           /\ th' = [th EXCEPT ![t].pc = "dialing", ![t].chan = FreshChan,
                               ![t].dialing = Ids]
  <2> HIDE DEF c, d
  <2>1. th' = [th EXCEPT ![t] = r]
    BY <1>1, <1>5 DEF c, d
  <2>2. /\ r.pc = "dialing" /\ r.chan = c /\ r.left = q.left
        /\ KeepsLoop(r, q) /\ KeepsWalk(r, q)
        /\ r.dialing = d /\ r.dialed = q.dialed
    BY <1>1 DEF ThreadState, KeepsLoop, KeepsWalk
  <2> HIDE DEF r
  <2>3. Frame(t) /\ th'[t] = r
    BY <1>1, <2>1 DEF Frame
  <2> QED
    BY <1>1, <1>2, <1>5, <2>2, <2>3 DEF c, d
<1> QED
  BY <1>3, <1>4, <1>5 DEF ExamineLink

(* The proxy is looked for; a proxy that is gone is passed over, or a nil. *)
LEMMA ProxyFields ==
    ASSUME ThreadsOK, NEW t \in Threads
    PROVE  /\ ProxyExists(t) =>
                /\ th[t].pc = "proxyExists" /\ Same
                /\ \/ ConnExists(ProxyOf(t, th[t])) /\ Goes(t, "getProxy")
                   \/ /\ ~ConnExists(ProxyOf(t, th[t]))
                      /\ (Advances(t) \/ Ended(t))
           /\ GetProxy(t) =>
                /\ th[t].pc = "getProxy"
                /\ \/ /\ ConnExists(ProxyOf(t, th[t])) /\ Same
                      /\ Grabs(t, "ask", conn[ProxyOf(t, th[t])].chan, th[t].left)
                   \/ /\ ~ConnExists(ProxyOf(t, th[t]))
                      /\ Panic /\ UNCHANGED <<remotes, th>>
<1> DEFINE q == th[t]
           c == conn[Proxy(t)].chan
<1>1. "getProxy" \in Pcs /\ Proxy(t) = ProxyOf(t, q)
  BY DEF Pcs, Proxy, ProxyOf, Way, WayOf, AsProxy
<1>2. ASSUME ProxyExists(t)
      PROVE  /\ q.pc = "proxyExists" /\ Same
             /\ \/ ConnExists(Proxy(t)) /\ Goes(t, "getProxy")
                \/ ~ConnExists(Proxy(t)) /\ (Advances(t) \/ Ended(t))
  <2>1. /\ q.pc = "proxyExists" /\ Same
        /\ \/ ConnExists(Proxy(t)) /\ Goto(t, "getProxy")
           \/ ~ConnExists(Proxy(t)) /\ Become(t, Continue(t))
    BY <1>2 DEF ProxyExists, At, Same, stateVars
  <2> QED
    BY <1>1, <2>1, GotoHops, ReturnFields DEF Resolving, ThroughProxy
<1>3. ASSUME GetProxy(t)
      PROVE  /\ q.pc = "getProxy"
             /\ \/ /\ ConnExists(Proxy(t)) /\ Same
                   /\ Grabs(t, "ask", conn[Proxy(t)].chan, q.left)
                \/ ~ConnExists(Proxy(t)) /\ Panic /\ UNCHANGED <<remotes, th>>
  <2>1. q.pc = "getProxy"
    BY <1>3 DEF GetProxy, At
  <2>2. CASE ConnExists(Proxy(t))
    <3>1. /\ th' = [th EXCEPT ![t].pc = "ask", ![t].chan = c] /\ Same
      BY <1>3, <2>2 DEF GetProxy, Same, stateVars
    <3> HIDE DEF c
    <3>2. Grabs(t, "ask", c, q.left)
      BY <3>1, TakingHops
    <3> QED
      BY <2>1, <2>2, <3>1, <3>2 DEF c
  <2>3. CASE ~ConnExists(Proxy(t))
    BY <1>3, <2>1, <2>3 DEF GetProxy
  <2> QED
    BY <2>2, <2>3
<1> QED
  BY <1>1, <1>2, <1>3

(* The proxy is asked, and answers or refuses.                             *)
LEMMA AnswerFields ==
    ASSUME ThreadsOK, NEW t \in Threads
    PROVE  /\ AskProxy(t) => /\ th[t].pc = "ask" /\ Same
                             /\ Grabs(t, "awaitClient", NoChan, th[t].left)
           /\ ProxyAnswers(t) => /\ th[t].pc = "awaitClient" /\ Same
                                 /\ Goes(t, "countProxy")
           /\ ProxyRefuses(t) =>
                 /\ th[t].pc = "awaitClient" /\ UNCHANGED <<targets, conn, remotes>>
                 /\ \/ t \in Sessions /\ up' = "exited" /\ UNCHANGED th
                    \/ t \notin Sessions /\ UNCHANGED up /\ Leaves(t, FALSE)
           /\ AskPassword(t) =>
                 /\ th[t].pc \in {"awaitClient", "dialing"} /\ Password
                 /\ SetRequiresPw(LinkOf(t, th[t])) /\ UNCHANGED <<remotes, th>>
<1>1. "countProxy" \in Pcs
  BY DEF Pcs
<1>2. AskProxy(t) => /\ th[t].pc = "ask" /\ Same
                     /\ Grabs(t, "awaitClient", NoChan, th[t].left)
  BY TakingHops DEF AskProxy, At, Same, stateVars
<1>3. ProxyAnswers(t) => th[t].pc = "awaitClient" /\ Same /\ Goes(t, "countProxy")
  BY <1>1, GotoHops DEF ProxyAnswers, At, Same, stateVars
<1>4. ProxyRefuses(t) =>
         /\ th[t].pc = "awaitClient" /\ UNCHANGED <<targets, conn, remotes>>
         /\ \/ t \in Sessions /\ up' = "exited" /\ UNCHANGED th
            \/ t \notin Sessions /\ UNCHANGED up /\ Leaves(t, FALSE)
  BY ReturnFields DEF ProxyRefuses, At, Exit, AsProxy, stateVars, Resolving,
                      ThroughProxy
<1>5. AskPassword(t) =>
         /\ th[t].pc \in {"awaitClient", "dialing"} /\ Password
         /\ SetRequiresPw(LinkOf(t, th[t])) /\ UNCHANGED <<remotes, th>>
  BY DEF AskPassword, At, Link, LinkOf, Way, WayOf, AsProxy
<1> QED
  BY <1>2, <1>3, <1>4, <1>5

(* A new connection is counted, served and listed.                         *)
LEMMA NewConnFields ==
    ASSUME ThreadsOK, NEW t \in Threads
    PROVE  /\ CountProxy(t) =>
                /\ th[t].pc = "countProxy"
                /\ \/ /\ ConnExists(ProxyOf(t, th[t])) /\ ChannelLeft
                      /\ UNCHANGED <<targets, conn, up>>
                      /\ Spawn(LinkOf(t, th[t]), FreshChan, 1, t \in Sessions)
                      /\ Grabs(t, "register", FreshChan, th[t].left)
                   \/ /\ ~ConnExists(ProxyOf(t, th[t]))
                      /\ Panic /\ UNCHANGED <<remotes, th>>
           /\ Register(t) =>
                /\ th[t].pc = "register" /\ UNCHANGED remotes
                /\ SetConnInfo(LinkOf(t, th[t]),
                        [chan |-> th[t].chan, isProxy |-> t \in Sessions,
                         isDirect |-> FALSE])
                /\ (Advances(t) \/ Ended(t))
<1> DEFINE c == FreshChan
<1>1. /\ Proxy(t) = ProxyOf(t, th[t]) /\ Link(t) = LinkOf(t, th[t])
      /\ AsProxy(t) = (t \in Sessions)
  BY DEF Proxy, ProxyOf, Way, WayOf, AsProxy, Link, LinkOf
<1>2. ASSUME CountProxy(t)
      PROVE  /\ th[t].pc = "countProxy"
             /\ \/ /\ ConnExists(Proxy(t)) /\ ChannelLeft
                   /\ UNCHANGED <<targets, conn, up>>
                   /\ Spawn(Link(t), FreshChan, 1, AsProxy(t))
                   /\ Grabs(t, "register", FreshChan, th[t].left)
                \/ ~ConnExists(Proxy(t)) /\ Panic /\ UNCHANGED <<remotes, th>>
  <2>1. CASE ConnExists(Proxy(t))
    <3>1. /\ th' = [th EXCEPT ![t].pc = "register", ![t].chan = c]
          /\ Spawn(Link(t), FreshChan, 1, AsProxy(t)) /\ ChannelLeft
          /\ UNCHANGED <<targets, conn, up>> /\ th[t].pc = "countProxy"
      BY <1>2, <2>1 DEF CountProxy, IncProxyCount, At, stateVars
    <3> HIDE DEF c
    <3>2. Grabs(t, "register", c, th[t].left)
      BY <3>1, TakingHops
    <3> QED
      BY <2>1, <3>1, <3>2 DEF c
  <2>2. CASE ~ConnExists(Proxy(t))
    BY <1>2, <2>2 DEF CountProxy, IncProxyCount, At
  <2> QED
    BY <2>1, <2>2
<1>3. ASSUME Register(t)
      PROVE  /\ th[t].pc = "register" /\ UNCHANGED remotes
             /\ SetConnInfo(Link(t), [chan |-> th[t].chan, isProxy |-> AsProxy(t),
                                      isDirect |-> FALSE])
             /\ (Advances(t) \/ Ended(t))
  <2>1. /\ th[t].pc = "register" /\ UNCHANGED remotes /\ Become(t, Continue(t))
        /\ SetConnInfo(Link(t), [chan |-> th[t].chan, isProxy |-> AsProxy(t),
                                 isDirect |-> FALSE])
    BY <1>3 DEF Register, At
  <2> QED
    BY <2>1, ReturnFields DEF Resolving, ThroughProxy
<1> QED
  BY <1>1, <1>2, <1>3

(* A goroutine that waits for its dials, some of which come to an end.     *)
Dials(t, d, e) ==
    /\ Frame(t) /\ th'[t].pc = "dialing"
    /\ KeepsLoop(th'[t], th[t]) /\ KeepsWalk(th'[t], th[t])
    /\ th'[t].chan = th[t].chan /\ th'[t].left = th[t].left
    /\ th'[t].dialing = d /\ th'[t].dialed = e

(* A dial succeeds, fails, and is registered; all of them are done.        *)
LEMMA DialFields ==
    ASSUME ThreadsOK, NEW t \in Threads, NEW i \in Ids
    PROVE  /\ DialSucceeds(t, i) =>
                /\ th[t].pc = "dialing" /\ i \in th[t].dialing
                /\ UNCHANGED <<targets, conn, up>>
                /\ Spawn(LinkOf(t, th[t]), th[t].chan, i, t \in Sessions)
                /\ Dials(t, th[t].dialing \ {i}, th[t].dialed \cup {i})
           /\ DialFails(t, i) =>
                /\ th[t].pc = "dialing" /\ i \in th[t].dialing /\ Same
                /\ LinkOf(t, th[t]) \in FailingDials
                /\ Dials(t, th[t].dialing \ {i}, th[t].dialed)
           /\ DialRegisters(t, i) =>
                /\ th[t].pc = "dialing" /\ i \in th[t].dialed /\ UNCHANGED remotes
                /\ SetConnInfo(LinkOf(t, th[t]),
                        [chan |-> th[t].chan, isProxy |-> t \in Sessions,
                         isDirect |-> TRUE])
                /\ Dials(t, th[t].dialing, th[t].dialed \ {i})
<1> DEFINE q == th[t]
           r(d, e) == [[q EXCEPT !.dialing = d] EXCEPT !.dialed = e]
<1>1. /\ th \in [Threads -> ThreadState] /\ q \in ThreadState
      /\ Link(t) = LinkOf(t, q) /\ AsProxy(t) = (t \in Sessions)
  BY DEF ThreadsOK, Link, LinkOf, Way, WayOf, AsProxy
<1>2. ASSUME NEW d, NEW e, q.pc = "dialing",
             \/ th' = [th EXCEPT ![t].dialing = d, ![t].dialed = e]
             \/ th' = [th EXCEPT ![t].dialing = d] /\ e = q.dialed
             \/ th' = [th EXCEPT ![t].dialed = e] /\ d = q.dialing
      PROVE  Dials(t, d, e)
  <2>1. th' = [th EXCEPT ![t] = r(d, e)]
    <3>1. CASE e = q.dialed /\ th' = [th EXCEPT ![t].dialing = d]
      <4>1. r(d, e) = [q EXCEPT !.dialing = d]
        BY <1>1, <3>1 DEF ThreadState
      <4> QED
        BY <1>1, <3>1, <4>1
    <3>2. CASE d = q.dialing /\ th' = [th EXCEPT ![t].dialed = e]
      <4>1. r(d, e) = [q EXCEPT !.dialed = e]
        BY <1>1, <3>2 DEF ThreadState
      <4> QED
        BY <1>1, <3>2, <4>1
    <3>3. CASE th' = [th EXCEPT ![t].dialing = d, ![t].dialed = e]
      BY <1>1, <3>3
    <3> QED
      BY <1>2, <3>1, <3>2, <3>3
  <2>2. /\ r(d, e).pc = "dialing" /\ r(d, e).chan = q.chan /\ r(d, e).left = q.left
        /\ KeepsLoop(r(d, e), q) /\ KeepsWalk(r(d, e), q)
        /\ r(d, e).dialing = d /\ r(d, e).dialed = e
    BY <1>1, <1>2 DEF ThreadState, KeepsLoop, KeepsWalk
  <2> HIDE DEF r
  <2>3. Frame(t) /\ th'[t] = r(d, e)
    BY <1>1, <2>1 DEF Frame
  <2> QED
    BY <2>2, <2>3 DEF Dials
<1> DEFINE less == q.dialing \ {i}
           more == q.dialed \cup {i}
           rest == q.dialed \ {i}
<1>3. ASSUME DialSucceeds(t, i)
      PROVE  /\ q.pc = "dialing" /\ i \in q.dialing /\ UNCHANGED <<targets, conn, up>>
             /\ Spawn(Link(t), q.chan, i, AsProxy(t)) /\ Dials(t, less, more)
  <2>1. /\ q.pc = "dialing" /\ i \in q.dialing /\ UNCHANGED <<targets, conn, up>>
        /\ Spawn(Link(t), q.chan, i, AsProxy(t))
        /\ th' = [th EXCEPT ![t].dialing = less, ![t].dialed = more]
    BY <1>1, <1>3 DEF DialSucceeds, At, stateVars
  <2> HIDE DEF less, more
  <2> QED
    BY <1>2, <2>1
<1>4. ASSUME DialFails(t, i)
      PROVE  /\ q.pc = "dialing" /\ i \in q.dialing /\ Same
             /\ Link(t) \in FailingDials /\ Dials(t, less, q.dialed)
  <2>1. /\ q.pc = "dialing" /\ i \in q.dialing /\ Same /\ Link(t) \in FailingDials
        /\ th' = [th EXCEPT ![t].dialing = less]
    BY <1>1, <1>4 DEF DialFails, At, Same, stateVars
  <2> HIDE DEF less
  <2> QED
    BY <1>2, <2>1
<1>5. ASSUME DialRegisters(t, i)
      PROVE  /\ q.pc = "dialing" /\ i \in q.dialed /\ UNCHANGED remotes
             /\ SetConnInfo(Link(t), [chan |-> q.chan, isProxy |-> AsProxy(t),
                                      isDirect |-> TRUE])
             /\ Dials(t, q.dialing, rest)
  <2>1. /\ q.pc = "dialing" /\ i \in q.dialed /\ UNCHANGED remotes
        /\ SetConnInfo(Link(t), [chan |-> q.chan, isProxy |-> AsProxy(t),
                                 isDirect |-> TRUE])
        /\ th' = [th EXCEPT ![t].dialed = rest]
    BY <1>1, <1>5 DEF DialRegisters, At
  <2> HIDE DEF rest
  <2> QED
    BY <1>2, <2>1
<1> QED
  BY <1>1, <1>3, <1>4, <1>5

(* All dials are done, and have been registered.                           *)
LEMMA DialsDoneFields ==
    ASSUME ThreadsOK, NEW t \in Threads, DialsDone(t)
    PROVE  /\ th[t].pc = "dialing" /\ Same
           /\ th[t].dialing = {} /\ th[t].dialed = {}
           /\ (Advances(t) \/ Ended(t))
<1>1. /\ th[t].pc = "dialing" /\ Same /\ Become(t, Continue(t))
      /\ th[t].dialing = {} /\ th[t].dialed = {}
  BY DEF DialsDone, At, Same, stateVars
<1> QED
  BY <1>1, ReturnFields DEF Resolving

-----------------------------------------------------------------------------
(* Which commands a goroutine can be at work for, where it is.             *)
Ending == {"disco", "clear", "exit"}

Role(t, r) ==
    /\ r.op = "none" <=> r.pc = "idle"
    /\ t \in Sessions /\ r.pc # "idle" =>
          /\ r.op \in Commands[t]
          /\ r.pc \in Resolving => r.op = "connect" /\ r.stage = 1
          /\ r.pc \in {"connExists", "getConnInfo"} => r.op \in Ending \cup {"run"}
          /\ r.pc = "cleanup" => r.op \in Ending
          /\ r.pc = "setHostInfo" => r.op = "target"
          /\ r.pc \notin {"deleteHost", "setStatus", "sendRun", "awaitRun"}
    /\ t \in Workers /\ r.pc # "idle" =>
          /\ r.op \in {"connect", "run", "clean"}
          /\ r.pc \in Resolving \cup {"hostExists", "getHostInfo", "setStatus"} =>
                r.op = "connect"
          /\ r.pc \in {"cleanup", "deleteHost"} => r.op = "clean"
          /\ r.pc \in {"sendRun", "awaitRun"} => r.op # "clean"
          /\ r.pc \notin {"keys", "loop", "wait", "skipConnected", "acquire",
                         "setHostInfo"}

(* Everybody is in such a place, and a worker works for its session's      *)
(* command, and for its own host.                                          *)
OpsInv ==
    /\ \A t \in Threads : Role(t, th[t])
    /\ \A s \in Sessions, x \in Names : th[<<s, x>>].pc # "idle" =>
          th[<<s, x>>].op = th[s].op /\ th[<<s, x>>].at = x

(* What is done at each stage of a command.                                *)
LEMMA PlanTable ==
    ASSUME NEW op \in DOMAIN Plan, NEW i \in 1..Len(Plan[op])
    PROVE  /\ op = "connect" => /\ Len(Plan[op]) = 2 /\ i \in {1, 2}
                                /\ Plan[op][i] = IF i = 1 THEN "proxies" ELSE "connect"
           /\ op \in {"run", "clean", "target"} => i = 1 /\ Plan[op][i] = op
           /\ op \in Ending => /\ Len(Plan[op]) = 3 /\ i \in {1, 2, 3}
                               /\ i = 1 => Plan[op][i] = "nonProxies"
                               /\ i = 2 => Plan[op][i] = "indirectProxies"
                               /\ i = 3 => Plan[op][i] = "directProxies"
           /\ op \in {"connect", "run", "clean", "target"} \cup Ending
<1>1. op \in {"connect", "run", "clean", "target"} \cup Ending
  BY PlanFacts DEF Ending
<1>2. CASE op = "connect"
  <2>1. Plan[op] = <<"proxies", "connect">>
    BY <1>2 DEF Plan
  <2> QED
    BY <1>2, <2>1 DEF Ending
<1>3. CASE op \in {"run", "clean", "target"}
  <2>1. Plan[op] = <<op>>
    BY <1>3 DEF Plan
  <2> QED
    BY <1>3, <2>1 DEF Ending
<1>4. CASE op \in Ending
  <2>1. Plan[op] = <<"nonProxies", "indirectProxies", "directProxies">>
    BY <1>4 DEF Plan, Ending
  <2> QED
    BY <1>4, <2>1 DEF Ending
<1> QED
  BY <1>1, <1>2, <1>3, <1>4

(* The stage of a session tells its command.                               *)
LEMMA StageOps ==
    ASSUME ThreadsOK, NEW s \in Sessions, th[s].pc # "idle"
    PROVE  /\ Stage(s) = "proxies" => th[s].op = "connect" /\ th[s].stage = 1
           /\ Stage(s) = "connect" => th[s].op = "connect" /\ th[s].stage = 2
           /\ Stage(s) = "run" => th[s].op = "run"
           /\ Stage(s) = "clean" => th[s].op = "clean"
           /\ Stage(s) = "target" => th[s].op = "target"
           /\ Stage(s) \in Teardown => th[s].op \in Ending
           /\ Stage(s) = "nonProxies" => th[s].stage = 1
           /\ Stage(s) = "indirectProxies" => th[s].stage = 2
           /\ Stage(s) = "directProxies" => th[s].stage = 3
           /\ Stage(s) \in {"proxies", "connect", "run", "clean", "target"} \cup Teardown
<1>1. th[s].op \in DOMAIN Plan /\ th[s].stage \in 1..Len(Plan[th[s].op])
  BY DEF ThreadsOK, LocalOK, Threads
<1>2. CASE th[s].op = "connect"
  BY <1>1, <1>2, PlanTable DEF Stage, Teardown
<1>3. CASE th[s].op \in {"run", "clean", "target"}
  BY <1>1, <1>3, PlanTable DEF Stage, Teardown
<1>4. CASE th[s].op \in Ending
  BY <1>1, <1>4, PlanTable DEF Stage, Teardown
<1> QED
  BY <1>1, <1>2, <1>3, <1>4, PlanTable

(* A goroutine that goes on with its command, in a place it can be in, or  *)
(* a worker that has done its work.                                        *)
Onward(t) ==
    /\ Frame(t) /\ th[t].pc # "idle"
    /\ \/ /\ KeepsLoop(th'[t], th[t]) /\ th'[t].pc # "idle" /\ Role(t, th'[t])
       \/ t \in Workers /\ th'[t] = Idle

(* Its going on keeps everybody in his place.                              *)
LEMMA OnwardOps ==
    ASSUME OpsInv, NEW t \in Threads, Onward(t)
    PROVE  OpsInv'
<1>1. ASSUME NEW u \in Threads PROVE Role(u, th'[u])
  <2>1. CASE u # t
    BY <2>1 DEF Onward, Frame, OpsInv
  <2>2. CASE u = t /\ th'[t] = Idle
    BY <2>2 DEF Role, Idle, Resolving, ThroughProxy
  <2>3. CASE u = t /\ Role(t, th'[t])
    BY <2>3
  <2> QED
    BY <2>1, <2>2, <2>3 DEF Onward
<1>2. ASSUME NEW s \in Sessions, NEW x \in Names, th'[<<s, x>>].pc # "idle"
      PROVE  th'[<<s, x>>].op = th'[s].op /\ th'[<<s, x>>].at = x
  <2>1. s \in Threads /\ <<s, x>> \in Threads /\ s # <<s, x>> /\ s \notin Workers
        /\ <<s, x>> \notin Sessions
    BY ThreadsAssumption DEF Threads, Workers
  <2>2. th'[s].op = th[s].op
    BY <2>1 DEF Onward, Frame, KeepsLoop
  <2>3. CASE t = <<s, x>>
    BY <1>2, <2>1, <2>2, <2>3 DEF Onward, KeepsLoop, OpsInv, Idle
  <2>4. CASE t # <<s, x>>
    BY <1>2, <2>1, <2>2, <2>4 DEF Onward, Frame, OpsInv
  <2> QED
    BY <2>3, <2>4
<1> QED
  BY <1>1, <1>2 DEF OpsInv, Role

(* The steps of resolve are such.                                          *)
LEMMA ResolveOnward ==
    ASSUME ThreadsOK, OpsInv, NEW t \in Threads, ResolveStep(t)
    PROVE  UNCHANGED th \/ Onward(t)
<1>1. Role(t, th[t]) /\ (t \in Sessions => t \notin Workers)
  BY ThreadsAssumption DEF OpsInv
<1>2. ASSUME th[t].pc \in Resolving, Advances(t) \/ Ended(t) \/ Leaves(t, FALSE)
      PROVE  Onward(t)
  <2>1. /\ Frame(t) /\ KeepsLoop(th'[t], th[t])
        /\ \/ th'[t].pc = "link"
           \/ t \in Sessions /\ th'[t].pc = "loop"
           \/ t \notin Sessions /\ th'[t].pc = "setStatus"
    BY <1>2 DEF Advances, Ended, Leaves
  <2> QED
    BY <1>1, <1>2, <2>1 DEF Onward, Role, KeepsLoop, Resolving, ThroughProxy
<1>3. ASSUME NEW p \in Resolving, th[t].pc \in Resolving, Frame(t),
             th'[t].pc = p, KeepsLoop(th'[t], th[t])
      PROVE  Onward(t)
  BY <1>1, <1>3 DEF Onward, Role, KeepsLoop, Resolving, ThroughProxy
<1> USE DEF Resolving, ThroughProxy
<1>4. CASE ExamineLink(t)
  BY <1>2, <1>3, <1>4, LinkFields DEF Goes, Grabs, Keeps
<1>5. CASE ProxyExists(t) \/ GetProxy(t)
  BY <1>2, <1>3, <1>5, ProxyFields DEF Goes, Grabs, Keeps
<1>6. CASE AskProxy(t) \/ ProxyAnswers(t) \/ ProxyRefuses(t) \/ AskPassword(t)
  BY <1>2, <1>3, <1>6, AnswerFields DEF Goes, Grabs, Keeps
<1>7. CASE CountProxy(t) \/ Register(t)
  BY <1>2, <1>3, <1>7, NewConnFields DEF Goes, Grabs, Keeps
<1>8. CASE DialsDone(t)
  BY <1>2, <1>8, DialsDoneFields
<1>9. ASSUME NEW i \in Ids, DialSucceeds(t, i) \/ DialFails(t, i) \/ DialRegisters(t, i)
      PROVE  Onward(t)
  BY <1>3, <1>9, DialFields DEF Dials
<1> QED
  BY <1>4, <1>5, <1>6, <1>7, <1>8, <1>9 DEF ResolveStep

(* So are the others that are about a host.                                *)
LEMMA CommonOnward ==
    ASSUME Reapers = {}, ThreadsOK, OpsInv, NEW t \in Threads,
           \/ AskHostExists(t) \/ HostGone(t) \/ AskConnExists(t) \/ ConnGone(t)
           \/ DisconnectGetsConn(t) \/ SendCleanup(t) \/ CleanupDone(t)
           \/ t \in Workers /\ (DeleteHost(t) \/ RunGetsConn(t) \/ SetStatus(t)
                   \/ SendRun(t) \/ \E ok \in BOOLEAN : RunAnswered(t, ok))
           \/ t \in Sessions /\ (SkipConnected(t) \/ LoadHost(t) \/ SessionGetsConn(t))
    PROVE  UNCHANGED th \/ Onward(t)
<1>1. /\ Role(t, th[t]) /\ (t \in Sessions => t \notin Workers)
      /\ t \in Sessions \/ t \in Workers
  BY ThreadsAssumption DEF OpsInv, Threads
<1>2. ASSUME NEW p, Frame(t), th[t].pc # "idle", p # "idle", th'[t].pc = p,
             KeepsLoop(th'[t], th[t]), Role(t, th'[t])
      PROVE  Onward(t)
  BY <1>2 DEF Onward
<1>3. th[t].pc # "idle" /\ t \in Workers /\ Rests(t) => Onward(t)
  BY DEF Onward, Rests
<1> USE DEF Goes, Grabs, Keeps
<1>4. CASE AskHostExists(t)
  <2>1. th[t].pc = "hostExists"
    BY <1>4, AskHostFields
  <2>2. CASE Goes(t, "getHostInfo")
    BY <1>1, <2>1, <2>2 DEF Onward, Role, KeepsLoop, Resolving, ThroughProxy
  <2>3. CASE t \in Sessions /\ Goes(t, "loop")
    BY <1>1, <2>1, <2>3 DEF Onward, Role, KeepsLoop, Resolving, ThroughProxy
  <2>4. CASE t \in Sessions /\ Goes(t, "setHostInfo") /\ Stage(t) = "target"
    <3>1. th[t].op = "target"
      BY <2>1, <2>4, StageOps
    <3> QED
      BY <1>1, <2>1, <2>4, <3>1 DEF Onward, Role, KeepsLoop, Resolving, ThroughProxy
  <2> QED
    BY <1>3, <1>4, <2>1, <2>2, <2>3, <2>4, AskHostFields
<1>5. CASE HostGone(t) \/ ConnGone(t)
  BY <1>5 DEF HostGone, ConnGone
<1>6. CASE AskConnExists(t)
  <2>1. th[t].pc = "connExists"
    BY <1>6, AskConnFields
  <2>2. CASE Goes(t, "getConnInfo") \/ (t \in Sessions /\ Goes(t, "loop"))
    BY <1>1, <2>1, <2>2 DEF Onward, Role, KeepsLoop, Resolving, ThroughProxy
  <2>3. CASE t \in Workers /\ Goes(t, "deleteHost") /\ th[t].op = "clean"
    BY <1>1, <2>1, <2>3 DEF Onward, Role, KeepsLoop, Resolving, ThroughProxy
  <2> QED
    BY <1>3, <1>6, <2>1, <2>2, <2>3, AskConnFields
<1>7. CASE DisconnectGetsConn(t) \/ RunGetsConn(t) \/ (t \in Sessions /\ SessionGetsConn(t))
  <2>1. th[t].pc = "getConnInfo"
    BY <1>7, GetsConnFields
  <2>2. CASE t \in Sessions /\ (Goes(t, "loop") \/ Goes(t, "acquire"))
    BY <1>1, <2>1, <2>2 DEF Onward, Role, KeepsLoop, Resolving, ThroughProxy
  <2>3. CASE /\ t \in Sessions /\ Stage(t) # "run"
             /\ \E n : Grabs(t, "cleanup", conn[th[t].at].chan, n)
    <3>1. th[t].op \in Ending
      <4>1. th[t].op \in Ending \cup {"run"}
        BY <1>1, <2>1, <2>3 DEF Role
      <4>2. th[t].op # "run"
        <5>1. th[t].op \in DOMAIN Plan /\ th[t].stage \in 1..Len(Plan[th[t].op])
          BY <2>1, <2>3 DEF ThreadsOK, LocalOK
        <5> QED
          BY <2>3, <5>1, PlanTable DEF Stage
      <4> QED
        BY <4>1, <4>2
    <3> QED
      BY <1>1, <2>1, <2>3, <3>1 DEF Onward, Role, KeepsLoop, Resolving, ThroughProxy
  <2>4. CASE /\ t \in Workers /\ th[t].op = "clean"
             /\ Grabs(t, "cleanup", conn[th[t].at].chan, 1)
    BY <1>1, <2>1, <2>4 DEF Onward, Role, KeepsLoop, Resolving, ThroughProxy
  <2>5. CASE /\ t \in Workers /\ th[t].op # "clean"
             /\ Grabs(t, "sendRun", conn[th[t].at].chan, th[t].left)
    BY <1>1, <2>1, <2>5 DEF Onward, Role, KeepsLoop, Resolving, ThroughProxy
  <2> QED
    BY <1>7, <2>2, <2>3, <2>4, <2>5, GetsConnFields
<1>8. CASE SendCleanup(t) \/ CleanupDone(t)
  <2>1. th[t].pc = "cleanup"
    BY <1>8, CleanupFields
  <2>2. CASE \E n : Grabs(t, "cleanup", th[t].chan, n)
    BY <1>1, <2>1, <2>2 DEF Onward, Role, KeepsLoop, Resolving, ThroughProxy
  <2>3. CASE \/ t \in Sessions /\ Grabs(t, "loop", NoChan, th[t].left)
             \/ t \in Workers /\ Grabs(t, "deleteHost", NoChan, th[t].left)
    BY <1>1, <2>1, <2>3 DEF Onward, Role, KeepsLoop, Resolving, ThroughProxy
  <2> QED
    BY <1>8, <2>2, <2>3, CleanupFields
<1>9. CASE t \in Workers /\ (DeleteHost(t) \/ SetStatus(t) \/ SendRun(t)
                               \/ \E ok \in BOOLEAN : RunAnswered(t, ok))
  <2>1. th[t].pc \in {"deleteHost", "setStatus", "sendRun", "awaitRun"}
    BY <1>9, HostFields, OutcomeFields
  <2>2. CASE th[t].pc = "setStatus" /\ Goes(t, "connExists")
    BY <1>1, <1>9, <2>1, <2>2 DEF Onward, Role, KeepsLoop, Resolving, ThroughProxy
  <2>3. CASE th[t].pc = "sendRun" /\ Grabs(t, "awaitRun", NoChan, th[t].left)
    BY <1>1, <1>9, <2>1, <2>3 DEF Onward, Role, KeepsLoop, Resolving, ThroughProxy
  <2>4. CASE Rests(t)
    BY <1>3, <1>9, <2>1, <2>4
  <2> QED
    BY <1>9, <2>2, <2>3, <2>4, HostFields, OutcomeFields
<1>10. CASE t \in Sessions /\ (SkipConnected(t) \/ LoadHost(t))
  <2>1. \/ th[t].pc = "setHostInfo" /\ Goes(t, "loop")
        \/ th[t].pc = "skipConnected" /\ (Goes(t, "loop") \/ Goes(t, "acquire"))
    BY <1>10, SkipFields, HostFields
  <2> QED
    BY <1>1, <1>10, <2>1 DEF Onward, Role, KeepsLoop, Resolving, ThroughProxy
<1> QED
  BY <1>4, <1>5, <1>6, <1>7, <1>8, <1>9, <1>10

(* The steps of a session's loops, and the one with which resolve begins.  *)
LEMMA LoopOnward ==
    ASSUME ThreadsOK, TablesOK, OpsInv, NEW t \in Threads,
           \/ t \in Sessions /\ (TakeKeys(t) \/ Pick(t) \/ EndLoop(t) \/ ProxiesResolve(t))
           \/ t \in Workers /\ WorkerResolves(t)
    PROVE  /\ Frame(t) /\ th[t].pc # "idle" /\ th'[t].op = th[t].op
           /\ t \in Workers => th'[t].at = th[t].at
           /\ th'[t].pc # "idle" /\ Role(t, th'[t])
<1>1. Role(t, th[t]) /\ (t \in Sessions => t \notin Workers)
  BY ThreadsAssumption DEF OpsInv
<1> USE DEF Role, Resolving, ThroughProxy
<1>2. CASE t \in Sessions /\ TakeKeys(t)
  BY <1>1, <1>2, TakeKeysFields
<1>3. CASE t \in Sessions /\ EndLoop(t)
  BY <1>1, <1>3, EndLoopFields
<1>4. CASE t \in Sessions /\ Pick(t)
  <2>1. th[t].pc = "loop" /\ Frame(t) /\ th'[t].op = th[t].op
    BY <1>4, PickFields
  <2>2. Stage(t) \in Teardown \cup {"run"} => th[t].op \in Ending \cup {"run"}
    BY <1>4, <2>1, StageOps
  <2>3. \/ th'[t].pc \in {"skipConnected", "hostExists"}
        \/ th'[t].pc = "connExists" /\ Stage(t) \in Teardown \cup {"run"}
    BY <1>4, PickFields
  <2> QED
    BY <1>1, <1>4, <2>1, <2>2, <2>3
<1>5. CASE t \in Sessions /\ ProxiesResolve(t)
  <2>1. th[t].pc = "getHostInfo" /\ (t \notin Workers)
    BY <1>1, <1>5, BeginFields
  <2>2. th[t].op = "connect" /\ th[t].stage = 1
    BY <1>1, <1>5, <2>1, BeginFields, StageOps
  <2> QED
    BY <1>1, <1>5, <2>1, <2>2, BeginFields DEF SetsOut, Goes, Grabs, Keeps, KeepsLoop
<1>6. CASE t \in Workers /\ WorkerResolves(t)
  BY <1>1, <1>6, BeginFields DEF SetsOut, KeepsLoop
<1> QED
  BY <1>2, <1>3, <1>4, <1>5, <1>6

(* So do a session that starts a worker, and a command that begins or      *)
(* ends: it has no worker left.                                            *)
LEMMA SessionOps ==
    ASSUME TypeInv, WorkersOK, OpsInv, NEW s \in Sessions,
           \/ Acquire(s) \/ CleanHost(s) \/ Finish(s)
           \/ \E op \in DOMAIN Plan : Start(s, op)
    PROVE  OpsInv'
<1>0. /\ ThreadsOK /\ s \in Threads /\ s \notin Workers /\ Role(s, th[s])
      /\ \A r \in Sessions, x \in Names : <<r, x>> \in Threads /\ <<r, x>> \in Workers
      /\ \A r \in Sessions, x \in Names : <<r, x>> \notin Sessions
      /\ Sessions \subseteq Threads
  BY ThreadsAssumption DEF OpsInv, Threads, Workers, TypeInv
<1>1. ASSUME Frame(s), Role(s, th'[s]), \A x \in Names : th[<<s, x>>].pc = "idle"
      PROVE  OpsInv'
  <2>1. ASSUME NEW u \in Threads PROVE Role(u, th'[u])
    BY <1>1 DEF Frame, OpsInv
  <2>2. ASSUME NEW r \in Sessions, NEW x \in Names, th'[<<r, x>>].pc # "idle"
        PROVE  th'[<<r, x>>].op = th'[r].op /\ th'[<<r, x>>].at = x
    BY <1>0, <1>1, <2>2 DEF Frame, OpsInv
  <2> QED
    BY <2>1, <2>2 DEF OpsInv, Role
<1>2. CASE Finish(s)
  <2>1. Rests(s) /\ \A x \in Names : th[<<s, x>>].pc = "idle"
    BY <1>0, <1>2, FinishFields
  <2>2. Role(s, Idle)
    BY DEF Role, Idle, Resolving, ThroughProxy
  <2> QED
    BY <1>1, <2>1, <2>2 DEF Rests
<1>3. ASSUME NEW op \in DOMAIN Plan, Start(s, op) PROVE OpsInv'
  <2>1. /\ Frame(s) /\ th[s].pc = "idle" /\ op \in Commands[s]
        /\ th'[s].pc = "keys" /\ th'[s].op = op
    BY <1>0, <1>3, StartFields
  <2>2. op # "none"
    BY PlanFacts
  <2>3. Role(s, th'[s])
    BY <1>0, <2>1, <2>2 DEF Role, Resolving, ThroughProxy
  <2>4. \A x \in Names : th[<<s, x>>].pc = "idle"
    BY <2>1 DEF WorkersOK
  <2> QED
    BY <1>1, <2>1, <2>3, <2>4
<1>4. ASSUME NEW p \in {"hostExists", "connExists", "deleteHost"},
             Starts(s, th[s].op, p), th[s].pc \in {"acquire", "getHostInfo"},
             th[s].op \in {"connect", "run", "clean"},
             p = "hostExists" => th[s].op = "connect",
             p = "deleteHost" => th[s].op = "clean"
      PROVE  OpsInv'
  <2> DEFINE w == <<s, th[s].at>>
  <2>1. /\ w \in Workers /\ w \notin Sessions /\ w \in Threads /\ th[s].at \in Names
        /\ \A u \in Threads \ {s, w} : th'[u] = th[u]
        /\ th'[s].pc = "loop" /\ th'[s].op = th[s].op
        /\ th'[w].pc = p /\ th'[w].op = th[s].op /\ th'[w].at = th[s].at
    BY <1>0, <1>4 DEF Starts, Keeps, KeepsLoop
  <2> HIDE DEF w
  <2>2. Role(s, th'[s])
    BY <1>0, <1>4, <2>1 DEF Role, Resolving, ThroughProxy
  <2>3. Role(w, th'[w])
    BY <1>4, <2>1 DEF Role, Resolving, ThroughProxy
  <2>4. ASSUME NEW u \in Threads PROVE Role(u, th'[u])
    BY <2>1, <2>2, <2>3 DEF OpsInv
  <2>5. ASSUME NEW r \in Sessions, NEW x \in Names, th'[<<r, x>>].pc # "idle"
        PROVE  th'[<<r, x>>].op = th'[r].op /\ th'[<<r, x>>].at = x
    <3>1. th'[r].op = th[r].op
      BY <1>0, <2>1
    <3>2. CASE <<r, x>> = w
      <4>1. r = s /\ x = th[s].at
        BY <3>2 DEF w
      <4> QED
        BY <2>1, <3>1, <3>2, <4>1
    <3>3. CASE <<r, x>> # w
      BY <1>0, <2>1, <2>5, <3>1, <3>3 DEF OpsInv
    <3> QED
      BY <3>2, <3>3
  <2> QED
    BY <2>4, <2>5 DEF OpsInv, Role
<1>5. CASE Acquire(s) \/ CleanHost(s)
  <2>1. CASE /\ th[s].pc = "acquire"
             /\ Starts(s, th[s].op, IF th[s].op = "connect" THEN "hostExists"
                                    ELSE "connExists")
    <3>1. th[s].op \in {"connect", "run"}
      BY <1>0, <2>1, StageOps DEF ThreadsOK, LocalOK, Stage
    <3>2. CASE th[s].op = "connect"
      BY <1>4, <2>1, <3>2
    <3>3. CASE th[s].op = "run"
      BY <1>4, <2>1, <3>3
    <3> QED
      BY <3>1, <3>2, <3>3
  <2>2. CASE th[s].pc = "getHostInfo" /\ Stage(s) = "clean"
    <3>1. th[s].op = "clean"
      BY <1>0, <2>2, StageOps
    <3>2. ASSUME NEW p \in {"connExists", "deleteHost"}, Starts(s, "clean", p)
          PROVE  OpsInv'
      BY <1>4, <2>2, <3>1, <3>2
    <3>3. CASE Goes(s, "loop")
      <4>1. Onward(s)
        BY <1>0, <2>2, <3>3 DEF Onward, Goes, Grabs, Keeps, KeepsLoop, Role, Resolving,
                                ThroughProxy
      <4> QED
        BY <1>0, <4>1, OnwardOps
    <3> QED
      BY <1>0, <1>5, <2>2, <3>2, <3>3, StartsFields
  <2> QED
    BY <1>0, <1>5, <2>1, <2>2, StartsFields
<1> QED
  BY <1>2, <1>3, <1>5

(* A step of the program is one of a goroutine, or of a remoteHost and its *)
(* reapers.                                                                *)
OpsAll == TypeInv /\ WorkersOK /\ OpsInv

(* At first everybody is at rest.                                          *)
LEMMA OpsInit == Init => OpsAll
<1> SUFFICES ASSUME Init PROVE OpsAll
  OBVIOUS
<1>1. WorkersOK
  BY ServedInit DEF ServedInv
<1>2. \A t \in Threads : th[t] = Idle
  BY DEF Init
<1>3. \A t : Role(t, Idle)
  BY DEF Role, Idle, Resolving, ThroughProxy
<1>4. \A s \in Sessions, x \in Names : <<s, x>> \in Threads
  BY DEF Threads, Workers
<1>5. \A t \in Threads : Role(t, th[t]) /\ th[t].pc = "idle"
  <2>1. Idle.pc = "idle"
    BY DEF Idle
  <2> QED
    BY <1>2, <1>3, <2>1
<1>6. OpsInv
  BY <1>4, <1>5 DEF OpsInv
<1> QED
  BY <1>1, <1>6, TypeInit DEF OpsAll

(* Without reapers a remoteHost only asks whether its host is alive.       *)
Asks ==
    /\ UNCHANGED <<targets, conn, up, th>>
    /\ \/ UNCHANGED remotes
       \/ \E r \in remotes, b \in BOOLEAN :
             remotes' = (remotes \ {r}) \cup {[r EXCEPT !.asking = b]}

(* So a step is that, a command that begins, or a step of a goroutine.     *)
LEMMA StepKinds ==
    ASSUME Reapers = {}, [Next]_allVars
    PROVE  \/ Asks
           \/ \E s \in Sessions, op \in DOMAIN Plan : Start(s, op)
           \/ \E t \in Threads : ThreadStep(t)
<1>1. ASSUME NEW r \in remotes, AskAlive(r) \/ Alive(r) PROVE Asks
  BY <1>1 DEF AskAlive, Alive, SendKeepAlive, KeepAliveReply, Asks, stateVars
<1>2. CASE UNCHANGED allVars
  BY <1>2 DEF allVars, vars, stateVars, Asks
<1> QED
  BY <1>1, <1>2 DEF Next, Rest

(* The steps of a goroutine that keep its session's loop and start nobody, *)
(* and those of the loops.                                                 *)
Plain(t) ==
    \/ CommonStep(t)
    \/ t \in Workers /\ WorkerStep(t)
    \/ t \in Sessions /\ (SkipConnected(t) \/ LoadHost(t) \/ ProxiesResolve(t)
                            \/ SessionGetsConn(t))

(* Every step of a goroutine is one of these.                              *)
LEMMA ThreadStepKinds ==
    ASSUME NEW t \in Threads, ThreadStep(t)
    PROVE  \/ Plain(t)
           \/ t \in Sessions /\ (TakeKeys(t) \/ Pick(t) \/ EndLoop(t) \/ Finish(t)
                                   \/ Acquire(t) \/ CleanHost(t))
BY DEF ThreadStep, SessionStep, Plain

(* Every step keeps it.                                                    *)
LEMMA OpsNext ==
    ASSUME Reapers = {}, OpsAll, [Next]_allVars
    PROVE  OpsAll'
<1>0. TypeInv /\ WorkersOK /\ OpsInv /\ ThreadsOK /\ TablesOK
  BY DEF OpsAll, TypeInv
<1>1. UNCHANGED th => WorkersOK' /\ OpsInv'
  BY <1>0 DEF WorkersOK, OpsInv, Role
<1>2. ASSUME NEW s \in Sessions, NEW op \in DOMAIN Plan, Start(s, op)
      PROVE  WorkersOK' /\ OpsInv'
  BY <1>0, <1>2, LoopWorkers, SessionOps
<1>3. ASSUME NEW t \in Threads, ThreadStep(t) PROVE WorkersOK' /\ OpsInv'
  <2>1. CASE t \in Sessions /\ (Acquire(t) \/ CleanHost(t))
    BY <1>0, <2>1, StartingWorkers, SessionOps
  <2>2. CASE t \in Sessions /\ Finish(t)
    BY <1>0, <2>2, LoopWorkers, SessionOps
  <2>3. ASSUME \/ t \in Sessions /\ (TakeKeys(t) \/ Pick(t) \/ EndLoop(t) \/ ProxiesResolve(t))
               \/ t \in Workers /\ WorkerResolves(t)
        PROVE  OpsInv'
    <3>1. /\ Frame(t) /\ th[t].pc # "idle" /\ th'[t].op = th[t].op
          /\ t \in Workers => th'[t].at = th[t].at
          /\ th'[t].pc # "idle" /\ Role(t, th'[t])
      BY <1>0, <2>3, LoopOnward
    <3>2. ASSUME NEW u \in Threads PROVE Role(u, th'[u])
      BY <1>0, <3>1 DEF Frame, OpsInv
    <3>3. ASSUME NEW s \in Sessions, NEW x \in Names, th'[<<s, x>>].pc # "idle"
          PROVE  th'[<<s, x>>].op = th'[s].op /\ th'[<<s, x>>].at = x
      <4>1. /\ s \in Threads /\ <<s, x>> \in Threads /\ <<s, x>> \in Workers
            /\ <<s, x>> # s
        BY ThreadsAssumption DEF Threads, Workers
      <4>2. th'[s].op = th[s].op /\ th'[<<s, x>>].op = th[<<s, x>>].op
        BY <3>1, <4>1 DEF Frame
      <4>3. th'[<<s, x>>].at = th[<<s, x>>].at /\ th[<<s, x>>].pc # "idle"
        BY <3>1, <3>3, <4>1 DEF Frame
      <4> QED
        BY <1>0, <4>2, <4>3 DEF OpsInv
    <3> QED
      BY <3>2, <3>3 DEF OpsInv, Role
  <2>4. CASE t \in Sessions /\ (TakeKeys(t) \/ Pick(t) \/ EndLoop(t))
    BY <1>0, <2>3, <2>4, LoopWorkers
  <2>5. CASE Plain(t)
    <3>1. WorkersOK'
      BY <1>0, <1>1, <2>5, StepsMove, MovesWorkers DEF Plain
    <3>2. OpsInv'
      <4>1. CASE ResolveStep(t)
        BY <1>0, <1>1, <4>1, ResolveOnward, OnwardOps
      <4>2. CASE \/ t \in Sessions /\ ProxiesResolve(t)
                 \/ t \in Workers /\ WorkerResolves(t)
        BY <2>3, <4>2
      <4>3. CASE \/ AskHostExists(t) \/ HostGone(t) \/ AskConnExists(t) \/ ConnGone(t)
                 \/ DisconnectGetsConn(t) \/ SendCleanup(t) \/ CleanupDone(t)
                 \/ t \in Workers /\ (DeleteHost(t) \/ RunGetsConn(t) \/ SetStatus(t)
                        \/ SendRun(t) \/ \E ok \in BOOLEAN : RunAnswered(t, ok))
                 \/ t \in Sessions /\ (SkipConnected(t) \/ LoadHost(t)
                                         \/ SessionGetsConn(t))
        BY <1>0, <1>1, <4>3, CommonOnward, OnwardOps
      <4> QED
        BY <2>5, <4>1, <4>2, <4>3 DEF Plain, CommonStep, WorkerStep
    <3> QED
      BY <3>1, <3>2
  <2> QED
    BY <1>3, <2>1, <2>2, <2>4, <2>5, ThreadStepKinds
<1>4. ASSUME Asks PROVE WorkersOK' /\ OpsInv'
  BY <1>1, <1>4 DEF Asks
<1>5. TypeInv'
  BY <1>0, TypeNext
<1> QED
  BY <1>2, <1>3, <1>4, <1>5, StepKinds DEF OpsAll

-----------------------------------------------------------------------------
(* One session runs the commands, or all of them only connect and run: so  *)
(* nothing is taken down while anything is being connected.                *)
OneSession == \E s \in Sessions : Sessions = {s}
OnlyConnecting == \A s \in Sessions : Commands[s] \subseteq {"connect", "run"}
Orderly == Reapers = {} /\ (OneSession \/ OnlyConnecting)

Growing == OnlyConnecting \/ \E u \in Threads : th[u].op = "connect"

(* Then everybody who is at work connects or runs.                         *)
LEMMA Apart ==
    ASSUME Orderly, OpsInv, Growing, NEW t \in Threads
    PROVE  th[t].op \in {"none", "connect", "run"}
<1>1. ASSUME NEW u \in Threads, th[u].op # "none"
      PROVE  \E s \in Sessions : th[u].op = th[s].op /\ th[s].op \in Commands[s]
  <2>1. \A s \in Sessions : th[s].op # "none" => th[s].op \in Commands[s]
    BY DEF OpsInv, Role, Threads
  <2>2. CASE u \in Sessions
    BY <1>1, <2>1, <2>2
  <2>3. CASE u \in Workers
    <3>1. PICK s \in Sessions, x \in Names : u = <<s, x>>
      BY <2>3 DEF Workers
    <3>2. th[u].pc # "idle"
      BY <1>1 DEF OpsInv, Role
    <3>3. th[u].op = th[s].op
      BY <3>1, <3>2 DEF OpsInv
    <3> QED
      BY <1>1, <2>1, <3>3
  <2> QED
    BY <2>2, <2>3 DEF Threads, Orderly
<1>2. CASE OnlyConnecting
  BY <1>1, <1>2 DEF OnlyConnecting
<1>3. CASE ~OnlyConnecting
  <2>1. PICK u \in Threads : th[u].op = "connect"
    BY <1>3 DEF Growing
  <2>2. PICK s : Sessions = {s}
    BY <1>3 DEF Orderly, OneSession
  <2>3. th[s].op = "connect"
    BY <1>1, <2>1, <2>2
  <2> QED
    BY <1>1, <2>2, <2>3
<1> QED
  BY <1>2, <1>3

(* What a goroutine's step does to the two maps.                           *)
LEMMA Effects ==
    ASSUME Reapers = {}, ThreadsOK, TablesOK, NEW t \in Threads, ThreadStep(t)
    PROVE  /\ \/ UNCHANGED conn
              \/ th[t].pc = "cleanup" /\ th[t].left = 0 /\ DeleteConnInfo(th[t].at)
              \/ /\ th[t].pc \in {"register", "dialing"}
                 /\ \E d \in BOOLEAN : SetConnInfo(LinkOf(t, th[t]),
                       [chan |-> th[t].chan, isProxy |-> t \in Sessions, isDirect |-> d])
           /\ \/ UNCHANGED targets
              \/ th[t].pc = "deleteHost" /\ DeleteHostInfo(th[t].at)
              \/ th[t].pc = "setHostInfo" /\ SetHostInfo(th[t].at)
              \/ /\ t \in Sessions /\ th[t].op = "clear"
                 /\ \A h \in Names : targets'[h] = NoInfo
              \/ th[t].pc = "setStatus" /\ SetConnectionStatus(th[t].at, th[t].ok)
              \/ \E ok \in BOOLEAN : SetRunStatus(th[t].at, ok)
<1> USE DEF Same, DeleteConnInfo, SetConnInfo, Panic, DeleteHostInfo, SetHostInfo,
            SetConnectionStatus, SetRunStatus
<1>1. CASE t \in Sessions /\ (TakeKeys(t) \/ Pick(t) \/ EndLoop(t))
  BY <1>1, TakeKeysFields, PickFields, EndLoopFields
<1>2. CASE t \in Sessions /\ Finish(t)
  BY <1>2, FinishFields
<1>3. CASE t \in Sessions /\ (Acquire(t) \/ CleanHost(t))
  BY <1>3, StartsFields DEF Starts
<1>4. CASE \/ t \in Sessions /\ ProxiesResolve(t)
           \/ t \in Workers /\ WorkerResolves(t)
  BY <1>4, BeginFields
<1>5. CASE t \in Sessions /\ (SkipConnected(t) \/ LoadHost(t))
  BY <1>5, SkipFields, HostFields
<1>6. CASE \/ t \in Sessions /\ SessionGetsConn(t)
           \/ DisconnectGetsConn(t) \/ RunGetsConn(t)
  BY <1>6, GetsConnFields
<1>7. CASE AskHostExists(t) \/ AskConnExists(t)
  BY <1>7, AskHostFields, AskConnFields
<1>8. CASE HostGone(t) \/ ConnGone(t)
  BY <1>8 DEF HostGone, ConnGone
<1>9. CASE SendCleanup(t) \/ CleanupDone(t)
  BY <1>9, CleanupFields DEF Cleanup, stateVars
<1>10. CASE DeleteHost(t) \/ SetStatus(t) \/ SendRun(t)
  BY <1>10, HostFields, OutcomeFields
<1>11. ASSUME NEW ok \in BOOLEAN, RunAnswered(t, ok)
       PROVE  /\ UNCHANGED conn
              /\ \/ UNCHANGED targets
                 \/ SetRunStatus(th[t].at, ok)
  BY <1>11, OutcomeFields
<1>12. CASE ResolveStep(t)
  <2>1. CASE ExamineLink(t) \/ DialsDone(t)
    BY <2>1, LinkFields, DialsDoneFields
  <2>2. CASE ProxyExists(t) \/ GetProxy(t)
    BY <2>2, ProxyFields
  <2>3. CASE AskProxy(t) \/ ProxyAnswers(t) \/ ProxyRefuses(t) \/ AskPassword(t)
    BY <2>3, AnswerFields DEF SetRequiresPw, stateVars
  <2>4. CASE CountProxy(t)
    BY <2>4, NewConnFields
  <2>5. CASE Register(t)
    <3>1. /\ th[t].pc = "register" /\ UNCHANGED targets
          /\ SetConnInfo(LinkOf(t, th[t]),
                [chan |-> th[t].chan, isProxy |-> t \in Sessions, isDirect |-> FALSE])
      BY <2>5, NewConnFields
    <3> QED
      BY <3>1
  <2>6. ASSUME NEW i \in Ids, DialSucceeds(t, i) \/ DialFails(t, i)
        PROVE  UNCHANGED <<conn, targets>>
    BY <2>6, DialFields
  <2>7. ASSUME NEW i \in Ids, DialRegisters(t, i)
        PROVE  /\ th[t].pc = "dialing" /\ UNCHANGED targets
               /\ SetConnInfo(LinkOf(t, th[t]),
                     [chan |-> th[t].chan, isProxy |-> t \in Sessions, isDirect |-> TRUE])
    BY <2>7, DialFields
  <2> QED
    BY <1>12, <2>1, <2>2, <2>3, <2>4, <2>5, <2>6, <2>7 DEF ResolveStep
<1> QED
  <2>1. CASE Plain(t)
    BY <1>4, <1>5, <1>6, <1>7, <1>8, <1>9, <1>10, <1>11, <1>12, <2>1
       DEF Plain, CommonStep, WorkerStep
  <2> QED
    BY <1>1, <1>2, <1>3, <2>1, ThreadStepKinds

(* So the connections stay, and the hosts too.                             *)
Grown ==
    /\ \A l \in Names : ConnExists(l) => conn'[l] = conn[l] /\ conn'[l] # NoInfo
    /\ \A h \in Names : targets'[h] # NoInfo <=> targets[h] # NoInfo

(* The outcome of a connect or a run is recorded for a host that is there. *)
LEMMA StatusKept ==
    ASSUME TablesOK, NEW k, NEW b \in BOOLEAN,
           SetConnectionStatus(k, b) \/ SetRunStatus(k, b)
    PROVE  \A h \in Names : targets'[h] # NoInfo <=> targets[h] # NoInfo
<1>1. CASE UNCHANGED targets
  BY <1>1
<1>2. ASSUME NEW r \in HostInfo, HostExists(k), targets' = [targets EXCEPT ![k] = r]
      PROVE  \A h \in Names : targets'[h] # NoInfo <=> targets[h] # NoInfo
  BY <1>2, NoInfoAssumption DEF TablesOK, HostExists
<1>3. CASE k \in Names /\ HostExists(k)
  <2> DEFINE q == targets[k]
             r == [q EXCEPT !.connectedOK = b]
             v == [q EXCEPT !.runOK = b, !.runOnce = TRUE]
  <2>1. r \in HostInfo /\ v \in HostInfo
    BY <1>3 DEF TablesOK, HostExists, HostInfo
  <2>2. targets' = [targets EXCEPT ![k] = r] \/ targets' = [targets EXCEPT ![k] = v]
    BY <1>3 DEF SetConnectionStatus, SetRunStatus, TablesOK
  <2> HIDE DEF r, v
  <2> QED
    BY <1>2, <1>3, <2>1, <2>2
<1>4. CASE ~HostExists(k)
  BY <1>1, <1>4 DEF SetConnectionStatus, SetRunStatus
<1>5. CASE k \notin Names
  BY <1>5 DEF SetConnectionStatus, SetRunStatus, TablesOK
<1> QED
  BY <1>3, <1>4, <1>5

(* While connections are made none is deleted.                             *)
LEMMA Grows ==
    ASSUME Orderly, OpsAll, Growing, NEW t \in Threads, ThreadStep(t)
    PROVE  Grown
<1>1. /\ ThreadsOK /\ TablesOK /\ Reapers = {} /\ OpsInv
      /\ th[t].op \in {"none", "connect", "run"} /\ Role(t, th[t])
  BY Apart DEF OpsAll, TypeInv, Orderly, OpsInv
<1>2. t \in Sessions \/ t \in Workers
  BY <1>1 DEF Threads
<1>3. th[t].pc \notin {"cleanup", "deleteHost", "setHostInfo"} /\ th[t].op # "clear"
  BY <1>1, <1>2 DEF Role, Ending
<1>4. \A l \in Names : ConnExists(l) => conn'[l] = conn[l] /\ conn'[l] # NoInfo
  <2>1. CASE UNCHANGED conn
    BY <2>1 DEF ConnExists
  <2>2. ASSUME NEW k, NEW ci, SetConnInfo(k, ci), k \in Names
        PROVE  \A l \in Names : ConnExists(l) => conn'[l] = conn[l] /\ conn'[l] # NoInfo
    BY <1>1, <2>2 DEF SetConnInfo, ConnExists, TablesOK
  <2>3. CASE th[t].pc \in {"register", "dialing"}
    <3>1. LinkOf(t, th[t]) \in Names
      BY <1>1, <2>3, LinkType DEF Resolving, ThroughProxy, Link, LinkOf, Way, WayOf, AsProxy
    <3> QED
      BY <1>1, <1>3, <2>1, <2>2, <3>1, Effects
  <2> QED
    BY <1>1, <1>3, <2>1, <2>3, Effects
<1>5. \A h \in Names : targets'[h] # NoInfo <=> targets[h] # NoInfo
  <2>1. th[t].ok \in BOOLEAN
    BY <1>1 DEF ThreadsOK, ThreadState
  <2> QED
    BY <1>1, <1>3, <2>1, Effects, StatusKept
<1> QED
  BY <1>4, <1>5 DEF Grown

-----------------------------------------------------------------------------
(* A host that may ask for a password while it is dialled is in the map:   *)
(* every link is a target, and no command takes targets out.               *)
PasswordsKnown ==
    Password =>
        /\ \A s \in Sessions : Commands[s] \cap {"clean", "clear"} = {}
        /\ \A h \in Targets : \A i \in DOMAIN Chain[h] : Chain[h][i] \in Targets

(* A cleanup finds the mux that it closes.                                 *)
MuxesMade == ServerMode \/ OnlyConnecting

(* What was looked up is there when it is used.                            *)
ProxyKnown == {"getProxy", "ask", "awaitClient", "countProxy"}

PresentAt(t, r) ==
    /\ r.pc = "getHostInfo" => HostExists(r.at)
    /\ r.pc = "getConnInfo" => ConnExists(r.at)
    /\ r.pc \in ProxyKnown => ConnExists(ProxyOf(t, r))

PresentInv ==
    /\ up # "panicked"
    /\ Password => \A h \in Targets : HostExists(h)
    /\ \A t \in Threads : PresentAt(t, th[t])

(* A step leaves what a goroutine has looked up.                           *)
Lasting(t) ==
    /\ th[t].pc = "getHostInfo" /\ HostExists(th[t].at) =>
          targets'[th[t].at] # NoInfo
    /\ th[t].pc = "getConnInfo" /\ ConnExists(th[t].at) =>
          conn'[th[t].at] # NoInfo
    /\ th[t].pc \in ProxyKnown /\ ConnExists(ProxyOf(t, th[t])) =>
          conn'[ProxyOf(t, th[t])] # NoInfo

(* So does one that only adds to the maps.                                 *)
LEMMA GrownLasts ==
    ASSUME ThreadsOK, Grown, NEW t \in Threads
    PROVE  Lasting(t)
<1>1. LocalOK(t, th[t])
  BY DEF ThreadsOK
<1>2. th[t].pc \in {"getHostInfo", "getConnInfo"} => th[t].at \in Names
  BY <1>1 DEF LocalOK, AboutHost, Pcs
<1>3. th[t].pc \in ProxyKnown => ProxyOf(t, th[t]) \in Names
  BY LinkType DEF ProxyKnown, Resolving, ThroughProxy, Proxy, ProxyOf, Way, WayOf, AsProxy
<1> QED
  BY <1>2, <1>3 DEF Lasting, Grown, HostExists, ConnExists

(* A host that is added is there.                                          *)
LEMMA NewHostThere == NewHost # NoInfo
<1>1. NewHost \in HostInfo
  BY DEF NewHost, HostInfo
<1> QED
  BY <1>1, NoInfoAssumption

(* It is still there for a goroutine that does not move.                   *)
LEMMA PresentStays ==
    ASSUME NEW t \in Threads, Lasting(t), PresentAt(t, th[t]), th'[t] = th[t]
    PROVE  PresentAt(t, th[t])'
<1>1. ProxyOf(t, th'[t]) = ProxyOf(t, th[t])
  OBVIOUS
<1> QED
  BY <1>1 DEF PresentAt, Lasting, HostExists, ConnExists

(* What one goroutine takes out no other has looked up: a session that     *)
(* disconnects is alone, and its workers clean a host each.                *)
LEMMA StepsLast ==
    ASSUME Orderly, OpsAll, NEW t \in Threads, ThreadStep(t), NEW u \in Threads, u # t
    PROVE  Lasting(u)
<1> DEFINE q == th[u]
<1>0. /\ ThreadsOK /\ TablesOK /\ Reapers = {} /\ OpsInv /\ WorkersOK
      /\ LocalOK(u, q) /\ Role(t, th[t]) /\ Role(u, q)
      /\ (t \in Sessions /\ t \notin Workers) \/ (t \in Workers /\ t \notin Sessions)
      /\ (u \in Sessions /\ u \notin Workers) \/ (u \in Workers /\ u \notin Sessions)
  BY ThreadsAssumption DEF OpsAll, TypeInv, ThreadsOK, Orderly, OpsInv, Threads
<1>1. CASE Growing
  BY <1>0, <1>1, Grows, GrownLasts
<1>2. CASE ~Growing
  <2>1. PICK s \in Sessions : Sessions = {s}
    BY <1>2 DEF Growing, Orderly, OneSession
  <2>2. /\ th[t].op # "connect" /\ q.op # "connect"
        /\ th[t].pc \notin Resolving \cup {"setStatus"} /\ q.pc \notin ProxyKnown
    BY <1>0, <1>2 DEF Growing, Role, Resolving, ThroughProxy, ProxyKnown
  <2>3. \A v \in Workers : th[v].pc # "idle" =>
           /\ th[v].op = th[s].op
           /\ v = <<s, th[v].at>>
           /\ th[s].pc \in AboutHost => th[s].at # th[v].at
    <3>1. SUFFICES ASSUME NEW v \in Workers, th[v].pc # "idle"
                   PROVE  /\ th[v].op = th[s].op
                          /\ v = <<s, th[v].at>>
                          /\ th[s].pc \in AboutHost => th[s].at # th[v].at
      OBVIOUS
    <3>2. PICK x \in Names : v = <<s, x>>
      BY <2>1, <3>1 DEF Workers
    <3> QED
      BY <1>0, <3>1, <3>2 DEF OpsInv, WorkersOK
  <2>4. q.pc \in {"getHostInfo", "getConnInfo"} => q.at \in Names
    BY <1>0 DEF LocalOK, AboutHost, Pcs
  <2>5. q.pc = "getConnInfo" /\ ConnExists(q.at) => conn'[q.at] # NoInfo
    <3>1. CASE UNCHANGED conn
      BY <3>1 DEF ConnExists
    <3>2. CASE th[t].pc = "cleanup" /\ DeleteConnInfo(th[t].at) /\ q.pc = "getConnInfo"
      <4>1. t \notin Sessions
        BY <1>0, <2>1, <2>3, <3>2 DEF Role, Ending
      <4>2. th[t].op = "clean" /\ th[s].op = "clean" /\ t = <<s, th[t].at>>
        BY <1>0, <2>3, <3>2, <4>1 DEF Role
      <4>3. u \notin Sessions
        BY <1>0, <2>1, <3>2, <4>2 DEF Role, Ending
      <4>4. q.at # th[t].at
        BY <1>0, <2>3, <3>2, <4>2, <4>3
      <4> QED
        BY <1>0, <2>4, <3>2, <4>4 DEF DeleteConnInfo, TablesOK, ConnExists
    <3> QED
      BY <1>0, <2>2, <3>1, <3>2, Effects DEF Resolving, ThroughProxy
  <2>6. q.pc = "getHostInfo" /\ HostExists(q.at) => targets'[q.at] # NoInfo
    <3>1. CASE UNCHANGED targets
      BY <3>1 DEF HostExists
    <3>2. CASE th[t].pc = "deleteHost" /\ DeleteHostInfo(th[t].at) /\ q.pc = "getHostInfo"
      <4>1. t \in Workers /\ t = <<s, th[t].at>>
        BY <1>0, <2>3, <3>2 DEF Role
      <4>2. q.at # th[t].at
        BY <1>0, <2>1, <2>3, <3>2, <4>1 DEF AboutHost, Pcs
      <4> QED
        BY <1>0, <2>4, <3>2, <4>2 DEF DeleteHostInfo, TablesOK, HostExists
    <3>3. CASE SetHostInfo(th[t].at)
      BY <1>0, <2>4, <3>3, NewHostThere DEF SetHostInfo, TablesOK, HostExists
    <3>4. CASE t \in Sessions /\ th[t].op = "clear" /\ q.pc = "getHostInfo"
      <4>1. u \in Workers /\ t = s
        BY <1>0, <2>1, <3>4
      <4> QED
        BY <1>0, <2>3, <3>4, <4>1 DEF Role
    <3>5. ASSUME NEW ok \in BOOLEAN, SetRunStatus(th[t].at, ok)
          PROVE  q.pc = "getHostInfo" /\ HostExists(q.at) => targets'[q.at] # NoInfo
      BY <1>0, <2>4, <3>5, StatusKept DEF HostExists
    <3> QED
      BY <1>0, <2>2, <3>1, <3>2, <3>3, <3>4, <3>5, Effects
  <2> QED
    BY <2>2, <2>5, <2>6 DEF Lasting
<1> QED
  BY <1>1, <1>2

(* No command takes a target out when one may have to ask for a password.  *)
LEMMA HostsStay ==
    ASSUME Orderly, OpsAll, PasswordsKnown, Password,
           NEW t \in Threads, ThreadStep(t), NEW h \in Targets, HostExists(h)
    PROVE  HostExists(h)'
<1>0. /\ ThreadsOK /\ TablesOK /\ Reapers = {} /\ OpsInv /\ Role(t, th[t])
      /\ h \in Names /\ (t \in Sessions \/ t \in Workers)
  BY TargetsAssumption DEF OpsAll, TypeInv, Orderly, OpsInv, Threads
<1>1. th[t].op \notin {"clean", "clear"}
  <2>1. \A s \in Sessions : th[s].op \notin {"clean", "clear"}
    BY <1>0 DEF OpsInv, Role, PasswordsKnown, Threads
  <2>2. CASE t \in Workers
    <3>1. PICK s \in Sessions, x \in Names : t = <<s, x>>
      BY <2>2 DEF Workers
    <3>2. CASE th[t].pc # "idle"
      BY <1>0, <2>1, <3>1, <3>2 DEF OpsInv
    <3>3. CASE th[t].pc = "idle"
      BY <1>0, <3>3 DEF Role
    <3> QED
      BY <3>2, <3>3
  <2> QED
    BY <1>0, <2>1, <2>2
<1>2. th[t].pc # "deleteHost"
  BY <1>0, <1>1 DEF Role
<1>3. CASE UNCHANGED targets
  BY <1>3 DEF HostExists
<1>4. CASE SetHostInfo(th[t].at)
  BY <1>0, <1>4, NewHostThere DEF SetHostInfo, TablesOK, HostExists
<1>5. ASSUME NEW b \in BOOLEAN,
             SetConnectionStatus(th[t].at, b) \/ SetRunStatus(th[t].at, b)
      PROVE  HostExists(h)'
  BY <1>0, <1>5, StatusKept DEF HostExists
<1>6. th[t].ok \in BOOLEAN
  BY <1>0 DEF ThreadsOK, ThreadState
<1> QED
  BY <1>0, <1>1, <1>2, <1>3, <1>4, <1>5, <1>6, Effects

(* resolve's steps find what they look for, and nobody panics.             *)
LEMMA ResolvePresent ==
    ASSUME PasswordsKnown, ThreadsOK, PresentInv, Grown,
           NEW t \in Threads, ResolveStep(t)
    PROVE  up' # "panicked" /\ PresentAt(t, th[t])'
<1> DEFINE q == th[t]
           Away == th'[t].pc \notin {"getHostInfo", "getConnInfo"} \cup ProxyKnown
<1>1. /\ PresentAt(t, q) /\ up # "panicked" /\ LocalOK(t, q)
      /\ Away => PresentAt(t, th[t])'
  BY DEF PresentInv, PresentAt, ThreadsOK
<1>2. Advances(t) \/ Ended(t) \/ Leaves(t, FALSE) => Away
  BY DEF Advances, Ended, Leaves, ProxyKnown
<1>3. q.pc \in ThroughProxy => ProxyOf(t, q) \in Names
  BY LinkType DEF Resolving, Proxy, ProxyOf, Way, WayOf, AsProxy
<1>4. ASSUME NEW p \in ProxyKnown, NEW c, Grabs(t, p, c, q.left),
             q.pc \in ThroughProxy, ConnExists(ProxyOf(t, q))
      PROVE  PresentAt(t, th[t])'
  <2>1. th'[t].pc = p /\ ProxyOf(t, th'[t]) = ProxyOf(t, q)
    BY <1>4 DEF Grabs, Keeps, KeepsLoop, KeepsWalk, ProxyOf
  <2>2. conn'[ProxyOf(t, q)] # NoInfo
    BY <1>3, <1>4 DEF Grown
  <2> QED
    BY <2>1, <2>2 DEF PresentAt, ProxyKnown, ConnExists
<1> USE DEF ProxyKnown, ThroughProxy
<1>5. CASE ExamineLink(t)
  BY <1>1, <1>2, <1>5, LinkFields DEF Same, Goes, Grabs
<1>6. CASE ProxyExists(t)
  BY <1>1, <1>2, <1>4, <1>6, ProxyFields DEF Same, Goes
<1>7. CASE GetProxy(t)
  <2>1. q.pc = "getProxy" /\ ConnExists(ProxyOf(t, q))
    BY <1>1, <1>7, ProxyFields DEF PresentAt
  <2> QED
    BY <1>1, <1>4, <1>7, <2>1, ProxyFields DEF Same
<1>8. CASE AskProxy(t) \/ ProxyAnswers(t)
  <2>1. q.pc \in {"ask", "awaitClient"} /\ ConnExists(ProxyOf(t, q))
    BY <1>1, <1>8, AnswerFields DEF PresentAt
  <2> QED
    BY <1>1, <1>4, <1>8, <2>1, AnswerFields DEF Same, Goes
<1>9. CASE ProxyRefuses(t)
  BY <1>1, <1>2, <1>9, AnswerFields, GrownLasts, PresentStays
<1>10. CASE AskPassword(t)
  <2>1. /\ q.pc \in {"awaitClient", "dialing"} /\ Password
        /\ SetRequiresPw(LinkOf(t, q)) /\ UNCHANGED th
    BY <1>10, AnswerFields
  <2>2. LinkOf(t, q) \in Targets
    <3>1. q.at \in Targets /\ q.idx \in 1..Len(WayOf(t, q.at))
      BY <1>1, <2>1 DEF LocalOK, Resolving
    <3>2. Chain[q.at] \in Seq(Names) /\ Len(Chain[q.at]) \in Nat
      BY <3>1, ChainAssumption
    <3>3. q.idx \in DOMAIN Chain[q.at] /\ LinkOf(t, q) = Chain[q.at][q.idx]
      <4>1. CASE t \in Sessions
        BY <3>1, <3>2, <4>1 DEF LinkOf, WayOf, Front
      <4>2. CASE t \notin Sessions
        BY <3>1, <3>2, <4>2 DEF LinkOf, WayOf
      <4> QED
        BY <4>1, <4>2
    <3> QED
      BY <2>1, <3>1, <3>3 DEF PasswordsKnown
  <2>3. up' = up
    BY <2>1, <2>2 DEF PresentInv, SetRequiresPw, stateVars
  <2> QED
    BY <1>1, <2>1, <2>3, GrownLasts, PresentStays
<1>11. CASE CountProxy(t)
  <2>1. ConnExists(ProxyOf(t, q))
    BY <1>1, <1>11, NewConnFields DEF PresentAt
  <2> QED
    BY <1>1, <1>11, <2>1, NewConnFields DEF Grabs
<1>12. CASE Register(t)
  BY <1>1, <1>2, <1>12, NewConnFields DEF SetConnInfo
<1>13. CASE DialsDone(t)
  BY <1>1, <1>2, <1>13, DialsDoneFields DEF Same
<1>14. ASSUME NEW i \in Ids, DialSucceeds(t, i) \/ DialFails(t, i) \/ DialRegisters(t, i)
       PROVE  up' # "panicked" /\ PresentAt(t, th[t])'
  BY <1>1, <1>14, DialFields DEF Dials, SetConnInfo, Same
<1> QED
  BY <1>5, <1>6, <1>7, <1>8, <1>9, <1>10, <1>11, <1>12, <1>13, <1>14 DEF ResolveStep

(* So do the others that keep their loops.                                 *)
LEMMA PlainPresent ==
    ASSUME Orderly, PasswordsKnown, MuxesMade, OpsAll, PresentInv,
           NEW t \in Threads, Plain(t), ThreadStep(t)
    PROVE  Frame(t) /\ up' # "panicked" /\ PresentAt(t, th[t])'
<1> DEFINE q == th[t]
           Away == th'[t].pc \notin {"getHostInfo", "getConnInfo"} \cup ProxyKnown
<1>0. /\ Reapers = {} /\ ThreadsOK /\ TablesOK /\ OpsInv /\ LocalOK(t, q)
      /\ Role(t, q) /\ (t \in Sessions \/ t \in Workers)
  BY DEF Orderly, OpsAll, TypeInv, ThreadsOK, OpsInv, Threads
<1>1. /\ PresentAt(t, q) /\ up # "panicked"
      /\ Away => PresentAt(t, th[t])'
  BY DEF PresentInv, PresentAt
<1>2. Frame(t)
  <2>1. CASE th' = th
    BY <2>1 DEF Frame
  <2>2. CASE th' # th
    BY <2>2, StepsMove DEF Plain, OpsAll, Moves
  <2> QED
    BY <2>1, <2>2
<1>3. q.pc = "cleanup" => ServerMode
  <2>1. CASE OnlyConnecting
    <3>1. q.op \in {"none", "connect", "run"}
      BY <1>0, <2>1, Apart DEF Growing
    <3> QED
      BY <1>0, <3>1 DEF Role, Ending
  <2> QED
    BY <2>1 DEF MuxesMade
<1> USE DEF ProxyKnown
<1> SUFFICES up' # "panicked" /\ PresentAt(t, th[t])'
  BY <1>2
<1>4. CASE ResolveStep(t)
  <2>1. q.pc \in Resolving
    BY <1>4 DEF ResolveStep, ExamineLink, ProxyExists, GetProxy, AskProxy,
       ProxyAnswers, ProxyRefuses, CountProxy, Register, DialsDone, AskPassword,
       DialSucceeds, DialFails, DialRegisters, At, Resolving, ThroughProxy
  <2>2. Growing
    BY <1>0, <2>1 DEF Growing, Role, Resolving, ThroughProxy
  <2> QED
    BY <1>0, <1>4, <2>2, Grows, ResolvePresent
<1>5. CASE \/ t \in Sessions /\ ProxiesResolve(t)
           \/ t \in Workers /\ WorkerResolves(t)
  BY <1>0, <1>1, <1>5, BeginFields DEF SetsOut, Goes, Grabs, Same
<1>6. CASE t \in Sessions /\ SkipConnected(t)
  BY <1>0, <1>1, <1>6, SkipFields DEF Goes, Grabs, Same
<1>7. CASE DeleteHost(t) \/ SendCleanup(t) \/ CleanupDone(t) \/ LoadHost(t)
  <2>1. CASE SendCleanup(t)
    <3>1. /\ q.pc = "cleanup" /\ Grabs(t, "cleanup", q.chan, q.left - 1)
          /\ \E r \in Listening(q.chan) : Cleanup(r)
      BY <1>0, <2>1, CleanupFields
    <3>2. up' = up /\ Away
      BY <1>3, <3>1 DEF Cleanup, stateVars, Grabs
    <3> QED
      BY <1>1, <3>2
  <2>2. CASE DeleteHost(t) \/ CleanupDone(t) \/ LoadHost(t)
    <3>1. up' = up /\ th'[t].pc \in {"idle", "loop", "deleteHost"}
      BY <1>0, <2>2, HostFields, CleanupFields
         DEF Goes, Grabs, Rests, Idle, DeleteConnInfo, DeleteHostInfo, SetHostInfo
    <3> QED
      BY <1>1, <3>1
  <2> QED
    BY <1>7, <2>1, <2>2
<1>8. CASE \/ t \in Sessions /\ SessionGetsConn(t)
           \/ DisconnectGetsConn(t) \/ RunGetsConn(t)
  BY <1>0, <1>1, <1>8, GetsConnFields DEF Goes, Grabs, Same
<1>9. CASE AskHostExists(t)
  <2>1. CASE Goes(t, "getHostInfo") /\ HostExists(q.at) /\ UNCHANGED <<targets, up>>
    BY <1>1, <2>1 DEF Goes, Grabs, Keeps, KeepsLoop, PresentAt, HostExists
  <2>2. CASE UNCHANGED th /\ up' = "exited"
    <3>1. UNCHANGED <<targets, conn>>
      BY <1>0, <1>9, AskHostFields
    <3>2. Lasting(t)
      BY <3>1 DEF Lasting, HostExists, ConnExists
    <3> QED
      BY <1>1, <2>2, <3>2, PresentStays
  <2> QED
    BY <1>0, <1>1, <1>9, <2>1, <2>2, AskHostFields DEF Goes, Grabs, Rests, Idle
<1>10. CASE AskConnExists(t)
  <2>1. CASE Goes(t, "getConnInfo") /\ ConnExists(q.at) /\ Same
    BY <1>1, <2>1 DEF Goes, Grabs, Keeps, KeepsLoop, PresentAt, ConnExists, Same
  <2> QED
    BY <1>0, <1>1, <1>10, <2>1, AskConnFields DEF Goes, Grabs, Rests, Idle, Same
<1>11. CASE HostGone(t) \/ ConnGone(t)
  BY <1>1, <1>11 DEF HostGone, ConnGone, At, PresentAt
<1>12. CASE SetStatus(t) \/ SendRun(t) \/ \E ok \in BOOLEAN : RunAnswered(t, ok)
  <2>1. /\ up' = up
        /\ Goes(t, "connExists") \/ Rests(t) \/ Grabs(t, "awaitRun", NoChan, th[t].left)
    <3>1. CASE SetStatus(t)
      BY <1>0, <3>1, OutcomeFields DEF SetConnectionStatus
    <3>2. CASE SendRun(t)
      BY <1>0, <3>2, OutcomeFields DEF Same
    <3>3. ASSUME NEW ok \in BOOLEAN, RunAnswered(t, ok) PROVE Rests(t) /\ up' = up
      BY <1>0, <3>3, OutcomeFields DEF SetRunStatus
    <3> QED
      BY <1>12, <3>1, <3>2, <3>3
  <2>2. Away
    BY <2>1 DEF Goes, Grabs, Rests, Idle
  <2> QED
    BY <1>1, <2>1, <2>2
<1> QED
  BY <1>4, <1>5, <1>6, <1>7, <1>8, <1>9, <1>10, <1>11, <1>12
     DEF Plain, CommonStep, WorkerStep

(* Every step keeps it.                                                    *)
LEMMA PresentNext ==
    ASSUME Orderly, PasswordsKnown, MuxesMade, OpsAll, PresentInv,
           [Next]_allVars
    PROVE  PresentInv'
<1>0. /\ Reapers = {} /\ ThreadsOK /\ TablesOK /\ OpsInv /\ up # "panicked"
      /\ Targets \subseteq Names
  BY TargetsAssumption DEF Orderly, OpsAll, TypeInv, PresentInv
<1> USE DEF ProxyKnown
<1>1. ASSUME up' # "panicked",
             Password => \A h \in Targets : HostExists(h) => HostExists(h)',
             \A t \in Threads : PresentAt(t, th[t])' \/ (th'[t] = th[t] /\ Lasting(t))
      PROVE  PresentInv'
  <2>1. \A t \in Threads : PresentAt(t, th[t])'
    BY <1>1, PresentStays DEF PresentInv
  <2>2. Password => \A h \in Targets : HostExists(h)'
    BY <1>1 DEF PresentInv
  <2> QED
    BY <1>1, <2>1, <2>2 DEF PresentInv
<1>2. ASSUME UNCHANGED <<targets, conn>>
      PROVE  /\ \A h \in Targets : HostExists(h) => HostExists(h)'
             /\ \A t \in Threads : Lasting(t)
  BY <1>2 DEF Lasting, HostExists, ConnExists
<1>3. CASE Asks
  BY <1>0, <1>1, <1>2, <1>3 DEF Asks
<1>4. ASSUME NEW s \in Sessions, NEW op \in DOMAIN Plan, Start(s, op)
      PROVE  PresentInv'
  <2>1. /\ Frame(s) /\ Same /\ th'[s].pc = "keys"
    BY <1>0, <1>4, StartFields
  <2> QED
    BY <1>0, <1>1, <1>2, <2>1 DEF Frame, Same, PresentAt
<1>5. ASSUME NEW t \in Threads, ThreadStep(t) PROVE PresentInv'
  <2>1. /\ \A u \in Threads : u # t => Lasting(u)
        /\ Password => \A h \in Targets : HostExists(h) => HostExists(h)'
    BY <1>5, StepsLast, HostsStay
  <2>2. CASE t \in Sessions /\ (TakeKeys(t) \/ Pick(t) \/ EndLoop(t))
    <3>1. /\ Frame(t) /\ Same
          /\ th'[t].pc \in {"loop", "keys", "wait", "skipConnected", "connExists", "hostExists"}
      BY <1>0, <2>2, TakeKeysFields, PickFields, EndLoopFields
    <3> QED
      BY <1>0, <1>1, <2>1, <3>1 DEF Frame, Same, PresentAt
  <2>3. CASE t \in Sessions /\ Finish(t)
    <3>1. Rests(t) /\ up' \in {up, "exited"}
      BY <1>0, <2>3, FinishFields
    <3> QED
      BY <1>0, <1>1, <2>1, <3>1 DEF Rests, Frame, PresentAt, Idle
  <2>4. CASE t \in Sessions /\ (Acquire(t) \/ CleanHost(t))
    <3>1. ASSUME NEW op, NEW p, Starts(t, op, p),
                 p \notin {"getHostInfo", "getConnInfo"} \cup ProxyKnown
          PROVE  PresentInv'
      BY <1>0, <1>1, <1>2, <3>1 DEF Starts, Same, PresentAt
    <3>2. CASE Same /\ Goes(t, "loop")
      BY <1>0, <1>1, <2>1, <3>2 DEF Goes, Grabs, Frame, Same, PresentAt
    <3>3. CASE Starts(t, th[t].op, IF th[t].op = "connect" THEN "hostExists" ELSE "connExists")
      BY <3>1, <3>3
    <3> QED
      BY <1>0, <2>4, <3>1, <3>2, <3>3, StartsFields
  <2>5. CASE Plain(t)
    <3>1. Frame(t) /\ up' # "panicked" /\ PresentAt(t, th[t])'
      BY <1>5, <2>5, PlainPresent
    <3> QED
      BY <1>1, <2>1, <3>1 DEF Frame
  <2> QED
    BY <1>5, <2>2, <2>3, <2>4, <2>5, ThreadStepKinds
<1> QED
  BY <1>0, <1>3, <1>4, <1>5, StepKinds

(* state.go:443-445: when one session runs any commands, or any number of  *)
(* them connect and run at the same time, neither the serializer nor a     *)
(* goroutine follows a nil pointer, whichever dials fail, as long as no    *)
(* keep-alive disconnects a host, there are muxes to close when something  *)
(* is disconnected, and, if passwords are asked for, every link is a       *)
(* target for good.  With another session that disconnects it fails:       *)
(* ConnPanic.                                                              *)
THEOREM NoPanicCorrect ==
    ASSUME Orderly, PasswordsKnown, MuxesMade
    PROVE  Spec => []NoPanic
<1>1. Init => OpsAll /\ PresentInv
  <2> SUFFICES ASSUME Init PROVE PresentInv
    BY OpsInit
  <2>1. \A h \in Targets : HostExists(h)
    BY TargetsAssumption, NewHostThere DEF Init, HostExists
  <2>2. \A t \in Threads : th[t].pc = "idle"
    BY DEF Init, Idle
  <2>3. up # "panicked"
    BY DEF Init
  <2> QED
    BY <2>1, <2>2, <2>3 DEF PresentInv, PresentAt, ProxyKnown
<1>2. OpsAll /\ PresentInv /\ [Next]_allVars => (OpsAll /\ PresentInv)'
  BY OpsNext, PresentNext DEF Orderly
<1>3. PresentInv => NoPanic
  BY DEF PresentInv, NoPanic
<1> QED
  BY <1>1, <1>2, <1>3, PTL DEF Spec

-----------------------------------------------------------------------------
(* Dials that are not made to fail succeed, and there is one to make.      *)
Reliable == FailingDials = {} /\ BastionConns # 0

(* Only the first link of a chain is dialled, and those dials succeed.     *)
Sure(h) == Chain[h][1] \notin FailingDials

(* Then the links behind a goroutine are connected, and so is the last     *)
(* one of a chain that it resolved.                                        *)
Walked(t, r) ==
    /\ r.pc = "dialing" => r.idx = 1
    /\ r.pc \in Resolving /\ Sure(r.at) =>
          /\ \A i \in 1..(r.idx - 1) : ConnExists(WayOf(t, r.at)[i])
          /\ r.pc = "dialing" =>
                r.dialing \cup r.dialed # {} \/ ConnExists(LinkOf(t, r))
    /\ r.pc = "setStatus" =>
          r.at \in Targets
              /\ (r.ok /\ Sure(r.at) => ConnExists(Last(Chain[r.at])))
WalkInv == \A t \in Threads : Walked(t, th[t])

(* When none fails, that is so for every chain.                            *)
LEMMA AllSure ==
    ASSUME Reliable
    PROVE  BastionConns # 0 /\ \A h : Sure(h)
<1> QED
  BY DEF Reliable, Sure

(* The last link of a chain is a name, and is where a worker's walk ends.  *)
LEMMA LastType ==
    ASSUME NEW h \in Targets
    PROVE  /\ Last(Chain[h]) \in Names
           /\ \A t : t \notin Sessions =>
                 Last(Chain[h]) = WayOf(t, h)[Len(WayOf(t, h))]
<1>1. Chain[h] \in Seq(Names) /\ Len(Chain[h]) \in Nat /\ Len(Chain[h]) > 0
  BY ChainAssumption
<1>2. Last(Chain[h]) = Chain[h][Len(Chain[h])]
  BY DEF Last
<1> QED
  BY <1>1, <1>2 DEF WayOf

(* Nothing is behind a goroutine that is not in resolve.                   *)
LEMMA WalkedElsewhere ==
    ASSUME NEW t \in Threads, th'[t].pc \notin Resolving \cup {"setStatus"}
    PROVE  Walked(t, th[t])'
<1>1. /\ th'[t].pc \notin Resolving /\ th'[t].pc # "setStatus"
      /\ th'[t].pc # "dialing"
  BY DEF Resolving
<1> QED
  BY <1>1 DEF Walked

(* What is behind one that does not move stays connected.                  *)
LEMMA WalkedStays ==
    ASSUME Orderly, OpsAll, NEW t \in Threads, ThreadStep(t),
           NEW u \in Threads, th'[u] = th[u], Walked(u, th[u])
    PROVE  Walked(u, th[u])'
<1>1. ThreadsOK /\ OpsInv /\ Role(u, th[u]) /\ LocalOK(u, th[u])
  BY DEF OpsAll, TypeInv, ThreadsOK, OpsInv
<1>2. CASE th[u].pc \notin Resolving \cup {"setStatus"}
  BY <1>2, WalkedElsewhere
<1>3. CASE th[u].pc \in Resolving \cup {"setStatus"}
  <2>1. th[u].op = "connect"
    BY <1>1, <1>3 DEF Role, Threads, Orderly, Resolving, ThroughProxy
  <2>2. Grown
    BY <2>1, Grows DEF Growing
  <2>3. CASE th[u].pc \in Resolving
    <3>1. /\ th[u].at \in Targets /\ th[u].idx \in 1..Len(WayOf(u, th[u].at))
          /\ Len(WayOf(u, th[u].at)) \in Nat
          /\ \A i \in 1..Len(WayOf(u, th[u].at)) : WayOf(u, th[u].at)[i] \in Names
      BY <1>1, <2>3, WayType DEF LocalOK
    <3>2. \A i \in 1..th[u].idx : WayOf(u, th[u].at)[i] \in Names
      BY <3>1
    <3>3. th[u].pc # "setStatus"
      BY <2>3 DEF Resolving, ThroughProxy
    <3> QED
      BY <2>2, <2>3, <3>1, <3>2, <3>3 DEF Walked, Grown, ConnExists, LinkOf, Sure
  <2>4. CASE th[u].pc = "setStatus"
    <3>1. th[u].at \in Targets
      BY <2>4 DEF Walked
    <3>2. Last(Chain[th[u].at]) \in Names
      BY <3>1, LastType
    <3>3. th[u].pc \notin Resolving /\ th[u].pc # "dialing"
      BY <2>4 DEF Resolving, ThroughProxy
    <3> QED
      BY <2>2, <2>4, <3>1, <3>2, <3>3 DEF Walked, Grown, ConnExists, Sure
  <2> QED
    BY <1>3, <2>3, <2>4
<1> QED
  BY <1>2, <1>3

(* A goroutine that goes on, with its link connected, has all of them      *)
(* behind it.                                                              *)
LEMMA WalksOn ==
    ASSUME Orderly, OpsAll, NEW t \in Threads, ThreadStep(t), Walked(t, th[t]),
           th[t].pc \in Resolving, Advances(t) \/ Ended(t) \/ Leaves(t, FALSE),
           \/ Leaves(t, FALSE) \/ ~Sure(th[t].at)
           \/ conn'[LinkOf(t, th[t])] # NoInfo
    PROVE  Walked(t, th[t])'
<1> DEFINE q == th[t]
           way == WayOf(t, q.at)
<1>1. ThreadsOK /\ OpsInv /\ Role(t, q) /\ LocalOK(t, q) /\ th'[t].at = q.at
  BY DEF OpsAll, TypeInv, ThreadsOK, OpsInv, Advances, Ended, Leaves, KeepsLoop
<1>2. /\ q.at \in Targets /\ q.idx \in 1..Len(way) /\ Len(way) \in Nat
      /\ \A i \in 1..Len(way) : way[i] \in Names
  BY <1>1, WayType DEF LocalOK
<1>3. q.op = "connect"
  BY <1>1 DEF Role, Threads, Orderly, Resolving, ThroughProxy
<1>4. Grown
  BY <1>3, Grows DEF Growing
<1>5. Sure(q.at) => \A i \in 1..(q.idx - 1) : conn'[way[i]] # NoInfo
  <2>1. \A i \in 1..(q.idx - 1) : way[i] \in Names
    BY <1>2
  <2> QED
    BY <1>4, <2>1 DEF Walked, Grown
<1>6. CASE Advances(t)
  <2>1. Sure(q.at) => \A i \in 1..q.idx : conn'[way[i]] # NoInfo
    <3>1. Sure(q.at) => conn'[way[q.idx]] # NoInfo
      BY <1>6 DEF LinkOf, Advances, Leaves
    <3>2. \A i \in 1..q.idx : i = q.idx \/ i \in 1..(q.idx - 1)
      BY <1>2
    <3> QED
      BY <1>5, <3>1, <3>2
  <2>2. th'[t].pc = "link" /\ th'[t].idx - 1 = q.idx /\ WayOf(t, th'[t].at) = way
    BY <1>1, <1>2, <1>6 DEF Advances
  <2> QED
    BY <1>1, <2>1, <2>2 DEF Walked, ConnExists, Sure
<1>7. CASE t \in Sessions /\ th'[t].pc = "loop"
  BY <1>7, WalkedElsewhere DEF Resolving, ThroughProxy
<1>8. CASE t \notin Sessions /\ th'[t].pc = "setStatus" /\ th'[t].ok = FALSE
  <2>1. /\ th'[t].pc \notin Resolving /\ th'[t].pc # "dialing"
        /\ th'[t].pc = "setStatus" /\ th'[t].ok = FALSE
    BY <1>8 DEF Resolving, ThroughProxy
  <2> QED
    BY <1>1, <1>2, <2>1 DEF Walked
<1>9. CASE t \notin Sessions /\ th'[t].pc = "setStatus" /\ Ended(t) /\ th'[t].ok = TRUE
  <2>1. /\ th'[t].pc \notin Resolving /\ th'[t].pc # "dialing"
        /\ th'[t].pc = "setStatus"
    BY <1>9 DEF Resolving, ThroughProxy
  <2>2. LinkOf(t, q) = Last(Chain[q.at])
    BY <1>2, <1>9, LastType DEF Ended, LinkOf
  <2>3. Sure(q.at) => conn'[LinkOf(t, q)] # NoInfo
    BY <1>9 DEF Ended, Leaves
  <2> QED
    BY <1>1, <1>2, <2>1, <2>2, <2>3 DEF Walked, ConnExists, Sure
<1> QED
  BY <1>6, <1>7, <1>8, <1>9 DEF Ended, Leaves

(* A connection that is registered is connected.                           *)
LEMMA Connected ==
    ASSUME TypeInv, NEW t \in Threads, th[t].pc \in {"register", "dialing"},
           NEW b \in BOOLEAN, NEW d \in BOOLEAN,
           SetConnInfo(LinkOf(t, th[t]),
               [chan |-> th[t].chan, isProxy |-> b, isDirect |-> d])
    PROVE  conn'[LinkOf(t, th[t])] # NoInfo
<1> DEFINE l == LinkOf(t, th[t])
           ci == [chan |-> th[t].chan, isProxy |-> b, isDirect |-> d]
<1>1. ThreadsOK /\ TablesOK /\ LocalOK(t, th[t]) /\ th[t] \in ThreadState
  BY DEF TypeInv, ThreadsOK
<1>2. l \in Names
  BY <1>1, LinkType DEF Resolving, ThroughProxy, Link, LinkOf, Way, WayOf, AsProxy
<1>3. th[t].chan \in Nat
  BY <1>1, ChannelsAssumption DEF LocalOK, ThreadState
<1>4. ci \in ConnInfo
  BY <1>3 DEF ConnInfo
<1>5. ci # NoInfo
  BY <1>4, NoInfoAssumption
<1> HIDE DEF ci
<1>6. conn' = IF ConnExists(l) THEN conn ELSE [conn EXCEPT ![l] = ci]
  BY DEF SetConnInfo, ci
<1> QED
  BY <1>1, <1>2, <1>5, <1>6 DEF TablesOK, ConnExists

(* A goroutine goes on with a link, and dials only the first.              *)
GoesAhead(t) ==
    /\ Frame(t) /\ KeepsLoop(th'[t], th[t]) /\ th'[t].pc \in Resolving
    /\ th'[t].pc = "dialing" => th'[t].idx = 1

LEMMA WayFirst ==
    ASSUME NEW t, NEW h \in Targets, 1 \in 1..Len(WayOf(t, h))
    PROVE  WayOf(t, h)[1] = Chain[h][1]
<1>1. Chain[h] \in Seq(Names)
  BY ChainAssumption
<1> QED
  BY <1>1 DEF WayOf, Front

(* Whichever dials fail, a step of resolve does that, or leaves the link.  *)
LEMMA ResolveGoesOn ==
    ASSUME TypeInv, NEW t \in Threads, ResolveStep(t),
           th[t].pc = "dialing" => th[t].idx = 1
    PROVE  /\ th[t].pc \in Resolving /\ Frame(t)
           /\ \/ UNCHANGED th
              \/ Leaves(t, FALSE) \/ Advances(t) \/ Ended(t)
              \/ GoesAhead(t)
<1> DEFINE q == th[t]
<1>1. ThreadsOK
  BY DEF TypeInv
<1>0. q.pc \in Resolving
  BY <1>1, LinkFields, ProxyFields, AnswerFields, NewConnFields, DialFields,
     DialsDoneFields DEF ResolveStep, Resolving, ThroughProxy
<1> DEFINE G == \/ UNCHANGED th
                \/ Leaves(t, FALSE) \/ Advances(t) \/ Ended(t)
                \/ GoesAhead(t)
<1>. SUFFICES G
  BY <1>0 DEF Leaves, Advances, Ended, GoesAhead, Frame
<1>2. ASSUME NEW p \in Resolving \ {"dialing"}, NEW c, NEW n, Grabs(t, p, c, n)
      PROVE  GoesAhead(t)
  BY <1>2 DEF Grabs, Keeps, GoesAhead
<1>3. ASSUME NEW d, NEW e, Dials(t, d, e), q.pc = "dialing" PROVE GoesAhead(t)
  <2>1. "dialing" \in Resolving
    BY DEF Resolving
  <2> QED
    BY <1>3, <2>1 DEF Dials, GoesAhead, KeepsWalk
<1>4. CASE ExamineLink(t)
  <2>1. CASE /\ Frame(t) /\ th'[t].pc = "dialing" /\ q.idx = 1
             /\ KeepsLoop(th'[t], q) /\ KeepsWalk(th'[t], q)
    BY <2>1 DEF GoesAhead, KeepsWalk, Resolving
  <2>2. CASE Goes(t, "proxyExists")
    BY <1>2, <2>2 DEF Goes, Resolving, ThroughProxy
  <2> QED
    BY <1>1, <1>4, <2>1, <2>2, LinkFields
<1>5. CASE ProxyExists(t) \/ GetProxy(t)
  <2>1. \/ UNCHANGED th \/ Advances(t) \/ Ended(t) \/ Goes(t, "getProxy")
        \/ \E c : Grabs(t, "ask", c, q.left)
    BY <1>1, <1>5, ProxyFields
  <2>2. {"getProxy", "ask"} \subseteq Resolving \ {"dialing"}
    BY DEF Resolving, ThroughProxy
  <2> QED
    BY <1>2, <2>1, <2>2 DEF Goes
<1>6. CASE AskProxy(t) \/ ProxyAnswers(t) \/ ProxyRefuses(t) \/ AskPassword(t)
  <2>1. \/ UNCHANGED th \/ Leaves(t, FALSE) \/ Goes(t, "countProxy")
        \/ Grabs(t, "awaitClient", NoChan, q.left)
    BY <1>1, <1>6, AnswerFields
  <2>2. {"countProxy", "awaitClient"} \subseteq Resolving \ {"dialing"}
    BY DEF Resolving, ThroughProxy
  <2> QED
    BY <1>2, <2>1, <2>2 DEF Goes
<1>7. CASE CountProxy(t) \/ Register(t)
  <2>1. \/ UNCHANGED th \/ Advances(t) \/ Ended(t)
        \/ Grabs(t, "register", FreshChan, q.left)
    BY <1>1, <1>7, NewConnFields
  <2>2. "register" \in Resolving \ {"dialing"}
    BY DEF Resolving, ThroughProxy
  <2> QED
    BY <1>2, <2>1, <2>2
<1>8. ASSUME NEW i \in Ids, DialSucceeds(t, i) \/ DialFails(t, i) \/ DialRegisters(t, i)
      PROVE  GoesAhead(t)
  <2>1. q.pc = "dialing" /\ \E d, e : Dials(t, d, e)
    BY <1>1, <1>8, DialFields
  <2> QED
    BY <1>3, <2>1
<1>9. CASE DialsDone(t)
  BY <1>1, <1>9, DialsDoneFields
<1> QED
  BY <1>4, <1>5, <1>6, <1>7, <1>8, <1>9 DEF ResolveStep

(* What a step of resolve comes to: nothing, an error, the next link or    *)
(* the end once this one is connected, or more work for this link.         *)
Works(t) ==
    /\ KeepsLoop(th'[t], th[t]) /\ KeepsWalk(th'[t], th[t])
    /\ th'[t].pc \in Resolving \ {"link"}
    /\ th'[t].pc = "dialing" => \/ th'[t].dialing \cup th'[t].dialed # {}
                                \/ conn'[LinkOf(t, th[t])] # NoInfo
    /\ th[t].pc = "link" => ~ConnExists(LinkOf(t, th[t]))

(* These are the cases.                                                    *)
LEMMA ResolveKinds ==
    ASSUME BastionConns # 0, TypeInv, NEW t \in Threads, Sure(th[t].at),
           ResolveStep(t), Walked(t, th[t])
    PROVE  /\ th[t].pc \in Resolving /\ Frame(t)
           /\ \/ UNCHANGED th
              \/ t \notin Sessions /\ Leaves(t, FALSE)
              \/ (Advances(t) \/ Ended(t)) /\ conn'[LinkOf(t, th[t])] # NoInfo
              \/ Works(t)
<1> DEFINE q == th[t]
           G == \/ UNCHANGED th
                \/ t \notin Sessions /\ Leaves(t, FALSE)
                \/ (Advances(t) \/ Ended(t)) /\ conn'[LinkOf(t, q)] # NoInfo
                \/ Works(t)
<1>1. /\ ThreadsOK /\ LocalOK(t, q) /\ q \in ThreadState
  BY DEF TypeInv, ThreadsOK
<1>2. q.pc \in Resolving
  BY <1>1, LinkFields, ProxyFields, AnswerFields, NewConnFields, DialFields,
     DialsDoneFields DEF ResolveStep, Resolving, ThroughProxy
<1>3. Frame(t)
  <2>1. CASE UNCHANGED th
    BY <2>1 DEF Frame
  <2>2. CASE th' # th
    BY <2>2, StepsMove DEF CommonStep, Moves
  <2> QED
    BY <2>1, <2>2
<1>4. ASSUME NEW p \in Resolving \ {"dialing", "link"}, NEW c, NEW n,
             Grabs(t, p, c, n), q.pc = "link" => ~ConnExists(LinkOf(t, q))
      PROVE  Works(t)
  BY <1>4 DEF Grabs, Keeps, Works
<1>5. SUFFICES G
  BY <1>2, <1>3
<1>6. CASE ExamineLink(t)
  <2>1. CASE ConnExists(LinkOf(t, q)) /\ (Advances(t) \/ Ended(t)) /\ Same
    BY <2>1 DEF ConnExists, Same
  <2>2. CASE Goes(t, "proxyExists") /\ ~ConnExists(LinkOf(t, q))
    BY <1>4, <2>2 DEF Goes, Resolving, ThroughProxy
  <2>3. CASE /\ Frame(t) /\ th'[t].pc = "dialing" /\ KeepsLoop(th'[t], q)
             /\ KeepsWalk(th'[t], q) /\ th'[t].dialing = Ids
             /\ ~ConnExists(LinkOf(t, q))
    <3>1. 1 \in Ids
      BY BastionConnsAssumption DEF Ids
    <3>2. th'[t].dialing \cup th'[t].dialed # {}
      BY <2>3, <3>1
    <3>3. "dialing" \in Resolving \ {"link"}
      BY DEF Resolving
    <3> QED
      BY <2>3, <3>2, <3>3 DEF Works
  <2> QED
    BY <1>1, <1>6, <2>1, <2>2, <2>3, LinkFields
<1>7. CASE ProxyExists(t)
  <2>1. ConnExists(ProxyOf(t, q))
    <3>1. q.idx > 1 /\ q.idx \in Nat
      BY <1>1, <1>7, ProxyFields DEF LocalOK, ThroughProxy, ThreadState
    <3>2. q.idx - 1 \in 1..(q.idx - 1)
      BY <3>1
    <3> QED
      BY <1>2, <3>2 DEF Walked, ProxyOf
  <2>2. Goes(t, "getProxy") /\ q.pc = "proxyExists"
    BY <1>1, <1>7, <2>1, ProxyFields
  <2> QED
    BY <1>4, <2>2 DEF Goes, Resolving, ThroughProxy
<1>8. CASE GetProxy(t)
  <2>1. ASSUME NEW c, Grabs(t, "ask", c, q.left), q.pc = "getProxy" PROVE Works(t)
    BY <1>4, <2>1 DEF Resolving, ThroughProxy
  <2> QED
    BY <1>1, <1>8, <2>1, ProxyFields
<1>9. CASE AskProxy(t) \/ ProxyAnswers(t)
  <2>1. /\ Grabs(t, "awaitClient", NoChan, q.left) \/ Goes(t, "countProxy")
        /\ q.pc # "link"
    BY <1>1, <1>9, AnswerFields
  <2> QED
    BY <1>4, <2>1 DEF Goes, Resolving, ThroughProxy
<1>10. CASE ProxyRefuses(t) \/ AskPassword(t)
  BY <1>1, <1>10, AnswerFields
<1>11. CASE CountProxy(t)
  <2>1. /\ UNCHANGED th \/ Grabs(t, "register", FreshChan, q.left)
        /\ q.pc = "countProxy"
    BY <1>1, <1>11, NewConnFields
  <2>2. ASSUME NEW c, Grabs(t, "register", c, q.left) PROVE Works(t)
    BY <1>4, <2>1, <2>2 DEF Resolving, ThroughProxy
  <2> QED
    BY <2>1, <2>2
<1>12. CASE Register(t)
  <2>1. /\ Advances(t) \/ Ended(t)
        /\ q.pc = "register"
        /\ SetConnInfo(LinkOf(t, q), [chan |-> q.chan, isProxy |-> t \in Sessions,
                                      isDirect |-> FALSE])
    BY <1>1, <1>12, NewConnFields
  <2>2. conn'[LinkOf(t, q)] # NoInfo
    <3>1. (t \in Sessions) \in BOOLEAN /\ FALSE \in BOOLEAN
      OBVIOUS
    <3> QED
      BY <2>1, <3>1, Connected
  <2> QED
    BY <2>1, <2>2
<1>13. CASE DialsDone(t)
  <2>1. /\ Advances(t) \/ Ended(t)
        /\ q.pc = "dialing" /\ q.dialing = {} /\ q.dialed = {} /\ Same
    BY <1>1, <1>13, DialsDoneFields
  <2>2. ConnExists(LinkOf(t, q))
    BY <1>2, <2>1 DEF Walked
  <2> QED
    BY <2>1, <2>2 DEF ConnExists, Same
<1>14. ASSUME NEW i \in Ids, NEW d, NEW e, Dials(t, d, e), q.pc = "dialing",
              i \in e \/ conn'[LinkOf(t, q)] # NoInfo
       PROVE  Works(t)
  <2>1. "dialing" \in Resolving \ {"link"} /\ th'[t].pc = "dialing"
    BY <1>14 DEF Dials, Resolving
  <2>2. th'[t].dialing \cup th'[t].dialed # {} \/ conn'[LinkOf(t, q)] # NoInfo
    BY <1>14 DEF Dials
  <2> QED
    BY <1>14, <2>1, <2>2 DEF Dials, Works
<1>15. ASSUME NEW i \in Ids, DialSucceeds(t, i) PROVE Works(t)
  <2>1. q.pc = "dialing" /\ Dials(t, q.dialing \ {i}, q.dialed \cup {i})
    BY <1>1, <1>15, DialFields
  <2>2. i \in q.dialed \cup {i}
    OBVIOUS
  <2> QED
    BY <1>14, <2>1, <2>2
<1>16. ASSUME NEW i \in Ids, DialFails(t, i) PROVE FALSE
  <2>1. q.pc = "dialing" /\ LinkOf(t, q) \in FailingDials /\ LocalOK(t, q)
    BY <1>1, <1>16, DialFields
  <2>2. q.idx = 1 /\ q.at \in Targets /\ 1 \in 1..Len(WayOf(t, q.at))
    BY <2>1 DEF LocalOK, Walked, Resolving
  <2> QED
    BY <2>1, <2>2, WayFirst DEF LinkOf, Sure
<1>17. ASSUME NEW i \in Ids, DialRegisters(t, i) PROVE Works(t)
  <2>1. /\ q.pc = "dialing" /\ Dials(t, q.dialing, q.dialed \ {i})
        /\ SetConnInfo(LinkOf(t, q), [chan |-> q.chan, isProxy |-> t \in Sessions,
                                      isDirect |-> TRUE])
    BY <1>1, <1>17, DialFields
  <2>2. conn'[LinkOf(t, q)] # NoInfo
    <3>1. (t \in Sessions) \in BOOLEAN /\ TRUE \in BOOLEAN
      OBVIOUS
    <3> QED
      BY <2>1, <3>1, Connected
  <2> QED
    BY <1>14, <1>17, <2>1, <2>2
<1> QED
  BY <1>6, <1>7, <1>8, <1>9, <1>10, <1>11, <1>12, <1>13, <1>15, <1>16, <1>17
     DEF ResolveStep

(* So they keep what is behind it connected.                               *)
LEMMA ResolveWalks ==
    ASSUME Orderly, BastionConns # 0, OpsAll, NEW t \in Threads, ThreadStep(t),
           ResolveStep(t), Walked(t, th[t])
    PROVE  UNCHANGED th \/ Walked(t, th[t])'
<1> DEFINE q == th[t]
           way == WayOf(t, q.at)
<1>1. /\ TypeInv /\ ThreadsOK /\ OpsInv /\ Role(t, q) /\ LocalOK(t, q)
      /\ q \in ThreadState /\ q.pc \in Resolving
  BY ResolveGoesOn DEF OpsAll, TypeInv, ThreadsOK, OpsInv, Walked
<1>2. CASE Works(t) /\ Sure(q.at)
  <2>1. /\ q.at \in Targets /\ q.idx \in 1..Len(way) /\ Len(way) \in Nat
        /\ \A i \in 1..Len(way) : way[i] \in Names
    BY <1>1, WayType DEF LocalOK
  <2>2. Grown
    <3>1. q.op = "connect"
      BY <1>1 DEF Role, Threads, Orderly, Resolving, ThroughProxy
    <3> QED
      BY <3>1, Grows DEF Growing
  <2>3. \A i \in 1..(q.idx - 1) : conn'[way[i]] # NoInfo
    <3>1. \A i \in 1..(q.idx - 1) : way[i] \in Names
      BY <2>1
    <3> QED
      BY <1>1, <1>2, <2>2, <3>1 DEF Walked, Grown
  <2>4. /\ th'[t].pc # "setStatus" /\ LinkOf(t, th'[t]) = LinkOf(t, q)
        /\ WayOf(t, th'[t].at) = way /\ th'[t].idx = q.idx
    BY <1>2 DEF Works, Resolving, ThroughProxy, LinkOf, KeepsLoop, KeepsWalk
  <2>5. UNCHANGED th \/ (th'[t].pc = "dialing" => q.idx = 1)
    BY <1>1, <2>4, ResolveGoesOn DEF Walked, Leaves, Advances, Ended, GoesAhead
  <2> QED
    BY <1>2, <2>3, <2>4, <2>5 DEF Walked, ConnExists, Works
<1>3. CASE ~Sure(q.at) /\ GoesAhead(t)
  <2>1. th'[t].at = q.at /\ ~Sure(th'[t].at) /\ th'[t].pc # "setStatus"
    BY <1>3 DEF GoesAhead, KeepsLoop, Sure, Resolving, ThroughProxy
  <2> QED
    BY <1>3, <2>1 DEF Walked, GoesAhead
<1>4. CASE ~Sure(q.at)
  BY <1>1, <1>3, <1>4, WalksOn, ResolveGoesOn DEF Walked
<1> QED
  BY <1>1, <1>2, <1>4, WalksOn, ResolveKinds

(* Only resolve comes so far: every other step ends elsewhere, or begins   *)
(* with the first link.                                                    *)
Elsewhere ==
    \A u \in Threads :
        th'[u] = th[u] \/ th'[u].pc \notin Resolving \cup {"setStatus"}

(* These are the steps of a goroutine.                                     *)
LEMMA StepsElsewhere ==
    ASSUME Reapers = {}, ThreadsOK, TablesOK, NEW t \in Threads, ThreadStep(t)
    PROVE  \/ ResolveStep(t)
           \/ /\ SetsOut(t)
              /\ \/ t \in Sessions /\ ProxiesResolve(t)
                 \/ t \in Workers /\ WorkerResolves(t)
           \/ Elsewhere
<1>0. Reapers = {} /\ ThreadsOK /\ TablesOK
  OBVIOUS
<1> DEFINE Low == {"loop", "keys", "wait", "skipConnected", "acquire", "idle",
                   "hostExists", "getHostInfo", "setHostInfo", "deleteHost",
                   "connExists", "getConnInfo", "cleanup", "sendRun", "awaitRun"}
<1>2. ASSUME Frame(t), th'[t].pc \in Low PROVE Elsewhere
  <2>1. th'[t].pc \notin Resolving \cup {"setStatus"}
    BY <1>2 DEF Resolving, ThroughProxy
  <2> QED
    BY <1>2, <2>1 DEF Frame, Elsewhere
<1>3. CASE t \in Sessions /\ (TakeKeys(t) \/ Pick(t) \/ EndLoop(t) \/ Finish(t))
  <2>1. Frame(t) /\ th'[t].pc \in Low
    BY <1>0, <1>3, TakeKeysFields, PickFields, EndLoopFields, FinishFields
       DEF Rests, Idle
  <2> QED
    BY <1>2, <2>1
<1>4. CASE t \in Sessions /\ (Acquire(t) \/ CleanHost(t))
  <2>1. ASSUME NEW op, NEW p \in Low, Starts(t, op, p) PROVE Elsewhere
    <3>1. Low \cap (Resolving \cup {"setStatus"}) = {}
      BY DEF Resolving, ThroughProxy
    <3> HIDE DEF Low
    <3>2. \A u \in Threads : th'[u] = th[u] \/ th'[u].pc \in Low \cup {"loop"}
      BY <2>1 DEF Starts
    <3>3. "loop" \in Low
      BY DEF Low
    <3> QED
      BY <3>1, <3>2, <3>3 DEF Elsewhere
  <2>2. CASE Goes(t, "loop")
    BY <1>2, <2>2 DEF Goes, Grabs
  <2> QED
    BY <1>0, <1>4, <2>1, <2>2, StartsFields
<1>5. CASE \/ t \in Sessions /\ ProxiesResolve(t)
           \/ t \in Workers /\ WorkerResolves(t)
  <2>1. CASE Goes(t, "loop")
    BY <1>2, <2>1 DEF Goes, Grabs
  <2> QED
    BY <1>0, <1>5, <2>1, BeginFields
<1>7. CASE \/ t \in Sessions /\ SkipConnected(t)
           \/ t \in Sessions /\ LoadHost(t)
           \/ DeleteHost(t) \/ SendCleanup(t) \/ CleanupDone(t)
  <2>1. Frame(t) /\ th'[t].pc \in Low
    BY <1>0, <1>7, SkipFields, HostFields, CleanupFields
       DEF Goes, Grabs, Rests, Idle
  <2> QED
    BY <1>2, <2>1
<1>8. CASE \/ t \in Sessions /\ SessionGetsConn(t)
           \/ DisconnectGetsConn(t) \/ RunGetsConn(t)
  <2>1. Frame(t) /\ th'[t].pc \in Low
    BY <1>0, <1>8, GetsConnFields DEF Goes, Grabs
  <2> QED
    BY <1>2, <2>1
<1>9. CASE AskHostExists(t) \/ AskConnExists(t) \/ HostGone(t) \/ ConnGone(t)
  <2>1. UNCHANGED th \/ (Frame(t) /\ th'[t].pc \in Low)
    <3>1. CASE AskHostExists(t)
      BY <1>0, <3>1, AskHostFields DEF Goes, Grabs, Rests, Idle
    <3>2. CASE AskConnExists(t)
      BY <1>0, <3>2, AskConnFields DEF Goes, Grabs, Rests, Idle
    <3> QED
      BY <1>9, <3>1, <3>2 DEF HostGone, ConnGone
  <2> QED
    BY <1>2, <2>1 DEF Elsewhere
<1>10. CASE SetStatus(t) \/ SendRun(t) \/ \E ok \in BOOLEAN : RunAnswered(t, ok)
  <2>1. Goes(t, "connExists") \/ Rests(t) \/ Grabs(t, "awaitRun", NoChan, th[t].left)
    <3>1. ASSUME NEW ok \in BOOLEAN, RunAnswered(t, ok) PROVE Rests(t)
      BY <1>0, <3>1, OutcomeFields
    <3> QED
      BY <1>0, <1>10, <3>1, OutcomeFields
  <2>2. Frame(t) /\ th'[t].pc \in Low
    BY <2>1 DEF Goes, Grabs, Rests, Idle
  <2> QED
    BY <1>2, <2>2
<1> QED
  <2>1. CASE Plain(t)
    BY <1>5, <1>7, <1>8, <1>9, <1>10, <2>1 DEF Plain, CommonStep, WorkerStep
  <2> QED
    BY <1>3, <1>4, <2>1, ThreadStepKinds

(* So every step keeps what is behind a goroutine connected.               *)
LEMMA WalkNext ==
    ASSUME Orderly, BastionConns # 0, OpsAll, WalkInv, [Next]_allVars
    PROVE  WalkInv'
<1>0. Reapers = {} /\ TypeInv /\ ThreadsOK /\ TablesOK /\ OpsInv
  BY DEF Orderly, OpsAll, TypeInv
<1>1. CASE Asks
  BY <1>1 DEF Asks, WalkInv, Walked, ConnExists, LinkOf
<1>2. ASSUME NEW s \in Sessions, NEW op \in DOMAIN Plan, Start(s, op)
      PROVE  WalkInv'
  <2>1. Frame(s) /\ Same /\ th'[s].pc = "keys"
    BY <1>0, <1>2, StartFields
  <2>2. th'[s].pc \notin Resolving \cup {"setStatus"}
    BY <2>1 DEF Resolving, ThroughProxy
  <2>3. ASSUME NEW u \in Threads, u # s PROVE Walked(u, th[u])'
    <3>1. th'[u] = th[u] /\ conn' = conn
      BY <2>1, <2>3 DEF Frame, Same
    <3> QED
      BY <3>1 DEF WalkInv, Walked, ConnExists, LinkOf
  <2> QED
    BY <2>2, <2>3, WalkedElsewhere DEF WalkInv
<1>3. ASSUME NEW t \in Threads, ThreadStep(t) PROVE WalkInv'
  <2>1. ASSUME \A u \in Threads : \/ th'[u] = th[u] \/ Walked(u, th[u])'
                                  \/ th'[u].pc \notin Resolving \cup {"setStatus"}
        PROVE  WalkInv'
    BY <1>3, <2>1, WalkedStays, WalkedElsewhere DEF WalkInv
  <2>2. CASE ResolveStep(t)
    <3>1. Frame(t) /\ (UNCHANGED th \/ Walked(t, th[t])')
      BY <1>0, <1>3, <2>2, ResolveWalks, ResolveGoesOn DEF WalkInv, Walked
    <3> QED
      BY <2>1, <3>1 DEF Frame
  <2>3. CASE SetsOut(t)
    <3>1. Frame(t) /\ th'[t].pc = "link" /\ th'[t].idx = 1
      BY <2>3 DEF SetsOut
    <3>2. Walked(t, th[t])'
      BY <3>1 DEF Walked
    <3> QED
      BY <2>1, <3>1, <3>2 DEF Frame
  <2> QED
    BY <1>0, <1>3, <2>1, <2>2, <2>3, StepsElsewhere DEF Elsewhere
<1> QED
  BY <1>0, <1>1, <1>2, <1>3, StepKinds

(* A host comes to be said to be connected by the worker that resolved it. *)
Reported ==
    \A h \in Targets :
        targets'[h] # NoInfo /\ targets'[h].connectedOK
            /\ ~(targets[h] # NoInfo /\ targets[h].connectedOK)
        => ConnExists(Last(Chain[h])) \/ Chain[h][1] \in FailingDials

(* Nobody else sets it.                                                    *)
LEMMA ReportedStep ==
    ASSUME Reapers = {}, OpsAll, WalkInv, [Next]_allVars
    PROVE  Reported
<1>0. ThreadsOK /\ TablesOK /\ OpsInv
  BY DEF OpsAll, TypeInv
<1>1. CASE UNCHANGED targets
  BY <1>1 DEF Reported
<1>2. ASSUME NEW s \in Sessions, NEW op \in DOMAIN Plan, Start(s, op)
      PROVE  UNCHANGED targets
  BY <1>0, <1>2, StartFields DEF Same
<1>3. ASSUME NEW k, NEW r \in HostInfo \cup {NoInfo}, ~(r # NoInfo /\ r.connectedOK),
             targets' = [targets EXCEPT ![k] = r]
      PROVE  Reported
  BY <1>0, <1>3, TargetsAssumption DEF Reported, TablesOK
<1>4. ASSUME NEW t \in Threads, ThreadStep(t) PROVE Reported
  <2>1. CASE DeleteHostInfo(th[t].at)
    BY <1>3, <2>1 DEF DeleteHostInfo
  <2>2. CASE SetHostInfo(th[t].at)
    <3>1. NewHost \in HostInfo /\ NewHost.connectedOK = FALSE
      BY DEF NewHost, HostInfo
    <3> QED
      BY <1>3, <2>2, <3>1 DEF SetHostInfo
  <2>3. CASE \A h \in Names : targets'[h] = NoInfo
    BY <2>3, TargetsAssumption DEF Reported
  <2>4. CASE th[t].pc = "setStatus" /\ SetConnectionStatus(th[t].at, th[t].ok)
    <3>1. Walked(t, th[t]) /\ th[t].ok \in BOOLEAN
      BY <1>0 DEF WalkInv, ThreadsOK, ThreadState
    <3>2. CASE th[t].ok
      <4>1. ConnExists(Last(Chain[th[t].at])) \/ Chain[th[t].at][1] \in FailingDials
        BY <2>4, <3>1, <3>2 DEF Walked, Sure
      <4>2. \A h \in Targets : h # th[t].at => targets'[h] = targets[h]
        BY <1>0, <2>4, TargetsAssumption DEF SetConnectionStatus, TablesOK
      <4> QED
        BY <4>1, <4>2 DEF Reported
    <3>3. CASE ~th[t].ok /\ HostExists(th[t].at)
      <4> DEFINE r == [targets[th[t].at] EXCEPT !.connectedOK = FALSE]
      <4>1. th[t].ok = FALSE /\ th[t].at \in Names
        <5>1. LocalOK(t, th[t])
          BY <1>0 DEF ThreadsOK
        <5> QED
          BY <2>4, <3>1, <3>3, <5>1 DEF LocalOK, AboutHost, Pcs
      <4>2. r \in HostInfo /\ r.connectedOK = FALSE
        BY <1>0, <3>3, <4>1 DEF TablesOK, HostExists, HostInfo
      <4>3. targets' = [targets EXCEPT ![th[t].at] = r]
        BY <1>0, <2>4, <3>3, <4>1 DEF SetConnectionStatus, TablesOK
      <4> HIDE DEF r
      <4> QED
        BY <1>3, <4>2, <4>3
    <3> QED
      BY <1>1, <2>4, <3>2, <3>3 DEF SetConnectionStatus
  <2>5. ASSUME NEW ok \in BOOLEAN, SetRunStatus(th[t].at, ok)
        PROVE  Reported
    <3> DEFINE k == th[t].at
               r == [targets[k] EXCEPT !.runOK = ok, !.runOnce = TRUE]
    <3>1. CASE HostExists(k) /\ k \in Names
      <4>1. targets[k] \in HostInfo
        BY <1>0, <3>1 DEF TablesOK, HostExists
      <4>2. r.connectedOK = targets[k].connectedOK
        BY <4>1 DEF HostInfo
      <4>3. targets' = [targets EXCEPT ![k] = r]
        BY <1>0, <2>5, <3>1 DEF SetRunStatus, TablesOK
      <4> HIDE DEF r
      <4>4. \A h \in Targets : targets'[h] = IF h = k THEN r ELSE targets[h]
        BY <1>0, <4>3, TargetsAssumption DEF TablesOK
      <4> QED
        BY <3>1, <4>2, <4>4 DEF Reported, HostExists
    <3>2. CASE ~HostExists(k) \/ k \notin Names
      <4>1. targets' = targets
        BY <1>0, <2>5, <3>2 DEF SetRunStatus, TablesOK
      <4> QED
        BY <1>1, <4>1
    <3> QED
      BY <3>1, <3>2
  <2> QED
    BY <1>0, <1>1, <1>4, <2>1, <2>2, <2>3, <2>4, <2>5, Effects
<1>5. Asks => UNCHANGED targets
  BY DEF Asks
<1> QED
  BY <1>1, <1>2, <1>4, <1>5, StepKinds

(* state.go:81-82, "Did it connect OK": when one session runs any commands *)
(* or all of them only connect and run, a host is said to be connected     *)
(* only when the last link of its chain is, or when the first is one whose *)
(* dials may fail, which is not reported (resolve.go:107-110).             *)
THEOREM ReportedConnectedCorrect ==
    ASSUME Orderly, BastionConns # 0
    PROVE  Spec => ReportedConnected
<1>1. Init => OpsAll /\ WalkInv
  <2> SUFFICES ASSUME Init PROVE WalkInv
    BY OpsInit
  <2>1. \A t \in Threads : th[t].pc = "idle"
    BY DEF Init, Idle
  <2> QED
    BY <2>1 DEF WalkInv, Walked, Resolving, ThroughProxy
<1>2. OpsAll /\ WalkInv /\ [Next]_allVars => (OpsAll /\ WalkInv)'
  BY OpsNext, WalkNext DEF Orderly
<1>3. OpsAll /\ WalkInv /\ [Next]_allVars => [Reported]_allVars
  BY ReportedStep DEF Orderly
<1>4. Spec => [][Reported]_allVars
  BY <1>1, <1>2, <1>3, PTL DEF Spec
<1> QED
  BY <1>4 DEF Reported, ReportedConnected

-----------------------------------------------------------------------------
(* The proxies of a host: the links before the last of its chain.          *)
AllUp(way) == \A i \in 1..Len(way) : ConnExists(way[i])
ProxiesUp(h) == AllUp(Front(Chain[h]))

(* What resolveProxies has seen to: the chains it asked for, and the hosts *)
(* it went through.                                                        *)
SeenTo(r, h) ==
    \/ h \in r.todo \/ ProxiesUp(h)
    \/ r.pc \in {"hostExists", "getHostInfo"} /\ h = r.at
    \/ r.pc \in Resolving /\ Front(Chain[h]) = Front(Chain[r.at])

SessionProxies(r) ==
    r.op = "connect" =>
        /\ r.pc = "keys" /\ r.stage = 1 => r.seen = {}
        /\ \A c \in r.seen :
              AllUp(c) \/ (r.pc \in Resolving /\ c = Front(Chain[r.at]))
        /\ r.pc # "keys" /\ r.stage = 1 => \A h \in GetHostKeys : SeenTo(r, h)
        /\ r.stage = 2 => \A h \in GetHostKeys : ProxiesUp(h)

(* So a worker finds the proxies connected, and connects its host only.    *)
WorkerProxies(r) ==
    r.pc \in Resolving =>
        /\ ProxiesUp(r.at)
        /\ r.pc # "link" => r.idx = Len(Chain[r.at])

ProxiesInv ==
    /\ \A s \in Sessions : SessionProxies(th[s])
    /\ \A w \in Workers : WorkerProxies(th[w])

(* Proxies that are connected stay connected while others are made.        *)
LEMMA UpStays ==
    ASSUME Grown
    PROVE  /\ \A c \in Seq(Names) : AllUp(c) => AllUp(c)'
           /\ \A h \in Targets : ProxiesUp(h) => ProxiesUp(h)'
<1>1. ASSUME NEW c \in Seq(Names), AllUp(c) PROVE AllUp(c)'
  <2>1. \A i \in 1..Len(c) : c[i] \in Names
    BY <1>1
  <2> QED
    BY <1>1, <2>1 DEF AllUp, Grown, ConnExists
<1>2. ASSUME NEW h \in Targets PROVE Front(Chain[h]) \in Seq(Names)
  BY ChainAssumption DEF Front
<1> QED
  BY <1>1, <1>2 DEF ProxiesUp

(* So a session that keeps its place in the loop has seen to as much.      *)
LEMMA SessionProxiesKept ==
    ASSUME Orderly, OpsAll, NEW t \in Threads, ThreadStep(t),
           NEW s \in Sessions, SessionProxies(th[s]),
           th'[s].seen = th[s].seen, KeepsLoop(th'[s], th[s]),
           \/ th'[s].pc = th[s].pc
           \/ th'[s].pc \in Resolving /\ th[s].pc \in Resolving
           \/ /\ th'[s].pc # "keys" /\ th[s].pc \notin Resolving \cup {"keys"}
              /\ \/ ProxiesUp(th[s].at)
                 \/ th[s].pc \notin {"hostExists", "getHostInfo"}
                 \/ th'[s].pc \in {"hostExists", "getHostInfo"}
                 \/ th[s].stage # 1
    PROVE  SessionProxies(th[s])'
<1> DEFINE q == th[s]
           r == th'[s]
<1>1. /\ ThreadsOK /\ TablesOK /\ q \in ThreadState /\ s \in Threads
      /\ q.seen \subseteq Seq(Names)
  BY DEF OpsAll, TypeInv, ThreadsOK, ThreadState, Threads
<1>2. SUFFICES ASSUME q.op = "connect" PROVE SessionProxies(th[s])'
  BY DEF SessionProxies, KeepsLoop
<1>3. Grown
  BY <1>1, <1>2, Grows DEF Growing
<1>4. /\ \A h \in Names : h \in GetHostKeys' <=> h \in GetHostKeys
      /\ GetHostKeys \subseteq Targets /\ GetHostKeys' \subseteq Names
  BY <1>1, <1>3 DEF Grown, GetHostKeys, HostExists, TablesOK
<1>5. /\ r.op = q.op /\ r.stage = q.stage /\ r.seen = q.seen /\ r.at = q.at
      /\ r.todo = q.todo
  BY DEF KeepsLoop
<1>6. \A c \in r.seen : AllUp(c)' \/ (r.pc \in Resolving /\ c = Front(Chain[r.at]))
  <2>1. \A c \in q.seen : AllUp(c) \/ (q.pc \in Resolving /\ c = Front(Chain[q.at]))
    BY <1>2 DEF SessionProxies
  <2> QED
    BY <1>1, <1>3, <1>5, <2>1, UpStays
<1>7. r.stage = 2 => \A h \in GetHostKeys' : ProxiesUp(h)'
  BY <1>2, <1>3, <1>4, <1>5, UpStays DEF SessionProxies
<1>8. r.pc # "keys" /\ r.stage = 1 => \A h \in GetHostKeys' : SeenTo(th[s], h)'
  <2> SUFFICES ASSUME r.pc # "keys", r.stage = 1, NEW h \in GetHostKeys'
               PROVE  SeenTo(th[s], h)'
    OBVIOUS
  <2>1. h \in GetHostKeys /\ h \in Targets /\ (ProxiesUp(h) => ProxiesUp(h)')
    BY <1>3, <1>4, UpStays
  <2>2. q.pc # "keys" /\ q.stage = 1
    BY <1>5 DEF Resolving, ThroughProxy
  <2>3. SeenTo(q, h)
    BY <1>2, <2>1, <2>2 DEF SessionProxies
  <2>4. {"hostExists", "getHostInfo"} \cap Resolving = {}
    BY DEF Resolving, ThroughProxy
  <2>5. CASE h \in q.todo \/ ProxiesUp(h)
    BY <1>5, <2>1, <2>5 DEF SeenTo
  <2>6. CASE q.pc \in {"hostExists", "getHostInfo"} /\ h = q.at
    BY <1>5, <2>1, <2>2, <2>4, <2>6 DEF SeenTo
  <2>7. CASE q.pc \in Resolving /\ Front(Chain[h]) = Front(Chain[q.at])
    BY <1>5, <2>1, <2>7 DEF SeenTo
  <2> QED
    BY <2>3, <2>5, <2>6, <2>7 DEF SeenTo
<1>9. r.pc = "keys" /\ r.stage = 1 => r.seen = {}
  BY <1>2, <1>5 DEF SessionProxies, Resolving, ThroughProxy
<1> QED
  BY <1>6, <1>7, <1>8, <1>9 DEF SessionProxies

(* And a worker that does not move still finds them.                       *)
LEMMA WorkerProxiesKept ==
    ASSUME Orderly, OpsAll, NEW t \in Threads, ThreadStep(t),
           NEW w \in Workers, WorkerProxies(th[w]),
           th'[w].pc \in Resolving => th[w].pc \in Resolving,
           th'[w].at = th[w].at,
           \/ th'[w].pc = "link"
           \/ th'[w].idx = th[w].idx /\ th[w].pc # "link"
           \/ th'[w].idx = th[w].idx /\ ~ConnExists(LinkOf(w, th[w]))
    PROVE  WorkerProxies(th[w])'
<1> DEFINE q == th[w]
           r == th'[w]
<1>1. SUFFICES ASSUME r.pc \in Resolving PROVE WorkerProxies(th[w])'
  BY DEF WorkerProxies
<1>2. /\ w \in Threads /\ ThreadsOK /\ OpsInv /\ Role(w, q) /\ LocalOK(w, q)
      /\ w \notin Sessions
  BY ThreadsAssumption DEF OpsAll, TypeInv, ThreadsOK, OpsInv, Threads
<1>3. q.op = "connect" /\ q.at \in Targets /\ q.idx \in 1..Len(WayOf(w, q.at))
  BY <1>1, <1>2 DEF Role, LocalOK, Resolving, ThroughProxy
<1>4. Grown
  BY <1>2, <1>3, Grows DEF Growing
<1>5. ProxiesUp(q.at)'
  BY <1>1, <1>3, <1>4, UpStays DEF WorkerProxies
<1>6. ~ConnExists(LinkOf(w, q)) => q.idx = Len(Chain[q.at])
  <2>1. Chain[q.at] \in Seq(Names) /\ Len(Chain[q.at]) \in Nat
    BY <1>3, ChainAssumption
  <2>2. q.idx \in 1..Len(Chain[q.at]) /\ LinkOf(w, q) = Chain[q.at][q.idx]
    BY <1>2, <1>3 DEF LinkOf, WayOf
  <2>3. ASSUME q.idx # Len(Chain[q.at]) PROVE ConnExists(LinkOf(w, q))
    <3>1. /\ Len(Front(Chain[q.at])) = Len(Chain[q.at]) - 1
          /\ \A i \in 1..(Len(Chain[q.at]) - 1) :
                Front(Chain[q.at])[i] = Chain[q.at][i]
      BY <2>1, <2>2 DEF Front
    <3>2. q.idx \in 1..(Len(Chain[q.at]) - 1)
      BY <2>1, <2>2, <2>3
    <3>3. AllUp(Front(Chain[q.at]))
      BY <1>1, <1>3 DEF WorkerProxies, ProxiesUp
    <3> QED
      BY <2>2, <3>1, <3>2, <3>3 DEF AllUp
  <2> QED
    BY <2>3
<1> QED
  BY <1>1, <1>5, <1>6 DEF WorkerProxies

(* The loops of a session see to every host they take.                     *)
LEMMA LoopProxies ==
    ASSUME Orderly, OpsAll, NEW s \in Sessions, ThreadStep(s), SessionProxies(th[s]),
           \/ TakeKeys(s) \/ Pick(s) \/ EndLoop(s) \/ Finish(s) \/ Acquire(s)
           \/ CleanHost(s)
    PROVE  SessionProxies(th[s])'
<1> DEFINE q == th[s]
           r == th'[s]
<1>1. /\ ThreadsOK /\ TablesOK /\ OpsInv /\ Role(s, q) /\ s \in Threads
      /\ LocalOK(s, q) /\ q.stage \in Nat
  BY DEF OpsAll, TypeInv, ThreadsOK, OpsInv, Threads, ThreadState
<1>2. "loop" \notin Resolving /\ "keys" \notin Resolving /\ "wait" \notin Resolving
      /\ "hostExists" \notin Resolving
  BY DEF Resolving, ThroughProxy
<1>3. q.pc # "idle" => (q.op = "connect" =>
          /\ q.stage \in {1, 2} /\ Len(Plan[q.op]) = 2
          /\ q.stage = 1 => Stage(s) = "proxies")
  BY <1>1, PlanTable DEF LocalOK, Stage
<1>4. UNCHANGED <<conn, targets>> =>
          /\ GetHostKeys' = GetHostKeys
          /\ \A h : ProxiesUp(h)' <=> ProxiesUp(h)
          /\ \A c : AllUp(c)' <=> AllUp(c)
  BY DEF GetHostKeys, HostExists, ProxiesUp, AllUp, ConnExists
<1>5. CASE TakeKeys(s)
  <2>1. /\ q.pc = "keys" /\ r.pc = "loop" /\ r.op = q.op /\ r.stage = q.stage
        /\ r.seen = q.seen /\ UNCHANGED <<conn, targets>>
        /\ Stage(s) = "proxies" => r.todo = GetHostKeys
    BY <1>1, <1>5, TakeKeysFields DEF Same, Teardown
  <2>2. r.stage = 1 /\ r.op = "connect" => \A h \in GetHostKeys' : h \in r.todo
    BY <1>3, <1>4, <2>1
  <2> QED
    BY <1>2, <1>4, <2>1, <2>2 DEF SessionProxies, SeenTo
<1>6. CASE Pick(s)
  <2>1. /\ q.pc = "loop" /\ r.op = q.op /\ r.stage = q.stage /\ r.seen = q.seen
        /\ r.todo = q.todo \ {r.at} /\ UNCHANGED <<conn, targets>>
        /\ Stage(s) = "proxies" => r.pc = "hostExists"
        /\ r.pc # "keys"
    BY <1>1, <1>6, PickFields DEF Same, Teardown
  <2>2. \A h : ProxiesUp(h) \/ h \in q.todo =>
           ProxiesUp(h)' \/ h \in r.todo \/ h = r.at
    BY <1>4, <2>1
  <2>3. q.op = "connect" => \A c \in q.seen : AllUp(c)'
    BY <1>2, <1>4, <2>1 DEF SessionProxies
  <2>4. q.op = "connect" /\ q.stage = 1 =>
           \A h \in GetHostKeys : ProxiesUp(h) \/ h \in q.todo
    BY <1>2, <2>1 DEF SessionProxies, SeenTo
  <2>5. q.op = "connect" /\ q.stage = 1 => \A h \in GetHostKeys' : SeenTo(th[s], h)'
    BY <1>3, <1>4, <2>1, <2>2, <2>4 DEF SeenTo
  <2>6. q.op = "connect" /\ q.stage = 2 => \A h \in GetHostKeys' : ProxiesUp(h)'
    BY <1>4, <2>1 DEF SessionProxies
  <2> QED
    BY <2>1, <2>3, <2>5, <2>6 DEF SessionProxies
<1>7. CASE EndLoop(s)
  <2>1. /\ q.pc = "loop" /\ q.todo = {} /\ UNCHANGED <<conn, targets>>
        /\ r.op = q.op /\ r.seen = {} /\ r.todo = {}
        /\ \/ q.stage < Len(Plan[q.op]) /\ r.pc = "keys" /\ r.stage = q.stage + 1
           \/ ~(q.stage < Len(Plan[q.op])) /\ r.pc = "wait" /\ r.stage = q.stage
    BY <1>1, <1>7, EndLoopFields DEF Same
  <2>2. q.op = "connect" => r.stage = 2
    <3>1. SUFFICES ASSUME q.op = "connect" PROVE r.stage = 2
      OBVIOUS
    <3>2. q.stage \in {1, 2} /\ Len(Plan[q.op]) = 2
      BY <1>3, <2>1, <3>1
    <3> HIDE <3>1
    <3> QED
      BY <2>1, <3>2
  <2>3. q.op = "connect" => \A h \in GetHostKeys : ProxiesUp(h)
    BY <1>2, <1>3, <2>1 DEF SessionProxies, SeenTo
  <2> QED
    BY <1>4, <2>1, <2>2, <2>3 DEF SessionProxies
<1>8. CASE Finish(s)
  <2>1. r = Idle
    BY <1>1, <1>8, FinishFields DEF Rests
  <2>2. r.op = "none"
    BY <2>1 DEF Idle
  <2> QED
    BY <2>2 DEF SessionProxies
<1>9. CASE Acquire(s) \/ CleanHost(s)
  <2>1. \/ q.pc = "acquire" /\ r.pc = "loop" /\ Keeps(r, q)
        \/ Stage(s) = "clean" /\ r.op = q.op /\ q.pc = "getHostInfo"
    BY <1>1, <1>9, StartsFields DEF Starts, Goes, Grabs, Keeps, KeepsLoop
  <2>2. CASE q.pc = "acquire" /\ r.pc = "loop" /\ Keeps(r, q)
    <3>1. /\ r.seen = q.seen /\ KeepsLoop(r, q) /\ r.pc # "keys"
          /\ q.pc \notin Resolving \cup {"keys", "hostExists", "getHostInfo"}
      BY <2>2 DEF Keeps, KeepsWalk, Resolving, ThroughProxy
    <3> QED
      BY <1>1, <3>1, SessionProxiesKept
  <2>3. CASE Stage(s) = "clean" /\ r.op = q.op /\ q.pc = "getHostInfo"
    <3>1. q.op = "clean"
      BY <1>1, <2>3, StageOps
    <3> QED
      BY <2>3, <3>1 DEF SessionProxies
  <2> QED
    BY <2>1, <2>2, <2>3
<1> QED
  BY <1>5, <1>6, <1>7, <1>8, <1>9

(* resolveProxies comes to the end of a chain when its links are connected.*)
LEMMA ResolveSeesTo ==
    ASSUME Orderly, Reliable, OpsAll, NEW s \in Sessions, ThreadStep(s),
           ResolveStep(s), Walked(s, th[s]), SessionProxies(th[s])
    PROVE  SessionProxies(th[s])'
<1> DEFINE q == th[s]
           r == th'[s]
           way == Front(Chain[q.at])
<1>1. /\ ThreadsOK /\ TablesOK /\ TypeInv /\ OpsInv /\ Role(s, q) /\ s \in Threads
      /\ LocalOK(s, q) /\ q \in ThreadState /\ q.seen \subseteq Seq(Names)
  BY DEF OpsAll, TypeInv, ThreadsOK, OpsInv, Threads, ThreadState
<1>0. s \in Threads
  BY DEF Threads
<1>2. q.pc \in Resolving
  BY <1>1, ResolveKinds, AllSure
<1>3. q.op = "connect" /\ q.stage = 1 /\ q.at \in Targets
      /\ q.idx \in 1..Len(way) /\ q.pc # "keys"
  BY <1>1, <1>2 DEF Role, LocalOK, Resolving, ThroughProxy, WayOf
<1>4. Grown
  BY <1>1, <1>3, Grows DEF Growing
<1>5. CASE UNCHANGED th
  BY <1>0, <1>5, SessionProxiesKept DEF KeepsLoop
<1>6. CASE Advances(s)
  <2>1. "link" \in Resolving
    BY DEF Resolving
  <2> QED
    BY <1>0, <1>2, <1>6, <2>1, SessionProxiesKept DEF Advances
<1>7. CASE Works(s)
  <2>1. th'[s].pc \in Resolving /\ KeepsLoop(r, q) /\ r.seen = q.seen
    BY <1>7 DEF Works, KeepsWalk
  <2> QED
    BY <1>0, <1>2, <2>1, SessionProxiesKept
<1>8. CASE Ended(s) /\ conn'[LinkOf(s, q)] # NoInfo
  <2>1. /\ r.pc = "loop" /\ KeepsLoop(r, q) /\ r.seen = q.seen
        /\ q.idx = Len(way)
    BY <1>8 DEF Ended, Leaves, WayOf
  <2>2. way \in Seq(Names) /\ Len(way) \in Nat
    BY <1>3, ChainAssumption DEF Front
  <2>3. \A c : c = way => AllUp(c)'
    <3>1. ASSUME NEW i \in 1..Len(way) PROVE conn'[way[i]] # NoInfo
      <4>1. CASE i = q.idx
        BY <1>8, <4>1 DEF LinkOf, WayOf
      <4>2. CASE i # q.idx
        <5>1. i \in 1..(q.idx - 1) /\ way[i] \in Names
          BY <2>1, <2>2, <4>2
        <5> QED
          BY <1>2, <1>4, <5>1, AllSure DEF Walked, Grown, WayOf
      <4> QED
        BY <4>1, <4>2
    <3> QED
      BY <3>1 DEF AllUp, ConnExists
  <2>4. \A c \in r.seen : AllUp(c)'
    <3>1. \A c \in r.seen : c \in Seq(Names) /\ (AllUp(c) \/ c = way)
      BY <1>1, <1>3, <2>1 DEF SessionProxies
    <3> QED
      BY <1>4, <2>3, <3>1, UpStays
  <2>5. GetHostKeys' \subseteq GetHostKeys /\ GetHostKeys \subseteq Targets
    BY <1>1, <1>4 DEF Grown, GetHostKeys, HostExists, TablesOK
  <2>6. \A h \in GetHostKeys' : SeenTo(th[s], h)'
    <3> SUFFICES ASSUME NEW h \in GetHostKeys' PROVE SeenTo(th[s], h)'
      OBVIOUS
    <3>1. h \in Targets /\ SeenTo(q, h) /\ r.todo = q.todo
      BY <1>3, <2>1, <2>5 DEF SessionProxies, KeepsLoop
    <3>2. CASE h \in q.todo
      BY <3>1, <3>2 DEF SeenTo
    <3>3. CASE ProxiesUp(h)
      BY <1>4, <3>1, <3>3, UpStays DEF SeenTo
    <3>4. CASE Front(Chain[h]) = way
      BY <2>3, <3>4 DEF SeenTo, ProxiesUp
    <3>5. q.pc \notin {"hostExists", "getHostInfo"}
      BY <1>2 DEF Resolving, ThroughProxy
    <3> QED
      BY <3>1, <3>2, <3>3, <3>4, <3>5 DEF SeenTo
  <2>7. r.stage = 1
    BY <1>3, <2>1 DEF KeepsLoop
  <2> QED
    BY <2>1, <2>4, <2>6, <2>7 DEF SessionProxies
<1> QED
  BY <1>1, <1>5, <1>6, <1>7, <1>8, ResolveKinds, AllSure

(* The other steps of a session keep what it has seen to.                  *)
LEMMA PlainSession ==
    ASSUME Orderly, Reliable, OpsAll, WalkInv, NEW s \in Sessions, ThreadStep(s),
           Plain(s), SessionProxies(th[s])
    PROVE  SessionProxies(th[s])'
<1> DEFINE q == th[s]
           r == th'[s]
<1>1. /\ Reapers = {} /\ ThreadsOK /\ TablesOK /\ OpsInv /\ Role(s, q)
      /\ s \in Threads /\ LocalOK(s, q) /\ s \notin Workers /\ Walked(s, q)
  BY ThreadsAssumption
     DEF Orderly, OpsAll, TypeInv, ThreadsOK, OpsInv, Threads, WalkInv
<1>0. s \in Threads
  BY DEF Threads
<1>2. CASE ResolveStep(s)
  BY <1>1, <1>2, ResolveSeesTo
<1>3. ASSUME KeepsLoop(r, q), q.op # "connect" PROVE SessionProxies(th[s])'
  BY <1>3 DEF SessionProxies, KeepsLoop
<1>4. CASE UNCHANGED th
  BY <1>0, <1>4, SessionProxiesKept DEF KeepsLoop
<1>5. CASE ProxiesResolve(s)
  <2>1. /\ q.pc = "getHostInfo" /\ q.at \in Targets /\ Same /\ KeepsLoop(r, q)
        /\ \/ /\ SetsOut(s) /\ r.seen = q.seen \cup {Front(Chain[q.at])}
           \/ /\ Goes(s, "loop")
              /\ \/ Front(Chain[q.at]) = << >>
                 \/ Front(Chain[q.at]) \in q.seen
    BY <1>1, <1>5, BeginFields DEF SetsOut, Goes, Grabs, Keeps
  <2>2. q.pc \notin Resolving \cup {"keys"}
    BY <2>1 DEF Resolving, ThroughProxy
  <2>3. CASE q.op # "connect"
    BY <1>3, <2>1, <2>3
  <2>4. CASE q.op = "connect" /\ SetsOut(s) /\ r.seen = q.seen \cup {Front(Chain[q.at])}
    <3>1. r.pc = "link" /\ r.pc \in Resolving /\ r.at = q.at /\ r.op = q.op
          /\ r.stage = q.stage /\ r.todo = q.todo
      BY <2>4 DEF SetsOut, Resolving, KeepsLoop
    <3>2. GetHostKeys' = GetHostKeys /\ \A h : ProxiesUp(h)' <=> ProxiesUp(h)
      BY <2>1 DEF Same, GetHostKeys, HostExists, ProxiesUp, AllUp, ConnExists
    <3>3. \A c : AllUp(c)' <=> AllUp(c)
      BY <2>1 DEF Same, AllUp, ConnExists
    <3>4. \A c \in r.seen : AllUp(c)' \/ c = Front(Chain[q.at])
      BY <2>2, <2>4, <3>3 DEF SessionProxies
    <3>5. q.stage = 1 => \A h \in GetHostKeys : \/ h \in q.todo \/ ProxiesUp(h)
                                                \/ h = q.at
      BY <2>2, <2>4 DEF SessionProxies, SeenTo
    <3>6. r.stage = 1 => \A h \in GetHostKeys' : SeenTo(th[s], h)'
      BY <3>1, <3>2, <3>5 DEF SeenTo
    <3>7. r.stage = 2 => \A h \in GetHostKeys' : ProxiesUp(h)'
      BY <2>4, <3>1, <3>2 DEF SessionProxies
    <3> QED
      BY <3>1, <3>4, <3>6, <3>7 DEF SessionProxies
  <2>5. CASE /\ q.op = "connect" /\ Goes(s, "loop")
             /\ Front(Chain[q.at]) = << >> \/ Front(Chain[q.at]) \in q.seen
    <3>1. ProxiesUp(q.at)
      <4>1. CASE Front(Chain[q.at]) = << >>
        BY <4>1 DEF ProxiesUp, AllUp
      <4>2. CASE Front(Chain[q.at]) \in q.seen
        BY <2>2, <2>5, <4>2 DEF SessionProxies, ProxiesUp
      <4> QED
        BY <2>5, <4>1, <4>2
    <3>2. r.pc = "loop" /\ r.seen = q.seen
      BY <2>5 DEF Goes, Grabs, Keeps, KeepsWalk
    <3> QED
      BY <1>0, <2>1, <2>2, <3>1, <3>2, SessionProxiesKept
  <2> QED
    BY <2>1, <2>3, <2>4, <2>5
<1>6. CASE AskHostExists(s)
  <2>1. ASSUME NEW p \in {"getHostInfo", "loop"}, Goes(s, p), q.pc = "hostExists",
               p = "getHostInfo" \/ q.stage # 1
        PROVE  SessionProxies(th[s])'
    <3>1. /\ r.pc = p /\ KeepsLoop(r, q) /\ r.seen = q.seen
          /\ p # "keys" /\ q.pc \notin Resolving \cup {"keys"}
      BY <2>1 DEF Goes, Grabs, Keeps, KeepsWalk, Resolving, ThroughProxy
    <3> QED
      BY <1>0, <2>1, <3>1, SessionProxiesKept
  <2>2. /\ q.pc = "hostExists"
        /\ \/ Goes(s, "getHostInfo")
           \/ Goes(s, "loop") /\ Stage(s) # "proxies"
           \/ Goes(s, "setHostInfo") /\ Stage(s) = "target"
           \/ UNCHANGED th
    BY <1>1, <1>6, AskHostFields
  <2>3. Stage(s) = "target" => q.op # "connect"
    BY <1>1, <2>2, StageOps
  <2>4. q.op = "connect" /\ Stage(s) # "proxies" => q.stage # 1
    BY <1>1, <2>2, PlanTable DEF LocalOK, Stage
  <2>5. Goes(s, "loop") \/ Goes(s, "setHostInfo") => KeepsLoop(r, q)
    BY DEF Goes, Grabs, Keeps
  <2> QED
    BY <1>3, <1>4, <2>1, <2>2, <2>3, <2>4, <2>5
<1>7. CASE SkipConnected(s)
  <2>1. /\ q.pc = "skipConnected" /\ KeepsLoop(r, q) /\ r.seen = q.seen
        /\ r.pc \in {"loop", "acquire"}
    BY <1>1, <1>7, SkipFields DEF Goes, Grabs, Keeps, KeepsWalk
  <2> QED
    BY <1>0, <2>1, SessionProxiesKept DEF Resolving, ThroughProxy
<1>8. CASE LoadHost(s)
  <2>1. q.op # "connect" /\ KeepsLoop(r, q)
    BY <1>1, <1>8, HostFields DEF Role, Goes, Grabs, Keeps
  <2> QED
    BY <1>3, <2>1
<1>9. CASE SessionGetsConn(s) \/ DisconnectGetsConn(s) \/ AskConnExists(s)
  <2>1. q.pc \in {"getConnInfo", "connExists"}
    BY <1>1, <1>9 DEF SessionGetsConn, DisconnectGetsConn, AskConnExists, At
  <2>2. q.op # "connect"
    BY <1>1, <2>1 DEF Role, Ending
  <2>3. KeepsLoop(r, q)
    BY <1>1, <1>9, GetsConnFields, AskConnFields DEF Goes, Grabs, Keeps, Same
  <2> QED
    BY <1>3, <2>2, <2>3
<1>10. CASE SendCleanup(s) \/ CleanupDone(s)
  <2>1. q.pc = "cleanup" /\ KeepsLoop(r, q)
    BY <1>1, <1>10, CleanupFields DEF Grabs, Keeps
  <2>2. q.op # "connect"
    BY <1>1, <2>1 DEF Role, Ending
  <2> QED
    BY <1>3, <2>1, <2>2
<1>11. CASE HostGone(s) \/ ConnGone(s)
  BY <1>4, <1>11 DEF HostGone, ConnGone
<1> QED
  BY <1>1, <1>2, <1>5, <1>6, <1>7, <1>8, <1>9, <1>10, <1>11 DEF Plain, CommonStep

(* A step of a goroutine leaves the others alone, but for a worker that it *)
(* starts.                                                                 *)
LEMMA StepsFrame ==
    ASSUME Reapers = {}, TypeInv, NEW t \in Threads, ThreadStep(t)
    PROVE  \/ Frame(t)
           \/ /\ t \in Sessions /\ (Acquire(t) \/ CleanHost(t))
              /\ \E op, p : Starts(t, op, p)
                            /\ p \in {"hostExists", "connExists", "deleteHost"}
<1>0. ThreadsOK
  BY DEF TypeInv
<1>1. CASE Plain(t)
  <2>1. CASE UNCHANGED th
    BY <2>1 DEF Frame
  <2>2. CASE th' # th
    BY <1>1, <2>2, StepsMove DEF Plain, Moves
  <2> QED
    BY <2>1, <2>2
<1>2. CASE t \in Sessions /\ (TakeKeys(t) \/ Pick(t) \/ EndLoop(t) \/ Finish(t))
  BY <1>0, <1>2, TakeKeysFields, PickFields, EndLoopFields, FinishFields DEF Rests
<1>3. CASE t \in Sessions /\ (Acquire(t) \/ CleanHost(t))
  BY <1>0, <1>3, StartsFields DEF Goes, Grabs
<1> QED
  BY <1>1, <1>2, <1>3, ThreadStepKinds

(* A worker begins when its session has seen to all proxies.               *)
LEMMA WorkerSeesTo ==
    ASSUME Orderly, Reliable, OpsAll, WalkInv, ProxiesInv,
           NEW w \in Workers, ThreadStep(w)
    PROVE  WorkerProxies(th[w])'
<1> DEFINE q == th[w]
           r == th'[w]
<1>0. w \in Threads
  BY DEF Threads
<1>1. /\ Reapers = {} /\ TypeInv /\ ThreadsOK /\ TablesOK /\ OpsInv /\ Role(w, q)
      /\ LocalOK(w, q) /\ w \notin Sessions /\ Walked(w, q) /\ WorkerProxies(q)
      /\ WorkersOK
  BY <1>0, ThreadsAssumption
     DEF Orderly, OpsAll, TypeInv, ThreadsOK, OpsInv, WalkInv, ProxiesInv
<1>2. ASSUME r.pc \notin Resolving PROVE WorkerProxies(th[w])'
  BY <1>2 DEF WorkerProxies
<1>3. ASSUME r = q PROVE WorkerProxies(th[w])'
  BY <1>0, <1>1, <1>3, WorkerProxiesKept
<1>4. CASE ResolveStep(w)
  <2>1. q.pc \in Resolving
    BY <1>0, <1>1, <1>4, ResolveKinds, AllSure
  <2>2. CASE Advances(w)
    <3>1. r.pc = "link" /\ r.at = q.at
      BY <2>2 DEF Advances, KeepsLoop
    <3> QED
      BY <1>0, <1>1, <2>1, <3>1, WorkerProxiesKept
  <2>3. CASE Works(w)
    <3>1. r.idx = q.idx /\ r.at = q.at /\ (q.pc = "link" => ~ConnExists(LinkOf(w, q)))
      BY <2>3 DEF Works, KeepsLoop, KeepsWalk
    <3> QED
      BY <1>0, <1>1, <2>1, <3>1, WorkerProxiesKept
  <2>4. CASE Ended(w) \/ Leaves(w, FALSE)
    <3>1. r.pc = "setStatus"
      BY <1>1, <2>4 DEF Ended, Leaves
    <3> QED
      BY <1>2, <3>1 DEF Resolving, ThroughProxy
  <2> QED
    BY <1>0, <1>1, <1>3, <1>4, <2>2, <2>3, <2>4, ResolveKinds, AllSure
<1>5. CASE SetsOut(w) /\ WorkerResolves(w)
  <2>1. q.pc = "getHostInfo" /\ HostExists(q.at) /\ Same
    BY <1>5 DEF WorkerResolves, At, Same, stateVars
  <2>2. r.pc = "link" /\ r.at = q.at
    BY <1>5 DEF SetsOut, KeepsLoop
  <2>3. PICK s \in Sessions, x \in Names : w = <<s, x>>
    BY DEF Workers
  <2>4. q.op = "connect"
    BY <1>1, <2>1 DEF Role
  <2>5. th[s].op = "connect" /\ th[s].stage = 2
    <3>1. th[s].op = "connect" /\ th[s].stage = Len(Plan[th[s].op])
      BY <1>1, <2>1, <2>3, <2>4 DEF OpsInv, WorkersOK
    <3>2. Len(Plan["connect"]) = 2
      BY DEF Plan
    <3> QED
      BY <3>1, <3>2
  <2>6. q.at \in GetHostKeys
    BY <1>1, <2>1 DEF GetHostKeys, LocalOK, AboutHost, Pcs
  <2>7. ProxiesUp(q.at)
    BY <2>5, <2>6 DEF ProxiesInv, SessionProxies
  <2>8. \A h : ProxiesUp(h) => ProxiesUp(h)'
    BY <2>1 DEF ProxiesUp, AllUp, ConnExists, Same
  <2> QED
    BY <2>2, <2>7, <2>8 DEF WorkerProxies
<1>6. CASE Elsewhere
  BY <1>0, <1>2, <1>3, <1>6 DEF Elsewhere
<1> QED
  BY <1>0, <1>1, <1>4, <1>5, <1>6, StepsElsewhere

(* Every step keeps what has been seen to.                                 *)
LEMMA ProxiesNext ==
    ASSUME Orderly, Reliable, OpsAll, WalkInv, ProxiesInv, [Next]_allVars
    PROVE  ProxiesInv'
<1>0. Reapers = {} /\ TypeInv /\ ThreadsOK /\ TablesOK /\ OpsInv
  BY DEF Orderly, OpsAll, TypeInv
<1>1. ASSUME NEW u \in Threads, th'[u] = th[u], UNCHANGED <<targets, conn>>
      PROVE  /\ SessionProxies(th[u]) => SessionProxies(th[u])'
             /\ WorkerProxies(th[u]) => WorkerProxies(th[u])'
  BY <1>1 DEF SessionProxies, WorkerProxies, SeenTo, ProxiesUp, AllUp, ConnExists,
              GetHostKeys, HostExists
<1>2. Sessions \subseteq Threads /\ Workers \subseteq Threads
  BY DEF Threads
<1>3. CASE Asks
  BY <1>1, <1>2, <1>3 DEF Asks, ProxiesInv
<1>4. ASSUME NEW s \in Sessions, NEW op \in DOMAIN Plan, Start(s, op)
      PROVE  ProxiesInv'
  <2>1. /\ Frame(s) /\ UNCHANGED <<targets, conn>>
        /\ th'[s].pc = "keys" /\ th'[s].stage = 1 /\ th'[s].seen = {}
    BY <1>0, <1>4, StartFields DEF Same
  <2>2. SessionProxies(th[s])'
    BY <2>1 DEF SessionProxies
  <2>3. \A u \in Threads \ {s} : th'[u] = th[u]
    BY <2>1 DEF Frame
  <2> QED
    BY <1>1, <1>2, <2>1, <2>2, <2>3, ThreadsAssumption DEF ProxiesInv
<1>5. ASSUME NEW t \in Threads, ThreadStep(t) PROVE ProxiesInv'
  <2>1. ASSUME NEW s \in Sessions PROVE SessionProxies(th[s])'
    <3>1. CASE s = t
      BY <1>5, <2>1, <3>1, LoopProxies, PlainSession, ThreadStepKinds DEF ProxiesInv
    <3>2. CASE s # t
      <4>1. th'[s] = th[s]
        BY <1>0, <1>2, <1>5, <3>2, StepsFrame, ThreadsAssumption DEF Frame, Starts
      <4> QED
        BY <1>2, <1>5, <4>1, SessionProxiesKept DEF ProxiesInv, KeepsLoop
    <3> QED
      BY <3>1, <3>2
  <2>2. ASSUME NEW w \in Workers PROVE WorkerProxies(th[w])'
    <3>1. CASE w = t
      BY <1>5, <3>1, WorkerSeesTo
    <3>2. CASE w # t /\ th'[w] = th[w]
      BY <1>2, <1>5, <3>2, WorkerProxiesKept DEF ProxiesInv
    <3>3. CASE w # t /\ th'[w] # th[w]
      <4>1. th'[w].pc \in {"hostExists", "connExists", "deleteHost"}
        <5>1. ~Frame(t)
          BY <1>2, <3>3 DEF Frame
        <5>2. PICK op, p : Starts(t, op, p)
                            /\ p \in {"hostExists", "connExists", "deleteHost"}
          BY <1>0, <1>5, <5>1, StepsFrame
        <5> QED
          BY <1>2, <3>3, <5>2 DEF Starts
      <4> QED
        BY <4>1 DEF WorkerProxies, Resolving, ThroughProxy
    <3> QED
      BY <3>1, <3>2, <3>3
  <2> QED
    BY <2>1, <2>2 DEF ProxiesInv
<1> QED
  BY <1>0, <1>3, <1>4, <1>5, StepKinds

-----------------------------------------------------------------------------
(* The last link of the chain of a host is the host.                       *)
LastIsTarget == \A h \in Targets : Last(Chain[h]) = h

(* What is not listed as a proxy is a target, and so is what the sessions  *)
(* start workers for.                                                      *)
SessionTargets(r) ==
    /\ r.op = "connect" /\ r.stage = 2 =>
          r.todo \subseteq Targets /\ (r.pc \in AboutHost => r.at \in Targets)
    /\ r.op = "run" /\ r.pc = "acquire" => r.at \in Targets
    /\ r.pc = "skipConnected" => r.op = "connect"

TargetsInv ==
    /\ \A l \in GetConnKeys : ~conn[l].isProxy => l \in Targets
    /\ \A s \in Sessions : SessionTargets(th[s])
    /\ \A w \in Workers : th[w].pc # "idle" => th[w].at \in Targets

(* A worker lists its host, and nothing else.                              *)
LEMMA ListsTargets ==
    ASSUME Orderly, Reliable, LastIsTarget, OpsAll, WalkInv, ProxiesInv, TargetsInv,
           NEW t \in Threads, ThreadStep(t)
    PROVE  \A l \in GetConnKeys' : ~conn'[l].isProxy => l \in Targets
<1>0. Reapers = {} /\ ThreadsOK /\ TablesOK /\ OpsInv /\ LocalOK(t, th[t])
  BY DEF Orderly, OpsAll, TypeInv, ThreadsOK
<1>1. CASE UNCHANGED conn
  BY <1>1 DEF TargetsInv, GetConnKeys, ConnExists
<1>2. CASE DeleteConnInfo(th[t].at)
  BY <1>0, <1>2 DEF TargetsInv, GetConnKeys, ConnExists, DeleteConnInfo, TablesOK
<1>3. ASSUME NEW d \in BOOLEAN, th[t].pc \in {"register", "dialing"},
             SetConnInfo(LinkOf(t, th[t]), [chan |-> th[t].chan,
                             isProxy |-> t \in Sessions, isDirect |-> d])
      PROVE  \A l \in GetConnKeys' : ~conn'[l].isProxy => l \in Targets
  <2> DEFINE k == LinkOf(t, th[t])
             ci == [chan |-> th[t].chan, isProxy |-> t \in Sessions, isDirect |-> d]
  <2>1. k \in Targets \/ ci.isProxy
    <3>1. CASE t \in Workers
      <4>1. /\ t \notin Sessions /\ th[t].at \in Targets
            /\ th[t].idx = Len(Chain[th[t].at])
        BY <1>0, <1>3, <3>1, ThreadsAssumption
           DEF LocalOK, Resolving, ThroughProxy, ProxiesInv, WorkerProxies
      <4>2. k = Last(Chain[th[t].at])
        BY <4>1, LastType DEF LinkOf, WayOf
      <4> QED
        BY <4>1, <4>2 DEF LastIsTarget
    <3>2. CASE t \in Sessions
      BY <3>2
    <3> QED
      BY <1>0, <3>1, <3>2 DEF Threads
  <2> HIDE DEF k, ci
  <2>2. conn' = conn \/ conn' = [conn EXCEPT ![k] = ci]
    BY <1>3 DEF SetConnInfo, k, ci
  <2>3. CASE conn' = [conn EXCEPT ![k] = ci]
    <3>1. \A l \in Names : conn'[l] = conn[l] \/ (l = k /\ conn'[l] = ci)
      BY <1>0, <2>3 DEF TablesOK
    <3> QED
      BY <2>1, <3>1 DEF TargetsInv, GetConnKeys, ConnExists
  <2> QED
    BY <1>1, <2>2, <2>3
<1> QED
  BY <1>0, <1>1, <1>2, <1>3, Effects

(* A session comes to targets only.                                        *)
LEMMA SessionTargetsNext ==
    ASSUME Reapers = {}, OpsAll, TargetsInv, NEW s \in Sessions, ThreadStep(s)
    PROVE  SessionTargets(th[s])'
<1> DEFINE q == th[s]
           r == th'[s]
<1>0. s \in Threads /\ s \notin Workers
  BY ThreadsAssumption DEF Threads
<1>1. /\ TypeInv /\ ThreadsOK /\ TablesOK /\ OpsInv /\ LocalOK(s, q)
      /\ Role(s, q) /\ SessionTargets(q)
  BY <1>0 DEF OpsAll, TypeInv, ThreadsOK, OpsInv, TargetsInv
<1>2. GetHostKeys \subseteq Targets
  BY <1>1 DEF GetHostKeys, TablesOK
<1>3. q.pc # "idle" => (q.op = "connect" /\ q.stage = 2 => Stage(s) = "connect")
  BY <1>1, PlanTable DEF LocalOK, Stage
<1>4. "loop" \notin AboutHost /\ "keys" \notin AboutHost /\ "wait" \notin AboutHost
      /\ "idle" \notin AboutHost
  BY DEF AboutHost
<1>5. CASE TakeKeys(s)
  <2>1. /\ q.pc = "keys" /\ r.pc = "loop" /\ r.op = q.op /\ r.stage = q.stage
        /\ Stage(s) = "connect" => r.todo = GetHostKeys
    BY <1>1, <1>5, TakeKeysFields DEF Teardown
  <2> QED
    BY <1>2, <1>3, <1>4, <2>1 DEF SessionTargets
<1>6. CASE Pick(s)
  <2>1. /\ q.pc = "loop" /\ r.op = q.op /\ r.stage = q.stage
        /\ r.at \in q.todo /\ r.todo \subseteq q.todo
        /\ r.pc \in {"skipConnected", "connExists", "hostExists"}
        /\ r.pc = "skipConnected" => Stage(s) = "connect"
    BY <1>1, <1>6, PickFields
  <2>2. r.pc = "skipConnected" => r.op = "connect"
    BY <1>1, <2>1, StageOps
  <2> QED
    BY <1>1, <2>1, <2>2 DEF SessionTargets
<1>7. CASE EndLoop(s)
  BY <1>1, <1>4, <1>7, EndLoopFields DEF SessionTargets
<1>8. CASE Finish(s)
  <2>1. r = Idle
    BY <1>1, <1>8, FinishFields DEF Rests
  <2>2. r.op = "none" /\ r.pc = "idle"
    BY <2>1 DEF Idle
  <2> QED
    BY <2>2 DEF SessionTargets
<1>9. CASE Acquire(s) \/ CleanHost(s)
  <2>1. r.pc = "loop" /\ KeepsLoop(r, q)
    BY <1>1, <1>9, StartsFields DEF Starts, Goes, Grabs, Keeps
  <2> QED
    BY <1>1, <1>4, <2>1 DEF SessionTargets, KeepsLoop
<1>10. CASE Plain(s)
  <2>1. CASE UNCHANGED th
    BY <1>1, <2>1 DEF SessionTargets
  <2>2. CASE th' # th
    <3>1. q.pc \in AboutHost /\ KeepsLoop(r, q)
      BY <1>0, <1>1, <1>10, <2>2, StepsMove DEF Plain, Moves
    <3>2. \/ q.op = "connect"
          \/ r.pc \notin {"acquire", "skipConnected"}
          \/ r.pc = "acquire" /\ q.at \in Targets
      <4>1. CASE ResolveStep(s)
        <5>1. q.pc \in Resolving
          BY <1>0, <1>1, <4>1, LinkFields, ProxyFields, AnswerFields, NewConnFields,
             DialFields, DialsDoneFields DEF ResolveStep, Resolving, ThroughProxy
        <5> QED
          BY <1>1, <3>1, <5>1 DEF Role, AboutHost
      <4>2. CASE ProxiesResolve(s)
        <5>1. Stage(s) = "proxies"
          BY <4>2 DEF ProxiesResolve
        <5> QED
          BY <1>1, <3>1, <5>1, StageOps DEF AboutHost
      <4>3. CASE SkipConnected(s)
        BY <1>1, <4>3, SkipFields DEF SessionTargets
      <4>4. CASE SessionGetsConn(s) \/ DisconnectGetsConn(s)
        <5>1. \/ r.pc \in {"loop", "cleanup", "sendRun"}
              \/ r.pc = "acquire" /\ About("run", conn[q.at]) /\ ConnExists(q.at)
          BY <1>0, <1>1, <4>4, GetsConnFields DEF Goes, Grabs
        <5>2. q.at \in Names
          BY <1>1, <3>1 DEF LocalOK
        <5>3. About("run", conn[q.at]) /\ ConnExists(q.at) => q.at \in Targets
          BY <5>2 DEF About, TargetsInv, GetConnKeys
        <5> QED
          BY <5>1, <5>3
      <4>5. CASE AskHostExists(s) \/ AskConnExists(s) \/ LoadHost(s)
        BY <1>0, <1>1, <2>2, <4>5, AskHostFields, AskConnFields, HostFields
           DEF Goes, Grabs
      <4>6. CASE SendCleanup(s) \/ CleanupDone(s) \/ HostGone(s) \/ ConnGone(s)
        BY <1>0, <1>1, <2>2, <4>6, CleanupFields DEF Grabs, HostGone, ConnGone
      <4> QED
        BY <1>0, <1>10, <4>1, <4>2, <4>3, <4>4, <4>5, <4>6 DEF Plain, CommonStep
    <3> QED
      BY <1>1, <3>1, <3>2 DEF SessionTargets, KeepsLoop
  <2> QED
    BY <2>1, <2>2
<1> QED
  BY <1>0, <1>5, <1>6, <1>7, <1>8, <1>9, <1>10, ThreadStepKinds

(* So every step keeps it.                                                 *)
LEMMA TargetsNext ==
    ASSUME Orderly, Reliable, LastIsTarget, OpsAll, WalkInv, ProxiesInv, TargetsInv,
           [Next]_allVars
    PROVE  TargetsInv'
<1>0. /\ Reapers = {} /\ TypeInv /\ ThreadsOK /\ TablesOK /\ OpsInv
      /\ Sessions \subseteq Threads /\ Workers \subseteq Threads
      /\ Sessions \cap Workers = {}
  BY ThreadsAssumption DEF Orderly, OpsAll, TypeInv, Threads
<1>1. CASE Asks
  BY <1>1 DEF Asks, TargetsInv, SessionTargets, GetConnKeys, ConnExists
<1>2. ASSUME NEW s \in Sessions, NEW op \in DOMAIN Plan, Start(s, op)
      PROVE  TargetsInv'
  <2>1. /\ Frame(s) /\ UNCHANGED conn /\ th'[s].pc = "keys" /\ th'[s].stage = 1
    BY <1>0, <1>2, StartFields DEF Same
  <2>2. SessionTargets(th[s])'
    BY <2>1 DEF SessionTargets
  <2>3. \A u \in Sessions \ {s} : SessionTargets(th[u])'
    BY <1>0, <2>1 DEF Frame, TargetsInv, SessionTargets
  <2>4. \A w \in Workers : th'[w].pc # "idle" => th'[w].at \in Targets
    BY <1>0, <2>1 DEF Frame, TargetsInv
  <2> QED
    BY <2>1, <2>2, <2>3, <2>4 DEF TargetsInv, GetConnKeys, ConnExists
<1>3. ASSUME NEW t \in Threads, ThreadStep(t) PROVE TargetsInv'
  <2>1. \A l \in GetConnKeys' : ~conn'[l].isProxy => l \in Targets
    BY <1>3, ListsTargets
  <2>2. ASSUME NEW s \in Sessions PROVE SessionTargets(th[s])'
    <3>1. CASE s = t
      BY <1>0, <1>3, <3>1, SessionTargetsNext
    <3>2. CASE s # t
      <4>1. th'[s] = th[s]
        BY <1>0, <1>3, <3>2, StepsFrame DEF Frame, Starts
      <4> QED
        BY <4>1 DEF TargetsInv, SessionTargets
    <3> QED
      BY <3>1, <3>2
  <2>3. ASSUME NEW w \in Workers, th'[w].pc # "idle" PROVE th'[w].at \in Targets
    <3>1. PICK s \in Sessions, x \in Names : w = <<s, x>>
      BY DEF Workers
    <3>2. OpsInv'
      BY <1>0, OpsNext DEF OpsAll
    <3>3. th'[w].at = x
      BY <2>3, <3>1, <3>2 DEF OpsInv
    <3>4. CASE th[w].pc # "idle"
      BY <1>0, <3>1, <3>3, <3>4 DEF OpsInv, TargetsInv
    <3>5. CASE th[w].pc = "idle"
      <4>1. th'[w] # th[w]
        BY <2>3, <3>5
      <4>2. ~Plain(t)
        <5> SUFFICES ASSUME Plain(t) PROVE FALSE
          OBVIOUS
        <5>1. Frame(t) /\ th[t].pc \in AboutHost
          BY <1>0, <4>1, StepsMove DEF Plain, Moves
        <5> QED
          BY <1>0, <3>5, <4>1, <5>1 DEF Frame, AboutHost
      <4>3. t \in Sessions /\ t # w
        BY <1>0, <1>3, <4>2, ThreadStepKinds
      <4>4. ~Frame(t)
        BY <1>0, <4>1, <4>3 DEF Frame
      <4>5. (Acquire(t) \/ CleanHost(t)) /\ \E op, p : Starts(t, op, p)
        BY <1>0, <1>3, <4>4, StepsFrame
      <4>6. w = <<t, th[t].at>> /\ x = th[t].at /\ th[t].at \in Names
        BY <1>0, <3>1, <4>1, <4>3, <4>5 DEF Starts
      <4>7. LocalOK(t, th[t]) /\ SessionTargets(th[t])
        BY <1>0, <4>3 DEF ThreadsOK, TargetsInv
      <4>8. CASE Acquire(t)
        <5>1. th[t].pc = "acquire"
          BY <4>8 DEF Acquire, At
        <5>2. Stage(t) \in {"connect", "run"}
          BY <4>3, <4>7, <5>1 DEF LocalOK, Stage
        <5>3. th[t].op = "run" \/ (th[t].op = "connect" /\ th[t].stage = 2)
          BY <1>0, <4>3, <5>1, <5>2, StageOps
        <5> QED
          BY <3>3, <4>6, <4>7, <5>1, <5>3 DEF SessionTargets, AboutHost, Pcs
      <4>9. CASE CleanHost(t)
        <5>1. HostExists(th[t].at)
          BY <4>9 DEF CleanHost
        <5> QED
          BY <1>0, <3>3, <4>6, <5>1 DEF TablesOK
      <4> QED
        BY <4>5, <4>8, <4>9
    <3> QED
      BY <3>4, <3>5
  <2> QED
    BY <2>1, <2>2, <2>3 DEF TargetsInv
<1> QED
  BY <1>0, <1>1, <1>2, <1>3, StepKinds

(* run.go:24-25, commands run on targets and not on the bastions before    *)
(* them: if one session runs any commands or all of them only connect and  *)
(* run, direct dials do not fail, and every chain ends with its target.    *)
(* A worker never lists a bastion, since resolveProxies has listed them    *)
(* all as proxies before connectEverywhere's second loop.                  *)
THEOREM OnlyTargetsRunCorrect ==
    ASSUME Orderly, Reliable, LastIsTarget
    PROVE  Spec => []OnlyTargetsRun
<1>1. Init => OpsAll /\ WalkInv /\ ProxiesInv /\ TargetsInv
  <2> SUFFICES ASSUME Init PROVE WalkInv /\ ProxiesInv /\ TargetsInv
    BY OpsInit
  <2>1. \A t \in Threads : th[t].pc = "idle" /\ th[t].op = "none"
    BY DEF Init, Idle
  <2>2. Sessions \subseteq Threads /\ Workers \subseteq Threads
    BY DEF Threads
  <2>3. WalkInv
    BY <2>1 DEF WalkInv, Walked, Resolving, ThroughProxy
  <2>4. ProxiesInv
    BY <2>1, <2>2 DEF ProxiesInv, SessionProxies, WorkerProxies, Resolving, ThroughProxy
  <2>5. TargetsInv
    <3>1. GetConnKeys = {}
      BY DEF Init, GetConnKeys, ConnExists
    <3> QED
      BY <2>1, <2>2, <3>1 DEF TargetsInv, SessionTargets
  <2> QED
    BY <2>3, <2>4, <2>5
<1>2. OpsAll /\ WalkInv /\ ProxiesInv /\ TargetsInv /\ [Next]_allVars
         => (OpsAll /\ WalkInv /\ ProxiesInv /\ TargetsInv)'
  BY OpsNext, WalkNext, AllSure, ProxiesNext, TargetsNext DEF Orderly
<1>3. TargetsInv => OnlyTargetsRun
  BY DEF TargetsInv, OnlyTargetsRun
<1> QED
  BY <1>1, <1>2, <1>3, PTL DEF Spec


-----------------------------------------------------------------------------
(* Every connection to a host that is dialled directly has its cleanup: one *)
(* is made, or no target is the first link of a chain.                     *)
Spares == BastionConns = 1 \/ \A g, h \in Targets : Chain[g][1] # h

(* One session that runs any commands, and no reapers.                     *)
Tidy == Reapers = {} /\ OneSession /\ Reliable /\ LastIsTarget /\ Spares

(* What the invariants of the proofs before this line say.                 *)
WalksInv == OpsAll /\ WalkInv /\ ProxiesInv /\ TargetsInv

(* Who is about to make, or take down, a connection, and to which host.    *)
Busy(t) ==
    \/ th[t].pc \in (Resolving \ {"link"}) \cup {"getConnInfo", "cleanup"}
    \/ th[t].pc = "link" /\ ~ConnExists(LinkOf(t, th[t]))
Subject(t) ==
    IF th[t].pc \in {"getConnInfo", "cleanup"} THEN th[t].at
    ELSE LinkOf(t, th[t])

(* A worker is busy with its own host.                                     *)
LEMMA WorkersSubject ==
    ASSUME Tidy, WalksInv, NEW s \in Sessions, NEW x \in Names, Busy(<<s, x>>)
    PROVE  Subject(<<s, x>>) = x
<1> DEFINE w == <<s, x>>
<1>1. /\ w \in Workers /\ w \in Threads /\ w \notin Sessions
      /\ LocalOK(w, th[w]) /\ WorkerProxies(th[w])
  BY ThreadsAssumption
     DEF Workers, Threads, WalksInv, OpsAll, TypeInv, ThreadsOK, ProxiesInv
<1>2. th[w].pc # "idle"
  BY DEF Busy, Resolving, ThroughProxy
<1>3. th[w].at = x
  BY <1>2 DEF WalksInv, OpsAll, OpsInv
<1>4. CASE th[w].pc \in {"getConnInfo", "cleanup"}
  BY <1>3, <1>4 DEF Subject
<1>5. CASE th[w].pc \in Resolving
  <2>1. x \in Targets /\ WayOf(w, x) = Chain[x] /\ th[w].idx \in 1..Len(Chain[x])
    BY <1>1, <1>3, <1>5 DEF LocalOK, WayOf
  <2>2. Chain[x] \in Seq(Names) /\ Len(Chain[x]) \in Nat
    BY <2>1, ChainAssumption
  <2>3. th[w].idx = Len(Chain[x])
    <3>1. CASE th[w].pc # "link"
      BY <1>1, <1>3, <1>5, <3>1 DEF WorkerProxies
    <3>2. CASE th[w].pc = "link"
      <4>1. ~ConnExists(Chain[x][th[w].idx])
        BY <1>3, <2>1, <3>2 DEF Busy, LinkOf, Resolving, ThroughProxy
      <4>2. \A i \in 1..Len(Front(Chain[x])) : ConnExists(Front(Chain[x])[i])
        BY <1>1, <1>3, <1>5 DEF WorkerProxies, ProxiesUp, AllUp
      <4>3. th[w].idx \notin 1..(Len(Chain[x]) - 1)
        BY <2>1, <2>2, <4>1, <4>2 DEF Front
      <4> QED
        BY <2>1, <2>2, <4>3
    <3> QED
      BY <3>1, <3>2
  <2>4. Subject(w) = Last(Chain[x])
    BY <1>3, <1>5, <2>1, <2>2, <2>3
       DEF Subject, LinkOf, Last, Resolving, ThroughProxy
  <2> QED
    BY <2>1, <2>4 DEF Tidy, LastIsTarget
<1> QED
  BY <1>4, <1>5 DEF Busy, Resolving

(* A session that makes or takes down has no worker that does, but for the *)
(* hosts it is done with.                                                  *)
LEMMA SessionApart ==
    ASSUME Tidy, WalksInv, NEW s \in Sessions, NEW x \in Names,
           Busy(s), Busy(<<s, x>>)
    PROVE  th[s].pc = "getConnInfo" /\ th[s].at # x
<1> DEFINE w == <<s, x>>
<1>1. /\ s \in Threads /\ w \in Threads /\ w \in Workers /\ s \notin Workers
      /\ LocalOK(s, th[s]) /\ Role(s, th[s]) /\ Role(w, th[w])
      /\ th[s].pc # "idle" /\ th[w].pc # "idle"
  BY ThreadsAssumption DEF Workers, Threads, WalksInv, OpsAll, TypeInv, ThreadsOK,
     OpsInv, Busy, Resolving, ThroughProxy
<1>2. /\ th[w].op = th[s].op /\ th[s].stage = Len(Plan[th[s].op])
      /\ th[s].pc \in AboutHost => th[s].at # x
  BY <1>1 DEF WalksInv, OpsAll, OpsInv, WorkersOK
<1>3. th[w].op \in {"connect", "run", "clean"}
  BY <1>1 DEF Role
<1>4. th[s].pc \notin Resolving
  <2>1. Len(Plan["connect"]) = 2
    BY DEF Plan
  <2>2. th[s].pc \in Resolving => th[s].op = "connect" /\ th[s].stage = 1
    BY <1>1 DEF Role
  <2> QED
    BY <1>2, <2>1, <2>2
<1>5. th[s].pc # "cleanup"
  BY <1>1, <1>2, <1>3 DEF Role, Ending
<1>6. th[s].pc = "getConnInfo"
  BY <1>4, <1>5 DEF Busy, Resolving
<1> QED
  BY <1>2, <1>6 DEF AboutHost, Pcs

(* So no two goroutines are busy with one host.                            *)
LEMMA BusyApart ==
    ASSUME Tidy, WalksInv, NEW t \in Threads, NEW u \in Threads, t # u,
           Busy(t), Busy(u)
    PROVE  Subject(t) # Subject(u)
<1>1. PICK s \in Sessions : Sessions = {s}
  BY DEF Tidy, OneSession
<1>2. \A v \in Threads : v = s \/ \E x \in Names : v = <<s, x>>
  BY <1>1 DEF Threads, Workers, Tidy
<1>3. \A x \in Names : s # <<s, x>>
  BY <1>1, ThreadsAssumption DEF Workers
<1>4. ASSUME NEW x \in Names, Busy(s), Busy(<<s, x>>)
      PROVE  Subject(s) # Subject(<<s, x>>)
  BY <1>4, SessionApart, WorkersSubject DEF Subject
<1>5. ASSUME NEW x \in Names, NEW y \in Names, x # y, Busy(<<s, x>>), Busy(<<s, y>>)
      PROVE  Subject(<<s, x>>) # Subject(<<s, y>>)
  BY <1>5, WorkersSubject
<1>6. CASE t = s
  BY <1>2, <1>4, <1>6
<1>7. CASE u = s
  BY <1>2, <1>4, <1>7
<1>8. CASE t # s /\ u # s
  <2>1. PICK x \in Names, y \in Names : t = <<s, x>> /\ u = <<s, y>>
    BY <1>2, <1>8
  <2> QED
    BY <1>5, <2>1
<1> QED
  BY <1>6, <1>7, <1>8

-----------------------------------------------------------------------------
(* Where a goroutine holds a channel it makes a connection for, or one it  *)
(* takes down.                                                             *)
Engaged == {"dialing", "register", "cleanup"}

(* A goroutine that passes by the connections, if on the way to a link     *)
(* that it found not to be connected.                                      *)
Passes(u) ==
    /\ th[u].pc \notin Engaged /\ th'[u].pc \notin Engaged
    /\ th'[u].pc \in ThroughProxy =>
          /\ KeepsLoop(th'[u], th[u]) /\ KeepsWalk(th'[u], th[u])
          /\ \/ th[u].pc \in ThroughProxy
             \/ th[u].pc = "link" /\ ~ConnExists(LinkOf(u, th[u]))
Aside ==
    /\ UNCHANGED <<conn, remotes>>
    /\ \A u \in Threads : th'[u] = th[u] \/ Passes(u)

(* The other steps: a goroutine opens a channel, to dial or with the       *)
(* client a proxy gave it;                                                 *)
Opens(t) ==
    /\ Frame(t) /\ UNCHANGED conn /\ ChannelLeft
    /\ KeepsLoop(th'[t], th[t]) /\ KeepsWalk(th'[t], th[t])
    /\ th'[t].chan = FreshChan
    /\ \/ /\ th[t].pc = "link" /\ ~ConnExists(LinkOf(t, th[t]))
          /\ th'[t].pc = "dialing" /\ th'[t].idx = 1
          /\ th'[t].dialing = Ids /\ UNCHANGED remotes
       \/ /\ th[t].pc = "countProxy" /\ th'[t].pc = "register"
          /\ Spawn(LinkOf(t, th[t]), FreshChan, 1, t \in Sessions)

(* a dial joins the others on its channel;                                 *)
Joins(t) ==
    /\ UNCHANGED conn /\ th[t].pc = "dialing"
    /\ \E i \in th[t].dialing :
          /\ Spawn(LinkOf(t, th[t]), th[t].chan, i, t \in Sessions)
          /\ \E e : Dials(t, th[t].dialing \ {i}, e)

(* the connection is listed;                                               *)
ListsAs(t, d) ==
    /\ UNCHANGED remotes
    /\ SetConnInfo(LinkOf(t, th[t]),
            [chan |-> th[t].chan, isProxy |-> t \in Sessions, isDirect |-> d])
Registers(t) ==
    \/ /\ th[t].pc = "dialing" /\ ListsAs(t, TRUE)
       /\ \E e : Dials(t, th[t].dialing, e)
    \/ /\ th[t].pc = "register" /\ ListsAs(t, FALSE)
       /\ Advances(t) \/ Ended(t)

(* all dials are done;                                                     *)
Closes(t) ==
    /\ UNCHANGED <<conn, remotes>> /\ th[t].pc = "dialing"
    /\ th[t].dialing = {} /\ th[t].dialed = {}
    /\ Advances(t) \/ Ended(t)

(* and a connection is about to be taken down.                             *)
Claims(t) ==
    /\ UNCHANGED <<conn, remotes, up>>
    /\ th[t].pc = "getConnInfo" /\ ConnExists(th[t].at)
    /\ \/ /\ t \in Sessions /\ Stage(t) # "run"
          /\ About(Stage(t), conn[th[t].at])
          /\ Grabs(t, "cleanup", conn[th[t].at].chan,
                   IF Stage(t) = "directProxies" THEN BastionConns ELSE 1)
       \/ t \in Workers /\ Grabs(t, "cleanup", conn[th[t].at].chan, 1)

(* resolve's steps are such.                                               *)
LEMMA ResolveChannels ==
    ASSUME Reliable, TypeInv, NEW t \in Threads, ResolveStep(t)
    PROVE  Aside \/ Opens(t) \/ Joins(t) \/ Registers(t) \/ Closes(t)
<1>0. ThreadsOK /\ LocalOK(t, th[t])
  BY DEF TypeInv, ThreadsOK
<1> DEFINE Out == Advances(t) \/ Ended(t) \/ Leaves(t, FALSE)
           Past(p) == Frame(t) /\ th'[t].pc = p /\ Keeps(th'[t], th[t])
<1>1. Out => Frame(t) /\ th'[t].pc \notin Engaged \cup ThroughProxy
  BY DEF Advances, Ended, Leaves, Engaged, ThroughProxy
<1>2. ASSUME Out, UNCHANGED <<conn, remotes>>, th[t].pc \notin Engaged PROVE Aside
  BY <1>1, <1>2 DEF Aside, Passes, Frame
<1>3. ASSUME NEW p, Past(p), UNCHANGED <<conn, remotes>>,
             p \notin Engaged, th[t].pc \notin Engaged,
             \/ th[t].pc \in ThroughProxy
             \/ th[t].pc = "link" /\ ~ConnExists(LinkOf(t, th[t]))
      PROVE  Aside
  BY <1>3 DEF Aside, Passes, Frame, Keeps
<1>4. ASSUME UNCHANGED <<th, conn, remotes>> PROVE Aside
  BY <1>4 DEF Aside
<1>5. CASE ExamineLink(t)
  <2>1. th[t].pc = "link" /\ UNCHANGED <<conn, remotes>>
    BY <1>0, <1>5, LinkFields DEF Same
  <2>2. CASE Advances(t) \/ Ended(t)
    BY <1>2, <2>1, <2>2 DEF Engaged
  <2>3. CASE ~ConnExists(LinkOf(t, th[t])) /\ Goes(t, "proxyExists")
    BY <1>3, <2>1, <2>3 DEF Engaged, Goes, Grabs
  <2>4. ASSUME ~(Advances(t) \/ Ended(t)), ~Goes(t, "proxyExists") PROVE Opens(t)
    BY <1>0, <1>5, <2>1, <2>4, LinkFields DEF Opens, KeepsWalk
  <2> QED
    BY <1>0, <1>5, <2>2, <2>3, <2>4, LinkFields
<1>6. CASE ProxyExists(t) \/ GetProxy(t) \/ AskProxy(t) \/ ProxyAnswers(t)
  <2>1. /\ th[t].pc \in ThroughProxy /\ th[t].pc \notin Engaged
        /\ UNCHANGED <<conn, remotes>>
        /\ UNCHANGED th \/ Out \/ \E p \in ThroughProxy \ Engaged : Past(p)
    BY <1>0, <1>6, ProxyFields, AnswerFields
       DEF Same, Goes, Grabs, ThroughProxy, Engaged, Panic
  <2> QED
    BY <1>2, <1>3, <1>4, <2>1
<1>7. CASE ProxyRefuses(t)
  <2>1. /\ th[t].pc \notin Engaged /\ UNCHANGED <<conn, remotes>>
        /\ UNCHANGED th \/ Out
    BY <1>0, <1>7, AnswerFields DEF Engaged
  <2> QED
    BY <1>2, <1>4, <2>1
<1>8. CASE AskPassword(t)
  BY <1>0, <1>4, <1>8, AnswerFields DEF SetRequiresPw, Panic, stateVars
<1>9. CASE CountProxy(t)
  <2>1. CASE UNCHANGED th
    BY <1>0, <1>4, <1>9, <2>1, NewConnFields DEF Panic, Grabs
  <2>2. CASE th' # th
    BY <1>0, <1>9, <2>2, NewConnFields DEF Opens, Grabs, Keeps
  <2> QED
    BY <2>1, <2>2
<1>10. CASE Register(t)
  BY <1>0, <1>10, NewConnFields DEF Registers, ListsAs
<1>11. ASSUME NEW i \in Ids, DialSucceeds(t, i) \/ DialFails(t, i) \/ DialRegisters(t, i)
       PROVE  Joins(t) \/ Registers(t)
  <2>1. ~DialFails(t, i)
    BY <1>0, DialFields DEF Reliable
  <2>2. CASE DialSucceeds(t, i)
    BY <1>0, <2>2, DialFields DEF Joins
  <2>3. CASE DialRegisters(t, i)
    BY <1>0, <2>3, DialFields DEF Registers, ListsAs
  <2> QED
    BY <1>11, <2>1, <2>2, <2>3
<1>12. CASE DialsDone(t)
  BY <1>0, <1>12, DialsDoneFields DEF Closes, Same
<1> QED
  BY <1>5, <1>6, <1>7, <1>8, <1>9, <1>10, <1>11, <1>12 DEF ResolveStep

(* So are the others, for nobody else is in resolve.                       *)
LEMMA ChannelSteps ==
    ASSUME Reapers = {}, Reliable, OpsAll, NEW t \in Threads, ThreadStep(t)
    PROVE  \/ Aside \/ Opens(t) \/ Joins(t) \/ Registers(t) \/ Closes(t)
           \/ Claims(t) \/ SendCleanup(t) \/ CleanupDone(t)
<1> DEFINE Goal == \/ Aside \/ Opens(t) \/ Joins(t) \/ Registers(t) \/ Closes(t)
                   \/ Claims(t) \/ SendCleanup(t) \/ CleanupDone(t)
<1> SUFFICES Goal
  OBVIOUS
<1>0. TypeInv /\ ThreadsOK /\ TablesOK
  BY DEF OpsAll, TypeInv
<1> DEFINE Out(p) == Frame(t) /\ th'[t].pc = p
           Calm == UNCHANGED <<conn, remotes>> /\ th[t].pc \notin Engaged
<1>1. ASSUME NEW p, p \notin Engaged \cup ThroughProxy, Out(p), Calm PROVE Aside
  BY <1>1 DEF Aside, Passes, Frame
<1>2. ASSUME Rests(t), Calm PROVE Aside
  BY <1>1, <1>2 DEF Rests, Idle, Engaged, ThroughProxy
<1>3. ASSUME UNCHANGED <<th, conn, remotes>> PROVE Aside
  BY <1>3 DEF Aside
<1>4. ASSUME NEW p, p \notin Engaged \cup ThroughProxy, Goes(t, p), Calm PROVE Aside
  BY <1>1, <1>4 DEF Goes, Grabs
<1> USE DEF Engaged, ThroughProxy
<1>5. CASE t \in Sessions /\ (TakeKeys(t) \/ Pick(t) \/ EndLoop(t))
  <2>1. Frame(t) /\ Calm
    BY <1>0, <1>5, TakeKeysFields, PickFields, EndLoopFields DEF Same
  <2>2. th'[t].pc \in {"loop", "skipConnected", "connExists", "hostExists",
                       "keys", "wait"}
    BY <1>0, <1>5, TakeKeysFields, PickFields, EndLoopFields
  <2> QED
    BY <1>1, <2>1, <2>2
<1>6. CASE t \in Sessions /\ Finish(t)
  BY <1>0, <1>2, <1>6, FinishFields
<1>7. CASE t \in Sessions /\ SkipConnected(t)
  BY <1>0, <1>4, <1>7, SkipFields DEF Same
<1>8. CASE t \in Sessions /\ (Acquire(t) \/ CleanHost(t))
  <2>1. CASE Same /\ Goes(t, "loop")
    BY <1>0, <1>4, <1>8, <2>1, StartsFields DEF Same
  <2>2. ASSUME NEW op, NEW p \in {"hostExists", "connExists", "deleteHost"},
               Starts(t, op, p), th[t].pc \notin Engaged,
               th[<<t, th[t].at>>].pc \notin Engaged
        PROVE  Aside
    BY <2>2 DEF Starts, Same, Aside, Passes
  <2>3. th[t].pc \in {"acquire", "getHostInfo"}
    BY <1>0, <1>8, StartsFields
  <2>4. ASSUME th[t].at \in Names PROVE th[<<t, th[t].at>>].pc = "idle"
    BY <1>8, <2>3, <2>4 DEF OpsAll, WorkersOK, AboutHost, Pcs
  <2>5. ASSUME NEW op, NEW p, Starts(t, op, p) PROVE th[t].at \in Names
    BY <2>5 DEF Starts
  <2> QED
    BY <1>0, <1>8, <2>1, <2>2, <2>3, <2>4, <2>5, StartsFields
<1>9. CASE AskHostExists(t) \/ HostGone(t)
  <2>1. CASE AskHostExists(t)
    <3>1. th[t].pc = "hostExists" /\ UNCHANGED <<conn, remotes>>
      BY <1>0, <2>1, AskHostFields
    <3> QED
      BY <1>0, <1>2, <1>3, <1>4, <2>1, <3>1, AskHostFields
  <2> QED
    BY <1>3, <1>9, <2>1 DEF HostGone, Panic
<1>10. CASE AskConnExists(t) \/ ConnGone(t)
  <2>1. CASE AskConnExists(t)
    <3>1. th[t].pc = "connExists" /\ UNCHANGED <<conn, remotes>>
      BY <1>0, <2>1, AskConnFields DEF Same
    <3> QED
      BY <1>0, <1>2, <1>4, <2>1, <3>1, AskConnFields
  <2> QED
    BY <1>3, <1>10, <2>1 DEF ConnGone, Panic
<1>11. CASE (t \in Sessions /\ LoadHost(t)) \/ (t \in Workers /\ DeleteHost(t))
  BY <1>0, <1>2, <1>4, <1>11, HostFields DEF SetHostInfo, DeleteHostInfo
<1>12. CASE \/ t \in Sessions /\ ProxiesResolve(t)
            \/ t \in Workers /\ WorkerResolves(t)
  <2>1. th[t].pc = "getHostInfo" /\ UNCHANGED <<conn, remotes>>
        /\ (SetsOut(t) \/ Goes(t, "loop"))
    BY <1>0, <1>12, BeginFields DEF Same
  <2> QED
    BY <1>1, <1>4, <2>1 DEF SetsOut
<1>13. CASE \/ t \in Sessions /\ SessionGetsConn(t)
            \/ DisconnectGetsConn(t)
            \/ t \in Workers /\ RunGetsConn(t)
  <2>1. th[t].pc = "getConnInfo" /\ UNCHANGED <<conn, remotes, up>>
        /\ ConnExists(th[t].at)
    BY <1>0, <1>13, GetsConnFields DEF Same
  <2>2. CASE Goes(t, "loop") \/ Goes(t, "acquire")
    BY <1>4, <2>1, <2>2
  <2>3. ASSUME NEW c, NEW n, Grabs(t, "sendRun", c, n) PROVE Aside
    BY <1>1, <2>1, <2>3 DEF Grabs
  <2> QED
    BY <1>0, <1>13, <2>1, <2>2, <2>3, GetsConnFields DEF Claims
<1>14. CASE t \in Workers /\ (SetStatus(t) \/ SendRun(t)
                              \/ \E ok \in BOOLEAN : RunAnswered(t, ok))
  <2>1. Calm
    BY <1>0, <1>14, OutcomeFields DEF SetConnectionStatus, SetRunStatus, Same
  <2>2. \/ Goes(t, "connExists") \/ Rests(t)
        \/ Grabs(t, "awaitRun", NoChan, th[t].left)
    BY <1>0, <1>14, OutcomeFields
  <2> QED
    BY <1>1, <1>2, <1>4, <2>1, <2>2 DEF Grabs
<1>15. CASE ResolveStep(t)
  BY <1>0, <1>15, ResolveChannels
<1> HIDE DEF Goal
<1>16. CASE t \in Sessions /\ SessionStep(t)
  BY <1>5, <1>6, <1>7, <1>8, <1>11, <1>12, <1>13, <1>16 DEF SessionStep
<1>17. CASE t \in Workers /\ WorkerStep(t)
  BY <1>11, <1>12, <1>13, <1>14, <1>17 DEF WorkerStep
<1>18. CASE CommonStep(t)
  BY <1>9, <1>10, <1>13, <1>15, <1>18 DEF CommonStep, Goal
<1> QED
  BY <1>16, <1>17, <1>18 DEF ThreadStep

(* The entry that is listed, if there is none, and no other.               *)
LEMMA ListedEntry ==
    ASSUME TypeInv, NEW t \in Threads, th[t].pc \in {"dialing", "register"},
           NEW d, ListsAs(t, d)
    PROVE  LET k == LinkOf(t, th[t]) IN
           /\ k \in Names
           /\ \A l \in Names : l # k => conn'[l] = conn[l]
           /\ ConnExists(k) => conn' = conn
           /\ ~ConnExists(k) =>
                 conn'[k] = [chan |-> th[t].chan, isProxy |-> t \in Sessions,
                             isDirect |-> d]
<1>1. LinkOf(t, th[t]) \in Names
  BY LinkType DEF TypeInv, Link, Way, AsProxy, LinkOf, WayOf, Resolving, ThroughProxy
<1> QED
  BY <1>1 DEF ListsAs, SetConnInfo, TypeInv, TablesOK

(* A goroutine at a link that has to be connected found that it is not,    *)
(* and what is dialled is the first link of a chain.                       *)
LinkFacts(u) ==
    /\ th[u].pc \in ThroughProxy => ~ConnExists(LinkOf(u, th[u]))
    /\ th[u].pc = "dialing" =>
          /\ th[u].idx = 1
          /\ ConnExists(LinkOf(u, th[u])) => conn[LinkOf(u, th[u])].isDirect
LinksInv ==
    /\ \A u \in Threads : LinkFacts(u)
    /\ \A l \in GetConnKeys :
          conn[l].isDirect => \E h \in Targets : Chain[h][1] = l

(* That remains so for one that stays, if its link does.                   *)
LEMMA LinkStays ==
    ASSUME NEW u \in Threads, LinkFacts(u), th'[u] = th[u],
           \/ th[u].pc \notin ThroughProxy \cup {"dialing"}
           \/ conn'[LinkOf(u, th[u])] \in {conn[LinkOf(u, th[u])], NoInfo}
    PROVE  LinkFacts(u)'
BY DEF LinkFacts, LinkOf, ConnExists

(* Every step of a goroutine keeps it.                                     *)
LEMMA LinksStep ==
    ASSUME Tidy, WalksInv, LinksInv, NEW t \in Threads, ThreadStep(t)
    PROVE  LinksInv'
<1> DEFINE k == LinkOf(t, th[t])
           Firsts == \A l \in GetConnKeys :
                        conn[l].isDirect => \E h \in Targets : Chain[h][1] = l
<1>0. /\ Reapers = {} /\ Reliable /\ OpsAll /\ TypeInv /\ LocalOK(t, th[t])
      /\ \A u \in Threads : LinkFacts(u)
      /\ Firsts
  BY DEF Tidy, WalksInv, OpsAll, TypeInv, ThreadsOK, LinksInv
<1>1. ASSUME conn' = conn PROVE Firsts'
  BY <1>0, <1>1 DEF GetConnKeys, ConnExists
<1>2. ASSUME conn' = conn, Frame(t), LinkFacts(t)' PROVE LinksInv'
  BY <1>0, <1>1, <1>2, LinkStays DEF Frame, LinksInv
<1>3. CASE Aside
  <2>1. ASSUME NEW u \in Threads PROVE LinkFacts(u)'
    <3>1. CASE th'[u] = th[u]
      BY <1>0, <1>3, <3>1, LinkStays DEF Aside
    <3>2. CASE th'[u] # th[u]
      BY <1>0, <1>3, <3>2
         DEF Aside, Passes, Engaged, LinkFacts, LinkOf, KeepsLoop, KeepsWalk, ConnExists
    <3> QED
      BY <3>1, <3>2
  <2> QED
    BY <1>1, <1>3, <2>1 DEF Aside, LinksInv
<1>4. CASE Opens(t)
  BY <1>0, <1>2, <1>4 DEF Opens, LinkFacts, LinkOf, KeepsLoop, KeepsWalk, ConnExists,
     ThroughProxy
<1>5. CASE Joins(t)
  BY <1>0, <1>2, <1>5 DEF Joins, Dials, LinkFacts, LinkOf, KeepsLoop, KeepsWalk,
     ConnExists, ThroughProxy
<1>6. CASE Closes(t)
  BY <1>2, <1>6 DEF Closes, Advances, Ended, Leaves, LinkFacts, ThroughProxy
<1>7. CASE Claims(t)
  BY <1>2, <1>7 DEF Claims, Grabs, LinkFacts, ThroughProxy
<1>8. CASE SendCleanup(t)
  <2>1. conn' = conn /\ Frame(t) /\ th'[t].pc = "cleanup"
    BY <1>0, <1>8, CleanupFields DEF TypeInv, Grabs, Cleanup, Panic, stateVars
  <2> QED
    BY <1>2, <2>1 DEF LinkFacts, ThroughProxy
<1>9. CASE CleanupDone(t)
  <2>1. /\ Frame(t) /\ th'[t].pc \in {"loop", "deleteHost"}
        /\ \A l \in Names : conn'[l] \in {conn[l], NoInfo}
    BY <1>0, <1>9, CleanupFields DEF TypeInv, TablesOK, Grabs, DeleteConnInfo
  <2>2. \A u \in Threads \ {t} : LinkFacts(u)'
    <3> SUFFICES ASSUME NEW u \in Threads \ {t} PROVE LinkFacts(u)'
      OBVIOUS
    <3>1. th[u].pc \in Resolving => LinkOf(u, th[u]) \in Names
      BY <1>0, LinkType DEF TypeInv, Link, Way, AsProxy, LinkOf, WayOf
    <3> QED
      BY <1>0, <2>1, <3>1, LinkStays DEF Frame, Resolving
  <2>3. Firsts'
    BY <1>0, <2>1 DEF GetConnKeys, ConnExists
  <2> QED
    BY <2>1, <2>2, <2>3 DEF LinksInv, LinkFacts, ThroughProxy
<1>10. CASE Registers(t)
  <2>1. PICK d \in BOOLEAN :
           /\ ListsAs(t, d) /\ th[t].pc = IF d THEN "dialing" ELSE "register"
           /\ \/ d /\ \E e : Dials(t, th[t].dialing, e)
              \/ ~d /\ (Advances(t) \/ Ended(t))
    BY <1>10 DEF Registers
  <2>2. /\ k \in Names
        /\ \A l \in Names : l # k => conn'[l] = conn[l]
        /\ ConnExists(k) => conn' = conn
        /\ ~ConnExists(k) =>
              conn'[k] = [chan |-> th[t].chan, isProxy |-> t \in Sessions,
                          isDirect |-> d]
    BY <1>0, <2>1, ListedEntry
  <2>3. Frame(t) /\ LinkFacts(t)'
    <3>1. CASE d
      <4>1. /\ Frame(t) /\ th'[t].pc = "dialing" /\ th'[t].at = th[t].at
            /\ th'[t].idx = th[t].idx
        BY <2>1, <3>1 DEF Dials, KeepsLoop, KeepsWalk
      <4>2. LinkOf(t, th'[t]) = k
        BY <4>1 DEF LinkOf
      <4>3. conn'[k].isDirect
        BY <1>0, <2>1, <2>2, <3>1 DEF LinkFacts
      <4> QED
        BY <1>0, <2>1, <3>1, <4>1, <4>2, <4>3 DEF LinkFacts, LinkOf, ThroughProxy
    <3>2. CASE ~d
      BY <2>1, <3>2 DEF Advances, Ended, Leaves, LinkFacts, ThroughProxy
    <3> QED
      BY <3>1, <3>2
  <2>4. ASSUME NEW u \in Threads \ {t} PROVE LinkFacts(u)'
    <3>1. CASE th[u].pc \notin ThroughProxy \cup {"dialing"}
      BY <1>0, <2>3, <3>1, LinkStays DEF Frame
    <3>2. CASE th[u].pc \in ThroughProxy \cup {"dialing"}
      <4>1. Busy(u) /\ Busy(t)
        BY <2>1, <3>2 DEF Busy, Resolving, ThroughProxy
      <4>2. Subject(u) = LinkOf(u, th[u]) /\ Subject(t) = k
        BY <2>1, <3>2 DEF Subject, ThroughProxy
      <4>3. LinkOf(u, th[u]) # k
        BY <4>1, <4>2, BusyApart
      <4>4. LinkOf(u, th[u]) \in Names
        BY <1>0, <3>2, LinkType
           DEF TypeInv, Link, Way, AsProxy, LinkOf, WayOf, Resolving
      <4> QED
        BY <1>0, <2>2, <2>3, <4>3, <4>4, LinkStays DEF Frame
    <3> QED
      BY <3>1, <3>2
  <2>5. Firsts'
    <3>1. CASE ConnExists(k)
      BY <1>1, <2>2, <3>1
    <3>2. CASE ~ConnExists(k)
      <4>1. d => \E h \in Targets : Chain[h][1] = k
        <5> SUFFICES ASSUME d PROVE \E h \in Targets : Chain[h][1] = k
          OBVIOUS
        <5>1. th[t].at \in Targets /\ th[t].idx = 1
              /\ 1 \in 1..Len(WayOf(t, th[t].at))
          BY <1>0, <2>1 DEF LinkFacts, LocalOK, Resolving
        <5>2. Chain[th[t].at] \in Seq(Names)
          BY <5>1, ChainAssumption
        <5>3. k = Chain[th[t].at][1]
          BY <5>1, <5>2 DEF LinkOf, WayOf, Front
        <5> QED
          BY <5>1, <5>3
      <4> HIDE DEF k
      <4> QED
        BY <1>0, <2>2, <3>2, <4>1 DEF GetConnKeys, ConnExists
    <3> QED
      BY <3>1, <3>2
  <2> QED
    BY <2>3, <2>4, <2>5 DEF LinksInv
<1> QED
  BY <1>0, <1>3, <1>4, <1>5, <1>6, <1>7, <1>8, <1>9, <1>10, ChannelSteps

-----------------------------------------------------------------------------
(* The channels of the connections that are listed, and of those that are  *)
(* being made.                                                             *)
Makes(t, c, l) ==
    /\ th[t].pc \in {"dialing", "register"}
    /\ th[t].chan = c /\ LinkOf(t, th[t]) = l
Held(c, l) ==
    \/ ConnExists(l) /\ conn[l].chan = c
    \/ \E t \in Threads : Makes(t, c, l)

(* A channel is that of one host, a host has one, and every remoteHost     *)
(* listens on the one of its host.                                         *)
HeldInv ==
    /\ \A l, m \in Names, c \in Channels : Held(c, l) /\ Held(c, m) => l = m
    /\ \A l \in Names, c, d \in Channels : Held(c, l) /\ Held(d, l) => c = d
    /\ \A r \in remotes : Held(r.chan, r.link)

(* The connections to a host, as they were numbered when they were made.   *)
IdsOn(c) == {r.id : r \in {q \in remotes : q.chan = c}}
Whole(l) == IF conn[l].isDirect THEN Ids ELSE {1}

(* They are those the dials made so far, or the one a proxy gave, or all   *)
(* of them, or what is left to take down.                                  *)
Counted(t) ==
    /\ th[t].pc = "dialing" => IdsOn(th[t].chan) = Ids \ th[t].dialing
    /\ th[t].pc = "register" => IdsOn(th[t].chan) = {1}
    /\ th[t].pc = "cleanup" =>
          /\ ConnExists(th[t].at) /\ th[t].chan = conn[th[t].at].chan
          /\ up = "running" => Cardinality(IdsOn(th[t].chan)) = th[t].left
Accounted(l) ==
    \/ \E t \in Threads : th[t].pc \in Engaged /\ Subject(t) = l
    \/ IdsOn(conn[l].chan) = Whole(l)
Numbered ==
    /\ \A r \in remotes : r.id \in Ids
    /\ \A r, q \in remotes : r.chan = q.chan /\ r.id = q.id => r = q
CountsInv ==
    /\ Numbered
    /\ \A t \in Threads : Counted(t)
    /\ \A l \in GetConnKeys : Accounted(l)

(* Whoever makes a connection has a channel for it, and a link.            *)
LEMMA MakesType ==
    ASSUME TypeInv, NEW t \in Threads, th[t].pc \in {"dialing", "register"}
    PROVE  /\ th[t].chan \in Channels /\ LinkOf(t, th[t]) \in Names
           /\ Makes(t, th[t].chan, LinkOf(t, th[t]))
           /\ Held(th[t].chan, LinkOf(t, th[t]))
           /\ Busy(t) /\ Subject(t) = LinkOf(t, th[t])
<1>1. LinkOf(t, th[t]) \in Names
  BY LinkType DEF TypeInv, Link, Way, AsProxy, LinkOf, WayOf, Resolving, ThroughProxy
<1>2. th[t].chan \in Channels
  BY DEF TypeInv, ThreadsOK, ThreadState, LocalOK
<1> QED
  BY <1>1, <1>2 DEF Makes, Held, Busy, Subject, Resolving, ThroughProxy

(* And a connection that is listed has one.                                *)
LEMMA ListedType ==
    ASSUME TypeInv, NEW l \in Names, ConnExists(l)
    PROVE  conn[l].chan \in Channels /\ Held(conn[l].chan, l)
BY DEF TypeInv, TablesOK, ConnType, ConnExists, Held

(* What is held and who listens is all there is to it.                     *)
LEMMA HeldSame ==
    ASSUME TypeInv, HeldInv,
           \A l \in Names, c \in Channels : Held(c, l)' <=> Held(c, l),
           \A r \in remotes' :
               \/ \E q \in remotes : q.chan = r.chan /\ q.link = r.link
               \/ r.chan \in Channels /\ r.link \in Names /\ Held(r.chan, r.link)
    PROVE  HeldInv'
<1>1. \A r \in remotes' : r.chan \in Channels /\ r.link \in Names
                          /\ Held(r.chan, r.link)
  BY DEF TypeInv, TablesOK, Remote, HeldInv
<1>2. \A r \in remotes' : Held(r.chan, r.link)'
  BY <1>1
<1> QED
  BY <1>2 DEF HeldInv

(* A goroutine that makes nothing before or after does not change it,      *)
LEMMA HeldUnmoved ==
    ASSUME NEW l, NEW c, conn' = conn,
           \A u \in Threads : \/ th'[u] = th[u]
                              \/ /\ th[u].pc \notin {"dialing", "register"}
                                 /\ th'[u].pc \notin {"dialing", "register"}
                              \/ /\ th[u].pc = "dialing" /\ th'[u].pc = "dialing"
                                 /\ th'[u].chan = th[u].chan
                                 /\ LinkOf(u, th'[u]) = LinkOf(u, th[u])
    PROVE  Held(c, l)' <=> Held(c, l)
<1>1. \A u \in Threads : Makes(u, c, l)' <=> Makes(u, c, l)
  BY DEF Makes, LinkOf
<1> QED
  BY <1>1 DEF Held, ConnExists

(* nor does one that lists what it made.                                   *)
LEMMA HeldRegisters ==
    ASSUME TypeInv, LinksInv, NEW t \in Threads, Registers(t),
           NEW l \in Names, NEW c \in Channels
    PROVE  Held(c, l)' <=> Held(c, l)
<1> DEFINE k == LinkOf(t, th[t])
<1>1. PICK d \in BOOLEAN :
         /\ ListsAs(t, d) /\ th[t].pc = IF d THEN "dialing" ELSE "register"
         /\ \/ d /\ \E e : Dials(t, th[t].dialing, e)
            \/ ~d /\ (Advances(t) \/ Ended(t))
  BY DEF Registers
<1>2. /\ k \in Names
      /\ \A m \in Names : m # k => conn'[m] = conn[m]
      /\ ConnExists(k) => conn' = conn
      /\ ~ConnExists(k) =>
            conn'[k] = [chan |-> th[t].chan, isProxy |-> t \in Sessions,
                        isDirect |-> d]
  BY <1>1, ListedEntry
<1>3. Frame(t)
  BY <1>1 DEF Dials, Advances, Ended, Leaves
<1>4. \A u \in Threads \ {t} : Makes(u, c, l)' <=> Makes(u, c, l)
  BY <1>3 DEF Makes, Frame, LinkOf
<1>5. CASE d
  <2>1. Makes(t, c, l)' <=> Makes(t, c, l)
    BY <1>1, <1>5 DEF Dials, Makes, LinkOf, KeepsLoop, KeepsWalk
  <2>2. (conn'[l] # NoInfo /\ conn'[l].chan = c) =>
           (ConnExists(l) /\ conn[l].chan = c) \/ Makes(t, c, l)
    BY <1>1, <1>2, <1>5 DEF Makes, ConnExists
  <2>3. (ConnExists(l) /\ conn[l].chan = c) => (conn'[l] # NoInfo /\ conn'[l].chan = c)
    BY <1>2 DEF ConnExists
  <2> QED
    BY <1>4, <2>1, <2>2, <2>3 DEF Held, ConnExists
<1>6. CASE ~d
  <2>1. ~ConnExists(k)
    BY <1>1, <1>6 DEF LinksInv, LinkFacts, ThroughProxy
  <2>2. conn'[k] # NoInfo /\ conn'[k].chan = th[t].chan
    <3>1. conn'[k] # NoInfo
      <4> DEFINE b == t \in Sessions
      <4>1. b \in BOOLEAN
        OBVIOUS
      <4> QED
        BY <1>1, <4>1, Connected DEF ListsAs
    <3> QED
      BY <1>2, <2>1, <3>1
  <2>3. ~Makes(t, c, l)'
    BY <1>1, <1>6 DEF Makes, Advances, Ended, Leaves
  <2>4. Makes(t, c, l) <=> (l = k /\ c = th[t].chan)
    BY <1>1, <1>6 DEF Makes
  <2>5. (conn'[l] # NoInfo /\ conn'[l].chan = c) <=>
           (ConnExists(l) /\ conn[l].chan = c) \/ (l = k /\ c = th[t].chan)
    BY <1>2, <2>1, <2>2 DEF ConnExists
  <2> QED
    BY <1>4, <2>3, <2>4, <2>5 DEF Held, ConnExists
<1> QED
  BY <1>5, <1>6

(* A fresh channel is held by nobody, and nobody listens on it.            *)
LEMMA FreshUnheld ==
    ASSUME ChannelLeft
    PROVE  /\ FreshChan \in Channels
           /\ \A l \in Names : ~Held(FreshChan, l)
           /\ \A r \in remotes : r.chan # FreshChan
<1>1. FreshChan \in Channels \ InUse
  BY DEF ChannelLeft, FreshChan
<1> QED
  BY <1>1, FreshIsFree DEF Held, Makes, InUse, GetConnKeys

(* So is a link that is not connected, and that somebody comes to.         *)
LEMMA LinkUnheld ==
    ASSUME Tidy, WalksInv, NEW t \in Threads,
           th[t].pc \in Resolving \ {"dialing", "register"},
           ~ConnExists(LinkOf(t, th[t])), NEW c
    PROVE  ~Held(c, LinkOf(t, th[t]))
<1>1. Busy(t) /\ Subject(t) = LinkOf(t, th[t])
  BY DEF Busy, Subject, Resolving, ThroughProxy
<1>2. ASSUME NEW u \in Threads, Makes(u, c, LinkOf(t, th[t])) PROVE FALSE
  <2>1. Busy(u) /\ Subject(u) = LinkOf(t, th[t]) /\ u # t
    BY <1>2 DEF Busy, Subject, Makes, Resolving, ThroughProxy
  <2> QED
    BY <1>1, <2>1, BusyApart
<1> QED
  BY <1>2 DEF Held

(* The two belong together from then on.                                   *)
LEMMA HeldOpens ==
    ASSUME Tidy, WalksInv, HeldInv, LinksInv, NEW t \in Threads, Opens(t)
    PROVE  HeldInv'
<1> DEFINE k == LinkOf(t, th[t])
<1>0. TypeInv
  BY DEF WalksInv, OpsAll
<1>1. /\ Frame(t) /\ conn' = conn /\ th[t].pc \in {"link", "countProxy"}
      /\ th'[t].pc \in {"dialing", "register"} /\ LinkOf(t, th'[t]) = k
      /\ th'[t].chan = FreshChan /\ ChannelLeft
  BY DEF Opens, KeepsLoop, KeepsWalk, LinkOf
<1>2. ~ConnExists(k) /\ k \in Names
  <2>1. k \in Names
    BY <1>0, <1>1, LinkType
       DEF TypeInv, Link, Way, AsProxy, LinkOf, WayOf, Resolving, ThroughProxy
  <2> QED
    BY <2>1 DEF Opens, LinksInv, LinkFacts, ThroughProxy
<1>3. /\ \A c : ~Held(c, k)
      /\ FreshChan \in Channels /\ \A l \in Names : ~Held(FreshChan, l)
  BY <1>1, <1>2, LinkUnheld, FreshUnheld DEF Resolving, ThroughProxy
<1>4. ASSUME NEW c, NEW l
      PROVE  Held(c, l)' <=> Held(c, l) \/ (c = FreshChan /\ l = k)
  <2>1. Makes(t, c, l)' <=> c = FreshChan /\ l = k
    BY <1>1 DEF Makes, LinkOf
  <2>2. ~Makes(t, c, l)
    BY <1>1 DEF Makes
  <2>3. \A u \in Threads \ {t} : Makes(u, c, l)' <=> Makes(u, c, l)
    BY <1>1 DEF Makes, Frame, LinkOf
  <2> QED
    BY <1>1, <2>1, <2>2, <2>3 DEF Held, ConnExists
<1>5. \A r \in remotes' : r \in remotes \/ (r.chan = FreshChan /\ r.link = k)
  BY DEF Opens, Spawn
<1>6. \A r \in remotes : r.chan \in Channels /\ r.link \in Names /\ Held(r.chan, r.link)
  BY <1>0 DEF TypeInv, TablesOK, Remote, HeldInv
<1>7. \A r \in remotes' : Held(r.chan, r.link)'
  BY <1>4, <1>5, <1>6
<1>8. \A l, m \in Names, c \in Channels : Held(c, l)' /\ Held(c, m)' => l = m
  BY <1>3, <1>4 DEF HeldInv
<1>9. \A l \in Names, c, d \in Channels : Held(c, l)' /\ Held(d, l)' => c = d
  BY <1>3, <1>4 DEF HeldInv
<1> QED
  BY <1>7, <1>8, <1>9 DEF HeldInv

(* There are finitely many connections to a host.                          *)
LEMMA FiniteIds ==
    ASSUME Numbered, NEW c
    PROVE  /\ IsFiniteSet(Ids) /\ Cardinality(Ids) = BastionConns
           /\ IdsOn(c) \subseteq Ids /\ IsFiniteSet(IdsOn(c))
<1>1. IsFiniteSet(Ids) /\ Cardinality(Ids) = BastionConns
  BY FS_Interval, BastionConnsAssumption DEF Ids
<1>2. IdsOn(c) \subseteq Ids
  BY DEF IdsOn, Numbered
<1> QED
  BY <1>1, <1>2, FS_Subset

(* They part when the connection is taken down, and nobody listens.        *)
LEMMA HeldCleaned ==
    ASSUME Tidy, WalksInv, HeldInv, CountsInv, NEW t \in Threads, CleanupDone(t)
    PROVE  HeldInv'
<1> DEFINE a == th[t].at
<1>0. TypeInv /\ ThreadsOK /\ Reapers = {} /\ LocalOK(t, th[t])
  BY DEF WalksInv, OpsAll, TypeInv, ThreadsOK, Tidy
<1>1. /\ th[t].pc = "cleanup" /\ th[t].left = 0 /\ up = "running"
      /\ DeleteConnInfo(a) /\ UNCHANGED remotes /\ Frame(t)
      /\ th'[t].pc \in {"loop", "deleteHost"}
  BY <1>0, CleanupFields DEF Grabs, CleanupDone, At
<1>2. /\ a \in Names /\ ConnExists(a)
      /\ Cardinality(IdsOn(conn[a].chan)) = 0
  BY <1>0, <1>1 DEF LocalOK, AboutHost, Pcs, CountsInv, Counted
<1>3. /\ \A l \in Names : l # a => conn'[l] = conn[l]
      /\ conn'[a] = NoInfo
  BY <1>0, <1>1, <1>2 DEF DeleteConnInfo, TypeInv, TablesOK
<1>4. \A c, l : \A u \in Threads : Makes(u, c, l)' <=> Makes(u, c, l)
  BY <1>1 DEF Frame, Makes, LinkOf
<1>5. \A c, l : Makes(t, c, l) => FALSE
  BY <1>1 DEF Makes
<1>6. ASSUME NEW l \in Names, NEW c
      PROVE  /\ Held(c, l)' => Held(c, l)
             /\ l # a /\ Held(c, l) => Held(c, l)'
  BY <1>3, <1>4 DEF Held, ConnExists
<1>7. \A r \in remotes : r.chan # conn[a].chan
  <2>1. IsFiniteSet(IdsOn(conn[a].chan))
    BY FiniteIds DEF CountsInv
  <2> QED
    BY <1>2, <2>1, FS_EmptySet DEF IdsOn
<1>8. ASSUME NEW r \in remotes PROVE Held(r.chan, r.link)'
  <2>1. r.chan \in Channels /\ r.link \in Names /\ Held(r.chan, r.link)
    BY <1>0, <1>8 DEF TypeInv, TablesOK, Remote, HeldInv
  <2>2. r.link # a
    BY <1>0, <1>2, <1>7, <2>1, ListedType DEF HeldInv
  <2> QED
    BY <1>6, <2>1, <2>2
<1> QED
  BY <1>1, <1>6, <1>8 DEF HeldInv

(* Nothing is done once the program has ended.                             *)
LEMMA StepsRun ==
    ASSUME NEW t, ThreadStep(t)
    PROVE  up = "running"
BY DEF ThreadStep, SessionStep, WorkerStep, CommonStep, ResolveStep, At,
   TakeKeys, Pick, EndLoop, Finish, SkipConnected, Acquire, LoadHost,
   ProxiesResolve, CleanHost, SessionGetsConn, WorkerResolves, DeleteHost,
   RunGetsConn, SetStatus, SendRun, RunAnswered, AskHostExists, HostGone,
   AskConnExists, ConnGone, DisconnectGetsConn, SendCleanup, CleanupDone,
   ExamineLink, ProxyExists, GetProxy, AskProxy, ProxyAnswers, ProxyRefuses,
   CountProxy, Register, DialsDone, AskPassword, DialSucceeds, DialFails,
   DialRegisters

(* What a step of a goroutine leaves of the channels.                      *)
LEMMA HeldStep ==
    ASSUME Tidy, WalksInv, LinksInv, HeldInv, CountsInv,
           NEW t \in Threads, ThreadStep(t)
    PROVE  HeldInv'
<1>0. /\ Reapers = {} /\ Reliable /\ OpsAll /\ TypeInv
      /\ \A r \in remotes : r.chan \in Channels /\ r.link \in Names
  BY DEF Tidy, WalksInv, OpsAll, TypeInv, TablesOK, Remote
<1>1. ASSUME conn' = conn, \A r \in remotes' : r \in remotes,
             \A u \in Threads : \/ th'[u] = th[u]
                                \/ /\ th[u].pc \notin {"dialing", "register"}
                                   /\ th'[u].pc \notin {"dialing", "register"}
      PROVE  HeldInv'
  <2>1. \A l \in Names, c \in Channels : Held(c, l)' <=> Held(c, l)
    BY <1>1, HeldUnmoved
  <2> QED
    BY <1>0, <1>1, <2>1, HeldSame
<1>2. CASE Aside
  BY <1>1, <1>2 DEF Aside, Passes, Engaged
<1>3. CASE Claims(t)
  BY <1>1, <1>3 DEF Claims, Grabs, Frame
<1>4. CASE SendCleanup(t)
  <2>1. /\ conn' = conn /\ Frame(t) /\ th[t].pc = "cleanup" /\ th'[t].pc = "cleanup"
        /\ \A r \in remotes' : r \in remotes
    BY <1>0, <1>4, CleanupFields DEF TypeInv, Grabs, Cleanup, Panic, stateVars
  <2> QED
    BY <1>1, <2>1 DEF Frame
<1>5. CASE Closes(t)
  <2>1. th[t].pc = "dialing" /\ ConnExists(LinkOf(t, th[t]))
    BY <1>0, <1>5, AllSure DEF Closes, WalksInv, WalkInv, Walked, Resolving, ThroughProxy
  <2>2. LinkOf(t, th[t]) \in Names /\ th[t].chan \in Channels
        /\ Held(th[t].chan, LinkOf(t, th[t]))
    BY <1>0, <2>1, MakesType
  <2>3. conn[LinkOf(t, th[t])].chan = th[t].chan
    BY <1>0, <2>1, <2>2, ListedType DEF HeldInv
  <2>4. ASSUME NEW c, NEW l PROVE Held(c, l)' <=> Held(c, l)
    <3>1. conn' = conn /\ Frame(t) /\ th'[t].pc \notin {"dialing", "register"}
      BY <1>5 DEF Closes, Advances, Ended, Leaves
    <3>2. \A u \in Threads \ {t} : Makes(u, c, l)' <=> Makes(u, c, l)
      BY <3>1 DEF Frame, Makes, LinkOf
    <3>3. ~Makes(t, c, l)'
      BY <3>1 DEF Makes
    <3>4. Makes(t, c, l) => ConnExists(l) /\ conn[l].chan = c
      BY <2>1, <2>3 DEF Makes
    <3> QED
      BY <3>1, <3>2, <3>3, <3>4 DEF Held, ConnExists
  <2> QED
    BY <1>0, <1>5, <2>4, HeldSame DEF Closes
<1>6. CASE Joins(t)
  <2>1. PICK i \in th[t].dialing :
           /\ Spawn(LinkOf(t, th[t]), th[t].chan, i, t \in Sessions)
           /\ \E e : Dials(t, th[t].dialing \ {i}, e)
    BY <1>6 DEF Joins
  <2>2. /\ th[t].pc = "dialing" /\ conn' = conn /\ Frame(t)
        /\ th'[t].pc = "dialing" /\ th'[t].chan = th[t].chan
        /\ LinkOf(t, th'[t]) = LinkOf(t, th[t])
    BY <1>6, <2>1 DEF Joins, Dials, LinkOf, KeepsLoop, KeepsWalk
  <2>3. \A l \in Names, c \in Channels : Held(c, l)' <=> Held(c, l)
    BY <2>2, HeldUnmoved DEF Frame
  <2>4. \A r \in remotes' : \/ r \in remotes
                            \/ r.chan = th[t].chan /\ r.link = LinkOf(t, th[t])
    BY <2>1 DEF Spawn
  <2> QED
    BY <1>0, <2>2, <2>3, <2>4, HeldSame, MakesType
<1>7. CASE Registers(t)
  <2>1. remotes' = remotes
    BY <1>7 DEF Registers, ListsAs
  <2>2. \A l \in Names, c \in Channels : Held(c, l)' <=> Held(c, l)
    BY <1>0, <1>7, HeldRegisters
  <2> QED
    BY <1>0, <2>1, <2>2, HeldSame
<1>8. CASE Opens(t)
  BY <1>8, HeldOpens
<1>9. CASE CleanupDone(t)
  BY <1>9, HeldCleaned
<1> QED
  BY <1>0, <1>2, <1>3, <1>4, <1>5, <1>6, <1>7, <1>8, <1>9, ChannelSteps

-----------------------------------------------------------------------------
(* Whoever is engaged with a connection has the channel of its host.       *)
LEMMA EngagedType ==
    ASSUME TypeInv, HeldInv, CountsInv, NEW t \in Threads, th[t].pc \in Engaged
    PROVE  /\ th[t].chan \in Channels /\ Subject(t) \in Names /\ Busy(t)
           /\ Held(th[t].chan, Subject(t))
<1>1. CASE th[t].pc = "cleanup"
  <2>1. th[t].at \in Names /\ ConnExists(th[t].at)
        /\ th[t].chan = conn[th[t].at].chan /\ Busy(t) /\ Subject(t) = th[t].at
    BY <1>1 DEF TypeInv, ThreadsOK, LocalOK, AboutHost, Pcs, CountsInv, Counted,
       Busy, Subject
  <2> QED
    BY <2>1, ListedType
<1>2. CASE th[t].pc # "cleanup"
  BY <1>2, MakesType DEF Engaged
<1> QED
  BY <1>1, <1>2

(* So no other has it, and no other host.                                  *)
LEMMA EngagedApart ==
    ASSUME Tidy, WalksInv, HeldInv, CountsInv,
           NEW t \in Threads, th[t].pc \in Engaged
    PROVE  /\ \A u \in Threads \ {t} : th[u].pc \in Engaged =>
                 th[u].chan # th[t].chan /\ Subject(u) # Subject(t)
           /\ \A l \in GetConnKeys : l # Subject(t) => conn[l].chan # th[t].chan
           /\ ConnExists(Subject(t)) => conn[Subject(t)].chan = th[t].chan
<1>0. TypeInv
  BY DEF WalksInv, OpsAll
<1>1. ASSUME NEW u \in Threads \ {t}, th[u].pc \in Engaged
      PROVE  th[u].chan # th[t].chan /\ Subject(u) # Subject(t)
  <2>1. Subject(u) # Subject(t)
    BY <1>0, <1>1, BusyApart, EngagedType
  <2> QED
    BY <1>0, <1>1, <2>1, EngagedType DEF HeldInv
<1>2. ASSUME NEW l \in GetConnKeys, l # Subject(t) PROVE conn[l].chan # th[t].chan
  BY <1>0, <1>2, EngagedType, ListedType DEF HeldInv, GetConnKeys
<1>3. ASSUME ConnExists(Subject(t)) PROVE conn[Subject(t)].chan = th[t].chan
  BY <1>0, <1>3, EngagedType, ListedType DEF HeldInv
<1> QED
  BY <1>1, <1>2, <1>3

(* What is counted stays so for one that stays, on a channel that stays.   *)
LEMMA CountedStays ==
    ASSUME NEW u \in Threads, Counted(u), th'[u] = th[u], up = "running",
           th[u].pc \in Engaged => IdsOn(th[u].chan)' = IdsOn(th[u].chan),
           th[u].pc = "cleanup" => conn'[th[u].at] = conn[th[u].at]
    PROVE  Counted(u)'
<1>1. CASE th[u].pc \notin Engaged
  BY <1>1 DEF Counted, Engaged
<1>2. CASE th[u].pc \in Engaged
  BY <1>2 DEF Counted, ConnExists
<1> QED
  BY <1>1, <1>2

(* So does what is accounted for, if all who are engaged stay.             *)
LEMMA AccountedStays ==
    ASSUME NEW l, Accounted(l), conn'[l] = conn[l],
           IdsOn(conn[l].chan)' = IdsOn(conn[l].chan),
           \A u \in Threads : th[u].pc \in Engaged /\ Subject(u) = l => th'[u] = th[u]
    PROVE  Accounted(l)'
<1>1. CASE IdsOn(conn[l].chan) = Whole(l)
  BY <1>1 DEF Accounted, Whole
<1>2. ASSUME NEW u \in Threads, th[u].pc \in Engaged, Subject(u) = l
      PROVE  Accounted(l)'
  BY <1>2 DEF Accounted, Subject, LinkOf
<1> QED
  BY <1>1, <1>2 DEF Accounted

(* The same with no remoteHost made or ended: one goroutine goes on, and   *)
(* perhaps lists a connection.                                             *)
LEMMA CountsKept ==
    ASSUME CountsInv, NEW t \in Threads, Frame(t), UNCHANGED <<remotes, conn>>,
           up = "running", Counted(t)',
           th[t].pc \notin Engaged
             \/ (th'[t].pc \in Engaged /\ Subject(t)' = Subject(t))
             \/ \A l \in GetConnKeys : l = Subject(t) => Accounted(l)'
    PROVE  CountsInv'
<1>1. \A c : IdsOn(c)' = IdsOn(c)
  BY DEF IdsOn
<1>2. ASSUME NEW u \in Threads, u # t PROVE Counted(u)'
  BY <1>1, <1>2, CountedStays DEF Frame, CountsInv
<1>3. ASSUME NEW l \in GetConnKeys PROVE Accounted(l)'
  <2>1. CASE th[t].pc \in Engaged /\ Subject(t) = l
    <3>1. CASE th'[t].pc \in Engaged /\ Subject(t)' = l
      BY <3>1 DEF Accounted
    <3>2. CASE \A m \in GetConnKeys : m = Subject(t) => Accounted(m)'
      BY <1>3, <2>1, <3>2
    <3> QED
      BY <2>1, <3>1, <3>2
  <2>2. CASE ~(th[t].pc \in Engaged /\ Subject(t) = l)
    BY <1>1, <1>3, <2>2, AccountedStays DEF Frame, CountsInv
  <2> QED
    BY <2>1, <2>2
<1>4. Numbered' /\ GetConnKeys' = GetConnKeys
  BY DEF CountsInv, Numbered, GetConnKeys, ConnExists
<1> QED
  BY <1>2, <1>3, <1>4 DEF CountsInv

(* What counts when a new channel is opened.                               *)
LEMMA OpensCounts ==
    ASSUME Tidy, WalksInv, HeldInv, CountsInv, up = "running",
           NEW t \in Threads, Opens(t)
    PROVE  CountsInv'
<1>0. BastionConns # 0 /\ 1 \in Ids
  BY BastionConnsAssumption DEF Tidy, Reliable, Ids
<1>1. /\ Frame(t) /\ conn' = conn /\ ChannelLeft
      /\ th[t].pc \in {"link", "countProxy"} /\ th'[t].chan = FreshChan
  BY DEF Opens
<1>2. FreshChan \in Channels \ InUse /\ \A r \in remotes : r.chan # FreshChan
  BY <1>1, FreshUnheld DEF ChannelLeft, FreshChan
<1>3. PICK l, p : \/ remotes' = remotes /\ th'[t].pc = "dialing" /\ th'[t].dialing = Ids
                  \/ Spawn(l, FreshChan, 1, p) /\ th'[t].pc = "register"
  BY DEF Opens
<1> DEFINE new == [link |-> l, chan |-> FreshChan, id |-> 1, isProxy |-> p,
                   asking |-> FALSE]
<1>10. /\ new.chan = FreshChan /\ new.id = 1
       /\ Spawn(l, FreshChan, 1, p) => remotes' = remotes \cup {new}
  BY DEF Spawn
<1> HIDE DEF new
<1>4. ASSUME NEW c, c # FreshChan PROVE IdsOn(c)' = IdsOn(c)
  BY <1>3, <1>4, <1>10 DEF IdsOn
<1>5. Counted(t)'
  <2>1. CASE remotes' = remotes /\ th'[t].pc = "dialing" /\ th'[t].dialing = Ids
    BY <1>1, <1>2, <2>1 DEF Counted, IdsOn
  <2>2. CASE Spawn(l, FreshChan, 1, p) /\ th'[t].pc = "register"
    <3>1. {r.id : r \in {q \in remotes' : q.chan = FreshChan}} = {1}
      BY <1>2, <1>10, <2>2
    <3> QED
      BY <1>1, <2>2, <3>1 DEF Counted, IdsOn
  <2> QED
    BY <1>3, <2>1, <2>2
<1>6. Numbered'
  BY <1>0, <1>2, <1>3, <1>10 DEF CountsInv, Numbered
<1>7. ASSUME NEW u \in Threads, u # t PROVE Counted(u)'
  <2>1. th'[u] = th[u] /\ th[u].chan # FreshChan
    BY <1>1, <1>2, <1>7 DEF Frame, InUse
  <2> QED
    BY <1>1, <1>4, <2>1, CountedStays DEF CountsInv
<1>8. ASSUME NEW l1 \in GetConnKeys PROVE Accounted(l1)'
  <2>1. conn[l1].chan # FreshChan
    BY <1>2, <1>8 DEF InUse
  <2>2. th[t].pc \notin Engaged
    BY <1>1 DEF Engaged
  <2> QED
    BY <1>1, <1>4, <1>8, <2>1, <2>2, AccountedStays DEF CountsInv, Frame
<1>9. GetConnKeys' = GetConnKeys
  BY <1>1 DEF GetConnKeys, ConnExists
<1> QED
  BY <1>5, <1>6, <1>7, <1>8, <1>9 DEF CountsInv

(* When a connection joins or leaves a channel that one goroutine has, no  *)
(* other channel's count changes.                                          *)
LEMMA OneChannelCounts ==
    ASSUME Tidy, WalksInv, HeldInv, CountsInv, up = "running",
           NEW t \in Threads, Frame(t), conn' = conn,
           th[t].pc \in Engaged, th'[t].pc \in Engaged, Subject(t)' = Subject(t),
           \A c : c # th[t].chan => IdsOn(c)' = IdsOn(c),
           Counted(t)', Numbered'
    PROVE  CountsInv'
<1>1. ASSUME NEW u \in Threads, u # t PROVE Counted(u)'
  <2>1. th'[u] = th[u] /\ (th[u].pc \in Engaged => th[u].chan # th[t].chan)
    BY <1>1, EngagedApart DEF Frame
  <2> QED
    BY <2>1, CountedStays DEF CountsInv
<1>2. ASSUME NEW l \in GetConnKeys PROVE Accounted(l)'
  <2>1. CASE l = Subject(t)
    BY <2>1 DEF Accounted
  <2>2. CASE l # Subject(t)
    <3>1. conn[l].chan # th[t].chan
      BY <1>2, <2>2, EngagedApart
    <3> QED
      BY <1>2, <2>2, <3>1, AccountedStays DEF CountsInv, Frame
  <2> QED
    BY <2>1, <2>2
<1>3. GetConnKeys' = GetConnKeys
  BY DEF GetConnKeys, ConnExists
<1> QED
  BY <1>1, <1>2, <1>3 DEF CountsInv

(* A dial that succeeds is counted with those that did.                    *)
LEMMA JoinsCounts ==
    ASSUME Tidy, WalksInv, HeldInv, CountsInv, up = "running",
           NEW t \in Threads, Joins(t)
    PROVE  CountsInv'
<1> DEFINE c == th[t].chan
<1>1. PICK i \in th[t].dialing :
         /\ Spawn(LinkOf(t, th[t]), c, i, t \in Sessions)
         /\ \E e : Dials(t, th[t].dialing \ {i}, e)
  BY DEF Joins
<1>2. /\ th[t].pc = "dialing" /\ conn' = conn /\ Frame(t) /\ th'[t].pc = "dialing"
      /\ th'[t].chan = c /\ th'[t].dialing = th[t].dialing \ {i}
      /\ LinkOf(t, th'[t]) = LinkOf(t, th[t])
  BY <1>1 DEF Joins, Dials, LinkOf, KeepsLoop, KeepsWalk
<1>3. th[t].dialing \subseteq Ids
  BY DEF WalksInv, OpsAll, TypeInv, ThreadsOK, ThreadState
<1>4. IdsOn(c) = Ids \ th[t].dialing
  BY <1>2 DEF CountsInv, Counted
<1> DEFINE new == [link |-> LinkOf(t, th[t]), chan |-> c, id |-> i,
                   isProxy |-> t \in Sessions, asking |-> FALSE]
<1>5. remotes' = remotes \cup {new} /\ new.chan = c /\ new.id = i
  BY <1>1 DEF Spawn
<1> HIDE DEF new
<1>6. ASSUME NEW d PROVE IdsOn(d)' = IF d = c THEN IdsOn(c) \cup {i} ELSE IdsOn(d)
  <2>1. IdsOn(d)' = {r.id : r \in {q \in remotes \cup {new} : q.chan = d}}
    BY <1>5 DEF IdsOn
  <2> QED
    BY <1>5, <2>1 DEF IdsOn
<1>7. Counted(t)'
  <2>1. IdsOn(c) \cup {i} = Ids \ (th[t].dialing \ {i})
    BY <1>3, <1>4
  <2>2. IdsOn(th[t].chan)' = Ids \ (th[t].dialing \ {i})
    <3> DEFINE d == th'[t].chan
    <3>1. IdsOn(th[t].chan)' = {r.id : r \in {q \in remotes' : q.chan = d}}
      BY DEF IdsOn
    <3>2. {r.id : r \in {q \in remotes' : q.chan = c}} = IdsOn(c) \cup {i}
      BY <1>5 DEF IdsOn
    <3> QED
      BY <1>2, <2>1, <3>1, <3>2
  <2> QED
    BY <1>2, <2>2 DEF Counted
<1>8. Numbered'
  <2>1. i \notin IdsOn(c) /\ i \in Ids
    BY <1>3, <1>4
  <2>2. \A r \in remotes : r.chan = c => r.id # i
    BY <2>1 DEF IdsOn
  <2> QED
    BY <1>5, <2>1, <2>2 DEF CountsInv, Numbered
<1>9. Subject(t)' = Subject(t)
  BY <1>2 DEF Subject
<1> QED
  BY <1>2, <1>6, <1>7, <1>8, <1>9, OneChannelCounts DEF Engaged

(* One that is cleaned up is one less.                                     *)
LEMMA SendsCounts ==
    ASSUME Tidy, WalksInv, HeldInv, CountsInv, up = "running",
           NEW t \in Threads, SendCleanup(t)
    PROVE  CountsInv'
<1> DEFINE c == th[t].chan
<1>1. /\ th[t].pc = "cleanup" /\ Frame(t) /\ th'[t].pc = "cleanup"
      /\ th'[t].chan = c /\ th'[t].at = th[t].at
      /\ th'[t].left = th[t].left - 1
  BY CleanupFields DEF WalksInv, OpsAll, TypeInv, Tidy, Grabs, Keeps, KeepsLoop
<1>2. PICK r \in Listening(c) : Cleanup(r)
  BY CleanupFields DEF WalksInv, OpsAll, TypeInv, Tidy
<1>3. conn' = conn /\ r \in remotes /\ r.chan = c
  BY <1>2 DEF Cleanup, Panic, stateVars, Listening
<1>4. Counted(t)
  BY DEF CountsInv
<1>5. Subject(t)' = Subject(t)
  BY <1>1 DEF Subject
<1>6. CASE up' = "panicked" /\ remotes' = remotes
  <2>1. Counted(t)'
    BY <1>1, <1>3, <1>4, <1>6 DEF Counted, ConnExists
  <2> QED
    BY <1>1, <1>3, <1>5, <1>6, <2>1, CountsKept DEF Engaged
<1>7. CASE remotes' = remotes \ {r}
  <2>1. Numbered'
    BY <1>7 DEF CountsInv, Numbered
  <2>2. ASSUME NEW d, d # c PROVE IdsOn(d)' = IdsOn(d)
    BY <1>3, <1>7, <2>2 DEF IdsOn
  <2>3. {q.id : q \in {p \in remotes' : p.chan = c}} = IdsOn(c) \ {r.id}
    BY <1>3, <1>7 DEF IdsOn, CountsInv, Numbered
  <2>4. IdsOn(th[t].chan)' = IdsOn(c) \ {r.id}
    BY <1>1, <2>3 DEF IdsOn
  <2>5. Cardinality(IdsOn(c) \ {r.id}) = Cardinality(IdsOn(c)) - 1
    <3>1. r.id \in IdsOn(c)
      BY <1>3 DEF IdsOn
    <3>2. IsFiniteSet(IdsOn(c))
      BY FiniteIds DEF CountsInv
    <3> QED
      BY <3>1, <3>2, FS_RemoveElement
  <2>6. Counted(t)'
    BY <1>1, <1>3, <1>4, <2>4, <2>5 DEF Counted, ConnExists
  <2> QED
    BY <1>1, <1>3, <1>5, <2>1, <2>2, <2>6, OneChannelCounts DEF Engaged
<1> QED
  BY <1>2, <1>6, <1>7 DEF Cleanup, Panic

(* A connection that is listed has all that were made for it, or somebody  *)
(* goes on to make them.                                                   *)
LEMMA RegistersCounts ==
    ASSUME Tidy, WalksInv, LinksInv, HeldInv, CountsInv, up = "running",
           NEW t \in Threads, Registers(t)
    PROVE  CountsInv'
<1>10. PICK k : k = LinkOf(t, th[t])
  OBVIOUS
<1>0. TypeInv
  BY DEF WalksInv, OpsAll
<1>1. PICK d \in BOOLEAN :
         /\ ListsAs(t, d) /\ th[t].pc = IF d THEN "dialing" ELSE "register"
         /\ \/ d /\ \E e : Dials(t, th[t].dialing, e)
            \/ ~d /\ (Advances(t) \/ Ended(t))
  BY DEF Registers
<1>2. /\ k \in Names
      /\ \A l \in Names : l # k => conn'[l] = conn[l]
      /\ ConnExists(k) => conn' = conn
      /\ ~ConnExists(k) =>
            conn'[k] = [chan |-> th[t].chan, isProxy |-> t \in Sessions,
                        isDirect |-> d]
  BY <1>0, <1>1, <1>10, ListedEntry
<1>3. /\ Frame(t) /\ remotes' = remotes /\ th[t].pc \in Engaged /\ Subject(t) = k
      /\ Counted(t)
  BY <1>1, <1>10 DEF Dials, Advances, Ended, Leaves, ListsAs, Engaged, Subject, CountsInv
<1>4. \A c : IdsOn(c)' = IdsOn(c)
  BY <1>3 DEF IdsOn
<1>5. Counted(t)'
  <2>1. CASE d
    BY <1>1, <1>3, <2>1 DEF Dials, Counted, IdsOn
  <2>2. CASE ~d
    BY <1>1, <2>2 DEF Advances, Ended, Leaves, Counted
  <2> QED
    BY <2>1, <2>2
<1>6. ASSUME NEW u \in Threads, u # t PROVE Counted(u)'
  <2>1. th'[u] = th[u] /\ Counted(u)
    BY <1>3, <1>6 DEF Frame, CountsInv
  <2>2. ASSUME th[u].pc = "cleanup" PROVE conn'[th[u].at] = conn[th[u].at]
    <3>1. th[u].at # k /\ th[u].at \in Names
      BY <1>0, <1>3, <1>6, <2>2, EngagedApart, EngagedType DEF Engaged, Subject
    <3> QED
      BY <1>2, <3>1
  <2> QED
    BY <1>4, <2>1, <2>2, CountedStays
<1>7. ASSUME NEW l \in GetConnKeys', l # k PROVE Accounted(l)'
  <2>1. l \in GetConnKeys /\ conn'[l] = conn[l]
    BY <1>2, <1>7 DEF GetConnKeys, ConnExists
  <2> QED
    BY <1>3, <1>4, <1>7, <2>1, AccountedStays DEF CountsInv, Frame
<1>8. Accounted(k)'
  <2>1. CASE d
    <3>1. th'[t].pc = "dialing" /\ LinkOf(t, th'[t]) = k
      BY <1>1, <1>10, <2>1 DEF Dials, LinkOf, KeepsLoop, KeepsWalk
    <3>2. th'[t].pc \in Engaged /\ Subject(t)' = LinkOf(t, th'[t])
      BY <3>1 DEF Engaged, Subject
    <3> QED
      BY <3>1, <3>2 DEF Accounted
  <2>2. CASE ~d
    <3>1. ~ConnExists(k)
      BY <1>1, <1>10, <2>2 DEF LinksInv, LinkFacts, ThroughProxy
    <3>2. conn'[k].chan = th[t].chan /\ conn'[k].isDirect = FALSE
      BY <1>2, <2>2, <3>1
    <3>3. IdsOn(th[t].chan) = {1}
      BY <1>1, <1>3, <2>2 DEF Counted
    <3>4. IdsOn(conn[k].chan)' = Whole(k)'
      BY <1>3, <3>2, <3>3 DEF IdsOn, Whole
    <3> QED
      BY <3>4 DEF Accounted
  <2> QED
    BY <2>1, <2>2
<1>9. Numbered'
  BY <1>3 DEF CountsInv, Numbered
<1> QED
  BY <1>5, <1>6, <1>7, <1>8, <1>9 DEF CountsInv

(* When all dials are done, all connections are there.                     *)
LEMMA ClosesCounts ==
    ASSUME Tidy, WalksInv, LinksInv, HeldInv, CountsInv, up = "running",
           NEW t \in Threads, Closes(t)
    PROVE  CountsInv'
<1>8. PICK k : k = LinkOf(t, th[t])
  OBVIOUS
<1>1. /\ UNCHANGED <<conn, remotes>> /\ th[t].pc = "dialing" /\ th[t].dialing = {}
      /\ Frame(t) /\ th'[t].pc \in {"link", "loop", "setStatus"}
  BY DEF Closes, Advances, Ended, Leaves
<1>2. Counted(t)'
  BY <1>1 DEF Counted
<1>3. Subject(t) = k /\ th[t].pc \in Engaged
  BY <1>1, <1>8 DEF Subject, Engaged
<1>4. ConnExists(k)
  BY <1>8, AllSure DEF Closes, WalksInv, WalkInv, Walked, Resolving, ThroughProxy, Tidy
<1>5. conn[k].chan = th[t].chan /\ conn[k].isDirect
  BY <1>1, <1>3, <1>4, <1>8, EngagedApart DEF LinksInv, LinkFacts
<1>6. IdsOn(conn[k].chan) = Whole(k)
  <2>1. IdsOn(th[t].chan) = Ids \ th[t].dialing
    <3>1. Counted(t)
      BY DEF CountsInv
    <3> QED
      BY <1>1, <3>1 DEF Counted
  <2>2. Ids \ th[t].dialing = Ids
    BY <1>1
  <2> QED
    BY <1>5, <2>1, <2>2 DEF Whole
<1>7. Accounted(k)'
  BY <1>1, <1>6 DEF Accounted, Whole, IdsOn
<1> QED
  BY <1>1, <1>2, <1>3, <1>7, CountsKept

(* Whoever is about to take a connection down finds all there are, and     *)
(* means to clean up as many.                                              *)
LEMMA ClaimsCounts ==
    ASSUME Tidy, WalksInv, LinksInv, HeldInv, CountsInv, up = "running",
           NEW t \in Threads, Claims(t)
    PROVE  CountsInv'
<1> DEFINE a == th[t].at
           c == conn[a].chan
           n == th'[t].left
<1>0. /\ TypeInv /\ ThreadsOK /\ LocalOK(t, th[t]) /\ Role(t, th[t])
      /\ IsFiniteSet(Ids) /\ Cardinality(Ids) = BastionConns
      /\ BastionConns # 0 /\ BastionConns \in Nat
  BY BastionConnsAssumption, FiniteIds
     DEF WalksInv, OpsAll, TypeInv, ThreadsOK, OpsInv, Tidy, Reliable, CountsInv
<1>1. /\ UNCHANGED <<conn, remotes>> /\ th[t].pc = "getConnInfo" /\ ConnExists(a)
      /\ Frame(t) /\ th'[t].pc = "cleanup" /\ th'[t].chan = c /\ th'[t].at = a
      /\ \/ /\ t \in Sessions /\ Stage(t) # "run" /\ About(Stage(t), conn[a])
            /\ n = IF Stage(t) = "directProxies" THEN BastionConns ELSE 1
         \/ t \in Workers /\ n = 1
  BY DEF Claims, Grabs, Keeps, KeepsLoop
<1>2. a \in Names /\ Busy(t) /\ Subject(t) = a
  BY <1>0, <1>1 DEF LocalOK, AboutHost, Pcs, Busy, Subject
<1>3. IdsOn(c) = Whole(a)
  <2>1. Accounted(a)
    BY <1>1, <1>2 DEF CountsInv, GetConnKeys
  <2>2. ASSUME NEW u \in Threads, th[u].pc \in Engaged, Subject(u) = a PROVE FALSE
    <3>1. u # t
      BY <1>1, <2>2 DEF Engaged
    <3> QED
      BY <1>0, <1>2, <2>2, <3>1, EngagedType, BusyApart
  <2> QED
    BY <2>1, <2>2 DEF Accounted
<1>4. a \in Targets /\ conn[a].isDirect => Ids = {1}
  <2> SUFFICES ASSUME a \in Targets, conn[a].isDirect PROVE Ids = {1}
    OBVIOUS
  <2>1. \E h \in Targets : Chain[h][1] = a
    BY <1>1, <1>2 DEF LinksInv, GetConnKeys
  <2>2. BastionConns = 1
    BY <2>1 DEF Tidy, Spares
  <2> QED
    BY <2>2 DEF Ids
<1>5. Cardinality(Whole(a)) = n
  <2>1. Cardinality({1}) = 1
    BY FS_Singleton
  <2>2. CASE a \in Targets /\ n = 1
    BY <1>4, <2>1, <2>2 DEF Whole
  <2>3. CASE t \in Workers
    BY <1>1, <2>2, <2>3, ThreadsAssumption DEF WalksInv, TargetsInv, Workers
  <2>4. CASE t \in Sessions
    <3>1. /\ Stage(t) # "run" /\ About(Stage(t), conn[a])
          /\ n = IF Stage(t) = "directProxies" THEN BastionConns ELSE 1
      BY <1>1, <2>4, ThreadsAssumption DEF Workers
    <3>2. Stage(t) \in Teardown
      <4>1. th[t].op \in Ending \cup {"run"}
        BY <1>0, <1>1, <2>4 DEF Role
      <4>2. th[t].op \in DOMAIN Plan /\ th[t].stage \in 1..Len(Plan[th[t].op])
        BY <1>0, <1>1, <2>4 DEF LocalOK
      <4> QED
        BY <3>1, <4>1, <4>2, PlanTable DEF Stage, Teardown
    <3>3. CASE Stage(t) = "nonProxies"
      <4>1. ~conn[a].isProxy /\ n = 1
        BY <3>1, <3>3 DEF About
      <4>2. a \in Targets
        BY <1>1, <1>2, <4>1 DEF WalksInv, TargetsInv, GetConnKeys
      <4> QED
        BY <2>2, <4>1, <4>2
    <3>4. CASE Stage(t) = "indirectProxies"
      BY <2>1, <3>1, <3>4 DEF About, Whole
    <3>5. CASE Stage(t) = "directProxies"
      BY <1>0, <3>1, <3>5 DEF About, Whole
    <3> QED
      BY <3>2, <3>3, <3>4, <3>5 DEF Teardown
  <2> QED
    BY <1>1, <2>3, <2>4
<1>6. Counted(t)'
  BY <1>1, <1>3, <1>5 DEF Counted, ConnExists, IdsOn
<1> QED
  BY <1>1, <1>6, CountsKept DEF Engaged

(* An entry that ends is nobody else's.                                    *)
LEMMA DoneCounts ==
    ASSUME Tidy, WalksInv, HeldInv, CountsInv, up = "running",
           NEW t \in Threads, CleanupDone(t)
    PROVE  CountsInv'
<1> DEFINE a == th[t].at
<1>0. TypeInv /\ ThreadsOK /\ Reapers = {} /\ LocalOK(t, th[t])
  BY DEF WalksInv, OpsAll, TypeInv, ThreadsOK, Tidy
<1>1. /\ th[t].pc = "cleanup" /\ DeleteConnInfo(a) /\ remotes' = remotes /\ Frame(t)
      /\ th'[t].pc \in {"loop", "deleteHost"}
  BY <1>0, CleanupFields DEF Grabs
<1>2. /\ a \in Names /\ Subject(t) = a /\ th[t].pc \in Engaged
  BY <1>0, <1>1 DEF LocalOK, AboutHost, Pcs, Subject, Engaged
<1>3. /\ \A l \in Names : l # a => conn'[l] = conn[l]
      /\ conn'[a] = NoInfo
  BY <1>0, <1>1, <1>2 DEF DeleteConnInfo, TypeInv, TablesOK
<1>4. \A c : IdsOn(c)' = IdsOn(c)
  BY <1>1 DEF IdsOn
<1>5. ASSUME NEW u \in Threads, u # t PROVE Counted(u)'
  <2>1. th'[u] = th[u] /\ Counted(u)
    BY <1>1, <1>5 DEF Frame, CountsInv
  <2>2. ASSUME th[u].pc = "cleanup" PROVE conn'[th[u].at] = conn[th[u].at]
    <3>1. th[u].at # a /\ th[u].at \in Names
      BY <1>0, <1>2, <1>5, <2>2, EngagedApart, EngagedType DEF Engaged, Subject
    <3> QED
      BY <1>3, <3>1
  <2> QED
    BY <1>4, <2>1, <2>2, CountedStays
<1>6. ASSUME NEW l \in GetConnKeys' PROVE Accounted(l)'
  <2>1. l # a /\ l \in GetConnKeys /\ conn'[l] = conn[l]
    BY <1>3, <1>6 DEF GetConnKeys, ConnExists
  <2> QED
    BY <1>1, <1>2, <1>4, <2>1, AccountedStays DEF CountsInv, Frame
<1>7. Counted(t)' /\ Numbered'
  BY <1>1 DEF Counted, CountsInv, Numbered
<1> QED
  BY <1>5, <1>6, <1>7 DEF CountsInv

(* Nobody who passes by changes a count.                                   *)
LEMMA AsideCounts ==
    ASSUME CountsInv, up = "running", Aside
    PROVE  CountsInv'
<1>1. UNCHANGED <<conn, remotes>> /\ (\A c : IdsOn(c)' = IdsOn(c))
  BY DEF Aside, IdsOn
<1>2. ASSUME NEW u \in Threads PROVE Counted(u)'
  <2>1. CASE th'[u] = th[u]
    BY <1>1, <2>1, CountedStays DEF CountsInv
  <2>2. CASE Passes(u)
    BY <2>2 DEF Passes, Counted, Engaged
  <2> QED
    BY <2>1, <2>2 DEF Aside
<1>3. ASSUME NEW l \in GetConnKeys PROVE Accounted(l)'
  BY <1>1, <1>3, AccountedStays DEF Aside, Passes, CountsInv
<1>4. Numbered' /\ GetConnKeys' = GetConnKeys
  BY <1>1 DEF CountsInv, Numbered, GetConnKeys, ConnExists
<1> QED
  BY <1>2, <1>3, <1>4 DEF CountsInv

(* So every step of a goroutine keeps the counts.                          *)
LEMMA CountsStep ==
    ASSUME Tidy, WalksInv, LinksInv, HeldInv, CountsInv,
           NEW t \in Threads, ThreadStep(t)
    PROVE  CountsInv'
<1>1. Reapers = {} /\ Reliable /\ OpsAll /\ up = "running"
  BY StepsRun DEF Tidy, WalksInv
<1> QED
  BY <1>1, ChannelSteps, OpensCounts, JoinsCounts, SendsCounts, RegistersCounts,
     ClosesCounts, ClaimsCounts, DoneCounts, AsideCounts

-----------------------------------------------------------------------------
(* What a command that takes everything down has done so far: the          *)
(* connections its loops were about are gone, or still to come, or the one *)
(* it is at.                                                               *)
TearAt(r) ==
    r.op \in Ending =>
        /\ r.pc \in {"keys", "loop", "connExists", "getConnInfo", "cleanup", "wait"}
        /\ r.stage \in 1..3
        /\ r.stage >= 2 => \A l \in GetConnKeys : conn[l].isProxy
        /\ r.stage = 3 => \A l \in GetConnKeys : conn[l].isDirect
        /\ r.pc \in {"loop", "connExists", "getConnInfo", "cleanup"} =>
              \A l \in GetConnKeys : About(Plan[r.op][r.stage], conn[l]) =>
                  \/ l \in r.todo
                  \/ l = r.at /\ r.pc \in {"connExists", "getConnInfo", "cleanup"}
        /\ r.pc = "cleanup" => About(Plan[r.op][r.stage], conn[r.at])
        /\ r.pc = "wait" => GetConnKeys = {}
TearInv == \A s \in Sessions : TearAt(th[s])

(* Nobody who is at rest takes a step.                                     *)
LEMMA StepsAwake ==
    ASSUME NEW t, ThreadStep(t)
    PROVE  th[t].pc # "idle"
BY DEF ThreadStep, SessionStep, WorkerStep, CommonStep, ResolveStep, At,
   TakeKeys, Pick, EndLoop, Finish, SkipConnected, Acquire, LoadHost,
   ProxiesResolve, CleanHost, SessionGetsConn, WorkerResolves, DeleteHost,
   RunGetsConn, SetStatus, SendRun, RunAnswered, AskHostExists, HostGone,
   AskConnExists, ConnGone, DisconnectGetsConn, SendCleanup, CleanupDone,
   ExamineLink, ProxyExists, GetProxy, AskProxy, ProxyAnswers, ProxyRefuses,
   CountProxy, Register, DialsDone, AskPassword, DialSucceeds, DialFails,
   DialRegisters

(* While such a command runs, its session is alone.                        *)
LEMMA TearsAlone ==
    ASSUME Tidy, OpsAll, NEW s \in Sessions, th[s].op \in Ending,
           NEW t \in Threads, t # s
    PROVE  th[t].pc = "idle"
<1>1. PICK x \in Names : t = <<s, x>>
  BY DEF Tidy, OneSession, Threads, Workers
<1>2. t \in Workers
  BY <1>1 DEF Workers
<1> QED
  BY <1>1, <1>2 DEF OpsAll, OpsInv, Role, Ending

(* The stages of such a command.                                           *)
LEMMA EndingPlan ==
    ASSUME NEW op \in Ending
    PROVE  /\ op \in DOMAIN Plan /\ Len(Plan[op]) = 3
           /\ Plan[op][1] = "nonProxies" /\ Plan[op][2] = "indirectProxies"
           /\ Plan[op][3] = "directProxies"
<1>1. Plan[op] = <<"nonProxies", "indirectProxies", "directProxies">>
      /\ op \in DOMAIN Plan
  BY DEF Plan, Ending
<1> QED
  BY <1>1

(* What the loop does not change, it leaves as it was.                     *)
LEMMA TearGoes ==
    ASSUME NEW s \in Sessions, TearAt(th[s]), th[s].op \in Ending,
           conn' = conn, KeepsLoop(th'[s], th[s]),
           \/ th'[s].pc = th[s].pc
           \/ th[s].pc = "connExists" /\ th'[s].pc = "getConnInfo"
           \/ /\ th[s].pc = "getConnInfo" /\ th'[s].pc = "cleanup"
              /\ About(Stage(s), conn[th[s].at])
           \/ /\ th[s].pc \in {"connExists", "getConnInfo"} /\ th'[s].pc = "loop"
              /\ ~ConnExists(th[s].at) \/ ~About(Stage(s), conn[th[s].at])
    PROVE  TearAt(th[s])'
<1>1. GetConnKeys' = GetConnKeys /\ \A l \in GetConnKeys : ConnExists(l)
  BY DEF GetConnKeys, ConnExists
<1> QED
  BY <1>1 DEF TearAt, KeepsLoop, Stage

(* The steps of the session that runs it.                                  *)
LEMMA TearsOn ==
    ASSUME Reapers = {}, OpsAll, CountsInv, NEW s \in Sessions, TearAt(th[s]),
           th[s].op \in Ending, ThreadStep(s)
    PROVE  TearAt(th[s])'
<1> DEFINE q == th[s]
           op == q.op
<1>0. /\ TypeInv /\ ThreadsOK /\ TablesOK /\ s \in Threads /\ s \notin Workers
      /\ LocalOK(s, q) /\ q \in ThreadState
  BY ThreadsAssumption DEF OpsAll, TypeInv, ThreadsOK, Threads
<1>1. /\ op \in DOMAIN Plan /\ Len(Plan[op]) = 3
      /\ Plan[op][1] = "nonProxies" /\ Plan[op][2] = "indirectProxies"
      /\ Plan[op][3] = "directProxies"
  BY EndingPlan
<1>2. /\ q.stage \in {1, 2, 3} /\ Stage(s) \in Teardown
      /\ q.pc \in {"keys", "loop", "connExists", "getConnInfo", "cleanup", "wait"}
  BY <1>1 DEF TearAt, Stage, Teardown
<1>3. CASE TakeKeys(s)
  <2>1. /\ conn' = conn /\ q.pc = "keys" /\ th'[s].pc = "loop"
        /\ th'[s].op = op /\ th'[s].stage = q.stage /\ th'[s].todo = GetConnKeys
    BY <1>0, <1>2, <1>3, TakeKeysFields DEF Same, Teardown
  <2> QED
    BY <2>1 DEF TearAt, GetConnKeys, ConnExists
<1>4. CASE Pick(s)
  <2>1. /\ conn' = conn /\ q.pc = "loop" /\ th'[s].op = op /\ th'[s].stage = q.stage
        /\ th'[s].todo = q.todo \ {th'[s].at} /\ th'[s].pc = "connExists"
    BY <1>0, <1>2, <1>4, PickFields DEF Same, Teardown
  <2> QED
    BY <2>1 DEF TearAt, GetConnKeys, ConnExists
<1>5. CASE EndLoop(s)
  <2>1. /\ conn' = conn /\ q.pc = "loop" /\ q.todo = {} /\ th'[s].op = op
        /\ \/ th'[s].pc = "keys" /\ th'[s].stage = q.stage + 1 /\ q.stage \in {1, 2}
           \/ th'[s].pc = "wait" /\ th'[s].stage = q.stage /\ q.stage = 3
    <3>1. /\ Same /\ q.pc = "loop" /\ q.todo = {} /\ th'[s].op = op
          /\ \/ /\ q.stage < Len(Plan[op])
                /\ th'[s].pc = "keys" /\ th'[s].stage = q.stage + 1
             \/ /\ ~(q.stage < Len(Plan[op]))
                /\ th'[s].pc = "wait" /\ th'[s].stage = q.stage
      BY <1>0, <1>5, EndLoopFields
    <3> QED
      BY <1>1, <1>2, <3>1 DEF Same
  <2>2. GetConnKeys' = GetConnKeys
    BY <2>1 DEF GetConnKeys, ConnExists
  <2>3. \A l \in GetConnKeys : ~About(Plan[op][q.stage], conn[l])
    BY <2>1 DEF TearAt
  <2>7. \A l \in GetConnKeys : conn[l].isProxy \in BOOLEAN
                                /\ conn[l].isDirect \in BOOLEAN
    BY <1>0 DEF TablesOK, ConnType, GetConnKeys, ConnExists
  <2>4. CASE q.stage = 1
    <3>1. \A l \in GetConnKeys : conn[l].isProxy
      BY <1>1, <2>3, <2>4, <2>7 DEF About
    <3> QED
      BY <2>1, <2>2, <2>4, <3>1 DEF TearAt
  <2>5. CASE q.stage = 2
    <3>1. \A l \in GetConnKeys : conn[l].isProxy
      BY <2>5 DEF TearAt
    <3>2. \A l \in GetConnKeys : conn[l].isDirect
      BY <1>1, <2>3, <2>5, <2>7, <3>1 DEF About
    <3> QED
      BY <2>1, <2>2, <2>5, <3>1, <3>2 DEF TearAt
  <2>6. CASE q.stage = 3
    <3>1. \A l \in GetConnKeys : conn[l].isProxy /\ conn[l].isDirect
      BY <2>6 DEF TearAt
    <3>2. GetConnKeys = {}
      BY <1>1, <2>3, <2>6, <2>7, <3>1 DEF About
    <3> QED
      BY <2>1, <2>2, <2>6, <3>1, <3>2 DEF TearAt
  <2> QED
    BY <1>2, <2>4, <2>5, <2>6
<1>6. CASE Finish(s)
  <2>1. th'[s] = Idle
    BY <1>0, <1>6, FinishFields DEF Rests
  <2> QED
    BY <2>1 DEF TearAt, Ending, Idle
<1>7. CASE AskConnExists(s)
  <2>1. /\ q.pc = "connExists" /\ conn' = conn
        /\ \/ Goes(s, "getConnInfo")
           \/ Goes(s, "loop") /\ ~ConnExists(q.at)
    BY <1>0, <1>7, AskConnFields DEF Same
  <2> QED
    BY <2>1, TearGoes DEF Goes, Grabs, Keeps
<1>8. CASE SessionGetsConn(s)
  <2>1. q.pc = "getConnInfo" /\ conn' = conn /\ Stage(s) # "run"
    BY <1>0, <1>2, <1>8, GetsConnFields DEF Same, Teardown
  <2>2. \/ Goes(s, "loop") /\ ~About(Stage(s), conn[q.at])
        \/ /\ About(Stage(s), conn[q.at])
           /\ \E c, n : Grabs(s, "cleanup", c, n)
    BY <1>0, <1>8, <2>1, GetsConnFields
  <2> QED
    BY <2>1, <2>2, TearGoes DEF Goes, Grabs, Keeps
<1>9. CASE SendCleanup(s)
  <2>1. q.pc = "cleanup" /\ conn' = conn /\ \E c, n : Grabs(s, "cleanup", c, n)
    BY <1>0, <1>9, CleanupFields DEF Cleanup, Panic, stateVars
  <2> QED
    BY <2>1, TearGoes DEF Grabs, Keeps
<1>10. CASE CleanupDone(s)
  <2>1. /\ q.pc = "cleanup" /\ DeleteConnInfo(q.at) /\ th'[s].pc = "loop"
        /\ KeepsLoop(th'[s], q)
    BY <1>0, <1>10, CleanupFields DEF Grabs, Keeps
  <2>2. q.at \in Names
    BY <1>0, <2>1 DEF LocalOK, AboutHost, Pcs
  <2>3. /\ \A l \in GetConnKeys' : l \in GetConnKeys /\ l # q.at /\ conn'[l] = conn[l]
    BY <1>0, <2>1, <2>2 DEF DeleteConnInfo, GetConnKeys, ConnExists, TablesOK
  <2> QED
    BY <2>1, <2>3 DEF TearAt, KeepsLoop
<1>11. CASE ConnGone(s)
  <2>1. UNCHANGED <<th, conn>>
    BY <1>11 DEF ConnGone, Panic
  <2> QED
    BY <2>1 DEF TearAt, GetConnKeys, ConnExists
<1>12. ~ResolveStep(s)
  <2>1. ResolveStep(s) => q.pc \in Resolving
    BY DEF ResolveStep, At, Resolving, ThroughProxy,
       ExamineLink, ProxyExists, GetProxy, AskProxy, ProxyAnswers, ProxyRefuses,
       CountProxy, Register, DialsDone, AskPassword, DialSucceeds, DialFails,
       DialRegisters
  <2> QED
    BY <1>2, <2>1 DEF Resolving, ThroughProxy
<1>13. ~SkipConnected(s) /\ ~Acquire(s) /\ ~LoadHost(s) /\ ~ProxiesResolve(s)
       /\ ~CleanHost(s) /\ ~AskHostExists(s) /\ ~HostGone(s)
  BY <1>2 DEF At, SkipConnected, Acquire, LoadHost, ProxiesResolve, CleanHost,
     AskHostExists, HostGone
<1>14. ~DisconnectGetsConn(s)
  BY <1>0 DEF DisconnectGetsConn
<1> QED
  BY <1>0, <1>3, <1>4, <1>5, <1>6, <1>7, <1>8, <1>9, <1>10, <1>11, <1>12, <1>13, <1>14
     DEF ThreadStep, SessionStep, CommonStep

(* Every step of a goroutine keeps it.                                     *)
LEMMA TearStep ==
    ASSUME Tidy, OpsAll, CountsInv, TearInv, NEW t \in Threads, ThreadStep(t)
    PROVE  TearInv'
<1> SUFFICES ASSUME NEW s \in Sessions PROVE TearAt(th[s])'
  BY DEF TearInv
<1>0. Reapers = {} /\ s \in Threads /\ TypeInv /\ s \notin Workers
  BY ThreadsAssumption DEF Tidy, Threads, OpsAll
<1>1. CASE th[s].op \in Ending
  <2>1. t = s
    BY <1>1, TearsAlone, StepsAwake
  <2> QED
    BY <1>0, <1>1, <2>1, TearsOn DEF TearInv
<1>2. CASE th[s].op \notin Ending
  <2>1. CASE t = s
    <3>1. th'[s].op \in {th[s].op, "none"}
      <4>1. CASE Plain(s)
        BY <1>0, <4>1, StepsMove DEF Plain, Moves, KeepsLoop
      <4>2. CASE ~Plain(s)
        <5>1. ThreadsOK /\ Idle.op = "none"
          BY <1>0 DEF TypeInv, Idle
        <5> QED
          BY <1>0, <2>1, <4>2, <5>1, ThreadStepKinds, TakeKeysFields, PickFields,
             EndLoopFields, FinishFields, StartsFields
             DEF Rests, Goes, Grabs, Keeps, KeepsLoop, Starts
      <4> QED
        BY <4>1, <4>2
    <3> QED
      BY <1>2, <3>1 DEF TearAt, Ending
  <2>2. CASE t # s
    <3>1. th'[s] = th[s]
      BY <1>0, <2>2, StepsFrame DEF Frame, Tidy, OneSession, Starts
    <3> QED
      BY <1>2, <3>1 DEF TearAt
  <2> QED
    BY <2>1, <2>2
<1> QED
  BY <1>1, <1>2

-----------------------------------------------------------------------------
(* What is listed as a proxy is before the end of a chain, and what is not *)
(* dialled directly after the beginning of one.                            *)
RolesInv ==
    \A l \in GetConnKeys :
        /\ conn[l].isProxy => \E h \in Targets : \E i \in DOMAIN Chain[h] :
              i < Len(Chain[h]) /\ Chain[h][i] = l
        /\ ~conn[l].isDirect => \E h \in Targets : \E i \in DOMAIN Chain[h] :
              i > 1 /\ Chain[h][i] = l

(* Every step of a goroutine keeps it.                                     *)
LEMMA RolesStep ==
    ASSUME Tidy, OpsAll, RolesInv, NEW t \in Threads, ThreadStep(t)
    PROVE  RolesInv'
<1>0. Reapers = {} /\ Reliable /\ TypeInv /\ TablesOK /\ LocalOK(t, th[t])
  BY DEF Tidy, OpsAll, TypeInv, ThreadsOK
<1>1. ASSUME \A l \in GetConnKeys' : l \in GetConnKeys /\ conn'[l] = conn[l]
      PROVE  RolesInv'
  BY <1>1 DEF RolesInv
<1>2. CASE conn' = conn
  BY <1>1, <1>2 DEF GetConnKeys, ConnExists
<1>3. CASE CleanupDone(t)
  <2>1. DeleteConnInfo(th[t].at)
    BY <1>0, <1>3, CleanupFields DEF TypeInv
  <2>2. \A l \in Names : conn'[l] \in {conn[l], NoInfo}
    BY <1>0, <2>1 DEF DeleteConnInfo, TablesOK
  <2> QED
    BY <1>1, <2>2 DEF GetConnKeys, ConnExists
<1>4. CASE Registers(t)
  <2>0. PICK k : k = LinkOf(t, th[t])
    OBVIOUS
  <2>1. PICK d \in BOOLEAN :
           ListsAs(t, d) /\ th[t].pc = IF d THEN "dialing" ELSE "register"
    BY <1>4 DEF Registers
  <2>2. /\ k \in Names
        /\ \A l \in Names : l # k => conn'[l] = conn[l]
        /\ ConnExists(k) => conn' = conn
        /\ ~ConnExists(k) =>
              conn'[k] = [chan |-> th[t].chan, isProxy |-> t \in Sessions,
                          isDirect |-> d]
    BY <1>0, <2>0, <2>1, ListedEntry
  <2>3. /\ th[t].at \in Targets /\ th[t].idx \in 1..Len(WayOf(t, th[t].at))
        /\ ~d => th[t].idx > 1
    BY <1>0, <2>1 DEF LocalOK, Resolving, ThroughProxy
  <2>4. Chain[th[t].at] \in Seq(Names)
    BY <2>3, ChainAssumption
  <2>5. /\ th[t].idx \in DOMAIN Chain[th[t].at] /\ Chain[th[t].at][th[t].idx] = k
        /\ t \in Sessions => th[t].idx < Len(Chain[th[t].at])
    <3>1. CASE t \in Sessions
      BY <2>0, <2>3, <2>4, <3>1 DEF WayOf, LinkOf, Front
    <3>2. CASE t \notin Sessions
      BY <2>0, <2>3, <2>4, <3>2 DEF WayOf, LinkOf
    <3> QED
      BY <3>1, <3>2
  <2>6. ASSUME NEW l \in GetConnKeys', l # k PROVE l \in GetConnKeys /\ conn'[l] = conn[l]
    BY <2>2, <2>6 DEF GetConnKeys, ConnExists
  <2>7. CASE ~ConnExists(k)
    <3> DEFINE p == t \in Sessions
    <3>3. p \in BOOLEAN /\ (p => t \in Sessions)
      OBVIOUS
    <3>4. conn'[k] = [chan |-> th[t].chan, isProxy |-> p, isDirect |-> d]
      BY <2>2, <2>7
    <3> HIDE DEF p
    <3>1. /\ conn'[k].isProxy => t \in Sessions
          /\ ~conn'[k].isDirect => ~d
      BY <3>3, <3>4
    <3>2. /\ conn'[k].isProxy => \E h \in Targets : \E i \in DOMAIN Chain[h] :
                i < Len(Chain[h]) /\ Chain[h][i] = k
          /\ ~conn'[k].isDirect => \E h \in Targets : \E i \in DOMAIN Chain[h] :
                i > 1 /\ Chain[h][i] = k
      BY <2>3, <2>5, <3>1
    <3> QED
      BY <2>6, <3>2 DEF RolesInv
  <2> QED
    BY <1>2, <2>2, <2>7
<1>5. CASE Opens(t) \/ Joins(t) \/ Closes(t) \/ Claims(t) \/ Aside
  BY <1>2, <1>5 DEF Opens, Joins, Closes, Claims, Aside
<1>6. CASE SendCleanup(t)
  <2>1. conn' = conn
    BY <1>0, <1>6, CleanupFields DEF TypeInv, Cleanup, Panic, stateVars
  <2> QED
    BY <1>2, <2>1
<1> QED
  BY <1>0, <1>3, <1>4, <1>5, <1>6, ChannelSteps

(* All of it together, at first and in every step.                         *)
ConnsInv ==
    WalksInv /\ LinksInv /\ HeldInv /\ CountsInv /\ TearInv /\ RolesInv

(* At first nothing is connected.                                          *)
LEMMA ConnsInit == Init => ConnsInv
<1> SUFFICES ASSUME Init PROVE ConnsInv
  OBVIOUS
<1>1. /\ \A t \in Threads : th[t].pc = "idle" /\ th[t].op = "none"
      /\ GetConnKeys = {} /\ remotes = {}
      /\ \A l \in Names : ~ConnExists(l)
  BY DEF Init, Idle, GetConnKeys, ConnExists
<1>2. Sessions \subseteq Threads /\ Workers \subseteq Threads
  BY DEF Threads
<1>3. WalksInv
  <2>1. WalkInv
    BY <1>1 DEF WalkInv, Walked, Resolving, ThroughProxy
  <2>2. ProxiesInv
    BY <1>1, <1>2 DEF ProxiesInv, SessionProxies, WorkerProxies, Resolving, ThroughProxy
  <2>3. TargetsInv
    BY <1>1, <1>2 DEF TargetsInv, SessionTargets
  <2> QED
    BY <2>1, <2>2, <2>3, OpsInit DEF WalksInv
<1>4. LinksInv
  BY <1>1 DEF LinksInv, LinkFacts, ThroughProxy
<1>5. HeldInv
  BY <1>1 DEF HeldInv, Held, Makes
<1>6. CountsInv
  BY <1>1 DEF CountsInv, Numbered, Counted
<1>7. TearInv
  BY <1>1, <1>2 DEF TearInv, TearAt, Ending
<1>8. RolesInv
  BY <1>1 DEF RolesInv
<1> QED
  BY <1>3, <1>4, <1>5, <1>6, <1>7, <1>8 DEF ConnsInv

(* A remoteHost that asks keeps its client.                                *)
LEMMA AsksRemotes ==
    ASSUME Asks, TypeInv
    PROVE  /\ \A q \in remotes' : \E r \in remotes :
                 q.chan = r.chan /\ q.link = r.link /\ q.id = r.id
           /\ \A r \in remotes : \E q \in remotes' :
                 q.chan = r.chan /\ q.link = r.link /\ q.id = r.id
<1>1. CASE UNCHANGED remotes
  BY <1>1
<1>2. ASSUME NEW r \in remotes, NEW b \in BOOLEAN,
             remotes' = (remotes \ {r}) \cup {[r EXCEPT !.asking = b]}
      PROVE  /\ \A q \in remotes' : \E p \in remotes :
                   q.chan = p.chan /\ q.link = p.link /\ q.id = p.id
             /\ \A p \in remotes : \E q \in remotes' :
                   q.chan = p.chan /\ q.link = p.link /\ q.id = p.id
  <2> DEFINE new == [r EXCEPT !.asking = b]
  <2>1. new.chan = r.chan /\ new.link = r.link /\ new.id = r.id
    BY DEF TypeInv, TablesOK, Remote
  <2> HIDE DEF new
  <2> QED
    BY <1>2, <2>1 DEF new
<1> QED
  BY <1>1, <1>2 DEF Asks

(* Nor does its question change anything else.                             *)
LEMMA AsksConns ==
    ASSUME Asks, TypeInv, LinksInv, HeldInv, CountsInv, TearInv, RolesInv
    PROVE  LinksInv' /\ HeldInv' /\ CountsInv' /\ TearInv' /\ RolesInv'
<1>1. UNCHANGED <<th, conn, up>>
  BY DEF Asks
<1>2. \A c : IdsOn(c)' = IdsOn(c)
  <2> SUFFICES ASSUME NEW c PROVE IdsOn(c)' = IdsOn(c)
    OBVIOUS
  <2>1. IdsOn(c)' = {r.id : r \in {q \in remotes' : q.chan = c}}
    BY DEF IdsOn
  <2> QED
    BY <2>1, AsksRemotes DEF IdsOn
<1>3. LinksInv'
  BY <1>1 DEF LinksInv, LinkFacts, LinkOf, GetConnKeys, ConnExists
<1>4. HeldInv'
  <2>1. \A l \in Names, c \in Channels : Held(c, l)' <=> Held(c, l)
    BY <1>1, HeldUnmoved
  <2> QED
    BY <2>1, AsksRemotes, HeldSame
<1>5. Numbered'
  <2>1. CASE UNCHANGED remotes
    BY <2>1 DEF CountsInv, Numbered
  <2>2. ASSUME NEW r \in remotes, NEW b \in BOOLEAN,
               remotes' = (remotes \ {r}) \cup {[r EXCEPT !.asking = b]}
        PROVE  Numbered'
    <3> DEFINE new == [r EXCEPT !.asking = b]
    <3>1. new.chan = r.chan /\ new.id = r.id
      BY DEF TypeInv, TablesOK, Remote
    <3> HIDE DEF new
    <3>2. remotes' = (remotes \ {r}) \cup {new}
      BY <2>2 DEF new
    <3> QED
      BY <3>1, <3>2 DEF CountsInv, Numbered
  <2> QED
    BY <2>1, <2>2 DEF Asks
<1>6. CountsInv'
  <2>1. \A u \in Threads : Counted(u) => Counted(u)'
    <3> SUFFICES ASSUME NEW u \in Threads, Counted(u) PROVE Counted(u)'
      OBVIOUS
    <3>1. PICK c : c = th[u].chan
      OBVIOUS
    <3>2. IdsOn(th[u].chan)' = IdsOn(th[u].chan)
      BY <1>1, <1>2, <3>1 DEF IdsOn
    <3> QED
      BY <1>1, <3>2 DEF Counted, ConnExists
  <2>2. \A l \in GetConnKeys : Accounted(l) => Accounted(l)'
    <3> SUFFICES ASSUME NEW l \in GetConnKeys, Accounted(l) PROVE Accounted(l)'
      OBVIOUS
    <3>1. PICK c : c = conn[l].chan
      OBVIOUS
    <3>2. IdsOn(conn[l].chan)' = IdsOn(conn[l].chan)
      BY <1>1, <1>2, <3>1 DEF IdsOn
    <3> QED
      BY <1>1, <3>2, AccountedStays
  <2> QED
    BY <1>1, <1>5, <2>1, <2>2 DEF CountsInv, GetConnKeys, ConnExists
<1>7. TearInv'
  BY <1>1 DEF TearInv, TearAt, GetConnKeys, ConnExists
<1>8. RolesInv'
  BY <1>1 DEF RolesInv, GetConnKeys, ConnExists
<1> QED
  BY <1>3, <1>4, <1>6, <1>7, <1>8

(* A command that begins has made and taken down nothing.                  *)
LEMMA StartConns ==
    ASSUME TypeInv, LinksInv, HeldInv, CountsInv, TearInv, RolesInv,
           NEW s \in Sessions, NEW op \in DOMAIN Plan, Start(s, op)
    PROVE  LinksInv' /\ HeldInv' /\ CountsInv' /\ TearInv' /\ RolesInv'
<1>1. /\ Frame(s) /\ UNCHANGED <<conn, remotes>> /\ th[s].pc = "idle"
      /\ th'[s].pc = "keys" /\ th'[s].stage = 1 /\ s \in Threads
      /\ up = "running"
  BY StartFields DEF TypeInv, Same, Threads, Start, At
<1>2. Aside
  BY <1>1 DEF Aside, Passes, Frame, Engaged, ThroughProxy
<1>3. LinksInv'
  <2>1. \A u \in Threads \ {s} : LinkFacts(u)'
    BY <1>1, LinkStays DEF Frame, LinksInv
  <2>2. LinkFacts(s)'
    BY <1>1 DEF LinkFacts, ThroughProxy
  <2> QED
    BY <1>1, <2>1, <2>2 DEF LinksInv, GetConnKeys, ConnExists
<1>4. HeldInv'
  <2>1. \A l \in Names, c \in Channels : Held(c, l)' <=> Held(c, l)
    BY <1>1, HeldUnmoved DEF Frame
  <2> QED
    BY <1>1, <2>1, HeldSame
<1>5. CountsInv'
  BY <1>1, <1>2, AsideCounts
<1>6. TearInv'
  <2>1. TearAt(th[s])'
    BY <1>1 DEF TearAt
  <2>2. \A u \in Sessions \ {s} : th'[u] = th[u]
    BY <1>1 DEF Frame, Threads
  <2> QED
    BY <1>1, <2>1, <2>2 DEF TearInv, TearAt, GetConnKeys, ConnExists
<1>7. RolesInv'
  BY <1>1 DEF RolesInv, GetConnKeys, ConnExists
<1> QED
  BY <1>3, <1>4, <1>5, <1>6, <1>7

(* So every step keeps all of it.                                          *)
LEMMA ConnsNext ==
    ASSUME Tidy, ConnsInv, [Next]_allVars
    PROVE  ConnsInv'
<1>1. /\ Orderly /\ Reapers = {} /\ Reliable /\ LastIsTarget
      /\ OpsAll /\ WalkInv /\ ProxiesInv /\ TargetsInv /\ TypeInv
  BY DEF Tidy, Orderly, ConnsInv, WalksInv, OpsAll
<1>2. WalksInv'
  BY <1>1, OpsNext, WalkNext, AllSure, ProxiesNext, TargetsNext DEF WalksInv
<1>3. CASE Asks
  BY <1>1, <1>2, <1>3, AsksConns DEF ConnsInv
<1>4. ASSUME NEW s \in Sessions, NEW op \in DOMAIN Plan, Start(s, op)
      PROVE  ConnsInv'
  BY <1>1, <1>2, <1>4, StartConns DEF ConnsInv
<1>5. ASSUME NEW t \in Threads, ThreadStep(t) PROVE ConnsInv'
  BY <1>1, <1>2, <1>5, LinksStep, HeldStep, CountsStep, TearStep, RolesStep
     DEF ConnsInv
<1> QED
  BY <1>1, <1>3, <1>4, <1>5, StepKinds

(* A remoteHost that serves a channel no one can find keeps its SSH        *)
(* connection until the program ends: with one session there is none, when *)
(* dials do not fail, every chain ends with its target, and no connection  *)
(* to a bastion is one that a cleanup would leave spares of.  The channel  *)
(* of every remoteHost is listed for its host (state.go:302-305), or about *)
(* to be by the goroutine in resolve that made it.                         *)
THEOREM NoOrphansCorrect ==
    ASSUME Tidy
    PROVE  Spec => []NoOrphans
<1>1. ConnsInv => NoOrphans
  <2> SUFFICES ASSUME HeldInv, NEW r \in remotes
               PROVE  \/ ConnExists(r.link) /\ conn[r.link].chan = r.chan
                      \/ AboutToRegister(r.link, r.chan)
    BY DEF ConnsInv, NoOrphans
  <2>1. \A t \in Threads : Link(t) = LinkOf(t, th[t])
    BY DEF Link, LinkOf, Way, WayOf, AsProxy
  <2> QED
    BY <2>1 DEF HeldInv, Held, Makes, AboutToRegister
<1> QED
  BY <1>1, ConnsInit, ConnsNext, PTL DEF Spec

-----------------------------------------------------------------------------
(* What is dialled is the first link of a chain.                           *)
LEMMA DialsFirstLink ==
    ASSUME TypeInv, LinksInv, NEW t \in Threads, th[t].pc = "dialing"
    PROVE  DialedFirst(LinkOf(t, th[t]))
<1>1. /\ th[t].at \in Targets /\ th[t].idx = 1
      /\ 1 \in 1..Len(WayOf(t, th[t].at))
  BY DEF TypeInv, ThreadsOK, LinksInv, LinkFacts, LocalOK, Resolving
<1>2. Chain[th[t].at] \in Seq(Names)
  BY <1>1, ChainAssumption
<1>3. LinkOf(t, th[t]) = Chain[th[t].at][1]
  BY <1>1, <1>2 DEF LinkOf, WayOf, Front
<1> QED
  BY <1>1, <1>3 DEF DialedFirst

(* Only a host that is dialled has connections but for the first.          *)
OthersDialed == \A r \in remotes : r.id = 1 \/ DialedFirst(r.link)

(* A proxy gives one connection, numbered 1, and every other one is one of *)
(* those that were dialled.                                                *)
LEMMA OthersDialedStep ==
    ASSUME Tidy, ConnsInv, OthersDialed, NEW t \in Threads, ThreadStep(t)
    PROVE  OthersDialed'
<1>0. /\ Reapers = {} /\ Reliable /\ OpsAll /\ TypeInv /\ LinksInv /\ ThreadsOK
  BY DEF Tidy, ConnsInv, WalksInv, OpsAll, TypeInv
<1>1. ASSUME NEW l, NEW ch, NEW i, NEW p, Spawn(l, ch, i, p),
             i = 1 \/ DialedFirst(l)
      PROVE  OthersDialed'
  BY <1>1 DEF OthersDialed, Spawn, DialedFirst
<1>2. ASSUME remotes' \subseteq remotes PROVE OthersDialed'
  BY <1>2 DEF OthersDialed, DialedFirst
<1>3. CASE Aside \/ Registers(t) \/ Closes(t) \/ Claims(t)
  BY <1>2, <1>3 DEF Aside, Registers, ListsAs, Closes, Claims
<1>4. CASE Opens(t)
  BY <1>1, <1>2, <1>4 DEF Opens
<1>5. CASE Joins(t)
  BY <1>0, <1>1, <1>5, DialsFirstLink DEF Joins
<1>6. CASE SendCleanup(t)
  BY <1>0, <1>2, <1>6, CleanupFields DEF Cleanup
<1>7. CASE CleanupDone(t)
  BY <1>0, <1>2, <1>7, CleanupFields
<1> QED
  BY <1>0, <1>3, <1>4, <1>5, <1>6, <1>7, ChannelSteps

(* That is so in every step.                                               *)
LEMMA OthersDialedNext ==
    ASSUME Tidy, ConnsInv, OthersDialed, [Next]_allVars
    PROVE  OthersDialed'
<1>1. Orderly /\ OpsAll /\ TypeInv
  BY DEF Tidy, Orderly, ConnsInv, WalksInv, OpsAll
<1>2. CASE Asks
  BY <1>1, <1>2, AsksRemotes DEF OthersDialed, DialedFirst
<1>3. ASSUME NEW s \in Sessions, NEW op \in DOMAIN Plan, Start(s, op)
      PROVE  OthersDialed'
  BY <1>3 DEF Start, OthersDialed, DialedFirst
<1> QED
  BY <1>1, <1>2, <1>3, OthersDialedStep, StepKinds DEF Tidy

(* resolve.go:154-158 and 171-186, no host gets more connections than are  *)
(* intended: BastionConns if it is dialled directly and one if a proxy     *)
(* gives it, whoever comes to its link while the dials are under way.  All *)
(* remoteHosts of a host share a channel (HeldInv), on which they are      *)
(* numbered (CountsInv), and a proxy only gives a first one                *)
(* (OthersDialed).                                                         *)
THEOREM ProxyConnsBoundedCorrect ==
    ASSUME Tidy
    PROVE  Spec => []ProxyConnsBounded
<1>1. ConnsInv /\ OthersDialed => ProxyConnsBounded
  <2> SUFFICES ASSUME ConnsInv, OthersDialed, NEW l \in Names
               PROVE  Cardinality({r \in remotes : r.link = l})
                         \leq IF DialedFirst(l) THEN BastionConns ELSE 1
    BY DEF ProxyConnsBounded
  <2> DEFINE S == {r \in remotes : r.link = l}
             f == [r \in S |-> r.id]
             I == IF DialedFirst(l) THEN Ids ELSE {1}
             n == IF DialedFirst(l) THEN BastionConns ELSE 1
  <2>1. \A r \in remotes : r.chan \in Channels /\ Held(r.chan, r.link)
    BY DEF ConnsInv, WalksInv, OpsAll, TypeInv, TablesOK, Remote, HeldInv
  <2>2. \A r, q \in S : r.chan = q.chan
    BY <2>1 DEF ConnsInv, HeldInv
  <2>3. \A r \in S : r.id \in I
    BY DEF ConnsInv, CountsInv, Numbered, OthersDialed
  <2>4. f \in Injection(S, I)
    BY <2>2, <2>3 DEF Injection, IsInjective, ConnsInv, CountsInv, Numbered
  <2>5. IsFiniteSet(I) /\ Cardinality(I) = n
    BY FiniteIds, FS_Singleton DEF ConnsInv, CountsInv
  <2> HIDE DEF S, f, I
  <2>6. Cardinality(S) \leq n
    BY <2>4, <2>5, FS_Injection
  <2> QED
    BY <2>6 DEF S
<1>2. Init => OthersDialed
  BY DEF Init, OthersDialed
<1>3. ConnsInv /\ OthersDialed /\ [Next]_allVars => ConnsInv' /\ OthersDialed'
  BY ConnsNext, OthersDialedNext
<1> QED
  BY <1>1, <1>2, <1>3, ConnsInit, PTL DEF Spec

(* connect.go:105 and 124, signals.go:6: when disconnectEverywhere is done *)
(* no connection is listed and none is open.  Its later loops only find    *)
(* what they are for, never what they ask "how did it not get killed".     *)
THEOREM DiscoLeavesNothingCorrect ==
    ASSUME Tidy
    PROVE  Spec => []DiscoLeavesNothing
<1>1. Tidy /\ ConnsInv => DiscoLeavesNothing
  <2> SUFFICES ASSUME Tidy, ConnsInv, NEW s \in Sessions, th[s].pc = "wait",
                      th[s].op \in Ending
               PROVE  GetConnKeys = {} /\ remotes = {}
    BY DEF DiscoLeavesNothing, Ending
  <2>1. GetConnKeys = {}
    BY DEF ConnsInv, TearInv, TearAt
  <2>2. \A t \in Threads : th[t].pc \in {"idle", "wait"}
    BY TearsAlone DEF ConnsInv, WalksInv
  <2>3. \A r \in remotes : ~ConnExists(r.link)
    BY <2>1 DEF GetConnKeys, ConnsInv, WalksInv, OpsAll, TypeInv, TablesOK, Remote
  <2>4. \A c, l : \A t \in Threads : ~Makes(t, c, l)
    BY <2>2 DEF Makes
  <2>5. remotes = {}
    BY <2>3, <2>4 DEF ConnsInv, HeldInv, Held
  <2> QED
    BY <2>1, <2>5
<1> QED
  BY <1>1, ConnsInit, ConnsNext, PTL DEF Spec

-----------------------------------------------------------------------------
(* A host that is a proxy has the same place in every chain, and at most   *)
(* one proxy is behind another: what the three loops of a teardown are     *)
(* made for.                                                               *)
Layered ==
    \A g, h \in Targets :
        /\ Len(Chain[g]) \leq 3
        /\ \A i \in DOMAIN Chain[g], j \in DOMAIN Chain[h] :
              i < Len(Chain[g]) /\ Chain[g][i] = Chain[h][j] =>
                  i = j /\ j < Len(Chain[h])

(* Then no target is on the way to anything.                               *)
LEMMA NothingBehindTargets ==
    ASSUME LastIsTarget, Layered, NEW a \in Targets, NEW m
    PROVE  a \notin Before(m)
<1> SUFFICES ASSUME NEW h \in Targets, NEW i \in DOMAIN Chain[h],
                    NEW j \in DOMAIN Chain[h], i < j, Chain[h][i] = a
             PROVE  FALSE
  BY DEF Before
<1>1. Chain[h] \in Seq(Names) /\ Chain[a] \in Seq(Names) /\ Chain[a] # << >>
  BY ChainAssumption
<1>2. /\ Len(Chain[a]) \in DOMAIN Chain[a] /\ Chain[a][Len(Chain[a])] = a
      /\ i < Len(Chain[h])
  BY <1>1 DEF LastIsTarget, Last
<1> QED
  BY <1>2 DEF Layered

(* And nothing that is still connected goes through what is cleaned up.    *)
LEMMA CleanedLast ==
    ASSUME Tidy, Layered, ConnsInv, NEW t \in Threads, SendCleanup(t),
           NEW q \in remotes
    PROVE  th[t].at \notin Before(q.link)
<1>1. PICK a, m : a = th[t].at /\ m = q.link
  OBVIOUS
<1>2. /\ Reapers = {} /\ LastIsTarget /\ OpsAll /\ TypeInv /\ ThreadsOK
      /\ LocalOK(t, th[t]) /\ Role(t, th[t])
      /\ t \in Workers => t \notin Sessions
      /\ t \in Workers \/ t \in Sessions
  BY ThreadsAssumption
     DEF Tidy, ConnsInv, WalksInv, OpsAll, OpsInv, TypeInv, ThreadsOK, Threads
<1>3. /\ th[t].pc = "cleanup" /\ ConnExists(a) /\ a \in Names /\ m \in Names
      /\ a \in GetConnKeys
  BY <1>1, <1>2, CleanupFields DEF ConnsInv, CountsInv, Counted, LocalOK, AboutHost,
     Pcs, TypeInv, TablesOK, Remote, GetConnKeys
<1>4. CASE a \in Targets
  BY <1>1, <1>2, <1>4, NothingBehindTargets
<1>5. CASE t \in Workers
  BY <1>1, <1>3, <1>4, <1>5 DEF ConnsInv, WalksInv, TargetsInv
<1>6. CASE t \in Sessions
  <2>1. /\ th[t].op \in Ending /\ TearAt(th[t])
    BY <1>2, <1>3, <1>6 DEF Role, ConnsInv, TearInv
  <2>2. /\ th[t].stage \in 1..3 /\ About(Plan[th[t].op][th[t].stage], conn[a])
    BY <1>1, <1>3, <2>1 DEF TearAt
  <2>3. CASE th[t].stage = 1
    <3>1. ~conn[a].isProxy
      BY <2>1, <2>2, <2>3, EndingPlan DEF About
    <3> QED
      BY <1>3, <1>4, <3>1 DEF ConnsInv, WalksInv, TargetsInv
  <2>4. ASSUME th[t].stage >= 2, a \in Before(m) PROVE FALSE
    <3>1. \A u \in Threads : th[u].pc \in {"idle", "cleanup"}
      BY <1>2, <1>3, <1>6, <2>1, TearsAlone
    <3>2. m \in GetConnKeys
      BY <1>1, <1>3, <3>1 DEF ConnsInv, HeldInv, Held, Makes, GetConnKeys
    <3>3. conn[m].isProxy
      BY <2>1, <2>4, <3>2 DEF TearAt
    <3>4. PICK h \in Targets : \E i, j \in DOMAIN Chain[h] :
             i < j /\ Chain[h][i] = a /\ Chain[h][j] = m
      BY <2>4 DEF Before
    <3>5. PICK i \in DOMAIN Chain[h], j \in DOMAIN Chain[h] :
             i < j /\ Chain[h][i] = a /\ Chain[h][j] = m
      BY <3>4
    <3>6. PICK g \in Targets : \E k \in DOMAIN Chain[g] :
             k < Len(Chain[g]) /\ Chain[g][k] = m
      BY <3>2, <3>3 DEF ConnsInv, RolesInv
    <3>7. j < Len(Chain[h])
      BY <3>5, <3>6 DEF Layered
    <3>8. Chain[h] \in Seq(Names) /\ Len(Chain[h]) \leq 3
      BY ChainAssumption DEF Layered
    <3>9. i \in Nat \ {0} /\ j \in Nat /\ i < Len(Chain[h]) /\ j \leq 2 /\ i = 1
      BY <3>5, <3>7, <3>8
    <3>10. CASE th[t].stage = 2
      <4>1. ~conn[a].isDirect
        BY <2>1, <2>2, <3>10, EndingPlan DEF About
      <4>2. PICK f \in Targets : \E k \in DOMAIN Chain[f] : k > 1 /\ Chain[f][k] = a
        BY <1>3, <4>1 DEF ConnsInv, RolesInv
      <4>3. PICK k \in DOMAIN Chain[f] : k > 1 /\ Chain[f][k] = a
        BY <4>2
      <4>4. i = k
        BY <3>5, <3>9, <4>3 DEF Layered
      <4> QED
        BY <3>9, <4>3, <4>4
    <3>11. CASE th[t].stage = 3
      <4>1. conn[m].isDirect
        BY <2>1, <3>2, <3>11 DEF TearAt
      <4>2. PICK f \in Targets : Chain[f][1] = m
        BY <3>2, <4>1 DEF ConnsInv, LinksInv
      <4>3. 1 \in DOMAIN Chain[f]
        BY ChainAssumption
      <4>4. j = 1
        BY <3>5, <3>7, <4>2, <4>3 DEF Layered
      <4> QED
        BY <3>5, <3>9, <4>4
    <3> QED
      BY <2>2, <2>4, <3>10, <3>11
  <2> QED
    BY <1>1, <2>2, <2>3, <2>4
<1> QED
  BY <1>2, <1>5, <1>6

(* connect.go:78, 96 and 115, the non-proxies first, then the indirect     *)
(* proxies, then the direct ones: no connection is closed under another    *)
(* that is tunnelled through it, by a command that takes everything down   *)
(* or by clean, if in addition the hosts that are proxies are layered as   *)
(* those loops suppose.                                                    *)
THEOREM TunnelsCloseFirstCorrect ==
    ASSUME Tidy, Layered
    PROVE  Spec => TunnelsCloseFirst
<1> DEFINE Kept == \A r \in remotes : Client(r) \in {Client(q) : q \in remotes'}
           Closed == \A r \in remotes :
                        Client(r) \notin {Client(q) : q \in remotes'} =>
                            \A q \in remotes' : r.link \notin Before(q.link)
<1>1. Kept => Closed
  OBVIOUS
<1>2. ASSUME ConnsInv, [Next]_allVars PROVE Closed
  <2>0. Reapers = {} /\ Reliable /\ OpsAll /\ TypeInv /\ HeldInv
    BY <1>2 DEF Tidy, ConnsInv, WalksInv, OpsAll
  <2>1. CASE Asks
    BY <1>1, <2>0, <2>1, AsksRemotes DEF Client
  <2>2. ASSUME NEW s \in Sessions, NEW op \in DOMAIN Plan, Start(s, op) PROVE Closed
    BY <1>1, <2>2 DEF Start
  <2>3. ASSUME NEW t \in Threads, ThreadStep(t) PROVE Closed
    <3>1. CASE SendCleanup(t)
      <4>1. PICK p \in Listening(th[t].chan) : Cleanup(p)
        BY <2>0, <3>1, CleanupFields DEF TypeInv
      <4>2. p \in remotes /\ p.chan = th[t].chan
            /\ (remotes' = remotes \/ remotes' = remotes \ {p})
        BY <4>1 DEF Listening, Cleanup, Panic
      <4>3. p.link = th[t].at
        <5>1. th[t].pc = "cleanup"
          BY <2>0, <3>1, CleanupFields DEF TypeInv
        <5>2. /\ th[t].chan \in Channels /\ th[t].at \in Names
              /\ Held(th[t].chan, th[t].at)
          BY <1>2, <2>0, <5>1, EngagedType DEF Engaged, Subject, ConnsInv
        <5>3. p.link \in Names /\ Held(p.chan, p.link)
          BY <2>0, <4>2 DEF TypeInv, TablesOK, Remote, HeldInv
        <5> QED
          BY <2>0, <4>2, <5>2, <5>3 DEF HeldInv
      <4> QED
        BY <1>2, <3>1, <4>2, <4>3, CleanedLast
    <3>2. CASE \/ Aside \/ Opens(t) \/ Joins(t) \/ Registers(t) \/ Closes(t)
               \/ Claims(t) \/ CleanupDone(t)
      <4>1. \A r \in remotes : r \in remotes'
        BY <3>2 DEF Aside, Opens, Joins, Registers, ListsAs, Closes, Claims,
           CleanupDone, Spawn
      <4> QED
        BY <1>1, <4>1
    <3> QED
      BY <2>0, <2>3, <3>1, <3>2, ChannelSteps
  <2> QED
    BY <1>2, <2>0, <2>1, <2>2, <2>3, StepKinds
<1> QED
  BY <1>2, ConnsInit, ConnsNext, PTL DEF Spec, TunnelsCloseFirst

=============================================================================

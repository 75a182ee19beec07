------------------------- MODULE ConnectionsProofs -------------------------
(***************************************************************************)
(* Theorems about Connections, for any hosts, chains, sessions, reapers    *)
(* and number of commands: the types, and, when one connection is made to  *)
(* each host, ListedConnIsServed.                                          *)
(*                                                                         *)
(* LocalOK is what one goroutine knows by its program counter.  ServedInv  *)
(* says that listed channels are distinct, that a channel somebody is      *)
(* about to register is nobody else's and has its remoteHost, that a       *)
(* cleanup is for the host its channel is listed for, and that a worker    *)
(* at work is not started again.                                           *)
(***************************************************************************)
EXTENDS Connections, TLAPS

Pcs == {"idle", "keys", "loop", "wait", "skipConnected", "acquire",
        "hostExists", "getHostInfo", "setHostInfo", "deleteHost",
        "connExists", "getConnInfo", "cleanup", "setStatus", "sendRun",
        "awaitRun", "link", "dialing", "proxyExists", "getProxy", "ask",
        "awaitClient", "countProxy", "register"}
(* Where a goroutine may hold a channel, walks along a chain, and talks to *)
(* a proxy; and where it is about some host.                               *)
Holding == {"dialing", "register", "ask", "cleanup", "sendRun"}
ThroughProxy == {"proxyExists", "getProxy", "ask", "awaitClient",
                 "countProxy", "register"}
Resolving == ThroughProxy \cup {"link", "dialing"}
AboutHost == Pcs \ {"idle", "keys", "loop", "wait"}

ThreadState ==
    [pc : Pcs, op : DOMAIN Plan \cup {"none", "reap"}, stage : Nat,
     at : Names \cup {NoInfo}, todo : SUBSET Names, seen : SUBSET Seq(Names),
     idx : Nat, chan : Channels \cup {NoChan},
     dialing : SUBSET Ids, dialed : SUBSET Ids, ok : BOOLEAN,
     left : 0..BastionConns \cup {1}]

WayOf(t, h) == IF t \in Sessions THEN Front(Chain[h]) ELSE Chain[h]

(* What a goroutine t in state r knows of the host it is about, of its     *)
(* position in the chain, and of its command.                              *)
LocalOK(t, r) ==
    /\ r.chan # NoChan => r.pc \in Holding
    /\ r.pc \in {"register", "dialing"} => r.chan # NoChan
    /\ r.pc \in AboutHost => r.at \in Names
    /\ r.pc = "setHostInfo" => r.at \in Targets
    /\ r.pc \in Resolving => r.at \in Targets /\ r.idx \in 1..Len(WayOf(t, r.at))
    /\ r.pc \in ThroughProxy => r.idx > 1
    /\ t \in Sessions /\ r.pc # "idle" =>
          /\ r.op \in DOMAIN Plan /\ r.stage \in 1..Len(Plan[r.op])
          /\ Plan[r.op][r.stage] = "target" =>
                r.todo \subseteq Targets
                /\ (r.pc = "hostExists" => r.at \in Targets)
          /\ r.pc \in {"skipConnected", "acquire"} =>
                Plan[r.op][r.stage] \in {"connect", "run"}

ThreadsOK ==
    th \in [Threads -> ThreadState] /\ \A t \in Threads : LocalOK(t, th[t])

ConnType == [chan : Channels, isProxy : BOOLEAN, isDirect : BOOLEAN]

(* Only targets are in the map of hosts, and listed channels are channels. *)
TablesOK ==
    /\ targets \in [Names -> HostInfo \cup {NoInfo}]
    /\ \A h \in Names : HostExists(h) => h \in Targets
    /\ conn \in [Names -> ConnType \cup {NoInfo}]
    /\ up \in {"running", "exited", "panicked"}
    /\ remotes \subseteq Remote

TypeInv == ThreadsOK /\ TablesOK /\ ops \in 0..MaxOps

-----------------------------------------------------------------------------
(* The plans: what starts workers is the last loop of its command.         *)
LEMMA PlanFacts ==
    /\ DOMAIN Plan = {"connect", "run", "clean", "target", "disco", "clear",
                      "exit"}
    /\ \A op \in DOMAIN Plan :
          /\ Len(Plan[op]) \in 1..3
          /\ \A i \in 1..Len(Plan[op]) :
                Plan[op][i] \in {"connect", "run", "clean"} => i = Len(Plan[op])
<1>1. DOMAIN Plan = {"connect", "run", "clean", "target", "disco", "clear",
                     "exit"}
  BY DEF Plan
<1>2. ASSUME NEW op \in DOMAIN Plan
      PROVE  /\ Len(Plan[op]) \in 1..3
             /\ \A i \in 1..Len(Plan[op]) :
                   Plan[op][i] \in {"connect", "run", "clean"} => i = Len(Plan[op])
  <2>1. CASE op = "connect"
    BY <2>1 DEF Plan
  <2>2. CASE op \in {"run", "clean", "target"}
    BY <2>2 DEF Plan
  <2>3. CASE op \in {"disco", "clear", "exit"}
    BY <2>3 DEF Plan
  <2> QED
    BY <1>1, <2>1, <2>2, <2>3
<1> QED
  BY <1>1, <1>2

(* The way to a target is made of names.                                   *)
LEMMA WayType ==
    ASSUME NEW t, NEW h \in Targets
    PROVE  /\ WayOf(t, h) \in Seq(Names) /\ Len(WayOf(t, h)) \in Nat
           /\ t \notin Sessions => Len(WayOf(t, h)) > 0
           /\ \A i \in 1..Len(WayOf(t, h)) : WayOf(t, h)[i] \in Names
<1>1. Chain[h] \in Seq(Names) /\ Len(Chain[h]) \in Nat /\ Len(Chain[h]) > 0
  BY ChainAssumption
<1>2. Front(Chain[h]) \in Seq(Names)
  BY <1>1 DEF Front
<1>3. WayOf(t, h) \in Seq(Names) /\ (t \notin Sessions => Len(WayOf(t, h)) > 0)
  BY <1>1, <1>2 DEF WayOf
<1> QED
  BY <1>3

(* A goroutine at rest knows nothing.                                      *)
LEMMA IdleType == Idle \in ThreadState /\ \A t \in Threads : LocalOK(t, Idle)
<1>1. BastionConns \in Nat
  BY BastionConnsAssumption
<1>2. Idle \in ThreadState
  BY <1>1 DEF Idle, ThreadState, Pcs
<1>3. \A t \in Threads : LocalOK(t, Idle)
  BY DEF Idle, LocalOK, Holding, AboutHost, Resolving, ThroughProxy
<1> QED
  BY <1>2, <1>3

(* A step of one goroutine is looked at for it alone,                      *)
LEMMA OneMoves ==
    ASSUME ThreadsOK, NEW t \in Threads, th' \in [Threads -> ThreadState],
           \A u \in Threads \ {t} : th'[u] = th[u], LocalOK(t, th'[t])
    PROVE  ThreadsOK'
<1>1. ASSUME NEW u \in Threads PROVE LocalOK(u, th'[u])
  BY DEF ThreadsOK
<1> QED
  BY <1>1 DEF ThreadsOK

(* and one of a session that starts a worker for the two.                  *)
LEMMA TwoMove ==
    ASSUME ThreadsOK, NEW t \in Threads, NEW w \in Threads,
           th' \in [Threads -> ThreadState],
           \A u \in Threads \ {t, w} : th'[u] = th[u],
           LocalOK(t, th'[t]), LocalOK(w, th'[w])
    PROVE  ThreadsOK'
<1>1. ASSUME NEW u \in Threads PROVE LocalOK(u, th'[u])
  BY DEF ThreadsOK
<1> QED
  BY <1>1 DEF ThreadsOK

(* Everything but the program counter.                                     *)
KeepsLoop(r, q) ==
    r.at = q.at /\ r.op = q.op /\ r.stage = q.stage /\ r.todo = q.todo
KeepsDials(r, q) == r.dialing = q.dialing /\ r.dialed = q.dialed

(* A goroutine that goes on to p.                                          *)
LEMMA GoesOn ==
    ASSUME ThreadsOK, NEW t \in Threads, NEW p \in Pcs, Goto(t, p)
    PROVE  /\ th' \in [Threads -> ThreadState]
           /\ \A u \in Threads \ {t} : th'[u] = th[u]
           /\ th'[t].pc = p /\ KeepsLoop(th'[t], th[t])
           /\ KeepsDials(th'[t], th[t])
           /\ th'[t].idx = th[t].idx /\ th'[t].chan = th[t].chan
           /\ th'[t].left = th[t].left
<1> DEFINE r == [th[t] EXCEPT !.pc = p]
<1>1. th \in [Threads -> ThreadState]
  BY DEF ThreadsOK
<1>2. th[t] \in ThreadState
  BY <1>1
<1>3. /\ r \in ThreadState /\ r.pc = p /\ KeepsLoop(r, th[t])
      /\ KeepsDials(r, th[t])
      /\ r.idx = th[t].idx /\ r.chan = th[t].chan /\ r.left = th[t].left
  BY <1>2 DEF ThreadState, KeepsLoop, KeepsDials
<1>4. th' = [th EXCEPT ![t] = r]
  BY <1>1 DEF Goto
<1> HIDE DEF r
<1> QED
  BY <1>1, <1>3, <1>4

(* A goroutine that becomes r.                                             *)
LEMMA Becomes ==
    ASSUME ThreadsOK, NEW t \in Threads, NEW r \in ThreadState, Become(t, r)
    PROVE  /\ th' \in [Threads -> ThreadState] /\ th'[t] = r
           /\ \A u \in Threads \ {t} : th'[u] = th[u]
BY DEF ThreadsOK, Become

-----------------------------------------------------------------------------
(* The steps of a session's loops keep what is known of it.                *)
LEMMA LoopTypes ==
    ASSUME ThreadsOK, TablesOK, NEW s \in Sessions,
           \/ \E op \in DOMAIN Plan : Start(s, op)
           \/ TakeKeys(s) \/ Pick(s) \/ EndLoop(s) \/ SkipConnected(s)
           \/ LoadHost(s) \/ ProxiesResolve(s)
    PROVE  ThreadsOK'
<1> DEFINE q == th[s]
<1>0. /\ s \in Threads /\ th \in [Threads -> ThreadState] /\ q \in ThreadState
      /\ LocalOK(s, q)
  BY DEF Threads, ThreadsOK
<1> SUFFICES /\ th' \in [Threads -> ThreadState]
             /\ \A u \in Threads \ {s} : th'[u] = th[u]
             /\ LocalOK(s, th'[s])
  BY <1>0, OneMoves
<1> USE DEF Holding, ThroughProxy, Resolving, AboutHost
<1>1. ASSUME NEW op \in DOMAIN Plan, Start(s, op)
      PROVE  /\ th' \in [Threads -> ThreadState]
             /\ \A u \in Threads \ {s} : th'[u] = th[u]
             /\ LocalOK(s, th'[s])
  <2> DEFINE r == [Idle EXCEPT !.pc = "keys", !.op = op, !.stage = 1]
  <2>1. r \in ThreadState
    BY IdleType DEF ThreadState, Pcs
  <2>2. r.pc = "keys" /\ r.op = op /\ r.stage = 1 /\ r.todo = {} /\ r.chan = NoChan
    BY DEF Idle
  <2>3. Become(s, r)
    BY <1>1 DEF Start
  <2> HIDE DEF r
  <2>4. r.op \in DOMAIN Plan /\ r.stage \in 1..Len(Plan[r.op])
    <3>1. Len(Plan[op]) \in 1..3
      BY PlanFacts
    <3>2. 1 \in 1..Len(Plan[op])
      BY <3>1
    <3> QED
      BY <2>2, <3>2
  <2>5. LocalOK(s, r)
    BY <2>2, <2>4 DEF LocalOK
  <2> QED
    BY <1>0, <2>1, <2>3, <2>5, Becomes
<1>2. CASE TakeKeys(s)
  <2>1. PICK todo \in SUBSET Names :
           /\ th' = [th EXCEPT ![s].pc = "loop", ![s].todo = todo]
           /\ Stage(s) = "target" => todo = Targets
    <3> DEFINE keys == CASE Stage(s) = "target" -> Targets
                         [] Stage(s) \in Teardown \cup {"run"} -> GetConnKeys
                         [] OTHER -> GetHostKeys
    <3>1. keys \in SUBSET Names /\ (Stage(s) = "target" => keys = Targets)
      BY TargetsAssumption DEF GetConnKeys, GetHostKeys, Teardown
    <3> QED
      BY <1>2, <3>1 DEF TakeKeys
  <2> DEFINE r == [[q EXCEPT !.pc = "loop"] EXCEPT !.todo = todo]
  <2>2. /\ r \in ThreadState /\ r.pc = "loop" /\ r.todo = todo /\ r.op = q.op
        /\ r.stage = q.stage /\ r.chan = q.chan
    BY <1>0 DEF ThreadState, Pcs
  <2>3. th' = [th EXCEPT ![s] = r]
    BY <1>0, <2>1
  <2>4. q.pc = "keys"
    BY <1>2 DEF TakeKeys, At
  <2> HIDE DEF r
  <2>5. LocalOK(s, r)
    BY <1>0, <2>1, <2>2, <2>4 DEF LocalOK, Stage
  <2> QED
    BY <1>0, <2>2, <2>3, <2>5
<1>3. CASE Pick(s)
  <2>1. PICK x \in q.todo, p \in {"skipConnected", "connExists", "hostExists"} :
           /\ th' = [th EXCEPT ![s].at = x, ![s].todo = @ \ {x}, ![s].pc = p]
           /\ p = "skipConnected" => Stage(s) = "connect"
    <3> DEFINE p(y) == CASE Stage(s) = "connect" -> "skipConnected"
                         [] Stage(s) \in Teardown \cup {"run"} -> "connExists"
                         [] OTHER -> "hostExists"
    <3>1. PICK x \in q.todo :
             th' = [th EXCEPT ![s].at = x, ![s].todo = @ \ {x}, ![s].pc = p(x)]
      BY <1>3 DEF Pick
    <3>2. /\ p(x) \in {"skipConnected", "connExists", "hostExists"}
          /\ p(x) = "skipConnected" => Stage(s) = "connect"
      OBVIOUS
    <3> QED
      BY <3>1, <3>2
  <2> DEFINE r == [[[q EXCEPT !.at = x] EXCEPT !.todo = @ \ {x}] EXCEPT !.pc = p]
  <2>2. /\ r \in ThreadState /\ r.pc = p /\ r.at = x /\ r.todo \subseteq q.todo
        /\ r.op = q.op /\ r.stage = q.stage /\ r.chan = q.chan /\ x \in Names
    BY <1>0, <2>1 DEF ThreadState, Pcs
  <2>3. th' = [th EXCEPT ![s] = r]
    BY <1>0, <2>1
  <2>4. q.pc = "loop"
    BY <1>3 DEF Pick, At
  <2> HIDE DEF r
  <2>5. LocalOK(s, r)
    BY <1>0, <2>1, <2>2, <2>4 DEF LocalOK, Stage
  <2> QED
    BY <1>0, <2>2, <2>3, <2>5
<1>4. CASE EndLoop(s)
  <2> DEFINE more == q.stage < Len(Plan[q.op])
             r == [Idle EXCEPT !.op = q.op, !.pc = IF more THEN "keys" ELSE "wait",
                      !.stage = IF more THEN q.stage + 1 ELSE q.stage]
  <2>1. /\ Become(s, r) /\ q.pc = "loop"
    BY <1>4 DEF EndLoop, At
  <2>2. q.op \in DOMAIN Plan /\ q.stage \in 1..Len(Plan[q.op])
    BY <1>0, <2>1 DEF LocalOK
  <2>3. Len(Plan[q.op]) \in Nat
    BY <2>2, PlanFacts
  <2>4. /\ r.op = q.op /\ r.pc \in {"keys", "wait"} /\ r.todo = {} /\ r.chan = NoChan
        /\ r.stage = IF more THEN q.stage + 1 ELSE q.stage
    BY DEF Idle
  <2>5. r \in ThreadState
    <3>1. \A p \in Pcs, n \in Nat : [Idle EXCEPT !.op = q.op, !.pc = p, !.stage = n]
                                       \in ThreadState
      BY <2>2, IdleType DEF ThreadState
    <3>2. (IF more THEN "keys" ELSE "wait") \in Pcs
      BY DEF Pcs
    <3>3. (IF more THEN q.stage + 1 ELSE q.stage) \in Nat
      BY <2>2, <2>3
    <3> QED
      BY <3>1, <3>2, <3>3
  <2>6. r.stage \in 1..Len(Plan[q.op])
    BY <2>2, <2>3, <2>4
  <2> HIDE DEF r, more
  <2>7. LocalOK(s, r)
    BY <2>2, <2>4, <2>6 DEF LocalOK
  <2> QED
    BY <1>0, <2>1, <2>5, <2>7, Becomes
<1>5. CASE SkipConnected(s)
  <2>1. PICK p \in {"loop", "acquire"} : Goto(s, p)
    BY <1>5 DEF SkipConnected
  <2>2. q.pc = "skipConnected"
    BY <1>5 DEF SkipConnected, At
  <2>3. p \in Pcs
    BY DEF Pcs
  <2>4. LocalOK(s, th'[s])
    BY <1>0, <2>1, <2>2, <2>3, GoesOn DEF LocalOK, KeepsLoop, Pcs
  <2> QED
    BY <1>0, <2>1, <2>3, <2>4, GoesOn
<1>6. CASE LoadHost(s)
  <2>1. Goto(s, "loop") /\ q.pc = "setHostInfo" /\ "loop" \in Pcs
    BY <1>6 DEF LoadHost, At, Pcs
  <2>2. LocalOK(s, th'[s])
    BY <1>0, <2>1, GoesOn DEF LocalOK, KeepsLoop, Pcs
  <2> QED
    BY <1>0, <2>1, <2>2, GoesOn
<1>7. CASE ProxiesResolve(s)
  <2> DEFINE chain == Front(Chain[q.at])
             r == [Begin(q) EXCEPT !.seen = @ \cup {chain}]
  <2>1. /\ q.pc = "getHostInfo" /\ HostExists(q.at)
        /\ Stage(s) = "proxies"
        /\ Goto(s, "loop") \/ (Len(chain) # 0 /\ Become(s, r))
    BY <1>7 DEF ProxiesResolve, At
  <2>2. q.at \in Targets
    BY <1>0, <2>1 DEF LocalOK, TablesOK, Pcs
  <2>3. CASE Goto(s, "loop")
    <3>1. "loop" \in Pcs
      BY DEF Pcs
    <3>2. LocalOK(s, th'[s])
      BY <1>0, <2>1, <2>3, <3>1, GoesOn DEF LocalOK, KeepsLoop, Pcs
    <3> QED
      BY <1>0, <2>3, <3>1, <3>2, GoesOn
  <2>4. CASE Len(chain) # 0 /\ Become(s, r)
    <3>1. chain = WayOf(s, q.at) /\ chain \in Seq(Names) /\ Len(chain) \in Nat
      BY <2>2, WayType DEF WayOf
    <3>2. /\ r.pc = "link" /\ r.at = q.at /\ r.idx = 1 /\ r.op = q.op
          /\ r.stage = q.stage /\ r.todo = q.todo /\ r.chan = q.chan
          /\ r \in ThreadState
      BY <1>0, <3>1 DEF Begin, ThreadState, Pcs
    <3> HIDE DEF r, chain
    <3>3. q.chan = NoChan
      BY <1>0, <2>1 DEF LocalOK
    <3>4. 1 \in 1..Len(WayOf(s, q.at))
      BY <2>4, <3>1
    <3>5. LocalOK(s, r)
      BY <1>0, <2>1, <2>2, <3>2, <3>3, <3>4 DEF LocalOK, Stage, Pcs
    <3> QED
      BY <1>0, <2>4, <3>2, <3>5, Becomes
  <2> QED
    BY <2>1, <2>3, <2>4
<1> QED
  BY <1>1, <1>2, <1>3, <1>4, <1>5, <1>6, <1>7

(* A goroutine that was not at rest and goes on to p, about the same host, *)
(* is still all right if p is no place where it would hold a channel, walk *)
(* along a chain, or need to have looked at its loop.                      *)
LEMMA GoesOnOK ==
    ASSUME ThreadsOK, NEW t \in Threads, NEW p \in Pcs, Goto(t, p),
           th[t].pc \notin Holding \cup {"idle"},
           p \notin Holding \cup Resolving
                       \cup {"idle", "skipConnected", "acquire", "hostExists"},
           p \in AboutHost => th[t].pc \in AboutHost,
           p = "setHostInfo" => th[t].at \in Targets
    PROVE  ThreadsOK'
<1>1. LocalOK(t, th[t])
  BY DEF ThreadsOK
<1>2. LocalOK(t, th'[t])
  BY <1>1, GoesOn DEF LocalOK, KeepsLoop, Holding, Resolving
<1> QED
  BY <1>2, GoesOn, OneMoves

(* A goroutine that comes to rest is all right.                            *)
LEMMA RestsOK ==
    ASSUME ThreadsOK, NEW t \in Threads, Become(t, Idle)
    PROVE  ThreadsOK'
BY IdleType, Becomes, OneMoves

(* A session that has nothing to do but start a worker starts it.          *)
LEMMA StartsOK ==
    ASSUME ThreadsOK, NEW s \in Sessions, th[s].at \in Names,
           th[s].pc \notin Holding \cup {"idle"},
           NEW op \in DOMAIN Plan, NEW p \in {"hostExists", "connExists", "deleteHost"},
           th' = [th EXCEPT ![s].pc = "loop",
                            ![<<s, th[s].at>>] = [Idle EXCEPT !.op = op,
                                                  !.at = th[s].at, !.pc = p]]
    PROVE  /\ ThreadsOK'
           /\ \A u \in Threads \ {s, <<s, th[s].at>>} : th'[u] = th[u]
           /\ th'[s].pc = "loop" /\ KeepsLoop(th'[s], th[s])
           /\ th'[<<s, th[s].at>>].pc = p
           /\ th'[s].chan = NoChan /\ th'[<<s, th[s].at>>].chan = NoChan
           /\ KeepsDials(th'[s], th[s]) /\ KeepsDials(th'[<<s, th[s].at>>], Idle)
<1> DEFINE q == th[s]
           w == <<s, q.at>>
           r == [q EXCEPT !.pc = "loop"]
           v == [Idle EXCEPT !.op = op, !.at = q.at, !.pc = p]
<1>0. /\ s \in Threads /\ th \in [Threads -> ThreadState] /\ q \in ThreadState
      /\ LocalOK(s, q) /\ w \in Threads /\ w \notin Sessions
  BY ThreadsAssumption DEF Threads, Workers, ThreadsOK
<1>1. s # w
  BY <1>0
<1>2. /\ r \in ThreadState /\ r.pc = "loop" /\ KeepsLoop(r, q) /\ r.chan = q.chan
      /\ KeepsDials(r, q)
  BY <1>0 DEF ThreadState, KeepsLoop, KeepsDials, Pcs
<1>3. v \in ThreadState /\ v.pc = p /\ v.at = q.at /\ v.chan = NoChan
      /\ KeepsDials(v, Idle)
  <2>1. v \in ThreadState
    BY IdleType DEF ThreadState, Pcs
  <2> QED
    BY <2>1 DEF Idle, KeepsDials
<1>4. th' = [[th EXCEPT ![s] = r] EXCEPT ![w] = v]
  BY <1>0, <1>1
<1>5. q.chan = NoChan
  BY <1>0 DEF LocalOK
<1> HIDE DEF r, v, w
<1>6. LocalOK(s, r)
  BY <1>0, <1>2, <1>5 DEF LocalOK, KeepsLoop, Holding, Resolving, ThroughProxy,
                          AboutHost
<1>7. LocalOK(w, v)
  BY <1>0, <1>3 DEF LocalOK, Holding, Resolving, ThroughProxy, AboutHost
<1>8. /\ th' \in [Threads -> ThreadState] /\ th'[s] = r /\ th'[w] = v
      /\ \A u \in Threads \ {s, w} : th'[u] = th[u]
  <2> DEFINE f == [th EXCEPT ![s] = r]
  <2>1. /\ f \in [Threads -> ThreadState] /\ f[s] = r
        /\ \A u \in Threads \ {s} : f[u] = th[u]
    BY <1>0, <1>2
  <2>2. th' = [f EXCEPT ![w] = v]
    BY <1>4
  <2> HIDE DEF f
  <2> QED
    BY <1>0, <1>1, <1>3, <2>1, <2>2
<1>9. ThreadsOK'
  <2>1. LocalOK(s, th'[s]) /\ LocalOK(w, th'[w])
    BY <1>6, <1>7, <1>8
  <2> QED
    BY <1>0, <1>8, <2>1, TwoMove
<1> QED
  BY <1>2, <1>3, <1>5, <1>8, <1>9 DEF w

(* So do the steps with which sessions start workers, and end.             *)
LEMMA StartingTypes ==
    ASSUME ThreadsOK, TablesOK, NEW s \in Sessions,
           Acquire(s) \/ CleanHost(s) \/ Finish(s)
    PROVE  ThreadsOK'
<1> DEFINE q == th[s]
<1>0. s \in Threads /\ q \in ThreadState /\ LocalOK(s, q)
  BY DEF Threads, ThreadsOK
<1>1. CASE Finish(s)
  BY <1>0, <1>1, RestsOK DEF Finish
<1>2. CASE Acquire(s)
  <2>1. q.pc = "acquire" /\ q.at \in Names /\ q.op \in DOMAIN Plan
    BY <1>0, <1>2 DEF Acquire, At, LocalOK, AboutHost, Pcs
  <2>2. (IF q.op = "connect" THEN "hostExists" ELSE "connExists")
           \in {"hostExists", "connExists", "deleteHost"}
    OBVIOUS
  <2> QED
    BY <1>2, <2>1, <2>2, StartsOK DEF Acquire, Holding
<1>3. CASE CleanHost(s)
  <2>1. /\ q.pc = "getHostInfo" /\ q.at \in Names
        /\ "clean" \in DOMAIN Plan /\ "loop" \in Pcs
    BY <1>0, <1>3, PlanFacts DEF CleanHost, At, LocalOK, AboutHost, Pcs
  <2>2. (IF targets[q.at].connectedOK THEN "connExists" ELSE "deleteHost")
           \in {"hostExists", "connExists", "deleteHost"}
    OBVIOUS
  <2>3. CASE Goto(s, "loop")
    BY <1>0, <2>1, <2>3, GoesOnOK
       DEF Holding, Resolving, ThroughProxy, AboutHost
  <2> QED
    BY <1>3, <2>1, <2>2, <2>3, StartsOK DEF CleanHost, Holding
<1> QED
  BY <1>1, <1>2, <1>3

(* The steps about one host that sessions, workers and reapers share.      *)
LEMMA CommonTypes ==
    ASSUME ThreadsOK, TablesOK, NEW t \in Threads,
           \/ AskHostExists(t) \/ HostGone(t) \/ AskConnExists(t) \/ ConnGone(t)
           \/ DeleteHost(t) \/ (t \in Workers /\ SetStatus(t))
           \/ \E ok \in BOOLEAN : RunAnswered(t, ok)
    PROVE  ThreadsOK'
<1> DEFINE q == th[t]
<1>0. q \in ThreadState /\ LocalOK(t, q)
  BY DEF ThreadsOK
<1>1. th' = th => ThreadsOK'
  BY DEF ThreadsOK
<1> USE DEF Holding, Resolving, ThroughProxy, AboutHost, Pcs
<1>2. CASE AskHostExists(t)
  <2>1. q.pc = "hostExists"
    BY <1>2 DEF AskHostExists, At
  <2>2. t \in Sessions /\ Stage(t) = "target" => q.at \in Targets
    BY <1>0, <2>1 DEF LocalOK, Stage
  <2>3. \/ Goto(t, "loop") \/ Goto(t, "getHostInfo") \/ Become(t, Idle) \/ th' = th
        \/ t \in Sessions /\ Stage(t) = "target" /\ Goto(t, "setHostInfo")
    BY <1>2 DEF AskHostExists
  <2> QED
    BY <1>1, <2>1, <2>2, <2>3, GoesOnOK, RestsOK
<1>3. CASE HostGone(t) \/ ConnGone(t)
  BY <1>1, <1>3 DEF HostGone, ConnGone
<1>4. CASE AskConnExists(t)
  <2>1. q.pc = "connExists"
    BY <1>4 DEF AskConnExists, At
  <2>2. \/ Goto(t, "loop") \/ Goto(t, "getConnInfo") \/ Goto(t, "deleteHost")
        \/ Become(t, Idle)
    BY <1>4 DEF AskConnExists
  <2> QED
    BY <2>1, <2>2, GoesOnOK, RestsOK
<1>5. CASE DeleteHost(t) \/ \E ok \in BOOLEAN : RunAnswered(t, ok)
  BY <1>5, RestsOK DEF DeleteHost, RunAnswered
<1>6. CASE t \in Workers /\ SetStatus(t)
  <2>1. q.pc = "setStatus" /\ (Goto(t, "connExists") \/ Become(t, Idle))
    BY <1>6 DEF SetStatus, At
  <2> QED
    BY <2>1, GoesOnOK, RestsOK
<1> QED
  BY <1>2, <1>3, <1>4, <1>5, <1>6

(* The steps with the connection of a host: a listed channel is taken, and *)
(* given up.                                                               *)
LEMMA ConnTypes ==
    ASSUME ThreadsOK, TablesOK, NEW t \in Threads,
           \/ (t \in Sessions /\ SessionGetsConn(t)) \/ DisconnectGetsConn(t)
           \/ RunGetsConn(t) \/ SendCleanup(t) \/ CleanupDone(t) \/ SendRun(t)
    PROVE  ThreadsOK'
<1> DEFINE q == th[t]
<1>0. /\ th \in [Threads -> ThreadState] /\ q \in ThreadState /\ LocalOK(t, q)
      /\ BastionConns \in Nat
  BY BastionConnsAssumption DEF ThreadsOK
<1> USE DEF Holding, Resolving, ThroughProxy, AboutHost, Pcs
<1>1. ASSUME NEW c \in Channels, NEW p \in {"cleanup", "sendRun"},
             NEW n \in 0..BastionConns \cup {1}, q.pc = "getConnInfo",
             \/ th' = [th EXCEPT ![t].pc = p, ![t].chan = c, ![t].left = n]
             \/ th' = [th EXCEPT ![t].pc = p, ![t].chan = c]
             \/ th' = [th EXCEPT ![t].pc = p, ![t].left = n, ![t].chan = c]
      PROVE  ThreadsOK'
  <2> DEFINE r1 == [[q EXCEPT !.pc = p] EXCEPT !.chan = c]
             r2 == [r1 EXCEPT !.left = n]
  <2>1. PICK r \in ThreadState : /\ r.pc = p /\ r.chan = c /\ KeepsLoop(r, q)
                                 /\ th' = [th EXCEPT ![t] = r]
    <3>1. r1 \in ThreadState /\ r1.pc = p /\ r1.chan = c /\ KeepsLoop(r1, q)
      BY <1>0 DEF ThreadState, KeepsLoop
    <3>2. th' = [th EXCEPT ![t] = r1] \/ th' = [th EXCEPT ![t] = r2]
      BY <1>0, <1>1
    <3>3. r2 \in ThreadState /\ r2.pc = p /\ r2.chan = c /\ KeepsLoop(r2, q)
      <4> HIDE DEF r1
      <4> QED
        BY <1>0, <3>1 DEF ThreadState, KeepsLoop
    <3> QED
      BY <3>1, <3>2, <3>3
  <2>2. LocalOK(t, r)
    BY <1>0, <1>1, <2>1 DEF LocalOK, KeepsLoop
  <2> QED
    BY <1>0, <2>1, <2>2, OneMoves
<1>2. \A l \in Names : ConnExists(l) => conn[l].chan \in Channels
  BY DEF TablesOK, ConnExists, ConnType
<1>3. CASE t \in Sessions /\ SessionGetsConn(t)
  <2>1. q.pc = "getConnInfo" /\ ConnExists(q.at) /\ q.at \in Names
    BY <1>0, <1>3 DEF SessionGetsConn, At, LocalOK
  <2>2. CASE Goto(t, "loop")
    BY <2>1, <2>2, GoesOnOK
  <2>3. CASE Stage(t) = "run" /\ Goto(t, "acquire")
    <3>1. "acquire" \in Pcs
      OBVIOUS
    <3>2. LocalOK(t, th'[t])
      BY <1>0, <2>1, <2>3, <3>1, GoesOn DEF LocalOK, KeepsLoop, Stage
    <3> QED
      BY <2>3, <3>1, <3>2, GoesOn, OneMoves
  <2>4. CASE th' = [th EXCEPT ![t].pc = "cleanup", ![t].chan = conn[q.at].chan,
                    ![t].left = IF Stage(t) = "directProxies"
                                THEN BastionConns ELSE 1]
    <3>1. (IF Stage(t) = "directProxies" THEN BastionConns ELSE 1)
             \in 0..BastionConns \cup {1}
      BY <1>0
    <3> QED
      BY <1>1, <1>2, <2>1, <2>4, <3>1
  <2> QED
    BY <1>3, <2>2, <2>3, <2>4 DEF SessionGetsConn
<1>4. CASE DisconnectGetsConn(t)
  <2>1. /\ q.pc = "getConnInfo" /\ ConnExists(q.at) /\ q.at \in Names
        /\ th' = [th EXCEPT ![t].pc = "cleanup", ![t].left = 1,
                            ![t].chan = conn[q.at].chan]
    BY <1>0, <1>4 DEF DisconnectGetsConn, At, LocalOK
  <2> QED
    BY <1>1, <1>2, <2>1
<1>5. CASE RunGetsConn(t)
  <2>1. /\ q.pc = "getConnInfo" /\ ConnExists(q.at) /\ q.at \in Names
        /\ th' = [th EXCEPT ![t].pc = "sendRun", ![t].chan = conn[q.at].chan]
    BY <1>0, <1>5 DEF RunGetsConn, At, LocalOK
  <2> QED
    BY <1>1, <1>2, <2>1
<1>6. CASE SendCleanup(t)
  <2> DEFINE r == [q EXCEPT !.left = q.left - 1]
  <2>1. th' = [th EXCEPT ![t] = r] /\ q.left > 0 /\ q.pc = "cleanup"
    BY <1>0, <1>6 DEF SendCleanup, At
  <2>2. q.left \in 0..BastionConns \cup {1}
    BY <1>0 DEF ThreadState
  <2>3. q.left - 1 \in 0..BastionConns \cup {1}
    BY <1>0, <2>1, <2>2
  <2>4. /\ r \in ThreadState /\ r.pc = q.pc /\ r.chan = q.chan /\ KeepsLoop(r, q)
        /\ r.idx = q.idx
    BY <1>0, <2>3 DEF ThreadState, KeepsLoop
  <2> HIDE DEF r
  <2>5. LocalOK(t, r)
    BY <1>0, <2>1, <2>4 DEF LocalOK, KeepsLoop
  <2> QED
    BY <1>0, <2>1, <2>4, <2>5, OneMoves
<1>7. ASSUME NEW p \in {"loop", "deleteHost", "awaitRun"},
             q.pc \in {"cleanup", "sendRun"},
             th' = [th EXCEPT ![t].pc = p, ![t].chan = NoChan]
      PROVE  ThreadsOK'
  <2> DEFINE r == [[q EXCEPT !.pc = p] EXCEPT !.chan = NoChan]
  <2>1. th' = [th EXCEPT ![t] = r]
    BY <1>0, <1>7
  <2>2. r \in ThreadState /\ r.pc = p /\ r.chan = NoChan /\ KeepsLoop(r, q)
    BY <1>0 DEF ThreadState, KeepsLoop
  <2> HIDE DEF r
  <2>3. LocalOK(t, r)
    BY <1>0, <1>7, <2>2 DEF LocalOK, KeepsLoop
  <2> QED
    BY <1>0, <2>1, <2>2, <2>3, OneMoves
<1>8. CASE CleanupDone(t)
  <2>1. /\ q.pc = "cleanup"
        /\ \/ th' = [th EXCEPT ![t].pc = "loop", ![t].chan = NoChan]
           \/ th' = [th EXCEPT ![t].pc = "deleteHost", ![t].chan = NoChan]
           \/ Become(t, Idle)
    BY <1>8 DEF CleanupDone, At
  <2> QED
    BY <1>7, <2>1, RestsOK
<1>9. CASE SendRun(t)
  BY <1>7, <1>9 DEF SendRun, At
<1> QED
  BY <1>3, <1>4, <1>5, <1>6, <1>8, <1>9

(* Where resolve goes on: the next link, the loop of resolveProxies, or    *)
(* the worker that records the outcome.                                    *)
LEMMA ReturnTypes ==
    ASSUME ThreadsOK, NEW t \in Threads, th[t].pc \in Resolving,
           NEW r \in {Continue(t), Return(t, FALSE)}
    PROVE  /\ r \in ThreadState /\ LocalOK(t, r) /\ r.chan = NoChan
           /\ r.pc \in {"link", "loop", "setStatus"} /\ KeepsLoop(r, th[t])
           /\ KeepsDials(r, th[t])
<1> DEFINE q == th[t]
           next == [[[q EXCEPT !.pc = "link"] EXCEPT !.idx = q.idx + 1]
                       EXCEPT !.chan = NoChan]
           loop == [[[q EXCEPT !.pc = "loop"] EXCEPT !.idx = 0]
                       EXCEPT !.chan = NoChan]
           done(b) == [[[[q EXCEPT !.pc = "setStatus"] EXCEPT !.idx = 0]
                           EXCEPT !.chan = NoChan] EXCEPT !.ok = b]
<1>0. q \in ThreadState /\ LocalOK(t, q)
  BY DEF ThreadsOK
<1>1. /\ q.at \in Targets /\ q.idx \in 1..Len(WayOf(t, q.at))
      /\ Way(t) = WayOf(t, q.at) /\ Len(WayOf(t, q.at)) \in Nat
  BY <1>0, WayType DEF LocalOK, Way, WayOf, AsProxy
<1> USE DEF Holding, Resolving, ThroughProxy, AboutHost, Pcs
<1>2. CASE r = next /\ q.idx < Len(WayOf(t, q.at))
  <2>1. /\ next \in ThreadState /\ next.pc = "link" /\ next.idx = q.idx + 1
        /\ next.chan = NoChan /\ KeepsLoop(next, q) /\ KeepsDials(next, q)
    <3>1. q.idx + 1 \in Nat
      BY <1>1
    <3> HIDE <1>1
    <3> QED
      BY <1>0, <3>1 DEF ThreadState, KeepsLoop, KeepsDials
  <2>2. q.idx + 1 \in 1..Len(WayOf(t, q.at))
    BY <1>1, <1>2
  <2> HIDE DEF next
  <2>3. LocalOK(t, next)
    BY <1>0, <1>1, <2>1, <2>2 DEF LocalOK, KeepsLoop
  <2> QED
    BY <1>2, <2>1, <2>3
<1>3. CASE r = loop
  <2>1. /\ loop \in ThreadState /\ loop.pc = "loop" /\ loop.chan = NoChan
        /\ KeepsLoop(loop, q) /\ KeepsDials(loop, q)
    BY <1>0 DEF ThreadState, KeepsLoop, KeepsDials
  <2> HIDE DEF loop
  <2>2. LocalOK(t, loop)
    BY <1>0, <2>1 DEF LocalOK, KeepsLoop
  <2> QED
    BY <1>3, <2>1, <2>2
<1>4. ASSUME NEW b \in BOOLEAN, r = done(b) PROVE
         /\ r \in ThreadState /\ LocalOK(t, r) /\ r.chan = NoChan
         /\ r.pc \in {"link", "loop", "setStatus"} /\ KeepsLoop(r, q)
         /\ KeepsDials(r, q)
  <2>1. /\ done(b) \in ThreadState /\ done(b).pc = "setStatus"
        /\ done(b).chan = NoChan /\ KeepsLoop(done(b), q) /\ KeepsDials(done(b), q)
    BY <1>0 DEF ThreadState, KeepsLoop, KeepsDials
  <2> HIDE DEF done
  <2>2. LocalOK(t, done(b))
    BY <1>0, <1>1, <2>1, TargetsAssumption DEF LocalOK, KeepsLoop
  <2> QED
    BY <1>4, <2>1, <2>2
<1>5. \/ r = next /\ q.idx < Len(WayOf(t, q.at))
      \/ r = loop \/ r = done(TRUE) \/ r = done(FALSE)
  BY <1>1 DEF Continue, Return
<1> QED
  BY <1>2, <1>3, <1>4, <1>5

(* The steps of resolve.                                                   *)
LEMMA ResolveTypes ==
    ASSUME ThreadsOK, TablesOK, NEW t \in Threads,
           ResolveStep(t) \/ (t \in Workers /\ WorkerResolves(t))
    PROVE  ThreadsOK'
<1> DEFINE q == th[t]
<1>0. /\ th \in [Threads -> ThreadState] /\ q \in ThreadState /\ LocalOK(t, q)
      /\ NoChan \notin Channels
  BY ChannelsAssumption DEF ThreadsOK, NoChan
<1>1. th' = th => ThreadsOK'
  BY DEF ThreadsOK
<1>2. ASSUME NEW r \in {Continue(t), Return(t, FALSE)}, q.pc \in Resolving,
             Become(t, r)
      PROVE  ThreadsOK'
  BY <1>2, ReturnTypes, Becomes, OneMoves
<1> USE DEF Holding, Resolving, ThroughProxy, AboutHost, Pcs
<1>3. ASSUME NEW p \in {"proxyExists", "getProxy", "countProxy"}, Goto(t, p),
             q.pc \in {"link", "proxyExists", "awaitClient"}, q.idx > 1
      PROVE  ThreadsOK'
  <2>1. /\ th'[t].pc = p /\ KeepsLoop(th'[t], q)
        /\ th'[t].idx = q.idx /\ th'[t].chan = q.chan
    BY <1>3, GoesOn
  <2>2. LocalOK(t, th'[t])
    BY <1>0, <1>3, <2>1 DEF LocalOK, KeepsLoop
  <2> QED
    BY <1>3, <2>2, GoesOn, OneMoves
<1>4. ASSUME NEW c \in Channels \cup {NoChan}, q.idx > 1,
             NEW p \in {"ask", "awaitClient", "register"},
             q.pc \in {"getProxy", "ask", "countProxy"},
             p = "register" => c # NoChan, p = "awaitClient" => c = NoChan,
             th' = [th EXCEPT ![t].pc = p, ![t].chan = c]
      PROVE  ThreadsOK'
  <2> DEFINE r == [[q EXCEPT !.pc = p] EXCEPT !.chan = c]
  <2>1. th' = [th EXCEPT ![t] = r]
    BY <1>0, <1>4
  <2>2. /\ r \in ThreadState /\ r.pc = p /\ r.chan = c /\ KeepsLoop(r, q)
        /\ r.idx = q.idx
    <3> DEFINE r1 == [q EXCEPT !.pc = p]
    <3>1. r1 \in ThreadState /\ KeepsLoop(r1, q) /\ r1.pc = p /\ r1.idx = q.idx
      BY <1>0 DEF ThreadState, KeepsLoop
    <3> HIDE DEF r1
    <3>2. r \in ThreadState /\ r.pc = p /\ r.chan = c /\ r.idx = q.idx
      BY <3>1 DEF ThreadState, r1
    <3>3. KeepsLoop(r, q)
      BY <1>0, <3>1, <3>2 DEF ThreadState, KeepsLoop, r1
    <3> QED
      BY <3>2, <3>3
  <2> HIDE DEF r
  <2>3. LocalOK(t, r)
    BY <1>0, <1>4, <2>2 DEF LocalOK, KeepsLoop
  <2> QED
    BY <1>0, <2>1, <2>2, <2>3, OneMoves
<1>5. ChannelLeft => FreshChan \in Channels
  BY DEF ChannelLeft, FreshChan
<1>6. CASE ExamineLink(t)
  <2>1. q.pc = "link"
    BY <1>6 DEF ExamineLink, At
  <2>2. CASE Become(t, Continue(t))
    BY <1>2, <2>1, <2>2
  <2>3. CASE q.idx > 1 /\ Goto(t, "proxyExists")
    BY <1>3, <2>1, <2>3
  <2>4. CASE /\ ChannelLeft
             /\ th' = [th EXCEPT ![t].pc = "dialing", ![t].chan = FreshChan,
                                 ![t].dialing = Ids]
    <3> DEFINE r == [[[q EXCEPT !.pc = "dialing"] EXCEPT !.chan = FreshChan]
                        EXCEPT !.dialing = Ids]
    <3>1. th' = [th EXCEPT ![t] = r]
      BY <1>0, <2>4
    <3>2. /\ r \in ThreadState /\ r.pc = "dialing" /\ r.chan = FreshChan
          /\ KeepsLoop(r, q) /\ r.idx = q.idx
      BY <1>0, <1>5, <2>4 DEF ThreadState, KeepsLoop
    <3> HIDE DEF r
    <3>3. LocalOK(t, r)
      BY <1>0, <1>5, <2>1, <2>4, <3>2 DEF LocalOK, KeepsLoop
    <3> QED
      BY <1>0, <3>1, <3>2, <3>3, OneMoves
  <2> QED
    BY <1>6, <2>2, <2>3, <2>4 DEF ExamineLink
<1>7. CASE ProxyExists(t)
  <2>1. q.pc = "proxyExists" /\ q.idx > 1
    BY <1>0, <1>7 DEF ProxyExists, At, LocalOK
  <2> QED
    BY <1>2, <1>3, <1>7, <2>1 DEF ProxyExists
<1>8. CASE GetProxy(t)
  <2>1. /\ q.pc = "getProxy" /\ q.idx > 1 /\ q.at \in Targets
        /\ q.idx \in 1..Len(WayOf(t, q.at))
    BY <1>0, <1>8 DEF GetProxy, At, LocalOK
  <2>2. q.idx - 1 \in 1..Len(WayOf(t, q.at))
    BY <2>1, WayType
  <2>3. Proxy(t) \in Names
    BY <2>1, <2>2, WayType DEF Proxy, Way, WayOf, AsProxy
  <2>4. CASE /\ ConnExists(Proxy(t))
             /\ th' = [th EXCEPT ![t].pc = "ask", ![t].chan = conn[Proxy(t)].chan]
    <3>1. conn[Proxy(t)].chan \in Channels
      BY <2>3, <2>4 DEF TablesOK, ConnExists, ConnType
    <3> QED
      BY <1>4, <2>1, <2>4, <3>1
  <2> QED
    BY <1>1, <1>8, <2>4 DEF GetProxy
<1>9. CASE AskProxy(t)
  <2>1. q.pc = "ask" /\ q.idx > 1
    BY <1>0, <1>9 DEF AskProxy, At, LocalOK
  <2> QED
    BY <1>4, <1>9, <2>1 DEF AskProxy
<1>10. CASE ProxyAnswers(t) \/ ProxyRefuses(t)
  <2>1. q.pc = "awaitClient" /\ q.idx > 1
    BY <1>0, <1>10 DEF ProxyAnswers, ProxyRefuses, At, LocalOK
  <2>2. Goto(t, "countProxy") \/ th' = th \/ Become(t, Return(t, FALSE))
    BY <1>10 DEF ProxyAnswers, ProxyRefuses
  <2> QED
    BY <1>1, <1>2, <1>3, <2>1, <2>2
<1>11. CASE CountProxy(t)
  <2>1. q.pc = "countProxy" /\ q.idx > 1
    BY <1>0, <1>11 DEF CountProxy, At, LocalOK
  <2>2. \/ th' = th
        \/ /\ ChannelLeft
           /\ th' = [th EXCEPT ![t].pc = "register", ![t].chan = FreshChan]
    BY <1>11 DEF CountProxy
  <2> QED
    BY <1>0, <1>1, <1>4, <1>5, <2>1, <2>2
<1>12. CASE Register(t) \/ DialsDone(t)
  BY <1>2, <1>12 DEF Register, DialsDone, At
<1>13. ASSUME NEW a \in SUBSET Ids, NEW b \in SUBSET Ids, q.pc = "dialing",
              \/ th' = [th EXCEPT ![t].dialing = a]
              \/ th' = [th EXCEPT ![t].dialed = b]
              \/ th' = [th EXCEPT ![t].dialing = a, ![t].dialed = b]
       PROVE  ThreadsOK'
  <2> DEFINE r1 == [q EXCEPT !.dialing = a]
             r2 == [q EXCEPT !.dialed = b]
             r3 == [r1 EXCEPT !.dialed = b]
  <2>1. /\ r1 \in ThreadState /\ r1.pc = q.pc /\ r1.idx = q.idx
        /\ r1.chan = q.chan /\ KeepsLoop(r1, q)
    BY <1>0 DEF ThreadState, KeepsLoop
  <2>2. /\ r2 \in ThreadState /\ r2.pc = q.pc /\ r2.idx = q.idx
        /\ r2.chan = q.chan /\ KeepsLoop(r2, q)
    BY <1>0 DEF ThreadState, KeepsLoop
  <2>3. /\ r3 \in ThreadState /\ r3.pc = q.pc /\ r3.idx = q.idx
        /\ r3.chan = q.chan /\ KeepsLoop(r3, q)
    BY <1>0 DEF ThreadState, KeepsLoop
  <2>4. PICK r \in {r1, r2, r3} : th' = [th EXCEPT ![t] = r]
    BY <1>0, <1>13
  <2> HIDE DEF r1, r2, r3
  <2>5. /\ r \in ThreadState /\ r.pc = "dialing" /\ r.idx = q.idx
        /\ r.chan = q.chan /\ KeepsLoop(r, q)
    BY <1>13, <2>1, <2>2, <2>3
  <2>6. LocalOK(t, r)
    BY <1>0, <1>13, <2>5 DEF LocalOK, KeepsLoop
  <2> QED
    BY <1>0, <2>4, <2>5, <2>6, OneMoves
<1>14. ASSUME NEW i \in Ids, DialSucceeds(t, i) \/ DialFails(t, i) \/ DialRegisters(t, i)
       PROVE  ThreadsOK'
  <2>1. /\ q.dialing \ {i} \in SUBSET Ids /\ q.dialing \in SUBSET Ids
        /\ q.dialed \cup {i} \in SUBSET Ids /\ q.dialed \ {i} \in SUBSET Ids
    BY <1>0, <1>14 DEF ThreadState
  <2>2. q.pc = "dialing"
    BY <1>14 DEF DialSucceeds, DialFails, DialRegisters, At
  <2>3. CASE DialSucceeds(t, i)
    BY <1>13, <2>1, <2>2, <2>3 DEF DialSucceeds
  <2>4. CASE DialFails(t, i)
    BY <1>13, <2>1, <2>2, <2>4 DEF DialFails
  <2>5. CASE DialRegisters(t, i)
    BY <1>13, <2>1, <2>2, <2>5 DEF DialRegisters
  <2> QED
    BY <1>14, <2>3, <2>4, <2>5
<1>15. CASE AskPassword(t)
  BY <1>1, <1>15 DEF AskPassword
<1>16. CASE t \in Workers /\ WorkerResolves(t)
  <2> DEFINE r == [[q EXCEPT !.pc = "link"] EXCEPT !.idx = 1]
  <2>1. q.pc = "getHostInfo" /\ HostExists(q.at) /\ Become(t, r)
    BY <1>16 DEF WorkerResolves, At, Begin
  <2>2. t \notin Sessions /\ q.chan = NoChan /\ q.at \in Targets
    BY <1>0, <1>16, <2>1, ThreadsAssumption DEF LocalOK, TablesOK
  <2>3. r \in ThreadState /\ r.pc = "link" /\ r.chan = q.chan /\ r.at = q.at /\ r.idx = 1
    BY <1>0 DEF ThreadState
  <2>4. 1 \in 1..Len(WayOf(t, q.at))
    BY <2>2, WayType
  <2> HIDE DEF r
  <2>5. LocalOK(t, r)
    BY <2>2, <2>3, <2>4, TargetsAssumption DEF LocalOK
  <2> QED
    BY <2>1, <2>3, <2>5, Becomes, OneMoves
<1> QED
  BY <1>6, <1>7, <1>8, <1>9, <1>10, <1>11, <1>12, <1>14, <1>15, <1>16
     DEF ResolveStep

(* What the requests do to the maps, the connections and the program.      *)
Requested ==
    \/ UNCHANGED stateVars \/ Panic \/ Exit \/ ClearHostInfo
    \/ \E h \in Targets : SetHostInfo(h)
    \/ \E h \in Names : \/ DeleteHostInfo(h)
                        \/ \E ok \in BOOLEAN : SetConnectionStatus(h, ok)
                        \/ \E ok \in BOOLEAN : SetRunStatus(h, ok)
    \/ \E l \in Names : DeleteConnInfo(l) \/ \E ci \in ConnType : SetConnInfo(l, ci)

(* What becomes of the remoteHosts.                                        *)
Served ==
    \/ UNCHANGED remotes
    \/ \E l \in Names, c \in Channels, i \in Nat, p \in BOOLEAN : Spawn(l, c, i, p)
    \/ \E r \in remotes : \/ remotes' = remotes \ {r}
                          \/ \E b \in BOOLEAN :
                                remotes' = (remotes \ {r})
                                              \cup {[r EXCEPT !.asking = b]}

(* Whatever is requested, only targets are in the map of hosts.            *)
LEMMA RequestedTypes ==
    ASSUME TablesOK, Requested
    PROVE  /\ targets' \in [Names -> HostInfo \cup {NoInfo}]
           /\ \A h \in Names : (targets'[h] # NoInfo) => h \in Targets
           /\ conn' \in [Names -> ConnType \cup {NoInfo}]
           /\ up' \in {"running", "exited", "panicked"}
<1> USE DEF TablesOK, HostExists, ConnExists
<1>1. CASE UNCHANGED stateVars \/ Panic \/ Exit
  BY <1>1 DEF stateVars, Panic, Exit
<1>2. CASE ClearHostInfo
  BY <1>2 DEF ClearHostInfo
<1>3. ASSUME NEW h \in Targets, SetHostInfo(h)
      PROVE  /\ targets' \in [Names -> HostInfo \cup {NoInfo}]
             /\ \A k \in Names : (targets'[k] # NoInfo) => k \in Targets
             /\ UNCHANGED <<conn, up>>
  BY <1>3, TargetsAssumption DEF SetHostInfo, NewHost, HostInfo
<1>4. ASSUME NEW h \in Names, DeleteHostInfo(h)
      PROVE  /\ targets' \in [Names -> HostInfo \cup {NoInfo}]
             /\ \A k \in Names : (targets'[k] # NoInfo) => k \in Targets
             /\ UNCHANGED <<conn, up>>
  BY <1>4 DEF DeleteHostInfo
<1>5. ASSUME NEW h \in Names, NEW ok \in BOOLEAN,
             SetConnectionStatus(h, ok) \/ SetRunStatus(h, ok)
      PROVE  /\ targets' \in [Names -> HostInfo \cup {NoInfo}]
             /\ \A k \in Names : (targets'[k] # NoInfo) => k \in Targets
             /\ UNCHANGED <<conn, up>>
  <2>1. CASE targets' = targets
    BY <1>5, <2>1 DEF SetConnectionStatus, SetRunStatus
  <2>2. ASSUME HostExists(h), NEW hi \in HostInfo, targets' = [targets EXCEPT ![h] = hi]
        PROVE  /\ targets' \in [Names -> HostInfo \cup {NoInfo}]
               /\ \A k \in Names : (targets'[k] # NoInfo) => k \in Targets
    BY <2>2
  <2>3. CASE HostExists(h)
    <3> DEFINE hi == targets[h]
               one == [hi EXCEPT !.connectedOK = ok]
               two == [[hi EXCEPT !.runOK = ok] EXCEPT !.runOnce = TRUE]
    <3>1. hi \in HostInfo
      BY <2>3
    <3>2. one \in HostInfo /\ two \in HostInfo
      BY <3>1 DEF HostInfo
    <3>3. \/ targets' = [targets EXCEPT ![h] = one]
          \/ targets' = [targets EXCEPT ![h] = two]
      BY <1>5, <2>3 DEF SetConnectionStatus, SetRunStatus
    <3> HIDE DEF one, two, hi
    <3> QED
      BY <1>5, <2>2, <2>3, <3>2, <3>3 DEF SetConnectionStatus, SetRunStatus
  <2> QED
    BY <1>5, <2>1, <2>3 DEF SetConnectionStatus, SetRunStatus
<1>6. ASSUME NEW l \in Names, NEW ci \in ConnType, DeleteConnInfo(l) \/ SetConnInfo(l, ci)
      PROVE  /\ conn' \in [Names -> ConnType \cup {NoInfo}]
             /\ UNCHANGED <<targets, up>>
  BY <1>6 DEF DeleteConnInfo, SetConnInfo
<1>7. ASSUME NEW l \in Names, DeleteConnInfo(l)
      PROVE  /\ conn' \in [Names -> ConnType \cup {NoInfo}]
             /\ UNCHANGED <<targets, up>>
  BY <1>7 DEF DeleteConnInfo
<1>8. CASE \E h \in Targets : SetHostInfo(h)
  BY <1>3, <1>8
<1>9. CASE \E h \in Names : \/ DeleteHostInfo(h)
                            \/ \E ok \in BOOLEAN : SetConnectionStatus(h, ok)
                            \/ \E ok \in BOOLEAN : SetRunStatus(h, ok)
  BY <1>4, <1>5, <1>9
<1>10. CASE \E l \in Names : \/ DeleteConnInfo(l)
                             \/ \E ci \in ConnType : SetConnInfo(l, ci)
  BY <1>6, <1>7, <1>10
<1> QED
  BY <1>1, <1>2, <1>8, <1>9, <1>10 DEF Requested

(* The remoteHosts stay remoteHosts.                                       *)
LEMMA ServedTypes ==
    ASSUME TablesOK, Served
    PROVE  remotes' \subseteq Remote
<1>1. ASSUME NEW r \in Remote, NEW b \in BOOLEAN PROVE [r EXCEPT !.asking = b] \in Remote
  BY DEF Remote
<1>2. ASSUME NEW l \in Names, NEW c \in Channels, NEW i \in Nat, NEW p \in BOOLEAN,
             Spawn(l, c, i, p)
      PROVE  remotes' \subseteq Remote
  <2> DEFINE r == [link |-> l, chan |-> c, id |-> i, isProxy |-> p, asking |-> FALSE]
  <2>1. r \in Remote
    BY DEF Remote
  <2>2. remotes' = remotes \cup {r}
    BY <1>2 DEF Spawn
  <2> QED
    BY <2>1, <2>2 DEF TablesOK
<1> QED
  BY <1>1, <1>2 DEF Served, TablesOK

(* A goroutine knows the link it is at.                                    *)
LEMMA LinkType ==
    ASSUME ThreadsOK, NEW t \in Threads, th[t].pc \in Resolving
    PROVE  /\ Link(t) \in Names
           /\ th[t].pc \in ThroughProxy => Proxy(t) \in Names
<1> DEFINE q == th[t]
<1>1. LocalOK(t, q)
  BY DEF ThreadsOK
<1>2. q.at \in Targets /\ q.idx \in 1..Len(WayOf(t, q.at)) /\ Way(t) = WayOf(t, q.at)
  BY <1>1 DEF LocalOK, Way, WayOf, AsProxy
<1>3. Link(t) \in Names
  BY <1>2, WayType DEF Link
<1>4. ASSUME q.pc \in ThroughProxy PROVE Proxy(t) \in Names
  <2>1. q.idx > 1
    BY <1>1, <1>4 DEF LocalOK
  <2>2. q.idx - 1 \in 1..Len(WayOf(t, q.at))
    BY <1>2, <2>1, WayType
  <2> QED
    BY <1>2, <2>2, WayType DEF Proxy
<1> QED
  BY <1>3, <1>4

(* Every step makes only such requests, about hosts it may be about.       *)
LEMMA StepsRequest ==
    ASSUME ThreadsOK, TablesOK, NEW t \in Threads, ThreadStep(t)
    PROVE  Requested /\ Served
<1> DEFINE q == th[t]
<1>0. /\ q \in ThreadState /\ LocalOK(t, q) /\ BastionConns \in Nat
      /\ NoChan \notin Channels
  BY BastionConnsAssumption, ChannelsAssumption DEF ThreadsOK, NoChan
<1> USE DEF At
<1>1. q.pc \in AboutHost => q.at \in Names
  BY <1>0 DEF LocalOK
<1>2. ASSUME t \in Sessions, SessionStep(t) PROVE Requested /\ Served
  <2>1. CASE LoadHost(t)
    BY <1>0, <2>1 DEF LoadHost, LocalOK, Requested, Served
  <2>2. CASE Finish(t)
    BY <2>2 DEF Finish, Requested, Served
  <2>3. CASE UNCHANGED <<stateVars, remotes>>
    BY <2>3 DEF Requested, Served
  <2> QED
    BY <1>2, <2>1, <2>2, <2>3
       DEF SessionStep, TakeKeys, Pick, EndLoop, SkipConnected, Acquire,
           ProxiesResolve, CleanHost, SessionGetsConn
<1>3. ASSUME WorkerStep(t) PROVE Requested /\ Served
  <2>1. CASE DeleteHost(t)
    BY <1>1, <2>1 DEF DeleteHost, AboutHost, Pcs, Requested, Served
  <2>2. CASE SetStatus(t)
    BY <1>0, <1>1, <2>2 DEF SetStatus, AboutHost, Pcs, Requested, Served, ThreadState
  <2>3. CASE \E ok \in BOOLEAN : RunAnswered(t, ok)
    BY <1>1, <2>3 DEF RunAnswered, AboutHost, Pcs, Requested, Served
  <2>4. CASE UNCHANGED <<stateVars, remotes>>
    BY <2>4 DEF Requested, Served
  <2> QED
    BY <1>3, <2>1, <2>2, <2>3, <2>4
       DEF WorkerStep, WorkerResolves, RunGetsConn, SendRun
<1>4. ASSUME ResolveStep(t) PROVE Requested /\ Served
  <2> USE DEF Resolving, ThroughProxy
  <2>1. CASE UNCHANGED <<stateVars, remotes>>
    BY <2>1 DEF Requested, Served
  <2>2. CASE GetProxy(t) \/ ProxyRefuses(t)
    BY <2>2 DEF GetProxy, ProxyRefuses, Requested, Served
  <2>3. CASE CountProxy(t)
    <3>1. IncProxyCount(Proxy(t)) => Requested
      BY DEF IncProxyCount, Requested
    <3>2. CASE ChannelLeft /\ Spawn(Link(t), FreshChan, 1, AsProxy(t))
      <4>1. FreshChan \in Channels /\ AsProxy(t) \in BOOLEAN /\ Link(t) \in Names
        BY <2>3, <3>2, LinkType DEF ChannelLeft, FreshChan, AsProxy, CountProxy
      <4> QED
        BY <2>3, <3>1, <3>2, <4>1 DEF CountProxy, Served
    <3> QED
      BY <2>3, <3>1, <3>2 DEF CountProxy, Served
  <2>4. ASSUME q.pc \in {"register", "dialing"}, NEW d \in BOOLEAN,
               SetConnInfo(Link(t), [chan |-> q.chan, isProxy |-> AsProxy(t),
                                     isDirect |-> d]), UNCHANGED remotes
        PROVE  Requested /\ Served
    <3>1. /\ [chan |-> q.chan, isProxy |-> AsProxy(t), isDirect |-> d] \in ConnType
          /\ Link(t) \in Names
      BY <1>0, <2>4, LinkType DEF LocalOK, ThreadState, AsProxy, ConnType
    <3> QED
      BY <2>4, <3>1 DEF Requested, Served
  <2>5. CASE Register(t)
    BY <2>4, <2>5 DEF Register
  <2>6. ASSUME NEW i \in Ids, DialSucceeds(t, i) \/ DialRegisters(t, i) \/ DialFails(t, i)
        PROVE  Requested /\ Served
    <3>1. CASE DialSucceeds(t, i)
      <4>1. /\ q.chan \in Channels /\ AsProxy(t) \in BOOLEAN /\ Link(t) \in Names
            /\ i \in Nat
        BY <1>0, <3>1, LinkType DEF LocalOK, ThreadState, AsProxy, DialSucceeds, Ids
      <4> QED
        BY <3>1, <4>1 DEF DialSucceeds, Requested, Served
    <3>2. CASE DialRegisters(t, i)
      BY <2>4, <3>2 DEF DialRegisters
    <3>3. CASE DialFails(t, i)
      BY <3>3 DEF DialFails, Requested, Served
    <3> QED
      BY <2>6, <3>1, <3>2, <3>3
  <2>7. CASE AskPassword(t)
    BY <2>7 DEF AskPassword, SetRequiresPw, Requested, Served
  <2> QED
    BY <1>4, <2>1, <2>2, <2>3, <2>5, <2>6, <2>7
       DEF ResolveStep, ExamineLink, ProxyExists, AskProxy, ProxyAnswers, DialsDone
<1>5. ASSUME CommonStep(t) PROVE Requested /\ Served
  <2>1. CASE UNCHANGED <<stateVars, remotes>>
    BY <2>1 DEF Requested, Served
  <2>2. CASE AskHostExists(t) \/ HostGone(t) \/ ConnGone(t)
    BY <2>2 DEF AskHostExists, HostGone, ConnGone, Requested, Served
  <2>3. CASE SendCleanup(t)
    <3>1. PICK r \in remotes : Cleanup(r)
      BY <2>3 DEF SendCleanup, Listening
    <3> QED
      BY <3>1 DEF Cleanup, Requested, Served
  <2>4. CASE CleanupDone(t)
    BY <1>1, <2>4 DEF CleanupDone, AboutHost, Pcs, Requested, Served
  <2> QED
    BY <1>4, <1>5, <2>1, <2>2, <2>3, <2>4
       DEF CommonStep, AskConnExists, DisconnectGetsConn
<1> QED
  BY <1>2, <1>3, <1>5 DEF ThreadStep

(* The steps of one goroutine keep what is known of all of them.           *)
LEMMA StepsType ==
    ASSUME ThreadsOK, TablesOK, NEW t \in Threads, ThreadStep(t)
    PROVE  ThreadsOK'
<1>1. CASE t \in Sessions /\ SessionStep(t)
  BY <1>1, LoopTypes, StartingTypes, ConnTypes DEF SessionStep
<1>2. CASE t \in Workers /\ WorkerStep(t)
  BY <1>2, CommonTypes, ConnTypes, ResolveTypes DEF WorkerStep
<1>3. CASE CommonStep(t)
  BY <1>3, CommonTypes, ConnTypes, ResolveTypes DEF CommonStep
<1> QED
  BY <1>1, <1>2, <1>3 DEF ThreadStep

(* A remoteHost that gives up its host starts a goroutine that knows it.   *)
LEMMA ReaperTypes ==
    ASSUME ThreadsOK, TablesOK, NEW x \in Reapers, NEW r \in remotes,
           GoDisconnect(x, r)
    PROVE  ThreadsOK'
<1> DEFINE v == [Idle EXCEPT !.pc = "connExists", !.op = "reap", !.at = r.link]
<1>1. r.link \in Names /\ x \in Threads /\ x \notin Sessions
  BY ThreadsAssumption DEF TablesOK, Remote, Threads
<1>2. v \in ThreadState
  BY <1>1, IdleType DEF ThreadState, Pcs
<1>3. v.pc = "connExists" /\ v.at = r.link /\ v.chan = NoChan
  BY DEF Idle
<1>4. Become(x, v)
  BY DEF GoDisconnect
<1> HIDE DEF v
<1>5. LocalOK(x, v)
  BY <1>1, <1>3 DEF LocalOK, Holding, Resolving, ThroughProxy
<1> QED
  BY <1>1, <1>2, <1>4, <1>5, Becomes, OneMoves

(* What is known of the types holds at first.                              *)
LEMMA TypeInit == Init => TypeInv
<1> SUFFICES ASSUME Init PROVE TypeInv
  OBVIOUS
<1>1. ThreadsOK
  BY IdleType DEF Init, ThreadsOK
<1>2. NewHost \in HostInfo
  BY DEF NewHost, HostInfo
<1>3. TablesOK
  BY <1>2 DEF Init, TablesOK, HostExists
<1>4. ops \in 0..MaxOps
  BY MaxOpsAssumption DEF Init
<1> QED
  BY <1>1, <1>3, <1>4 DEF TypeInv

(* Every step keeps it: one goroutine's, or a remoteHost's.                *)
LEMMA TypeNext == TypeInv /\ [Next]_allVars => TypeInv'
<1> SUFFICES ASSUME TypeInv, [Next]_allVars PROVE TypeInv'
  OBVIOUS
<1>0. ThreadsOK /\ TablesOK /\ ops \in 0..MaxOps
  BY DEF TypeInv
<1>1. Requested /\ Served => TablesOK'
  BY <1>0, RequestedTypes, ServedTypes DEF TablesOK, HostExists
<1>2. ASSUME NEW s \in Sessions, NEW op \in DOMAIN Plan, Start(s, op)
      PROVE  TypeInv'
  <2>1. ThreadsOK'
    BY <1>0, <1>2, LoopTypes
  <2>2. TablesOK'
    BY <1>1, <1>2 DEF Start, Requested, Served
  <2>3. (ops \in 0..MaxOps)'
    BY <1>0, <1>2, MaxOpsAssumption DEF Start
  <2> QED
    BY <2>1, <2>2, <2>3 DEF TypeInv
<1>3. ASSUME NEW t \in Threads, ThreadStep(t) PROVE TypeInv'
  BY <1>0, <1>1, <1>3, StepsType, StepsRequest DEF TypeInv, ThreadStep
<1>4. ASSUME NEW r \in remotes,
             \/ AskAlive(r) \/ Alive(r)
             \/ \E x \in Reapers :
                   (NewSessionFails(x, r) \/ NotAlive(x, r)) /\ UNCHANGED ops
      PROVE  TypeInv'
  <2>1. Requested /\ Served
    BY <1>4 DEF AskAlive, Alive, NewSessionFails, NotAlive, SendKeepAlive,
                KeepAliveReply, Requested, Served
  <2>2. ThreadsOK'
    <3>1. CASE UNCHANGED th
      BY <1>0, <3>1 DEF ThreadsOK
    <3>2. CASE \E x \in Reapers : GoDisconnect(x, r)
      BY <1>0, <3>2, ReaperTypes
    <3> QED
      BY <1>4, <3>1, <3>2 DEF AskAlive, Alive, NewSessionFails, NotAlive
  <2>3. UNCHANGED ops
    BY <1>4 DEF AskAlive, Alive
  <2> QED
    BY <1>0, <1>1, <2>1, <2>2, <2>3 DEF TypeInv
<1>5. CASE UNCHANGED allVars
  <2>1. UNCHANGED <<stateVars, remotes, th, ops>>
    BY <1>5 DEF allVars, vars
  <2>2. ThreadsOK'
    BY <1>0, <2>1 DEF ThreadsOK
  <2>3. TablesOK'
    BY <1>1, <2>1 DEF Requested, Served
  <2> QED
    BY <1>0, <2>1, <2>2, <2>3 DEF TypeInv
<1> QED
  BY <1>2, <1>3, <1>4, <1>5 DEF Next, Rest

(* The maps, the remoteHosts and what every goroutine keeps have their     *)
(* types: a goroutine is never at a link beyond the end of its chain       *)
(* (resolve.go:37), and what it takes for a channel is one.                *)
THEOREM ConnectionsTypeCorrect == Spec => []TypeOK
<1>1. TypeInv => TypeOK
  <2> SUFFICES ASSUME TypeInv PROVE TypeOK
    OBVIOUS
  <2>1. ConnType \subseteq ConnInfo
    BY ChannelsAssumption DEF ConnType, ConnInfo
  <2>2. StateTypeOK /\ remotes \subseteq Remote /\ ops \in 0..MaxOps
    BY <2>1 DEF TypeInv, TablesOK, StateTypeOK
  <2>3. ASSUME NEW t \in Threads PROVE th[t] \in ThreadState
    BY DEF TypeInv, ThreadsOK
  <2> QED
    BY <2>2, <2>3 DEF TypeOK, ThreadState
<1> QED
  BY <1>1, TypeInit, TypeNext, PTL DEF Spec

-----------------------------------------------------------------------------
(* A goroutine that is about to register a channel nobody else knows, and  *)
(* one that has started a remoteHost on it.                                *)
Fresh(r) == r.pc = "register" \/ (r.pc = "dialing" /\ r.dialing \cup r.dialed # {})
Spawned(r) == r.pc = "register" \/ (r.pc = "dialing" /\ r.dialed # {})
LinkOf(t, r) == WayOf(t, r.at)[r.idx]

Serving(l, c, proxy) ==
    \E r \in remotes : r.chan = c /\ r.link = l /\ r.isProxy = proxy

(* Listed channels are distinct, and a cleanup of one is for its host.     *)
ConnsDistinct ==
    /\ \A l, m \in GetConnKeys : conn[l].chan = conn[m].chan => l = m
    /\ \A l \in GetConnKeys, t \in Threads :
          th[t].pc = "cleanup" /\ th[t].chan = conn[l].chan => th[t].at = l

(* Nobody else has a fresh channel, and its remoteHost is there.           *)
FreshOwned ==
    \A t \in Threads :
        /\ Fresh(th[t]) =>
              /\ \A l \in GetConnKeys : conn[l].chan # th[t].chan
              /\ \A u \in Threads \ {t} : th[u].chan # th[t].chan
        /\ Spawned(th[t]) =>
              Serving(LinkOf(t, th[t]), th[t].chan, AsProxy(t))
        /\ th[t].dialing \cap th[t].dialed = {}
        /\ th[t].pc # "dialing" => th[t].dialing = {} /\ th[t].dialed = {}

(* Every listed connection is served, or has been cleaned up.              *)
AllServed ==
    \A l \in GetConnKeys :
        BeingDeleted(l) \/ Serving(l, conn[l].chan, conn[l].isProxy)

(* The workers of a session: one that is at work is for a host its session *)
(* is done with, in the last of its loops.                                 *)
WorkersOK ==
    \A s \in Sessions :
        /\ th[s].pc \in AboutHost => th[s].at \notin th[s].todo
        /\ \A x \in Names : th[<<s, x>>].pc # "idle" =>
              /\ th[s].pc \notin {"idle", "keys"} /\ x \notin th[s].todo
              /\ th[s].pc \in AboutHost => th[s].at # x
              /\ th[s].stage = Len(Plan[th[s].op])

ServedInv == ConnsDistinct /\ FreshOwned /\ AllServed /\ WorkersOK

-----------------------------------------------------------------------------
(* Every remoteHost goes on serving its channel, if it may be for a reply. *)
RemotesKept ==
    \A r \in remotes : \E q \in remotes' :
        q.chan = r.chan /\ q.link = r.link /\ q.isProxy = r.isProxy

Frame(t) == \A u \in Threads \ {t} : th'[u] = th[u]
Dialled(q) == q.pc = "dialing" => q.dialing = {} /\ q.dialed = {}

(* A goroutine in state q comes to r, where it may have given up its       *)
(* channel, but has no fresh one and cleans up nothing.                    *)
Rested(r, q) ==
    /\ r.pc \notin {"cleanup", "dialing", "register"}
    /\ r.chan \in {q.chan, NoChan}
    /\ r.dialing \subseteq q.dialing /\ r.dialed \subseteq q.dialed

(* The steps of a goroutine, by what they do about the channels: it leaves *)
(* them alone, takes a listed one, gets a fresh one, lists it, sends one   *)
(* of its cleanups.                                                        *)
Quiet(t) ==
    /\ Frame(t) /\ UNCHANGED conn /\ RemotesKept
    /\ th[t].pc # "cleanup" /\ Dialled(th[t]) /\ Rested(th'[t], th[t])

Takes(t) ==
    /\ Frame(t) /\ UNCHANGED conn /\ RemotesKept
    /\ th[t].pc \notin {"cleanup", "dialing"} /\ KeepsDials(th'[t], th[t])
    /\ th'[t].pc \notin {"dialing", "register"}
    /\ \E x \in GetConnKeys : /\ th'[t].chan = conn[x].chan
                              /\ th'[t].pc = "cleanup" => th'[t].at = x

Allocates(t) ==
    /\ Frame(t) /\ UNCHANGED conn /\ RemotesKept /\ ChannelLeft
    /\ th[t].pc \notin {"cleanup", "dialing"} /\ th'[t].chan = FreshChan
    /\ \/ /\ th'[t].pc = "dialing" /\ th'[t].dialed = th[t].dialed
       \/ /\ th'[t].pc = "register" /\ KeepsDials(th'[t], th[t])
          /\ \E r \in remotes' : /\ r.chan = FreshChan /\ r.isProxy = AsProxy(t)
                                 /\ r.link = LinkOf(t, th'[t])

Lists(t) ==
    /\ Frame(t) /\ UNCHANGED remotes /\ Spawned(th[t])
    /\ \E d \in BOOLEAN :
          SetConnInfo(Link(t), [chan |-> th[t].chan, isProxy |-> AsProxy(t),
                                isDirect |-> d])
    /\ th'[t].pc \notin {"cleanup", "register"} /\ Dialled(th'[t])
    /\ th'[t].chan \in {th[t].chan, NoChan}
    /\ th'[t].dialing \subseteq th[t].dialing /\ th'[t].dialed \subseteq th[t].dialed
    /\ th'[t].pc # "dialing" => th'[t].dialing = {} /\ th'[t].dialed = {}

Chans == ConnsDistinct /\ FreshOwned /\ AllServed

(* What is served is served after a step that keeps the remoteHosts.       *)
LEMMA StillServing ==
    ASSUME RemotesKept, NEW l, NEW c, NEW p, Serving(l, c, p)
    PROVE  Serving(l, c, p)'
BY DEF RemotesKept, Serving

(* A channel in use is not fresh.                                          *)
LEMMA FreshIsFree ==
    ASSUME ChannelLeft
    PROVE  /\ FreshChan \in Channels
           /\ \A l \in GetConnKeys : conn[l].chan # FreshChan
           /\ \A u \in Threads : th[u].chan # FreshChan
BY DEF ChannelLeft, FreshChan, InUse

(* Nothing happens to the channels.                                        *)
LEMMA StillChans ==
    ASSUME Chans, UNCHANGED <<th, conn>>, RemotesKept
    PROVE  Chans'
<1>1. GetConnKeys' = GetConnKeys
  BY DEF GetConnKeys, ConnExists
<1>2. ConnsDistinct'
  BY <1>1 DEF Chans, ConnsDistinct
<1>3. ASSUME NEW t \in Threads
      PROVE  (Spawned(th[t]) => Serving(LinkOf(t, th[t]), th[t].chan, AsProxy(t)))'
  BY StillServing DEF Chans, FreshOwned, Spawned, LinkOf, WayOf, AsProxy
<1>4. FreshOwned'
  BY <1>1, <1>3 DEF Chans, FreshOwned, Fresh
<1>5. ASSUME NEW l \in GetConnKeys
      PROVE  (BeingDeleted(l) \/ Serving(l, conn[l].chan, conn[l].isProxy))'
  BY StillServing DEF Chans, AllServed, BeingDeleted
<1> QED
  BY <1>1, <1>2, <1>4, <1>5 DEF Chans, AllServed

(* What a step of t leaves to show of the others, when the connections do  *)
(* not change and t did not clean up.                                      *)
LEMMA OthersChans ==
    ASSUME ThreadsOK, Chans, NEW t \in Threads, Frame(t), UNCHANGED conn,
           RemotesKept, th[t].pc # "cleanup",
           \A u \in Threads \ {t} :
               Fresh(th[u]) => th'[t].chan # th[u].chan
    PROVE  /\ GetConnKeys' = GetConnKeys
           /\ \A l, m \in GetConnKeys : conn[l].chan = conn[m].chan => l = m
           /\ \A l \in GetConnKeys, u \in Threads \ {t} :
                 (th[u].pc = "cleanup" /\ th[u].chan = conn[l].chan
                     => th[u].at = l)'
           /\ \A u \in Threads \ {t} :
                 /\ Fresh(th'[u]) =>
                       /\ \A l \in GetConnKeys : conn'[l].chan # th'[u].chan
                       /\ \A v \in Threads \ {u} : th'[v].chan # th'[u].chan
                 /\ Spawned(th'[u]) =>
                       Serving(LinkOf(u, th[u]), th[u].chan, AsProxy(u))'
                 /\ th'[u].dialing \cap th'[u].dialed = {}
                 /\ th'[u].pc # "dialing" =>
                       th'[u].dialing = {} /\ th'[u].dialed = {}
           /\ AllServed'
<1>1. GetConnKeys' = GetConnKeys
  BY DEF GetConnKeys, ConnExists
<1>2. /\ \A l, m \in GetConnKeys : conn[l].chan = conn[m].chan => l = m
      /\ \A l \in GetConnKeys, u \in Threads \ {t} :
            (th[u].pc = "cleanup" /\ th[u].chan = conn[l].chan => th[u].at = l)'
  BY DEF Chans, ConnsDistinct, Frame
<1>3. ASSUME NEW u \in Threads \ {t}
      PROVE  /\ Fresh(th'[u]) =>
                   /\ \A l \in GetConnKeys : conn'[l].chan # th'[u].chan
                   /\ \A v \in Threads \ {u} : th'[v].chan # th'[u].chan
             /\ th'[u].dialing \cap th'[u].dialed = {}
             /\ th'[u].pc # "dialing" => th'[u].dialing = {} /\ th'[u].dialed = {}
  BY DEF Chans, FreshOwned, Frame
<1>4. ASSUME NEW u \in Threads \ {t}, Spawned(th'[u])
      PROVE  Serving(LinkOf(u, th[u]), th[u].chan, AsProxy(u))'
  <2>1. th'[u] = th[u]
    BY DEF Frame
  <2>2. Serving(LinkOf(u, th[u]), th[u].chan, AsProxy(u))
    BY <1>4, <2>1 DEF Chans, FreshOwned
  <2> QED
    BY <2>1, <2>2, StillServing DEF LinkOf, WayOf, AsProxy
<1>5. ASSUME NEW l \in GetConnKeys
      PROVE  (BeingDeleted(l) \/ Serving(l, conn[l].chan, conn[l].isProxy))'
  <2>1. CASE BeingDeleted(l)
    BY <2>1 DEF BeingDeleted, Frame
  <2>2. CASE Serving(l, conn[l].chan, conn[l].isProxy)
    BY <2>2, StillServing
  <2> QED
    BY <2>1, <2>2 DEF Chans, AllServed
<1> QED
  BY <1>1, <1>2, <1>3, <1>4, <1>5 DEF AllServed

(* A goroutine with a fresh channel, or that holds none, is told apart.    *)
LEMMA FreshIsChannel ==
    ASSUME ThreadsOK, NEW u \in Threads, Fresh(th[u])
    PROVE  th[u].chan # NoChan
BY DEF ThreadsOK, LocalOK, Fresh

(* A step that leaves the channels alone keeps what is known of them,      *)
LEMMA QuietChans ==
    ASSUME ThreadsOK, Chans, NEW t \in Threads, Quiet(t)
    PROVE  Chans'
<1>1. \A u \in Threads \ {t} : Fresh(th[u]) => th'[t].chan # th[u].chan
  BY FreshIsChannel DEF Quiet, Rested, Chans, FreshOwned
<1>2. /\ ~Fresh(th'[t]) /\ ~Spawned(th'[t]) /\ th'[t].pc # "cleanup"
      /\ th'[t].dialing \cap th'[t].dialed = {}
      /\ th'[t].dialing = {} /\ th'[t].dialed = {}
  BY DEF Quiet, Rested, Fresh, Spawned, Chans, FreshOwned, Dialled
<1>3. ConnsDistinct'
  BY <1>1, <1>2, OthersChans DEF Quiet, ConnsDistinct
<1>4. FreshOwned'
  BY <1>1, <1>2, OthersChans DEF Quiet, FreshOwned, LinkOf, WayOf, AsProxy, Frame
<1> QED
  BY <1>1, <1>3, <1>4, OthersChans DEF Quiet, Chans

(* one that takes a listed channel,                                        *)
LEMMA TakesChans ==
    ASSUME ThreadsOK, Chans, NEW t \in Threads, Takes(t)
    PROVE  Chans'
<1>0. PICK x \in GetConnKeys : /\ th'[t].chan = conn[x].chan
                               /\ th'[t].pc = "cleanup" => th'[t].at = x
  BY DEF Takes
<1>1. \A u \in Threads \ {t} : Fresh(th[u]) => th'[t].chan # th[u].chan
  BY <1>0 DEF Chans, FreshOwned
<1>2. /\ ~Fresh(th'[t]) /\ ~Spawned(th'[t])
      /\ th'[t].dialing \cap th'[t].dialed = {}
      /\ th'[t].dialing = {} /\ th'[t].dialed = {}
  BY DEF Takes, KeepsDials, Fresh, Spawned, Chans, FreshOwned
<1>3. ConnsDistinct'
  BY <1>0, <1>1, OthersChans DEF Takes, ConnsDistinct
<1>4. FreshOwned'
  BY <1>1, <1>2, OthersChans DEF Takes, FreshOwned, LinkOf, WayOf, AsProxy, Frame
<1> QED
  BY <1>1, <1>3, <1>4, OthersChans DEF Takes, Chans

(* one that gets a fresh channel,                                          *)
LEMMA AllocatesChans ==
    ASSUME ThreadsOK, Chans, NEW t \in Threads, Allocates(t)
    PROVE  Chans'
<1>0. /\ \A l \in GetConnKeys : conn[l].chan # FreshChan
      /\ \A u \in Threads : th[u].chan # FreshChan
  BY FreshIsFree DEF Allocates
<1>1. \A u \in Threads \ {t} : Fresh(th[u]) => th'[t].chan # th[u].chan
  BY <1>0 DEF Allocates
<1>2. /\ th'[t].dialed = {} /\ (th'[t].pc # "dialing" => th'[t].dialing = {})
      /\ th'[t].dialing \cap th'[t].dialed = {}
  BY DEF Allocates, KeepsDials, Chans, FreshOwned
<1>3. Spawned(th'[t]) => Serving(LinkOf(t, th[t]), th[t].chan, AsProxy(t))'
  BY <1>2 DEF Allocates, Spawned, LinkOf, WayOf, AsProxy, Serving
<1>4. /\ \A l \in GetConnKeys : conn'[l].chan # th'[t].chan
      /\ \A u \in Threads \ {t} : th'[u].chan # th'[t].chan
  BY <1>0 DEF Allocates, Frame
<1>5. ConnsDistinct'
  BY <1>1, <1>4, OthersChans DEF Allocates, ConnsDistinct
<1>6. FreshOwned'
  <2>1. GetConnKeys' = GetConnKeys
    BY <1>1, OthersChans DEF Allocates
  <2>2. ASSUME NEW u \in Threads \ {t}
        PROVE  /\ Fresh(th'[u]) =>
                     /\ \A l \in GetConnKeys : conn'[l].chan # th'[u].chan
                     /\ \A v \in Threads \ {u} : th'[v].chan # th'[u].chan
               /\ Spawned(th'[u]) =>
                     Serving(LinkOf(u, th[u]), th[u].chan, AsProxy(u))'
               /\ th'[u].dialing \cap th'[u].dialed = {}
               /\ th'[u].pc # "dialing" => th'[u].dialing = {} /\ th'[u].dialed = {}
    <3>1. LinkOf(u, th[u])' = LinkOf(u, th[u]) /\ th'[u].chan = th[u].chan
      BY DEF Frame, Allocates, LinkOf, WayOf
    <3> QED
      BY <1>1, <3>1, OthersChans DEF Allocates, AsProxy
  <2> QED
    BY <1>2, <1>3, <1>4, <2>1, <2>2 DEF FreshOwned
<1> QED
  BY <1>1, <1>5, <1>6, OthersChans DEF Allocates, Chans

(* one that lists the channel it has started a remoteHost on,              *)
LEMMA ListsChans ==
    ASSUME ThreadsOK, TablesOK, Chans, NEW t \in Threads, Lists(t)
    PROVE  Chans'
<1> DEFINE q == th[t]
           c == th[t].chan
           k == Link(t)
<1>0. PICK d \in BOOLEAN :
         SetConnInfo(k, [chan |-> c, isProxy |-> AsProxy(t), isDirect |-> d])
  BY DEF Lists
<1> DEFINE ci == [chan |-> c, isProxy |-> AsProxy(t), isDirect |-> d]
<1>1. k \in Names /\ k = LinkOf(t, q)
  <2>1. q.pc \in Resolving
    BY DEF Lists, Spawned, Resolving, ThroughProxy
  <2> QED
    BY <2>1, LinkType DEF Link, LinkOf, Way, WayOf, AsProxy
<1>2. ci.chan = c /\ ci.isProxy = AsProxy(t)
  OBVIOUS
<1>3. /\ GetConnKeys' \subseteq GetConnKeys \cup {k}
      /\ \A l \in GetConnKeys : l \in GetConnKeys' /\ conn'[l] = conn[l]
      /\ k \notin GetConnKeys => conn'[k] = ci
  BY <1>0, <1>1 DEF SetConnInfo, GetConnKeys, ConnExists, TablesOK
<1> HIDE DEF ci
<1>4. /\ \A l \in GetConnKeys : conn[l].chan # c
      /\ \A u \in Threads \ {t} : th[u].chan # c
      /\ Serving(k, c, AsProxy(t)) /\ q.pc # "cleanup"
  BY <1>1 DEF Lists, Spawned, Fresh, Chans, FreshOwned
<1>5. /\ th'[t].chan \in {c, NoChan} /\ th'[t].pc # "cleanup"
      /\ ~Fresh(th'[t]) /\ ~Spawned(th'[t])
      /\ th'[t].dialing \cap th'[t].dialed = {}
      /\ th'[t].pc # "dialing" => th'[t].dialing = {} /\ th'[t].dialed = {}
  BY DEF Lists, Dialled, Fresh, Spawned, Chans, FreshOwned
<1>6. ConnsDistinct'
  <2>1. ASSUME NEW l \in GetConnKeys', NEW m \in GetConnKeys',
               conn'[l].chan = conn'[m].chan
        PROVE  l = m
    BY <1>2, <1>3, <1>4, <2>1 DEF Chans, ConnsDistinct
  <2>2. ASSUME NEW l \in GetConnKeys', NEW u \in Threads,
               th'[u].pc = "cleanup", th'[u].chan = conn'[l].chan
        PROVE  th'[u].at = l
    <3>1. u # t /\ th'[u] = th[u]
      BY <1>5, <2>2 DEF Lists, Frame
    <3> QED
      BY <1>2, <1>3, <1>4, <2>2, <3>1 DEF Chans, ConnsDistinct
  <2> QED
    BY <2>1, <2>2 DEF ConnsDistinct
<1>7. FreshOwned'
  <2>1. ASSUME NEW u \in Threads \ {t}
        PROVE  /\ Fresh(th'[u]) =>
                     /\ \A l \in GetConnKeys' : conn'[l].chan # th'[u].chan
                     /\ \A v \in Threads \ {u} : th'[v].chan # th'[u].chan
               /\ Spawned(th'[u]) =>
                     Serving(LinkOf(u, th[u]), th[u].chan, AsProxy(u))'
               /\ th'[u].dialing \cap th'[u].dialed = {}
               /\ th'[u].pc # "dialing" => th'[u].dialing = {} /\ th'[u].dialed = {}
    <3>1. th'[u] = th[u] /\ \A v \in Threads \ {t} : th'[v] = th[v]
      BY DEF Lists, Frame
    <3>2. ASSUME Fresh(th[u])
          PROVE  /\ \A l \in GetConnKeys' : conn'[l].chan # th[u].chan
                 /\ \A v \in Threads \ {u} : th'[v].chan # th[u].chan
      BY <1>2, <1>3, <1>4, <1>5, <3>1, <3>2, FreshIsChannel DEF Chans, FreshOwned
    <3>3. ASSUME Spawned(th[u])
          PROVE  Serving(LinkOf(u, th[u]), th[u].chan, AsProxy(u))'
      BY <3>1, <3>3 DEF Lists, Chans, FreshOwned, Serving, LinkOf, WayOf, AsProxy
    <3> QED
      BY <3>1, <3>2, <3>3 DEF Chans, FreshOwned
  <2> QED
    BY <1>5, <2>1 DEF FreshOwned
<1>8. ASSUME NEW l \in GetConnKeys'
      PROVE  (BeingDeleted(l) \/ Serving(l, conn[l].chan, conn[l].isProxy))'
  <2>1. CASE l \notin GetConnKeys
    <3>1. l = k /\ conn'[l] = ci
      BY <1>3, <2>1
    <3> QED
      BY <1>2, <1>4, <3>1 DEF Lists, Serving
  <2>2. CASE l \in GetConnKeys /\ BeingDeleted(l)
    <3>1. PICK u \in Threads : /\ th[u].pc = "cleanup" /\ th[u].at = l
                               /\ th[u].left = 0 /\ th[u].chan = conn[l].chan
      BY <2>2 DEF BeingDeleted
    <3>2. th'[u] = th[u] /\ conn'[l] = conn[l]
      BY <1>3, <1>4, <2>2, <3>1 DEF Lists, Frame
    <3> QED
      BY <3>1, <3>2 DEF BeingDeleted
  <2>3. CASE l \in GetConnKeys /\ Serving(l, conn[l].chan, conn[l].isProxy)
    BY <1>3, <2>3 DEF Lists, Serving
  <2> QED
    BY <2>1, <2>2, <2>3 DEF Chans, AllServed
<1> QED
  BY <1>6, <1>7, <1>8 DEF Chans, AllServed

(* Of a host that has one connection, one cleanup is the last.             *)
LEMMA CleansChans ==
    ASSUME BastionConns = 1, ThreadsOK, TablesOK, Chans, NEW t \in Threads,
           SendCleanup(t)
    PROVE  Chans'
<1> DEFINE q == th[t]
<1>0. /\ Frame(t) /\ q.pc = "cleanup" /\ th'[t].pc = "cleanup" /\ q.left = 1
      /\ th'[t].left = 0 /\ th'[t].at = q.at /\ th'[t].chan = q.chan
      /\ KeepsDials(th'[t], q)
  <2>1. q \in ThreadState /\ th \in [Threads -> ThreadState]
    BY DEF ThreadsOK
  <2>2. q.left = 1 /\ q.pc = "cleanup" /\ th' = [th EXCEPT ![t].left = @ - 1]
    BY <2>1 DEF ThreadState, SendCleanup, At
  <2> QED
    BY <2>1, <2>2 DEF Frame, ThreadState, KeepsDials
<1>1. UNCHANGED conn /\ GetConnKeys' = GetConnKeys
  BY DEF SendCleanup, Cleanup, Panic, stateVars, GetConnKeys, ConnExists
<1>2. \A r \in remotes : r.chan # q.chan => r \in remotes'
  BY DEF SendCleanup, Cleanup, Listening
<1>3. ConnsDistinct'
  BY <1>0, <1>1 DEF Frame, Chans, ConnsDistinct
<1>4. ASSUME NEW u \in Threads
      PROVE  /\ Fresh(th'[u]) = Fresh(th[u]) /\ Spawned(th'[u]) = Spawned(th[u])
             /\ th'[u].chan = th[u].chan /\ KeepsDials(th'[u], th[u])
             /\ th'[u].pc = th[u].pc
             /\ Fresh(th[u]) => u # t /\ th'[u] = th[u]
  BY <1>0 DEF Frame, Fresh, Spawned, KeepsDials
<1>5. FreshOwned'
  <2>1. ASSUME NEW u \in Threads, Spawned(th[u])
        PROVE  Serving(LinkOf(u, th[u]), th[u].chan, AsProxy(u))'
    <3>1. Fresh(th[u])
      BY <2>1 DEF Spawned, Fresh
    <3>2. u # t /\ th'[u] = th[u] /\ q.chan # th[u].chan
      BY <1>4, <3>1 DEF Chans, FreshOwned
    <3>3. Serving(LinkOf(u, th[u]), th[u].chan, AsProxy(u))
      BY <2>1 DEF Chans, FreshOwned
    <3> QED
      BY <1>2, <3>2, <3>3 DEF Serving, LinkOf, WayOf, AsProxy
  <2> QED
    BY <1>1, <1>4, <2>1 DEF Chans, FreshOwned, KeepsDials
<1>6. ASSUME NEW l \in GetConnKeys
      PROVE  (BeingDeleted(l) \/ Serving(l, conn[l].chan, conn[l].isProxy))'
  <2>1. CASE conn[l].chan = q.chan
    BY <1>0, <1>1, <2>1 DEF Chans, ConnsDistinct, BeingDeleted
  <2>2. CASE conn[l].chan # q.chan /\ BeingDeleted(l)
    BY <1>0, <1>1, <2>2 DEF BeingDeleted, Frame
  <2>3. CASE conn[l].chan # q.chan /\ Serving(l, conn[l].chan, conn[l].isProxy)
    BY <1>1, <1>2, <2>3 DEF Serving
  <2> QED
    BY <2>1, <2>2, <2>3 DEF Chans, AllServed
<1> QED
  BY <1>1, <1>3, <1>5, <1>6 DEF Chans, AllServed

(* And then its ConnInfo is deleted, and no other one.                     *)
LEMMA DeletesChans ==
    ASSUME ThreadsOK, TablesOK, Chans, NEW t \in Threads, CleanupDone(t)
    PROVE  Chans'
<1> DEFINE q == th[t]
<1>0. /\ Frame(t) /\ q.pc = "cleanup" /\ q.at \in Names
      /\ Rested(th'[t], q) /\ UNCHANGED remotes
  <2>1. q \in ThreadState /\ th \in [Threads -> ThreadState] /\ LocalOK(t, q)
    BY DEF ThreadsOK
  <2>2. q.pc = "cleanup" /\ q.at \in Names /\ UNCHANGED remotes
    BY <2>1 DEF CleanupDone, At, LocalOK, AboutHost, Pcs
  <2>3. CASE Become(t, Idle)
    BY <2>1, <2>2, <2>3 DEF Become, Frame, Rested, Idle
  <2>4. CASE \E p \in {"loop", "deleteHost"} :
                th' = [th EXCEPT ![t].pc = p, ![t].chan = NoChan]
    BY <2>1, <2>2, <2>4 DEF Frame, Rested, ThreadState
  <2> QED
    BY <2>2, <2>3, <2>4 DEF CleanupDone
<1>1. \A l \in GetConnKeys' : l \in GetConnKeys /\ l # q.at /\ conn'[l] = conn[l]
  BY <1>0 DEF CleanupDone, DeleteConnInfo, GetConnKeys, ConnExists, TablesOK
<1>2. /\ ~Fresh(th'[t]) /\ ~Spawned(th'[t])
      /\ th'[t].dialing = {} /\ th'[t].dialed = {}
  BY <1>0 DEF Rested, Fresh, Spawned, Chans, FreshOwned
<1>3. ConnsDistinct'
  BY <1>0, <1>1 DEF Frame, Rested, Chans, ConnsDistinct
<1>4. FreshOwned'
  <2>1. ASSUME NEW u \in Threads \ {t}
        PROVE  /\ Fresh(th'[u]) =>
                     /\ \A l \in GetConnKeys' : conn'[l].chan # th'[u].chan
                     /\ \A v \in Threads \ {u} : th'[v].chan # th'[u].chan
               /\ Spawned(th'[u]) =>
                     Serving(LinkOf(u, th[u]), th[u].chan, AsProxy(u))'
               /\ th'[u].dialing \cap th'[u].dialed = {}
               /\ th'[u].pc # "dialing" => th'[u].dialing = {} /\ th'[u].dialed = {}
    <3>1. th'[u] = th[u] /\ \A v \in Threads \ {t} : th'[v] = th[v]
      BY <1>0 DEF Frame
    <3>2. Fresh(th[u]) => th'[t].chan # th[u].chan
      BY <1>0, FreshIsChannel DEF Rested, Chans, FreshOwned
    <3>3. Spawned(th[u]) => Serving(LinkOf(u, th[u]), th[u].chan, AsProxy(u))'
      BY <1>0, <3>1 DEF Chans, FreshOwned, Serving, LinkOf, WayOf, AsProxy
    <3> QED
      BY <1>1, <3>1, <3>2, <3>3 DEF Chans, FreshOwned
  <2> QED
    BY <1>2, <2>1 DEF FreshOwned
<1>5. ASSUME NEW l \in GetConnKeys'
      PROVE  (BeingDeleted(l) \/ Serving(l, conn[l].chan, conn[l].isProxy))'
  <2>1. CASE BeingDeleted(l)
    BY <1>0, <1>1, <2>1 DEF BeingDeleted, Frame
  <2>2. CASE Serving(l, conn[l].chan, conn[l].isProxy)
    BY <1>0, <1>1, <2>2 DEF Serving
  <2> QED
    BY <1>1, <2>1, <2>2 DEF Chans, AllServed
<1> QED
  BY <1>3, <1>4, <1>5 DEF Chans, AllServed

(* A dial starts the remoteHost of a fresh channel, or fails.              *)
LEMMA DialChans ==
    ASSUME ThreadsOK, Chans, NEW t \in Threads, NEW i \in Ids,
           DialSucceeds(t, i) \/ DialFails(t, i)
    PROVE  Chans'
<1> DEFINE q == th[t]
<1>0. q \in ThreadState /\ th \in [Threads -> ThreadState]
  BY DEF ThreadsOK
<1>1. /\ q.pc = "dialing" /\ i \in q.dialing /\ th'[t].pc = "dialing"
      /\ th'[t].at = q.at /\ th'[t].idx = q.idx /\ th'[t].chan = q.chan
      /\ th'[t].dialing = q.dialing \ {i}
      /\ th'[t].dialed \in {q.dialed, q.dialed \cup {i}}
      /\ Frame(t) /\ UNCHANGED conn /\ Link(t) = LinkOf(t, q)
  BY <1>0 DEF DialSucceeds, DialFails, At, Frame, ThreadState, stateVars,
              Link, LinkOf, Way, WayOf, AsProxy
<1>2. RemotesKept
  BY DEF DialSucceeds, DialFails, Spawn, RemotesKept
<1>3. Fresh(q) /\ th'[t].dialing \cap th'[t].dialed = {}
  BY <1>1 DEF Fresh, Chans, FreshOwned
<1>4. \A u \in Threads \ {t} : Fresh(th[u]) => th'[t].chan # th[u].chan
  BY <1>1, <1>3 DEF Chans, FreshOwned
<1>5. /\ \A l \in GetConnKeys : conn'[l].chan # th'[t].chan
      /\ \A u \in Threads \ {t} : th'[u].chan # th'[t].chan
  BY <1>1, <1>3 DEF Chans, FreshOwned, Frame
<1>6. Spawned(th'[t]) => Serving(LinkOf(t, th[t]), th[t].chan, AsProxy(t))'
  <2>1. LinkOf(t, th[t])' = LinkOf(t, q) /\ AsProxy(t)' = AsProxy(t)
    BY <1>1 DEF LinkOf, WayOf, AsProxy
  <2>2. CASE DialSucceeds(t, i)
    <3> DEFINE r == [link |-> Link(t), chan |-> q.chan, id |-> i,
                     isProxy |-> AsProxy(t), asking |-> FALSE]
    <3>1. r \in remotes'
      BY <2>2 DEF DialSucceeds, Spawn
    <3>2. r.chan = q.chan /\ r.link = LinkOf(t, q) /\ r.isProxy = AsProxy(t)
      BY <1>1
    <3> HIDE DEF r
    <3> QED
      BY <1>1, <2>1, <3>1, <3>2 DEF Serving
  <2>3. CASE DialFails(t, i) /\ Spawned(th'[t])
    <3>1. th'[t].dialed = q.dialed
      BY <1>0, <2>3 DEF DialFails, ThreadState
    <3>2. Spawned(q)
      BY <1>1, <2>3, <3>1 DEF Spawned
    <3>3. Serving(LinkOf(t, q), q.chan, AsProxy(t))
      BY <3>2 DEF Chans, FreshOwned
    <3> QED
      BY <1>1, <1>2, <2>1, <3>3, StillServing
  <2> QED
    BY <2>2, <2>3
<1>7. ConnsDistinct'
  BY <1>1, <1>2, <1>4, OthersChans DEF ConnsDistinct
<1>8. FreshOwned'
  <2>1. GetConnKeys' = GetConnKeys
    BY <1>1, <1>2, <1>4, OthersChans
  <2>2. ASSUME NEW u \in Threads \ {t}
        PROVE  /\ Fresh(th'[u]) =>
                     /\ \A l \in GetConnKeys : conn'[l].chan # th'[u].chan
                     /\ \A v \in Threads \ {u} : th'[v].chan # th'[u].chan
               /\ Spawned(th'[u]) =>
                     Serving(LinkOf(u, th[u]), th[u].chan, AsProxy(u))'
               /\ th'[u].dialing \cap th'[u].dialed = {}
               /\ th'[u].pc # "dialing" => th'[u].dialing = {} /\ th'[u].dialed = {}
    <3>1. LinkOf(u, th[u])' = LinkOf(u, th[u]) /\ th'[u].chan = th[u].chan
      BY <1>1 DEF Frame, LinkOf, WayOf
    <3> QED
      BY <1>1, <1>2, <1>4, <3>1, OthersChans DEF AsProxy
  <2> QED
    BY <1>1, <1>3, <1>5, <1>6, <2>1, <2>2 DEF FreshOwned
<1> QED
  BY <1>1, <1>2, <1>4, <1>7, <1>8, OthersChans DEF Chans

(* A session that starts a worker that was at rest.                        *)
LEMMA StartedChans ==
    ASSUME ThreadsOK, Chans, NEW s \in Threads, NEW w \in Threads,
           \A u \in Threads \ {s, w} : th'[u] = th[u],
           UNCHANGED <<conn, remotes>>,
           th[s].pc \notin {"cleanup", "dialing"}, th[w].pc = "idle",
           Rested(th'[s], [th[s] EXCEPT !.chan = NoChan]),
           Rested(th'[w], [th[w] EXCEPT !.chan = NoChan])
    PROVE  Chans'
<1>0. th[s] \in ThreadState /\ th[w] \in ThreadState
  BY DEF ThreadsOK
<1>1. \A u \in {s, w} :
         /\ ~Fresh(th'[u]) /\ ~Spawned(th'[u]) /\ th'[u].chan = NoChan
         /\ th'[u].dialing = {} /\ th'[u].dialed = {}
         /\ th'[u].pc # "cleanup" /\ th[u].pc # "cleanup"
  BY <1>0 DEF Rested, Fresh, Spawned, Chans, FreshOwned, ThreadState
<1>2. GetConnKeys' = GetConnKeys
  BY DEF GetConnKeys, ConnExists
<1>3. ConnsDistinct'
  BY <1>1, <1>2 DEF Chans, ConnsDistinct
<1>4. FreshOwned'
  <2>1. ASSUME NEW u \in Threads \ {s, w}
        PROVE  /\ Fresh(th'[u]) =>
                     /\ \A l \in GetConnKeys : conn'[l].chan # th'[u].chan
                     /\ \A v \in Threads \ {u} : th'[v].chan # th'[u].chan
               /\ Spawned(th'[u]) =>
                     Serving(LinkOf(u, th[u]), th[u].chan, AsProxy(u))'
               /\ th'[u].dialing \cap th'[u].dialed = {}
               /\ th'[u].pc # "dialing" => th'[u].dialing = {} /\ th'[u].dialed = {}
    <3>1. th'[u] = th[u]
      OBVIOUS
    <3>2. ASSUME Fresh(th[u]), NEW v \in Threads \ {u}
          PROVE  th'[v].chan # th[u].chan
      BY <1>1, <3>2, FreshIsChannel DEF Chans, FreshOwned
    <3>3. Spawned(th[u]) => Serving(LinkOf(u, th[u]), th[u].chan, AsProxy(u))'
      BY <3>1 DEF Chans, FreshOwned, Serving, LinkOf, WayOf, AsProxy
    <3> QED
      BY <3>1, <3>2, <3>3 DEF Chans, FreshOwned
  <2> QED
    BY <1>1, <1>2, <2>1 DEF FreshOwned
<1>5. ASSUME NEW l \in GetConnKeys
      PROVE  (BeingDeleted(l) \/ Serving(l, conn[l].chan, conn[l].isProxy))'
  BY <1>1 DEF Chans, AllServed, BeingDeleted, Serving
<1> QED
  BY <1>2, <1>3, <1>4, <1>5 DEF Chans, AllServed

(* Ways to leave the channels alone.                                       *)
LEMMA QuietGoto ==
    ASSUME ThreadsOK, Chans, NEW t \in Threads,
           NEW p \in Pcs \ {"cleanup", "dialing", "register"}, Goto(t, p),
           th[t].pc \notin {"cleanup", "dialing"}, UNCHANGED <<conn, remotes>>
    PROVE  Chans'
<1>1. Quiet(t)
  BY GoesOn DEF Quiet, Frame, RemotesKept, Dialled, Rested, KeepsDials
<1> QED
  BY <1>1, QuietChans

(* The same with a whole new state,                                        *)
LEMMA QuietBecome ==
    ASSUME ThreadsOK, Chans, NEW t \in Threads, NEW r \in ThreadState,
           Become(t, r), r.pc \notin {"cleanup", "dialing", "register"},
           r.chan = NoChan, r.dialing \subseteq th[t].dialing,
           r.dialed \subseteq th[t].dialed, Dialled(th[t]),
           th[t].pc # "cleanup", UNCHANGED conn, RemotesKept
    PROVE  Chans'
<1>1. Quiet(t)
  BY Becomes DEF Quiet, Frame, Rested
<1> QED
  BY <1>1, QuietChans

(* with the state at rest,                                                 *)
LEMMA QuietIdle ==
    ASSUME ThreadsOK, Chans, NEW t \in Threads, Become(t, Idle),
           th[t].pc \notin {"cleanup", "dialing"}, UNCHANGED <<conn, remotes>>
    PROVE  Chans'
<1>1. /\ Idle \in ThreadState /\ Idle.pc = "idle" /\ Idle.chan = NoChan
      /\ Idle.dialing = {} /\ Idle.dialed = {}
  BY IdleType DEF Idle
<1>2. RemotesKept /\ Dialled(th[t])
  BY DEF RemotesKept, Dialled
<1> HIDE DEF Idle
<1> QED
  BY <1>1, <1>2, QuietBecome

(* and with the state resolve goes on or returns in.                       *)
LEMMA QuietReturn ==
    ASSUME ThreadsOK, Chans, NEW t \in Threads, th[t].pc \in Resolving,
           NEW r \in {Continue(t), Return(t, FALSE)}, Become(t, r),
           Dialled(th[t]), UNCHANGED <<conn, remotes>>
    PROVE  Chans'
<1>1. /\ r \in ThreadState /\ r.chan = NoChan
      /\ r.pc \in {"link", "loop", "setStatus"} /\ KeepsDials(r, th[t])
  BY ReturnTypes
<1>2. RemotesKept /\ th[t].pc # "cleanup"
  BY DEF RemotesKept, Resolving, ThroughProxy
<1> QED
  BY <1>1, <1>2, QuietBecome DEF KeepsDials

(* The steps of a session's loops, and the beginning of a command.         *)
LEMMA LoopChans ==
    ASSUME TypeInv, Chans, NEW s \in Sessions,
           \/ \E op \in DOMAIN Plan : Start(s, op)
           \/ TakeKeys(s) \/ Pick(s) \/ EndLoop(s) \/ SkipConnected(s)
           \/ LoadHost(s) \/ ProxiesResolve(s) \/ Finish(s)
    PROVE  Chans'
<1> DEFINE q == th[s]
<1>0. /\ s \in Threads /\ th \in [Threads -> ThreadState] /\ q \in ThreadState
      /\ LocalOK(s, q) /\ ThreadsOK
  BY DEF Threads, TypeInv, ThreadsOK
<1> USE DEF At
<1>1. q.dialing \in SUBSET Ids /\ q.dialed \in SUBSET Ids
  BY <1>0 DEF ThreadState
<1>2. ASSUME NEW p \in {"keys", "wait"}, NEW op \in DOMAIN Plan, NEW n \in Nat,
             q.pc \in {"idle", "loop"}, UNCHANGED <<conn, remotes>>,
             \/ Become(s, [Idle EXCEPT !.pc = p, !.op = op, !.stage = n])
             \/ Become(s, [Idle EXCEPT !.op = op, !.pc = p, !.stage = n])
      PROVE  Chans'
  <2> DEFINE r == [Idle EXCEPT !.pc = p, !.op = op, !.stage = n]
  <2>1. r \in ThreadState
    BY IdleType DEF ThreadState, Pcs
  <2>2. r.pc = p /\ r.chan = NoChan /\ r.dialing = {} /\ r.dialed = {}
    BY DEF Idle
  <2>3. Become(s, r)
    BY <1>2 DEF Become, Idle
  <2>4. RemotesKept /\ Dialled(q)
    BY <1>2 DEF RemotesKept, Dialled
  <2> HIDE DEF r
  <2> QED
    BY <1>0, <1>2, <2>1, <2>2, <2>3, <2>4, QuietBecome
<1>3. CASE \E op \in DOMAIN Plan : Start(s, op)
  BY <1>2, <1>3 DEF Start, stateVars
<1>4. CASE EndLoop(s)
  <2>1. /\ q.op \in DOMAIN Plan /\ q.stage \in Nat /\ q.stage + 1 \in Nat
        /\ q.pc = "loop"
    BY <1>0, <1>4 DEF EndLoop, LocalOK, ThreadState
  <2>2. \/ Become(s, [Idle EXCEPT !.op = q.op, !.pc = "keys", !.stage = q.stage + 1])
        \/ Become(s, [Idle EXCEPT !.op = q.op, !.pc = "wait", !.stage = q.stage])
    BY <1>4 DEF EndLoop
  <2> QED
    BY <1>2, <1>4, <2>1, <2>2 DEF EndLoop, stateVars
<1>5. CASE TakeKeys(s) \/ Pick(s)
  <2>1. /\ q.pc \in {"keys", "loop"} /\ Frame(s) /\ UNCHANGED <<conn, remotes>>
        /\ th'[s].pc \in {"loop", "skipConnected", "connExists", "hostExists"}
        /\ th'[s].chan = q.chan /\ KeepsDials(th'[s], q)
    <3>1. CASE TakeKeys(s)
      BY <1>0, <3>1 DEF TakeKeys, Frame, KeepsDials, ThreadState, stateVars
    <3>2. CASE Pick(s)
      <4>1. PICK x \in q.todo :
               th' = [th EXCEPT ![s].at = x, ![s].todo = @ \ {x},
                   ![s].pc = CASE Stage(s) = "connect" -> "skipConnected"
                               [] Stage(s) \in Teardown \cup {"run"} -> "connExists"
                               [] OTHER -> "hostExists"]
        BY <3>2 DEF Pick
      <4> QED
        BY <1>0, <3>2, <4>1 DEF Pick, Frame, KeepsDials, ThreadState, stateVars
    <3> QED
      BY <1>5, <3>1, <3>2
  <2>2. Quiet(s)
    BY <2>1 DEF Quiet, RemotesKept, Dialled, Rested, KeepsDials
  <2> QED
    BY <1>0, <2>2, QuietChans
<1>6. CASE Finish(s)
  <2>1. q.pc = "wait" /\ Become(s, Idle) /\ UNCHANGED <<conn, remotes>>
    BY <1>6 DEF Finish, ClearHostInfo, Exit, stateVars
  <2> QED
    BY <1>0, <2>1, QuietIdle
<1>7. CASE SkipConnected(s)
  BY <1>0, <1>7, QuietGoto DEF SkipConnected, stateVars, Pcs
<1>8. CASE LoadHost(s)
  BY <1>0, <1>8, QuietGoto DEF LoadHost, SetHostInfo, Pcs
<1>9. CASE ProxiesResolve(s)
  <2>1. q.pc = "getHostInfo" /\ UNCHANGED <<conn, remotes>>
    BY <1>9 DEF ProxiesResolve, stateVars
  <2>2. CASE Goto(s, "loop")
    BY <1>0, <2>1, <2>2, QuietGoto DEF Pcs
  <2>3. ASSUME NEW e, Become(s, [Begin(q) EXCEPT !.seen = e]) PROVE Chans'
    <3> DEFINE r == [[[q EXCEPT !.pc = "link"] EXCEPT !.idx = 1] EXCEPT !.seen = e]
    <3>1. Become(s, r)
      BY <2>3 DEF Begin
    <3>2. /\ r.pc = "link" /\ r.chan = q.chan /\ r.dialing = q.dialing
          /\ r.dialed = q.dialed
      BY <1>0 DEF ThreadState
    <3> HIDE DEF r
    <3>3. Frame(s) /\ th'[s] = r
      BY <1>0, <3>1 DEF Become, Frame
    <3>4. Quiet(s)
      BY <2>1, <3>2, <3>3 DEF Quiet, RemotesKept, Dialled, Rested
    <3> QED
      BY <1>0, <3>4, QuietChans
  <2> QED
    BY <1>9, <2>2, <2>3 DEF ProxiesResolve
<1> QED
  BY <1>3, <1>4, <1>5, <1>6, <1>7, <1>8, <1>9

(* A session starts a worker, which was at rest.                           *)
LEMMA StartingChans ==
    ASSUME TypeInv, Chans, WorkersOK, NEW s \in Sessions,
           Acquire(s) \/ CleanHost(s)
    PROVE  Chans'
<1> DEFINE q == th[s]
           w == <<s, q.at>>
<1>0. /\ s \in Threads /\ ThreadsOK /\ LocalOK(s, q) /\ q \in ThreadState
      /\ q.pc \in {"acquire", "getHostInfo"} /\ UNCHANGED <<conn, remotes>>
  BY DEF Threads, TypeInv, ThreadsOK, Acquire, CleanHost, At, stateVars
<1>1. q.pc \in AboutHost /\ q.at \in Names
  BY <1>0 DEF LocalOK, AboutHost, Pcs
<1>2. w \in Threads /\ th[w].pc = "idle"
  BY <1>1 DEF Threads, Workers, WorkersOK
<1>3. ASSUME NEW op \in DOMAIN Plan, NEW p \in {"hostExists", "connExists", "deleteHost"},
             th' = [th EXCEPT ![s].pc = "loop",
                        ![w] = [Idle EXCEPT !.op = op, !.at = q.at, !.pc = p]]
      PROVE  Chans'
  <2>1. q.pc \notin Holding \cup {"idle"}
    BY <1>0 DEF Holding
  <2>2. /\ \A u \in Threads \ {s, w} : th'[u] = th[u]
        /\ th'[s].pc = "loop" /\ th'[w].pc = p
        /\ th'[s].chan = NoChan /\ th'[w].chan = NoChan
        /\ KeepsDials(th'[s], q) /\ KeepsDials(th'[w], Idle)
    BY <1>0, <1>1, <1>3, <2>1, StartsOK
  <2>3. ASSUME NEW r \in ThreadState
        PROVE  /\ [r EXCEPT !.chan = NoChan].chan = NoChan
               /\ [r EXCEPT !.chan = NoChan].dialing = r.dialing
               /\ [r EXCEPT !.chan = NoChan].dialed = r.dialed
    BY DEF ThreadState
  <2>4. th[w] \in ThreadState /\ Idle.dialing = {} /\ Idle.dialed = {}
    BY <1>0, <1>2 DEF ThreadsOK, Idle
  <2>5. /\ Rested(th'[s], [q EXCEPT !.chan = NoChan])
        /\ Rested(th'[w], [th[w] EXCEPT !.chan = NoChan])
    BY <1>0, <2>2, <2>3, <2>4 DEF Rested, KeepsDials
  <2> QED
    BY <1>0, <1>2, <2>2, <2>5, StartedChans
<1>4. CASE Acquire(s)
  <2>1. /\ q.pc = "acquire" /\ q.op \in DOMAIN Plan
        /\ (IF q.op = "connect" THEN "hostExists" ELSE "connExists")
              \in {"hostExists", "connExists", "deleteHost"}
    BY <1>0, <1>4 DEF Acquire, At, LocalOK
  <2> QED
    BY <1>3, <1>4, <2>1 DEF Acquire
<1>5. CASE CleanHost(s)
  <2>1. /\ "clean" \in DOMAIN Plan /\ q.pc = "getHostInfo"
        /\ (IF targets[q.at].connectedOK THEN "connExists" ELSE "deleteHost")
              \in {"hostExists", "connExists", "deleteHost"}
    BY <1>5, PlanFacts DEF CleanHost, At
  <2>2. CASE Goto(s, "loop")
    BY <1>0, <2>1, <2>2, QuietGoto DEF Pcs
  <2> QED
    BY <1>3, <1>5, <2>1, <2>2 DEF CleanHost
<1> QED
  BY <1>4, <1>5

(* The steps about a host or a connection that take nothing.               *)
LEMMA CommonChans ==
    ASSUME TypeInv, Chans, NEW t \in Threads,
           \/ AskHostExists(t) \/ HostGone(t) \/ AskConnExists(t) \/ ConnGone(t)
           \/ DeleteHost(t) \/ SetStatus(t) \/ \E ok \in BOOLEAN : RunAnswered(t, ok)
           \/ WorkerResolves(t)
    PROVE  Chans'
<1> DEFINE q == th[t]
<1>0. ThreadsOK /\ q \in ThreadState /\ LocalOK(t, q) /\ th \in [Threads -> ThreadState]
  BY DEF TypeInv, ThreadsOK
<1> USE DEF At
<1>1. UNCHANGED <<conn, remotes>>
  BY DEF AskHostExists, HostGone, AskConnExists, ConnGone, DeleteHost, SetStatus,
         RunAnswered, WorkerResolves, stateVars, Panic, Exit, DeleteHostInfo,
         SetConnectionStatus, SetRunStatus
<1>2. q.pc \in {"hostExists", "getHostInfo", "connExists", "getConnInfo",
                "deleteHost", "setStatus", "awaitRun"}
  BY DEF AskHostExists, HostGone, AskConnExists, ConnGone, DeleteHost, SetStatus,
         RunAnswered, WorkerResolves
<1>3. CASE th' = th
  BY <1>1, <1>3, StillChans DEF RemotesKept
<1>4. ASSUME NEW p \in {"loop", "getHostInfo", "setHostInfo", "getConnInfo",
                        "deleteHost", "connExists"}, Goto(t, p)
      PROVE  Chans'
  <2>1. p \in Pcs \ {"cleanup", "dialing", "register"}
    BY DEF Pcs
  <2> QED
    BY <1>0, <1>1, <1>2, <1>4, <2>1, QuietGoto
<1>5. CASE Become(t, Idle)
  BY <1>0, <1>1, <1>2, <1>5, QuietIdle
<1>6. CASE WorkerResolves(t)
  <2> DEFINE r == [[q EXCEPT !.pc = "link"] EXCEPT !.idx = 1]
  <2>1. Become(t, r)
    BY <1>6 DEF WorkerResolves, Begin
  <2>2. /\ r \in ThreadState /\ r.pc = "link" /\ r.chan = q.chan
        /\ r.dialing = q.dialing /\ r.dialed = q.dialed
    BY <1>0 DEF ThreadState, Pcs
  <2>3. q.chan = NoChan
    BY <1>0, <1>2 DEF LocalOK, Holding
  <2>4. RemotesKept /\ Dialled(q)
    BY <1>1, <1>2 DEF RemotesKept, Dialled
  <2> HIDE DEF r
  <2> QED
    BY <1>0, <1>1, <1>2, <2>1, <2>2, <2>3, <2>4, QuietBecome
<1>7. CASE AskHostExists(t)
  BY <1>3, <1>4, <1>5, <1>7 DEF AskHostExists
<1>8. CASE AskConnExists(t)
  BY <1>4, <1>5, <1>8 DEF AskConnExists
<1>9. CASE HostGone(t) \/ ConnGone(t)
  BY <1>3, <1>9 DEF HostGone, ConnGone
<1>10. CASE DeleteHost(t) \/ SetStatus(t) \/ \E ok \in BOOLEAN : RunAnswered(t, ok)
  BY <1>4, <1>5, <1>10 DEF DeleteHost, SetStatus, RunAnswered
<1> QED
  BY <1>6, <1>7, <1>8, <1>9, <1>10

(* The steps that take a listed channel, and the ones that end its use.    *)
LEMMA ConnChans ==
    ASSUME BastionConns = 1, TypeInv, Chans, NEW t \in Threads,
           \/ (t \in Sessions /\ SessionGetsConn(t)) \/ DisconnectGetsConn(t)
           \/ RunGetsConn(t) \/ SendCleanup(t) \/ CleanupDone(t) \/ SendRun(t)
    PROVE  Chans'
<1> DEFINE q == th[t]
<1>0. /\ ThreadsOK /\ TablesOK /\ th \in [Threads -> ThreadState]
      /\ q \in ThreadState /\ LocalOK(t, q)
  BY DEF TypeInv, ThreadsOK
<1> USE DEF At
<1>1. ASSUME NEW p \in {"cleanup", "sendRun"}, NEW n, ConnExists(q.at),
             q.pc = "getConnInfo", UNCHANGED <<conn, remotes>>,
             \/ th' = [th EXCEPT ![t].pc = p, ![t].chan = conn[q.at].chan,
                                 ![t].left = n]
             \/ th' = [th EXCEPT ![t].pc = p, ![t].chan = conn[q.at].chan]
             \/ th' = [th EXCEPT ![t].pc = p, ![t].left = n,
                                 ![t].chan = conn[q.at].chan]
      PROVE  Chans'
  <2>1. q.at \in GetConnKeys
    BY <1>0, <1>1 DEF GetConnKeys, LocalOK, AboutHost, Pcs
  <2>2. /\ Frame(t) /\ th'[t].pc = p /\ th'[t].chan = conn[q.at].chan
        /\ th'[t].at = q.at /\ KeepsDials(th'[t], q)
    BY <1>0, <1>1 DEF Frame, ThreadState, KeepsDials
  <2>3. Takes(t)
    BY <1>1, <2>1, <2>2 DEF Takes, RemotesKept
  <2> QED
    BY <1>0, <2>3, TakesChans
<1>2. CASE t \in Sessions /\ SessionGetsConn(t)
  <2>1. q.pc = "getConnInfo" /\ ConnExists(q.at) /\ UNCHANGED <<conn, remotes>>
    BY <1>2 DEF SessionGetsConn, stateVars
  <2>2. CASE Goto(t, "loop") \/ Goto(t, "acquire")
    BY <1>0, <2>1, <2>2, QuietGoto DEF Pcs
  <2>3. CASE th' = [th EXCEPT ![t].pc = "cleanup", ![t].chan = conn[q.at].chan,
                    ![t].left = IF Stage(t) = "directProxies"
                                THEN BastionConns ELSE 1]
    BY <1>1, <2>1, <2>3
  <2> QED
    BY <1>2, <2>2, <2>3 DEF SessionGetsConn
<1>3. CASE DisconnectGetsConn(t)
  BY <1>1, <1>3 DEF DisconnectGetsConn, stateVars
<1>4. CASE RunGetsConn(t)
  BY <1>1, <1>4 DEF RunGetsConn, stateVars
<1>5. CASE SendRun(t)
  <2>1. /\ q.pc = "sendRun" /\ UNCHANGED <<conn, remotes>> /\ Frame(t)
        /\ th'[t].pc = "awaitRun" /\ th'[t].chan = NoChan /\ KeepsDials(th'[t], q)
    BY <1>0, <1>5 DEF SendRun, stateVars, Frame, ThreadState, KeepsDials
  <2>2. Quiet(t)
    BY <2>1 DEF Quiet, RemotesKept, Dialled, Rested, KeepsDials
  <2> QED
    BY <1>0, <2>2, QuietChans
<1>6. CASE SendCleanup(t) \/ CleanupDone(t)
  BY <1>0, <1>6, CleansChans, DeletesChans
<1> QED
  BY <1>2, <1>3, <1>4, <1>5, <1>6

(* The steps of resolve.                                                   *)
LEMMA ResolveChans ==
    ASSUME BastionConns = 1, TypeInv, Chans, NEW t \in Threads, ResolveStep(t)
    PROVE  Chans'
<1> DEFINE q == th[t]
<1>0. /\ ThreadsOK /\ TablesOK /\ th \in [Threads -> ThreadState]
      /\ q \in ThreadState /\ LocalOK(t, q)
  BY DEF TypeInv, ThreadsOK
<1> USE DEF At
<1>1. q.pc # "dialing" => q.dialing = {} /\ q.dialed = {}
  BY DEF Chans, FreshOwned
<1>2. ASSUME NEW r \in {Continue(t), Return(t, FALSE)}, Become(t, r),
             q.pc \in {"link", "proxyExists", "awaitClient", "dialing"}, Dialled(q),
             UNCHANGED <<conn, remotes>>
      PROVE  Chans'
  BY <1>0, <1>2, QuietReturn DEF Resolving, ThroughProxy
<1>3. ASSUME NEW p \in {"proxyExists", "getProxy", "countProxy"}, Goto(t, p),
             q.pc \in {"link", "proxyExists", "awaitClient"},
             UNCHANGED <<conn, remotes>>
      PROVE  Chans'
  <2>1. p \in Pcs \ {"cleanup", "dialing", "register"}
    BY DEF Pcs
  <2> QED
    BY <1>0, <1>3, <2>1, QuietGoto
<1>4. CASE ExamineLink(t)
  <2>1. q.pc = "link" /\ UNCHANGED <<conn, remotes>> /\ Dialled(q)
    BY <1>4 DEF ExamineLink, stateVars, Dialled
  <2>2. CASE Become(t, Continue(t)) \/ Goto(t, "proxyExists")
    BY <1>2, <1>3, <2>1, <2>2
  <2>3. CASE /\ ChannelLeft
             /\ th' = [th EXCEPT ![t].pc = "dialing", ![t].chan = FreshChan,
                                 ![t].dialing = Ids]
    <3>1. /\ Frame(t) /\ th'[t].pc = "dialing" /\ th'[t].chan = FreshChan
          /\ th'[t].dialed = q.dialed
      BY <1>0, <2>3 DEF Frame, ThreadState
    <3>2. Allocates(t)
      BY <2>1, <2>3, <3>1 DEF Allocates, RemotesKept
    <3> QED
      BY <1>0, <3>2, AllocatesChans
  <2> QED
    BY <1>4, <2>2, <2>3 DEF ExamineLink
<1>5. CASE ProxyExists(t)
  <2>1. q.pc = "proxyExists" /\ UNCHANGED <<conn, remotes>> /\ Dialled(q)
    BY <1>5 DEF ProxyExists, stateVars, Dialled
  <2> QED
    BY <1>2, <1>3, <1>5, <2>1 DEF ProxyExists
<1>6. CASE GetProxy(t)
  <2>1. /\ q.pc = "getProxy" /\ UNCHANGED <<conn, remotes>> /\ Proxy(t) \in Names
    BY <1>0, <1>6, LinkType
       DEF GetProxy, stateVars, Panic, Resolving, ThroughProxy
  <2>2. CASE th' = th
    BY <2>1, <2>2, StillChans DEF RemotesKept
  <2>3. CASE /\ ConnExists(Proxy(t))
             /\ th' = [th EXCEPT ![t].pc = "ask", ![t].chan = conn[Proxy(t)].chan]
    <3>1. /\ Frame(t) /\ th'[t].pc = "ask" /\ th'[t].chan = conn[Proxy(t)].chan
          /\ KeepsDials(th'[t], q)
      BY <1>0, <2>3 DEF Frame, ThreadState, KeepsDials
    <3>2. Proxy(t) \in GetConnKeys
      BY <2>1, <2>3 DEF GetConnKeys
    <3>3. Takes(t)
      BY <2>1, <3>1, <3>2 DEF Takes, RemotesKept
    <3> QED
      BY <1>0, <3>3, TakesChans
  <2> QED
    BY <1>6, <2>2, <2>3 DEF GetProxy
<1>7. CASE AskProxy(t)
  <2>1. /\ q.pc = "ask" /\ UNCHANGED <<conn, remotes>> /\ Frame(t)
        /\ th'[t].pc = "awaitClient" /\ th'[t].chan = NoChan /\ KeepsDials(th'[t], q)
    BY <1>0, <1>7 DEF AskProxy, stateVars, Frame, ThreadState, KeepsDials
  <2>2. Quiet(t)
    BY <2>1 DEF Quiet, RemotesKept, Dialled, Rested, KeepsDials
  <2> QED
    BY <1>0, <2>2, QuietChans
<1>8. CASE ProxyAnswers(t) \/ ProxyRefuses(t)
  <2>1. q.pc = "awaitClient" /\ UNCHANGED <<conn, remotes>> /\ Dialled(q)
    BY <1>8 DEF ProxyAnswers, ProxyRefuses, stateVars, Dialled, Exit
  <2>2. Goto(t, "countProxy") \/ th' = th \/ Become(t, Return(t, FALSE))
    BY <1>8 DEF ProxyAnswers, ProxyRefuses
  <2>3. CASE th' = th
    BY <2>1, <2>3, StillChans DEF RemotesKept
  <2> QED
    BY <1>2, <1>3, <2>1, <2>2, <2>3
<1>9. CASE CountProxy(t)
  <2>1. q.pc = "countProxy" /\ UNCHANGED conn
    BY <1>9 DEF CountProxy, IncProxyCount, Panic, stateVars
  <2>2. CASE UNCHANGED <<remotes, th>>
    BY <2>1, <2>2, StillChans DEF RemotesKept
  <2>3. CASE /\ ChannelLeft /\ Spawn(Link(t), FreshChan, 1, AsProxy(t))
             /\ th' = [th EXCEPT ![t].pc = "register", ![t].chan = FreshChan]
    <3>1. /\ Frame(t) /\ th'[t].pc = "register" /\ th'[t].chan = FreshChan
          /\ KeepsDials(th'[t], q) /\ th'[t].at = q.at /\ th'[t].idx = q.idx
      BY <1>0, <2>3 DEF Frame, ThreadState, KeepsDials
    <3>2. LinkOf(t, th'[t]) = Link(t)
      BY <3>1 DEF Link, LinkOf, Way, WayOf, AsProxy
    <3> DEFINE r == [link |-> Link(t), chan |-> FreshChan, id |-> 1,
                     isProxy |-> AsProxy(t), asking |-> FALSE]
    <3>3. r \in remotes' /\ remotes \subseteq remotes'
      BY <2>3 DEF Spawn
    <3>4. r.chan = FreshChan /\ r.link = LinkOf(t, th'[t]) /\ r.isProxy = AsProxy(t)
      BY <3>2
    <3> HIDE DEF r
    <3>5. Allocates(t)
      BY <2>1, <2>3, <3>1, <3>3, <3>4 DEF Allocates, RemotesKept
    <3> QED
      BY <1>0, <3>5, AllocatesChans
  <2> QED
    BY <1>9, <2>2, <2>3 DEF CountProxy
<1>10. CASE Register(t)
  <2>1. q.pc = "register" /\ Become(t, Continue(t)) /\ UNCHANGED remotes
    BY <1>10 DEF Register
  <2>2. /\ Continue(t) \in ThreadState /\ Continue(t).chan = NoChan
        /\ Continue(t).pc \in {"link", "loop", "setStatus"}
        /\ KeepsDials(Continue(t), q)
    BY <1>0, <2>1, ReturnTypes DEF Resolving, ThroughProxy
  <2>3. th'[t] = Continue(t) /\ Frame(t)
    BY <1>0, <2>1, <2>2, Becomes DEF Frame
  <2>4. \E d \in BOOLEAN :
           SetConnInfo(Link(t), [chan |-> q.chan, isProxy |-> AsProxy(t),
                                 isDirect |-> d])
    BY <1>10 DEF Register
  <2>5. Lists(t)
    BY <1>1, <2>1, <2>2, <2>3, <2>4 DEF Lists, Spawned, Dialled, KeepsDials
  <2> QED
    BY <1>0, <2>5, ListsChans
<1>11. CASE DialsDone(t)
  BY <1>2, <1>11 DEF DialsDone, stateVars, Dialled
<1>12. CASE AskPassword(t)
  BY <1>12, StillChans DEF AskPassword, SetRequiresPw, Panic, stateVars, RemotesKept
<1>13. ASSUME NEW i \in Ids, DialRegisters(t, i) PROVE Chans'
  <2>1. /\ q.pc = "dialing" /\ i \in q.dialed /\ Frame(t) /\ UNCHANGED remotes
        /\ th'[t].pc = "dialing" /\ th'[t].chan = q.chan
        /\ th'[t].dialing = q.dialing /\ th'[t].dialed = q.dialed \ {i}
    BY <1>0, <1>13 DEF DialRegisters, Frame, ThreadState
  <2>2. q.dialed \subseteq {1} /\ q.dialing \subseteq {1} /\ i = 1
    BY <1>0 DEF ThreadState, Ids
  <2>3. q.dialing = {} /\ q.dialed \ {i} = {}
    BY <2>1, <2>2 DEF Chans, FreshOwned
  <2>4. \E d \in BOOLEAN :
           SetConnInfo(Link(t), [chan |-> q.chan, isProxy |-> AsProxy(t),
                                 isDirect |-> d])
    BY <1>13 DEF DialRegisters
  <2>5. Lists(t)
    BY <2>1, <2>3, <2>4 DEF Lists, Spawned, Dialled
  <2> QED
    BY <1>0, <2>5, ListsChans
<1>14. CASE \E i \in Ids : DialSucceeds(t, i) \/ DialFails(t, i)
  BY <1>0, <1>14, DialChans
<1> QED
  BY <1>4, <1>5, <1>6, <1>7, <1>8, <1>9, <1>10, <1>11, <1>12, <1>13, <1>14
     DEF ResolveStep

-----------------------------------------------------------------------------
(* A goroutine that is about a host moves; a session stays in its loop.    *)
Moves(t) ==
    /\ Frame(t) /\ th[t].pc \in AboutHost
    /\ t \in Sessions => /\ KeepsLoop(th'[t], th[t])
                         /\ th'[t].pc \notin {"idle", "keys"}

(* Every step but those of a session's plan is such a move.                *)
LEMMA StepsMove ==
    ASSUME TypeInv, NEW t \in Threads, th' # th,
           \/ CommonStep(t) \/ (t \in Workers /\ WorkerStep(t))
           \/ t \in Sessions /\ (SkipConnected(t) \/ LoadHost(t)
                                    \/ ProxiesResolve(t) \/ SessionGetsConn(t))
    PROVE  Moves(t)
<1> DEFINE q == th[t]
<1>0. /\ ThreadsOK /\ TablesOK /\ th \in [Threads -> ThreadState]
      /\ q \in ThreadState /\ LocalOK(t, q)
  BY DEF TypeInv, ThreadsOK
<1>1. t \in Workers => t \notin Sessions
  BY ThreadsAssumption
<1> USE DEF At
<1>2. ASSUME NEW p \in AboutHost \cup {"loop"}, Goto(t, p), q.pc \in AboutHost
      PROVE  Moves(t)
  <2>1. p \in Pcs /\ p \notin {"idle", "keys"}
    BY DEF AboutHost, Pcs
  <2> QED
    BY <1>0, <1>2, <2>1, GoesOn DEF Moves, Frame
<1>3. ASSUME Become(t, Idle), q.pc \in AboutHost, t \notin Sessions PROVE Moves(t)
  BY <1>0, <1>3 DEF Become, Moves, Frame
<1>4. ASSUME NEW r \in {Continue(t), Return(t, FALSE)}, Become(t, r),
             q.pc \in Resolving
      PROVE  Moves(t)
  <2>1. /\ r \in ThreadState /\ r.pc \in {"link", "loop", "setStatus"}
        /\ KeepsLoop(r, q)
    BY <1>0, <1>4, ReturnTypes
  <2>2. Resolving \subseteq AboutHost
    BY DEF Resolving, ThroughProxy, AboutHost, Pcs
  <2> QED
    BY <1>0, <1>4, <2>1, <2>2, Becomes DEF Moves, Frame
<1>5. ASSUME Frame(t), q.pc \in AboutHost, th'[t].pc \in AboutHost \cup {"loop"},
             KeepsLoop(th'[t], q)
      PROVE  Moves(t)
  BY <1>5 DEF Moves, AboutHost
<1> USE DEF AboutHost, Pcs
<1>6. CASE AskHostExists(t)
  BY <1>1, <1>2, <1>3, <1>6 DEF AskHostExists
<1>7. CASE AskConnExists(t)
  BY <1>1, <1>2, <1>3, <1>7 DEF AskConnExists
<1>8. CASE HostGone(t) \/ ConnGone(t)
  BY <1>8 DEF HostGone, ConnGone
<1>9. CASE DisconnectGetsConn(t) \/ RunGetsConn(t)
  <2>1. q.pc = "getConnInfo"
    BY <1>9 DEF DisconnectGetsConn, RunGetsConn
  <2>2. /\ Frame(t) /\ th'[t].pc \in {"cleanup", "sendRun"}
        /\ KeepsLoop(th'[t], q)
    BY <1>0, <1>9 DEF DisconnectGetsConn, RunGetsConn, Frame, KeepsLoop, ThreadState
  <2> QED
    BY <1>5, <2>1, <2>2
<1>10. CASE SendCleanup(t) \/ SendRun(t)
  <2>1. q.pc \in {"cleanup", "sendRun"}
    BY <1>10 DEF SendCleanup, SendRun
  <2>2. /\ Frame(t) /\ th'[t].pc \in {"cleanup", "awaitRun"}
        /\ KeepsLoop(th'[t], q)
    BY <1>0, <1>10 DEF SendCleanup, SendRun, Frame, KeepsLoop, ThreadState
  <2> QED
    BY <1>5, <2>1, <2>2
<1>11. CASE CleanupDone(t)
  <2>1. q.pc = "cleanup"
    BY <1>11 DEF CleanupDone
  <2>2. CASE \E p \in {"loop", "deleteHost"} :
                th' = [th EXCEPT ![t].pc = p, ![t].chan = NoChan]
    <3>1. /\ Frame(t) /\ th'[t].pc \in {"loop", "deleteHost"}
          /\ KeepsLoop(th'[t], q)
      BY <1>0, <2>2 DEF Frame, KeepsLoop, ThreadState
    <3> QED
      BY <1>5, <2>1, <3>1
  <2>3. CASE t \notin Sessions /\ Become(t, Idle)
    BY <1>3, <2>1, <2>3
  <2> QED
    BY <1>1, <1>11, <2>2, <2>3 DEF CleanupDone
<1>12. CASE ResolveStep(t)
  <2> USE DEF Resolving, ThroughProxy
  <2>1. q.pc \in Resolving
    BY <1>12 DEF ResolveStep, ExamineLink, ProxyExists, GetProxy, AskProxy,
                 ProxyAnswers, ProxyRefuses, CountProxy, Register, DialsDone,
                 AskPassword, DialSucceeds, DialFails, DialRegisters
  <2>2. CASE Become(t, Continue(t)) \/ Become(t, Return(t, FALSE))
    BY <1>4, <2>1, <2>2
  <2>3. CASE \E p \in {"proxyExists", "getProxy", "countProxy"} : Goto(t, p)
    BY <1>2, <2>1, <2>3
  <2>4. ASSUME NEW p \in {"ask", "awaitClient", "register"}, NEW c,
               th' = [th EXCEPT ![t].pc = p, ![t].chan = c]
        PROVE  Moves(t)
    <3>1. Frame(t) /\ th'[t].pc = p /\ KeepsLoop(th'[t], q)
      BY <1>0, <2>4 DEF Frame, KeepsLoop, ThreadState
    <3> QED
      BY <1>5, <2>1, <3>1
  <2>5. ASSUME NEW c, NEW d,
               th' = [th EXCEPT ![t].pc = "dialing", ![t].chan = c,
                                ![t].dialing = d]
        PROVE  Moves(t)
    <3>1. Frame(t) /\ th'[t].pc = "dialing" /\ KeepsLoop(th'[t], q)
      BY <1>0, <2>5 DEF Frame, KeepsLoop, ThreadState
    <3> QED
      BY <1>5, <2>1, <3>1
  <2>6. ASSUME NEW d, NEW e, q.pc = "dialing",
               \/ th' = [th EXCEPT ![t].dialing = d]
               \/ th' = [th EXCEPT ![t].dialed = d]
               \/ th' = [th EXCEPT ![t].dialing = d, ![t].dialed = e]
        PROVE  Moves(t)
    <3>1. Frame(t) /\ th'[t].pc = "dialing" /\ KeepsLoop(th'[t], q)
      BY <1>0, <2>6 DEF Frame, KeepsLoop, ThreadState
    <3> QED
      BY <1>5, <2>1, <3>1
  <2>7. ASSUME NEW i \in Ids,
               DialSucceeds(t, i) \/ DialFails(t, i) \/ DialRegisters(t, i)
        PROVE  Moves(t)
    BY <2>6, <2>7 DEF DialSucceeds, DialFails, DialRegisters
  <2> QED
    BY <1>12, <2>2, <2>3, <2>4, <2>5, <2>7
       DEF ResolveStep, ExamineLink, ProxyExists, GetProxy, AskProxy,
           ProxyAnswers, ProxyRefuses, CountProxy, Register, DialsDone, AskPassword
<1>13. CASE t \in Workers /\ (DeleteHost(t) \/ SetStatus(t)
                                 \/ \E ok \in BOOLEAN : RunAnswered(t, ok))
  BY <1>1, <1>2, <1>3, <1>13 DEF DeleteHost, SetStatus, RunAnswered
<1>14. CASE t \in Workers /\ WorkerResolves(t)
  BY <1>0, <1>1, <1>14 DEF WorkerResolves, Become, Moves, Frame
<1>15. CASE SkipConnected(t) \/ LoadHost(t)
  BY <1>2, <1>15 DEF SkipConnected, LoadHost
<1>16. CASE ProxiesResolve(t)
  <2>1. q.pc = "getHostInfo"
    BY <1>16 DEF ProxiesResolve
  <2>2. ASSUME NEW e, Become(t, [Begin(q) EXCEPT !.seen = e]) PROVE Moves(t)
    <3>1. Frame(t) /\ th'[t].pc = "link" /\ KeepsLoop(th'[t], q)
      BY <1>0, <2>2 DEF Become, Begin, Frame, KeepsLoop, ThreadState
    <3> QED
      BY <1>5, <2>1, <3>1
  <2> QED
    BY <1>2, <1>16, <2>1, <2>2 DEF ProxiesResolve
<1>17. CASE SessionGetsConn(t)
  <2>1. q.pc = "getConnInfo"
    BY <1>17 DEF SessionGetsConn
  <2>2. ASSUME NEW c, NEW n,
               th' = [th EXCEPT ![t].pc = "cleanup", ![t].chan = c, ![t].left = n]
        PROVE  Moves(t)
    <3>1. Frame(t) /\ th'[t].pc = "cleanup" /\ KeepsLoop(th'[t], q)
      BY <1>0, <2>2 DEF Frame, KeepsLoop, ThreadState
    <3> QED
      BY <1>5, <2>1, <3>1
  <2> QED
    BY <1>2, <1>17, <2>1, <2>2 DEF SessionGetsConn
<1> QED
  BY <1>6, <1>7, <1>8, <1>9, <1>10, <1>11, <1>12, <1>13, <1>14, <1>15, <1>16, <1>17
     DEF CommonStep, WorkerStep

(* A session that moves stays in its loop, and a worker was at work.       *)
LEMMA MovesWorkers ==
    ASSUME WorkersOK, NEW t \in Threads, Moves(t)
    PROVE  WorkersOK'
<1>1. ASSUME NEW s \in Sessions
      PROVE  /\ th[s].pc \in AboutHost /\ s = t => th[s].at \notin th[s].todo
             /\ th'[s].pc \in AboutHost => th'[s].at \notin th'[s].todo
             /\ KeepsLoop(th'[s], th[s])
  <2>1. CASE s = t
    BY <2>1 DEF Moves, WorkersOK, KeepsLoop
  <2>2. CASE s # t
    BY <2>2 DEF Moves, Frame, WorkersOK, KeepsLoop, Threads
  <2> QED
    BY <2>1, <2>2
<1>2. ASSUME NEW s \in Sessions, NEW x \in Names, th'[<<s, x>>].pc # "idle"
      PROVE  /\ th'[s].pc \notin {"idle", "keys"} /\ x \notin th'[s].todo
             /\ th'[s].pc \in AboutHost => th'[s].at # x
             /\ th'[s].stage = Len(Plan[th'[s].op])
  <2>1. s \in Threads /\ <<s, x>> \in Threads /\ <<s, x>> # s
    BY ThreadsAssumption DEF Threads, Workers
  <2>2. th[<<s, x>>].pc # "idle"
    BY <1>2, <2>1 DEF Moves, Frame, AboutHost
  <2>3. /\ th[s].pc \notin {"idle", "keys"} /\ x \notin th[s].todo
        /\ th[s].pc \in AboutHost => th[s].at # x
        /\ th[s].stage = Len(Plan[th[s].op])
    BY <2>2 DEF WorkersOK
  <2>4. CASE s = t
    BY <1>1, <2>3, <2>4 DEF Moves, KeepsLoop
  <2>5. CASE s # t
    BY <2>1, <2>3, <2>5 DEF Moves, Frame
  <2> QED
    BY <2>4, <2>5
<1> QED
  BY <1>1, <1>2 DEF WorkersOK

(* A session that goes on in its plan has no worker at work, or goes to    *)
(* another host, or waits.                                                 *)
LEMMA LoopWorkers ==
    ASSUME TypeInv, WorkersOK, NEW s \in Sessions,
           \/ \E op \in DOMAIN Plan : Start(s, op)
           \/ TakeKeys(s) \/ Pick(s) \/ EndLoop(s) \/ Finish(s)
    PROVE  WorkersOK'
<1> DEFINE q == th[s]
           atWork == {x \in Names : th[<<s, x>>].pc # "idle"}
<1>0. /\ s \in Threads /\ th \in [Threads -> ThreadState] /\ q \in ThreadState
      /\ LocalOK(s, q)
      /\ \A r \in Sessions, x \in Names : <<r, x>> \in Threads /\ <<r, x>> # s
      /\ Sessions \subseteq Threads
  BY ThreadsAssumption DEF Threads, Workers, TypeInv, ThreadsOK
<1> USE DEF At
<1>1. ASSUME Frame(s), th'[s].pc \in AboutHost => th'[s].at \notin th'[s].todo,
             \A x \in atWork :
                 /\ th'[s].pc \notin {"idle", "keys"} /\ x \notin th'[s].todo
                 /\ th'[s].pc \in AboutHost => th'[s].at # x
                 /\ th'[s].stage = Len(Plan[th'[s].op])
      PROVE  WorkersOK'
  <2>1. ASSUME NEW r \in Sessions, r # s
        PROVE  th'[r] = th[r] /\ \A x \in Names : th'[<<r, x>>] = th[<<r, x>>]
    BY <1>0, <1>1, <2>1 DEF Frame
  <2>2. \A x \in Names : th'[<<s, x>>] = th[<<s, x>>]
    BY <1>0, <1>1 DEF Frame
  <2> QED
    BY <1>1, <2>1, <2>2 DEF WorkersOK
<1>2. q.pc \in {"idle", "keys"} => atWork = {}
  BY DEF WorkersOK
<1>3. \A x \in atWork : x \notin q.todo /\ q.stage = Len(Plan[q.op])
  BY DEF WorkersOK
<1>4. CASE \E op \in DOMAIN Plan : Start(s, op)
  <2>1. q.pc = "idle" /\ Frame(s) /\ th'[s].pc = "keys"
    BY <1>0, <1>4 DEF Start, Become, Frame, Idle
  <2> QED
    BY <1>1, <1>2, <2>1 DEF AboutHost
<1>5. CASE TakeKeys(s)
  <2>1. q.pc = "keys" /\ Frame(s) /\ th'[s].pc = "loop"
    BY <1>0, <1>5 DEF TakeKeys, Frame, ThreadState
  <2> QED
    BY <1>1, <1>2, <2>1 DEF AboutHost
<1>6. CASE Pick(s)
  <2>1. PICK x \in q.todo :
           th' = [th EXCEPT ![s].at = x, ![s].todo = @ \ {x},
               ![s].pc = CASE Stage(s) = "connect" -> "skipConnected"
                           [] Stage(s) \in Teardown \cup {"run"} -> "connExists"
                           [] OTHER -> "hostExists"]
    BY <1>6 DEF Pick
  <2>2. /\ Frame(s) /\ th'[s].at = x /\ th'[s].todo = q.todo \ {x}
        /\ th'[s].pc \in {"skipConnected", "connExists", "hostExists"}
        /\ th'[s].op = q.op /\ th'[s].stage = q.stage
    BY <1>0, <2>1 DEF Frame, ThreadState
  <2> QED
    BY <1>1, <1>3, <2>2
<1>7. CASE EndLoop(s)
  <2>1. /\ q.pc = "loop" /\ q.stage \in Nat /\ q.op \in DOMAIN Plan
        /\ Len(Plan[q.op]) \in Nat
    BY <1>0, <1>7, PlanFacts DEF EndLoop, ThreadState, LocalOK
  <2>2. CASE q.stage < Len(Plan[q.op])
    <3>1. Frame(s) /\ th'[s].pc = "keys"
      BY <1>0, <1>7, <2>2 DEF EndLoop, Become, Frame, Idle
    <3>2. atWork = {}
      BY <1>3, <2>1, <2>2
    <3> QED
      BY <1>1, <3>1, <3>2 DEF AboutHost
  <2>3. CASE ~(q.stage < Len(Plan[q.op]))
    <3>1. /\ Frame(s) /\ th'[s].pc = "wait" /\ th'[s].todo = {}
          /\ th'[s].op = q.op /\ th'[s].stage = q.stage
      BY <1>0, <1>7, <2>3 DEF EndLoop, Become, Frame, Idle
    <3> QED
      BY <1>1, <1>3, <3>1 DEF AboutHost
  <2> QED
    BY <2>2, <2>3
<1>8. CASE Finish(s)
  <2>1. Frame(s) /\ th'[s].pc = "idle"
    BY <1>0, <1>8 DEF Finish, Become, Frame, Idle
  <2>2. atWork = {}
    BY <1>8 DEF Finish, WorkersOf
  <2> QED
    BY <1>1, <2>1, <2>2 DEF AboutHost
<1> QED
  BY <1>4, <1>5, <1>6, <1>7, <1>8

(* A worker is started in the last loop, for the host the session is at.   *)
LEMMA StartingWorkers ==
    ASSUME TypeInv, WorkersOK, NEW s \in Sessions, Acquire(s) \/ CleanHost(s)
    PROVE  WorkersOK'
<1> DEFINE q == th[s]
           w == <<s, q.at>>
<1>0. /\ s \in Threads /\ ThreadsOK /\ LocalOK(s, q) /\ q \in ThreadState
      /\ q.pc \in {"acquire", "getHostInfo"} /\ Sessions \subseteq Threads
  BY DEF Threads, TypeInv, ThreadsOK, Acquire, CleanHost, At
<1>1. q.pc \in AboutHost /\ q.at \in Names /\ q.pc \notin Holding \cup {"idle"}
  BY <1>0 DEF LocalOK, AboutHost, Pcs, Holding
<1>2. ASSUME NEW op \in DOMAIN Plan, NEW p \in {"hostExists", "connExists", "deleteHost"},
             q.stage = Len(Plan[q.op]),
             th' = [th EXCEPT ![s].pc = "loop",
                        ![w] = [Idle EXCEPT !.op = op, !.at = q.at, !.pc = p]]
      PROVE  WorkersOK'
  <2>1. /\ \A u \in Threads \ {s, w} : th'[u] = th[u]
        /\ th'[s].pc = "loop" /\ KeepsLoop(th'[s], q)
    BY <1>0, <1>1, <1>2, StartsOK
  <2> HIDE <1>2
  <2> \A r \in Sessions, x \in Names : <<r, x>> \in Threads \ Sessions
    BY ThreadsAssumption DEF Threads, Workers
  <2>2. ASSUME NEW r \in Sessions, r # s
        PROVE  th'[r] = th[r] /\ \A x \in Names : th'[<<r, x>>] = th[<<r, x>>]
    <3>1. \A x \in Names : <<r, x>> # w /\ <<r, x>> # s /\ r # w
      BY <1>1, <2>2
    <3> HIDE DEF w
    <3>2. th'[r] = th[r]
      BY <1>0, <2>1, <2>2, <3>1, <1>1
    <3>3. ASSUME NEW x \in Names PROVE th'[<<r, x>>] = th[<<r, x>>]
      <4>1. <<r, x>> \in Threads \ {s, w}
        BY <3>1
      <4> QED
        BY <2>1, <4>1
    <3> QED
      BY <3>2, <3>3
  <2>3. \A x \in Names : x # q.at => th'[<<s, x>>] = th[<<s, x>>]
    BY <1>0, <2>1
  <2>4. q.at \notin q.todo
    BY <1>1 DEF WorkersOK
  <2>5. ASSUME NEW x \in Names, th'[<<s, x>>].pc # "idle"
        PROVE  x \notin th'[s].todo /\ th'[s].stage = Len(Plan[th'[s].op])
    BY <1>2, <2>1, <2>3, <2>4, <2>5 DEF WorkersOK, KeepsLoop
  <2> QED
    BY <2>1, <2>2, <2>5 DEF WorkersOK, AboutHost
<1>3. q.op \in DOMAIN Plan /\ q.stage \in 1..Len(Plan[q.op])
  BY <1>0 DEF LocalOK
<1>4. CASE Acquire(s)
  <2>1. /\ (IF q.op = "connect" THEN "hostExists" ELSE "connExists")
              \in {"hostExists", "connExists", "deleteHost"}
        /\ q.pc = "acquire"
    BY <1>4 DEF Acquire, At
  <2>2. q.stage = Len(Plan[q.op])
    BY <1>0, <1>3, <2>1, PlanFacts DEF LocalOK
  <2> QED
    BY <1>2, <1>3, <1>4, <2>1, <2>2 DEF Acquire
<1>5. CASE CleanHost(s)
  <2>1. /\ "clean" \in DOMAIN Plan
        /\ (IF targets[q.at].connectedOK THEN "connExists" ELSE "deleteHost")
              \in {"hostExists", "connExists", "deleteHost"}
    BY PlanFacts
  <2>2. q.stage = Len(Plan[q.op])
    BY <1>3, <1>5, PlanFacts DEF CleanHost, Stage
  <2>3. CASE Goto(s, "loop")
    <3>1. Moves(s)
      BY <1>0, <1>1, <2>3, GoesOn DEF Moves, Frame, Pcs
    <3> QED
      BY <1>0, <3>1, MovesWorkers
  <2> QED
    BY <1>2, <1>5, <2>1, <2>2, <2>3 DEF CleanHost
<1> QED
  BY <1>4, <1>5

(* The invariant holds at first.                                           *)
LEMMA ServedInit == Init => ServedInv
<1> SUFFICES ASSUME Init PROVE ServedInv
  OBVIOUS
<1>1. GetConnKeys = {} /\ \A t \in Threads : th[t] = Idle
  BY DEF Init, GetConnKeys, ConnExists
<1>2. /\ Idle.pc = "idle" /\ Idle.dialing = {} /\ Idle.dialed = {}
  BY DEF Idle
<1>3. \A s \in Sessions, x \in Names : s \in Threads /\ <<s, x>> \in Threads
  BY DEF Threads, Workers
<1> HIDE DEF Idle
<1>4. ConnsDistinct /\ AllServed
  BY <1>1 DEF ConnsDistinct, AllServed
<1>5. FreshOwned
  BY <1>1, <1>2 DEF FreshOwned, Fresh, Spawned
<1>6. WorkersOK
  <2>1. ASSUME NEW s \in Sessions, NEW x \in Names
        PROVE  th[s].pc = "idle" /\ th[<<s, x>>].pc = "idle"
    BY <1>1, <1>2, <1>3
  <2>2. \A s \in Sessions : th[s].pc = "idle"
    BY <1>1, <1>2 DEF Threads
  <2> QED
    BY <2>1, <2>2 DEF WorkersOK, AboutHost
<1> QED
  BY <1>4, <1>5, <1>6 DEF ServedInv

(* Every step keeps the invariant, if there is one connection to a host.   *)
LEMMA ServedNext ==
    ASSUME BastionConns = 1, TypeInv, ServedInv, [Next]_allVars
    PROVE  ServedInv'
<1>0. Chans /\ WorkersOK /\ ThreadsOK /\ TablesOK
  BY DEF ServedInv, Chans, TypeInv
<1>1. Chans' /\ WorkersOK' => ServedInv'
  BY DEF ServedInv, Chans
<1>2. th' = th => WorkersOK'
  BY <1>0 DEF WorkersOK
<1>3. ASSUME NEW s \in Sessions, NEW op \in DOMAIN Plan, Start(s, op)
      PROVE  Chans' /\ WorkersOK'
  BY <1>0, <1>3, LoopChans, LoopWorkers
<1>4. ASSUME NEW t \in Threads, ThreadStep(t) PROVE Chans' /\ WorkersOK'
  <2>1. CASE t \in Sessions /\ SessionStep(t)
    <3>1. CASE TakeKeys(t) \/ Pick(t) \/ EndLoop(t) \/ Finish(t)
      BY <1>0, <2>1, <3>1, LoopChans, LoopWorkers
    <3>2. CASE Acquire(t) \/ CleanHost(t)
      BY <1>0, <2>1, <3>2, StartingChans, StartingWorkers
    <3>3. CASE SkipConnected(t) \/ LoadHost(t) \/ ProxiesResolve(t) \/ SessionGetsConn(t)
      <4>1. Chans'
        BY <1>0, <2>1, <3>3, LoopChans, ConnChans
      <4> QED
        BY <1>0, <1>2, <2>1, <3>3, <4>1, StepsMove, MovesWorkers
    <3> QED
      BY <2>1, <3>1, <3>2, <3>3 DEF SessionStep
  <2>2. CASE t \in Workers /\ WorkerStep(t)
    <3>1. Chans'
      BY <1>0, <2>2, CommonChans, ConnChans DEF WorkerStep
    <3> QED
      BY <1>0, <1>2, <2>2, <3>1, StepsMove, MovesWorkers
  <2>3. CASE CommonStep(t)
    <3>1. Chans'
      BY <1>0, <2>3, CommonChans, ConnChans, ResolveChans DEF CommonStep
    <3> QED
      BY <1>0, <1>2, <2>3, <3>1, StepsMove, MovesWorkers
  <2> QED
    BY <1>4, <2>1, <2>2, <2>3 DEF ThreadStep
<1>5. ASSUME NEW r \in remotes,
             \/ AskAlive(r) \/ Alive(r)
             \/ \E x \in Reapers :
                   (NewSessionFails(x, r) \/ NotAlive(x, r)) /\ UNCHANGED ops
      PROVE  Chans' /\ WorkersOK'
  <2>1. UNCHANGED conn /\ RemotesKept
    <3>1. ASSUME NEW b \in BOOLEAN
          PROVE  LET q == [r EXCEPT !.asking = b]
                 IN  q.chan = r.chan /\ q.link = r.link /\ q.isProxy = r.isProxy
      BY <1>0 DEF TablesOK, Remote
    <3>2. \/ UNCHANGED remotes
          \/ \E b \in BOOLEAN : remotes' = (remotes \ {r}) \cup {[r EXCEPT !.asking = b]}
      BY <1>5 DEF AskAlive, Alive, NewSessionFails, NotAlive, SendKeepAlive,
                  KeepAliveReply
    <3>3. RemotesKept
      BY <3>1, <3>2 DEF RemotesKept
    <3> QED
      BY <1>5, <3>3 DEF AskAlive, Alive, NewSessionFails, NotAlive, SendKeepAlive,
                        KeepAliveReply, stateVars
  <2>2. CASE UNCHANGED th
    BY <1>0, <1>2, <2>1, <2>2, StillChans
  <2>3. ASSUME NEW x \in Reapers, GoDisconnect(x, r) PROVE Chans' /\ WorkersOK'
    <3>1. /\ th \in [Threads -> ThreadState] /\ x \in Threads /\ x \notin Sessions
          /\ x \notin Workers /\ th[x].pc = "idle" /\ Sessions \subseteq Threads
          /\ \A s \in Sessions, y \in Names : <<s, y>> \in Threads \ {x}
      BY <1>0, <2>3, ThreadsAssumption
         DEF ThreadsOK, Threads, Workers, GoDisconnect, At
    <3>2. /\ Frame(x) /\ th'[x].pc = "connExists" /\ th'[x].chan = NoChan
          /\ th'[x].dialing = {} /\ th'[x].dialed = {}
      BY <2>3, <3>1 DEF GoDisconnect, Become, Frame, Idle
    <3>3. Quiet(x)
      BY <2>1, <3>1, <3>2 DEF Quiet, Dialled, Rested
    <3>4. WorkersOK'
      BY <1>0, <3>1, <3>2 DEF WorkersOK, Frame
    <3> QED
      BY <1>0, <3>1, <3>3, <3>4, QuietChans
  <2> QED
    BY <1>5, <2>2, <2>3 DEF AskAlive, Alive, NewSessionFails, NotAlive
<1>6. CASE UNCHANGED allVars
  <2>1. UNCHANGED <<th, conn>> /\ remotes' = remotes /\ th' = th
    BY <1>6 DEF allVars, vars, stateVars
  <2>2. RemotesKept
    BY <2>1 DEF RemotesKept
  <2> QED
    BY <1>0, <1>1, <1>2, <2>1, <2>2, StillChans
<1> QED
  BY <1>1, <1>3, <1>4, <1>5, <1>6 DEF Next, Rest

(* state.go:302-305: with one connection to each host, a connection that   *)
(* is listed has a remoteHost that serves its channel, for that host and   *)
(* in that role, or has just been cleaned up, whatever commands any number *)
(* of sessions run and whichever hosts stop answering.  With several       *)
(* connections to a host it can fail, once two sessions tear it down.      *)
THEOREM ListedConnIsServedCorrect ==
    ASSUME BastionConns = 1 PROVE Spec => []ListedConnIsServed
<1>1. Init => TypeInv /\ ServedInv
  BY TypeInit, ServedInit
<1>2. TypeInv /\ ServedInv /\ [Next]_allVars => (TypeInv /\ ServedInv)'
  BY TypeNext, ServedNext
<1>3. ServedInv => ListedConnIsServed
  BY DEF ServedInv, AllServed, Serving, ListedConnIsServed
<1> QED
  BY <1>1, <1>2, <1>3, PTL DEF Spec
=============================================================================

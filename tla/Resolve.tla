------------------------------ MODULE Resolve ------------------------------
(***************************************************************************)
(* resolve and its dialling goroutines (resolve.go): the goroutine walks   *)
(* along a chain of links, dials the first one itself and asks the         *)
(* remoteHost of the previous link for a connection to each of the others. *)
(* resolveProxies calls it for the links before the target, one chain at a *)
(* time, and connectEverywhere's workers for the whole chain.              *)
(*                                                                         *)
(* Whether a proxied connection comes about is the network's business: an  *)
(* answer always comes (Waiters), either way.  A direct dial can fail only *)
(* for the names of FailingDials, so that a configuration can say that     *)
(* bastions are reliable.                                                  *)
(***************************************************************************)
EXTENDS RemoteHost, Sequences, SequencesExt

CONSTANTS
    Sessions,     \* goroutines that run commands: CLI, main, signals
    Reapers,      \* goroutines that disconnect a host that does not answer
    Targets,      \* the hosts the user's file, or target command, names
    Chain,        \* Chain[h]: the links on the way to target h
    FailingDials, \* names whose direct dial may fail or time out
    Password      \* e.c.Password: hosts may ask for one

ASSUME TargetsAssumption == Targets \subseteq Names
ASSUME ChainAssumption ==
    Chain \in [Targets -> Seq(Names)] /\ \A h \in Targets : Chain[h] # << >>
ASSUME FailingDialsAssumption == FailingDials \subseteq Names
ASSUME PasswordAssumption == Password \in BOOLEAN

(* The goroutines connect, run and clean start: one for each host.         *)
Workers == Sessions \X Names
Threads == Sessions \cup Workers \cup Reapers
ASSUME ThreadsAssumption ==
    Sessions \cap Reapers = {} /\ Workers \cap (Sessions \cup Reapers) = {}

VARIABLE
    th            \* the state of every goroutine that is at work

vars == <<stateVars, remotes, th>>

Idle == [pc |-> "idle", op |-> "none", stage |-> 0, at |-> NoInfo,
         todo |-> {}, seen |-> {}, idx |-> 0, chan |-> NoChan,
         dialing |-> {}, dialed |-> {}, ok |-> FALSE, left |-> 0]

At(t, pc) == up = "running" /\ th[t].pc = pc
Goto(t, pc) == th' = [th EXCEPT ![t].pc = pc]
Become(t, r) == th' = [th EXCEPT ![t] = r]

(* A channel nobody holds a reference to.                                  *)
InUse == {conn[l].chan : l \in GetConnKeys} \cup {r.chan : r \in remotes}
             \cup {th[t].chan : t \in Threads}
FreshChan == CHOOSE c \in Channels : c \notin InUse
ChannelLeft == Channels \ InUse # {}

(* resolveProxies asks for the proxies of the chain, as proxies.           *)
AsProxy(t) == t \in Sessions
Way(t) == IF AsProxy(t) THEN Front(Chain[th[t].at]) ELSE Chain[th[t].at]
Link(t) == Way(t)[th[t].idx]
Proxy(t) == Way(t)[th[t].idx - 1]

(* A call of resolve begins, goes on to the next link, and returns: to     *)
(* resolveProxies' loop or to the worker, which records the outcome.       *)
Begin(r) == [r EXCEPT !.pc = "link", !.idx = 1]

Return(t, ok) ==
    IF AsProxy(t)
    THEN [th[t] EXCEPT !.pc = "loop", !.idx = 0, !.chan = NoChan]
    ELSE [th[t] EXCEPT !.pc = "setStatus", !.idx = 0, !.chan = NoChan, !.ok = ok]

Continue(t) ==
    IF th[t].idx < Len(Way(t))
    THEN [th[t] EXCEPT !.pc = "link", !.idx = @ + 1, !.chan = NoChan]
    ELSE Return(t, TRUE)

-----------------------------------------------------------------------------
(* Mutant: a proxy is asked for a link even if that is connected.          *)
ConnectAnyway(t) ==
    /\ At(t, "link")
    /\ \/ th[t].idx > 1 /\ Goto(t, "proxyExists")
       \/ /\ th[t].idx = 1 /\ ConnExists(Link(t))
          /\ Become(t, Continue(t))
       \/ /\ th[t].idx = 1 /\ ~ConnExists(Link(t))
          /\ ChannelLeft
          /\ th' = [th EXCEPT ![t].pc = "dialing", ![t].chan = FreshChan,
                              ![t].dialing = Ids]
    /\ UNCHANGED <<stateVars, remotes>>

(* ConnExists(link): done already, dial it, or find its proxy.             *)
ExamineLink(t) ==
    /\ At(t, "link")
    /\ \/ ConnExists(Link(t)) /\ Become(t, Continue(t))
       \/ /\ ~ConnExists(Link(t)) /\ th[t].idx > 1
          /\ Goto(t, "proxyExists")
       \/ /\ ~ConnExists(Link(t)) /\ th[t].idx = 1
          /\ ChannelLeft
          /\ th' = [th EXCEPT ![t].pc = "dialing", ![t].chan = FreshChan,
                              ![t].dialing = Ids]
    /\ UNCHANGED <<stateVars, remotes>>

(* GetConnInfo(proxyhost); if it is not there the link is passed over.     *)
ProxyExists(t) ==
    /\ At(t, "proxyExists")
    /\ IF ConnExists(Proxy(t)) THEN Goto(t, "getProxy")
       ELSE Become(t, Continue(t))
    /\ UNCHANGED <<stateVars, remotes>>

GetProxy(t) ==
    /\ At(t, "getProxy")
    /\ IF ConnExists(Proxy(t))
       THEN /\ th' = [th EXCEPT ![t].pc = "ask",
                                ![t].chan = conn[Proxy(t)].chan]
            /\ UNCHANGED <<stateVars, remotes>>
       ELSE Panic /\ UNCHANGED <<remotes, th>>

AskProxy(t) ==
    /\ At(t, "ask")
    /\ Listening(th[t].chan) # {}
    /\ th' = [th EXCEPT ![t].pc = "awaitClient", ![t].chan = NoChan]
    /\ UNCHANGED <<stateVars, remotes>>

ProxyAnswers(t) ==
    /\ At(t, "awaitClient")
    /\ Goto(t, "countProxy")
    /\ UNCHANGED <<stateVars, remotes>>

(* An error ends resolve; for resolveProxies that ends the program, at     *)
(* once: the print before it does not return when the Output is muted,     *)
(* which Startup has.                                                      *)
ProxyRefuses(t) ==
    /\ At(t, "awaitClient")
    /\ IF AsProxy(t) THEN Exit /\ UNCHANGED th
       ELSE Become(t, Return(t, FALSE)) /\ UNCHANGED stateVars
    /\ UNCHANGED remotes

(* Mutants: the link is counted instead of its proxy; nobody serves the    *)
(* new connection.                                                         *)
CountLink(t) ==
    /\ At(t, "countProxy")
    /\ IncProxyCount(Link(t))
    /\ Goto(t, "register")
    /\ UNCHANGED remotes

StartNoRemoteHost(t) ==
    /\ At(t, "countProxy") /\ ChannelLeft
    /\ th' = [th EXCEPT ![t].pc = "register", ![t].chan = FreshChan]
    /\ IncProxyCount(Proxy(t))
    /\ UNCHANGED remotes

CountProxy(t) ==
    /\ At(t, "countProxy")
    /\ IF ConnExists(Proxy(t))
       THEN /\ ChannelLeft
            /\ Spawn(Link(t), FreshChan, 1, AsProxy(t))
            /\ th' = [th EXCEPT ![t].pc = "register", ![t].chan = FreshChan]
       ELSE UNCHANGED <<remotes, th>>
    /\ IncProxyCount(Proxy(t))

Register(t) ==
    /\ At(t, "register")
    /\ SetConnInfo(Link(t), [chan |-> th[t].chan, isProxy |-> AsProxy(t),
                             isDirect |-> FALSE])
    /\ Become(t, Continue(t))
    /\ UNCHANGED remotes

-----------------------------------------------------------------------------
(* The goroutines that dial a direct link: each that succeeds starts a     *)
(* remoteHost and registers the common channel; a failure is not reported. *)
DialSucceeds(t, i) ==
    /\ At(t, "dialing") /\ i \in th[t].dialing
    /\ Spawn(Link(t), th[t].chan, i, AsProxy(t))
    /\ th' = [th EXCEPT ![t].dialing = @ \ {i}, ![t].dialed = @ \cup {i}]
    /\ UNCHANGED stateVars

(* An error and the timeout come to the same here.  The SSH client of a    *)
(* dial that succeeds after its timeout is dropped without being closed    *)
(* (:111-118): nothing refers to it, and it is left out.                   *)
DialFails(t, i) ==
    /\ At(t, "dialing") /\ i \in th[t].dialing
    /\ Link(t) \in FailingDials
    /\ th' = [th EXCEPT ![t].dialing = @ \ {i}]
    /\ UNCHANGED <<stateVars, remotes>>

DialRegisters(t, i) ==
    /\ At(t, "dialing") /\ i \in th[t].dialed
    /\ SetConnInfo(Link(t), [chan |-> th[t].chan, isProxy |-> AsProxy(t),
                             isDirect |-> TRUE])
    /\ th' = [th EXCEPT ![t].dialed = @ \ {i}]
    /\ UNCHANGED remotes

DialsDone(t) ==
    /\ At(t, "dialing")
    /\ th[t].dialing = {} /\ th[t].dialed = {}
    /\ Become(t, Continue(t))
    /\ UNCHANGED <<stateVars, remotes>>

(* The password callback of a link that asks for one while it is dialled.  *)
AskPassword(t) ==
    /\ Password
    /\ At(t, "awaitClient") \/ (At(t, "dialing") /\ th[t].dialing # {})
    /\ SetRequiresPw(Link(t))
    /\ UNCHANGED <<remotes, th>>

ResolveStep(t) ==
    \/ ExamineLink(t) \/ ProxyExists(t) \/ GetProxy(t) \/ AskProxy(t)
    \/ ProxyAnswers(t) \/ ProxyRefuses(t) \/ CountProxy(t) \/ Register(t)
    \/ DialsDone(t) \/ AskPassword(t)
    \/ \E i \in Ids : DialSucceeds(t, i) \/ DialFails(t, i) \/ DialRegisters(t, i)

=============================================================================

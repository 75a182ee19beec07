------------------------------- MODULE State -------------------------------
(***************************************************************************)
(* The State serializer's two maps of hosts (state.go).                    *)
(*                                                                         *)
(* Every request is one case of the serializer's switch and is served      *)
(* atomically, but the exported methods GetHostInfo and GetConnInfo make   *)
(* two requests, one that asks whether the key exists and one that         *)
(* dereferences what the map holds for it.  The goroutines that call them  *)
(* are in Resolve and Connections; here is what each request does.         *)
(*                                                                         *)
(* getPTR is left out: the PTR map is only ever filled for the empty       *)
(* address, so it returns the name it is given.  The wait tables are in    *)
(* Waiters.                                                                *)
(***************************************************************************)
EXTENDS Naturals, FiniteSets

CONSTANTS
    Names,    \* host names, of targets and of links of their chains
    NoInfo    \* the key is not in the map

VARIABLES
    targets,  \* HostInfo of the hosts that are targeted
    conn,     \* ConnInfo of the hosts that are connected
    up        \* "running", "exited" or "panicked": the program

HostInfo == [connectedOK : BOOLEAN, runOK : BOOLEAN, runOnce : BOOLEAN]
ConnInfo == [chan : Nat, isProxy : BOOLEAN, isDirect : BOOLEAN]

ASSUME NoInfoAssumption == NoInfo \notin HostInfo \cup ConnInfo

NewHost == [connectedOK |-> FALSE, runOK |-> FALSE, runOnce |-> FALSE]

(* A nil dereference in the serializer, or anywhere, ends the program, and *)
(* so does ErrExit.  In a daemon whose Output is muted ErrExit's print     *)
(* never returns (output.go:165), so that the program lingers instead:     *)
(* that is modelled in Startup, not here.                                  *)
Panic == up' = "panicked" /\ UNCHANGED <<targets, conn>>
Exit == up' = "exited" /\ UNCHANGED <<targets, conn>>

stateVars == <<targets, conn, up>>

-----------------------------------------------------------------------------
(* Requests that only read.                                                *)
HostExists(h) == targets[h] # NoInfo
ConnExists(l) == conn[l] # NoInfo
GetHostKeys == {h \in Names : HostExists(h)}
GetConnKeys == {l \in Names : ConnExists(l)}

(* Requests about the targets.                                             *)
SetHostInfo(h) ==
    /\ targets' = [targets EXCEPT ![h] = NewHost]
    /\ UNCHANGED <<conn, up>>

DeleteHostInfo(h) ==
    /\ targets' = [targets EXCEPT ![h] = NoInfo]
    /\ UNCHANGED <<conn, up>>

ClearHostInfo ==
    /\ targets' = [h \in Names |-> NoInfo]
    /\ UNCHANGED <<conn, up>>

SetConnectionStatus(h, ok) ==
    /\ targets' = IF HostExists(h)
                  THEN [targets EXCEPT ![h].connectedOK = ok] ELSE targets
    /\ UNCHANGED <<conn, up>>

SetRunStatus(h, ok) ==
    /\ targets' = IF HostExists(h)
                  THEN [targets EXCEPT ![h].runOK = ok, ![h].runOnce = TRUE]
                  ELSE targets
    /\ UNCHANGED <<conn, up>>

(* Requests about the connections.                                         *)
SetConnInfo(l, ci) ==
    /\ conn' = IF ConnExists(l) THEN conn ELSE [conn EXCEPT ![l] = ci]
    /\ UNCHANGED <<targets, up>>

DeleteConnInfo(l) ==
    /\ conn' = [conn EXCEPT ![l] = NoInfo]
    /\ UNCHANGED <<targets, up>>

(* incProxyCount and setRequiresPw write through the map's pointer without *)
(* looking whether it is there.  What they write is only counted.          *)
IncProxyCount(l) == IF ConnExists(l) THEN UNCHANGED stateVars ELSE Panic
SetRequiresPw(h) == IF HostExists(h) THEN UNCHANGED stateVars ELSE Panic

StateTypeOK ==
    /\ targets \in [Names -> HostInfo \cup {NoInfo}]
    /\ conn \in [Names -> ConnInfo \cup {NoInfo}]
    /\ up \in {"running", "exited", "panicked"}

=============================================================================

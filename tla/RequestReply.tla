---------------------------- MODULE RequestReply ----------------------------
(***************************************************************************)
(* What a requester is promised by proxyConnect and runCmd, without their  *)
(* goroutines and channels: a request that is made gets one answer, and    *)
(* one that TimeoutWaiters found in flight gets it whatever the network    *)
(* does.                                                                   *)
(***************************************************************************)
CONSTANT Jobs

VARIABLES
    phase,      \* "idle", "inFlight" or "answered", for each request
    answer,     \* what the requester got
    doomed      \* requests in flight that are being aborted

vars == <<phase, answer, doomed>>

InFlight == {j \in Jobs : phase[j] = "inFlight"}

Init ==
    /\ phase = [j \in Jobs |-> "idle"]
    /\ answer = [j \in Jobs |-> "none"]
    /\ doomed = {}

Request(j) ==
    /\ phase[j] = "idle"
    /\ phase' = [phase EXCEPT ![j] = "inFlight"]
    /\ UNCHANGED <<answer, doomed>>

Answer(j) ==
    /\ phase[j] = "inFlight"
    /\ \E a \in {"ok", "err", "timedOut"}
               \cup (IF j \in doomed THEN {"aborted"} ELSE {}) :
           answer' = [answer EXCEPT ![j] = a]
    /\ phase' = [phase EXCEPT ![j] = "answered"]
    /\ doomed' = doomed \ {j}

AbortAll ==
    /\ doomed' = InFlight
    /\ UNCHANGED <<phase, answer>>

Next == AbortAll \/ \E j \in Jobs : Request(j) \/ Answer(j)

Spec == Init /\ [][Next]_vars
FairSpec == Spec /\ \A j \in Jobs : WF_vars(j \in doomed /\ Answer(j))

=============================================================================

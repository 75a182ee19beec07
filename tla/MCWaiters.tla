----------------------------- MODULE MCWaiters -----------------------------
(***************************************************************************)
(* Instances of Waiters for TLC.                                           *)
(***************************************************************************)
EXTENDS Waiters, TLC

CONSTANTS c1, r1, r2, h1

(* A connection through a host and a command on it: each has a key of its  *)
(* own, and the serializer aborts the connection first.                    *)
DistinctKind == (c1 :> "conn") @@ (r1 :> "run")
DistinctHost == (c1 :> h1) @@ (r1 :> h1)

(* Two commands on the same host, as two sessions that both say "run" make *)
(* them.                                                                   *)
TwoRuns == (r1 :> "run") @@ (r2 :> "run")
RunHost == (r1 :> h1) @@ (r2 :> h1)

(* A single command.                                                       *)
OneRun == r1 :> "run"
OneHost == r1 :> h1
=============================================================================

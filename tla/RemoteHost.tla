----------------------------- MODULE RemoteHost -----------------------------
(***************************************************************************)
(* The remoteHost goroutines (remotehost.go): one for every SSH client     *)
(* connection, listening on an unbuffered request channel until it is told *)
(* to clean itself up.  The BastionConns connections to a host that is     *)
(* dialled directly listen on one common channel.                          *)
(*                                                                         *)
(* A request is handed over when somebody listens; proxy and run requests  *)
(* are passed on to goroutines of their own (Waiters) and leave the loop   *)
(* free.  While it waits for the reply to a keep-alive it does not listen. *)
(* A request on a channel that nobody listens to blocks its sender.        *)
(***************************************************************************)
EXTENDS State

CONSTANTS
    Channels,     \* bound: request channels that can be in use at once
    BastionConns, \* connections to make to a host that is dialled directly
    ServerMode,   \* e.c.Server: mux sockets are made, and closed
    KeepAlive     \* e.c.KeepAlive > 0: keep-alive requests are sent

ASSUME ChannelsAssumption == Channels \subseteq Nat \ {0}
ASSUME BastionConnsAssumption == BastionConns \in Nat
ASSUME ServerModeAssumption == ServerMode \in BOOLEAN
ASSUME KeepAliveAssumption == KeepAlive \in BOOLEAN

NoChan == 0
Ids == 1..BastionConns

VARIABLE
    remotes       \* the remoteHost goroutines

(* asking: it waits for the reply to a keep-alive.                         *)
Remote == [link : Names, chan : Channels, id : Nat, isProxy : BOOLEAN,
           asking : BOOLEAN]

Listening(c) == {r \in remotes : r.chan = c /\ ~r.asking}

(* go remoteHost(): it listens from the start.  In the code it first opens *)
(* a session for the keep-alives (:67), which blocks it while the host     *)
(* does not answer; the wait of whoever sends to it then is longer, but it *)
(* is one for the same remoteHost.  A NewSession that fails is             *)
(* NewSessionFails.                                                        *)
Spawn(l, c, i, proxy) ==
    remotes' = remotes
        \cup {[link |-> l, chan |-> c, id |-> i, isProxy |-> proxy,
             asking |-> FALSE]}

(* A cleanup request: the client is closed, and the mux of a host that is  *)
(* not a proxy.  Out of server mode there is no mux, and m.Close() is      *)
(* called on nil.                                                          *)
Cleanup(r) ==
    IF ~ServerMode /\ ~r.isProxy
    THEN Panic /\ UNCHANGED remotes
    ELSE remotes' = remotes \ {r} /\ UNCHANGED stateVars

(* The keep-alive goroutine of r ticks, and r asks its host for a reply.   *)
SendKeepAlive(r) ==
    /\ KeepAlive /\ up = "running" /\ ~r.asking
    /\ remotes' = (remotes \ {r}) \cup {[r EXCEPT !.asking = TRUE]}
    /\ UNCHANGED stateVars

(* The reply, or the error, comes, and r listens again.                    *)
KeepAliveReply(r) ==
    /\ up = "running" /\ r.asking
    /\ remotes' = (remotes \ {r}) \cup {[r EXCEPT !.asking = FALSE]}
    /\ UNCHANGED stateVars

=============================================================================

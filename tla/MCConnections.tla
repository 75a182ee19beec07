--------------------------- MODULE MCConnections ---------------------------
(***************************************************************************)
(* Instances of Connections for TLC.  Hosts: a bastion b, a second bastion *)
(* c behind it, targets t and u behind a bastion.                          *)
(***************************************************************************)
EXTENDS Connections

CONSTANTS b, c, t, u, main, cli, sig, x1

AllCommands == DOMAIN Plan

(* The two sessions run the same commands.                                 *)
SessionSymmetry == Permutations({main, cli})

(* A target behind two bastions, another behind the first of them, and the *)
(* first bastion, which is a target itself.                                *)
DeepChain == (b :> <<b>>) @@ (t :> <<b, c, t>>) @@ (u :> <<b, u>>)
(* A bastion and the host behind it, both targets.                         *)
BothChain == (b :> <<b>>) @@ (t :> <<b, t>>)
(* One target behind one bastion.                                          *)
OneChain == t :> <<b, t>>

(* One session that may run anything.                                      *)
MainRunsAll == main :> AllCommands
(* Two sessions that connect and run, and two that do anything.            *)
TwoConnect == (main :> {"connect", "run"}) @@ (cli :> {"connect", "run"})
TwoRunAll == (main :> AllCommands) @@ (cli :> AllCommands)
(* A command line that connects while another disconnects.                 *)
ConnectDisco == (main :> {"connect", "run"}) @@ (cli :> {"disco"})
(* The command line disconnects, and the program gets a signal.            *)
DiscoSignal == (cli :> {"connect", "disco"}) @@ (sig :> {"exit"})
=============================================================================

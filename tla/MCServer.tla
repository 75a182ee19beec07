------------------------------ MODULE MCServer ------------------------------
(***************************************************************************)
(* Two clients of the server for TLC, and the ways to start it.            *)
(***************************************************************************)
EXTENDS Server, TLC

CONSTANTS main, out, out1, out2, quiet

MCPrinters == Goroutines \cup {main}
MCOutputs == {out, out1, out2, quiet}
MCOut == <<out1, out2>>

Started(flags) ==
    [f \in {"Agent", "Server", "Daemonize", "Password", "File"} |-> f \in flags]
MCConfigs == {Started({"File"}), Started({"Agent", "Password", "File"}),
              Started({"Server", "Password"}),
              Started({"Daemonize", "File"}),
              Started({"Daemonize", "Password"})}

MCScripts ==
    << {<<"pty-req", "shell">>},
       {<<"pty-req", "shell">>, <<"exec">>} >>
MCLines == {"blank", "run", "run -b", "run -q", "quit"}
=============================================================================

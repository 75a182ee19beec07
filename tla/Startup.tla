------------------------------ MODULE Startup ------------------------------
(***************************************************************************)
(* How the program starts (main.go): it reads the private keys, through a  *)
(* temporary copy if they are encrypted (sshconfig.go), becomes a daemon,  *)
(* asks for a password, makes its SSH configuration, loads and connects    *)
(* its targets (Connections), and serves or prints the summary.            *)
(*                                                                         *)
(* Every call that may fail is an action with a parameter ok.  Removing    *)
(* the copy is assumed not to fail, and debugging output is off.           *)
(***************************************************************************)
EXTENDS Output, Naturals

CONSTANTS
    Main,       \* the main goroutine
    MainOut,    \* e.o, the Output of the terminal
    Configs     \* the configurations the program may be started with

ASSUME MainAssumption == Main \in Printers /\ MainOut \in Outputs \ Quiet

Keys == {"client", "host"}
Config == [Agent : BOOLEAN, Server : BOOLEAN, Daemonize : BOOLEAN,
           Password : BOOLEAN, File : BOOLEAN]
ASSUME ConfigsAssumption == Configs \subseteq Config

(* A descriptor of a key file or of its temporary copy.                    *)
Descriptor == Keys \X {"key", "copy"}
NoFile == <<>>

VARIABLES
    c,             \* e.c, the configuration
    stage,         \* godaemon.Stage(): 0 for the parent, 2 for the daemon
    step,          \* where main is
    reading,       \* the key getPrivateKeyFile is reading
    fp, closeTheFile, failed,  \* its variables, and whether it returns an error
    fds,           \* the descriptors that are open
    copies,        \* the keys whose temporary copy is on the disk
    file,          \* clientPrivateKey and serverPrivateKey
    up             \* "running", "exited", "killed" or "panicked"

keyVars == <<reading, fp, closeTheFile, failed, fds, copies, file>>
startVars == <<c, stage, step, keyVars, up>>

StartupInit ==
    /\ OutputInit
    /\ c \in Configs
    /\ stage = 0 /\ step = "flags" /\ up = "running"
    /\ reading = "client" /\ fp = NoFile
    /\ closeTheFile = FALSE /\ failed = FALSE
    /\ fds = {} /\ copies = {}
    /\ file = [k \in Keys |-> NoFile]

(* Main is at s, and its last print was answered.                          *)
MainAt(s) == up = "running" /\ step = s /\ call[Main] = NoOutput

Goto(s) == step' = s /\ UNCHANGED <<c, stage, up>>

(* ErrExit prints, which takes for ever if the Output is muted, and exits. *)
ErrExit == Emit(Main, MainOut) /\ Goto("exit")

(* Go on to s if the call went well.                                       *)
GoOn(ok, s) == IF ok THEN Goto(s) /\ UNCHANGED outputVars ELSE ErrExit

Exit ==
    /\ MainAt("exit")
    /\ up' = "exited"
    /\ UNCHANGED <<c, stage, step, keyVars, outputVars>>

-----------------------------------------------------------------------------
(* getPrivateKeyFile.  Return is reached from every line that returns.     *)
Try(ok, s) ==
    /\ failed' = ~ok
    /\ Goto(IF ok THEN s ELSE "return")
    /\ UNCHANGED <<outputVars, reading, file>>

GetPrivateKeyFile(k) ==
    /\ reading' = k /\ fp' = NoFile
    /\ closeTheFile' = FALSE /\ failed' = FALSE
    /\ Goto("open")
    /\ UNCHANGED <<fds, copies, file, outputVars>>

OpenKey(ok) ==
    /\ MainAt("open")
    /\ Try(ok, "read")
    /\ fp' = IF ok THEN <<reading, "key">> ELSE fp
    /\ fds' = IF ok THEN fds \cup {<<reading, "key">>} ELSE fds
    /\ closeTheFile' = ok
    /\ UNCHANGED copies

(* ReadAll, Seek, and whether the key is encrypted.                        *)
ReadKey(ok, encrypted) ==
    /\ MainAt("read")
    /\ Try(ok, IF encrypted THEN "closeKey" ELSE "return")
    /\ closeTheFile' = (closeTheFile /\ ~(ok /\ ~encrypted))
    /\ UNCHANGED <<fp, fds, copies>>

(* Mutant: the key is not closed before fp is used for the copy.           *)
LeaveKeyOpen(ok) ==
    /\ MainAt("closeKey")
    /\ Try(ok, "tempFile")
    /\ UNCHANGED <<fp, fds, closeTheFile, copies>>

CloseKey(ok) ==
    /\ MainAt("closeKey")
    /\ Try(ok, "tempFile")
    /\ fds' = fds \ {fp}
    /\ closeTheFile' = FALSE
    /\ UNCHANGED <<fp, copies>>

TempFile(ok) ==
    /\ MainAt("tempFile")
    /\ Try(ok, "write")
    /\ fp' = IF ok THEN <<reading, "copy">> ELSE NoFile
    /\ fds' = IF ok THEN fds \cup {<<reading, "copy">>} ELSE fds
    /\ copies' = IF ok THEN copies \cup {reading} ELSE copies
    /\ closeTheFile' = ok

WriteCopy(ok) ==
    /\ MainAt("write")
    /\ Try(ok, "closeCopy")
    /\ UNCHANGED <<fp, closeTheFile, fds, copies>>

CloseCopy(ok) ==
    /\ MainAt("closeCopy")
    /\ Try(ok, "prompt")
    /\ fds' = fds \ {fp}
    /\ closeTheFile' = FALSE
    /\ UNCHANGED <<fp, copies>>

PromptPassphrase ==
    /\ MainAt("prompt")
    /\ Emit(Main, MainOut)
    /\ Goto("passphrase")
    /\ UNCHANGED keyVars

(* ReadPassword, and the newline after it.                                 *)
ReadPassphrase(ok) ==
    /\ MainAt("passphrase")
    /\ Emit(Main, MainOut)
    /\ failed' = ~ok
    /\ Goto(IF ok THEN "strip" ELSE "return")
    /\ UNCHANGED <<reading, fp, closeTheFile, fds, copies, file>>

(* ssh-keygen strips the passphrase from the copy.                         *)
Strip(ok) ==
    /\ MainAt("strip")
    /\ Try(ok, "reopen")
    /\ UNCHANGED <<fp, closeTheFile, fds, copies>>

Reopen(ok) ==
    /\ MainAt("reopen")
    /\ Try(ok, "return")
    /\ fp' = IF ok THEN <<reading, "copy">> ELSE NoFile
    /\ fds' = IF ok THEN fds \cup {<<reading, "copy">>} ELSE fds
    /\ closeTheFile' = ~ok
    /\ UNCHANGED copies

(* Its variables are gone.                                                 *)
NoLocals ==
    /\ reading' = "client" /\ fp' = NoFile
    /\ closeTheFile' = FALSE /\ failed' = FALSE

(* Mutant: the copy is only removed when all went well.                    *)
ReturnEarly ==
    /\ MainAt("return")
    /\ copies' = IF failed THEN copies ELSE copies \ {reading}
    /\ fds' = IF closeTheFile THEN fds \ {fp} ELSE fds
    /\ file' = [file EXCEPT ![reading] = IF failed THEN NoFile ELSE fp]
    /\ GoOn(~failed, IF reading = "client" THEN "hostKey" ELSE "daemonize")
    /\ NoLocals

(* The deferred functions, and what main does with the result.             *)
Return ==
    /\ MainAt("return")
    /\ copies' = copies \ {reading}
    /\ fds' = IF closeTheFile THEN fds \ {fp} ELSE fds
    /\ file' = [file EXCEPT ![reading] = IF failed THEN NoFile ELSE fp]
    /\ GoOn(~failed, IF reading = "client" THEN "hostKey" ELSE "daemonize")
    /\ NoLocals

-----------------------------------------------------------------------------
(* main, up to the daemon.                                                 *)
(* Mutant: it mutes its output before it reads the keys.                   *)
MuteFirst ==
    /\ MainAt("flags") /\ ~(c.Daemonize /\ c.Password)
    /\ muted' = IF c.Daemonize THEN muted \cup {MainOut} ELSE muted
    /\ c' = [c EXCEPT !.Server = @ \/ c.Daemonize]
    /\ step' = IF stage = 0 THEN "clientKey" ELSE "daemonize"
    /\ UNCHANGED <<stage, up, keyVars, call>>

(* Daemonize implies server, forbids password.                             *)
Flags ==
    /\ MainAt("flags") /\ ~(c.Daemonize /\ c.Password)
    /\ c' = [c EXCEPT !.Server = @ \/ c.Daemonize]
    /\ step' = IF stage = 0 THEN "clientKey" ELSE "daemonize"
    /\ UNCHANGED <<stage, up, keyVars, outputVars>>

FlagsClash ==
    /\ MainAt("flags") /\ c.Daemonize /\ c.Password
    /\ ErrExit
    /\ UNCHANGED keyVars

ClientKey ==
    /\ MainAt("clientKey")
    /\ IF c.Agent THEN Goto("hostKey") /\ UNCHANGED <<keyVars, outputVars>>
       ELSE GetPrivateKeyFile("client")

HostKey ==
    /\ MainAt("hostKey")
    /\ IF c.Server THEN GetPrivateKeyFile("host")
       ELSE Goto("daemonize") /\ UNCHANGED <<keyVars, outputVars>>

Daemonize ==
    /\ MainAt("daemonize")
    /\ muted' = IF c.Daemonize THEN muted \cup {MainOut} ELSE muted
    /\ Goto(IF c.Daemonize THEN "makeDaemon" ELSE "password")
    /\ UNCHANGED <<keyVars, call>>

(* The descriptors a daemon inherits.                                      *)
Files == {file[k] : k \in {k \in Keys : k = "client" => ~c.Agent}}

(* Mutant: every stage starts another one.                                 *)
MakeDaemonAgain ==
    /\ MainAt("makeDaemon")
    /\ stage' = stage + 1 /\ step' = "flags"
    /\ muted' = Quiet
    /\ fds' = fds \cap Files
    /\ UNCHANGED <<c, up, reading, fp, closeTheFile, failed, copies, file, call>>

(* godaemon.MakeDaemon runs the program again, twice, with the open files, *)
(* and in the second of them returns.                                      *)
MakeDaemon ==
    /\ MainAt("makeDaemon")
    /\ IF stage < 2
       THEN /\ stage' = stage + 1 /\ step' = "flags"
            /\ muted' = Quiet
            /\ fds' = fds \cap Files
            /\ UNCHANGED <<c, up>>
       ELSE /\ Goto("password")
            /\ UNCHANGED <<muted, fds>>
    /\ UNCHANGED <<reading, fp, closeTheFile, failed, copies, file, call>>

MakeDaemonFails ==
    /\ MainAt("makeDaemon")
    /\ up' = "panicked"
    /\ UNCHANGED <<c, stage, step, keyVars, outputVars>>

-----------------------------------------------------------------------------
(* main, from there on.                                                    *)
AskPassword ==
    /\ MainAt("password")
    /\ IF c.Password THEN Emit(Main, MainOut) /\ Goto("readPassword")
       ELSE Goto("signals") /\ UNCHANGED outputVars
    /\ UNCHANGED keyVars

ReadPassword(ok) ==
    /\ MainAt("readPassword")
    /\ Emit(Main, MainOut)
    /\ Goto(IF ok THEN "signals" ELSE "badPassword")
    /\ UNCHANGED keyVars

BadPassword == MainAt("badPassword") /\ ErrExit /\ UNCHANGED keyVars

(* From here on signals are handled (Connections).                         *)
HandleSignals ==
    /\ MainAt("signals")
    /\ Goto("clientConfig")
    /\ UNCHANGED <<keyVars, outputVars>>

(* makeSigner reads the key and closes it, whether it can be parsed or not. *)
(* A file that was closed is not told from none.                           *)
MakeSigner(k) ==
    /\ fds' = fds \ {file[k]}
    /\ file' = [file EXCEPT ![k] = NoFile]
    /\ UNCHANGED <<reading, fp, closeTheFile, failed, copies>>

(* The agent is dialled, or the key parsed.                                *)
ClientConfig(ok) ==
    /\ MainAt("clientConfig")
    /\ IF c.Agent THEN UNCHANGED keyVars ELSE MakeSigner("client")
    /\ GoOn(ok, "load")

(* LoadFile, and connectEverywhere if it finds hosts: either may end the   *)
(* program, or hang where it would (ErrExit of resolveProxies in a         *)
(* daemon).  That connectEverywhere returns otherwise is the matter of     *)
(* Connections.                                                            *)
Load(ok) ==
    /\ MainAt("load")
    /\ c.File \/ ok
    /\ GoOn(ok, IF c.Server THEN "serverConfig" ELSE "summary")
    /\ UNCHANGED keyVars

PrintSummary ==
    /\ MainAt("summary")
    /\ Emit(Main, MainOut)
    /\ Goto("exit")
    /\ UNCHANGED keyVars

ServerConfig(ok) ==
    /\ MainAt("serverConfig")
    /\ MakeSigner("host")
    /\ GoOn(ok, "listen")

Listen(ok) ==
    /\ MainAt("listen")
    /\ GoOn(ok, "accept")
    /\ UNCHANGED keyVars

(* Before handleSignals a signal kills the program where it is.            *)
Unhandled == {"flags", "clientKey", "open", "read", "closeKey", "tempFile",
              "write", "closeCopy", "prompt", "passphrase", "strip", "reopen",
              "return", "hostKey", "daemonize", "makeDaemon", "password",
              "readPassword", "badPassword", "signals"}
Kill ==
    /\ up = "running" /\ step \in Unhandled
    /\ up' = "killed"
    /\ UNCHANGED <<c, stage, step, keyVars, outputVars>>

StartupStep ==
    \/ \E ok \in BOOLEAN :
          \/ OpenKey(ok) \/ \E enc \in BOOLEAN : ReadKey(ok, enc)
          \/ CloseKey(ok) \/ TempFile(ok) \/ WriteCopy(ok) \/ CloseCopy(ok)
          \/ ReadPassphrase(ok) \/ Strip(ok) \/ Reopen(ok) \/ ReadPassword(ok)
          \/ ClientConfig(ok) \/ Load(ok) \/ ServerConfig(ok) \/ Listen(ok)
    \/ PromptPassphrase \/ Return \/ Flags \/ FlagsClash \/ ClientKey
    \/ HostKey \/ Daemonize \/ MakeDaemon \/ MakeDaemonFails \/ AskPassword
    \/ BadPassword \/ HandleSignals \/ PrintSummary \/ Exit

-----------------------------------------------------------------------------
StartupTypeOK ==
    /\ OutputTypeOK
    /\ c \in Config
    /\ stage \in 0..2
    /\ step \in Unhandled \cup {"clientConfig", "load", "summary", "exit",
                                "serverConfig", "listen", "accept", "handshake"}
    /\ reading \in Keys
    /\ fp \in Descriptor \cup {NoFile}
    /\ closeTheFile \in BOOLEAN /\ failed \in BOOLEAN
    /\ fds \subseteq Descriptor
    /\ copies \subseteq Keys
    /\ file \in [Keys -> Descriptor \cup {NoFile}]
    /\ up \in {"running", "exited", "killed", "panicked"}

InGetPrivateKeyFile ==
    step \in {"open", "read", "closeKey", "tempFile", "write", "closeCopy",
              "prompt", "passphrase", "strip", "reopen", "return"}

(* sshconfig.go:27-29 and 74: whatever fails, the temporary copy of a key  *)
(* is on the disk only while getPrivateKeyFile works on it.                *)
NoCopyLeft == copies # {} => InGetPrivateKeyFile /\ copies = {reading}

(* The descriptors main still needs: from getPrivateKeyFile to makeSigner, *)
(* and in a new stage of a daemon until MakeDaemon hands them out.         *)
Between == {"daemonize", "makeDaemon", "password", "readPassword",
            "badPassword", "signals", "clientConfig"}
Holding == [client |-> Between \cup {"hostKey"},
            host   |-> Between \cup {"load", "serverConfig"}]
Wanted == {k \in Keys : IF k = "client" THEN ~c.Agent ELSE c.Server}
Needed == {file[k] : k \in {k \in Wanted :
              step \in Holding[k] \/ (stage > 0 /\ step = "flags")}}

(* sshconfig.go:25-29: a key file that main holds is open, through all the *)
(* stages of a daemon, until its signer is made, and nothing else is.      *)
DescriptorsKept ==
    up = "running" /\ ~InGetPrivateKeyFile /\ step # "exit" => fds = Needed

(* main.go:60 and 90: main ends, or serves.  Only an error or a summary    *)
(* that is to be printed while the output is muted makes it hang.          *)
StartupEnds ==
    step = "flags" ~>
        \/ step = "accept"
        \/ up # "running"
        \/ step = "exit" /\ call[Main] = MainOut /\ MainOut \in muted

=============================================================================

------------------------------- MODULE Server -------------------------------
(***************************************************************************)
(* The SSH server (server.go) and the command line it serves (cli and      *)
(* runCliCmd of commands.go), with the pty and the GNU Readline library    *)
(* that sessions share (readline.go).                                      *)
(*                                                                         *)
(* main accepts connections and does each handshake itself.  The channel   *)
(* of a client has a goroutine (chan) that serves its requests: a shell    *)
(* gets a goroutine of its own (cli) if it gets readline, and otherwise    *)
(* its command line runs in chan.  Two more copy between the client and    *)
(* its pty; copy is the one that prints.  A command run on hosts prints    *)
(* from workers: fore for run, and back for run -b.                        *)
(*                                                                         *)
(* A command other than run and quit stands for all that print something:  *)
(* what they do to hosts is in Connections.                                *)
(***************************************************************************)
EXTENDS Startup, Sequences, FiniteSets

CONSTANTS
    Clients,    \* bound: the clients that come, in this order, each with one
                \* channel
    DaemonClients,  \* bound: how many of them come to a daemon
    Scripts,    \* Scripts[k]: the requests client k may make on its channel
    Lines,      \* what may be typed at a prompt, or given to exec
    MaxLines,   \* bound: how many lines are typed or given to exec
    Fickle,     \* bound: the clients that may leave or stop reading
    Out,        \* Out[k]: newOut, the Output of client k
    QuietOut,   \* the Output of run -q
    NoLine      \* no line

ASSUME ClientsAssumption == Clients \subseteq Nat \ {0}
Requests == {"pty-req", "shell", "exec"}
ASSUME ScriptsAssumption == Scripts \in [Clients -> SUBSET Seq(Requests)]
ASSUME LinesAssumption ==
    Lines \subseteq {"", "blank", "help", "run", "run -b", "run -q", "quit"}
ASSUME BoundsAssumption ==
    MaxLines \in Nat /\ DaemonClients \in Nat /\ Fickle \subseteq Clients
ASSUME OutAssumption ==
    Out \in [Clients -> Outputs \ (Quiet \cup {MainOut})] /\ QuietOut \in Quiet

Goroutines == Clients \X {"chan", "cli", "copy", "fore", "back"}
ASSUME GoroutinesAssumption == Printers = Goroutines \cup {Main}

VARIABLES
    net,        \* each client: "away", "shaking", "open", "stalled" (it does
                \* not read what it is sent) or "gone"
    script,     \* the requests it will still make
    typed,      \* the line it sent that nobody has read yet
    ptyLine,    \* the line that can be read from its pty
    lines,      \* how many lines there were
    copying,    \* the clients whose pty is copied from and to
    closed,     \* the clients whose channel the server has closed
    readlineSession,  \* s.readlineSession
    rlIn, rlOut,  \* whose pty readline reads from, and writes to
    pc,         \* where each goroutine is
    line,       \* the command it runs
    after       \* and where it goes then: "prompt" or "close"

sessionVars == <<net, script, typed, ptyLine, lines, copying, closed,
                 readlineSession, rlIn, rlOut, pc, line, after>>
allVars == <<outputVars, startVars, sessionVars>>

(* Readline is at the terminal, where nobody types.                        *)
Nowhere == 0

Init ==
    /\ StartupInit
    /\ net = [k \in Clients |-> "away"]
    /\ script = [k \in Clients |-> <<>>]
    /\ typed = [k \in Clients |-> NoLine]
    /\ ptyLine = [k \in Clients |-> NoLine]
    /\ lines = 0
    /\ copying = {} /\ closed = {}
    /\ readlineSession = FALSE
    /\ rlIn = Nowhere /\ rlOut = Nowhere
    /\ pc = [t \in Goroutines |-> "idle"]
    /\ line = [t \in Goroutines |-> NoLine]
    /\ after = [t \in Goroutines |-> "prompt"]

At(t, s) == up = "running" /\ pc[t] = s /\ call[t] = NoOutput
Jump(t, s) == pc' = [pc EXCEPT ![t] = s]
Chan(k) == <<k, "chan">>
Cli(k) == <<k, "cli">>

-----------------------------------------------------------------------------
rlVars == <<copying, closed, readlineSession, rlIn, rlOut>>
ptyVars == <<ptyLine, rlVars>>

(* The user (external) types at a prompt, one line at a time.              *)
Type(k) ==
    /\ up = "running" /\ net[k] = "open" /\ k \notin closed
    /\ \E t \in {Chan(k), Cli(k)} : pc[t] = "read"
    /\ typed[k] = NoLine /\ ptyLine[k] = NoLine /\ lines < MaxLines
    /\ \E l \in Lines : typed' = [typed EXCEPT ![k] = l]
    /\ lines' = lines + 1
    /\ UNCHANGED <<outputVars, startVars, net, script, ptyVars, pc, line, after>>

(* A client may stop reading, for good: its connection stays open, and     *)
(* what is written to it blocks;                                           *)
Stall(k) ==
    /\ up = "running" /\ net[k] = "open" /\ k \in Fickle
    /\ net' = [net EXCEPT ![k] = "stalled"]
    /\ UNCHANGED <<outputVars, startVars, script, typed, lines, ptyVars,
                   pc, line, after>>

(* or leave.                                                               *)
Leave(k) ==
    /\ up = "running" /\ net[k] = "open" /\ k \in Fickle
    /\ net' = [net EXCEPT ![k] = "gone"]
    /\ script' = [script EXCEPT ![k] = <<>>]
    /\ typed' = [typed EXCEPT ![k] = NoLine]
    /\ UNCHANGED <<outputVars, startVars, lines, ptyVars, pc, line, after>>

-----------------------------------------------------------------------------
(* Start: main's accept loop.                                              *)
StayAtStart == UNCHANGED <<c, stage, keyVars, up>>

(* The clients come in order.                                              *)
Comes(k) ==
    /\ MainAt("accept") /\ net[k] = "away"
    /\ \A j \in Clients : j < k => net[j] # "away"
    /\ c.Daemonize => k <= DaemonClients

Accept(k) ==
    /\ Comes(k)
    /\ net' = [net EXCEPT ![k] = "shaking"]
    /\ \E s \in Scripts[k] : script' = [script EXCEPT ![k] = s]
    /\ step' = "handshake"
    /\ StayAtStart
    /\ UNCHANGED <<outputVars, typed, lines, ptyVars, pc, line, after>>

AcceptFails(k) ==
    /\ Comes(k)
    /\ net' = [net EXCEPT ![k] = "gone"]
    /\ Emit(Main, MainOut)
    /\ UNCHANGED <<startVars, script, typed, lines, ptyVars, pc, line, after>>

(* The handshake has no timeout: a client may leave it at that.            *)
HandshakeDone(k) ==
    /\ MainAt("handshake") /\ net[k] = "shaking"
    /\ net' = [net EXCEPT ![k] = "open"]
    /\ step' = "accept"
    /\ Jump(Chan(k), "newChannel")
    /\ StayAtStart
    /\ UNCHANGED <<outputVars, script, typed, lines, ptyVars, line, after>>

HandshakeFails(k) ==
    /\ MainAt("handshake") /\ net[k] = "shaking"
    /\ net' = [net EXCEPT ![k] = "gone"]
    /\ step' = "accept"
    /\ Emit(Main, MainOut)
    /\ StayAtStart
    /\ UNCHANGED <<script, typed, lines, ptyVars, pc, line, after>>

-----------------------------------------------------------------------------
(* handleChannel.                                                          *)
NewChannel(k) ==
    /\ At(Chan(k), "newChannel")
    /\ Jump(Chan(k), "requests")
    /\ UNCHANGED <<outputVars, startVars, net, script, typed, lines, ptyVars,
                   line, after>>

(* The error is printed on main's Output.                                  *)
NewChannelFails(k) ==
    /\ At(Chan(k), "newChannel") /\ net[k] = "gone"
    /\ Emit(Chan(k), MainOut)
    /\ Jump(Chan(k), "done")
    /\ UNCHANGED <<startVars, net, script, typed, lines, ptyVars, line, after>>

NextRequest(k) ==
    /\ At(Chan(k), "requests") /\ script[k] # <<>> /\ k \notin closed
    /\ Jump(Chan(k), Head(script[k]))
    /\ script' = [script EXCEPT ![k] = Tail(@)]
    /\ UNCHANGED <<outputVars, startVars, net, typed, lines, ptyVars, line, after>>

NoMoreRequests(k) ==
    /\ At(Chan(k), "requests") /\ (net[k] = "gone" \/ k \in closed)
    /\ Jump(Chan(k), "done")
    /\ UNCHANGED <<outputVars, startVars, net, script, typed, lines, ptyVars,
                   line, after>>

(* pty-req.  The flag is looked at without a lock.                         *)
PtyReq(k, ok) ==
    /\ At(Chan(k), "pty-req")
    /\ Jump(Chan(k), CASE ~ok -> "done"
                       [] ok /\ readlineSession -> "requests"
                       [] OTHER -> "instream")
    /\ UNCHANGED <<outputVars, startVars, net, script, typed, lines, ptyVars,
                   line, after>>

(* rlInstream, then rlOutstream: readline is given the pty, while it may   *)
(* be in use.  fopen of the pty is assumed not to fail.                    *)
Instream(k) ==
    /\ At(Chan(k), "instream")
    /\ rlIn' = k
    /\ Jump(Chan(k), "outstream")
    /\ UNCHANGED <<outputVars, startVars, net, script, typed, lines, ptyLine,
                   copying, closed, readlineSession, rlOut, line, after>>

Outstream(k) ==
    /\ At(Chan(k), "outstream")
    /\ rlOut' = k
    /\ copying' = copying \cup {k}
    /\ Jump(Chan(k), "requests")
    /\ UNCHANGED <<outputVars, startVars, net, script, typed, lines, ptyLine,
                   closed, readlineSession, rlIn, line, after>>


(* shell.  The flag is looked at,                                          *)
Shell(k) ==
    /\ At(Chan(k), "shell")
    /\ Jump(Chan(k), IF readlineSession THEN "prompt" ELSE "claim")
    /\ UNCHANGED <<outputVars, startVars, net, script, typed, lines, ptyVars,
                   line, after>>

(* and then set.                                                           *)
Claim(k) ==
    /\ At(Chan(k), "claim")
    /\ readlineSession' = TRUE
    /\ pc' = [pc EXCEPT ![Chan(k)] = "requests", ![Cli(k)] = "prompt"]
    /\ UNCHANGED <<outputVars, startVars, net, script, typed, lines, ptyLine,
                   copying, closed, rlIn, rlOut, line, after>>

Exec(k) ==
    /\ At(Chan(k), "exec")
    /\ \E l \in Lines \ {""} : line' = [line EXCEPT ![Chan(k)] = l]
    /\ after' = [after EXCEPT ![Chan(k)] = "close"]
    /\ Jump(Chan(k), "execute")
    /\ UNCHANGED <<outputVars, startVars, net, script, typed, lines, ptyVars>>

-----------------------------------------------------------------------------
(* What a client sends is copied to its pty.                               *)
CopyIn(k) ==
    /\ up = "running" /\ k \in copying
    /\ typed[k] # NoLine /\ ptyLine[k] = NoLine
    /\ ptyLine' = [ptyLine EXCEPT ![k] = typed[k]]
    /\ typed' = [typed EXCEPT ![k] = NoLine]
    /\ UNCHANGED <<outputVars, startVars, net, script, lines, rlVars,
                   pc, line, after>>

-----------------------------------------------------------------------------
(* cli, in Cli(k) with readline and in Chan(k) without.                    *)
(* Readline writes on a pty, from which copy prints on an Output, after    *)
(* what it may still be printing; a terminal without readline writes on    *)
(* the channel itself.  The pty is assumed to have room for the prompt.    *)
Prompt(t) ==
    /\ At(t, "prompt") /\ (t[2] = "chan" => net[t[1]] # "stalled")
    /\ IF t[2] = "cli" /\ rlOut # Nowhere
       THEN Emit(<<rlOut, "copy">>, Out[rlOut])
       ELSE UNCHANGED outputVars
    /\ Jump(t, "read")
    /\ UNCHANGED <<startVars, net, script, typed, lines, ptyVars, line, after>>

(* An empty line is asked for again; so is the one ReadLine returns when   *)
(* the client has left, for ever.                                          *)
Got(t, l) ==
    /\ Jump(t, IF l = "" THEN "prompt" ELSE "execute")
    /\ line' = [line EXCEPT ![t] = l]
    /\ after' = [after EXCEPT ![t] = IF l = "quit" THEN "close" ELSE "prompt"]

(* Readline reads from the pty it was given last, if any.                  *)
Readline(k) ==
    /\ At(Cli(k), "read") /\ rlIn # Nowhere /\ ptyLine[rlIn] # NoLine
    /\ Got(Cli(k), ptyLine[rlIn])
    /\ ptyLine' = [ptyLine EXCEPT ![rlIn] = NoLine]
    /\ UNCHANGED <<outputVars, startVars, net, script, typed, lines, rlVars>>

ReadLine(k) ==
    /\ At(Chan(k), "read") /\ typed[k] # NoLine
    /\ Got(Chan(k), typed[k])
    /\ typed' = [typed EXCEPT ![k] = NoLine]
    /\ UNCHANGED <<outputVars, startVars, net, script, lines, ptyVars>>

(* A blank line has no first word, and chunks[0] panics.                   *)
Blank(t) ==
    /\ At(t, "execute") /\ line[t] = "blank"
    /\ up' = "panicked"
    /\ UNCHANGED <<outputVars, c, stage, step, keyVars, sessionVars>>

(* The command returns, and its line is forgotten.                         *)
Back(t) ==
    /\ Jump(t, after[t])
    /\ line' = [line EXCEPT ![t] = NoLine]
    /\ after' = [after EXCEPT ![t] = "prompt"]

(* Most commands print on the client's Output and return.                  *)
Say(t) ==
    /\ Emit(t, Out[t[1]])
    /\ Back(t)
    /\ UNCHANGED <<startVars, net, script, typed, lines, ptyVars>>

RunCliCmd(t) == At(t, "execute") /\ line[t] \in {"help", "quit"} /\ Say(t)

(* run starts its workers and waits for them;                              *)
Run(t) ==
    /\ At(t, "execute") /\ line[t] \in {"run", "run -q"}
    /\ pc' = [pc EXCEPT ![<<t[1], "fore">>] = "run", ![t] = "wait"]
    /\ line' = [line EXCEPT ![<<t[1], "fore">>] = line[t]]
    /\ UNCHANGED <<outputVars, startVars, net, script, typed, lines, ptyVars,
                   after>>

(* run -b does not wait.  Bound: one run -b at a time for a client.        *)
RunBackground(t) ==
    /\ At(t, "execute") /\ line[t] = "run -b" /\ At(<<t[1], "back">>, "idle")
    /\ pc' = [pc EXCEPT ![<<t[1], "back">>] = "run", ![t] = after[t]]
    /\ line' = [line EXCEPT ![t] = NoLine]
    /\ after' = [after EXCEPT ![t] = "prompt"]
    /\ UNCHANGED <<outputVars, startVars, net, script, typed, lines, ptyVars>>

(* A worker prints what its host answered, if anything.                    *)
WorkerEnds(w) ==
    /\ At(w, "run")
    /\ Jump(w, "idle")
    /\ line' = [line EXCEPT ![w] = NoLine]
    /\ UNCHANGED <<startVars, net, script, typed, lines, ptyVars, after>>

(* Mutant: run -q mutes the Output that all workers print on.              *)
QuietWorker(w) ==
    /\ Emit(w, QuietOut)
    /\ WorkerEnds(w)

WorkerPrints(w) ==
    /\ Emit(w, IF line[w] = "run -q" THEN QuietOut ELSE Out[w[1]])
    /\ WorkerEnds(w)

WorkerSilent(w) == WorkerEnds(w) /\ UNCHANGED outputVars

RunDone(t) == At(t, "wait") /\ At(<<t[1], "fore">>, "idle") /\ Say(t)

Close(t) ==
    /\ At(t, "close")
    /\ closed' = closed \cup {t[1]}
    /\ Jump(t, IF t[2] = "cli" THEN "release" ELSE "requests")
    /\ UNCHANGED <<outputVars, startVars, net, script, typed, lines, ptyLine,
                   copying, readlineSession, rlIn, rlOut, line, after>>

(* Mutant: readline is never given back.                                   *)
KeepReadline(k) ==
    /\ At(Cli(k), "release")
    /\ Jump(Cli(k), "done")
    /\ UNCHANGED <<outputVars, startVars, net, script, typed, lines, ptyVars,
                   line, after>>

Release(k) ==
    /\ At(Cli(k), "release")
    /\ readlineSession' = FALSE
    /\ Jump(Cli(k), "done")
    /\ UNCHANGED <<outputVars, startVars, net, script, typed, lines, ptyLine,
                   copying, closed, rlIn, rlOut, line, after>>

-----------------------------------------------------------------------------
ChanStep(k) ==
    \/ NewChannel(k) \/ NewChannelFails(k) \/ NextRequest(k)
    \/ NoMoreRequests(k) \/ Instream(k) \/ Outstream(k) \/ Shell(k)
    \/ Claim(k) \/ Exec(k) \/ ReadLine(k)
    \/ \E ok \in BOOLEAN : PtyReq(k, ok)

CommandStep(t) ==
    \/ Prompt(t) \/ Blank(t) \/ RunCliCmd(t) \/ Run(t) \/ RunBackground(t)
    \/ RunDone(t) \/ Close(t)

GoroutineStep(t) ==
    \/ t[2] = "chan" /\ (ChanStep(t[1]) \/ CommandStep(t))
    \/ t[2] = "cli" /\ (Readline(t[1]) \/ Release(t[1]) \/ CommandStep(t))
    \/ t[2] \in {"fore", "back"} /\ (WorkerPrints(t) \/ WorkerSilent(t))

MainStep == StartupStep /\ UNCHANGED sessionVars

(* The serializer of a client that does not read blocks in its write.      *)
OutputStep(o) ==
    /\ \A k \in Clients : net[k] = "stalled" => Out[k] # o
    /\ \E p \in Printers : Serve(o, p)
    /\ UNCHANGED <<startVars, sessionVars>>

Environment ==
    \/ Kill /\ UNCHANGED sessionVars
    \/ \E k \in Clients :
          \/ Accept(k) \/ AcceptFails(k) \/ HandshakeDone(k) \/ HandshakeFails(k)
          \/ Type(k) \/ Leave(k) \/ Stall(k)

Next ==
    \/ MainStep
    \/ \E t \in Goroutines : GoroutineStep(t)
    \/ \E k \in Clients : CopyIn(k)
    \/ \E o \in Outputs : OutputStep(o)
    \/ Environment

(* Every goroutine that can go on does, and so does every serializer; the  *)
(* user answers the questions of main, and hosts answer.  Clients need not *)
(* come, finish a handshake, type or read.                                 *)
Fairness ==
    /\ WF_allVars(MainStep)
    /\ \A t \in Goroutines : WF_allVars(GoroutineStep(t))
    /\ \A o \in Outputs \ Quiet : WF_allVars(OutputStep(o))

Spec == Init /\ [][Next]_allVars /\ Fairness

-----------------------------------------------------------------------------
(* The types of the variables.                                             *)
TypeOK ==
    /\ StartupTypeOK
    /\ net \in [Clients -> {"away", "shaking", "open", "stalled", "gone"}]
    /\ script \in [Clients -> Seq(Requests)]
    /\ typed \in [Clients -> Lines \cup {NoLine}]
    /\ ptyLine \in [Clients -> Lines \cup {NoLine}]
    /\ lines \in 0..MaxLines
    /\ copying \subseteq Clients
    /\ closed \subseteq Clients
    /\ readlineSession \in BOOLEAN
    /\ rlIn \in Clients \cup {Nowhere} /\ rlOut \in Clients \cup {Nowhere}
    /\ pc \in [Goroutines ->
                Requests \cup {"idle", "newChannel", "requests", "instream", "outstream",
                               "claim", "prompt", "read", "execute", "run",
                               "wait", "close", "release", "done"}]
    /\ line \in [Goroutines -> Lines \cup {NoLine}]
    /\ after \in [Goroutines -> {"prompt", "close"}]

(* server.go:26-27 and 126: readline is taken only as long as the cli      *)
(* goroutine of a session that took it has not returned.                   *)
ReadlineNotLost ==
    readlineSession => \E k \in Clients : pc[Cli(k)] \notin {"idle", "done"}

(* A command runs, unless it waits for a worker on the Output of run -q.   *)
Running(t) ==
    \/ pc[t] = "execute"
    \/ pc[t] = "wait" /\ ~(line[t] = "run -q" /\ call[<<t[1], "fore">>] = QuietOut)

(* output.go:136-138 and commands.go:476: however many goroutines print,   *)
(* and whoever does not read, the commands of a client come to an end,     *)
(* unless that client itself does not read.  run -q does not, if any host  *)
(* prints.                                                                 *)
Busy == {t \in Goroutines : Running(t) /\ net[t[1]] # "stalled"}
CommandsReturn == Busy # {} ~> Busy = {} \/ up # "running"


=============================================================================

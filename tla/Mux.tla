-------------------------------- MODULE Mux --------------------------------
(***************************************************************************)
(* The ControlMaster mux of one connected target (controlmux.go).          *)
(*                                                                         *)
(* SSH clients connect to a UNIX socket.  A goroutine accepts them, a      *)
(* reader goroutine reads one message of a connection and hands it, on an  *)
(* unbuffered channel, to the one handler of the mux, which answers and    *)
(* starts the next reader.  For a new session the handler itself asks the  *)
(* host for one and receives three descriptors from the connection; then a *)
(* waiter goroutine waits for the command to end, and sends its exit code. *)
(*                                                                         *)
(* When the remoteHost is cleaned up it closes its SSH client and then     *)
(* sends the handler a controlKill, which closes the socket.               *)
(*                                                                         *)
(* The client is OpenSSH's: it says hello, and then checks that the master *)
(* is alive, or asks for a session and sends its descriptors at once, or   *)
(* asks for something the mux does not know.  It may leave at any time.    *)
(* Bytes are left out: every message that arrives is complete.             *)
(***************************************************************************)
EXTENDS Naturals, Sequences, FiniteSets

CONSTANTS
    Clients,    \* the clients that connect to the socket
    MaxChecks   \* bound: alive checks a client makes

ASSUME MaxChecksAssumption == MaxChecks \in Nat

Messages == {"hello", "alive", "session", "other"}
Nothing == "nothing"
NoClient == "no client"
ASSUME NoClientAssumption == NoClient \notin Clients

VARIABLES
    client,       \* what each client is doing
    checks,       \* how many alive checks it has made
    wire,         \* what it has written and nobody has read yet
    replies,      \* every message the mux has written, or tried to write
    open,         \* connections the mux has accepted and not closed
    reader,       \* the reader goroutine of each connection
    msg,          \* the message the reader has read
    listening,    \* the socket exists
    handler,      \* what the handler is doing,
    serving,      \* and for which connection
    got,          \* descriptors received, for the session of each connection
    tries,        \* turns of the loop that receives them
    sesscounter,  \* the next session's identifier
    waiter,       \* the waiter goroutine of each connection's session
    sid,          \* the identifier of that session
    kill          \* the remoteHost's call of Close

clientVars == <<client, checks>>
connVars == <<wire, replies, open>>
readerVars == <<reader, msg>>
sessionVars == <<got, tries, sesscounter, waiter, sid>>
handlerVars == <<handler, serving>>
vars == <<clientVars, connVars, readerVars, sessionVars, handlerVars,
          listening, kill>>

Init ==
    /\ client = [c \in Clients |-> "away"]
    /\ checks = [c \in Clients |-> 0]
    /\ wire = [c \in Clients |-> << >>]
    /\ replies = [c \in Clients |-> << >>]
    /\ open = {}
    /\ reader = [c \in Clients |-> "none"]
    /\ msg = [c \in Clients |-> Nothing]
    /\ listening = TRUE
    /\ handler = "receiving"
    /\ serving = NoClient
    /\ got = [c \in Clients |-> 0]
    /\ tries = 0
    /\ sesscounter = 0
    /\ waiter = [c \in Clients |-> "none"]
    /\ sid = [c \in Clients |-> 0]
    /\ kill = "none"

(* What the mux writes to a client.                                        *)
Plain(type) == [type |-> type, sid |-> 0, code |-> Nothing]
Opened(id) == [type |-> "opened", sid |-> id, code |-> Nothing]
Exited(id, code) == [type |-> "exit", sid |-> id, code |-> code]
Reply == [type : {"hello", "alive", "opened", "exit"}, sid : Nat,
          code : {Nothing, "zero", "status", "255"}]

Send(c, m) == replies' = [replies EXCEPT ![c] = Append(@, m)]
Wrote(c, type) == \E i \in DOMAIN replies[c] : replies[c][i].type = type

-----------------------------------------------------------------------------
(* The clients.                                                            *)
ClientMoves(c, from, to) ==
    /\ client[c] = from
    /\ client' = [client EXCEPT ![c] = to]
    /\ UNCHANGED <<readerVars, sessionVars, handlerVars, listening, kill>>

Writes(c, m) ==
    wire' = [wire EXCEPT ![c] = Append(@, m)] /\ UNCHANGED <<replies, open>>

Connect(c) ==
    /\ listening
    /\ ClientMoves(c, "away", "connecting")
    /\ UNCHANGED <<connVars, checks>>

SayHello(c) ==
    /\ c \in open
    /\ ClientMoves(c, "connecting", "greeted") /\ Writes(c, "hello")
    /\ UNCHANGED checks

CheckAlive(c) ==
    /\ c \in open /\ Wrote(c, "hello") /\ checks[c] < MaxChecks
    /\ ClientMoves(c, "greeted", "checking") /\ Writes(c, "alive")
    /\ checks' = [checks EXCEPT ![c] = @ + 1]

IsAlive(c) ==
    /\ Cardinality({i \in DOMAIN replies[c] : replies[c][i].type = "alive"})
           = checks[c]
    /\ ClientMoves(c, "checking", "greeted")
    /\ UNCHANGED <<connVars, checks>>

AskSession(c) ==
    /\ c \in open /\ Wrote(c, "hello")
    /\ ClientMoves(c, "greeted", "fd1") /\ Writes(c, "session")
    /\ UNCHANGED checks

AskOther(c) ==
    /\ c \in open /\ Wrote(c, "hello")
    /\ ClientMoves(c, "greeted", "refused") /\ Writes(c, "other")
    /\ UNCHANGED checks

SendFd(c) ==
    /\ c \in open
    /\ \/ ClientMoves(c, "fd1", "fd2")
       \/ ClientMoves(c, "fd2", "fd3")
       \/ ClientMoves(c, "fd3", "attached")
    /\ Writes(c, "fd")
    /\ UNCHANGED checks

Leave(c) ==
    /\ client[c] \notin {"away", "gone"}
    /\ ClientMoves(c, client[c], "gone")
    /\ UNCHANGED <<connVars, checks>>

Client(c) ==
    \/ Connect(c) \/ SayHello(c) \/ CheckAlive(c) \/ IsAlive(c)
    \/ AskSession(c) \/ AskOther(c) \/ SendFd(c) \/ Leave(c)

-----------------------------------------------------------------------------
(* acceptControlMaster and the readers.                                    *)
Accept(c) ==
    /\ listening
    /\ client[c] = "connecting" /\ c \notin open
    /\ open' = open \cup {c}
    /\ reader' = [reader EXCEPT ![c] = "reading"]
    /\ UNCHANGED <<clientVars, wire, replies, msg, sessionVars, handlerVars,
                   listening, kill>>

(* A descriptor comes with one byte, which is no header: it is lost.       *)
ReadMsg(c) ==
    /\ reader[c] = "reading" /\ wire[c] # << >>
    /\ wire' = [wire EXCEPT ![c] = Tail(@)]
    /\ IF Head(wire[c]) \in Messages
       THEN /\ reader' = [reader EXCEPT ![c] = "sending"]
            /\ msg' = [msg EXCEPT ![c] = Head(wire[c])]
       ELSE reader' = [reader EXCEPT ![c] = "none"] /\ UNCHANGED msg
    /\ UNCHANGED <<clientVars, replies, open, sessionVars, handlerVars,
                   listening, kill>>

(* The client is gone: the reader returns.                                 *)
ReadFails(c) ==
    /\ reader[c] = "reading" /\ wire[c] = << >> /\ client[c] = "gone"
    /\ reader' = [reader EXCEPT ![c] = "none"]
    /\ UNCHANGED <<clientVars, connVars, msg, sessionVars, handlerVars,
                   listening, kill>>

-----------------------------------------------------------------------------
(* handleControlMaster.  The handler takes a message off a reader, which   *)
(* ends; a new one is started by an answer to hello and alive only.        *)
Takes(c, m, next) ==
    /\ handler = "receiving"
    /\ reader[c] = "sending" /\ msg[c] = m
    /\ reader' = [reader EXCEPT ![c] = next]
    /\ msg' = [msg EXCEPT ![c] = Nothing]
    /\ UNCHANGED <<clientVars, wire, open, listening, kill>>

HandleHello(c) ==
    /\ Takes(c, "hello", "reading")
    /\ Send(c, Plain("hello"))
    /\ UNCHANGED <<sessionVars, handlerVars>>

HandleAlive(c) ==
    /\ Takes(c, "alive", "reading")
    /\ Send(c, Plain("alive"))
    /\ UNCHANGED <<sessionVars, handlerVars>>

HandleOther(c) ==
    /\ Takes(c, "other", "none")
    /\ UNCHANGED <<replies, sessionVars, handlerVars>>

(* Mutant: the next reader is started here too.                            *)
HandleSessionReading(c) ==
    /\ Takes(c, "session", "reading")
    /\ handler' = "newSession" /\ serving' = c
    /\ UNCHANGED <<replies, sessionVars>>

HandleSession(c) ==
    /\ Takes(c, "session", "none")
    /\ handler' = "newSession" /\ serving' = c
    /\ UNCHANGED <<replies, sessionVars>>

(* The rest of the session's case is about the connection it serves, and   *)
(* nothing else is received meanwhile.                                     *)
Serves(c, pc) ==
    /\ handler = pc /\ serving = c
    /\ UNCHANGED <<clientVars, readerVars, listening, kill>>

GiveUp(c) ==
    /\ open' = open \ {c}
    /\ handler' = "receiving" /\ serving' = NoClient
    /\ UNCHANGED <<wire, replies, sessionVars>>

(* The SSH client is closed when the remoteHost is cleaned up.             *)
SSHClosed == kill # "none"

NewSessionFails(c) == Serves(c, "newSession") /\ GiveUp(c)

OpenSession(c) ==
    /\ Serves(c, "newSession") /\ ~SSHClosed
    /\ Send(c, Opened(sesscounter))
    /\ sid' = [sid EXCEPT ![c] = sesscounter]
    /\ sesscounter' = sesscounter + 1
    /\ handler' = "receivingFds" /\ tries' = 0
    /\ UNCHANGED <<wire, open, got, waiter, serving>>

(* Mutant: a message may bring more than one descriptor, and all count.    *)
CountAll(c) ==
    /\ Serves(c, "receivingFds") /\ tries < 3
    /\ c \in open /\ wire[c] # << >>
    /\ wire' = [wire EXCEPT ![c] = Tail(@)]
    /\ got' = [got EXCEPT ![c] = @ + 2]
    /\ tries' = tries + 1
    /\ UNCHANGED <<replies, open, sesscounter, waiter, sid, handlerVars>>

GetFd(c) ==
    /\ Serves(c, "receivingFds") /\ tries < 3
    /\ c \in open /\ wire[c] # << >>
    /\ wire' = [wire EXCEPT ![c] = Tail(@)]
    /\ got' = [got EXCEPT ![c] = @ + 1]
    /\ tries' = tries + 1
    /\ UNCHANGED <<replies, open, sesscounter, waiter, sid, handlerVars>>

(* No descriptor this time: the connection is closed, with all that nobody *)
(* has read, and the loop goes on to the next one, as continue is about    *)
(* the inner loop.                                                         *)
(* Mutant: the connection stays open.                                      *)
MissesFdOnly(c) ==
    /\ Serves(c, "receivingFds") /\ tries < 3
    /\ tries' = tries + 1
    /\ UNCHANGED <<connVars, got, sesscounter, waiter, sid, handlerVars>>

MissesFd(c) ==
    /\ Serves(c, "receivingFds") /\ tries < 3
    /\ wire' = [wire EXCEPT ![c] = << >>]
    /\ open' = open \ {c}
    /\ tries' = tries + 1
    /\ UNCHANGED <<replies, got, sesscounter, waiter, sid, handlerVars>>

(* There is none to receive: the client is gone, or the connection closed. *)
GetFdFails(c) ==
    /\ c \notin open \/ (wire[c] = << >> /\ client[c] = "gone")
    /\ MissesFd(c)

(* conn.File, Recvmsg, Close or the parsing fails, which they may when the *)
(* client is there too: the process has no descriptors left, say.          *)
GetFdErrs(c) == c \in open /\ MissesFd(c)

(* The pty, the pipes and the command: the last steps that can fail.       *)
StartSession(c) ==
    /\ Serves(c, "receivingFds") /\ tries = 3
    /\ ~SSHClosed
    /\ waiter' = [waiter EXCEPT ![c] = "waiting"]
    /\ handler' = "receiving" /\ serving' = NoClient
    /\ UNCHANGED <<connVars, got, tries, sesscounter, sid>>

StartFails(c) == Serves(c, "receivingFds") /\ tries = 3 /\ GiveUp(c)

Handler(c) ==
    \/ HandleHello(c) \/ HandleAlive(c) \/ HandleOther(c) \/ HandleSession(c)
    \/ NewSessionFails(c) \/ OpenSession(c) \/ GetFd(c) \/ GetFdFails(c)
    \/ StartSession(c) \/ StartFails(c)

-----------------------------------------------------------------------------
(* The waiter: Wait returns nil, the command's status, or an error that    *)
(* has none, at the latest when the SSH client is closed.                  *)
(* Mutants: it sends the counter of now; it sends nothing without status.  *)
ExitWith(c, code, id, sends) ==
    /\ waiter[c] = "waiting"
    /\ IF sends THEN Send(c, Exited(id, code)) ELSE UNCHANGED replies
    /\ open' = open \ {c}
    /\ waiter' = [waiter EXCEPT ![c] = "done"]
    /\ UNCHANGED <<clientVars, wire, readerVars, got, tries, sesscounter, sid,
                   handlerVars, listening, kill>>

WaiterReadsCounter(c, code) == ExitWith(c, code, sesscounter - 1, TRUE)
WaiterNeedsStatus(c, code) == ExitWith(c, code, sid[c], code # "255")

Waiter(c, code) == ExitWith(c, code, sid[c], TRUE)

-----------------------------------------------------------------------------
(* The cleanup of the remoteHost, up to its m.Close().                     *)
Close ==
    /\ kill = "none"
    /\ kill' = "sending"
    /\ UNCHANGED <<clientVars, connVars, readerVars, sessionVars, handlerVars,
                   listening>>

HandleKill ==
    /\ kill = "sending" /\ handler = "receiving"
    /\ listening' = FALSE
    /\ handler' = "ended"
    /\ kill' = "closed"
    /\ UNCHANGED <<clientVars, connVars, readerVars, sessionVars, serving>>

Codes == {"zero", "status", "255"}

Next ==
    \/ \E c \in Clients :
          \/ Client(c) \/ Accept(c) \/ ReadMsg(c) \/ ReadFails(c) \/ Handler(c)
          \/ GetFdErrs(c)
          \/ \E code \in Codes : Waiter(c, code)
    \/ Close \/ HandleKill

Spec == Init /\ [][Next]_vars

(* The mux's goroutines run, and what waits for the host returns, at the   *)
(* latest when the SSH client is closed.  A client that has asked for a    *)
(* session sends its descriptors, or leaves: it does so without waiting.   *)
(* Nothing has to fail (GetFdErrs is no part of it).                       *)
(* The kill's turn comes among the readers that send on the same channel,  *)
(* as Go serves the senders of a channel in order.                         *)
Fairness ==
    /\ \A c \in Clients :
          /\ WF_vars(ReadMsg(c) \/ ReadFails(c))
          /\ WF_vars(Handler(c))
          /\ WF_vars(SSHClosed /\ \E code \in Codes : Waiter(c, code))
          /\ WF_vars(SendFd(c))
    /\ SF_vars(HandleKill)

FairSpec == Spec /\ Fairness

-----------------------------------------------------------------------------
(* The type of every variable.                                             *)
TypeOK ==
    /\ client \in [Clients -> {"away", "connecting", "greeted", "checking",
                               "fd1", "fd2", "fd3", "attached", "refused",
                               "gone"}]
    /\ checks \in [Clients -> 0..MaxChecks]
    /\ wire \in [Clients -> Seq(Messages \cup {"fd"})]
    /\ replies \in [Clients -> Seq(Reply)]
    /\ open \subseteq Clients
    /\ reader \in [Clients -> {"none", "reading", "sending"}]
    /\ msg \in [Clients -> Messages \cup {Nothing}]
    /\ listening \in BOOLEAN
    /\ handler \in {"receiving", "newSession", "receivingFds", "ended"}
    /\ serving \in Clients \cup {NoClient}
    /\ got \in [Clients -> 0..3] /\ tries \in 0..3
    /\ sesscounter \in Nat
    /\ waiter \in [Clients -> {"none", "waiting", "done"}]
    /\ sid \in [Clients -> Nat]
    /\ kill \in {"none", "sending", "closed"}

(* controlmux.go:270-283 and 361: a session that is started although a     *)
(* descriptor is missing runs for a connection that is closed.  As long as *)
(* a client can still be told how its session ended, the session has all   *)
(* three, whatever failed, whoever left and whatever was read meanwhile.   *)
StartedWithDescriptors ==
    \A c \in Clients : waiter[c] = "waiting" /\ c \in open => got[c] = 3

(* controlmux.go:11-13: every connection sees one conversation: hello, any *)
(* number of answers to alive checks, then at most one session opened, and *)
(* its exit, for the same session, as the last word.  No other session on  *)
(* the socket has the same identifier.                                     *)
Conversation(r) ==
    /\ \A i \in DOMAIN r : i = 1 <=> r[i].type = "hello"
    /\ \A i \in DOMAIN r : r[i].type = "exit" =>
          i = Len(r) /\ r[i - 1].type = "opened" /\ r[i - 1].sid = r[i].sid
    /\ \A i \in DOMAIN r : r[i].type = "opened" => i \geq Len(r) - 1

Conversations ==
    /\ \A c \in Clients : Conversation(replies[c])
    /\ \A c, d \in Clients : \A i \in DOMAIN replies[c], j \in DOMAIN replies[d] :
          c # d /\ replies[c][i].type = "opened" /\ replies[d][j].type = "opened"
          => replies[c][i].sid # replies[d][j].sid

(* remotehost.go:120-123: closing the mux returns, whatever the handler is *)
(* in the middle of, and the socket is gone.                               *)
CloseReturns == kill = "sending" ~> kill = "closed" /\ ~listening

(* controlmux.go:12-13, "sends the right exit code back to the client":    *)
(* also a client whose session ends because the host is disconnected gets  *)
(* an exit message, if its connection is still there.                      *)
AttachedGetExit ==
    \A c \in Clients :
        waiter[c] = "waiting" /\ c \in open /\ kill # "none" ~> Wrote(c, "exit")

=============================================================================

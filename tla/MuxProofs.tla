----------------------------- MODULE MuxProofs -----------------------------
(***************************************************************************)
(* Theorems about Mux, for any clients and any number of alive checks.     *)
(***************************************************************************)
EXTENDS Mux, FiniteSetTheorems, TLAPS

(* Messages of c that the handler has not taken: the reader's, and what a  *)
(* reader may find.  Descriptors are no messages.                          *)
NoMessage(c) ==
    msg[c] = Nothing /\ \A i \in 1..Len(wire[c]) : wire[c][i] = "fd"
Asked(c, m) == msg[c] = m \/ (wire[c] # << >> /\ wire[c][1] = m)

(* What the handler has said to c.                                         *)
Unopened(c) ==
    \A i \in 1..Len(replies[c]) : replies[c][i].type \in {"hello", "alive"}
LastOpened(c) ==
    /\ replies[c] # << >>
    /\ replies[c][Len(replies[c])] = Opened(sid[c])
    /\ \A i \in 1..(Len(replies[c]) - 1) :
          replies[c][i].type \in {"hello", "alive"}
Alives(c) == {i \in DOMAIN replies[c] : replies[c][i].type = "alive"}

(* The client asks one thing at a time: it waits for an answer, and sends  *)
(* only descriptors after a request that ends the conversation.            *)
AskingInv(c) ==
    /\ \A i \in 1..Len(wire[c]) : i > 1 \/ msg[c] # Nothing => wire[c][i] = "fd"
    /\ client[c] \notin {"fd2", "fd3", "attached", "gone"} =>
          \A i \in 1..Len(wire[c]) : wire[c][i] # "fd"
    /\ client[c] \in {"away", "connecting"} =>
          wire[c] = << >> /\ msg[c] = Nothing /\ replies[c] = << >>
    /\ client[c] \notin {"away", "connecting", "greeted", "gone"} =>
          replies[c] # << >>
    /\ replies[c] = << >> => checks[c] = 0
    /\ client[c] = "greeted" /\ replies[c] # << >> =>
          NoMessage(c) /\ Cardinality(Alives(c)) = checks[c]
    /\ client[c] = "checking" =>
          \/ NoMessage(c)
          \/ Asked(c, "alive") /\ Cardinality(Alives(c)) + 1 = checks[c]
    /\ Asked(c, "hello") => replies[c] = << >>
    /\ \A m \in Messages \ {"hello"} : Asked(c, m) => replies[c] # << >>

(* Until it asks for a session c is in none, and its connection is open.   *)
Idle(c) == Unopened(c) /\ c \in open /\ serving # c

SessionInv(c) ==
    /\ client[c] \in {"greeted", "checking"} \/ ~NoMessage(c) => Idle(c)
    /\ serving = c => waiter[c] = "none" /\ replies[c] # << >>
    /\ serving = c /\ handler = "newSession" => Unopened(c) /\ c \in open
    /\ serving = c /\ handler = "receivingFds" =>
          LastOpened(c) /\ got[c] \leq tries /\ (c \in open => got[c] = tries)
    /\ waiter[c] # "none" => ~Unopened(c)
    /\ waiter[c] = "waiting" => LastOpened(c) /\ (c \in open => got[c] = 3)
    /\ Unopened(c) => got[c] = 0

ConversationInv(c) ==
    /\ Conversation(replies[c])
    /\ ~Unopened(c) => sid[c] < sesscounter
    /\ \A i \in DOMAIN replies[c] :
          replies[c][i].type = "opened" => replies[c][i].sid = sid[c]

ClientInv(c) == AskingInv(c) /\ SessionInv(c) /\ ConversationInv(c)

HandlerInv == handler \in {"receiving", "ended"} <=> serving = NoClient
OwnSids ==
    \A c, d \in Clients :
        c # d /\ ~Unopened(c) /\ ~Unopened(d) => sid[c] # sid[d]

MuxInv == HandlerInv /\ OwnSids /\ \A c \in Clients : ClientInv(c)

-----------------------------------------------------------------------------
(* An answer more leaves those before it as they were.                     *)
LEMMA OneMoreReply ==
    ASSUME NEW r \in Seq(Reply), NEW a \in Reply
    PROVE  /\ Len(Append(r, a)) = Len(r) + 1 /\ Len(r) \in Nat
           /\ DOMAIN Append(r, a) = 1..(Len(r) + 1) /\ Append(r, a) # << >>
           /\ \A i \in 1..Len(r) : Append(r, a)[i] = r[i]
           /\ Append(r, a)[Len(r) + 1] = a
OBVIOUS

(* How a conversation goes on: after a hello to nobody spoken to,          *)
LEMMA HelloComesFirst ==
    /\ Conversation(Append(<< >>, Plain("hello")))
    /\ Plain("hello") \in Reply
BY DEF Conversation, Plain, Reply, Nothing

(* with the answer to an alive check, if no session was opened,            *)
LEMMA AliveComesNext ==
    ASSUME NEW r \in Seq(Reply), r # << >>, Conversation(r),
           \A i \in 1..Len(r) : r[i].type \in {"hello", "alive"}
    PROVE  /\ Conversation(Append(r, Plain("alive")))
           /\ Plain("alive") \in Reply
<1> DEFINE s == Append(r, Plain("alive"))
<1>1. /\ Len(s) = Len(r) + 1 /\ DOMAIN s = 1..(Len(r) + 1)
      /\ DOMAIN r = 1..Len(r) /\ Len(r) \in Nat /\ Len(r) > 0
      /\ s[Len(r) + 1].type = "alive"
      /\ \A i \in 1..Len(r) : s[i] = r[i]
  BY DEF Plain
<1> HIDE DEF s
<1>2. Conversation(s)
  BY <1>1 DEF Conversation
<1> QED
  BY <1>2 DEF s, Plain, Reply, Nothing

(* with the session that is opened,                                        *)
LEMMA OpenedComesNext ==
    ASSUME NEW r \in Seq(Reply), r # << >>, Conversation(r), NEW id \in Nat,
           \A i \in 1..Len(r) : r[i].type \in {"hello", "alive"}
    PROVE  /\ Conversation(Append(r, Opened(id)))
           /\ Opened(id) \in Reply
<1> DEFINE s == Append(r, Opened(id))
<1>1. /\ Len(s) = Len(r) + 1 /\ DOMAIN s = 1..(Len(r) + 1)
      /\ DOMAIN r = 1..Len(r) /\ Len(r) \in Nat /\ Len(r) > 0
      /\ s[Len(r) + 1].type = "opened"
      /\ \A i \in 1..Len(r) : s[i] = r[i]
  BY DEF Opened
<1> HIDE DEF s
<1>2. Conversation(s)
  BY <1>1 DEF Conversation
<1> QED
  BY <1>2 DEF s, Opened, Reply, Nothing

(* and with the exit of that session.                                      *)
LEMMA ExitComesLast ==
    ASSUME NEW r \in Seq(Reply), r # << >>, Conversation(r), NEW id \in Nat,
           NEW code \in Codes, r[Len(r)] = Opened(id),
           \A i \in 1..(Len(r) - 1) : r[i].type \in {"hello", "alive"}
    PROVE  /\ Conversation(Append(r, Exited(id, code)))
           /\ Exited(id, code) \in Reply
<1> DEFINE s == Append(r, Exited(id, code))
<1>1. /\ Len(s) = Len(r) + 1 /\ DOMAIN s = 1..(Len(r) + 1)
      /\ DOMAIN r = 1..Len(r) /\ Len(r) \in Nat /\ Len(r) > 0
      /\ s[Len(r) + 1].type = "exit" /\ s[Len(r) + 1].sid = id
      /\ \A i \in 1..Len(r) : s[i] = r[i]
  BY DEF Exited
<1>2. r[Len(r)].type = "opened" /\ r[Len(r)].sid = id
  BY DEF Opened
<1> HIDE DEF s
<1>3. Len(r) # 1
  BY <1>1, <1>2 DEF Conversation
<1>4. Conversation(s)
  <2>1. \A i \in DOMAIN s : i = 1 <=> s[i].type = "hello"
    BY <1>1 DEF Conversation
  <2>2. \A i \in DOMAIN s : s[i].type = "exit" =>
           i = Len(s) /\ s[i - 1].type = "opened" /\ s[i - 1].sid = s[i].sid
    <3> SUFFICES ASSUME NEW i \in DOMAIN s, s[i].type = "exit"
                 PROVE  i = Len(s) /\ s[i - 1].type = "opened"
                        /\ s[i - 1].sid = s[i].sid
      OBVIOUS
    <3>1. i = Len(r) + 1
      BY <1>1, <1>2
    <3> QED
      BY <3>1, <1>1, <1>2
  <2>3. \A i \in DOMAIN s : s[i].type = "opened" => i \geq Len(s) - 1
    BY <1>1, <1>2
  <2> QED
    BY <2>1, <2>2, <2>3 DEF Conversation
<1> QED
  BY <1>4 DEF s, Exited, Reply, Codes

-----------------------------------------------------------------------------
(* The types hold at the start,                                            *)
LEMMA MuxTypeInit == Init => TypeOK
BY MaxChecksAssumption DEF Init, TypeOK, Nothing, Messages

(* and every step keeps them: a descriptor is received in fewer than three *)
(* turns.                                                                  *)
LEMMA MuxTypeStep ==
    TypeOK /\ MuxInv /\ [Next]_vars => TypeOK'
<1> SUFFICES ASSUME TypeOK, MuxInv, [Next]_vars PROVE TypeOK'
  OBVIOUS
<1> USE DEF clientVars, connVars, readerVars, sessionVars, handlerVars
<1>1. ASSUME NEW c \in Clients, Client(c) PROVE TypeOK'
  <2> USE DEF ClientMoves, Writes
  <2>1. CASE Connect(c)
    BY <2>1 DEF Connect, TypeOK
  <2>2. CASE SayHello(c)
    BY <2>2 DEF SayHello, TypeOK, Messages
  <2>3. CASE CheckAlive(c)
    <3>1. checks' \in [Clients -> 0..MaxChecks]
      BY <2>3, MaxChecksAssumption DEF CheckAlive, TypeOK
    <3> QED
      BY <2>3, <3>1 DEF CheckAlive, TypeOK, Messages
  <2>4. CASE IsAlive(c)
    BY <2>4 DEF IsAlive, TypeOK
  <2>5. CASE AskSession(c)
    BY <2>5 DEF AskSession, TypeOK, Messages
  <2>6. CASE AskOther(c)
    BY <2>6 DEF AskOther, TypeOK, Messages
  <2>7. CASE SendFd(c)
    <3>1. \/ ClientMoves(c, "fd1", "fd2")
          \/ ClientMoves(c, "fd2", "fd3")
          \/ ClientMoves(c, "fd3", "attached")
      BY <2>7 DEF SendFd
    <3>2. UNCHANGED <<readerVars, sessionVars, handlerVars, listening, kill>>
      BY <3>1
    <3>3. client' \in [Clients -> {"away", "connecting", "greeted", "checking",
                                  "fd1", "fd2", "fd3", "attached", "refused",
                                  "gone"}]
      <4>1. client \in [Clients -> {"away", "connecting", "greeted", "checking",
                                   "fd1", "fd2", "fd3", "attached", "refused",
                                   "gone"}]
        BY DEF TypeOK
      <4> QED
        BY <3>1, <4>1
    <3>4. wire' \in [Clients -> Seq(Messages \cup {"fd"})]
      BY <2>7 DEF SendFd, TypeOK
    <3> QED
      BY <2>7, <3>2, <3>3, <3>4 DEF SendFd, TypeOK
  <2>8. CASE Leave(c)
    BY <2>8 DEF Leave, TypeOK
  <2> QED
    BY <1>1, <2>1, <2>2, <2>3, <2>4, <2>5, <2>6, <2>7, <2>8 DEF Client
<1>2. ASSUME NEW c \in Clients, Accept(c) PROVE TypeOK'
  BY <1>2 DEF Accept, TypeOK
<1>3. ASSUME NEW c \in Clients, ReadMsg(c) PROVE TypeOK'
  <2>1. wire' \in [Clients -> Seq(Messages \cup {"fd"})]
    BY <1>3 DEF ReadMsg, TypeOK
  <2>2. /\ reader' \in [Clients -> {"none", "reading", "sending"}]
        /\ msg' \in [Clients -> Messages \cup {Nothing}]
    BY <1>3 DEF ReadMsg, TypeOK
  <2> QED
    BY <1>3, <2>1, <2>2 DEF ReadMsg, TypeOK
<1>4. ASSUME NEW c \in Clients, ReadFails(c) PROVE TypeOK'
  BY <1>4 DEF ReadFails, TypeOK
<1>5. ASSUME NEW c \in Clients, Handler(c) PROVE TypeOK'
  <2> USE DEF Takes, Serves, GiveUp, Send
  <2>1. CASE HandleHello(c)
    BY <2>1, HelloComesFirst DEF HandleHello, TypeOK
  <2>2. CASE HandleAlive(c)
    <3>1. Plain("alive") \in Reply
      BY DEF Plain, Reply, Nothing
    <3> QED
      BY <2>2, <3>1 DEF HandleAlive, TypeOK
  <2>3. CASE HandleOther(c)
    BY <2>3 DEF HandleOther, TypeOK
  <2>4. CASE HandleSession(c)
    BY <2>4 DEF HandleSession, TypeOK
  <2>5. CASE NewSessionFails(c)
    BY <2>5 DEF NewSessionFails, TypeOK
  <2>6. CASE OpenSession(c)
    <3>1. Opened(sesscounter) \in Reply
      BY DEF Opened, Reply, Nothing, TypeOK
    <3> QED
      BY <2>6, <3>1 DEF OpenSession, TypeOK
  <2>7. CASE GetFd(c)
    <3>1. got[c] \leq tries /\ tries < 3
      BY <2>7 DEF GetFd, MuxInv, ClientInv, SessionInv
    <3>2. got' = [got EXCEPT ![c] = @ + 1] /\ tries' = tries + 1
      BY <2>7 DEF GetFd
    <3>3. got \in [Clients -> 0..3] /\ tries \in 0..3
      BY DEF TypeOK
    <3>4. got[c] + 1 \in 0..3 /\ tries + 1 \in 0..3
      BY <3>1, <3>3
    <3>5. got' \in [Clients -> 0..3] /\ tries' \in 0..3
      BY <3>2, <3>3, <3>4
    <3>6. wire' \in [Clients -> Seq(Messages \cup {"fd"})]
      BY <2>7 DEF GetFd, TypeOK
    <3> QED
      BY <2>7, <3>5, <3>6 DEF GetFd, TypeOK
  <2>8. CASE GetFdFails(c)
    BY <2>8 DEF GetFdFails, MissesFd, TypeOK
  <2>9. CASE StartSession(c)
    BY <2>9 DEF StartSession, TypeOK
  <2>10. CASE StartFails(c)
    BY <2>10 DEF StartFails, TypeOK
  <2> QED
    BY <1>5, <2>1, <2>2, <2>3, <2>4, <2>5, <2>6, <2>7, <2>8, <2>9, <2>10
       DEF Handler
<1>6. ASSUME NEW c \in Clients, NEW code \in Codes, Waiter(c, code) PROVE TypeOK'
  <2>1. Exited(sid[c], code) \in Reply
    BY DEF Exited, Reply, Codes, TypeOK
  <2>2. replies' = [replies EXCEPT ![c] = Append(@, Exited(sid[c], code))]
    BY <1>6 DEF Waiter, ExitWith, Send
  <2>3. replies' \in [Clients -> Seq(Reply)]
    BY <2>1, <2>2 DEF TypeOK
  <2> QED
    BY <1>6, <2>3 DEF Waiter, ExitWith, TypeOK
<1>7. ASSUME NEW c \in Clients, GetFdErrs(c) PROVE TypeOK'
  BY <1>7 DEF GetFdErrs, MissesFd, Serves, TypeOK
<1>8. CASE Close
  BY <1>8 DEF Close, TypeOK
<1>9. CASE HandleKill
  BY <1>9 DEF HandleKill, TypeOK
<1>10. CASE UNCHANGED vars
  BY <1>10 DEF vars, TypeOK
<1> QED
  BY <1>1, <1>2, <1>3, <1>4, <1>5, <1>6, <1>7, <1>8, <1>9, <1>10 DEF Next

-----------------------------------------------------------------------------
(* What a step of another connection leaves of d: its own state; it may    *)
(* take the handler, which is not serving d, and an identifier.            *)
Same(d) ==
    /\ client'[d] = client[d] /\ checks'[d] = checks[d]
    /\ wire'[d] = wire[d] /\ replies'[d] = replies[d]
    /\ msg'[d] = msg[d] /\ got'[d] = got[d]
    /\ waiter'[d] = waiter[d] /\ sid'[d] = sid[d]
    /\ d \in open <=> d \in open'
    /\ serving' = d => serving = d /\ handler' = handler /\ tries' = tries
    /\ sesscounter \in Nat /\ sesscounter' \in Nat /\ sesscounter \leq sesscounter'

(* Such a step keeps what the invariant says of d,                         *)
LEMMA OthersKeep ==
    ASSUME TypeOK, NEW d \in Clients, ClientInv(d), Same(d)
    PROVE  ClientInv(d)'
<1>1. NoMessage(d)' = NoMessage(d) /\ Unopened(d)' = Unopened(d)
  BY DEF Same, NoMessage, Unopened
<1>2. LastOpened(d)' = LastOpened(d) /\ Alives(d)' = Alives(d)
  BY DEF Same, LastOpened, Alives
<1>3. \A m \in Messages : Asked(d, m)' = Asked(d, m)
  BY DEF Same, Asked
<1>4. AskingInv(d)'
  BY <1>1, <1>2, <1>3 DEF ClientInv, AskingInv, Same, Messages
<1>5. SessionInv(d)'
  BY <1>1, <1>2 DEF ClientInv, SessionInv, Idle, Same
<1>6. ConversationInv(d)'
  <2>1. sid[d] \in Nat
    BY DEF TypeOK
  <2> QED
    BY <1>1, <2>1 DEF ClientInv, ConversationInv, Same
<1> QED
  BY <1>4, <1>5, <1>6 DEF ClientInv

(* so that a step of c is left to be looked at for c alone.                *)
LEMMA StepOfOne ==
    ASSUME TypeOK, MuxInv, NEW c \in Clients,
           \A d \in Clients \ {c} : Same(d),
           ClientInv(c)', HandlerInv',
           \/ ~Unopened(c)' => ~Unopened(c) /\ sid'[c] = sid[c]
           \/ sid'[c] = sesscounter
    PROVE  MuxInv'
<1>1. \A d \in Clients \ {c} : ClientInv(d)'
  BY OthersKeep DEF MuxInv
<1>2. \A d \in Clients \ {c} : Unopened(d)' = Unopened(d) /\ sid'[d] = sid[d]
  BY DEF Same, Unopened
<1>3. \A d \in Clients \ {c} : ~Unopened(d) => sid[d] # sid'[c] \/ Unopened(c)'
  <2> SUFFICES ASSUME NEW d \in Clients \ {c}, ~Unopened(d), ~Unopened(c)'
               PROVE  sid[d] # sid'[c]
    OBVIOUS
  <2>1. CASE ~Unopened(c) /\ sid'[c] = sid[c]
    BY <2>1 DEF MuxInv, OwnSids
  <2>2. CASE sid'[c] = sesscounter
    <3>1. sid[d] < sesscounter
      BY DEF MuxInv, ClientInv, ConversationInv
    <3> QED
      BY <2>2, <3>1 DEF TypeOK
  <2> QED
    BY <2>1, <2>2
<1>4. OwnSids'
  <2> SUFFICES ASSUME NEW a \in Clients, NEW b \in Clients, a # b,
                      ~Unopened(a)', ~Unopened(b)'
               PROVE  sid'[a] # sid'[b]
    BY DEF OwnSids
  <2>1. CASE a = c
    BY <2>1, <1>2, <1>3
  <2>2. CASE b = c
    BY <2>2, <1>2, <1>3
  <2>3. CASE a # c /\ b # c
    BY <2>3, <1>2 DEF MuxInv, OwnSids
  <2> QED
    BY <2>1, <2>2, <2>3
<1> QED
  BY <1>1, <1>4 DEF MuxInv

(* The invariant holds at the start.                                       *)
LEMMA MuxInvInit == Init => MuxInv
<1> SUFFICES ASSUME Init PROVE MuxInv
  OBVIOUS
<1>1. ASSUME NEW c \in Clients PROVE ClientInv(c)
  <2>1. AskingInv(c)
    BY DEF Init, AskingInv, NoMessage, Asked, Nothing, Messages
  <2>2. SessionInv(c)
    BY NoClientAssumption DEF Init, SessionInv, NoMessage, Unopened, Idle
  <2>3. ConversationInv(c)
    BY DEF Init, ConversationInv, Conversation, Unopened
  <2> QED
    BY <2>1, <2>2, <2>3 DEF ClientInv
<1>2. OwnSids
  BY DEF Init, OwnSids, Unopened
<1> QED
  BY <1>1, <1>2 DEF MuxInv, HandlerInv, Init

(* The types that the steps lean on.                                       *)
LEMMA OfClient ==
    ASSUME TypeOK, NEW c \in Clients
    PROVE  /\ wire[c] \in Seq(Messages \cup {"fd"}) /\ replies[c] \in Seq(Reply)
           /\ checks[c] \in Nat /\ got[c] \in Nat /\ tries \in Nat
           /\ sid[c] \in Nat /\ sesscounter \in Nat
           /\ msg[c] \in Messages \cup {Nothing} /\ NoClient \notin Clients
<1>1. checks[c] \in 0..MaxChecks /\ got[c] \in 0..3 /\ tries \in 0..3
  BY DEF TypeOK
<1>2. /\ wire[c] \in Seq(Messages \cup {"fd"}) /\ replies[c] \in Seq(Reply)
      /\ sid[c] \in Nat /\ sesscounter \in Nat
      /\ msg[c] \in Messages \cup {Nothing}
  BY DEF TypeOK
<1> QED
  BY <1>1, <1>2, NoClientAssumption, MaxChecksAssumption

(* A client that writes m when it has nothing on the wire asks just that,  *)
LEMMA WritesRequest ==
    ASSUME TypeOK, NEW c \in Clients, NEW m \in Messages, Writes(c, m),
           msg' = msg, NoMessage(c),
           \A i \in 1..Len(wire[c]) : wire[c][i] # "fd"
    PROVE  /\ wire'[c] = <<m>> /\ msg[c] = Nothing /\ m # "fd"
           /\ Asked(c, m)' /\ \A n \in Messages \ {m} : ~Asked(c, n)'
<1>1. wire[c] = << >>
  <2>1. Len(wire[c]) = 0
    <3>1. Len(wire[c]) \in Nat
      BY OfClient
    <3> QED
      BY <3>1 DEF NoMessage
  <2> QED
    BY <2>1, OfClient
<1>2. wire'[c] = <<m>>
  BY <1>1 DEF Writes, TypeOK
<1> QED
  BY <1>2 DEF NoMessage, Asked, Nothing, Messages

(* and one that sends a descriptor asks nothing new.                       *)
LEMMA WritesDescriptor ==
    ASSUME TypeOK, NEW c \in Clients, Writes(c, "fd"), msg' = msg
    PROVE  /\ NoMessage(c)' = NoMessage(c)
           /\ \A m \in Messages : Asked(c, m)' = Asked(c, m)
           /\ Len(wire'[c]) = Len(wire[c]) + 1 /\ Len(wire[c]) \in Nat
           /\ \A i \in 1..Len(wire[c]) : wire'[c][i] = wire[c][i]
           /\ wire'[c][Len(wire[c]) + 1] = "fd"
<1> DEFINE w == wire[c]
<1>1. w \in Seq(Messages \cup {"fd"}) /\ wire'[c] = Append(w, "fd")
  BY DEF Writes, TypeOK
<1>2. /\ Len(wire'[c]) = Len(w) + 1 /\ Len(w) \in Nat
      /\ \A i \in 1..Len(w) : wire'[c][i] = w[i]
      /\ wire'[c][Len(w) + 1] = "fd"
  BY <1>1
<1>3. wire'[c] # << >> /\ (w = << >> => Len(w) = 0) /\ (w # << >> => Len(w) > 0)
  BY <1>1
<1> HIDE DEF w
<1>4. (\A i \in 1..Len(wire'[c]) : wire'[c][i] = "fd")
       <=> \A i \in 1..Len(w) : w[i] = "fd"
  BY <1>2
<1>5. \A m \in Messages : Asked(c, m)' = Asked(c, m)
  <2> SUFFICES ASSUME NEW m \in Messages
               PROVE  (wire'[c] # << >> /\ wire'[c][1] = m)
                      <=> (w # << >> /\ w[1] = m)
    BY DEF Asked, w
  <2>1. m # "fd"
    BY DEF Messages
  <2> QED
    BY <1>2, <1>3, <2>1
<1> QED
  BY <1>2, <1>4, <1>5 DEF NoMessage, w

(* A step in which only the client itself moves, to another state,         *)
LEMMA OnlyClientMoves ==
    ASSUME TypeOK, NEW c \in Clients, NEW from, NEW to, ClientMoves(c, from, to),
           \/ UNCHANGED <<connVars, checks>>
           \/ \E m : Writes(c, m) /\ UNCHANGED checks
           \/ \E m : Writes(c, m) /\ checks' = [checks EXCEPT ![c] = @ + 1]
    PROVE  /\ \A d \in Clients \ {c} : Same(d)
           /\ UNCHANGED <<replies, open, msg, got, waiter, sid, serving, handler,
                          tries, sesscounter>>
           /\ Unopened(c)' = Unopened(c) /\ LastOpened(c)' = LastOpened(c)
           /\ Alives(c)' = Alives(c) /\ (HandlerInv => HandlerInv')
           /\ client[c] = from /\ client'[c] = to
<1>1. UNCHANGED <<replies, open, msg, got, waiter, sid, serving, handler,
                  tries, sesscounter>>
  BY DEF ClientMoves, Writes, connVars, readerVars, sessionVars, handlerVars
<1>2. client[c] = from /\ client' = [client EXCEPT ![c] = to]
  BY DEF ClientMoves
<1>3. \A d \in Clients \ {c} : wire'[d] = wire[d] /\ checks'[d] = checks[d]
  BY DEF Writes, connVars, TypeOK
<1>4. \A d \in Clients \ {c} : Same(d)
  BY <1>1, <1>2, <1>3 DEF Same, TypeOK
<1> QED
  BY <1>1, <1>2, <1>4 DEF Unopened, LastOpened, Alives, HandlerInv, TypeOK

-----------------------------------------------------------------------------
(* Every step of a client keeps the invariant: it asks one thing at a time *)
(* A client that neither sends nor counts leaves what it asked as it was,  *)
LEMMA SendsNothing ==
    ASSUME TypeOK, NEW c \in Clients, NEW from, NEW to, ClientMoves(c, from, to),
           UNCHANGED <<connVars, checks>>, SessionInv(c), ConversationInv(c),
           from # "gone" \/ to = "gone",
           to \in {"greeted", "checking"} => from \in {"greeted", "checking"}
    PROVE  /\ UNCHANGED <<wire, msg, replies, checks>>
           /\ NoMessage(c)' = NoMessage(c) /\ \A m : Asked(c, m)' = Asked(c, m)
           /\ SessionInv(c)' /\ ConversationInv(c)'
<1>1. /\ UNCHANGED <<replies, open, msg, got, waiter, sid, serving, handler,
                     tries, sesscounter>>
      /\ Unopened(c)' = Unopened(c) /\ LastOpened(c)' = LastOpened(c)
      /\ client[c] = from /\ client'[c] = to
  BY OnlyClientMoves
<1>2. UNCHANGED <<wire, checks>>
  BY DEF connVars
<1>3. NoMessage(c)' = NoMessage(c) /\ \A m : Asked(c, m)' = Asked(c, m)
  BY <1>1, <1>2 DEF NoMessage, Asked
<1>4. ConversationInv(c)'
  BY <1>1 DEF ConversationInv
<1>5. Idle(c)' = Idle(c)
  BY <1>1 DEF Idle
<1>6. SessionInv(c)'
  BY <1>1, <1>3, <1>5 DEF SessionInv
<1> QED
  BY <1>1, <1>2, <1>3, <1>4, <1>6

(* because it waits for the answers,                                       *)
LEMMA ClientKeeps ==
    ASSUME TypeOK, MuxInv, NEW c \in Clients, Client(c)
    PROVE  MuxInv'
<1>0. ClientInv(c) /\ HandlerInv
  BY DEF MuxInv
<1> USE OfClient DEF connVars, clientVars
<1>1. CASE Connect(c)
  <2>1. ClientMoves(c, "away", "connecting") /\ UNCHANGED <<connVars, checks>>
    BY <1>1 DEF Connect
  <2>2. /\ UNCHANGED <<wire, msg, replies, checks>>
        /\ NoMessage(c)' = NoMessage(c) /\ \A m : Asked(c, m)' = Asked(c, m)
        /\ SessionInv(c)' /\ ConversationInv(c)'
    BY <1>0, <2>1, SendsNothing DEF ClientInv
  <2>3. Alives(c)' = Alives(c) /\ client'[c] = "connecting"
    BY <2>1, OnlyClientMoves
  <2>4. AskingInv(c)'
    BY <1>0, <2>1, <2>2, <2>3 DEF ClientInv, AskingInv, ClientMoves
  <2> QED
    BY <1>0, <2>1, <2>2, <2>4, OnlyClientMoves, StepOfOne DEF ClientInv
<1>2. CASE SayHello(c)
  <2>1. /\ ClientMoves(c, "connecting", "greeted")
        /\ Writes(c, "hello") /\ UNCHANGED checks
    BY <1>2 DEF SayHello
  <2> HIDE DEF connVars
  <2>2. /\ \A d \in Clients \ {c} : Same(d)
        /\ UNCHANGED <<replies, open, msg, got, waiter, sid, serving, handler,
                       tries, sesscounter>>
        /\ Unopened(c)' = Unopened(c) /\ LastOpened(c)' = LastOpened(c)
        /\ Alives(c)' = Alives(c) /\ HandlerInv'
        /\ client[c] = "connecting" /\ client'[c] = "greeted"
    BY <1>0, <2>1, OnlyClientMoves
  <2>3. wire[c] = << >> /\ msg[c] = Nothing /\ replies[c] = << >>
    BY <1>0, <2>2 DEF ClientInv, AskingInv
  <2>4. NoMessage(c) /\ Unopened(c) /\ \A i \in 1..Len(wire[c]) : wire[c][i] # "fd"
    BY <2>3 DEF NoMessage, Unopened
  <2>5. /\ wire'[c] = <<"hello">> /\ Asked(c, "hello")'
        /\ \A n \in Messages \ {"hello"} : ~Asked(c, n)'
    BY <2>1, <2>2, <2>4, WritesRequest DEF Messages
  <2>6. AskingInv(c)'
    BY <1>0, <2>1, <2>2, <2>3, <2>5 DEF ClientInv, AskingInv
  <2>7. c \in open
    BY <1>2 DEF SayHello
  <2>8. SessionInv(c)'
    BY <1>0, <2>2, <2>3, <2>4, <2>7 DEF ClientInv, SessionInv, Idle
  <2>9. ConversationInv(c)'
    BY <1>0, <2>2 DEF ClientInv, ConversationInv
  <2> QED
    BY <2>2, <2>6, <2>8, <2>9, StepOfOne DEF ClientInv
<1>3. ASSUME NEW to \in {"checking", "fd1", "refused"}, NEW m \in Messages \ {"hello"},
             ClientMoves(c, "greeted", to), Writes(c, m), Wrote(c, "hello"),
             IF to = "checking"
             THEN m = "alive" /\ checks' = [checks EXCEPT ![c] = @ + 1]
             ELSE UNCHANGED checks
      PROVE  MuxInv'
  <2> HIDE DEF connVars
  <2>1. /\ \A d \in Clients \ {c} : Same(d)
        /\ UNCHANGED <<replies, open, msg, got, waiter, sid, serving, handler,
                       tries, sesscounter>>
        /\ Unopened(c)' = Unopened(c) /\ LastOpened(c)' = LastOpened(c)
        /\ Alives(c)' = Alives(c) /\ HandlerInv'
        /\ client[c] = "greeted" /\ client'[c] = to
    BY <1>0, <1>3, OnlyClientMoves
  <2>2. replies[c] # << >>
    BY <1>3 DEF Wrote
  <2>3. /\ NoMessage(c) /\ Cardinality(Alives(c)) = checks[c]
        /\ \A i \in 1..Len(wire[c]) : wire[c][i] # "fd"
    BY <1>0, <2>1, <2>2 DEF ClientInv, AskingInv
  <2>4. /\ wire'[c] = <<m>> /\ msg[c] = Nothing /\ m # "fd" /\ Asked(c, m)'
        /\ \A n \in Messages \ {m} : ~Asked(c, n)'
    BY <1>3, <2>1, <2>3, WritesRequest
  <2>5. to = "checking" => checks'[c] = checks[c] + 1
    BY <1>3 DEF TypeOK
  <2>6. AskingInv(c)'
    BY <1>0, <1>3, <2>1, <2>2, <2>3, <2>4, <2>5 DEF ClientInv, AskingInv, Messages
  <2>7. SessionInv(c)'
    BY <1>0, <1>3, <2>1 DEF ClientInv, SessionInv, Idle
  <2>8. ConversationInv(c)'
    BY <1>0, <2>1 DEF ClientInv, ConversationInv
  <2> QED
    BY <2>1, <2>6, <2>7, <2>8, StepOfOne DEF ClientInv
<1>4. CASE IsAlive(c)
  <2>1. /\ ClientMoves(c, "checking", "greeted") /\ UNCHANGED <<connVars, checks>>
        /\ Cardinality(Alives(c)) = checks[c]
    BY <1>4 DEF IsAlive, Alives
  <2>2. Cardinality(Alives(c)) + 1 # checks[c]
    BY <2>1
  <2>3. /\ UNCHANGED <<wire, msg, replies, checks>>
        /\ NoMessage(c)' = NoMessage(c) /\ \A m : Asked(c, m)' = Asked(c, m)
        /\ SessionInv(c)' /\ ConversationInv(c)'
    BY <1>0, <2>1, SendsNothing DEF ClientInv
  <2>4. /\ Alives(c)' = Alives(c) /\ client[c] = "checking"
        /\ client'[c] = "greeted"
    BY <2>1, OnlyClientMoves
  <2>5. NoMessage(c) /\ replies[c] # << >>
    BY <1>0, <2>1, <2>2, <2>4 DEF ClientInv, AskingInv
  <2>6. AskingInv(c)'
    BY <1>0, <2>1, <2>3, <2>4, <2>5 DEF ClientInv, AskingInv
  <2> QED
    BY <1>0, <2>1, <2>3, <2>6, OnlyClientMoves, StepOfOne DEF ClientInv
<1>5. CASE SendFd(c)
  <2>1. PICK from \in {"fd1", "fd2", "fd3"}, to \in {"fd2", "fd3", "attached"} :
           ClientMoves(c, from, to)
    BY <1>5 DEF SendFd
  <2>2. Writes(c, "fd") /\ UNCHANGED checks
    BY <1>5 DEF SendFd
  <2> HIDE DEF connVars
  <2>3. /\ \A d \in Clients \ {c} : Same(d)
        /\ UNCHANGED <<replies, open, msg, got, waiter, sid, serving, handler,
                       tries, sesscounter>>
        /\ Unopened(c)' = Unopened(c) /\ LastOpened(c)' = LastOpened(c)
        /\ Alives(c)' = Alives(c) /\ HandlerInv'
        /\ client[c] = from /\ client'[c] = to
    BY <1>0, <2>1, <2>2, OnlyClientMoves
  <2>4. /\ NoMessage(c)' = NoMessage(c)
        /\ \A m \in Messages : Asked(c, m)' = Asked(c, m)
        /\ Len(wire'[c]) = Len(wire[c]) + 1 /\ Len(wire[c]) \in Nat
        /\ \A i \in 1..Len(wire[c]) : wire'[c][i] = wire[c][i]
        /\ wire'[c][Len(wire[c]) + 1] = "fd"
    BY <2>2, <2>3, WritesDescriptor
  <2>5. AskingInv(c)'
    <3>1. \A i \in 1..Len(wire'[c]) : i > 1 \/ msg'[c] # Nothing => wire'[c][i] = "fd"
      <4>1. \A i \in 1..Len(wire[c]) : i > 1 \/ msg[c] # Nothing => wire[c][i] = "fd"
        BY <1>0 DEF ClientInv, AskingInv
      <4>2. 1..Len(wire'[c]) = (1..Len(wire[c])) \cup {Len(wire[c]) + 1}
        BY <2>4
      <4> QED
        BY <2>3, <2>4, <4>1, <4>2
    <3>2. client'[c] \in {"fd2", "fd3", "attached"} /\ replies[c] # << >>
      BY <1>0, <2>3 DEF ClientInv, AskingInv
    <3>3. checks'[c] = checks[c]
      BY <2>2
    <3> QED
      BY <1>0, <2>3, <2>4, <3>1, <3>2, <3>3 DEF ClientInv, AskingInv, Messages
  <2>6. SessionInv(c)'
    BY <1>0, <2>3, <2>4 DEF ClientInv, SessionInv, Idle
  <2>7. ConversationInv(c)'
    BY <1>0, <2>3 DEF ClientInv, ConversationInv
  <2> QED
    BY <2>3, <2>5, <2>6, <2>7, StepOfOne DEF ClientInv
<1>6. CASE Leave(c)
  <2>1. ClientMoves(c, client[c], "gone") /\ UNCHANGED <<connVars, checks>>
    BY <1>6 DEF Leave
  <2>2. /\ UNCHANGED <<wire, msg, replies, checks>>
        /\ NoMessage(c)' = NoMessage(c) /\ \A m : Asked(c, m)' = Asked(c, m)
        /\ SessionInv(c)' /\ ConversationInv(c)'
    BY <1>0, <1>6, <2>1, SendsNothing DEF ClientInv, Leave
  <2>3. Alives(c)' = Alives(c) /\ client'[c] = "gone"
    BY <2>1, OnlyClientMoves
  <2>4. AskingInv(c)'
    BY <1>0, <2>1, <2>2, <2>3 DEF ClientInv, AskingInv, ClientMoves
  <2> QED
    BY <1>0, <2>1, <2>2, <2>4, OnlyClientMoves, StepOfOne DEF ClientInv
<1>7. CASE CheckAlive(c)
  BY <1>3, <1>7 DEF CheckAlive, Messages
<1>8. CASE AskSession(c)
  BY <1>3, <1>8 DEF AskSession, Messages
<1>9. CASE AskOther(c)
  BY <1>3, <1>9 DEF AskOther, Messages
<1> QED
  BY <1>1, <1>2, <1>4, <1>5, <1>6, <1>7, <1>8, <1>9 DEF Client

(* so do accepting it and reading what it wrote: one message at most,      *)
LEMMA ReaderKeeps ==
    ASSUME TypeOK, MuxInv, NEW c \in Clients,
           Accept(c) \/ ReadMsg(c) \/ ReadFails(c)
    PROVE  MuxInv'
<1>0. ClientInv(c) /\ HandlerInv
  BY DEF MuxInv
<1> USE OfClient DEF connVars, clientVars, sessionVars, handlerVars
<1>1. UNCHANGED <<client, checks, replies, got, tries, sesscounter, waiter, sid,
                  handler, serving>>
  BY DEF Accept, ReadMsg, ReadFails
<1>2. open \subseteq open' /\ open' \subseteq open \cup {c}
  BY DEF Accept, ReadMsg, ReadFails
<1>3. \A d \in Clients \ {c} : wire'[d] = wire[d] /\ msg'[d] = msg[d]
  BY DEF Accept, ReadMsg, ReadFails, TypeOK
<1>4. \A d \in Clients \ {c} : Same(d)
  BY <1>1, <1>2, <1>3 DEF Same
<1>5. /\ HandlerInv' /\ (Unopened(c)' <=> Unopened(c))
      /\ (LastOpened(c)' <=> LastOpened(c)) /\ Alives(c)' = Alives(c)
  BY <1>0, <1>1 DEF HandlerInv, Unopened, LastOpened, Alives
<1>6. ConversationInv(c)'
  BY <1>0, <1>1, <1>5 DEF ClientInv, ConversationInv
<1>7. CASE UNCHANGED <<wire, msg>>
  <2>1. NoMessage(c)' = NoMessage(c) /\ \A m \in Messages : Asked(c, m)' = Asked(c, m)
    BY <1>7 DEF NoMessage, Asked
  <2>2. AskingInv(c)'
    BY <1>0, <1>1, <1>5, <1>7, <2>1 DEF ClientInv, AskingInv, Messages
  <2>3. open' = open \/ (waiter[c] = "none" /\ serving # c)
    <3>1. CASE Accept(c)
      <4>1. replies[c] = << >>
        BY <1>0, <3>1 DEF Accept, ClientInv, AskingInv
      <4>2. Unopened(c)
        BY <4>1 DEF Unopened
      <4> QED
        BY <1>0, <4>1, <4>2 DEF ClientInv, SessionInv
    <3> QED
      BY <1>7, <3>1 DEF ReadMsg, ReadFails
  <2>4. SessionInv(c)'
    BY <1>0, <1>1, <1>2, <1>5, <2>1, <2>3 DEF ClientInv, SessionInv, Idle
  <2> QED
    BY <1>1, <1>4, <1>5, <1>6, <2>2, <2>4, StepOfOne DEF ClientInv
<1>8. CASE ReadMsg(c)
  <2> DEFINE w == wire[c]
             m == Head(w)
  <2>1. /\ w # << >> /\ wire'[c] = Tail(w) /\ open' = open
        /\ msg'[c] = IF m \in Messages THEN m ELSE msg[c]
    BY <1>8 DEF ReadMsg, TypeOK
  <2>2. w \in Seq(Messages \cup {"fd"}) /\ "fd" \notin Messages
    BY DEF Messages
  <2>3. /\ m = w[1] /\ m \in Messages \cup {"fd"} /\ Len(w) \in Nat /\ Len(w) > 0
        /\ Len(Tail(w)) = Len(w) - 1
        /\ \A i \in 1..(Len(w) - 1) : Tail(w)[i] = w[i + 1]
    BY <2>1, <2>2
  <2>4. \A i \in 1..Len(w) : i > 1 \/ msg[c] # Nothing => w[i] = "fd"
    BY <1>0 DEF ClientInv, AskingInv
  <2> HIDE DEF w, m
  <2>5. \A i \in 1..Len(wire'[c]) : wire'[c][i] = "fd"
    BY <2>1, <2>3, <2>4
  <2>6. msg[c] # Nothing => m = "fd"
    BY <2>3, <2>4
  <2>7. \A i \in 1..Len(wire'[c]) : i + 1 \in 1..Len(w) /\ w[i + 1] = "fd"
    BY <2>1, <2>3, <2>4
  <2>8. \A n \in Messages : Asked(c, n)' <=> Asked(c, n)
    <3> SUFFICES ASSUME NEW n \in Messages PROVE Asked(c, n)' <=> Asked(c, n)
      OBVIOUS
    <3>1. wire'[c] # << >> => wire'[c][1] # n
      <4>1. wire'[c] # << >> => 1 \in 1..Len(wire'[c])
        BY <2>1, <2>2 DEF w
      <4> QED
        BY <4>1, <2>2, <2>5
    <3>2. Asked(c, n)' <=> msg'[c] = n
      BY <3>1 DEF Asked
    <3>3. Asked(c, n) <=> msg[c] = n \/ m = n
      BY <2>1, <2>3 DEF Asked, w
    <3> QED
      BY <2>1, <2>2, <2>3, <2>6, <3>2, <3>3 DEF Nothing, Messages
  <2>9. NoMessage(c)' <=> NoMessage(c)
    <3>1. NoMessage(c)' <=> msg'[c] = Nothing
      BY <2>5 DEF NoMessage
    <3>2. NoMessage(c) <=> msg[c] = Nothing /\ m = "fd"
      BY <2>3, <2>4 DEF NoMessage, w
    <3> QED
      BY <2>1, <2>2, <2>3, <3>1, <3>2 DEF Nothing, Messages
  <2>10. AskingInv(c)'
    <3>1. client[c] \notin {"fd2", "fd3", "attached", "gone"} =>
             \A i \in 1..Len(wire'[c]) : wire'[c][i] # "fd"
      BY <1>0, <2>7 DEF ClientInv, AskingInv, w
    <3>2. client[c] \notin {"away", "connecting"}
      BY <1>0, <2>1 DEF ClientInv, AskingInv, w
    <3> QED
      BY <1>0, <1>1, <1>5, <2>5, <2>8, <2>9, <3>1, <3>2
         DEF ClientInv, AskingInv, Messages
  <2>11. SessionInv(c)'
    BY <1>0, <1>1, <1>5, <2>1, <2>9 DEF ClientInv, SessionInv, Idle
  <2> QED
    BY <1>1, <1>4, <1>5, <1>6, <2>10, <2>11, StepOfOne DEF ClientInv
<1> QED
  BY <1>7, <1>8 DEF Accept, ReadFails

(* The handler's answers: the conversation is as far as the request said.  *)
LEMMA HandlerAnswers ==
    ASSUME TypeOK, MuxInv, NEW c \in Clients,
           \/ HandleHello(c) \/ HandleAlive(c) \/ HandleOther(c)
           \/ HandleSession(c)
    PROVE  MuxInv'
<1>0. ClientInv(c) /\ HandlerInv
  BY DEF MuxInv
<1> USE OfClient DEF connVars, clientVars, sessionVars, handlerVars
<1> DEFINE r == replies[c]
<1>1. PICK m \in Messages : msg[c] = m /\
         \/ m = "hello" /\ HandleHello(c)
         \/ m = "alive" /\ HandleAlive(c)
         \/ m = "other" /\ HandleOther(c)
         \/ m = "session" /\ HandleSession(c)
  BY DEF HandleHello, HandleAlive, HandleOther, HandleSession, Takes, Messages
<1>2. /\ UNCHANGED <<client, checks, wire, open, got, tries, sesscounter, waiter, sid>>
      /\ handler = "receiving" /\ msg' = [msg EXCEPT ![c] = Nothing]
  BY DEF HandleHello, HandleAlive, HandleOther, HandleSession, Takes
<1>3. /\ m = "hello" => replies' = [replies EXCEPT ![c] = Append(@, Plain("hello"))]
      /\ m = "alive" => replies' = [replies EXCEPT ![c] = Append(@, Plain("alive"))]
      /\ m \in {"other", "session"} => replies' = replies
      /\ m # "session" => UNCHANGED <<handler, serving>>
      /\ m = "session" => handler' = "newSession" /\ serving' = c
  BY <1>1 DEF HandleHello, HandleAlive, HandleOther, HandleSession, Send, Messages
<1>4. \A d \in Clients \ {c} : Same(d)
  BY <1>1, <1>2, <1>3 DEF Same, TypeOK, Messages
<1>5. /\ Asked(c, m) /\ ~NoMessage(c)
      /\ \A i \in 1..Len(wire[c]) : wire[c][i] = "fd"
  BY <1>0, <1>1 DEF ClientInv, AskingInv, Asked, NoMessage, Nothing, Messages
<1>6. NoMessage(c)' /\ \A n \in Messages : ~Asked(c, n)'
  <2>1. msg'[c] = Nothing
    BY <1>2 DEF TypeOK
  <2>2. wire[c] # << >> => wire[c][1] = "fd"
    BY <1>5
  <2> QED
    BY <1>2, <1>5, <2>1, <2>2 DEF NoMessage, Asked, Nothing, Messages
<1>7. HandlerInv'
  BY <1>0, <1>2, <1>3 DEF HandlerInv, Messages
<1>8. Idle(c) /\ serving = NoClient
  BY <1>0, <1>2, <1>5 DEF ClientInv, SessionInv, HandlerInv
<1>9. client[c] \notin {"away", "connecting"}
  BY <1>0, <1>1 DEF ClientInv, AskingInv, Nothing, Messages
<1>10. waiter[c] = "none" /\ got[c] = 0
  BY <1>0, <1>8 DEF ClientInv, SessionInv, Idle
<1>11. CASE m = "hello"
  <2>1. r = << >> /\ checks[c] = 0 /\ client[c] # "checking"
    BY <1>0, <1>5, <1>11 DEF ClientInv, AskingInv
  <2>2. replies'[c] = Append(<< >>, Plain("hello"))
    BY <1>3, <1>11, <2>1 DEF TypeOK
  <2>3. replies'[c] = <<Plain("hello")>> /\ Unopened(c)'
    BY <2>2 DEF Unopened, Plain
  <2>4. Alives(c)' = {}
    BY <2>3 DEF Alives, Plain
  <2>5. Cardinality(Alives(c)') = 0
    BY <2>4, FS_EmptySet
  <2>6. AskingInv(c)'
    BY <1>0, <1>2, <1>5, <1>6, <1>9, <2>1, <2>3, <2>5 DEF ClientInv, AskingInv
  <2>7. SessionInv(c)'
    BY <1>0, <1>2, <1>3, <1>6, <1>8, <1>10, <1>11, <2>3 DEF SessionInv, Idle
  <2>8. ConversationInv(c)'
    BY <2>2, <2>3, HelloComesFirst DEF ConversationInv, Plain
  <2> QED
    BY <1>4, <1>7, <2>3, <2>6, <2>7, <2>8, StepOfOne DEF ClientInv
<1>12. r # << >> <=> m # "hello"
  BY <1>0, <1>5 DEF ClientInv, AskingInv
<1>13. client[c] # "greeted" \/ m = "hello"
  BY <1>0, <1>5, <1>12 DEF ClientInv, AskingInv
<1>14. CASE m = "alive"
  <2>1. /\ Conversation(Append(r, Plain("alive")))
        /\ replies'[c] = Append(r, Plain("alive"))
    <3>1. Conversation(r) /\ \A i \in 1..Len(r) : r[i].type \in {"hello", "alive"}
      BY <1>0, <1>8 DEF ClientInv, ConversationInv, Idle, Unopened
    <3>2. replies'[c] = Append(r, Plain("alive"))
      BY <1>3, <1>14 DEF TypeOK
    <3>3. r # << >> /\ r \in Seq(Reply)
      BY <1>12, <1>14
    <3> QED
      BY <3>1, <3>2, <3>3, AliveComesNext
  <2>2. /\ Len(replies'[c]) = Len(r) + 1 /\ Len(r) \in Nat /\ replies'[c] # << >>
        /\ DOMAIN replies'[c] = 1..(Len(r) + 1)
        /\ \A i \in 1..Len(r) : replies'[c][i] = r[i]
        /\ replies'[c][Len(r) + 1].type = "alive"
    <3> DEFINE a == Plain("alive")
               s == Append(r, a)
    <3>1. a \in Reply /\ a.type = "alive" /\ r \in Seq(Reply)
      BY DEF Plain, Reply
    <3>2. replies'[c] = s
      BY <2>1
    <3>3. /\ Len(s) = Len(r) + 1 /\ Len(r) \in Nat
          /\ DOMAIN s = 1..(Len(r) + 1) /\ s # << >>
          /\ \A i \in 1..Len(r) : s[i] = r[i]
          /\ s[Len(r) + 1] = a
      BY <3>1, OneMoreReply
    <3> HIDE DEF a, s
    <3> QED
      BY <3>1, <3>2, <3>3
  <2>3. Unopened(c)' /\ \A i \in DOMAIN replies'[c] : replies'[c][i].type # "opened"
    <3>1. \A i \in 1..Len(r) : r[i].type \in {"hello", "alive"}
      BY <1>8 DEF Unopened, Idle
    <3> HIDE DEF r
    <3>2. \A i \in 1..(Len(r) + 1) : replies'[c][i].type \in {"hello", "alive"}
      BY <2>2, <3>1
    <3> QED
      BY <2>2, <3>2 DEF Unopened
  <2>4. AskingInv(c)'
    BY <1>0, <1>2, <1>5, <1>6, <1>9, <1>13, <1>14, <2>2
       DEF ClientInv, AskingInv, Messages
  <2>5. SessionInv(c)'
    BY <1>0, <1>2, <1>3, <1>6, <1>8, <1>10, <1>14, <2>3 DEF SessionInv, Idle
  <2>6. ConversationInv(c)'
    BY <2>1, <2>3 DEF ConversationInv
  <2> QED
    BY <1>4, <1>7, <2>3, <2>4, <2>5, <2>6, StepOfOne DEF ClientInv
<1>15. CASE m \in {"other", "session"}
  <2>1. (Unopened(c)' <=> Unopened(c)) /\ replies'[c] = r /\ Alives(c)' = Alives(c)
    BY <1>3, <1>15 DEF Unopened, Alives
  <2>2. client[c] # "checking"
    BY <1>0, <1>1, <1>5, <1>15 DEF ClientInv, AskingInv, Asked
  <2>3. AskingInv(c)'
    BY <1>0, <1>2, <1>5, <1>6, <1>9, <1>12, <1>13, <1>15, <2>1, <2>2
       DEF ClientInv, AskingInv, Messages
  <2>4. SessionInv(c)'
    BY <1>2, <1>3, <1>6, <1>8, <1>10, <1>12, <1>13, <1>15, <2>1, <2>2
       DEF SessionInv, Idle
  <2>5. ConversationInv(c)'
    BY <1>0, <1>2, <2>1 DEF ClientInv, ConversationInv
  <2> QED
    BY <1>2, <1>4, <1>7, <2>1, <2>3, <2>4, <2>5, StepOfOne DEF ClientInv
<1> QED
  BY <1>11, <1>14, <1>15 DEF Messages

(* The steps of a session's case: an identifier of its own, and as many    *)
(* descriptors as turns of the loop unless the client has left.            *)
LEMMA HandlerServes ==
    ASSUME TypeOK, MuxInv, NEW c \in Clients,
           \/ NewSessionFails(c) \/ OpenSession(c) \/ GetFd(c)
           \/ GetFdFails(c) \/ GetFdErrs(c) \/ StartSession(c) \/ StartFails(c)
    PROVE  MuxInv'
<1>0. ClientInv(c) /\ HandlerInv
  BY DEF MuxInv
<1> USE OfClient DEF connVars, clientVars, readerVars, sessionVars, handlerVars
<1> DEFINE r == replies[c]
           w == wire[c]
<1>1. /\ UNCHANGED <<client, checks, msg>> /\ serving = c
      /\ handler \in {"newSession", "receivingFds"}
  BY DEF NewSessionFails, OpenSession, GetFd, GetFdFails, GetFdErrs, MissesFd,
         StartSession, StartFails, Serves
<1>2. /\ NoMessage(c) /\ waiter[c] = "none" /\ r # << >>
      /\ client[c] \notin {"away", "connecting", "greeted", "checking"}
  BY <1>0, <1>1 DEF ClientInv, AskingInv, SessionInv, Idle
<1>3. \A n \in Messages : ~Asked(c, n)
  <2>1. w # << >> => w[1] = "fd"
    <3>1. w \in Seq(Messages \cup {"fd"})
      OBVIOUS
    <3>2. w # << >> => 1 \in 1..Len(w)
      BY <3>1
    <3> QED
      BY <1>2, <3>2 DEF NoMessage
  <2> QED
    BY <1>2, <2>1 DEF NoMessage, Asked, Nothing, Messages
<1>4. HandlerInv'
  BY <1>0, <1>1 DEF NewSessionFails, OpenSession, GetFd, GetFdFails, GetFdErrs,
         MissesFd, StartSession, StartFails, Serves, GiveUp, HandlerInv
<1>5. ASSUME UNCHANGED <<wire, replies, got, tries, sesscounter, sid>>,
             serving' = NoClient, open' \subseteq open, open \subseteq open' \cup {c},
             \A d \in Clients \ {c} : waiter'[d] = waiter[d],
             \/ waiter' = waiter
             \/ /\ waiter'[c] = "waiting" /\ LastOpened(c)
                /\ c \in open => got[c] = 3
      PROVE  MuxInv'
  <2>1. \A d \in Clients \ {c} : Same(d)
    BY <1>1, <1>5 DEF Same
  <2>2. /\ (Unopened(c)' <=> Unopened(c)) /\ (LastOpened(c)' <=> LastOpened(c))
        /\ Alives(c)' = Alives(c) /\ NoMessage(c)'
        /\ \A n \in Messages : ~Asked(c, n)'
    BY <1>1, <1>2, <1>3, <1>5
       DEF Unopened, LastOpened, Alives, NoMessage, Asked
  <2>3. AskingInv(c)'
    BY <1>0, <1>1, <1>2, <1>5, <2>2 DEF ClientInv, AskingInv, Messages
  <2>4. LastOpened(c) => ~Unopened(c)
    <3>1. r # << >> => Len(r) \in 1..Len(r)
      <4>1. r \in Seq(Reply)
        OBVIOUS
      <4> QED
        BY <4>1
    <3> QED
      BY <3>1 DEF LastOpened, Unopened, Opened
  <2>5. SessionInv(c)'
    BY <1>0, <1>1, <1>2, <1>5, <2>2, <2>4 DEF ClientInv, SessionInv
  <2>6. ConversationInv(c)'
    BY <1>0, <1>5, <2>2 DEF ClientInv, ConversationInv
  <2> QED
    BY <1>4, <1>5, <2>1, <2>2, <2>3, <2>5, <2>6, StepOfOne DEF ClientInv
<1>6. CASE NewSessionFails(c)
  BY <1>5, <1>6 DEF NewSessionFails, GiveUp
<1>7. CASE StartFails(c)
  BY <1>5, <1>7 DEF StartFails, GiveUp
<1>8. CASE StartSession(c)
  <2>1. handler = "receivingFds" /\ tries = 3
    BY <1>8 DEF StartSession, Serves
  <2>2. LastOpened(c) /\ (c \in open => got[c] = 3)
    BY <1>0, <1>1, <2>1 DEF ClientInv, SessionInv
  <2>3. waiter'[c] = "waiting" /\ \A d \in Clients \ {c} : waiter'[d] = waiter[d]
    BY <1>8 DEF StartSession, TypeOK
  <2> QED
    BY <1>5, <1>8, <2>2, <2>3 DEF StartSession
<1>9. CASE OpenSession(c)
  <2>1. /\ handler = "newSession" /\ replies'[c] = Append(r, Opened(sesscounter))
        /\ sid'[c] = sesscounter /\ sesscounter' = sesscounter + 1
        /\ handler' = "receivingFds" /\ tries' = 0
        /\ UNCHANGED <<wire, open, got, waiter, serving>>
    BY <1>9 DEF OpenSession, Serves, Send, TypeOK
  <2>2. /\ Unopened(c) /\ c \in open /\ got[c] = 0
    BY <1>0, <1>1, <2>1 DEF ClientInv, SessionInv
  <2>3. \A d \in Clients \ {c} : replies'[d] = replies[d] /\ sid'[d] = sid[d]
    BY <1>9 DEF OpenSession, Send, TypeOK
  <2>4. \A d \in Clients \ {c} : Same(d)
    BY <1>1, <2>1, <2>3 DEF Same
  <2>5. r \in Seq(Reply) /\ r # << >> /\ Conversation(r) /\ sesscounter \in Nat
        /\ \A i \in 1..Len(r) : r[i].type \in {"hello", "alive"}
    BY <1>0, <1>2, <2>2 DEF ClientInv, ConversationInv, Unopened
  <2> HIDE DEF r
  <2>6. Conversation(replies'[c])
    BY <2>1, <2>5, OpenedComesNext
  <2>7. /\ Len(replies'[c]) = Len(r) + 1 /\ Len(r) \in Nat /\ replies'[c] # << >>
        /\ DOMAIN replies'[c] = 1..(Len(r) + 1)
        /\ \A i \in 1..Len(r) : replies'[c][i] = r[i]
        /\ replies'[c][Len(r) + 1] = Opened(sesscounter)
    <3>1. Append(r, Opened(sesscounter)) # << >>
      BY <2>5
    <3> QED
      BY <2>1, <2>5, <3>1
  <2>8. LastOpened(c)'
    <3>1. \A i \in 1..(Len(replies'[c]) - 1) :
             replies'[c][i].type \in {"hello", "alive"}
      BY <2>5, <2>7
    <3> QED
      BY <2>1, <2>7, <3>1 DEF LastOpened
  <2>9. ~Unopened(c)'
    <3>1. Len(r) + 1 \in 1..Len(replies'[c]) /\ replies'[c][Len(r) + 1].type = "opened"
      BY <2>7 DEF Opened
    <3> QED
      BY <3>1 DEF Unopened
  <2>10. NoMessage(c)' /\ \A n \in Messages : ~Asked(c, n)'
    BY <1>1, <1>2, <1>3, <2>1 DEF NoMessage, Asked
  <2>11. AskingInv(c)'
    BY <1>0, <1>1, <1>2, <2>1, <2>7, <2>10 DEF ClientInv, AskingInv, Messages
  <2>12. SessionInv(c)'
    BY <1>1, <1>2, <2>1, <2>2, <2>7, <2>8, <2>9, <2>10 DEF SessionInv
  <2>13. ConversationInv(c)'
    <3>1. \A i \in DOMAIN replies'[c] : replies'[c][i].type = "opened" =>
             replies'[c][i].sid = sesscounter
      <4> SUFFICES ASSUME NEW i \in 1..(Len(r) + 1), replies'[c][i].type = "opened"
                   PROVE  replies'[c][i].sid = sesscounter
        BY <2>7
      <4>1. i = Len(r) + 1
        BY <2>5, <2>7
      <4> QED
        BY <4>1, <2>7 DEF Opened
    <3> QED
      BY <2>1, <2>5, <2>6, <3>1 DEF ConversationInv
  <2> QED
    BY <1>4, <2>1, <2>4, <2>11, <2>12, <2>13, StepOfOne DEF ClientInv
<1>10. CASE GetFd(c) \/ GetFdFails(c) \/ GetFdErrs(c)
  <2>1. /\ handler = "receivingFds" /\ tries < 3 /\ tries' = tries + 1
        /\ UNCHANGED <<replies, sesscounter, waiter, sid, handler, serving>>
        /\ \A d \in Clients \ {c} : wire'[d] = wire[d] /\ got'[d] = got[d]
        /\ open' \subseteq open /\ open \subseteq open' \cup {c}
    BY <1>10 DEF GetFd, GetFdFails, GetFdErrs, MissesFd, Serves, TypeOK
  <2>2. /\ wire'[c] = << >> \/ (w # << >> /\ wire'[c] = Tail(w))
        /\ \/ got'[c] = got[c] + 1 /\ open' = open
           \/ got'[c] = got[c] /\ c \notin open'
    BY <1>10 DEF GetFd, GetFdFails, GetFdErrs, MissesFd, TypeOK
  <2>3. /\ LastOpened(c) /\ got[c] \leq tries
        /\ c \in open => got[c] = tries
    BY <1>0, <1>1, <2>1 DEF ClientInv, SessionInv
  <2>4. \A d \in Clients \ {c} : Same(d)
    BY <1>1, <2>1 DEF Same
  <2>5. /\ (Unopened(c)' <=> Unopened(c)) /\ LastOpened(c)'
        /\ Alives(c)' = Alives(c)
    BY <2>1, <2>3 DEF Unopened, LastOpened, Alives
  <2>6. /\ wire'[c] \in Seq(Messages \cup {"fd"})
        /\ \A i \in 1..Len(wire'[c]) :
              wire'[c][i] = "fd" /\ \E j \in 1..Len(w) : w[j] = "fd"
    <3>1. \A i \in 1..Len(w) : w[i] = "fd"
      BY <1>2 DEF NoMessage
    <3>2. w \in Seq(Messages \cup {"fd"})
      OBVIOUS
    <3>3. CASE wire'[c] = << >>
      BY <3>3
    <3>4. CASE w # << >> /\ wire'[c] = Tail(w)
      <4> HIDE DEF w
      <4>1. /\ Len(Tail(w)) = Len(w) - 1 /\ Len(w) \in Nat
            /\ Tail(w) \in Seq(Messages \cup {"fd"})
            /\ \A i \in 1..(Len(w) - 1) : Tail(w)[i] = w[i + 1]
        BY <3>2, <3>4
      <4> QED
        BY <3>1, <3>4, <4>1
    <3> QED
      BY <2>2, <3>3, <3>4
  <2>7. NoMessage(c)' /\ \A n \in Messages : ~Asked(c, n)'
    <3>1. msg'[c] = Nothing
      BY <1>1, <1>2 DEF NoMessage
    <3>2. wire'[c] # << >> => wire'[c][1] = "fd"
      <4>1. wire'[c] # << >> => 1 \in 1..Len(wire'[c])
        BY <2>6
      <4> QED
        BY <2>6, <4>1
    <3> QED
      BY <2>6, <3>1, <3>2 DEF NoMessage, Asked, Nothing, Messages
  <2>8. AskingInv(c)'
    <3>1. client[c] \notin {"fd2", "fd3", "attached", "gone"} =>
             \A i \in 1..Len(wire'[c]) : wire'[c][i] # "fd"
      BY <1>0, <2>6 DEF ClientInv, AskingInv
    <3> QED
      BY <1>0, <1>1, <1>2, <2>1, <2>6, <2>7, <3>1
         DEF ClientInv, AskingInv, Messages
  <2>9. ~Unopened(c)
    <3>1. Len(r) \in 1..Len(r)
      <4>1. r \in Seq(Reply)
        OBVIOUS
      <4> QED
        BY <4>1, <1>2
    <3>2. r[Len(r)].type = "opened"
      BY <2>3 DEF LastOpened, Opened
    <3> QED
      BY <3>1, <3>2 DEF Unopened
  <2>10. SessionInv(c)'
    <3>1. got'[c] \leq tries' /\ (c \in open' => got'[c] = tries')
      BY <2>1, <2>2, <2>3 DEF TypeOK
    <3> QED
      BY <1>1, <1>2, <2>1, <2>5, <2>7, <2>9, <3>1 DEF SessionInv
  <2>11. ConversationInv(c)'
    BY <1>0, <2>1, <2>5 DEF ClientInv, ConversationInv
  <2> QED
    BY <1>4, <2>1, <2>4, <2>5, <2>8, <2>10, <2>11, StepOfOne DEF ClientInv
<1> QED
  BY <1>6, <1>7, <1>8, <1>9, <1>10

(* The waiter's exit message: it is the session's last word.               *)
LEMMA WaiterKeeps ==
    ASSUME TypeOK, MuxInv, NEW c \in Clients, NEW code \in Codes,
           Waiter(c, code)
    PROVE  MuxInv'
<1>0. ClientInv(c) /\ HandlerInv
  BY DEF MuxInv
<1> USE OfClient DEF readerVars, clientVars, handlerVars
<1> DEFINE r == replies[c]
           e == Exited(sid[c], code)
<1>1. /\ waiter[c] = "waiting" /\ waiter'[c] = "done" /\ open' = open \ {c}
      /\ replies'[c] = Append(r, e)
      /\ UNCHANGED <<client, checks, wire, msg, got, tries, sesscounter, sid,
                     handler, serving>>
      /\ \A d \in Clients \ {c} :
            replies'[d] = replies[d] /\ waiter'[d] = waiter[d]
  BY DEF Waiter, ExitWith, Send, TypeOK
<1>2. \A d \in Clients \ {c} : Same(d)
  BY <1>1 DEF Same
<1>3. /\ LastOpened(c) /\ ~Unopened(c)
      /\ NoMessage(c) /\ client[c] \notin {"greeted", "checking"}
      /\ serving # c /\ Conversation(r) /\ r # << >>
  BY <1>0, <1>1 DEF ClientInv, SessionInv, ConversationInv, Idle, LastOpened
<1>4. /\ r[Len(r)] = Opened(sid[c]) /\ r \in Seq(Reply) /\ sid[c] \in Nat
      /\ \A i \in 1..(Len(r) - 1) : r[i].type \in {"hello", "alive"}
  BY <1>3 DEF LastOpened
<1> HIDE DEF r
<1>5. Conversation(replies'[c])
  BY <1>1, <1>3, <1>4, ExitComesLast
<1> HIDE DEF e
<1>6. /\ Len(replies'[c]) = Len(r) + 1 /\ Len(r) \in Nat /\ Len(r) > 0
      /\ replies'[c] # << >> /\ DOMAIN replies'[c] = 1..(Len(r) + 1)
      /\ \A i \in 1..Len(r) : replies'[c][i] = r[i]
      /\ replies'[c][Len(r) + 1] = e
  <2>1. Append(r, e) # << >>
    BY <1>4
  <2> QED
    BY <1>1, <1>3, <1>4, <2>1
<1>7. ~Unopened(c)'
  <2>1. Len(r) \in 1..Len(replies'[c]) /\ replies'[c][Len(r)].type = "opened"
    BY <1>4, <1>6 DEF Opened
  <2> QED
    BY <2>1 DEF Unopened
<1>8. NoMessage(c)' /\ \A n \in Messages : Asked(c, n)' <=> Asked(c, n)
  BY <1>1, <1>3 DEF NoMessage, Asked
<1>9. client[c] \notin {"away", "connecting"} /\ ~Asked(c, "hello")
  BY <1>0, <1>3 DEF ClientInv, AskingInv, r
<1>10. AskingInv(c)'
  BY <1>0, <1>1, <1>3, <1>6, <1>8, <1>9 DEF ClientInv, AskingInv, Messages
<1>11. SessionInv(c)'
  BY <1>1, <1>3, <1>7, <1>8 DEF SessionInv
<1>12. ConversationInv(c)'
  <2>1. sid[c] < sesscounter /\ \A i \in 1..Len(r) :
           r[i].type = "opened" => r[i].sid = sid[c]
    BY <1>0, <1>3, <1>4 DEF ClientInv, ConversationInv, r
  <2>2. e.type # "opened"
    BY DEF e, Exited
  <2>3. \A i \in 1..(Len(r) + 1) : replies'[c][i].type = "opened" =>
           replies'[c][i].sid = sid[c]
    BY <1>6, <2>1, <2>2
  <2> QED
    BY <1>1, <1>5, <1>6, <2>1, <2>3 DEF ConversationInv
<1>13. HandlerInv'
  BY <1>0, <1>1 DEF HandlerInv
<1> QED
  BY <1>1, <1>2, <1>3, <1>10, <1>11, <1>12, <1>13, StepOfOne DEF ClientInv

(* Closing the mux says nothing to anybody.                                *)
LEMMA CloseKeeps ==
    ASSUME TypeOK, MuxInv, Close \/ HandleKill
    PROVE  MuxInv'
<1> USE DEF clientVars, connVars, readerVars, sessionVars
<1>1. /\ UNCHANGED <<client, checks, wire, replies, open, msg, got, tries,
                     sesscounter, waiter, sid, serving>>
      /\ handler' = handler \/ (handler = "receiving" /\ handler' = "ended")
  BY DEF Close, HandleKill, handlerVars
<1>2. HandlerInv' /\ (serving # NoClient => handler' = handler)
  BY <1>1 DEF MuxInv, HandlerInv
<1>3. \A d \in Clients : Same(d)
  BY <1>1, <1>2, OfClient DEF Same
<1>4. \A d \in Clients : ClientInv(d)'
  BY <1>3, OthersKeep DEF MuxInv
<1>5. OwnSids'
  BY <1>1 DEF MuxInv, OwnSids, Unopened
<1> QED
  BY <1>2, <1>4, <1>5 DEF MuxInv

(* So the types and the invariant hold together,                           *)
LEMMA MuxInvStep == TypeOK /\ MuxInv /\ [Next]_vars => MuxInv'
<1> SUFFICES ASSUME TypeOK, MuxInv, [Next]_vars PROVE MuxInv'
  OBVIOUS
<1>1. CASE \E c \in Clients :
              \/ Client(c) \/ Accept(c) \/ ReadMsg(c) \/ ReadFails(c) \/ Handler(c)
              \/ GetFdErrs(c)
              \/ \E code \in Codes : Waiter(c, code)
  BY <1>1, ClientKeeps, ReaderKeeps, HandlerAnswers, HandlerServes, WaiterKeeps
     DEF Handler
<1>2. CASE Close \/ HandleKill
  BY <1>2, CloseKeeps
<1>3. CASE UNCHANGED vars
  <2>1. UNCHANGED <<client, checks, wire, replies, open, msg, got, tries,
                    sesscounter, waiter, sid, serving, handler>>
    BY <1>3 DEF vars, clientVars, connVars, readerVars, sessionVars, handlerVars
  <2>2. \A d \in Clients : Same(d)
    BY <2>1, OfClient DEF Same
  <2>3. \A d \in Clients : ClientInv(d)'
    BY <2>2, OthersKeep DEF MuxInv
  <2> QED
    BY <2>1, <2>3 DEF MuxInv, HandlerInv, OwnSids, Unopened
<1> QED
  BY <1>1, <1>2, <1>3 DEF Next

(* in every behaviour.                                                     *)
LEMMA MuxInvCorrect == Spec => [](TypeOK /\ MuxInv)
<1>1. Init => TypeOK /\ MuxInv
  BY MuxTypeInit, MuxInvInit
<1>2. TypeOK /\ MuxInv /\ [Next]_vars => (TypeOK /\ MuxInv)'
  BY MuxTypeStep, MuxInvStep
<1> QED
  BY <1>1, <1>2, PTL DEF Spec

-----------------------------------------------------------------------------
(* controlmux.go:161-322: the mux's variables have their types; no more    *)
(* than three descriptors are ever counted.                                *)
THEOREM MuxTypeCorrect == Spec => []TypeOK
BY MuxInvCorrect, PTL

(* controlmux.go:270-283 and 361: for any number of clients, whichever of  *)
(* the three receives fail and whoever leaves, a session that runs for a   *)
(* connection that is still there has its client's three descriptors.      *)
THEOREM StartedWithDescriptorsCorrect == Spec => []StartedWithDescriptors
<1>1. MuxInv => StartedWithDescriptors
  BY DEF MuxInv, ClientInv, SessionInv, StartedWithDescriptors
<1> QED
  BY <1>1, MuxInvCorrect, PTL

(* controlmux.go:11-13: for any number of clients and alive checks, every  *)
(* connection sees one conversation, and no two sessions share an          *)
(* identifier, though one handler and one counter serve them all.          *)
THEOREM ConversationsCorrect == Spec => []Conversations
<1>1. TypeOK /\ MuxInv => Conversations
  <2> SUFFICES ASSUME TypeOK, MuxInv PROVE Conversations
    OBVIOUS
  <2>1. \A c \in Clients : Conversation(replies[c])
    BY DEF MuxInv, ClientInv, ConversationInv
  <2>2. \A c \in Clients : \A i \in DOMAIN replies[c] :
           replies[c][i].type = "opened" =>
              ~Unopened(c) /\ replies[c][i].sid = sid[c]
    <3> SUFFICES ASSUME NEW c \in Clients, NEW i \in DOMAIN replies[c],
                        replies[c][i].type = "opened"
                 PROVE  ~Unopened(c) /\ replies[c][i].sid = sid[c]
      OBVIOUS
    <3>1. replies[c] \in Seq(Reply)
      BY DEF TypeOK
    <3>2. i \in 1..Len(replies[c])
      BY <3>1
    <3>3. ~Unopened(c)
      BY <3>2 DEF Unopened
    <3> QED
      BY <3>3 DEF MuxInv, ClientInv, ConversationInv
  <2> QED
    BY <2>1, <2>2 DEF MuxInv, OwnSids, Conversations
<1> QED
  BY <1>1, MuxInvCorrect, PTL
=============================================================================

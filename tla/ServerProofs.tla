---------------------------- MODULE ServerProofs ----------------------------
(***************************************************************************)
(* Theorems about Server, for any number of clients, any requests of       *)
(* theirs, any lines, and any configurations the program is started with.  *)
(***************************************************************************)
EXTENDS Server, StartupProofs

(* Who prints, and on what.                                                *)
LEMMA PrintersType ==
    /\ \A t \in Goroutines : t \in Printers /\ t[1] \in Clients
    /\ \A k \in Clients, s \in {"chan", "cli", "copy", "fore", "back"} :
          <<k, s>> \in Goroutines
    /\ \A k \in Clients : Out[k] \in Outputs
    /\ MainOut \in Outputs /\ QuietOut \in Outputs /\ Main \in Printers
BY GoroutinesAssumption, OutAssumption, MainAssumption, QuietAssumption
   DEF Goroutines

(* Steps that only print.                                                  *)
LEMMA TypeUnchanged ==
    ASSUME TypeOK, UNCHANGED <<startVars, sessionVars, muted>>,
           call' \in [Printers -> Outputs \cup {NoOutput}]
    PROVE  TypeOK'
<1>1. StartupTypeOK'
  BY DEF TypeOK, StartupTypeOK, OutputTypeOK, startVars, keyVars
<1> QED
  BY <1>1 DEF TypeOK, sessionVars

(* Where a goroutine can be.                                               *)
Points == Requests \cup {"idle", "newChannel", "requests", "instream",
                         "outstream", "claim", "prompt", "read", "execute",
                         "run", "wait", "close", "release", "done"}

(* The types of what the sessions keep, and of what main keeps.            *)
SessionTypeOK ==
    /\ net \in [Clients -> {"away", "shaking", "open", "stalled", "gone"}]
    /\ script \in [Clients -> Seq(Requests)]
    /\ typed \in [Clients -> Lines \cup {NoLine}]
    /\ ptyLine \in [Clients -> Lines \cup {NoLine}]
    /\ lines \in 0..MaxLines
    /\ copying \subseteq Clients /\ closed \subseteq Clients
    /\ readlineSession \in BOOLEAN
    /\ rlIn \in Clients \cup {Nowhere} /\ rlOut \in Clients \cup {Nowhere}
    /\ pc \in [Goroutines -> Points]
    /\ line \in [Goroutines -> Lines \cup {NoLine}]
    /\ after \in [Goroutines -> {"prompt", "close"}]

(* together those of the program, now and after a step.                    *)
LEMMA TypeParts ==
    /\ TypeOK <=> StartupTypeOK /\ SessionTypeOK
    /\ TypeOK' <=> StartupTypeOK' /\ SessionTypeOK'
BY DEF TypeOK, SessionTypeOK, Points

(* A step that prints, and may move main on, keeps the types of Startup.   *)
LEMMA StartKeeps ==
    ASSUME StartupTypeOK, UNCHANGED <<c, stage, keyVars, up>>,
           step' \in {step, "accept", "handshake"},
           \/ UNCHANGED outputVars
           \/ \E p \in Printers, o \in Outputs : Emit(p, o)
    PROVE  StartupTypeOK'
<1>1. OutputTypeOK'
  BY DEF StartupTypeOK, OutputTypeOK, Emit, outputVars
<1> QED
  BY <1>1 DEF StartupTypeOK, keyVars

(* and one that only prints.                                               *)
LEMMA StartStays ==
    ASSUME StartupTypeOK, UNCHANGED startVars,
           \/ UNCHANGED outputVars
           \/ \E p \in Printers, o \in Outputs : Emit(p, o)
    PROVE  StartupTypeOK'
BY StartKeeps DEF startVars

(* A goroutine goes somewhere.                                             *)
LEMMA Jumps ==
    ASSUME SessionTypeOK, NEW t \in Goroutines, NEW s \in Points, Jump(t, s)
    PROVE  pc' \in [Goroutines -> Points]
BY DEF SessionTypeOK, Jump

(* Every step keeps the types: first those of main and of the clients,     *)
LEMMA ClientTypes ==
    ASSUME StartupTypeOK, SessionTypeOK, NEW k \in Clients,
           \/ Type(k) \/ Stall(k) \/ Leave(k) \/ Accept(k) \/ AcceptFails(k)
           \/ HandshakeDone(k) \/ HandshakeFails(k) \/ CopyIn(k)
    PROVE  StartupTypeOK' /\ SessionTypeOK'
<1> USE DEF ptyVars, rlVars
<1>1. CASE Type(k)
  <2>1. typed' \in [Clients -> Lines \cup {NoLine}]
    BY <1>1 DEF Type, SessionTypeOK
  <2>2. lines' \in 0..MaxLines
    BY <1>1, BoundsAssumption DEF Type, SessionTypeOK
  <2> QED
    BY <1>1, <2>1, <2>2, StartStays DEF Type, SessionTypeOK
<1>2. CASE Leave(k)
  <2>1. script' \in [Clients -> Seq(Requests)]
    <3>1. << >> \in Seq(Requests)
      OBVIOUS
    <3> QED
      BY <1>2, <3>1 DEF Leave, SessionTypeOK
  <2>2. /\ net' \in [Clients -> {"away", "shaking", "open", "stalled", "gone"}]
        /\ typed' \in [Clients -> Lines \cup {NoLine}]
    BY <1>2 DEF Leave, SessionTypeOK
  <2> QED
    BY <1>2, <2>1, <2>2, StartStays DEF Leave, SessionTypeOK
<1>3. CASE Accept(k)
  <2>1. PICK s \in Scripts[k] : script' = [script EXCEPT ![k] = s]
    BY <1>3 DEF Accept
  <2>2. s \in Seq(Requests)
    BY ScriptsAssumption
  <2>3. script' \in [Clients -> Seq(Requests)]
    BY <2>1, <2>2 DEF SessionTypeOK
  <2>4. net' \in [Clients -> {"away", "shaking", "open", "stalled", "gone"}]
    BY <1>3 DEF Accept, SessionTypeOK
  <2>5. StartupTypeOK'
    BY <1>3, StartKeeps DEF Accept, StayAtStart
  <2> QED
    BY <1>3, <2>3, <2>4, <2>5 DEF Accept, SessionTypeOK
<1>4. CASE AcceptFails(k)
  <2>1. net' \in [Clients -> {"away", "shaking", "open", "stalled", "gone"}]
    BY <1>4 DEF AcceptFails, SessionTypeOK
  <2> QED
    BY <1>4, <2>1, PrintersType, StartStays DEF AcceptFails, SessionTypeOK
<1>5. CASE HandshakeDone(k)
  <2>1. net' \in [Clients -> {"away", "shaking", "open", "stalled", "gone"}]
    BY <1>5 DEF HandshakeDone, SessionTypeOK
  <2>2. pc' \in [Goroutines -> Points]
    BY <1>5, PrintersType, Jumps DEF HandshakeDone, Chan, Points
  <2>3. StartupTypeOK'
    BY <1>5, StartKeeps DEF HandshakeDone, StayAtStart
  <2> QED
    BY <1>5, <2>1, <2>2, <2>3 DEF HandshakeDone, SessionTypeOK
<1>6. CASE HandshakeFails(k)
  <2>1. net' \in [Clients -> {"away", "shaking", "open", "stalled", "gone"}]
    BY <1>6 DEF HandshakeFails, SessionTypeOK
  <2>2. StartupTypeOK'
    BY <1>6, PrintersType, StartKeeps DEF HandshakeFails, StayAtStart
  <2> QED
    BY <1>6, <2>1, <2>2 DEF HandshakeFails, SessionTypeOK
<1>7. CASE CopyIn(k)
  <2>1. /\ typed' \in [Clients -> Lines \cup {NoLine}]
        /\ ptyLine' \in [Clients -> Lines \cup {NoLine}]
    BY <1>7 DEF CopyIn, SessionTypeOK
  <2> QED
    BY <1>7, <2>1, StartStays DEF CopyIn, SessionTypeOK
<1>8. CASE Stall(k)
  <2>1. net' \in [Clients -> {"away", "shaking", "open", "stalled", "gone"}]
    BY <1>8 DEF Stall, SessionTypeOK
  <2> QED
    BY <1>8, <2>1, StartStays DEF Stall, SessionTypeOK
<1> QED
  BY <1>1, <1>2, <1>3, <1>4, <1>5, <1>6, <1>7, <1>8

(* then those of the channels,                                             *)
LEMMA ChannelTypes ==
    ASSUME StartupTypeOK, SessionTypeOK, NEW k \in Clients,
           ChanStep(k) \/ Readline(k) \/ Release(k)
    PROVE  StartupTypeOK' /\ SessionTypeOK'
<1> USE DEF ptyVars, rlVars
<1>0. Chan(k) \in Goroutines /\ Cli(k) \in Goroutines
  BY PrintersType DEF Chan, Cli
<1>1. CASE NewChannel(k)
  <2>1. pc' \in [Goroutines -> Points]
    BY <1>0, <1>1, Jumps DEF NewChannel, Points
  <2> QED
    BY <1>1, <2>1, StartStays DEF NewChannel, SessionTypeOK
<1>2. CASE NewChannelFails(k)
  <2>1. pc' \in [Goroutines -> Points]
    BY <1>0, <1>2, Jumps DEF NewChannelFails, Points
  <2>2. StartupTypeOK'
    BY <1>0, <1>2, PrintersType, StartStays DEF NewChannelFails
  <2> QED
    BY <1>2, <2>1, <2>2 DEF NewChannelFails, SessionTypeOK
<1>3. CASE NextRequest(k)
  <2>1. Head(script[k]) \in Requests /\ Tail(script[k]) \in Seq(Requests)
    <3>1. \A q \in Seq(Requests) :
             q # << >> => Head(q) \in Requests /\ Tail(q) \in Seq(Requests)
      OBVIOUS
    <3>2. script[k] \in Seq(Requests) /\ script[k] # << >>
      BY <1>3 DEF NextRequest, SessionTypeOK
    <3> QED
      BY <3>1, <3>2
  <2>2. pc' \in [Goroutines -> Points]
    BY <1>0, <1>3, <2>1, Jumps DEF NextRequest, Points
  <2>3. script' \in [Clients -> Seq(Requests)]
    BY <1>3, <2>1 DEF NextRequest, SessionTypeOK
  <2> QED
    BY <1>3, <2>2, <2>3, StartStays DEF NextRequest, SessionTypeOK
<1>4. CASE NoMoreRequests(k)
  <2>1. pc' \in [Goroutines -> Points]
    BY <1>0, <1>4, Jumps DEF NoMoreRequests, Points
  <2> QED
    BY <1>4, <2>1, StartStays DEF NoMoreRequests, SessionTypeOK
<1>5. CASE Instream(k) \/ Outstream(k)
  <2>1. pc' \in [Goroutines -> Points]
    BY <1>0, <1>5, Jumps DEF Instream, Outstream, Points, Requests
  <2> QED
    BY <1>5, <2>1, StartStays DEF Instream, Outstream, SessionTypeOK
<1>6. CASE Shell(k)
  <2>1. (IF readlineSession THEN "prompt" ELSE "claim") \in Points
    BY DEF Points
  <2>2. pc' \in [Goroutines -> Points]
    BY <1>0, <1>6, <2>1, Jumps DEF Shell
  <2> QED
    BY <1>6, <2>2, StartStays DEF Shell, SessionTypeOK
<1>7. CASE Claim(k)
  <2>1. pc' \in [Goroutines -> Points]
    <3>1. "requests" \in Points /\ "prompt" \in Points
      BY DEF Points
    <3> QED
      BY <1>0, <1>7, <3>1 DEF Claim, SessionTypeOK
  <2> QED
    BY <1>7, <2>1, StartStays DEF Claim, SessionTypeOK
<1>8. CASE Exec(k)
  <2>1. /\ line' \in [Goroutines -> Lines \cup {NoLine}]
        /\ after' \in [Goroutines -> {"prompt", "close"}]
    BY <1>0, <1>8 DEF Exec, SessionTypeOK
  <2>2. pc' \in [Goroutines -> Points]
    BY <1>0, <1>8, Jumps DEF Exec, Points
  <2> QED
    BY <1>8, <2>1, <2>2, StartStays DEF Exec, SessionTypeOK
<1>9. ASSUME NEW t \in Goroutines, NEW l \in Lines \cup {NoLine}, Got(t, l)
      PROVE  /\ pc' \in [Goroutines -> Points]
             /\ line' \in [Goroutines -> Lines \cup {NoLine}]
             /\ after' \in [Goroutines -> {"prompt", "close"}]
  <2>1. (IF l = "" THEN "prompt" ELSE "execute") \in Points
    BY DEF Points
  <2>2. pc' \in [Goroutines -> Points]
    BY <1>9, <2>1, Jumps DEF Got
  <2>3. /\ line' \in [Goroutines -> Lines \cup {NoLine}]
        /\ after' \in [Goroutines -> {"prompt", "close"}]
    BY <1>9 DEF Got, SessionTypeOK
  <2> QED
    BY <2>2, <2>3
<1>10. CASE ReadLine(k)
  <2>1. Got(Chan(k), typed[k]) /\ typed[k] \in Lines \cup {NoLine}
    BY <1>10 DEF ReadLine, SessionTypeOK
  <2>2. typed' \in [Clients -> Lines \cup {NoLine}]
    BY <1>10 DEF ReadLine, SessionTypeOK
  <2>3. /\ pc' \in [Goroutines -> Points]
        /\ line' \in [Goroutines -> Lines \cup {NoLine}]
        /\ after' \in [Goroutines -> {"prompt", "close"}]
    BY <1>0, <1>9, <2>1
  <2> QED
    BY <1>10, <2>2, <2>3, StartStays DEF ReadLine, SessionTypeOK
<1>11. CASE Readline(k)
  <2>1. /\ Got(Cli(k), ptyLine[rlIn]) /\ ptyLine[rlIn] \in Lines \cup {NoLine}
        /\ rlIn \in Clients
    BY <1>11 DEF Readline, SessionTypeOK
  <2>2. ptyLine' \in [Clients -> Lines \cup {NoLine}]
    BY <1>11 DEF Readline, SessionTypeOK
  <2>3. /\ pc' \in [Goroutines -> Points]
        /\ line' \in [Goroutines -> Lines \cup {NoLine}]
        /\ after' \in [Goroutines -> {"prompt", "close"}]
    BY <1>0, <1>9, <2>1
  <2> QED
    BY <1>11, <2>2, <2>3, StartStays DEF Readline, SessionTypeOK
<1>12. ASSUME NEW ok \in BOOLEAN, PtyReq(k, ok)
       PROVE  StartupTypeOK' /\ SessionTypeOK'
  <2>1. Jump(Chan(k), "done") \/ Jump(Chan(k), "requests") \/ Jump(Chan(k), "instream")
    BY <1>12 DEF PtyReq
  <2>2. pc' \in [Goroutines -> Points]
    BY <1>0, <2>1, Jumps DEF Points
  <2> QED
    BY <1>12, <2>2, StartStays DEF PtyReq, SessionTypeOK
<1>13. CASE Release(k)
  <2>1. pc' \in [Goroutines -> Points]
    BY <1>0, <1>13, Jumps DEF Release, Points
  <2> QED
    BY <1>13, <2>1, StartStays DEF Release, SessionTypeOK
<1> QED
  BY <1>1, <1>2, <1>3, <1>4, <1>5, <1>6, <1>7, <1>8, <1>10, <1>11, <1>12, <1>13
     DEF ChanStep

(* and those of the goroutines that run commands.                          *)
LEMMA CommandTypes ==
    ASSUME StartupTypeOK, SessionTypeOK, NEW t \in Goroutines,
           CommandStep(t) \/ WorkerPrints(t) \/ WorkerSilent(t)
    PROVE  StartupTypeOK' /\ SessionTypeOK'
<1> USE DEF ptyVars, rlVars
<1>0. /\ t \in Printers /\ t[1] \in Clients /\ after[t] \in Points
      /\ <<t[1], "fore">> \in Goroutines /\ <<t[1], "back">> \in Goroutines
  BY PrintersType DEF SessionTypeOK, Points
<1>1. CASE Prompt(t)
  <2>1. pc' \in [Goroutines -> Points]
    BY <1>1, Jumps DEF Prompt, Points
  <2>2. \/ UNCHANGED outputVars
        \/ \E p \in Printers, o \in Outputs : Emit(p, o)
    <3>1. CASE rlOut \in Clients
      <4>1. <<rlOut, "copy">> \in Printers /\ Out[rlOut] \in Outputs
        BY <3>1, PrintersType
      <4> QED
        BY <1>1, <4>1 DEF Prompt
    <3>2. CASE rlOut = Nowhere
      BY <1>1, <3>2 DEF Prompt
    <3> QED
      BY <3>1, <3>2 DEF SessionTypeOK
  <2> QED
    BY <1>1, <2>1, <2>2, StartStays DEF Prompt, SessionTypeOK
<1>2. CASE Blank(t)
  <2>1. StartupTypeOK'
    BY <1>2 DEF Blank, StartupTypeOK, OutputTypeOK, outputVars, keyVars
  <2> QED
    BY <1>2, <2>1 DEF Blank, sessionVars, SessionTypeOK
<1>3. ASSUME Say(t) PROVE StartupTypeOK' /\ SessionTypeOK'
  <2>1. pc' \in [Goroutines -> Points]
    BY <1>0, <1>3, Jumps DEF Say, Back
  <2>2. /\ line' \in [Goroutines -> Lines \cup {NoLine}]
        /\ after' \in [Goroutines -> {"prompt", "close"}]
    BY <1>3 DEF Say, Back, SessionTypeOK
  <2>3. StartupTypeOK'
    BY <1>0, <1>3, PrintersType, StartStays DEF Say
  <2> QED
    BY <1>3, <2>1, <2>2, <2>3 DEF Say, SessionTypeOK
<1>4. CASE Run(t)
  <2>1. pc' \in [Goroutines -> Points]
    <3>1. "run" \in Points /\ "wait" \in Points
      BY DEF Points
    <3> QED
      BY <1>0, <1>4, <3>1 DEF Run, SessionTypeOK
  <2>2. line' \in [Goroutines -> Lines \cup {NoLine}]
    BY <1>0, <1>4 DEF Run, SessionTypeOK
  <2> QED
    BY <1>4, <2>1, <2>2, StartStays DEF Run, SessionTypeOK
<1>5. CASE RunBackground(t)
  <2>1. pc' \in [Goroutines -> Points]
    <3>1. "run" \in Points
      BY DEF Points
    <3> QED
      BY <1>0, <1>5, <3>1 DEF RunBackground, SessionTypeOK
  <2>2. /\ line' \in [Goroutines -> Lines \cup {NoLine}]
        /\ after' \in [Goroutines -> {"prompt", "close"}]
    BY <1>5 DEF RunBackground, SessionTypeOK
  <2> QED
    BY <1>5, <2>1, <2>2, StartStays DEF RunBackground, SessionTypeOK
<1>6. CASE Close(t)
  <2>1. Jump(t, "release") \/ Jump(t, "requests")
    BY <1>6 DEF Close
  <2>2. pc' \in [Goroutines -> Points]
    BY <2>1, Jumps DEF Points
  <2> QED
    BY <1>0, <1>6, <2>2, StartStays DEF Close, SessionTypeOK
<1>7. ASSUME WorkerEnds(t),
             \/ UNCHANGED outputVars
             \/ \E o \in Outputs : Emit(t, o)
      PROVE  StartupTypeOK' /\ SessionTypeOK'
  <2>1. pc' \in [Goroutines -> Points]
    BY <1>7, Jumps DEF WorkerEnds, Points
  <2>2. line' \in [Goroutines -> Lines \cup {NoLine}]
    BY <1>7 DEF WorkerEnds, SessionTypeOK
  <2>3. StartupTypeOK'
    BY <1>0, <1>7, StartStays DEF WorkerEnds
  <2> QED
    BY <1>7, <2>1, <2>2, <2>3 DEF WorkerEnds, SessionTypeOK
<1>8. CASE WorkerPrints(t)
  BY <1>0, <1>7, <1>8, PrintersType DEF WorkerPrints
<1>9. CASE WorkerSilent(t)
  BY <1>7, <1>9 DEF WorkerSilent
<1>10. CASE RunCliCmd(t) \/ RunDone(t)
  BY <1>3, <1>10 DEF RunCliCmd, RunDone
<1> QED
  BY <1>1, <1>2, <1>4, <1>5, <1>6, <1>8, <1>9, <1>10 DEF CommandStep

(* So every step does.                                                    *)
LEMMA TypeStep == TypeOK /\ [Next]_allVars => TypeOK'
<1> SUFFICES ASSUME TypeOK, [Next]_allVars PROVE TypeOK'
  OBVIOUS
<1>0. StartupTypeOK /\ SessionTypeOK
  BY TypeParts
<1>1. ASSUME NEW k \in Clients,
             \/ Type(k) \/ Stall(k) \/ Leave(k) \/ Accept(k) \/ AcceptFails(k)
             \/ HandshakeDone(k) \/ HandshakeFails(k) \/ CopyIn(k)
      PROVE  TypeOK'
  BY <1>0, <1>1, ClientTypes, TypeParts
<1>2. ASSUME NEW t \in Goroutines, GoroutineStep(t) PROVE TypeOK'
  <2>1. t[1] \in Clients
    BY PrintersType
  <2> QED
    BY <1>0, <1>2, <2>1, ChannelTypes, CommandTypes, TypeParts DEF GoroutineStep
<1>3. ASSUME StartupStep, UNCHANGED sessionVars PROVE TypeOK'
  <2>1. StartupTypeOK'
    BY <1>0, <1>3, StartupTypeStep
  <2>2. SessionTypeOK'
    BY <1>0, <1>3 DEF sessionVars, SessionTypeOK
  <2> QED
    BY <2>1, <2>2, TypeParts
<1>4. ASSUME Kill, UNCHANGED sessionVars PROVE TypeOK'
  <2>1. StartupTypeOK'
    BY <1>0, <1>4 DEF Kill, StartupTypeOK, OutputTypeOK, outputVars, keyVars
  <2>2. SessionTypeOK'
    BY <1>0, <1>4 DEF sessionVars, SessionTypeOK
  <2> QED
    BY <2>1, <2>2, TypeParts
<1>5. ASSUME NEW o \in Outputs, OutputStep(o) PROVE TypeOK'
  <2>1. PICK p \in Printers : Serve(o, p)
    BY <1>5 DEF OutputStep
  <2>2. UNCHANGED <<startVars, sessionVars, muted>>
    BY <1>5, <2>1 DEF OutputStep, Serve
  <2>3. call' \in [Printers -> Outputs \cup {NoOutput}]
    BY <1>0, <2>1 DEF Serve, StartupTypeOK, OutputTypeOK
  <2> QED
    BY <2>2, <2>3, TypeUnchanged
<1>6. CASE UNCHANGED allVars
  <2>1. UNCHANGED <<startVars, sessionVars, muted>> /\ call' = call
    BY <1>6 DEF allVars, outputVars
  <2>2. call' \in [Printers -> Outputs \cup {NoOutput}]
    BY <1>0, <2>1 DEF StartupTypeOK, OutputTypeOK
  <2> QED
    BY <2>1, <2>2, TypeUnchanged
<1> QED
  BY <1>1, <1>2, <1>3, <1>4, <1>5, <1>6 DEF Next, MainStep, Environment

(* The program starts with them.                                           *)
LEMMA TypeInit == Init => TypeOK
<1> SUFFICES ASSUME Init PROVE TypeOK
  OBVIOUS
<1>1. StartupTypeOK
  BY StartupTypeInit DEF Init
<1>2. script \in [Clients -> Seq(Requests)]
  <2>1. << >> \in Seq(Requests)
    OBVIOUS
  <2> QED
    BY <2>1 DEF Init
<1>3. pc \in [Goroutines -> {"idle"}]
  BY DEF Init
<1> QED
  <2>1. /\ lines \in 0..MaxLines /\ copying \subseteq Clients
        /\ closed \subseteq Clients /\ readlineSession \in BOOLEAN
        /\ rlIn \in Clients \cup {Nowhere} /\ rlOut \in Clients \cup {Nowhere}
    <3>1. lines \in 0..MaxLines
      BY BoundsAssumption DEF Init
    <3> QED
      BY <3>1 DEF Init
  <2>2. /\ net \in [Clients -> {"away", "shaking", "open", "stalled", "gone"}]
        /\ typed \in [Clients -> Lines \cup {NoLine}]
        /\ ptyLine \in [Clients -> Lines \cup {NoLine}]
        /\ line \in [Goroutines -> Lines \cup {NoLine}]
        /\ after \in [Goroutines -> {"prompt", "close"}]
    BY DEF Init
  <2> QED
    BY <1>1, <1>2, <1>3, <2>1, <2>2 DEF TypeOK

(* The types of the variables, whatever calls fail and whoever leaves.     *)
THEOREM ServerTypeCorrect == Spec => []TypeOK
BY TypeInit, TypeStep, PTL DEF Spec

-----------------------------------------------------------------------------
(* What serving clients leaves alone of main's files.                      *)
LEMMA NextKeepsFiles ==
    ASSUME TypeOK, [Next]_allVars
    PROVE  /\ NoCopyLeft => NoCopyLeft'
           /\ DescriptorInv => DescriptorInv'
<1> DEFINE Kept == (NoCopyLeft => NoCopyLeft') /\ (DescriptorInv => DescriptorInv')
<1> SUFFICES Kept
  OBVIOUS
<1>1. CASE StartupStep
  BY <1>1, NoCopyLeftStep, DescriptorStep DEF TypeOK
<1>2. CASE Kill \/ \E t \in Goroutines : Blank(t)
  BY <1>2, EndingKeeps DEF Kill, Blank
<1>3. CASE UNCHANGED startVars
  BY <1>3, ServingKeeps DEF startVars
<1>4. CASE \E k \in Clients : Accept(k) \/ HandshakeDone(k) \/ HandshakeFails(k)
  <2>1. UNCHANGED <<c, stage, keyVars, up>>
    BY <1>4 DEF Accept, HandshakeDone, HandshakeFails, StayAtStart
  <2>2. {step, step'} \subseteq {"accept", "handshake"}
    BY <1>4 DEF Accept, Comes, HandshakeDone, HandshakeFails, MainAt
  <2> QED
    BY <2>1, <2>2, ServingKeeps
<1>5. \A k \in Clients :
         Type(k) \/ Stall(k) \/ Leave(k) \/ AcceptFails(k) \/ ChanStep(k) \/ CopyIn(k)
             \/ Readline(k) \/ Release(k) => UNCHANGED startVars
  BY DEF Type, Stall, Leave, AcceptFails, ChanStep, CopyIn, Readline, Release,
         NewChannel, NewChannelFails, NextRequest, NoMoreRequests, PtyReq,
         Instream, Outstream, Shell, Claim, Exec, ReadLine
<1>6. \A t \in Goroutines :
         Prompt(t) \/ RunCliCmd(t) \/ Run(t) \/ RunBackground(t) \/ RunDone(t)
             \/ Close(t) \/ WorkerPrints(t) \/ WorkerSilent(t)
         => UNCHANGED startVars
  BY DEF Prompt, RunCliCmd, Run, RunBackground, RunDone, Close, Say,
         WorkerPrints, WorkerSilent, WorkerEnds
<1>7. CASE UNCHANGED allVars
  BY <1>7, <1>3 DEF allVars
<1> QED
  BY <1>1, <1>2, <1>3, <1>4, <1>5, <1>6, <1>7, PrintersType
     DEF Next, MainStep, GoroutineStep, CommandStep, OutputStep, Environment

(* The temporary copy of a key is on the disk only while                   *)
(* getPrivateKeyFile works on it, whatever fails and in every stage of a   *)
(* daemon (sshconfig.go:27-29 and 74).                                     *)
THEOREM NoCopyLeftCorrect == Spec => []NoCopyLeft
<1>1. Init => TypeOK /\ NoCopyLeft
  BY TypeInit, NoCopyLeftInit DEF Init
<1>2. TypeOK /\ NoCopyLeft /\ [Next]_allVars => TypeOK' /\ NoCopyLeft'
  BY TypeStep, NextKeepsFiles
<1> QED
  BY <1>1, <1>2, PTL DEF Spec

(* main has exactly the key files open that it has still to make signers   *)
(* of (sshconfig.go:25-29), for every configuration and failure.           *)
THEOREM DescriptorsKeptCorrect == Spec => []DescriptorsKept
<1>1. Init => TypeOK /\ DescriptorInv
  BY TypeInit, DescriptorInit DEF Init
<1>2. TypeOK /\ DescriptorInv /\ [Next]_allVars => TypeOK' /\ DescriptorInv'
  BY TypeStep, NextKeepsFiles
<1> QED
  BY <1>1, <1>2, DescriptorsFollow, PTL DEF Spec

-----------------------------------------------------------------------------
(* A session that has readline keeps its goroutine until it releases it,   *)
(* and nobody else sets or clears the flag.                                *)
LEMMA ReadlineStep ==
    ASSUME TypeOK, ReadlineNotLost, [Next]_allVars
    PROVE  ReadlineNotLost'
<1> DEFINE Lives(k) == pc[Cli(k)] \notin {"idle", "done"}
           Kept == /\ UNCHANGED readlineSession
                   /\ \A k \in Clients : Lives(k) => Lives(k)'
<1>1. Kept => ReadlineNotLost'
  BY DEF ReadlineNotLost
<1> USE PrintersType DEF TypeOK, At, Jump, Chan, Cli, ptyVars, rlVars, Requests
<1>2. ASSUME NEW j \in Clients, Type(j) PROVE Kept
  BY <1>2 DEF Type
<1>3. ASSUME NEW j \in Clients, Leave(j) \/ Stall(j) PROVE Kept
  BY <1>3 DEF Leave, Stall
<1>4. ASSUME NEW j \in Clients, Accept(j) PROVE Kept
  BY <1>4 DEF Accept, Comes
<1>5. ASSUME NEW j \in Clients, AcceptFails(j) PROVE Kept
  BY <1>5 DEF AcceptFails, Comes
<1>6. ASSUME NEW j \in Clients, HandshakeDone(j) PROVE Kept
  BY <1>6 DEF HandshakeDone
<1>7. ASSUME NEW j \in Clients, HandshakeFails(j) PROVE Kept
  BY <1>7 DEF HandshakeFails
<1>8. ASSUME NEW j \in Clients, NewChannel(j) PROVE Kept
  BY <1>8 DEF NewChannel
<1>9. ASSUME NEW j \in Clients, NewChannelFails(j) PROVE Kept
  BY <1>9 DEF NewChannelFails
<1>10. ASSUME NEW j \in Clients, NextRequest(j) PROVE Kept
  BY <1>10 DEF NextRequest
<1>11. ASSUME NEW j \in Clients, NoMoreRequests(j) PROVE Kept
  BY <1>11 DEF NoMoreRequests
<1>12. ASSUME NEW j \in Clients, NEW ok \in BOOLEAN, PtyReq(j, ok) PROVE Kept
  BY <1>12 DEF PtyReq
<1>13. ASSUME NEW j \in Clients, Instream(j) \/ Outstream(j) PROVE Kept
  BY <1>13 DEF Instream, Outstream
<1>14. ASSUME NEW j \in Clients, Shell(j) PROVE Kept
  BY <1>14 DEF Shell
<1>15. ASSUME NEW j \in Clients, Exec(j) PROVE Kept
  BY <1>15 DEF Exec
<1>16. ASSUME NEW j \in Clients, CopyIn(j) PROVE Kept
  BY <1>16 DEF CopyIn
<1>17. ASSUME NEW j \in Clients, ReadLine(j) PROVE Kept
  BY <1>17 DEF ReadLine, Got
<1>18. ASSUME NEW j \in Clients, Readline(j) PROVE Kept
  BY <1>18 DEF Readline, Got
<1>19. ASSUME NEW t \in Goroutines, Prompt(t) PROVE Kept
  BY <1>19 DEF Prompt
<1>20. ASSUME NEW t \in Goroutines, RunCliCmd(t) PROVE Kept
  BY <1>20 DEF RunCliCmd, Say, Back
<1>21. ASSUME NEW t \in Goroutines, Run(t) PROVE Kept
  BY <1>21 DEF Run
<1>22. ASSUME NEW t \in Goroutines, RunBackground(t) PROVE Kept
  BY <1>22 DEF RunBackground
<1>23. ASSUME NEW t \in Goroutines, RunDone(t) PROVE Kept
  BY <1>23 DEF RunDone, Say, Back
<1>24. ASSUME NEW t \in Goroutines, Close(t) PROVE Kept
  BY <1>24 DEF Close
<1>25. ASSUME NEW t \in Goroutines, t[2] \in {"fore", "back"}, WorkerPrints(t)
       PROVE  Kept
  <2>1. \A k \in Clients : Cli(k) # t /\ Cli(k) \in Goroutines
    <3>1. \A k \in Clients : Cli(k)[2] = "cli"
      BY DEF Cli
    <3> QED
      BY <1>25, <3>1
  <2> QED
    BY <1>25, <2>1 DEF WorkerPrints, WorkerEnds
<1>26. ASSUME NEW t \in Goroutines, t[2] \in {"fore", "back"}, WorkerSilent(t)
       PROVE  Kept
  <2>1. \A k \in Clients : Cli(k) # t /\ Cli(k) \in Goroutines
    <3>1. \A k \in Clients : Cli(k)[2] = "cli"
      BY DEF Cli
    <3> QED
      BY <1>26, <3>1
  <2> QED
    BY <1>26, <2>1 DEF WorkerSilent, WorkerEnds
<1>27. ASSUME NEW j \in Clients, Claim(j) PROVE ReadlineNotLost'
  <2>1. pc'[Cli(j)] = "prompt"
    BY <1>27 DEF Claim
  <2> QED
    BY <2>1 DEF ReadlineNotLost
<1>28. ASSUME NEW j \in Clients, Release(j) PROVE ReadlineNotLost'
  BY <1>28 DEF Release, ReadlineNotLost
<1>29. CASE UNCHANGED sessionVars
  BY <1>1, <1>29 DEF sessionVars
<1>30. ASSUME NEW t \in Goroutines, Blank(t) PROVE ReadlineNotLost'
  BY <1>29, <1>30 DEF Blank
<1> QED
  BY <1>1, <1>2, <1>3, <1>4, <1>5, <1>6, <1>7, <1>8, <1>9, <1>10, <1>11,
     <1>12, <1>13, <1>14, <1>15, <1>16, <1>17, <1>18, <1>19, <1>20, <1>21,
     <1>22, <1>23, <1>24, <1>25, <1>26, <1>27, <1>28, <1>29, <1>30
     DEF Next, MainStep, GoroutineStep, ChanStep, CommandStep, OutputStep,
         Environment, allVars

(* readlineSession says that readline is taken only while a session that   *)
(* took it lives (server.go:26-27 and 126), for any number of clients and  *)
(* any interleaving of their requests.                                     *)
THEOREM ReadlineNotLostCorrect == Spec => []ReadlineNotLost
<1>1. Init => TypeOK /\ ReadlineNotLost
  BY TypeInit DEF Init, ReadlineNotLost
<1>2. TypeOK /\ ReadlineNotLost /\ [Next]_allVars => TypeOK' /\ ReadlineNotLost'
  BY TypeStep, ReadlineStep
<1> QED
  BY <1>1, <1>2, PTL DEF Spec

=============================================================================

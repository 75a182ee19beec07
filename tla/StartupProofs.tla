--------------------------- MODULE StartupProofs ---------------------------
(***************************************************************************)
(* What every step of main keeps true of its files, whichever of the calls *)
(* it makes fail, for any configurations and any other goroutines.         *)
(***************************************************************************)
EXTENDS Startup, TLAPS

(* The keys whose file main holds: those it Needed, and the client's while *)
(* it reads that of the host.                                              *)
Held == {k \in Wanted : \/ step \in Holding[k]
                        \/ stage > 0 /\ step = "flags"
                        \/ k = "client" /\ InGetPrivateKeyFile /\ reading = "host"}
HeldFiles == {file[k] : k \in Held}
Own(k) == {k} \X {"key", "copy"}

(* What getPrivateKeyFile has open, before it returns.                     *)
Opened == IF step \in {"read", "closeKey"} THEN {<<reading, "key">>}
          ELSE IF step \in {"write", "closeCopy"} THEN {<<reading, "copy">>}
          ELSE {}

(* In getPrivateKeyFile: closeTheFile says whether fp is still to be       *)
(* closed, and what remains then is what main held, and the result.        *)
LocalInv ==
    /\ InGetPrivateKeyFile => reading \in Wanted
    /\ InGetPrivateKeyFile /\ step # "return" =>
          /\ fds = HeldFiles \cup Opened
          /\ Opened = IF closeTheFile THEN {fp} ELSE {}
    /\ step = "return" =>
          /\ (IF closeTheFile THEN fds \ {fp} ELSE fds)
                = HeldFiles \cup (IF failed THEN {} ELSE {fp})
          /\ ~failed => fp \in Own(reading)

DescriptorInv ==
    up = "running" /\ step # "exit" =>
        /\ \A k \in Held : file[k] \in Own(k)
        /\ stage > 0 \/ step = "makeDaemon" => c.Daemonize
        /\ stage > 0 \/ step # "flags" => (c.Daemonize => c.Server)
        /\ LocalInv
        /\ ~InGetPrivateKeyFile => fds = HeldFiles

-----------------------------------------------------------------------------
(* The types.                                                              *)
LEMMA StartupTypeInit == StartupInit => StartupTypeOK
<1> SUFFICES ASSUME StartupInit PROVE StartupTypeOK
  OBVIOUS
<1>1. OutputTypeOK
  BY QuietAssumption DEF StartupInit, OutputInit, OutputTypeOK
<1>2. c \in Config /\ stage \in 0..2 /\ step \in Unhandled
  BY ConfigsAssumption DEF StartupInit, Unhandled
<1>3. file \in [Keys -> Descriptor \cup {NoFile}]
  BY DEF StartupInit
<1> QED
  BY <1>1, <1>2, <1>3 DEF StartupInit, StartupTypeOK, Keys

(* Every step of main keeps them.                                          *)
LEMMA StartupTypeStep == StartupTypeOK /\ StartupStep => StartupTypeOK'
<1> SUFFICES ASSUME StartupTypeOK, StartupStep PROVE StartupTypeOK'
  OBVIOUS
<1> USE MainAssumption DEF StartupTypeOK, OutputTypeOK, MainAt, Goto, Emit,
        Unhandled, Keys, Descriptor, NoFile, Config, keyVars, outputVars
<1>1. ASSUME NEW ok \in BOOLEAN, OpenKey(ok) PROVE StartupTypeOK'
  BY <1>1 DEF OpenKey, Try
<1>2. ASSUME NEW ok \in BOOLEAN, NEW enc \in BOOLEAN, ReadKey(ok, enc)
      PROVE  StartupTypeOK'
  BY <1>2 DEF ReadKey, Try
<1>3. ASSUME NEW ok \in BOOLEAN, CloseKey(ok) PROVE StartupTypeOK'
  BY <1>3 DEF CloseKey, Try
<1>4. ASSUME NEW ok \in BOOLEAN, TempFile(ok) PROVE StartupTypeOK'
  BY <1>4 DEF TempFile, Try
<1>5. ASSUME NEW ok \in BOOLEAN, WriteCopy(ok) PROVE StartupTypeOK'
  BY <1>5 DEF WriteCopy, Try
<1>6. ASSUME NEW ok \in BOOLEAN, CloseCopy(ok) PROVE StartupTypeOK'
  BY <1>6 DEF CloseCopy, Try
<1>7. ASSUME NEW ok \in BOOLEAN, ReadPassphrase(ok) PROVE StartupTypeOK'
  BY <1>7 DEF ReadPassphrase
<1>8. ASSUME NEW ok \in BOOLEAN, Strip(ok) PROVE StartupTypeOK'
  BY <1>8 DEF Strip, Try
<1>9. ASSUME NEW ok \in BOOLEAN, Reopen(ok) PROVE StartupTypeOK'
  BY <1>9 DEF Reopen, Try
<1>10. ASSUME NEW ok \in BOOLEAN, ReadPassword(ok) PROVE StartupTypeOK'
  BY <1>10 DEF ReadPassword
<1>11. ASSUME NEW ok \in BOOLEAN, ClientConfig(ok) PROVE StartupTypeOK'
  <2>1. CASE c.Agent
    <3>1. UNCHANGED keyVars
      BY <1>11, <2>1 DEF ClientConfig
    <3>2. call' \in [Printers -> Outputs \cup {NoOutput}] /\ muted' = muted
      BY <1>11 DEF ClientConfig, GoOn, ErrExit
    <3>3. step' \in {"load", "exit"} /\ UNCHANGED <<c, stage, up>>
      BY <1>11 DEF ClientConfig, GoOn, ErrExit
    <3> QED
      BY <3>1, <3>2, <3>3
  <2>2. CASE ~c.Agent
    <3>1. fds' \subseteq Descriptor /\ file' \in [Keys -> Descriptor \cup {NoFile}]
      BY <1>11, <2>2 DEF ClientConfig, MakeSigner
    <3>2. UNCHANGED <<reading, fp, closeTheFile, failed, copies>>
      BY <1>11, <2>2 DEF ClientConfig, MakeSigner
    <3> QED
      BY <1>11, <3>1, <3>2 DEF ClientConfig, GoOn, ErrExit
  <2> QED
    BY <2>1, <2>2
<1>12. ASSUME NEW ok \in BOOLEAN, Load(ok) PROVE StartupTypeOK'
  BY <1>12 DEF Load, GoOn, ErrExit
<1>13. ASSUME NEW ok \in BOOLEAN, ServerConfig(ok) PROVE StartupTypeOK'
  BY <1>13 DEF ServerConfig, GoOn, ErrExit, MakeSigner
<1>14. ASSUME NEW ok \in BOOLEAN, Listen(ok) PROVE StartupTypeOK'
  BY <1>14 DEF Listen, GoOn, ErrExit
<1>15. CASE PromptPassphrase
  BY <1>15 DEF PromptPassphrase
<1>16. CASE Return
  BY <1>16 DEF Return, GoOn, ErrExit, NoLocals
<1>17. CASE Flags
  BY <1>17 DEF Flags
<1>18. CASE FlagsClash
  BY <1>18 DEF FlagsClash, ErrExit
<1>19. CASE ClientKey
  BY <1>19 DEF ClientKey, GetPrivateKeyFile
<1>20. CASE HostKey
  BY <1>20 DEF HostKey, GetPrivateKeyFile
<1>21. CASE Daemonize
  BY <1>21 DEF Daemonize
<1>22. CASE MakeDaemon
  BY <1>22, QuietAssumption DEF MakeDaemon
<1>23. CASE MakeDaemonFails
  BY <1>23 DEF MakeDaemonFails
<1>24. CASE AskPassword
  BY <1>24 DEF AskPassword
<1>25. CASE BadPassword
  BY <1>25 DEF BadPassword, ErrExit
<1>26. CASE HandleSignals
  BY <1>26 DEF HandleSignals
<1>27. CASE PrintSummary
  BY <1>27 DEF PrintSummary
<1>28. CASE Exit
  BY <1>28 DEF Exit
<1> QED
  BY <1>1, <1>2, <1>3, <1>4, <1>5, <1>6, <1>7, <1>8, <1>9, <1>10, <1>11,
     <1>12, <1>13, <1>14, <1>15, <1>16, <1>17, <1>18, <1>19, <1>20, <1>21,
     <1>22, <1>23, <1>24, <1>25, <1>26, <1>27, <1>28 DEF StartupStep

-----------------------------------------------------------------------------
(* The temporary copy of a key.                                            *)
LEMMA NoCopyLeftInit == StartupInit => NoCopyLeft
BY DEF StartupInit, NoCopyLeft

(* Only TempFile makes one, and every return passes Return: what is there  *)
(* when another key is read, or main goes on, was of the key before.       *)
LEMMA NoCopyLeftStep == NoCopyLeft /\ StartupStep => NoCopyLeft'
<1> SUFFICES ASSUME NoCopyLeft, StartupStep PROVE NoCopyLeft'
  OBVIOUS
<1> USE DEF NoCopyLeft, InGetPrivateKeyFile, MainAt, Goto, Emit, keyVars,
        outputVars
<1>1. ASSUME NEW ok \in BOOLEAN, OpenKey(ok) PROVE NoCopyLeft'
  BY <1>1 DEF OpenKey, Try
<1>2. ASSUME NEW ok \in BOOLEAN, NEW enc \in BOOLEAN, ReadKey(ok, enc)
      PROVE  NoCopyLeft'
  BY <1>2 DEF ReadKey, Try
<1>3. ASSUME NEW ok \in BOOLEAN, CloseKey(ok) PROVE NoCopyLeft'
  BY <1>3 DEF CloseKey, Try
<1>4. ASSUME NEW ok \in BOOLEAN, TempFile(ok) PROVE NoCopyLeft'
  BY <1>4 DEF TempFile, Try
<1>5. ASSUME NEW ok \in BOOLEAN, WriteCopy(ok) PROVE NoCopyLeft'
  BY <1>5 DEF WriteCopy, Try
<1>6. ASSUME NEW ok \in BOOLEAN, CloseCopy(ok) PROVE NoCopyLeft'
  BY <1>6 DEF CloseCopy, Try
<1>7. ASSUME NEW ok \in BOOLEAN, ReadPassphrase(ok) PROVE NoCopyLeft'
  BY <1>7 DEF ReadPassphrase
<1>8. ASSUME NEW ok \in BOOLEAN, Strip(ok) PROVE NoCopyLeft'
  BY <1>8 DEF Strip, Try
<1>9. ASSUME NEW ok \in BOOLEAN, Reopen(ok) PROVE NoCopyLeft'
  BY <1>9 DEF Reopen, Try
<1>10. ASSUME NEW ok \in BOOLEAN, ReadPassword(ok) PROVE NoCopyLeft'
  BY <1>10 DEF ReadPassword
<1>11. ASSUME NEW ok \in BOOLEAN, ClientConfig(ok) PROVE NoCopyLeft'
  BY <1>11 DEF ClientConfig, GoOn, ErrExit, MakeSigner
<1>12. ASSUME NEW ok \in BOOLEAN, Load(ok) PROVE NoCopyLeft'
  BY <1>12 DEF Load, GoOn, ErrExit
<1>13. ASSUME NEW ok \in BOOLEAN, ServerConfig(ok) PROVE NoCopyLeft'
  BY <1>13 DEF ServerConfig, GoOn, ErrExit, MakeSigner
<1>14. ASSUME NEW ok \in BOOLEAN, Listen(ok) PROVE NoCopyLeft'
  BY <1>14 DEF Listen, GoOn, ErrExit
<1>15. CASE PromptPassphrase
  BY <1>15 DEF PromptPassphrase
<1>16. CASE Return
  BY <1>16 DEF Return, GoOn, ErrExit, NoLocals
<1>17. CASE Flags
  BY <1>17 DEF Flags
<1>18. CASE FlagsClash
  BY <1>18 DEF FlagsClash, ErrExit
<1>19. CASE ClientKey
  BY <1>19 DEF ClientKey, GetPrivateKeyFile
<1>20. CASE HostKey
  BY <1>20 DEF HostKey, GetPrivateKeyFile
<1>21. CASE Daemonize
  BY <1>21 DEF Daemonize
<1>22. CASE MakeDaemon
  BY <1>22 DEF MakeDaemon
<1>23. CASE MakeDaemonFails
  BY <1>23 DEF MakeDaemonFails
<1>24. CASE AskPassword
  BY <1>24 DEF AskPassword
<1>25. CASE BadPassword
  BY <1>25 DEF BadPassword, ErrExit
<1>26. CASE HandleSignals
  BY <1>26 DEF HandleSignals
<1>27. CASE PrintSummary
  BY <1>27 DEF PrintSummary
<1>28. CASE Exit
  BY <1>28 DEF Exit
<1> QED
  BY <1>1, <1>2, <1>3, <1>4, <1>5, <1>6, <1>7, <1>8, <1>9, <1>10, <1>11,
     <1>12, <1>13, <1>14, <1>15, <1>16, <1>17, <1>18, <1>19, <1>20, <1>21,
     <1>22, <1>23, <1>24, <1>25, <1>26, <1>27, <1>28 DEF StartupStep

-----------------------------------------------------------------------------
(* The descriptors.  While getPrivateKeyFile runs, what is held stays.     *)
LEMMA HeldInside ==
    ASSUME InGetPrivateKeyFile, InGetPrivateKeyFile',
           UNCHANGED <<c, stage, reading, file>>
    PROVE  Held' = Held /\ HeldFiles' = HeldFiles
<1>1. \A k \in Keys : step \notin Holding[k] /\ step' \notin Holding[k]
  BY DEF InGetPrivateKeyFile, Keys, Holding, Between
<1>2. Wanted' = Wanted /\ Wanted \subseteq Keys
  BY DEF Wanted, Keys
<1>3. step # "flags" /\ step' # "flags"
  BY DEF InGetPrivateKeyFile
<1>4. Held' = Held
  BY <1>1, <1>2, <1>3 DEF Held
<1> QED
  BY <1>4 DEF HeldFiles

(* What is held meanwhile is the client's file, while it reads the host's. *)
LEMMA HeldByCaller ==
    ASSUME InGetPrivateKeyFile, reading \in Keys,
           \A k \in Held : file[k] \in Own(k)
    PROVE  \A t \in {"key", "copy"} : <<reading, t>> \notin HeldFiles
<1>1. Held \subseteq {"client"} /\ (reading = "client" => Held = {})
  BY DEF InGetPrivateKeyFile, Held, Wanted, Keys, Holding, Between
<1>2. HeldFiles \subseteq Own("client") /\ (reading = "client" => HeldFiles = {})
  BY <1>1 DEF HeldFiles
<1> QED
  BY <1>2 DEF Own, Keys

(* No descriptor is no descriptor.                                         *)
LEMMA NoFileHeld ==
    ASSUME \A k \in Held : file[k] \in Own(k)
    PROVE  NoFile \notin HeldFiles
<1>1. \A k : NoFile \notin Own(k)
  <2>1. \A a, b : <<a, b>> # <<>>
    OBVIOUS
  <2> QED
    BY <2>1 DEF NoFile, Own
<1> QED
  BY <1>1 DEF HeldFiles

(* The steps of getPrivateKeyFile before it returns.                       *)
LEMMA LocalStep ==
    ASSUME StartupTypeOK, DescriptorInv, InGetPrivateKeyFile, step # "return",
           StartupStep, up' = "running"
    PROVE  DescriptorInv'
<1> DEFINE Local == /\ fds = HeldFiles \cup Opened
                    /\ Opened = IF closeTheFile THEN {fp} ELSE {}
<1>1. /\ InGetPrivateKeyFile' /\ UNCHANGED <<c, stage, reading, file, up>>
      /\ reading \in Keys
  BY DEF StartupStep, StartupTypeOK, InGetPrivateKeyFile, MainAt, Goto, Try,
         OpenKey, ReadKey, CloseKey, TempFile, WriteCopy, CloseCopy,
         PromptPassphrase, ReadPassphrase, Strip, Reopen, keyVars, ReadPassword,
         ClientConfig, Load, ServerConfig, Listen, Return, Flags, FlagsClash,
         ClientKey, HostKey, Daemonize, MakeDaemon, MakeDaemonFails,
         AskPassword, BadPassword, HandleSignals, PrintSummary, Exit
<1>2. Held' = Held /\ HeldFiles' = HeldFiles
  BY <1>1, HeldInside
<1>3. up = "running" /\ step # "exit" /\ step # "makeDaemon"
  BY <1>1 DEF InGetPrivateKeyFile
<1>4. \A k \in Held : file[k] \in Own(k)
  BY <1>3 DEF DescriptorInv
<1>5. Local /\ reading \in Wanted
  BY <1>3 DEF DescriptorInv, LocalInv
<1>6. \A t \in {"key", "copy"} : <<reading, t>> \notin HeldFiles
  BY <1>1, <1>4, HeldByCaller
<1>7. /\ Wanted' = Wanted /\ (stage > 0 => c.Daemonize)
      /\ c.Daemonize => c.Server
  BY <1>1, <1>3 DEF Wanted, DescriptorInv, InGetPrivateKeyFile
<1>8. SUFFICES LocalInv'
  BY <1>1, <1>2, <1>4, <1>7 DEF DescriptorInv, InGetPrivateKeyFile
<1> DEFINE Returned == /\ (IF closeTheFile THEN fds \ {fp} ELSE fds)
                             = HeldFiles \cup (IF failed THEN {} ELSE {fp})
                       /\ ~failed => fp \in Own(reading)
           Kept == (step # "return" => Local) /\ (step = "return" => Returned)
<1>9. SUFFICES Kept'
  BY <1>1, <1>2, <1>5, <1>7 DEF LocalInv
<1> USE <1>1, <1>2, <1>5, <1>6 DEF MainAt, Goto, Opened, Try, Own
<1>10. ASSUME NEW ok \in BOOLEAN, OpenKey(ok) PROVE Kept'
  BY <1>10 DEF OpenKey
<1>11. ASSUME NEW ok \in BOOLEAN, NEW enc \in BOOLEAN, ReadKey(ok, enc)
       PROVE  Kept'
  BY <1>11 DEF ReadKey
<1>12. ASSUME NEW ok \in BOOLEAN, CloseKey(ok) PROVE Kept'
  BY <1>12 DEF CloseKey
<1>13. ASSUME NEW ok \in BOOLEAN, TempFile(ok) PROVE Kept'
  BY <1>13 DEF TempFile
<1>14. ASSUME NEW ok \in BOOLEAN, WriteCopy(ok) PROVE Kept'
  BY <1>14 DEF WriteCopy
<1>15. ASSUME NEW ok \in BOOLEAN, CloseCopy(ok) PROVE Kept'
  BY <1>15 DEF CloseCopy
<1>16. ASSUME NEW ok \in BOOLEAN, ReadPassphrase(ok) PROVE Kept'
  BY <1>16 DEF ReadPassphrase
<1>17. ASSUME NEW ok \in BOOLEAN, Strip(ok) PROVE Kept'
  BY <1>17 DEF Strip
<1>18. ASSUME NEW ok \in BOOLEAN, Reopen(ok) PROVE Kept'
  <2>1. NoFile \notin HeldFiles
    BY <1>4, NoFileHeld
  <2> QED
    BY <1>18, <2>1 DEF Reopen
<1>19. CASE PromptPassphrase
  BY <1>19 DEF PromptPassphrase, keyVars
<1> QED
  BY <1>10, <1>11, <1>12, <1>13, <1>14, <1>15, <1>16, <1>17, <1>18, <1>19
     DEF StartupStep, InGetPrivateKeyFile, ReadPassword, ClientConfig, Load, ServerConfig,
     Listen, Return, Flags, FlagsClash, ClientKey, HostKey, Daemonize,
     MakeDaemon, MakeDaemonFails, AskPassword, BadPassword, HandleSignals,
     PrintSummary, Exit

(* The steps outside it, and the one that returns: what main holds is what *)
(* it had and what it got, less what it gave to makeSigner.                *)
LEMMA OuterStep ==
    ASSUME StartupTypeOK, DescriptorInv, ~InGetPrivateKeyFile \/ step = "return",
           StartupStep, up' = "running", step' # "exit"
    PROVE  DescriptorInv'
<1>1. up = "running" /\ step # "exit"
  BY DEF StartupStep, MainAt, OpenKey, ReadKey, CloseKey, TempFile, WriteCopy,
         CloseCopy, PromptPassphrase, ReadPassphrase, Strip, Reopen,
         ReadPassword, ClientConfig, Load, ServerConfig, Listen, Return, Flags,
         FlagsClash, ClientKey, HostKey, Daemonize, MakeDaemon, MakeDaemonFails,
         AskPassword, BadPassword, HandleSignals, PrintSummary, Exit
<1>2. \A k \in Held : file[k] \in Own(k)
  BY <1>1 DEF DescriptorInv
<1>3. /\ stage > 0 \/ step = "makeDaemon" => c.Daemonize
      /\ stage > 0 \/ step # "flags" => (c.Daemonize => c.Server)
  BY <1>1 DEF DescriptorInv
<1>4. LocalInv
  BY <1>1 DEF DescriptorInv
<1>5. ~InGetPrivateKeyFile => fds = HeldFiles
  BY <1>1 DEF DescriptorInv
<1>6. c \in Config /\ stage \in 0..2 /\ reading \in Keys /\ DOMAIN file = Keys
  BY DEF StartupTypeOK
<1> USE <1>2, <1>3, <1>4, <1>5, <1>6
    DEF MainAt, Goto, DescriptorInv, Held, HeldFiles, LocalInv, Opened,
        InGetPrivateKeyFile, Wanted, Holding, Between, Keys, Config
<1>7. ASSUME NEW ok \in BOOLEAN, ReadPassword(ok) PROVE DescriptorInv'
  BY <1>7 DEF ReadPassword, keyVars
<1>8. ASSUME NEW ok \in BOOLEAN, ClientConfig(ok) PROVE DescriptorInv'
  <2>1. CASE c.Agent
    BY <1>8, <2>1 DEF ClientConfig, keyVars, GoOn, ErrExit
  <2>2. CASE ~c.Agent
    BY <1>8, <2>2 DEF ClientConfig, GoOn, ErrExit, MakeSigner, Own
  <2> QED
    BY <2>1, <2>2
<1>9. ASSUME NEW ok \in BOOLEAN, Load(ok) PROVE DescriptorInv'
  BY <1>9 DEF Load, keyVars, GoOn, ErrExit
<1>10. ASSUME NEW ok \in BOOLEAN, ServerConfig(ok) PROVE DescriptorInv'
  BY <1>10 DEF ServerConfig, keyVars, GoOn, ErrExit, MakeSigner
<1>11. ASSUME NEW ok \in BOOLEAN, Listen(ok) PROVE DescriptorInv'
  BY <1>11 DEF Listen, keyVars, GoOn, ErrExit
<1>12. CASE Return
  BY <1>12 DEF Return, keyVars, GoOn, ErrExit, NoLocals
<1>13. CASE Flags
  BY <1>13 DEF Flags, keyVars
<1>14. CASE FlagsClash
  BY <1>14 DEF FlagsClash, keyVars, ErrExit
<1>15. CASE ClientKey
  BY <1>15 DEF ClientKey, keyVars, GetPrivateKeyFile
<1>16. CASE HostKey
  BY <1>16 DEF HostKey, keyVars, GetPrivateKeyFile
<1>17. CASE Daemonize
  BY <1>17 DEF Daemonize, keyVars
<1>18. CASE MakeDaemon
  <2>1. CASE stage < 2
    <3>1. Held = Wanted /\ Held' = Wanted /\ HeldFiles' = HeldFiles
      BY <1>18, <2>1 DEF MakeDaemon
    <3>2. Files = HeldFiles
      BY <1>18, <3>1 DEF Files, MakeDaemon
    <3>3. fds' = HeldFiles'
      BY <1>18, <2>1, <3>1, <3>2 DEF MakeDaemon
    <3> QED
      BY <1>18, <2>1, <3>1, <3>3 DEF MakeDaemon
  <2>2. CASE ~(stage < 2)
    BY <1>18, <2>2 DEF MakeDaemon
  <2> QED
    BY <2>1, <2>2
<1>19. CASE MakeDaemonFails
  BY <1>19 DEF MakeDaemonFails, keyVars
<1>20. CASE AskPassword
  BY <1>20 DEF AskPassword, keyVars
<1>21. CASE BadPassword
  BY <1>21 DEF BadPassword, keyVars, ErrExit
<1>22. CASE HandleSignals
  BY <1>22 DEF HandleSignals, keyVars
<1>23. CASE PrintSummary
  BY <1>23 DEF PrintSummary, keyVars
<1>24. CASE Exit
  BY <1>24 DEF Exit, keyVars
<1> QED
  BY <1>7, <1>8, <1>9, <1>10, <1>11, <1>12, <1>13, <1>14, <1>15, <1>16, <1>17,
     <1>18, <1>19, <1>20, <1>21, <1>22, <1>23, <1>24
     DEF StartupStep, OpenKey, ReadKey, CloseKey, TempFile, WriteCopy, CloseCopy,
         PromptPassphrase, ReadPassphrase, Strip, Reopen

-----------------------------------------------------------------------------
(* main has no descriptor when it starts,                                  *)
LEMMA DescriptorInit == StartupInit => DescriptorInv
BY DEF StartupInit, DescriptorInv, LocalInv, Held, HeldFiles, Holding, Between,
       InGetPrivateKeyFile, Wanted, Keys

(* and every step keeps the invariant, from which the property follows.    *)
LEMMA DescriptorStep ==
    StartupTypeOK /\ DescriptorInv /\ StartupStep => DescriptorInv'
<1> SUFFICES ASSUME StartupTypeOK, DescriptorInv, StartupStep PROVE DescriptorInv'
  OBVIOUS
<1>1. CASE up' # "running" \/ step' = "exit"
  BY <1>1 DEF DescriptorInv
<1>2. CASE up' = "running" /\ step' # "exit"
  BY <1>2, LocalStep, OuterStep
<1> QED
  BY <1>1, <1>2

(* That property is the part of the invariant a reader of the code sees.   *)
LEMMA DescriptorsFollow == DescriptorInv => DescriptorsKept
BY DEF DescriptorInv, DescriptorsKept, HeldFiles, Held, Needed,
       InGetPrivateKeyFile

(* Serving clients, and the end of the program, keep all of this.          *)
LEMMA ServingKeeps ==
    ASSUME UNCHANGED <<c, stage, keyVars, up>>,
           \/ UNCHANGED step
           \/ {step, step'} \subseteq {"accept", "handshake"}
    PROVE  /\ NoCopyLeft => NoCopyLeft'
           /\ DescriptorInv => DescriptorInv'
<1> USE DEF keyVars
<1>1. NoCopyLeft => NoCopyLeft'
  BY DEF NoCopyLeft, InGetPrivateKeyFile
<1>2. CASE UNCHANGED step
  BY <1>1, <1>2 DEF DescriptorInv, LocalInv, Opened, Held, HeldFiles, Wanted,
                    InGetPrivateKeyFile
<1>3. CASE {step, step'} \subseteq {"accept", "handshake"}
  <2>1. Held' = {} /\ Held = {} /\ HeldFiles' = {} /\ HeldFiles = {}
    BY <1>3 DEF Held, HeldFiles, Wanted, Keys, Holding, Between,
                InGetPrivateKeyFile
  <2> QED
    BY <1>1, <1>3, <2>1 DEF DescriptorInv, LocalInv, InGetPrivateKeyFile
<1> QED
  BY <1>2, <1>3

(* The end of the program keeps it too.                                    *)
LEMMA EndingKeeps ==
    ASSUME UNCHANGED <<step, keyVars>>, up' # "running"
    PROVE  (NoCopyLeft => NoCopyLeft') /\ DescriptorInv'
BY DEF NoCopyLeft, InGetPrivateKeyFile, DescriptorInv, keyVars
=============================================================================

--------------------------- MODULE PluginBootProofs ---------------------------
(***************************************************************************)
(* Theorems about PluginBoot, for any threads, any number of JARs and any  *)
(* file of JVM options.                                                    *)
(***************************************************************************)
EXTENDS PluginBoot, SequenceTheorems, WellFoundedInduction, TLAPS

\* The references in scope before each JNI call; nothing else is on the stack.
RefsBefore == <<0, 1, 1, 2, 2, 2,   3, 4, 5,   3, 4, 5, 6, 6, 7, 8, 9, 10, 10>>

RefsOf(phase) ==
  CASE phase = "calling"  -> RefsBefore[site]
    [] phase = "listing"  -> 2
    [] phase \in {"initializing", "registered"} -> 11
    [] OTHER -> 0

\* What the thread of the entry point knows of itself.
BootInv ==
  /\ boot \in {"start", "configured", "found", "running"} => site = 1
  /\ boot = "calling" => site \in 1..19 /\ (site \in 6..9 => jarsLeft > 0)
  /\ boot = "listing" => site = 6
  /\ boot = "checking" => localRefs \in 0..11
  /\ boot = "returned" => localRefs \in 0..1
  /\ boot \notin {"checking", "returned"} => localRefs = RefsOf(boot) /\ ~pending
  /\ boot # "returned" => cerr = "nothing"
  /\ FailuresAreReported
  /\ registered => boot \in {"registered", "returned"} /\ prepared = 4 /\ jvm # None
  /\ boot = "registered" => registered
  /\ boot \in {"running", "calling", "listing", "initializing"} => jvm # None

\* What the threads that create engines know: whoever is in the outer block of
\* the configuration holds it and nothing else; and whoever is past the check of the
\* flag has the monitor of Boolean.FALSE, so it is alone.
FactoryInv ==
  /\ \A t \in Threads : pc[t] # "idle" => registered
  /\ ConfigIsReleased
  /\ \A t \in Threads : pc[t] \in {"finding", "closing", "unwinding"} => held[t] = {"config"}
  /\ \A t \in Threads : pc[t] = "reading" => "config" \in held[t]
  /\ \A t \in Threads : monitor[t] => securityInitialized
  /\ \A t \in Threads : pc[t] = "installing" => ~securityInitialized /\ ~managed
  /\ \A t \in Threads : pc[t] = "installed" => ~securityInitialized /\ managed
  /\ \A t \in Threads : pc[t] \in {"exiting", "secured"} => managed
  /\ securityInitialized => managed
  /\ managed /\ ~securityInitialized => \E t \in Threads : pc[t] = "installed"
  /\ EnginesAreGuarded

IInv == TypeOK /\ BootInv /\ FactoryInv

-----------------------------------------------------------------------------

\* The options made of the lines of a file are options.
LEMMA OptionsType ==
  ASSUME NEW lines \in Seq(LineKinds)
  PROVE  OptionsOf(lines) \in Seq(Options)
<1> DEFINE Added(i) == IF i = FirstJnaPath(lines) THEN "firebird" ELSE ""
           Dirs(i) == IF lines[i] = "jnaPath" THEN {"file", Added(i)} ELSE {}
           Ours == [i \in DOMAIN lines |-> [jna |-> lines[i] = "jnaPath", dirs |-> Dirs(i)]]
           Last1 == IF FirstJnaPath(lines) = 0
                    THEN <<[jna |-> TRUE, dirs |-> {"firebird"}]>> ELSE <<>>
<1>1. Len(lines) \in Nat /\ DOMAIN lines = 1..Len(lines)
  OBVIOUS
<1>2. ASSUME NEW i \in DOMAIN lines
      PROVE  [jna |-> lines[i] = "jnaPath", dirs |-> Dirs(i)] \in Options
  <2>1. Dirs(i) \subseteq {"file", "firebird", ""}
    OBVIOUS
  <2>2. (lines[i] = "jnaPath") \in BOOLEAN
    OBVIOUS
  <2> QED
    BY <2>1, <2>2 DEF Options
<1>3. Ours \in Seq(Options)
  <2>1. Ours \in [1..Len(lines) -> Options]
    BY <1>1, <1>2
  <2> HIDE DEF Ours
  <2> QED
    BY <1>1, <2>1, SeqDef
<1>4. Last1 \in Seq(Options)
  <2>1. [jna |-> TRUE, dirs |-> {"firebird"}] \in Options
    BY DEF Options
  <2> QED
    BY <2>1
<1>5. OptionsOf(lines) = Ours \o Last1
  BY DEF OptionsOf
<1>6. Ours \o Last1 \in Seq(Options)
  <2> HIDE DEF Ours, Last1
  <2> QED
    BY <1>3, <1>4, ConcatProperties
<1> QED
  BY <1>5, <1>6

LEMMA Lengths == Len(Makes) = 19 /\ Len(Preparations) = 4
BY DEF Makes, Preparations

\* How many references a call leaves is what the next one finds.
LEMMA RefsStep ==
  ASSUME NEW i \in 1..18
  PROVE  /\ RefsBefore[i] + Makes[i] = RefsBefore[i + 1]
         /\ RefsBefore[i] \in 0..11
BY DEF RefsBefore, Makes

LEMMA InitCorrect == ASSUME Init PROVE IInv
<1>1. TypeOK
  <2>1. monitor \in [Threads -> BOOLEAN]
    BY Zenon DEF Init
  <2>2. owner \in [BOOLEAN -> Threads \cup {None}]
    BY Zenon DEF Init
  <2>3. \A t \in Threads : InBlock(t) => owner[monitor[t]] = t
    BY DEF Init, InBlock
  <2>4. /\ pc \in [Threads -> Calling]
        /\ held \in [Threads -> SUBSET {"config", "entry"}]
    BY DEF Init, Calling
  <2>5. /\ site \in 1..(Len(Makes) + 1)
        /\ jarsLeft \in 0..MaxJars
        /\ localRefs \in Int
        /\ prepared \in 0..Len(Preparations)
        /\ policies \in Nat
    BY ConstantsAssumption, Lengths DEF Init, ConstantsAssumption
  <2>6. /\ boot \in Booting
        /\ jvmArgs \in Seq(Options)
        /\ jvm \in {None, "foreign", "created"}
        /\ cerr \in {"nothing", "message", "unknown"}
    BY DEF Init, Booting
  <2>7. /\ pending \in BOOLEAN /\ registered \in BOOLEAN /\ securityInitialized \in BOOLEAN
        /\ managed \in BOOLEAN /\ engines \in BOOLEAN
    BY Zenon DEF Init
  <2> QED
    BY <2>1, <2>2, <2>3, <2>4, <2>5, <2>6, <2>7 DEF TypeOK
<1>2. BootInv
  BY DEF Init, BootInv, RefsOf, RefsBefore, FailuresAreReported
<1>3. FactoryInv
  BY DEF Init, FactoryInv, ConfigIsReleased, EnginesAreGuarded
<1> QED
  BY <1>1, <1>2, <1>3 DEF IInv

-----------------------------------------------------------------------------
(* The entry point.                                                        *)

LEMMA ReadConfigCorrect ==
  ASSUME IInv, ReadConfig
  PROVE  TypeOK' /\ BootInv'
<1>1. TypeOK'
  BY OptionsType, ConstantsAssumption
     DEF IInv, TypeOK, ReadConfig, Throw, factoryVars, securityVars, mainVars, Booting,
         InBlock, ConstantsAssumption
<1>2. BootInv'
  BY DEF IInv, BootInv, ReadConfig, Throw, RefsOf, mainVars, FailuresAreReported
<1> QED
  BY <1>1, <1>2

LEMMA FindJvmLibraryCorrect ==
  ASSUME IInv, FindJvmLibrary
  PROVE  TypeOK' /\ BootInv'
<1>1. TypeOK'
  BY DEF IInv, TypeOK, FindJvmLibrary, Throw, jvmVars, factoryVars, securityVars, mainVars,
         Booting, InBlock
<1>2. BootInv'
  BY DEF IInv, BootInv, FindJvmLibrary, Throw, RefsOf, jvmVars, mainVars, FailuresAreReported
<1> QED
  BY <1>1, <1>2

LEMMA ObtainJvmCorrect ==
  ASSUME IInv, ObtainJvm
  PROVE  TypeOK' /\ BootInv'
<1>1. TypeOK'
  BY DEF IInv, TypeOK, ObtainJvm, Throw, factoryVars, securityVars, mainVars, Booting, InBlock
<1>2. BootInv'
  BY ConstantsAssumption
     DEF IInv, BootInv, ObtainJvm, Throw, RefsOf, mainVars, FailuresAreReported, ConstantsAssumption
<1> QED
  BY <1>1, <1>2

LEMMA AttachThreadCorrect ==
  ASSUME IInv, AttachThread
  PROVE  TypeOK' /\ BootInv'
<1>1. TypeOK'
  BY DEF IInv, TypeOK, AttachThread, Throw, jvmVars, factoryVars, securityVars, mainVars,
         Booting, InBlock
<1>2. BootInv'
  BY DEF IInv, BootInv, AttachThread, Throw, RefsOf, RefsBefore, jvmVars, mainVars,
         FailuresAreReported
<1> QED
  BY <1>1, <1>2

LEMMA JniCallCorrect ==
  ASSUME IInv, JniCall
  PROVE  TypeOK' /\ BootInv'
<1>1. site \in 1..19 /\ localRefs = RefsBefore[site] /\ localRefs \in Int /\ jarsLeft \in 0..MaxJars
  BY DEF IInv, TypeOK, BootInv, JniCall, RefsOf
<1>2. site' \in 1..20 /\ boot' \in {"listing", "initializing", "calling"}
  BY <1>1 DEF JniCall
<1>3. Makes[site] \in Int
  BY <1>1 DEF Makes
<1>4. jarsLeft' \in 0..MaxJars
  BY <1>1, ConstantsAssumption DEF JniCall, IInv, BootInv, ConstantsAssumption
<1>5. TypeOK'
  BY <1>1, <1>2, <1>3, <1>4, Lengths, SMTT(30)
     DEF IInv, TypeOK, JniCall, jvmVars, factoryVars, securityVars, mainVars, Booting, InBlock
<1>6. /\ boot' = "calling" => site' \in 1..19 /\ (site' \in 6..9 => jarsLeft' > 0)
      /\ boot' = "listing" => site' = 6
  BY <1>1 DEF JniCall, IInv, BootInv
<1>7. localRefs' = RefsOf(boot)'
  <2>1. CASE site = 9 /\ jarsLeft > 1
    BY <1>1, <2>1 DEF JniCall, RefsOf, RefsBefore, Makes
  <2>2. CASE site = 19
    BY <1>1, <2>2 DEF JniCall, RefsOf, RefsBefore, Makes
  <2>3. CASE site = 5
    BY <1>1, <2>3 DEF JniCall, RefsOf, RefsBefore, Makes
  <2>4. CASE site \notin {5, 19} /\ ~(site = 9 /\ jarsLeft > 1)
    <3>1. site \in 1..18 /\ site' = site + 1 /\ boot' = "calling"
      BY <1>1, <2>4 DEF JniCall
    <3>2. localRefs' = RefsBefore[site + 1]
      BY <1>1, <3>1, RefsStep DEF JniCall
    <3> QED
      BY <3>1, <3>2 DEF RefsOf
  <2> QED
    BY <2>1, <2>2, <2>3, <2>4
<1>8. BootInv'
  BY <1>2, <1>6, <1>7
     DEF IInv, BootInv, JniCall, jvmVars, mainVars, FailuresAreReported
<1> QED
  BY <1>5, <1>8

LEMMA JniCallFailsCorrect ==
  ASSUME IInv, JniCallFails
  PROVE  TypeOK' /\ BootInv'
<1>1. TypeOK'
  BY DEF IInv, TypeOK, JniCallFails, jvmVars, factoryVars, securityVars, mainVars, Booting, InBlock
<1>2. localRefs \in 0..11
  <2>1. site \in 1..19 /\ localRefs = RefsBefore[site]
    BY DEF IInv, BootInv, JniCallFails, RefsOf
  <2> QED
    BY <2>1 DEF RefsBefore
<1>3. BootInv'
  BY <1>2 DEF IInv, BootInv, JniCallFails, jvmVars, mainVars, FailuresAreReported
<1> QED
  BY <1>1, <1>3

LEMMA ListJarsCorrect ==
  ASSUME IInv, ListJars
  PROVE  TypeOK' /\ BootInv'
<1>1. TypeOK'
  BY ConstantsAssumption
     DEF IInv, TypeOK, ListJars, Throw, jvmVars, factoryVars, securityVars, mainVars, Booting,
         InBlock, ConstantsAssumption
<1>2. BootInv'
  BY ConstantsAssumption
     DEF IInv, BootInv, ListJars, Throw, RefsOf, RefsBefore, jvmVars, mainVars,
         FailuresAreReported, ConstantsAssumption
<1> QED
  BY <1>1, <1>2

LEMMA CheckJavaExceptionCorrect ==
  ASSUME IInv, CheckJavaException
  PROVE  TypeOK' /\ BootInv'
<1>1. TypeOK'
  <2>1. pending' \in BOOLEAN
    BY Zenon DEF CheckJavaException
  <2>2. cerr' \in {"message", "unknown"} /\ boot' = "returned" /\ localRefs' = 1
    BY DEF CheckJavaException, Throw
  <2> QED
    BY <2>1, <2>2
       DEF IInv, TypeOK, CheckJavaException, jvmVars, factoryVars, securityVars, mainVars, Booting,
           InBlock
<1>2. BootInv'
  BY DEF IInv, BootInv, CheckJavaException, Throw, jvmVars, mainVars, FailuresAreReported
<1> QED
  BY <1>1, <1>2

LEMMA PrepareCorrect ==
  ASSUME IInv, Prepare
  PROVE  TypeOK' /\ BootInv'
<1>1. prepared' \in 0..Len(Preparations)
  BY Lengths DEF IInv, TypeOK, Prepare
<1>2. UNCHANGED <<boot, jvmArgs, jvm, jniVars, cerr, registered, factoryVars>>
  BY DEF Prepare, jvmVars
<1>4. TypeOK'
  BY <1>1, <1>2
     DEF IInv, TypeOK, jniVars, factoryVars, securityVars, InBlock
<1>3. BootInv'
  BY DEF IInv, BootInv, Prepare, RefsOf, jvmVars, jniVars, FailuresAreReported
<1> QED
  BY <1>3, <1>4

LEMMA RegisterCorrect ==
  ASSUME IInv, Register
  PROVE  TypeOK' /\ BootInv'
<1>1. TypeOK'
  BY DEF IInv, TypeOK, Register, jvmVars, jniVars, factoryVars, securityVars, Booting, InBlock
<1>2. BootInv'
  BY Lengths
     DEF IInv, BootInv, Register, RefsOf, jvmVars, jniVars, FailuresAreReported
<1> QED
  BY <1>1, <1>2

LEMMA InitializeFailsCorrect ==
  ASSUME IInv, InitializeFails
  PROVE  TypeOK' /\ BootInv'
<1>1. TypeOK'
  BY DEF IInv, TypeOK, InitializeFails, jvmVars, factoryVars, securityVars, mainVars, Booting,
         InBlock
<1>2. BootInv'
  BY DEF IInv, BootInv, InitializeFails, RefsOf, jvmVars, mainVars, FailuresAreReported
<1> QED
  BY <1>1, <1>2

LEMMA EntryPointReturnsCorrect ==
  ASSUME IInv, EntryPointReturns
  PROVE  TypeOK' /\ BootInv'
<1>1. TypeOK'
  BY DEF IInv, TypeOK, EntryPointReturns, jvmVars, factoryVars, securityVars, mainVars, Booting,
         InBlock
<1>2. BootInv'
  BY DEF IInv, BootInv, EntryPointReturns, RefsOf, jvmVars, mainVars, FailuresAreReported
<1> QED
  BY <1>1, <1>2

LEMMA BootStepCorrect ==
  ASSUME IInv, BootStep
  PROVE  IInv'
<1>1. TypeOK' /\ BootInv'
  BY ReadConfigCorrect, FindJvmLibraryCorrect, ObtainJvmCorrect, AttachThreadCorrect,
     JniCallCorrect, JniCallFailsCorrect, ListJarsCorrect, CheckJavaExceptionCorrect,
     PrepareCorrect, RegisterCorrect, InitializeFailsCorrect, EntryPointReturnsCorrect
     DEF BootStep
<1>2. (registered => registered') /\ UNCHANGED factoryVars
  BY DEF BootStep, ReadConfig, FindJvmLibrary, ObtainJvm, AttachThread, JniCall, JniCallFails,
     ListJars, CheckJavaException, Prepare, Register, InitializeFails, EntryPointReturns,
     mainVars
<1>3. FactoryInv'
  BY <1>2 DEF IInv, FactoryInv, factoryVars, securityVars, ConfigIsReleased, EnginesAreGuarded
<1> QED
  BY <1>1, <1>3 DEF IInv

-----------------------------------------------------------------------------
(* The factory.                                                            *)

LEMMA BootInvKept ==
  ASSUME IInv, UNCHANGED bootVars
  PROVE  BootInv'
BY DEF IInv, BootInv, bootVars, jvmVars, jniVars, mainVars, RefsOf, FailuresAreReported

\* The flag is not set while a thread is between its check and SetFlag, and
\* that thread owns the monitor of Boolean.FALSE.
LEMMA AloneInside ==
  ASSUME IInv, NEW t \in Threads, NEW u \in Threads,
         InBlock(t), InBlock(u), ~securityInitialized
  PROVE  t = u
BY DEF IInv, TypeOK, FactoryInv

LEMMA CallStepsCorrect ==
  ASSUME IInv, NEW t \in Threads,
         \/ CreatePlugin(t) \/ GetConfig(t) \/ FindEntry(t) \/ ReadEntry(t)
         \/ ReadEntryFails(t) \/ ReleaseConfig(t)
  PROVE  TypeOK' /\ FactoryInv'
<1> DEFINE Early == {"idle", "called", "finding", "reading", "closing", "unwinding"}
<1>1. /\ UNCHANGED <<bootVars, monitor, securityVars, engines>>
      /\ registered
      /\ \E to \in Early \cup {"configured"} : pc' = [pc EXCEPT ![t] = to]
      /\ pc[t] \in Early
  BY DEF CreatePlugin, GetConfig, FindEntry, ReadEntry, ReadEntryFails, ReleaseConfig, Goto,
         IInv, FactoryInv
<1>2. /\ held' \in [Threads -> SUBSET {"config", "entry"}]
      /\ ConfigIsReleased'
      /\ \A u \in Threads : pc'[u] \in {"finding", "closing", "unwinding"} => held'[u] = {"config"}
      /\ \A u \in Threads : pc'[u] = "reading" => "config" \in held'[u]
  <2>1. /\ held \in [Threads -> SUBSET {"config", "entry"}]
        /\ pc \in [Threads -> Calling]
        /\ ConfigIsReleased
        /\ \A u \in Threads : pc[u] \in {"finding", "closing", "unwinding"} => held[u] = {"config"}
        /\ \A u \in Threads : pc[u] = "reading" => "config" \in held[u]
    BY DEF IInv, TypeOK, FactoryInv
  <2>2. CASE CreatePlugin(t) \/ GetConfig(t)
    BY <2>1, <2>2 DEF CreatePlugin, GetConfig, Goto, ConfigIsReleased
  <2>3. CASE FindEntry(t)
    BY <2>1, <2>3 DEF FindEntry, Goto, ConfigIsReleased
  <2>4. CASE ReadEntry(t)
    BY <2>1, <2>4 DEF ReadEntry, Goto, ConfigIsReleased
  <2>5. CASE ReadEntryFails(t)
    BY <2>1, <2>5 DEF ReadEntryFails, Goto, ConfigIsReleased
  <2>6. CASE ReleaseConfig(t)
    BY <2>1, <2>6 DEF ReleaseConfig, Goto, ConfigIsReleased
  <2> QED
    BY <2>2, <2>3, <2>4, <2>5, <2>6
<1>3. TypeOK'
  <2>0. TypeOK /\ UNCHANGED <<bootVars, monitor, securityVars, engines>>
    BY <1>1 DEF IInv
  <2>1. pc' \in [Threads -> Calling]
    BY <2>0, <1>1 DEF TypeOK, Calling
  <2>2. ASSUME NEW u \in Threads, InBlock(u)'
        PROVE  owner'[monitor'[u]] = u
    <3>1. InBlock(u)
      BY <2>0, <1>1, <2>2 DEF TypeOK, InBlock
    <3> QED
      BY <2>0, <3>1 DEF TypeOK, securityVars
  <2> QED
    BY <2>0, <2>1, <2>2, <1>2 DEF TypeOK, bootVars, jvmVars, jniVars, mainVars, securityVars
<1>4. FactoryInv'
  BY <1>1, <1>2 DEF IInv, TypeOK, FactoryInv, bootVars, mainVars, securityVars, EnginesAreGuarded
<1> QED
  BY <1>3, <1>4

LEMMA EvaluateMonitorCorrect ==
  ASSUME IInv, NEW t \in Threads, EvaluateMonitor(t)
  PROVE  TypeOK' /\ FactoryInv'
<1>1. TypeOK'
  BY DEF IInv, TypeOK, EvaluateMonitor, Goto, bootVars, jvmVars, jniVars, mainVars, securityVars,
         Calling, InBlock
<1>2. FactoryInv'
  BY DEF IInv, TypeOK, FactoryInv, EvaluateMonitor, Goto, bootVars, mainVars, securityVars,
         ConfigIsReleased, EnginesAreGuarded
<1> QED
  BY <1>1, <1>2

LEMMA EnterMonitorCorrect ==
  ASSUME IInv, NEW t \in Threads, EnterMonitor(t)
  PROVE  TypeOK' /\ FactoryInv'
<1>1. TypeOK'
  BY ConstantsAssumption
     DEF IInv, TypeOK, EnterMonitor, Goto, bootVars, jvmVars, jniVars, mainVars, Calling, InBlock,
         ConstantsAssumption
<1>2. FactoryInv'
  BY DEF IInv, TypeOK, FactoryInv, EnterMonitor, Goto, bootVars, mainVars, ConfigIsReleased,
         EnginesAreGuarded
<1> QED
  BY <1>1, <1>2

LEMMA AlreadyInitializedCorrect ==
  ASSUME IInv, NEW t \in Threads, AlreadyInitialized(t)
  PROVE  TypeOK' /\ FactoryInv'
<1>1. TypeOK'
  BY DEF IInv, TypeOK, AlreadyInitialized, Goto, bootVars, jvmVars, jniVars, mainVars,
         securityVars, Calling, InBlock
<1>2. FactoryInv'
  BY DEF IInv, TypeOK, FactoryInv, AlreadyInitialized, Goto, bootVars, mainVars, securityVars,
         ConfigIsReleased, EnginesAreGuarded
<1> QED
  BY <1>1, <1>2

\* Only a thread that is alone sets the policy, so no manager is installed.
LEMMA NotManagedYet ==
  ASSUME IInv, NEW t \in Threads, SetPolicy(t)
  PROVE  ~managed
<1>1. SUFFICES ASSUME managed PROVE FALSE
  OBVIOUS
<1>2. PICK u \in Threads : pc[u] = "installed"
  BY <1>1 DEF IInv, FactoryInv, SetPolicy
<1>3. u = t
  BY <1>2, AloneInside DEF SetPolicy, InBlock
<1> QED
  BY <1>2, <1>3 DEF SetPolicy

LEMMA SetPolicyCorrect ==
  ASSUME IInv, NEW t \in Threads, SetPolicy(t)
  PROVE  TypeOK' /\ FactoryInv'
<1>1. TypeOK'
  BY DEF IInv, TypeOK, SetPolicy, Goto, bootVars, jvmVars, jniVars, mainVars, Calling, InBlock
<1>2. FactoryInv'
  BY NotManagedYet
     DEF IInv, TypeOK, FactoryInv, SetPolicy, Goto, bootVars, mainVars, ConfigIsReleased,
         EnginesAreGuarded
<1> QED
  BY <1>1, <1>2

LEMMA SetSecurityManagerCorrect ==
  ASSUME IInv, NEW t \in Threads, SetSecurityManager(t)
  PROVE  TypeOK' /\ FactoryInv'
<1>1. TypeOK'
  BY DEF IInv, TypeOK, SetSecurityManager, Goto, bootVars, jvmVars, jniVars, mainVars, Calling,
         InBlock
<1>2. \A u \in Threads \ {t} : ~(pc[u] \in {"installing", "installed"})
  BY AloneInside DEF IInv, FactoryInv, SetSecurityManager, InBlock
<1>3. FactoryInv'
  BY <1>2
     DEF IInv, TypeOK, FactoryInv, SetSecurityManager, Goto, bootVars, mainVars, ConfigIsReleased,
         EnginesAreGuarded
<1> QED
  BY <1>1, <1>3

LEMMA SecurityRefusedCorrect ==
  ASSUME IInv, NEW t \in Threads, SecurityRefused(t)
  PROVE  TypeOK' /\ FactoryInv'
<1>1. \A u \in Threads \ {t} : InBlock(u) => monitor[u] # monitor[t]
  BY DEF IInv, TypeOK, SecurityRefused, InBlock
<1>2. TypeOK'
  BY <1>1
     DEF IInv, TypeOK, SecurityRefused, Goto, bootVars, jvmVars, jniVars, mainVars, Calling, InBlock
<1>3. FactoryInv'
  BY DEF IInv, TypeOK, FactoryInv, SecurityRefused, Goto, bootVars, mainVars, ConfigIsReleased,
         EnginesAreGuarded
<1> QED
  BY <1>2, <1>3

LEMMA SetFlagCorrect ==
  ASSUME IInv, NEW t \in Threads, SetFlag(t)
  PROVE  TypeOK' /\ FactoryInv'
<1>1. TypeOK'
  BY DEF IInv, TypeOK, SetFlag, Goto, bootVars, jvmVars, jniVars, mainVars, Calling, InBlock
<1>2. \A u \in Threads \ {t} : ~(pc[u] \in {"installing", "installed"})
  BY AloneInside DEF IInv, FactoryInv, SetFlag, InBlock
<1>3. FactoryInv'
  BY <1>2
     DEF IInv, TypeOK, FactoryInv, SetFlag, Goto, bootVars, mainVars, ConfigIsReleased,
         EnginesAreGuarded
<1> QED
  BY <1>1, <1>3

LEMMA ExitMonitorCorrect ==
  ASSUME IInv, NEW t \in Threads, ExitMonitor(t)
  PROVE  TypeOK' /\ FactoryInv'
<1>1. \A u \in Threads \ {t} : InBlock(u) => monitor[u] # monitor[t]
  BY DEF IInv, TypeOK, ExitMonitor, InBlock
<1>2. TypeOK'
  BY <1>1
     DEF IInv, TypeOK, ExitMonitor, Goto, bootVars, jvmVars, jniVars, mainVars, Calling, InBlock
<1>3. FactoryInv'
  BY DEF IInv, TypeOK, FactoryInv, ExitMonitor, Goto, bootVars, mainVars, ConfigIsReleased,
         EnginesAreGuarded
<1> QED
  BY <1>2, <1>3

LEMMA CreateEngineCorrect ==
  ASSUME IInv, NEW t \in Threads, CreateEngine(t)
  PROVE  TypeOK' /\ FactoryInv'
<1>1. TypeOK'
  BY DEF IInv, TypeOK, CreateEngine, Goto, bootVars, jvmVars, jniVars, mainVars, securityVars,
         Calling, InBlock
<1>2. FactoryInv'
  BY DEF IInv, TypeOK, FactoryInv, CreateEngine, Goto, bootVars, mainVars, securityVars,
         ConfigIsReleased, EnginesAreGuarded
<1> QED
  BY <1>1, <1>2

LEMMA FactoryStepsCorrect ==
  ASSUME IInv, NEW t \in Threads, CreatePlugin(t) \/ FactoryStep(t)
  PROVE  IInv'
<1>1. TypeOK' /\ FactoryInv'
  BY CallStepsCorrect, EvaluateMonitorCorrect, EnterMonitorCorrect, AlreadyInitializedCorrect,
     SetPolicyCorrect, SetSecurityManagerCorrect, SecurityRefusedCorrect, SetFlagCorrect,
     ExitMonitorCorrect, CreateEngineCorrect
     DEF FactoryStep
<1>2. UNCHANGED bootVars
  BY DEF FactoryStep, CreatePlugin, GetConfig, FindEntry, ReadEntry, ReadEntryFails, ReleaseConfig,
     EvaluateMonitor, EnterMonitor, AlreadyInitialized, SetPolicy, SetSecurityManager, SecurityRefused, SetFlag, ExitMonitor,
     CreateEngine
<1> QED
  BY <1>1, <1>2, BootInvKept DEF IInv

-----------------------------------------------------------------------------
(* Every behaviour.                                                        *)

LEMMA StepCorrect ==
  ASSUME IInv, [Next]_vars
  PROVE  IInv'
<1>1. CASE BootStep
  BY <1>1, BootStepCorrect
<1>2. CASE \E t \in Threads : CreatePlugin(t) \/ FactoryStep(t)
  BY <1>2, FactoryStepsCorrect
<1>3. CASE UNCHANGED vars
  <2>1. UNCHANGED bootVars /\ UNCHANGED factoryVars
    BY <1>3 DEF vars
  <2>2. TypeOK'
    BY <2>1 DEF IInv, TypeOK, bootVars, jvmVars, jniVars, mainVars, factoryVars, securityVars, InBlock
  <2>3. FactoryInv'
    BY <2>1 DEF IInv, FactoryInv, bootVars, mainVars, factoryVars, securityVars,
       ConfigIsReleased, EnginesAreGuarded
  <2> QED
    BY <2>1, <2>2, <2>3, BootInvKept DEF IInv
<1> QED
  BY <1>1, <1>2, <1>3 DEF Next

THEOREM Invariance == Spec => []IInv
<1>1. Init => IInv
  BY InitCorrect
<1>2. IInv /\ [Next]_vars => IInv'
  BY StepCorrect
<1> QED
  BY <1>1, <1>2, PTL DEF Spec

\* Types of PluginBoot, and a monitor belongs to the thread in its block.
THEOREM BootTypesCorrect == Spec => []TypeOK
<1>1. IInv => TypeOK
  BY DEF IInv
<1> QED
  BY <1>1, Invariance, PTL

\* fbjava.cpp:643-656: init() fails in silence at none of its steps.
THEOREM NoSilentFailure == Spec => []FailuresAreReported
<1>1. IInv => FailuresAreReported
  BY DEF IInv, BootInv
<1> QED
  BY <1>1, Invariance, PTL

\* fbjava.cpp:575-592: the local references are bounded for any number of JARs.
THEOREM LocalRefsAreFew == Spec => []LocalRefsBounded
<1>1. IInv => LocalRefsBounded
  <2> SUFFICES ASSUME IInv PROVE LocalRefsBounded
    OBVIOUS
  <2>1. boot \notin {"checking", "returned"} => localRefs \in 0..11
    BY DEF IInv, BootInv, RefsOf, RefsBefore
  <2> QED
    BY <2>1 DEF IInv, BootInv, LocalRefsBounded
<1> QED
  BY <1>1, Invariance, PTL

\* Main.java:36-54: a thread in createPlugin finds the statics of Main set.
THEOREM FactoryReady == Spec => []FactoryIsReady
<1>1. IInv => FactoryIsReady
  BY Lengths DEF IInv, BootInv, FactoryInv, FactoryIsReady
<1> QED
  BY <1>1, Invariance, PTL

\* PluginFactory.java:50-66: the interfaces of the configuration are released.
THEOREM ConfigReleased == Spec => []ConfigIsReleased
<1>1. IInv => ConfigIsReleased
  BY DEF IInv, FactoryInv
<1> QED
  BY <1>1, Invariance, PTL

\* PluginFactory.java:68-78: the security manager comes before any engine,
\* though the lock is the flag and changes with it.
THEOREM EnginesGuarded == Spec => []EnginesAreGuarded
<1>1. IInv => EnginesAreGuarded
  BY DEF IInv, FactoryInv
<1> QED
  BY <1>1, Invariance, PTL

\* PluginFactory.java:73: the policy in force under a security manager stays.
THEOREM PolicyKept == Spec => PolicyIsKept
<1>1. ASSUME IInv, [Next]_vars PROVE [policies' # policies => ~managed]_vars
  <2>1. CASE \E t \in Threads : SetPolicy(t)
    BY <1>1, <2>1, NotManagedYet
  <2>2. CASE UNCHANGED policies
    BY <2>2
  <2>3. (\E t \in Threads : SetPolicy(t)) \/ UNCHANGED policies
    BY <1>1 DEF Next, BootStep, ReadConfig, FindJvmLibrary, ObtainJvm, AttachThread, JniCall,
       JniCallFails, ListJars, CheckJavaException, Prepare, Register, InitializeFails,
       EntryPointReturns, FactoryStep, CreatePlugin, GetConfig, FindEntry, ReadEntry,
       ReadEntryFails, ReleaseConfig, EvaluateMonitor, EnterMonitor, AlreadyInitialized, SetSecurityManager, SecurityRefused,
       SetFlag, ExitMonitor, CreateEngine, factoryVars, securityVars, vars
  <2> QED
    BY <2>1, <2>2, <2>3
<1> QED
  BY <1>1, Invariance, PTL DEF Spec, PolicyIsKept

-----------------------------------------------------------------------------
(* The options of the JVM.                                                 *)

\* The least number principle, by the induction of the library.
LEMMA LeastExists ==
  ASSUME NEW S \in SUBSET Nat, S # {}
  PROVE  \E m \in S : \A k \in S : m <= k
<1>1. PICK m \in S : \A k \in S : ~ (<<k, m>> \in OpToRel(<, Nat))
  BY NatLessThanWellFounded, WFMin
<1>2. ASSUME NEW k \in S PROVE m <= k
  <2>1. ~ (<<k, m>> \in {ss \in Nat \X Nat : ss[1] < ss[2]})
    BY <1>1 DEF OpToRel
  <2> QED
    BY <2>1
<1> QED
  BY <1>2

\* fbjava.cpp:416-424: the first line that sets the path, if there is one.
LEMMA FirstLine ==
  ASSUME NEW lines \in Seq(LineKinds)
  PROVE  LET first == FirstJnaPath(lines) IN
         IF \A i \in DOMAIN lines : lines[i] # "jnaPath"
         THEN first = 0
         ELSE first \in DOMAIN lines /\ lines[first] = "jnaPath"
<1> DEFINE I == {i \in 1..Len(lines) : lines[i] = "jnaPath"}
<1>1. FirstJnaPath(lines) = IF I # {} THEN CHOOSE x \in I : \A y \in I : x <= y ELSE 0
  BY DEF FirstJnaPath, SelectInSeq, Min
<1>2. DOMAIN lines = 1..Len(lines) /\ I \subseteq Nat
  OBVIOUS
<1>3. ASSUME I # {}
      PROVE  (CHOOSE x \in I : \A y \in I : x <= y) \in I
  <2> HIDE DEF I
  <2>1. \E x \in I : \A y \in I : x <= y
    BY <1>2, <1>3, LeastExists
  <2> QED
    BY <2>1
<1> QED
  BY <1>1, <1>2, <1>3

\* The options tell the path, and Firebird's directory if there is only one path.
Told(options) ==
  LET paths == {i \in DOMAIN options : options[i].jna} IN
  /\ paths # {}
  /\ \A i \in paths : paths = {i} => "firebird" \in options[i].dirs

\* fbjava.cpp:409-414: the option that is added is the only one.
LEMMA ToldByAdded ==
  ASSUME NEW ours \in Seq(Options), \A i \in DOMAIN ours : ~ours[i].jna,
         NEW o \in Options, o.jna, "firebird" \in o.dirs
  PROVE  Told(ours \o <<o>>)
<1> DEFINE options == ours \o <<o>>
           n == Len(ours) + 1
<1>1. options \in Seq(Options) /\ Len(options) = n /\ Len(ours) \in Nat
  OBVIOUS
<1>2. \A i \in 1..n : options[i] = IF i = n THEN o ELSE ours[i]
  OBVIOUS
<1>3. DOMAIN options = 1..n /\ DOMAIN ours = 1..Len(ours)
  BY <1>1
<1> HIDE DEF options
<1>4. \A i \in DOMAIN options : options[i].jna <=> i = n
  BY <1>1, <1>2, <1>3
<1>5. n \in DOMAIN options /\ options[n] = o
  BY <1>1, <1>2, <1>3
<1> HIDE DEF n
<1>6. Told(options)
  BY <1>4, <1>5 DEF Told
<1> QED
  BY <1>6 DEF options

\* fbjava.cpp:416-424: the first option of the file has Firebird's directory.
LEMMA ToldByFirst ==
  ASSUME NEW options, NEW first \in DOMAIN options,
         options[first].jna, "firebird" \in options[first].dirs
  PROVE  Told(options)
BY DEF Told

LEMMA OptionsTold ==
  ASSUME NEW lines \in Seq(LineKinds)
  PROVE  Told(OptionsOf(lines))
<1> DEFINE first == FirstJnaPath(lines)
           Added(i) == IF i = first THEN "firebird" ELSE ""
           Dirs(i) == IF lines[i] = "jnaPath" THEN {"file", Added(i)} ELSE {}
           ours == [i \in DOMAIN lines |-> [jna |-> lines[i] = "jnaPath", dirs |-> Dirs(i)]]
           o == [jna |-> TRUE, dirs |-> {"firebird"}]
<1>1. OptionsOf(lines) = ours \o IF first = 0 THEN <<o>> ELSE <<>>
  BY DEF OptionsOf
<1>2. ours \in Seq(Options)
  <2>1. Len(lines) \in Nat /\ DOMAIN lines = 1..Len(lines)
    OBVIOUS
  <2>2. ASSUME NEW i \in DOMAIN lines
        PROVE  [jna |-> lines[i] = "jnaPath", dirs |-> Dirs(i)] \in Options
    <3>1. Dirs(i) \subseteq {"file", "firebird", ""} /\ (lines[i] = "jnaPath") \in BOOLEAN
      OBVIOUS
    <3> QED
      BY <3>1 DEF Options
  <2>3. ours \in [1..Len(lines) -> Options]
    BY <2>1, <2>2
  <2> HIDE DEF ours
  <2> QED
    BY <2>1, <2>3, SeqDef
<1>3. o \in Options /\ o.jna /\ "firebird" \in o.dirs
  BY DEF Options
<1>4. DOMAIN ours = DOMAIN lines
  OBVIOUS
<1>5. \A i \in DOMAIN lines : ours[i].jna <=> lines[i] = "jnaPath"
  OBVIOUS
<1>6. \A i \in DOMAIN lines : lines[i] = "jnaPath" => Added(i) \in ours[i].dirs
  OBVIOUS
<1>7. IF \A i \in DOMAIN lines : lines[i] # "jnaPath"
      THEN first = 0
      ELSE first \in DOMAIN lines /\ lines[first] = "jnaPath"
  BY FirstLine
<1>8. 0 \notin DOMAIN lines
  OBVIOUS
<1> HIDE DEF first, ours, o
<1>9. CASE first = 0
  BY <1>1, <1>2, <1>3, <1>4, <1>5, <1>7, <1>8, <1>9, ToldByAdded
<1>10. CASE first # 0
  <2>1. OptionsOf(lines) = ours
    BY <1>1, <1>2, <1>10, ConcatEmptySeq
  <2>2. Added(first) = "firebird"
    OBVIOUS
  <2> HIDE DEF Added
  <2>3. first \in DOMAIN ours /\ ours[first].jna /\ "firebird" \in ours[first].dirs
    BY <1>4, <1>5, <1>6, <1>7, <1>10, <2>2
  <2> QED
    BY <2>1, <2>3, ToldByFirst
<1> QED
  BY <1>9, <1>10

\* Once they have been read, the options are those of a file, and there is no
\* JVM before.
ArgsInv ==
  boot \in {"configured", "found"} \/ jvm # None => \E file \in JvmArgsFiles : jvmArgs = OptionsOf(file)

LEMMA ArgsCorrect == Spec => []ArgsInv
<1>1. Init => ArgsInv
  BY DEF Init, ArgsInv
<1>2. ArgsInv /\ [Next]_vars => ArgsInv'
  <2> SUFFICES ASSUME ArgsInv, [Next]_vars PROVE ArgsInv'
    OBVIOUS
  <2> USE DEF ArgsInv, Throw
  <2>1. CASE ReadConfig
    BY <2>1 DEF ReadConfig
  <2>2. CASE FindJvmLibrary
    BY <2>2 DEF FindJvmLibrary, jvmVars
  <2>3. CASE ObtainJvm
    BY <2>3 DEF ObtainJvm
  <2>4. CASE AttachThread \/ JniCallFails \/ ListJars \/ CheckJavaException
    BY <2>4 DEF AttachThread, JniCallFails, ListJars, CheckJavaException, jvmVars
  <2>5. CASE JniCall
    <3>1. boot' \in {"listing", "initializing", "calling"}
      BY Zenon, <2>5 DEF JniCall
    <3> QED
      BY <2>5, <3>1 DEF JniCall, jvmVars
  <2>6. CASE Prepare \/ Register \/ InitializeFails \/ EntryPointReturns
    BY <2>6 DEF Prepare, Register, InitializeFails, EntryPointReturns, jvmVars
  <2>7. ASSUME UNCHANGED bootVars PROVE ArgsInv'
    BY <2>7 DEF bootVars, jvmVars
  <2>8. CASE \E t \in Threads : CreatePlugin(t) \/ FactoryStep(t)
    <3>1. UNCHANGED bootVars
      BY <2>8 DEF CreatePlugin, FactoryStep, GetConfig, FindEntry, ReadEntry, ReadEntryFails,
         ReleaseConfig, EvaluateMonitor, EnterMonitor, AlreadyInitialized, SetPolicy, SetSecurityManager, SecurityRefused,
         SetFlag, ExitMonitor, CreateEngine
    <3> QED
      BY <2>7, <3>1
  <2>9. CASE UNCHANGED vars
    BY <2>7, <2>9 DEF vars
  <2> QED
    BY <2>1, <2>2, <2>3, <2>4, <2>5, <2>6, <2>8, <2>9 DEF Next, BootStep
<1> QED
  BY <1>1, <1>2, PTL DEF Spec

\* fbjava.cpp:409-427: whatever the file says, the JVM that is created is told
\* where to find the libraries for JNA, and Firebird's directory is among them
\* unless the file tells it more than once.
THEOREM FirebirdInLibraryPath == Spec => []FirebirdIsInLibraryPath
<1>1. ArgsInv => FirebirdIsInLibraryPath
  <2> SUFFICES ASSUME ArgsInv, jvm = "created" PROVE Told(jvmArgs)
    BY DEF FirebirdIsInLibraryPath, Told
  <2>1. PICK file \in JvmArgsFiles : jvmArgs = OptionsOf(file)
    BY ConstantsAssumption DEF ArgsInv
  <2> QED
    BY <2>1, OptionsTold, ConstantsAssumption
<1> QED
  BY <1>1, ArgsCorrect, PTL
=============================================================================

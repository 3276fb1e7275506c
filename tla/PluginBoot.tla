------------------------------ MODULE PluginBoot ------------------------------
(***************************************************************************)
(* How the plugin comes to life: the entry point of the native library     *)
(* finds or creates a JVM and calls Main.initialize in it (fbjava.cpp),    *)
(* which registers the factory of the plugin (Main.java); then the threads *)
(* of the server ask the factory for engines, the first of which installs  *)
(* the security manager of the process (PluginFactory.java).               *)
(*                                                                         *)
(* The server runs the entry point once, in one thread.  The factory can   *)
(* be called from the moment it is registered.                             *)
(***************************************************************************)
EXTENDS Integers, Sequences, SequencesExt

CONSTANTS
  Threads,      \* threads of the server that call createPlugin
  JvmArgsFiles, \* the contents the JvmArgsFile may have, sequences of LineKinds
  MaxJars,      \* bound on the JARs in the directory jar/
  MaxPolicies,  \* bound on the policies made; setSecurityManager fails below it
  None          \* no thread, no JVM

\* Trimmed lines; those that are empty or comments are skipped when read.
LineKinds == {"jnaPath", "other"}

ASSUME ConstantsAssumption ==
  /\ JvmArgsFiles \subseteq Seq(LineKinds)
  /\ MaxJars \in Nat
  /\ MaxPolicies \in Nat
  /\ None \notin Threads \cup {"foreign", "created"}

VARIABLES
  boot,         \* where the thread of the entry point is
  jvmArgs,      \* the options of the JVM
  jvm,          \* None, "foreign" (found in the process) or "created"
  site,         \* the next of the JNI calls of init(), an index of Makes
  jarsLeft,     \* JARs whose URL is not in the array yet
  localRefs,    \* JNI local references of the thread
  pending,      \* is a Java exception pending in the thread?
  cerr,         \* what was printed: "nothing", "message" or "unknown"
  prepared,     \* how many of its Preparations Main.initialize has made
  registered,   \* does the server know the factory?
  pc,           \* where the call of createPlugin of each thread is
  held,         \* the configuration interfaces it must release
  monitor,      \* the Boolean object whose monitor it wants or has
  owner,        \* the owners of the monitors of Boolean.FALSE and Boolean.TRUE
  securityInitialized,
  policies,     \* number of DbPolicy objects made; the last one is in force
  managed,      \* is the security manager installed?
  engines       \* has an engine been created?

jvmVars     == <<jvmArgs, jvm>>
jniVars     == <<site, jarsLeft, localRefs, pending>>
mainVars    == <<prepared, registered>>
bootVars    == <<boot, jvmVars, jniVars, cerr, mainVars>>
securityVars == <<owner, securityInitialized, policies, managed>>
factoryVars == <<pc, held, monitor, securityVars, engines>>
vars == <<bootVars, factoryVars>>

\* The options of the JVM: one that sets jna.library.path has the directories
\* it names, "" being an empty one.
Options == [jna : BOOLEAN, dirs : SUBSET {"file", "firebird", ""}]

\* Mutant: the references of the loop are plain ones.
MakesUnscoped == <<1, 0, 1, 0, 0, 1,   1, 1, 0,   1, 1, 1, 0, 1, 1, 1, 1, 0, 1>>

\* The local references each JNI call leaves behind, in the order of init():
\* 1 URL, 2 its <init>, 3 URLClassLoader, 4 its <init>, 5 loadClass, 6 urlArray;
\* for each JAR: 7 str, 8 url, 9 SetObjectArrayElement and the end of the scope
\* of both; 10 mainClassName, 11 classLoader, 12 mainCls, 13 initialize,
\* 14 nativeLibrary, 15 fbclientLibrary, 16 jnaPointerName, 17 jnaPointerCls,
\* 18 its <init>, 19 masterPointer.
Makes == <<1, 0, 1, 0, 0, 1,   1, 1, -2,   1, 1, 1, 0, 1, 1, 1, 1, 0, 1>>

\* What Main.initialize sets up before it registers the factory.
Preparations == <<"library", "master", "util", "driver">>

Init ==
  /\ boot = "start"
  /\ jvmArgs = <<>>
  /\ jvm = None
  /\ site = 1
  /\ jarsLeft = 0
  /\ localRefs = 0
  /\ pending = FALSE
  /\ cerr = "nothing"
  /\ prepared = 0
  /\ registered = FALSE
  /\ pc = [t \in Threads |-> "idle"]
  /\ held = [t \in Threads |-> {}]
  /\ monitor = [t \in Threads |-> FALSE]
  /\ owner = [b \in BOOLEAN |-> None]
  /\ securityInitialized = FALSE
  /\ policies = 0
  /\ managed = FALSE
  /\ engines = FALSE

-----------------------------------------------------------------------------
(* The entry point of the native library.                                  *)

\* init() throws: the references in scope are released and the entry point
\* prints the message.
Throw(message, refsKept) ==
  /\ boot' = "returned"
  /\ cerr' = message
  /\ localRefs' = refsKept

FirstJnaPath(lines) == SelectInSeq(lines, LAMBDA l : l = "jnaPath")

\* Mutant: a file that sets jna.library.path keeps its own directories only.
OptionsOfFile(lines) ==
  LET Dirs(i) == IF lines[i] = "jnaPath" THEN {"file"} ELSE {} IN
  [i \in DOMAIN lines |-> [jna |-> lines[i] = "jnaPath", dirs |-> Dirs(i)]]
    \o IF FirstJnaPath(lines) = 0
       THEN <<[jna |-> TRUE, dirs |-> {"firebird"}]>> ELSE <<>>

\* The lines of the file, the first jna.library.path extended with Firebird's
\* directory and every later one with the string that has just been cleared.
OptionsOf(lines) ==
  LET Added(i) == IF i = FirstJnaPath(lines) THEN "firebird" ELSE ""
      Dirs(i) == IF lines[i] = "jnaPath" THEN {"file", Added(i)} ELSE {}
  IN
  [i \in DOMAIN lines |-> [jna |-> lines[i] = "jnaPath", dirs |-> Dirs(i)]]
    \o IF FirstJnaPath(lines) = 0
       THEN <<[jna |-> TRUE, dirs |-> {"firebird"}]>> ELSE <<>>

\* The configuration of the plugin and the lines of its JvmArgsFile.
ReadConfig ==
  /\ boot = "start"
  /\ \/ \E file \in JvmArgsFiles :
          /\ jvmArgs' = OptionsOf(file)
          /\ boot' = "configured"
          /\ UNCHANGED <<cerr, localRefs>>
     \/ Throw("message", 0) /\ UNCHANGED jvmArgs
  /\ UNCHANGED <<jvm, site, jarsLeft, pending, mainVars, factoryVars>>

\* The paths of this library and of fbclient, and the library of the JVM under
\* JavaHome or, without it, JAVA_HOME: each may be missing.
FindJvmLibrary ==
  /\ boot = "configured"
  /\ \/ boot' = "found" /\ UNCHANGED <<cerr, localRefs>>
     \/ Throw("message", 0)
  /\ UNCHANGED <<jvmVars, site, jarsLeft, pending, mainVars, factoryVars>>

\* The library is loaded, and there is a JVM in the process or one is made.  If
\* the library cannot be loaded the symbols of the process itself are used.
ObtainJvm ==
  /\ boot = "found"
  /\ \/ /\ jvm' \in {"foreign", "created"}
        /\ boot' = "running"
        /\ UNCHANGED <<cerr, localRefs>>
     \/ Throw("message", 0) /\ UNCHANGED jvm
  /\ UNCHANGED <<jvmArgs, site, jarsLeft, pending, mainVars, factoryVars>>

\* The thread is attached to the JVM, if it is not.
AttachThread ==
  /\ boot = "running"
  /\ \/ boot' = "calling" /\ UNCHANGED <<cerr, localRefs>>
     \/ Throw("message", 0)
  /\ UNCHANGED <<jvmVars, site, jarsLeft, pending, mainVars, factoryVars>>

\* The next JNI call returns.
JniCall ==
  /\ boot = "calling"
  /\ localRefs' = localRefs + Makes[site]
  /\ site' = IF site = 9 /\ jarsLeft > 1 THEN 7 ELSE site + 1
  /\ jarsLeft' = IF site = 9 THEN jarsLeft - 1 ELSE jarsLeft
  /\ boot' = CASE site = 5  -> "listing"
               [] site = 19 -> "initializing"
               [] OTHER     -> "calling"
  /\ UNCHANGED <<jvmVars, pending, cerr, mainVars, factoryVars>>

\* The next JNI call fails and leaves a Java exception pending.
JniCallFails ==
  /\ boot = "calling"
  /\ pending' = TRUE
  /\ boot' = "checking"
  /\ UNCHANGED <<jvmVars, site, jarsLeft, localRefs, cerr, mainVars, factoryVars>>

\* Every *.jar of the directory is for the class path: there must be some.
ListJars ==
  /\ boot = "listing"
  /\ \/ \E n \in 1..MaxJars :
          /\ jarsLeft' = n
          /\ boot' = "calling"
          /\ UNCHANGED <<cerr, localRefs>>
     \/ Throw("message", 0) /\ UNCHANGED jarsLeft
  /\ UNCHANGED <<jvmVars, site, pending, mainVars, factoryVars>>

\* checkJavaException: the exception is cleared and its toString() called, which
\* may throw another one.  The reference to Throwable is never released.
CheckJavaException ==
  /\ boot = "checking"
  /\ \/ Throw("message", 1) /\ pending' = FALSE
     \/ Throw("unknown", 1) /\ pending' = TRUE
  /\ UNCHANGED <<jvmVars, site, jarsLeft, mainVars, factoryVars>>

-----------------------------------------------------------------------------
(* Main.initialize.                                                        *)

Prepare ==
  /\ boot = "initializing"
  /\ prepared < Len(Preparations)
  /\ prepared' = prepared + 1
  /\ UNCHANGED <<boot, jvmVars, jniVars, cerr, registered, factoryVars>>

\* Mutant: the factory is registered before Jaybird is loaded.
RegisterBeforeDriver ==
  /\ boot = "initializing"
  /\ prepared = Len(Preparations) - 1
  /\ registered' = TRUE
  /\ boot' = "registered"
  /\ UNCHANGED <<jvmVars, jniVars, cerr, prepared, factoryVars>>

Register ==
  /\ boot = "initializing"
  /\ prepared = Len(Preparations)
  /\ registered' = TRUE
  /\ boot' = "registered"
  /\ UNCHANGED <<jvmVars, jniVars, cerr, prepared, factoryVars>>

\* Mutant: init() does not look for the exception of the last call.
InitializeFailsUnseen ==
  /\ boot = "initializing"
  /\ boot' = "registered"
  /\ pending' = TRUE
  /\ UNCHANGED <<jvmVars, site, jarsLeft, localRefs, cerr, mainVars, factoryVars>>

\* A preparation or the registration throws a Java exception or an error.
InitializeFails ==
  /\ boot = "initializing"
  /\ pending' = TRUE
  /\ boot' = "checking"
  /\ UNCHANGED <<jvmVars, site, jarsLeft, localRefs, cerr, mainVars, factoryVars>>

\* init() returns, and the destructors release its references.
EntryPointReturns ==
  /\ boot = "registered"
  /\ boot' = "returned"
  /\ localRefs' = 0
  /\ UNCHANGED <<jvmVars, site, jarsLeft, pending, cerr, mainVars, factoryVars>>

BootStep ==
  \/ ReadConfig \/ FindJvmLibrary \/ ObtainJvm \/ AttachThread
  \/ JniCall \/ JniCallFails \/ ListJars \/ CheckJavaException
  \/ Prepare \/ Register \/ InitializeFails \/ EntryPointReturns

-----------------------------------------------------------------------------
(* PluginFactory.createPlugin.                                             *)

Goto(t, to) == pc' = [pc EXCEPT ![t] = to]

CreatePlugin(t) ==
  /\ registered
  /\ pc[t] = "idle"
  /\ Goto(t, "called")
  /\ UNCHANGED <<bootVars, held, monitor, securityVars, engines>>

\* getDefaultConfig, which may throw.
GetConfig(t) ==
  /\ pc[t] = "called"
  /\ \/ Goto(t, "finding") /\ held' = [held EXCEPT ![t] = {"config"}]
     \/ Goto(t, "idle") /\ UNCHANGED held
  /\ UNCHANGED <<bootVars, monitor, securityVars, engines>>

\* config.find: the entry, null (not in held) when there is no SecurityDatabase,
\* or an exception.
FindEntry(t) ==
  /\ pc[t] = "finding"
  /\ \/ Goto(t, "reading") /\ held' = [held EXCEPT ![t] = @ \cup {"entry"}]
     \/ Goto(t, "reading") /\ UNCHANGED held
     \/ Goto(t, "unwinding") /\ UNCHANGED held
  /\ UNCHANGED <<bootVars, monitor, securityVars, engines>>

\* getValue, and the inner finally block, which releases the entry.
ReadEntry(t) ==
  /\ pc[t] = "reading"
  /\ "entry" \in held[t]
  /\ held' = [held EXCEPT ![t] = @ \ {"entry"}]
  /\ Goto(t, "closing")
  /\ UNCHANGED <<bootVars, monitor, securityVars, engines>>

\* Mutant: one finally block for both, which the exception of the entry ends.
ReadEntryFailsOut(t) ==
  /\ pc[t] = "reading"
  /\ "entry" \notin held[t]
  /\ Goto(t, "idle")
  /\ UNCHANGED <<bootVars, held, monitor, securityVars, engines>>

\* getValue of null throws, and so does release in the inner finally block.
ReadEntryFails(t) ==
  /\ pc[t] = "reading"
  /\ "entry" \notin held[t]
  /\ Goto(t, "unwinding")
  /\ UNCHANGED <<bootVars, held, monitor, securityVars, engines>>

\* The outer finally block, after which an exception goes on to the server.
ReleaseConfig(t) ==
  /\ pc[t] \in {"closing", "unwinding"}
  /\ held' = [held EXCEPT ![t] = @ \ {"config"}]
  /\ Goto(t, IF pc[t] = "closing" THEN "configured" ELSE "idle")
  /\ UNCHANGED <<bootVars, monitor, securityVars, engines>>

\* synchronized (securityInitialized) evaluates its expression, an object that
\* the assignment in the block replaces ...
EvaluateMonitor(t) ==
  /\ pc[t] = "configured"
  /\ monitor' = [monitor EXCEPT ![t] = securityInitialized]
  /\ Goto(t, "waiting")
  /\ UNCHANGED <<bootVars, held, securityVars, engines>>

\* ... and waits for the monitor of that object.
EnterMonitor(t) ==
  /\ pc[t] = "waiting"
  /\ owner[monitor[t]] = None
  /\ owner' = [owner EXCEPT ![monitor[t]] = t]
  /\ Goto(t, "entered")
  /\ UNCHANGED <<bootVars, held, monitor, securityInitialized, policies, managed, engines>>

\* The flag is read again inside.
AlreadyInitialized(t) ==
  /\ pc[t] = "entered"
  /\ securityInitialized
  /\ Goto(t, "exiting")
  /\ UNCHANGED <<bootVars, held, monitor, securityVars, engines>>

\* Mutant: the block trusts the flag the thread has seen outside.
SetPolicyUnchecked(t) ==
  /\ pc[t] = "entered"
  /\ ~monitor[t]
  /\ policies < MaxPolicies
  /\ policies' = policies + 1
  /\ Goto(t, "installing")
  /\ UNCHANGED <<bootVars, held, monitor, owner, securityInitialized, managed, engines>>

\* Mutant: the flag is set before the manager is installed.
SetPolicyAndFlag(t) ==
  /\ pc[t] = "entered"
  /\ ~securityInitialized
  /\ policies' = policies + 1
  /\ securityInitialized' = TRUE
  /\ Goto(t, "installing")
  /\ UNCHANGED <<bootVars, held, monitor, owner, managed, engines>>

SetPolicy(t) ==
  /\ pc[t] = "entered"
  /\ ~securityInitialized
  /\ policies' = policies + 1
  /\ Goto(t, "installing")
  /\ UNCHANGED <<bootVars, held, monitor, owner, securityInitialized, managed, engines>>

SetSecurityManager(t) ==
  /\ pc[t] = "installing"
  /\ managed' = TRUE
  /\ Goto(t, "installed")
  /\ UNCHANGED <<bootVars, held, monitor, owner, securityInitialized, policies, engines>>

\* Mutant: an exception leaves the monitor locked.
SecurityRefusedLocked(t) ==
  /\ pc[t] = "installing"
  /\ policies < MaxPolicies
  /\ Goto(t, "idle")
  /\ UNCHANGED <<bootVars, held, monitor, securityVars, engines>>

\* Policy.setPolicy or System.setSecurityManager throws: the process has a
\* security manager already, or the JVM supports none.
SecurityRefused(t) ==
  /\ pc[t] = "installing" \/ (pc[t] = "entered" /\ ~securityInitialized)
  /\ policies < MaxPolicies
  /\ owner' = [owner EXCEPT ![monitor[t]] = None]
  /\ Goto(t, "idle")
  /\ UNCHANGED <<bootVars, held, monitor, securityInitialized, policies, managed, engines>>

SetFlag(t) ==
  /\ pc[t] = "installed"
  /\ securityInitialized' = TRUE
  /\ Goto(t, "exiting")
  /\ UNCHANGED <<bootVars, held, monitor, owner, policies, managed, engines>>

\* Mutant: the thread leaves the monitor of the object the flag is now.
ExitBooleanMonitor(t) ==
  /\ pc[t] = "exiting"
  /\ owner' = [owner EXCEPT ![securityInitialized] = None]
  /\ Goto(t, "secured")
  /\ UNCHANGED <<bootVars, held, monitor, securityInitialized, policies, managed, engines>>

ExitMonitor(t) ==
  /\ pc[t] = "exiting"
  /\ owner' = [owner EXCEPT ![monitor[t]] = None]
  /\ Goto(t, "secured")
  /\ UNCHANGED <<bootVars, held, monitor, securityInitialized, policies, managed, engines>>

\* ExternalEngine.create.
CreateEngine(t) ==
  /\ pc[t] = "secured"
  /\ engines' = TRUE
  /\ Goto(t, "idle")
  /\ UNCHANGED <<bootVars, held, monitor, securityVars>>

FactoryStep(t) ==
  \/ GetConfig(t) \/ FindEntry(t) \/ ReadEntry(t) \/ ReadEntryFails(t) \/ ReleaseConfig(t)
  \/ EvaluateMonitor(t) \/ EnterMonitor(t) \/ AlreadyInitialized(t) \/ SetPolicy(t)
  \/ SetSecurityManager(t) \/ SecurityRefused(t) \/ SetFlag(t)
  \/ ExitMonitor(t) \/ CreateEngine(t)

Next ==
  \/ BootStep
  \/ \E t \in Threads : CreatePlugin(t) \/ FactoryStep(t)

Spec == Init /\ [][Next]_vars

\* The entry point and the calls of createPlugin run on.  Nothing is assumed of
\* the monitors, which have no order, nor of new calls.
Fairness ==
  /\ WF_vars(BootStep)
  /\ \A t \in Threads : WF_vars(FactoryStep(t))

FairSpec == Spec /\ Fairness
-----------------------------------------------------------------------------
(* Properties.                                                             *)

Booting == {"start", "configured", "found", "running", "calling", "listing",
            "checking", "initializing", "registered", "returned"}
Calling == {"idle", "called", "finding", "reading", "closing", "unwinding",
            "configured", "waiting", "entered", "installing", "installed", "exiting", "secured"}
InBlock(t) == pc[t] \in {"entered", "installing", "installed", "exiting"}

\* Types, and a monitor belongs to a thread exactly while it is in the block.
TypeOK ==
  /\ boot \in Booting
  /\ jvmArgs \in Seq(Options)
  /\ jvm \in {None, "foreign", "created"}
  /\ site \in 1..(Len(Makes) + 1)
  /\ jarsLeft \in 0..MaxJars
  /\ localRefs \in Int
  /\ pending \in BOOLEAN
  /\ cerr \in {"nothing", "message", "unknown"}
  /\ prepared \in 0..Len(Preparations)
  /\ registered \in BOOLEAN
  /\ pc \in [Threads -> Calling]
  /\ held \in [Threads -> SUBSET {"config", "entry"}]
  /\ monitor \in [Threads -> BOOLEAN]
  /\ owner \in [BOOLEAN -> Threads \cup {None}]
  /\ securityInitialized \in BOOLEAN
  /\ policies \in Nat
  /\ managed \in BOOLEAN
  /\ engines \in BOOLEAN
  /\ \A t \in Threads : InBlock(t) => owner[monitor[t]] = t

\* fbjava.cpp:643-656: the entry point returns without a word exactly when the
\* factory is registered, so no failure of a step goes unseen; and its thread
\* gets back without a pending exception, unless the toString() of the first
\* one threw a second (fbjava.cpp:278-320).
FailuresAreReported ==
  boot = "returned" =>
    /\ cerr = "nothing" <=> registered
    /\ pending => cerr = "unknown"

\* However many JARs there are, the thread never holds more local references
\* than the 16 the JNI grants without EnsureLocalCapacity (the three of
\* checkJavaException included), and the destructors of fbjava.cpp:138-147 leave
\* none but the static reference of checkJavaException.
LocalRefsBounded ==
  /\ localRefs \in 0..13
  /\ boot = "returned" => localRefs <= 1

\* fbjava.cpp:409-427: the JVM the plugin creates is told jna.library.path, of
\* which it uses the last, and finds Firebird's directory there unless the file
\* sets it more than once.
FirebirdIsInLibraryPath ==
  LET paths == {i \in DOMAIN jvmArgs : jvmArgs[i].jna} IN
  jvm = "created" =>
    /\ paths # {}
    /\ \A i \in paths : paths = {i} => "firebird" \in jvmArgs[i].dirs

\* Main.java:36-54: a thread that asks for an engine, while the entry point may
\* still be running, finds the statics set and Jaybird loaded.
FactoryIsReady ==
  \A t \in Threads : pc[t] # "idle" => jvm # None /\ prepared = Len(Preparations)

\* PluginFactory.java:50-66: every way out of the nested blocks releases the
\* interfaces of the configuration, also when a release throws.
ConfigIsReleased ==
  \A t \in Threads : pc[t] \notin {"finding", "reading", "closing", "unwinding"} => held[t] = {}

\* PluginFactory.java:68-78: no engine exists before the security manager does,
\* whatever the threads saw of the flag that is also their lock.
EnginesAreGuarded == engines => managed

\* PluginFactory.java:73: the policy that counts the open databases is never
\* replaced once an engine may use it.
PolicyIsKept == [][policies' # policies => ~managed]_vars

\* The entry point returns; and when the server makes no new calls of
\* createPlugin the ones in progress return: nobody keeps the monitor of either
\* Boolean, even when the security manager is refused.
CallsReturn ==
  /\ <>(boot = "returned")
  /\ <>[][\A t \in Threads : ~CreatePlugin(t)]_vars => \A t \in Threads : <>[](pc[t] = "idle")
=============================================================================

--------------------------- MODULE EngineLifecycle ---------------------------
(***************************************************************************)
(* The life of the classes of a database: the external engine instances    *)
(* the server creates (ExternalEngine.java), the SharedData they obtain    *)
(* from the static map `sharedDataMap', the class loader that SharedData   *)
(* owns (DbClassLoader.java) and the security policy that counts the open  *)
(* databases (DbPolicy.java).                                              *)
(*                                                                         *)
(* Every attachment is driven by a thread of the server, so its calls are  *)
(* sequential and those of different attachments interleave.  An           *)
(* attachment gets an engine of its own (CreatePlugin, then Open) or       *)
(* shares the one of another attachment to the same database (Join), as    *)
(* FirebirdInterface.idl allows.                                           *)
(***************************************************************************)
EXTENDS Integers, FiniteSets

CONSTANTS
  Databases,    \* database names, as getDatabaseName() returns them
  Attachments,  \* user attachments of the server process
  Engines,      \* identities of ExternalEngine objects
  Loaders,      \* identities of SharedData objects (each has one DbClassLoader)
  None,         \* null
  Orderly,      \* does the server keep opens and closes of a database apart?
  Faults,       \* the calls to the driver that may fail
  CountBound    \* no attachment arrives while |count| is beyond this bound

FaultKinds ==
  {"connect", "secConnect", "secPrepare", "stmtClose", "secClose", "connClose"}

ASSUME ConstantsAssumption ==
  /\ IsFiniteSet(Attachments)
  /\ IsFiniteSet(Loaders)
  /\ None \notin Databases \cup Engines \cup Loaders \cup Attachments
  /\ Orderly \in BOOLEAN
  /\ Faults \subseteq FaultKinds
  /\ CountBound \in Nat

VARIABLES
  pc,                 \* where the thread of each attachment is
  db,                 \* the database of an attachment that is not idle
  engine,             \* the engine object it uses
  building,           \* the SharedData its thread is constructing
  refCounter,         \* ExternalEngine.refCounter
  pinned,             \* the engines JnaUtil keeps reachable
  sharedData,         \* ExternalEngine.sharedData
  sharedDataMap,      \* ExternalEngine.sharedDataMap
  attachmentCounter,  \* SharedData.attachmentCounter
  connection,         \* DbClassLoader.connection
  count,              \* DbPolicy.count
  securityDb,         \* DbPolicy.securityDb
  stmt,               \* DbPolicy.stmt
  policyLock          \* the thread inside synchronized (securityDatabase)

hostVars   == <<db, engine>>
engineVars == <<refCounter, pinned, sharedData>>
loaderVars == <<sharedDataMap, attachmentCounter, connection>>
policyVars == <<count, securityDb, stmt, policyLock>>
vars == <<pc, hostVars, building, engineVars, loaderVars, policyVars>>

Opening == {"created", "connecting", "registering", "secOpening", "opened"}
Closing == {"closing", "secClosing", "connClosing", "unmapping"}
Phases  == {"idle", "attached", "leaving"} \cup Opening \cup Closing

On(d) == {a \in Attachments : db[a] = d}

\* SharedData.attachmentCounter ought to count these.
Holders(l) ==
  {a \in Attachments : pc[a] = "attached" /\ sharedData[engine[a]] = l}

\* The SharedData of the engine that the thread of a calls.
DataOf(a) == sharedData[engine[a]]

\* ConcurrentHashMap.computeIfAbsent holds the bin of the key while the
\* mapping function runs, which blocks the other writers of that key.
Computing(d) ==
  \E a \in On(d) : pc[a] \in {"connecting", "registering", "secOpening"}

\* An identity that no live object has: never used, or closed and unreachable.
FreeLoader(l) ==
  /\ connection[l] # "open"
  /\ \A d \in Databases : sharedDataMap[d] # l
  /\ \A e \in Engines : sharedData[e] # l
  /\ \A a \in Attachments : building[a] # l

Goto(a, to) == pc' = [pc EXCEPT ![a] = to]

Init ==
  /\ pc = [a \in Attachments |-> "idle"]
  /\ db = [a \in Attachments |-> None]
  /\ engine = [a \in Attachments |-> None]
  /\ building = [a \in Attachments |-> None]
  /\ refCounter = [e \in Engines |-> 0]
  /\ pinned = {}
  /\ sharedData = [e \in Engines |-> None]
  /\ sharedDataMap = [d \in Databases |-> None]
  /\ attachmentCounter = [l \in Loaders |-> 0]
  /\ connection = [l \in Loaders |-> "none"]
  /\ count = 0
  /\ securityDb = "none"
  /\ stmt = "none"
  /\ policyLock = None

-----------------------------------------------------------------------------
(* What the server does.                                                   *)

MayArrive(d) ==
  /\ count \in -CountBound..CountBound
  /\ Orderly => \A b \in On(d) : pc[b] \notin Closing

\* PluginFactory.createPlugin returns a new engine with one reference.
CreatePlugin(a, d, e) ==
  /\ pc[a] = "idle"
  /\ MayArrive(d)
  /\ e \notin pinned
  /\ refCounter' = [refCounter EXCEPT ![e] = 1]
  /\ pinned' = pinned \cup {e}
  /\ db' = [db EXCEPT ![a] = d]
  /\ engine' = [engine EXCEPT ![a] = e]
  /\ Goto(a, "created")
  /\ UNCHANGED <<building, sharedData, loaderVars, policyVars>>

\* An attachment to the database of b uses the engine that b opened and has
\* not begun to leave.
Join(a, b) ==
  /\ pc[a] = "idle"
  /\ pc[b] \in {"opened", "attached"}
  /\ MayArrive(db[b])
  /\ refCounter' = [refCounter EXCEPT ![engine[b]] = @ + 1]
  /\ db' = [db EXCEPT ![a] = db[b]]
  /\ engine' = [engine EXCEPT ![a] = engine[b]]
  /\ Goto(a, "opened")
  /\ UNCHANGED <<building, pinned, sharedData, loaderVars, policyVars>>

\* Mutant: release() unpins whatever the counter is.
ReleaseUnpinsAlways(a) ==
  /\ pc[a] = "leaving"
  /\ refCounter' = [refCounter EXCEPT ![engine[a]] = @ - 1]
  /\ pinned' = pinned \ {engine[a]}
  /\ sharedData' = [sharedData EXCEPT ![engine[a]] = IF refCounter[engine[a]] = 1 THEN None ELSE @]
  /\ db' = [db EXCEPT ![a] = None]
  /\ engine' = [engine EXCEPT ![a] = None]
  /\ Goto(a, "idle")
  /\ UNCHANGED <<building, loaderVars, policyVars>>

\* The attachment is gone: release() drops its reference, the last unpins.
Release(a) ==
  LET e == engine[a] IN
  /\ pc[a] = "leaving"
  /\ refCounter' = [refCounter EXCEPT ![e] = @ - 1]
  /\ IF refCounter[e] = 1
     THEN /\ pinned' = pinned \ {e}
          /\ sharedData' = [sharedData EXCEPT ![e] = None]
     ELSE UNCHANGED <<pinned, sharedData>>
  /\ db' = [db EXCEPT ![a] = None]
  /\ engine' = [engine EXCEPT ![a] = None]
  /\ Goto(a, "idle")
  /\ UNCHANGED <<building, loaderVars, policyVars>>

-----------------------------------------------------------------------------
(* ExternalEngine.open: computeIfAbsent, the constructors of SharedData and *)
(* DbClassLoader, DbPolicy.databaseOpened.                                 *)

\* Mutant: open() looks the entry up and never computes it.
OpenLooksUpOnly(a) ==
  /\ pc[a] = "created"
  /\ sharedData' = [sharedData EXCEPT ![engine[a]] = sharedDataMap[db[a]]]
  /\ Goto(a, "opened")
  /\ UNCHANGED <<hostVars, building, refCounter, pinned, loaderVars, policyVars>>

OpenHit(a) ==
  LET d == db[a] IN
  /\ pc[a] = "created"
  /\ ~Computing(d)
  /\ sharedDataMap[d] # None
  /\ sharedData' = [sharedData EXCEPT ![engine[a]] = sharedDataMap[d]]
  /\ Goto(a, "opened")
  /\ UNCHANGED <<hostVars, building, refCounter, pinned, loaderVars, policyVars>>

\* Mutant: the absent entry is computed without the lock of its bin.
OpenMissUnlocked(a) ==
  /\ pc[a] = "created"
  /\ sharedDataMap[db[a]] = None
  /\ Goto(a, "connecting")
  /\ UNCHANGED <<hostVars, building, engineVars, loaderVars, policyVars>>

OpenMiss(a) ==
  /\ pc[a] = "created"
  /\ ~Computing(db[a])
  /\ sharedDataMap[db[a]] = None
  /\ Goto(a, "connecting")
  /\ UNCHANGED <<hostVars, building, engineVars, loaderVars, policyVars>>

\* Mutant: a new SharedData counts its creator as attached already.
ConnectCountsCreator(a, l) ==
  /\ pc[a] = "connecting"
  /\ FreeLoader(l)
  /\ building' = [building EXCEPT ![a] = l]
  /\ attachmentCounter' = [attachmentCounter EXCEPT ![l] = 1]
  /\ connection' = [connection EXCEPT ![l] = "open"]
  /\ Goto(a, "registering")
  /\ UNCHANGED <<hostVars, engineVars, sharedDataMap, policyVars>>

\* The embedded connection of the class loader.
Connect(a, l) ==
  /\ pc[a] = "connecting"
  /\ FreeLoader(l)
  /\ building' = [building EXCEPT ![a] = l]
  /\ attachmentCounter' = [attachmentCounter EXCEPT ![l] = 0]
  /\ connection' = [connection EXCEPT ![l] = "open"]
  /\ Goto(a, "registering")
  /\ UNCHANGED <<hostVars, engineVars, sharedDataMap, policyVars>>

ConnectFails(a) ==
  /\ "connect" \in Faults
  /\ pc[a] = "connecting"
  /\ Goto(a, "leaving")
  /\ UNCHANGED <<hostVars, building, engineVars, loaderVars, policyVars>>

\* The mapping function returns: the entry is published, the engine keeps it.
Publish(a) ==
  /\ sharedDataMap' = [sharedDataMap EXCEPT ![db[a]] = building[a]]
  /\ sharedData' = [sharedData EXCEPT ![engine[a]] = building[a]]
  /\ building' = [building EXCEPT ![a] = None]
  /\ Goto(a, "opened")

\* Mutant: databaseOpened does not enter the monitor.
DatabaseOpenedUnlocked(a) ==
  /\ pc[a] = "registering"
  /\ count # 0
  /\ count' = count + 1
  /\ Publish(a)
  /\ UNCHANGED <<hostVars, refCounter, pinned, attachmentCounter, connection,
                 securityDb, stmt, policyLock>>

\* databaseOpened when another database is open already.
DatabaseOpened(a) ==
  /\ pc[a] = "registering"
  /\ policyLock = None
  /\ count # 0
  /\ count' = count + 1
  /\ Publish(a)
  /\ UNCHANGED <<hostVars, refCounter, pinned, attachmentCounter, connection,
                 securityDb, stmt, policyLock>>

\* databaseOpened when it is the first one: the monitor is kept while the
\* connection to the security database is made.
FirstDatabaseOpened(a) ==
  /\ pc[a] = "registering"
  /\ policyLock = None
  /\ count = 0
  /\ count' = 1
  /\ policyLock' = a
  /\ Goto(a, "secOpening")
  /\ UNCHANGED <<hostVars, building, engineVars, loaderVars, securityDb, stmt>>

SecurityOpened(a) ==
  /\ pc[a] = "secOpening"
  /\ securityDb' = "open"
  /\ stmt' = "open"
  /\ policyLock' = None
  /\ Publish(a)
  /\ UNCHANGED <<hostVars, refCounter, pinned, attachmentCounter, connection, count>>

\* Mutant: an explicit lock that the exception does not unlock.
SecurityOpenFailsLocked(a) ==
  /\ "secConnect" \in Faults
  /\ pc[a] = "secOpening"
  /\ connection' = [connection EXCEPT ![building[a]] = "leaked"]
  /\ building' = [building EXCEPT ![a] = None]
  /\ Goto(a, "leaving")
  /\ UNCHANGED <<hostVars, engineVars, sharedDataMap, attachmentCounter, policyVars>>

\* An exception leaves count incremented, and the connection of the loader
\* under construction with nobody to close it.
SecurityOpenFails(a) ==
  /\ pc[a] = "secOpening"
  /\ \/ /\ "secConnect" \in Faults
        /\ UNCHANGED securityDb
     \/ /\ "secPrepare" \in Faults
        /\ securityDb' = "open"
  /\ policyLock' = None
  /\ connection' = [connection EXCEPT ![building[a]] = "leaked"]
  /\ building' = [building EXCEPT ![a] = None]
  /\ Goto(a, "leaving")
  /\ UNCHANGED <<hostVars, engineVars, sharedDataMap, attachmentCounter, count, stmt>>

-----------------------------------------------------------------------------
(* ExternalEngine.openAttachment and closeAttachment, DbClassLoader.close, *)
(* DbPolicy.databaseClosed.                                                *)

OpenAttachment(a) ==
  /\ pc[a] = "opened"
  /\ attachmentCounter' = [attachmentCounter EXCEPT ![DataOf(a)] = @ + 1]
  /\ Goto(a, "attached")
  /\ UNCHANGED <<hostVars, building, engineVars, sharedDataMap, connection, policyVars>>

\* Mutant: the counter is compared before it is decremented.
CloseAttachmentNeverLast(a) ==
  /\ pc[a] = "attached"
  /\ Orderly => \A b \in On(db[a]) : pc[b] \notin Opening
  /\ attachmentCounter' = [attachmentCounter EXCEPT ![DataOf(a)] = @ - 1]
  /\ Goto(a, IF attachmentCounter[DataOf(a)] = 0 THEN "closing" ELSE "leaving")
  /\ UNCHANGED <<hostVars, building, engineVars, sharedDataMap, connection, policyVars>>

\* Mutant: the last but one attachment closes the class loader.
CloseAttachmentTooEarly(a) ==
  /\ pc[a] = "attached"
  /\ Orderly => \A b \in On(db[a]) : pc[b] \notin Opening
  /\ attachmentCounter' = [attachmentCounter EXCEPT ![DataOf(a)] = @ - 1]
  /\ Goto(a, IF attachmentCounter[DataOf(a)] <= 2 THEN "closing" ELSE "leaving")
  /\ UNCHANGED <<hostVars, building, engineVars, sharedDataMap, connection, policyVars>>

CloseAttachment(a) ==
  /\ pc[a] = "attached"
  /\ Orderly => \A b \in On(db[a]) : pc[b] \notin Opening
  /\ attachmentCounter' = [attachmentCounter EXCEPT ![DataOf(a)] = @ - 1]
  /\ Goto(a, IF attachmentCounter[DataOf(a)] = 1 THEN "closing" ELSE "leaving")
  /\ UNCHANGED <<hostVars, building, engineVars, sharedDataMap, connection, policyVars>>

\* Mutant: the connection of the loader is closed with the last database only.
DatabaseClosedKeepsConnection(a) ==
  /\ pc[a] = "closing"
  /\ policyLock = None
  /\ count # 1
  /\ count' = count - 1
  /\ Goto(a, "unmapping")
  /\ UNCHANGED <<hostVars, building, engineVars, loaderVars, securityDb, stmt, policyLock>>

DatabaseClosed(a) ==
  /\ pc[a] = "closing"
  /\ policyLock = None
  /\ count # 1
  /\ count' = count - 1
  /\ Goto(a, "connClosing")
  /\ UNCHANGED <<hostVars, building, engineVars, loaderVars, securityDb, stmt, policyLock>>

LastDatabaseClosed(a) ==
  /\ pc[a] = "closing"
  /\ policyLock = None
  /\ count = 1
  /\ count' = 0
  /\ policyLock' = a
  /\ Goto(a, "secClosing")
  /\ UNCHANGED <<hostVars, building, engineVars, loaderVars, securityDb, stmt>>

\* Mutant: the reference is not set to null.
SecurityClosedKeepsReference(a) ==
  /\ pc[a] = "secClosing"
  /\ stmt' = "closed"
  /\ policyLock' = None
  /\ Goto(a, "connClosing")
  /\ UNCHANGED <<hostVars, building, engineVars, loaderVars, count, securityDb>>

SecurityClosed(a) ==
  /\ pc[a] = "secClosing"
  /\ securityDb = "open" /\ stmt # "none"
  /\ stmt' = "closed"
  /\ securityDb' = "none"
  /\ policyLock' = None
  /\ Goto(a, "connClosing")
  /\ UNCHANGED <<hostVars, building, engineVars, loaderVars, count>>

\* An exception of stmt.close() or securityDb.close(), or a null reference:
\* the reference to the security connection is kept, the connection of the
\* loader stays open and the entry stays in the map.
SecurityCloseFails(a) ==
  /\ pc[a] = "secClosing"
  /\ \/ /\ "stmtClose" \in Faults \/ stmt = "none"
        /\ UNCHANGED stmt
     \/ /\ "secClose" \in Faults \/ securityDb = "none"
        /\ stmt # "none"
        /\ stmt' = "closed"
  /\ policyLock' = None
  /\ Goto(a, "leaving")
  /\ UNCHANGED <<hostVars, building, engineVars, loaderVars, count, securityDb>>

CloseConnection(a) ==
  /\ pc[a] = "connClosing"
  /\ connection' = [connection EXCEPT ![DataOf(a)] = "closed"]
  /\ Goto(a, "unmapping")
  /\ UNCHANGED <<hostVars, building, engineVars, sharedDataMap, attachmentCounter, policyVars>>

\* The exception reaches closeAttachment, which skips sharedDataMap.remove.
CloseConnectionFails(a) ==
  /\ "connClose" \in Faults
  /\ pc[a] = "connClosing"
  /\ \E s \in {connection[DataOf(a)], "closed"} :
       connection' = [connection EXCEPT ![DataOf(a)] = s]
  /\ Goto(a, "leaving")
  /\ UNCHANGED <<hostVars, building, engineVars, sharedDataMap, attachmentCounter, policyVars>>

\* Mutant: the entry stays in the map.
KeepSharedData(a) ==
  /\ pc[a] = "unmapping"
  /\ Goto(a, "leaving")
  /\ UNCHANGED <<hostVars, building, engineVars, loaderVars, policyVars>>

\* sharedDataMap.remove(databaseName): by key, whatever the entry is.
RemoveSharedData(a) ==
  /\ pc[a] = "unmapping"
  /\ ~Computing(db[a])
  /\ sharedDataMap' = [sharedDataMap EXCEPT ![db[a]] = None]
  /\ Goto(a, "leaving")
  /\ UNCHANGED <<hostVars, building, engineVars, attachmentCounter, connection, policyVars>>

-----------------------------------------------------------------------------
Arrive(a) ==
  \/ \E d \in Databases, e \in Engines : CreatePlugin(a, d, e)
  \/ \E b \in Attachments : Join(a, b)

\* The calls the server has made run to their end.
Proceed(a) ==
  \/ OpenHit(a) \/ OpenMiss(a)
  \/ \E l \in Loaders : Connect(a, l)
  \/ ConnectFails(a)
  \/ DatabaseOpened(a) \/ FirstDatabaseOpened(a)
  \/ SecurityOpened(a) \/ SecurityOpenFails(a)
  \/ OpenAttachment(a)
  \/ DatabaseClosed(a) \/ LastDatabaseClosed(a)
  \/ SecurityClosed(a) \/ SecurityCloseFails(a)
  \/ CloseConnection(a) \/ CloseConnectionFails(a)
  \/ RemoveSharedData(a)
  \/ Release(a)

Next == \E a \in Attachments : Arrive(a) \/ CloseAttachment(a) \/ Proceed(a)

Spec == Init /\ [][Next]_vars

\* A thread inside a call runs on.  Nothing makes an attachment arrive or leave.
FairSpec == Spec /\ \A a \in Attachments : WF_vars(Proceed(a))

-----------------------------------------------------------------------------
(* Properties.                                                             *)

Types ==
  /\ pc \in [Attachments -> Phases]
  /\ db \in [Attachments -> Databases \cup {None}]
  /\ engine \in [Attachments -> Engines \cup {None}]
  /\ building \in [Attachments -> Loaders \cup {None}]
  /\ refCounter \in [Engines -> Int]
  /\ pinned \subseteq Engines
  /\ sharedData \in [Engines -> Loaders \cup {None}]
  /\ sharedDataMap \in [Databases -> Loaders \cup {None}]
  /\ attachmentCounter \in [Loaders -> Int]
  /\ connection \in [Loaders -> {"none", "open", "closed", "leaked"}]
  /\ count \in Int
  /\ securityDb \in {"none", "open"}
  /\ stmt \in {"none", "open", "closed"}
  /\ policyLock \in Attachments \cup {None}

\* The thread of an attachment knows what it works on.
ThreadsOK ==
  \A a \in Attachments :
    /\ pc[a] = "idle" <=> engine[a] = None
    /\ pc[a] = "idle" <=> db[a] = None
    /\ pc[a] \in {"registering", "secOpening"} <=> building[a] # None
    /\ pc[a] \in {"opened", "attached"} \cup Closing => DataOf(a) # None

\* Types, and no call of an attachment meets a null sharedData
\* (ExternalEngine.openAttachment and closeAttachment).
TypeOK == Types /\ ThreadsOK

\* Whatever the server and the driver do, attachmentCounter is the number of
\* attachments between openAttachment and closeAttachment.
CounterExact ==
  \A l \in Loaders : attachmentCounter[l] = Cardinality(Holders(l))

\* An engine object stays pinned exactly while an attachment has a reference
\* to it (ExternalEngine.addRef and release, JnaUtil.pin and unpin).
PinnedExactlyInUse ==
  pinned = {engine[a] : a \in {b \in Attachments : pc[b] # "idle"}}

\* README.md:126-135: while an attachment to a database may run Java code, the
\* class loader of that database is open and is the one every attachment gets.
SharedStatics ==
  \A a \in Attachments : pc[a] = "attached" =>
    /\ connection[DataOf(a)] = "open"
    /\ sharedDataMap[db[a]] = DataOf(a)

\* README.md:73-74: the permissions of the users are in the security database,
\* so the query over it is ready while an attachment may run Java code.
PolicyReady ==
  \A a \in Attachments : pc[a] = "attached" => securityDb = "open" /\ stmt = "open"

\* DbPolicy.java:74, assert securityDb == null.
SecurityDbAssertion ==
  \A a \in Attachments :
    pc[a] = "registering" /\ policyLock = None /\ count = 0 => securityDb = "none"

\* When every attachment has gone nothing is left behind: no class loader, no
\* map entry, no connection to the security database.
NothingLeftWhenIdle ==
  (\A a \in Attachments : pc[a] = "idle") =>
    /\ \A l \in Loaders : connection[l] \in {"none", "closed"}
    /\ \A d \in Databases : sharedDataMap[d] = None
    /\ count = 0 /\ securityDb = "none"

\* sharedDataMap.remove(databaseName) removes the entry of the SharedData that
\* has just been closed, never the one of a successor still in use.
RemovesOnlyClosedData ==
  [][\A d \in Databases :
       sharedDataMap'[d] # sharedDataMap[d] =>
         \/ sharedDataMap[d] = None
         \/ /\ sharedDataMap'[d] = None
            /\ connection[sharedDataMap[d]] = "closed"]_vars

\* No call waits for ever for a lock: neither the bin of the map nor the monitor
\* of the policy, even when the driver fails.  The JVM does not promise a fair
\* order among the threads that wait, so this says nothing of a thread that
\* ever new arrivals overtake.
CallsReturn ==
  <>[][\A a \in Attachments : ~Arrive(a)]_vars
    => \A a \in Attachments : []<>(pc[a] \in {"idle", "attached"})

\* Classes that are loaded get a user or are unloaded: an entry of the map does
\* not outlive the attachments to its database.
LoadedClassesAreUsedOrUnloaded ==
  \A d \in Databases :
    sharedDataMap[d] # None ~>
      (sharedDataMap[d] = None \/ \E a \in On(d) : pc[a] = "attached")

\* The promise of ClassSharing: its users are the attached attachments, its
\* classes the loader in the map, from its publication to its close.
Sharing == INSTANCE ClassSharing WITH
  users <- [d \in Databases |-> {a \in On(d) : pc[a] = "attached"}],
  classes <- [d \in Databases |->
                IF sharedDataMap[d] # None /\ connection[sharedDataMap[d]] = "open"
                THEN sharedDataMap[d] ELSE None]

\* The code keeps that promise: every step is a step of ClassSharing or none,
\* and classes nobody uses are unloaded.
ImplementsClassSharing == Sharing!Spec
=============================================================================

------------------------ MODULE EngineLifecycleProofs ------------------------
(***************************************************************************)
(* Theorems about EngineLifecycle, for every set of databases,             *)
(* attachments, engines and loaders.                                       *)
(***************************************************************************)
EXTENDS EngineLifecycle, FiniteSetTheorems, TLAPS

-----------------------------------------------------------------------------
(* One element enters or leaves a finite set of attachments.               *)

LEMMA CardinalityAfterAdd ==
  ASSUME NEW S, NEW T, IsFiniteSet(S), NEW x, x \notin S, T = S \cup {x}
  PROVE  Cardinality(T) = Cardinality(S) + 1
BY FS_AddElement

LEMMA CardinalityAfterRemove ==
  ASSUME NEW S, NEW T, IsFiniteSet(S), NEW x, x \in S, T = S \ {x}
  PROVE  Cardinality(T) = Cardinality(S) - 1
BY FS_RemoveElement

\* A set counted as one has no member but the one that is known.
LEMMA OnlyMember ==
  ASSUME NEW S, IsFiniteSet(S), Cardinality(S) = 1, NEW x \in S
  PROVE  S = {x}
<1>1. PICK y : S = {y}
  BY FS_Singleton
<1>2. QED
  BY <1>1

-----------------------------------------------------------------------------
(* Types, what each thread knows, and the references to the engines.       *)

Users(eng, e) == {a \in Attachments : eng[a] = e}

\* refCounter is the number of attachments that use the engine, which is
\* pinned while there is one.
EnginesOK ==
  \A e \in Engines :
    /\ refCounter[e] = Cardinality(Users(engine, e))
    /\ e \in pinned <=> Users(engine, e) # {}

Basic == Types /\ ThreadsOK /\ EnginesOK

\* The steps inside a call, which touch no reference to an engine.
Internal(a) ==
  \/ OpenHit(a) \/ OpenMiss(a)
  \/ \E l \in Loaders : Connect(a, l)
  \/ ConnectFails(a)
  \/ DatabaseOpened(a) \/ FirstDatabaseOpened(a)
  \/ SecurityOpened(a) \/ SecurityOpenFails(a)
  \/ OpenAttachment(a) \/ CloseAttachment(a)
  \/ DatabaseClosed(a) \/ LastDatabaseClosed(a)
  \/ SecurityClosed(a) \/ SecurityCloseFails(a)
  \/ CloseConnection(a) \/ CloseConnectionFails(a)
  \/ RemoveSharedData(a)

LEMMA InternalKeepsHost ==
  ASSUME NEW a \in Attachments, Internal(a)
  PROVE  UNCHANGED <<db, engine, refCounter, pinned>>
<1> USE DEF hostVars, engineVars, Publish
<1>1. CASE \/ OpenHit(a) \/ OpenMiss(a) \/ ConnectFails(a)
           \/ \E l \in Loaders : Connect(a, l)
  BY <1>1 DEF OpenHit, OpenMiss, Connect, ConnectFails
<1>2. CASE \/ DatabaseOpened(a) \/ FirstDatabaseOpened(a)
           \/ SecurityOpened(a) \/ SecurityOpenFails(a)
  BY <1>2 DEF DatabaseOpened, FirstDatabaseOpened, SecurityOpened, SecurityOpenFails
<1>3. CASE \/ OpenAttachment(a) \/ CloseAttachment(a)
           \/ DatabaseClosed(a) \/ LastDatabaseClosed(a)
  BY <1>3 DEF OpenAttachment, CloseAttachment, DatabaseClosed, LastDatabaseClosed
<1>4. CASE \/ SecurityClosed(a) \/ SecurityCloseFails(a)
           \/ CloseConnection(a) \/ CloseConnectionFails(a)
           \/ RemoveSharedData(a)
  BY <1>4 DEF SecurityClosed, SecurityCloseFails, CloseConnection,
              CloseConnectionFails, RemoveSharedData
<1>5. QED
  BY <1>1, <1>2, <1>3, <1>4 DEF Internal

\* The actions that change the references, and the others.
LEMMA StepCases ==
  [Next]_vars =>
    \/ \E a \in Attachments, d \in Databases, e \in Engines : CreatePlugin(a, d, e)
    \/ \E a, b \in Attachments : Join(a, b)
    \/ \E a \in Attachments : Release(a)
    \/ \E a \in Attachments : Internal(a)
    \/ UNCHANGED vars
<1>1. ASSUME NEW a \in Attachments, Arrive(a)
      PROVE  \/ \E d \in Databases, e \in Engines : CreatePlugin(a, d, e)
             \/ \E b \in Attachments : Join(a, b)
  BY <1>1, Zenon DEF Arrive
<1>2. ASSUME NEW a \in Attachments, CloseAttachment(a) \/ Proceed(a)
      PROVE  Internal(a) \/ Release(a)
  BY <1>2, Zenon DEF Proceed, Internal
<1>3. QED
  BY <1>1, <1>2, Zenon DEF Next

-----------------------------------------------------------------------------
LEMMA InitBasic == Init => Basic
<1> SUFFICES ASSUME Init PROVE Basic
  OBVIOUS
<1> USE DEF Init
<1>1. Types
  BY DEF Types, Phases
<1>2. ThreadsOK
  BY DEF ThreadsOK, Closing
<1>3. EnginesOK
  <2>1. \A e \in Engines : Users(engine, e) = {}
    BY ConstantsAssumption DEF Users
  <2>2. QED
    BY <2>1, FS_EmptySet DEF EnginesOK
<1>4. QED
  BY <1>1, <1>2, <1>3 DEF Basic

\* What ThreadsOK gives for the thread that takes a step.
LEMMA ThreadFacts ==
  ASSUME Types, ThreadsOK, NEW a \in Attachments
  PROVE  /\ pc[a] # "idle" => engine[a] \in Engines /\ db[a] \in Databases
         /\ pc[a] \in {"registering", "secOpening"} => building[a] \in Loaders
         /\ pc[a] \in {"opened", "attached"} \cup Closing => DataOf(a) \in Loaders
BY DEF Types, ThreadsOK, DataOf, Closing

LEMMA NextTypes ==
  ASSUME Types, ThreadsOK, [Next]_vars
  PROVE  Types'
<1> USE DEF Types, Goto
<1> USE DEF hostVars, engineVars, loaderVars, policyVars
<1>p. \A to \in Phases, a \in Attachments :
         [pc EXCEPT ![a] = to] \in [Attachments -> Phases]
  OBVIOUS
<1>1. ASSUME NEW a \in Attachments, NEW d \in Databases, NEW e \in Engines,
             CreatePlugin(a, d, e)
      PROVE  Types'
  BY <1>1, <1>p DEF CreatePlugin, Phases, Opening
<1>2. ASSUME NEW a \in Attachments, NEW b \in Attachments, Join(a, b)
      PROVE  Types'
  <2>1. engine[b] \in Engines /\ db[b] \in Databases
    BY <1>2, ThreadFacts DEF Join
  <2>2. QED
    BY <1>2, <2>1 DEF Join, Phases, Opening
<1>3. ASSUME NEW a \in Attachments, Release(a)
      PROVE  Types'
  <2>1. engine[a] \in Engines
    BY <1>3, ThreadFacts DEF Release
  <2>2. QED
    BY <1>3, <2>1 DEF Release, Phases
<1>4. ASSUME NEW a \in Attachments, OpenHit(a) \/ OpenMiss(a) \/ ConnectFails(a)
      PROVE  Types'
  <2>1. engine[a] \in Engines /\ db[a] \in Databases
    BY <1>4, ThreadFacts DEF OpenHit, OpenMiss, ConnectFails
  <2>2. QED
    BY <1>4, <2>1 DEF OpenHit, OpenMiss, ConnectFails, Phases, Opening
<1>5. ASSUME NEW a \in Attachments, NEW l \in Loaders, Connect(a, l)
      PROVE  Types'
  BY <1>5 DEF Connect, Phases, Opening
<1>6. ASSUME NEW a \in Attachments, DatabaseOpened(a) \/ FirstDatabaseOpened(a)
      PROVE  Types'
  <2>1. engine[a] \in Engines /\ db[a] \in Databases /\ building[a] \in Loaders
    BY <1>6, ThreadFacts DEF DatabaseOpened, FirstDatabaseOpened
  <2>2. QED
    BY <1>6, <2>1 DEF DatabaseOpened, FirstDatabaseOpened, Publish, Phases, Opening
<1>7. ASSUME NEW a \in Attachments, SecurityOpened(a) \/ SecurityOpenFails(a)
      PROVE  Types'
  <2>1. engine[a] \in Engines /\ db[a] \in Databases /\ building[a] \in Loaders
    BY <1>7, ThreadFacts DEF SecurityOpened, SecurityOpenFails
  <2>2. QED
    BY <1>7, <2>1 DEF SecurityOpened, SecurityOpenFails, Publish, Phases, Opening
<1>8. ASSUME NEW a \in Attachments, OpenAttachment(a) \/ CloseAttachment(a)
      PROVE  Types'
  <2>1. DataOf(a) \in Loaders
    BY <1>8, ThreadFacts DEF OpenAttachment, CloseAttachment
  <2>2. QED
    BY <1>8, <2>1 DEF OpenAttachment, CloseAttachment, Phases, Closing
<1>9. ASSUME NEW a \in Attachments, DatabaseClosed(a) \/ LastDatabaseClosed(a)
      PROVE  Types'
  BY <1>9 DEF DatabaseClosed, LastDatabaseClosed, Phases, Closing
<1>10. ASSUME NEW a \in Attachments, SecurityClosed(a) \/ SecurityCloseFails(a)
       PROVE  Types'
  BY <1>10 DEF SecurityClosed, SecurityCloseFails, Phases, Closing
<1>11. ASSUME NEW a \in Attachments, CloseConnection(a) \/ CloseConnectionFails(a)
       PROVE  Types'
  <2>1. DataOf(a) \in Loaders
    BY <1>11, ThreadFacts DEF CloseConnection, CloseConnectionFails, Closing
  <2>2. QED
    BY <1>11, <2>1 DEF CloseConnection, CloseConnectionFails, Phases, Closing
<1>12. ASSUME NEW a \in Attachments, RemoveSharedData(a)
       PROVE  Types'
  BY <1>12 DEF RemoveSharedData, Phases
<1>13. CASE UNCHANGED vars
  BY <1>13 DEF vars
<1>14. QED
  BY <1>1, <1>2, <1>3, <1>4, <1>5, <1>6, <1>7, <1>8, <1>9, <1>10, <1>11, <1>12,
     <1>13 DEF Next, Arrive, Proceed

\* The references: only the steps of the server change them.
LEMMA NextEngines ==
  ASSUME Types, ThreadsOK, EnginesOK, [Next]_vars
  PROVE  EnginesOK'
<1> USE DEF Types
<1>fin. \A e \in Engines : IsFiniteSet(Users(engine, e))
  BY ConstantsAssumption, FS_Subset DEF Users
<1>1. ASSUME NEW a \in Attachments, NEW d \in Databases, NEW e \in Engines,
             CreatePlugin(a, d, e)
      PROVE  EnginesOK'
  <2>1. Users(engine, e) = {} /\ engine[a] = None
    BY <1>1 DEF CreatePlugin, EnginesOK, ThreadsOK
  <2>2. Users(engine', e) = {a}
    BY <1>1, <2>1 DEF CreatePlugin, Users
  <2>3. \A f \in Engines \ {e} : Users(engine', f) = Users(engine, f)
    BY <1>1, <2>1, ConstantsAssumption DEF CreatePlugin, Users
  <2>4. Cardinality({a}) = 1
    BY FS_Singleton
  <2>5. QED
    BY <1>1, <2>2, <2>3, <2>4 DEF CreatePlugin, EnginesOK
<1>2. ASSUME NEW a \in Attachments, NEW b \in Attachments, Join(a, b)
      PROVE  EnginesOK'
  <2> DEFINE e == engine[b]
  <2>1. e \in Engines /\ engine[a] = None /\ b \in Users(engine, e)
    BY <1>2, ThreadFacts DEF Join, ThreadsOK, Users
  <2>2. a \notin Users(engine, e) /\ Users(engine', e) = Users(engine, e) \cup {a}
    BY <1>2, <2>1, ConstantsAssumption DEF Join, Users
  <2>3. \A f \in Engines \ {e} : Users(engine', f) = Users(engine, f)
    BY <1>2, <2>1, ConstantsAssumption DEF Join, Users
  <2>4. Cardinality(Users(engine', e)) = Cardinality(Users(engine, e)) + 1
    BY <2>1, <2>2, <1>fin, CardinalityAfterAdd
  <2>5. refCounter' = [refCounter EXCEPT ![e] = @ + 1] /\ pinned' = pinned
    BY <1>2 DEF Join
  <2>6. QED
    BY <2>1, <2>2, <2>3, <2>4, <2>5 DEF EnginesOK
<1>3. ASSUME NEW a \in Attachments, Release(a)
      PROVE  EnginesOK'
  <2> DEFINE e == engine[a]
  <2>1. e \in Engines /\ a \in Users(engine, e)
    BY <1>3, ThreadFacts DEF Release, Users
  <2>2. Users(engine', e) = Users(engine, e) \ {a}
    BY <1>3, <2>1, ConstantsAssumption DEF Release, Users
  <2>3. \A f \in Engines \ {e} : Users(engine', f) = Users(engine, f)
    BY <1>3, <2>1, ConstantsAssumption DEF Release, Users
  <2>4. Cardinality(Users(engine', e)) = Cardinality(Users(engine, e)) - 1
    BY <2>1, <2>2, <1>fin, CardinalityAfterRemove
  <2>5. refCounter[e] = Cardinality(Users(engine, e)) /\ e \in pinned
    BY <2>1 DEF EnginesOK
  <2>6. refCounter[e] = 1 <=> Users(engine', e) = {}
    <3>1. IsFiniteSet(Users(engine', e))
      BY <2>1, <2>2, <1>fin, FS_Subset
    <3>2. Cardinality(Users(engine', e)) = 0 <=> Users(engine', e) = {}
      BY <3>1, FS_EmptySet
    <3>3. refCounter[e] \in Int
      BY <2>1
    <3>4. QED
      BY <3>2, <3>3, <2>4, <2>5
  <2>7. refCounter' = [refCounter EXCEPT ![e] = @ - 1]
    BY <1>3 DEF Release
  <2>8. pinned' = IF refCounter[e] = 1 THEN pinned \ {e} ELSE pinned
    BY <1>3 DEF Release
  <2>9. QED
    BY <2>1, <2>3, <2>4, <2>5, <2>6, <2>7, <2>8 DEF EnginesOK
<1>4. ASSUME NEW a \in Attachments, Internal(a)
      PROVE  EnginesOK'
  BY <1>4, InternalKeepsHost DEF EnginesOK, Users
<1>5. CASE UNCHANGED vars
  BY <1>5 DEF vars, hostVars, engineVars, EnginesOK, Users
<1>6. QED
  BY <1>1, <1>2, <1>3, <1>4, <1>5, StepCases

\* Only the last user of an engine takes its sharedData away.
LEMMA LastReference ==
  ASSUME Types, ThreadsOK, EnginesOK, NEW a \in Attachments, pc[a] # "idle",
         refCounter[engine[a]] = 1, NEW b \in Attachments, b # a
  PROVE  engine[b] # engine[a]
<1>1. engine[a] \in Engines
  BY ThreadFacts
<1>2. IsFiniteSet(Users(engine, engine[a])) /\ a \in Users(engine, engine[a])
  BY ConstantsAssumption, FS_Subset DEF Users
<1>3. Users(engine, engine[a]) = {a}
  BY <1>1, <1>2, OnlyMember DEF EnginesOK
<1>4. QED
  BY <1>3 DEF Users

LEMMA NextThreads ==
  ASSUME Types, ThreadsOK, EnginesOK, [Next]_vars
  PROVE  ThreadsOK'
<1> USE DEF Types, Goto, hostVars, engineVars, loaderVars, policyVars
<1>1. ASSUME NEW a \in Attachments, NEW d \in Databases, NEW e \in Engines,
             CreatePlugin(a, d, e)
      PROVE  ThreadsOK'
  BY <1>1, ConstantsAssumption DEF CreatePlugin, ThreadsOK, DataOf, Closing
<1>2. ASSUME NEW a \in Attachments, NEW b \in Attachments, Join(a, b)
      PROVE  ThreadsOK'
  <2>1. engine[b] \in Engines /\ db[b] \in Databases /\ DataOf(b) # None
    BY <1>2, ThreadFacts DEF Join, ThreadsOK
  <2>2. QED
    BY <1>2, <2>1, ConstantsAssumption DEF Join, ThreadsOK, DataOf, Closing
<1>3. ASSUME NEW a \in Attachments, Release(a)
      PROVE  ThreadsOK'
  <2>1. engine[a] \in Engines /\ pc[a] = "leaving"
    BY <1>3, ThreadFacts DEF Release
  <2>2. \A b \in Attachments \ {a} : DataOf(b)' = DataOf(b) \/ pc[b] = "idle"
    <3> SUFFICES ASSUME NEW b \in Attachments \ {a}, pc[b] # "idle"
                 PROVE  DataOf(b)' = DataOf(b)
      OBVIOUS
    <3>1. engine[b] \in Engines /\ engine'[b] = engine[b]
      BY <1>3, ThreadFacts DEF Release
    <3>2. CASE refCounter[engine[a]] = 1
      <4>1. engine[b] # engine[a]
        BY <2>1, <3>2, LastReference
      <4>2. QED
        BY <1>3, <2>1, <3>1, <3>2, <4>1 DEF Release, DataOf
    <3>3. CASE refCounter[engine[a]] # 1
      BY <1>3, <3>1, <3>3 DEF Release, DataOf
    <3>4. QED
      BY <3>2, <3>3
  <2>3. QED
    BY <1>3, <2>1, <2>2, ConstantsAssumption DEF Release, ThreadsOK, Closing
<1>4. ASSUME NEW a \in Attachments, OpenHit(a)
      PROVE  ThreadsOK'
  <2>1. engine[a] \in Engines /\ db[a] \in Databases /\ sharedDataMap[db[a]] # None
    BY <1>4, ThreadFacts DEF OpenHit
  <2>2. \A b \in Attachments : DataOf(b) # None => DataOf(b)' # None
    BY <1>4, <2>1 DEF OpenHit, DataOf
  <2>3. QED
    BY <1>4, <2>1, <2>2 DEF OpenHit, ThreadsOK, DataOf, Closing
<1>5. ASSUME NEW a \in Attachments, OpenMiss(a) \/ ConnectFails(a)
      PROVE  ThreadsOK'
  BY <1>5 DEF OpenMiss, ConnectFails, ThreadsOK, DataOf, Closing
<1>6. ASSUME NEW a \in Attachments, NEW l \in Loaders, Connect(a, l)
      PROVE  ThreadsOK'
  BY <1>6, ConstantsAssumption DEF Connect, ThreadsOK, DataOf, Closing
<1>7. ASSUME NEW a \in Attachments, DatabaseOpened(a) \/ SecurityOpened(a)
      PROVE  ThreadsOK'
  <2>1. engine[a] \in Engines /\ building[a] \in Loaders
    BY <1>7, ThreadFacts DEF DatabaseOpened, SecurityOpened
  <2>2. Publish(a) /\ UNCHANGED <<db, engine>>
    BY <1>7 DEF DatabaseOpened, SecurityOpened
  <2>3. pc[a] \in {"registering", "secOpening"}
    BY <1>7 DEF DatabaseOpened, SecurityOpened
  <2>4. \A b \in Attachments : DataOf(b) # None => DataOf(b)' # None
    BY <2>1, <2>2, ConstantsAssumption DEF Publish, DataOf
  <2>5. DataOf(a)' # None
    BY <2>1, <2>2, ConstantsAssumption DEF Publish, DataOf
  <2>6. QED
    BY <2>1, <2>2, <2>3, <2>4, <2>5 DEF Publish, ThreadsOK, Closing
<1>8. ASSUME NEW a \in Attachments, FirstDatabaseOpened(a) \/ SecurityOpenFails(a)
      PROVE  ThreadsOK'
  BY <1>8 DEF FirstDatabaseOpened, SecurityOpenFails, ThreadsOK, DataOf, Closing
<1>9. ASSUME NEW a \in Attachments, OpenAttachment(a) \/ CloseAttachment(a)
      PROVE  ThreadsOK'
  BY <1>9 DEF OpenAttachment, CloseAttachment, ThreadsOK, DataOf, Closing
<1>10. ASSUME NEW a \in Attachments, DatabaseClosed(a) \/ LastDatabaseClosed(a)
       PROVE  ThreadsOK'
  BY <1>10 DEF DatabaseClosed, LastDatabaseClosed, ThreadsOK, DataOf, Closing
<1>11. ASSUME NEW a \in Attachments, SecurityClosed(a) \/ SecurityCloseFails(a)
       PROVE  ThreadsOK'
  BY <1>11 DEF SecurityClosed, SecurityCloseFails, ThreadsOK, DataOf, Closing
<1>12. ASSUME NEW a \in Attachments, CloseConnection(a) \/ CloseConnectionFails(a)
       PROVE  ThreadsOK'
  BY <1>12 DEF CloseConnection, CloseConnectionFails, ThreadsOK, DataOf, Closing
<1>13. ASSUME NEW a \in Attachments, RemoveSharedData(a)
       PROVE  ThreadsOK'
  BY <1>13 DEF RemoveSharedData, ThreadsOK, DataOf, Closing
<1>14. CASE UNCHANGED vars
  BY <1>14 DEF vars, ThreadsOK, DataOf
<1>15. QED
  BY <1>1, <1>2, <1>3, <1>4, <1>5, <1>6, <1>7, <1>8, <1>9, <1>10, <1>11, <1>12,
     <1>13, <1>14 DEF Next, Arrive, Proceed

THEOREM BasicCorrect == Spec => []Basic
<1>1. Init => Basic
  BY InitBasic
<1>2. Basic /\ [Next]_vars => Basic'
  BY NextTypes, NextThreads, NextEngines DEF Basic
<1>3. QED
  BY <1>1, <1>2, PTL DEF Spec

\* Every variable keeps its type and no call of an attachment meets a null
\* sharedData, in whatever order the server and the driver behave.
THEOREM TypeCorrect == Spec => []TypeOK
<1>1. Basic => TypeOK
  BY DEF Basic, TypeOK
<1>2. QED
  BY <1>1, BasicCorrect, PTL

\* JnaUtil keeps an engine object exactly while an attachment refers to it.
THEOREM EnginePinned == Spec => []PinnedExactlyInUse
<1>1. Basic => PinnedExactlyInUse
  <2> SUFFICES ASSUME Basic PROVE PinnedExactlyInUse
    OBVIOUS
  <2>1. \A a \in Attachments : pc[a] # "idle" => engine[a] \in Engines
    BY ThreadFacts DEF Basic
  <2>2. \A a \in Attachments : engine[a] \in Engines => pc[a] # "idle"
    BY ConstantsAssumption DEF Basic, ThreadsOK
  <2>3. \A e \in Engines : e \in pinned <=> \E a \in Attachments : engine[a] = e
    BY DEF Basic, EnginesOK, Users
  <2>4. pinned \subseteq Engines
    BY DEF Basic, Types
  <2>5. QED
    BY <2>1, <2>2, <2>3, <2>4 DEF PinnedExactlyInUse
<1>2. QED
  BY <1>1, BasicCorrect, PTL

-----------------------------------------------------------------------------
(* The counter of attachments.                                             *)

\* The thread runs ExternalEngine.open.
InOpen(a) == pc[a] \in {"created", "connecting", "registering", "secOpening"}

\* Nobody shares an engine before its open() has returned.
OpenAlone ==
  \A a, b \in Attachments : InOpen(a) /\ engine[a] = engine[b] => a = b

Counted == Basic /\ OpenAlone /\ CounterExact

LEMMA InitCounted == Init => Counted
<1> SUFFICES ASSUME Init PROVE Counted
  OBVIOUS
<1>1. OpenAlone
  BY DEF Init, OpenAlone, InOpen
<1>2. \A l \in Loaders : Holders(l) = {}
  BY DEF Init, Holders
<1>3. CounterExact
  BY <1>2, FS_EmptySet DEF Init, CounterExact
<1>4. QED
  BY <1>1, <1>3, InitBasic DEF Counted

\* A thread inside a call does not go back to an earlier part of open().
LEMMA InternalLeavesOpen ==
  ASSUME Types, NEW a \in Attachments, Internal(a), InOpen(a)'
  PROVE  InOpen(a)
<1> USE DEF Types, InOpen, Goto
<1>1. CASE \/ OpenHit(a) \/ OpenMiss(a) \/ ConnectFails(a)
           \/ \E l \in Loaders : Connect(a, l)
  BY <1>1 DEF OpenHit, OpenMiss, Connect, ConnectFails
<1>2. CASE \/ DatabaseOpened(a) \/ FirstDatabaseOpened(a)
           \/ SecurityOpened(a) \/ SecurityOpenFails(a)
  BY <1>2 DEF DatabaseOpened, FirstDatabaseOpened, SecurityOpened, SecurityOpenFails
<1>3. CASE \/ OpenAttachment(a) \/ CloseAttachment(a)
           \/ DatabaseClosed(a) \/ LastDatabaseClosed(a)
  BY <1>3 DEF OpenAttachment, CloseAttachment, DatabaseClosed, LastDatabaseClosed
<1>4. CASE \/ SecurityClosed(a) \/ SecurityCloseFails(a)
           \/ CloseConnection(a) \/ CloseConnectionFails(a)
           \/ RemoveSharedData(a)
  BY <1>4 DEF SecurityClosed, SecurityCloseFails, CloseConnection,
              CloseConnectionFails, RemoveSharedData
<1>5. QED
  BY <1>1, <1>2, <1>3, <1>4 DEF Internal

LEMMA InternalMovesItself ==
  ASSUME Types, NEW a \in Attachments, Internal(a)
  PROVE  pc' = [pc EXCEPT ![a] = pc'[a]]
<1> USE DEF Types, Goto, Publish
<1>1. CASE \/ OpenHit(a) \/ OpenMiss(a) \/ ConnectFails(a)
           \/ \E l \in Loaders : Connect(a, l)
  BY <1>1 DEF OpenHit, OpenMiss, Connect, ConnectFails
<1>2. CASE \/ DatabaseOpened(a) \/ FirstDatabaseOpened(a)
           \/ SecurityOpened(a) \/ SecurityOpenFails(a)
  BY <1>2 DEF DatabaseOpened, FirstDatabaseOpened, SecurityOpened, SecurityOpenFails
<1>3. CASE \/ OpenAttachment(a) \/ CloseAttachment(a)
           \/ DatabaseClosed(a) \/ LastDatabaseClosed(a)
  BY <1>3 DEF OpenAttachment, CloseAttachment, DatabaseClosed, LastDatabaseClosed
<1>4. CASE \/ SecurityClosed(a) \/ SecurityCloseFails(a)
           \/ CloseConnection(a) \/ CloseConnectionFails(a)
           \/ RemoveSharedData(a)
  BY <1>4 DEF SecurityClosed, SecurityCloseFails, CloseConnection,
              CloseConnectionFails, RemoveSharedData
<1>5. QED
  BY <1>1, <1>2, <1>3, <1>4 DEF Internal

LEMMA NextOpenAlone ==
  ASSUME Basic, OpenAlone, [Next]_vars
  PROVE  OpenAlone'
<1> USE DEF Basic, Types, Goto
<1>1. ASSUME NEW a \in Attachments, NEW d \in Databases, NEW e \in Engines,
             CreatePlugin(a, d, e)
      PROVE  OpenAlone'
  <2>1. \A b \in Attachments : engine[b] # e
    BY <1>1 DEF CreatePlugin, EnginesOK, Users
  <2>2. QED
    BY <1>1, <2>1 DEF CreatePlugin, OpenAlone, InOpen
<1>2. ASSUME NEW a \in Attachments, NEW b \in Attachments, Join(a, b)
      PROVE  OpenAlone'
  BY <1>2 DEF Join, OpenAlone, InOpen
<1>3. ASSUME NEW a \in Attachments, Release(a)
      PROVE  OpenAlone'
  <2>1. \A b \in Attachments : InOpen(b) => engine[b] \in Engines
    BY ThreadFacts DEF InOpen
  <2>2. QED
    BY <1>3, <2>1, ConstantsAssumption DEF Release, OpenAlone, InOpen
<1>4. ASSUME NEW a \in Attachments, Internal(a)
      PROVE  OpenAlone'
  <2>1. \A b \in Attachments : InOpen(b)' => InOpen(b)
    BY <1>4, InternalLeavesOpen, InternalMovesItself DEF InOpen
  <2>2. QED
    BY <1>4, <2>1, InternalKeepsHost DEF OpenAlone
<1>5. CASE UNCHANGED vars
  BY <1>5 DEF vars, hostVars, OpenAlone, InOpen
<1>6. QED
  BY <1>1, <1>2, <1>3, <1>4, <1>5, StepCases

\* A step that lets no attachment enter or leave the ones that are attached,
\* nor gives them another SharedData, counts nothing.
LEMMA CounterUntouched ==
  ASSUME Counted, UNCHANGED attachmentCounter,
         \A b \in Attachments : pc[b] = "attached" <=> pc'[b] = "attached",
         \A b \in Attachments : pc[b] = "attached" => DataOf(b)' = DataOf(b)
  PROVE  CounterExact'
<1>1. \A l \in Loaders : Holders(l)' = Holders(l)
  BY DEF Holders, DataOf
<1>2. QED
  BY <1>1 DEF Counted, CounterExact

LEMMA NextCounter ==
  ASSUME Counted, [Next]_vars
  PROVE  CounterExact'
<1> USE DEF Counted, Basic, Types, Goto, hostVars, engineVars, loaderVars, policyVars
<1>fin. \A l \in Loaders : IsFiniteSet(Holders(l))
  BY ConstantsAssumption, FS_Subset DEF Holders
<1>eng. \A b \in Attachments : pc[b] = "attached" => engine[b] \in Engines
  BY ThreadFacts
<1>1. ASSUME NEW a \in Attachments, NEW d \in Databases, NEW e \in Engines,
             CreatePlugin(a, d, e)
      PROVE  CounterExact'
  BY <1>1, CounterUntouched DEF CreatePlugin, DataOf
<1>2. ASSUME NEW a \in Attachments, NEW b \in Attachments, Join(a, b)
      PROVE  CounterExact'
  BY <1>2, CounterUntouched DEF Join, DataOf
<1>3. ASSUME NEW a \in Attachments, Release(a)
      PROVE  CounterExact'
  <2>1. \A b \in Attachments : pc[b] = "attached" => DataOf(b)' = DataOf(b)
    <3> SUFFICES ASSUME NEW b \in Attachments, pc[b] = "attached"
                 PROVE  DataOf(b)' = DataOf(b)
      OBVIOUS
    <3>1. b # a /\ engine'[b] = engine[b]
      BY <1>3 DEF Release
    <3>2. refCounter[engine[a]] = 1 => engine[b] # engine[a]
      BY <1>3, <3>1, LastReference DEF Release
    <3>3. QED
      BY <1>3, <1>eng, <3>1, <3>2 DEF Release, DataOf
  <2>2. QED
    BY <1>3, <2>1, CounterUntouched DEF Release
<1>4. ASSUME NEW a \in Attachments, OpenHit(a) \/ DatabaseOpened(a) \/ SecurityOpened(a)
      PROVE  CounterExact'
  <2>1. InOpen(a) /\ UNCHANGED <<engine, attachmentCounter>>
    BY <1>4 DEF OpenHit, DatabaseOpened, SecurityOpened, InOpen
  <2>2. PICK l : sharedData' = [sharedData EXCEPT ![engine[a]] = l]
    BY <1>4 DEF OpenHit, DatabaseOpened, SecurityOpened, Publish
  <2>3. \A b \in Attachments : pc[b] = "attached" => engine[b] # engine[a]
    BY <2>1 DEF OpenAlone, InOpen
  <2>4. \A b \in Attachments : pc[b] = "attached" <=> pc'[b] = "attached"
    BY <1>4 DEF OpenHit, DatabaseOpened, SecurityOpened, Publish
  <2>5. QED
    BY <2>1, <2>2, <2>3, <2>4, CounterUntouched DEF DataOf
<1>5. ASSUME NEW a \in Attachments, NEW k \in Loaders, Connect(a, k)
      PROVE  CounterExact'
  <2>1. Holders(k) = {}
    BY <1>5, <1>eng DEF Connect, FreeLoader, Holders
  <2>2. \A l \in Loaders : Holders(l)' = Holders(l)
    BY <1>5 DEF Connect, Holders
  <2>3. QED
    BY <1>5, <2>1, <2>2, FS_EmptySet DEF Connect, CounterExact
<1>6. ASSUME NEW a \in Attachments, OpenAttachment(a)
      PROVE  CounterExact'
  <2>1. PICK k \in Loaders : k = sharedData[engine[a]]
    BY <1>6, ThreadFacts DEF OpenAttachment, DataOf
  <2>2. a \notin Holders(k) /\ Holders(k)' = Holders(k) \cup {a}
    BY <1>6, <2>1 DEF OpenAttachment, Holders
  <2>3. \A l \in Loaders \ {k} : Holders(l)' = Holders(l)
    BY <1>6, <2>1 DEF OpenAttachment, Holders
  <2>4. Cardinality(Holders(k)') = Cardinality(Holders(k)) + 1
    BY <2>2, <1>fin, CardinalityAfterAdd
  <2>5. QED
    BY <1>6, <2>1, <2>3, <2>4 DEF OpenAttachment, CounterExact, DataOf
<1>7. ASSUME NEW a \in Attachments, CloseAttachment(a)
      PROVE  CounterExact'
  <2>1. PICK k \in Loaders : k = sharedData[engine[a]]
    BY <1>7, ThreadFacts DEF CloseAttachment, DataOf
  <2>2. a \in Holders(k) /\ Holders(k)' = Holders(k) \ {a}
    BY <1>7, <2>1 DEF CloseAttachment, Holders
  <2>3. \A l \in Loaders \ {k} : Holders(l)' = Holders(l)
    BY <1>7, <2>1 DEF CloseAttachment, Holders
  <2>4. Cardinality(Holders(k)') = Cardinality(Holders(k)) - 1
    BY <2>2, <1>fin, CardinalityAfterRemove
  <2>5. QED
    BY <1>7, <2>1, <2>3, <2>4 DEF CloseAttachment, CounterExact, DataOf
<1>8. ASSUME NEW a \in Attachments,
             OpenMiss(a) \/ ConnectFails(a) \/ FirstDatabaseOpened(a) \/ SecurityOpenFails(a)
      PROVE  CounterExact'
  BY <1>8, CounterUntouched
     DEF OpenMiss, ConnectFails, FirstDatabaseOpened, SecurityOpenFails, DataOf
<1>9. ASSUME NEW a \in Attachments,
             \/ DatabaseClosed(a) \/ LastDatabaseClosed(a)
             \/ SecurityClosed(a) \/ SecurityCloseFails(a)
      PROVE  CounterExact'
  BY <1>9, CounterUntouched
     DEF DatabaseClosed, LastDatabaseClosed, SecurityClosed, SecurityCloseFails, DataOf
<1>10. ASSUME NEW a \in Attachments,
              CloseConnection(a) \/ CloseConnectionFails(a) \/ RemoveSharedData(a)
       PROVE  CounterExact'
  BY <1>10, CounterUntouched
     DEF CloseConnection, CloseConnectionFails, RemoveSharedData, DataOf
<1>11. CASE UNCHANGED vars
  BY <1>11, CounterUntouched DEF vars, DataOf
<1>12. QED
  BY <1>1, <1>2, <1>3, <1>4, <1>5, <1>6, <1>7, <1>8, <1>9, <1>10, <1>11
     DEF Next, Arrive, Proceed

LEMMA CountedCorrect == Spec => []Counted
<1>1. Counted /\ [Next]_vars => Counted'
  BY NextTypes, NextThreads, NextEngines, NextOpenAlone, NextCounter DEF Counted, Basic
<1>2. QED
  BY <1>1, InitCounted, PTL DEF Spec

\* attachmentCounter is the number of attachments between openAttachment and
\* closeAttachment, in whatever order the server and the driver behave.
THEOREM CounterCorrect == Spec => []CounterExact
<1>1. Counted => CounterExact
  BY DEF Counted
<1>2. QED
  BY <1>1, CountedCorrect, PTL

-----------------------------------------------------------------------------
(* A server that keeps opens and closes apart, a driver whose              *)
(* connection.close() does not fail.                                       *)

Disciplined == Orderly /\ "connClose" \notin Faults

Computes(a) == pc[a] \in {"connecting", "registering", "secOpening"}
InUse(a) == pc[a] \in {"opened", "attached"} \cup Closing

\* The attachments that share an engine have one database.
EngineOfOneDatabase ==
  \A a, b \in Attachments : pc[a] # "idle" /\ engine[a] = engine[b] => db[a] = db[b]

\* The entry of the map is the SharedData in use.
EntryInUse ==
  \A a \in Attachments : InUse(a) => sharedDataMap[db[a]] = DataOf(a)

\* The connection of a class loader in use is open until it is closed.
ConnectionInUse ==
  \A a \in Attachments : InUse(a) =>
    (connection[DataOf(a)] = "open" <=> pc[a] # "unmapping")

\* Whoever closes the class loader is alone with the database.
ClosesAlone ==
  \A a, b \in Attachments :
    pc[a] \in Closing /\ db[b] = db[a] /\ b # a => pc[b] = "leaving"

\* One thread at a time computes the entry of a database that has none.
ComputesAlone ==
  \A a \in Attachments : Computes(a) =>
    /\ sharedDataMap[db[a]] = None
    /\ \A b \in Attachments : Computes(b) /\ db[b] = db[a] => b = a

\* Databases do not share class loaders.
OwnEntry ==
  \A c, d \in Databases : sharedDataMap[c] = sharedDataMap[d] /\ sharedDataMap[c] # None => c = d

\* An entry whose loader is closed is about to be removed.
ClosedEntry ==
  \A d \in Databases :
    sharedDataMap[d] # None /\ connection[sharedDataMap[d]] # "open" =>
      \E a \in Attachments : db[a] = d /\ pc[a] = "unmapping"

\* The SharedData under construction is known to its thread only.
BuildingOwn ==
  \A a \in Attachments : building[a] # None =>
    /\ connection[building[a]] = "open"
    /\ \A d \in Databases : sharedDataMap[d] # building[a]
    /\ \A e \in Engines : sharedData[e] # building[a]
    /\ \A b \in Attachments : building[b] = building[a] => b = a

OrderInv ==
  /\ EngineOfOneDatabase /\ EntryInUse /\ ConnectionInUse /\ ClosesAlone
  /\ ComputesAlone /\ OwnEntry /\ ClosedEntry /\ BuildingOwn

LEMMA ReleaseKeepsData ==
  ASSUME Basic, NEW a \in Attachments, Release(a),
         NEW b \in Attachments \ {a}, pc[b] # "idle"
  PROVE  DataOf(b)' = DataOf(b)
<1>1. engine[b] \in Engines /\ engine'[b] = engine[b]
  BY ThreadFacts DEF Release, Basic, Types
<1>2. refCounter[engine[a]] = 1 => engine[b] # engine[a]
  BY LastReference DEF Release, Basic
<1>3. QED
  BY <1>1, <1>2 DEF Release, DataOf, Basic, Types

\* The facts about types and threads that each of the lemmas below uses.
LEMMA OrderFacts ==
  ASSUME Counted
  PROVE  /\ Types /\ ThreadsOK /\ OpenAlone /\ CounterExact /\ EnginesOK
         /\ \A a \in Attachments : pc[a] # "idle" => engine[a] \in Engines /\ db[a] \in Databases
         /\ \A a \in Attachments : InUse(a) => DataOf(a) \in Loaders
         /\ \A a \in Attachments : Computes(a) \/ InUse(a) => pc[a] # "idle"
         /\ \A a \in Attachments : building[a] # None => building[a] \in Loaders /\ Computes(a)
<1>1. Types /\ ThreadsOK /\ OpenAlone /\ CounterExact /\ EnginesOK
  BY DEF Counted, Basic
<1>2. \A a \in Attachments : pc[a] # "idle" => engine[a] \in Engines /\ db[a] \in Databases
  BY <1>1, ThreadFacts
<1>3. \A a \in Attachments : InUse(a) => DataOf(a) \in Loaders
  BY <1>1, ThreadFacts DEF InUse
<1>4. \A a \in Attachments : building[a] # None => building[a] \in Loaders /\ Computes(a)
  BY <1>1 DEF Types, ThreadsOK, Computes
<1>5. QED
  BY <1>1, <1>2, <1>3, <1>4 DEF InUse, Computes, Closing

LEMMA OrderCreatePlugin ==
  ASSUME Counted, OrderInv, Disciplined, NEW a \in Attachments, NEW d \in Databases, NEW e \in Engines, CreatePlugin(a, d, e)
  PROVE  OrderInv'
<1> USE OrderFacts, ConstantsAssumption
      DEF OrderInv, Disciplined, Types, Goto, hostVars, engineVars, loaderVars, policyVars,
          InUse, Computes, DataOf
<1> USE DEF CreatePlugin, MayArrive, On
<1>a. \A b \in Attachments : engine[b] # e
  BY DEF EnginesOK, Users
<1>1. EngineOfOneDatabase'
  BY <1>a DEF EngineOfOneDatabase
<1>2. EntryInUse'
  BY DEF EntryInUse, Closing
<1>3. ConnectionInUse'
  BY DEF ConnectionInUse, Closing
<1>4. ClosesAlone'
  BY DEF ClosesAlone, Closing
<1>5. ComputesAlone'
  BY DEF ComputesAlone
<1>6. OwnEntry'
  BY DEF OwnEntry
<1>7. ClosedEntry'
  BY DEF ClosedEntry
<1>8. BuildingOwn'
  BY DEF BuildingOwn
<1>9. QED
  BY <1>1, <1>2, <1>3, <1>4, <1>5, <1>6, <1>7, <1>8

LEMMA OrderJoin ==
  ASSUME Counted, OrderInv, Disciplined, NEW a \in Attachments, NEW b \in Attachments, Join(a, b)
  PROVE  OrderInv'
<1> USE OrderFacts, ConstantsAssumption
      DEF OrderInv, Disciplined, Types, Goto, hostVars, engineVars, loaderVars, policyVars,
          InUse, Computes, DataOf
<1> USE DEF Join, MayArrive, On
<1>1. EngineOfOneDatabase'
  BY DEF EngineOfOneDatabase
<1>2. EntryInUse'
  BY DEF EntryInUse
<1>3. ConnectionInUse'
  BY DEF ConnectionInUse
<1>4. ClosesAlone'
  BY DEF ClosesAlone, Closing
<1>5. ComputesAlone'
  BY DEF ComputesAlone
<1>6. OwnEntry'
  BY DEF OwnEntry
<1>7. ClosedEntry'
  BY DEF ClosedEntry
<1>8. BuildingOwn'
  BY DEF BuildingOwn
<1>9. QED
  BY <1>1, <1>2, <1>3, <1>4, <1>5, <1>6, <1>7, <1>8

LEMMA OrderRelease ==
  ASSUME Counted, OrderInv, Disciplined, NEW a \in Attachments, Release(a)
  PROVE  OrderInv'
<1> USE OrderFacts, ConstantsAssumption
      DEF OrderInv, Disciplined, Types, Goto, hostVars, engineVars, loaderVars, policyVars,
          InUse, Computes, DataOf
<1> USE DEF Release
<1>a. \A b \in Attachments \ {a} : pc[b] # "idle" => DataOf(b)' = DataOf(b)
  BY ReleaseKeepsData DEF Counted
<1>1. EngineOfOneDatabase'
  BY DEF EngineOfOneDatabase
<1>2. EntryInUse'
  BY <1>a DEF EntryInUse, Closing
<1>3. ConnectionInUse'
  BY <1>a DEF ConnectionInUse, Closing
<1>4. ClosesAlone'
  BY DEF ClosesAlone
<1>5. ComputesAlone'
  BY DEF ComputesAlone
<1>6. OwnEntry'
  BY DEF OwnEntry
<1>7. ClosedEntry'
  BY DEF ClosedEntry
<1>8. BuildingOwn'
  BY DEF BuildingOwn
<1>9. QED
  BY <1>1, <1>2, <1>3, <1>4, <1>5, <1>6, <1>7, <1>8

LEMMA OrderOpenHit ==
  ASSUME Counted, OrderInv, Disciplined, NEW a \in Attachments, OpenHit(a)
  PROVE  OrderInv'
<1> USE OrderFacts, ConstantsAssumption
      DEF OrderInv, Disciplined, Types, Goto, hostVars, engineVars, loaderVars, policyVars,
          InUse, Computes, DataOf
<1> USE DEF OpenHit
<1>a. \A b \in Attachments \ {a} : DataOf(b)' = DataOf(b)
  BY DEF OpenAlone, InOpen
<1>b. connection[sharedDataMap[db[a]]] = "open"
  <2>1. db[a] \in Databases
    OBVIOUS
  <2>2. ~ \E b \in Attachments : db[b] = db[a] /\ pc[b] = "unmapping"
    BY DEF ClosesAlone, Closing
  <2>3. QED
    BY <2>1, <2>2 DEF ClosedEntry
<1>c. DataOf(a)' = sharedDataMap[db[a]]
  OBVIOUS
<1>1. EngineOfOneDatabase'
  BY DEF EngineOfOneDatabase
<1>2. EntryInUse'
  BY DEF EntryInUse, OpenAlone, InOpen
<1>3. ConnectionInUse'
  BY <1>a, <1>b, <1>c DEF ConnectionInUse, Closing
<1>4. ClosesAlone'
  BY DEF ClosesAlone, Closing
<1>5. ComputesAlone'
  BY DEF ComputesAlone
<1>6. OwnEntry'
  BY DEF OwnEntry
<1>7. ClosedEntry'
  BY DEF ClosedEntry
<1>8. BuildingOwn'
  BY DEF BuildingOwn
<1>9. QED
  BY <1>1, <1>2, <1>3, <1>4, <1>5, <1>6, <1>7, <1>8

LEMMA OrderOpenMiss ==
  ASSUME Counted, OrderInv, Disciplined, NEW a \in Attachments, OpenMiss(a)
  PROVE  OrderInv'
<1> USE OrderFacts, ConstantsAssumption
      DEF OrderInv, Disciplined, Types, Goto, hostVars, engineVars, loaderVars, policyVars,
          InUse, Computes, DataOf
<1> USE DEF OpenMiss, Computing, On
<1>1. EngineOfOneDatabase'
  BY DEF EngineOfOneDatabase
<1>2. EntryInUse'
  BY DEF EntryInUse, Closing
<1>3. ConnectionInUse'
  BY DEF ConnectionInUse, Closing
<1>4. ClosesAlone'
  BY DEF ClosesAlone, Closing
<1>5. ComputesAlone'
  BY DEF ComputesAlone
<1>6. OwnEntry'
  BY DEF OwnEntry
<1>7. ClosedEntry'
  BY DEF ClosedEntry
<1>8. BuildingOwn'
  BY DEF BuildingOwn
<1>9. QED
  BY <1>1, <1>2, <1>3, <1>4, <1>5, <1>6, <1>7, <1>8

LEMMA OrderConnect ==
  ASSUME Counted, OrderInv, Disciplined, NEW a \in Attachments, NEW l \in Loaders, Connect(a, l)
  PROVE  OrderInv'
<1> USE OrderFacts, ConstantsAssumption
      DEF OrderInv, Disciplined, Types, Goto, hostVars, engineVars, loaderVars, policyVars,
          InUse, Computes, DataOf
<1> USE DEF Connect, FreeLoader
<1>1. EngineOfOneDatabase'
  BY DEF EngineOfOneDatabase
<1>2. EntryInUse'
  BY DEF EntryInUse, Closing
<1>3. ConnectionInUse'
  BY DEF ConnectionInUse, Closing
<1>4. ClosesAlone'
  BY DEF ClosesAlone, Closing
<1>5. ComputesAlone'
  BY DEF ComputesAlone
<1>6. OwnEntry'
  BY DEF OwnEntry
<1>7. ClosedEntry'
  BY DEF ClosedEntry
<1>8. BuildingOwn'
  BY DEF BuildingOwn
<1>9. QED
  BY <1>1, <1>2, <1>3, <1>4, <1>5, <1>6, <1>7, <1>8

LEMMA OrderFirstDatabaseOpened ==
  ASSUME Counted, OrderInv, Disciplined, NEW a \in Attachments, FirstDatabaseOpened(a)
  PROVE  OrderInv'
<1> USE OrderFacts, ConstantsAssumption
      DEF OrderInv, Disciplined, Types, Goto, hostVars, engineVars, loaderVars, policyVars,
          InUse, Computes, DataOf
<1> USE DEF FirstDatabaseOpened
<1>1. EngineOfOneDatabase'
  BY DEF EngineOfOneDatabase
<1>2. EntryInUse'
  BY DEF EntryInUse, Closing
<1>3. ConnectionInUse'
  BY DEF ConnectionInUse, Closing
<1>4. ClosesAlone'
  BY DEF ClosesAlone, Closing
<1>5. ComputesAlone'
  BY DEF ComputesAlone
<1>6. OwnEntry'
  BY DEF OwnEntry
<1>7. ClosedEntry'
  BY DEF ClosedEntry
<1>8. BuildingOwn'
  BY DEF BuildingOwn
<1>9. QED
  BY <1>1, <1>2, <1>3, <1>4, <1>5, <1>6, <1>7, <1>8

LEMMA OrderOpenFails ==
  ASSUME Counted, OrderInv, Disciplined, NEW a \in Attachments, ConnectFails(a) \/ SecurityOpenFails(a)
  PROVE  OrderInv'
<1> USE OrderFacts, ConstantsAssumption
      DEF OrderInv, Disciplined, Types, Goto, hostVars, engineVars, loaderVars, policyVars,
          InUse, Computes, DataOf
<1> USE DEF ConnectFails, SecurityOpenFails
<1>a. building[a] # None /\ connection' # connection =>
        connection' = [connection EXCEPT ![building[a]] = "leaked"]
  OBVIOUS
<1>b. connection' # connection => building[a] # None /\ building[a] \in Loaders
  BY DEF ThreadsOK
<1>c. \A b \in Attachments : InUse(b) /\ building[a] # None => DataOf(b) # building[a]
  BY DEF BuildingOwn
<1>1. EngineOfOneDatabase'
  BY DEF EngineOfOneDatabase
<1>2. EntryInUse'
  BY DEF EntryInUse, Closing
<1>3. ConnectionInUse'
  <2>1. \A b \in Attachments : InUse(b)' => InUse(b) /\ pc'[b] = pc[b] /\ DataOf(b)' = DataOf(b)
    BY DEF Closing
  <2>2. \A b \in Attachments : InUse(b) => connection'[DataOf(b)] = connection[DataOf(b)]
    BY <1>a, <1>b, <1>c
  <2>3. QED
    BY <2>1, <2>2 DEF ConnectionInUse
<1>4. ClosesAlone'
  BY DEF ClosesAlone, Closing
<1>5. ComputesAlone'
  BY DEF ComputesAlone
<1>6. OwnEntry'
  BY DEF OwnEntry
<1>7. ClosedEntry'
  <2>1. \A d \in Databases : sharedDataMap[d] # None =>
          connection'[sharedDataMap[d]] = connection[sharedDataMap[d]]
    BY <1>a, <1>b DEF BuildingOwn
  <2>2. \A b \in Attachments : pc[b] = "unmapping" => pc'[b] = "unmapping"
    OBVIOUS
  <2>3. UNCHANGED <<db, sharedDataMap>>
    OBVIOUS
  <2>4. QED
    BY <2>1, <2>2, <2>3 DEF ClosedEntry
<1>8. BuildingOwn'
  BY DEF BuildingOwn
<1>9. QED
  BY <1>1, <1>2, <1>3, <1>4, <1>5, <1>6, <1>7, <1>8

LEMMA OrderPublished ==
  ASSUME Counted, OrderInv, Disciplined, NEW a \in Attachments, DatabaseOpened(a) \/ SecurityOpened(a)
  PROVE  OrderInv'
<1> USE OrderFacts, ConstantsAssumption
      DEF OrderInv, Disciplined, Types, Goto, hostVars, engineVars, loaderVars, policyVars,
          InUse, Computes, DataOf
<1> USE DEF DatabaseOpened, SecurityOpened, Publish
<1>a. /\ pc[a] \in {"registering", "secOpening"} /\ InOpen(a)
      /\ building[a] \in Loaders /\ building[a] # None
  BY DEF InOpen, ThreadsOK
<1>b. /\ sharedDataMap' = [sharedDataMap EXCEPT ![db[a]] = building[a]]
      /\ sharedData' = [sharedData EXCEPT ![engine[a]] = building[a]]
      /\ pc' = [pc EXCEPT ![a] = "opened"]
      /\ UNCHANGED <<db, engine, connection>>
  OBVIOUS
<1>c. sharedDataMap[db[a]] = None /\ db[a] \in Databases /\ engine[a] \in Engines
  BY <1>a DEF ComputesAlone
<1>d. \A b \in Attachments \ {a} : DataOf(b)' = DataOf(b)
  BY <1>a, <1>b DEF OpenAlone
<1>e. \A b \in Attachments : InUse(b) => db[b] # db[a]
  BY <1>c DEF EntryInUse, ThreadsOK
<1>f. DataOf(a)' = building[a] /\ connection[building[a]] = "open"
  BY <1>a, <1>b, <1>c DEF BuildingOwn
<1>1. EngineOfOneDatabase'
  BY DEF EngineOfOneDatabase
<1>2. EntryInUse'
  BY <1>a, <1>b, <1>c, <1>d, <1>e, <1>f DEF EntryInUse, Closing
<1>3. ConnectionInUse'
  BY <1>a, <1>b, <1>d, <1>f DEF ConnectionInUse, Closing
<1>4. ClosesAlone'
  BY DEF ClosesAlone, Closing
<1>5. ComputesAlone'
  BY DEF ComputesAlone
<1>6. OwnEntry'
  BY <1>a, <1>b, <1>c DEF OwnEntry, BuildingOwn
<1>7. ClosedEntry'
  BY <1>a, <1>b, <1>c, <1>f DEF ClosedEntry
<1>8. BuildingOwn'
  BY DEF BuildingOwn
<1>9. QED
  BY <1>1, <1>2, <1>3, <1>4, <1>5, <1>6, <1>7, <1>8

LEMMA OrderOpenAttachment ==
  ASSUME Counted, OrderInv, Disciplined, NEW a \in Attachments, OpenAttachment(a)
  PROVE  OrderInv'
<1> USE OrderFacts, ConstantsAssumption
      DEF OrderInv, Disciplined, Types, Goto, hostVars, engineVars, loaderVars, policyVars,
          InUse, Computes, DataOf
<1> USE DEF OpenAttachment
<1>1. EngineOfOneDatabase'
  BY DEF EngineOfOneDatabase
<1>2. EntryInUse'
  BY DEF EntryInUse
<1>3. ConnectionInUse'
  BY DEF ConnectionInUse
<1>4. ClosesAlone'
  BY DEF ClosesAlone, Closing
<1>5. ComputesAlone'
  BY DEF ComputesAlone
<1>6. OwnEntry'
  BY DEF OwnEntry
<1>7. ClosedEntry'
  BY DEF ClosedEntry
<1>8. BuildingOwn'
  BY DEF BuildingOwn
<1>9. QED
  BY <1>1, <1>2, <1>3, <1>4, <1>5, <1>6, <1>7, <1>8

LEMMA OrderCloseAttachment ==
  ASSUME Counted, OrderInv, Disciplined, NEW a \in Attachments, CloseAttachment(a)
  PROVE  OrderInv'
<1> USE OrderFacts, ConstantsAssumption
      DEF OrderInv, Disciplined, Types, Goto, hostVars, engineVars, loaderVars, policyVars,
          InUse, Computes, DataOf
<1> USE DEF CloseAttachment, On
<1>a. pc'[a] = "closing" =>
        \A b \in Attachments : pc[b] = "attached" /\ db[b] = db[a] => b = a
  <2> SUFFICES ASSUME pc'[a] = "closing", NEW b \in Attachments, pc[b] = "attached",
                      db[b] = db[a]
               PROVE  b = a
    OBVIOUS
  <2>1. PICK l \in Loaders : l = DataOf(a)
    OBVIOUS
  <2>2. Cardinality(Holders(l)) = 1 /\ a \in Holders(l)
    BY <2>1 DEF CounterExact, Holders
  <2>3. Holders(l) = {a}
    BY <2>2, OnlyMember, FS_Subset DEF Holders
  <2>4. b \in Holders(l)
    BY <2>1 DEF EntryInUse, Holders
  <2>5. QED
    BY <2>3, <2>4
<1>b. \A b \in Attachments : db[b] = db[a] /\ b # a => pc[b] \notin Closing \cup {"idle"}
  <2>1. \A b \in Attachments : db[b] = db[a] /\ b # a => pc[b] \notin Closing
    BY DEF ClosesAlone
  <2>2. \A b \in Attachments : db[b] = db[a] => pc[b] # "idle"
    BY DEF ThreadsOK
  <2>3. QED
    BY <2>1, <2>2
<1>c. \A b \in Attachments : pc[b] \in Phases
  OBVIOUS
<1>d. pc' = [pc EXCEPT ![a] = pc'[a]] /\ pc'[a] \in {"closing", "leaving"} /\ UNCHANGED db
  OBVIOUS
<1>e. \A b \in Attachments : db[b] = db[a] => pc[b] \notin Opening
  OBVIOUS
<1>1. EngineOfOneDatabase'
  BY DEF EngineOfOneDatabase
<1>2. EntryInUse'
  BY DEF EntryInUse
<1>3. ConnectionInUse'
  BY DEF ConnectionInUse
<1>4. ClosesAlone'
  <2>1. \A b \in Attachments : db[b] = db[a] /\ b # a /\ pc'[a] = "closing" => pc[b] = "leaving"
    BY <1>a, <1>b, <1>c, <1>e DEF Phases
  <2>2. \A b \in Attachments : pc[b] \in Closing => db[b] # db[a]
    BY <1>b DEF Closing
  <2>3. QED
    BY <1>d, <2>1, <2>2 DEF ClosesAlone, Closing
<1>5. ComputesAlone'
  BY DEF ComputesAlone
<1>6. OwnEntry'
  BY DEF OwnEntry
<1>7. ClosedEntry'
  BY DEF ClosedEntry
<1>8. BuildingOwn'
  BY DEF BuildingOwn
<1>9. QED
  BY <1>1, <1>2, <1>3, <1>4, <1>5, <1>6, <1>7, <1>8

LEMMA OrderPolicyClosed ==
  ASSUME Counted, OrderInv, Disciplined, NEW a \in Attachments, DatabaseClosed(a) \/ LastDatabaseClosed(a) \/ SecurityClosed(a)
  PROVE  OrderInv'
<1> USE OrderFacts, ConstantsAssumption
      DEF OrderInv, Disciplined, Types, Goto, hostVars, engineVars, loaderVars, policyVars,
          InUse, Computes, DataOf
<1> USE DEF DatabaseClosed, LastDatabaseClosed, SecurityClosed
<1>1. EngineOfOneDatabase'
  BY DEF EngineOfOneDatabase
<1>2. EntryInUse'
  BY DEF EntryInUse, Closing
<1>3. ConnectionInUse'
  BY DEF ConnectionInUse, Closing
<1>4. ClosesAlone'
  BY DEF ClosesAlone, Closing
<1>5. ComputesAlone'
  BY DEF ComputesAlone
<1>6. OwnEntry'
  BY DEF OwnEntry
<1>7. ClosedEntry'
  BY DEF ClosedEntry
<1>8. BuildingOwn'
  BY DEF BuildingOwn
<1>9. QED
  BY <1>1, <1>2, <1>3, <1>4, <1>5, <1>6, <1>7, <1>8

LEMMA OrderSecurityCloseFails ==
  ASSUME Counted, OrderInv, Disciplined, NEW a \in Attachments, SecurityCloseFails(a)
  PROVE  OrderInv'
<1> USE OrderFacts, ConstantsAssumption
      DEF OrderInv, Disciplined, Types, Goto, hostVars, engineVars, loaderVars, policyVars,
          InUse, Computes, DataOf
<1> USE DEF SecurityCloseFails
<1>1. EngineOfOneDatabase'
  BY DEF EngineOfOneDatabase
<1>2. EntryInUse'
  BY DEF EntryInUse, Closing
<1>3. ConnectionInUse'
  BY DEF ConnectionInUse, Closing
<1>4. ClosesAlone'
  BY DEF ClosesAlone, Closing
<1>5. ComputesAlone'
  BY DEF ComputesAlone
<1>6. OwnEntry'
  BY DEF OwnEntry
<1>7. ClosedEntry'
  BY DEF ClosedEntry
<1>8. BuildingOwn'
  BY DEF BuildingOwn
<1>9. QED
  BY <1>1, <1>2, <1>3, <1>4, <1>5, <1>6, <1>7, <1>8

LEMMA OrderCloseConnection ==
  ASSUME Counted, OrderInv, Disciplined, NEW a \in Attachments, CloseConnection(a)
  PROVE  OrderInv'
<1> USE OrderFacts, ConstantsAssumption
      DEF OrderInv, Disciplined, Types, Goto, hostVars, engineVars, loaderVars, policyVars,
          InUse, Computes, DataOf
<1> USE DEF CloseConnection
<1>a. \A d \in Databases : sharedDataMap[d] = DataOf(a) => d = db[a]
  BY DEF EntryInUse, OwnEntry, Closing
<1>b. \A b \in Attachments \ {a} : InUse(b) => DataOf(b) # DataOf(a)
  BY <1>a DEF EntryInUse, ClosesAlone, Closing
<1>1. EngineOfOneDatabase'
  BY DEF EngineOfOneDatabase
<1>2. EntryInUse'
  BY DEF EntryInUse, Closing
<1>3. ConnectionInUse'
  <2>1. \A b \in Attachments : DataOf(b)' = DataOf(b)
    OBVIOUS
  <2>2. \A b \in Attachments \ {a} : InUse(b) => connection'[DataOf(b)] = connection[DataOf(b)]
    BY <1>b
  <2>3. InUse(a) /\ connection'[DataOf(a)] = "closed"
    BY DEF Closing
  <2>4. QED
    BY <2>1, <2>2, <2>3 DEF ConnectionInUse, Closing
<1>4. ClosesAlone'
  BY DEF ClosesAlone, Closing
<1>5. ComputesAlone'
  BY DEF ComputesAlone
<1>6. OwnEntry'
  BY DEF OwnEntry
<1>7. ClosedEntry'
  <2>1. \A d \in Databases \ {db[a]} : connection'[sharedDataMap[d]] = connection[sharedDataMap[d]]
    BY <1>a
  <2>2. \A b \in Attachments : pc[b] = "unmapping" => pc'[b] = "unmapping"
    OBVIOUS
  <2>3. pc'[a] = "unmapping" /\ UNCHANGED <<db, sharedDataMap>>
    OBVIOUS
  <2>4. QED
    BY <2>1, <2>2, <2>3 DEF ClosedEntry
<1>8. BuildingOwn'
  BY DEF BuildingOwn
<1>9. QED
  BY <1>1, <1>2, <1>3, <1>4, <1>5, <1>6, <1>7, <1>8

LEMMA OrderRemoveSharedData ==
  ASSUME Counted, OrderInv, Disciplined, NEW a \in Attachments, RemoveSharedData(a)
  PROVE  OrderInv'
<1> USE OrderFacts, ConstantsAssumption
      DEF OrderInv, Disciplined, Types, Goto, hostVars, engineVars, loaderVars, policyVars,
          InUse, Computes, DataOf
<1> USE DEF RemoveSharedData
<1>a. \A b \in Attachments \ {a} : InUse(b) => db[b] # db[a]
  BY DEF ClosesAlone, Closing
<1>1. EngineOfOneDatabase'
  BY DEF EngineOfOneDatabase
<1>2. EntryInUse'
  BY <1>a DEF EntryInUse, Closing
<1>3. ConnectionInUse'
  BY DEF ConnectionInUse, Closing
<1>4. ClosesAlone'
  BY DEF ClosesAlone, Closing
<1>5. ComputesAlone'
  BY DEF ComputesAlone
<1>6. OwnEntry'
  BY DEF OwnEntry
<1>7. ClosedEntry'
  BY DEF ClosedEntry
<1>8. BuildingOwn'
  BY DEF BuildingOwn
<1>9. QED
  BY <1>1, <1>2, <1>3, <1>4, <1>5, <1>6, <1>7, <1>8

LEMMA InitOrder == Init => OrderInv
BY ConstantsAssumption
   DEF Init, OrderInv, EngineOfOneDatabase, EntryInUse, ConnectionInUse, ClosesAlone,
       ComputesAlone, OwnEntry, ClosedEntry, BuildingOwn, InUse, Computes, Closing

LEMMA NextOrder ==
  ASSUME Counted, OrderInv, Disciplined, [Next]_vars
  PROVE  OrderInv'
<1>1. ASSUME NEW a \in Attachments, Arrive(a)
      PROVE  OrderInv'
  BY <1>1, OrderCreatePlugin, OrderJoin DEF Arrive
<1>2. ASSUME NEW a \in Attachments,
             OpenHit(a) \/ OpenMiss(a) \/ (\E l \in Loaders : Connect(a, l)) \/ ConnectFails(a)
      PROVE  OrderInv'
  BY <1>2, OrderOpenHit, OrderOpenMiss, OrderConnect, OrderOpenFails
<1>3. ASSUME NEW a \in Attachments,
             \/ DatabaseOpened(a) \/ FirstDatabaseOpened(a)
             \/ SecurityOpened(a) \/ SecurityOpenFails(a)
      PROVE  OrderInv'
  BY <1>3, OrderPublished, OrderFirstDatabaseOpened, OrderOpenFails
<1>4. ASSUME NEW a \in Attachments, OpenAttachment(a) \/ CloseAttachment(a) \/ Release(a)
      PROVE  OrderInv'
  BY <1>4, OrderOpenAttachment, OrderCloseAttachment, OrderRelease
<1>5. ASSUME NEW a \in Attachments,
             \/ DatabaseClosed(a) \/ LastDatabaseClosed(a)
             \/ SecurityClosed(a) \/ SecurityCloseFails(a)
      PROVE  OrderInv'
  BY <1>5, OrderPolicyClosed, OrderSecurityCloseFails
<1>6. ASSUME NEW a \in Attachments,
             CloseConnection(a) \/ CloseConnectionFails(a) \/ RemoveSharedData(a)
      PROVE  OrderInv'
  <2>1. ~ CloseConnectionFails(a)
    BY DEF Disciplined, CloseConnectionFails
  <2>2. QED
    BY <1>6, <2>1, OrderCloseConnection, OrderRemoveSharedData
<1>7. CASE UNCHANGED vars
  BY <1>7
     DEF vars, hostVars, engineVars, loaderVars, policyVars, OrderInv, EngineOfOneDatabase,
         EntryInUse, ConnectionInUse, ClosesAlone, ComputesAlone, OwnEntry, ClosedEntry,
         BuildingOwn, InUse, Computes, DataOf
<1>8. QED
  BY <1>1, <1>2, <1>3, <1>4, <1>5, <1>6, <1>7 DEF Next, Proceed

LEMMA OrderCorrect ==
  ASSUME Disciplined
  PROVE  Spec => [](Counted /\ OrderInv)
<1>1. Init => Counted /\ OrderInv
  BY InitCounted, InitOrder
<1>2. Counted /\ OrderInv /\ [Next]_vars => (Counted /\ OrderInv)'
  BY NextTypes, NextThreads, NextEngines, NextOpenAlone, NextCounter, NextOrder
     DEF Counted, Basic
<1>3. QED
  BY <1>1, <1>2, PTL DEF Spec

\* While an attachment may run Java code the class loader of its database is
\* open and is the one every attachment to the database gets: the classes of a
\* database are shared (README.md:126-135), whatever else the driver does wrong.
THEOREM StaticsShared ==
  ASSUME Disciplined
  PROVE  Spec => []SharedStatics
<1>1. OrderInv => SharedStatics
  BY DEF OrderInv, EntryInUse, ConnectionInUse, SharedStatics, InUse
<1>2. QED
  BY <1>1, OrderCorrect, PTL

-----------------------------------------------------------------------------
(* Every step is a step of ClassSharing, or none.                          *)

Attached(d) == {a \in On(d) : pc[a] = "attached"}

Loaded(d) ==
  IF sharedDataMap[d] # None /\ connection[sharedDataMap[d]] = "open"
  THEN sharedDataMap[d] ELSE None

LEMMA InitSharing == Init => Sharing!Init
BY ConstantsAssumption DEF Init, Sharing!Init, On

\* Steps that neither attach nor detach, nor load nor unload.
LEMMA SharingStutters ==
  ASSUME \A d \in Databases : Attached(d)' = Attached(d) /\ Loaded(d)' = Loaded(d)
  PROVE  UNCHANGED Sharing!vars
BY DEF Sharing!vars, Attached, Loaded

LEMMA NextSharing ==
  ASSUME Counted, OrderInv, Disciplined, [Next]_vars
  PROVE  [Sharing!Next]_(Sharing!vars)
<1> USE OrderFacts DEF OrderInv, Disciplined, Types, Goto, On,
        hostVars, engineVars, loaderVars, policyVars
<1>1. ASSUME NEW a \in Attachments, NEW d \in Databases, NEW e \in Engines,
             CreatePlugin(a, d, e)
      PROVE  UNCHANGED Sharing!vars
  <2>1. \A c \in Databases : Attached(c)' = Attached(c) /\ Loaded(c)' = Loaded(c)
    BY <1>1 DEF CreatePlugin, Attached, Loaded
  <2>2. QED
    BY <2>1, SharingStutters
<1>2. ASSUME NEW a \in Attachments, NEW b \in Attachments, Join(a, b)
      PROVE  UNCHANGED Sharing!vars
  <2>1. \A c \in Databases : Attached(c)' = Attached(c) /\ Loaded(c)' = Loaded(c)
    BY <1>2 DEF Join, Attached, Loaded
  <2>2. QED
    BY <2>1, SharingStutters
<1>3. ASSUME NEW a \in Attachments,
             \/ Release(a) \/ OpenHit(a) \/ OpenMiss(a) \/ ConnectFails(a)
             \/ FirstDatabaseOpened(a) \/ DatabaseClosed(a) \/ LastDatabaseClosed(a)
             \/ SecurityClosed(a) \/ SecurityCloseFails(a)
      PROVE  UNCHANGED Sharing!vars
  <2>1. UNCHANGED <<sharedDataMap, connection>>
    BY <1>3 DEF Release, OpenHit, OpenMiss, ConnectFails, FirstDatabaseOpened,
                DatabaseClosed, LastDatabaseClosed, SecurityClosed, SecurityCloseFails
  <2>2. \A b \in Attachments : pc[b] = "attached" <=> pc'[b] = "attached"
    BY <1>3 DEF Release, OpenHit, OpenMiss, ConnectFails, FirstDatabaseOpened,
                DatabaseClosed, LastDatabaseClosed, SecurityClosed, SecurityCloseFails
  <2>3. \A b \in Attachments : pc[b] = "attached" => db'[b] = db[b]
    BY <1>3 DEF Release, OpenHit, OpenMiss, ConnectFails, FirstDatabaseOpened,
                DatabaseClosed, LastDatabaseClosed, SecurityClosed, SecurityCloseFails
  <2>4. \A c \in Databases : Attached(c)' = Attached(c) /\ Loaded(c)' = Loaded(c)
    BY <2>1, <2>2, <2>3 DEF Attached, Loaded
  <2>5. QED
    BY <2>4, SharingStutters
<1>4. ASSUME NEW a \in Attachments, NEW l \in Loaders, Connect(a, l)
      PROVE  UNCHANGED Sharing!vars
  <2>1. \A c \in Databases : Attached(c)' = Attached(c) /\ Loaded(c)' = Loaded(c)
    BY <1>4 DEF Connect, FreeLoader, Attached, Loaded
  <2>2. QED
    BY <2>1, SharingStutters
<1>5. ASSUME NEW a \in Attachments, SecurityOpenFails(a)
      PROVE  UNCHANGED Sharing!vars
  <2>1. building[a] # None /\ UNCHANGED <<db, sharedDataMap>>
    BY <1>5 DEF SecurityOpenFails, ThreadsOK
  <2>2. \A c \in Databases : Loaded(c)' = Loaded(c)
    BY <1>5, <2>1 DEF SecurityOpenFails, BuildingOwn, Loaded
  <2>3. \A c \in Databases : Attached(c)' = Attached(c)
    BY <1>5 DEF SecurityOpenFails, Attached
  <2>4. QED
    BY <2>2, <2>3, SharingStutters
<1>6. ASSUME NEW a \in Attachments, NEW d \in Databases, d = db[a],
             NEW l \in Loaders, l = building[a], DatabaseOpened(a) \/ SecurityOpened(a)
      PROVE  Sharing!Load(d, l)
  <2>1. building[a] # None
    BY <1>6 DEF DatabaseOpened, SecurityOpened, ThreadsOK
  <2>2. sharedDataMap[d] = None /\ connection[building[a]] = "open"
    BY <1>6, <2>1 DEF DatabaseOpened, SecurityOpened, ComputesAlone, Computes, BuildingOwn
  <2>3. Publish(a) /\ UNCHANGED <<db, connection>>
    BY <1>6 DEF DatabaseOpened, SecurityOpened
  <2>4. \A c \in Databases : Loaded(c) # l
    BY <1>6, <2>1 DEF Loaded, BuildingOwn
  <2>5. \A c \in Databases : Loaded(c)' = IF c = d THEN l ELSE Loaded(c)
    BY <1>6, <2>1, <2>2, <2>3 DEF Publish, Loaded
  <2>6. \A c \in Databases : Attached(c)' = Attached(c)
    BY <1>6, <2>3 DEF DatabaseOpened, SecurityOpened, Publish, Attached
  <2>7. Loaded(d) = None
    BY <1>6, <2>2 DEF Loaded
  <2>8. QED
    BY <1>6, <2>1, <2>4, <2>5, <2>6, <2>7 DEF Sharing!Load, Attached, Loaded
<1>7. ASSUME NEW a \in Attachments, NEW d \in Databases, d = db[a], OpenAttachment(a)
      PROVE  Sharing!Connect(d, a)
  <2>1. InUse(a) /\ pc[a] = "opened"
    BY <1>7 DEF OpenAttachment, InUse
  <2>2. Loaded(d) # None
    BY <1>7, <2>1, ConstantsAssumption DEF EntryInUse, ConnectionInUse, Loaded
  <2>3. \A c \in Databases : a \notin Attached(c)
    BY <1>7, <2>1 DEF Attached
  <2>4. \A c \in Databases :
           Attached(c)' = IF c = d THEN Attached(c) \cup {a} ELSE Attached(c)
    BY <1>7 DEF OpenAttachment, Attached
  <2>5. \A c \in Databases : Loaded(c)' = Loaded(c)
    BY <1>7 DEF OpenAttachment, Loaded
  <2>6. [c \in Databases |-> Attached(c)]' =
          [[c \in Databases |-> Attached(c)] EXCEPT ![d] = @ \cup {a}]
    BY <1>7, <2>1, <2>4
  <2>7. [c \in Databases |-> Loaded(c)]' = [c \in Databases |-> Loaded(c)]
    BY <1>7, <2>5
  <2>8. QED
    BY <1>7, <2>1, <2>2, <2>3, <2>6, <2>7 DEF Sharing!Connect, Attached, Loaded
<1>8. ASSUME NEW a \in Attachments, NEW d \in Databases, d = db[a], CloseAttachment(a)
      PROVE  Sharing!Disconnect(d, a)
  <2>1. a \in Attached(d)
    BY <1>8 DEF CloseAttachment, Attached
  <2>2. \A c \in Databases :
           Attached(c)' = IF c = d THEN Attached(c) \ {a} ELSE Attached(c)
    BY <1>8 DEF CloseAttachment, Attached
  <2>3. \A c \in Databases : Loaded(c)' = Loaded(c)
    BY <1>8 DEF CloseAttachment, Loaded
  <2>4. [c \in Databases |-> Attached(c)]' =
          [[c \in Databases |-> Attached(c)] EXCEPT ![d] = @ \ {a}]
    BY <1>8, <2>1, <2>2
  <2>5. [c \in Databases |-> Loaded(c)]' = [c \in Databases |-> Loaded(c)]
    BY <1>8, <2>3
  <2>6. QED
    BY <1>8, <2>1, <2>4, <2>5 DEF Sharing!Disconnect, Attached, Loaded
<1>9. ASSUME NEW a \in Attachments, NEW d \in Databases, d = db[a], CloseConnection(a)
      PROVE  Sharing!Unload(d)
  <2>1. InUse(a) /\ pc[a] = "connClosing" /\ DataOf(a) # None
    BY <1>9, ConstantsAssumption DEF CloseConnection, InUse, Closing
  <2>2. sharedDataMap[d] = DataOf(a) /\ connection[DataOf(a)] = "open"
    BY <1>9, <2>1 DEF EntryInUse, ConnectionInUse
  <2>3. Attached(d) = {}
    BY <1>9, <2>1 DEF ClosesAlone, Closing, Attached
  <2>4. \A c \in Databases : Attached(c)' = Attached(c)
    BY <1>9 DEF CloseConnection, Attached
  <2>5. \A c \in Databases : Loaded(c)' = IF c = d THEN None ELSE Loaded(c)
    BY <1>9, <2>1, <2>2 DEF CloseConnection, OwnEntry, Loaded
  <2>6. Loaded(d) # None
    BY <1>9, <2>1, <2>2 DEF Loaded
  <2>7. QED
    BY <1>9, <2>1, <2>3, <2>4, <2>5, <2>6 DEF Sharing!Unload, Attached, Loaded
<1>10. ASSUME NEW a \in Attachments, RemoveSharedData(a)
       PROVE  UNCHANGED Sharing!vars
  <2>1. InUse(a) /\ db[a] \in Databases /\ pc[a] = "unmapping"
    BY <1>10 DEF RemoveSharedData, InUse, Closing
  <2>2. Loaded(db[a]) = None
    BY <2>1 DEF EntryInUse, ConnectionInUse, Loaded
  <2>3. \A c \in Databases : Attached(c)' = Attached(c) /\ Loaded(c)' = Loaded(c)
    BY <1>10, <2>2 DEF RemoveSharedData, Attached, Loaded
  <2>4. QED
    BY <2>3, SharingStutters
<1>11. ASSUME NEW a \in Attachments, CloseConnectionFails(a)
       PROVE  FALSE
  BY <1>11 DEF CloseConnectionFails
<1>12. CASE UNCHANGED vars
  <2>1. \A c \in Databases : Attached(c)' = Attached(c) /\ Loaded(c)' = Loaded(c)
    BY <1>12 DEF vars, Attached, Loaded
  <2>2. QED
    BY <2>1, SharingStutters
<1>13. ASSUME NEW a \in Attachments, DatabaseOpened(a) \/ SecurityOpened(a)
       PROVE  Sharing!Next
  <2>1. building[a] \in Loaders /\ db[a] \in Databases
    BY <1>13 DEF DatabaseOpened, SecurityOpened, ThreadsOK
  <2>2. PICK d \in Databases, l \in Loaders : d = db[a] /\ l = building[a]
    BY <2>1
  <2>3. QED
    BY <1>6, <1>13, <2>2 DEF Sharing!Next
<1>14. ASSUME NEW a \in Attachments,
              OpenAttachment(a) \/ CloseAttachment(a) \/ CloseConnection(a)
       PROVE  Sharing!Next
  <2>1. PICK d \in Databases : d = db[a]
    BY <1>14 DEF OpenAttachment, CloseAttachment, CloseConnection
  <2>2. QED
    BY <1>7, <1>8, <1>9, <1>14, <2>1 DEF Sharing!Next
<1>15. QED
  BY <1>1, <1>2, <1>3, <1>4, <1>5, <1>10, <1>11, <1>12, <1>13, <1>14
     DEF Next, Arrive, Proceed

\* The code keeps the promise of README.md:126-135 as ClassSharing states it:
\* the classes of a database are replaced only between the last attachment that
\* used them and the next one.
THEOREM RefinesClassSharing ==
  ASSUME Disciplined
  PROVE  Spec => Sharing!Safety
<1>1. Counted /\ OrderInv /\ [Next]_vars => [Sharing!Next]_(Sharing!vars)
  BY NextSharing
<1>2. QED
  BY <1>1, InitSharing, OrderCorrect, PTL DEF Spec, Sharing!Safety
=============================================================================

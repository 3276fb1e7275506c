----------------------------- MODULE PolicyProofs -----------------------------
(***************************************************************************)
(* Theorems about the connection of DbPolicy.java to the security database *)
(* and about what is left when every attachment has gone, for every set of *)
(* databases, attachments, engines and loaders.                            *)
(*                                                                         *)
(* They need a server that keeps opens and closes of a database apart and  *)
(* a driver that fails in nothing but the connection of a class loader:    *)
(* the runs late_open, security_unavailable and connection_close_fails     *)
(* show that each of these is needed.                                      *)
(***************************************************************************)
EXTENDS EngineLifecycleProofs

Reliable == Orderly /\ Faults \subseteq {"connect"}

\* The databases that count stands for: those with an entry in the map that
\* nobody has begun to close, and the first while its thread holds the monitor.
Registered(d) ==
  \/ \E a \in On(d) : pc[a] = "secOpening"
  \/ /\ sharedDataMap[d] # None
     /\ \A a \in On(d) : pc[a] \notin {"secClosing", "connClosing", "unmapping"}

Reg == {d \in Databases : Registered(d)}

CountInv == IsFiniteSet(Reg) /\ count = Cardinality(Reg)

\* The connection to the security database follows count, but for the thread
\* that holds the monitor to make them agree.
SecurityInv ==
  /\ policyLock = None /\ count # 0 => securityDb = "open" /\ stmt = "open"
  /\ policyLock = None /\ count = 0 => securityDb = "none"
  /\ \A a \in Attachments : pc[a] = "secOpening" =>
       policyLock = a /\ count = 1 /\ securityDb = "none"
  /\ \A a \in Attachments : pc[a] = "secClosing" =>
       policyLock = a /\ count = 0 /\ securityDb = "open" /\ stmt = "open"
  /\ policyLock # None => pc[policyLock] \in {"secOpening", "secClosing"}

\* An entry of the map has a user.
MappedInUse ==
  \A d \in Databases : sharedDataMap[d] # None => \E a \in On(d) : InUse(a)

\* An open connection belongs to a loader under construction or in use.
NoOrphan ==
  \A l \in Loaders :
    /\ connection[l] # "leaked"
    /\ connection[l] = "open" =>
         \/ \E a \in Attachments : building[a] = l
         \/ \E a \in Attachments : InUse(a) /\ DataOf(a) = l

PolicyInv == CountInv /\ SecurityInv /\ MappedInUse /\ NoOrphan

-----------------------------------------------------------------------------
LEMMA InitPolicy == Init => PolicyInv
<1> SUFFICES ASSUME Init PROVE PolicyInv
  OBVIOUS
<1>1. Reg = {}
  BY ConstantsAssumption DEF Init, Reg, Registered, On
<1>2. CountInv
  BY <1>1, FS_EmptySet DEF Init, CountInv
<1>3. SecurityInv /\ MappedInUse /\ NoOrphan
  BY ConstantsAssumption DEF Init, SecurityInv, MappedInUse, NoOrphan
<1>4. QED
  BY <1>2, <1>3 DEF PolicyInv

\* What a thread that computes or closes knows of the others on its database.
LEMMA ComputingUnregistered ==
  ASSUME Counted, OrderInv, NEW a \in Attachments, Computes(a), pc[a] # "secOpening"
  PROVE  /\ db[a] \in Databases /\ db[a] \notin Reg
         /\ \A b \in On(db[a]) : pc[b] \notin Closing
<1> USE OrderFacts DEF OrderInv, Computes
<1>1. db[a] \in Databases /\ sharedDataMap[db[a]] = None
  BY DEF ComputesAlone
<1>2. \A b \in On(db[a]) : pc[b] \notin Closing
  BY DEF ClosesAlone, On, Closing
<1>3. \A b \in On(db[a]) : pc[b] # "secOpening"
  BY DEF ComputesAlone, On
<1>4. QED
  BY <1>1, <1>2, <1>3 DEF Reg, Registered

LEMMA ClosingRegistered ==
  ASSUME Counted, OrderInv, NEW a \in Attachments, pc[a] \in Closing
  PROVE  /\ db[a] \in Databases /\ sharedDataMap[db[a]] = DataOf(a) /\ DataOf(a) # None
         /\ \A b \in On(db[a]) \ {a} : pc[b] = "leaving"
         /\ pc[a] = "closing" => db[a] \in Reg
         /\ pc[a] # "closing" => db[a] \notin Reg
<1> USE OrderFacts DEF OrderInv
<1>1. db[a] \in Databases /\ sharedDataMap[db[a]] = DataOf(a) /\ DataOf(a) # None
  BY ConstantsAssumption DEF EntryInUse, InUse, Closing
<1>2. \A b \in On(db[a]) \ {a} : pc[b] = "leaving"
  BY DEF ClosesAlone, On
<1>3. pc[a] = "closing" => db[a] \in Reg
  BY <1>1, <1>2 DEF Reg, Registered, On
<1>4. pc[a] # "closing" => db[a] \notin Reg
  BY <1>1, <1>2 DEF Reg, Registered, On, Closing
<1>5. QED
  BY <1>1, <1>2, <1>3, <1>4

LEMMA AttachedRegistered ==
  ASSUME Counted, OrderInv, NEW a \in Attachments, pc[a] = "attached"
  PROVE  db[a] \in Reg /\ sharedDataMap[db[a]] # None
<1> USE OrderFacts DEF OrderInv
<1>1. db[a] \in Databases /\ sharedDataMap[db[a]] # None
  BY ConstantsAssumption DEF EntryInUse, InUse
<1>2. \A b \in On(db[a]) : pc[b] \notin Closing
  BY DEF ClosesAlone, On, Closing
<1>3. QED
  BY <1>1, <1>2 DEF Reg, Registered, Closing

-----------------------------------------------------------------------------
(* Steps that have nothing to do with DbPolicy.                            *)

\* The statics of DbPolicy and the threads inside its monitor stay as they are.
LEMMA SecurityKept ==
  ASSUME SecurityInv, UNCHANGED policyVars, pc \in [Attachments -> Phases],
         policyLock \in Attachments \cup {None},
         \A b \in Attachments :
           pc'[b] # pc[b] => {pc[b], pc'[b]} \cap {"secOpening", "secClosing"} = {}
  PROVE  SecurityInv'
<1>1. \A b \in Attachments :
        /\ pc'[b] = "secOpening" <=> pc[b] = "secOpening"
        /\ pc'[b] = "secClosing" <=> pc[b] = "secClosing"
  OBVIOUS
<1>2. QED
  BY <1>1 DEF SecurityInv, policyVars

LEMMA CountKept ==
  ASSUME CountInv, UNCHANGED policyVars, Reg' = Reg
  PROVE  CountInv'
BY DEF CountInv, policyVars

\* A database is counted, or no longer.
LEMMA CountGrows ==
  ASSUME CountInv, NEW d, d \notin Reg, Reg' = Reg \cup {d}, count' = count + 1
  PROVE  CountInv'
<1>1. IsFiniteSet(Reg')
  BY FS_AddElement DEF CountInv
<1>2. Cardinality(Reg') = Cardinality(Reg) + 1
  BY CardinalityAfterAdd DEF CountInv
<1>3. QED
  BY <1>1, <1>2 DEF CountInv

LEMMA CountShrinks ==
  ASSUME CountInv, NEW d, d \in Reg, Reg' = Reg \ {d}, count' = count - 1
  PROVE  CountInv'
<1>1. IsFiniteSet(Reg')
  BY FS_RemoveElement DEF CountInv
<1>2. Cardinality(Reg') = Cardinality(Reg) - 1
  BY CardinalityAfterRemove DEF CountInv
<1>3. QED
  BY <1>1, <1>2 DEF CountInv

Busy == {"secOpening", "secClosing", "connClosing", "unmapping"}

LEMMA RegKept ==
  ASSUME UNCHANGED sharedDataMap,
         \A b \in Attachments :
           pc[b] \in Busy \/ pc'[b] \in Busy => pc'[b] = pc[b] /\ db'[b] = db[b]
  PROVE  Reg' = Reg
<1>1. \A d \in Databases : Registered(d)' <=> Registered(d)
  BY DEF Registered, On, Busy
<1>2. QED
  BY <1>1 DEF Reg

LEMMA PolicyCreatePlugin ==
  ASSUME Counted, OrderInv, PolicyInv, Reliable,
         NEW a \in Attachments, NEW d \in Databases, NEW e \in Engines, CreatePlugin(a, d, e)
  PROVE  PolicyInv'
<1> USE OrderFacts, ConstantsAssumption
    DEF PolicyInv, CreatePlugin, Types, Goto, loaderVars
<1>1. CountInv'
  BY RegKept, CountKept DEF Busy
<1>2. SecurityInv'
  BY SecurityKept
<1>3. MappedInUse'
  BY DEF MappedInUse, On, InUse, Closing
<1>4. NoOrphan'
  BY DEF NoOrphan, InUse, Closing, DataOf
<1>5. QED
  BY <1>1, <1>2, <1>3, <1>4

LEMMA PolicyJoin ==
  ASSUME Counted, OrderInv, PolicyInv, Reliable,
         NEW a \in Attachments, NEW b \in Attachments, Join(a, b)
  PROVE  PolicyInv'
<1> USE OrderFacts, ConstantsAssumption
    DEF PolicyInv, Join, Types, Goto, loaderVars
<1>1. CountInv'
  BY RegKept, CountKept DEF Busy
<1>2. SecurityInv'
  BY SecurityKept
<1>3. MappedInUse'
  BY DEF MappedInUse, On, InUse, Closing
<1>4. NoOrphan'
  BY DEF NoOrphan, InUse, Closing, DataOf
<1>5. QED
  BY <1>1, <1>2, <1>3, <1>4

LEMMA PolicyRelease ==
  ASSUME Counted, OrderInv, PolicyInv, Reliable, NEW a \in Attachments, Release(a)
  PROVE  PolicyInv'
<1> USE OrderFacts, ConstantsAssumption
    DEF PolicyInv, Release, Types, Goto, loaderVars
<1>1. CountInv'
  BY RegKept, CountKept DEF Busy
<1>2. SecurityInv'
  BY SecurityKept
<1>3. MappedInUse'
  BY DEF MappedInUse, On, InUse, Closing
<1>4. NoOrphan'
  <2>1. \A b \in Attachments : InUse(b) => InUse(b)' /\ DataOf(b)' = DataOf(b)
    BY ReleaseKeepsData DEF InUse, Closing, Counted
  <2>2. QED
    BY <2>1 DEF NoOrphan
<1>5. QED
  BY <1>1, <1>2, <1>3, <1>4

\* The steps of open() up to DbPolicy.databaseOpened.
LEMMA PolicyOpenHit ==
  ASSUME Counted, OrderInv, PolicyInv, Reliable, NEW a \in Attachments, OpenHit(a)
  PROVE  PolicyInv'
<1> USE OrderFacts, ConstantsAssumption
    DEF PolicyInv, OpenHit, Types, Goto, loaderVars, hostVars
<1>1. CountInv'
  BY RegKept, CountKept DEF Busy
<1>2. SecurityInv'
  BY SecurityKept
<1>3. MappedInUse'
  BY DEF MappedInUse, On, InUse, Closing
<1>4. NoOrphan'
  <2>1. \A b \in Attachments : InUse(b) => InUse(b)' /\ DataOf(b)' = DataOf(b)
    BY DEF OpenAlone, InOpen, InUse, Closing, DataOf
  <2>2. QED
    BY <2>1 DEF NoOrphan
<1>5. QED
  BY <1>1, <1>2, <1>3, <1>4

LEMMA PolicyOpenMiss ==
  ASSUME Counted, OrderInv, PolicyInv, Reliable, NEW a \in Attachments,
         OpenMiss(a) \/ ConnectFails(a)
  PROVE  PolicyInv'
<1> USE OrderFacts, ConstantsAssumption
    DEF PolicyInv, OpenMiss, ConnectFails, Types, Goto, loaderVars, hostVars, engineVars
<1>1. CountInv'
  BY RegKept, CountKept DEF Busy
<1>2. SecurityInv'
  BY SecurityKept
<1>3. MappedInUse'
  BY DEF MappedInUse, On, InUse, Closing
<1>4. NoOrphan'
  BY DEF NoOrphan, InUse, Closing, DataOf
<1>5. QED
  BY <1>1, <1>2, <1>3, <1>4

LEMMA PolicyConnect ==
  ASSUME Counted, OrderInv, PolicyInv, Reliable, NEW a \in Attachments,
         NEW l \in Loaders, Connect(a, l)
  PROVE  PolicyInv'
<1> USE OrderFacts, ConstantsAssumption
    DEF PolicyInv, Connect, Types, Goto, hostVars, engineVars
<1>1. CountInv'
  BY RegKept, CountKept DEF Busy
<1>2. SecurityInv'
  BY SecurityKept
<1>3. MappedInUse'
  BY DEF MappedInUse, On, InUse, Closing
<1>4. NoOrphan'
  <2>1. \A b \in Attachments : InUse(b) => InUse(b)' /\ DataOf(b)' = DataOf(b)
    BY DEF InUse, Closing, DataOf
  <2>2. \A b \in Attachments \ {a} : building'[b] = building[b]
    OBVIOUS
  <2>3. building'[a] = l /\ building[a] = None
    BY DEF ThreadsOK
  <2>4. QED
    BY <2>1, <2>2, <2>3 DEF NoOrphan
<1>5. QED
  BY <1>1, <1>2, <1>3, <1>4

-----------------------------------------------------------------------------
(* DbPolicy.databaseOpened.                                                *)

\* The entry is published: what its user and its loader become.
LEMMA PolicyPublished ==
  ASSUME Counted, OrderInv, PolicyInv, NEW a \in Attachments,
         pc[a] \in {"registering", "secOpening"}, Publish(a),
         UNCHANGED <<hostVars, connection>>
  PROVE  /\ MappedInUse' /\ NoOrphan'
         /\ \A d \in Databases : Registered(d)' <=> Registered(d) \/ d = db[a]
<1> USE OrderFacts, ConstantsAssumption
    DEF PolicyInv, OrderInv, Publish, Types, Goto, hostVars
<1>a. /\ building[a] \in Loaders /\ building[a] # None
      /\ db[a] \in Databases /\ engine[a] \in Engines
      /\ pc' = [pc EXCEPT ![a] = "opened"]
      /\ sharedDataMap' = [sharedDataMap EXCEPT ![db[a]] = building[a]]
      /\ building' = [building EXCEPT ![a] = None]
      /\ UNCHANGED <<db, engine, connection>>
  BY DEF ThreadsOK, Computes
<1>b. \A b \in Attachments : InUse(b) => InUse(b)' /\ DataOf(b)' = DataOf(b)
  BY DEF OpenAlone, InOpen, InUse, Closing, DataOf
<1>c. InUse(a)' /\ DataOf(a)' = building[a]
  BY <1>a DEF InUse, DataOf
<1>1. MappedInUse'
  <2> SUFFICES ASSUME NEW d \in Databases, sharedDataMap'[d] # None
               PROVE  \E b \in Attachments : db[b] = d /\ InUse(b)'
    BY <1>a DEF MappedInUse, On
  <2>1. CASE d = db[a]
    BY <2>1, <1>c
  <2>2. CASE d # db[a]
    BY <2>2, <1>a, <1>b DEF MappedInUse, On
  <2>3. QED
    BY <2>1, <2>2
<1>2. NoOrphan'
  BY <1>a, <1>b, <1>c DEF NoOrphan
<1>3. ASSUME NEW d \in Databases
      PROVE  Registered(d)' <=> Registered(d) \/ d = db[a]
  <2>1. CASE d # db[a]
    BY <2>1, <1>a DEF Registered, On
  <2>2. CASE d = db[a]
    <3>1. \A b \in On(d) : pc[b] \notin Closing
      BY <2>2 DEF ClosesAlone, On, Closing
    <3>2. QED
      BY <2>2, <3>1, <1>a DEF Registered, On, Closing
  <2>3. QED
    BY <2>1, <2>2
<1>4. QED
  BY <1>1, <1>2, <1>3

LEMMA PolicyDatabaseOpened ==
  ASSUME Counted, OrderInv, PolicyInv, Reliable, NEW a \in Attachments, DatabaseOpened(a)
  PROVE  PolicyInv'
<1> USE OrderFacts DEF PolicyInv, DatabaseOpened
<1>1. MappedInUse' /\ NoOrphan'
  BY PolicyPublished
<1>2. CountInv'
  <2>1. db[a] \in Databases /\ db[a] \notin Reg
    BY ComputingUnregistered DEF Computes
  <2>2. \A d \in Databases : Registered(d)' <=> Registered(d) \/ d = db[a]
    BY PolicyPublished
  <2>3. Reg' = Reg \cup {db[a]}
    BY <2>1, <2>2 DEF Reg
  <2>4. CountInv /\ count' = count + 1
    OBVIOUS
  <2>5. QED
    BY <2>1, <2>3, <2>4, CountGrows
<1>3. SecurityInv'
  <2>1. count' # 0 /\ count # 0
    BY FS_CardinalityType DEF CountInv
  <2>2. \A b \in Attachments : pc[b] \notin {"secOpening", "secClosing"}
    BY ConstantsAssumption DEF SecurityInv
  <2>3. \A b \in Attachments : pc'[b] \notin {"secOpening", "secClosing"}
    BY <2>2 DEF Publish, Goto, Types
  <2>4. QED
    BY <2>1, <2>3 DEF SecurityInv
<1>4. QED
  BY <1>1, <1>2, <1>3

LEMMA PolicyFirstDatabaseOpened ==
  ASSUME Counted, OrderInv, PolicyInv, Reliable, NEW a \in Attachments, FirstDatabaseOpened(a)
  PROVE  PolicyInv'
<1> USE OrderFacts, ConstantsAssumption
    DEF PolicyInv, FirstDatabaseOpened, Types, Goto, hostVars, engineVars, loaderVars
<1>1. MappedInUse'
  BY DEF MappedInUse, On, InUse, Closing
<1>2. NoOrphan'
  BY DEF NoOrphan, InUse, Closing, DataOf
<1>3. CountInv'
  <2>1. /\ db[a] \in Databases /\ db[a] \notin Reg
        /\ \A b \in On(db[a]) : pc[b] \notin Closing
    BY ComputingUnregistered DEF Computes
  <2>2. Registered(db[a])'
    BY <2>1 DEF Registered, On
  <2>3. \A d \in Databases \ {db[a]} : Registered(d)' <=> Registered(d)
    BY DEF Registered, On
  <2>4. Reg' = Reg \cup {db[a]}
    BY <2>1, <2>2, <2>3 DEF Reg
  <2>5. CountInv /\ count' = count + 1
    OBVIOUS
  <2>6. QED
    BY <2>1, <2>4, <2>5, CountGrows
<1>4. SecurityInv'
  <2>1. \A b \in Attachments : pc[b] \notin {"secOpening", "secClosing"}
    BY DEF SecurityInv
  <2>2. QED
    BY <2>1 DEF SecurityInv
<1>5. QED
  BY <1>1, <1>2, <1>3, <1>4

LEMMA PolicySecurityOpened ==
  ASSUME Counted, OrderInv, PolicyInv, Reliable, NEW a \in Attachments, SecurityOpened(a)
  PROVE  PolicyInv'
<1> USE OrderFacts, ConstantsAssumption DEF PolicyInv, SecurityOpened
<1>1. MappedInUse' /\ NoOrphan'
  BY PolicyPublished
<1>2. CountInv'
  <2>1. db[a] \in Databases /\ Registered(db[a])
    BY DEF Registered, On
  <2>2. \A d \in Databases : Registered(d)' <=> Registered(d) \/ d = db[a]
    BY PolicyPublished
  <2>3. Reg' = Reg
    BY <2>1, <2>2 DEF Reg
  <2>4. QED
    BY <2>3 DEF CountInv
<1>3. SecurityInv'
  <2>1. policyLock = a /\ count = 1
    BY DEF SecurityInv
  <2>2. \A b \in Attachments \ {a} : pc[b] \notin {"secOpening", "secClosing"}
    BY <2>1 DEF SecurityInv
  <2>3. \A b \in Attachments : pc'[b] \notin {"secOpening", "secClosing"}
    BY <2>2 DEF Publish, Goto, Types
  <2>4. QED
    BY <2>1, <2>3 DEF SecurityInv
<1>4. QED
  BY <1>1, <1>2, <1>3

-----------------------------------------------------------------------------
(* Attachments that open and close; DbPolicy.databaseClosed.               *)

LEMMA PolicyOpenAttachment ==
  ASSUME Counted, OrderInv, PolicyInv, Reliable, NEW a \in Attachments, OpenAttachment(a)
  PROVE  PolicyInv'
<1> USE OrderFacts, ConstantsAssumption
    DEF PolicyInv, OpenAttachment, Types, Goto, hostVars, engineVars
<1>1. CountInv'
  BY RegKept, CountKept DEF Busy
<1>2. SecurityInv'
  BY SecurityKept
<1>3. MappedInUse'
  BY DEF MappedInUse, On, InUse, Closing
<1>4. NoOrphan'
  BY DEF NoOrphan, InUse, Closing, DataOf
<1>5. QED
  BY <1>1, <1>2, <1>3, <1>4

\* Whoever is not the last leaves another attachment with the class loader.
LEMMA AnotherHolder ==
  ASSUME Counted, OrderInv, NEW a \in Attachments, pc[a] = "attached",
         attachmentCounter[DataOf(a)] # 1
  PROVE  \E b \in Attachments \ {a} :
           pc[b] = "attached" /\ DataOf(b) = DataOf(a) /\ db[b] = db[a]
<1> USE OrderFacts DEF OrderInv
<1> DEFINE l == DataOf(a)
<1>1. l \in Loaders /\ l # None /\ db[a] \in Databases
  BY ConstantsAssumption DEF InUse
<1>2. Cardinality(Holders(l)) # 1
  BY <1>1 DEF CounterExact
<1>3. Holders(l) # {a}
  BY <1>2, FS_Singleton
<1>4. PICK b \in Holders(l) : b # a
  BY <1>3 DEF Holders, DataOf
<1>5. pc[b] = "attached" /\ DataOf(b) = l /\ b \in Attachments
  BY <1>4 DEF Holders, DataOf
<1>6. sharedDataMap[db[b]] = l /\ sharedDataMap[db[a]] = l /\ db[b] \in Databases
  BY <1>5 DEF EntryInUse, InUse
<1>7. db[b] = db[a]
  BY <1>1, <1>6 DEF OwnEntry
<1>8. QED
  BY <1>4, <1>5, <1>7

LEMMA PolicyCloseAttachment ==
  ASSUME Counted, OrderInv, PolicyInv, Reliable, NEW a \in Attachments, CloseAttachment(a)
  PROVE  PolicyInv'
<1> USE OrderFacts, ConstantsAssumption
    DEF PolicyInv, CloseAttachment, Types, Goto, hostVars, engineVars
<1>1. CountInv'
  BY RegKept, CountKept DEF Busy
<1>2. SecurityInv'
  BY SecurityKept
<1>a. \A b \in Attachments : DataOf(b)' = DataOf(b) /\ db'[b] = db[b]
  BY DEF DataOf
<1>b. \A b \in Attachments \ {a} : InUse(b) => InUse(b)'
  BY DEF InUse, Closing
<1>c. InUse(a)' \/ \E b \in Attachments \ {a} : InUse(b) /\ DataOf(b) = DataOf(a) /\ db[b] = db[a]
  BY AnotherHolder DEF InUse, Closing
<1>3. MappedInUse'
  BY <1>a, <1>b, <1>c DEF MappedInUse, On
<1>4. NoOrphan'
  BY <1>a, <1>b, <1>c DEF NoOrphan
<1>5. QED
  BY <1>1, <1>2, <1>3, <1>4

\* The database that is closed is no longer counted.
LEMMA PolicyDatabaseClosed ==
  ASSUME Counted, OrderInv, PolicyInv, Reliable, NEW a \in Attachments,
         DatabaseClosed(a) \/ LastDatabaseClosed(a)
  PROVE  PolicyInv'
<1> USE OrderFacts, ConstantsAssumption
    DEF PolicyInv, DatabaseClosed, LastDatabaseClosed, Types, Goto, hostVars, engineVars, loaderVars
<1>a. pc[a] = "closing" /\ pc'[a] \in {"secClosing", "connClosing"} /\ count' = count - 1
  BY DEF CountInv
<1>b. \A b \in Attachments \ {a} : pc'[b] = pc[b]
  OBVIOUS
<1>1. CountInv'
  <2>1. /\ db[a] \in Reg
        /\ \A b \in On(db[a]) \ {a} : pc[b] = "leaving"
    BY <1>a, ClosingRegistered DEF Closing
  <2>2. \A d \in Databases \ {db[a]} : Registered(d)' <=> Registered(d)
    BY <1>b DEF Registered, On
  <2>3. ~Registered(db[a])'
    BY <1>a, <1>b, <2>1 DEF Registered, On
  <2>4. Reg' = Reg \ {db[a]}
    BY <2>1, <2>2, <2>3 DEF Reg
  <2>5. QED
    BY <1>a, <2>1, <2>4, CountShrinks
<1>2. SecurityInv'
  <2>1. \A b \in Attachments : pc[b] \notin {"secOpening", "secClosing"}
    BY DEF SecurityInv
  <2>2. CASE DatabaseClosed(a)
    <3>1. db[a] \in Reg
      BY <1>a, ClosingRegistered DEF Closing
    <3>2. count # 0
      BY <3>1, FS_EmptySet DEF CountInv
    <3>3. \A b \in Attachments : pc'[b] \notin {"secOpening", "secClosing"}
      BY <2>1, <2>2
    <3>4. QED
      BY <2>2, <3>2, <3>3 DEF SecurityInv
  <2>3. CASE LastDatabaseClosed(a)
    BY <2>1, <2>3 DEF SecurityInv
  <2>4. QED
    BY <2>2, <2>3
<1>3. MappedInUse'
  BY DEF MappedInUse, On, InUse, Closing
<1>4. NoOrphan'
  BY DEF NoOrphan, InUse, Closing, DataOf
<1>5. QED
  BY <1>1, <1>2, <1>3, <1>4

LEMMA PolicySecurityClosed ==
  ASSUME Counted, OrderInv, PolicyInv, Reliable, NEW a \in Attachments, SecurityClosed(a)
  PROVE  PolicyInv'
<1> USE OrderFacts, ConstantsAssumption
    DEF PolicyInv, SecurityClosed, Types, Goto, hostVars, engineVars, loaderVars
<1>1. CountInv'
  <2>1. \A d \in Databases : Registered(d)' <=> Registered(d)
    BY DEF Registered, On
  <2>2. Reg' = Reg
    BY <2>1 DEF Reg
  <2>3. QED
    BY <2>2 DEF CountInv
<1>2. SecurityInv'
  <2>1. \A b \in Attachments \ {a} : pc[b] \notin {"secOpening", "secClosing"}
    BY DEF SecurityInv
  <2>2. \A b \in Attachments : pc'[b] \notin {"secOpening", "secClosing"}
    BY <2>1
  <2>3. QED
    BY <2>2 DEF SecurityInv
<1>3. MappedInUse'
  BY DEF MappedInUse, On, InUse, Closing
<1>4. NoOrphan'
  BY DEF NoOrphan, InUse, Closing, DataOf
<1>5. QED
  BY <1>1, <1>2, <1>3, <1>4

LEMMA PolicyCloseConnection ==
  ASSUME Counted, OrderInv, PolicyInv, Reliable, NEW a \in Attachments, CloseConnection(a)
  PROVE  PolicyInv'
<1> USE OrderFacts, ConstantsAssumption
    DEF PolicyInv, CloseConnection, Types, Goto, hostVars, engineVars
<1>1. CountInv'
  <2>1. \A d \in Databases : Registered(d)' <=> Registered(d)
    BY DEF Registered, On
  <2>2. Reg' = Reg
    BY <2>1 DEF Reg
  <2>3. QED
    BY <2>2, CountKept
<1>2. SecurityInv'
  BY SecurityKept
<1>3. MappedInUse'
  BY DEF MappedInUse, On, InUse, Closing
<1>4. NoOrphan'
  <2>1. \A b \in Attachments : InUse(b) => InUse(b)' /\ DataOf(b)' = DataOf(b)
    BY DEF InUse, Closing, DataOf
  <2>2. \A l \in Loaders : connection'[l] \in {connection[l], "closed"}
    OBVIOUS
  <2>3. QED
    BY <2>1, <2>2 DEF NoOrphan
<1>5. QED
  BY <1>1, <1>2, <1>3, <1>4

LEMMA PolicyRemoveSharedData ==
  ASSUME Counted, OrderInv, PolicyInv, Reliable, NEW a \in Attachments, RemoveSharedData(a)
  PROVE  PolicyInv'
<1> USE OrderFacts, ConstantsAssumption
    DEF PolicyInv, RemoveSharedData, Types, Goto, hostVars, engineVars
<1>a. /\ db[a] \in Databases /\ db[a] \notin Reg
      /\ \A b \in On(db[a]) \ {a} : pc[b] = "leaving"
  BY ClosingRegistered DEF Closing
<1>b. \A b \in Attachments \ {a} : pc'[b] = pc[b] /\ (InUse(b)' <=> InUse(b))
  BY DEF InUse
<1>1. CountInv'
  <2>1. \A d \in Databases \ {db[a]} : Registered(d)' <=> Registered(d)
    BY <1>b DEF Registered, On
  <2>2. ~Registered(db[a]) /\ ~Registered(db[a])'
    BY <1>a, <1>b DEF Registered, On, Reg
  <2>3. Reg' = Reg
    BY <2>1, <2>2 DEF Reg
  <2>4. QED
    BY <2>3, CountKept
<1>2. SecurityInv'
  BY SecurityKept
<1>3. MappedInUse'
  BY <1>a, <1>b DEF MappedInUse, On
<1>4. NoOrphan'
  <2>1. InUse(a) /\ connection[DataOf(a)] # "open"
    BY DEF InUse, Closing, OrderInv, ConnectionInUse
  <2>2. \A b \in Attachments : DataOf(b)' = DataOf(b)
    BY DEF DataOf
  <2>3. QED
    BY <1>b, <2>1, <2>2 DEF NoOrphan
<1>5. QED
  BY <1>1, <1>2, <1>3, <1>4

-----------------------------------------------------------------------------
LEMMA ReliableFails ==
  ASSUME Counted, PolicyInv, Reliable, NEW a \in Attachments
  PROVE  ~SecurityOpenFails(a) /\ ~SecurityCloseFails(a) /\ ~CloseConnectionFails(a)
BY DEF Reliable, PolicyInv, SecurityInv, SecurityOpenFails, SecurityCloseFails,
       CloseConnectionFails

LEMMA NextPolicy ==
  ASSUME Counted, OrderInv, PolicyInv, Reliable, [Next]_vars
  PROVE  PolicyInv'
<1>1. ASSUME NEW a \in Attachments, Arrive(a)
      PROVE  PolicyInv'
  BY <1>1, PolicyCreatePlugin, PolicyJoin DEF Arrive
<1>2. ASSUME NEW a \in Attachments,
             OpenHit(a) \/ OpenMiss(a) \/ (\E l \in Loaders : Connect(a, l)) \/ ConnectFails(a)
      PROVE  PolicyInv'
  BY <1>2, PolicyOpenHit, PolicyOpenMiss, PolicyConnect
<1>3. ASSUME NEW a \in Attachments,
             \/ DatabaseOpened(a) \/ FirstDatabaseOpened(a)
             \/ SecurityOpened(a) \/ SecurityOpenFails(a)
      PROVE  PolicyInv'
  BY <1>3, PolicyDatabaseOpened, PolicyFirstDatabaseOpened, PolicySecurityOpened, ReliableFails
<1>4. ASSUME NEW a \in Attachments, OpenAttachment(a) \/ CloseAttachment(a) \/ Release(a)
      PROVE  PolicyInv'
  BY <1>4, PolicyOpenAttachment, PolicyCloseAttachment, PolicyRelease
<1>5. ASSUME NEW a \in Attachments,
             \/ DatabaseClosed(a) \/ LastDatabaseClosed(a)
             \/ SecurityClosed(a) \/ SecurityCloseFails(a)
      PROVE  PolicyInv'
  BY <1>5, PolicyDatabaseClosed, PolicySecurityClosed, ReliableFails
<1>6. ASSUME NEW a \in Attachments,
             CloseConnection(a) \/ CloseConnectionFails(a) \/ RemoveSharedData(a)
      PROVE  PolicyInv'
  BY <1>6, PolicyCloseConnection, PolicyRemoveSharedData, ReliableFails
<1>7. CASE UNCHANGED vars
  <2>1. Reg' = Reg
    BY <1>7 DEF vars, hostVars, loaderVars, Reg, Registered, On
  <2>2. QED
    BY <1>7, <2>1
       DEF vars, hostVars, engineVars, loaderVars, policyVars, PolicyInv, CountInv,
           SecurityInv, MappedInUse, NoOrphan, On, InUse, DataOf
<1>8. QED
  BY <1>1, <1>2, <1>3, <1>4, <1>5, <1>6, <1>7 DEF Next, Proceed

LEMMA PolicyCorrect ==
  ASSUME Reliable
  PROVE  Spec => [](Counted /\ OrderInv /\ PolicyInv)
<1>1. Disciplined
  BY DEF Reliable, Disciplined
<1>2. Spec => [](Counted /\ OrderInv)
  BY <1>1, OrderCorrect
<1>3. Init => PolicyInv
  BY InitPolicy
<1>4. Counted /\ OrderInv /\ PolicyInv /\ [Next]_vars => PolicyInv'
  BY NextPolicy
<1>5. QED
  BY <1>2, <1>3, <1>4, PTL DEF Spec

\* README.md:73-74: while an attachment may run Java code the query for the
\* permissions of its user is ready, however many databases open and close.
THEOREM PolicyIsReady ==
  ASSUME Reliable
  PROVE  Spec => []PolicyReady
<1>1. Counted /\ OrderInv /\ PolicyInv => PolicyReady
  <2> SUFFICES ASSUME Counted, OrderInv, PolicyInv, NEW a \in Attachments, pc[a] = "attached"
               PROVE  securityDb = "open" /\ stmt = "open"
    BY DEF PolicyReady
  <2>1. db[a] \in Reg /\ sharedDataMap[db[a]] # None
    BY AttachedRegistered
  <2>2. IsFiniteSet(Reg) /\ count = Cardinality(Reg)
    BY DEF PolicyInv, CountInv
  <2>3. count # 0
    BY <2>1, <2>2, FS_EmptySet
  <2>4. CASE policyLock = None
    BY <2>3, <2>4 DEF PolicyInv, SecurityInv
  <2>5. CASE policyLock # None
    <3> DEFINE b == policyLock
    <3>1. b \in Attachments /\ pc[b] = "secOpening" /\ count = 1
      BY <2>3, <2>5, OrderFacts DEF PolicyInv, SecurityInv, Types
    <3>2. db[b] \in Databases /\ sharedDataMap[db[b]] = None
      BY <3>1, OrderFacts DEF OrderInv, ComputesAlone, Computes
    <3>3. db[b] \in Reg
      BY <3>1, <3>2 DEF Reg, Registered, On
    <3>4. Reg = {db[b]}
      BY <2>2, <3>1, <3>3, OnlyMember
    <3>5. QED
      BY <2>1, <3>2, <3>4
  <2>6. QED
    BY <2>4, <2>5
<1>2. QED
  BY <1>1, PolicyCorrect, PTL

\* DbPolicy.java:74: the assertion of databaseOpened holds.
THEOREM AssertionHolds ==
  ASSUME Reliable
  PROVE  Spec => []SecurityDbAssertion
<1>1. PolicyInv => SecurityDbAssertion
  BY DEF PolicyInv, SecurityInv, SecurityDbAssertion
<1>2. QED
  BY <1>1, PolicyCorrect, PTL

\* ExternalEngine.java:1361-1373, DbPolicy.java:104-116: once every attachment has
\* gone there is no class loader, no entry and no connection left.
THEOREM NothingLeft ==
  ASSUME Reliable
  PROVE  Spec => []NothingLeftWhenIdle
<1>1. Counted /\ OrderInv /\ PolicyInv => NothingLeftWhenIdle
  <2> SUFFICES ASSUME Counted, OrderInv, PolicyInv, \A a \in Attachments : pc[a] = "idle"
               PROVE  /\ \A l \in Loaders : connection[l] \in {"none", "closed"}
                      /\ \A d \in Databases : sharedDataMap[d] = None
                      /\ count = 0 /\ securityDb = "none"
    BY DEF NothingLeftWhenIdle
  <2>1. \A a \in Attachments : ~InUse(a) /\ building[a] = None
    BY OrderFacts DEF InUse, Closing, ThreadsOK
  <2>2. \A l \in Loaders : connection[l] \in {"none", "closed"}
    <3>1. \A l \in Loaders : connection[l] \in {"none", "open", "closed", "leaked"} /\ l # None
      BY OrderFacts, ConstantsAssumption DEF Types
    <3>2. QED
      BY <2>1, <3>1 DEF PolicyInv, NoOrphan
  <2>3. \A d \in Databases : sharedDataMap[d] = None
    BY <2>1 DEF PolicyInv, MappedInUse, On
  <2>4. Reg = {}
    BY <2>3 DEF Reg, Registered, On
  <2>5. count = 0
    BY <2>4, FS_EmptySet DEF PolicyInv, CountInv
  <2>6. securityDb = "none"
    BY <2>5, OrderFacts DEF PolicyInv, SecurityInv, Types
  <2>7. QED
    BY <2>2, <2>3, <2>5, <2>6
<1>2. QED
  BY <1>1, PolicyCorrect, PTL
-----------------------------------------------------------------------------
(* sharedDataMap.remove, in a server that keeps opens and closes apart.    *)

ClosedUnmapping ==
  \A a \in Attachments : pc[a] = "unmapping" => connection[DataOf(a)] = "closed"

LEMMA NextClosedUnmapping ==
  ASSUME Counted, OrderInv, ClosedUnmapping, Disciplined, [Next]_vars
  PROVE  ClosedUnmapping'
<1> USE OrderFacts, ConstantsAssumption DEF Types, Goto, ClosedUnmapping
<1>a. SUFFICES ASSUME NEW b \in Attachments, pc'[b] = "unmapping"
               PROVE  connection'[DataOf(b)'] = "closed"
  OBVIOUS
<1>1. CASE pc[b] # "unmapping"
  <2>1. CloseConnection(b)
    BY <1>a, <1>1
       DEF Next, Arrive, Proceed, CreatePlugin, Join, Release, OpenHit, OpenMiss, Connect,
           ConnectFails, DatabaseOpened, FirstDatabaseOpened, SecurityOpened,
           SecurityOpenFails, Publish, OpenAttachment, CloseAttachment, DatabaseClosed,
           LastDatabaseClosed, SecurityClosed, SecurityCloseFails, CloseConnection,
           CloseConnectionFails, RemoveSharedData, vars
  <2>2. DataOf(b)' = DataOf(b)
    BY <2>1 DEF CloseConnection, DataOf, hostVars, engineVars
  <2>3. DataOf(b) \in Loaders
    BY <2>1 DEF CloseConnection, InUse, Closing
  <2>4. connection' = [connection EXCEPT ![DataOf(b)] = "closed"]
    BY <2>1 DEF CloseConnection
  <2>5. QED
    BY <2>2, <2>3, <2>4
<1>2. CASE pc[b] = "unmapping"
  <2>1. InUse(b) /\ connection[DataOf(b)] = "closed" /\ DataOf(b) \in Loaders
    BY <1>2 DEF InUse, Closing
  <2>2. ASSUME NEW a \in Attachments, Arrive(a)
        PROVE  connection'[DataOf(b)'] = "closed"
    BY <1>2, <2>1, <2>2 DEF Arrive, CreatePlugin, Join, DataOf, loaderVars
  <2>3. ASSUME NEW a \in Attachments, Release(a)
        PROVE  connection'[DataOf(b)'] = "closed"
    <3>1. DataOf(b)' = DataOf(b)
      BY <1>2, <2>3, ReleaseKeepsData DEF Counted, Release
    <3>2. QED
      BY <2>1, <2>3, <3>1 DEF Release, loaderVars
  <2>4. ASSUME NEW a \in Attachments,
               OpenHit(a) \/ DatabaseOpened(a) \/ SecurityOpened(a)
        PROVE  connection'[DataOf(b)'] = "closed"
    <3>1. DataOf(b)' = DataOf(b)
      BY <1>2, <2>4
         DEF OpenHit, DatabaseOpened, SecurityOpened, Publish, OpenAlone, InOpen, DataOf,
             hostVars
    <3>2. QED
      BY <2>1, <2>4, <3>1 DEF OpenHit, DatabaseOpened, SecurityOpened, loaderVars
  <2>5. ASSUME NEW a \in Attachments, NEW l \in Loaders, Connect(a, l)
        PROVE  connection'[DataOf(b)'] = "closed"
    <3>1. DataOf(b) # l /\ DataOf(b)' = DataOf(b)
      BY <1>2, <2>5 DEF Connect, FreeLoader, DataOf, hostVars, engineVars
    <3>2. QED
      BY <2>1, <2>5, <3>1 DEF Connect
  <2>6. ASSUME NEW a \in Attachments, SecurityOpenFails(a)
        PROVE  connection'[DataOf(b)'] = "closed"
    <3>1. building[a] # None
      BY <2>6 DEF SecurityOpenFails, ThreadsOK
    <3>2. DataOf(b) # building[a] /\ DataOf(b)' = DataOf(b)
      BY <1>2, <2>6, <3>1 DEF OrderInv, BuildingOwn, SecurityOpenFails, DataOf, hostVars, engineVars
    <3>3. QED
      BY <2>1, <2>6, <3>2 DEF SecurityOpenFails
  <2>7. ASSUME NEW a \in Attachments,
               \/ OpenMiss(a) \/ ConnectFails(a) \/ FirstDatabaseOpened(a)
               \/ OpenAttachment(a) \/ CloseAttachment(a) \/ DatabaseClosed(a)
               \/ LastDatabaseClosed(a) \/ SecurityClosed(a) \/ SecurityCloseFails(a)
               \/ CloseConnection(a) \/ RemoveSharedData(a)
        PROVE  connection'[DataOf(b)'] = "closed"
    <3>1. DataOf(b)' = DataOf(b)
      BY <2>7
         DEF OpenMiss, ConnectFails, FirstDatabaseOpened, OpenAttachment, CloseAttachment,
             DatabaseClosed, LastDatabaseClosed, SecurityClosed, SecurityCloseFails,
             CloseConnection, RemoveSharedData, DataOf, hostVars, engineVars
    <3>2. connection'[DataOf(b)] = "closed"
      BY <2>1, <2>7
         DEF OpenMiss, ConnectFails, FirstDatabaseOpened, OpenAttachment, CloseAttachment,
             DatabaseClosed, LastDatabaseClosed, SecurityClosed, SecurityCloseFails,
             CloseConnection, RemoveSharedData, loaderVars
    <3>3. QED
      BY <3>1, <3>2
  <2>8. ASSUME NEW a \in Attachments, CloseConnectionFails(a)
        PROVE  FALSE
    BY <2>8 DEF CloseConnectionFails, Disciplined
  <2>9. CASE UNCHANGED vars
    BY <2>1, <2>9 DEF vars, hostVars, engineVars, loaderVars, DataOf
  <2>10. QED
    BY <2>2, <2>3, <2>4, <2>5, <2>6, <2>7, <2>8, <2>9 DEF Next, Proceed
<1>3. QED
  BY <1>1, <1>2

\* ExternalEngine.java:1373: the entry that is removed by its key is the one of
\* the SharedData that has just been closed.
THEOREM RemovesClosed ==
  ASSUME Disciplined
  PROVE  Spec => RemovesOnlyClosedData
<1>1. Spec => [](Counted /\ OrderInv)
  BY OrderCorrect
<1>2. Init => ClosedUnmapping
  BY DEF Init, ClosedUnmapping
<1>3. Counted /\ OrderInv /\ ClosedUnmapping /\ [Next]_vars => ClosedUnmapping'
  BY NextClosedUnmapping
<1>4. Counted /\ OrderInv /\ ClosedUnmapping /\ [Next]_vars =>
        [\A d \in Databases :
           sharedDataMap'[d] # sharedDataMap[d] =>
             \/ sharedDataMap[d] = None
             \/ /\ sharedDataMap'[d] = None
                /\ connection[sharedDataMap[d]] = "closed"]_vars
  <2> SUFFICES ASSUME Counted, OrderInv, ClosedUnmapping, Next,
                      NEW d \in Databases, sharedDataMap'[d] # sharedDataMap[d],
                      sharedDataMap[d] # None
               PROVE  sharedDataMap'[d] = None /\ connection[sharedDataMap[d]] = "closed"
    OBVIOUS
  <2> USE OrderFacts DEF Types
  <2>1. PICK a \in Attachments : Arrive(a) \/ CloseAttachment(a) \/ Proceed(a)
    BY DEF Next
  <2>2. DatabaseOpened(a) \/ SecurityOpened(a) \/ RemoveSharedData(a)
    BY <2>1
       DEF Arrive, Proceed, CreatePlugin, Join, Release, OpenHit, OpenMiss, Connect,
           ConnectFails, FirstDatabaseOpened, SecurityOpenFails, OpenAttachment,
           CloseAttachment, DatabaseClosed, LastDatabaseClosed, SecurityClosed,
           SecurityCloseFails, CloseConnection, CloseConnectionFails, loaderVars
  <2>3. CASE DatabaseOpened(a) \/ SecurityOpened(a)
    <3>1. d = db[a]
      BY <2>3 DEF DatabaseOpened, SecurityOpened, Publish
    <3>2. sharedDataMap[d] = None
      BY <2>3, <3>1 DEF DatabaseOpened, SecurityOpened, OrderInv, ComputesAlone, Computes
    <3>3. QED
      BY <3>2
  <2>4. CASE RemoveSharedData(a)
    <3>1. d = db[a] /\ sharedDataMap'[d] = None /\ pc[a] = "unmapping"
      BY <2>4 DEF RemoveSharedData
    <3>2. sharedDataMap[d] = DataOf(a)
      BY <3>1 DEF OrderInv, EntryInUse, InUse, Closing
    <3>3. QED
      BY <3>1, <3>2 DEF ClosedUnmapping
  <2>5. QED
    BY <2>2, <2>3, <2>4
<1>5. QED
  BY <1>1, <1>2, <1>3, <1>4, PTL DEF Spec, RemovesOnlyClosedData
=============================================================================

---------------------------- MODULE JarStoreProofs ----------------------------
(***************************************************************************)
(* What the transactions of JarRepository show to others when they commit, *)
(* for any number of sessions, names, files and operations.                *)
(***************************************************************************)
EXTENDS JarRepositoryProofs

-----------------------------------------------------------------------------
(* The invariant: what the operations of a transaction have left, as a     *)
(* rollback to the savepoint of the current one would restore it.          *)

Finals == [name : Names, id : Nat, file : Files, here : BOOLEAN]

\* A row that the session has inserted, and is there at the savepoint.
Its(s, j) == j.ins = s /\ Id(j) \notin call[s].added /\ (j.del = s => Id(j) \in call[s].deleted)

\* A JAR that was installed last is there, with all its entries.
IsHere(s) ==
  \A d \in done[s] : d.here =>
    \E j \in jars : j.id = d.id /\ j.name = d.name /\ Its(s, j) /\ AllOf(d.file, j)

\* A JAR that was removed last is deleted, or has gone.
IsGone(s) ==
  \A d \in done[s] : ~d.here =>
    /\ d.id <= seq
    /\ \A j \in jars : j.id = d.id => j.del = s /\ Id(j) \notin call[s].deleted

\* Whatever was deleted was removed last, or another has its name.
Accounted(s) ==
  \A j \in jars : j.del = s /\ Id(j) \notin call[s].deleted =>
    \/ \E d \in done[s] : d.name = j.name /\ ~d.here
    \/ \E k \in jars : k.name = j.name /\ Its(s, k)

\* An operation has one name.
OneName(s) ==
  /\ pc[s] = "idle" => call[s].deleted = {} /\ call[s].added = {}
  /\ \A j \in jars : Id(j) \in call[s].deleted => j.name = call[s].op.name
  /\ Installing(s) => \A j \in jars : j.id = call[s].target => j.name = call[s].op.name

\* The JAR that verbose_remove_jar looked at is the one it removes, or has gone.
LookedAt(s) ==
  /\ pc[s] \in {"cursor", "entries", "entry", "row"} =>
       \A j \in jars : j.id = call[s].checked =>
         j.name = call[s].op.name /\ j.ins \in {None, s} /\ j.del # s
  /\ pc[s] = "row" => \A j \in jars : j.id = call[s].checked => Id(j) = call[s].row

Final(s) == IsHere(s) /\ IsGone(s) /\ Accounted(s) /\ OneName(s) /\ LookedAt(s)

SInv ==
  /\ IInv
  /\ done \in [Sessions -> SUBSET Finals]
  /\ \A s \in Sessions : Final(s)

-----------------------------------------------------------------------------
(* What a step that is no commit does to the rows.                         *)

SameJar(k, r) == k.id = r.id /\ k.name = r.name /\ k.owner = r.owner /\ k.ins = r.ins
SameEntry(k, r) == k.jar = r.jar /\ k.name = r.name /\ k.file = r.file /\ k.ins = r.ins

\* The session may have deleted a row, or may have taken that back.
Touched(s, k, r) == k.del = r.del \/ (k.del \in {None, s} /\ r.del \in {None, s})

\* What the session has not inserted stays, and what is new is its own.
JarsEvolve(s) ==
  /\ \A k \in jars' : \/ k.ins = s /\ k.del = None /\ k.id = seq + 1 /\ k.id = seq'
                      \/ \E r \in jars : SameJar(k, r) /\ Touched(s, k, r)
  /\ \A r \in jars : r.ins # s => \E k \in jars' : SameJar(k, r) /\ Touched(s, k, r)

EntriesEvolve(s) ==
  /\ \A d \in entries' : \/ d.ins = s /\ d.jar = call[s].target /\ Installing(s)
                         \/ \E e \in entries : SameEntry(d, e)
  /\ \A e \in entries : e.ins # s => \E d \in entries' : SameEntry(d, e)

Elsewhere(s) ==
  \A t \in Sessions : t # s => pc'[t] = pc[t] /\ call'[t] = call[t] /\ done'[t] = done[t]

Evolves(s) == JarsEvolve(s) /\ EntriesEvolve(s) /\ Elsewhere(s) /\ seq' \in {seq, seq + 1}

LEMMA SFacts ==
  ASSUME SInv, NEW s \in Sessions
  PROVE  /\ IInv /\ done \in [Sessions -> SUBSET Finals] /\ done[s] \subseteq Finals
         /\ IsHere(s) /\ IsGone(s) /\ Accounted(s) /\ OneName(s) /\ LookedAt(s)
         /\ jars \subseteq JarRows /\ entries \subseteq EntryRows /\ seq \in Nat
         /\ pc \in [Sessions -> Phases] /\ ops \in [Sessions -> 0..MaxOps]
         /\ call \in [Sessions -> Locs] /\ call[s] \in Locs
         /\ None \notin Sessions /\ None \notin EntryNames
         /\ Savepoint(s) /\ Locals(s) /\ Progress(s) /\ Owners(s)
<1>1. IInv /\ done \in [Sessions -> SUBSET Finals] /\ Final(s)
  BY DEF SInv
<1> QED
  BY <1>1, Facts DEF Final

LEMMA JarsKept ==
  ASSUME jars' = jars, NEW s
  PROVE  JarsEvolve(s)
BY DEF JarsEvolve, SameJar, Touched

LEMMA EntriesKept ==
  ASSUME entries' = entries, NEW s
  PROVE  EntriesEvolve(s)
BY DEF EntriesEvolve, SameEntry

\* A rollback.
LEMMA RowsReverted ==
  ASSUME SInv, NEW s \in Sessions, NEW GJ, NEW BJ, NEW GE, NEW BE,
         jars' = {Kept(j, BJ) : j \in jars \ GJ},
         entries' = {Kept(e, BE) : e \in entries \ GE},
         \A j \in GJ : j.ins = s, \A e \in GE : e.ins = s,
         \A j \in BJ : j.del = s
  PROVE  JarsEvolve(s) /\ EntriesEvolve(s)
<1>1. jars \subseteq JarRows /\ entries \subseteq EntryRows
  BY SFacts
<1>2. \A j \in jars : SameJar(Kept(j, BJ), j) /\ Touched(s, Kept(j, BJ), j)
  BY <1>1, JarKept DEF SameJar, Touched
<1>3. \A e \in entries : SameEntry(Kept(e, BE), e)
  BY <1>1, EntryKept DEF SameEntry
<1>4. /\ \A k \in jars' : \E j \in jars : k = Kept(j, BJ)
      /\ \A j \in jars : j.ins # s => Kept(j, BJ) \in jars'
  OBVIOUS
<1>5. /\ \A d \in entries' : \E e \in entries : d = Kept(e, BE)
      /\ \A e \in entries : e.ins # s => Kept(e, BE) \in entries'
  OBVIOUS
<1>6. JarsEvolve(s)
  BY <1>2, <1>4 DEF JarsEvolve
<1>7. EntriesEvolve(s)
  BY <1>3, <1>5 DEF EntriesEvolve
<1> QED
  BY <1>6, <1>7

LEMMA RollbackEvolves ==
  ASSUME SInv, NEW s \in Sessions, Rollback(s)
  PROVE  Evolves(s)
<1> DEFINE GJ == {j \in jars : j.ins = s}
           BJ == {j \in jars : j.del = s}
           GE == {e \in entries : e.ins = s}
           BE == {e \in entries : e.del = s}
<1>1. jars' = {Kept(j, BJ) : j \in jars \ GJ}
  BY DEF Rollback, Kept
<1>2. entries' = {Kept(e, BE) : e \in entries \ GE}
  BY DEF Rollback, Kept
<1>3. Elsewhere(s) /\ seq' = seq
  BY SFacts DEF Rollback, Ended, Elsewhere
<1>4. (\A j \in GJ : j.ins = s) /\ (\A e \in GE : e.ins = s) /\ (\A j \in BJ : j.del = s)
  OBVIOUS
<1>5. JarsEvolve(s) /\ EntriesEvolve(s)
  BY <1>1, <1>2, <1>4, RowsReverted
<1> QED
  BY <1>3, <1>5 DEF Evolves

\* The rows since the savepoint are the session's.
LEMMA AddedIsOwn ==
  ASSUME SInv, NEW s \in Sessions
  PROVE  /\ \A j \in jars : Id(j) \in call[s].added => j.ins = s
         /\ \A e \in entries : Key(e) \in call[s].added => e.ins = s
<1>1. /\ \A j \in jars : Id(j) \in call[s].added => Installing(s) /\ j.id = call[s].target
      /\ \A e \in entries : Key(e) \in call[s].added => Installing(s) /\ e.jar = call[s].target
  BY SFacts DEF Savepoint, Id, Key
<1>2. Installing(s) => \A j \in jars : j.id = call[s].target => j.ins = s
  BY SFacts DEF IInv, Keyed, Progress
<1> QED
  BY <1>1, <1>2, SFacts DEF IInv, Keyed

LEMMA UndoEvolves ==
  ASSUME SInv, NEW s \in Sessions, Undo(s)
  PROVE  JarsEvolve(s) /\ EntriesEvolve(s)
<1> DEFINE GJ == {j \in jars : Id(j) \in call[s].added}
           BJ == {j \in jars : Id(j) \in call[s].deleted}
           GE == {e \in entries : Key(e) \in call[s].added}
           BE == {e \in entries : Key(e) \in call[s].deleted}
<1>1. jars' = {Kept(j, BJ) : j \in jars \ GJ}
  BY DEF Undo, Undeleted, Kept
<1>2. entries' = {Kept(e, BE) : e \in entries \ GE}
  BY DEF Undo, Undeleted, Kept
<1>3. (\A j \in GJ : j.ins = s) /\ (\A e \in GE : e.ins = s) /\ (\A j \in BJ : j.del = s)
  BY AddedIsOwn, SFacts DEF Savepoint
<1> QED
  BY <1>1, <1>2, <1>3, RowsReverted

LEMMA OperationFailsEvolves ==
  ASSUME SInv, NEW s \in Sessions, OperationFails(s)
  PROVE  Evolves(s)
<1>1. CASE s \in Deployers
  BY <1>1, RollbackEvolves DEF OperationFails
<1>2. CASE s \notin Deployers
  <2>1. Undo(s) /\ Finish(s) /\ seq' = seq /\ done' = done
    BY <1>2 DEF OperationFails
  <2>2. Elsewhere(s)
    BY <2>1, SFacts DEF Finish, Elsewhere
  <2> QED
    BY <2>1, <2>2, UndoEvolves DEF Evolves
<1> QED
  BY <1>1, <1>2

LEMMA RemovalFailsEvolves ==
  ASSUME SInv, NEW s \in Sessions, RemovalFails(s)
  PROVE  Evolves(s)
<1>1. CASE call[s].op.kind = "replace"
  <2>1. /\ Undo(s) /\ seq' = seq /\ done' = done /\ pc' = [pc EXCEPT ![s] = "jar"]
        /\ call' = [call EXCEPT ![s].added = {}, ![s].deleted = {}]
    BY <1>1 DEF RemovalFails
  <2>2. Elsewhere(s)
    BY <2>1, SFacts DEF Elsewhere
  <2> QED
    BY <2>1, <2>2, UndoEvolves DEF Evolves
<1>2. CASE call[s].op.kind # "replace"
  BY <1>2, OperationFailsEvolves DEF RemovalFails
<1> QED
  BY <1>1, <1>2

\* Steps that change the locals only.
LocalAction(s) ==
  \/ Begin(s) \/ Check(s) \/ OpenCursor(s) \/ FetchEntry(s) \/ FetchJar(s) \/ JarIsGone(s)
  \/ OpenFile(s) \/ InstallEnds(s)

LEMMA RemovalEndsElsewhere ==
  ASSUME SInv, NEW s \in Sessions, RemovalEnds(s), NEW c,
         call[s].op.kind # "remove" => call' = [call EXCEPT ![s] = c]
  PROVE  Elsewhere(s)
<1>1. CASE call[s].op.kind = "remove"
  BY <1>1, SFacts DEF RemovalEnds, Finish, Elsewhere
<1>2. CASE call[s].op.kind # "remove"
  BY <1>2, SFacts DEF RemovalEnds, Elsewhere
<1> QED
  BY <1>1, <1>2

LEMMA LocalEvolves ==
  ASSUME SInv, NEW s \in Sessions, LocalAction(s)
  PROVE  Evolves(s)
<1>1. UNCHANGED tables
  BY DEF LocalAction, Begin, Check, OpenCursor, FetchEntry, FetchJar, JarIsGone, OpenFile, InstallEnds
<1>2. Elsewhere(s)
  <2>0. /\ pc \in [Sessions -> Phases] /\ call \in [Sessions -> Locs] /\ DOMAIN done = Sessions
    BY SFacts
  <2>1. CASE Begin(s)
    BY <2>0, <2>1 DEF Begin, Elsewhere
  <2>2. CASE Check(s)
    BY <2>0, <2>2 DEF Check, Elsewhere
  <2>3. CASE OpenCursor(s)
    BY <2>0, <2>3 DEF OpenCursor, Elsewhere
  <2>4. CASE FetchEntry(s)
    BY <2>0, <2>4 DEF FetchEntry, Elsewhere
  <2>5. CASE FetchJar(s)
    BY <2>0, <2>5 DEF FetchJar, Elsewhere
  <2>6. CASE JarIsGone(s)
    <3>1. RemovalEnds(s) /\ (call[s].op.kind # "remove" => call' = [call EXCEPT ![s] = call[s]])
      BY <2>0, <2>6 DEF JarIsGone
    <3> QED
      BY <3>1, RemovalEndsElsewhere
  <2>7. CASE OpenFile(s)
    BY <2>0, <2>7 DEF OpenFile, Elsewhere
  <2>8. CASE InstallEnds(s)
    BY <2>0, <2>8 DEF InstallEnds, Finish, Elsewhere
  <2> QED
    BY <2>1, <2>2, <2>3, <2>4, <2>5, <2>6, <2>7, <2>8 DEF LocalAction
<1> QED
  BY <1>1, <1>2, JarsKept, EntriesKept DEF Evolves, tables

LEMMA DeleteEntryEvolves ==
  ASSUME SInv, NEW s \in Sessions, DeleteEntry(s)
  PROVE  Evolves(s)
<1>1. PICK x \in entries : entries' = (entries \ {x}) \cup {[x EXCEPT !.del = s]}
  BY DEF DeleteEntry
<1> DEFINE m == [x EXCEPT !.del = s]
<1>2. SameEntry(m, x)
  BY SFacts, EntryMarked DEF SameEntry
<1> HIDE DEF m
<1>3. EntriesEvolve(s)
  <2>1. \A d \in entries' : d = m \/ d \in entries
    BY <1>1 DEF m
  <2>2. \A e \in entries : e = x \/ e \in entries'
    BY <1>1
  <2>3. m \in entries'
    BY <1>1 DEF m
  <2>4. \A e \in entries : SameEntry(e, e)
    BY DEF SameEntry
  <2> QED
    BY <2>1, <2>2, <2>3, <2>4, <1>2 DEF EntriesEvolve
<1>4. Elsewhere(s) /\ jars' = jars /\ seq' = seq
  BY SFacts DEF DeleteEntry, Elsewhere
<1> QED
  BY <1>3, <1>4, JarsKept DEF Evolves

LEMMA DeleteJarEvolves ==
  ASSUME SInv, NEW s \in Sessions, DeleteJar(s)
  PROVE  Evolves(s)
<1>1. PICK x \in jars : /\ Holders(s, x) = {} /\ jars' = (jars \ {x}) \cup {[x EXCEPT !.del = s]}
  BY DEF DeleteJar
<1> DEFINE m == [x EXCEPT !.del = s]
<1>2. SameJar(m, x) /\ Touched(s, m, x)
  BY <1>1, SFacts, JarMarked DEF SameJar, Touched, Holders
<1> HIDE DEF m
<1>3. JarsEvolve(s)
  <2>1. \A k \in jars' : k = m \/ k \in jars
    BY <1>1 DEF m
  <2>2. \A j \in jars : j = x \/ j \in jars'
    BY <1>1
  <2>3. m \in jars'
    BY <1>1 DEF m
  <2>4. \A j \in jars : SameJar(j, j) /\ Touched(s, j, j)
    BY DEF SameJar, Touched
  <2> QED
    BY <2>1, <2>2, <2>3, <2>4, <1>2 DEF JarsEvolve
<1>4. Elsewhere(s)
  <2>1. /\ RemovalEnds(s) /\ call \in [Sessions -> Locs]
        /\ call[s].op.kind # "remove" => call' = [call EXCEPT ![s].deleted = @ \cup {call[s].row}]
    BY SFacts DEF DeleteJar
  <2>2. call[s].op.kind # "remove" =>
          call' = [call EXCEPT ![s] = [call[s] EXCEPT !.deleted = @ \cup {call[s].row}]]
    BY <2>1
  <2> QED
    BY <2>1, <2>2, RemovalEndsElsewhere
<1> QED
  BY <1>3, <1>4, EntriesKept DEF Evolves, DeleteJar

LEMMA InsertJarEvolves ==
  ASSUME SInv, NEW s \in Sessions, InsertJar(s)
  PROVE  Evolves(s)
<1> DEFINE x == Jar(seq', call[s].op.name, UserOf[s], s)
<1>1. jars' = jars \cup {x} /\ entries' = entries /\ seq' = seq + 1
  BY DEF InsertJar
<1>2. x.ins = s /\ x.del = None /\ x.id = seq + 1
  BY <1>1 DEF Jar
<1> HIDE DEF x
<1>3. JarsEvolve(s)
  BY <1>1, <1>2 DEF JarsEvolve, SameJar, Touched
<1>4. Elsewhere(s)
  BY SFacts DEF InsertJar, Elsewhere
<1> QED
  BY <1>1, <1>3, <1>4, EntriesKept DEF Evolves

LEMMA InsertEntryEvolves ==
  ASSUME SInv, NEW s \in Sessions, InsertEntry(s)
  PROVE  Evolves(s)
<1> DEFINE x == Entry(call[s].target, Head(call[s].todo), call[s].op.file, s)
<1>1. entries' = entries \cup {x} /\ jars' = jars /\ seq' = seq /\ Installing(s)
  BY DEF InsertEntry, Installing
<1>2. x.ins = s /\ x.jar = call[s].target
  BY DEF Entry
<1> HIDE DEF x
<1>3. EntriesEvolve(s)
  BY <1>1, <1>2 DEF EntriesEvolve, SameEntry
<1>4. Elsewhere(s)
  BY SFacts DEF InsertEntry, Elsewhere
<1> QED
  BY <1>1, <1>3, <1>4, JarsKept DEF Evolves

\* Every step is a commit or of this kind.
Failure(s) ==
  \/ CheckFails(s) \/ EntryIsGone(s) \/ DeleteJarFails(s)
  \/ InsertJarFails(s) \/ ReadFails(s) \/ InsertEntryFails(s) \/ DeadlockFails(s)

LEMMA FailureIsOne ==
  ASSUME NEW s \in Sessions, Failure(s)
  PROVE  pc[s] # "idle" /\ (RemovalFails(s) \/ OperationFails(s))
<1>1. CASE CheckFails(s) \/ EntryIsGone(s) \/ DeleteJarFails(s)
  BY <1>1 DEF CheckFails, EntryIsGone, DeleteJarFails
<1>2. CASE InsertJarFails(s) \/ ReadFails(s) \/ InsertEntryFails(s)
  BY <1>2 DEF InsertJarFails, ReadFails, InsertEntryFails
<1>3. CASE DeadlockFails(s)
  BY <1>3, WaitingIsBusy DEF DeadlockFails
<1> QED
  BY <1>1, <1>2, <1>3 DEF Failure

LEMMA NextCases ==
  ASSUME Next
  PROVE  \E s \in Sessions :
           \/ Commit(s) \/ Abort(s) \/ Failure(s) \/ LocalAction(s)
           \/ DeleteEntry(s) \/ DeleteJar(s) \/ InsertJar(s) \/ InsertEntry(s)
BY DEF Next, Proceed, Failure, LocalAction

LEMMA StepEvolves ==
  ASSUME SInv, NEW s \in Sessions,
         \/ Abort(s) \/ Failure(s) \/ LocalAction(s)
         \/ DeleteEntry(s) \/ DeleteJar(s) \/ InsertJar(s) \/ InsertEntry(s)
  PROVE  Evolves(s)
BY RollbackEvolves, FailureIsOne, OperationFailsEvolves, RemovalFailsEvolves, LocalEvolves,
   DeleteEntryEvolves, DeleteJarEvolves, InsertJarEvolves, InsertEntryEvolves DEF Abort

-----------------------------------------------------------------------------
(* A step of a session keeps what the others have left.                    *)

Changed(s, k, j) ==
  /\ k.id = j.id /\ k.name = j.name /\ Touched(s, k, j)
  /\ k.ins = j.ins \/ (j.ins = s /\ k.ins = None)

\* What the rows of others are after a step, a commit included.
Changes(s) ==
  /\ \A k \in jars' : \/ k.ins = s /\ k.del = None /\ k.id = seq + 1
                      \/ \E j \in jars : Changed(s, k, j)
  /\ \A j \in jars : j.ins \notin {None, s} => \E k \in jars' : Changed(s, k, j)
  /\ \A d \in entries' : \/ d.jar = call[s].target /\ Installing(s)
                         \/ \E e \in entries : d.jar = e.jar /\ d.name = e.name /\ d.file = e.file
  /\ \A e \in entries : e.ins \notin {None, s} => \E d \in entries' : d.jar = e.jar /\ d.name = e.name
  /\ Elsewhere(s) /\ seq' \in {seq, seq + 1}

LEMMA EvolvesChanges ==
  ASSUME NEW s, Evolves(s)
  PROVE  Changes(s)
BY DEF Evolves, JarsEvolve, EntriesEvolve, SameJar, SameEntry, Changed, Changes

LEMMA CommitChanges ==
  ASSUME SInv, NEW s \in Sessions, Commit(s)
  PROVE  Changes(s)
<1>1. jars' = CommittedRows(jars, s) /\ entries' = CommittedRows(entries, s) /\ seq' = seq
  BY DEF Commit, Ended
<1>2. jars \subseteq JarRows /\ entries \subseteq EntryRows /\ None \notin Sessions /\ SeenFirst
  BY SFacts DEF IInv
<1>3. \A k \in jars' : \E j \in jars : Changed(s, k, j)
  <2>1. ASSUME NEW k \in jars'
        PROVE  \E j \in jars : Changed(s, k, j)
    <3>1. PICK j \in jars : k = IF j.ins = s THEN [j EXCEPT !.ins = None] ELSE j
      BY <1>1 DEF CommittedRows
    <3>2. k.id = j.id /\ k.name = j.name /\ k.del = j.del /\ k.ins = IF j.ins = s THEN None ELSE j.ins
      BY <3>1, <1>2 DEF JarRows
    <3> QED
      BY <3>2 DEF Changed, Touched
  <2> QED
    BY <2>1
<1>4. \A j \in jars : j.ins \notin {None, s} => j \in jars'
  BY <1>1, <1>2 DEF CommittedRows, SeenFirst
<1>5. \A d \in entries' : \E e \in entries : d.jar = e.jar /\ d.name = e.name /\ d.file = e.file
  <2>1. ASSUME NEW d \in entries'
        PROVE  \E e \in entries : d.jar = e.jar /\ d.name = e.name /\ d.file = e.file
    <3>1. PICK e \in entries : d = IF e.ins = s THEN [e EXCEPT !.ins = None] ELSE e
      BY <1>1 DEF CommittedRows
    <3> QED
      BY <3>1, <1>2 DEF EntryRows
  <2> QED
    BY <2>1
<1>6. \A e \in entries : e.ins \notin {None, s} => e \in entries'
  BY <1>1, <1>2 DEF CommittedRows, SeenFirst
<1>7. Elsewhere(s)
  BY SFacts DEF Commit, Ended, Elsewhere
<1>8. \A j \in jars : Changed(s, j, j)
  BY DEF Changed, Touched
<1> QED
  BY <1>1, <1>3, <1>4, <1>5, <1>6, <1>7, <1>8 DEF Changes

\* Where the row of another session was, it is.
LEMMA OthersRow ==
  ASSUME SInv, NEW s \in Sessions, NEW t \in Sessions, t # s, Changes(s), NEW j \in jars, Its(t, j)
  PROVE  \E k \in jars' : k.id = j.id /\ k.name = j.name /\ Its(t, k)'
<1>1. j.ins = t /\ t # None /\ call'[t] = call[t]
  BY SFacts DEF Its, Changes, Elsewhere
<1>2. PICK k \in jars' : Changed(s, k, j)
  BY <1>1 DEF Changes
<1>3. Id(k) = Id(j) /\ k.ins = t
  BY <1>1, <1>2 DEF Id, Changed
<1>4. k.del = t => j.del = t
  BY <1>1, <1>2 DEF Changed, Touched
<1>5. Its(t, k)'
  BY <1>1, <1>3, <1>4 DEF Its, Id
<1> QED
  BY <1>2, <1>5 DEF Changed

LEMMA OthersEntries ==
  ASSUME SInv, NEW s \in Sessions, NEW t \in Sessions, t # s, Changes(s), NEW j \in jars, j.ins = t,
         NEW f, AllOf(f, j), NEW k, k.id = j.id
  PROVE  AllOf(f, k)'
<1>1. \A e \in entries : e.jar = j.id => e.ins = t
  BY SFacts DEF IInv, Keyed
<1>0. t # None
  BY SFacts
<1>2. Installing(s) => j.id # call[s].target
  <2>1. ASSUME Installing(s), j.id = call[s].target
        PROVE  FALSE
    <3>1. PICK i \in jars : i.id = call[s].target /\ i.ins = s
      BY <2>1, SFacts DEF Progress
    <3> QED
      BY <2>1, <3>1, SFacts DEF IInv, Keyed
  <2> QED
    BY <2>1
<1>3. ASSUME NEW d \in entries', d.jar = k.id
      PROVE  d.file = f /\ d.name \in RangeOf(EntriesOf[f])
  <2>1. PICK e \in entries : d.jar = e.jar /\ d.name = e.name /\ d.file = e.file
    BY <1>2, <1>3 DEF Changes
  <2> QED
    BY <2>1, <1>3 DEF AllOf
<1>4. ASSUME NEW n \in RangeOf(EntriesOf[f])
      PROVE  \E d \in entries' : d.jar = k.id /\ d.name = n
  <2>1. PICK e \in entries : e.jar = j.id /\ e.name = n
    BY DEF AllOf
  <2>2. PICK d \in entries' : d.jar = e.jar /\ d.name = e.name
    BY <1>0, <1>1, <2>1 DEF Changes
  <2> QED
    BY <2>1, <2>2
<1> QED
  BY <1>3, <1>4 DEF AllOf

LEMMA OthersFinal ==
  ASSUME SInv, NEW s \in Sessions, NEW t \in Sessions, t # s, Changes(s)
  PROVE  Final(t)'
<1> USE DEF Id
<1>1. pc'[t] = pc[t] /\ call'[t] = call[t] /\ done'[t] = done[t] /\ seq' \in {seq, seq + 1}
  BY DEF Changes, Elsewhere
<1>2. /\ IsHere(t) /\ IsGone(t) /\ Accounted(t) /\ OneName(t) /\ LookedAt(t)
      /\ Savepoint(t) /\ Locals(t) /\ Owners(t) /\ call[t] \in Locs /\ done[t] \subseteq Finals
      /\ seq \in Nat /\ None \notin Sessions /\ jars \subseteq JarRows
  BY SFacts
\* A row is one that was there, unless its id is beyond those that t knows.
<1>3. \A k \in jars' : \/ k.id = seq + 1 /\ k.ins = s /\ k.del = None
                       \/ \E j \in jars : Changed(s, k, j)
  BY DEF Changes
<1>4. IsHere(t)'
  <2>1. ASSUME NEW d \in done'[t], d.here
        PROVE  \E k \in jars' : k.id = d.id /\ k.name = d.name /\ Its(t, k)' /\ AllOf(d.file, k)'
    <3>1. PICK j \in jars : j.id = d.id /\ j.name = d.name /\ Its(t, j) /\ AllOf(d.file, j)
      BY <2>1, <1>1, <1>2 DEF IsHere
    <3>2. PICK k \in jars' : k.id = j.id /\ k.name = j.name /\ Its(t, k)'
      BY <3>1, OthersRow
    <3>3. AllOf(d.file, k)'
      BY <3>1, <3>2, OthersEntries DEF Its
    <3> QED
      BY <3>1, <3>2, <3>3
  <2> QED
    BY <2>1, Zenon DEF IsHere, Its, AllOf
<1>5. IsGone(t)'
  <2>1. ASSUME NEW d \in done[t], ~d.here
        PROVE  d.id <= seq' /\ \A k \in jars' : k.id = d.id => k.del = t /\ Id(k) \notin call[t].deleted
    <3>1. /\ d.id \in Nat /\ d.id <= seq
          /\ \A j \in jars : j.id = d.id => j.del = t /\ Id(j) \notin call[t].deleted
      BY <2>1, <1>2 DEF IsGone, Finals
    <3>2. ASSUME NEW k \in jars', k.id = d.id
          PROVE  k.del = t /\ Id(k) \notin call[t].deleted
      <4>1. k.id # seq + 1
        BY <3>1, <3>2, <1>2
      <4>2. PICK j \in jars : Changed(s, k, j)
        BY <4>1, <1>3
      <4> QED
        BY <3>1, <3>2, <4>2, <1>2 DEF Changed, Touched
    <3> QED
      BY <3>1, <3>2, <1>1, <1>2
  <2> QED
    BY <2>1, <1>1 DEF IsGone
<1>6. Accounted(t)'
  <2>1. ASSUME NEW k \in jars', k.del = t, Id(k) \notin call[t].deleted
        PROVE  \/ \E d \in done[t] : d.name = k.name /\ ~d.here
               \/ \E i \in jars' : i.name = k.name /\ Its(t, i)'
    <3>1. PICK j \in jars : Changed(s, k, j)
      BY <2>1, <1>2, <1>3
    <3>2. j.del = t /\ Id(j) \notin call[t].deleted /\ j.name = k.name
      BY <2>1, <3>1, <1>2 DEF Changed, Touched
    <3>3. CASE \E d \in done[t] : d.name = j.name /\ ~d.here
      BY <3>2, <3>3
    <3>4. CASE \E i \in jars : i.name = j.name /\ Its(t, i)
      BY <3>2, <3>4, OthersRow
    <3> QED
      BY <3>2, <3>3, <3>4, <1>2 DEF Accounted
  <2> QED
    BY <2>1, <1>1, Zenon DEF Accounted, Its
<1>7. OneName(t)'
  <2>1. ASSUME NEW k \in jars', Id(k) \in call[t].deleted
        PROVE  k.name = call[t].op.name
    <3>1. k.id <= seq /\ k.id # seq + 1
      <4>1. k.id <= seq
        BY <2>1, <1>2 DEF Savepoint
      <4>2. k.id \in Nat
        BY <2>1, <1>2 DEF Locs, Keys, Ids
      <4> QED
        BY <4>1, <4>2, <1>2
    <3>2. PICK j \in jars : Changed(s, k, j)
      BY <3>1, <1>3
    <3> QED
      BY <2>1, <3>2, <1>2 DEF OneName, Changed
  <2>2. ASSUME Installing(t), NEW k \in jars', k.id = call[t].target
        PROVE  k.name = call[t].op.name
    <3>1. k.id # seq + 1
      BY <2>2, <1>2 DEF Locals, Locs
    <3>2. PICK j \in jars : Changed(s, k, j)
      BY <3>1, <1>3
    <3> QED
      BY <2>2, <3>2, <1>2 DEF OneName, Changed
  <2> QED
    BY <2>1, <2>2, <1>1, <1>2 DEF OneName, Installing
<1>8. LookedAt(t)'
  <2>1. ASSUME NEW k \in jars', k.id = call[t].checked
        PROVE  \E j \in jars : Changed(s, k, j)
    <3>1. k.id # seq + 1
      BY <2>1, <1>2 DEF Owners, Locs
    <3> QED
      BY <3>1, <1>3
  <2>2. ASSUME pc[t] \in {"cursor", "entries", "entry", "row"}, NEW k \in jars', k.id = call[t].checked
        PROVE  k.name = call[t].op.name /\ k.ins \in {None, t} /\ k.del # t
    <3>1. PICK j \in jars : Changed(s, k, j)
      BY <2>1, <2>2
    <3> QED
      BY <2>2, <3>1, <1>2 DEF LookedAt, Changed, Touched
  <2>3. ASSUME pc[t] = "row", NEW k \in jars', k.id = call[t].checked
        PROVE  Id(k) = call[t].row
    <3>1. PICK j \in jars : Changed(s, k, j)
      BY <2>1, <2>3
    <3> QED
      BY <2>3, <3>1, <1>2 DEF LookedAt, Changed
  <2> QED
    BY <2>2, <2>3, <1>1 DEF LookedAt
<1> QED
  BY <1>4, <1>5, <1>6, <1>7, <1>8 DEF Final

-----------------------------------------------------------------------------
(* A step keeps what its own session has left.                             *)

\* Between two operations there is nothing but what the last ones left.
LEMMA IdleFinal ==
  ASSUME NEW s \in Sessions, pc'[s] = "idle", call'[s] = NoCall
  PROVE  OneName(s)' /\ LookedAt(s)'
<1>1. call'[s].deleted = {} /\ call'[s].added = {}
  BY NoCallType
<1> QED
  BY <1>1 DEF OneName, LookedAt, Installing

LEMMA RollbackFinal ==
  ASSUME SInv, NEW s \in Sessions, Rollback(s)
  PROVE  Final(s)'
<1>1. pc'[s] = "idle" /\ call'[s] = NoCall /\ done'[s] = {}
  BY SFacts DEF Rollback, Ended
<1>2. \A k \in jars' : k.del # s
  <2>1. ASSUME NEW k \in jars'
        PROVE  k.del # s
    <3>1. PICK j \in jars : k = IF j.del = s THEN [j EXCEPT !.del = None] ELSE j
      BY DEF Rollback
    <3>2. k.del = IF j.del = s THEN None ELSE j.del
      BY <3>1, SFacts DEF JarRows
    <3> QED
      BY <3>2, SFacts
  <2> QED
    BY <2>1
<1>3. IsHere(s)' /\ IsGone(s)' /\ Accounted(s)'
  BY <1>1, <1>2 DEF IsHere, IsGone, Accounted
<1> QED
  BY <1>1, <1>3, IdleFinal DEF Final

LEMMA CommitFinal ==
  ASSUME SInv, NEW s \in Sessions, Commit(s)
  PROVE  Final(s)'
<1>1. pc'[s] = "idle" /\ call'[s] = NoCall /\ done'[s] = {}
  BY SFacts DEF Commit, Ended
<1>2. \A k \in jars' : k.del # s
  <2>1. ASSUME NEW k \in jars'
        PROVE  k.del # s
    <3>1. PICK j \in jars : j.del # s /\ k = IF j.ins = s THEN [j EXCEPT !.ins = None] ELSE j
      BY DEF Commit, CommittedRows
    <3>2. k.del = j.del
      BY <3>1, SFacts DEF JarRows
    <3> QED
      BY <3>1, <3>2
  <2> QED
    BY <2>1
<1>3. IsHere(s)' /\ IsGone(s)' /\ Accounted(s)'
  BY <1>1, <1>2 DEF IsHere, IsGone, Accounted
<1> QED
  BY <1>1, <1>3, IdleFinal DEF Final

\* The savepoint is what the invariant is about.
LEMMA UndoFinal ==
  ASSUME SInv, NEW s \in Sessions, Undo(s), seq' = seq, done'[s] = done[s],
         pc'[s] \in {"idle", "jar"}, call'[s].added = {}, call'[s].deleted = {}
  PROVE  Final(s)'
<1> USE DEF Id
<1> DEFINE BJ == {j \in jars : Id(j) \in call[s].deleted}
           BE == {e \in entries : Key(e) \in call[s].deleted}
<1>0. /\ IsHere(s) /\ IsGone(s) /\ Accounted(s) /\ Savepoint(s) /\ None \notin Sessions
      /\ jars \subseteq JarRows /\ entries \subseteq EntryRows
  BY SFacts
<1>1. /\ jars' = {Kept(j, BJ) : j \in {k \in jars : Id(k) \notin call[s].added}}
      /\ entries' = {Kept(e, BE) : e \in {d \in entries : Key(d) \notin call[s].added}}
  BY DEF Undo, Undeleted, Kept
<1>2. ASSUME NEW j \in jars
      PROVE  /\ Kept(j, BJ).id = j.id /\ Kept(j, BJ).name = j.name /\ Kept(j, BJ).ins = j.ins
             /\ Kept(j, BJ).del = s <=> j.del = s /\ Id(j) \notin call[s].deleted
  BY <1>0, JarKept
<1>3. ASSUME NEW e \in entries
      PROVE  /\ Kept(e, BE).jar = e.jar /\ Kept(e, BE).name = e.name /\ Kept(e, BE).file = e.file
  BY <1>0, EntryKept
<1>4. \A k \in jars' : \E j \in jars :
        k.id = j.id /\ k.name = j.name /\ (k.del = s <=> j.del = s /\ Id(j) \notin call[s].deleted)
  <2>1. \A k \in jars' : \E j \in jars : k = Kept(j, BJ)
    BY <1>1
  <2> HIDE DEF BJ
  <2> QED
    BY <2>1, <1>2
<1>5. \A j \in jars : Id(j) \notin call[s].added => \E k \in jars' :
        /\ k.id = j.id /\ k.name = j.name /\ k.ins = j.ins
        /\ k.del = s <=> j.del = s /\ Id(j) \notin call[s].deleted
  <2>1. \A j \in jars : Id(j) \notin call[s].added => Kept(j, BJ) \in jars'
    BY <1>1
  <2> QED
    BY <2>1, <1>2
<1>6. \A d \in entries' : \E e \in entries : d.jar = e.jar /\ d.name = e.name /\ d.file = e.file
  BY <1>1, <1>3
<1>7. \A e \in entries : Key(e) \notin call[s].added =>
        \E d \in entries' : d.jar = e.jar /\ d.name = e.name /\ d.file = e.file
  <2>1. \A e \in entries : Key(e) \notin call[s].added => Kept(e, BE) \in entries'
    BY <1>1
  <2> QED
    BY <2>1, <1>3
<1> HIDE DEF BJ, BE
<1>8. ASSUME NEW j \in jars, Its(s, j)
      PROVE  \E k \in jars' : k.id = j.id /\ k.name = j.name /\ Its(s, k)'
  <2>1. PICK k \in jars' :
          /\ k.id = j.id /\ k.name = j.name /\ k.ins = j.ins
          /\ k.del = s <=> j.del = s /\ Id(j) \notin call[s].deleted
    BY <1>5, <1>8 DEF Its
  <2>2. k.ins = s /\ k.del # s
    BY <2>1, <1>8 DEF Its
  <2> QED
    BY <2>1, <2>2 DEF Its
<1>9. IsHere(s)'
  <2>1. ASSUME NEW d \in done'[s], d.here
        PROVE  \E k \in jars' : k.id = d.id /\ k.name = d.name /\ Its(s, k)' /\ AllOf(d.file, k)'
    <3>1. PICK j \in jars : j.id = d.id /\ j.name = d.name /\ Its(s, j) /\ AllOf(d.file, j)
      BY <2>1, <1>0 DEF IsHere
    <3>2. \A e \in entries : e.jar = j.id => Key(e) \notin call[s].added
      <4>1. Id(j) \notin call[s].added
        BY <3>1 DEF Its
      <4> QED
        BY <4>1, <1>0 DEF Savepoint, Key
    <3>3. PICK k \in jars' : k.id = j.id /\ k.name = j.name /\ Its(s, k)'
      BY <3>1, <1>8
    <3>4. \A e \in entries' : e.jar = j.id => e.file = d.file /\ e.name \in RangeOf(EntriesOf[d.file])
      BY <3>1, <1>6 DEF AllOf
    <3>5. \A n \in RangeOf(EntriesOf[d.file]) : \E e \in entries' : e.jar = j.id /\ e.name = n
      BY <3>1, <3>2, <1>7 DEF AllOf
    <3>6. AllOf(d.file, k)'
      BY <3>3, <3>4, <3>5 DEF AllOf
    <3> QED
      BY <3>1, <3>3, <3>6
  <2> QED
    BY <2>1, Zenon DEF IsHere, Its, AllOf
<1>10. IsGone(s)'
  <2>1. ASSUME NEW d \in done[s], ~d.here
        PROVE  d.id <= seq /\ \A k \in jars' : k.id = d.id => k.del = s
    <3>1. d.id <= seq /\ \A j \in jars : j.id = d.id => j.del = s /\ Id(j) \notin call[s].deleted
      BY <2>1, <1>0 DEF IsGone
    <3> QED
      BY <3>1, <1>4
  <2> QED
    BY <2>1 DEF IsGone
<1>11. Accounted(s)'
  <2>1. ASSUME NEW k \in jars', k.del = s
        PROVE  \/ \E d \in done[s] : d.name = k.name /\ ~d.here
               \/ \E i \in jars' : i.name = k.name /\ Its(s, i)'
    <3>1. PICK j \in jars : j.del = s /\ Id(j) \notin call[s].deleted /\ j.name = k.name
      BY <2>1, <1>4
    <3>2. CASE \E d \in done[s] : d.name = j.name /\ ~d.here
      BY <3>1, <3>2
    <3>3. CASE \E i \in jars : i.name = j.name /\ Its(s, i)
      <4>1. PICK i \in jars : i.name = j.name /\ Its(s, i)
        BY <3>3
      <4>2. PICK k2 \in jars' : k2.id = i.id /\ k2.name = i.name /\ Its(s, k2)'
        BY <4>1, <1>8
      <4> QED
        BY <4>1, <4>2, <3>1
    <3> QED
      BY <3>1, <3>2, <3>3, <1>0 DEF Accounted
  <2> QED
    BY <2>1, Zenon DEF Accounted, Its
<1>12. OneName(s)' /\ LookedAt(s)'
  BY DEF OneName, LookedAt, Installing
<1> QED
  BY <1>9, <1>10, <1>11, <1>12 DEF Final

LEMMA FailureFinal ==
  ASSUME SInv, NEW s \in Sessions, Failure(s)
  PROVE  Final(s)'
<1>1. CASE OperationFails(s)
  <2>1. CASE s \in Deployers
    BY <1>1, <2>1, RollbackFinal DEF OperationFails
  <2>2. CASE s \notin Deployers
    <3>1. Undo(s) /\ Finish(s) /\ seq' = seq /\ done' = done
      BY <1>1, <2>2 DEF OperationFails
    <3>2. pc'[s] = "idle" /\ call'[s] = NoCall
      BY <3>1, SFacts DEF Finish
    <3> QED
      BY <3>1, <3>2, NoCallType, UndoFinal
  <2> QED
    BY <2>1, <2>2
<1>2. CASE RemovalFails(s) /\ call[s].op.kind = "replace"
  <2>1. /\ Undo(s) /\ seq' = seq /\ done' = done /\ pc' = [pc EXCEPT ![s] = "jar"]
        /\ call' = [call EXCEPT ![s].added = {}, ![s].deleted = {}]
    BY <1>2 DEF RemovalFails
  <2>2. pc'[s] = "jar" /\ call'[s].added = {} /\ call'[s].deleted = {}
    BY <2>1, SFacts DEF Locs
  <2> QED
    BY <2>1, <2>2, UndoFinal
<1>3. CASE RemovalFails(s) /\ call[s].op.kind # "replace"
  BY <1>1, <1>3 DEF RemovalFails
<1> QED
  BY <1>1, <1>2, <1>3, FailureIsOne

\* A step that no JAR notices.
LEMMA QuietFinal ==
  ASSUME SInv, NEW s \in Sessions, jars' = jars, seq' = seq, done'[s] = done[s],
         \A j \in jars : Id(j) \in call'[s].added <=> Id(j) \in call[s].added,
         \A j \in jars : Id(j) \in call'[s].deleted <=> Id(j) \in call[s].deleted,
         \A j \in jars : \A f \in Files : Its(s, j) /\ AllOf(f, j) => AllOf(f, j)'
  PROVE  IsHere(s)' /\ IsGone(s)' /\ Accounted(s)'
<1>0. IsHere(s) /\ IsGone(s) /\ Accounted(s) /\ done[s] \subseteq Finals
  BY SFacts
<1>1. \A j \in jars : Its(s, j) => Its(s, j)'
  BY DEF Its, Id
<1>2. IsHere(s)'
  <2>1. ASSUME NEW d \in done'[s], d.here
        PROVE  \E k \in jars' : k.id = d.id /\ k.name = d.name /\ Its(s, k)' /\ AllOf(d.file, k)'
    <3>1. d.file \in Files
      BY <2>1, <1>0 DEF Finals
    <3>2. PICK j \in jars : j.id = d.id /\ j.name = d.name /\ Its(s, j) /\ AllOf(d.file, j)
      BY <2>1, <1>0 DEF IsHere
    <3>3. Its(s, j)' /\ AllOf(d.file, j)'
      BY <3>1, <3>2, <1>1
    <3> QED
      BY <3>2, <3>3
  <2> QED
    BY <2>1, Zenon DEF IsHere, Its, AllOf
<1>3. IsGone(s)'
  BY <1>0 DEF IsGone, Id
<1>4. Accounted(s)'
  <2>1. ASSUME NEW k \in jars', k.del = s, Id(k) \notin call'[s].deleted
        PROVE  \/ \E d \in done'[s] : d.name = k.name /\ ~d.here
               \/ \E i \in jars' : i.name = k.name /\ Its(s, i)'
    <3>1. \/ \E d \in done[s] : d.name = k.name /\ ~d.here
          \/ \E i \in jars : i.name = k.name /\ Its(s, i)
      BY <2>1, <1>0 DEF Accounted
    <3> QED
      BY <3>1, <1>1
  <2> QED
    BY <2>1, Zenon DEF Accounted, Its, Id
<1> QED
  BY <1>2, <1>3, <1>4

\* The same locals of the operation and the same savepoint.
LEMMA QuietStep ==
  ASSUME SInv, NEW s \in Sessions, UNCHANGED tables, done'[s] = done[s],
         call'[s].added = call[s].added, call'[s].deleted = call[s].deleted
  PROVE  IsHere(s)' /\ IsGone(s)' /\ Accounted(s)'
<1>1. jars' = jars /\ entries' = entries /\ seq' = seq
  BY DEF tables
<1>2. \A j \in jars : \A f \in Files : AllOf(f, j) => AllOf(f, j)'
  BY <1>1 DEF AllOf
<1> QED
  BY <1>1, <1>2, QuietFinal

\* A JAR that the session sees has its name for itself.
LEMMA SeenIsOnly ==
  ASSUME SInv, NEW s \in Sessions, NEW j \in Named(s), NEW k \in jars,
         k.name = j.name, k.ins \in {None, s}, k.del # s
  PROVE  k = j
<1>1. j \in jars /\ j.ins \in {None, s} /\ j.del # s /\ None \notin Sessions
  BY SFacts DEF Named, Visible
<1>2. \A t \in Sessions : ~Follows(t, j, k, Id(j), Id(k)) /\ ~Follows(t, k, j, Id(k), Id(j))
  BY <1>1 DEF Follows
<1> QED
  BY <1>1, <1>2, SFacts DEF IInv, Named1

LEMMA LocalFinal ==
  ASSUME SInv, NEW s \in Sessions,
         \/ Begin(s) \/ Check(s) \/ OpenCursor(s) \/ FetchEntry(s) \/ FetchJar(s) \/ OpenFile(s)
         \/ JarIsGone(s) /\ call[s].op.kind # "remove"
  PROVE  Final(s)'
<1>0. /\ OneName(s) /\ LookedAt(s) /\ Owners(s) /\ jars \subseteq JarRows
      /\ pc \in [Sessions -> Phases] /\ call \in [Sessions -> Locs] /\ call[s] \in Locs
      /\ None \notin Sessions
  BY SFacts
<1>1. UNCHANGED tables /\ done' = done
  BY DEF Begin, Check, OpenCursor, FetchEntry, FetchJar, OpenFile, JarIsGone, RemovalEnds
<1>2. CASE Begin(s)
  <2>1. PICK o \in Operations :
          /\ call' = [call EXCEPT ![s] = [NoCall EXCEPT !.op = o]]
          /\ pc' = [pc EXCEPT ![s] = IF o.kind = "install" THEN "jar" ELSE "check"]
    BY <1>2 DEF Begin
  <2>2. [NoCall EXCEPT !.op = o].added = {} /\ [NoCall EXCEPT !.op = o].deleted = {}
    BY NoCallType DEF Locs
  <2>3. call'[s].added = {} /\ call'[s].deleted = {} /\ pc'[s] \in {"jar", "check"}
    BY <2>1, <2>2, <1>0
  <2>4. call[s].added = {} /\ call[s].deleted = {}
    BY <1>0, <1>2 DEF Begin, OneName
  <2>5. IsHere(s)' /\ IsGone(s)' /\ Accounted(s)'
    BY <1>1, <2>3, <2>4, QuietStep
  <2>6. OneName(s)' /\ LookedAt(s)'
    BY <2>3 DEF OneName, LookedAt, Installing
  <2> QED
    BY <2>5, <2>6 DEF Final
<1>3. CASE Check(s)
  <2>1. PICK j \in Named(s) : call' = [call EXCEPT ![s].checked = j.id]
    BY <1>3 DEF Check
  <2>2. /\ pc[s] = "check" /\ pc'[s] = "cursor" /\ call'[s].checked = j.id
        /\ call'[s].added = call[s].added /\ call'[s].deleted = call[s].deleted
        /\ call'[s].op = call[s].op
    BY <2>1, <1>0, <1>3 DEF Check, Locs
  <2>3. \A k \in jars : k.id = j.id => k = j
    BY SFacts DEF Named, IInv, Keyed
  <2>4. IsHere(s)' /\ IsGone(s)' /\ Accounted(s)'
    BY <1>1, <2>2, QuietStep
  <2>5. OneName(s)'
    BY <1>0, <1>1, <2>2 DEF OneName, Installing, tables, Id
  <2>6. LookedAt(s)'
    <3>1. j.name = call[s].op.name /\ j.ins \in {None, s} /\ j.del # s
      BY DEF Named, Visible
    <3> QED
      BY <3>1, <1>1, <2>2, <2>3 DEF LookedAt, tables
  <2> QED
    BY <2>4, <2>5, <2>6 DEF Final
<1>4. CASE OpenCursor(s)
  <2>1. /\ pc[s] = "cursor" /\ pc'[s] = "entries" /\ call'[s].checked = call[s].checked
        /\ call'[s].added = call[s].added /\ call'[s].deleted = call[s].deleted
        /\ call'[s].op = call[s].op
    BY <1>0, <1>4 DEF OpenCursor, Locs
  <2>2. IsHere(s)' /\ IsGone(s)' /\ Accounted(s)'
    BY <1>1, <2>1, QuietStep
  <2>3. OneName(s)' /\ LookedAt(s)'
    BY <1>0, <1>1, <2>1 DEF OneName, LookedAt, Installing, tables, Id
  <2> QED
    BY <2>2, <2>3 DEF Final
<1>5. CASE FetchEntry(s)
  <2>1. /\ pc[s] = "entries" /\ pc'[s] = "entry" /\ call'[s].checked = call[s].checked
        /\ call'[s].added = call[s].added /\ call'[s].deleted = call[s].deleted
        /\ call'[s].op = call[s].op
    BY <1>0, <1>5 DEF FetchEntry, Locs
  <2>2. IsHere(s)' /\ IsGone(s)' /\ Accounted(s)'
    BY <1>1, <2>1, QuietStep
  <2>3. OneName(s)' /\ LookedAt(s)'
    BY <1>0, <1>1, <2>1 DEF OneName, LookedAt, Installing, tables, Id
  <2> QED
    BY <2>2, <2>3 DEF Final
<1>6. CASE FetchJar(s)
  <2>1. PICK j \in Named(s) : call' = [call EXCEPT ![s].row = Id(j)]
    BY <1>6 DEF FetchJar
  <2>2. /\ pc[s] = "entries" /\ pc'[s] = "row" /\ call'[s].checked = call[s].checked
        /\ call'[s].added = call[s].added /\ call'[s].deleted = call[s].deleted
        /\ call'[s].op = call[s].op /\ call'[s].row = Id(j)
    BY <2>1, <1>0, <1>6 DEF FetchJar, Locs
  <2>3. IsHere(s)' /\ IsGone(s)' /\ Accounted(s)'
    BY <1>1, <2>2, QuietStep
  <2>4. OneName(s)'
    BY <1>0, <1>1, <2>2 DEF OneName, Installing, tables, Id
  <2>5. ASSUME NEW k \in jars, k.id = call[s].checked
        PROVE  /\ k.name = call[s].op.name /\ k.ins \in {None, s} /\ k.del # s
               /\ Id(k) = Id(j)
    <3>1. k.name = call[s].op.name /\ k.ins \in {None, s} /\ k.del # s
      BY <2>2, <2>5, <1>0 DEF LookedAt
    <3>2. k = j
      BY <3>1, SeenIsOnly DEF Named
    <3> QED
      BY <3>1, <3>2
  <2>6. LookedAt(s)'
    BY <2>2, <2>5, <1>1 DEF LookedAt, tables, Id
  <2> QED
    BY <2>3, <2>4, <2>6 DEF Final
<1>7. CASE OpenFile(s)
  <2>1. /\ pc[s] = "file" /\ pc'[s] = "store" /\ call'[s].target = call[s].target
        /\ call'[s].added = call[s].added /\ call'[s].deleted = call[s].deleted
        /\ call'[s].op = call[s].op
    BY <1>0, <1>7 DEF OpenFile, Locs
  <2>2. IsHere(s)' /\ IsGone(s)' /\ Accounted(s)'
    BY <1>1, <2>1, QuietStep
  <2>3. OneName(s)' /\ LookedAt(s)'
    BY <1>0, <1>1, <2>1 DEF OneName, LookedAt, Installing, tables, Id
  <2> QED
    BY <2>2, <2>3 DEF Final
<1>8. CASE JarIsGone(s) /\ call[s].op.kind # "remove"
  <2>1. pc[s] = "entries" /\ pc'[s] = "jar" /\ call' = call
    BY <1>0, <1>8 DEF JarIsGone, RemovalEnds
  <2>2. IsHere(s)' /\ IsGone(s)' /\ Accounted(s)'
    BY <1>1, <2>1, QuietStep
  <2>3. OneName(s)' /\ LookedAt(s)'
    BY <1>0, <1>1, <2>1 DEF OneName, LookedAt, Installing, tables, Id
  <2> QED
    BY <2>2, <2>3 DEF Final
<1> QED
  BY <1>2, <1>3, <1>4, <1>5, <1>6, <1>7, <1>8

\* The operation ends and has left its name: at most the JAR of that name is
\* deleted with it.
LEMMA LeavesFinal ==
  ASSUME SInv, NEW s \in Sessions, NEW id, NEW here \in BOOLEAN,
         pc[s] # "idle", pc'[s] = "idle", call'[s] = NoCall, done'[s] = Leaves(s, id, here),
         entries' = entries, seq' = seq,
         \A k \in jars' : \E j \in jars :
           /\ k.id = j.id /\ k.name = j.name /\ k.del \in {j.del, s}
           /\ k.name # call[s].op.name => k.del = j.del,
         \A j \in jars : j.name # call[s].op.name => j \in jars',
         here => \E j \in jars' : /\ j.id = id /\ j.name = call[s].op.name /\ j.ins = s /\ j.del # s
                                  /\ AllOf(call[s].op.file, j),
         ~here => id <= seq /\ \A j \in jars' : j.id = id => j.del = s
  PROVE  Final(s)'
<1> USE DEF Id
<1>0. /\ IsHere(s) /\ IsGone(s) /\ Accounted(s) /\ OneName(s)
      /\ call'[s].added = {} /\ call'[s].deleted = {}
  BY SFacts, NoCallType
<1>1. \A d \in done'[s] : \/ d \in done[s] /\ d.name # call[s].op.name
                          \/ /\ d.name = call[s].op.name /\ d.id = id /\ d.file = call[s].op.file
                             /\ d.here = here
  BY DEF Leaves
<1>2. /\ \A d \in done[s] : d.name # call[s].op.name => d \in done'[s]
      /\ \E d \in done'[s] : d.name = call[s].op.name /\ d.here = here
  <2> DEFINE r == [name |-> call[s].op.name, id |-> id, file |-> call[s].op.file, here |-> here]
  <2>1. r.name = call[s].op.name /\ r.here = here
    OBVIOUS
  <2>2. done'[s] = {d \in done[s] : d.name # call[s].op.name} \cup {r}
    BY DEF Leaves
  <2> HIDE DEF r
  <2>3. r \in done'[s] /\ \A d \in done[s] : d.name # call[s].op.name => d \in done'[s]
    BY <2>2
  <2> QED
    BY <2>1, <2>3
<1>3. \A j \in jars : j.name # call[s].op.name => Id(j) \notin call[s].deleted
  BY <1>0 DEF OneName
<1>4. ASSUME NEW f, NEW j, AllOf(f, j)
      PROVE  AllOf(f, j)'
  BY <1>4 DEF AllOf
<1>5. IsHere(s)'
  <2>1. ASSUME NEW d \in done'[s], d.here
        PROVE  \E k \in jars' : k.id = d.id /\ k.name = d.name /\ Its(s, k)' /\ AllOf(d.file, k)'
    <3>1. CASE d \in done[s] /\ d.name # call[s].op.name
      <4>1. PICK j \in jars : j.id = d.id /\ j.name = d.name /\ Its(s, j) /\ AllOf(d.file, j)
        BY <2>1, <3>1, <1>0 DEF IsHere
      <4>2. j \in jars' /\ j.ins = s /\ j.del # s
        BY <4>1, <3>1, <1>3 DEF Its
      <4>3. Its(s, j)'
        BY <4>2, <1>0 DEF Its
      <4> QED
        BY <4>1, <4>2, <4>3, <1>4
    <3>2. CASE d.name = call[s].op.name /\ d.id = id /\ d.file = call[s].op.file /\ d.here = here
      <4>1. PICK j \in jars' : /\ j.id = id /\ j.name = call[s].op.name /\ j.ins = s /\ j.del # s
                               /\ AllOf(call[s].op.file, j)
        BY <2>1, <3>2
      <4>2. Its(s, j)'
        BY <4>1, <1>0 DEF Its
      <4>3. AllOf(d.file, j)'
        BY <4>1, <3>2, <1>4
      <4> QED
        BY <4>1, <4>2, <4>3, <3>2
    <3> QED
      BY <3>1, <3>2, <1>1
  <2> QED
    BY <2>1, Zenon DEF IsHere, Its, AllOf
<1>6. IsGone(s)'
  <2>1. ASSUME NEW d \in done'[s], ~d.here
        PROVE  d.id <= seq /\ \A k \in jars' : k.id = d.id => k.del = s
    <3>1. CASE d \in done[s] /\ d.name # call[s].op.name
      <4>1. d.id <= seq /\ \A j \in jars : j.id = d.id => j.del = s
        BY <2>1, <3>1, <1>0 DEF IsGone
      <4>2. ASSUME NEW k \in jars', k.id = d.id
            PROVE  k.del = s
        BY <4>1, <4>2
      <4> QED
        BY <4>1, <4>2
    <3>2. CASE d.name = call[s].op.name /\ d.id = id /\ d.file = call[s].op.file /\ d.here = here
      BY <2>1, <3>2
    <3> QED
      BY <3>1, <3>2, <1>1
  <2> QED
    BY <2>1, <1>0 DEF IsGone
<1>7. Accounted(s)'
  <2>1. ASSUME NEW k \in jars', k.del = s, Id(k) \notin call'[s].deleted
        PROVE  \/ \E d \in done'[s] : d.name = k.name /\ ~d.here
               \/ \E i \in jars' : i.name = k.name /\ Its(s, i)'
    <3>1. CASE k.name = call[s].op.name /\ ~here
      BY <3>1, <1>2
    <3>2. CASE k.name = call[s].op.name /\ here
      <4>1. PICK j \in jars' : j.name = call[s].op.name /\ j.ins = s /\ j.del # s
        BY <3>2
      <4>2. Its(s, j)'
        BY <4>1, <1>0 DEF Its
      <4>3. j.name = k.name
        BY <4>1, <3>2
      <4> QED
        BY <4>2, <4>3, Zenon
    <3>3. CASE k.name # call[s].op.name
      <4>1. PICK j \in jars : j.name = k.name /\ j.del = s
        BY <2>1, <3>3
      <4>2. Id(j) \notin call[s].deleted
        BY <4>1, <3>3, <1>3
      <4>3. CASE \E d \in done[s] : d.name = j.name /\ ~d.here
        BY <4>1, <4>3, <3>3, <1>2
      <4>4. CASE \E i \in jars : i.name = j.name /\ Its(s, i)
        <5>1. PICK i \in jars : i.name = j.name /\ Its(s, i)
          BY <4>4
        <5>2. i \in jars' /\ i.ins = s /\ i.del # s
          BY <5>1, <4>1, <3>3, <1>3 DEF Its
        <5>3. Its(s, i)'
          BY <5>2, <1>0 DEF Its
        <5> QED
          BY <5>1, <5>2, <5>3, <4>1
      <4> QED
        BY <4>1, <4>2, <4>3, <4>4, <1>0 DEF Accounted
    <3> QED
      BY <3>1, <3>2, <3>3
  <2> QED
    BY <2>1, Zenon DEF Accounted, Its
<1>8. OneName(s)' /\ LookedAt(s)'
  BY IdleFinal
<1> QED
  BY <1>5, <1>6, <1>7, <1>8 DEF Final

LEMMA JarIsGoneFinal ==
  ASSUME SInv, NEW s \in Sessions, JarIsGone(s), call[s].op.kind = "remove"
  PROVE  Final(s)'
<1>1. /\ pc[s] = "entries" /\ Named(s) = {} /\ jars' = jars /\ entries' = entries /\ seq' = seq
      /\ done'[s] = Leaves(s, call[s].checked, FALSE) /\ pc'[s] = "idle" /\ call'[s] = NoCall
  BY SFacts DEF JarIsGone, RemovalEnds, Finish, tables
<1>2. call[s].checked <= seq
  BY SFacts DEF Owners
<1>3. \A j \in jars : j.id # call[s].checked
  BY <1>1, SFacts DEF LookedAt, Named, Visible
<1> QED
  BY <1>1, <1>2, <1>3, LeavesFinal

LEMMA InstallEndsFinal ==
  ASSUME SInv, NEW s \in Sessions, InstallEnds(s)
  PROVE  Final(s)'
<1>1. /\ pc[s] = "store" /\ jars' = jars /\ entries' = entries /\ seq' = seq /\ call[s].todo = <<>>
      /\ done'[s] = Leaves(s, call[s].target, TRUE) /\ pc'[s] = "idle" /\ call'[s] = NoCall
  BY SFacts DEF InstallEnds, Finish, tables
<1>2. Installing(s) /\ Stored(s) = RangeOf(EntriesOf[call[s].op.file])
  BY <1>1 DEF Installing, Stored, RangeOf
<1>3. PICK j \in jars : j.id = call[s].target /\ j.ins = s /\ j.del = None
  BY <1>2, SFacts DEF Progress
<1>4. AllOf(call[s].op.file, j)
  BY <1>2, <1>3, SFacts DEF Progress, AllOf
<1>5. j.name = call[s].op.name /\ j.del # s
  BY <1>2, <1>3, SFacts DEF OneName
<1>6. \E k \in jars' : /\ k.id = call[s].target /\ k.name = call[s].op.name /\ k.ins = s /\ k.del # s
                       /\ AllOf(call[s].op.file, k)
  BY <1>1, <1>3, <1>4, <1>5
<1> QED
  BY <1>1, <1>6, LeavesFinal

LEMMA DeleteJarFinal ==
  ASSUME SInv, NEW s \in Sessions, DeleteJar(s)
  PROVE  Final(s)'
<1> USE DEF Id
<1>1. PICK x \in jars :
        Id(x) = call[s].row /\ jars' = (jars \ {x}) \cup {[x EXCEPT !.del = s]}
  BY DEF DeleteJar
<1>2. /\ pc[s] = "row" /\ RemovalEnds(s) /\ entries' = entries /\ seq' = seq
      /\ call[s].op.kind # "remove" => call' = [call EXCEPT ![s].deleted = @ \cup {call[s].row}]
  BY DEF DeleteJar
<1>3. /\ IsHere(s) /\ IsGone(s) /\ Accounted(s) /\ OneName(s) /\ LookedAt(s) /\ Locals(s)
      /\ call \in [Sessions -> Locs] /\ call[s] \in Locs /\ pc \in [Sessions -> Phases]
      /\ DOMAIN done = Sessions /\ done[s] \subseteq Finals /\ jars \subseteq JarRows
  BY SFacts
<1>4. x.name = call[s].op.name /\ x.del # s
  BY <1>1, <1>2, <1>3 DEF Locals
<1> DEFINE m == [x EXCEPT !.del = s]
<1>5. m.id = x.id /\ m.name = x.name /\ m.ins = x.ins /\ m.del = s
  BY <1>3, JarMarked
<1>6. /\ m \in jars' /\ \A j \in jars : j = x \/ j \in jars'
      /\ \A k \in jars' : k = m \/ (k \in jars /\ k # x)
  BY <1>1
<1> HIDE DEF m
<1>7. \A j \in jars : Id(j) = call[s].row => j = x
  BY <1>1, SFacts DEF IInv, Keyed
<1>8. CASE call[s].op.kind = "remove"
  <2>1. done'[s] = Leaves(s, call[s].checked, FALSE) /\ pc'[s] = "idle" /\ call'[s] = NoCall
    BY <1>2, <1>3, <1>8 DEF RemovalEnds, Finish
  <2>2. \A k \in jars' : \E j \in jars :
          /\ k.id = j.id /\ k.name = j.name /\ k.del \in {j.del, s}
          /\ k.name # call[s].op.name => k.del = j.del
    BY <1>4, <1>5, <1>6
  <2>3. \A j \in jars : j.name # call[s].op.name => j \in jars'
    BY <1>4, <1>6
  <2>4. call[s].checked <= seq
    BY SFacts DEF Owners
  <2>5. \A k \in jars' : k.id = call[s].checked => k.del = s
    <3>1. \A j \in jars : j.id = call[s].checked => j = x
      BY <1>2, <1>3, <1>7 DEF LookedAt
    <3> QED
      BY <3>1, <1>5, <1>6
  <2> QED
    BY <2>1, <2>2, <2>3, <2>4, <2>5, <1>2, LeavesFinal
<1>9. CASE call[s].op.kind # "remove"
  <2>1. /\ done'[s] = done[s] /\ pc'[s] = "jar" /\ call'[s].added = call[s].added
        /\ call'[s].deleted = call[s].deleted \cup {call[s].row} /\ call'[s].op = call[s].op
    BY <1>2, <1>3, <1>9 DEF RemovalEnds, Locs
  <2>2. ASSUME NEW j \in jars, Its(s, j)
        PROVE  \E k \in jars' : k.id = j.id /\ k.name = j.name /\ Its(s, k)'
    <3>1. CASE j = x
      <4>1. Its(s, m)'
        BY <2>1, <2>2, <3>1, <1>1, <1>5 DEF Its
      <4> QED
        BY <4>1, <3>1, <1>5, <1>6
    <3>2. CASE j # x
      <4>1. Its(s, j)'
        BY <2>1, <2>2 DEF Its
      <4> QED
        BY <4>1, <3>2, <1>6
    <3> QED
      BY <3>1, <3>2
  <2>3. IsHere(s)'
    <3>1. ASSUME NEW d \in done'[s], d.here
          PROVE  \E k \in jars' : k.id = d.id /\ k.name = d.name /\ Its(s, k)' /\ AllOf(d.file, k)'
      <4>1. PICK j \in jars : j.id = d.id /\ j.name = d.name /\ Its(s, j) /\ AllOf(d.file, j)
        BY <2>1, <3>1, <1>3 DEF IsHere
      <4>2. PICK k \in jars' : k.id = j.id /\ k.name = j.name /\ Its(s, k)'
        BY <4>1, <2>2
      <4>3. AllOf(d.file, k)'
        BY <4>1, <4>2, <1>2 DEF AllOf
      <4> QED
        BY <4>1, <4>2, <4>3
    <3> QED
      BY <3>1, Zenon DEF IsHere, Its, AllOf
  <2>4. IsGone(s)'
    <3>1. ASSUME NEW d \in done[s], ~d.here
          PROVE  /\ d.id <= seq
                 /\ \A k \in jars' : k.id = d.id => k.del = s /\ Id(k) \notin call'[s].deleted
      <4>1. d.id <= seq /\ \A j \in jars : j.id = d.id => j.del = s /\ Id(j) \notin call[s].deleted
        BY <3>1, <1>3 DEF IsGone
      <4>2. x.id # d.id
        BY <4>1, <1>4
      <4> QED
        BY <4>1, <4>2, <2>1, <1>5, <1>6, <1>7
    <3> QED
      BY <3>1, <2>1, <1>2 DEF IsGone
  <2>5. Accounted(s)'
    <3>1. ASSUME NEW k \in jars', k.del = s, Id(k) \notin call'[s].deleted
          PROVE  \/ \E d \in done'[s] : d.name = k.name /\ ~d.here
                 \/ \E i \in jars' : i.name = k.name /\ Its(s, i)'
      <4>1. Id(m) = call[s].row
        BY <1>1, <1>5
      <4>2. k \in jars /\ Id(k) \notin call[s].deleted
        BY <4>1, <3>1, <2>1, <1>6
      <4>3. \/ \E d \in done[s] : d.name = k.name /\ ~d.here
            \/ \E i \in jars : i.name = k.name /\ Its(s, i)
        BY <4>2, <3>1, <1>3 DEF Accounted
      <4> QED
        BY <4>3, <2>1, <2>2
    <3> QED
      BY <3>1, Zenon DEF Accounted, Its
  <2>6. OneName(s)'
    <3>1. ASSUME NEW k \in jars', Id(k) \in call'[s].deleted
          PROVE  k.name = call[s].op.name
      <4>1. CASE k = m
        BY <4>1, <1>4, <1>5
      <4>2. CASE k # m
        <5>1. k \in jars /\ Id(k) # call[s].row
          BY <4>2, <1>6, <1>7
        <5> QED
          BY <5>1, <3>1, <2>1, <1>3 DEF OneName
      <4> QED
        BY <4>1, <4>2
    <3> QED
      BY <3>1, <2>1 DEF OneName, Installing
  <2>7. LookedAt(s)'
    BY <2>1 DEF LookedAt
  <2> QED
    BY <2>3, <2>4, <2>5, <2>6, <2>7 DEF Final
<1> QED
  BY <1>8, <1>9

LEMMA DeleteEntryFinal ==
  ASSUME SInv, NEW s \in Sessions, DeleteEntry(s)
  PROVE  Final(s)'
<1>1. PICK x \in entries :
        Key(x) = call[s].row /\ entries' = (entries \ {x}) \cup {[x EXCEPT !.del = s]}
  BY DEF DeleteEntry
<1>2. /\ pc[s] = "entry" /\ jars' = jars /\ seq' = seq /\ done' = done
      /\ call' = [call EXCEPT ![s].deleted = @ \cup {call[s].row}] /\ pc' = [pc EXCEPT ![s] = "entries"]
  BY DEF DeleteEntry
<1>3. /\ OneName(s) /\ LookedAt(s) /\ entries \subseteq EntryRows /\ None \notin EntryNames
      /\ call \in [Sessions -> Locs] /\ call[s] \in Locs /\ pc \in [Sessions -> Phases]
  BY SFacts
<1>4. /\ pc'[s] = "entries" /\ call'[s].added = call[s].added
      /\ call'[s].deleted = call[s].deleted \cup {call[s].row} /\ call'[s].op = call[s].op
      /\ call'[s].checked = call[s].checked
  BY <1>2, <1>3 DEF Locs
<1>5. \A j \in jars : Id(j) # call[s].row
  BY <1>1, <1>3 DEF Id, Key, EntryRows
<1> DEFINE m == [x EXCEPT !.del = s]
<1>6. m.jar = x.jar /\ m.name = x.name /\ m.file = x.file
  BY <1>3, EntryMarked
<1>7. /\ m \in entries' /\ \A e \in entries : e = x \/ e \in entries'
      /\ \A e \in entries' : e = m \/ e \in entries
  BY <1>1
<1> HIDE DEF m
<1>8. ASSUME NEW f, NEW j, AllOf(f, j)
      PROVE  AllOf(f, j)'
  <2>1. \A e \in entries' : e.jar = j.id => e.file = f /\ e.name \in RangeOf(EntriesOf[f])
    BY <1>6, <1>7, <1>8 DEF AllOf
  <2>2. \A n \in RangeOf(EntriesOf[f]) : \E e \in entries' : e.jar = j.id /\ e.name = n
    BY <1>6, <1>7, <1>8 DEF AllOf
  <2> QED
    BY <2>1, <2>2 DEF AllOf
<1>9. IsHere(s)' /\ IsGone(s)' /\ Accounted(s)'
  BY <1>2, <1>4, <1>5, <1>8, QuietFinal
<1>10. OneName(s)' /\ LookedAt(s)'
  BY <1>2, <1>3, <1>4, <1>5 DEF OneName, LookedAt, Installing, Id
<1> QED
  BY <1>9, <1>10 DEF Final

LEMMA InsertJarFinal ==
  ASSUME SInv, NEW s \in Sessions, InsertJar(s)
  PROVE  Final(s)'
<1> USE DEF Id
<1> DEFINE x == Jar(seq', call[s].op.name, UserOf[s], s)
<1>1. /\ pc[s] = "jar" /\ jars' = jars \cup {x} /\ entries' = entries /\ seq' = seq + 1
      /\ done' = done /\ pc' = [pc EXCEPT ![s] = "file"]
      /\ call' = [call EXCEPT ![s].target = seq', ![s].added = @ \cup {<<seq', None>>}]
  BY DEF InsertJar
<1>2. /\ IsHere(s) /\ IsGone(s) /\ Accounted(s) /\ OneName(s) /\ Savepoint(s)
      /\ call \in [Sessions -> Locs] /\ call[s] \in Locs /\ pc \in [Sessions -> Phases]
      /\ done[s] \subseteq Finals /\ seq \in Nat /\ None \notin Sessions
      /\ \A j \in jars : j.id <= seq
  BY SFacts DEF IInv, Keyed
<1>3. /\ x.id = seq + 1 /\ x.name = call[s].op.name /\ x.del = None /\ x \in jars'
      /\ \A k \in jars' : k = x \/ k \in jars
      /\ \A j \in jars : j \in jars'
  BY <1>1 DEF Jar
<1> HIDE DEF x
<1>4. /\ pc'[s] = "file" /\ call'[s].target = seq + 1 /\ call'[s].op = call[s].op
      /\ call'[s].added = call[s].added \cup {<<seq + 1, None>>}
      /\ call'[s].deleted = call[s].deleted
  BY <1>1, <1>2 DEF Locs
<1>5. \A j \in jars : j.id # seq + 1
  BY <1>2
<1>6. ASSUME NEW j \in jars, Its(s, j)
      PROVE  Its(s, j)'
  BY <1>4, <1>5, <1>6 DEF Its
<1>7. IsHere(s)'
  <2>1. ASSUME NEW d \in done'[s], d.here
        PROVE  \E k \in jars' : k.id = d.id /\ k.name = d.name /\ Its(s, k)' /\ AllOf(d.file, k)'
    <3>1. PICK j \in jars : j.id = d.id /\ j.name = d.name /\ Its(s, j) /\ AllOf(d.file, j)
      BY <2>1, <1>1, <1>2 DEF IsHere
    <3>2. AllOf(d.file, j)'
      BY <3>1, <1>1 DEF AllOf
    <3> QED
      BY <3>1, <3>2, <1>3, <1>6
  <2> QED
    BY <2>1, Zenon DEF IsHere, Its, AllOf
<1>8. IsGone(s)'
  <2>1. ASSUME NEW d \in done[s], ~d.here
        PROVE  /\ d.id <= seq + 1
               /\ \A k \in jars' : k.id = d.id => k.del = s /\ Id(k) \notin call[s].deleted
    <3>1. /\ d.id \in Nat /\ d.id <= seq
          /\ \A j \in jars : j.id = d.id => j.del = s /\ Id(j) \notin call[s].deleted
      BY <2>1, <1>2 DEF IsGone, Finals
    <3> QED
      BY <3>1, <1>2, <1>3
  <2> QED
    BY <2>1, <1>1, <1>4 DEF IsGone
<1>9. Accounted(s)'
  <2>1. ASSUME NEW k \in jars', k.del = s, Id(k) \notin call'[s].deleted
        PROVE  \/ \E d \in done'[s] : d.name = k.name /\ ~d.here
               \/ \E i \in jars' : i.name = k.name /\ Its(s, i)'
    <3>1. k \in jars /\ Id(k) \notin call[s].deleted
      BY <2>1, <1>2, <1>3, <1>4
    <3>2. \/ \E d \in done[s] : d.name = k.name /\ ~d.here
          \/ \E i \in jars : i.name = k.name /\ Its(s, i)
      BY <3>1, <2>1, <1>2 DEF Accounted
    <3> QED
      BY <3>2, <1>1, <1>3, <1>6
  <2> QED
    BY <2>1, Zenon DEF Accounted, Its
<1>10. OneName(s)'
  <2>1. Id(x) \notin call[s].deleted
    BY <1>2, <1>3 DEF Savepoint
  <2>2. \A k \in jars' : Id(k) \in call'[s].deleted => k.name = call'[s].op.name
    BY <2>1, <1>2, <1>3, <1>4 DEF OneName
  <2>3. \A k \in jars' : k.id = call'[s].target => k.name = call'[s].op.name
    BY <1>3, <1>4, <1>5
  <2> QED
    BY <2>2, <2>3, <1>4 DEF OneName
<1>11. LookedAt(s)'
  BY <1>4 DEF LookedAt
<1> QED
  BY <1>7, <1>8, <1>9, <1>10, <1>11 DEF Final

LEMMA InsertEntryFinal ==
  ASSUME SInv, NEW s \in Sessions, InsertEntry(s)
  PROVE  Final(s)'
<1> DEFINE x == Entry(call[s].target, Head(call[s].todo), call[s].op.file, s)
<1>1. /\ pc[s] = "store" /\ jars' = jars /\ seq' = seq /\ pc' = pc /\ done' = done
      /\ call[s].todo # <<>> /\ entries' = entries \cup {x}
      /\ call' = [call EXCEPT ![s].added = @ \cup {Key(x)}, ![s].todo = Tail(@)]
  BY DEF InsertEntry
<1>2. /\ OneName(s) /\ LookedAt(s) /\ Savepoint(s) /\ None \notin EntryNames
      /\ call \in [Sessions -> Locs] /\ call[s] \in Locs
  BY SFacts
<1>3. x.jar = call[s].target /\ x.name \in EntryNames
  <2>1. call[s].todo \in Seq(EntryNames)
    BY <1>2 DEF Locs
  <2>2. Head(call[s].todo) \in EntryNames
    BY <2>1, <1>1
  <2> QED
    BY <2>2 DEF Entry
<1> HIDE DEF x
<1>4. /\ call'[s].added = call[s].added \cup {Key(x)} /\ call'[s].deleted = call[s].deleted
      /\ call'[s].op = call[s].op /\ call'[s].checked = call[s].checked
      /\ call'[s].target = call[s].target /\ call'[s].row = call[s].row
  BY <1>1, <1>2 DEF Locs
<1>5. \A j \in jars : Id(j) # Key(x)
  BY <1>2, <1>3 DEF Id, Key
<1>6. ASSUME NEW j \in jars, NEW f \in Files, Its(s, j), AllOf(f, j)
      PROVE  AllOf(f, j)'
  <2>1. x.jar # j.id
    BY <1>1, <1>2, <1>3, <1>6 DEF Its, Savepoint, Installing
  <2> QED
    BY <2>1, <1>1, <1>6 DEF AllOf
<1>7. IsHere(s)' /\ IsGone(s)' /\ Accounted(s)'
  BY <1>1, <1>4, <1>5, <1>6, QuietFinal
<1>8. OneName(s)' /\ LookedAt(s)'
  BY <1>1, <1>2, <1>4 DEF OneName, LookedAt, Installing
<1> QED
  BY <1>7, <1>8 DEF Final

-----------------------------------------------------------------------------
(* Every reachable state.                                                  *)

\* The kinds of step.
Does(s) ==
  \/ Commit(s) \/ Abort(s) \/ Failure(s) \/ LocalAction(s)
  \/ DeleteEntry(s) \/ DeleteJar(s) \/ InsertJar(s) \/ InsertEntry(s)

LEMMA DoesChanges ==
  ASSUME SInv, NEW s \in Sessions, Does(s)
  PROVE  Changes(s)
BY StepEvolves, EvolvesChanges, CommitChanges DEF Does

LEMMA DoesFinal ==
  ASSUME SInv, NEW s \in Sessions, Does(s)
  PROVE  Final(s)'
<1>1. CASE Commit(s) \/ Abort(s) \/ Failure(s)
  BY <1>1, CommitFinal, RollbackFinal, FailureFinal DEF Abort
<1>2. CASE LocalAction(s)
  <2>1. CASE JarIsGone(s) /\ call[s].op.kind = "remove"
    BY <2>1, JarIsGoneFinal
  <2>2. CASE InstallEnds(s)
    BY <2>2, InstallEndsFinal
  <2>3. CASE \/ Begin(s) \/ Check(s) \/ OpenCursor(s) \/ FetchEntry(s) \/ FetchJar(s) \/ OpenFile(s)
             \/ JarIsGone(s) /\ call[s].op.kind # "remove"
    BY <2>3, LocalFinal
  <2> QED
    BY <1>2, <2>1, <2>2, <2>3 DEF LocalAction
<1>3. CASE DeleteEntry(s) \/ DeleteJar(s) \/ InsertJar(s) \/ InsertEntry(s)
  BY <1>3, DeleteEntryFinal, DeleteJarFinal, InsertJarFinal, InsertEntryFinal
<1> QED
  BY <1>1, <1>2, <1>3 DEF Does

\* What an operation leaves of its name is of the right kind.
LEMMA LeavesType ==
  ASSUME SInv, NEW s \in Sessions, pc[s] # "idle", NEW id \in Nat, NEW here \in BOOLEAN
  PROVE  Leaves(s, id, here) \in SUBSET Finals
<1>1. call[s].op \in Operations /\ done[s] \subseteq Finals
  BY SFacts DEF Locals
<1>2. [name |-> call[s].op.name, id |-> id, file |-> call[s].op.file, here |-> here] \in Finals
  BY <1>1 DEF Operations, Finals
<1> QED
  BY <1>1, <1>2 DEF Leaves

LEMMA FailureDone ==
  ASSUME SInv, NEW s \in Sessions, Failure(s)
  PROVE  done' = done \/ done' = [done EXCEPT ![s] = {}]
<1>1. CASE OperationFails(s)
  BY <1>1 DEF OperationFails, Rollback, Ended
<1>2. CASE RemovalFails(s)
  BY <1>1, <1>2 DEF RemovalFails
<1> QED
  BY <1>1, <1>2, FailureIsOne

LEMMA DoesDone ==
  ASSUME SInv, NEW s \in Sessions, Does(s)
  PROVE  done' \in [Sessions -> SUBSET Finals]
<1>0. done \in [Sessions -> SUBSET Finals] /\ call[s].checked \in Nat /\ call[s].target \in Nat
  BY SFacts DEF Locs
<1>1. \/ done' = done
      \/ done' = [done EXCEPT ![s] = {}]
      \/ pc[s] # "idle" /\ done' = [done EXCEPT ![s] = Leaves(s, call[s].checked, FALSE)]
      \/ pc[s] # "idle" /\ done' = [done EXCEPT ![s] = Leaves(s, call[s].target, TRUE)]
  <2>1. CASE Commit(s) \/ Abort(s)
    BY <2>1 DEF Commit, Abort, Rollback, Ended
  <2>2. CASE Failure(s)
    BY <2>2, FailureDone
  <2>3. CASE JarIsGone(s) \/ DeleteJar(s)
    BY <2>3 DEF JarIsGone, DeleteJar, RemovalEnds
  <2>4. CASE InstallEnds(s)
    BY <2>4 DEF InstallEnds
  <2>5. CASE Begin(s) \/ Check(s) \/ OpenCursor(s) \/ FetchEntry(s) \/ FetchJar(s) \/ OpenFile(s)
    BY <2>5 DEF Begin, Check, OpenCursor, FetchEntry, FetchJar, OpenFile
  <2>6. CASE DeleteEntry(s) \/ InsertJar(s) \/ InsertEntry(s)
    BY <2>6 DEF DeleteEntry, InsertJar, InsertEntry
  <2> QED
    BY <2>1, <2>2, <2>3, <2>4, <2>5, <2>6 DEF Does, LocalAction
<1>2. CASE done' = done
  BY <1>0, <1>2
<1>3. CASE done' = [done EXCEPT ![s] = {}]
  BY <1>0, <1>3
<1>4. CASE pc[s] # "idle" /\ done' = [done EXCEPT ![s] = Leaves(s, call[s].checked, FALSE)]
  <2>1. Leaves(s, call[s].checked, FALSE) \in SUBSET Finals
    BY <1>0, <1>4, LeavesType
  <2> QED
    BY <1>0, <1>4, <2>1
<1>5. CASE pc[s] # "idle" /\ done' = [done EXCEPT ![s] = Leaves(s, call[s].target, TRUE)]
  <2>1. Leaves(s, call[s].target, TRUE) \in SUBSET Finals
    BY <1>0, <1>5, LeavesType
  <2> QED
    BY <1>0, <1>5, <2>1
<1> QED
  BY <1>1, <1>2, <1>3, <1>4, <1>5

LEMMA InitFinal ==
  ASSUME Init
  PROVE  SInv
<1>1. IInv
  BY InitKeeps
<1>2. \A s \in Sessions : pc[s] = "idle" /\ call[s] = NoCall /\ done[s] = {}
  BY DEF Init
<1>3. \A s \in Sessions : Final(s)
  BY <1>2, NoCallType DEF Init, Final, IsHere, IsGone, Accounted, OneName, LookedAt, Installing
<1>4. done \in [Sessions -> SUBSET Finals]
  BY DEF Init
<1> QED
  BY <1>1, <1>3, <1>4 DEF SInv

LEMMA StutterFinal ==
  ASSUME SInv, UNCHANGED vars
  PROVE  SInv'
<1>1. /\ jars' = jars /\ entries' = entries /\ seq' = seq /\ pc' = pc /\ call' = call /\ done' = done
  BY DEF vars, tables
<1>2. IInv'
  BY StutterKeeps DEF SInv
<1>3. ASSUME NEW s \in Sessions
      PROVE  Final(s)'
  <2>1. IsHere(s)' /\ IsGone(s)' /\ Accounted(s)'
    BY <1>1, QuietStep DEF tables
  <2>2. OneName(s)' /\ LookedAt(s)'
    BY <1>1, SFacts DEF OneName, LookedAt, Installing
  <2> QED
    BY <2>1, <2>2 DEF Final
<1> QED
  BY <1>1, <1>2, <1>3 DEF SInv

LEMMA NextFinal ==
  ASSUME SInv, Next
  PROVE  SInv'
<1>1. PICK s \in Sessions : Does(s)
  BY NextCases DEF Does
<1>2. IInv'
  BY NextKeeps DEF SInv
<1>3. \A t \in Sessions : Final(t)'
  BY <1>1, DoesChanges, DoesFinal, OthersFinal
<1> QED
  BY <1>1, <1>2, <1>3, DoesDone DEF SInv

LEMMA StoreInvariant == Spec => []SInv
<1>1. SInv /\ [Next]_vars => SInv'
  BY NextFinal, StutterFinal
<1> QED
  BY <1>1, InitFinal, PTL DEF Spec

-----------------------------------------------------------------------------
(* A commit.                                                               *)

LEMMA RowsCommitted ==
  ASSUME SInv, NEW s \in Sessions
  PROVE  /\ \A k \in CommittedRows(jars, s) : \E j \in jars :
              /\ j.del # s /\ k.id = j.id /\ k.name = j.name /\ k.owner = j.owner
              /\ k.ins = IF j.ins = s THEN None ELSE j.ins
         /\ \A j \in jars : j.del # s => \E k \in CommittedRows(jars, s) :
              /\ k.id = j.id /\ k.name = j.name /\ k.owner = j.owner
              /\ k.ins = IF j.ins = s THEN None ELSE j.ins
         /\ \A d \in CommittedRows(entries, s) : \E e \in entries :
              /\ e.del # s /\ d.jar = e.jar /\ d.name = e.name /\ d.file = e.file
              /\ d.ins = IF e.ins = s THEN None ELSE e.ins
         /\ \A e \in entries : e.del # s => \E d \in CommittedRows(entries, s) :
              /\ d.jar = e.jar /\ d.name = e.name /\ d.file = e.file
              /\ d.ins = IF e.ins = s THEN None ELSE e.ins
<1> DEFINE c(r) == IF r.ins = s THEN [r EXCEPT !.ins = None] ELSE r
<1>1. \A j \in jars : /\ c(j).id = j.id /\ c(j).name = j.name /\ c(j).owner = j.owner
                      /\ c(j).ins = IF j.ins = s THEN None ELSE j.ins
  BY SFacts DEF JarRows
<1>2. \A e \in entries : /\ c(e).jar = e.jar /\ c(e).name = e.name /\ c(e).file = e.file
                         /\ c(e).ins = IF e.ins = s THEN None ELSE e.ins
  BY SFacts DEF EntryRows
<1>3. /\ \A k \in CommittedRows(jars, s) : \E j \in jars : j.del # s /\ k = c(j)
      /\ \A j \in jars : j.del # s => c(j) \in CommittedRows(jars, s)
  BY DEF CommittedRows
<1>4. /\ \A d \in CommittedRows(entries, s) : \E e \in entries : e.del # s /\ d = c(e)
      /\ \A e \in entries : e.del # s => c(e) \in CommittedRows(entries, s)
  BY DEF CommittedRows
<1> HIDE DEF c
<1> QED
  BY <1>1, <1>2, <1>3, <1>4

\* A JAR that was committed stays, unless a commit deletes it.
LEMMA StaysInstalled ==
  ASSUME SInv, Next, NEW n \in Names, Installed(n), ~Installed(n)'
  PROVE  \E s \in Sessions : \E d \in done[s] : d.name = n /\ ~d.here /\ Commit(s)
<1>1. PICK s \in Sessions : Does(s)
  BY NextCases DEF Does
<1>2. PICK j \in jars : j.ins = None /\ j.name = n
  BY DEF Installed, Committed
<1>3. \A k \in jars' : k.ins = None => k.name # n
  BY DEF Installed, Committed
<1>4. s # None
  BY SFacts
<1>5. CASE ~Commit(s)
  <2>1. Evolves(s)
    BY <1>1, <1>5, StepEvolves DEF Does
  <2> QED
    BY <2>1, <1>2, <1>3, <1>4 DEF Evolves, JarsEvolve, SameJar
<1>6. CASE Commit(s)
  <2>1. jars' = CommittedRows(jars, s) /\ pc[s] = "idle"
    BY <1>6 DEF Commit
  <2>2. \A k \in jars : k.del # s /\ k.ins \in {None, s} => k.name # n
    BY <2>1, <1>3, RowsCommitted
  <2>3. j.del = s /\ call[s].deleted = {}
    BY <2>1, <2>2, <1>2, SFacts DEF OneName
  <2>4. CASE \E d \in done[s] : d.name = j.name /\ ~d.here
    BY <2>4, <1>2, <1>6
  <2>5. CASE \E k \in jars : k.name = j.name /\ Its(s, k)
    BY <2>2, <2>3, <2>5, <1>2 DEF Its
  <2> QED
    BY <2>3, <2>4, <2>5, SFacts DEF Accounted
<1> QED
  BY <1>5, <1>6

\* Whoever looks for a JAR that is updated or replaced finds the old one or the
\* new one: a committed name only goes with the commit of its removal.
THEOREM RepositoryUpdates ==
  Spec => UpdatesAreAtomic
<1>1. ASSUME SInv, [Next]_vars
      PROVE  [\A n \in Names : Installed(n) /\ ~Installed(n)' =>
                \E s \in Sessions : \E d \in done[s] : d.name = n /\ ~d.here /\ Commit(s)]_vars
  BY <1>1, StaysInstalled
<1> QED
  BY <1>1, StoreInvariant, PTL DEF Spec, UpdatesAreAtomic

\* The rows that a commit shows of a JAR that its transaction has installed.
LEMMA AskedFor ==
  ASSUME SInv, NEW s \in Sessions, Commit(s), NEW d \in done[s], d.here
  PROVE  \E j \in Committed(jars') :
           /\ j.id = d.id /\ j.name = d.name /\ j.owner = UserOf[s]
           /\ {x.name : x \in {y \in Committed(entries') : y.jar = j.id}} = RangeOf(EntriesOf[d.file])
<1>1. jars' = CommittedRows(jars, s) /\ entries' = CommittedRows(entries, s) /\ pc[s] = "idle"
  BY DEF Commit
<1>2. PICK j \in jars : j.id = d.id /\ j.name = d.name /\ Its(s, j) /\ AllOf(d.file, j)
  BY SFacts DEF IsHere
<1>3. call[s].deleted = {} /\ ~Removing(s)
  BY <1>1, SFacts DEF OneName, Removing
<1>4. j.ins = s /\ j.del # s /\ j.owner = UserOf[s]
  BY <1>2, <1>3, SFacts DEF Its, Owners
<1>5. PICK k \in jars' : k.id = j.id /\ k.name = j.name /\ k.owner = j.owner /\ k.ins = None
  BY <1>1, <1>4, RowsCommitted
<1>6. \A e \in entries : e.jar = j.id => e.ins = s /\ e.del # s
  <2>1. \A e \in entries : e.jar = j.id => e.ins = s
    BY <1>4, SFacts DEF IInv, Keyed
  <2>2. \A e \in entries : j.id = e.jar => Deleted(s, j, e)
    BY SFacts DEF IInv, Together
  <2> QED
    BY <2>1, <2>2, <1>3, <1>4 DEF Deleted
<1> DEFINE N == {x.name : x \in {y \in Committed(entries') : y.jar = k.id}}
<1>7. ASSUME NEW n \in N
      PROVE  n \in RangeOf(EntriesOf[d.file])
  <2>1. PICK x \in entries' : x.jar = j.id /\ x.name = n
    BY <1>5, <1>7 DEF Committed
  <2>2. PICK e \in entries : e.jar = j.id /\ e.name = n
    BY <2>1, <1>1, RowsCommitted
  <2> QED
    BY <2>2, <1>2 DEF AllOf
<1>8. ASSUME NEW n \in RangeOf(EntriesOf[d.file])
      PROVE  n \in N
  <2>1. PICK e \in entries : e.jar = j.id /\ e.name = n
    BY <1>2 DEF AllOf
  <2>2. e.ins = s /\ e.del # s
    BY <2>1, <1>6
  <2>3. PICK x \in entries' : x.jar = j.id /\ x.name = n /\ x.ins = None
    BY <2>1, <2>2, <1>1, RowsCommitted
  <2> QED
    BY <2>3, <1>5 DEF Committed
<1>9. N = RangeOf(EntriesOf[d.file])
  BY <1>7, <1>8
<1> QED
  BY <1>2, <1>4, <1>5, <1>9 DEF Committed

\* Nor does it show one that its transaction has removed.
LEMMA NotAskedFor ==
  ASSUME SInv, NEW s \in Sessions, Commit(s), NEW d \in done[s], ~d.here
  PROVE  \A j \in Committed(jars') : j.id # d.id
<1>1. jars' = CommittedRows(jars, s)
  BY DEF Commit
<1>2. \A j \in jars : j.id = d.id => j.del = s
  BY SFacts DEF IsGone
<1> QED
  BY <1>1, <1>2, RowsCommitted DEF Committed

\* When a transaction commits, the JARs that its last operations installed are
\* there as a whole, and those that they removed are not.
THEOREM RepositoryCommits ==
  Spec => CommitsWhatWasAsked
<1> DEFINE A(s, d) ==
      IF d.here
      THEN \E j \in Committed(jars') :
             /\ j.id = d.id /\ j.name = d.name /\ j.owner = UserOf[s]
             /\ {x.name : x \in {y \in Committed(entries') : y.jar = j.id}} = RangeOf(EntriesOf[d.file])
      ELSE \A j \in Committed(jars') : j.id # d.id
<1>1. ASSUME SInv, NEW s \in Sessions, Commit(s), NEW d \in done[s]
      PROVE  A(s, d)
  <2>1. CASE d.here
    BY <1>1, <2>1, AskedFor
  <2>2. CASE ~d.here
    BY <1>1, <2>2, NotAskedFor
  <2> QED
    BY <2>1, <2>2
<1> HIDE DEF A
<1>2. ASSUME SInv
      PROVE  [\A s \in Sessions : Commit(s) => \A d \in done[s] : A(s, d)]_vars
  BY <1>1, <1>2
<1>3. Spec => [][\A s \in Sessions : Commit(s) => \A d \in done[s] : A(s, d)]_vars
  BY <1>2, StoreInvariant, PTL DEF Spec
<1> QED
  BY <1>3 DEF CommitsWhatWasAsked, A

-----------------------------------------------------------------------------
(* JarRepository implements JarStore.                                      *)

\* The JAR of a name, in every reachable state.
ShownAs(n, j) ==
  /\ StoreOf(n) = [owner |-> j.owner, file |-> FileWith(EntriesIn(j, Committed(entries)))]
  /\ FileWith(EntriesIn(j, Committed(entries))) \in Files
  /\ EntriesIn(j, Committed(entries)) = AllEntries(FileWith(EntriesIn(j, Committed(entries))))

Shown ==
  \A n \in Names :
    /\ ~Installed(n) => StoreOf(n) = None
    /\ \A j \in Committed(jars) : j.name = n => ShownAs(n, j)

\* A name has one committed JAR.
LEMMA StoreIsShown ==
  IInv => Shown
<1> SUFFICES ASSUME IInv, NEW n \in Names
             PROVE  /\ ~Installed(n) => StoreOf(n) = None
                    /\ \A j \in Committed(jars) : j.name = n => ShownAs(n, j)
  BY DEF Shown
<1> DEFINE named == {j \in Committed(jars) : j.name = n}
<1>1. ~Installed(n) => StoreOf(n) = None
  <2>1. ~Installed(n) => named = {}
    BY DEF Installed
  <2> QED
    BY <2>1 DEF StoreOf
<1>2. ASSUME NEW j \in Committed(jars), j.name = n
      PROVE  ShownAs(n, j)
  <2>1. \A k \in named : k = j
    <3>1. ASSUME NEW k \in named, k # j
          PROVE  FALSE
      <4>1. j \in jars /\ k \in jars /\ j.ins = None /\ k.ins = None /\ k.name = j.name
        BY <1>2 DEF Committed
      <4>2. PICK s \in Sessions : j.ins = s \/ k.ins = s
        BY <3>1, <4>1 DEF IInv, Named1, Follows
      <4> QED
        BY <4>1, <4>2, RepositoryAssumption
    <3> QED
      BY <3>1
  <2>2. named = {j} /\ named # {} /\ (CHOOSE k \in named : TRUE) = j
    BY <2>1, <1>2
  <2>3. Whole(j, Committed(entries))
    BY WholeWhenCommitted DEF JarsAreWhole
  <2>4. StoreOf(n) = [owner |-> j.owner, file |-> FileWith(EntriesIn(j, Committed(entries)))]
    BY <2>2, <2>3 DEF StoreOf
  <2>5. /\ FileWith(EntriesIn(j, Committed(entries))) \in Files
        /\ EntriesIn(j, Committed(entries)) = AllEntries(FileWith(EntriesIn(j, Committed(entries))))
    BY <2>3 DEF Whole, FileWith
  <2> QED
    BY <2>4, <2>5 DEF ShownAs
<1> QED
  BY <1>1, <1>2

\* What is shown of a JAR is what its rows say.
SameEntriesShown(j, k) == EntriesIn(k, Committed(entries')) = EntriesIn(j, Committed(entries))

LEMMA ShownAgain ==
  ASSUME Shown, Shown', NEW n \in Names, NEW j \in Committed(jars), NEW k \in Committed(jars'),
         j.name = n, k.name = n, k.owner = j.owner, SameEntriesShown(j, k)
  PROVE  StoreOf(n)' = StoreOf(n)
<1>1. StoreOf(n) = [owner |-> j.owner, file |-> FileWith(EntriesIn(j, Committed(entries)))]
  BY DEF Shown, ShownAs
<1>2. StoreOf(n)' = [owner |-> k.owner, file |-> FileWith(EntriesIn(k, Committed(entries')))]
  BY DEF Shown, ShownAs
<1> QED
  BY <1>1, <1>2 DEF SameEntriesShown

\* Only a commit shows anything.
LEMMA OthersSeeNothing ==
  ASSUME SInv, Shown, Shown', NEW s \in Sessions, Evolves(s), NEW n \in Names
  PROVE  StoreOf(n)' = StoreOf(n)
<1>0. s # None
  BY SFacts
<1>1. CASE ~Installed(n)
  <2>1. ~Installed(n)'
    BY <1>0, <1>1 DEF Installed, Committed, Evolves, JarsEvolve, SameJar
  <2> QED
    BY <1>1, <2>1 DEF Shown
<1>2. CASE Installed(n)
  <2>1. PICK j \in Committed(jars) : j.name = n
    BY <1>2 DEF Installed
  <2>2. PICK k \in jars' : k.id = j.id /\ k.name = n /\ k.owner = j.owner /\ k.ins = None
    BY <1>0, <2>1 DEF Committed, Evolves, JarsEvolve, SameJar
  <2>3. /\ \A d \in Committed(entries') : \E e \in Committed(entries) : SameEntry(d, e)
        /\ \A e \in Committed(entries) : \E d \in Committed(entries') : SameEntry(d, e)
    BY <1>0 DEF Committed, Evolves, EntriesEvolve, SameEntry
  <2>4. ASSUME NEW p \in EntriesIn(k, Committed(entries'))
        PROVE  p \in EntriesIn(j, Committed(entries))
    <3>1. PICK d \in Committed(entries') : d.jar = j.id /\ p = <<d.name, d.file>>
      BY <2>2, <2>4 DEF EntriesIn
    <3>2. PICK e \in Committed(entries) : e.jar = j.id /\ p = <<e.name, e.file>>
      BY <3>1, <2>3 DEF SameEntry
    <3> QED
      BY <3>2 DEF EntriesIn
  <2>5. ASSUME NEW p \in EntriesIn(j, Committed(entries))
        PROVE  p \in EntriesIn(k, Committed(entries'))
    <3>1. PICK e \in Committed(entries) : e.jar = j.id /\ p = <<e.name, e.file>>
      BY <2>5 DEF EntriesIn
    <3>2. PICK d \in Committed(entries') : d.jar = k.id /\ p = <<d.name, d.file>>
      BY <2>2, <3>1, <2>3 DEF SameEntry
    <3> QED
      BY <3>2 DEF EntriesIn
  <2>6. SameEntriesShown(j, k)
    BY <2>4, <2>5 DEF SameEntriesShown
  <2>7. k \in Committed(jars')
    BY <2>2 DEF Committed
  <2> QED
    BY <2>1, <2>2, <2>6, <2>7, ShownAgain
<1> QED
  BY <1>1, <1>2

\* What a commit leaves alone or shows of a name.
LEMMA CommitShows ==
  ASSUME SInv, Shown, Shown', NEW s \in Sessions, Commit(s), NEW n \in Names
  PROVE  StoreOf(n)' \in {StoreOf(n), None} \cup [owner : {UserOf[s]}, file : Files]
<1>1. /\ jars' = CommittedRows(jars, s) /\ entries' = CommittedRows(entries, s) /\ pc[s] = "idle"
  BY DEF Commit
<1>2. CASE ~Installed(n)'
  BY <1>2 DEF Shown
<1>3. CASE Installed(n)'
  <2>1. PICK k \in Committed(jars') : k.name = n
    BY <1>3 DEF Installed
  <2>2. PICK j \in jars : /\ j.del # s /\ k.id = j.id /\ k.name = j.name /\ k.owner = j.owner
                          /\ k.ins = IF j.ins = s THEN None ELSE j.ins
    BY <2>1, <1>1, RowsCommitted DEF Committed
  <2>3. /\ StoreOf(n)' = [owner |-> k.owner, file |-> FileWith(EntriesIn(k, Committed(entries')))]
        /\ FileWith(EntriesIn(k, Committed(entries'))) \in Files
    BY <2>1 DEF Shown, ShownAs
  <2>4. CASE j.ins = s
    <3>1. k.owner = UserOf[s]
      BY <2>2, <2>4, SFacts DEF Owners
    <3> QED
      BY <2>3, <3>1
  <2>5. CASE j.ins # s
    <3>1. j \in Committed(jars) /\ j.name = n /\ s # None
      BY <2>1, <2>2, <2>5, SFacts DEF Committed
    <3>2. \A e \in entries : e.jar = j.id => e.ins = None /\ e.del # s
      <4>1. \A e \in entries : e.jar = j.id => e.ins = None
        BY <3>1, SFacts DEF Committed, IInv, Keyed
      <4>2. \A e \in entries : j.id = e.jar => Deleted(s, j, e)
        BY SFacts DEF IInv, Together
      <4> QED
        BY <4>1, <4>2, <1>1, <2>2 DEF Deleted, Removing
    <3>3. ASSUME NEW p \in EntriesIn(k, Committed(entries'))
          PROVE  p \in EntriesIn(j, Committed(entries))
      <4>1. PICK d \in Committed(entries') : d.jar = j.id /\ p = <<d.name, d.file>>
        BY <2>2, <3>3 DEF EntriesIn
      <4>2. PICK e \in entries : e.jar = j.id /\ p = <<e.name, e.file>>
        BY <4>1, <1>1, RowsCommitted DEF Committed
      <4>3. e \in Committed(entries)
        BY <4>2, <3>2 DEF Committed
      <4> QED
        BY <4>2, <4>3 DEF EntriesIn
    <3>4. ASSUME NEW p \in EntriesIn(j, Committed(entries))
          PROVE  p \in EntriesIn(k, Committed(entries'))
      <4>1. PICK e \in Committed(entries) : e.jar = j.id /\ p = <<e.name, e.file>>
        BY <3>4 DEF EntriesIn
      <4>2. e \in entries /\ e.ins = None /\ e.del # s
        BY <4>1, <3>2 DEF Committed
      <4>3. PICK d \in entries' : d.jar = k.id /\ p = <<d.name, d.file>> /\ d.ins = None
        BY <4>1, <4>2, <2>2, <3>1, <1>1, RowsCommitted
      <4>4. d \in Committed(entries')
        BY <4>3 DEF Committed
      <4> QED
        BY <4>3, <4>4 DEF EntriesIn
    <3>5. SameEntriesShown(j, k)
      BY <3>3, <3>4 DEF SameEntriesShown
    <3>6. StoreOf(n)' = StoreOf(n)
      BY <2>1, <2>2, <3>1, <3>5, ShownAgain
    <3> QED
      BY <3>6
  <2> QED
    BY <2>4, <2>5
<1> QED
  BY <1>2, <1>3

\* What is shown of different names has different entries.
TheStore == [n \in Names |-> StoreOf(n)]

LEMMA ShownDisjoint ==
  IInv => Store!Disjoint(TheStore)
<1> SUFFICES ASSUME IInv
             PROVE  Store!Disjoint(TheStore)
  OBVIOUS
<1>1. Shown
  BY StoreIsShown
<1>9. \A n \in Names : StoreOf(n) # None => StoreOf(n).file \in Files
  <2>1. ASSUME NEW n \in Names, StoreOf(n) # None
        PROVE  StoreOf(n).file \in Files
    <3>1. PICK j \in Committed(jars) : j.name = n
      BY <2>1, <1>1 DEF Shown, Installed
    <3>2. ShownAs(n, j)
      BY <3>1, <1>1 DEF Shown
    <3> QED
      BY <3>2 DEF ShownAs
  <2> QED
    BY <2>1
<1> SUFFICES ASSUME NEW m \in Names, NEW n \in Names, m # n,
                    StoreOf(m) # None, StoreOf(n) # None,
                    NEW c, c \in RangeOf(EntriesOf[StoreOf(m).file]),
                    c \in RangeOf(EntriesOf[StoreOf(n).file])
             PROVE  FALSE
  BY <1>9 DEF Store!Disjoint, TheStore
<1>2. Installed(m) /\ Installed(n)
  BY <1>1 DEF Shown
<1>3. PICK j \in Committed(jars) : j.name = m
  BY <1>2 DEF Installed
<1>4. PICK k \in Committed(jars) : k.name = n
  BY <1>2 DEF Installed
<1>5. PICK d \in Committed(entries) : d.jar = j.id /\ d.name = c
  <2>1. EntriesIn(j, Committed(entries)) = AllEntries(StoreOf(m).file)
    BY <1>1, <1>3 DEF Shown, ShownAs
  <2>2. <<c, StoreOf(m).file>> \in AllEntries(StoreOf(m).file)
    BY DEF AllEntries
  <2> QED
    BY <2>1, <2>2 DEF EntriesIn
<1>6. PICK e \in Committed(entries) : e.jar = k.id /\ e.name = c
  <2>1. EntriesIn(k, Committed(entries)) = AllEntries(StoreOf(n).file)
    BY <1>1, <1>4 DEF Shown, ShownAs
  <2>2. <<c, StoreOf(n).file>> \in AllEntries(StoreOf(n).file)
    BY DEF AllEntries
  <2> QED
    BY <2>1, <2>2 DEF EntriesIn
<1>7. d # e
  <2>1. j.id # k.id
    BY <1>3, <1>4 DEF IInv, Keyed, Committed
  <2> QED
    BY <2>1, <1>5, <1>6
<1>8. PICK s \in Sessions : d.ins = s \/ e.ins = s
  BY <1>5, <1>6, <1>7 DEF IInv, Named2, Follows, Committed
<1> QED
  BY <1>8, RepositoryAssumption DEF Committed

LEMMA StoreType ==
  IInv => TheStore \in [Names -> Store!Jars \cup {None}]
<1> SUFFICES ASSUME IInv, NEW n \in Names
             PROVE  StoreOf(n) \in Store!Jars \cup {None}
  BY DEF TheStore
<1>1. Shown /\ jars \subseteq JarRows
  BY StoreIsShown, TypesSplit DEF IInv
<1>2. CASE ~Installed(n)
  BY <1>1, <1>2 DEF Shown
<1>3. CASE Installed(n)
  <2>1. PICK j \in Committed(jars) : j.name = n
    BY <1>3 DEF Installed
  <2>2. j.owner \in Users
    BY <1>1 DEF Committed, JarRows
  <2>3. ShownAs(n, j)
    BY <2>1, <1>1 DEF Shown
  <2> QED
    BY <2>2, <2>3 DEF ShownAs, Store!Jars
<1> QED
  BY <1>2, <1>3

\* A state of JarStore that it may come to.
Fits == TheStore \in [Names -> Store!Jars \cup {None}] /\ Store!Disjoint(TheStore)

LEMMA CommitDeploys ==
  ASSUME SInv, Shown, Shown', Fits', NEW s \in Sessions, Commit(s)
  PROVE  Store!Next
<1>1. UserOf[s] \in Users
  BY DEF Users
<1>2. \A n \in Names : StoreOf(n)' \in {StoreOf(n), None} \cup [owner : {UserOf[s]}, file : Files]
  BY CommitShows
<1>3. Store!Deploy(UserOf[s])
  BY <1>2 DEF Store!Deploy, TheStore, Fits
<1> QED
  BY <1>1, <1>3 DEF Store!Next

LEMMA StepsRefine ==
  ASSUME SInv, Shown, Shown', Fits', [Next]_vars
  PROVE  Store!Next \/ UNCHANGED TheStore
<1>1. CASE UNCHANGED vars
  <2>1. \A n \in Names : StoreOf(n)' = StoreOf(n)
    BY <1>1 DEF vars, tables, StoreOf
  <2> QED
    BY <2>1 DEF TheStore
<1>2. CASE Next
  <2>1. PICK s \in Sessions : Does(s)
    BY <1>2, NextCases DEF Does
  <2>2. CASE Commit(s)
    BY <2>2, CommitDeploys
  <2>3. CASE ~Commit(s)
    <3>1. Evolves(s)
      BY <2>1, <2>3, StepEvolves DEF Does
    <3>2. \A n \in Names : StoreOf(n)' = StoreOf(n)
      BY <3>1, OthersSeeNothing
    <3> QED
      BY <3>2 DEF TheStore
  <2> QED
    BY <2>2, <2>3
<1> QED
  BY <1>1, <1>2

\* Readers of the tables never see a JAR in parts, nor two JARs with an entry of
\* the same name: every commit is one change of JarStore, and no other step is one.
THEOREM RepositoryImplementsStore ==
  Spec => ImplementsJarStore
<1>1. Init => Store!Init
  <2>1. Init => \A n \in Names : StoreOf(n) = None
    BY DEF Init, StoreOf, Committed
  <2> QED
    BY <2>1 DEF Store!Init
<1>2. SInv => Shown /\ Fits
  BY StoreIsShown, StoreType, ShownDisjoint DEF SInv, Fits
<1>3. ASSUME SInv, Shown, Shown', Fits', [Next]_vars
      PROVE  [Store!Next]_[n \in Names |-> StoreOf(n)]
  <2>1. UNCHANGED TheStore => UNCHANGED [n \in Names |-> StoreOf(n)]
    BY DEF TheStore
  <2>2. Store!Next \/ UNCHANGED TheStore
    BY <1>3, StepsRefine
  <2> QED
    BY <2>1, <2>2
<1> QED
  BY <1>1, <1>2, <1>3, StoreInvariant, PTL DEF Spec, ImplementsJarStore, Store!Spec
-----------------------------------------------------------------------------
(* Who removes a JAR.                                                      *)

\* Nobody else may remove what a session may: the sessions are of different users,
\* none of them SYSDBA.
DistinctUsers ==
  /\ \A s, t \in Sessions : UserOf[s] = UserOf[t] => s = t
  /\ \A s \in Sessions : UserOf[s] # SYSDBA

\* Whoever deletes a JAR owns it.
OwnersDelete == \A s \in Sessions : \A j \in jars : j.del = s => j.owner = UserOf[s]

\* The JAR that a removal has looked at stays until it is deleted.
CheckedStays(s) ==
  pc[s] \in {"cursor", "entries", "entry", "row"} => \E j \in jars : j.id = call[s].checked

AInv == SInv /\ OwnersDelete /\ \A s \in Sessions : CheckedStays(s)

\* Deletions that a step does not add.
NoneDeleted == \A k \in jars' : k.del # None => \E j \in jars : k.owner = j.owner /\ k.del = j.del

LEMMA RevertDeletesNone ==
  ASSUME SInv, NEW s \in Sessions, Rollback(s) \/ Undo(s)
  PROVE  NoneDeleted
<1> DEFINE GR == {j \in jars : j.ins = s}
           BR == {j \in jars : j.del = s}
           GU == {j \in jars : Id(j) \in call[s].added}
           BU == {j \in jars : Id(j) \in call[s].deleted}
<1>1. \/ jars' = {Kept(j, BR) : j \in jars \ GR}
      \/ jars' = {Kept(j, BU) : j \in jars \ GU}
  BY DEF Rollback, Undo, Undeleted, Kept
<1>2. ASSUME NEW B, NEW j \in jars
      PROVE  Kept(j, B).owner = j.owner /\ Kept(j, B).del \in {None, j.del}
  BY SFacts, JarKept
<1>3. ASSUME NEW k \in jars', k.del # None
      PROVE  \E j \in jars : k.owner = j.owner /\ k.del = j.del
  <2>1. PICK j \in jars : k = Kept(j, BR) \/ k = Kept(j, BU)
    BY <1>1
  <2>2. k.owner = j.owner /\ k.del \in {None, j.del}
    BY <2>1, <1>2
  <2> QED
    BY <2>2, <1>3
<1> QED
  BY <1>3 DEF NoneDeleted

LEMMA FailureDeletesNone ==
  ASSUME SInv, NEW s \in Sessions, Failure(s)
  PROVE  NoneDeleted /\ pc'[s] \in {"idle", "jar"}
<1>1. RemovalFails(s) \/ OperationFails(s)
  BY FailureIsOne
<1>2. Rollback(s) \/ Undo(s)
  BY <1>1 DEF RemovalFails, OperationFails
<1>3. pc'[s] \in {"idle", "jar"}
  BY <1>1, SFacts DEF RemovalFails, OperationFails, Rollback, Ended, Finish
<1> QED
  BY <1>2, <1>3, RevertDeletesNone

LEMMA DoesDeletesOwn ==
  ASSUME AInv, DistinctUsers, NEW s \in Sessions, Does(s)
  PROVE  OwnersDelete'
<1>1. SInv /\ OwnersDelete /\ CheckedStays(s) /\ jars \subseteq JarRows /\ None \notin Sessions
  BY SFacts DEF AInv
<1>2. ASSUME NoneDeleted
      PROVE  OwnersDelete'
  BY <1>1, <1>2 DEF NoneDeleted, OwnersDelete
<1>3. CASE Abort(s) \/ Failure(s)
  BY <1>1, <1>2, <1>3, RevertDeletesNone, FailureDeletesNone DEF Abort
<1>4. CASE LocalAction(s) \/ DeleteEntry(s) \/ InsertEntry(s)
  <2>1. jars' = jars
    BY <1>4 DEF LocalAction, Begin, Check, OpenCursor, FetchEntry, FetchJar, JarIsGone, OpenFile,
                InstallEnds, DeleteEntry, InsertEntry, tables
  <2> QED
    BY <1>1, <2>1 DEF OwnersDelete
<1>5. CASE InsertJar(s)
  <2>1. \A k \in jars' : k \in jars \/ k.del = None
    BY <1>5 DEF InsertJar, Jar
  <2> QED
    BY <1>2, <2>1 DEF NoneDeleted
<1>6. CASE Commit(s)
  <2>1. ASSUME NEW k \in jars'
        PROVE  \E j \in jars : k.owner = j.owner /\ k.del = j.del
    <3>1. PICK j \in jars : k = IF j.ins = s THEN [j EXCEPT !.ins = None] ELSE j
      BY <1>6 DEF Commit, CommittedRows
    <3> QED
      BY <3>1, <1>1 DEF JarRows
  <2> QED
    BY <1>2, <2>1 DEF NoneDeleted
<1>7. CASE DeleteJar(s)
  <2>1. PICK x \in jars : Id(x) = call[s].row /\ jars' = (jars \ {x}) \cup {[x EXCEPT !.del = s]}
    BY <1>7 DEF DeleteJar
  <2>2. PICK j \in jars : j.id = call[s].checked
    BY <1>1, <1>7 DEF CheckedStays, DeleteJar
  <2>3. Id(j) = call[s].row
    BY <1>1, <1>7, <2>2, SFacts DEF LookedAt, DeleteJar
  <2>4. x = j
    BY <1>1, <2>1, <2>3, SFacts DEF Id, IInv, Keyed
  <2>5. x.owner = UserOf[s]
    BY <1>1, <2>2, <2>4, SFacts DEF Owners, MayRemove, DistinctUsers
  <2>6. [x EXCEPT !.del = s].owner = UserOf[s] /\ [x EXCEPT !.del = s].del = s
    BY <1>1, <2>5, JarMarked
  <2> QED
    BY <1>1, <2>1, <2>6 DEF OwnersDelete
<1> QED
  BY <1>3, <1>4, <1>5, <1>6, <1>7 DEF Does

\* A removal goes on with the JAR that it has looked at.
LEMMA OwnChecked ==
  ASSUME AInv, NEW s \in Sessions, Does(s)
  PROVE  CheckedStays(s)'
<1>1. SInv /\ CheckedStays(s) /\ pc \in [Sessions -> Phases] /\ call \in [Sessions -> Locs]
  BY SFacts DEF AInv
<1>2. CASE Commit(s) \/ Abort(s) \/ Failure(s)
  <2>1. pc'[s] \in {"idle", "jar"}
    BY <1>1, <1>2, FailureDeletesNone DEF Commit, Abort, Rollback, Ended
  <2> QED
    BY <2>1 DEF CheckedStays
<1>3. CASE Begin(s) \/ OpenFile(s) \/ InstallEnds(s) \/ InsertJar(s) \/ InsertEntry(s)
  <2>1. pc'[s] \in {"idle", "check", "jar", "file", "store"}
    BY <1>1, <1>3 DEF Begin, OpenFile, InstallEnds, Finish, InsertJar, InsertEntry
  <2> QED
    BY <2>1 DEF CheckedStays
<1>4. CASE JarIsGone(s) \/ DeleteJar(s)
  <2>1. pc'[s] \in {"idle", "jar"}
    BY <1>1, <1>4 DEF JarIsGone, DeleteJar, RemovalEnds, Finish
  <2> QED
    BY <2>1 DEF CheckedStays
<1>5. CASE Check(s)
  <2>1. PICK j \in jars : call' = [call EXCEPT ![s].checked = j.id]
    BY <1>5 DEF Check, Named
  <2>2. jars' = jars /\ call'[s].checked = j.id
    BY <1>1, <1>5, <2>1 DEF Check, tables, Locs
  <2> QED
    BY <2>2 DEF CheckedStays
<1>6. CASE OpenCursor(s) \/ FetchEntry(s) \/ FetchJar(s) \/ DeleteEntry(s)
  <2>1. pc[s] \in {"cursor", "entries", "entry"} /\ jars' = jars
    BY <1>6 DEF OpenCursor, FetchEntry, FetchJar, DeleteEntry, tables
  <2>2. call'[s].checked = call[s].checked
    BY <1>1, <1>6 DEF OpenCursor, FetchEntry, FetchJar, DeleteEntry, Locs
  <2> QED
    BY <1>1, <2>1, <2>2 DEF CheckedStays
<1> QED
  BY <1>2, <1>3, <1>4, <1>5, <1>6 DEF Does, LocalAction

\* Nobody else can have deleted it.
LEMMA OthersChecked ==
  ASSUME AInv, DistinctUsers, NEW s \in Sessions, Does(s), NEW t \in Sessions, t # s
  PROVE  CheckedStays(t)'
<1>1. SInv /\ OwnersDelete /\ CheckedStays(t)
  BY DEF AInv
<1>2. pc'[t] = pc[t] /\ call'[t] = call[t]
  BY <1>1, DoesChanges DEF Changes, Elsewhere
<1> SUFFICES ASSUME pc[t] \in {"cursor", "entries", "entry", "row"}
             PROVE  \E k \in jars' : k.id = call[t].checked
  BY <1>2 DEF CheckedStays
<1>3. PICK j \in jars : j.id = call[t].checked
  BY <1>1 DEF CheckedStays
<1>4. j.ins \in {None, t} /\ s # None
  BY <1>1, <1>3, SFacts DEF LookedAt
<1>5. j.owner = UserOf[t]
  BY <1>1, <1>3, SFacts DEF Owners, MayRemove, DistinctUsers
<1>6. j.del # s
  BY <1>1, <1>5 DEF OwnersDelete, DistinctUsers
<1>7. CASE Commit(s)
  <2>1. jars' = CommittedRows(jars, s)
    BY <1>7 DEF Commit
  <2> QED
    BY <1>1, <1>3, <1>6, <2>1, RowsCommitted
<1>8. CASE ~Commit(s)
  <2>1. JarsEvolve(s)
    BY <1>1, <1>8, StepEvolves DEF Does, Evolves
  <2> QED
    BY <1>3, <1>4, <2>1 DEF JarsEvolve, SameJar
<1> QED
  BY <1>7, <1>8

LEMMA AuthorizedKept ==
  ASSUME AInv, DistinctUsers, [Next]_vars
  PROVE  AInv'
<1>1. CASE UNCHANGED vars
  <2>1. SInv'
    BY <1>1, StutterFinal DEF AInv
  <2>2. OwnersDelete' /\ \A s \in Sessions : CheckedStays(s)'
    BY <1>1 DEF AInv, OwnersDelete, CheckedStays, vars, tables
  <2> QED
    BY <2>1, <2>2 DEF AInv
<1>2. CASE Next
  <2>1. PICK s \in Sessions : Does(s)
    BY <1>2, NextCases DEF Does
  <2>2. SInv'
    BY <1>2, NextFinal DEF AInv
  <2>3. OwnersDelete'
    BY <2>1, DoesDeletesOwn
  <2>4. \A t \in Sessions : CheckedStays(t)'
    BY <2>1, OwnChecked, OthersChecked
  <2> QED
    BY <2>2, <2>3, <2>4 DEF AInv
<1> QED
  BY <1>1, <1>2

\* install.sql:116-117 holds, though a removal looks for the JAR three times, if the
\* sessions are of different ordinary users: nobody else can take the JAR away
\* between the lookups.  With SYSDBA among them it does not.
THEOREM RepositoryAuthorized ==
  ASSUME DistinctUsers
  PROVE  Spec => RemovalsAreAuthorized
<1>1. Init /\ SInv => AInv
  BY RepositoryAssumption DEF Init, AInv, OwnersDelete, CheckedStays
<1>2. AInv /\ [Next]_vars => AInv'
  BY AuthorizedKept
<1>3. ASSUME AInv, AInv'
      PROVE  \A s \in Sessions : \A j \in jars :
               j.del # s /\ [j EXCEPT !.del = s] \in jars' =>
                 j.owner = UserOf[s] \/ UserOf[s] = SYSDBA
  <2> SUFFICES ASSUME NEW s \in Sessions, NEW j \in jars, [j EXCEPT !.del = s] \in jars'
               PROVE  j.owner = UserOf[s]
    OBVIOUS
  <2>1. j \in JarRows
    BY <1>3, SFacts DEF AInv
  <2>2. [j EXCEPT !.del = s].owner = j.owner /\ [j EXCEPT !.del = s].del = s
    BY <2>1, JarMarked
  <2> QED
    BY <1>3, <2>2 DEF AInv, OwnersDelete
<1>4. AInv /\ AInv' => [\A s \in Sessions : \A j \in jars :
               j.del # s /\ [j EXCEPT !.del = s] \in jars' =>
                 j.owner = UserOf[s] \/ UserOf[s] = SYSDBA]_vars
  BY <1>3
<1> QED
  BY <1>1, <1>2, <1>4, StoreInvariant, PTL DEF Spec, RemovalsAreAuthorized
=============================================================================

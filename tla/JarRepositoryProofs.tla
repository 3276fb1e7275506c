------------------------- MODULE JarRepositoryProofs -------------------------
(***************************************************************************)
(* Theorems about JarRepository, for any number of sessions, names, files  *)
(* and operations and any failures.                                        *)
(***************************************************************************)
EXTENDS JarRepository, TLAPS

-----------------------------------------------------------------------------
(* The invariant.                                                          *)

Installing(s) == pc[s] \in {"file", "store"}
Removing(s)   == pc[s] \in {"entries", "entry", "row"}

\* Rows are found by their keys, and an entry belongs to the transaction of its
\* JAR, which numbers it.
Keyed ==
  /\ \A j \in jars : j.id <= seq
  /\ \A j, k \in jars : j.id = k.id => j = k
  /\ \A d, e \in entries : Key(d) = Key(e) => d = e
  /\ \A e \in entries : \E j \in jars : j.id = e.jar /\ j.ins = e.ins

\* A row that took the name of another: its transaction has deleted the other,
\* and if an operation is undone the row goes with the deletion.
Follows(s, new, old, newKey, oldKey) ==
  /\ new.ins = s /\ old.del = s
  /\ oldKey \in call[s].deleted => newKey \in call[s].added

\* Two rows have the same name only while one has deleted the other.
Named1 ==
  \A j, k \in jars : j # k /\ j.name = k.name =>
    \E s \in Sessions : Follows(s, j, k, Id(j), Id(k)) \/ Follows(s, k, j, Id(k), Id(j))

Named2 ==
  \A d, e \in entries : d # e /\ d.name = e.name =>
    \E s \in Sessions : Follows(s, d, e, Key(d), Key(e)) \/ Follows(s, e, d, Key(e), Key(d))

\* An entry is deleted with its JAR, except by a removal that has not come to
\* the row of the JAR.
Deleted(s, j, e) ==
  /\ j.del = s => /\ e.del = s
                  /\ Id(j) \in call[s].deleted <=> Key(e) \in call[s].deleted
  /\ e.del = s /\ j.del # s => /\ Removing(s) /\ Key(e) \in call[s].deleted
                               /\ e.jar = call[s].target /\ j.name = call[s].op.name

Together ==
  \A s \in Sessions : \A j \in jars, e \in entries : j.id = e.jar => Deleted(s, j, e)

\* Only what a session sees it deletes.
SeenFirst ==
  \A s \in Sessions : \A r \in jars \cup entries : r.del = s => r.ins \in {None, s}

\* The savepoint of an operation.
Savepoint(s) ==
  /\ \A j \in jars : Id(j) \in call[s].deleted => j.del = s
  /\ \A e \in entries : Key(e) \in call[s].deleted => e.del = s
  /\ \A k \in call[s].deleted : k[1] <= seq
  /\ \A u \in Sessions : Installing(u) => \A k \in call[s].deleted : k[1] # call[u].target
  /\ \A k \in call[s].added : Installing(s) /\ k[1] = call[s].target
  /\ Installing(s) => /\ \A j \in jars : j.id = call[s].target => Id(j) \in call[s].added
                      /\ \A e \in entries : e.jar = call[s].target => Key(e) \in call[s].added

\* The locals of an operation.
Locals(s) ==
  /\ pc[s] # "idle" => call[s].op \in Operations /\ ops[s] > 0
  /\ call[s].target <= seq
  /\ Removing(s) => \A j \in jars : j.id = call[s].target => j.name = call[s].op.name
  /\ pc[s] = "entry" => /\ call[s].row \in Keys /\ call[s].row[1] = call[s].target
                        /\ \A e \in entries : Key(e) = call[s].row => e.del # s
  /\ pc[s] = "row" => /\ call[s].row \in Keys /\ call[s].row[1] <= seq
                      /\ \A j \in jars : Id(j) = call[s].row => j.name = call[s].op.name /\ j.del # s

\* The entries of the file that are there while it is installed.
Stored(s) == IF pc[s] = "file" THEN {} ELSE RangeOf(EntriesOf[call[s].op.file]) \ RangeOf(call[s].todo)

\* An installation in progress.
Progress(s) ==
  Installing(s) =>
    /\ \E j \in jars : j.id = call[s].target /\ j.ins = s /\ j.del = None
    /\ \A e \in entries : e.jar = call[s].target =>
         e.file = call[s].op.file /\ e.name \in Stored(s) /\ e.del = None
    /\ \A n \in Stored(s) : \E e \in entries : e.jar = call[s].target /\ e.name = n
    /\ pc[s] = "store" =>
         /\ RangeOf(call[s].todo) \subseteq RangeOf(EntriesOf[call[s].op.file])
         /\ \A i, k \in DOMAIN call[s].todo : call[s].todo[i] = call[s].todo[k] => i = k

\* The entries of a JAR are those of one file.
AllOf(f, j) ==
  /\ \A e \in entries : e.jar = j.id => e.file = f /\ e.name \in RangeOf(EntriesOf[f])
  /\ \A n \in RangeOf(EntriesOf[f]) : \E e \in entries : e.jar = j.id /\ e.name = n

Complete ==
  \A j \in jars :
    \/ \E f \in Files : AllOf(f, j)
    \/ \E s \in Sessions : Installing(s) /\ call[s].target = j.id

\* Whose a JAR is, and who may remove it.
Owners(s) ==
  /\ call[s].checked <= seq
  /\ \A j \in jars : j.ins = s => j.owner = UserOf[s]
  /\ \A j \in jars : j.id = call[s].checked => MayRemove(s, j)

IInv ==
  /\ TypeOK /\ Keyed /\ Named1 /\ Named2 /\ Together /\ SeenFirst /\ Complete
  /\ \A s \in Sessions : Savepoint(s) /\ Locals(s) /\ Progress(s) /\ Owners(s)
-----------------------------------------------------------------------------
(* Rows and locals.                                                        *)

Locs == [op : Operations \cup {None}, checked : Nat, target : Nat, row : Keys \cup {None},
         todo : Seq(EntryNames), added : SUBSET Keys, deleted : SUBSET Keys]

LEMMA TypesSplit ==
  TypeOK <=>
    /\ jars \subseteq JarRows /\ entries \subseteq EntryRows /\ seq \in Nat
    /\ pc \in [Sessions -> Phases] /\ ops \in [Sessions -> 0..MaxOps]
    /\ call \in [Sessions -> Locs]
    /\ \A r \in jars \cup entries : \A s \in Holders(None, r) : ops[s] > 0
BY DEF TypeOK, Locs

LEMMA NoCallType ==
  /\ NoCall \in Locs
  /\ NoCall.added = {} /\ NoCall.deleted = {} /\ NoCall.target = 0 /\ NoCall.checked = 0
<1>1. <<>> \in Seq(EntryNames)
  OBVIOUS
<1> QED
  BY <1>1 DEF NoCall, Locs

\* A row whose deletion is taken back if it is in B.
Kept(r, B) == IF r \in B THEN [r EXCEPT !.del = None] ELSE r

LEMMA JarKept ==
  ASSUME NEW j \in JarRows, NEW B
  PROVE  /\ Kept(j, B) \in JarRows
         /\ Kept(j, B).id = j.id /\ Kept(j, B).name = j.name
         /\ Kept(j, B).owner = j.owner /\ Kept(j, B).ins = j.ins
         /\ Kept(j, B).del = IF j \in B THEN None ELSE j.del
         /\ Id(Kept(j, B)) = Id(j)
BY DEF Kept, JarRows, Id

LEMMA EntryKept ==
  ASSUME NEW e \in EntryRows, NEW B
  PROVE  /\ Kept(e, B) \in EntryRows
         /\ Kept(e, B).jar = e.jar /\ Kept(e, B).name = e.name
         /\ Kept(e, B).file = e.file /\ Kept(e, B).ins = e.ins
         /\ Kept(e, B).del = IF e \in B THEN None ELSE e.del
         /\ Key(Kept(e, B)) = Key(e)
BY DEF Kept, EntryRows, Key

\* What a transaction leaves of the locals when it ends.
LEMMA EndedLocals ==
  ASSUME TypeOK, NEW s \in Sessions, Ended(s)
  PROVE  /\ pc' \in [Sessions -> Phases] /\ ops' \in [Sessions -> 0..MaxOps]
         /\ call' \in [Sessions -> Locs] /\ seq' = seq
         /\ pc'[s] = "idle" /\ call'[s] = NoCall
         /\ \A t \in Sessions : t # s => pc'[t] = pc[t] /\ call'[t] = call[t] /\ ops'[t] = ops[t]
<1>1. "idle" \in Phases /\ 0 \in 0..MaxOps
  BY RepositoryAssumption DEF Phases
<1> QED
  BY <1>1, TypesSplit, NoCallType DEF Ended


\* A step of s leaves the locals of the other sessions alone.
Alone(s) ==
  /\ pc' \in [Sessions -> Phases] /\ ops' \in [Sessions -> 0..MaxOps]
  /\ call' \in [Sessions -> Locs]
  /\ \A t \in Sessions \ {s} : pc'[t] = pc[t] /\ call'[t] = call[t] /\ ops'[t] = ops[t]

-----------------------------------------------------------------------------
(* Rollback, of a transaction or to a savepoint.                           *)

\* The rows of GJ and GE go, the deletions of BJ and BE are taken back, and s
\* has no savepoint any more.
Reverts(s, GJ, BJ, GE, BE) ==
  /\ jars' = {Kept(j, BJ) : j \in jars \ GJ}
  /\ entries' = {Kept(e, BE) : e \in entries \ GE}
  /\ seq' = seq
  /\ Alone(s)
  /\ pc'[s] \in {"idle", "jar"}
  /\ call'[s].added = {} /\ call'[s].deleted = {}
  /\ pc'[s] # "idle" => call'[s].op \in Operations /\ ops'[s] > 0
  /\ call'[s].target <= seq
  /\ call'[s].checked \in {0, call[s].checked}
  /\ (\E r \in jars' \cup entries' : s \in Holders(None, r)) => ops'[s] > 0

\* They are rows of s; a JAR goes with its entries and comes back with them; a
\* row comes back only if the one that took its name goes.
Revertible(s, GJ, BJ, GE, BE) ==
  /\ \A j \in GJ : j.ins = s
  /\ \A e \in GE : e.ins = s
  /\ \A j \in BJ : j.del = s
  /\ \A e \in BE : e.del = s
  /\ \A j \in jars, e \in entries : j.id = e.jar => (j \in GJ <=> e \in GE)
  /\ \A j, k \in jars : Follows(s, j, k, Id(j), Id(k)) /\ k \in BJ => j \in GJ
  /\ \A d, e \in entries : Follows(s, d, e, Key(d), Key(e)) /\ e \in BE => d \in GE
  /\ \A j \in jars, e \in entries : j.id = e.jar /\ j.del = s => (j \in BJ <=> e \in BE)
  /\ \A j \in jars, e \in entries : j.id = e.jar /\ j.del # s /\ e.del = s => e \in BE
  /\ Installing(s) => \A j \in jars : j.id = call[s].target => j \in GJ

LEMMA Reverted ==
  ASSUME IInv, NEW s \in Sessions,
         NEW GJ, NEW BJ, NEW GE, NEW BE,
         Reverts(s, GJ, BJ, GE, BE), Revertible(s, GJ, BJ, GE, BE)
  PROVE  IInv'
<1> USE DEF Id, Key
<1>1. /\ Alone(s) /\ seq' = seq /\ pc'[s] \in {"idle", "jar"}
      /\ call'[s].added = {} /\ call'[s].deleted = {}
  BY DEF Reverts
<1>2. /\ jars \subseteq JarRows /\ entries \subseteq EntryRows /\ seq \in Nat
      /\ None \notin Sessions /\ call \in [Sessions -> Locs]
  BY TypesSplit, RepositoryAssumption DEF IInv
<1>3. /\ \A k \in jars' : \E j \in jars : j \notin GJ /\ k = Kept(j, BJ)
      /\ \A j \in jars : j \notin GJ => Kept(j, BJ) \in jars'
      /\ \A d \in entries' : \E e \in entries : e \notin GE /\ d = Kept(e, BE)
      /\ \A e \in entries : e \notin GE => Kept(e, BE) \in entries'
  BY DEF Reverts
<1>4. \A k \in jars' : \E j \in jars :
        /\ j \notin GJ /\ k = Kept(j, BJ) /\ k \in JarRows /\ k.id = j.id /\ k.name = j.name
        /\ k.owner = j.owner /\ k.ins = j.ins /\ k.del = (IF j \in BJ THEN None ELSE j.del)
  BY <1>2, <1>3, JarKept
<1>5. \A d \in entries' : \E e \in entries :
        /\ e \notin GE /\ d = Kept(e, BE) /\ d \in EntryRows /\ d.jar = e.jar /\ d.name = e.name
        /\ d.file = e.file /\ d.ins = e.ins /\ d.del = (IF e \in BE THEN None ELSE e.del)
  BY <1>2, <1>3, EntryKept
<1>6. \A j \in jars : j \notin GJ => \E k \in jars' :
        /\ k = Kept(j, BJ) /\ k.id = j.id /\ k.name = j.name
        /\ k.owner = j.owner /\ k.ins = j.ins /\ k.del = (IF j \in BJ THEN None ELSE j.del)
  BY <1>2, <1>3, JarKept
<1>7. \A e \in entries : e \notin GE => \E d \in entries' :
        /\ d = Kept(e, BE) /\ d.jar = e.jar /\ d.name = e.name
        /\ d.file = e.file /\ d.ins = e.ins /\ d.del = (IF e \in BE THEN None ELSE e.del)
  BY <1>2, <1>3, EntryKept
<1>8. /\ \A j \in jars : j \in GJ => j.ins = s
      /\ \A e \in entries : e \in GE => e.ins = s
      /\ \A j \in jars : j \in BJ => j.del = s
      /\ \A e \in entries : e \in BE => e.del = s
  BY DEF Revertible
<1>9. \A t \in Sessions : t # s => /\ pc'[t] = pc[t] /\ call'[t] = call[t] /\ ops'[t] = ops[t]
                                   /\ Installing(t)' = Installing(t) /\ Removing(t)' = Removing(t)
                                   /\ Stored(t)' = Stored(t)
  BY <1>1 DEF Alone, Installing, Removing, Stored
<1>10. ~Installing(s)' /\ ~Removing(s)' /\ pc'[s] \notin {"entry", "row"}
  BY <1>1 DEF Installing, Removing
<1>11. TypeOK'
  <2>1. \A r \in jars' \cup entries' : \A t \in Holders(None, r) : ops'[t] > 0
    <3>1. ASSUME NEW r \in jars' \cup entries', NEW t \in Holders(None, r)
          PROVE  ops'[t] > 0
      <4>1. CASE t = s
        BY <3>1, <4>1 DEF Reverts
      <4>2. CASE t # s
        <5>1. t \in Sessions
          BY <1>4, <1>5 DEF JarRows, EntryRows, Holders
        <5>2. \E q \in jars \cup entries : t \in Holders(None, q)
          BY <1>4, <1>5 DEF Holders
        <5> QED
          BY <4>2, <5>1, <5>2, <1>1, TypesSplit DEF IInv, Alone
      <4> QED
        BY <4>1, <4>2
    <3> QED
      BY <3>1
  <2>2. jars' \subseteq JarRows /\ entries' \subseteq EntryRows
    BY <1>4, <1>5
  <2> QED
    BY <1>1, <1>2, <2>1, <2>2 DEF TypeOK, Alone, Locs, Holders
<1>12. Keyed'
  <2>1. \A j \in jars' : j.id <= seq'
    BY <1>1, <1>4 DEF IInv, Keyed
  <2>2. \A j, k \in jars' : j.id = k.id => j = k
    BY <1>4 DEF IInv, Keyed
  <2>3. \A d, e \in entries' : Key(d) = Key(e) => d = e
    BY <1>5 DEF IInv, Keyed
  <2>4. \A e \in entries' : \E j \in jars' : j.id = e.jar /\ j.ins = e.ins
    BY <1>6, <1>5 DEF IInv, Keyed, Revertible
  <2> QED
    BY <2>1, <2>2, <2>3, <2>4 DEF Keyed
<1>13. Named1'
  <2>1. ASSUME NEW j2 \in jars', NEW k2 \in jars', j2 # k2, j2.name = k2.name
        PROVE  \E t \in Sessions : \/ Follows(t, j2, k2, Id(j2), Id(k2))'
                                   \/ Follows(t, k2, j2, Id(k2), Id(j2))'
    <3>1. PICK j \in jars : /\ j \notin GJ /\ j2 = Kept(j, BJ) /\ j2.id = j.id /\ j2.name = j.name
                            /\ j2.ins = j.ins /\ j2.del = (IF j \in BJ THEN None ELSE j.del)
      BY <1>4
    <3>2. PICK k \in jars : /\ k \notin GJ /\ k2 = Kept(k, BJ) /\ k2.id = k.id /\ k2.name = k.name
                            /\ k2.ins = k.ins /\ k2.del = (IF k \in BJ THEN None ELSE k.del)
      BY <1>4
    <3>3. PICK t \in Sessions : \/ Follows(t, j, k, Id(j), Id(k))
                                \/ Follows(t, k, j, Id(k), Id(j))
      BY <2>1, <3>1, <3>2 DEF IInv, Named1
    <3>4. CASE t = s
      BY <3>1, <3>2, <3>3, <3>4, <1>1 DEF Follows, Revertible
    <3>5. CASE t # s
      BY <3>1, <3>2, <3>3, <3>5, <1>8, <1>9 DEF Follows
    <3> QED
      BY <3>4, <3>5
  <2> QED
    BY <2>1 DEF Named1, Follows
<1>14. Named2'
  <2>1. ASSUME NEW j2 \in entries', NEW k2 \in entries', j2 # k2, j2.name = k2.name
        PROVE  \E t \in Sessions : \/ Follows(t, j2, k2, Key(j2), Key(k2))'
                                   \/ Follows(t, k2, j2, Key(k2), Key(j2))'
    <3>1. PICK j \in entries : /\ j \notin GE /\ j2 = Kept(j, BE) /\ j2.jar = j.jar /\ j2.name = j.name
                            /\ j2.ins = j.ins /\ j2.del = (IF j \in BE THEN None ELSE j.del)
      BY <1>5
    <3>2. PICK k \in entries : /\ k \notin GE /\ k2 = Kept(k, BE) /\ k2.jar = k.jar /\ k2.name = k.name
                            /\ k2.ins = k.ins /\ k2.del = (IF k \in BE THEN None ELSE k.del)
      BY <1>5
    <3>3. PICK t \in Sessions : \/ Follows(t, j, k, Key(j), Key(k))
                                \/ Follows(t, k, j, Key(k), Key(j))
      BY <2>1, <3>1, <3>2 DEF IInv, Named2
    <3>4. CASE t = s
      BY <3>1, <3>2, <3>3, <3>4, <1>1 DEF Follows, Revertible
    <3>5. CASE t # s
      BY <3>1, <3>2, <3>3, <3>5, <1>8, <1>9 DEF Follows
    <3> QED
      BY <3>4, <3>5
  <2> QED
    BY <2>1 DEF Named2, Follows
<1>15. Together'
  <2>1. ASSUME NEW t \in Sessions, NEW j2 \in jars', NEW e2 \in entries', j2.id = e2.jar
        PROVE  Deleted(t, j2, e2)'
    <3>1. PICK j \in jars : /\ j \notin GJ /\ j2.id = j.id /\ j2.name = j.name
                            /\ j2.ins = j.ins /\ j2.del = (IF j \in BJ THEN None ELSE j.del)
      BY <1>4
    <3>2. PICK e \in entries : /\ e \notin GE /\ e2.jar = e.jar /\ e2.name = e.name
                            /\ e2.ins = e.ins /\ e2.del = (IF e \in BE THEN None ELSE e.del)
      BY <1>5
    <3>3. j.id = e.jar /\ Deleted(t, j, e)
      BY <2>1, <3>1, <3>2 DEF IInv, Together
    <3>4. CASE t = s
      <4>1. ~(e2.del = s /\ j2.del # s)
        BY <3>1, <3>2, <3>3, <1>2 DEF Revertible
      <4>2. j2.del = s => e2.del = s
        BY <3>1, <3>2, <3>3, <3>4, <1>2 DEF Revertible, Deleted
      <4> QED
        BY <3>4, <4>1, <4>2, <1>1 DEF Deleted
    <3>5. CASE t # s
      BY <3>1, <3>2, <3>3, <3>5, <1>2, <1>8, <1>9 DEF Deleted
    <3> QED
      BY <3>4, <3>5
  <2> QED
    BY <2>1 DEF Together, Deleted, Removing
<1>16. SeenFirst'
  BY <1>2, <1>4, <1>5 DEF SeenFirst, IInv
<1>17. Complete'
  <2>1. ASSUME NEW j2 \in jars'
        PROVE  \/ \E f \in Files : AllOf(f, j2)'
               \/ \E t \in Sessions : Installing(t)' /\ call'[t].target = j2.id
    <3>1. PICK j \in jars : j \notin GJ /\ j2.id = j.id
      BY <1>4
    <3>2. CASE \E f \in Files : AllOf(f, j)
      <4>1. PICK f \in Files : AllOf(f, j)
        BY <3>2
      <4>2. \A e \in entries' : e.jar = j2.id => e.file = f /\ e.name \in RangeOf(EntriesOf[f])
        BY <4>1, <3>1, <1>5 DEF AllOf
      <4>3. \A n \in RangeOf(EntriesOf[f]) : \E e \in entries' : e.jar = j2.id /\ e.name = n
        BY <4>1, <3>1, <1>7 DEF AllOf, Revertible
      <4> QED
        BY <4>2, <4>3 DEF AllOf
    <3>3. CASE \E t \in Sessions : Installing(t) /\ call[t].target = j.id
      BY <3>1, <3>3, <1>9 DEF Revertible
    <3> QED
      BY <3>1, <3>2, <3>3 DEF IInv, Complete
  <2> QED
    BY <2>1 DEF Complete, AllOf, Installing
<1>18. ASSUME NEW t \in Sessions
       PROVE  (Savepoint(t) /\ Locals(t) /\ Progress(t) /\ Owners(t))'
  <2>0. Savepoint(t) /\ Locals(t) /\ Progress(t) /\ Owners(t)
    BY DEF IInv
  <2>1. Savepoint(t)'
    <3>1. CASE t = s
      BY <3>1, <1>1, <1>10 DEF Savepoint, Installing
    <3>2. CASE t # s
      <4>1. \A j \in jars' : Id(j) \in call'[t].deleted => j.del = t
        BY <2>0, <3>2, <1>4, <1>8, <1>9 DEF Savepoint
      <4>2. \A e \in entries' : Key(e) \in call'[t].deleted => e.del = t
        BY <2>0, <3>2, <1>5, <1>8, <1>9 DEF Savepoint
      <4>3. /\ \A k \in call'[t].deleted : k[1] <= seq'
            /\ \A k \in call'[t].added : Installing(t)' /\ k[1] = call'[t].target
            /\ \A u \in Sessions : Installing(u)' => \A k \in call'[t].deleted : k[1] # call'[u].target
        BY <2>0, <3>2, <1>1, <1>9, <1>10 DEF Savepoint
      <4>4. Installing(t)' => /\ \A j \in jars' : j.id = call'[t].target => Id(j) \in call'[t].added
                              /\ \A e \in entries' : e.jar = call'[t].target => Key(e) \in call'[t].added
        BY <2>0, <3>2, <1>4, <1>5, <1>9 DEF Savepoint
      <4> QED
        BY <4>1, <4>2, <4>3, <4>4 DEF Savepoint, Installing
    <3> QED
      BY <3>1, <3>2
  <2>2. Locals(t)'
    <3>1. CASE t = s
      BY <3>1, <1>1, <1>10 DEF Locals, Reverts, Removing
    <3>2. CASE t # s
      <4>1. Removing(t)' => \A j \in jars' : j.id = call'[t].target => j.name = call'[t].op.name
        BY <2>0, <3>2, <1>4, <1>9 DEF Locals
      <4>2. pc'[t] = "entry" => /\ call'[t].row \in Keys /\ call'[t].row[1] = call'[t].target
                                /\ \A e \in entries' : Key(e) = call'[t].row => e.del # t
        BY <2>0, <3>2, <1>2, <1>5, <1>9 DEF Locals
      <4>3. pc'[t] = "row" =>
              /\ call'[t].row \in Keys /\ call'[t].row[1] <= seq'
              /\ \A j \in jars' : Id(j) = call'[t].row => j.name = call'[t].op.name /\ j.del # t
        BY <2>0, <3>2, <1>1, <1>2, <1>4, <1>9 DEF Locals
      <4>4. (pc'[t] # "idle" => call'[t].op \in Operations /\ ops'[t] > 0) /\ call'[t].target <= seq'
        BY <2>0, <3>2, <1>1, <1>9 DEF Locals
      <4> QED
        BY <4>1, <4>2, <4>3, <4>4 DEF Locals, Removing
    <3> QED
      BY <3>1, <3>2
  <2>3. Progress(t)'
    <3>1. CASE t = s
      BY <3>1, <1>10 DEF Progress, Installing
    <3>2. CASE t # s
      <4> SUFFICES ASSUME Installing(t)
                   PROVE  Progress(t)'
        BY <3>2, <1>9 DEF Progress, Installing
      <4>1. \E j \in jars' : j.id = call'[t].target /\ j.ins = t /\ j.del = None
        BY <2>0, <3>2, <1>6, <1>8, <1>9 DEF Progress
      <4>2. \A e \in entries' : e.jar = call'[t].target =>
              e.file = call'[t].op.file /\ e.name \in Stored(t)' /\ e.del = None
        BY <2>0, <3>2, <1>5, <1>9 DEF Progress
      <4>3. \A n \in Stored(t)' : \E e \in entries' : e.jar = call'[t].target /\ e.name = n
        <5>1. PICK j \in jars : j.id = call[t].target /\ j.ins = t
          BY <2>0 DEF Progress
        <5>2. \A e \in entries : e.jar = call[t].target => e \notin GE
          BY <5>1, <3>2, <1>8 DEF Revertible
        <5> QED
          BY <2>0, <3>2, <5>2, <1>7, <1>9 DEF Progress
      <4>4. pc'[t] = "store" =>
              /\ RangeOf(call'[t].todo) \subseteq RangeOf(EntriesOf[call'[t].op.file])
              /\ \A i, k \in DOMAIN call'[t].todo : call'[t].todo[i] = call'[t].todo[k] => i = k
        BY <2>0, <3>2, <1>9 DEF Progress
      <4> QED
        BY <4>1, <4>2, <4>3, <4>4 DEF Progress, Stored, Installing
    <3> QED
      BY <3>1, <3>2
  <2>4. Owners(t)'
    <3>1. /\ call'[t].checked \in {0, call[t].checked}
          /\ call'[t].checked <= seq'
      <4>1. call'[t].checked \in {0, call[t].checked}
        BY <1>9 DEF Reverts
      <4>2. call[t].checked <= seq
        BY <2>0 DEF Owners
      <4> QED
        BY <4>1, <4>2, <1>1, <1>2
    <3>2. \A j \in jars' : j.ins = t => j.owner = UserOf[t]
      BY <2>0, <1>4 DEF Owners
    <3>3. \A j \in jars' : j.id = call'[t].checked => MayRemove(t, j)
      BY <2>0, <1>2, <1>4, <3>1 DEF Owners, MayRemove, JarRows, Ids
    <3> QED
      BY <3>1, <3>2, <3>3 DEF Owners, MayRemove
  <2> QED
    BY <2>1, <2>2, <2>3, <2>4
<1> QED
  BY <1>11, <1>12, <1>13, <1>14, <1>15, <1>16, <1>17, <1>18 DEF IInv

\* The deployer dies, or a user rolls back.
LEMMA RollbackKeeps ==
  ASSUME IInv, NEW s \in Sessions, Rollback(s)
  PROVE  IInv'
<1> DEFINE GJ == {j \in jars : j.ins = s}
           BJ == {j \in jars : j.del = s}
           GE == {e \in entries : e.ins = s}
           BE == {e \in entries : e.del = s}
<1>1. /\ jars \subseteq JarRows /\ entries \subseteq EntryRows /\ seq \in Nat
      /\ None \notin Sessions
  BY TypesSplit, RepositoryAssumption DEF IInv
<1>2. /\ pc' \in [Sessions -> Phases] /\ ops' \in [Sessions -> 0..MaxOps]
      /\ call' \in [Sessions -> Locs] /\ seq' = seq
      /\ pc'[s] = "idle" /\ call'[s] = NoCall
      /\ \A t \in Sessions : t # s => pc'[t] = pc[t] /\ call'[t] = call[t] /\ ops'[t] = ops[t]
  BY EndedLocals DEF IInv, Rollback
<1>3. jars' = {Kept(j, BJ) : j \in jars \ GJ}
  BY DEF Rollback, Kept
<1>4. entries' = {Kept(e, BE) : e \in entries \ GE}
  BY DEF Rollback, Kept
<1>5. \A r \in jars' \cup entries' : s \notin Holders(None, r)
  <2>1. \A j \in jars : j \notin GJ => Kept(j, BJ).ins # s /\ Kept(j, BJ).del # s
    BY <1>1, JarKept
  <2>2. \A e \in entries : e \notin GE => Kept(e, BE).ins # s /\ Kept(e, BE).del # s
    BY <1>1, EntryKept
  <2> QED
    BY <2>1, <2>2, <1>3, <1>4 DEF Holders
<1>6. Reverts(s, GJ, BJ, GE, BE)
  BY <1>1, <1>2, <1>3, <1>4, <1>5, NoCallType DEF Reverts, Alone
<1>7. Revertible(s, GJ, BJ, GE, BE)
  <2>1. \A j \in jars, e \in entries : j.id = e.jar => (j \in GJ <=> e \in GE)
    BY DEF IInv, Keyed
  <2>2. \A j \in jars, e \in entries : j.id = e.jar /\ j.del = s => (j \in BJ <=> e \in BE)
    BY DEF IInv, Together, Deleted
  <2>3. Installing(s) => \A j \in jars : j.id = call[s].target => j \in GJ
    BY DEF IInv, Keyed, Progress
  <2> QED
    BY <2>1, <2>2, <2>3 DEF Revertible, Follows
<1> QED
  BY <1>6, <1>7, Reverted

\* The statement is undone.
LEMMA UndoKeeps ==
  ASSUME IInv, NEW s \in Sessions, Undo(s), seq' = seq, Alone(s), ops' = ops,
         pc'[s] \in {"idle", "jar"}, call'[s].added = {}, call'[s].deleted = {},
         pc'[s] # "idle" => call'[s].op \in Operations /\ ops[s] > 0,
         call'[s].target <= seq, call'[s].checked \in {0, call[s].checked}
  PROVE  IInv'
<1> DEFINE GJ == {j \in jars : Id(j) \in call[s].added}
           BJ == {j \in jars : Id(j) \in call[s].deleted}
           GE == {e \in entries : Key(e) \in call[s].added}
           BE == {e \in entries : Key(e) \in call[s].deleted}
<1>1. /\ jars \subseteq JarRows /\ entries \subseteq EntryRows
      /\ None \notin Sessions
      /\ \A r \in jars \cup entries : \A t \in Holders(None, r) : ops[t] > 0
  BY TypesSplit, RepositoryAssumption DEF IInv
<1>2. Savepoint(s) /\ Progress(s)
  BY DEF IInv
<1>3. jars' = {Kept(j, BJ) : j \in jars \ GJ}
  BY DEF Undo, Undeleted, Kept
<1>4. entries' = {Kept(e, BE) : e \in entries \ GE}
  BY DEF Undo, Undeleted, Kept
<1>5. (\E r \in jars' \cup entries' : s \in Holders(None, r)) => ops'[s] > 0
  <2>1. \A j \in jars : s \in Holders(None, Kept(j, BJ)) => s \in Holders(None, j)
    BY <1>1, JarKept DEF Holders
  <2>2. \A e \in entries : s \in Holders(None, Kept(e, BE)) => s \in Holders(None, e)
    BY <1>1, EntryKept DEF Holders
  <2> QED
    BY <2>1, <2>2, <1>1, <1>3, <1>4
<1>6. Reverts(s, GJ, BJ, GE, BE)
  BY <1>3, <1>4, <1>5 DEF Reverts
<1>7. \A j \in jars : j \in GJ => Installing(s) /\ j.id = call[s].target
  BY <1>2 DEF Savepoint, Id
<1>8. \A e \in entries : e \in GE => Installing(s) /\ e.jar = call[s].target
  BY <1>2 DEF Savepoint, Key
<1>9. Installing(s) => \A j \in jars : j.id = call[s].target => j.ins = s
  BY <1>2 DEF IInv, Keyed, Progress
<1>10. Revertible(s, GJ, BJ, GE, BE)
  <2>1. (\A j \in GJ : j.ins = s) /\ (\A e \in GE : e.ins = s)
    BY <1>7, <1>8, <1>9 DEF IInv, Keyed
  <2>2. (\A j \in BJ : j.del = s) /\ (\A e \in BE : e.del = s)
    BY <1>2 DEF Savepoint
  <2>3. \A j \in jars, e \in entries : j.id = e.jar => (j \in GJ <=> e \in GE)
    BY <1>2, <1>7, <1>8 DEF Savepoint
  <2>4. \A j \in jars, e \in entries : j.id = e.jar /\ j.del = s => (j \in BJ <=> e \in BE)
    BY DEF IInv, Together, Deleted
  <2>5. \A j \in jars, e \in entries : j.id = e.jar /\ j.del # s /\ e.del = s => e \in BE
    BY DEF IInv, Together, Deleted
  <2>6. Installing(s) => \A j \in jars : j.id = call[s].target => j \in GJ
    BY <1>2 DEF Savepoint
  <2> QED
    BY <2>1, <2>2, <2>3, <2>4, <2>5, <2>6 DEF Revertible, Follows
<1> QED
  BY <1>6, <1>10, Reverted

\* Nothing but the operation of s ends.
LEMMA Finished ==
  ASSUME TypeOK, NEW s \in Sessions, Finish(s), ops' = ops
  PROVE  Alone(s) /\ pc'[s] = "idle" /\ call'[s] = NoCall
BY TypesSplit, NoCallType DEF Finish, Alone, Phases

LEMMA OperationFailsKeeps ==
  ASSUME IInv, NEW s \in Sessions, OperationFails(s)
  PROVE  IInv'
<1>1. CASE s \in Deployers
  BY <1>1, RollbackKeeps DEF OperationFails
<1>2. CASE s \notin Deployers
  <2>1. Undo(s) /\ Finish(s) /\ seq' = seq /\ ops' = ops
    BY <1>2 DEF OperationFails
  <2>2. Alone(s) /\ pc'[s] = "idle" /\ call'[s] = NoCall /\ seq \in Nat
    BY <2>1, Finished, TypesSplit DEF IInv
  <2> QED
    BY <2>1, <2>2, NoCallType, UndoKeeps
<1> QED
  BY <1>1, <1>2

LEMMA RemovalFailsKeeps ==
  ASSUME IInv, NEW s \in Sessions, RemovalFails(s), pc[s] # "idle"
  PROVE  IInv'
<1>1. CASE call[s].op.kind = "replace"
  <2>1. /\ Undo(s) /\ seq' = seq /\ ops' = ops /\ pc' = [pc EXCEPT ![s] = "jar"]
        /\ call' = [call EXCEPT ![s].added = {}, ![s].deleted = {}]
    BY <1>1 DEF RemovalFails
  <2>2. /\ pc \in [Sessions -> Phases] /\ ops \in [Sessions -> 0..MaxOps]
        /\ call \in [Sessions -> Locs]
    BY TypesSplit DEF IInv
  <2>3. call' = [call EXCEPT ![s] = [call[s] EXCEPT !.added = {}, !.deleted = {}]]
    BY <2>1, <2>2
  <2>4. /\ [call[s] EXCEPT !.added = {}, !.deleted = {}] \in Locs
        /\ call'[s].added = {} /\ call'[s].deleted = {} /\ call'[s].op = call[s].op
        /\ call'[s].target = call[s].target /\ call'[s].checked = call[s].checked
    BY <2>2, <2>3 DEF Locs
  <2>5. Alone(s)
    BY <2>1, <2>2, <2>3, <2>4 DEF Alone, Phases
  <2>6. call[s].op \in Operations /\ ops[s] > 0 /\ call[s].target <= seq
    BY DEF IInv, Locals
  <2> QED
    BY <2>1, <2>2, <2>4, <2>5, <2>6, UndoKeeps
<1>2. CASE call[s].op.kind # "replace"
  BY <1>2, OperationFailsKeeps DEF RemovalFails
<1> QED
  BY <1>1, <1>2

-----------------------------------------------------------------------------
(* Steps that leave the tables alone.                                      *)

\* A removal is under way wherever an entry is deleted and its JAR is not.
HalfDone(s) ==
  \A j \in jars, e \in entries : j.id = e.jar /\ e.del = s /\ j.del # s =>
    /\ Removing(s)' /\ Key(e) \in call'[s].deleted
    /\ e.jar = call'[s].target /\ j.name = call'[s].op.name

LEMMA LocalStep ==
  ASSUME IInv, NEW s \in Sessions, UNCHANGED tables, Alone(s),
         ops'[s] = ops[s] \/ ops'[s] > 0,
         \/ call'[s].deleted = call[s].deleted /\ call'[s].added = call[s].added
         \/ call'[s].deleted = {},
         HalfDone(s),
         \A j \in jars : Installing(s) /\ j.id = call[s].target =>
           \/ \E f \in Files : AllOf(f, j)
           \/ Installing(s)' /\ call'[s].target = j.id,
         Installing(s)' => Installing(s) /\ call'[s].target = call[s].target,
         Savepoint(s)', Locals(s)', Progress(s)', Owners(s)'
  PROVE  IInv'
<1> USE DEF Id, Key
<1>1. jars' = jars /\ entries' = entries /\ seq' = seq
  BY DEF tables
<1>2. \A t \in Sessions : t # s => /\ pc'[t] = pc[t] /\ call'[t] = call[t] /\ ops'[t] = ops[t]
                                   /\ Installing(t)' = Installing(t) /\ Removing(t)' = Removing(t)
                                   /\ Stored(t)' = Stored(t)
  BY DEF Alone, Installing, Removing, Stored
<1>3. TypeOK'
  <2>1. \A r \in jars \cup entries : \A t \in Holders(None, r) : t \in Sessions /\ ops'[t] > 0
    BY <1>2, TypesSplit DEF IInv, Holders, JarRows, EntryRows
  <2> QED
    BY <1>1, <2>1, TypesSplit DEF IInv, TypeOK, Alone, Locs, Holders
<1>4. Keyed'
  BY <1>1 DEF IInv, Keyed
<1>5. ASSUME NEW t \in Sessions, NEW new, NEW old, NEW nk, NEW ok, Follows(t, new, old, nk, ok)
      PROVE  Follows(t, new, old, nk, ok)'
  BY <1>2, <1>5 DEF Follows
<1>6. Named1' /\ Named2'
  <2>1. Named1 /\ Named2
    BY DEF IInv
  <2>2. ASSUME NEW j \in jars, NEW k \in jars, j # k, j.name = k.name
        PROVE  \E t \in Sessions : Follows(t, j, k, Id(j), Id(k))' \/ Follows(t, k, j, Id(k), Id(j))'
    BY <2>1, <2>2, <1>5 DEF Named1
  <2>3. ASSUME NEW j \in entries, NEW k \in entries, j # k, j.name = k.name
        PROVE  \E t \in Sessions : Follows(t, j, k, Key(j), Key(k))' \/ Follows(t, k, j, Key(k), Key(j))'
    BY <2>1, <2>3, <1>5 DEF Named2
  <2> QED
    BY <1>1, <2>2, <2>3 DEF Named1, Named2, Follows
<1>7. Together'
  <2>1. ASSUME NEW t \in Sessions, NEW j \in jars, NEW e \in entries, j.id = e.jar
        PROVE  Deleted(t, j, e)'
    <3>1. Deleted(t, j, e)
      BY <2>1 DEF IInv, Together
    <3>2. CASE t # s
      BY <3>1, <3>2, <1>2 DEF Deleted
    <3>3. CASE t = s
      BY <2>1, <3>1, <3>3 DEF Deleted, HalfDone
    <3> QED
      BY <3>2, <3>3
  <2> QED
    BY <1>1, <2>1 DEF Together, Deleted, Removing
<1>8. SeenFirst'
  BY <1>1 DEF IInv, SeenFirst
<1>9. Complete'
  <2>1. ASSUME NEW j \in jars
        PROVE  \/ \E f \in Files : AllOf(f, j)
               \/ \E t \in Sessions : Installing(t)' /\ call'[t].target = j.id
    BY <1>2 DEF IInv, Complete
  <2> QED
    BY <1>1, <2>1 DEF Complete, AllOf, Installing
<1>10. ASSUME NEW t \in Sessions
       PROVE  (Savepoint(t) /\ Locals(t) /\ Progress(t) /\ Owners(t))'
  <2>1. CASE t = s
    BY <2>1
  <2>2. CASE t # s
    <3>1. Savepoint(t) /\ Locals(t) /\ Progress(t) /\ Owners(t)
      BY DEF IInv
    <3>2. \A u \in Sessions : Installing(u)' => \A k \in call[t].deleted : k[1] # call'[u].target
      BY <3>1, <1>2 DEF Savepoint
    <3>3. Savepoint(t)'
      BY <3>1, <3>2, <2>2, <1>1, <1>2 DEF Savepoint, Installing
    <3>4. Locals(t)'
      BY <3>1, <2>2, <1>1, <1>2 DEF Locals, Removing
    <3>5. Progress(t)'
      BY <3>1, <2>2, <1>1, <1>2, SMTT(30) DEF Progress, Installing, Stored
    <3>6. Owners(t)'
      BY <3>1, <2>2, <1>1, <1>2 DEF Owners, MayRemove
    <3> QED
      BY <3>3, <3>4, <3>5, <3>6
  <2> QED
    BY <2>1, <2>2
<1> QED
  BY <1>3, <1>4, <1>6, <1>7, <1>8, <1>9, <1>10 DEF IInv

LEMMA Facts ==
  ASSUME IInv, NEW s \in Sessions
  PROVE  /\ jars \subseteq JarRows /\ entries \subseteq EntryRows /\ seq \in Nat
         /\ pc \in [Sessions -> Phases] /\ ops \in [Sessions -> 0..MaxOps]
         /\ call \in [Sessions -> Locs] /\ call[s] \in Locs
         /\ None \notin Sessions /\ None \notin EntryNames
         /\ Savepoint(s) /\ Locals(s) /\ Progress(s) /\ Owners(s)
BY TypesSplit, RepositoryAssumption DEF IInv

\* One local and the place of s change.
LEMMA Moved ==
  ASSUME IInv, NEW s \in Sessions, NEW to \in Phases, NEW c \in Locs,
         pc' = [pc EXCEPT ![s] = to], call' = [call EXCEPT ![s] = c], ops' = ops
  PROVE  Alone(s) /\ pc'[s] = to /\ call'[s] = c /\ ops'[s] = ops[s]
BY Facts DEF Alone

LEMMA NoneHalfDone ==
  ASSUME IInv, NEW s \in Sessions, ~Removing(s)
  PROVE  HalfDone(s)
BY DEF HalfDone, IInv, Together, Deleted

LEMMA BeginKeeps ==
  ASSUME IInv, NEW s \in Sessions, Begin(s)
  PROVE  IInv'
<1>1. PICK o \in Operations :
        /\ call' = [call EXCEPT ![s] = [NoCall EXCEPT !.op = o]]
        /\ pc' = [pc EXCEPT ![s] = IF o.kind = "install" THEN "jar" ELSE "check"]
  BY DEF Begin
<1>2. /\ UNCHANGED tables /\ pc[s] = "idle" /\ ops[s] < MaxOps
      /\ ops' = [ops EXCEPT ![s] = ops[s] + 1]
  BY DEF Begin
<1>3. [NoCall EXCEPT !.op = o] \in Locs
  BY NoCallType DEF Locs
<1> DEFINE c == [NoCall EXCEPT !.op = o]
<1>4. c.op = o /\ c.target = 0 /\ c.checked = 0 /\ c.added = {} /\ c.deleted = {}
  BY NoCallType DEF Locs
<1>5. /\ call'[s].op = o /\ call'[s].target = 0 /\ call'[s].checked = 0
      /\ call'[s].added = {} /\ call'[s].deleted = {}
  BY <1>1, <1>4, Facts
<1>6. Alone(s) /\ pc'[s] \in {"jar", "check"} /\ ops'[s] > 0
  BY <1>1, <1>2, <1>3, Facts, RepositoryAssumption DEF Alone, Phases
<1>7. ~Installing(s) /\ ~Removing(s) /\ ~Installing(s)' /\ ~Removing(s)'
  BY <1>2, <1>6 DEF Installing, Removing
<1>8. HalfDone(s)
  BY <1>7, NoneHalfDone
<1>9. Savepoint(s)' /\ Locals(s)' /\ Progress(s)'
  BY <1>2, <1>5, <1>6, <1>7, Facts DEF Savepoint, Locals, Progress, tables
<1>10. Owners(s)'
  <2>1. \A j \in jars : j.id # 0
    BY Facts DEF JarRows, Ids
  <2> QED
    BY <2>1, <1>2, <1>5, Facts DEF Owners, tables
<1> QED
  BY <1>2, <1>5, <1>6, <1>7, <1>8, <1>9, <1>10, LocalStep

LEMMA CheckKeeps ==
  ASSUME IInv, NEW s \in Sessions, Check(s)
  PROVE  IInv'
<1>1. PICK j \in Named(s) : MayRemove(s, j) /\ call' = [call EXCEPT ![s].checked = j.id]
  BY DEF Check
<1>2. UNCHANGED tables /\ pc[s] = "check" /\ ops' = ops /\ pc' = [pc EXCEPT ![s] = "cursor"]
  BY DEF Check
<1>3. j \in jars /\ j.id \in Nat /\ j.id <= seq
  BY <1>1, Facts DEF Named, JarRows, Ids, IInv, Keyed
<1> DEFINE c == [call[s] EXCEPT !.checked = j.id]
<1>4. c \in Locs /\ call' = [call EXCEPT ![s] = c] /\ "cursor" \in Phases
  BY <1>1, <1>3, Facts DEF Locs, Phases
<1>5. Alone(s) /\ pc'[s] = "cursor" /\ call'[s] = c /\ ops'[s] = ops[s]
  BY <1>2, <1>4, Moved
<1>6. /\ c.op = call[s].op /\ c.target = call[s].target /\ c.checked = j.id
      /\ c.added = call[s].added /\ c.deleted = call[s].deleted
  BY Facts DEF Locs
<1> HIDE DEF c
<1>7. ~Installing(s) /\ ~Removing(s) /\ ~Installing(s)' /\ ~Removing(s)'
  BY <1>2, <1>5 DEF Installing, Removing
<1>8. HalfDone(s)
  BY <1>7, NoneHalfDone
<1>9. Savepoint(s)'
  <2>1. \A u \in Sessions : Installing(u)' => Installing(u) /\ call'[u].target = call[u].target
    BY <1>5, <1>6, <1>7 DEF Alone, Installing
  <2> QED
    BY <2>1, <1>2, <1>5, <1>6, <1>7, Facts DEF Savepoint, tables
<1>10. Locals(s)' /\ Progress(s)'
  BY <1>2, <1>5, <1>6, <1>7, Facts DEF Locals, Progress, tables
<1>11. Owners(s)'
  BY <1>1, <1>2, <1>3, <1>5, <1>6, Facts DEF Owners, MayRemove, tables, IInv, Keyed
<1> QED
  BY <1>2, <1>5, <1>6, <1>7, <1>8, <1>9, <1>10, <1>11, LocalStep

LEMMA OpenCursorKeeps ==
  ASSUME IInv, NEW s \in Sessions, OpenCursor(s)
  PROVE  IInv'
<1> DEFINE id == IF Named(s) = {} THEN 0 ELSE (CHOOSE j \in Named(s) : TRUE).id
           c == [call[s] EXCEPT !.target = id]
<1>1. /\ UNCHANGED tables /\ pc[s] = "cursor" /\ ops' = ops /\ pc' = [pc EXCEPT ![s] = "entries"]
      /\ call' = [call EXCEPT ![s].target = id]
  BY DEF OpenCursor
<1>2. id \in Nat /\ id <= seq /\ \A j \in jars : j.id = id => j.name = call[s].op.name
  <2>1. CASE Named(s) = {}
    BY <2>1, Facts DEF JarRows, Ids
  <2>2. CASE Named(s) # {}
    <3>1. PICK k : k = (CHOOSE j \in Named(s) : TRUE) /\ k \in Named(s)
      BY <2>2
    <3> QED
      BY <2>2, <3>1, Facts DEF Named, JarRows, Ids, IInv, Keyed
  <2> QED
    BY <2>1, <2>2
<1> HIDE DEF id
<1>4. c \in Locs /\ call' = [call EXCEPT ![s] = c] /\ "entries" \in Phases
  BY <1>1, <1>2, Facts DEF Locs, Phases
<1>5. Alone(s) /\ pc'[s] = "entries" /\ call'[s] = c /\ ops'[s] = ops[s]
  BY <1>1, <1>4, Moved
<1>6. /\ c.op = call[s].op /\ c.target = id /\ c.checked = call[s].checked
      /\ c.added = call[s].added /\ c.deleted = call[s].deleted
  BY Facts DEF Locs
<1> HIDE DEF c
<1>7. ~Installing(s) /\ ~Removing(s) /\ ~Installing(s)'
  BY <1>1, <1>5 DEF Installing, Removing
<1>8. HalfDone(s)
  BY <1>7, NoneHalfDone
<1>9. Savepoint(s)'
  <2>1. \A u \in Sessions : Installing(u)' => Installing(u) /\ call'[u].target = call[u].target
    BY <1>5, <1>6, <1>7 DEF Alone, Installing
  <2> QED
    BY <2>1, <1>1, <1>5, <1>6, <1>7, Facts DEF Savepoint, tables
<1>10. Locals(s)' /\ Progress(s)'
  BY <1>1, <1>2, <1>5, <1>6, <1>7, Facts DEF Locals, Progress, tables
<1>11. Owners(s)'
  BY <1>1, <1>5, <1>6, Facts DEF Owners, MayRemove, tables
<1> QED
  BY <1>1, <1>5, <1>6, <1>7, <1>8, <1>9, <1>10, <1>11, LocalStep

\* The cursor or the statement finds its next row.
LEMMA FetchKeeps ==
  ASSUME IInv, NEW s \in Sessions, FetchEntry(s) \/ FetchJar(s)
  PROVE  IInv'
<1>1. /\ UNCHANGED tables /\ pc[s] = "entries" /\ ops' = ops
      /\ \E to \in {"entry", "row"} : pc' = [pc EXCEPT ![s] = to]
  BY DEF FetchEntry, FetchJar
<1>2. \E row \in Keys : /\ call' = [call EXCEPT ![s].row = row]
                        /\ \/ /\ pc' = [pc EXCEPT ![s] = "entry"] /\ row[1] = call[s].target
                              /\ \A e \in entries : Key(e) = row => e.del # s
                           \/ /\ pc' = [pc EXCEPT ![s] = "row"] /\ row[1] <= seq
                              /\ \A j \in jars : Id(j) = row => j.name = call[s].op.name /\ j.del # s
  <2>1. CASE FetchEntry(s)
    <3>1. PICK e \in Doomed(s) : call' = [call EXCEPT ![s].row = Key(e)]
      BY <2>1 DEF FetchEntry
    <3>2. /\ e \in entries /\ e.jar = call[s].target /\ e.del # s
          /\ Key(e) \in Keys /\ Key(e)[1] = call[s].target
      BY <3>1, Facts DEF Doomed, Visible, EntryRows, Key, Keys
    <3>3. \A d \in entries : Key(d) = Key(e) => d.del # s
      BY <3>2 DEF IInv, Keyed
    <3>4. pc' = [pc EXCEPT ![s] = "entry"]
      BY <2>1 DEF FetchEntry
    <3> QED
      BY <3>1, <3>2, <3>3, <3>4
  <2>2. CASE FetchJar(s)
    <3>1. PICK j \in Named(s) : call' = [call EXCEPT ![s].row = Id(j)]
      BY <2>2 DEF FetchJar
    <3>2. /\ j \in jars /\ j.name = call[s].op.name /\ j.del # s /\ j.id <= seq
          /\ Id(j) \in Keys /\ Id(j)[1] = j.id
      BY <3>1, Facts DEF Named, Visible, JarRows, Id, Keys, IInv, Keyed
    <3>3. \A k \in jars : Id(k) = Id(j) => k = j
      BY <3>2 DEF IInv, Keyed, Id
    <3>4. pc' = [pc EXCEPT ![s] = "row"]
      BY <2>2 DEF FetchJar
    <3> QED
      BY <3>1, <3>2, <3>3, <3>4
  <2> QED
    BY <2>1, <2>2
<1>3. PICK row \in Keys : /\ call' = [call EXCEPT ![s].row = row]
                          /\ \/ /\ pc' = [pc EXCEPT ![s] = "entry"] /\ row[1] = call[s].target
                                /\ \A e \in entries : Key(e) = row => e.del # s
                             \/ /\ pc' = [pc EXCEPT ![s] = "row"] /\ row[1] <= seq
                                /\ \A j \in jars : Id(j) = row => j.name = call[s].op.name /\ j.del # s
  BY <1>2
<1> DEFINE c == [call[s] EXCEPT !.row = row]
<1>4. c \in Locs /\ call' = [call EXCEPT ![s] = c] /\ "entry" \in Phases /\ "row" \in Phases
  BY <1>3, Facts, ZenonT(60) DEF Locs, Phases
<1>5. Alone(s) /\ pc'[s] \in {"entry", "row"} /\ call'[s] = c /\ ops'[s] = ops[s]
  BY <1>1, <1>4, Moved, ZenonT(60)
<1>6. /\ c.op = call[s].op /\ c.target = call[s].target /\ c.checked = call[s].checked
      /\ c.added = call[s].added /\ c.deleted = call[s].deleted /\ c.row = row
  BY Facts DEF Locs
<1> HIDE DEF c
<1>7. ~Installing(s) /\ Removing(s) /\ ~Installing(s)' /\ Removing(s)'
  BY <1>1, <1>5 DEF Installing, Removing
<1>8. HalfDone(s)
  BY <1>5, <1>6, <1>7 DEF HalfDone, IInv, Together, Deleted
<1>9. Savepoint(s)'
  <2>1. \A u \in Sessions : Installing(u)' => Installing(u) /\ call'[u].target = call[u].target
    BY <1>5, <1>6, <1>7 DEF Alone, Installing
  <2> QED
    BY <2>1, <1>1, <1>5, <1>6, <1>7, Facts DEF Savepoint, tables
<1>10. Locals(s)'
  <2>1. pc'[s] = "entry" => row[1] = call[s].target /\ \A e \in entries : Key(e) = row => e.del # s
    BY <1>3, Facts
  <2>2. pc'[s] = "row" => /\ row[1] <= seq
                          /\ \A j \in jars : Id(j) = row => j.name = call[s].op.name /\ j.del # s
    BY <1>3, Facts
  <2>3. /\ call'[s].op \in Operations /\ ops'[s] > 0 /\ call'[s].target <= seq'
        /\ \A j \in jars' : j.id = call'[s].target => j.name = call'[s].op.name
    BY <1>1, <1>5, <1>6, <1>7, Facts DEF Locals, tables
  <2>4. pc'[s] = "entry" => /\ call'[s].row \in Keys /\ call'[s].row[1] = call'[s].target
                            /\ \A e \in entries' : Key(e) = call'[s].row => e.del # s
    BY <2>1, <1>1, <1>5, <1>6 DEF tables
  <2>5. pc'[s] = "row" =>
          /\ call'[s].row \in Keys /\ call'[s].row[1] <= seq'
          /\ \A j \in jars' : Id(j) = call'[s].row => j.name = call'[s].op.name /\ j.del # s
    BY <2>2, <1>1, <1>5, <1>6 DEF tables
  <2> QED
    BY <2>3, <2>4, <2>5 DEF Locals, Key, Id
<1>11. Progress(s)' /\ Owners(s)'
  BY <1>1, <1>5, <1>6, <1>7, Facts DEF Owners, MayRemove, tables, Progress
<1> QED
  BY <1>1, <1>5, <1>6, <1>7, <1>8, <1>9, <1>10, <1>11, LocalStep

\* A removal ends and leaves no savepoint, or goes on with what it has.
LEMMA RemovalEndsLocals ==
  ASSUME IInv, NEW s \in Sessions, pc[s] # "idle", RemovalEnds(s), ops' = ops,
         NEW c \in Locs, c.op = call[s].op, c.target = call[s].target, c.checked = call[s].checked,
         call[s].op.kind # "remove" => call' = [call EXCEPT ![s] = c]
  PROVE  /\ Alone(s) /\ pc'[s] \in {"idle", "jar"} /\ ops'[s] = ops[s]
         /\ ~Installing(s)' /\ ~Removing(s)'
         /\ call'[s] = NoCall \/ call'[s] = c
         /\ pc'[s] # "idle" => call'[s].op \in Operations /\ ops'[s] > 0
         /\ call'[s].target <= seq
         /\ call'[s].checked \in {0, call[s].checked}
<1>1. call[s].op \in Operations /\ ops[s] > 0 /\ call[s].target <= seq /\ 0 <= seq
  BY Facts DEF Locals
<1>2. CASE call[s].op.kind = "remove"
  BY <1>1, <1>2, Finished, NoCallType DEF RemovalEnds, IInv, Installing, Removing
<1>3. CASE call[s].op.kind # "remove"
  <2>1. pc' = [pc EXCEPT ![s] = "jar"] /\ "jar" \in Phases
    BY <1>3 DEF RemovalEnds, Phases
  <2>2. Alone(s) /\ pc'[s] = "jar" /\ call'[s] = c /\ ops'[s] = ops[s]
    BY <1>3, <2>1, Moved
  <2> QED
    BY <1>1, <2>2 DEF Installing, Removing
<1> QED
  BY <1>2, <1>3

LEMMA JarIsGoneKeeps ==
  ASSUME IInv, NEW s \in Sessions, JarIsGone(s)
  PROVE  IInv'
<1>1. /\ pc[s] = "entries" /\ Doomed(s) = {} /\ Named(s) = {} /\ RemovalEnds(s)
      /\ call[s].op.kind # "remove" => call' = call
      /\ UNCHANGED tables /\ ops' = ops
  BY DEF JarIsGone
<1>2. call = [call EXCEPT ![s] = call[s]] /\ call[s] \in Locs
  BY Facts
<1>3. /\ Alone(s) /\ pc'[s] \in {"idle", "jar"} /\ ops'[s] = ops[s]
      /\ ~Installing(s)' /\ ~Removing(s)'
      /\ call'[s] = NoCall \/ call'[s] = call[s]
      /\ pc'[s] # "idle" => call'[s].op \in Operations /\ ops'[s] > 0
      /\ call'[s].target <= seq
      /\ call'[s].checked \in {0, call[s].checked}
  BY <1>1, <1>2, RemovalEndsLocals
<1>4. HalfDone(s)
  <2>1. ASSUME NEW j \in jars, NEW e \in entries, j.id = e.jar, e.del = s, j.del # s
        PROVE  FALSE
    <3>1. j.name = call[s].op.name
      BY <2>1 DEF IInv, Together, Deleted
    <3>2. j.ins = e.ins /\ e.ins \in {None, s}
      BY <2>1 DEF IInv, Keyed, SeenFirst
    <3>3. j \in Named(s)
      BY <2>1, <3>1, <3>2 DEF Named, Visible
    <3> QED
      BY <3>3, <1>1
  <2> QED
    BY <2>1 DEF HalfDone
<1>5. ~Installing(s)
  BY <1>1 DEF Installing
<1>6. \/ call'[s].deleted = call[s].deleted /\ call'[s].added = call[s].added
      \/ call'[s].deleted = {}
  BY <1>3, NoCallType
<1>7. Savepoint(s)'
  <2>1. \A u \in Sessions : Installing(u)' => Installing(u) /\ call'[u].target = call[u].target
    BY <1>3 DEF Alone, Installing
  <2>2. CASE call'[s] = call[s]
    BY <2>1, <2>2, <1>1, <1>3, <1>5, Facts DEF Savepoint, tables
  <2>3. CASE call'[s] = NoCall
    BY <2>3, <1>3, NoCallType DEF Savepoint
  <2> QED
    BY <2>2, <2>3, <1>3
<1>8. Locals(s)' /\ Progress(s)'
  BY <1>1, <1>3 DEF Locals, Progress, tables
<1>9. Owners(s)'
  <2>1. \A j \in jars : j.id # 0
    BY Facts DEF JarRows, Ids
  <2> QED
    BY <2>1, <1>1, <1>3, Facts DEF Owners, MayRemove, tables
<1> QED
  BY <1>1, <1>3, <1>4, <1>5, <1>6, <1>7, <1>8, <1>9, LocalStep

LEMMA OpenFileKeeps ==
  ASSUME IInv, NEW s \in Sessions, OpenFile(s)
  PROVE  IInv'
<1>1. /\ pc[s] = "file" /\ UNCHANGED tables /\ ops' = ops /\ pc' = [pc EXCEPT ![s] = "store"]
      /\ call' = [call EXCEPT ![s].todo = EntriesOf[call[s].op.file]]
  BY DEF OpenFile
<1>2. call[s].op \in Operations /\ call[s].op.file \in Files
  BY <1>1, Facts DEF Locals, Operations
<1>3. EntriesOf[call[s].op.file] \in Seq(EntryNames)
  BY <1>2, RepositoryAssumption
<1> DEFINE c == [call[s] EXCEPT !.todo = EntriesOf[call[s].op.file]]
<1>4. c \in Locs /\ call' = [call EXCEPT ![s] = c] /\ "store" \in Phases
  BY <1>1, <1>3, Facts DEF Locs, Phases
<1> HIDE DEF c
<1>5. Alone(s) /\ pc'[s] = "store" /\ call'[s] = c /\ ops'[s] = ops[s]
  BY <1>1, <1>4, Moved
<1>6. /\ c.op = call[s].op /\ c.target = call[s].target /\ c.checked = call[s].checked
      /\ c.added = call[s].added /\ c.deleted = call[s].deleted
      /\ c.todo = EntriesOf[call[s].op.file]
  BY Facts DEF Locs, c
<1>7. Installing(s) /\ ~Removing(s) /\ Installing(s)'
  BY <1>1, <1>5 DEF Installing, Removing
<1>8. HalfDone(s)
  BY <1>7, NoneHalfDone
<1>9. Savepoint(s)'
  <2>1. \A u \in Sessions : Installing(u)' => Installing(u) /\ call'[u].target = call[u].target
    BY <1>5, <1>6, <1>7 DEF Alone, Installing
  <2> QED
    BY <2>1, <1>1, <1>5, <1>6, <1>7, Facts DEF Savepoint, tables
<1>10. Locals(s)'
  BY <1>1, <1>2, <1>5, <1>6, Facts DEF Locals, Removing, tables
<1>11. Progress(s)'
  <2>1. Stored(s) = {}
    BY <1>1 DEF Stored
  <2>2. Stored(s)' = {}
    BY <1>5, <1>6 DEF Stored
  <2> QED
    BY <2>1, <2>2, <1>1, <1>2, <1>5, <1>6, <1>7, Facts, RepositoryAssumption DEF Progress, tables
<1>12. Owners(s)'
  BY <1>1, <1>5, <1>6, Facts DEF Owners, MayRemove, tables
<1> QED
  BY <1>1, <1>5, <1>6, <1>7, <1>8, <1>9, <1>10, <1>11, <1>12, LocalStep

LEMMA InstallEndsKeeps ==
  ASSUME IInv, NEW s \in Sessions, InstallEnds(s)
  PROVE  IInv'
<1>1. /\ pc[s] = "store" /\ call[s].todo = <<>> /\ Finish(s)
      /\ UNCHANGED tables /\ ops' = ops
  BY DEF InstallEnds
<1>2. Alone(s) /\ pc'[s] = "idle" /\ call'[s] = NoCall
  BY <1>1, Finished DEF IInv
<1>3. Installing(s) /\ ~Removing(s) /\ ~Installing(s)' /\ ~Removing(s)'
  BY <1>1, <1>2 DEF Installing, Removing
<1>4. HalfDone(s)
  BY <1>3, NoneHalfDone
<1>5. \A j \in jars : j.id = call[s].target => \E f \in Files : AllOf(f, j)
  <2>1. call[s].op.file \in Files
    BY <1>1, Facts DEF Locals, Operations
  <2>2. Stored(s) = RangeOf(EntriesOf[call[s].op.file])
    BY <1>1 DEF Stored, RangeOf
  <2>3. \A j \in jars : j.id = call[s].target => AllOf(call[s].op.file, j)
    BY <1>3, <2>2, Facts DEF Progress, AllOf
  <2> QED
    BY <2>1, <2>3
<1>6. Savepoint(s)' /\ Locals(s)' /\ Progress(s)'
  BY <1>1, <1>2, <1>3, NoCallType, Facts DEF Savepoint, Locals, Progress, tables
<1>7. Owners(s)'
  <2>1. \A j \in jars : j.id # 0
    BY Facts DEF JarRows, Ids
  <2> QED
    BY <2>1, <1>1, <1>2, NoCallType, Facts DEF Owners, tables
<1> QED
  BY <1>1, <1>2, <1>3, <1>4, <1>5, <1>6, <1>7, NoCallType, LocalStep

-----------------------------------------------------------------------------
(* Commit.                                                                 *)

\* The row of a transaction that has ended.
CommittedRow(r, s) == IF r.ins = s THEN [r EXCEPT !.ins = None] ELSE r

LEMMA CommitKeeps ==
  ASSUME IInv, NEW s \in Sessions, Commit(s)
  PROVE  IInv'
<1> USE DEF Id, Key
<1>1. /\ pc[s] = "idle" /\ ~Installing(s) /\ ~Removing(s)
      /\ jars' = {CommittedRow(j, s) : j \in {k \in jars : k.del # s}}
      /\ entries' = {CommittedRow(e, s) : e \in {k \in entries : k.del # s}}
  BY DEF Commit, CommittedRows, CommittedRow, Installing, Removing
<1>2. /\ pc' \in [Sessions -> Phases] /\ ops' \in [Sessions -> 0..MaxOps]
      /\ call' \in [Sessions -> Locs] /\ seq' = seq
      /\ pc'[s] = "idle" /\ call'[s] = NoCall
      /\ \A t \in Sessions : t # s => pc'[t] = pc[t] /\ call'[t] = call[t] /\ ops'[t] = ops[t]
  BY EndedLocals DEF IInv, Commit
<1>3. /\ jars \subseteq JarRows /\ entries \subseteq EntryRows /\ None \notin Sessions /\ seq \in Nat
  BY Facts
<1>4. \A j \in jars :
        /\ CommittedRow(j, s) \in JarRows /\ CommittedRow(j, s).id = j.id /\ CommittedRow(j, s).name = j.name
        /\ CommittedRow(j, s).owner = j.owner /\ CommittedRow(j, s).del = j.del
        /\ CommittedRow(j, s).ins = IF j.ins = s THEN None ELSE j.ins
  BY <1>3 DEF CommittedRow, JarRows
<1>5. \A e \in entries :
        /\ CommittedRow(e, s) \in EntryRows /\ CommittedRow(e, s).jar = e.jar /\ CommittedRow(e, s).name = e.name
        /\ CommittedRow(e, s).file = e.file /\ CommittedRow(e, s).del = e.del
        /\ CommittedRow(e, s).ins = IF e.ins = s THEN None ELSE e.ins
  BY <1>3 DEF CommittedRow, EntryRows
<1>6. \A k \in jars' : \E j \in jars :
        /\ j.del # s /\ k = CommittedRow(j, s) /\ k \in JarRows /\ k.id = j.id /\ k.name = j.name
        /\ k.owner = j.owner /\ k.del = j.del /\ k.ins = IF j.ins = s THEN None ELSE j.ins
  BY <1>1, <1>4
<1>7. \A k \in entries' : \E e \in entries :
        /\ e.del # s /\ k = CommittedRow(e, s) /\ k \in EntryRows /\ k.jar = e.jar /\ k.name = e.name
        /\ k.file = e.file /\ k.del = e.del /\ k.ins = IF e.ins = s THEN None ELSE e.ins
  BY <1>1, <1>5
<1>8. \A j \in jars : j.del # s => \E k \in jars' :
        /\ k.id = j.id /\ k.name = j.name /\ k.owner = j.owner /\ k.del = j.del
        /\ k.ins = IF j.ins = s THEN None ELSE j.ins
  BY <1>1, <1>4
<1>9. \A e \in entries : e.del # s => \E k \in entries' :
        /\ k.jar = e.jar /\ k.name = e.name /\ k.file = e.file /\ k.del = e.del
        /\ k.ins = IF e.ins = s THEN None ELSE e.ins
  BY <1>1, <1>5
<1>10. \A j \in jars, e \in entries : j.id = e.jar => (j.del = s <=> e.del = s)
  BY <1>1, ZenonT(60) DEF IInv, Together, Deleted
<1>11. \A t \in Sessions : t # s => /\ pc'[t] = pc[t] /\ call'[t] = call[t] /\ ops'[t] = ops[t]
                                    /\ Installing(t)' = Installing(t) /\ Removing(t)' = Removing(t)
                                    /\ Stored(t)' = Stored(t)
  BY <1>2 DEF Installing, Removing, Stored
<1>12. ~Installing(s)' /\ ~Removing(s)' /\ call'[s].added = {} /\ call'[s].deleted = {}
       /\ call'[s].target = 0 /\ call'[s].checked = 0
  BY <1>2, NoCallType DEF Installing, Removing
<1>13. TypeOK'
  <2>1. \A r \in jars' \cup entries' : \A t \in Holders(None, r) : ops'[t] > 0
    <3>1. ASSUME NEW r \in jars' \cup entries', NEW t \in Holders(None, r)
          PROVE  ops'[t] > 0
      <4>1. t # s /\ t \in Sessions /\ \E q \in jars \cup entries : t \in Holders(None, q)
        BY <1>3, <1>6, <1>7 DEF Holders, JarRows, EntryRows
      <4> QED
        BY <4>1, <1>2, TypesSplit DEF IInv
    <3> QED
      BY <3>1
  <2>2. jars' \subseteq JarRows /\ entries' \subseteq EntryRows
    BY <1>6, <1>7
  <2> QED
    BY <1>2, <1>3, <2>1, <2>2 DEF TypeOK, Locs, Holders
<1>14. Keyed'
  <2>1. \A j \in jars' : j.id <= seq'
    BY <1>2, <1>6 DEF IInv, Keyed
  <2>2. \A j, k \in jars' : j.id = k.id => j = k
    BY <1>6 DEF IInv, Keyed
  <2>3. \A d, e \in entries' : Key(d) = Key(e) => d = e
    BY <1>7 DEF IInv, Keyed
  <2>4. ASSUME NEW e2 \in entries'
        PROVE  \E j \in jars' : j.id = e2.jar /\ j.ins = e2.ins
    <3>1. PICK e \in entries : e.del # s /\ e2.jar = e.jar /\ e2.ins = IF e.ins = s THEN None ELSE e.ins
      BY <1>7
    <3>2. PICK j \in jars : j.id = e.jar /\ j.ins = e.ins
      BY DEF IInv, Keyed
    <3> QED
      BY <3>1, <3>2, <1>8, <1>10
  <2> QED
    BY <2>1, <2>2, <2>3, <2>4 DEF Keyed
<1>15. Named1'
  <2>1. ASSUME NEW j2 \in jars', NEW k2 \in jars', j2 # k2, j2.name = k2.name
        PROVE  \E t \in Sessions : \/ Follows(t, j2, k2, Id(j2), Id(k2))'
                                   \/ Follows(t, k2, j2, Id(k2), Id(j2))'
    <3>1. PICK j \in jars : /\ j.del # s /\ j2 = CommittedRow(j, s) /\ j2.id = j.id /\ j2.name = j.name
                            /\ j2.del = j.del /\ j2.ins = IF j.ins = s THEN None ELSE j.ins
      BY <1>6
    <3>2. PICK k \in jars : /\ k.del # s /\ k2 = CommittedRow(k, s) /\ k2.id = k.id /\ k2.name = k.name
                            /\ k2.del = k.del /\ k2.ins = IF k.ins = s THEN None ELSE k.ins
      BY <1>6
    <3>3. PICK t \in Sessions : \/ Follows(t, j, k, Id(j), Id(k))
                                \/ Follows(t, k, j, Id(k), Id(j))
      BY <2>1, <3>1, <3>2 DEF IInv, Named1
    <3>4. t # s
      BY <3>1, <3>2, <3>3 DEF Follows
    <3> QED
      BY <3>1, <3>2, <3>3, <3>4, <1>11 DEF Follows
  <2> QED
    BY <2>1 DEF Named1, Follows
<1>16. Named2'
  <2>1. ASSUME NEW j2 \in entries', NEW k2 \in entries', j2 # k2, j2.name = k2.name
        PROVE  \E t \in Sessions : \/ Follows(t, j2, k2, Key(j2), Key(k2))'
                                   \/ Follows(t, k2, j2, Key(k2), Key(j2))'
    <3>1. PICK j \in entries : /\ j.del # s /\ j2 = CommittedRow(j, s) /\ j2.jar = j.jar /\ j2.name = j.name
                            /\ j2.del = j.del /\ j2.ins = IF j.ins = s THEN None ELSE j.ins
      BY <1>7
    <3>2. PICK k \in entries : /\ k.del # s /\ k2 = CommittedRow(k, s) /\ k2.jar = k.jar /\ k2.name = k.name
                            /\ k2.del = k.del /\ k2.ins = IF k.ins = s THEN None ELSE k.ins
      BY <1>7
    <3>3. PICK t \in Sessions : \/ Follows(t, j, k, Key(j), Key(k))
                                \/ Follows(t, k, j, Key(k), Key(j))
      BY <2>1, <3>1, <3>2 DEF IInv, Named2
    <3>4. t # s
      BY <3>1, <3>2, <3>3 DEF Follows
    <3> QED
      BY <3>1, <3>2, <3>3, <3>4, <1>11 DEF Follows
  <2> QED
    BY <2>1 DEF Named2, Follows
<1>17. Together'
  <2>1. ASSUME NEW t \in Sessions, NEW j2 \in jars', NEW e2 \in entries', j2.id = e2.jar
        PROVE  Deleted(t, j2, e2)'
    <3>1. PICK j \in jars : j.del # s /\ j2.id = j.id /\ j2.name = j.name /\ j2.del = j.del
      BY <1>6
    <3>2. PICK e \in entries : e.del # s /\ e2.jar = e.jar /\ e2.name = e.name /\ e2.del = e.del
      BY <1>7
    <3>3. Deleted(t, j, e)
      BY <2>1, <3>1, <3>2 DEF IInv, Together
    <3>4. CASE t = s
      BY <3>1, <3>2, <3>4 DEF Deleted
    <3>5. CASE t # s
      BY <3>1, <3>2, <3>3, <3>5, <1>11 DEF Deleted
    <3> QED
      BY <3>4, <3>5
  <2> QED
    BY <2>1 DEF Together, Deleted, Removing
<1>18. SeenFirst'
  BY <1>3, <1>6, <1>7 DEF SeenFirst, IInv
<1>19. Complete'
  <2>1. ASSUME NEW j2 \in jars'
        PROVE  \/ \E f \in Files : AllOf(f, j2)'
               \/ \E t \in Sessions : Installing(t)' /\ call'[t].target = j2.id
    <3>1. PICK j \in jars : j.del # s /\ j2.id = j.id
      BY <1>6
    <3>2. CASE \E f \in Files : AllOf(f, j)
      <4>1. PICK f \in Files : AllOf(f, j)
        BY <3>2
      <4>2. \A e \in entries' : e.jar = j2.id => e.file = f /\ e.name \in RangeOf(EntriesOf[f])
        BY <4>1, <3>1, <1>7 DEF AllOf
      <4>3. \A n \in RangeOf(EntriesOf[f]) : \E e \in entries' : e.jar = j2.id /\ e.name = n
        BY <4>1, <3>1, <1>9, <1>10 DEF AllOf
      <4> QED
        BY <4>2, <4>3 DEF AllOf
    <3>3. CASE \E t \in Sessions : Installing(t) /\ call[t].target = j.id
      BY <3>1, <3>3, <1>1, <1>11
    <3> QED
      BY <3>2, <3>3 DEF IInv, Complete
  <2> QED
    BY <2>1 DEF Complete, AllOf, Installing
<1>20. ASSUME NEW t \in Sessions
       PROVE  (Savepoint(t) /\ Locals(t) /\ Progress(t) /\ Owners(t))'
  <2>1. CASE t = s
    <3>1. Savepoint(s)'
      BY <1>12 DEF Savepoint
    <3>2. Locals(s)' /\ Progress(s)'
      BY <1>2, <1>3, <1>12 DEF Locals, Progress
    <3>3. Owners(s)'
      BY <1>2, <1>3, <1>6, <1>12 DEF Owners, JarRows, Ids
    <3> QED
      BY <2>1, <3>1, <3>2, <3>3
  <2>2. CASE t # s
    <3>0. Savepoint(t) /\ Locals(t) /\ Progress(t) /\ Owners(t)
      BY DEF IInv
    <3>1. Savepoint(t)'
      <4>1. /\ \A j \in jars' : Id(j) \in call'[t].deleted => j.del = t
            /\ \A e \in entries' : Key(e) \in call'[t].deleted => e.del = t
        BY <3>0, <2>2, <1>6, <1>7, <1>11 DEF Savepoint
      <4>2. /\ \A k \in call'[t].deleted : k[1] <= seq'
            /\ \A k \in call'[t].added : Installing(t)' /\ k[1] = call'[t].target
            /\ \A u \in Sessions : Installing(u)' => \A k \in call'[t].deleted : k[1] # call'[u].target
        BY <3>0, <2>2, <1>2, <1>11, <1>12 DEF Savepoint
      <4>3. Installing(t)' => /\ \A j \in jars' : j.id = call'[t].target => Id(j) \in call'[t].added
                              /\ \A e \in entries' : e.jar = call'[t].target => Key(e) \in call'[t].added
        BY <3>0, <2>2, <1>6, <1>7, <1>11 DEF Savepoint
      <4> QED
        BY <4>1, <4>2, <4>3 DEF Savepoint, Installing
    <3>2. Locals(t)'
      <4>1. Removing(t)' => \A j \in jars' : j.id = call'[t].target => j.name = call'[t].op.name
        BY <3>0, <2>2, <1>6, <1>11 DEF Locals
      <4>2. pc'[t] = "entry" => /\ call'[t].row \in Keys /\ call'[t].row[1] = call'[t].target
                                /\ \A e \in entries' : Key(e) = call'[t].row => e.del # t
        BY <3>0, <2>2, <1>7, <1>11 DEF Locals
      <4>3. pc'[t] = "row" =>
              /\ call'[t].row \in Keys /\ call'[t].row[1] <= seq'
              /\ \A j \in jars' : Id(j) = call'[t].row => j.name = call'[t].op.name /\ j.del # t
        BY <3>0, <2>2, <1>2, <1>6, <1>11 DEF Locals
      <4>4. (pc'[t] # "idle" => call'[t].op \in Operations /\ ops'[t] > 0) /\ call'[t].target <= seq'
        BY <3>0, <2>2, <1>2, <1>11 DEF Locals
      <4> QED
        BY <4>1, <4>2, <4>3, <4>4 DEF Locals, Removing
    <3>3. Progress(t)'
      <4> SUFFICES ASSUME Installing(t)
                   PROVE  Progress(t)'
        BY <2>2, <1>11 DEF Progress, Installing
      <4>1. PICK j \in jars : j.id = call[t].target /\ j.ins = t /\ j.del = None
        BY <3>0 DEF Progress
      <4>2. \E k \in jars' : k.id = call'[t].target /\ k.ins = t /\ k.del = None
        BY <4>1, <2>2, <1>3, <1>8, <1>11
      <4>3. \A e \in entries' : e.jar = call'[t].target =>
              e.file = call'[t].op.file /\ e.name \in Stored(t)' /\ e.del = None
        BY <3>0, <2>2, <1>7, <1>11 DEF Progress
      <4>4. \A n \in Stored(t)' : \E e \in entries' : e.jar = call'[t].target /\ e.name = n
        BY <3>0, <4>1, <2>2, <1>3, <1>9, <1>10, <1>11 DEF Progress
      <4>5. pc'[t] = "store" =>
              /\ RangeOf(call'[t].todo) \subseteq RangeOf(EntriesOf[call'[t].op.file])
              /\ \A i, k \in DOMAIN call'[t].todo : call'[t].todo[i] = call'[t].todo[k] => i = k
        BY <3>0, <2>2, <1>11 DEF Progress
      <4> QED
        BY <4>2, <4>3, <4>4, <4>5 DEF Progress, Stored, Installing
    <3>4. Owners(t)'
      <4>1. \A j \in jars' : j.ins = t => j.owner = UserOf[t]
        BY <3>0, <1>3, <1>6 DEF Owners
      <4>2. \A j \in jars' : j.id = call'[t].checked => MayRemove(t, j)
        BY <3>0, <2>2, <1>6, <1>11 DEF Owners, MayRemove
      <4>3. call'[t].checked <= seq'
        BY <3>0, <2>2, <1>2, <1>11 DEF Owners
      <4> QED
        BY <4>1, <4>2, <4>3 DEF Owners, MayRemove
    <3> QED
      BY <3>1, <3>2, <3>3, <3>4
  <2> QED
    BY <2>1, <2>2
<1> QED
  BY <1>13, <1>14, <1>15, <1>16, <1>17, <1>18, <1>19, <1>20 DEF IInv

-----------------------------------------------------------------------------
(* Deletions.                                                              *)

LEMMA EntryMarked ==
  ASSUME NEW x \in EntryRows, NEW s
  PROVE  LET m == [x EXCEPT !.del = s] IN
         /\ m.jar = x.jar /\ m.name = x.name /\ m.file = x.file /\ m.ins = x.ins /\ m.del = s
         /\ s \in Sessions => m \in EntryRows
BY DEF EntryRows

LEMMA JarMarked ==
  ASSUME NEW x \in JarRows, NEW s
  PROVE  LET m == [x EXCEPT !.del = s] IN
         /\ m.id = x.id /\ m.name = x.name /\ m.owner = x.owner /\ m.ins = x.ins /\ m.del = s
         /\ s \in Sessions => m \in JarRows
BY DEF JarRows

LEMMA DeleteEntryKeeps ==
  ASSUME IInv, NEW s \in Sessions, DeleteEntry(s)
  PROVE  IInv'
<1> USE DEF Id, Key
<1>1. PICK x \in entries :
        /\ Key(x) = call[s].row /\ Holders(s, x) = {}
        /\ entries' = (entries \ {x}) \cup {[x EXCEPT !.del = s]}
  BY DEF DeleteEntry
<1>2. /\ pc[s] = "entry" /\ pc' = [pc EXCEPT ![s] = "entries"]
      /\ call' = [call EXCEPT ![s].deleted = call[s].deleted \cup {call[s].row}]
      /\ jars' = jars /\ seq' = seq /\ ops' = ops
  BY DEF DeleteEntry
<1>3. /\ jars \subseteq JarRows /\ entries \subseteq EntryRows /\ None \notin Sessions /\ seq \in Nat
      /\ call[s] \in Locs /\ Savepoint(s) /\ Locals(s) /\ Progress(s) /\ Owners(s)
  BY Facts
<1>4. x.del = None /\ x.ins \in {None, s} /\ x.jar = call[s].target
  <2>1. x.del # s
    BY <1>1, <1>2, <1>3 DEF Locals
  <2>2. call[s].row[1] = call[s].target
    BY <1>2, <1>3 DEF Locals
  <2> QED
    BY <2>1, <2>2, <1>1, <1>3 DEF Holders
<1>5. call[s].row \in Keys /\ call[s].row = <<x.jar, x.name>> /\ x.name # None
  BY <1>1, <1>2, <1>3, Facts DEF Locals, EntryRows
<1> DEFINE c == [call[s] EXCEPT !.deleted = call[s].deleted \cup {call[s].row}]
<1>6. c \in Locs /\ call' = [call EXCEPT ![s] = c] /\ "entries" \in Phases
  BY <1>2, <1>3, <1>5 DEF Locs, Phases
<1>7. Alone(s) /\ pc'[s] = "entries" /\ call'[s] = c /\ ops'[s] = ops[s]
  BY <1>2, <1>6, Moved
<1>8. /\ c.op = call[s].op /\ c.target = call[s].target /\ c.checked = call[s].checked
      /\ c.added = call[s].added /\ c.deleted = call[s].deleted \cup {call[s].row}
  BY <1>3 DEF Locs
<1> HIDE DEF c
<1>9. ~Installing(s) /\ Removing(s) /\ ~Installing(s)' /\ Removing(s)'
  BY <1>2, <1>7 DEF Installing, Removing
<1>10. \A t \in Sessions : t # s => /\ pc'[t] = pc[t] /\ call'[t] = call[t] /\ ops'[t] = ops[t]
                                    /\ Installing(t)' = Installing(t) /\ Removing(t)' = Removing(t)
                                    /\ Stored(t)' = Stored(t)
  BY <1>7 DEF Alone, Installing, Removing, Stored
<1> DEFINE m == [x EXCEPT !.del = s]
<1>11. \A k \in entries' : \E e \in entries :
         /\ k \in EntryRows /\ k.jar = e.jar /\ k.name = e.name /\ k.file = e.file /\ k.ins = e.ins
         /\ k.del = (IF e = x THEN s ELSE e.del) /\ (e # x => k = e) /\ (e = x => k = m)
  <2>1. /\ m \in EntryRows /\ m.jar = x.jar /\ m.name = x.name /\ m.file = x.file
        /\ m.ins = x.ins /\ m.del = s
    BY <1>3, EntryMarked
  <2>2. \A k \in entries' : k = m \/ (k \in entries /\ k # x)
    BY <1>1
  <2> QED
    BY <2>1, <2>2, <1>3
<1>12. \A e \in entries : \E k \in entries' : k.jar = e.jar /\ k.name = e.name
  <2>1. m.jar = x.jar /\ m.name = x.name /\ m \in entries'
    BY <1>1, <1>3, EntryMarked
  <2>2. \A e \in entries : e = x \/ e \in entries'
    BY <1>1
  <2> QED
    BY <2>1, <2>2
<1> HIDE DEF m
<1>13. PICK j0 \in jars : j0.id = x.jar /\ j0.ins = x.ins
  BY DEF IInv, Keyed
<1>14. \A j \in jars : j.id = x.jar => j = j0 /\ j.name = call[s].op.name /\ \A t \in Sessions : j.del # t
  <2>1. j0.name = call[s].op.name
    BY <1>3, <1>4, <1>9, <1>13 DEF Locals
  <2>2. \A t \in Sessions : j0.del # t
    BY <1>3, <1>4, <1>13, ZenonT(60) DEF IInv, Together, Deleted
  <2> QED
    BY <2>1, <2>2, <1>13 DEF IInv, Keyed
<1>15. TypeOK'
  <2>1. \A r \in jars' \cup entries' : \A t \in Holders(None, r) : ops'[t] > 0
    <3>1. \A r \in jars \cup entries : \A t \in Holders(None, r) : ops[t] > 0
      BY TypesSplit DEF IInv
    <3>2. ops[s] > 0
      BY <1>2, <1>3 DEF Locals
    <3>3. \A r \in entries' : \A t \in Holders(None, r) : t = s \/ \E e \in entries : t \in Holders(None, e)
      BY <1>11 DEF Holders
    <3> QED
      BY <1>2, <3>1, <3>2, <3>3
  <2>2. jars' \subseteq JarRows /\ entries' \subseteq EntryRows
    BY <1>2, <1>3, <1>11
  <2> QED
    BY <1>2, <1>3, <1>7, <2>1, <2>2 DEF TypeOK, Locs, Holders, Alone
<1>16. Keyed'
  <2>1. \A j \in jars' : j.id <= seq'
    BY <1>2 DEF IInv, Keyed
  <2>2. \A j, k \in jars' : j.id = k.id => j = k
    BY <1>2 DEF IInv, Keyed
  <2>3. ASSUME NEW d2 \in entries', NEW e2 \in entries', Key(d2) = Key(e2)
        PROVE  d2 = e2
    <3>1. PICK d \in entries : /\ d2.jar = d.jar /\ d2.name = d.name
                               /\ (d # x => d2 = d) /\ (d = x => d2 = m)
      BY <1>11
    <3>2. PICK e \in entries : /\ e2.jar = e.jar /\ e2.name = e.name
                               /\ (e # x => e2 = e) /\ (e = x => e2 = m)
      BY <1>11
    <3> QED
      BY <2>3, <3>1, <3>2 DEF IInv, Keyed
  <2>4. \A e \in entries' : \E j \in jars' : j.id = e.jar /\ j.ins = e.ins
    BY <1>2, <1>11 DEF IInv, Keyed
  <2> QED
    BY <2>1, <2>2, <2>3, <2>4 DEF Keyed
<1>17. Named1'
  <2>1. ASSUME NEW j \in jars, NEW k \in jars, j # k, j.name = k.name
        PROVE  \E t \in Sessions : \/ Follows(t, j, k, Id(j), Id(k))'
                                   \/ Follows(t, k, j, Id(k), Id(j))'
    <3>1. PICK t \in Sessions : \/ Follows(t, j, k, Id(j), Id(k))
                                \/ Follows(t, k, j, Id(k), Id(j))
      BY <2>1 DEF IInv, Named1
    <3>2. Id(j) # call[s].row /\ Id(k) # call[s].row
      BY <1>5
    <3> QED
      BY <3>1, <3>2, <1>7, <1>8, <1>10 DEF Follows
  <2> QED
    BY <2>1, <1>2 DEF Named1, Follows
<1>18. Named2'
  <2>1. ASSUME NEW j2 \in entries', NEW k2 \in entries', j2 # k2, j2.name = k2.name
        PROVE  \E t \in Sessions : \/ Follows(t, j2, k2, Key(j2), Key(k2))'
                                   \/ Follows(t, k2, j2, Key(k2), Key(j2))'
    <3>1. PICK j \in entries :
            /\ j2.jar = j.jar /\ j2.name = j.name /\ j2.ins = j.ins
            /\ j2.del = (IF j = x THEN s ELSE j.del)
            /\ (j # x => j2 = j) /\ (j = x => j2 = m)
      BY <1>11
    <3>2. PICK k \in entries :
            /\ k2.jar = k.jar /\ k2.name = k.name /\ k2.ins = k.ins
            /\ k2.del = (IF k = x THEN s ELSE k.del)
            /\ (k # x => k2 = k) /\ (k = x => k2 = m)
      BY <1>11
    <3>3. j # k
      BY <2>1, <3>1, <3>2
    <3>4. PICK t \in Sessions : \/ Follows(t, j, k, Key(j), Key(k))
                                \/ Follows(t, k, j, Key(k), Key(j))
      BY <2>1, <3>1, <3>2, <3>3 DEF IInv, Named2
    <3>5. \A d \in entries : Key(d) = call[s].row => d = x
      BY <1>1 DEF IInv, Keyed
    <3>6. CASE Follows(t, j, k, Key(j), Key(k))
      <4>1. k # x /\ Key(k) # call[s].row
        BY <3>5, <3>6, <1>3, <1>4 DEF Follows
      <4> QED
        BY <4>1, <3>1, <3>2, <3>6, <1>7, <1>8, <1>10 DEF Follows
    <3>7. CASE Follows(t, k, j, Key(k), Key(j))
      <4>1. j # x /\ Key(j) # call[s].row
        BY <3>5, <3>7, <1>3, <1>4 DEF Follows
      <4> QED
        BY <4>1, <3>1, <3>2, <3>7, <1>7, <1>8, <1>10 DEF Follows
    <3> QED
      BY <3>4, <3>6, <3>7
  <2> QED
    BY <2>1 DEF Named2, Follows
<1>19. Together'
  <2>1. ASSUME NEW t \in Sessions, NEW j \in jars, NEW e2 \in entries', j.id = e2.jar
        PROVE  Deleted(t, j, e2)'
    <3>1. PICK e \in entries : /\ e2.jar = e.jar /\ e2.name = e.name
                               /\ e2.del = (IF e = x THEN s ELSE e.del)
      BY <1>11
    <3>2. Deleted(t, j, e)
      BY <2>1, <3>1 DEF IInv, Together
    <3>3. CASE t # s
      BY <3>1, <3>2, <3>3, <2>1, <1>10, <1>14 DEF Deleted
    <3>4. CASE t = s /\ e = x
      BY <3>1, <3>4, <2>1, <1>4, <1>5, <1>7, <1>8, <1>9, <1>14 DEF Deleted
    <3>5. CASE t = s /\ e # x
      <4>1. Key(e) # call[s].row /\ Id(j) # call[s].row
        BY <3>5, <1>1, <1>5 DEF IInv, Keyed
      <4> QED
        BY <4>1, <3>1, <3>2, <3>5, <1>7, <1>8, <1>9 DEF Deleted
    <3> QED
      BY <3>3, <3>4, <3>5
  <2> QED
    BY <2>1, <1>2 DEF Together, Deleted, Removing
<1>20. SeenFirst'
  BY <1>2, <1>4, <1>11 DEF SeenFirst, IInv
<1>21. Complete'
  <2>1. ASSUME NEW j \in jars
        PROVE  \/ \E f \in Files : AllOf(f, j)'
               \/ \E t \in Sessions : Installing(t)' /\ call'[t].target = j.id
    <3>1. ASSUME NEW f \in Files, AllOf(f, j)
          PROVE  AllOf(f, j)'
      BY <3>1, <1>11, <1>12 DEF AllOf
    <3>2. ASSUME NEW t \in Sessions, Installing(t), call[t].target = j.id
          PROVE  Installing(t)' /\ call'[t].target = j.id
      BY <3>2, <1>9, <1>10
    <3> QED
      BY <3>1, <3>2 DEF IInv, Complete
  <2> QED
    BY <2>1, <1>2 DEF Complete, AllOf, Installing
<1>22. \A u \in Sessions : Installing(u) => call[u].target # x.jar
  <2>1. ASSUME NEW u \in Sessions, Installing(u), call[u].target = x.jar
        PROVE  FALSE
    <3>1. PICK j \in jars : j.id = call[u].target /\ j.ins = u
      BY <2>1 DEF IInv, Progress
    <3>2. j0.ins = u /\ u # s
      BY <2>1, <3>1, <1>9, <1>14
    <3> QED
      BY <3>2, <1>3, <1>4, <1>13
  <2> QED
    BY <2>1
<1>23. ASSUME NEW t \in Sessions
       PROVE  (Savepoint(t) /\ Locals(t) /\ Progress(t) /\ Owners(t))'
  <2>0. Savepoint(t) /\ Locals(t) /\ Progress(t) /\ Owners(t)
    BY DEF IInv
  <2>1. CASE t = s
    <3>1. Savepoint(s)'
      <4>1. \A j \in jars : Id(j) \in c.deleted => j.del = s
        BY <1>3, <1>5, <1>8 DEF Savepoint
      <4>2. \A e \in entries' : Key(e) \in c.deleted => e.del = s
        BY <1>1, <1>3, <1>8, <1>11 DEF Savepoint, IInv, Keyed
      <4>3. \A k \in c.deleted : k[1] <= seq
        BY <1>3, <1>4, <1>5, <1>8 DEF Savepoint, Locals
      <4>4. \A u \in Sessions : Installing(u)' => \A k \in c.deleted : k[1] # call'[u].target
        BY <1>3, <1>5, <1>8, <1>9, <1>10, <1>22 DEF Savepoint
      <4>5. c.added = {}
        BY <1>3, <1>8, <1>9 DEF Savepoint
      <4> QED
        BY <4>1, <4>2, <4>3, <4>4, <4>5, <1>2, <1>7, <1>9 DEF Savepoint
    <3>2. Locals(s)'
      BY <1>2, <1>3, <1>7, <1>8, <1>9 DEF Locals
    <3>3. Progress(s)' /\ Owners(s)'
      BY <1>2, <1>3, <1>7, <1>8, <1>9 DEF Progress, Owners, MayRemove
    <3> QED
      BY <2>1, <3>1, <3>2, <3>3
  <2>2. CASE t # s
    <3>1. Savepoint(t)'
      <4>1. \A e \in entries' : Key(e) \in call[t].deleted => e.del = t
        <5>1. Key(x) \notin call[t].deleted
          BY <2>0, <1>3, <1>4 DEF Savepoint
        <5> QED
          BY <5>1, <2>0, <1>11 DEF Savepoint
      <4>2. Installing(t) => \A e \in entries' : e.jar = call[t].target => Key(e) \in call[t].added
        BY <2>0, <1>11 DEF Savepoint
      <4>3. \A u \in Sessions : Installing(u)' => \A k \in call[t].deleted : k[1] # call'[u].target
        BY <2>0, <1>9, <1>10 DEF Savepoint
      <4> QED
        BY <4>1, <4>2, <4>3, <2>0, <2>2, <1>2, <1>10 DEF Savepoint, Installing
    <3>2. Locals(t)'
      BY <2>0, <2>2, <1>2, <1>10, <1>11 DEF Locals, Removing
    <3>3. Progress(t)'
      <4> SUFFICES ASSUME Installing(t)
                   PROVE  Progress(t)'
        BY <2>2, <1>10 DEF Progress, Installing
      <4>1. \A e \in entries' : e.jar = call[t].target =>
              e.file = call[t].op.file /\ e.name \in Stored(t) /\ e.del = None
        BY <2>0, <1>11, <1>22 DEF Progress
      <4>2. \A n \in Stored(t) : \E e \in entries' : e.jar = call[t].target /\ e.name = n
        BY <2>0, <1>12 DEF Progress
      <4> QED
        BY <4>1, <4>2, <2>0, <2>2, <1>2, <1>10 DEF Progress, Stored, Installing
    <3>4. Owners(t)'
      BY <2>0, <2>2, <1>2, <1>10 DEF Owners, MayRemove
    <3> QED
      BY <3>1, <3>2, <3>3, <3>4
  <2> QED
    BY <2>1, <2>2
<1> QED
  BY <1>15, <1>16, <1>17, <1>18, <1>19, <1>20, <1>21, <1>23 DEF IInv

LEMMA DeleteJarKeeps ==
  ASSUME IInv, NEW s \in Sessions, DeleteJar(s)
  PROVE  IInv'
<1> USE DEF Id, Key
<1>1. PICK x \in jars :
        /\ Id(x) = call[s].row /\ Holders(s, x) = {}
        /\ jars' = (jars \ {x}) \cup {[x EXCEPT !.del = s]}
  BY DEF DeleteJar
<1>2. /\ pc[s] = "row" /\ References(s) = {} /\ RemovalEnds(s)
      /\ call[s].op.kind # "remove" =>
           call' = [call EXCEPT ![s].deleted = call[s].deleted \cup {call[s].row}]
      /\ entries' = entries /\ seq' = seq /\ ops' = ops
  BY DEF DeleteJar
<1>3. /\ jars \subseteq JarRows /\ entries \subseteq EntryRows /\ None \notin Sessions /\ seq \in Nat
      /\ call[s] \in Locs /\ Savepoint(s) /\ Locals(s) /\ Progress(s) /\ Owners(s)
  BY Facts
<1>4. /\ x.del = None /\ x.ins \in {None, s} /\ x.name = call[s].op.name
      /\ x.id \in Nat /\ x.id # 0 /\ x.id <= seq
  <2>1. x.del # s /\ x.name = call[s].op.name
    BY <1>1, <1>2, <1>3 DEF Locals
  <2>2. x.id \in Nat /\ x.id # 0 /\ x.id <= seq
    BY <1>3 DEF JarRows, Ids, IInv, Keyed
  <2> QED
    BY <2>1, <2>2, <1>1, <1>3 DEF Holders
<1>5. call[s].row \in Keys /\ call[s].row = <<x.id, None>>
  <2>1. call[s].row = <<x.id, None>> /\ x.id \in Ids
    BY <1>1, <1>3 DEF JarRows
  <2> QED
    BY <2>1 DEF Keys
<1> DEFINE c == [call[s] EXCEPT !.deleted = call[s].deleted \cup {call[s].row}]
<1>6. /\ c \in Locs
      /\ call[s].op.kind # "remove" => call' = [call EXCEPT ![s] = c]
  BY <1>2, <1>3, <1>5, Facts DEF Locs
<1>7. /\ c.op = call[s].op /\ c.target = call[s].target /\ c.checked = call[s].checked
      /\ c.added = call[s].added /\ c.deleted = call[s].deleted \cup {call[s].row}
  BY <1>3 DEF Locs
<1> HIDE DEF c
<1>8. /\ Alone(s) /\ pc'[s] \in {"idle", "jar"} /\ ops'[s] = ops[s]
      /\ ~Installing(s)' /\ ~Removing(s)'
      /\ call'[s] = NoCall \/ call'[s] = c
      /\ pc'[s] # "idle" => call'[s].op \in Operations /\ ops'[s] > 0
      /\ call'[s].target <= seq
      /\ call'[s].checked \in {0, call[s].checked}
  BY <1>2, <1>6, <1>7, RemovalEndsLocals
<1>9. ~Installing(s) /\ Removing(s)
  BY <1>2 DEF Installing, Removing
<1>10. \A t \in Sessions : t # s => /\ pc'[t] = pc[t] /\ call'[t] = call[t] /\ ops'[t] = ops[t]
                                    /\ Installing(t)' = Installing(t) /\ Removing(t)' = Removing(t)
                                    /\ Stored(t)' = Stored(t)
  BY <1>8 DEF Alone, Installing, Removing, Stored
<1> DEFINE m == [x EXCEPT !.del = s]
<1>11. \A k \in jars' : \E j \in jars :
         /\ k \in JarRows /\ k.id = j.id /\ k.name = j.name /\ k.owner = j.owner /\ k.ins = j.ins
         /\ k.del = (IF j = x THEN s ELSE j.del) /\ (j # x => k = j) /\ (j = x => k = m)
  <2>1. /\ m \in JarRows /\ m.id = x.id /\ m.name = x.name /\ m.owner = x.owner
        /\ m.ins = x.ins /\ m.del = s
    BY <1>3, JarMarked
  <2>2. \A k \in jars' : k = m \/ (k \in jars /\ k # x)
    BY <1>1
  <2> QED
    BY <2>1, <2>2, <1>3
<1>12. \A j \in jars : \E k \in jars' : k.id = j.id /\ k.ins = j.ins /\ (j # x => k = j)
  <2>1. m.id = x.id /\ m.ins = x.ins /\ m \in jars'
    BY <1>1, <1>3, JarMarked
  <2>2. \A j \in jars : j = x \/ j \in jars'
    BY <1>1
  <2> QED
    BY <2>1, <2>2
<1> HIDE DEF m
<1>13. \A e \in entries : e.jar = x.id => e.del = s /\ Key(e) \in call[s].deleted
  <2>1. \A e \in entries : e.jar = x.id => e.del = s
    BY <1>2, <1>5 DEF References
  <2> QED
    BY <2>1, <1>3, <1>4 DEF IInv, Together, Deleted
<1>14. \A j \in jars : j.id = x.id => j = x
  BY DEF IInv, Keyed
<1>15. TypeOK'
  <2>1. \A r \in jars' \cup entries' : \A t \in Holders(None, r) : ops'[t] > 0
    <3>1. \A r \in jars \cup entries : \A t \in Holders(None, r) : ops[t] > 0
      BY TypesSplit DEF IInv
    <3>2. ops[s] > 0
      BY <1>2, <1>3 DEF Locals
    <3>3. \A r \in jars' : \A t \in Holders(None, r) : t = s \/ \E j \in jars : t \in Holders(None, j)
      BY <1>11 DEF Holders
    <3> QED
      BY <1>2, <3>1, <3>2, <3>3
  <2>2. jars' \subseteq JarRows /\ entries' \subseteq EntryRows
    BY <1>2, <1>3, <1>11
  <2> QED
    BY <1>2, <1>3, <1>8, <2>1, <2>2 DEF TypeOK, Locs, Holders, Alone
<1>16. Keyed'
  <2>1. \A j \in jars' : j.id <= seq'
    BY <1>2, <1>11 DEF IInv, Keyed
  <2>2. ASSUME NEW j2 \in jars', NEW k2 \in jars', j2.id = k2.id
        PROVE  j2 = k2
    <3>1. PICK j \in jars : j2.id = j.id /\ (j # x => j2 = j) /\ (j = x => j2 = m)
      BY <1>11
    <3>2. PICK k \in jars : k2.id = k.id /\ (k # x => k2 = k) /\ (k = x => k2 = m)
      BY <1>11
    <3> QED
      BY <2>2, <3>1, <3>2 DEF IInv, Keyed
  <2>3. \A d, e \in entries' : Key(d) = Key(e) => d = e
    BY <1>2 DEF IInv, Keyed
  <2>4. \A e \in entries' : \E j \in jars' : j.id = e.jar /\ j.ins = e.ins
    BY <1>2, <1>12 DEF IInv, Keyed
  <2> QED
    BY <2>1, <2>2, <2>3, <2>4 DEF Keyed
<1>17. call'[s].added = {} /\ call[s].added = {} /\ call'[s].deleted \subseteq call[s].deleted \cup {call[s].row}
  BY <1>3, <1>7, <1>8, <1>9, NoCallType DEF Savepoint
<1>18. Named1'
  <2>1. ASSUME NEW j2 \in jars', NEW k2 \in jars', j2 # k2, j2.name = k2.name
        PROVE  \E t \in Sessions : \/ Follows(t, j2, k2, Id(j2), Id(k2))'
                                   \/ Follows(t, k2, j2, Id(k2), Id(j2))'
    <3>1. PICK j \in jars :
            /\ j2.id = j.id /\ j2.name = j.name /\ j2.ins = j.ins
            /\ j2.del = (IF j = x THEN s ELSE j.del)
            /\ (j # x => j2 = j) /\ (j = x => j2 = m)
      BY <1>11
    <3>2. PICK k \in jars :
            /\ k2.id = k.id /\ k2.name = k.name /\ k2.ins = k.ins
            /\ k2.del = (IF k = x THEN s ELSE k.del)
            /\ (k # x => k2 = k) /\ (k = x => k2 = m)
      BY <1>11
    <3>3. j # k
      BY <2>1, <3>1, <3>2
    <3>4. PICK t \in Sessions : \/ Follows(t, j, k, Id(j), Id(k))
                                \/ Follows(t, k, j, Id(k), Id(j))
      BY <2>1, <3>1, <3>2, <3>3 DEF IInv, Named1
    <3>5. CASE Follows(t, j, k, Id(j), Id(k))
      <4>1. k # x /\ Id(k) # call[s].row
        BY <3>5, <1>3, <1>4, <1>5, <1>14 DEF Follows
      <4> QED
        BY <4>1, <3>1, <3>2, <3>5, <1>10, <1>17 DEF Follows
    <3>6. CASE Follows(t, k, j, Id(k), Id(j))
      <4>1. j # x /\ Id(j) # call[s].row
        BY <3>6, <1>3, <1>4, <1>5, <1>14 DEF Follows
      <4> QED
        BY <4>1, <3>1, <3>2, <3>6, <1>10, <1>17 DEF Follows
    <3> QED
      BY <3>4, <3>5, <3>6
  <2> QED
    BY <2>1 DEF Named1, Follows
<1>19. Named2'
  <2>1. ASSUME NEW j \in entries, NEW k \in entries, j # k, j.name = k.name
        PROVE  \E t \in Sessions : \/ Follows(t, j, k, Key(j), Key(k))'
                                   \/ Follows(t, k, j, Key(k), Key(j))'
    <3>1. PICK t \in Sessions : \/ Follows(t, j, k, Key(j), Key(k))
                                \/ Follows(t, k, j, Key(k), Key(j))
      BY <2>1 DEF IInv, Named2
    <3>2. Key(j) # call[s].row /\ Key(k) # call[s].row
      BY <1>3, <1>5, Facts DEF EntryRows
    <3> QED
      BY <3>1, <3>2, <1>10, <1>17 DEF Follows
  <2> QED
    BY <2>1, <1>2 DEF Named2, Follows
<1>20. Together'
  <2>1. ASSUME NEW t \in Sessions, NEW j2 \in jars', NEW e \in entries, j2.id = e.jar
        PROVE  Deleted(t, j2, e)'
    <3>1. PICK j \in jars : /\ j2.id = j.id /\ j2.name = j.name
                            /\ j2.del = (IF j = x THEN s ELSE j.del)
      BY <1>11
    <3>2. Deleted(t, j, e)
      BY <2>1, <3>1 DEF IInv, Together
    <3>3. CASE t # s /\ j # x
      BY <3>1, <3>2, <3>3, <1>10 DEF Deleted
    <3>4. CASE t # s /\ j = x
      <4>1. e.del = s
        BY <2>1, <3>1, <3>4, <1>13
      <4> QED
        BY <4>1, <3>1, <3>4 DEF Deleted
    <3>5. CASE t = s /\ j = x
      <4>1. e.del = s /\ Key(e) \in call[s].deleted
        BY <2>1, <3>1, <3>5, <1>13
      <4>2. call'[s] = c => Id(j2) \in call'[s].deleted /\ Key(e) \in call'[s].deleted
        BY <4>1, <3>1, <3>5, <1>5, <1>7
      <4>3. call'[s] = NoCall => call'[s].deleted = {}
        BY NoCallType
      <4> QED
        BY <4>1, <4>2, <4>3, <3>1, <3>5, <1>8 DEF Deleted
    <3>6. CASE t = s /\ j # x
      <4>1. Key(e) # call[s].row /\ Id(j) # call[s].row
        BY <3>6, <1>3, <1>5, <1>14, Facts DEF EntryRows
      <4>2. ~(e.del = s /\ j.del # s)
        <5>1. SUFFICES ASSUME e.del = s, j.del # s
                       PROVE  FALSE
          OBVIOUS
        <5>2. j.name = x.name
          BY <5>1, <3>2, <3>6, <1>4 DEF Deleted
        <5>3. j.ins = e.ins /\ e.ins \in {None, s}
          <6>1. j.id = e.jar
            BY <2>1, <3>1
          <6>2. j.ins = e.ins
            BY <6>1 DEF IInv, Keyed
          <6> QED
            BY <6>2, <5>1 DEF IInv, SeenFirst
        <5>4. PICK u \in Sessions : Follows(u, j, x, Id(j), Id(x)) \/ Follows(u, x, j, Id(x), Id(j))
          BY <3>6, <5>2 DEF IInv, Named1
        <5> QED
          BY <5>1, <5>4, <1>3, <1>4 DEF Follows
      <4>3. call'[s] = c => /\ Id(j) \in call'[s].deleted <=> Id(j) \in call[s].deleted
                            /\ Key(e) \in call'[s].deleted <=> Key(e) \in call[s].deleted
        BY <4>1, <1>7
      <4>4. call'[s] = NoCall => call'[s].deleted = {}
        BY NoCallType
      <4> QED
        BY <4>2, <4>3, <4>4, <3>1, <3>2, <3>6, <1>8 DEF Deleted
    <3> QED
      BY <3>3, <3>4, <3>5, <3>6
  <2> QED
    BY <2>1, <1>2 DEF Together, Deleted, Removing
<1>21. SeenFirst'
  BY <1>2, <1>4, <1>11 DEF SeenFirst, IInv
<1>22. Complete'
  <2>1. ASSUME NEW j2 \in jars'
        PROVE  \/ \E f \in Files : AllOf(f, j2)'
               \/ \E t \in Sessions : Installing(t)' /\ call'[t].target = j2.id
    <3>1. PICK j \in jars : j2.id = j.id
      BY <1>11
    <3>2. ASSUME NEW f \in Files, AllOf(f, j)
          PROVE  AllOf(f, j2)'
      BY <3>1, <3>2, <1>2 DEF AllOf
    <3>3. ASSUME NEW t \in Sessions, Installing(t), call[t].target = j.id
          PROVE  Installing(t)' /\ call'[t].target = j2.id
      BY <3>1, <3>3, <1>9, <1>10
    <3> QED
      BY <3>2, <3>3 DEF IInv, Complete
  <2> QED
    BY <2>1 DEF Complete, AllOf, Installing
<1>23. \A u \in Sessions : Installing(u) => call[u].target # x.id
  <2>1. ASSUME NEW u \in Sessions, Installing(u), call[u].target = x.id
        PROVE  FALSE
    <3>1. x.ins = u /\ u # s
      BY <2>1, <1>9, <1>14 DEF IInv, Progress
    <3> QED
      BY <3>1, <1>3, <1>4
  <2> QED
    BY <2>1
<1>24. ASSUME NEW t \in Sessions
       PROVE  (Savepoint(t) /\ Locals(t) /\ Progress(t) /\ Owners(t))'
  <2>0. Savepoint(t) /\ Locals(t) /\ Progress(t) /\ Owners(t)
    BY DEF IInv
  <2>1. CASE t = s
    <3>1. Savepoint(s)'
      <4>1. \A j \in jars' : Id(j) \in call'[s].deleted => j.del = s
        BY <1>3, <1>5, <1>11, <1>14, <1>17 DEF Savepoint
      <4>2. \A e \in entries : Key(e) \in call'[s].deleted => e.del = s
        BY <1>3, <1>5, <1>17, Facts DEF Savepoint, EntryRows
      <4>3. \A k \in call'[s].deleted : k[1] <= seq
        BY <1>3, <1>4, <1>5, <1>17 DEF Savepoint
      <4>4. \A u \in Sessions : Installing(u)' => \A k \in call'[s].deleted : k[1] # call'[u].target
        BY <1>3, <1>5, <1>8, <1>10, <1>17, <1>23 DEF Savepoint
      <4> QED
        BY <4>1, <4>2, <4>3, <4>4, <1>2, <1>8, <1>17 DEF Savepoint
    <3>2. Locals(s)' /\ Progress(s)'
      BY <1>2, <1>8 DEF Locals, Progress
    <3>3. Owners(s)'
      BY <1>2, <1>3, <1>8, <1>11 DEF Owners, MayRemove, JarRows, Ids
    <3> QED
      BY <2>1, <3>1, <3>2, <3>3
  <2>2. CASE t # s
    <3>1. Savepoint(t)'
      <4>1. \A j \in jars' : Id(j) \in call[t].deleted => j.del = t
        <5>1. Id(x) \notin call[t].deleted
          BY <2>0, <1>3, <1>4 DEF Savepoint
        <5> QED
          BY <5>1, <2>0, <1>11 DEF Savepoint
      <4>2. Installing(t) => \A j \in jars' : j.id = call[t].target => Id(j) \in call[t].added
        BY <2>0, <1>11 DEF Savepoint
      <4>3. \A u \in Sessions : Installing(u)' => \A k \in call[t].deleted : k[1] # call'[u].target
        BY <2>0, <1>8, <1>10 DEF Savepoint
      <4> QED
        BY <4>1, <4>2, <4>3, <2>0, <2>2, <1>2, <1>10 DEF Savepoint, Installing
    <3>2. Locals(t)'
      BY <2>0, <2>2, <1>2, <1>10, <1>11 DEF Locals, Removing
    <3>3. Progress(t)'
      <4> SUFFICES ASSUME Installing(t)
                   PROVE  Progress(t)'
        BY <2>2, <1>10 DEF Progress, Installing
      <4>1. \E j \in jars' : j.id = call[t].target /\ j.ins = t /\ j.del = None
        BY <2>0, <1>12, <1>23 DEF Progress
      <4> QED
        BY <4>1, <2>0, <2>2, <1>2, <1>10 DEF Progress, Stored, Installing
    <3>4. Owners(t)'
      BY <2>0, <2>2, <1>2, <1>10, <1>11 DEF Owners, MayRemove
    <3> QED
      BY <3>1, <3>2, <3>3, <3>4
  <2> QED
    BY <2>1, <2>2
<1> QED
  BY <1>15, <1>16, <1>18, <1>19, <1>20, <1>21, <1>22, <1>24 DEF IInv

-----------------------------------------------------------------------------
(* Insertions.                                                             *)

LEMMA InsertJarKeeps ==
  ASSUME IInv, NEW s \in Sessions, InsertJar(s)
  PROVE  IInv'
<1> USE DEF Id, Key
<1> DEFINE x == Jar(seq + 1, call[s].op.name, UserOf[s], s)
           c == [call[s] EXCEPT !.target = seq + 1, !.added = call[s].added \cup {<<seq + 1, None>>}]
<1>1. /\ pc[s] = "jar" /\ RivalJars(s) = {} /\ seq' = seq + 1 /\ jars' = jars \cup {x}
      /\ call' = [call EXCEPT ![s].target = seq + 1, ![s].added = @ \cup {<<seq + 1, None>>}]
      /\ pc' = [pc EXCEPT ![s] = "file"] /\ entries' = entries /\ ops' = ops
  BY DEF InsertJar
<1>2. /\ jars \subseteq JarRows /\ entries \subseteq EntryRows /\ None \notin Sessions /\ seq \in Nat
      /\ call \in [Sessions -> Locs] /\ call[s] \in Locs
      /\ Savepoint(s) /\ Locals(s) /\ Progress(s) /\ Owners(s)
  BY Facts
<1>3. ~Installing(s) /\ ~Removing(s)
  BY <1>1 DEF Installing, Removing
<1>4. call[s].op \in Operations /\ ops[s] > 0 /\ call[s].added = {}
  BY <1>1, <1>2, <1>3 DEF Locals, Savepoint
<1>5. <<seq + 1, None>> \in Keys /\ seq + 1 \in Ids
  <2>1. seq + 1 \in Ids
    BY <1>2 DEF Ids
  <2> QED
    BY <2>1 DEF Keys
<1>6. c \in Locs /\ call' = [call EXCEPT ![s] = c] /\ "file" \in Phases
  <2>1. call[s].added \cup {<<seq + 1, None>>} \subseteq Keys /\ seq + 1 \in Nat
    <3>1. {<<seq + 1, None>>} \subseteq Keys
      BY ONLY <1>5
    <3>2. seq + 1 \in Nat
      BY <1>2
    <3> QED
      BY <3>1, <3>2, <1>4
  <2>2. c \in Locs
    BY <2>1, <1>2 DEF Locs
  <2>3. call' = [call EXCEPT ![s] = c]
    BY <1>1, <1>2 DEF Locs
  <2> QED
    BY <2>2, <2>3 DEF Phases
<1>7. Alone(s) /\ pc'[s] = "file" /\ call'[s] = c /\ ops'[s] = ops[s]
  BY <1>1, <1>6, Moved
<1>8. /\ c.op = call[s].op /\ c.target = seq + 1 /\ c.checked = call[s].checked
      /\ c.added = {<<seq + 1, None>>} /\ c.deleted = call[s].deleted
  BY <1>2, <1>4 DEF Locs
<1>9. /\ x \in JarRows /\ x.id = seq + 1 /\ x.name = call[s].op.name /\ x.owner = UserOf[s]
      /\ x.ins = s /\ x.del = None
  BY <1>4, <1>5 DEF Jar, JarRows, Users, Operations
<1> HIDE DEF c, x
<1>10. Installing(s)' /\ ~Removing(s)' /\ Stored(s)' = {}
  BY <1>7 DEF Installing, Removing, Stored
<1>11. \A t \in Sessions : t # s => /\ pc'[t] = pc[t] /\ call'[t] = call[t] /\ ops'[t] = ops[t]
                                    /\ Installing(t)' = Installing(t) /\ Removing(t)' = Removing(t)
                                    /\ Stored(t)' = Stored(t)
  BY <1>7 DEF Alone, Installing, Removing, Stored
<1>12. /\ \A j \in jars : j.id <= seq /\ j.id # seq + 1
       /\ \A e \in entries : e.jar # seq + 1
  BY <1>2 DEF IInv, Keyed, JarRows, Ids
<1>13. TypeOK'
  <2>1. \A r \in jars' \cup entries' : \A t \in Holders(None, r) : ops'[t] > 0
    <3>1. \A r \in jars \cup entries : \A t \in Holders(None, r) : ops[t] > 0
      BY TypesSplit DEF IInv
    <3>2. Holders(None, x) = {s}
      BY <1>2, <1>9 DEF Holders
    <3> QED
      BY <1>1, <1>4, <3>1, <3>2
  <2> QED
    BY <1>1, <1>2, <1>7, <1>9, <2>1 DEF TypeOK, Locs, Holders, Alone
<1>14. Keyed'
  <2>1. \A j \in jars' : j.id <= seq'
    BY <1>1, <1>2, <1>9, <1>12 DEF JarRows, Ids
  <2>2. \A j, k \in jars' : j.id = k.id => j = k
    BY <1>1, <1>9, <1>12 DEF IInv, Keyed
  <2>3. \A d, e \in entries' : Key(d) = Key(e) => d = e
    BY <1>1 DEF IInv, Keyed
  <2>4. \A e \in entries' : \E j \in jars' : j.id = e.jar /\ j.ins = e.ins
    BY <1>1 DEF IInv, Keyed
  <2> QED
    BY <2>1, <2>2, <2>3, <2>4 DEF Keyed
<1>15. \A t \in Sessions : call'[t].deleted = call[t].deleted /\ call[t].added \subseteq call'[t].added
  BY <1>4, <1>7, <1>8, <1>11
<1>16. Named1'
  <2>1. ASSUME NEW j \in jars, NEW k \in jars, j # k, j.name = k.name
        PROVE  \E t \in Sessions : \/ Follows(t, j, k, Id(j), Id(k))'
                                   \/ Follows(t, k, j, Id(k), Id(j))'
    <3>1. PICK t \in Sessions : \/ Follows(t, j, k, Id(j), Id(k))
                                \/ Follows(t, k, j, Id(k), Id(j))
      BY <2>1 DEF IInv, Named1
    <3> QED
      BY <3>1, <1>15 DEF Follows
  <2>2. ASSUME NEW k \in jars, x.name = k.name
        PROVE  x.ins = s /\ k.del = s /\ Id(x) \in call'[s].added
    <3>1. k.del = s
      BY <2>2, <1>1, <1>9 DEF RivalJars
    <3>2. Id(x) \in call'[s].added
      BY <1>7, <1>8, <1>9
    <3> QED
      BY <3>1, <3>2, <1>9
  <2>3. ASSUME NEW j \in jars', NEW k \in jars', j # k, j.name = k.name
        PROVE  \E t \in Sessions : \/ Follows(t, j, k, Id(j), Id(k))'
                                   \/ Follows(t, k, j, Id(k), Id(j))'
    <3>1. CASE j \in jars /\ k \in jars
      BY <3>1, <2>1, <2>3
    <3>2. CASE j = x /\ k \in jars
      BY <3>2, <2>2, <2>3 DEF Follows
    <3>3. CASE k = x /\ j \in jars
      BY <3>3, <2>2, <2>3 DEF Follows
    <3> QED
      BY <3>1, <3>2, <3>3, <2>3, <1>1
  <2> QED
    BY <2>3 DEF Named1, Follows
<1>17. Named2'
  <2>1. ASSUME NEW j \in entries, NEW k \in entries, j # k, j.name = k.name
        PROVE  \E t \in Sessions : \/ Follows(t, j, k, Key(j), Key(k))'
                                   \/ Follows(t, k, j, Key(k), Key(j))'
    <3>1. PICK t \in Sessions : \/ Follows(t, j, k, Key(j), Key(k))
                                \/ Follows(t, k, j, Key(k), Key(j))
      BY <2>1 DEF IInv, Named2
    <3> QED
      BY <3>1, <1>15 DEF Follows
  <2> QED
    BY <2>1, <1>1, ZenonT(60) DEF Named2, Follows
<1>18. Together'
  <2>1. ASSUME NEW t \in Sessions, NEW j \in jars', NEW e \in entries', j.id = e.jar
        PROVE  Deleted(t, j, e)'
    <3>1. j \in jars /\ e \in entries /\ Deleted(t, j, e)
      BY <2>1, <1>1, <1>9, <1>12 DEF IInv, Together
    <3>2. CASE t # s
      BY <3>1, <3>2, <1>11 DEF Deleted
    <3>3. CASE t = s
      BY <3>1, <3>3, <1>3, <1>15 DEF Deleted
    <3> QED
      BY <3>2, <3>3
  <2> QED
    BY <2>1, ZenonT(60) DEF Together, Deleted, Removing
<1>19. SeenFirst'
  BY <1>1, <1>2, <1>9 DEF IInv, SeenFirst
<1>20. Complete'
  <2>1. ASSUME NEW j \in jars'
        PROVE  \/ \E f \in Files : AllOf(f, j)'
               \/ \E t \in Sessions : Installing(t)' /\ call'[t].target = j.id
    <3>1. CASE j = x
      BY <3>1, <1>7, <1>8, <1>9, <1>10
    <3>2. CASE j # x
      <4>1. j \in jars
        BY <3>2, <1>1
      <4>2. ASSUME NEW f \in Files, AllOf(f, j)
            PROVE  AllOf(f, j)'
        BY <4>2, <1>1 DEF AllOf
      <4>3. ASSUME NEW t \in Sessions, Installing(t), call[t].target = j.id
            PROVE  Installing(t)' /\ call'[t].target = j.id
        BY <4>3, <1>3, <1>11
      <4> QED
        BY <4>1, <4>2, <4>3 DEF IInv, Complete
    <3> QED
      BY <3>1, <3>2
  <2> QED
    BY <2>1 DEF Complete, AllOf, Installing
<1>21. \A t \in Sessions : \A k \in call[t].deleted : k[1] <= seq /\ k[1] # seq + 1
  <2>1. ASSUME NEW t \in Sessions, NEW k \in call[t].deleted
        PROVE  k[1] \in Nat /\ k[1] <= seq
    BY Facts DEF Savepoint, Locs, Keys, Ids
  <2> QED
    BY <2>1, <1>2
<1>22. ASSUME NEW t \in Sessions
       PROVE  (Savepoint(t) /\ Locals(t) /\ Progress(t) /\ Owners(t))'
  <2>0. Savepoint(t) /\ Locals(t) /\ Progress(t) /\ Owners(t) /\ call[t] \in Locs
    BY Facts
  <2>1. \A k \in call'[t].deleted : k[1] <= seq'
    <3>1. ASSUME NEW k \in call[t].deleted
          PROVE  k[1] <= seq + 1
      BY <2>0, <1>2, <1>21 DEF Locs, Keys, Ids
    <3> QED
      BY <3>1, <1>1, <1>15
  <2>2. \A u \in Sessions : Installing(u)' => \A k \in call'[t].deleted : k[1] # call'[u].target
    BY <2>0, <1>7, <1>8, <1>11, <1>15, <1>21 DEF Savepoint
  <2>3. \A j \in jars' : Id(j) \in call'[t].deleted => j.del = t
    <3>1. Id(x) \notin call[t].deleted
      BY <1>9, <1>21
    <3> QED
      BY <3>1, <2>0, <1>1, <1>15 DEF Savepoint
  <2>4. \A e \in entries' : Key(e) \in call'[t].deleted => e.del = t
    BY <2>0, <1>1, <1>15 DEF Savepoint
  <2>5. CASE t = s
    <3>1. Savepoint(s)'
      <4>1. \A k \in call'[s].added : Installing(s)' /\ k[1] = call'[s].target
        BY <1>7, <1>8, <1>10
      <4>2. \A j \in jars' : j.id = call'[s].target => Id(j) \in call'[s].added
        BY <1>7, <1>8
      <4>3. \A e \in entries' : e.jar # call'[s].target
        BY <1>1, <1>7, <1>8, <1>12
      <4> QED
        BY <4>1, <4>2, <4>3, <2>1, <2>2, <2>3, <2>4, <2>5 DEF Savepoint
    <3>2. Locals(s)'
      BY <1>1, <1>2, <1>4, <1>7, <1>8, <1>10 DEF Locals
    <3>3. Progress(s)'
      <4>1. \E j \in jars' : j.id = call'[s].target /\ j.ins = s /\ j.del = None
        BY <1>1, <1>7, <1>8, <1>9
      <4>2. \A e \in entries' : e.jar # call'[s].target
        BY <1>1, <1>7, <1>8, <1>12
      <4> QED
        BY <4>1, <4>2, <1>7, <1>10 DEF Progress
    <3>4. Owners(s)'
      <4>1. call[s].checked \in Nat /\ call[s].checked <= seq
        BY <1>2 DEF Owners, Locs
      <4>2. call'[s].checked <= seq' /\ call'[s].checked # x.id
        BY <4>1, <1>1, <1>2, <1>7, <1>8, <1>9
      <4>3. \A j \in jars' : j.ins = s => j.owner = UserOf[s]
        BY <1>1, <1>2, <1>9 DEF Owners
      <4>4. \A j \in jars' : j.id = call'[s].checked => MayRemove(s, j)
        BY <4>2, <1>1, <1>2, <1>7, <1>8 DEF Owners
      <4> QED
        BY <4>2, <4>3, <4>4 DEF Owners, MayRemove
    <3> QED
      BY <2>5, <3>1, <3>2, <3>3, <3>4
  <2>6. CASE t # s
    <3>0. /\ call[t].target \in Nat /\ call[t].target <= seq /\ call[t].target # seq + 1
          /\ call[t].checked \in Nat /\ call[t].checked <= seq /\ call[t].checked # seq + 1
          /\ call[t].target <= seq + 1 /\ call[t].checked <= seq + 1
      BY <2>0, <1>2 DEF Locals, Owners, Locs
    <3>1. Savepoint(t)'
      <4>1. \A k \in call'[t].added : Installing(t)' /\ k[1] = call'[t].target
        BY <2>0, <2>6, <1>11 DEF Savepoint
      <4>2. Installing(t)' => /\ \A j \in jars' : j.id = call'[t].target => Id(j) \in call'[t].added
                              /\ \A e \in entries' : e.jar = call'[t].target => Key(e) \in call'[t].added
        BY <2>0, <2>6, <3>0, <1>1, <1>9, <1>11 DEF Savepoint
      <4> QED
        BY <4>1, <4>2, <2>1, <2>2, <2>3, <2>4 DEF Savepoint
    <3>2. Locals(t)'
      <4>1. Removing(t)' => \A j \in jars' : j.id = call'[t].target => j.name = call'[t].op.name
        BY <2>0, <2>6, <3>0, <1>1, <1>9, <1>11, ZenonT(60) DEF Locals
      <4>2. pc'[t] = "entry" => /\ call'[t].row \in Keys /\ call'[t].row[1] = call'[t].target
                                /\ \A e \in entries' : Key(e) = call'[t].row => e.del # t
        BY <2>0, <2>6, <1>1, <1>11 DEF Locals
      <4>3. pc[t] = "row" => call[t].row[1] <= seq
        BY <2>0 DEF Locals
      <4>4. \A j \in jars : Id(j) = call[t].row => call[t].row[1] \in Nat
        BY <1>2 DEF JarRows, Ids
      <4>5. pc'[t] = "row" =>
              \A j \in jars' : Id(j) = call'[t].row => j.name = call'[t].op.name /\ j.del # t
        <5>1. pc[t] = "row" => Id(x) # call[t].row
          BY <4>3, <1>2, <1>9
        <5> QED
          BY <5>1, <2>0, <2>6, <1>1, <1>11, ZenonT(60) DEF Locals
      <4>6. pc'[t] = "row" => call'[t].row \in Keys /\ call'[t].row[1] <= seq'
        <5>1. pc[t] = "row" => call[t].row \in Keys /\ call[t].row[1] \in Nat /\ call[t].row[1] <= seq
          BY <2>0 DEF Locals, Keys, Ids
        <5> QED
          BY <5>1, <2>6, <1>1, <1>2, <1>11
      <4>7. (pc'[t] # "idle" => call'[t].op \in Operations /\ ops'[t] > 0) /\ call'[t].target <= seq'
        BY <2>0, <2>6, <3>0, <1>1, <1>11 DEF Locals
      <4> QED
        BY <4>1, <4>2, <4>5, <4>6, <4>7 DEF Locals, Removing
    <3>3. Progress(t)'
      <4> SUFFICES ASSUME Installing(t)
                   PROVE  Progress(t)'
        BY <2>6, <1>11 DEF Progress, Installing
      <4>1. call'[t] = call[t] /\ pc'[t] = pc[t] /\ Stored(t)' = Stored(t)
        BY <2>6, <1>11
      <4>2. \E j \in jars' : j.id = call[t].target /\ j.ins = t /\ j.del = None
        BY <2>0, <1>1 DEF Progress
      <4>3. \A e \in entries' : e.jar = call[t].target =>
              e.file = call[t].op.file /\ e.name \in Stored(t) /\ e.del = None
        BY <2>0, <1>1 DEF Progress
      <4>4. \A n \in Stored(t) : \E e \in entries' : e.jar = call[t].target /\ e.name = n
        BY <2>0, <1>1 DEF Progress
      <4>5. pc[t] = "store" =>
              /\ RangeOf(call[t].todo) \subseteq RangeOf(EntriesOf[call[t].op.file])
              /\ \A i, k \in DOMAIN call[t].todo : call[t].todo[i] = call[t].todo[k] => i = k
        BY <2>0 DEF Progress
      <4> HIDE DEF Id, Key
      <4> QED
        BY <4>1, <4>2, <4>3, <4>4, <4>5 DEF Progress
    <3>4. Owners(t)'
      <4>1. \A j \in jars' : j.ins = t => j.owner = UserOf[t]
        BY <2>0, <2>6, <1>1, <1>9 DEF Owners
      <4>2. \A j \in jars' : j.id = call'[t].checked => MayRemove(t, j)
        BY <2>0, <2>6, <3>0, <1>1, <1>9, <1>11 DEF Owners
      <4> QED
        BY <4>1, <4>2, <2>6, <3>0, <1>1, <1>11 DEF Owners, MayRemove
    <3> QED
      BY <3>1, <3>2, <3>3, <3>4
  <2> QED
    BY <2>5, <2>6
<1> QED
  BY <1>13, <1>14, <1>16, <1>17, <1>18, <1>19, <1>20, <1>22 DEF IInv

\* The head of a list without duplicates, and the rest.
LEMMA HeadAndTail ==
  ASSUME NEW S, NEW list \in Seq(S), list # <<>>,
         \A i, k \in DOMAIN list : list[i] = list[k] => i = k
  PROVE  /\ Head(list) \in S /\ Tail(list) \in Seq(S)
         /\ RangeOf(list) = {Head(list)} \cup RangeOf(Tail(list))
         /\ Head(list) \notin RangeOf(Tail(list))
         /\ \A i, k \in DOMAIN Tail(list) : Tail(list)[i] = Tail(list)[k] => i = k
<1>1. /\ Len(list) \in Nat \ {0} /\ DOMAIN list = 1..Len(list) /\ \A i \in 1..Len(list) : list[i] \in S
      /\ Head(list) = list[1]
  OBVIOUS
<1>2. /\ Tail(list) \in Seq(S) /\ DOMAIN Tail(list) = 1..(Len(list) - 1)
      /\ \A i \in 1..(Len(list) - 1) : Tail(list)[i] = list[i + 1]
  OBVIOUS
<1>3. \A i \in 1..(Len(list) - 1) : i + 1 \in 1..Len(list) /\ i + 1 # 1
  BY <1>1
<1>4. \A i \in 1..Len(list) : i = 1 \/ (i - 1 \in 1..(Len(list) - 1) /\ (i - 1) + 1 = i)
  BY <1>1
<1>5. 1 \in 1..Len(list)
  BY <1>1
<1>6. RangeOf(list) = {Head(list)} \cup RangeOf(Tail(list))
  <2>1. ASSUME NEW n \in RangeOf(list)
        PROVE  n = Head(list) \/ n \in RangeOf(Tail(list))
    <3>1. PICK i \in 1..Len(list) : n = list[i]
      BY <1>1 DEF RangeOf
    <3>2. CASE i = 1
      BY <3>1, <3>2, <1>1
    <3>3. CASE i # 1
      <4>1. i - 1 \in 1..(Len(list) - 1) /\ Tail(list)[i - 1] = n
        BY <3>1, <3>3, <1>2, <1>4
      <4> QED
        BY <4>1, <1>2 DEF RangeOf
    <3> QED
      BY <3>2, <3>3
  <2>2. ASSUME NEW n \in RangeOf(Tail(list))
        PROVE  n \in RangeOf(list)
    BY <1>1, <1>2, <1>3 DEF RangeOf
  <2>3. Head(list) \in RangeOf(list)
    BY <1>1, <1>5 DEF RangeOf
  <2> QED
    BY <2>1, <2>2, <2>3
<1>7. Head(list) \notin RangeOf(Tail(list))
  <2>1. ASSUME NEW i \in 1..(Len(list) - 1), Tail(list)[i] = Head(list)
        PROVE  FALSE
    BY <2>1, <1>1, <1>2, <1>3, <1>5
  <2> QED
    BY <2>1, <1>2 DEF RangeOf
<1>8. ASSUME NEW i \in 1..(Len(list) - 1), NEW k \in 1..(Len(list) - 1), Tail(list)[i] = Tail(list)[k]
      PROVE  i = k
  <2>1. i + 1 = k + 1
    BY <1>8, <1>1, <1>2, <1>3
  <2> QED
    BY <2>1
<1> QED
  BY <1>1, <1>2, <1>5, <1>6, <1>7, <1>8

LEMMA InsertEntryKeeps ==
  ASSUME IInv, NEW s \in Sessions, InsertEntry(s)
  PROVE  IInv'
<1> USE DEF Id, Key
<1> DEFINE h == Head(call[s].todo)
           x == Entry(call[s].target, h, call[s].op.file, s)
           c == [call[s] EXCEPT !.added = call[s].added \cup {Key(x)}, !.todo = Tail(call[s].todo)]
<1>1. /\ pc[s] = "store" /\ call[s].todo # <<>> /\ RivalEntries(s) = {} /\ entries' = entries \cup {x}
      /\ call' = [call EXCEPT ![s].added = @ \cup {Key(x)}, ![s].todo = Tail(@)]
      /\ jars' = jars /\ seq' = seq /\ pc' = pc /\ ops' = ops
  BY DEF InsertEntry
<1>2. /\ jars \subseteq JarRows /\ entries \subseteq EntryRows /\ None \notin Sessions /\ seq \in Nat
      /\ call \in [Sessions -> Locs] /\ call[s] \in Locs /\ pc \in [Sessions -> Phases]
      /\ Savepoint(s) /\ Locals(s) /\ Progress(s) /\ Owners(s)
  BY Facts
<1>3. Installing(s) /\ ~Removing(s)
  BY <1>1 DEF Installing, Removing
<1>4. call[s].op \in Operations /\ call[s].op.file \in Files /\ ops[s] > 0
  BY <1>1, <1>2 DEF Locals, Operations
<1>5. /\ call[s].todo \in Seq(EntryNames)
      /\ RangeOf(call[s].todo) \subseteq RangeOf(EntriesOf[call[s].op.file])
      /\ \A i, k \in DOMAIN call[s].todo : call[s].todo[i] = call[s].todo[k] => i = k
  BY <1>1, <1>2, <1>3 DEF Locs, Progress
<1>6. /\ h \in EntryNames /\ Tail(call[s].todo) \in Seq(EntryNames)
      /\ RangeOf(call[s].todo) = {h} \cup RangeOf(Tail(call[s].todo))
      /\ h \notin RangeOf(Tail(call[s].todo))
      /\ \A i, k \in DOMAIN Tail(call[s].todo) : Tail(call[s].todo)[i] = Tail(call[s].todo)[k] => i = k
  BY <1>1, <1>5, HeadAndTail
<1>7. PICK j0 \in jars : j0.id = call[s].target /\ j0.ins = s /\ j0.del = None
  BY <1>2, <1>3 DEF Progress
<1>8. call[s].target \in Ids /\ <<call[s].target, h>> \in Keys
  <2>1. call[s].target \in Ids
    BY <1>2, <1>7 DEF JarRows
  <2> QED
    BY <2>1, <1>6 DEF Keys
<1>9. /\ x \in EntryRows /\ x.jar = call[s].target /\ x.name = h /\ x.file = call[s].op.file
      /\ x.ins = s /\ x.del = None /\ Key(x) = <<call[s].target, h>>
  BY <1>4, <1>6, <1>8 DEF Entry, EntryRows
<1>10. c \in Locs /\ call' = [call EXCEPT ![s] = c] /\ "store" \in Phases
  <2>1. call[s].added \cup {Key(x)} \subseteq Keys
    <3>1. {Key(x)} \subseteq Keys
      BY <1>8, <1>9
    <3>2. call[s].added \subseteq Keys
      BY <1>2 DEF Locs
    <3> QED
      BY <3>1, <3>2
  <2>2. c \in Locs
    <3> HIDE DEF x, h
    <3> QED
      BY <2>1, <1>2, <1>6 DEF Locs
  <2>3. call' = [call EXCEPT ![s] = c]
    <3> HIDE DEF x, h
    <3> QED
      BY <1>1, <1>2 DEF Locs
  <2> QED
    BY <2>2, <2>3 DEF Phases
<1>11. /\ c.op = call[s].op /\ c.target = call[s].target /\ c.checked = call[s].checked
       /\ c.added = call[s].added \cup {Key(x)} /\ c.deleted = call[s].deleted
       /\ c.todo = Tail(call[s].todo)
  <2> HIDE DEF x, h
  <2> QED
    BY <1>2 DEF Locs
<1> HIDE DEF c, x, h
<1>12. Alone(s) /\ pc'[s] = "store" /\ call'[s] = c /\ ops'[s] = ops[s]
  <2>1. pc' = [pc EXCEPT ![s] = "store"]
    BY <1>1, <1>2
  <2> QED
    BY <2>1, <1>1, <1>10, Moved
<1>13. /\ Installing(s)' /\ ~Removing(s)'
       /\ Stored(s) = RangeOf(EntriesOf[call[s].op.file]) \ RangeOf(call[s].todo)
       /\ Stored(s)' = RangeOf(EntriesOf[call[s].op.file]) \ RangeOf(Tail(call[s].todo))
  <2>1. /\ pc'[s] = "store" /\ call'[s].op.file = call[s].op.file
        /\ call'[s].todo = Tail(call[s].todo)
    BY <1>11, <1>12
  <2>2. RangeOf(call'[s].todo) = RangeOf(Tail(call[s].todo))
    BY <2>1
  <2>3. Stored(s)' = RangeOf(EntriesOf[call[s].op.file]) \ RangeOf(call'[s].todo)
    BY <2>1, Zenon DEF Stored, RangeOf
  <2>4. Stored(s) = RangeOf(EntriesOf[call[s].op.file]) \ RangeOf(call[s].todo)
    BY <1>1, Zenon DEF Stored
  <2> QED
    BY <2>1, <2>2, <2>3, <2>4, <1>1 DEF Installing, Removing
<1>14. Stored(s)' = Stored(s) \cup {h} /\ h \notin Stored(s)
  BY <1>5, <1>6, <1>13
<1>15. \A t \in Sessions : t # s => /\ pc'[t] = pc[t] /\ call'[t] = call[t] /\ ops'[t] = ops[t]
                                    /\ Installing(t)' = Installing(t) /\ Removing(t)' = Removing(t)
                                    /\ Stored(t)' = Stored(t)
  BY <1>12 DEF Alone, Installing, Removing, Stored
<1>16. \A t \in Sessions : /\ Installing(t)' = Installing(t) /\ Removing(t)' = Removing(t)
                           /\ call'[t].target = call[t].target /\ call'[t].op = call[t].op
                           /\ call'[t].deleted = call[t].deleted /\ call'[t].checked = call[t].checked
                           /\ call[t].added \subseteq call'[t].added
                           /\ pc'[t] = pc[t] /\ ops'[t] = ops[t]
  <2>1. \A t \in Sessions : t # s => /\ call'[t] = call[t] /\ pc'[t] = pc[t] /\ ops'[t] = ops[t]
                                    /\ Installing(t)' = Installing(t) /\ Removing(t)' = Removing(t)
    BY <1>15
  <2>2. /\ call'[s].target = call[s].target /\ call'[s].op = call[s].op
        /\ call'[s].deleted = call[s].deleted /\ call'[s].checked = call[s].checked
        /\ call[s].added \subseteq call'[s].added /\ pc'[s] = pc[s] /\ ops'[s] = ops[s]
    BY <1>1, <1>11, <1>12
  <2>3. Installing(s)' = Installing(s) /\ Removing(s)' = Removing(s)
    BY <1>1, <1>12 DEF Installing, Removing
  <2> QED
    BY <2>1, <2>2, <2>3
<1>17. \A e \in entries : e.jar = call[s].target => Key(e) # Key(x) /\ e.name # h
  BY <1>2, <1>3, <1>9, <1>14 DEF Progress
<1>18. \A t \in Sessions : Key(x) \notin call[t].deleted
  <2>1. ASSUME NEW t \in Sessions, Key(x) \in call[t].deleted
        PROVE  FALSE
    <3>1. Savepoint(t)
      BY DEF IInv
    <3>2. <<call[s].target, h>> \in call[t].deleted
      BY <2>1, <1>9
    <3> QED
      BY <3>1, <3>2, <1>3 DEF Savepoint
  <2> QED
    BY <2>1
<1>19. \A u \in Sessions : u # s /\ Installing(u) => call[u].target # call[s].target
  <2>1. ASSUME NEW u \in Sessions, u # s, Installing(u), call[u].target = call[s].target
        PROVE  FALSE
    <3>1. PICK j \in jars : j.id = call[u].target /\ j.ins = u
      BY <2>1 DEF IInv, Progress
    <3> QED
      BY <2>1, <3>1, <1>7 DEF IInv, Keyed
  <2> QED
    BY <2>1
<1>20. TypeOK'
  <2>1. \A r \in jars' \cup entries' : \A t \in Holders(None, r) : ops'[t] > 0
    <3>1. \A r \in jars \cup entries : \A t \in Holders(None, r) : ops[t] > 0
      BY TypesSplit DEF IInv
    <3>2. Holders(None, x) = {s}
      BY <1>2, <1>9 DEF Holders
    <3> QED
      BY <1>1, <1>4, <3>1, <3>2
  <2> QED
    BY <1>1, <1>2, <1>12, <1>9, <2>1 DEF TypeOK, Locs, Holders, Alone
<1>21. Keyed'
  <2>1. \A d, e \in entries' : Key(d) = Key(e) => d = e
    <3>1. \A e \in entries : Key(e) # Key(x)
      BY <1>9, <1>17
    <3>2. \A d, e \in entries : Key(d) = Key(e) => d = e
      BY DEF IInv, Keyed
    <3> HIDE DEF Key
    <3> QED
      BY <3>1, <3>2, <1>1
  <2>2. \A e \in entries' : \E j \in jars' : j.id = e.jar /\ j.ins = e.ins
    <3>1. \A e \in entries : \E j \in jars : j.id = e.jar /\ j.ins = e.ins
      BY DEF IInv, Keyed
    <3> QED
      BY <3>1, <1>1, <1>7, <1>9
  <2>3. /\ \A j \in jars' : j.id <= seq'
        /\ \A j, k \in jars' : j.id = k.id => j = k
    BY <1>1 DEF IInv, Keyed
  <2> QED
    BY <2>1, <2>2, <2>3 DEF Keyed
<1>22. Named1'
  <2>1. ASSUME NEW j \in jars, NEW k \in jars, j # k, j.name = k.name
        PROVE  \E t \in Sessions : \/ Follows(t, j, k, Id(j), Id(k))'
                                   \/ Follows(t, k, j, Id(k), Id(j))'
    <3>1. PICK t \in Sessions : \/ Follows(t, j, k, Id(j), Id(k))
                                \/ Follows(t, k, j, Id(k), Id(j))
      BY <2>1 DEF IInv, Named1
    <3> QED
      BY <3>1, <1>16 DEF Follows
  <2> QED
    BY <2>1, <1>1, ZenonT(60) DEF Named1, Follows
<1>23. Named2'
  <2>1. ASSUME NEW j \in entries, NEW k \in entries, j # k, j.name = k.name
        PROVE  \E t \in Sessions : \/ Follows(t, j, k, Key(j), Key(k))'
                                   \/ Follows(t, k, j, Key(k), Key(j))'
    <3>1. PICK t \in Sessions : \/ Follows(t, j, k, Key(j), Key(k))
                                \/ Follows(t, k, j, Key(k), Key(j))
      BY <2>1 DEF IInv, Named2
    <3> QED
      BY <3>1, <1>16 DEF Follows
  <2>2. ASSUME NEW k \in entries, x.name = k.name
        PROVE  x.ins = s /\ k.del = s /\ Key(x) \in call'[s].added
    <3>1. k.del = s
      BY <2>2, <1>1, <1>9 DEF RivalEntries, h
    <3>2. Key(x) \in call'[s].added
      BY <1>11, <1>12
    <3> QED
      BY <3>1, <3>2, <1>9
  <2>3. ASSUME NEW j \in entries', NEW k \in entries', j # k, j.name = k.name
        PROVE  \E t \in Sessions : \/ Follows(t, j, k, Key(j), Key(k))'
                                   \/ Follows(t, k, j, Key(k), Key(j))'
    <3>1. CASE j \in entries /\ k \in entries
      BY <3>1, <2>1, <2>3
    <3>2. CASE j = x /\ k \in entries
      BY <3>2, <2>2, <2>3 DEF Follows
    <3>3. CASE k = x /\ j \in entries
      BY <3>3, <2>2, <2>3 DEF Follows
    <3> QED
      BY <3>1, <3>2, <3>3, <2>3, <1>1
  <2> QED
    BY <2>3, Zenon DEF Named2, Follows
<1>24. Together'
  <2>1. ASSUME NEW t \in Sessions, NEW j \in jars, NEW e \in entries', j.id = e.jar
        PROVE  Deleted(t, j, e)'
    <3>1. CASE e \in entries
      <4>1. Deleted(t, j, e)
        BY <2>1, <3>1 DEF IInv, Together
      <4> QED
        BY <4>1, <1>16 DEF Deleted
    <3>2. CASE e = x
      <4>1. j = j0
        BY <2>1, <3>2, <1>7, <1>9 DEF IInv, Keyed
      <4>2. j.del # t /\ e.del # t
        BY <4>1, <3>2, <1>2, <1>7, <1>9
      <4> QED
        BY <4>2 DEF Deleted
    <3> QED
      BY <3>1, <3>2, <2>1, <1>1
  <2> QED
    BY <2>1, <1>1 DEF Together, Deleted, Removing
<1>25. SeenFirst'
  BY <1>1, <1>2, <1>9 DEF IInv, SeenFirst
<1>26. Complete'
  <2>1. ASSUME NEW j \in jars
        PROVE  \/ \E f \in Files : AllOf(f, j)'
               \/ \E t \in Sessions : Installing(t)' /\ call'[t].target = j.id
    <3>1. CASE j.id = call[s].target
      BY <3>1, <1>11, <1>12, <1>13
    <3>2. CASE j.id # call[s].target
      <4>1. ASSUME NEW f \in Files, AllOf(f, j)
            PROVE  AllOf(f, j)'
        BY <4>1, <3>2, <1>1, <1>9 DEF AllOf
      <4>2. ASSUME NEW t \in Sessions, Installing(t), call[t].target = j.id
            PROVE  Installing(t)' /\ call'[t].target = j.id
        BY <4>2, <1>16
      <4> QED
        BY <4>1, <4>2 DEF IInv, Complete
    <3> QED
      BY <3>1, <3>2
  <2> QED
    BY <2>1, <1>1 DEF Complete, AllOf, Installing
<1>27. ASSUME NEW t \in Sessions
       PROVE  (Savepoint(t) /\ Locals(t) /\ Progress(t) /\ Owners(t))'
  <2>0. Savepoint(t) /\ Locals(t) /\ Progress(t) /\ Owners(t)
    BY DEF IInv
  <2>1. Savepoint(t)'
    <3>1. \A j \in jars' : Id(j) \in call'[t].deleted => j.del = t
      BY <2>0, <1>1, <1>16 DEF Savepoint
    <3>2. \A e \in entries' : Key(e) \in call'[t].deleted => e.del = t
      <4>1. \A e \in entries : Key(e) \in call[t].deleted => e.del = t
        BY <2>0 DEF Savepoint
      <4> HIDE DEF Key
      <4> QED
        BY <4>1, <1>1, <1>16, <1>18
    <3>3. \A k \in call'[t].deleted : k[1] <= seq'
      BY <2>0, <1>1, <1>16 DEF Savepoint
    <3>4. \A u \in Sessions : Installing(u)' => \A k \in call'[t].deleted : k[1] # call'[u].target
      BY <2>0, <1>16 DEF Savepoint
    <3>5. \A k \in call'[t].added : Installing(t)' /\ k[1] = call'[t].target
      <4>1. CASE t = s
        BY <4>1, <2>0, <1>3, <1>9, <1>11, <1>12, <1>13 DEF Savepoint
      <4>2. CASE t # s
        BY <4>2, <2>0, <1>15 DEF Savepoint
      <4> QED
        BY <4>1, <4>2
    <3>6. Installing(t)' => \A j \in jars' : j.id = call'[t].target => Id(j) \in call'[t].added
      BY <2>0, <1>1, <1>16, ZenonT(60) DEF Savepoint
    <3>7. Installing(t)' => \A e \in entries' : e.jar = call'[t].target => Key(e) \in call'[t].added
      <4>1. \A e \in entries : Installing(t)' /\ e.jar = call'[t].target => Key(e) \in call'[t].added
        BY <2>0, <1>16 DEF Savepoint
      <4>2. Installing(t)' /\ x.jar = call'[t].target => Key(x) \in call'[t].added
        BY <1>9, <1>11, <1>12, <1>16, <1>19
      <4> QED
        BY <4>1, <4>2, <1>1
    <3> QED
      BY <3>1, <3>2, <3>3, <3>4, <3>5, <3>6, <3>7 DEF Savepoint
  <2>2. Locals(t)'
    <3>1. Removing(t)' => \A j \in jars' : j.id = call'[t].target => j.name = call'[t].op.name
      BY <2>0, <1>1, <1>16, ZenonT(60) DEF Locals
    <3>2. pc'[t] = "entry" => /\ call'[t].row \in Keys /\ call'[t].row[1] = call'[t].target
                              /\ \A e \in entries' : Key(e) = call'[t].row => e.del # t
      <4> SUFFICES ASSUME pc[t] = "entry"
                   PROVE  /\ call'[t].row \in Keys /\ call'[t].row[1] = call'[t].target
                          /\ \A e \in entries' : Key(e) = call'[t].row => e.del # t
        BY <1>16
      <4>1. t # s /\ call'[t] = call[t]
        BY <1>1, <1>15
      <4> QED
        BY <4>1, <2>0, <1>1, <1>2, <1>9 DEF Locals
    <3>3. pc'[t] = "row" =>
            /\ call'[t].row \in Keys /\ call'[t].row[1] <= seq'
            /\ \A j \in jars' : Id(j) = call'[t].row => j.name = call'[t].op.name /\ j.del # t
      <4> SUFFICES ASSUME pc[t] = "row"
                   PROVE  /\ call'[t].row \in Keys /\ call'[t].row[1] <= seq'
                          /\ \A j \in jars' : Id(j) = call'[t].row => j.name = call'[t].op.name /\ j.del # t
        BY <1>16
      <4>1. t # s /\ call'[t] = call[t]
        BY <1>1, <1>15
      <4> QED
        BY <4>1, <2>0, <1>1 DEF Locals
    <3>4. (pc'[t] # "idle" => call'[t].op \in Operations /\ ops'[t] > 0) /\ call'[t].target <= seq'
      BY <2>0, <1>1, <1>16 DEF Locals
    <3> QED
      BY <3>1, <3>2, <3>3, <3>4 DEF Locals, Removing
  <2>3. CASE t = s
    <3>0. call'[s].target = call[s].target /\ call'[s].op = call[s].op
      BY <1>11, <1>12
    <3>1. \E j \in jars' : j.id = call'[s].target /\ j.ins = s /\ j.del = None
      BY <1>1, <1>7, <1>16
    <3>2. \A e \in entries' : e.jar = call'[s].target =>
            e.file = call'[s].op.file /\ e.name \in Stored(s)' /\ e.del = None
      <4>1. \A e \in entries : e.jar = call[s].target =>
              e.file = call[s].op.file /\ e.name \in Stored(s)' /\ e.del = None
        BY <1>2, <1>3, <1>14 DEF Progress
      <4> QED
        BY <4>1, <3>0, <1>1, <1>9, <1>14
    <3>3. \A n \in Stored(s)' : \E e \in entries' : e.jar = call'[s].target /\ e.name = n
      <4>1. \A n \in Stored(s) : \E e \in entries : e.jar = call[s].target /\ e.name = n
        BY <1>2, <1>3 DEF Progress
      <4> QED
        BY <4>1, <3>0, <1>1, <1>9, <1>14
    <3>4. /\ RangeOf(call'[s].todo) \subseteq RangeOf(EntriesOf[call'[s].op.file])
          /\ \A i, k \in DOMAIN call'[s].todo : call'[s].todo[i] = call'[s].todo[k] => i = k
      BY <1>5, <1>6, <1>11, <1>12
    <3>5. Progress(s)'
      BY <3>1, <3>2, <3>3, <3>4 DEF Progress, RangeOf
    <3>6. Owners(s)'
      BY <1>1, <1>2, <1>16 DEF Owners, MayRemove
    <3> QED
      BY <2>1, <2>2, <2>3, <3>5, <3>6
  <2>4. CASE t # s
    <3>1. Progress(t)'
      <4> SUFFICES ASSUME Installing(t)
                   PROVE  Progress(t)'
        BY <1>16 DEF Progress, Installing
      <4>1. call'[t] = call[t] /\ pc'[t] = pc[t] /\ Stored(t)' = Stored(t)
        BY <2>4, <1>15
      <4>2. \E j \in jars' : j.id = call[t].target /\ j.ins = t /\ j.del = None
        BY <2>0, <1>1 DEF Progress
      <4>3. \A e \in entries' : e.jar = call[t].target =>
              e.file = call[t].op.file /\ e.name \in Stored(t) /\ e.del = None
        <5>1. x.jar # call[t].target
          BY <2>4, <1>9, <1>19
        <5> QED
          BY <5>1, <2>0, <1>1 DEF Progress
      <4>4. \A n \in Stored(t) : \E e \in entries' : e.jar = call[t].target /\ e.name = n
        BY <2>0, <1>1 DEF Progress
      <4>5. pc[t] = "store" =>
              /\ RangeOf(call[t].todo) \subseteq RangeOf(EntriesOf[call[t].op.file])
              /\ \A i, k \in DOMAIN call[t].todo : call[t].todo[i] = call[t].todo[k] => i = k
        BY <2>0 DEF Progress
      <4> QED
        BY <4>1, <4>2, <4>3, <4>4, <4>5 DEF Progress
    <3>2. Owners(t)'
      BY <2>0, <1>1, <1>16 DEF Owners, MayRemove
    <3> QED
      BY <2>1, <2>2, <3>1, <3>2
  <2> QED
    BY <2>3, <2>4
<1> QED
  BY <1>20, <1>21, <1>22, <1>23, <1>24, <1>25, <1>26, <1>27 DEF IInv

-----------------------------------------------------------------------------
(* The theorems.                                                           *)

LEMMA InitKeeps ==
  Init => IInv
<1> SUFFICES ASSUME Init
             PROVE  IInv
  OBVIOUS
<1>1. /\ jars = {} /\ entries = {} /\ seq = 0
      /\ \A s \in Sessions : pc[s] = "idle" /\ call[s] = NoCall
  BY DEF Init
<1>2. TypeOK
  <2>1. 0 \in 0..MaxOps /\ 0 \in Nat
    BY RepositoryAssumption
  <2>2. call \in [Sessions -> Locs]
    BY NoCallType DEF Init
  <2> QED
    BY <1>1, <2>1, <2>2, TypesSplit DEF Init, Phases
<1>3. \A s \in Sessions : ~Installing(s) /\ ~Removing(s)
  BY <1>1 DEF Installing, Removing
<1>4. ASSUME NEW s \in Sessions
      PROVE  Savepoint(s) /\ Locals(s) /\ Progress(s) /\ Owners(s)
  BY <1>1, <1>3, NoCallType DEF Savepoint, Locals, Progress, Owners
<1>5. Keyed /\ Named1 /\ Named2 /\ Together /\ SeenFirst /\ Complete
  BY <1>1 DEF Keyed, Named1, Named2, Together, SeenFirst, Complete
<1> QED
  BY <1>2, <1>4, <1>5 DEF IInv

LEMMA StutterKeeps ==
  ASSUME IInv, UNCHANGED vars
  PROVE  IInv'
<1>1. /\ jars' = jars /\ entries' = entries /\ seq' = seq /\ pc' = pc /\ call' = call /\ ops' = ops
  BY DEF vars, tables
<1>2. TypeOK'
  BY <1>1, Zenon DEF IInv, TypeOK, Holders
<1>3. Keyed' /\ SeenFirst'
  BY <1>1, Zenon DEF IInv, Keyed, SeenFirst, Key
<1>4. Named1' /\ Named2'
  BY <1>1, ZenonT(60) DEF IInv, Named1, Named2, Follows, Id, Key
<1>5. Together'
  BY <1>1 DEF IInv, Together, Deleted, Removing, Id, Key
<1>6. Complete'
  BY <1>1, ZenonT(60) DEF IInv, Complete, AllOf, Installing
<1>7. ASSUME NEW s \in Sessions
      PROVE  (Savepoint(s) /\ Locals(s) /\ Progress(s) /\ Owners(s))'
  <2>0. Savepoint(s) /\ Locals(s) /\ Progress(s) /\ Owners(s)
    BY DEF IInv
  <2>1. Savepoint(s)'
    BY <2>0, <1>1 DEF Savepoint, Installing, Id, Key
  <2>2. Locals(s)'
    BY <2>0, <1>1 DEF Locals, Removing, Id, Key
  <2>3. Stored(s)' = Stored(s)
    BY <1>1, Zenon DEF Stored
  <2>4. Progress(s)'
    BY <2>0, <2>3, <1>1, Zenon DEF Progress, Installing
  <2>5. Owners(s)'
    BY <2>0, <1>1 DEF Owners, MayRemove
  <2> QED
    BY <2>1, <2>2, <2>4, <2>5
<1> QED
  BY <1>2, <1>3, <1>4, <1>5, <1>6, <1>7 DEF IInv

\* Whoever waits for others is at a statement on a row.
LEMMA WaitingIsBusy ==
  ASSUME NEW s \in Sessions, WaitsFor(s) # {}
  PROVE  pc[s] # "idle"
<1>1. Rows(s) # {}
  BY DEF WaitsFor
<1> QED
  BY <1>1, Zenon DEF Rows

LEMMA NextKeeps ==
  ASSUME IInv, [Next]_vars
  PROVE  IInv'
<1>1. CASE UNCHANGED vars
  BY <1>1, StutterKeeps
<1>2. CASE Next
  <2> PICK s \in Sessions :
        \/ Begin(s) \/ Commit(s) \/ Abort(s)
        \/ Check(s) \/ CheckFails(s) \/ OpenCursor(s)
        \/ FetchEntry(s) \/ DeleteEntry(s) \/ EntryIsGone(s)
        \/ FetchJar(s) \/ JarIsGone(s) \/ DeleteJar(s) \/ DeleteJarFails(s)
        \/ InsertJar(s) \/ InsertJarFails(s) \/ OpenFile(s) \/ ReadFails(s)
        \/ InsertEntry(s) \/ InsertEntryFails(s) \/ InstallEnds(s)
        \/ DeadlockFails(s)
    BY <1>2 DEF Next, Proceed
  <2>1. CASE Begin(s)
    BY <2>1, BeginKeeps
  <2>2. CASE Commit(s)
    BY <2>2, CommitKeeps
  <2>3. CASE Abort(s)
    BY <2>3, RollbackKeeps DEF Abort
  <2>4. CASE Check(s)
    BY <2>4, CheckKeeps
  <2>5. CASE CheckFails(s) \/ EntryIsGone(s) \/ DeleteJarFails(s)
    BY <2>5, RemovalFailsKeeps DEF CheckFails, EntryIsGone, DeleteJarFails
  <2>6. CASE OpenCursor(s)
    BY <2>6, OpenCursorKeeps
  <2>7. CASE FetchEntry(s) \/ FetchJar(s)
    BY <2>7, FetchKeeps
  <2>8. CASE DeleteEntry(s)
    BY <2>8, DeleteEntryKeeps
  <2>9. CASE JarIsGone(s)
    BY <2>9, JarIsGoneKeeps
  <2>10. CASE DeleteJar(s)
    BY <2>10, DeleteJarKeeps
  <2>11. CASE InsertJar(s)
    BY <2>11, InsertJarKeeps
  <2>12. CASE InsertJarFails(s) \/ ReadFails(s) \/ InsertEntryFails(s)
    BY <2>12, OperationFailsKeeps DEF InsertJarFails, ReadFails, InsertEntryFails
  <2>13. CASE OpenFile(s)
    BY <2>13, OpenFileKeeps
  <2>14. CASE InsertEntry(s)
    BY <2>14, InsertEntryKeeps
  <2>15. CASE InstallEnds(s)
    BY <2>15, InstallEndsKeeps
  <2>16. CASE DeadlockFails(s)
    <3>1. pc[s] # "idle"
      BY <2>16, WaitingIsBusy DEF DeadlockFails
    <3>2. RemovalFails(s) \/ OperationFails(s)
      BY <2>16 DEF DeadlockFails
    <3> QED
      BY <3>1, <3>2, RemovalFailsKeeps, OperationFailsKeeps
  <2> QED
    BY <2>1, <2>2, <2>3, <2>4, <2>5, <2>6, <2>7, <2>8, <2>9, <2>10, <2>11, <2>12, <2>13, <2>14,
       <2>15, <2>16
<1> QED
  BY <1>1, <1>2

LEMMA RepositoryInvariant ==
  Spec => []IInv
BY InitKeeps, NextKeeps, PTL DEF Spec

\* The tables and the locals keep their types, and no row is held by a session
\* that is in no transaction.
THEOREM RepositoryTypes ==
  Spec => []TypeOK
<1>1. IInv => TypeOK
  BY DEF IInv
<1> QED
  BY <1>1, RepositoryInvariant, PTL

\* An installation that has committed: nobody is at it, so all its entries are
\* there, and whoever has inserted or deleted one of them is at the JAR as well.
LEMMA WholeWhenCommitted ==
  IInv => JarsAreWhole
<1> SUFFICES ASSUME IInv
             PROVE  JarsAreWhole
  OBVIOUS
<1>1. /\ jars \subseteq JarRows /\ entries \subseteq EntryRows /\ None \notin Sessions
  BY TypesSplit, RepositoryAssumption DEF IInv
<1>2. \A e \in entries : \E j \in jars : j.id = e.jar /\ j.ins = e.ins
  BY DEF IInv, Keyed
<1>3. \A j, k \in jars : j.id = k.id => j = k
  BY DEF IInv, Keyed
<1>4. ASSUME NEW j \in Committed(jars)
      PROVE  Whole(j, Committed(entries))
  <2>1. j \in jars /\ j.ins = None
    BY DEF Committed
  <2>2. ASSUME NEW s \in Sessions, Installing(s), call[s].target = j.id
        PROVE  FALSE
    <3>1. PICK k \in jars : k.id = call[s].target /\ k.ins = s
      BY <2>2 DEF IInv, Progress
    <3> QED
      BY <3>1, <2>1, <2>2, <1>1, <1>3
  <2>3. PICK f \in Files : AllOf(f, j)
    BY <2>1, <2>2 DEF IInv, Complete
  <2>4. \A e \in entries : e.jar = j.id => e \in Committed(entries)
    BY <2>1, <1>2, <1>3 DEF Committed
  <2> DEFINE L == EntriesIn(j, Committed(entries))
  <2>5. \A p \in L : p \in AllEntries(f)
    <3>1. ASSUME NEW p \in L
          PROVE  p \in AllEntries(f)
      <4>1. PICK x \in Committed(entries) : x.jar = j.id /\ p = <<x.name, x.file>>
        BY <3>1 DEF EntriesIn
      <4>2. x.file = f /\ x.name \in RangeOf(EntriesOf[f])
        BY <4>1, <2>3 DEF AllOf, Committed
      <4> QED
        BY <4>1, <4>2 DEF AllEntries
    <3> QED
      BY <3>1
  <2>6. \A p \in AllEntries(f) : p \in L
    <3>1. ASSUME NEW p \in AllEntries(f)
          PROVE  p \in L
      <4>1. PICK n \in RangeOf(EntriesOf[f]) : p = <<n, f>>
        BY <3>1 DEF AllEntries
      <4>2. PICK x \in entries : x.jar = j.id /\ x.name = n
        BY <4>1, <2>3 DEF AllOf
      <4>3. x.file = f /\ x \in Committed(entries)
        BY <4>2, <2>3, <2>4 DEF AllOf
      <4> QED
        BY <4>1, <4>2, <4>3 DEF EntriesIn
    <3> QED
      BY <3>1
  <2>7. L = AllEntries(f)
    BY <2>5, <2>6
  <2> QED
    BY <2>7 DEF Whole
<1>5. ASSUME NEW e \in Committed(entries)
      PROVE  \E j \in Committed(jars) : j.id = e.jar
  BY <1>2 DEF Committed
<1> QED
  BY <1>4, <1>5 DEF JarsAreWhole

\* Whatever fails halfway, of however many operations and sessions, a committed
\* JAR has the entries of one file and no committed entry is without its JAR.
THEOREM RepositoryIsWhole ==
  Spec => []JarsAreWhole
BY WholeWhenCommitted, RepositoryInvariant, PTL
=============================================================================

----------------------------- MODULE JarRepository -----------------------------
(***************************************************************************)
(* The JARs of a database: the tables, the SQLJ package (install.sql) and  *)
(* the deployer (Deployer.java), which works on them from a process of its *)
(* own.                                                                    *)
(*                                                                         *)
(* Firebird is external: transactions are read committed and wait, as      *)
(* Jaybird starts them.  A row has the transaction that inserted it and    *)
(* the one that deleted it, or None once that has committed.  A deleted    *)
(* row stays visible to others until the commit; to delete it again, or to *)
(* insert its key, waits for the end of the other transaction.             *)
(*                                                                         *)
(* An operation is a savepoint: for the package a statement of the user,   *)
(* for the deployer the removal in a replacement, the only statement whose *)
(* failure it survives.                                                    *)
(***************************************************************************)
EXTENDS Integers, FiniteSets, Sequences

CONSTANTS
  Deployers,    \* processes that run Deployer.main
  Attachments,  \* attachments that call SQLJ
  UserOf,       \* CURRENT_USER of each of them
  SYSDBA,
  Names,        \* the names JARs are installed under
  Files,        \* the JAR files
  EntriesOf,    \* the names of the entries of each, in their order
  None,
  MaxId,        \* a bound of FB$JAVA$SEQ
  MaxOps        \* a bound of the operations of a transaction

Sessions == Deployers \cup Attachments
Users == {UserOf[s] : s \in Sessions}
EntryNames == UNION {{EntriesOf[f][i] : i \in DOMAIN EntriesOf[f]} : f \in Files}

ASSUME RepositoryAssumption ==
  /\ DOMAIN UserOf = Sessions
  /\ \A f \in Files : EntriesOf[f] \in Seq(EntryNames)
  /\ \A f \in Files : \A i, j \in DOMAIN EntriesOf[f] : EntriesOf[f][i] = EntriesOf[f][j] => i = j
  /\ None \notin Sessions \cup EntryNames
  /\ MaxId \in Nat /\ MaxOps \in Nat

Kinds == {"install", "update", "replace", "remove"}

VARIABLES
  jars,     \* FB$JAVA$JAR
  entries,  \* FB$JAVA$JAR_ENTRY
  seq,      \* FB$JAVA$SEQ
  pc,       \* where a session is: "idle" between two operations
  call,     \* its operation and its locals
  ops,      \* the number of operations of its transaction
  done      \* what they have left of each name

tables == <<jars, entries, seq>>
vars == <<tables, pc, call, ops, done>>

Operations == [kind : Kinds, name : Names, file : Files]

\* checked: the JAR whose owner verbose_remove_jar looked at; target: the JAR
\* whose entries are deleted, or the one that is installed; row: the row that is
\* being deleted; todo: the entries of the file that are not stored yet; added
\* and deleted: the rows since the savepoint.
NoCall ==
  [op |-> None, checked |-> 0, target |-> 0, row |-> None, todo |-> <<>>,
   added |-> {}, deleted |-> {}]

Init ==
  /\ jars = {} /\ entries = {} /\ seq = 0
  /\ pc = [s \in Sessions |-> "idle"]
  /\ call = [s \in Sessions |-> NoCall]
  /\ ops = [s \in Sessions |-> 0]
  /\ done = [s \in Sessions |-> {}]

-----------------------------------------------------------------------------
(* Rows and transactions.                                                  *)

Visible(s, r) == r.ins \in {None, s} /\ r.del # s

\* The other transactions that hold a row.
Holders(s, r) == {r.ins, r.del} \ {None, s}

Jar(id, name, owner, s) == [id |-> id, name |-> name, owner |-> owner, ins |-> s, del |-> None]
Entry(jar, name, file, s) == [jar |-> jar, name |-> name, file |-> file, ins |-> s, del |-> None]
Key(e) == <<e.jar, e.name>>
Id(j) == <<j.id, None>>

\* The JAR of the operation, as the session sees it.
Named(s) == {j \in jars : j.name = call[s].op.name /\ Visible(s, j)}

\* The rows whose unique key the session is about to insert.
RivalJars(s) == {j \in jars : j.name = call[s].op.name /\ j.del # s}

\* Mutant: the names of entries are unique within a JAR.
RivalEntriesOfJar(s) ==
  {e \in entries : e.jar = call[s].target /\ e.name = Head(call[s].todo) /\ e.del # s}

RivalEntries(s) == {e \in entries : e.name = Head(call[s].todo) /\ e.del # s}

\* The entries that keep the row of a JAR from being deleted.
References(s) == {e \in entries : <<e.jar, None>> = call[s].row /\ e.del # s}

Rows(s) ==
  CASE pc[s] = "entry" -> {e \in entries : Key(e) = call[s].row}
    [] pc[s] = "row"   -> {j \in jars : Id(j) = call[s].row} \cup References(s)
    [] pc[s] = "jar"   -> RivalJars(s)
    [] pc[s] = "store" /\ call[s].todo # <<>> -> RivalEntries(s)
    [] OTHER -> {}

\* The sessions that a session waits for.
WaitsFor(s) == UNION {Holders(s, r) : r \in Rows(s)}

\* A row that the session has deleted since the savepoint is there again.
Undeleted(s, r, key) == IF key \in call[s].deleted THEN [r EXCEPT !.del = None] ELSE r

\* The savepoint.
Undo(s) ==
  /\ jars' = {Undeleted(s, j, Id(j)) : j \in {k \in jars : Id(k) \notin call[s].added}}
  /\ entries' = {Undeleted(s, e, Key(e)) : e \in {k \in entries : Key(k) \notin call[s].added}}

Ended(s) ==
  /\ pc' = [pc EXCEPT ![s] = "idle"]
  /\ ops' = [ops EXCEPT ![s] = 0]
  /\ done' = [done EXCEPT ![s] = {}]
  /\ call' = [call EXCEPT ![s] = NoCall]
  /\ UNCHANGED seq

\* Mutant: a rollback takes back only what was inserted.
RollbackInserts(s) ==
  /\ jars' = {j \in jars : j.ins # s}
  /\ entries' = {e \in entries : e.ins # s}
  /\ Ended(s)

Rollback(s) ==
  /\ jars' = {IF r.del = s THEN [r EXCEPT !.del = None] ELSE r : r \in {j \in jars : j.ins # s}}
  /\ entries' = {IF r.del = s THEN [r EXCEPT !.del = None] ELSE r : r \in {e \in entries : e.ins # s}}
  /\ Ended(s)

CommittedRows(table, s) ==
  {IF r.ins = s THEN [r EXCEPT !.ins = None] ELSE r : r \in {t \in table : t.del # s}}

\* The user commits, or Deployer.main after its last option.
Commit(s) ==
  /\ pc[s] = "idle" /\ ops[s] > 0
  /\ jars' = CommittedRows(jars, s)
  /\ entries' = CommittedRows(entries, s)
  /\ Ended(s)

\* The user rolls back, or the process or the connection dies.
Abort(s) == ops[s] > 0 /\ Rollback(s)

-----------------------------------------------------------------------------
(* The operations.                                                         *)

\* The next option of the deployer, or the next call of a SQLJ procedure.
Begin(s) ==
  /\ pc[s] = "idle" /\ ops[s] < MaxOps
  /\ \E o \in Operations :
       /\ o.kind # "remove" => seq + Cardinality({t \in Sessions : pc[t] # "idle"}) < MaxId
       /\ o.kind = "remove" => o.file = CHOOSE f \in Files : TRUE
       /\ call' = [call EXCEPT ![s] = [NoCall EXCEPT !.op = o]]
       /\ pc' = [pc EXCEPT ![s] = IF o.kind = "install" THEN "jar" ELSE "check"]
  /\ ops' = [ops EXCEPT ![s] = @ + 1]
  /\ UNCHANGED <<tables, done>>

\* The locals of an operation end with it.
Finish(s) ==
  /\ pc' = [pc EXCEPT ![s] = "idle"]
  /\ call' = [call EXCEPT ![s] = NoCall]

\* Mutant: a failed operation of the package keeps what it did.
OperationFailsKept(s) ==
  IF s \in Deployers THEN Rollback(s)
  ELSE Finish(s) /\ UNCHANGED <<tables, ops, done>>

\* The statement of a user is undone; the deployer dies of its exception, and
\* the connection it closes rolls back.
OperationFails(s) ==
  IF s \in Deployers THEN Rollback(s)
  ELSE Undo(s) /\ Finish(s) /\ UNCHANGED <<seq, ops, done>>

\* Mutant: a replacement tries its removal again until it succeeds.
RemovalFailsRetrying(s) ==
  IF call[s].op.kind = "replace"
  THEN /\ Undo(s)
       /\ call' = [call EXCEPT ![s].added = {}, ![s].deleted = {}]
       /\ pc' = [pc EXCEPT ![s] = "check"]
       /\ UNCHANGED <<seq, ops, done>>
  ELSE OperationFails(s)

\* A replacement goes on whatever became of the removal.
RemovalFails(s) ==
  IF call[s].op.kind = "replace"
  THEN /\ Undo(s)
       /\ call' = [call EXCEPT ![s].added = {}, ![s].deleted = {}]
       /\ pc' = [pc EXCEPT ![s] = "jar"]
       /\ UNCHANGED <<seq, ops, done>>
  ELSE OperationFails(s)

\* What an operation leaves of its name.
Leaves(s, id, here) ==
  {d \in done[s] : d.name # call[s].op.name} \cup
  {[name |-> call[s].op.name, id |-> id, file |-> call[s].op.file, here |-> here]}

\* Mutant: the row of the JAR is deleted by the commit of the removal.
DeleteJarCommitting(s) ==
  /\ pc[s] = "row"
  /\ References(s) = {}
  /\ jars' = CommittedRows({j \in jars : Id(j) # call[s].row}, s)
  /\ entries' = CommittedRows(entries, s)
  /\ pc' = [pc EXCEPT ![s] = "jar"]
  /\ call[s].op.kind # "remove"
  /\ UNCHANGED <<seq, call, ops, done>>

RemovalEnds(s) ==
  IF call[s].op.kind = "remove"
  THEN /\ done' = [done EXCEPT ![s] = Leaves(s, call[s].checked, FALSE)]
       /\ Finish(s)
  ELSE pc' = [pc EXCEPT ![s] = "jar"] /\ UNCHANGED done

MayRemove(s, j) == j.owner = UserOf[s] \/ UserOf[s] = SYSDBA

\* verbose_remove_jar looks at the owner ...
Check(s) ==
  /\ pc[s] = "check"
  /\ \E j \in Named(s) : MayRemove(s, j) /\ call' = [call EXCEPT ![s].checked = j.id]
  /\ pc' = [pc EXCEPT ![s] = "cursor"]
  /\ UNCHANGED <<tables, ops, done>>

CheckFails(s) ==
  /\ pc[s] = "check"
  /\ \A j \in Named(s) : ~MayRemove(s, j)
  /\ RemovalFails(s)

\* ... and then, by name again, for the entries.
OpenCursor(s) ==
  /\ pc[s] = "cursor"
  /\ LET id == IF Named(s) = {} THEN 0 ELSE (CHOOSE j \in Named(s) : TRUE).id IN
     call' = [call EXCEPT ![s].target = id]
  /\ pc' = [pc EXCEPT ![s] = "entries"]
  /\ UNCHANGED <<tables, ops, done>>

Doomed(s) == {e \in entries : e.jar = call[s].target /\ Visible(s, e)}

FetchEntry(s) ==
  /\ pc[s] = "entries"
  /\ \E e \in Doomed(s) : call' = [call EXCEPT ![s].row = Key(e)]
  /\ pc' = [pc EXCEPT ![s] = "entry"]
  /\ UNCHANGED <<tables, ops, done>>

DeleteEntry(s) ==
  /\ pc[s] = "entry"
  /\ \E e \in entries :
       /\ Key(e) = call[s].row /\ Holders(s, e) = {}
       /\ entries' = (entries \ {e}) \cup {[e EXCEPT !.del = s]}
  /\ call' = [call EXCEPT ![s].deleted = @ \cup {call[s].row}]
  /\ pc' = [pc EXCEPT ![s] = "entries"]
  /\ UNCHANGED <<jars, seq, ops, done>>

\* Another transaction has deleted the row and committed.
EntryIsGone(s) ==
  /\ pc[s] = "entry"
  /\ \A e \in entries : Key(e) # call[s].row
  /\ RemovalFails(s)

\* A third time by name: the row of the JAR.
FetchJar(s) ==
  /\ pc[s] = "entries" /\ Doomed(s) = {}
  /\ \E j \in Named(s) : call' = [call EXCEPT ![s].row = Id(j)]
  /\ pc' = [pc EXCEPT ![s] = "row"]
  /\ UNCHANGED <<tables, ops, done>>

\* Nobody looks at the count of the rows deleted.
JarIsGone(s) ==
  /\ pc[s] = "entries" /\ Doomed(s) = {} /\ Named(s) = {}
  /\ RemovalEnds(s)
  /\ call[s].op.kind # "remove" => UNCHANGED call
  /\ UNCHANGED <<tables, ops>>

DeleteJar(s) ==
  /\ pc[s] = "row"
  /\ References(s) = {}
  /\ \E j \in jars :
       /\ Id(j) = call[s].row /\ Holders(s, j) = {}
       /\ jars' = (jars \ {j}) \cup {[j EXCEPT !.del = s]}
  /\ RemovalEnds(s)
  /\ call[s].op.kind # "remove" => call' = [call EXCEPT ![s].deleted = @ \cup {call[s].row}]
  /\ UNCHANGED <<entries, seq, ops>>

\* The row has gone, or the foreign key holds it.
DeleteJarFails(s) ==
  /\ pc[s] = "row"
  /\ \/ \A j \in jars : Id(j) # call[s].row
     \/ \E e \in References(s) : Holders(s, e) = {}
  /\ RemovalFails(s)

\* InstallJarResult: the row of the JAR, once nobody holds its name ...
InsertJar(s) ==
  /\ pc[s] = "jar"
  /\ RivalJars(s) = {}
  /\ seq' = seq + 1
  /\ jars' = jars \cup {Jar(seq', call[s].op.name, UserOf[s], s)}
  /\ call' = [call EXCEPT ![s].target = seq', ![s].added = @ \cup {<<seq', None>>}]
  /\ pc' = [pc EXCEPT ![s] = "file"]
  /\ UNCHANGED <<entries, ops, done>>

\* Mutant: the failure of the installation is ignored like that of the removal.
InsertJarFailsIgnored(s) ==
  /\ pc[s] = "jar"
  /\ \E j \in RivalJars(s) : Holders(s, j) = {}
  /\ done' = [done EXCEPT ![s] = Leaves(s, call[s].target, TRUE)]
  /\ Finish(s)
  /\ UNCHANGED <<tables, ops>>

InsertJarFails(s) ==
  /\ pc[s] = "jar"
  /\ \E j \in RivalJars(s) : Holders(s, j) = {}
  /\ OperationFails(s)

OpenFile(s) ==
  /\ pc[s] = "file"
  /\ call' = [call EXCEPT ![s].todo = EntriesOf[call[s].op.file]]
  /\ pc' = [pc EXCEPT ![s] = "store"]
  /\ UNCHANGED <<tables, ops, done>>

\* The URL cannot be opened, or what comes from it is no JAR.
ReadFails(s) ==
  /\ pc[s] \in {"file", "store"}
  /\ OperationFails(s)

\* ... and fetch() after fetch() its entries.
InsertEntry(s) ==
  /\ pc[s] = "store" /\ call[s].todo # <<>>
  /\ RivalEntries(s) = {}
  /\ LET e == Entry(call[s].target, Head(call[s].todo), call[s].op.file, s) IN
       /\ entries' = entries \cup {e}
       /\ call' = [call EXCEPT ![s].added = @ \cup {Key(e)}, ![s].todo = Tail(@)]
  /\ UNCHANGED <<jars, seq, pc, ops, done>>

InsertEntryFails(s) ==
  /\ pc[s] = "store" /\ call[s].todo # <<>>
  /\ \E e \in RivalEntries(s) : Holders(s, e) = {}
  /\ OperationFails(s)

InstallEnds(s) ==
  /\ pc[s] = "store" /\ call[s].todo = <<>>
  /\ done' = [done EXCEPT ![s] = Leaves(s, call[s].target, TRUE)]
  /\ Finish(s)
  /\ UNCHANGED <<tables, ops>>

\* Firebird ends a deadlock of two transactions with an error for one of them.
DeadlockFails(s) ==
  /\ \E t \in WaitsFor(s) : s \in WaitsFor(t)
  /\ IF pc[s] \in {"entry", "row"} THEN RemovalFails(s) ELSE OperationFails(s)

\* A step of an operation; that its file cannot be read is nobody's step.
Proceed(s) ==
  \/ Check(s) \/ CheckFails(s) \/ OpenCursor(s)
  \/ FetchEntry(s) \/ DeleteEntry(s) \/ EntryIsGone(s)
  \/ FetchJar(s) \/ JarIsGone(s) \/ DeleteJar(s) \/ DeleteJarFails(s)
  \/ InsertJar(s) \/ InsertJarFails(s) \/ OpenFile(s)
  \/ InsertEntry(s) \/ InsertEntryFails(s) \/ InstallEnds(s)
  \/ DeadlockFails(s)

Next == \E s \in Sessions : Begin(s) \/ Commit(s) \/ Abort(s) \/ ReadFails(s) \/ Proceed(s)

Spec == Init /\ [][Next]_vars

\* The scheduler, and users that end their transactions.
FairSpec == Spec /\ \A s \in Sessions : WF_vars(Proceed(s)) /\ WF_vars(Commit(s))

-----------------------------------------------------------------------------
(* Properties.                                                             *)

Phases == {"idle", "check", "cursor", "entries", "entry", "row", "jar", "file", "store"}
Ids == Nat \ {0}
Keys == Ids \X (EntryNames \cup {None})

JarRows == [id : Ids, name : Names, owner : Users, ins : Sessions \cup {None}, del : Sessions \cup {None}]
EntryRows == [jar : Ids, name : EntryNames, file : Files,
              ins : Sessions \cup {None}, del : Sessions \cup {None}]

\* Types, and no row is held by a session without a transaction.
TypeOK ==
  /\ jars \subseteq JarRows /\ entries \subseteq EntryRows
  /\ seq \in Nat
  /\ pc \in [Sessions -> Phases] /\ ops \in [Sessions -> 0..MaxOps]
  /\ call \in [Sessions -> [op : Operations \cup {None}, checked : Nat, target : Nat,
                           row : Keys \cup {None}, todo : Seq(EntryNames),
                           added : SUBSET Keys, deleted : SUBSET Keys]]
  /\ \A r \in jars \cup entries : \A s \in Holders(None, r) : ops[s] > 0

\* What everyone sees, class loaders included.
Committed(table) == {r \in table : r.ins = None}

RangeOf(list) == {list[i] : i \in DOMAIN list}

\* The names of the entries of a JAR, and the files they come from.
EntriesIn(r, e) == {<<x.name, x.file>> : x \in {y \in e : y.jar = r.id}}
AllEntries(f) == RangeOf(EntriesOf[f]) \X {f}

\* A row of a JAR comes with all the entries of one file and nothing else.
Whole(r, e) == \E f \in Files : EntriesIn(r, e) = AllEntries(f)

\* install.sql:128, Deployer.java:402-427: the committed JARs are whole, and no
\* committed entry is without its JAR, whatever failed halfway.
JarsAreWhole ==
  /\ \A j \in Committed(jars) : Whole(j, Committed(entries))
  /\ \A e \in Committed(entries) : \E j \in Committed(jars) : j.id = e.jar

\* install.sql:116-117, "Cannot remove a JAR from another user": the row of a JAR
\* is deleted only for its owner or SYSDBA.
RemovalsAreAuthorized ==
  [][\A s \in Sessions : \A j \in jars :
       j.del # s /\ [j EXCEPT !.del = s] \in jars' =>
         j.owner = UserOf[s] \/ UserOf[s] = SYSDBA]_vars

\* Deployer.java:194: with no new operations every operation ends, whoever waits for
\* whom: a wait ends with the transaction that holds the row, or as a deadlock.
OperationsEnd ==
  <>[][\A s \in Sessions : ~Begin(s)]_vars => <>[](\A s \in Sessions : pc[s] = "idle")

\* README.md:170-178: when a transaction commits, the JARs its last operations
\* installed are there as a whole, and those they removed are not.
CommitsWhatWasAsked ==
  [][\A s \in Sessions : Commit(s) =>
       \A d \in done[s] :
         IF d.here
         THEN \E j \in Committed(jars') :
                /\ j.id = d.id /\ j.name = d.name /\ j.owner = UserOf[s]
                /\ {x.name : x \in {y \in Committed(entries') : y.jar = j.id}} = RangeOf(EntriesOf[d.file])
         ELSE \A j \in Committed(jars') : j.id # d.id]_vars

Installed(n) == \E j \in Committed(jars) : j.name = n

\* README.md:174-178: whoever looks for a JAR that is updated or replaced finds the
\* old one or the new one; it is away only when a transaction has removed it.
UpdatesAreAtomic ==
  [][\A n \in Names : Installed(n) /\ ~Installed(n)' =>
       \E s \in Sessions : \E d \in done[s] : d.name = n /\ ~d.here /\ Commit(s)]_vars

\* The JAR of a name, as JarStore has it.
FileWith(content) == CHOOSE f \in Files : content = AllEntries(f)

StoreOf(n) ==
  LET named == {j \in Committed(jars) : j.name = n}
      j == CHOOSE k \in named : TRUE
  IN IF named = {} THEN None
     ELSE [owner |-> j.owner,
           file |-> IF named = {j} /\ Whole(j, Committed(entries))
                    THEN FileWith(EntriesIn(j, Committed(entries))) ELSE None]

Store == INSTANCE JarStore WITH
  store <- [n \in Names |-> StoreOf(n)],
  Contents <- [f \in Files |-> RangeOf(EntriesOf[f])]

\* Every commit is one change of JarStore: readers never see a JAR in parts.
ImplementsJarStore == Store!Spec
=============================================================================

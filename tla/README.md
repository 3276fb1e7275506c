# FB/Java in TLA+

FB/Java is an external engine of the Firebird server: it runs functions,
procedures and triggers written in Java inside the server process. This
directory models the parts of it whose correctness depends on the order of
things or on corner cases: how the plugin boots, which class loader a database
gets and for how long, what a thread carries through nested calls of routines,
what becomes of entry points and values on their way between SQL and Java, and
how JARs come to be in a database. The models are checked with TLC, and most of
the safety results are proved with TLAPS for every value of the constants.

Source paths below are relative to
`src/src/fbjava-impl/src/main/java/org/firebirdsql/fbjava/impl/` unless they
start with `src/`.

## The system

The native library (`fbjava.cpp`) loads a JVM in the server and calls
`Main.initialize`, which registers `PluginFactory`. The server then drives the
plugin through interfaces generated from `FirebirdInterface.idl`:

| component | state | operations | hard behaviour | what makes it correct |
| --- | --- | --- | --- | --- |
| **External engine life cycle** - `ExternalEngine.java`, `DbClassLoader.java`, `JnaUtil.java` | static `sharedDataMap` (database -> `SharedData`), per engine `refCounter` and `sharedData`, per `SharedData` an `attachmentCounter` and a `DbClassLoader` with an embedded connection, the set of pinned objects | `create`, `addRef`, `release`, `open`, `openAttachment`, `closeAttachment` | threads of many attachments interleave; every call to the driver may fail half-way | one open class loader per database in use, none otherwise |
| **Security policy: open databases** - `DbPolicy.java` 52-115 | `count`, `securityDb`, `stmt` under the monitor of `securityDatabase` | `databaseOpened`, `databaseClosed`, called by the class loader | first and last database meet; the connection is made inside the monitor, inside `computeIfAbsent` | the security database is connected while any database is in use |
| **Security policy: subjects, permissions** - `DbPolicy.java` 117-262 | `userSubjects` under two monitors | `getUserSubject`, `getPermissions`, `implies` | a query on the caller's attachment while the monitors are held | a routine runs as its caller |
| **Call contexts** - `InternalContext.java`, `InternalFBConnection.java`, `InternalDatabaseFactory.java` | `ThreadLocal` with the current context; per context references to attachment and transaction and a connection made on demand | `create`, `set`, `getConnection`, `close` | calls nest through the SQL that routines run | the current context is that of the current call; references balance |
| **Invocation and result sets** - `ExternalFunction`, `ExternalProcedure`, `ExternalTrigger`, `ExternalResultSetWrapper`, `Routine.run`, `ExternalEngine.runInClassLoader` | the Java stack; a result set keeps the context of its procedure | `execute`, `open`, `fetch`, `dispose` | a context that outlives its call and changes threads; exceptions at every level | whatever a call changed in its thread is put back |
| **Entry points and metadata** - `ExternalEngine.getRoutine` and its parser, `Routine.setupParameters`, `ValuesMetadataImpl` | none | `makeFunction`, `makeProcedure`, `makeTrigger` | hand-written scanner | accepts the documented signatures and no others |
| **Values and conversions** - the table of `ExternalEngine.java` 144-1226, `Routine.getFromMessage`/`putInMessage`, `ValuesImpl` | message buffers | one pair of conversions per Java type | narrowing, scale, lengths, time zones | what fits comes back unchanged, what does not is refused |
| **Plugin boot** - `fbjava.cpp`, `Main.java`, `PluginFactory.java` | the JVM, JNI references and exceptions, `securityInitialized`, the installed policy | `init`, `initialize`, `createPlugin` | some twenty JNI calls that may fail; threads that lock a `Boolean` the block replaces | no failure goes unseen; no engine before the security manager |
| **JAR repository** - `install.sql`, `Deployer.java` | tables of JARs and entries | install, remove, update, replace, read, list | result sets that write, swallowed errors, concurrent transactions, lookups repeated by name | a JAR is there whole or not at all |
| **Class loading from the database** - `BlobConnection.java`, `DbClassLoader.getResource` | the loader's connection | `connect`, `getInputStream` | uses the thread's context class loader | reads the classes of the right database |

Calls go from the server to the plugin on the server's threads; the plugin has
no threads of its own. Shared state is static: the map, the policy, the subject
cache, the pinned objects. The embedded connections go back into the server.

## Modules

| module | what it is |
| --- | --- |
| `EngineLifecycle` | the life cycle of engines, shared data, class loaders and the policy's connection |
| `ClassSharing` | what `src/README.md:126-135` promises: an abstract specification |
| `CallContext` | the calls nested in each thread, their contexts, result sets and subjects |
| `PluginBoot` | the native entry point, `Main.initialize` and `createPlugin` |
| `EntryPoint` | the parser of `ExternalEngine.getRoutine` as functions, and the documented grammar |
| `Conversions` | the table of data types of `ExternalEngine` as functions |
| `Routine` | a routine is made from its entry point and called; uses the two above |
| `JarRepository` | the tables of JARs, the SQLJ package and the deployer |
| `JarStore` | what a reader of the repository may see: an abstract specification |
| `MC...` | values of the constants for TLC |
| `EngineLifecycleProofs`, `PolicyProofs` | theorems about `EngineLifecycle`; the second extends the first |
| `CallContextProofs`, `PluginBootProofs` | theorems about `CallContext` and `PluginBoot` |
| `EntryPointProofs`, `RoutineProofs` | theorems about `EntryPoint` and `Routine`; the second extends the first |
| `JarRepositoryProofs`, `JarStoreProofs` | theorems about `JarRepository`; the second extends the first and has the refinement |

Names of states and operations are those of the source. Definitions marked
`Mutant` are plausible bugs; each is substituted for the definition it names to
see that a property notices.

### EngineLifecycle

Each attachment has a thread of the server with a `pc`. `CreatePlugin` is
`PluginFactory.createPlugin` and `ExternalEngine.create`; `Join` is `addRef` by
another attachment to the same database, as the IDL allows. `open` is split
where other threads can come between: `OpenHit` and `OpenMiss` (the lookup of
`computeIfAbsent`, which holds the bin of the key until the mapping function
returns: `Computing`), `Connect` (the connection in the constructor of
`DbClassLoader`), `DatabaseOpened` or `FirstDatabaseOpened` followed by
`SecurityOpened` (the monitor is kept while the driver connects), and `Publish`,
the return of the mapping function. `OpenAttachment` increments the counter.
`CloseAttachment` decrements it, and the last one goes through `DatabaseClosed`
or `LastDatabaseClosed`/`SecurityClosed`, `CloseConnection` and
`RemoveSharedData`. `Release` drops the reference to the engine. Every driver
call has a failure action (`ConnectFails`, `SecurityOpenFails`,
`SecurityCloseFails`, `CloseConnectionFails`), enabled by `Faults`, which leaves
behind exactly what the exception leaves behind.

`Orderly` states an assumption about the server: it does not open a database
while it closes it. The code relies on it and does not enforce it.

### CallContext

`stack[t]` holds the calls in progress in thread `t`; a frame records what the
Java locals record: the context, `oldContext`, `oldClassLoader`, the subject.
`Invoke` is `execute` or `open` up to the subject lookup (`InternalContext.setup`,
`InternalContext.set`, the class loader of `runInClassLoader0`: no other thread
can see anything between them). `SubjectHit`, `SubjectMiss`, `RoleRead` are
`getUserSubject`; `CallEnds` and `ResultSetReturned` the two ways out of a
routine; `ContextClosed` is `InternalContext.close`, which for `dispose` happens
before the `ThreadLocal` is restored and for the others after. `Fetch` and
`Dispose` enter the context of a result set, from any thread. While a routine
runs, or while a connection is closed (which frees its statements, and their
cursors), the thread may be called again: calls nest up to `MaxDepth`.
`GetConnection` makes a connection from the context in the `ThreadLocal`, as the
constructor of `InternalFBConnection` does.

Failures: `getTransaction` (the reference to the attachment taken just before is
lost), the role query, the close of a connection (both releases are skipped).
What user code throws, and what conversions throw, ends in `CallEnds`.

### PluginBoot

`boot` follows the one thread of the entry point through `init()`: `ReadConfig`,
`FindJvmLibrary`, `ObtainJvm` (the JVM of the process or a new one),
`AttachThread`, then `JniCall` for each of nineteen sites; `Makes` lists the local
references each site leaves, and sites 7 to 9 repeat for every JAR. A JNI call that
fails leaves a Java exception `pending`, which only `CheckJavaException` sees: it
prints and clears it. `Prepare` and `Register` are `Main.initialize`; once the
factory is registered, threads may run `createPlugin` while the entry point is still
on its way out. `GetConfig`, `FindEntry`, `ReadEntry` are its configuration objects
(`held`); `ReadEntryFails` is an entry that is not there, which throws where its value
is asked for and again in the inner finally block, and `ReleaseConfig` the outer finally block, which
either goes on or throws. `EvaluateMonitor` reads the `Boolean` to lock and `EnterMonitor` locks that
object, which need not be the current one; then the check of the flag, `SetPolicy`,
`SetSecurityManager` or `SecurityRefused`, `SetFlag`, `ExitMonitor`, `CreateEngine`.

### EntryPoint, Conversions, Routine

A text is a sequence of tokens: an identifier or one punctuation mark. That is
enough to tell the branches of the parser apart, which reads single characters only
where it looks for punctuation; the character it swallows at the end
(`ExternalEngine.java:1532`) is a token of one character (`OneChar`). `Parse` is
`getRoutine` up to the lookup of the method; `Specifications` is the grammar that
`src/README.md` documents, written without looking at the parser.

A value is a number whose meaning depends on its type: hundredths for decimals,
ticks for times, a length for a text. `FromMessage` and `ToMessage` are the
conversions; `Narrow` wraps like `shortValue()`, `HalfUp` is `RoundingMode.HALF_UP`,
`UtcOf` and `LocalOf` are `java.util.Calendar` in a zone whose clocks change. A tick
of Firebird is finer than Java's millisecond, so the last digit of a time is lost. Days
are numbers in a row, as they are for a `Calendar` but for the change to the Gregorian
calendar in October 1582, which is outside the model. `Content` is the one `read()` of a
blob: it gets the blob whole where its size is in `ReadAtOnce`, and otherwise in
part, with zeros for the rest.

`Routine` parses (`Read`), makes or rejects the routine (`Make`, `Reject`,
`RejectReturnType`), and calls it: `Call` converts the message to arguments, `Run` is
the method, which may leave any object in its results, `Prepare` and `Write` are the
two phases of `putInMessage`, field by field, each of which may throw; `Fetch` and
`NoMoreRows` are those of a result set.

### JarRepository

A session is a process of the deployer or an attachment that calls `SQLJ`. Rows
carry the transaction that inserted and the one that deleted them; Firebird's read
committed transactions, their waits, savepoints and deadlocks are external.
`Check`, `OpenCursor` and `FetchJar` are the three lookups by name of
`verbose_remove_jar`, with other sessions in between; `FetchEntry`, `DeleteEntry`,
`DeleteJar` its deletions, `InsertJar`, `OpenFile`, `InsertEntry`, `InstallEnds` the
result set `InstallJarResult`. `OperationFails` rolls the deployer's transaction back,
or the statement of a user; `RemovalFails` is what `replace_jar` swallows. `Abort` is a
crash at any step. `FairSpec` lets operations run on and users end their transactions.
`JarStore` says what a committed reader may see: each change is
one transaction's removals and installations at once.

## Runs

| run | bounds | what it shows |
| --- | --- | --- |
| `orderly` | 2 databases, 3 attachments, 3 engines, 3 loaders, no failures, fairness | the code implements `ClassSharing`; classes shared, used or unloaded; security database ready; nothing left when idle |
| `any_order` | 2 databases, 2 attachments, server without discipline, every failure, fairness | types, the counter and the pinned engines are right whatever happens; no call waits for ever |
| `calls` | 2 threads, depth 2, 2 databases, a shared result set | thread state follows the calls; every context has one holder; only result sets keep references; connections stay in their transaction, in nested calls and role queries |
| `calls_live` | 2 threads, depth 1, 2 users, every failure, fairness | references cover the contexts; a routine runs as its user; calls return |
| `boot` | 3 threads, 2 JARs, 2 policies, files with 0 to 2 options for JNA, every failure, fairness | no failure goes unseen; few local references; the factory is ready; engines are guarded; calls return |
| `routine` | 15 000 call specifications, then every call of what was made with NULL and boundary values; blobs that one `read()` gets whole | accepted as documented; untouched fields kept; arguments are inputs; results written; texts fit |
| `repository` | a user's deployer and an attachment of `SYSDBA`, 2 names, 2 files with a common entry, 2 operations in a transaction, 3 ids, fairness | JARs whole, commits do what was asked, updates atomic, operations end; implements `JarStore` |

Bounds. Two databases are needed for the first/last database of the policy, a
third loader for one that is replaced while the old one is still referenced;
three attachments are needed to open, close and reopen one database
with another one open, or to share one between two engines. In `CallContext` a context exists per frame, per result
set and for one role query (the monitor allows no second), so 6 contexts never
run out with two threads of depth 2 and one result set. `CountBound` stops
arrivals when failures have moved `count` away from the number of databases, and
`RefBound` stops failures once that many references leaked; both only cut
repetitions of the same failure. In `boot` a second policy needs one refused
security manager, and two JARs take the loop through its body twice. In `routine`
the texts are what the manual shows, plain and with blanks, and everything that
differs from them by one token (for the shortest function by two); the zone is west
of UTC and the clocks change on days 5 and 10 of the dates used, on instants
44 and 83, so that dates before 1970, on a change and around it all occur; a SMALLINT has 4 bits so that decimals
overflow it. In `repository` two operations make a removal and an installation in
one transaction, the two files share an entry so that names clash within and
between JARs, and three values of the sequence let a name get a new JAR while
another session is at work on the old one (`MaxId` stops installations only).
Threads, contexts and result sets are symmetric
where a run has no temporal property. Deadlock is checked except in
`any_order`, where the bound on the count can stop all arrivals for good, in `boot`,
where a failed boot ends the plugin, and in `routine`, where a call ends the run.

Runs that end in a violation record disagreements between code and documents:

| run | what the code does |
| --- | --- |
| `late_open` | an attachment counts itself in on a class loader that is being closed (needs a server without the discipline) |
| `security_unavailable` | after a failed connection to the security database it is never tried again |
| `connection_close_fails` | a closed class loader stays in the map and is used again |
| `two_roles` | a user's second attachment runs with the role of the first |
| `stale_removal` | the owner of a JAR that `SYSDBA` replaces between the lookups of a removal deletes the JAR of `SYSDBA` |

`stale_removal` depends on read committed transactions in which each statement sees
what has been committed when it starts, as those of Firebird 3 do; the three lookups of
`verbose_remove_jar` are three statements.

Known cases that a property excepts, and so does not catch:

- `UntouchedFieldsAreKept` and `ArgumentsAreInputs` compare times up to Java's
  milliseconds, and except timestamps of a day on which some time is skipped or
  repeated (not `Settled`), which can move by the change;
- `ResultsAreWritten` is about decimals in the range of their field: others are
  narrowed without a check (`ExternalEngine.java:923`, with a `FIXME` of its own);
- `AcceptedAsDocumented` excepts one character at the end of an entry point
  (`ExternalEngine.java:1532`);
- `FirebirdIsInLibraryPath` excepts files with two `jna.library.path` options
  (`src/src/native/fbjava/fbjava.cpp:420`);
- `RefsCoverContexts` is an inequality: the references lost when `getTransaction` or
  `connection.close()` fails stay within it. Without these two failures nothing is lost
  (`OnlyResultSetsKeepRefs`).

Known cases that the constants of a run assume away; the change of one constant shows
each of them violated: with `Faults = {"secClose"}` in `orderly.cfg` the statement or the
connection of the security database survives the last one (`SecurityDbAssertion`,
`NothingLeftWhenIdle`); with `ReadAtOnce = {0}` in `routine.cfg` a routine gets a blob
that ends in zeros (`ArgumentsAreInputs`, `ExternalEngine.java:373`).

### Fairness

Weak fairness only, and of nothing but what is in progress: `Proceed` in
`EngineLifecycle` and `CallContext`, a thread inside a call; `BootStep` and
`FactoryStep` in `PluginBoot`, the entry point and a thread inside `createPlugin`. It
runs on, which the operating system's scheduler gives; user routines come to an end.
Nothing is assumed of arrivals, closes or calls. The monitors of the JVM and the bins of
`ConcurrentHashMap` are not fair, so a thread may be overtaken for ever by new ones:
each `CallsReturn` is stated for behaviours in which new arrivals (new calls) stop.

`JarRepository` adds weak fairness of `Commit`: users end the transactions they have
begun, without which whoever waits for a row would wait for ever. Nothing is assumed of
failures, but for one: a wait in a circle ends as Firebird detects it (`DeadlockFails`,
external, part of `Proceed`), and without that step TLC finds `OperationsEnd` violated.
That property too is stated for behaviours in which new operations stop.

## Proofs

`EngineLifecycleProofs`, from `ConstantsAssumption` alone:

- `TypeCorrect`: `Spec => []TypeOK`;
- `EnginePinned`: `[]PinnedExactlyInUse`; the invariant `Basic` adds to the types
  that `refCounter` is the number of attachments that use the engine;
- `CounterCorrect`: `[]CounterExact`; `Counted` adds that a loader under
  construction has no holder (`OpenAlone`).

With `Disciplined`, that is `Orderly` and no failure of `connection.close()`:

- `StaticsShared`: `[]SharedStatics`. The property is not inductive: that the
  counter reaches zero only with the last attachment needs `Counted`, that
  nobody else opens meanwhile needs the server's discipline as an invariant about
  phases, and that a new entry is not published over a live one needs the bin of
  the map to exclude the others. `OrderInv` collects these as eight named
  conjuncts, checked with TLC before they were proved;
- `RefinesClassSharing`: every step is a step of `ClassSharing` or stutters.

`late_open` and `connection_close_fails` show that both halves of `Disciplined`
are needed.

`CallContextProofs`, from `ConstantsAssumption` alone, for any depth of the calls
and any faults:

- `CallTypesCorrect`: `[]TypeOK`, and `OneHolder`: `[]ContextsHaveOneHolder`. Types
  are not inductive alone: a fetch takes the attachment of its context, which is
  there only if no other call closed the context. `Inductive` adds `Owned`: every
  call has the context it opened (`Held`), no two calls share one (`Distinct`), a
  result set shares its own only with the call made on it (`Kept`), and the context
  of a role query belongs to the last call of the thread in the monitor (`Queries`);
- `ThreadState`: `[]ThreadFollowsCalls`. `Chained` says what each frame of the stack
  remembers of the one below it, and what the last one left in the thread, in every
  phase of a call; pushing, changing and popping a frame keep it;
- `OwnTransaction`: `[]ConnectionUsesOwnTransaction`, from `Chained`;
- `RunsAsCaller`: `[]SubjectIsCallers`; a `Subject` kept or used is the user's;
- `RefsCovered`: `[]RefsCoverContexts`, by counting the contexts that are open, one
  more or one less with each step.

The lemmas about `Append` and `Front` come first; the steps are grouped by what
they do to a stack. `Owned`, `Chained`, `Subjects` and `TransactionsOK` were
checked with TLC before they were proved.

In its last section, with `Clean` (`Faults` has at most the role query: the code does
lose references when `getTransaction` or `connection.close()` fails):

- `RefsAreReturned`: `[]OnlyResultSetsKeepRefs`. `Exact` turns the inequality of
  `RefsCoverContexts` into an equation, and `NoOrphan` says that an open context has a
  holder: a frame, a result set or a role query.

`PolicyProofs`, on top of `EngineLifecycleProofs`:

- `RemovesClosed`: `RemovesOnlyClosedData`, with `Disciplined`;
- `PolicyIsReady`, `AssertionHolds`, `NothingLeft`: `[]PolicyReady`,
  `[]SecurityDbAssertion`, `[]NothingLeftWhenIdle`, with `Reliable`: the server's
  discipline, and no failure but that of the loader's connection. None of them is
  inductive: `PolicyInv` adds that `count` is the number of databases between
  `databaseOpened` and `databaseClosed` (`CountInv`, by cardinality), what the
  security connection is in each phase of the monitor, and that an entry of the map
  without users belongs to a thread that is on its way to remove it.
  `security_unavailable` and `late_open` show that the assumptions are needed.

`PluginBootProofs`, from `ConstantsAssumption` alone, for any threads, JARs and files:

- `BootTypesCorrect`, `NoSilentFailure`, `LocalRefsAreFew`, `FactoryReady`,
  `ConfigReleased`, `EnginesGuarded`, `PolicyKept`. `BootInv` gives the local
  references at each site of the JNI, which makes the loop over the JARs neutral;
  `FactoryInv` says that whoever is past the check of the flag has the monitor of
  `Boolean.FALSE`, so that the change of the lock cannot let two threads in.
- `FirebirdInLibraryPath`: `[]FirebirdIsInLibraryPath`. `OptionsTold` is about the
  function from the file and the environment to the options of the JVM; its fold over
  the lines needs that the last path set is the first where there is only one
  (`FirstLine`), and `ArgsInv` carries it to the JVM's creation.

`RoutineProofs`, from the assumptions of `EntryPoint`, `Conversions` and `Routine`:

- `TextsAlwaysFit`: `[]TextsFit`, and `EveryResultIsWritten`: `[]ResultsAreWritten`.
  `IInv` says which fields of the message have been written (`WrittenSoFar`), that
  the classes are those `setupConversion` accepts (`Accepted`), that the arguments are
  those of the message (`Taken`) and that the fields of a trigger are `Object`s
  (`FieldsAreObjects`). `HalfUpIsNearest` and `HalfUpStaysInRange` are the
  arithmetic: rounding is to the nearest multiple, and the narrowing is the identity
  on what is in range.
- `ArgumentsComeFromTheMessage`: `[]ArgumentsAreInputs`, and
  `UntouchedFieldsKeepTheirValues`: `[]UntouchedFieldsAreKept`, for any zone, with
  `OrdinaryZone`; the first also assumes that one `read()` gets every blob whole
  (`ReadAtOnce`). `CellComesBack` says that each of the converters is undone by its
  other half, whatever type `setupConversion` made of the field; below it are
  `DecimalComesBack`, `DateComesBack` (on any day), `TimeComesBack` and
  `TimestampComesBack` (on a settled day), which rest on division with remainder.
- `TypeCorrect`: `[]TypeOK`. That the arrays have the sizes of the declaration needs
  that the parser returns a sequence of classes.
- `EntryPointsAreDocumented`: `[]AcceptedAsDocumented`, both ways. `AsRead` says what
  became of the entry point in each phase; `ParseReads` and `ParseAccepts`, below, are
  about the parser, and `FitsInParts` turns the table of types of the manual into what
  `setupConversion` allows for the inputs and the outputs.

`EntryPointProofs` is about the parser and the grammar, for any identifiers, types,
texts and declarations, from `IdentifiersAssumption` (punctuation is no identifier) and
`TypesAssumption` (the names are Java names, and a name has one class):

- `Brackets`, `Parameters`, `Compact` and `Lists` are recursive functions:
  `RecursionExists` shows that a function exists that satisfies such an equation, by the
  well-ordering of the natural numbers, if every step goes to a smaller rank (the loops
  never go back in the text, `SkipType`); `RankInduction` and `DownInduction` are what
  follows for the one that `CHOOSE` takes.
- `ParseReads`: a text that is accepted is a call specification of the names and types
  that were read, blanks aside, perhaps with one more character at the end. `Reads` says
  that the parser passed the tokens `w` between two positions; it composes (`ReadsOn`),
  from a name (`NameReads`) over brackets (`BracketsRead`), a type (`DataTypeReads`) and
  the list (`ParametersRead`, by induction over position and count) to the whole.
- `ParseAccepts`: a text whose tokens are a call specification, with no blank at a dot,
  is accepted with just those names and types. `Rest` says what tokens are still to
  come; `NameAccept`, `BracketsAccept` (by induction over the pairs), `DataTypeAccept`
  and `ParametersAccept` (from the last parameter down) follow the parser over them,
  `HeadAccept` and `NamesAccept` find the first parenthesis and the last dot before it.

`OrdinaryZone` is a hypothesis about the zone: the clocks do not change on 1 January
1970, which is the day that a time is put on and the base of a timestamp, and where
that instant was in the last hour of a day no change skips that hour. With a zone that
breaks either of them TLC finds a violation of `ArgumentsAreInputs`: with the second, a
date comes back as the next day. The zone of `routine` satisfies it.

`JarRepositoryProofs`, from `RepositoryAssumption` alone, for any sessions, names,
files, operations in a transaction and failures:

- `RepositoryTypes`: `[]TypeOK`, and `RepositoryIsWhole`: `[]JarsAreWhole`. That the committed JARs are whole is far
  from inductive, because a rollback may go to the start of the transaction or to the
  savepoint of the operation. `IInv` therefore speaks of all rows, committed or not:
  `Keyed` (ids and keys are unique, an entry belongs to the transaction of its JAR),
  `Named1` and `Named2` (two rows have one name only while the transaction of the new
  one has deleted the old one, and go together if the operation is undone), `Together`
  (an entry is deleted with its JAR, but for a removal in progress), `Savepoint` (what
  the operation has added and deleted), `Locals` and `Progress` (what its locals say of
  the rows), `Complete` (a JAR has the entries of one file unless somebody is installing
  it) and `Owners`. `Reverted` handles both kinds of rollback at once.

`JarStoreProofs` extends it with what operations leave of a name (`done`). `SInv` adds
for every session, as a rollback to its savepoint would restore it, that what was
installed last is there (`IsHere`), what was removed last is deleted (`IsGone`),
whatever else was deleted has been replaced (`Accounted`), and that the JAR a removal has
looked at is the one it is removing, or has gone (`LookedAt`). A step is split into what its
session does to its own rows and what others see of it (`Evolves`, `Changes`):

- `RepositoryAuthorized`: `RemovalsAreAuthorized`, the property that `stale_removal` finds
  violated, with `DistinctUsers`: the sessions are of different users, none of them
  `SYSDBA`. `AInv` adds that whatever JAR is being deleted is its owner's
  (`OwnersDelete`), so nobody else can take its name away, and that the JAR a removal
  looked at therefore stays until it is deleted (`CheckedStays`);
- `RepositoryUpdates`: `UpdatesAreAtomic`, `RepositoryCommits`: `CommitsWhatWasAsked`;
- `RepositoryImplementsStore`: `Spec => ImplementsJarStore`. A step that is no commit
  leaves the committed rows as they are; a commit is `Deploy` for the session's user.

All the invariants were checked with TLC before they were proved.

Every invariant that a passing run checks is a theorem. Only model-checked are the liveness
properties and the fairness part of `ImplementsClassSharing`, which are out of the
prover's reach: `ENABLED` and fairness.

## Not modelled

- `src/src/native/fbjava/include` (headers of Firebird and Boost) and
  `FbClientLibrary.java` are vendored or generated, and most of the C and C++ of the
  repository by size; of its own native code, `fbjava.cpp`, the whole of `init()` is
  modelled.
- `FbException` formats a stack trace; `ValuesImpl` and `ValuesMetadataImpl` are
  windows on arrays; the helpers and the public interfaces have no behaviour.
- `int`, `long` and `float` are the code of `short` and `double` at other widths;
  character sets and the bytes of blobs are left to the driver.
- The query of `DbPolicy.loadPermissions`: `PolicyReady` is what keeps its statement
  open; a thread that user code starts may outlive its attachment and find it closed,
  where the exception is swallowed.
- `DbClassLoader.getResource` and `BlobConnection` read committed rows; what they can
  find is what `JarsAreWhole` and `UpdatesAreAtomic` say. `BlobConnection` reads the
  listing of a missing resource and then throws anyway.
- `read_jar`, `list_dir`, the command line of the deployer (which skips what it does
  not understand) and `runScript`, which runs DDL statement by statement: what
  Firebird refuses or defers in DDL is not in this repository.
- A statement of `verboseInstallJar` is freed by its `try` before its result set; the
  server tolerates it.
- The connection that the constructor of `DbClassLoader` leaks when
  `databaseOpened()` fails: the model has it (`leaked`), no property would say more.
- User code that stores a `Context` and uses it inside another call; classes of the
  file system; garbage collection of closed loaders.

## Plan

Done: `EngineLifecycle` with `ClassSharing`, `CallContext`, `PluginBoot`,
`EntryPoint`, `Conversions`, `Routine`, `JarRepository` with `JarStore`, and their proofs
as above. Worth doing next, in this order:

1. `loadPermissions` with the monitor of its statement and a thread that outlives its
   attachment.
2. `ClassSharing` without the server's discipline: the weakest promise that `any_order`
   still keeps.

----------------------------- MODULE CallContext -----------------------------
(***************************************************************************)
(* What a thread of the server carries through its calls of Java routines: *)
(* the InternalContext in the ThreadLocal of InternalContext.java, the     *)
(* context class loader (ExternalEngine.runInClassLoader) and the Subject  *)
(* (DbPolicy.getUserSubject).                                              *)
(*                                                                         *)
(* A routine that executes SQL may call other routines, so the calls of a  *)
(* thread nest.  A procedure may leave a result set (a cursor) behind: its *)
(* context outlives the call and later calls, of any thread, fetch from it *)
(* and dispose of it.                                                      *)
(***************************************************************************)
EXTENDS Integers, FiniteSets, SequencesExt

CONSTANTS
  Threads,      \* threads of the server
  Attachments,  \* user attachments
  DatabaseOf,   \* the database of an attachment
  UserOf,       \* IExternalContext.getUserName()
  RoleOf,       \* current_role
  Contexts,     \* identities of InternalContext objects
  Cursors,      \* identities of ExternalResultSetWrapper objects
  Server,       \* the context class loader of a thread outside the plugin
  None,         \* null
  Faults,       \* what may fail
  MaxDepth,     \* bound of the calls nested in a thread
  RefBound      \* a fault happens only below this number of references

FaultKinds == {"getTransaction", "query", "connClose"}

VARIABLES
  stack,            \* the calls in progress in each thread, outermost first
  tls,              \* InternalContext.tls
  loader,           \* Thread.getContextClassLoader()
  attachment,       \* InternalContext.attachment
  transaction,      \* InternalContext.transaction
  connection,       \* the context whose handles InternalContext.connection wraps
  resultSet,        \* the context of a live ExternalResultSetWrapper
  attachmentRefs,   \* references to each IAttachment that were not released
  transactionRefs,  \* references to the ITransaction of each attachment
  subjects,         \* DbPolicy.userSubjects
  monitor           \* the thread inside DbPolicy.getUserSubject

threadVars  == <<stack, tls, loader>>
contextVars == <<attachment, transaction, connection, attachmentRefs, transactionRefs>>
subjectVars == <<subjects, monitor>>
vars == <<threadVars, contextVars, resultSet, subjectVars>>

\* Functions and triggers are executed, procedures opened.
Invocations == {"execute", "open"}
Operations  == Invocations \cup {"fetch", "dispose"}
Phases      == {"lookup", "query", "running", "closing"}
Databases   == {DatabaseOf[a] : a \in Attachments}

\* The DbPrincipal of a Subject.
Principal(a) == [database |-> DatabaseOf[a], role |-> RoleOf[a], user |-> UserOf[a]]
Principals   == {Principal(a) : a \in Attachments}

ASSUME ConstantsAssumption ==
  /\ DOMAIN DatabaseOf = Attachments
  /\ DOMAIN UserOf = Attachments
  /\ DOMAIN RoleOf = Attachments
  /\ None \notin Contexts \cup Attachments \cup Cursors \cup Threads \cup Principals
  /\ IsFiniteSet(Contexts)
  /\ Faults \subseteq FaultKinds
  /\ MaxDepth \in Nat
  /\ RefBound \in Nat

\* Mutant: the key leaves the user out.
KeyOfDatabase(a) == <<DatabaseOf[a], None>>

Key(a) == <<DatabaseOf[a], UserOf[a]>>
Keys   == {Key(a) : a \in Attachments}

Frames ==
  [op : Operations,                            \* what the server called
   att : Attachments,                          \* of the IExternalContext
   ctx : Contexts,                             \* the InternalContext of the call
   cursor : Cursors \cup {None},               \* the result set called
   caller : Contexts \cup {None},              \* oldContext
   callerLoader : Databases \cup {Server},     \* oldClassLoader
   roleCtx : Contexts \cup {None},             \* the context of the role query
   subject : Principals \cup {None},           \* the Subject of the call
   phase : Phases]

InCall(t) == stack[t] # <<>>
Top(t)    == Last(stack[t])
In(t, p)  == InCall(t) /\ Top(t).phase = p
Free(c)   == attachment[c] = None

\* The server calls from outside any call, or from the SQL of a routine.
MayCall(t) == Len(stack[t]) < MaxDepth /\ (~InCall(t) \/ In(t, "running"))

\* Closing a connection frees its statements and the cursors they opened.
MayDispose(t) ==
  \/ MayCall(t)
  \/ /\ Len(stack[t]) < MaxDepth
     /\ In(t, "closing")
     /\ connection[Top(t).ctx] # None

InUse(r) ==
  \E t \in Threads : \E i \in 1..Len(stack[t]) : stack[t][i].cursor = r

Pop(t)    == stack' = [stack EXCEPT ![t] = Front(@)]
SetTop(t, f) == stack' = [stack EXCEPT ![t] = Append(Front(@), f)]

Init ==
  /\ stack = [t \in Threads |-> <<>>]
  /\ tls = [t \in Threads |-> None]
  /\ loader = [t \in Threads |-> Server]
  /\ attachment = [c \in Contexts |-> None]
  /\ transaction = [c \in Contexts |-> None]
  /\ connection = [c \in Contexts |-> None]
  /\ resultSet = [r \in Cursors |-> None]
  /\ attachmentRefs = [a \in Attachments |-> 0]
  /\ transactionRefs = [a \in Attachments |-> 0]
  /\ subjects = [k \in Keys |-> None]
  /\ monitor = None

-----------------------------------------------------------------------------
(* The life of an InternalContext.                                         *)

Setup(c, a) ==
  /\ Free(c)
  /\ attachment' = [attachment EXCEPT ![c] = a]
  /\ transaction' = [transaction EXCEPT ![c] = a]
  /\ attachmentRefs' = [attachmentRefs EXCEPT ![a] = @ + 1]
  /\ transactionRefs' = [transactionRefs EXCEPT ![a] = @ + 1]

\* Mutant: a failed setup releases a reference it never got.
SetupReleasesTooMuch(a) ==
  /\ "getTransaction" \in Faults
  /\ attachmentRefs[a] < RefBound
  /\ attachmentRefs' = [attachmentRefs EXCEPT ![a] = @ - 1]
  /\ UNCHANGED <<attachment, transaction, connection, transactionRefs>>

\* getTransaction throws: the reference to the attachment is never released.
SetupFails(a) ==
  /\ "getTransaction" \in Faults
  /\ attachmentRefs[a] < RefBound
  /\ attachmentRefs' = [attachmentRefs EXCEPT ![a] = @ + 1]
  /\ UNCHANGED <<attachment, transaction, connection, transactionRefs>>

\* The object is unreachable from here on.
Forget(c) ==
  /\ attachment' = [attachment EXCEPT ![c] = None]
  /\ transaction' = [transaction EXCEPT ![c] = None]
  /\ connection' = [connection EXCEPT ![c] = None]

\* InternalContext.close.
Close(c) ==
  /\ Forget(c)
  /\ attachmentRefs' = [attachmentRefs EXCEPT ![attachment[c]] = @ - 1]
  /\ transactionRefs' = [transactionRefs EXCEPT ![transaction[c]] = @ - 1]

\* connection.close() throws and the two releases are skipped.
CloseFails(c) ==
  /\ "connClose" \in Faults
  /\ connection[c] # None
  /\ attachmentRefs[attachment[c]] < RefBound
  /\ Forget(c)
  /\ UNCHANGED <<attachmentRefs, transactionRefs>>

-----------------------------------------------------------------------------
(* The server enters the plugin.                                           *)

\* InternalContext.set and the class loader of runInClassLoader.
Enter(t, op, c, a, r) ==
  /\ stack' = [stack EXCEPT ![t] = Append(@,
       [op |-> op, att |-> a, ctx |-> c, cursor |-> r, caller |-> tls[t],
        callerLoader |-> loader[t], roleCtx |-> None, subject |-> None,
        phase |-> "lookup"])]
  /\ tls' = [tls EXCEPT ![t] = c]
  /\ loader' = [loader EXCEPT ![t] = DatabaseOf[a]]

\* ExternalFunction.execute, ExternalProcedure.open, ExternalTrigger.execute.
Invoke(t, op, a, c) ==
  /\ MayCall(t)
  /\ Setup(c, a)
  /\ Enter(t, op, c, a, None)
  /\ UNCHANGED <<connection, resultSet, subjectVars>>

InvokeFails(t, a) ==
  /\ MayCall(t)
  /\ SetupFails(a)
  /\ UNCHANGED <<threadVars, resultSet, subjectVars>>

\* ExternalResultSetWrapper.fetch.
Fetch(t, r) ==
  /\ MayCall(t)
  /\ resultSet[r] # None /\ ~InUse(r)
  /\ Enter(t, "fetch", resultSet[r], attachment[resultSet[r]], r)
  /\ UNCHANGED <<contextVars, resultSet, subjectVars>>

\* ExternalResultSetWrapper.dispose.
Dispose(t, r) ==
  /\ MayDispose(t)
  /\ resultSet[r] # None /\ ~InUse(r)
  /\ Enter(t, "dispose", resultSet[r], attachment[resultSet[r]], r)
  /\ UNCHANGED <<contextVars, resultSet, subjectVars>>

-----------------------------------------------------------------------------
(* The plugin returns to the server.                                       *)

\* A call is over: the finally blocks restore the class loader and, but for
\* dispose, the ThreadLocal; a context that no cursor keeps is then closed.
Leave(t) ==
  LET f == Top(t) IN
  /\ loader' = [loader EXCEPT ![t] = f.callerLoader]
  /\ CASE f.op = "fetch"   -> Pop(t) /\ tls' = [tls EXCEPT ![t] = f.caller]
       [] f.op = "dispose" -> /\ SetTop(t, [f EXCEPT !.roleCtx = None, !.phase = "closing"])
                              /\ tls' = [tls EXCEPT ![t] = f.ctx]
       [] OTHER            -> /\ SetTop(t, [f EXCEPT !.roleCtx = None, !.phase = "closing"])
                              /\ tls' = [tls EXCEPT ![t] = f.caller]

\* Mutant: only the way without an exception restores the ThreadLocal.
CallEndsUnrestored(t) ==
  /\ In(t, "running")
  /\ \/ Leave(t)
     \/ /\ loader' = [loader EXCEPT ![t] = Top(t).callerLoader]
        /\ SetTop(t, [Top(t) EXCEPT !.phase = "closing"])
        /\ UNCHANGED tls
  /\ UNCHANGED <<contextVars, resultSet, subjectVars>>

\* The routine returns no result set, or it or the conversion of its values
\* throws.
CallEnds(t) ==
  /\ In(t, "running")
  /\ Leave(t)
  /\ UNCHANGED <<contextVars, resultSet, subjectVars>>

\* Mutant: closeContext stays true.
ResultSetReturnedClosing(t, r) ==
  /\ In(t, "running")
  /\ Top(t).op = "open"
  /\ resultSet[r] = None
  /\ resultSet' = [resultSet EXCEPT ![r] = Top(t).ctx]
  /\ Leave(t)
  /\ UNCHANGED <<contextVars, subjectVars>>

\* The procedure returns a result set: its wrapper is pinned and takes over
\* the context, which stays open.
ResultSetReturned(t, r) ==
  /\ In(t, "running")
  /\ Top(t).op = "open"
  /\ resultSet[r] = None
  /\ resultSet' = [resultSet EXCEPT ![r] = Top(t).ctx]
  /\ Pop(t)
  /\ tls' = [tls EXCEPT ![t] = Top(t).caller]
  /\ loader' = [loader EXCEPT ![t] = Top(t).callerLoader]
  /\ UNCHANGED <<contextVars, subjectVars>>

\* Mutant: an exception of the user's close() skips internalContext.close().
ContextClosedUnlessDisposed(t) ==
  LET f == Top(t) IN
  /\ In(t, "closing")
  /\ IF f.op = "dispose"
     THEN Forget(f.ctx) /\ UNCHANGED <<attachmentRefs, transactionRefs>>
     ELSE Close(f.ctx)
  /\ Pop(t)
  /\ tls' = IF f.op = "dispose" THEN [tls EXCEPT ![t] = f.caller] ELSE tls
  /\ resultSet' = [r \in Cursors |-> IF r = f.cursor THEN None ELSE resultSet[r]]
  /\ UNCHANGED <<loader, subjectVars>>

\* The context is closed; dispose restores the ThreadLocal and unpins.
ContextClosed(t) ==
  LET f == Top(t) IN
  /\ In(t, "closing")
  /\ Close(f.ctx) \/ CloseFails(f.ctx)
  /\ Pop(t)
  /\ tls' = IF f.op = "dispose" THEN [tls EXCEPT ![t] = f.caller] ELSE tls
  /\ resultSet' = [r \in Cursors |-> IF r = f.cursor THEN None ELSE resultSet[r]]
  /\ UNCHANGED <<loader, subjectVars>>

-----------------------------------------------------------------------------
(* DbPolicy.getUserSubject and the routine.                                *)

\* Mutant: the Subject is used without a look whether there is one.
SubjectHitUnchecked(t) ==
  LET f == Top(t) IN
  /\ In(t, "lookup")
  /\ monitor = None
  /\ SetTop(t, [f EXCEPT !.subject = subjects[Key(f.att)], !.phase = "running"])
  /\ UNCHANGED <<tls, loader, contextVars, resultSet, subjectVars>>

SubjectHit(t) ==
  LET f == Top(t) IN
  /\ In(t, "lookup")
  /\ monitor = None
  /\ subjects[Key(f.att)] # None
  /\ SetTop(t, [f EXCEPT !.subject = subjects[Key(f.att)], !.phase = "running"])
  /\ UNCHANGED <<tls, loader, contextVars, resultSet, subjectVars>>

\* The first call of the user: both monitors are kept during a query, made
\* with a context and a connection of its own.
SubjectMiss(t, c) ==
  LET f == Top(t) IN
  /\ In(t, "lookup")
  /\ monitor = None
  /\ subjects[Key(f.att)] = None
  /\ Setup(c, f.att)
  /\ connection' = [connection EXCEPT ![c] = c]
  /\ tls' = [tls EXCEPT ![t] = c]
  /\ monitor' = t
  /\ SetTop(t, [f EXCEPT !.roleCtx = c, !.phase = "query"])
  /\ UNCHANGED <<loader, resultSet, subjects>>

SubjectMissFails(t) ==
  /\ In(t, "lookup")
  /\ monitor = None
  /\ subjects[Key(Top(t).att)] = None
  /\ SetupFails(Top(t).att)
  /\ Leave(t)
  /\ UNCHANGED <<resultSet, subjectVars>>

\* Mutant: the ThreadLocal keeps the context of the query.
RoleReadKeepsContext(t) ==
  LET f == Top(t) p == Principal(f.att) IN
  /\ In(t, "query")
  /\ subjects' = [subjects EXCEPT ![Key(f.att)] = p]
  /\ Close(f.roleCtx)
  /\ monitor' = None
  /\ SetTop(t, [f EXCEPT !.roleCtx = None, !.subject = p, !.phase = "running"])
  /\ UNCHANGED <<tls, loader, resultSet>>

RoleRead(t) ==
  LET f == Top(t) p == Principal(f.att) IN
  /\ In(t, "query")
  /\ subjects' = [subjects EXCEPT ![Key(f.att)] = p]
  /\ Close(f.roleCtx)
  /\ tls' = [tls EXCEPT ![t] = f.ctx]
  /\ monitor' = None
  /\ SetTop(t, [f EXCEPT !.roleCtx = None, !.subject = p, !.phase = "running"])
  /\ UNCHANGED <<loader, resultSet>>

\* Mutant: the query is tried again for as long as it fails.
RoleReadFailsRetrying(t) ==
  LET f == Top(t) IN
  /\ In(t, "query")
  /\ "query" \in Faults
  /\ Close(f.roleCtx)
  /\ tls' = [tls EXCEPT ![t] = f.ctx]
  /\ monitor' = None
  /\ SetTop(t, [f EXCEPT !.roleCtx = None, !.phase = "lookup"])
  /\ UNCHANGED <<loader, resultSet, subjects>>

\* The query or the close of its connection throws: nothing is cached.
RoleReadFails(t) ==
  /\ In(t, "query")
  /\ \/ "query" \in Faults /\ Close(Top(t).roleCtx)
     \/ CloseFails(Top(t).roleCtx)
  /\ monitor' = None
  /\ Leave(t)
  /\ UNCHANGED <<resultSet, subjects>>

\* The routine, or a conversion of a BLOB, asks its context for a connection,
\* which is made with the handles of the context in the ThreadLocal.
GetConnection(t) ==
  /\ In(t, "running")
  /\ connection[Top(t).ctx] = None
  /\ connection' = [connection EXCEPT ![Top(t).ctx] = tls[t]]
  /\ UNCHANGED <<threadVars, attachment, transaction, attachmentRefs,
                 transactionRefs, resultSet, subjectVars>>

-----------------------------------------------------------------------------
Call(t) ==
  \/ \E op \in Invocations, a \in Attachments, c \in Contexts : Invoke(t, op, a, c)
  \/ \E a \in Attachments : InvokeFails(t, a)
  \/ \E r \in Cursors : Fetch(t, r) \/ Dispose(t, r)

\* A call in progress goes on; a routine ends when its nested calls have.
Proceed(t) ==
  \/ SubjectHit(t)
  \/ \E c \in Contexts : SubjectMiss(t, c)
  \/ SubjectMissFails(t)
  \/ RoleRead(t) \/ RoleReadFails(t)
  \/ CallEnds(t)
  \/ \E r \in Cursors : ResultSetReturned(t, r)
  \/ ContextClosed(t)

Next == \E t \in Threads : Call(t) \/ GetConnection(t) \/ Proceed(t)

Spec == Init /\ [][Next]_vars

\* A thread inside a call runs on, and a routine comes to an end.  Nothing
\* makes the server call.
FairSpec == Spec /\ \A t \in Threads : WF_vars(Proceed(t))

-----------------------------------------------------------------------------
(* Properties.                                                             *)

Types ==
  /\ stack \in [Threads -> Seq(Frames)]
  /\ tls \in [Threads -> Contexts \cup {None}]
  /\ loader \in [Threads -> Databases \cup {Server}]
  /\ attachment \in [Contexts -> Attachments \cup {None}]
  /\ transaction \in [Contexts -> Attachments \cup {None}]
  /\ connection \in [Contexts -> Contexts \cup {None}]
  /\ resultSet \in [Cursors -> Contexts \cup {None}]
  /\ attachmentRefs \in [Attachments -> Int]
  /\ transactionRefs \in [Attachments -> Int]
  /\ subjects \in [Keys -> Principals \cup {None}]
  /\ monitor \in Threads \cup {None}

\* No call meets a null: runInClassLoader has a Subject when it runs a routine,
\* the role query its context, fetch and dispose their result set.
FrameOK(f) ==
  /\ f.phase = "running" => f.subject # None
  /\ f.phase = "query" <=> f.roleCtx # None
  /\ f.op \in Invocations <=> f.cursor = None

TypeOK == Types /\ \A t \in Threads : \A i \in 1..Len(stack[t]) : FrameOK(stack[t][i])

\* Context.java:34, "Gets the Context instance associated with the current
\* call": while a routine runs, the ThreadLocal and the class loader of its
\* thread are those of its call, whatever calls it made and however they
\* ended; a thread outside the plugin has those of the server.
ThreadFollowsCalls ==
  \A t \in Threads :
    /\ In(t, "running") => /\ tls[t] = Top(t).ctx
                           /\ loader[t] = DatabaseOf[Top(t).att]
    /\ ~InCall(t) => tls[t] = None /\ loader[t] = Server

\* A connection works in the transaction of the context that made it
\* (InternalContext.getConnection and the constructor of InternalFBConnection,
\* which meet only through the ThreadLocal).
ConnectionUsesOwnTransaction ==
  \A c \in Contexts : connection[c] # None => connection[c] = c

\* A context is held by one call or one result set, and open while it is: the
\* closeContext flag of ExternalProcedure.open passes it from the one to the
\* other.
ContextsHaveOneHolder ==
  /\ \A t \in Threads : \A i \in 1..Len(stack[t]) :
       /\ attachment[stack[t][i].ctx] = stack[t][i].att
       /\ stack[t][i].cursor # None =>
            resultSet[stack[t][i].cursor] = stack[t][i].ctx
  /\ \A r \in Cursors : resultSet[r] # None =>
       /\ ~Free(resultSet[r])
       /\ \A t \in Threads : \A i \in 1..Len(stack[t]) :
            stack[t][i].ctx = resultSet[r] => stack[t][i].cursor = r
       /\ \A q \in Cursors \ {r} : resultSet[q] # resultSet[r]

\* The references that open contexts will release are there to be released.
RefsCoverContexts ==
  \A a \in Attachments :
    /\ attachmentRefs[a] >= Cardinality({c \in Contexts : attachment[c] = a})
    /\ transactionRefs[a] >= Cardinality({c \in Contexts : transaction[c] = a})

\* When no call is in progress only the result sets not disposed of hold
\* references to attachments and transactions.
OnlyResultSetsKeepRefs ==
  (\A t \in Threads : ~InCall(t)) =>
    \A a \in Attachments :
      LET kept == Cardinality({r \in Cursors :
                    resultSet[r] # None /\ attachment[resultSet[r]] = a})
      IN attachmentRefs[a] = kept /\ transactionRefs[a] = kept

\* A routine runs as the user of its attachment, in its database.
SubjectIsCallers ==
  \A t \in Threads : In(t, "running") =>
    /\ Top(t).subject.database = DatabaseOf[Top(t).att]
    /\ Top(t).subject.user = UserOf[Top(t).att]

\* README.md:87-88, "`PERMISSION_GROUP_GRANT` table associates
\* `PERMISSION_GROUP` with Firebird users and roles": a routine runs with the
\* role of its attachment.
RoleIsCallers ==
  \A t \in Threads :
    In(t, "running") => Top(t).subject.role = RoleOf[Top(t).att]

\* When the server makes no new calls the ones in progress return: nobody
\* keeps the monitor of DbPolicy, even when the role query fails.
CallsReturn ==
  <>[][\A t \in Threads : ~Call(t)]_vars => \A t \in Threads : <>[](~InCall(t))
=============================================================================

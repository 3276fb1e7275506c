-------------------------- MODULE CallContextProofs --------------------------
(***************************************************************************)
(* Theorems about CallContext, for every set of threads, attachments,      *)
(* contexts and cursors and every depth of the calls.                      *)
(***************************************************************************)
EXTENDS CallContext, SequenceTheorems, FiniteSetTheorems, TLAPS

-----------------------------------------------------------------------------
(* The stack of one thread changes at its top.                             *)

Stacks == [Threads -> Seq(Frames)]

LEMMA FrontOfCalls ==
  ASSUME NEW s \in Seq(Frames), s # <<>>
  PROVE  /\ Len(s) \in Nat \ {0}
         /\ Last(s) = s[Len(s)]
         /\ Last(s) \in Frames
         /\ Front(s) \in Seq(Frames)
         /\ Len(Front(s)) = Len(s) - 1
         /\ \A i \in 1..Len(s) - 1 : Front(s)[i] = s[i]
<1>1. Len(s) \in Nat \ {0}
  BY EmptySeq
<1>2. s[Len(s)] \in Frames
  BY <1>1, ElementOfSeq
<1>3. \A i \in 1..Len(s) - 1 : s[i] \in Frames
  BY <1>1, ElementOfSeq
<1>4. Front(s) = SubSeq(s, 1, Len(s) - 1)
  BY DEF Front
<1>5. /\ Front(s) \in Seq(Frames)
      /\ Len(Front(s)) = Len(s) - 1
      /\ \A i \in 1..Len(s) - 1 : Front(s)[i] = s[i]
  <2> DEFINE n == Len(s) - 1
  <2>1. n \in Nat /\ \A i \in 1..n : s[i] \in Frames
    BY <1>1, <1>3
  <2>2. /\ SubSeq(s, 1, n) \in Seq(Frames)
        /\ Len(SubSeq(s, 1, n)) = IF 1 <= n THEN n - 1 + 1 ELSE 0
        /\ \A i \in 1..n - 1 + 1 : SubSeq(s, 1, n)[i] = s[1 + i - 1]
    <3> HIDE DEF n
    <3> QED
      BY <2>1, SubSeqProperties
  <2>3. (IF 1 <= n THEN n - 1 + 1 ELSE 0) = n /\ n - 1 + 1 = n
    <3>1. n \in Nat
      BY <2>1
    <3> HIDE DEF n
    <3>2. 1 <= n \/ n = 0
      BY <3>1
    <3> QED
      BY <3>1, <3>2
  <2>4. ASSUME NEW i \in 1..n
        PROVE  SubSeq(s, 1, n)[i] = s[i]
    <3>1. 1 + i - 1 = i
      OBVIOUS
    <3> QED
      BY <2>2, <2>3, <3>1
  <2> QED
    BY <1>4, <2>2, <2>3, <2>4
<1>6. QED
  BY <1>1, <1>2, <1>5 DEF Last

LEMMA AppendToCalls ==
  ASSUME NEW s \in Seq(Frames), NEW f \in Frames
  PROVE  /\ Append(s, f) \in Seq(Frames)
         /\ Append(s, f) # <<>>
         /\ Len(Append(s, f)) = Len(s) + 1
         /\ Append(s, f)[Len(s) + 1] = f
         /\ Last(Append(s, f)) = f
         /\ \A i \in 1..Len(s) : Append(s, f)[i] = s[i]
<1>1. Len(s) \in Nat
  BY LenProperties
<1>2. QED
  BY <1>1, AppendProperties DEF Last

\* A call is made.
LEMMA Pushed ==
  ASSUME NEW st \in Stacks, NEW t \in Threads, NEW f \in Frames, NEW st2,
         st2 = [st EXCEPT ![t] = Append(@, f)]
  PROVE  /\ st2 \in Stacks
         /\ Len(st[t]) \in Nat
         /\ Len(st2[t]) = Len(st[t]) + 1
         /\ st2[t][Len(st[t]) + 1] = f
         /\ st2[t] # <<>> /\ Last(st2[t]) = f
         /\ \A u \in Threads \ {t} : st2[u] = st[u]
         /\ \A i \in 1..Len(st[t]) : st2[t][i] = st[t][i]
<1>1. st[t] \in Seq(Frames) /\ st2[t] = Append(st[t], f)
  BY DEF Stacks
<1>2. Append(st[t], f) \in Seq(Frames)
  BY <1>1, AppendToCalls
<1>3. st2 \in Stacks /\ \A u \in Threads \ {t} : st2[u] = st[u]
  BY <1>2 DEF Stacks
<1>4. Len(st[t]) \in Nat
  BY <1>1, LenProperties
<1>5. QED
  BY <1>1, <1>3, <1>4, AppendToCalls

\* A call returns.
LEMMA Popped ==
  ASSUME NEW st \in Stacks, NEW t \in Threads, st[t] # <<>>, NEW st2,
         st2 = [st EXCEPT ![t] = Front(st[t])]
  PROVE  /\ st2 \in Stacks
         /\ Len(st[t]) \in Nat \ {0}
         /\ Last(st[t]) = st[t][Len(st[t])] /\ Last(st[t]) \in Frames
         /\ Len(st2[t]) = Len(st[t]) - 1
         /\ \A u \in Threads \ {t} : st2[u] = st[u]
         /\ \A i \in 1..Len(st[t]) - 1 : st2[t][i] = st[t][i]
<1>1. st[t] \in Seq(Frames) /\ st2[t] = Front(st[t])
  BY DEF Stacks
<1>2. Front(st[t]) \in Seq(Frames)
  BY <1>1, FrontOfCalls
<1>3. st2 \in Stacks /\ \A u \in Threads \ {t} : st2[u] = st[u]
  BY <1>2 DEF Stacks
<1>4. QED
  BY <1>1, <1>3, FrontOfCalls

\* A call goes on.
LEMMA TopSet ==
  ASSUME NEW st \in Stacks, NEW t \in Threads, st[t] # <<>>, NEW f \in Frames,
         NEW st2, st2 = [st EXCEPT ![t] = Append(Front(@), f)]
  PROVE  /\ st2 \in Stacks
         /\ Len(st[t]) \in Nat \ {0}
         /\ Last(st[t]) = st[t][Len(st[t])] /\ Last(st[t]) \in Frames
         /\ Len(st2[t]) = Len(st[t])
         /\ st2[t] # <<>> /\ Last(st2[t]) = f /\ st2[t][Len(st[t])] = f
         /\ \A u \in Threads \ {t} : st2[u] = st[u]
         /\ \A i \in 1..Len(st[t]) - 1 : st2[t][i] = st[t][i]
<1>1. st[t] \in Seq(Frames) /\ st2[t] = Append(Front(st[t]), f)
  BY DEF Stacks
<1>2. /\ Len(st[t]) \in Nat \ {0}
      /\ Last(st[t]) = st[t][Len(st[t])] /\ Last(st[t]) \in Frames
      /\ Front(st[t]) \in Seq(Frames)
      /\ Len(Front(st[t])) = Len(st[t]) - 1
      /\ \A i \in 1..Len(st[t]) - 1 : Front(st[t])[i] = st[t][i]
  BY <1>1, FrontOfCalls
<1>3. /\ st2[t] \in Seq(Frames) /\ st2[t] # <<>> /\ Last(st2[t]) = f
      /\ Len(st2[t]) = Len(Front(st[t])) + 1
      /\ st2[t][Len(Front(st[t])) + 1] = f
      /\ \A i \in 1..Len(Front(st[t])) : st2[t][i] = Front(st[t])[i]
  BY <1>1, <1>2, AppendToCalls
<1>4. st2 \in Stacks /\ \A u \in Threads \ {t} : st2[u] = st[u]
  BY <1>1, <1>3 DEF Stacks
<1>5. Len(Front(st[t])) + 1 = Len(st[t])
  BY <1>2
<1>6. QED
  BY <1>2, <1>3, <1>4, <1>5

-----------------------------------------------------------------------------
(* Who holds the contexts.                                                 *)

\* A call holds its context, with the result set that it was made on.
Held ==
  \A t \in Threads : \A i \in 1..Len(stack[t]) :
    /\ attachment[stack[t][i].ctx] = stack[t][i].att
    /\ stack[t][i].cursor # None => resultSet[stack[t][i].cursor] = stack[t][i].ctx

\* No other call has it.
Distinct ==
  \A t, u \in Threads : \A i \in 1..Len(stack[t]), j \in 1..Len(stack[u]) :
    stack[t][i].ctx = stack[u][j].ctx => t = u /\ i = j

\* A result set holds its context, alone or with the call made on it.
Kept ==
  \A r \in Cursors : resultSet[r] # None =>
    /\ attachment[resultSet[r]] \in Attachments
    /\ \A t \in Threads : \A i \in 1..Len(stack[t]) :
         stack[t][i].ctx = resultSet[r] => stack[t][i].cursor = r
    /\ \A q \in Cursors : resultSet[q] = resultSet[r] => q = r

\* A role query is made by the last call of the thread in the monitor, with a
\* context that nothing else holds.
Queries ==
  \A t \in Threads : \A i \in 1..Len(stack[t]) :
    stack[t][i].phase = "query" =>
      /\ monitor = t /\ i = Len(stack[t])
      /\ attachment[stack[t][i].roleCtx] = stack[t][i].att
      /\ \A u \in Threads : \A j \in 1..Len(stack[u]) :
           stack[u][j].ctx # stack[t][i].roleCtx
      /\ \A r \in Cursors : resultSet[r] # stack[t][i].roleCtx

Owned == Held /\ Distinct /\ Kept /\ Queries

-----------------------------------------------------------------------------
(* What the thread of a call has in its ThreadLocal, and its class loader. *)

TlsIn(f) ==
  IF f.phase = "query" THEN f.roleCtx
  ELSE IF f.phase = "closing" /\ f.op # "dispose" THEN f.caller
  ELSE f.ctx

LoaderIn(f) == IF f.phase = "closing" THEN f.callerLoader ELSE DatabaseOf[f.att]

\* Each call of s remembers what its caller had; cur and cl are what the last
\* call left in the thread.
ChainedIn(s, cur, cl) ==
  /\ s = <<>> => cur = None /\ cl = Server
  /\ s # <<>> => /\ cur = TlsIn(Last(s)) /\ cl = LoaderIn(Last(s))
                /\ s[1].caller = None /\ s[1].callerLoader = Server
  /\ \A i \in 1..Len(s) - 1 :
       /\ s[i + 1].caller = TlsIn(s[i])
       /\ s[i + 1].callerLoader = LoaderIn(s[i])

Chained == \A t \in Threads : ChainedIn(stack[t], tls[t], loader[t])

\* A Subject is that of the user it is kept or used for.
IsUsers(p, a) == p.database = DatabaseOf[a] /\ p.user = UserOf[a]

Subjects ==
  /\ \A a \in Attachments : subjects[Key(a)] # None => IsUsers(subjects[Key(a)], a)
  /\ \A t \in Threads : \A i \in 1..Len(stack[t]) :
       stack[t][i].subject # None => IsUsers(stack[t][i].subject, stack[t][i].att)

\* A context has a transaction and the attachment of the transaction.
TransactionsOK == transaction = attachment

-----------------------------------------------------------------------------
(* The steps.                                                              *)

FramesOK(st) ==
  /\ st \in Stacks
  /\ \A t \in Threads : \A i \in 1..Len(st[t]) : FrameOK(st[t][i])

\* Types without the stacks.
DataTypes ==
  /\ tls \in [Threads -> Contexts \cup {None}]
  /\ loader \in [Threads -> Databases \cup {Server}]
  /\ attachment \in [Contexts -> Attachments \cup {None}]
  /\ transaction \in [Contexts -> Attachments \cup {None}]
  /\ connection \in [Contexts -> Contexts \cup {None}]
  /\ resultSet \in [Cursors -> Contexts \cup {None}]
  /\ attachmentRefs \in [Attachments -> Int]
  /\ transactionRefs \in [Attachments -> Int]
  /\ subjects \in [Keys -> Principals \cup {None}]
  /\ monitor \in Threads \cup {None}

LEMMA TypesSplit ==
  /\ TypeOK <=> DataTypes /\ FramesOK(stack)
  /\ TypeOK' <=> DataTypes' /\ FramesOK(stack')
BY DEF TypeOK, Types, DataTypes, FramesOK, Stacks

LEMMA TopType ==
  ASSUME TypeOK, NEW t \in Threads, InCall(t)
  PROVE  /\ Top(t) \in Frames /\ FrameOK(Top(t))
         /\ Len(stack[t]) \in Nat \ {0}
         /\ Top(t) = stack[t][Len(stack[t])]
<1>1. stack[t] \in Seq(Frames) /\ stack[t] # <<>>
  BY DEF TypeOK, Types, InCall
<1>2. /\ Len(stack[t]) \in Nat \ {0}
      /\ Last(stack[t]) = stack[t][Len(stack[t])] /\ Last(stack[t]) \in Frames
  BY <1>1, FrontOfCalls
<1>3. FrameOK(stack[t][Len(stack[t])])
  BY <1>2 DEF TypeOK
<1>4. QED
  BY <1>2, <1>3 DEF Top

LEMMA FramesPushed ==
  ASSUME NEW st \in Stacks, FramesOK(st), NEW t \in Threads, NEW f \in Frames, FrameOK(f)
  PROVE  FramesOK([st EXCEPT ![t] = Append(@, f)])
<1> DEFINE st2 == [st EXCEPT ![t] = Append(@, f)]
<1>1. /\ st2 \in Stacks
      /\ Len(st[t]) \in Nat
      /\ Len(st2[t]) = Len(st[t]) + 1
      /\ st2[t][Len(st[t]) + 1] = f
      /\ \A u \in Threads \ {t} : st2[u] = st[u]
      /\ \A i \in 1..Len(st[t]) : st2[t][i] = st[t][i]
  BY Pushed
<1> HIDE DEF st2
<1>2. \A i \in 1..Len(st2[t]) : i \in 1..Len(st[t]) \/ i = Len(st[t]) + 1
  BY <1>1
<1>3. QED
  BY <1>1, <1>2 DEF FramesOK, st2

LEMMA FramesPopped ==
  ASSUME NEW st \in Stacks, FramesOK(st), NEW t \in Threads, st[t] # <<>>
  PROVE  FramesOK([st EXCEPT ![t] = Front(@)])
<1> DEFINE st2 == [st EXCEPT ![t] = Front(@)]
<1>0. st2 = [st EXCEPT ![t] = Front(st[t])]
  OBVIOUS
<1> HIDE DEF st2
<1>1. /\ st2 \in Stacks
      /\ Len(st[t]) \in Nat \ {0}
      /\ Last(st[t]) = st[t][Len(st[t])] /\ Last(st[t]) \in Frames
      /\ Len(st2[t]) = Len(st[t]) - 1
      /\ \A u \in Threads \ {t} : st2[u] = st[u]
      /\ \A i \in 1..Len(st[t]) - 1 : st2[t][i] = st[t][i]
  BY <1>0, Popped DEF Stacks
<1>2. \A i \in 1..Len(st2[t]) : i \in 1..Len(st[t]) /\ i \in 1..Len(st[t]) - 1
  BY <1>1
<1>3. QED
  BY <1>1, <1>2 DEF FramesOK, st2

LEMMA FramesSet ==
  ASSUME NEW st \in Stacks, FramesOK(st), NEW t \in Threads, st[t] # <<>>,
         NEW f \in Frames, FrameOK(f)
  PROVE  FramesOK([st EXCEPT ![t] = Append(Front(@), f)])
<1> DEFINE st2 == [st EXCEPT ![t] = Append(Front(@), f)]
<1>1. /\ st2 \in Stacks
      /\ Len(st[t]) \in Nat \ {0}
      /\ Len(st2[t]) = Len(st[t])
      /\ st2[t][Len(st[t])] = f
      /\ \A u \in Threads \ {t} : st2[u] = st[u]
      /\ \A i \in 1..Len(st[t]) - 1 : st2[t][i] = st[t][i]
  BY TopSet
<1> HIDE DEF st2
<1>2. \A i \in 1..Len(st2[t]) :
        i = Len(st[t]) \/ (i \in 1..Len(st[t]) - 1 /\ i \in 1..Len(st[t]))
  BY <1>1
<1>3. QED
  BY <1>1, <1>2 DEF FramesOK, st2

\* The frame of a call that Leave keeps.
Closing(f) == [f EXCEPT !.roleCtx = None, !.phase = "closing"]

LEMMA LeaveCases ==
  ASSUME NEW t \in Threads, Top(t) \in Frames, Leave(t)
  PROVE  /\ loader' = [loader EXCEPT ![t] = Top(t).callerLoader]
         /\ \/ /\ Top(t).op = "fetch"
               /\ Pop(t)
               /\ tls' = [tls EXCEPT ![t] = Top(t).caller]
            \/ /\ Top(t).op # "fetch"
               /\ SetTop(t, Closing(Top(t)))
               /\ tls' = [tls EXCEPT ![t] = TlsIn(Closing(Top(t)))]
<1>1. CASE Top(t).op = "fetch"
  BY <1>1 DEF Leave
<1>2. CASE Top(t).op = "dispose"
  BY <1>2 DEF Leave, Closing, TlsIn
<1>3. CASE Top(t).op \notin {"fetch", "dispose"}
  BY <1>3 DEF Leave, Closing, TlsIn
<1>4. QED
  BY <1>1, <1>2, <1>3

LEMMA SetupTypes ==
  ASSUME DataTypes, NEW c \in Contexts, NEW a \in Attachments, Setup(c, a)
  PROVE  /\ attachment' \in [Contexts -> Attachments \cup {None}]
         /\ transaction' \in [Contexts -> Attachments \cup {None}]
         /\ attachmentRefs' \in [Attachments -> Int]
         /\ transactionRefs' \in [Attachments -> Int]
BY DEF DataTypes, Setup

LEMMA SetupFailsTypes ==
  ASSUME DataTypes, NEW a \in Attachments, SetupFails(a)
  PROVE  /\ UNCHANGED <<attachment, transaction, connection, transactionRefs>>
         /\ attachmentRefs' \in [Attachments -> Int]
BY DEF DataTypes, SetupFails

LEMMA Released ==
  ASSUME NEW refs \in [Attachments -> Int], NEW x
  PROVE  [refs EXCEPT ![x] = @ - 1] \in [Attachments -> Int]
<1>1. CASE x \in Attachments
  BY <1>1
<1>2. CASE x \notin Attachments
  BY <1>2
<1>3. QED
  BY <1>1, <1>2

LEMMA CloseTypes ==
  ASSUME DataTypes, NEW c \in Contexts, Close(c) \/ CloseFails(c)
  PROVE  /\ attachment' \in [Contexts -> Attachments \cup {None}]
         /\ transaction' \in [Contexts -> Attachments \cup {None}]
         /\ connection' \in [Contexts -> Contexts \cup {None}]
         /\ attachmentRefs' \in [Attachments -> Int]
         /\ transactionRefs' \in [Attachments -> Int]
<1>1. Forget(c)
  BY DEF Close, CloseFails
<1>2. /\ attachment' \in [Contexts -> Attachments \cup {None}]
      /\ transaction' \in [Contexts -> Attachments \cup {None}]
      /\ connection' \in [Contexts -> Contexts \cup {None}]
  BY <1>1 DEF DataTypes, Forget
<1>3. CASE Close(c)
  <2>1. /\ attachmentRefs' = [attachmentRefs EXCEPT ![attachment[c]] = @ - 1]
        /\ transactionRefs' = [transactionRefs EXCEPT ![transaction[c]] = @ - 1]
    BY <1>3 DEF Close
  <2>2. attachmentRefs' \in [Attachments -> Int] /\ transactionRefs' \in [Attachments -> Int]
    BY <2>1, Released DEF DataTypes
  <2>3. QED
    BY <1>2, <2>2
<1>4. CASE CloseFails(c)
  BY <1>2, <1>4 DEF CloseFails, DataTypes
<1>5. QED
  BY <1>3, <1>4

\* A frame pushed by Enter.
NewFrame(op, a, c, r, caller, callerLoader) ==
  [op |-> op, att |-> a, ctx |-> c, cursor |-> r, caller |-> caller,
   callerLoader |-> callerLoader, roleCtx |-> None, subject |-> None,
   phase |-> "lookup"]

LEMMA EnterTypes ==
  ASSUME TypeOK, NEW t \in Threads, NEW op \in Operations, NEW c \in Contexts,
         NEW a \in Attachments, NEW r \in Cursors \cup {None},
         op \in Invocations <=> r = None, Enter(t, op, c, a, r)
  PROVE  /\ FramesOK(stack')
         /\ tls' \in [Threads -> Contexts \cup {None}]
         /\ loader' \in [Threads -> Databases \cup {Server}]
<1> DEFINE f == NewFrame(op, a, c, r, tls[t], loader[t])
<1>1. DataTypes /\ FramesOK(stack)
  BY TypesSplit
<1>2. DatabaseOf[a] \in Databases
  BY DEF Databases
<1>3. tls[t] \in Contexts \cup {None} /\ loader[t] \in Databases \cup {Server}
  BY <1>1 DEF DataTypes
<1>4. f \in Frames /\ FrameOK(f)
  BY <1>3 DEF Frames, Phases, NewFrame, FrameOK
<1>5. stack' = [stack EXCEPT ![t] = Append(@, f)]
  BY DEF Enter, NewFrame
<1> HIDE DEF f
<1>6. FramesOK(stack')
  BY <1>1, <1>4, <1>5, FramesPushed DEF FramesOK
<1>7. QED
  BY <1>1, <1>2, <1>6 DEF Enter, DataTypes

LEMMA SetTopTypes ==
  ASSUME TypeOK, NEW t \in Threads, InCall(t), NEW f \in Frames, FrameOK(f), SetTop(t, f)
  PROVE  FramesOK(stack')
<1>1. FramesOK(stack) /\ stack[t] # <<>>
  BY TypesSplit DEF InCall
<1>2. QED
  BY <1>1, FramesSet DEF FramesOK, SetTop

LEMMA PopTypes ==
  ASSUME TypeOK, NEW t \in Threads, InCall(t), Pop(t)
  PROVE  FramesOK(stack')
<1>1. FramesOK(stack) /\ stack[t] # <<>>
  BY TypesSplit DEF InCall
<1>2. QED
  BY <1>1, FramesPopped DEF FramesOK, Pop

LEMMA LeaveTypes ==
  ASSUME TypeOK, NEW t \in Threads, InCall(t), Leave(t)
  PROVE  /\ FramesOK(stack')
         /\ tls' \in [Threads -> Contexts \cup {None}]
         /\ loader' \in [Threads -> Databases \cup {Server}]
<1> DEFINE f == Top(t)
<1>1. f \in Frames /\ FrameOK(f)
  BY TopType
<1>2. DataTypes
  BY TypesSplit
<1>3. f.caller \in Contexts \cup {None} /\ f.callerLoader \in Databases \cup {Server}
  BY <1>1 DEF Frames
<1>4. Closing(f) \in Frames /\ FrameOK(Closing(f))
  BY <1>1 DEF Frames, Phases, FrameOK, Closing
<1>5. TlsIn(Closing(f)) \in Contexts \cup {None}
  BY <1>1 DEF Frames, TlsIn, Closing
<1> HIDE DEF f
<1>6. /\ loader' = [loader EXCEPT ![t] = f.callerLoader]
      /\ \/ f.op = "fetch" /\ Pop(t) /\ tls' = [tls EXCEPT ![t] = f.caller]
         \/ /\ f.op # "fetch"
            /\ SetTop(t, Closing(f))
            /\ tls' = [tls EXCEPT ![t] = TlsIn(Closing(f))]
  BY <1>1, LeaveCases DEF f
<1>7. FramesOK(stack')
  BY <1>4, <1>6, SetTopTypes, PopTypes
<1>8. QED
  BY <1>2, <1>3, <1>5, <1>6, <1>7 DEF DataTypes

-----------------------------------------------------------------------------
(* Types.                                                                  *)

LEMMA TypesFirst ==
  Init => TypeOK
<1>1. <<>> \in Seq(Frames) /\ Len(<<>>) = 0
  BY EmptySeq
<1>2. QED
  BY <1>1 DEF Init, TypeOK, Types

\* The contexts that fetch and dispose get from their result set are open.
LEMMA TypesKept ==
  ASSUME TypeOK, Kept, Next
  PROVE  TypeOK'
<1>0. PICK t \in Threads : Call(t) \/ GetConnection(t) \/ Proceed(t)
  BY DEF Next
<1> USE DEF threadVars, contextVars, subjectVars
<1>1. DataTypes /\ FramesOK(stack)
  BY TypesSplit
<1>2. ASSUME InCall(t)
      PROVE  /\ Top(t) \in Frames /\ FrameOK(Top(t))
             /\ Top(t).ctx \in Contexts /\ Top(t).att \in Attachments
             /\ Top(t).caller \in Contexts \cup {None}
             /\ Top(t).callerLoader \in Databases \cup {Server}
             /\ Top(t).phase = "query" => Top(t).roleCtx \in Contexts
             /\ Key(Top(t).att) \in Keys
  BY <1>2, TopType DEF Frames, FrameOK, Keys
<1>3. ASSUME NEW op \in Invocations, NEW a \in Attachments, NEW c \in Contexts,
             Invoke(t, op, a, c)
      PROVE  TypeOK'
  <2>1. Setup(c, a) /\ Enter(t, op, c, a, None)
    BY <1>3 DEF Invoke
  <2>2. QED
    BY <1>1, <1>3, <2>1, EnterTypes, SetupTypes, TypesSplit
    DEF Invoke, DataTypes, Operations
<1>4. ASSUME NEW a \in Attachments, InvokeFails(t, a)
      PROVE  TypeOK'
  <2>1. SetupFails(a) /\ UNCHANGED <<stack, tls, loader, resultSet, subjects, monitor>>
    BY <1>4 DEF InvokeFails
  <2>2. QED
    BY <1>1, <2>1, SetupFailsTypes, TypesSplit DEF DataTypes
<1>5. ASSUME NEW r \in Cursors, Fetch(t, r) \/ Dispose(t, r)
      PROVE  TypeOK'
  <2>1. /\ resultSet[r] \in Contexts /\ attachment[resultSet[r]] \in Attachments
        /\ r # None
    BY <1>1, <1>5, ConstantsAssumption DEF Fetch, Dispose, Kept, DataTypes
  <2>2. PICK op \in {"fetch", "dispose"} :
          Enter(t, op, resultSet[r], attachment[resultSet[r]], r)
    BY <1>5 DEF Fetch, Dispose
  <2>3. /\ FramesOK(stack')
        /\ tls' \in [Threads -> Contexts \cup {None}]
        /\ loader' \in [Threads -> Databases \cup {Server}]
    BY <2>1, <2>2, EnterTypes DEF Operations, Invocations
  <2>4. UNCHANGED <<contextVars, resultSet, subjectVars>>
    BY <1>5 DEF Fetch, Dispose
  <2>5. QED
    BY <1>1, <2>3, <2>4, TypesSplit DEF DataTypes
<1>6. CASE GetConnection(t)
  <2>1. tls[t] \in Contexts \cup {None}
    BY <1>1 DEF DataTypes
  <2>2. QED
    BY <1>1, <1>6, <2>1, TypesSplit DEF GetConnection, DataTypes
<1>7. CASE SubjectHit(t)
  <2> DEFINE f == Top(t)
             g == [f EXCEPT !.subject = subjects[Key(f.att)], !.phase = "running"]
  <2>1. /\ InCall(t) /\ f.phase = "lookup" /\ subjects[Key(f.att)] # None
        /\ SetTop(t, g)
        /\ UNCHANGED <<tls, loader, contextVars, resultSet, subjectVars>>
    BY <1>7 DEF SubjectHit, In
  <2>2. subjects[Key(f.att)] \in Principals
    BY <1>1, <1>2, <2>1 DEF DataTypes
  <2>3. g \in Frames /\ FrameOK(g)
    BY <1>2, <2>1, <2>2 DEF Frames, Phases, FrameOK
  <2>4. FramesOK(stack')
    BY <2>1, <2>3, SetTopTypes
  <2>5. QED
    BY <1>1, <2>1, <2>4, TypesSplit DEF DataTypes
<1>8. ASSUME NEW c \in Contexts, SubjectMiss(t, c)
      PROVE  TypeOK'
  <2> DEFINE f == Top(t)
             g == [f EXCEPT !.roleCtx = c, !.phase = "query"]
  <2>1. /\ InCall(t) /\ f.phase = "lookup"
        /\ Setup(c, f.att) /\ connection' = [connection EXCEPT ![c] = c]
        /\ tls' = [tls EXCEPT ![t] = c] /\ monitor' = t
        /\ SetTop(t, g)
        /\ UNCHANGED <<loader, resultSet, subjects>>
    BY <1>8 DEF SubjectMiss, In
  <2>2. g \in Frames /\ FrameOK(g)
    BY <1>2, <2>1, ConstantsAssumption DEF Frames, Phases, FrameOK
  <2>3. FramesOK(stack')
    BY <2>1, <2>2, SetTopTypes
  <2>4. QED
    BY <1>1, <1>2, <2>1, <2>3, SetupTypes, TypesSplit DEF DataTypes
<1>9. CASE SubjectMissFails(t)
  <2>1. /\ InCall(t) /\ SetupFails(Top(t).att) /\ Leave(t)
        /\ UNCHANGED <<resultSet, subjects, monitor>>
    BY <1>9 DEF SubjectMissFails, In
  <2>2. QED
    BY <1>1, <1>2, <2>1, LeaveTypes, SetupFailsTypes, TypesSplit DEF DataTypes
<1>10. CASE RoleRead(t)
  <2> DEFINE f == Top(t)
             p == Principal(f.att)
             g == [f EXCEPT !.roleCtx = None, !.subject = p, !.phase = "running"]
  <2>1. /\ InCall(t) /\ f.phase = "query"
        /\ subjects' = [subjects EXCEPT ![Key(f.att)] = p]
        /\ Close(f.roleCtx)
        /\ tls' = [tls EXCEPT ![t] = f.ctx] /\ monitor' = None
        /\ SetTop(t, g)
        /\ UNCHANGED <<loader, resultSet>>
    BY <1>10 DEF RoleRead, In
  <2>2. p \in Principals /\ p # None
    BY <1>2, <2>1, ConstantsAssumption DEF Principals
  <2>3. g \in Frames /\ FrameOK(g)
    BY <1>2, <2>1, <2>2 DEF Frames, Phases, FrameOK
  <2>4. FramesOK(stack')
    BY <2>1, <2>3, SetTopTypes
  <2>5. QED
    BY <1>1, <1>2, <2>1, <2>2, <2>4, CloseTypes, TypesSplit DEF DataTypes
<1>11. CASE RoleReadFails(t)
  <2>1. /\ InCall(t) /\ Top(t).phase = "query"
        /\ Close(Top(t).roleCtx) \/ CloseFails(Top(t).roleCtx)
        /\ monitor' = None /\ Leave(t)
        /\ UNCHANGED <<resultSet, subjects>>
    BY <1>11 DEF RoleReadFails, In
  <2>2. QED
    BY <1>1, <1>2, <2>1, LeaveTypes, CloseTypes, TypesSplit DEF DataTypes
<1>12. CASE CallEnds(t)
  <2>1. InCall(t) /\ Leave(t) /\ UNCHANGED <<contextVars, resultSet, subjectVars>>
    BY <1>12 DEF CallEnds, In
  <2>2. QED
    BY <1>1, <2>1, LeaveTypes, TypesSplit DEF DataTypes
<1>13. ASSUME NEW r \in Cursors, ResultSetReturned(t, r)
       PROVE  TypeOK'
  <2>1. /\ InCall(t) /\ Pop(t)
        /\ resultSet' = [resultSet EXCEPT ![r] = Top(t).ctx]
        /\ tls' = [tls EXCEPT ![t] = Top(t).caller]
        /\ loader' = [loader EXCEPT ![t] = Top(t).callerLoader]
        /\ UNCHANGED <<contextVars, subjectVars>>
    BY <1>13 DEF ResultSetReturned, In
  <2>2. FramesOK(stack')
    BY <2>1, PopTypes
  <2>3. QED
    BY <1>1, <1>2, <2>1, <2>2, TypesSplit DEF DataTypes
<1>14. CASE ContextClosed(t)
  <2> DEFINE f == Top(t)
  <2>1. /\ InCall(t) /\ Pop(t)
        /\ Close(f.ctx) \/ CloseFails(f.ctx)
        /\ tls' = IF f.op = "dispose" THEN [tls EXCEPT ![t] = f.caller] ELSE tls
        /\ resultSet' = [r \in Cursors |-> IF r = f.cursor THEN None ELSE resultSet[r]]
        /\ UNCHANGED <<loader, subjectVars>>
    BY <1>14 DEF ContextClosed, In
  <2>2. FramesOK(stack')
    BY <2>1, PopTypes
  <2>3. tls' \in [Threads -> Contexts \cup {None}]
    BY <1>1, <1>2, <2>1 DEF DataTypes
  <2>4. resultSet' \in [Cursors -> Contexts \cup {None}]
    BY <1>1, <2>1 DEF DataTypes
  <2>5. QED
    BY <1>1, <1>2, <2>1, <2>2, <2>3, <2>4, CloseTypes, TypesSplit DEF DataTypes
<1>15. QED
  BY <1>0, <1>3, <1>4, <1>5, <1>6, <1>7, <1>8, <1>9, <1>10, <1>11, <1>12, <1>13, <1>14
  DEF Call, Proceed

-----------------------------------------------------------------------------
(* Where the frames after a step come from.                                *)

LEMMA FramesAfterPush ==
  ASSUME TypeOK, NEW t \in Threads, NEW f \in Frames,
         stack' = [stack EXCEPT ![t] = Append(@, f)]
  PROVE  /\ Len(stack[t]) \in Nat
         /\ Len(stack'[t]) = Len(stack[t]) + 1
         /\ \A u \in Threads : u # t => Len(stack'[u]) = Len(stack[u])
         /\ \A u \in Threads : \A j \in 1..Len(stack'[u]) :
              \/ u = t /\ j = Len(stack[t]) + 1 /\ stack'[u][j] = f
              \/ j \in 1..Len(stack[u]) /\ stack'[u][j] = stack[u][j]
<1>1. stack \in Stacks
  BY DEF TypeOK, Types, Stacks
<1>2. /\ Len(stack[t]) \in Nat
      /\ Len(stack'[t]) = Len(stack[t]) + 1
      /\ stack'[t][Len(stack[t]) + 1] = f
      /\ \A u \in Threads \ {t} : stack'[u] = stack[u]
      /\ \A i \in 1..Len(stack[t]) : stack'[t][i] = stack[t][i]
  BY <1>1, Pushed
<1>3. \A i \in 1..Len(stack'[t]) : i \in 1..Len(stack[t]) \/ i = Len(stack[t]) + 1
  BY <1>2
<1>4. QED
  BY <1>2, <1>3

LEMMA FramesAfterPop ==
  ASSUME TypeOK, NEW t \in Threads, InCall(t), Pop(t)
  PROVE  /\ Len(stack[t]) \in Nat \ {0}
         /\ Len(stack'[t]) = Len(stack[t]) - 1
         /\ Top(t) = stack[t][Len(stack[t])]
         /\ \A u \in Threads : u # t => Len(stack'[u]) = Len(stack[u])
         /\ \A u \in Threads : \A j \in 1..Len(stack'[u]) :
              /\ ~(u = t /\ j = Len(stack[t]))
              /\ j \in 1..Len(stack[u]) /\ stack'[u][j] = stack[u][j]
<1>1. stack \in Stacks /\ stack[t] # <<>>
  BY DEF TypeOK, Types, Stacks, InCall
<1>2. /\ Len(stack[t]) \in Nat \ {0}
      /\ Last(stack[t]) = stack[t][Len(stack[t])]
      /\ Len(stack'[t]) = Len(stack[t]) - 1
      /\ \A u \in Threads \ {t} : stack'[u] = stack[u]
      /\ \A i \in 1..Len(stack[t]) - 1 : stack'[t][i] = stack[t][i]
  <2>1. stack' = [stack EXCEPT ![t] = Front(stack[t])]
    BY DEF Pop
  <2>2. QED
    BY <1>1, <2>1, Popped DEF Stacks
<1>3. \A i \in 1..Len(stack'[t]) :
        i \in 1..Len(stack[t]) /\ i \in 1..Len(stack[t]) - 1 /\ i # Len(stack[t])
  BY <1>2
<1>4. QED
  BY <1>2, <1>3 DEF Top

LEMMA FramesAfterSet ==
  ASSUME TypeOK, NEW t \in Threads, InCall(t), NEW f \in Frames, SetTop(t, f)
  PROVE  /\ Len(stack[t]) \in Nat \ {0}
         /\ Top(t) = stack[t][Len(stack[t])]
         /\ stack'[t][Len(stack[t])] = f
         /\ \A u \in Threads : Len(stack'[u]) = Len(stack[u])
         /\ \A u \in Threads : \A j \in 1..Len(stack'[u]) :
              /\ j \in 1..Len(stack[u])
              /\ \/ u = t /\ j = Len(stack[t]) /\ stack'[u][j] = f
                 \/ ~(u = t /\ j = Len(stack[t])) /\ stack'[u][j] = stack[u][j]
<1>1. stack \in Stacks /\ stack[t] # <<>>
  BY DEF TypeOK, Types, Stacks, InCall
<1>2. /\ Len(stack[t]) \in Nat \ {0}
      /\ Last(stack[t]) = stack[t][Len(stack[t])]
      /\ Len(stack'[t]) = Len(stack[t])
      /\ stack'[t][Len(stack[t])] = f
      /\ \A u \in Threads \ {t} : stack'[u] = stack[u]
      /\ \A i \in 1..Len(stack[t]) - 1 : stack'[t][i] = stack[t][i]
  <2>1. stack' = [stack EXCEPT ![t] = Append(Front(@), f)]
    BY DEF SetTop
  <2>2. QED
    BY <1>1, <2>1, TopSet
<1>3. \A i \in 1..Len(stack'[t]) :
        /\ i \in 1..Len(stack[t])
        /\ i = Len(stack[t]) \/ (i # Len(stack[t]) /\ i \in 1..Len(stack[t]) - 1)
  BY <1>2
<1>4. QED
  BY <1>2, <1>3 DEF Top

-----------------------------------------------------------------------------
(* Every context has one holder.                                           *)

\* What the type of a frame says of the call.
LEMMA FrameType ==
  ASSUME TypeOK
  PROVE  \A t \in Threads : \A i \in 1..Len(stack[t]) :
           /\ stack[t][i] \in Frames /\ FrameOK(stack[t][i])
           /\ stack[t][i].ctx \in Contexts
           /\ stack[t][i].att \in Attachments
           /\ stack[t][i].cursor \in Cursors \cup {None}
           /\ stack[t][i].phase = "query" => stack[t][i].roleCtx \in Contexts
<1> SUFFICES ASSUME NEW t \in Threads, NEW i \in 1..Len(stack[t])
             PROVE  /\ stack[t][i] \in Frames /\ FrameOK(stack[t][i])
                    /\ stack[t][i].ctx \in Contexts
                    /\ stack[t][i].att \in Attachments
                    /\ stack[t][i].cursor \in Cursors \cup {None}
                    /\ stack[t][i].phase = "query" => stack[t][i].roleCtx \in Contexts
  OBVIOUS
<1>1. stack[t] \in Seq(Frames)
  BY DEF TypeOK, Types
<1>2. stack[t][i] \in Frames
  BY <1>1, ElementOfSeq
<1>3. FrameOK(stack[t][i])
  BY DEF TypeOK
<1>4. QED
  BY <1>2, <1>3 DEF Frames, FrameOK

\* A new context goes to a new call.
LEMMA OwnedAfterInvoke ==
  ASSUME TypeOK, Owned, NEW t \in Threads, MayCall(t), NEW c \in Contexts,
         NEW a \in Attachments, NEW f \in Frames, Free(c),
         f.ctx = c, f.att = a, f.cursor = None, f.phase = "lookup",
         attachment' = [attachment EXCEPT ![c] = a],
         stack' = [stack EXCEPT ![t] = Append(@, f)],
         UNCHANGED <<resultSet, monitor>>
  PROVE  Owned'
<1>1. /\ Len(stack[t]) \in Nat
      /\ Len(stack'[t]) = Len(stack[t]) + 1
      /\ \A u \in Threads : u # t => Len(stack'[u]) = Len(stack[u])
      /\ \A u \in Threads : \A j \in 1..Len(stack'[u]) :
           \/ u = t /\ j = Len(stack[t]) + 1 /\ stack'[u][j] = f
           \/ j \in 1..Len(stack[u]) /\ stack'[u][j] = stack[u][j]
  BY FramesAfterPush
<1>2. attachment \in [Contexts -> Attachments \cup {None}] /\ None \notin Attachments
  BY ConstantsAssumption DEF TypeOK, Types
<1>3. attachment'[c] = a /\ \A d \in Contexts : d # c => attachment'[d] = attachment[d]
  BY <1>2
<1>4. \A u \in Threads : \A j \in 1..Len(stack[u]) :
        stack[u][j].ctx \in Contexts /\ stack[u][j].ctx # c
  BY <1>2, FrameType DEF Owned, Held, Free
<1>5. \A r \in Cursors : resultSet[r] # c
  BY <1>2, ConstantsAssumption DEF Owned, Kept, Free
<1>6. \A i \in 1..Len(stack[t]) : stack[t][i].phase # "query"
  <2>1. CASE stack[t] = <<>>
    BY <2>1, EmptySeq
  <2>2. CASE In(t, "running")
    BY <2>2, TopType DEF In, Owned, Queries
  <2>3. QED
    BY <2>1, <2>2 DEF MayCall, InCall
<1>7. Held'
  BY <1>1, <1>3, <1>4 DEF Owned, Held
<1>8. Distinct'
  BY <1>1, <1>4 DEF Owned, Distinct
<1>9. Kept'
  <2>1. ASSUME NEW r \in Cursors, resultSet[r] # None
        PROVE  resultSet[r] \in Contexts /\ resultSet[r] # c
    BY <1>5, <2>1 DEF TypeOK, Types
  <2>2. QED
    BY <1>1, <1>3, <2>1 DEF Owned, Kept
<1>10. Queries'
  <2>1. ASSUME NEW u \in Threads, NEW j \in 1..Len(stack'[u]),
               stack'[u][j].phase = "query"
        PROVE  u # t /\ j \in 1..Len(stack[u]) /\ stack'[u][j] = stack[u][j]
    BY <1>1, <1>6, <2>1
  <2>2. ASSUME NEW u \in Threads, NEW j \in 1..Len(stack[u]),
               stack[u][j].phase = "query"
        PROVE  stack[u][j].roleCtx \in Contexts /\ stack[u][j].roleCtx # c
    BY <1>2, <2>2, FrameType DEF Owned, Queries, Free
  <2>3. QED
    BY <1>1, <1>3, <2>1, <2>2, SMTT(30) DEF Owned, Queries
<1>11. QED
  BY <1>7, <1>8, <1>9, <1>10 DEF Owned

\* The context of a result set is shared with the only call made on it.
LEMMA OwnedAfterEnter ==
  ASSUME TypeOK, Owned, NEW t \in Threads, NEW r \in Cursors, resultSet[r] # None,
         ~InUse(r), NEW f \in Frames,
         \A i \in 1..Len(stack[t]) : stack[t][i].phase # "query",
         f.ctx = resultSet[r], f.att = attachment[resultSet[r]], f.cursor = r,
         f.phase = "lookup",
         stack' = [stack EXCEPT ![t] = Append(@, f)],
         UNCHANGED <<attachment, resultSet, monitor>>
  PROVE  Owned'
<1>1. /\ Len(stack[t]) \in Nat
      /\ Len(stack'[t]) = Len(stack[t]) + 1
      /\ \A u \in Threads : u # t => Len(stack'[u]) = Len(stack[u])
      /\ \A u \in Threads : \A j \in 1..Len(stack'[u]) :
           \/ u = t /\ j = Len(stack[t]) + 1 /\ stack'[u][j] = f
           \/ j \in 1..Len(stack[u]) /\ stack'[u][j] = stack[u][j]
  BY FramesAfterPush
<1>2. \A u \in Threads : \A j \in 1..Len(stack[u]) :
        stack[u][j].cursor # r /\ stack[u][j].ctx # resultSet[r]
  BY DEF InUse, Owned, Kept
<1>3. Held'
  BY <1>1 DEF Owned, Held
<1>4. Distinct'
  BY <1>1, <1>2 DEF Owned, Distinct
<1>5. Kept'
  BY <1>1 DEF Owned, Kept
<1>6. Queries'
  <2>1. ASSUME NEW u \in Threads, NEW j \in 1..Len(stack'[u]),
               stack'[u][j].phase = "query"
        PROVE  u # t /\ j \in 1..Len(stack[u]) /\ stack'[u][j] = stack[u][j]
    BY <1>1, <2>1
  <2>2. QED
    BY <1>1, <2>1 DEF Owned, Queries
<1>7. QED
  BY <1>3, <1>4, <1>5, <1>6 DEF Owned

\* The last call goes on to the routine or returns, its query made.
LEMMA OwnedAfterSettle ==
  ASSUME TypeOK, Owned, NEW t \in Threads, InCall(t),
         \/ Pop(t)
         \/ \E f \in Frames :
              /\ SetTop(t, f)
              /\ f.ctx = Top(t).ctx /\ f.att = Top(t).att /\ f.cursor = Top(t).cursor
              /\ f.phase # "query",
         UNCHANGED resultSet,
         \/ Top(t).phase # "query" /\ UNCHANGED <<attachment, monitor>>
         \/ /\ Top(t).phase = "query"
            /\ attachment' = [attachment EXCEPT ![Top(t).roleCtx] = None]
            /\ monitor' = None
  PROVE  Owned'
<1> DEFINE n == Len(stack[t])
<1>1. n \in Nat \ {0} /\ Top(t) = stack[t][n] /\ n \in 1..n
  BY TopType
<1>2. \A u \in Threads : \A j \in 1..Len(stack'[u]) :
        /\ j \in 1..Len(stack[u])
        /\ stack'[u][j].ctx = stack[u][j].ctx
        /\ stack'[u][j].att = stack[u][j].att
        /\ stack'[u][j].cursor = stack[u][j].cursor
        /\ stack'[u][j].phase = "query" =>
             stack'[u][j] = stack[u][j] /\ ~(u = t /\ j = n)
  <2>1. CASE Pop(t)
    BY <2>1, FramesAfterPop
  <2>2. ASSUME NEW f \in Frames, SetTop(t, f),
               f.ctx = Top(t).ctx, f.att = Top(t).att, f.cursor = Top(t).cursor,
               f.phase # "query"
        PROVE  \A u \in Threads : \A j \in 1..Len(stack'[u]) :
                 /\ j \in 1..Len(stack[u])
                 /\ stack'[u][j].ctx = stack[u][j].ctx
                 /\ stack'[u][j].att = stack[u][j].att
                 /\ stack'[u][j].cursor = stack[u][j].cursor
                 /\ stack'[u][j].phase = "query" =>
                      stack'[u][j] = stack[u][j] /\ ~(u = t /\ j = n)
    BY <2>2, FramesAfterSet
  <2>3. QED
    BY <2>1, <2>2
<1>3. \A u \in Threads : u # t => Len(stack'[u]) = Len(stack[u])
  BY FramesAfterPop, FramesAfterSet
<1>4. \A u \in Threads : \A j \in 1..Len(stack[u]) :
        stack[u][j].phase = "query" /\ ~(u = t /\ j = n) => u # t /\ monitor = u
  BY DEF Owned, Queries
<1> HIDE DEF n
<1>5. Distinct'
  <2>1. SUFFICES ASSUME NEW u \in Threads, NEW v \in Threads,
                        NEW i \in 1..Len(stack'[u]), NEW j \in 1..Len(stack'[v]),
                        stack'[u][i].ctx = stack'[v][j].ctx
                 PROVE  u = v /\ i = j
    BY DEF Distinct
  <2>2. i \in 1..Len(stack[u]) /\ stack'[u][i].ctx = stack[u][i].ctx
    BY <1>2
  <2>3. j \in 1..Len(stack[v]) /\ stack'[v][j].ctx = stack[v][j].ctx
    BY <1>2
  <2>4. stack[u][i].ctx = stack[v][j].ctx
    BY <2>1, <2>2, <2>3, Zenon
  <2>5. Distinct
    BY DEF Owned
  <2>6. \A x, y \in Threads : \A k \in 1..Len(stack[x]), m \in 1..Len(stack[y]) :
          stack[x][k].ctx = stack[y][m].ctx => x = y /\ k = m
    BY <2>5 DEF Distinct
  <2> QED
    BY <2>2, <2>3, <2>4, <2>6
<1>6. \/ Top(t).phase # "query" /\ UNCHANGED <<attachment, monitor>>
      \/ /\ Top(t).phase = "query" /\ monitor = t /\ Top(t).roleCtx \in Contexts
         /\ \A c \in Contexts : c # Top(t).roleCtx => attachment'[c] = attachment[c]
         /\ \A u \in Threads : \A j \in 1..Len(stack[u]) :
              stack[u][j].ctx # Top(t).roleCtx
         /\ \A r \in Cursors : resultSet[r] # Top(t).roleCtx
  <2>1. Top(t).phase = "query" => Top(t).roleCtx \in Contexts
    BY <1>1, FrameType DEF n
  <2>2. CASE Top(t).phase = "query"
    <3>1. /\ monitor = t
          /\ \A u \in Threads : \A j \in 1..Len(stack[u]) :
               stack[u][j].ctx # Top(t).roleCtx
          /\ \A r \in Cursors : resultSet[r] # Top(t).roleCtx
      <4>1. stack[t][n].phase = "query" /\ n \in 1..Len(stack[t])
        BY <1>1, <2>2 DEF n
      <4> QED
        BY <1>1, <4>1 DEF Owned, Queries
    <3>2. \A c \in Contexts : c # Top(t).roleCtx => attachment'[c] = attachment[c]
      BY <2>1, <2>2 DEF TypeOK, Types
    <3> QED
      BY <2>1, <2>2, <3>1, <3>2
  <2>3. QED
    BY <2>2
<1>7. Held'
  BY <1>2, <1>6, FrameType DEF Owned, Held
<1>8. Kept'
  <2>1. ASSUME NEW r \in Cursors, resultSet[r] # None
        PROVE  attachment'[resultSet[r]] = attachment[resultSet[r]]
    BY <1>6, <2>1 DEF TypeOK, Types
  <2>2. QED
    BY <1>2, <2>1 DEF Owned, Kept
<1>9. Queries'
  <2>1. ASSUME NEW u \in Threads, NEW j \in 1..Len(stack'[u]),
               stack'[u][j].phase = "query"
        PROVE  /\ u # t /\ j \in 1..Len(stack[u]) /\ stack'[u][j] = stack[u][j]
               /\ UNCHANGED <<attachment, monitor>>
               /\ Len(stack'[u]) = Len(stack[u])
    BY <1>2, <1>3, <1>4, <1>6, <2>1
  <2>2. QED
    BY <1>2, <2>1 DEF Owned, Queries
<1>10. QED
  BY <1>5, <1>7, <1>8, <1>9 DEF Owned

\* The last call makes its role query with a new context.
LEMMA OwnedAfterMiss ==
  ASSUME TypeOK, Owned, NEW t \in Threads, In(t, "lookup"), monitor = None,
         NEW c \in Contexts, Free(c), NEW f \in Frames,
         f.ctx = Top(t).ctx, f.att = Top(t).att, f.cursor = Top(t).cursor,
         f.roleCtx = c, SetTop(t, f),
         attachment' = [attachment EXCEPT ![c] = f.att],
         monitor' = t, UNCHANGED resultSet
  PROVE  Owned'
<1> DEFINE n == Len(stack[t])
<1>1. /\ n \in Nat \ {0} /\ n \in 1..n
      /\ Top(t) = stack[t][n] /\ stack'[t][n] = f
      /\ \A u \in Threads : Len(stack'[u]) = Len(stack[u])
      /\ \A u \in Threads : \A j \in 1..Len(stack'[u]) :
           /\ j \in 1..Len(stack[u])
           /\ \/ u = t /\ j = n /\ stack'[u][j] = f
              \/ ~(u = t /\ j = n) /\ stack'[u][j] = stack[u][j]
  BY FramesAfterSet DEF In
<1>2. \A u \in Threads : \A j \in 1..Len(stack'[u]) :
        /\ j \in 1..Len(stack[u])
        /\ stack'[u][j].ctx = stack[u][j].ctx
        /\ stack'[u][j].att = stack[u][j].att
        /\ stack'[u][j].cursor = stack[u][j].cursor
  BY <1>1
<1>3. attachment \in [Contexts -> Attachments \cup {None}] /\ None \notin Attachments
  BY ConstantsAssumption DEF TypeOK, Types
<1>4. attachment'[c] = f.att /\ \A d \in Contexts : d # c => attachment'[d] = attachment[d]
  BY <1>3
<1>5. \A u \in Threads : \A j \in 1..Len(stack[u]) :
        stack[u][j].ctx \in Contexts /\ stack[u][j].ctx # c
  BY <1>3, FrameType DEF Owned, Held, Free
<1>6. \A r \in Cursors : resultSet[r] # c
  BY <1>3, ConstantsAssumption DEF Owned, Kept, Free
<1>7. \A u \in Threads : \A j \in 1..Len(stack[u]) : stack[u][j].phase # "query"
  BY ConstantsAssumption DEF Owned, Queries
<1> HIDE DEF n
<1>8. Held'
  BY <1>2, <1>4, <1>5 DEF Owned, Held
<1>9. Distinct'
  BY <1>2 DEF Owned, Distinct
<1>10. Kept'
  <2>1. ASSUME NEW r \in Cursors, resultSet[r] # None
        PROVE  resultSet[r] \in Contexts /\ resultSet[r] # c
    BY <1>6, <2>1 DEF TypeOK, Types
  <2>2. QED
    BY <1>2, <1>4, <2>1 DEF Owned, Kept
<1>11. Queries'
  <2>1. ASSUME NEW u \in Threads, NEW j \in 1..Len(stack'[u]),
               stack'[u][j].phase = "query"
        PROVE  u = t /\ j = n /\ stack'[u][j] = f
    BY <1>1, <1>7, <2>1
  <2>2. \A u \in Threads : \A j \in 1..Len(stack'[u]) : stack'[u][j].ctx # c
    BY <1>2, <1>5
  <2>3. n = Len(stack'[t])
    BY <1>1 DEF n
  <2>4. QED
    BY <1>4, <1>6, <2>1, <2>2, <2>3 DEF Queries
<1>12. QED
  BY <1>8, <1>9, <1>10, <1>11 DEF Owned

\* A call hands its context over to a result set.
LEMMA OwnedAfterReturned ==
  ASSUME TypeOK, Owned, NEW t \in Threads, InCall(t), Top(t).op = "open", Pop(t),
         NEW r \in Cursors, resultSet[r] = None,
         resultSet' = [resultSet EXCEPT ![r] = Top(t).ctx],
         UNCHANGED <<attachment, monitor>>
  PROVE  Owned'
<1> DEFINE n == Len(stack[t])
           c == Top(t).ctx
<1>1. /\ n \in Nat \ {0} /\ n \in 1..n
      /\ Top(t) = stack[t][n]
      /\ \A u \in Threads : u # t => Len(stack'[u]) = Len(stack[u])
      /\ \A u \in Threads : \A j \in 1..Len(stack'[u]) :
           /\ ~(u = t /\ j = n)
           /\ j \in 1..Len(stack[u]) /\ stack'[u][j] = stack[u][j]
  BY FramesAfterPop
<1>2. /\ c \in Contexts /\ attachment[c] \in Attachments /\ Top(t).cursor = None
      /\ c # None
  BY <1>1, FrameType, ConstantsAssumption DEF FrameOK, Invocations, Owned, Held
<1>3. /\ \A u \in Threads : \A j \in 1..Len(stack'[u]) : stack[u][j].ctx # c
      /\ \A q \in Cursors : resultSet[q] # c
  <2>1. \A u \in Threads : \A j \in 1..Len(stack'[u]) : stack[u][j].ctx # c
    BY <1>1 DEF Owned, Distinct
  <2>2. \A q \in Cursors : resultSet[q] # c
    BY <1>1, <1>2, ConstantsAssumption DEF Owned, Kept
  <2>3. QED
    BY <2>1, <2>2
<1>4. resultSet'[r] = c /\ \A q \in Cursors : q # r => resultSet'[q] = resultSet[q]
  BY DEF TypeOK, Types
<1>5. \A u \in Threads : \A j \in 1..Len(stack[u]) :
        stack[u][j].ctx # None /\ stack[u][j].cursor # r
  BY FrameType, ConstantsAssumption DEF Owned, Held
<1>6. \A u \in Threads : \A j \in 1..Len(stack[u]) :
        stack[u][j].phase = "query" => stack[u][j].roleCtx # c
  BY <1>1 DEF Owned, Queries
<1> HIDE DEF n, c
<1>7. Held'
  BY <1>1, <1>4, <1>5, FrameType DEF Owned, Held
<1>8. Distinct'
  BY <1>1, SMTT(30) DEF Owned, Distinct
<1>9. Kept'
  BY <1>1, <1>2, <1>3, <1>4 DEF Owned, Kept
<1>10. Queries'
  <2>1. ASSUME NEW u \in Threads, NEW j \in 1..Len(stack'[u]),
               stack'[u][j].phase = "query"
        PROVE  /\ j \in 1..Len(stack[u]) /\ stack'[u][j] = stack[u][j]
               /\ Len(stack'[u]) = Len(stack[u])
    <3>1. u # t
      BY <1>1, <2>1 DEF Owned, Queries, n
    <3>2. QED
      BY <1>1, <3>1
  <2>2. ASSUME NEW u \in Threads, NEW j \in 1..Len(stack'[u]),
               stack'[u][j].phase = "query"
        PROVE  /\ monitor' = u /\ j = Len(stack'[u])
               /\ attachment'[stack'[u][j].roleCtx] = stack'[u][j].att
               /\ \A v \in Threads : \A i \in 1..Len(stack'[v]) :
                    stack'[v][i].ctx # stack'[u][j].roleCtx
               /\ \A q \in Cursors : resultSet'[q] # stack'[u][j].roleCtx
    <3>1. /\ j \in 1..Len(stack[u]) /\ stack'[u][j] = stack[u][j]
          /\ Len(stack'[u]) = Len(stack[u])
      BY <2>1, <2>2
    <3>2. /\ monitor = u /\ j = Len(stack[u])
          /\ attachment[stack[u][j].roleCtx] = stack[u][j].att
      BY <2>2, <3>1 DEF Owned, Queries
    <3>3. \A v \in Threads : \A i \in 1..Len(stack'[v]) :
            stack'[v][i].ctx # stack[u][j].roleCtx
      BY <1>1, <2>2, <3>1 DEF Owned, Queries
    <3>4. \A q \in Cursors : resultSet[q] # stack[u][j].roleCtx
      BY <2>2, <3>1 DEF Owned, Queries
    <3>5. stack[u][j].roleCtx # c
      BY <1>6, <2>2, <3>1
    <3>6. QED
      BY <1>4, <3>1, <3>2, <3>3, <3>4, <3>5
  <2>3. QED
    BY <2>2 DEF Queries
<1>11. QED
  BY <1>7, <1>8, <1>9, <1>10 DEF Owned

\* The last call closes its context, and the result set it was made on ends.
LEMMA OwnedAfterClosed ==
  ASSUME TypeOK, Owned, NEW t \in Threads, InCall(t), Top(t).phase # "query", Pop(t),
         resultSet' = [r \in Cursors |-> IF r = Top(t).cursor THEN None ELSE resultSet[r]],
         attachment' = [attachment EXCEPT ![Top(t).ctx] = None],
         UNCHANGED monitor
  PROVE  Owned'
<1> DEFINE n == Len(stack[t])
           f == Top(t)
<1>1. /\ n \in Nat \ {0} /\ n \in 1..n
      /\ f = stack[t][n]
      /\ \A u \in Threads : u # t => Len(stack'[u]) = Len(stack[u])
      /\ \A u \in Threads : \A j \in 1..Len(stack'[u]) :
           /\ ~(u = t /\ j = n)
           /\ j \in 1..Len(stack[u]) /\ stack'[u][j] = stack[u][j]
  BY FramesAfterPop
<1>2. \A c \in Contexts : c # f.ctx => attachment'[c] = attachment[c]
  BY DEF TypeOK, Types
<1>3. \A r \in Cursors : r # f.cursor => resultSet'[r] = resultSet[r] /\ resultSet[r] # f.ctx
  <2>1. f.ctx # None
    BY <1>1, FrameType, ConstantsAssumption
  <2>2. QED
    BY <1>1, <2>1 DEF Owned, Kept
<1>4. \A r \in Cursors : r = f.cursor => resultSet'[r] = None
  OBVIOUS
<1>5. \A u \in Threads : \A j \in 1..Len(stack'[u]) :
        /\ stack[u][j].ctx \in Contexts /\ stack[u][j].ctx # f.ctx
        /\ stack[u][j].cursor # None =>
             stack[u][j].cursor # f.cursor /\ stack[u][j].cursor \in Cursors
  <2>1. ASSUME NEW u \in Threads, NEW j \in 1..Len(stack'[u])
        PROVE  stack[u][j].ctx \in Contexts /\ stack[u][j].ctx # f.ctx
    BY <1>1, FrameType DEF Owned, Distinct
  <2>2. ASSUME NEW u \in Threads, NEW j \in 1..Len(stack'[u]), stack[u][j].cursor # None
        PROVE  stack[u][j].cursor # f.cursor /\ stack[u][j].cursor \in Cursors
    <3>1. /\ resultSet[stack[u][j].cursor] = stack[u][j].ctx
          /\ f.cursor # None => resultSet[f.cursor] = f.ctx
          /\ stack[u][j].cursor \in Cursors
      BY <1>1, <2>2, FrameType DEF Owned, Held
    <3>2. QED
      BY <2>1, <2>2, <3>1
  <2>3. QED
    BY <2>1, <2>2
<1>6. \A u \in Threads : \A j \in 1..Len(stack[u]) :
        stack[u][j].phase = "query" =>
          u # t /\ stack[u][j].roleCtx \in Contexts /\ stack[u][j].roleCtx # f.ctx
  BY <1>1, FrameType DEF Owned, Queries
<1> HIDE DEF n, f
<1>7. Held'
  BY <1>1, <1>2, <1>3, <1>5, SMTT(30) DEF Owned, Held
<1>8. Distinct'
  <2>1. \A u \in Threads : \A j \in 1..Len(stack'[u]) :
          j \in 1..Len(stack[u]) /\ stack'[u][j] = stack[u][j]
    BY <1>1
  <2>2. QED
    BY <2>1, SMTT(30) DEF Owned, Distinct
<1>9. Kept'
  <2>1. ASSUME NEW r \in Cursors, resultSet'[r] # None
        PROVE  /\ resultSet'[r] = resultSet[r]
               /\ attachment'[resultSet[r]] = attachment[resultSet[r]]
    BY <1>2, <1>3, <1>4, <2>1 DEF TypeOK, Types
  <2>2. QED
    BY <1>1, <2>1 DEF Owned, Kept
<1>10. Queries'
  <2>1. ASSUME NEW r \in Cursors, NEW c \in Contexts, resultSet[r] # c
        PROVE  resultSet'[r] # c
    BY <1>3, <1>4, <2>1, ConstantsAssumption
  <2>2. ASSUME NEW u \in Threads, NEW j \in 1..Len(stack'[u]),
               stack'[u][j].phase = "query"
        PROVE  /\ monitor' = u /\ j = Len(stack'[u])
               /\ attachment'[stack'[u][j].roleCtx] = stack'[u][j].att
               /\ \A v \in Threads : \A i \in 1..Len(stack'[v]) :
                    stack'[v][i].ctx # stack'[u][j].roleCtx
               /\ \A r \in Cursors : resultSet'[r] # stack'[u][j].roleCtx
    <3>1. /\ j \in 1..Len(stack[u]) /\ stack'[u][j] = stack[u][j]
          /\ u # t /\ Len(stack'[u]) = Len(stack[u])
          /\ stack[u][j].roleCtx \in Contexts /\ stack[u][j].roleCtx # f.ctx
      BY <1>1, <1>6, <2>2
    <3>2. monitor = u /\ j = Len(stack[u])
      BY <2>2, <3>1 DEF Owned, Queries
    <3>3. attachment[stack[u][j].roleCtx] = stack[u][j].att
      BY <2>2, <3>1 DEF Owned, Queries
    <3>4. \A v \in Threads : \A i \in 1..Len(stack'[v]) :
            stack'[v][i].ctx # stack[u][j].roleCtx
      BY <1>1, <2>2, <3>1 DEF Owned, Queries
    <3>5. \A r \in Cursors : resultSet[r] # stack[u][j].roleCtx
      BY <2>2, <3>1 DEF Owned, Queries
    <3>6. QED
      BY <1>2, <2>1, <3>1, <3>2, <3>3, <3>4, <3>5
  <2>3. QED
    BY <2>2 DEF Queries
<1>11. QED
  BY <1>7, <1>8, <1>9, <1>10 DEF Owned

LEMMA NoCallsFirst ==
  ASSUME Init
  PROVE  \A t \in Threads : stack[t] = <<>> /\ Len(stack[t]) = 0
<1>1. Len(<<>>) = 0
  BY EmptySeq
<1>2. QED
  BY <1>1 DEF Init

LEMMA OwnedFirst ==
  Init => Owned
BY NoCallsFirst DEF Init, Owned, Held, Distinct, Kept, Queries

LEMMA OwnedUnchanged ==
  ASSUME Owned, UNCHANGED <<stack, attachment, resultSet, monitor>>
  PROVE  Owned'
BY DEF Owned, Held, Distinct, Kept, Queries

\* A thread may call when its last call is not in its role query.
LEMMA NoQueryBelow ==
  ASSUME TypeOK, Owned, NEW t \in Threads, ~InCall(t) \/ Top(t).phase # "query"
  PROVE  \A i \in 1..Len(stack[t]) : stack[t][i].phase # "query"
<1>1. CASE ~InCall(t)
  BY <1>1, EmptySeq DEF InCall
<1>2. CASE InCall(t)
  BY <1>2, TopType DEF Owned, Queries
<1>3. QED
  BY <1>1, <1>2

LEMMA OwnedAfterLeave ==
  ASSUME TypeOK, Owned, NEW t \in Threads, InCall(t), Leave(t), UNCHANGED resultSet,
         \/ Top(t).phase # "query" /\ UNCHANGED <<attachment, monitor>>
         \/ /\ Top(t).phase = "query"
            /\ attachment' = [attachment EXCEPT ![Top(t).roleCtx] = None]
            /\ monitor' = None
  PROVE  Owned'
<1> DEFINE f == Top(t)
<1>1. f \in Frames
  BY TopType
<1>2. Closing(f) \in Frames
  BY <1>1 DEF Frames, Phases, Closing
<1>3. /\ Closing(f).ctx = f.ctx /\ Closing(f).att = f.att
      /\ Closing(f).cursor = f.cursor /\ Closing(f).phase # "query"
  BY <1>1 DEF Frames, Closing
<1>4. Pop(t) \/ SetTop(t, Closing(f))
  BY <1>1, LeaveCases
<1>5. QED
  BY <1>2, <1>3, <1>4, OwnedAfterSettle

LEMMA OwnedKept ==
  ASSUME TypeOK, Owned, Next
  PROVE  Owned'
<1>0. PICK t \in Threads : Call(t) \/ GetConnection(t) \/ Proceed(t)
  BY DEF Next
<1> USE DEF threadVars, contextVars, subjectVars
<1>1. ASSUME InCall(t)
      PROVE  Top(t) \in Frames /\ FrameOK(Top(t))
  BY <1>1, TopType
<1>2. ASSUME NEW op \in Invocations, NEW a \in Attachments, NEW c \in Contexts,
             Invoke(t, op, a, c)
      PROVE  Owned'
  <2> DEFINE f == NewFrame(op, a, c, None, tls[t], loader[t])
  <2>1. /\ MayCall(t) /\ Setup(c, a) /\ Enter(t, op, c, a, None)
        /\ UNCHANGED <<connection, resultSet, subjectVars>>
    BY <1>2 DEF Invoke
  <2>2. f \in Frames
    BY DEF TypeOK, Types, Frames, NewFrame, Operations, Phases
  <2>3. f.ctx = c /\ f.att = a /\ f.cursor = None /\ f.phase = "lookup"
    BY DEF NewFrame
  <2>4. stack' = [stack EXCEPT ![t] = Append(@, f)]
    BY <2>1 DEF Enter, NewFrame
  <2> HIDE DEF f
  <2>5. QED
    BY <2>1, <2>2, <2>3, <2>4, OwnedAfterInvoke DEF Setup
<1>3. ASSUME NEW r \in Cursors, Fetch(t, r) \/ Dispose(t, r)
      PROVE  Owned'
  <2>1. PICK op \in {"fetch", "dispose"} :
          Enter(t, op, resultSet[r], attachment[resultSet[r]], r)
    BY <1>3 DEF Fetch, Dispose
  <2> DEFINE f == NewFrame(op, attachment[resultSet[r]], resultSet[r], r, tls[t], loader[t])
  <2>2. /\ resultSet[r] # None /\ ~InUse(r)
        /\ UNCHANGED <<contextVars, resultSet, subjectVars>>
    BY <1>3 DEF Fetch, Dispose
  <2>3. resultSet[r] \in Contexts /\ attachment[resultSet[r]] \in Attachments
    BY <2>2 DEF Owned, Kept, TypeOK, Types
  <2>4. f \in Frames
    BY <2>3 DEF TypeOK, Types, Frames, NewFrame, Operations, Phases
  <2>5. /\ f.ctx = resultSet[r] /\ f.att = attachment[resultSet[r]]
        /\ f.cursor = r /\ f.phase = "lookup"
    BY DEF NewFrame
  <2>6. stack' = [stack EXCEPT ![t] = Append(@, f)]
    BY <2>1 DEF Enter, NewFrame
  <2>7. ~InCall(t) \/ Top(t).phase # "query"
    BY <1>3 DEF Fetch, Dispose, MayCall, MayDispose, In
  <2> HIDE DEF f
  <2>8. QED
    BY <2>2, <2>4, <2>5, <2>6, <2>7, NoQueryBelow, OwnedAfterEnter
<1>4. CASE SubjectHit(t)
  <2> DEFINE f == Top(t)
             g == [f EXCEPT !.subject = subjects[Key(f.att)], !.phase = "running"]
  <2>1. /\ InCall(t) /\ f.phase = "lookup" /\ subjects[Key(f.att)] # None
        /\ SetTop(t, g)
        /\ UNCHANGED <<tls, loader, contextVars, resultSet, subjectVars>>
    BY <1>4 DEF SubjectHit, In
  <2>2. f \in Frames /\ subjects[Key(f.att)] \in Principals
    <3>1. f \in Frames /\ Key(f.att) \in Keys
      BY <1>1, <2>1 DEF Frames, Keys
    <3>2. QED
      BY <2>1, <3>1 DEF TypeOK, Types
  <2>3. /\ g \in Frames /\ g.ctx = f.ctx /\ g.att = f.att
        /\ g.cursor = f.cursor /\ g.phase # "query"
    BY <2>2 DEF Frames, Phases
  <2>4. QED
    BY <2>1, <2>3, OwnedAfterSettle
<1>5. ASSUME NEW c \in Contexts, SubjectMiss(t, c)
      PROVE  Owned'
  <2> DEFINE f == Top(t)
             g == [f EXCEPT !.roleCtx = c, !.phase = "query"]
  <2>1. /\ In(t, "lookup") /\ monitor = None
        /\ Setup(c, f.att) /\ monitor' = t
        /\ SetTop(t, g)
        /\ UNCHANGED resultSet
    BY <1>5 DEF SubjectMiss
  <2>2. f \in Frames
    BY <1>1, <2>1 DEF In
  <2>3. /\ g \in Frames /\ g.ctx = f.ctx /\ g.att = f.att
        /\ g.cursor = f.cursor /\ g.roleCtx = c
    BY <2>2 DEF Frames, Phases
  <2>4. QED
    BY <2>1, <2>3, OwnedAfterMiss DEF Setup
<1>6. CASE SubjectMissFails(t)
  <2>1. /\ InCall(t) /\ Top(t).phase = "lookup" /\ Leave(t)
        /\ UNCHANGED <<attachment, resultSet, monitor>>
    BY <1>6 DEF SubjectMissFails, SetupFails, In
  <2>2. QED
    BY <2>1, OwnedAfterLeave
<1>7. CASE RoleRead(t)
  <2> DEFINE f == Top(t)
             p == Principal(f.att)
             g == [f EXCEPT !.roleCtx = None, !.subject = p, !.phase = "running"]
  <2>1. /\ InCall(t) /\ f.phase = "query"
        /\ Close(f.roleCtx) /\ monitor' = None
        /\ SetTop(t, g)
        /\ UNCHANGED resultSet
    BY <1>7 DEF RoleRead, In
  <2>2. f \in Frames /\ p \in Principals
    BY <1>1, <2>1 DEF Frames, Principals
  <2>3. /\ g \in Frames /\ g.ctx = f.ctx /\ g.att = f.att
        /\ g.cursor = f.cursor /\ g.phase # "query"
    BY <2>2 DEF Frames, Phases
  <2>4. attachment' = [attachment EXCEPT ![f.roleCtx] = None]
    BY <2>1 DEF Close, Forget
  <2>5. QED
    BY <2>1, <2>3, <2>4, OwnedAfterSettle
<1>8. CASE RoleReadFails(t)
  <2>1. /\ InCall(t) /\ Top(t).phase = "query"
        /\ Forget(Top(t).roleCtx)
        /\ monitor' = None /\ Leave(t) /\ UNCHANGED resultSet
    BY <1>8 DEF RoleReadFails, In, Close, CloseFails
  <2>2. QED
    BY <2>1, OwnedAfterLeave DEF Forget
<1>9. CASE CallEnds(t)
  <2>1. /\ InCall(t) /\ Top(t).phase # "query" /\ Leave(t)
        /\ UNCHANGED <<contextVars, resultSet, subjectVars>>
    BY <1>9 DEF CallEnds, In
  <2>2. QED
    BY <2>1, OwnedAfterLeave
<1>10. ASSUME NEW r \in Cursors, ResultSetReturned(t, r)
       PROVE  Owned'
  <2>1. /\ InCall(t) /\ Top(t).op = "open" /\ resultSet[r] = None /\ Pop(t)
        /\ resultSet' = [resultSet EXCEPT ![r] = Top(t).ctx]
        /\ UNCHANGED <<contextVars, subjectVars>>
    BY <1>10 DEF ResultSetReturned, In
  <2>2. QED
    BY <2>1, OwnedAfterReturned
<1>11. CASE ContextClosed(t)
  <2>1. /\ InCall(t) /\ Top(t).phase # "query" /\ Pop(t)
        /\ Forget(Top(t).ctx)
        /\ resultSet' = [r \in Cursors |-> IF r = Top(t).cursor THEN None ELSE resultSet[r]]
        /\ UNCHANGED <<loader, subjectVars>>
    BY <1>11 DEF ContextClosed, In, Close, CloseFails
  <2>2. QED
    BY <2>1, OwnedAfterClosed DEF Forget
<1>12. ASSUME GetConnection(t) \/ \E a \in Attachments : InvokeFails(t, a)
       PROVE  Owned'
  BY <1>12, OwnedUnchanged DEF GetConnection, InvokeFails, SetupFails
<1>13. QED
  BY <1>0, <1>2, <1>3, <1>4, <1>5, <1>6, <1>7, <1>8, <1>9, <1>10, <1>11, <1>12
  DEF Call, Proceed

\* Contexts are open while a call or a result set holds them, and have one
\* holder: the invariant that types rest on.
Inductive == TypeOK /\ Owned

LEMMA InductiveHolds ==
  Spec => []Inductive
<1>1. Init => Inductive
  BY TypesFirst, OwnedFirst DEF Inductive
<1>2. Inductive /\ [Next]_vars => Inductive'
  <2>1. ASSUME Inductive, Next
        PROVE  Inductive'
    BY <2>1, TypesKept, OwnedKept DEF Inductive, Owned
  <2>2. ASSUME Inductive, UNCHANGED vars
        PROVE  Inductive'
    <3>1. UNCHANGED <<stack, tls, loader, attachment, transaction, connection, resultSet,
                      attachmentRefs, transactionRefs, subjects, monitor>>
      BY <2>2 DEF vars, threadVars, contextVars, subjectVars
    <3>2. TypeOK'
      BY <2>2, <3>1, TypesSplit DEF Inductive, DataTypes
    <3>3. Owned'
      BY <2>2, <3>1, OwnedUnchanged DEF Inductive
    <3>4. QED
      BY <3>2, <3>3 DEF Inductive
  <2>3. QED
    BY <2>1, <2>2
<1>3. QED
  BY <1>1, <1>2, PTL DEF Spec

\* No call of a routine, fetch or dispose meets a null: the variables keep
\* their types, and a running call has its Subject, a role query its context,
\* fetch and dispose their result set.
THEOREM CallTypesCorrect == Spec => []TypeOK
<1>1. Inductive => TypeOK
  BY DEF Inductive
<1>2. QED
  BY <1>1, InductiveHolds, PTL

\* The context of a call or of a result set is open and has that holder only,
\* however calls nest and whoever fetches from a result set
\* (ExternalProcedure.open's closeContext, ExternalResultSetWrapper).
THEOREM OneHolder == Spec => []ContextsHaveOneHolder
<1>1. Inductive => ContextsHaveOneHolder
  <2> SUFFICES ASSUME Inductive PROVE ContextsHaveOneHolder
    OBVIOUS
  <2>1. None \notin Attachments
    BY ConstantsAssumption
  <2>2. QED
    BY <2>1 DEF Inductive, Owned, Held, Kept, ContextsHaveOneHolder, Free
<1>2. QED
  BY <1>1, InductiveHolds, PTL

-----------------------------------------------------------------------------
(* The ThreadLocal and the class loader follow the calls.                  *)

LEMMA ChainedPush ==
  ASSUME NEW s \in Seq(Frames), NEW cur, NEW cl, ChainedIn(s, cur, cl),
         NEW f \in Frames, f.caller = cur, f.callerLoader = cl
  PROVE  ChainedIn(Append(s, f), TlsIn(f), LoaderIn(f))
<1> DEFINE s2 == Append(s, f)
<1>1. /\ s2 # <<>> /\ Len(s2) = Len(s) + 1 /\ Len(s) \in Nat
      /\ s2[Len(s) + 1] = f /\ Last(s2) = f
      /\ \A i \in 1..Len(s) : s2[i] = s[i]
  BY AppendToCalls, LenProperties
<1> HIDE DEF s2
<1>2. CASE s = <<>>
  <2>1. Len(s) = 0
    BY <1>2, EmptySeq
  <2>2. 1..Len(s2) - 1 = {}
    BY <1>1, <2>1
  <2>3. QED
    BY <1>1, <1>2, <2>1, <2>2 DEF ChainedIn, s2
<1>3. CASE s # <<>>
  <2>1. /\ Len(s) \in Nat \ {0} /\ Last(s) = s[Len(s)]
        /\ 1 \in 1..Len(s) /\ Len(s) \in 1..Len(s)
    BY <1>3, FrontOfCalls
  <2>2. ASSUME NEW i \in 1..Len(s2) - 1
        PROVE  /\ s2[i + 1].caller = TlsIn(s2[i])
               /\ s2[i + 1].callerLoader = LoaderIn(s2[i])
    <3>1. CASE i = Len(s)
      BY <1>1, <1>3, <2>1, <3>1 DEF ChainedIn
    <3>2. CASE i # Len(s)
      <4>1. i \in 1..Len(s) - 1 /\ i \in 1..Len(s) /\ i + 1 \in 1..Len(s)
        BY <1>1, <2>1, <3>2
      <4>2. QED
        BY <1>1, <4>1 DEF ChainedIn
    <3>3. QED
      BY <3>1, <3>2
  <2>3. QED
    BY <1>1, <1>3, <2>1, <2>2 DEF ChainedIn, s2
<1>4. QED
  BY <1>2, <1>3

LEMMA ChainedPop ==
  ASSUME NEW s \in Seq(Frames), NEW cur, NEW cl, ChainedIn(s, cur, cl), s # <<>>
  PROVE  ChainedIn(Front(s), Last(s).caller, Last(s).callerLoader)
<1> DEFINE s2 == Front(s)
<1>1. /\ Len(s) \in Nat \ {0} /\ Last(s) = s[Len(s)]
      /\ s2 \in Seq(Frames) /\ Len(s2) = Len(s) - 1
      /\ \A i \in 1..Len(s) - 1 : s2[i] = s[i]
  BY FrontOfCalls
<1> HIDE DEF s2
<1>2. CASE s2 = <<>>
  <2>1. Len(s2) = 0
    BY <1>2, EmptySeq
  <2>2. Len(s) = 1
    BY <1>1, <2>1
  <2>3. 1..Len(s2) - 1 = {}
    BY <2>1
  <2>4. QED
    BY <1>1, <1>2, <2>1, <2>2, <2>3 DEF ChainedIn, s2
<1>3. CASE s2 # <<>>
  <2>1. Len(s2) \in Nat \ {0} /\ Last(s2) = s2[Len(s2)]
    BY <1>1, <1>3, FrontOfCalls
  <2>2. /\ 1 \in 1..Len(s) - 1 /\ Len(s2) \in 1..Len(s) - 1
        /\ Len(s2) + 1 = Len(s)
    BY <1>1, <2>1
  <2>3. /\ Last(s).caller = TlsIn(Last(s2))
        /\ Last(s).callerLoader = LoaderIn(Last(s2))
        /\ s2[1] = s[1]
    BY <1>1, <2>1, <2>2 DEF ChainedIn
  <2>4. ASSUME NEW i \in 1..Len(s2) - 1
        PROVE  /\ s2[i + 1].caller = TlsIn(s2[i])
               /\ s2[i + 1].callerLoader = LoaderIn(s2[i])
    <3>1. i \in 1..Len(s) - 1 /\ i + 1 \in 1..Len(s) - 1
      BY <1>1, <2>1
    <3>2. QED
      BY <1>1, <3>1 DEF ChainedIn
  <2>5. QED
    BY <1>3, <2>3, <2>4 DEF ChainedIn, s2
<1>4. QED
  BY <1>2, <1>3

LEMMA ChainedSplit ==
  Chained' <=> \A t \in Threads : ChainedIn(stack'[t], tls'[t], loader'[t])
BY DEF Chained

LEMMA ChainedAfterEnter ==
  ASSUME TypeOK, Chained, NEW t \in Threads, NEW op \in Operations, NEW c \in Contexts,
         NEW a \in Attachments, NEW r \in Cursors \cup {None}, Enter(t, op, c, a, r)
  PROVE  Chained'
<1> DEFINE f == NewFrame(op, a, c, r, tls[t], loader[t])
<1>1. /\ f \in Frames /\ f.caller = tls[t] /\ f.callerLoader = loader[t]
      /\ TlsIn(f) = c /\ LoaderIn(f) = DatabaseOf[a]
  BY DEF TypeOK, Types, Frames, NewFrame, Phases, TlsIn, LoaderIn
<1>2. stack' = [stack EXCEPT ![t] = Append(@, f)]
  BY DEF Enter, NewFrame
<1> HIDE DEF f
<1>3. stack[t] \in Seq(Frames) /\ ChainedIn(stack[t], tls[t], loader[t])
  BY DEF TypeOK, Types, Chained
<1>4. ChainedIn(Append(stack[t], f), TlsIn(f), LoaderIn(f))
  BY <1>1, <1>3, ChainedPush
<1>5. /\ stack'[t] = Append(stack[t], f) /\ tls'[t] = TlsIn(f) /\ loader'[t] = LoaderIn(f)
      /\ \A u \in Threads : u # t =>
           stack'[u] = stack[u] /\ tls'[u] = tls[u] /\ loader'[u] = loader[u]
  BY <1>1, <1>2 DEF Enter, TypeOK, Types
<1>6. ASSUME NEW u \in Threads
      PROVE  ChainedIn(stack'[u], tls'[u], loader'[u])
  <2>1. CASE u = t
    BY <1>4, <1>5, <2>1
  <2>2. CASE u # t
    <3>1. ChainedIn(stack[u], tls[u], loader[u])
      BY DEF Chained
    <3>2. QED
      BY <1>5, <2>2, <3>1
  <2>3. QED
    BY <2>1, <2>2
<1>7. QED
  BY <1>6, ChainedSplit

\* The last call of t returns, or goes on as f.
LEMMA ChainedAfterSettle ==
  ASSUME TypeOK, Chained, NEW t \in Threads, InCall(t),
         \/ /\ Pop(t)
            /\ tls'[t] = Top(t).caller /\ loader'[t] = Top(t).callerLoader
         \/ \E f \in Frames :
              /\ SetTop(t, f)
              /\ f.caller = Top(t).caller /\ f.callerLoader = Top(t).callerLoader
              /\ tls'[t] = TlsIn(f) /\ loader'[t] = LoaderIn(f),
         \A u \in Threads : u # t => tls'[u] = tls[u] /\ loader'[u] = loader[u]
  PROVE  Chained'
<1>1. /\ stack[t] \in Seq(Frames) /\ stack[t] # <<>> /\ ChainedIn(stack[t], tls[t], loader[t])
      /\ Top(t) = Last(stack[t])
  BY DEF TypeOK, Types, Chained, InCall, Top
<1>2. ChainedIn(Front(stack[t]), Top(t).caller, Top(t).callerLoader)
  BY <1>1, ChainedPop
<1>3. Front(stack[t]) \in Seq(Frames)
  BY <1>1, FrontOfCalls
<1>4. ChainedIn(stack'[t], tls'[t], loader'[t])
  <2>1. CASE /\ Pop(t)
             /\ tls'[t] = Top(t).caller /\ loader'[t] = Top(t).callerLoader
    <3>1. stack'[t] = Front(stack[t])
      BY <2>1 DEF Pop, TypeOK, Types
    <3>2. QED
      BY <1>2, <2>1, <3>1
  <2>2. ASSUME NEW f \in Frames, SetTop(t, f),
               f.caller = Top(t).caller, f.callerLoader = Top(t).callerLoader,
               tls'[t] = TlsIn(f), loader'[t] = LoaderIn(f)
        PROVE  ChainedIn(stack'[t], tls'[t], loader'[t])
    <3>1. stack'[t] = Append(Front(stack[t]), f)
      BY <2>2 DEF SetTop, TypeOK, Types
    <3>2. ChainedIn(Append(Front(stack[t]), f), TlsIn(f), LoaderIn(f))
      BY <1>2, <1>3, <2>2, ChainedPush
    <3>3. QED
      BY <2>2, <3>1, <3>2
  <2>3. QED
    BY <2>1, <2>2
<1>5. ASSUME NEW u \in Threads, u # t
      PROVE  ChainedIn(stack'[u], tls'[u], loader'[u])
  <2>1. stack'[u] = stack[u] /\ ChainedIn(stack[u], tls[u], loader[u])
    BY <1>5 DEF Pop, SetTop, Chained, TypeOK, Types
  <2>2. QED
    BY <1>5, <2>1
<1>6. QED
  BY <1>4, <1>5, ChainedSplit

LEMMA ChainedAfterLeave ==
  ASSUME TypeOK, Chained, NEW t \in Threads, InCall(t), Leave(t)
  PROVE  Chained'
<1> DEFINE f == Top(t)
<1>1. f \in Frames /\ Closing(f) \in Frames
  BY TopType DEF Frames, Phases, Closing
<1>2. /\ Closing(f).caller = f.caller /\ Closing(f).callerLoader = f.callerLoader
      /\ LoaderIn(Closing(f)) = f.callerLoader
  BY <1>1 DEF Frames, Closing, LoaderIn
<1> HIDE DEF f
<1>3. /\ loader' = [loader EXCEPT ![t] = f.callerLoader]
      /\ \/ f.op = "fetch" /\ Pop(t) /\ tls' = [tls EXCEPT ![t] = f.caller]
         \/ /\ f.op # "fetch"
            /\ SetTop(t, Closing(f))
            /\ tls' = [tls EXCEPT ![t] = TlsIn(Closing(f))]
  BY <1>1, LeaveCases DEF f
<1>4. /\ loader'[t] = f.callerLoader
      /\ \A u \in Threads : u # t => tls'[u] = tls[u] /\ loader'[u] = loader[u]
      /\ \/ Pop(t) /\ tls'[t] = f.caller
         \/ SetTop(t, Closing(f)) /\ tls'[t] = TlsIn(Closing(f))
  BY <1>3 DEF TypeOK, Types
<1>5. QED
  BY <1>1, <1>2, <1>4, ChainedAfterSettle DEF f

LEMMA ChainedUnchanged ==
  ASSUME Chained, UNCHANGED threadVars
  PROVE  Chained'
BY ChainedSplit DEF Chained, threadVars

LEMMA ChainedFirst ==
  Init => Chained
<1>1. Len(<<>>) = 0
  BY EmptySeq
<1>2. ChainedIn(<<>>, None, Server)
  BY <1>1 DEF ChainedIn
<1>3. QED
  BY <1>2 DEF Init, Chained

LEMMA TopHas ==
  ASSUME Chained, NEW t \in Threads, InCall(t)
  PROVE  tls[t] = TlsIn(Top(t)) /\ loader[t] = LoaderIn(Top(t))
BY DEF Chained, ChainedIn, InCall, Top

LEMMA ChainedKept ==
  ASSUME TypeOK, Kept, Chained, Next
  PROVE  Chained'
<1>0. PICK t \in Threads : Call(t) \/ GetConnection(t) \/ Proceed(t)
  BY DEF Next
<1> DEFINE f == Top(t)
<1>1. ASSUME InCall(t)
      PROVE  /\ f \in Frames
             /\ tls[t] = TlsIn(f) /\ loader[t] = LoaderIn(f)
             /\ f.subject \in Principals \cup {None}
  BY <1>1, TopType, TopHas DEF Frames
<1>2. /\ tls \in [Threads -> Contexts \cup {None}]
      /\ loader \in [Threads -> Databases \cup {Server}]
  BY DEF TypeOK, Types
<1>3. ASSUME NEW op \in Invocations, NEW a \in Attachments, NEW c \in Contexts,
             Invoke(t, op, a, c)
      PROVE  Chained'
  BY <1>3, ChainedAfterEnter DEF Invoke, Operations
<1>4. ASSUME NEW r \in Cursors, Fetch(t, r) \/ Dispose(t, r)
      PROVE  Chained'
  <2>1. PICK op \in {"fetch", "dispose"} :
          Enter(t, op, resultSet[r], attachment[resultSet[r]], r)
    BY <1>4 DEF Fetch, Dispose
  <2>2. resultSet[r] \in Contexts /\ attachment[resultSet[r]] \in Attachments
    BY <1>4 DEF Fetch, Dispose, Kept, TypeOK, Types
  <2>3. QED
    BY <2>1, <2>2, ChainedAfterEnter DEF Operations
<1>5. CASE SubjectHit(t)
  <2> DEFINE g == [f EXCEPT !.subject = subjects[Key(f.att)], !.phase = "running"]
  <2>1. /\ InCall(t) /\ f.phase = "lookup" /\ SetTop(t, g)
        /\ UNCHANGED <<tls, loader>>
        /\ subjects[Key(f.att)] \in Principals
    <3>1. InCall(t) /\ subjects[Key(f.att)] # None
      BY <1>5 DEF SubjectHit, In
    <3>2. Key(f.att) \in Keys
      BY <1>1, <3>1 DEF Frames, Keys
    <3>3. QED
      BY <1>5, <3>1, <3>2 DEF SubjectHit, In, TypeOK, Types
  <2>2. /\ g \in Frames /\ g.caller = f.caller /\ g.callerLoader = f.callerLoader
        /\ TlsIn(g) = TlsIn(f) /\ LoaderIn(g) = LoaderIn(f)
    BY <1>1, <2>1 DEF Frames, Phases, TlsIn, LoaderIn
  <2>3. QED
    BY <1>1, <2>1, <2>2, ChainedAfterSettle
<1>6. ASSUME NEW c \in Contexts, SubjectMiss(t, c)
      PROVE  Chained'
  <2> DEFINE g == [f EXCEPT !.roleCtx = c, !.phase = "query"]
  <2>1. /\ InCall(t) /\ f.phase = "lookup" /\ SetTop(t, g)
        /\ tls' = [tls EXCEPT ![t] = c] /\ UNCHANGED loader
    BY <1>6 DEF SubjectMiss, In
  <2>2. /\ g \in Frames /\ g.caller = f.caller /\ g.callerLoader = f.callerLoader
        /\ TlsIn(g) = c /\ LoaderIn(g) = LoaderIn(f)
    BY <1>1, <2>1 DEF Frames, Phases, TlsIn, LoaderIn
  <2>3. QED
    BY <1>1, <1>2, <2>1, <2>2, ChainedAfterSettle
<1>7. CASE RoleRead(t)
  <2> DEFINE p == Principal(f.att)
             g == [f EXCEPT !.roleCtx = None, !.subject = p, !.phase = "running"]
  <2>1. /\ InCall(t) /\ f.phase = "query" /\ SetTop(t, g)
        /\ tls' = [tls EXCEPT ![t] = f.ctx] /\ UNCHANGED loader
    BY <1>7 DEF RoleRead, In
  <2>2. p \in Principals
    BY <1>1, <2>1 DEF Frames, Principals
  <2>3. /\ g \in Frames /\ g.caller = f.caller /\ g.callerLoader = f.callerLoader
        /\ TlsIn(g) = f.ctx /\ LoaderIn(g) = LoaderIn(f)
    BY <1>1, <2>1, <2>2 DEF Frames, Phases, TlsIn, LoaderIn
  <2>4. QED
    BY <1>1, <1>2, <2>1, <2>3, ChainedAfterSettle
<1>8. CASE SubjectMissFails(t) \/ RoleReadFails(t) \/ CallEnds(t)
  <2>1. InCall(t) /\ Leave(t)
    BY <1>8 DEF SubjectMissFails, RoleReadFails, CallEnds, In
  <2>2. QED
    BY <2>1, ChainedAfterLeave
<1>9. ASSUME NEW r \in Cursors, ResultSetReturned(t, r)
      PROVE  Chained'
  <2>1. /\ InCall(t) /\ Pop(t)
        /\ tls' = [tls EXCEPT ![t] = f.caller]
        /\ loader' = [loader EXCEPT ![t] = f.callerLoader]
    BY <1>9 DEF ResultSetReturned, In
  <2>2. QED
    BY <1>2, <2>1, ChainedAfterSettle
<1>10. CASE ContextClosed(t)
  <2>1. /\ InCall(t) /\ f.phase = "closing" /\ Pop(t)
        /\ tls' = IF f.op = "dispose" THEN [tls EXCEPT ![t] = f.caller] ELSE tls
        /\ UNCHANGED loader
    BY <1>10 DEF ContextClosed, In
  <2>2. loader[t] = f.callerLoader /\ (f.op # "dispose" => tls[t] = f.caller)
    BY <1>1, <2>1 DEF TlsIn, LoaderIn
  <2>3. /\ tls'[t] = f.caller /\ loader'[t] = f.callerLoader
        /\ \A u \in Threads : u # t => tls'[u] = tls[u] /\ loader'[u] = loader[u]
    BY <1>2, <2>1, <2>2
  <2>4. QED
    BY <2>1, <2>3, ChainedAfterSettle
<1>11. ASSUME GetConnection(t) \/ \E a \in Attachments : InvokeFails(t, a)
       PROVE  Chained'
  BY <1>11, ChainedUnchanged DEF GetConnection, InvokeFails
<1>12. QED
  BY <1>0, <1>3, <1>4, <1>5, <1>6, <1>7, <1>8, <1>9, <1>10, <1>11 DEF Call, Proceed

LEMMA ChainedHolds ==
  Spec => []Chained
<1>1. Init => Chained
  BY ChainedFirst
<1>2. Inductive /\ Chained /\ [Next]_vars => Chained'
  <2>1. ASSUME Inductive, Chained, Next
        PROVE  Chained'
    BY <2>1, ChainedKept DEF Inductive, Owned
  <2>2. ASSUME Chained, UNCHANGED vars
        PROVE  Chained'
    BY <2>2, ChainedUnchanged DEF vars
  <2>3. QED
    BY <2>1, <2>2
<1>3. QED
  BY <1>1, <1>2, InductiveHolds, PTL DEF Spec

\* While a routine runs, its thread has the context and the class loader of its
\* call, whatever calls it made; outside any call it has those of the server
\* (InternalContext.create and close, ExternalEngine.runInClassLoader).
THEOREM ThreadState == Spec => []ThreadFollowsCalls
<1>1. Inductive /\ Chained => ThreadFollowsCalls
  <2> SUFFICES ASSUME Inductive, Chained, NEW t \in Threads
               PROVE  /\ In(t, "running") => /\ tls[t] = Top(t).ctx
                                             /\ loader[t] = DatabaseOf[Top(t).att]
                      /\ ~InCall(t) => tls[t] = None /\ loader[t] = Server
    BY DEF ThreadFollowsCalls
  <2>1. CASE In(t, "running")
    BY <2>1, TopHas DEF In, TlsIn, LoaderIn
  <2>2. CASE ~InCall(t)
    BY <2>2 DEF In, InCall, Chained, ChainedIn
  <2>3. QED
    BY <2>1, <2>2 DEF In
<1>2. QED
  BY <1>1, InductiveHolds, ChainedHolds, PTL

-----------------------------------------------------------------------------
(* A connection works in the transaction of its own context.               *)

\* getConnection asks for the context in the ThreadLocal, the constructor of
\* the connection for its handles: by ThreadState both are those of the call.
THEOREM OwnTransaction == Spec => []ConnectionUsesOwnTransaction
<1>1. Init => ConnectionUsesOwnTransaction
  BY DEF Init, ConnectionUsesOwnTransaction
<1>2. TypeOK /\ Chained /\ ConnectionUsesOwnTransaction /\ [Next]_vars
        => ConnectionUsesOwnTransaction'
  <2> SUFFICES ASSUME TypeOK, Chained, ConnectionUsesOwnTransaction, [Next]_vars
               PROVE  ConnectionUsesOwnTransaction'
    OBVIOUS
  <2>1. connection \in [Contexts -> Contexts \cup {None}]
    BY DEF TypeOK, Types
  <2>2. ASSUME UNCHANGED connection
        PROVE  ConnectionUsesOwnTransaction'
    BY <2>2 DEF ConnectionUsesOwnTransaction
  <2>3. ASSUME NEW c, Forget(c)
        PROVE  ConnectionUsesOwnTransaction'
    BY <2>1, <2>3 DEF Forget, ConnectionUsesOwnTransaction
  <2>4. ASSUME NEW t \in Threads, GetConnection(t)
        PROVE  ConnectionUsesOwnTransaction'
    <3>1. tls[t] = Top(t).ctx
      BY <2>4, TopHas DEF GetConnection, In, TlsIn
    <3>2. QED
      BY <2>1, <2>4, <3>1 DEF GetConnection, ConnectionUsesOwnTransaction
  <2>5. ASSUME NEW t \in Threads, NEW c \in Contexts, SubjectMiss(t, c)
        PROVE  ConnectionUsesOwnTransaction'
    BY <2>1, <2>5 DEF SubjectMiss, ConnectionUsesOwnTransaction
  <2>6. ASSUME NEW t \in Threads, RoleRead(t) \/ RoleReadFails(t) \/ ContextClosed(t)
        PROVE  ConnectionUsesOwnTransaction'
    BY <2>3, <2>6 DEF RoleRead, RoleReadFails, ContextClosed, Close, CloseFails
  <2>7. ASSUME NEW t \in Threads,
               \/ Call(t) \/ SubjectHit(t) \/ SubjectMissFails(t) \/ CallEnds(t)
               \/ \E r \in Cursors : ResultSetReturned(t, r)
        PROVE  UNCHANGED connection
    BY <2>7 DEF Call, Invoke, InvokeFails, SetupFails, Fetch, Dispose, SubjectHit,
                SubjectMissFails, CallEnds, ResultSetReturned, contextVars
  <2>8. CASE UNCHANGED vars
    BY <2>2, <2>8 DEF vars, contextVars
  <2>9. QED
    BY <2>2, <2>4, <2>5, <2>6, <2>7, <2>8 DEF Next, Proceed
<1>3. QED
  BY <1>1, <1>2, CallTypesCorrect, ChainedHolds, PTL DEF Spec

-----------------------------------------------------------------------------
(* A routine runs as the user of its attachment.                           *)

\* The last call of t returns, or goes on as f with no Subject or with its own.
LEMMA SubjectsAfterSettle ==
  ASSUME TypeOK, Subjects, NEW t \in Threads, InCall(t),
         \/ Pop(t)
         \/ \E f \in Frames :
              /\ SetTop(t, f)
              /\ f.att = Top(t).att
              /\ f.subject = Top(t).subject \/ IsUsers(f.subject, f.att),
         \A a \in Attachments : subjects'[Key(a)] # None => IsUsers(subjects'[Key(a)], a)
  PROVE  Subjects'
<1>1. \A u \in Threads : \A i \in 1..Len(stack[u]) :
        stack[u][i].subject # None => IsUsers(stack[u][i].subject, stack[u][i].att)
  BY DEF Subjects
<1>2. \A u \in Threads : \A i \in 1..Len(stack'[u]) :
        stack'[u][i].subject # None => IsUsers(stack'[u][i].subject, stack'[u][i].att)
  <2>1. CASE Pop(t)
    BY <1>1, <2>1, FramesAfterPop
  <2>2. ASSUME NEW f \in Frames, SetTop(t, f), f.att = Top(t).att,
               f.subject = Top(t).subject \/ IsUsers(f.subject, f.att)
        PROVE  \A u \in Threads : \A i \in 1..Len(stack'[u]) :
                 stack'[u][i].subject # None => IsUsers(stack'[u][i].subject, stack'[u][i].att)
    <3>1. /\ Len(stack[t]) \in 1..Len(stack[t])
          /\ Top(t) = stack[t][Len(stack[t])]
          /\ \A u \in Threads : \A j \in 1..Len(stack'[u]) :
               /\ j \in 1..Len(stack[u])
               /\ stack'[u][j] = f \/ stack'[u][j] = stack[u][j]
      BY <2>2, FramesAfterSet
    <3>2. f.subject # None => IsUsers(f.subject, f.att)
      BY <1>1, <2>2, <3>1
    <3>3. QED
      BY <1>1, <3>1, <3>2
  <2>3. QED
    BY <2>1, <2>2
<1>3. QED
  BY <1>2 DEF Subjects, Key, IsUsers

LEMMA SubjectsAfterEnter ==
  ASSUME TypeOK, Subjects, UNCHANGED subjects, NEW t \in Threads,
         NEW op \in Operations, NEW c \in Contexts, NEW a \in Attachments,
         NEW r \in Cursors \cup {None}, Enter(t, op, c, a, r)
  PROVE  Subjects'
<1> DEFINE f == NewFrame(op, a, c, r, tls[t], loader[t])
<1>1. f \in Frames /\ f.subject = None
  BY DEF TypeOK, Types, Frames, NewFrame, Phases
<1>2. stack' = [stack EXCEPT ![t] = Append(@, f)]
  BY DEF Enter, NewFrame
<1> HIDE DEF f
<1>3. \A u \in Threads : \A j \in 1..Len(stack'[u]) :
        stack'[u][j] = f \/ (j \in 1..Len(stack[u]) /\ stack'[u][j] = stack[u][j])
  BY <1>1, <1>2, FramesAfterPush
<1>4. QED
  BY <1>1, <1>3 DEF Subjects, Key, IsUsers

LEMMA SubjectsAfterLeave ==
  ASSUME TypeOK, Subjects, UNCHANGED subjects, NEW t \in Threads, InCall(t), Leave(t)
  PROVE  Subjects'
<1> DEFINE f == Top(t)
<1>1. f \in Frames /\ Closing(f) \in Frames
  BY TopType DEF Frames, Phases, Closing
<1>2. Closing(f).att = f.att /\ Closing(f).subject = f.subject
  BY <1>1 DEF Frames, Closing
<1>3. Pop(t) \/ SetTop(t, Closing(f))
  BY <1>1, LeaveCases
<1>4. \A a \in Attachments : subjects'[Key(a)] # None => IsUsers(subjects'[Key(a)], a)
  BY DEF Subjects
<1> HIDE DEF f
<1>5. QED
  BY <1>1, <1>2, <1>3, <1>4, SubjectsAfterSettle DEF f

LEMMA SubjectsKept ==
  ASSUME TypeOK, Kept, Subjects, Next
  PROVE  Subjects'
<1>0. PICK t \in Threads : Call(t) \/ GetConnection(t) \/ Proceed(t)
  BY DEF Next
<1> DEFINE f == Top(t)
<1>1. ASSUME InCall(t)
      PROVE  f \in Frames /\ f.att \in Attachments
  BY <1>1, TopType DEF Frames
<1>2. \A a \in Attachments : subjects[Key(a)] # None => IsUsers(subjects[Key(a)], a)
  BY DEF Subjects
<1>3. ASSUME UNCHANGED <<stack, subjects>>
      PROVE  Subjects'
  BY <1>3 DEF Subjects, Key, IsUsers
<1>4. ASSUME NEW op \in Invocations, NEW a \in Attachments, NEW c \in Contexts,
             Invoke(t, op, a, c)
      PROVE  Subjects'
  BY <1>4, SubjectsAfterEnter DEF Invoke, Operations, subjectVars
<1>5. ASSUME NEW r \in Cursors, Fetch(t, r) \/ Dispose(t, r)
      PROVE  Subjects'
  <2>1. PICK op \in {"fetch", "dispose"} :
          Enter(t, op, resultSet[r], attachment[resultSet[r]], r)
    BY <1>5 DEF Fetch, Dispose
  <2>2. /\ resultSet[r] \in Contexts /\ attachment[resultSet[r]] \in Attachments
        /\ UNCHANGED subjects
    BY <1>5 DEF Fetch, Dispose, Kept, TypeOK, Types, subjectVars
  <2>3. QED
    BY <2>1, <2>2, SubjectsAfterEnter DEF Operations
<1>6. CASE SubjectHit(t)
  <2> DEFINE s == subjects[Key(f.att)]
             g == [f EXCEPT !.subject = s, !.phase = "running"]
  <2>1. InCall(t) /\ s # None /\ SetTop(t, g) /\ UNCHANGED subjects
    BY <1>6 DEF SubjectHit, In, subjectVars
  <2>2. s \in Principals /\ IsUsers(s, f.att)
    BY <1>1, <1>2, <2>1 DEF TypeOK, Types, Keys
  <2>3. g \in Frames /\ g.att = f.att /\ g.subject = s
    BY <1>1, <2>1, <2>2 DEF Frames, Phases
  <2> HIDE DEF s, g
  <2>4. QED
    BY <1>2, <2>1, <2>2, <2>3, SubjectsAfterSettle
<1>7. ASSUME NEW c \in Contexts, SubjectMiss(t, c)
      PROVE  Subjects'
  <2> DEFINE g == [f EXCEPT !.roleCtx = c, !.phase = "query"]
  <2>1. InCall(t) /\ SetTop(t, g) /\ UNCHANGED subjects
    BY <1>7 DEF SubjectMiss, In
  <2>2. g \in Frames /\ g.att = f.att /\ g.subject = f.subject
    BY <1>1, <2>1 DEF Frames, Phases
  <2> HIDE DEF g
  <2>3. QED
    BY <1>2, <2>1, <2>2, SubjectsAfterSettle
<1>8. CASE RoleRead(t)
  <2> DEFINE p == Principal(f.att)
             g == [f EXCEPT !.roleCtx = None, !.subject = p, !.phase = "running"]
  <2>1. /\ InCall(t) /\ SetTop(t, g)
        /\ subjects' = [subjects EXCEPT ![Key(f.att)] = p]
    BY <1>8 DEF RoleRead, In
  <2>2. p \in Principals /\ IsUsers(p, f.att)
    BY <1>1, <2>1 DEF Principals, Principal, IsUsers
  <2>3. g \in Frames /\ g.att = f.att /\ g.subject = p
    BY <1>1, <2>1, <2>2 DEF Frames, Phases
  <2>4. ASSUME NEW a \in Attachments, subjects'[Key(a)] # None
        PROVE  IsUsers(subjects'[Key(a)], a)
    <3>1. CASE Key(a) = Key(f.att)
      <4>1. DatabaseOf[a] = DatabaseOf[f.att] /\ UserOf[a] = UserOf[f.att]
        BY <3>1 DEF Key
      <4>2. subjects'[Key(a)] = p
        BY <1>1, <2>1, <3>1 DEF TypeOK, Types, Keys
      <4>3. QED
        BY <2>2, <4>1, <4>2 DEF IsUsers
    <3>2. CASE Key(a) # Key(f.att)
      <4>1. subjects'[Key(a)] = subjects[Key(a)]
        BY <2>1, <3>2 DEF TypeOK, Types, Keys
      <4>2. QED
        BY <1>2, <2>4, <4>1
    <3>3. QED
      BY <3>1, <3>2
  <2> HIDE DEF p, g
  <2>5. QED
    BY <2>1, <2>2, <2>3, <2>4, SubjectsAfterSettle
<1>9. CASE SubjectMissFails(t) \/ RoleReadFails(t) \/ CallEnds(t)
  <2>1. InCall(t) /\ Leave(t) /\ UNCHANGED subjects
    BY <1>9 DEF SubjectMissFails, RoleReadFails, CallEnds, In, subjectVars
  <2>2. QED
    BY <2>1, SubjectsAfterLeave
<1>10. ASSUME ContextClosed(t) \/ \E r \in Cursors : ResultSetReturned(t, r)
       PROVE  Subjects'
  <2>1. InCall(t) /\ Pop(t) /\ UNCHANGED subjects
    BY <1>10 DEF ContextClosed, ResultSetReturned, In, subjectVars
  <2>2. QED
    BY <1>2, <2>1, SubjectsAfterSettle
<1>11. ASSUME GetConnection(t) \/ \E a \in Attachments : InvokeFails(t, a)
       PROVE  Subjects'
  BY <1>3, <1>11 DEF GetConnection, InvokeFails, threadVars, subjectVars
<1>12. QED
  BY <1>0, <1>4, <1>5, <1>6, <1>7, <1>8, <1>9, <1>10, <1>11 DEF Call, Proceed

\* A routine runs with a Subject of the user of its attachment, in the database
\* of its attachment, whoever filled the cache (DbPolicy.getUserSubject).
THEOREM RunsAsCaller == Spec => []SubjectIsCallers
<1>1. Init => Subjects
  BY NoCallsFirst DEF Init, Subjects, Keys
<1>2. Inductive /\ Subjects /\ [Next]_vars => Subjects'
  <2>1. ASSUME Inductive, Subjects, Next
        PROVE  Subjects'
    BY <2>1, SubjectsKept DEF Inductive, Owned
  <2>2. ASSUME Subjects, UNCHANGED vars
        PROVE  Subjects'
    BY <2>2 DEF vars, threadVars, subjectVars, Subjects, Key, IsUsers
  <2>3. QED
    BY <2>1, <2>2
<1>3. Inductive /\ Subjects => SubjectIsCallers
  <2> SUFFICES ASSUME Inductive, Subjects, NEW t \in Threads, In(t, "running")
               PROVE  /\ Top(t).subject.database = DatabaseOf[Top(t).att]
                      /\ Top(t).subject.user = UserOf[Top(t).att]
    BY DEF SubjectIsCallers
  <2>1. /\ Len(stack[t]) \in 1..Len(stack[t]) /\ Top(t) = stack[t][Len(stack[t])]
        /\ Top(t).subject # None
    BY TopType DEF Inductive, In, FrameOK
  <2>2. QED
    BY <2>1 DEF Subjects, IsUsers
<1>4. QED
  BY <1>1, <1>2, <1>3, InductiveHolds, PTL DEF Spec

-----------------------------------------------------------------------------
(* The references cover the open contexts.                                 *)

Open(a) == {c \in Contexts : attachment[c] = a}

Covered ==
  /\ TransactionsOK
  /\ \A a \in Attachments : /\ attachmentRefs[a] >= Cardinality(Open(a))
                            /\ transactionRefs[a] >= Cardinality(Open(a))

LEMMA OpenFinite ==
  \A a : /\ IsFiniteSet(Open(a)) /\ Cardinality(Open(a)) \in Nat
         /\ IsFiniteSet(Open(a)') /\ Cardinality(Open(a)') \in Nat
<1>1. \A a : Open(a) \subseteq Contexts /\ Open(a)' \subseteq Contexts
  BY DEF Open
<1>2. QED
  BY <1>1, ConstantsAssumption, FS_Subset, FS_CardinalityType

LEMMA CoveredAfterSetup ==
  ASSUME TypeOK, Covered, NEW c \in Contexts, NEW a \in Attachments, Setup(c, a)
  PROVE  Covered'
<1>1. /\ attachment[c] = None /\ a # None
      /\ attachment' = [attachment EXCEPT ![c] = a]
      /\ transaction' = [transaction EXCEPT ![c] = a]
      /\ attachmentRefs' = [attachmentRefs EXCEPT ![a] = @ + 1]
      /\ transactionRefs' = [transactionRefs EXCEPT ![a] = @ + 1]
  BY ConstantsAssumption DEF Setup, Free
<1>2. TransactionsOK'
  BY <1>1 DEF Covered, TransactionsOK
<1>3. Open(a)' = Open(a) \cup {c} /\ c \notin Open(a)
  BY <1>1 DEF Open, TypeOK, Types
<1>4. Cardinality(Open(a)') = Cardinality(Open(a)) + 1
  BY <1>3, OpenFinite, FS_AddElement
<1>5. ASSUME NEW b \in Attachments, b # a
      PROVE  Open(b)' = Open(b)
  BY <1>1, <1>5, ConstantsAssumption DEF Open, TypeOK, Types
<1>6. \A b \in Attachments : attachmentRefs[b] \in Int /\ transactionRefs[b] \in Int
  BY DEF TypeOK, Types
<1>7. /\ attachmentRefs'[a] = attachmentRefs[a] + 1
      /\ transactionRefs'[a] = transactionRefs[a] + 1
      /\ \A b \in Attachments : b # a => /\ attachmentRefs'[b] = attachmentRefs[b]
                                        /\ transactionRefs'[b] = transactionRefs[b]
  BY <1>1 DEF TypeOK, Types
<1>8. ASSUME NEW b \in Attachments
      PROVE  /\ attachmentRefs'[b] >= Cardinality(Open(b)')
             /\ transactionRefs'[b] >= Cardinality(Open(b)')
  <2>1. /\ attachmentRefs[b] >= Cardinality(Open(b))
        /\ transactionRefs[b] >= Cardinality(Open(b))
    BY DEF Covered
  <2>2. CASE b = a
    BY <1>4, <1>6, <1>7, <2>1, <2>2, OpenFinite
  <2>3. CASE b # a
    BY <1>5, <1>7, <2>1, <2>3
  <2>4. QED
    BY <2>2, <2>3
<1>9. QED
  BY <1>2, <1>8 DEF Covered

LEMMA CoveredAfterClose ==
  ASSUME TypeOK, Covered, NEW c \in Contexts, NEW a \in Attachments, attachment[c] = a,
         Close(c) \/ CloseFails(c)
  PROVE  Covered'
<1>1. /\ a # None /\ transaction[c] = a
      /\ attachment' = [attachment EXCEPT ![c] = None]
      /\ transaction' = [transaction EXCEPT ![c] = None]
  BY ConstantsAssumption DEF Close, CloseFails, Forget, Covered, TransactionsOK
<1>2. TransactionsOK'
  BY <1>1 DEF Covered, TransactionsOK
<1>3. \A b \in Attachments : attachmentRefs[b] \in Int /\ transactionRefs[b] \in Int
  BY DEF TypeOK, Types
<1>4. \A d \in Contexts : attachment'[d] = IF d = c THEN None ELSE attachment[d]
  BY <1>1 DEF TypeOK, Types
<1>5. Open(a)' = Open(a) \ {c} /\ c \in Open(a)
  BY <1>1, <1>4 DEF Open
<1>6. Cardinality(Open(a)') = Cardinality(Open(a)) - 1
  BY <1>5, OpenFinite, FS_RemoveElement
<1>7. ASSUME NEW b \in Attachments, b # a
      PROVE  Open(b)' = Open(b)
  BY <1>4, <1>7, ConstantsAssumption DEF Open
<1>8. /\ attachmentRefs'[a] >= attachmentRefs[a] - 1
      /\ transactionRefs'[a] >= transactionRefs[a] - 1
      /\ \A b \in Attachments : b # a => /\ attachmentRefs'[b] = attachmentRefs[b]
                                        /\ transactionRefs'[b] = transactionRefs[b]
      /\ attachmentRefs'[a] \in Int /\ transactionRefs'[a] \in Int
  <2>1. CASE Close(c)
    <3>1. /\ attachmentRefs' = [attachmentRefs EXCEPT ![a] = @ - 1]
          /\ transactionRefs' = [transactionRefs EXCEPT ![a] = @ - 1]
      BY <1>1, <2>1 DEF Close
    <3>2. QED
      BY <1>3, <3>1 DEF TypeOK, Types
  <2>2. CASE CloseFails(c)
    BY <1>3, <2>2 DEF CloseFails
  <2>3. QED
    BY <2>1, <2>2
<1>9. ASSUME NEW b \in Attachments
      PROVE  /\ attachmentRefs'[b] >= Cardinality(Open(b)')
             /\ transactionRefs'[b] >= Cardinality(Open(b)')
  <2>1. /\ attachmentRefs[b] >= Cardinality(Open(b))
        /\ transactionRefs[b] >= Cardinality(Open(b))
    BY DEF Covered
  <2>2. CASE b = a
    BY <1>3, <1>6, <1>8, <2>1, <2>2, OpenFinite
  <2>3. CASE b # a
    BY <1>7, <1>8, <2>1, <2>3
  <2>4. QED
    BY <2>2, <2>3
<1>10. QED
  BY <1>2, <1>9 DEF Covered

LEMMA CoveredAfterSetupFails ==
  ASSUME TypeOK, Covered, NEW a \in Attachments, SetupFails(a)
  PROVE  Covered'
<1>1. /\ attachmentRefs' = [attachmentRefs EXCEPT ![a] = @ + 1]
      /\ UNCHANGED <<attachment, transaction, transactionRefs>>
  BY DEF SetupFails
<1>2. \A b \in Attachments : Open(b)' = Open(b)
  BY <1>1 DEF Open
<1>3. \A b \in Attachments : /\ attachmentRefs[b] \in Int
                             /\ attachmentRefs'[b] \in Int
                             /\ attachmentRefs'[b] >= attachmentRefs[b]
  BY <1>1 DEF TypeOK, Types
<1>4. ASSUME NEW b \in Attachments
      PROVE  /\ attachmentRefs'[b] >= Cardinality(Open(b)')
             /\ transactionRefs'[b] >= Cardinality(Open(b)')
  <2>1. /\ attachmentRefs[b] >= Cardinality(Open(b))
        /\ transactionRefs[b] >= Cardinality(Open(b))
    BY DEF Covered
  <2>2. Cardinality(Open(b)) \in Int
    BY OpenFinite
  <2>3. QED
    BY <1>1, <1>2, <1>3, <2>1, <2>2
<1>5. QED
  BY <1>1, <1>4 DEF Covered, TransactionsOK

LEMMA CoveredUnchanged ==
  ASSUME Covered, UNCHANGED <<attachment, transaction, attachmentRefs, transactionRefs>>
  PROVE  Covered'
<1>1. \A b \in Attachments : Open(b)' = Open(b)
  BY DEF Open
<1>2. QED
  BY <1>1 DEF Covered, TransactionsOK

\* The contexts that a call closes are open, as it holds them.
LEMMA CoveredKept ==
  ASSUME TypeOK, Owned, Covered, Next
  PROVE  Covered'
<1>0. PICK t \in Threads : Call(t) \/ GetConnection(t) \/ Proceed(t)
  BY DEF Next
<1>1. ASSUME InCall(t)
      PROVE  /\ Top(t).ctx \in Contexts /\ Top(t).att \in Attachments
             /\ attachment[Top(t).ctx] = Top(t).att
             /\ Top(t).phase = "query" =>
                  /\ Top(t).roleCtx \in Contexts
                  /\ attachment[Top(t).roleCtx] = Top(t).att
  <2>1. /\ Len(stack[t]) \in 1..Len(stack[t]) /\ Top(t) = stack[t][Len(stack[t])]
    BY <1>1, TopType
  <2>2. QED
    BY <2>1, FrameType DEF Owned, Held, Queries
<1>2. ASSUME NEW op \in Invocations, NEW a \in Attachments, NEW c \in Contexts,
             Invoke(t, op, a, c)
      PROVE  Covered'
  BY <1>2, CoveredAfterSetup DEF Invoke
<1>3. ASSUME NEW a \in Attachments, InvokeFails(t, a)
      PROVE  Covered'
  BY <1>3, CoveredAfterSetupFails DEF InvokeFails
<1>4. ASSUME NEW c \in Contexts, SubjectMiss(t, c)
      PROVE  Covered'
  BY <1>1, <1>4, CoveredAfterSetup DEF SubjectMiss, In
<1>5. CASE SubjectMissFails(t)
  BY <1>1, <1>5, CoveredAfterSetupFails DEF SubjectMissFails, In
<1>6. CASE RoleRead(t) \/ RoleReadFails(t)
  <2>1. /\ InCall(t) /\ Top(t).phase = "query"
        /\ Close(Top(t).roleCtx) \/ CloseFails(Top(t).roleCtx)
    BY <1>6 DEF RoleRead, RoleReadFails, In
  <2>2. PICK c \in Contexts, a \in Attachments : c = Top(t).roleCtx /\ attachment[c] = a
    BY <1>1, <2>1
  <2>3. QED
    BY <2>1, <2>2, CoveredAfterClose
<1>7. CASE ContextClosed(t)
  <2>1. InCall(t) /\ (Close(Top(t).ctx) \/ CloseFails(Top(t).ctx))
    BY <1>7 DEF ContextClosed, In
  <2>2. PICK c \in Contexts, a \in Attachments : c = Top(t).ctx /\ attachment[c] = a
    BY <1>1, <2>1
  <2>3. QED
    BY <2>1, <2>2, CoveredAfterClose
<1>8. ASSUME \/ GetConnection(t) \/ SubjectHit(t) \/ CallEnds(t)
             \/ \E r \in Cursors : Fetch(t, r) \/ Dispose(t, r) \/ ResultSetReturned(t, r)
      PROVE  Covered'
  BY <1>8, CoveredUnchanged
  DEF GetConnection, SubjectHit, CallEnds, Fetch, Dispose, ResultSetReturned, contextVars
<1>9. QED
  BY <1>0, <1>2, <1>3, <1>4, <1>5, <1>6, <1>7, <1>8 DEF Call, Proceed

\* No release of a reference goes below what the open contexts still have to
\* release, whatever failed before: failures keep references, they never give
\* one up twice (InternalContext.setup and close).
THEOREM RefsCovered == Spec => []RefsCoverContexts
<1>1. Init => Covered
  <2> SUFFICES ASSUME Init PROVE Covered
    OBVIOUS
  <2>1. TransactionsOK
    BY DEF Init, TransactionsOK
  <2>2. \A a \in Attachments : Open(a) = {}
    BY ConstantsAssumption DEF Init, Open
  <2>3. Cardinality({}) = 0
    BY FS_EmptySet
  <2>4. ASSUME NEW a \in Attachments
        PROVE  /\ attachmentRefs[a] >= Cardinality(Open(a))
               /\ transactionRefs[a] >= Cardinality(Open(a))
    <3>1. attachmentRefs[a] = 0 /\ transactionRefs[a] = 0 /\ Cardinality(Open(a)) = 0
      BY <2>2, <2>3 DEF Init
    <3>2. QED
      BY <3>1
  <2>5. QED
    BY <2>1, <2>4 DEF Covered
<1>2. Inductive /\ Covered /\ [Next]_vars => Covered'
  <2>1. ASSUME Inductive, Covered, Next
        PROVE  Covered'
    BY <2>1, CoveredKept DEF Inductive
  <2>2. ASSUME Covered, UNCHANGED vars
        PROVE  Covered'
    BY <2>2, CoveredUnchanged DEF vars, contextVars
  <2>3. QED
    BY <2>1, <2>2
<1>3. Covered => RefsCoverContexts
  BY DEF Covered, TransactionsOK, RefsCoverContexts, Open
<1>4. QED
  BY <1>1, <1>2, <1>3, InductiveHolds, PTL DEF Spec

-----------------------------------------------------------------------------
(* The references to attachments and transactions, when neither the setup  *)
(* of a context nor the close of its connection fails: every reference is  *)
(* that of an open context, and every open context has a call or a result  *)
(* set that will close it.                                                 *)

\* Faults that keep no reference for ever.
Clean == Faults \subseteq {"query"}

HeldByCall(c) ==
  \E t \in Threads : \E i \in 1..Len(stack[t]) :
    stack[t][i].ctx = c \/ stack[t][i].roleCtx = c

HeldByCursor(c) == \E r \in Cursors : resultSet[r] = c

\* An open context will be closed by a call or by the result set that has it.
NoOrphan ==
  \A c \in Contexts : attachment[c] # None => HeldByCall(c) \/ HeldByCursor(c)

\* The references are those of the open contexts.
Exact ==
  /\ TransactionsOK
  /\ \A a \in Attachments : /\ attachmentRefs[a] = Cardinality(Open(a))
                            /\ transactionRefs[a] = Cardinality(Open(a))

-----------------------------------------------------------------------------
(* What becomes of the holders.                                            *)

LEMMA HeldAfterPush ==
  ASSUME TypeOK, NEW t \in Threads, NEW f \in Frames,
         stack' = [stack EXCEPT ![t] = Append(@, f)], NEW c,
         HeldByCall(c) \/ f.ctx = c
  PROVE  HeldByCall(c)'
<1> USE DEF HeldByCall
<1>1. stack \in Stacks
  BY DEF TypeOK, Types, Stacks
<1>2. /\ Len(stack[t]) \in Nat
      /\ Len(stack'[t]) = Len(stack[t]) + 1
      /\ stack'[t][Len(stack[t]) + 1] = f
      /\ \A u \in Threads \ {t} : stack'[u] = stack[u]
      /\ \A i \in 1..Len(stack[t]) : stack'[t][i] = stack[t][i]
  BY <1>1, Pushed
<1>3. CASE f.ctx = c
  <2>1. Len(stack[t]) + 1 \in 1..Len(stack'[t])
    BY <1>2
  <2> QED
    BY <1>2, <1>3, <2>1
<1>4. CASE HeldByCall(c)
  <2>0. PICK u \in Threads : \E i \in 1..Len(stack[u]) : stack[u][i].ctx = c \/ stack[u][i].roleCtx = c
    BY <1>4
  <2>1. PICK i \in 1..Len(stack[u]) : stack[u][i].ctx = c \/ stack[u][i].roleCtx = c
    BY <2>0
  <2>2. i \in 1..Len(stack'[u]) /\ stack'[u][i] = stack[u][i]
    BY <1>2
  <2> QED
    BY <2>1, <2>2
<1> QED
  BY <1>3, <1>4

LEMMA HeldAfterPop ==
  ASSUME TypeOK, NEW t \in Threads, InCall(t), Pop(t), NEW c, HeldByCall(c),
         c \notin {Top(t).ctx, Top(t).roleCtx}
  PROVE  HeldByCall(c)'
<1> USE DEF HeldByCall
<1>1. /\ Len(stack[t]) \in Nat \ {0}
      /\ Len(stack'[t]) = Len(stack[t]) - 1
      /\ Top(t) = stack[t][Len(stack[t])]
      /\ \A u \in Threads : u # t => Len(stack'[u]) = Len(stack[u])
      /\ \A u \in Threads : \A j \in 1..Len(stack'[u]) : stack'[u][j] = stack[u][j]
  BY FramesAfterPop
<1>0. PICK u \in Threads : \E i \in 1..Len(stack[u]) : stack[u][i].ctx = c \/ stack[u][i].roleCtx = c
  OBVIOUS
<1>2. PICK i \in 1..Len(stack[u]) : stack[u][i].ctx = c \/ stack[u][i].roleCtx = c
  BY <1>0
<1>3. ~(u = t /\ i = Len(stack[t]))
  BY <1>1, <1>2
<1>4. i \in 1..Len(stack'[u])
  BY <1>1, <1>3
<1> QED
  BY <1>1, <1>2, <1>4

LEMMA HeldAfterSet ==
  ASSUME TypeOK, NEW t \in Threads, InCall(t), NEW f \in Frames, SetTop(t, f), NEW c,
         \/ HeldByCall(c) /\ c \notin {Top(t).ctx, Top(t).roleCtx}
         \/ c \in {f.ctx, f.roleCtx}
  PROVE  HeldByCall(c)'
<1> USE DEF HeldByCall
<1>1. /\ Len(stack[t]) \in Nat \ {0}
      /\ Top(t) = stack[t][Len(stack[t])]
      /\ stack'[t][Len(stack[t])] = f
      /\ \A u \in Threads : Len(stack'[u]) = Len(stack[u])
      /\ \A u \in Threads : \A j \in 1..Len(stack'[u]) :
           \/ u = t /\ j = Len(stack[t]) /\ stack'[u][j] = f
           \/ ~(u = t /\ j = Len(stack[t])) /\ stack'[u][j] = stack[u][j]
  BY FramesAfterSet
<1>2. CASE c \in {f.ctx, f.roleCtx}
  <2>1. Len(stack[t]) \in 1..Len(stack'[t])
    BY <1>1
  <2> QED
    BY <1>1, <1>2, <2>1
<1>3. CASE HeldByCall(c) /\ c \notin {Top(t).ctx, Top(t).roleCtx}
  <2>0. PICK u \in Threads : \E i \in 1..Len(stack[u]) : stack[u][i].ctx = c \/ stack[u][i].roleCtx = c
    BY <1>3
  <2>1. PICK i \in 1..Len(stack[u]) : stack[u][i].ctx = c \/ stack[u][i].roleCtx = c
    BY <2>0
  <2>2. ~(u = t /\ i = Len(stack[t])) /\ i \in 1..Len(stack'[u])
    BY <1>1, <1>3, <2>1
  <2> QED
    BY <1>1, <2>1, <2>2
<1> QED
  BY <1>2, <1>3

\* The call at the top of a thread.
LEMMA TopHolds ==
  ASSUME TypeOK, Owned, NEW t \in Threads, InCall(t)
  PROVE  /\ Top(t) \in Frames
         /\ Top(t).phase # "query" => Top(t).roleCtx = None
         /\ Top(t).op \notin Invocations => /\ Top(t).cursor \in Cursors
                                            /\ resultSet[Top(t).cursor] = Top(t).ctx
<1>1. /\ Top(t) \in Frames /\ FrameOK(Top(t))
      /\ Len(stack[t]) \in 1..Len(stack[t]) /\ Top(t) = stack[t][Len(stack[t])]
  BY TopType
<1> QED
  BY <1>1 DEF FrameOK, Frames, Owned, Held

\* A call that leaves gives up the context of its role query only: a result set
\* still has the context of a fetch.
LEMMA NoOrphanAfterLeave ==
  ASSUME TypeOK, Owned, NoOrphan, NEW t \in Threads, InCall(t), Leave(t),
         UNCHANGED resultSet,
         \/ Top(t).phase # "query" /\ UNCHANGED attachment
         \/ attachment' = [attachment EXCEPT ![Top(t).roleCtx] = None]
  PROVE  NoOrphan'
<1> DEFINE f == Top(t)
<1>1. f \in Frames /\ (f.phase # "query" => f.roleCtx = None)
  BY TopHolds
<1>2. SUFFICES ASSUME NEW c \in Contexts, attachment'[c] # None
               PROVE  HeldByCall(c)' \/ HeldByCursor(c)'
  BY DEF NoOrphan
<1>3. attachment[c] # None /\ c # f.roleCtx
  BY <1>1, <1>2, ConstantsAssumption DEF TypeOK, Types
<1>4. CASE HeldByCursor(c)
  BY <1>4 DEF HeldByCursor
<1>5. CASE HeldByCall(c)
  <2>1. CASE f.op = "fetch" /\ Pop(t)
    <3>1. CASE c = f.ctx
      BY <2>1, <3>1, TopHolds DEF HeldByCursor, Invocations
    <3>2. CASE c # f.ctx
      BY <1>3, <1>5, <2>1, <3>2, HeldAfterPop
    <3> QED
      BY <3>1, <3>2
  <2>2. CASE SetTop(t, Closing(f))
    <3>1. Closing(f) \in Frames /\ Closing(f).ctx = f.ctx
      BY <1>1 DEF Frames, Phases, Closing
    <3> QED
      BY <1>3, <1>5, <2>2, <3>1, HeldAfterSet
  <2> QED
    BY <1>1, <2>1, <2>2, LeaveCases
<1> QED
  BY <1>3, <1>4, <1>5 DEF NoOrphan

LEMMA NoOrphanKept ==
  ASSUME Clean, TypeOK, Owned, NoOrphan, Next
  PROVE  NoOrphan'
<1>0. PICK t \in Threads : Call(t) \/ GetConnection(t) \/ Proceed(t)
  BY DEF Next
<1> USE DEF threadVars, contextVars, subjectVars
<1>1. ASSUME NEW op \in Invocations, NEW a \in Attachments, NEW c \in Contexts,
             Invoke(t, op, a, c)
      PROVE  NoOrphan'
  <2> DEFINE f == [op |-> op, att |-> a, ctx |-> c, cursor |-> None, caller |-> tls[t],
                   callerLoader |-> loader[t], roleCtx |-> None, subject |-> None,
                   phase |-> "lookup"]
  <2>1. f \in Frames
    BY DEF TypeOK, Types, Frames, Invocations, Operations, Phases
  <2>2. /\ stack' = [stack EXCEPT ![t] = Append(@, f)] /\ f.ctx = c
        /\ attachment' = [attachment EXCEPT ![c] = a] /\ UNCHANGED resultSet
    BY <1>1 DEF Invoke, Enter, Setup
  <2> HIDE DEF f
  <2>3. ASSUME NEW d \in Contexts, attachment'[d] # None
        PROVE  HeldByCall(d)' \/ HeldByCursor(d)'
    <3>1. CASE d = c
      BY <2>1, <2>2, <3>1, HeldAfterPush
    <3>2. CASE d # c
      <4>1. HeldByCall(d) \/ HeldByCursor(d)
        BY <2>2, <2>3, <3>2 DEF NoOrphan, TypeOK, Types
      <4> QED
        BY <2>1, <2>2, <4>1, HeldAfterPush DEF HeldByCursor
    <3> QED
      BY <3>1, <3>2
  <2> QED
    BY <2>3 DEF NoOrphan
<1>2. ASSUME NEW r \in Cursors, Fetch(t, r) \/ Dispose(t, r)
      PROVE  NoOrphan'
  <2>1. PICK f \in Frames : stack' = [stack EXCEPT ![t] = Append(@, f)]
    <3>1. \E op \in Operations :
            /\ resultSet[r] # None
            /\ Enter(t, op, resultSet[r], attachment[resultSet[r]], r)
      BY <1>2 DEF Fetch, Dispose, Operations
    <3>2. resultSet[r] \in Contexts /\ attachment[resultSet[r]] \in Attachments
      BY <3>1 DEF TypeOK, Types, Owned, Kept
    <3>3. PICK op \in Operations : Enter(t, op, resultSet[r], attachment[resultSet[r]], r)
      BY <3>1
    <3> DEFINE f == [op |-> op, att |-> attachment[resultSet[r]], ctx |-> resultSet[r],
                     cursor |-> r, caller |-> tls[t], callerLoader |-> loader[t],
                     roleCtx |-> None, subject |-> None, phase |-> "lookup"]
    <3>4. f \in Frames
      BY <3>2 DEF TypeOK, Types, Frames, Phases
    <3> QED
      BY <3>3, <3>4 DEF Enter
  <2>2. UNCHANGED <<attachment, resultSet>>
    BY <1>2 DEF Fetch, Dispose
  <2> QED
    BY <2>1, <2>2, HeldAfterPush DEF NoOrphan, HeldByCursor
<1>3. CASE CallEnds(t)
  <2>1. InCall(t) /\ Top(t).phase # "query" /\ Leave(t) /\ UNCHANGED <<resultSet, attachment>>
    BY <1>3 DEF CallEnds, In
  <2> QED
    BY <2>1, NoOrphanAfterLeave
<1>4. CASE RoleReadFails(t)
  <2>1. /\ InCall(t) /\ Leave(t) /\ UNCHANGED resultSet
        /\ attachment' = [attachment EXCEPT ![Top(t).roleCtx] = None]
    BY <1>4 DEF RoleReadFails, In, Close, CloseFails, Forget
  <2> QED
    BY <2>1, NoOrphanAfterLeave
<1>5. CASE RoleRead(t)
  <2> DEFINE f == [Top(t) EXCEPT !.roleCtx = None, !.subject = Principal(Top(t).att),
                                 !.phase = "running"]
  <2>1. /\ InCall(t) /\ SetTop(t, f) /\ UNCHANGED resultSet
        /\ attachment' = [attachment EXCEPT ![Top(t).roleCtx] = None]
    BY <1>5 DEF RoleRead, In, Close, Forget
  <2>2. f \in Frames /\ f.ctx = Top(t).ctx
    BY <2>1, TopHolds DEF Frames, Principals, Phases
  <2> HIDE DEF f
  <2>3. ASSUME NEW c \in Contexts, attachment'[c] # None
        PROVE  HeldByCall(c)' \/ HeldByCursor(c)'
    <3>1. attachment[c] # None /\ c # Top(t).roleCtx
      BY <2>1, <2>3 DEF TypeOK, Types
    <3> QED
      BY <2>1, <2>2, <3>1, HeldAfterSet DEF NoOrphan, HeldByCursor
  <2> QED
    BY <2>3 DEF NoOrphan
<1>6. ASSUME NEW c \in Contexts, SubjectMiss(t, c)
      PROVE  NoOrphan'
  <2> DEFINE f == [Top(t) EXCEPT !.roleCtx = c, !.phase = "query"]
  <2>1. /\ InCall(t) /\ Top(t).phase # "query" /\ SetTop(t, f) /\ UNCHANGED resultSet
        /\ attachment' = [attachment EXCEPT ![c] = Top(t).att]
    BY <1>6 DEF SubjectMiss, In, Setup
  <2>2. f \in Frames /\ f.ctx = Top(t).ctx /\ f.roleCtx = c /\ Top(t).roleCtx = None
    BY <2>1, TopHolds DEF Frames, Phases
  <2> HIDE DEF f
  <2>3. ASSUME NEW d \in Contexts, attachment'[d] # None
        PROVE  HeldByCall(d)' \/ HeldByCursor(d)'
    <3>1. CASE d = c
      BY <2>1, <2>2, <3>1, HeldAfterSet
    <3>2. CASE d # c
      <4>1. attachment[d] # None /\ d # None
        BY <2>1, <2>3, <3>2, ConstantsAssumption DEF TypeOK, Types
      <4> QED
        BY <2>1, <2>2, <4>1, HeldAfterSet DEF NoOrphan, HeldByCursor
    <3> QED
      BY <3>1, <3>2
  <2> QED
    BY <2>3 DEF NoOrphan
<1>7. CASE SubjectHit(t)
  <2> DEFINE f == [Top(t) EXCEPT !.subject = subjects[Key(Top(t).att)], !.phase = "running"]
  <2>1. /\ InCall(t) /\ SetTop(t, f) /\ UNCHANGED <<resultSet, attachment>>
        /\ subjects[Key(Top(t).att)] # None
    BY <1>7 DEF SubjectHit, In
  <2>2. f \in Frames /\ f.ctx = Top(t).ctx /\ f.roleCtx = Top(t).roleCtx
    <3>1. Top(t) \in Frames /\ Key(Top(t).att) \in Keys
      BY <2>1, TopHolds DEF Frames, Keys
    <3>2. subjects[Key(Top(t).att)] \in Principals
      BY <2>1, <3>1 DEF TypeOK, Types
    <3> QED
      BY <3>1, <3>2 DEF Frames, Phases
  <2> HIDE DEF f
  <2> QED
    BY <2>1, <2>2, HeldAfterSet DEF NoOrphan, HeldByCursor
<1>8. ASSUME NEW r \in Cursors, ResultSetReturned(t, r)
      PROVE  NoOrphan'
  <2>1. /\ InCall(t) /\ Top(t).phase # "query" /\ Pop(t) /\ UNCHANGED attachment
        /\ resultSet[r] = None /\ resultSet' = [resultSet EXCEPT ![r] = Top(t).ctx]
    BY <1>8 DEF ResultSetReturned, In
  <2>2. Top(t).roleCtx = None
    BY <2>1, TopHolds
  <2>3. ASSUME NEW c \in Contexts, attachment'[c] # None
        PROVE  HeldByCall(c)' \/ HeldByCursor(c)'
    <3>1. c # None /\ (HeldByCall(c) \/ HeldByCursor(c))
      BY <2>1, <2>3, ConstantsAssumption DEF NoOrphan
    <3>2. CASE c = Top(t).ctx
      BY <2>1, <3>2 DEF HeldByCursor, TypeOK, Types
    <3>3. CASE HeldByCursor(c)
      BY <2>1, <3>1, <3>3 DEF HeldByCursor, TypeOK, Types
    <3>4. CASE HeldByCall(c) /\ c # Top(t).ctx
      BY <2>1, <2>2, <3>1, <3>4, HeldAfterPop
    <3> QED
      BY <3>1, <3>2, <3>3, <3>4
  <2> QED
    BY <2>3 DEF NoOrphan
<1>9. CASE ContextClosed(t)
  <2>1. /\ InCall(t) /\ Top(t).phase # "query" /\ Pop(t)
        /\ attachment' = [attachment EXCEPT ![Top(t).ctx] = None]
        /\ resultSet' = [r \in Cursors |-> IF r = Top(t).cursor THEN None ELSE resultSet[r]]
    BY <1>9 DEF ContextClosed, In, Close, CloseFails, Forget
  <2>2. /\ Top(t).roleCtx = None
        /\ Top(t).cursor # None => resultSet[Top(t).cursor] = Top(t).ctx
    <3>1. Len(stack[t]) \in 1..Len(stack[t]) /\ Top(t) = stack[t][Len(stack[t])]
      BY <2>1, TopType
    <3> QED
      BY <2>1, <3>1, TopHolds DEF Owned, Held
  <2>3. ASSUME NEW c \in Contexts, attachment'[c] # None
        PROVE  HeldByCall(c)' \/ HeldByCursor(c)'
    <3>1. attachment[c] # None /\ c # Top(t).ctx /\ c # None
      BY <2>1, <2>3, ConstantsAssumption DEF TypeOK, Types
    <3>2. CASE HeldByCall(c)
      BY <2>1, <2>2, <3>1, <3>2, HeldAfterPop
    <3>3. CASE HeldByCursor(c)
      <4>1. PICK r \in Cursors : resultSet[r] = c
        BY <3>3 DEF HeldByCursor
      <4>2. r # Top(t).cursor
        BY <2>2, <3>1, <4>1, ConstantsAssumption
      <4> QED
        BY <2>1, <4>1, <4>2 DEF HeldByCursor
    <3> QED
      BY <3>1, <3>2, <3>3 DEF NoOrphan
  <2> QED
    BY <2>3 DEF NoOrphan
<1>10. CASE GetConnection(t)
  BY <1>10 DEF GetConnection, NoOrphan, HeldByCall, HeldByCursor
<1>11. ~SubjectMissFails(t) /\ \A a \in Attachments : ~InvokeFails(t, a)
  BY DEF Clean, SubjectMissFails, InvokeFails, SetupFails
<1> QED
  BY <1>0, <1>1, <1>2, <1>3, <1>4, <1>5, <1>6, <1>7, <1>8, <1>9, <1>10, <1>11 DEF Call, Proceed

-----------------------------------------------------------------------------
(* The references are counted.                                             *)

\* What one more or one less open context does to the references.
LEMMA ExactAfterChange ==
  ASSUME TypeOK, Exact, NEW a \in Attachments, NEW k \in Int,
         transaction' = attachment',
         attachmentRefs' = [attachmentRefs EXCEPT ![a] = @ + k],
         transactionRefs' = [transactionRefs EXCEPT ![a] = @ + k],
         Cardinality(Open(a)') = Cardinality(Open(a)) + k,
         \A b \in Attachments : b # a => Open(b)' = Open(b)
  PROVE  Exact'
<1>1. TransactionsOK'
  BY DEF TransactionsOK
<1>2. /\ attachmentRefs'[a] = attachmentRefs[a] + k
      /\ transactionRefs'[a] = transactionRefs[a] + k
      /\ \A b \in Attachments : b # a => /\ attachmentRefs'[b] = attachmentRefs[b]
                                        /\ transactionRefs'[b] = transactionRefs[b]
  BY DEF TypeOK, Types
<1>3. ASSUME NEW b \in Attachments
      PROVE  /\ attachmentRefs'[b] = Cardinality(Open(b)')
             /\ transactionRefs'[b] = Cardinality(Open(b)')
  <2>1. attachmentRefs[b] = Cardinality(Open(b)) /\ transactionRefs[b] = Cardinality(Open(b))
    BY DEF Exact
  <2>2. CASE b = a
    BY <1>2, <2>1, <2>2
  <2>3. CASE b # a
    <3>1. Open(b)' = Open(b)
      BY <2>3
    <3> QED
      BY <1>2, <2>1, <2>3, <3>1
  <2> QED
    BY <2>2, <2>3
<1> QED
  BY <1>1, <1>3 DEF Exact

LEMMA ExactAfterSetup ==
  ASSUME TypeOK, Exact, NEW c \in Contexts, NEW a \in Attachments, Setup(c, a)
  PROVE  Exact'
<1>1. /\ attachment[c] = None /\ a # None
      /\ attachment' = [attachment EXCEPT ![c] = a]
      /\ transaction' = [transaction EXCEPT ![c] = a]
      /\ attachmentRefs' = [attachmentRefs EXCEPT ![a] = @ + 1]
      /\ transactionRefs' = [transactionRefs EXCEPT ![a] = @ + 1]
  BY ConstantsAssumption DEF Setup, Free
<1>2. transaction' = attachment'
  BY <1>1 DEF Exact, TransactionsOK
<1>3. Open(a)' = Open(a) \cup {c} /\ c \notin Open(a)
  BY <1>1 DEF Open, TypeOK, Types
<1>4. Cardinality(Open(a)') = Cardinality(Open(a)) + 1
  BY <1>3, OpenFinite, FS_AddElement
<1>5. ASSUME NEW b \in Attachments, b # a
      PROVE  Open(b)' = Open(b)
  BY <1>1, <1>5, ConstantsAssumption DEF Open, TypeOK, Types
<1>6. 1 \in Int
  OBVIOUS
<1> QED
  BY Zenon, <1>1, <1>2, <1>4, <1>5, <1>6, ExactAfterChange

LEMMA ExactAfterClose ==
  ASSUME TypeOK, Exact, NEW c \in Contexts, NEW a \in Attachments, attachment[c] = a, Close(c)
  PROVE  Exact'
<1>1. /\ a # None /\ transaction[c] = a
      /\ attachment' = [attachment EXCEPT ![c] = None]
      /\ transaction' = [transaction EXCEPT ![c] = None]
      /\ attachmentRefs' = [attachmentRefs EXCEPT ![a] = @ - 1]
      /\ transactionRefs' = [transactionRefs EXCEPT ![a] = @ - 1]
  BY ConstantsAssumption DEF Close, Forget, Exact, TransactionsOK
<1>2. transaction' = attachment'
  BY <1>1 DEF Exact, TransactionsOK
<1>3. \A d \in Contexts : attachment'[d] = IF d = c THEN None ELSE attachment[d]
  BY <1>1 DEF TypeOK, Types
<1>4. Open(a)' = Open(a) \ {c} /\ c \in Open(a)
  BY <1>1, <1>3 DEF Open
<1>5. Cardinality(Open(a)') = Cardinality(Open(a)) - 1
  BY <1>4, OpenFinite, FS_RemoveElement
<1>6. ASSUME NEW b \in Attachments, b # a
      PROVE  Open(b)' = Open(b)
  BY <1>3, <1>6, ConstantsAssumption DEF Open
<1>7. /\ attachmentRefs' = [attachmentRefs EXCEPT ![a] = @ + (-1)]
      /\ transactionRefs' = [transactionRefs EXCEPT ![a] = @ + (-1)]
      /\ Cardinality(Open(a)') = Cardinality(Open(a)) + (-1)
  <2>1. /\ attachmentRefs[a] \in Int /\ transactionRefs[a] \in Int
        /\ Cardinality(Open(a)) \in Int
    BY OpenFinite DEF TypeOK, Types
  <2> QED
    BY <1>1, <1>5, <2>1
<1>8. -1 \in Int
  OBVIOUS
<1> QED
  BY <1>2, <1>6, <1>7, <1>8, ExactAfterChange

LEMMA ExactKept ==
  ASSUME Clean, TypeOK, Owned, Exact, Next
  PROVE  Exact'
<1>0. PICK t \in Threads : Call(t) \/ GetConnection(t) \/ Proceed(t)
  BY DEF Next
<1>1. ASSUME InCall(t)
      PROVE  /\ Top(t).ctx \in Contexts /\ Top(t).att \in Attachments
             /\ attachment[Top(t).ctx] = Top(t).att
             /\ Top(t).phase = "query" =>
                  /\ Top(t).roleCtx \in Contexts
                  /\ attachment[Top(t).roleCtx] = Top(t).att
  <2>1. /\ Len(stack[t]) \in 1..Len(stack[t]) /\ Top(t) = stack[t][Len(stack[t])]
    BY <1>1, TopType
  <2> QED
    BY <2>1, FrameType DEF Owned, Held, Queries
<1>2. ASSUME NEW op \in Invocations, NEW a \in Attachments, NEW c \in Contexts,
             Invoke(t, op, a, c)
      PROVE  Exact'
  BY <1>2, ExactAfterSetup DEF Invoke
<1>3. ASSUME NEW c \in Contexts, SubjectMiss(t, c)
      PROVE  Exact'
  BY <1>1, <1>3, ExactAfterSetup DEF SubjectMiss, In
<1>4. CASE RoleRead(t) \/ RoleReadFails(t)
  <2>1. InCall(t) /\ Top(t).phase = "query" /\ Close(Top(t).roleCtx)
    BY <1>4 DEF RoleRead, RoleReadFails, In, CloseFails, Clean
  <2>2. PICK c \in Contexts, a \in Attachments : c = Top(t).roleCtx /\ attachment[c] = a
    BY <1>1, <2>1
  <2> QED
    BY <2>1, <2>2, ExactAfterClose
<1>5. CASE ContextClosed(t)
  <2>1. InCall(t) /\ Close(Top(t).ctx)
    BY <1>5 DEF ContextClosed, In, CloseFails, Clean
  <2>2. PICK c \in Contexts, a \in Attachments : c = Top(t).ctx /\ attachment[c] = a
    BY <1>1, <2>1
  <2> QED
    BY <2>1, <2>2, ExactAfterClose
<1>6. ASSUME \/ GetConnection(t) \/ SubjectHit(t) \/ CallEnds(t)
             \/ \E r \in Cursors : Fetch(t, r) \/ Dispose(t, r) \/ ResultSetReturned(t, r)
      PROVE  Exact'
  <2>1. UNCHANGED <<attachment, transaction, attachmentRefs, transactionRefs>>
    BY <1>6
       DEF GetConnection, SubjectHit, CallEnds, Fetch, Dispose, ResultSetReturned, contextVars
  <2>2. \A b \in Attachments : Open(b)' = Open(b)
    BY <2>1 DEF Open
  <2> QED
    BY <2>1, <2>2 DEF Exact, TransactionsOK
<1>7. ~SubjectMissFails(t) /\ \A a \in Attachments : ~InvokeFails(t, a)
  BY DEF Clean, SubjectMissFails, InvokeFails, SetupFails
<1> QED
  BY <1>0, <1>2, <1>3, <1>4, <1>5, <1>6, <1>7 DEF Call, Proceed

-----------------------------------------------------------------------------
(* The theorem.                                                            *)

LEMMA CleanHolds ==
  ASSUME Clean
  PROVE  Spec => [](Exact /\ NoOrphan)
<1>1. Init => Exact /\ NoOrphan
  <2> SUFFICES ASSUME Init PROVE Exact /\ NoOrphan
    OBVIOUS
  <2>1. TransactionsOK /\ NoOrphan
    BY DEF Init, TransactionsOK, NoOrphan
  <2>2. \A a \in Attachments : Open(a) = {}
    BY ConstantsAssumption DEF Init, Open
  <2>3. \A a \in Attachments : attachmentRefs[a] = 0 /\ transactionRefs[a] = 0
    BY DEF Init
  <2>4. Cardinality({}) = 0
    BY FS_EmptySet
  <2> QED
    BY <2>1, <2>2, <2>3, <2>4 DEF Exact
<1>2. Inductive /\ Exact /\ NoOrphan /\ [Next]_vars => (Exact /\ NoOrphan)'
  <2>1. ASSUME Inductive, Exact, NoOrphan, Next
        PROVE  (Exact /\ NoOrphan)'
    BY <2>1, ExactKept, NoOrphanKept DEF Inductive
  <2>2. ASSUME Exact, NoOrphan, UNCHANGED vars
        PROVE  (Exact /\ NoOrphan)'
    <3>1. UNCHANGED <<stack, attachment, transaction, attachmentRefs, transactionRefs, resultSet>>
      BY <2>2 DEF vars, threadVars, contextVars
    <3>2. \A b \in Attachments : Open(b)' = Open(b)
      BY <3>1 DEF Open
    <3>3. Exact'
      BY <2>2, <3>1, <3>2 DEF Exact, TransactionsOK
    <3>4. NoOrphan'
      BY <2>2, <3>1 DEF NoOrphan, HeldByCall, HeldByCursor
    <3> QED
      BY <3>3, <3>4
  <2> QED
    BY <2>1, <2>2
<1> QED
  BY <1>1, <1>2, InductiveHolds, PTL DEF Spec

\* InternalContext.java:149-161: once the calls have returned, the references to
\* attachments and transactions are those of the result sets not disposed of,
\* one for each, if the setup and the close of a context do not fail.
THEOREM RefsAreReturned ==
  ASSUME Clean
  PROVE  Spec => []OnlyResultSetsKeepRefs
<1>1. Inductive /\ Exact /\ NoOrphan => OnlyResultSetsKeepRefs
  <2> SUFFICES ASSUME Inductive, Exact, NoOrphan, \A t \in Threads : ~InCall(t),
                      NEW a \in Attachments
               PROVE  LET kept == Cardinality({r \in Cursors :
                                    resultSet[r] # None /\ attachment[resultSet[r]] = a})
                      IN attachmentRefs[a] = kept /\ transactionRefs[a] = kept
    BY DEF OnlyResultSetsKeepRefs
  <2> DEFINE R == {r \in Cursors : resultSet[r] # None /\ attachment[resultSet[r]] = a}
             holder == [c \in Open(a) |-> CHOOSE r \in Cursors : resultSet[r] = c]
  <2>1. ASSUME NEW c \in Open(a)
        PROVE  \E r \in Cursors : resultSet[r] = c
    <3>1. \A t \in Threads : stack[t] = <<>>
      BY DEF InCall
    <3>2. ~HeldByCall(c)
      BY <3>1, EmptySeq DEF HeldByCall
    <3> QED
      BY <2>1, <3>2, ConstantsAssumption DEF NoOrphan, Open, HeldByCursor
  <2>2. \A c \in Open(a) : holder[c] \in Cursors /\ resultSet[holder[c]] = c
    BY <2>1
  <2> HIDE DEF holder
  <2>3. holder \in [Open(a) -> R]
    <3>1. \A c \in Open(a) : c # None /\ attachment[c] = a
      BY ConstantsAssumption DEF Open
    <3>2. \A c \in Open(a) : holder[c] \in R
      BY <2>2, <3>1
    <3>3. holder = [c \in Open(a) |-> holder[c]]
      BY DEF holder
    <3> HIDE DEF R
    <3> QED
      BY <3>2, <3>3
  <2>4. \A c, d \in Open(a) : holder[c] = holder[d] => c = d
    BY <2>2
  <2>5. ASSUME NEW r \in R
        PROVE  \E c \in Open(a) : holder[c] = r
    <3>1. resultSet[r] \in Open(a)
      BY DEF Open, Inductive, TypeOK, Types
    <3>2. holder[resultSet[r]] = r
      BY <2>2, <3>1 DEF Inductive, Owned, Kept
    <3> QED
      BY <3>1, <3>2
  <2>6. ExistsBijection(Open(a), R)
    <3> HIDE DEF R
    <3>1. holder \in Injection(Open(a), R)
      BY <2>3, <2>4 DEF Injection, IsInjective
    <3>2. holder \in Surjection(Open(a), R)
      BY <2>3, <2>5 DEF Surjection
    <3> QED
      BY <3>1, <3>2 DEF ExistsBijection, Bijection
  <2>7. Cardinality(R) = Cardinality(Open(a))
    <3> HIDE DEF R
    <3> QED
      BY <2>6, OpenFinite, FS_Bijection
  <2> QED
    BY <2>7 DEF Exact
<1> QED
  BY <1>1, InductiveHolds, CleanHolds, PTL
=============================================================================

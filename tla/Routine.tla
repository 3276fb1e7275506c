------------------------------- MODULE Routine -------------------------------
(***************************************************************************)
(* A routine from its declaration to the end of its calls: getRoutine      *)
(* makes it from a call specification and the metadata of the server, and  *)
(* each call takes its arguments from a message, runs the Java method and  *)
(* puts what it left into a message (Routine.java, ExternalFunction.java    *)
(* and its siblings).                                                      *)
(*                                                                         *)
(* The calls of a routine share nothing, so there is one routine and one   *)
(* call of it; a result set runs the method's object once for each row.    *)
(***************************************************************************)
EXTENDS EntryPoint, Conversions

CONSTANTS
  Declarations, \* [kind, in, out]: the fields of the server's declarations
  Texts,        \* the external names they are declared with
  Class,        \* the class that exists, as a sequence of tokens
  Method,       \* its methods have this name, and any parameters
  ReturnTypes,  \* their return types
  Inputs,       \* the numbers in a cell of each Firebird type
  Results       \* the numbers in an object of each class

Kinds == {"FUNCTION", "PROCEDURE", "TRIGGER"}

\* A function has one result (ExternalEngine.java:1547); a SMALLINT and a TIME are
\* what their width allows.
ASSUME RoutineAssumption ==
  /\ Declarations \subseteq [kind : Kinds, in : Seq(Fields), out : Seq(Fields)]
  /\ \A d \in Declarations :
       /\ d.kind = "TRIGGER" => d.in = d.out
       /\ d.kind = "FUNCTION" => Len(d.out) = 1
       /\ Texts[d] \subseteq Seq(Identifiers \cup Punctuation)
  /\ Inputs \in [FbTypes -> SUBSET Int]
  /\ Inputs["SHORT"] \subseteq (-HalfRange)..(HalfRange - 1)
  /\ Inputs["TIME"] \subseteq 0..(Day * Ticks - 1)
  /\ Results \in [ObjectClasses -> SUBSET Int]
  /\ IsName(Class) /\ Method \in Seq(Identifiers) /\ Len(Method) = 1
  /\ \A t \in Types : t.class \in Classes

VARIABLES
  pc,        \* where the thread of the server is
  decl,      \* the declaration
  text,      \* Routine's entry point
  inClasses, \* Parameter.javaClass of inputParameters ...
  outClasses,\* ... and of outputParameters (of the fields, for a trigger)
  entry,     \* what was read in the text: [ok, class, method, types]
  inMsg,     \* the cells of the message with the arguments, or of OLD
  outMsg,    \* the cells of the message with the results, or of NEW
  args,      \* the objects the method gets
  results,   \* the objects it leaves
  next       \* the parameter that putInMessagePrivileged is at

routineVars == <<decl, text, inClasses, outClasses, entry>>
callVars    == <<inMsg, outMsg, args, results, next>>
vars == <<pc, routineVars, callVars>>

Init ==
  /\ pc = "declared"
  /\ decl \in Declarations
  /\ text \in Texts[decl]
  /\ inClasses = <<>> /\ outClasses = <<>> /\ entry = Rejected
  /\ inMsg = <<>> /\ outMsg = <<>>
  /\ args = <<>> /\ results = <<>>
  /\ next = 0

-----------------------------------------------------------------------------
(* makeFunction, makeProcedure and makeTrigger.                            *)

\* The text is read to its end, or up to the first error.
Read ==
  /\ pc = "declared"
  /\ entry' = Parse(text, Len(decl.in), IF decl.kind = "TRIGGER" THEN 0 ELSE Len(decl.out),
                    decl.kind = "TRIGGER")
  /\ pc' = "parsed"
  /\ UNCHANGED <<decl, text, inClasses, outClasses, callVars>>

\* The class has a method of that name with those parameters.
Found == entry.ok /\ entry.class = Class /\ entry.method = Method

\* The parameters of the method are those of the declaration, or none.
CountFits(n) ==
  \/ n = 0
  \/ n = Len(decl.in) + (IF decl.kind = "PROCEDURE" THEN Len(decl.out) ELSE 0)

\* setupParameters: without parameters every field is an Object.
ClassesOf(classes, fields) ==
  IF classes = <<>> THEN [i \in DOMAIN fields |-> "Object"] ELSE classes

AllConvertible(classes, fields) ==
  \A i \in DOMAIN fields : Convertible(classes[i], fields[i])

\* The first parameters are the inputs; without parameters there are none.
InputsOf(list) == IF list = <<>> THEN <<>> ELSE SubSeq(list, 1, Len(decl.in))

\* Mutant: the outputs begin with the last input.
OutputsTooEarly(list) ==
  IF list = <<>> THEN <<>> ELSE SubSeq(list, Len(decl.in), Len(list))

\* The parameters of a procedure after its inputs.
OutputsOf(list) ==
  IF list = <<>> THEN <<>> ELSE SubSeq(list, Len(decl.in) + 1, Len(list))

\* The entry point and the metadata make a routine; its method returns ret.
Make ==
  /\ pc = "parsed"
  /\ Found /\ CountFits(Len(entry.types))
  /\ \E ret \in ReturnTypes :
       LET outs == IF decl.kind = "FUNCTION" THEN <<ret>> ELSE OutputsOf(entry.types) IN
       /\ (ret = "void") <=> (decl.kind # "FUNCTION")
       /\ inClasses' = ClassesOf(InputsOf(entry.types), decl.in)
       /\ outClasses' = ClassesOf(outs, decl.out)
       /\ AllConvertible(inClasses', decl.in)
       /\ AllConvertible(outClasses', decl.out)
  /\ pc' = "ready"
  /\ UNCHANGED <<decl, text, entry, callVars>>

\* There is no such routine: the server gets an error.  The return type is not
\* to blame.
Reject ==
  /\ pc = "parsed"
  /\ LET outs == IF decl.kind = "FUNCTION" THEN <<>> ELSE OutputsOf(entry.types) IN
     Found /\ CountFits(Len(entry.types)) =>
       ~ /\ AllConvertible(ClassesOf(InputsOf(entry.types), decl.in), decl.in)
         /\ AllConvertible(ClassesOf(outs, decl.out), decl.out)
  /\ pc' = "rejected"
  /\ UNCHANGED <<routineVars, callVars>>

\* The return type of the method is not one for this routine.
RejectReturnType ==
  /\ pc = "parsed"
  /\ Found /\ CountFits(Len(entry.types))
  /\ \E ret \in ReturnTypes :
       \/ (ret = "void") <=> (decl.kind = "FUNCTION")
       \/ decl.kind = "FUNCTION" /\ ret # "void" /\ ~Convertible(ret, decl.out[1])
  /\ pc' = "unusable"
  /\ UNCHANGED <<routineVars, callVars>>

-----------------------------------------------------------------------------
(* execute and open.                                                       *)

CellsOf(class, field) ==
  {NullCell} \cup {Cell(n) : n \in Inputs[Built(class, field).type]}

Objects(class) ==
  UNION {{Object(c, n) : n \in Results[c]} : c \in DOMAIN Results \cap {Wrapper(class)}}

\* What the compiler lets a method leave in a variable of a class.
Assignable(class) ==
  CASE class = "Object" -> {Null} \cup UNION {Objects(c) : c \in DOMAIN Results}
    [] class = "Date"   -> {Null} \cup UNION {Objects(c) : c \in {"Date", "Time", "Timestamp"}}
    [] class \in {"short", "boolean"} -> Objects(class)
    [] OTHER -> {Null} \cup Objects(class)

Messages(classes, fields) ==
  {msg \in [DOMAIN fields -> UNION {CellsOf(classes[i], fields[i]) : i \in DOMAIN fields}] :
     \A i \in DOMAIN fields : msg[i] \in CellsOf(classes[i], fields[i])}

\* Mutant: the arguments are taken one field too far.
ArgumentsShifted(msg) ==
  [i \in DOMAIN decl.in |->
     LET j == IF i < Len(decl.in) THEN i + 1 ELSE i IN
     FromMessage(inClasses[i], Built(inClasses[i], decl.in[i]), msg[j])]

\* getFromMessage.
Arguments(msg) ==
  [i \in DOMAIN decl.in |-> FromMessage(inClasses[i], Built(inClasses[i], decl.in[i]), msg[i])]

\* The server calls the routine: for a trigger the message is both OLD and NEW,
\* for a procedure there is an array of length 1 for each output.
Call ==
  /\ pc = "ready"
  /\ inMsg' \in Messages(inClasses, decl.in)
  /\ outMsg' = IF decl.kind = "TRIGGER" THEN inMsg' ELSE [i \in DOMAIN decl.out |-> NullCell]
  /\ args' = Arguments(inMsg')
  /\ results' = IF decl.kind = "TRIGGER" THEN args'
                ELSE [i \in DOMAIN decl.out |-> FromNull(outClasses[i])]
  /\ pc' = "running"
  /\ UNCHANGED <<routineVars, next>>

\* The method, or fetch() of its result set, changes some of its results.
Run ==
  /\ pc = "running"
  /\ \/ UNCHANGED results
     \/ \E i \in DOMAIN results : \E o \in Assignable(outClasses[i]) :
          results' = [results EXCEPT ![i] = o]
  /\ pc' = "preparing"
  /\ UNCHANGED <<routineVars, inMsg, outMsg, args, next>>

\* fetch() has no more rows: nothing is written.
NoMoreRows ==
  /\ pc = "running"
  /\ decl.kind = "PROCEDURE"
  /\ pc' = "ended"
  /\ UNCHANGED <<routineVars, callVars>>

\* It throws.
RunFails ==
  /\ pc = "running"
  /\ pc' = "failed"
  /\ UNCHANGED <<routineVars, callVars>>

Prepared(i) == Prepares(outClasses[i], decl.out[i], results[i])

\* The first phase of putInMessage.
Prepare ==
  /\ pc = "preparing"
  /\ \A i \in DOMAIN results : Prepared(i)
  /\ next' = 1
  /\ pc' = "writing"
  /\ UNCHANGED <<routineVars, inMsg, outMsg, args, results>>

PrepareFails ==
  /\ pc = "preparing"
  /\ \E i \in DOMAIN results : ~Prepared(i)
  /\ pc' = "failed"
  /\ UNCHANGED <<routineVars, callVars>>

Written(i) == Writes(outClasses[i], decl.out[i], results[i])

\* The second phase writes one field after another ...
Write ==
  /\ pc = "writing"
  /\ next \in DOMAIN results
  /\ Written(next)
  /\ outMsg' = [outMsg EXCEPT ![next] = ToMessage(outClasses[next], decl.out[next], results[next])]
  /\ next' = next + 1
  /\ UNCHANGED <<pc, routineVars, inMsg, args, results>>

\* Mutant: a field that cannot be written is skipped.
WriteSkips ==
  /\ pc = "writing"
  /\ next \in DOMAIN results
  /\ ~Written(next)
  /\ next' = next + 1
  /\ UNCHANGED <<pc, routineVars, inMsg, outMsg, args, results>>

\* ... and stops at the first that fails.
WriteFails ==
  /\ pc = "writing"
  /\ next \in DOMAIN results
  /\ ~Written(next)
  /\ pc' = "failed"
  /\ UNCHANGED <<routineVars, callVars>>

Return ==
  /\ pc = "writing"
  /\ next \notin DOMAIN results
  /\ pc' = "returned"
  /\ UNCHANGED <<routineVars, callVars>>

\* The next row of a result set: the arrays keep what they have.
Fetch ==
  /\ pc = "returned"
  /\ decl.kind = "PROCEDURE"
  /\ pc' = "running"
  /\ UNCHANGED <<routineVars, callVars>>

Next ==
  \/ Read \/ Make \/ Reject \/ RejectReturnType
  \/ Call \/ Run \/ NoMoreRows \/ RunFails \/ Prepare \/ PrepareFails
  \/ Write \/ WriteFails \/ Return \/ Fetch

Spec == Init /\ [][Next]_vars

-----------------------------------------------------------------------------
(* Properties.                                                             *)

Phases == {"declared", "parsed", "rejected", "unusable", "ready", "running", "preparing",
           "writing", "returned", "ended", "failed"}

Made == pc \notin {"declared", "parsed", "rejected", "unusable"}

ObjectsOK(list) == \A i \in DOMAIN list : list[i].class \in DOMAIN Results \cup {"null"}

\* Types, and the arrays and messages of a call have the sizes of the routine.
TypeOK ==
  /\ pc \in Phases
  /\ decl \in Declarations /\ text \in Seq(Identifiers \cup Punctuation)
  /\ Made => DOMAIN inClasses = DOMAIN decl.in /\ DOMAIN outClasses = DOMAIN decl.out
  /\ pc \in {"running", "preparing", "writing", "returned"} =>
       /\ DOMAIN args = DOMAIN decl.in /\ DOMAIN results = DOMAIN decl.out
       /\ inMsg \in [DOMAIN decl.in -> Cells] /\ outMsg \in [DOMAIN decl.out -> Cells]
       /\ ObjectsOK(args) /\ ObjectsOK(results)

\* No blank touches a dot.
NamesAreWhole ==
  \A i \in 1..(InfoStart(text) - 1) : text[i] = "." =>
    /\ i > 1 => text[i - 1] # " "
    /\ i < Len(text) => text[i + 1] # " "

\* The lists of types that fit the declaration, by the table of README.md:221-244.
DocumentedLists ==
  LET fields == IF decl.kind = "PROCEDURE" THEN decl.in \o decl.out ELSE decl.in IN
  {<<>>} \cup IF decl.kind = "TRIGGER" THEN {}
             ELSE {l \in [DOMAIN fields -> {t.class : t \in Types}] :
                     \A i \in DOMAIN fields :
                       /\ l[i] = "byte[]" => fields[i].type \in {"BLOB", "TEXT", "VARYING"}
                       /\ l[i] = "Blob" => fields[i].type = "BLOB"}

\* A text of the documented form, blanks around its punctuation or not, is not
\* rejected with any compatible types.
DocumentedAreAccepted ==
  pc = "rejected" =>
    ~ /\ NamesAreWhole
      /\ \E l \in DocumentedLists :
           Compact(text)[1] \in Specifications(Class, Method, l, Len(decl.in))

\* Nothing else is accepted, but for one stray character at the end
\* (ExternalEngine.java:1532); and the types that were read are those of the
\* text, compatible with the declaration, the inputs of a procedure before its outputs.
OnlyDocumentedAreAccepted ==
  pc = "ready" =>
    LET spec == Compact(text)[1] IN
    /\ \E n \in {Len(spec), Len(spec) - 1} :
         /\ n < Len(spec) => spec[Len(spec)] \in OneChar
         /\ SubSeq(spec, 1, n) \in Specifications(Class, Method, entry.types, Len(decl.in))
    /\ entry.types \in DocumentedLists
    /\ decl.kind = "PROCEDURE" /\ entry.types # <<>> => inClasses \o outClasses = entry.types

\* README.md:201-244: the entry points that make a routine are the documented
\* ones, read as the table of types and the declaration say.
AcceptedAsDocumented == DocumentedAreAccepted /\ OnlyDocumentedAreAccepted

\* The instants at which the clocks show a time.
InstantsOf(l) == {u \in {l - Standard, l - Standard - 1} : LocalOf(u) = l}

\* On a day without a change of the clocks every time is that of one instant.
Settled(d) ==
  \E offset \in {Standard, Standard + 1} :
    \A l \in (d * Day)..((d + 1) * Day - 1) : InstantsOf(l) = {l - offset}

\* Two cells of a type are the same, but for the last digit of a time and for
\* timestamps of a day on which the clocks change.
Same(type, c, e) ==
  \/ c = e
  \/ /\ ~c.null /\ ~e.null
     /\ \/ type \in {"TIME", "TIMESTAMP"} /\ c.n \div Ticks = e.n \div Ticks
        \/ type = "TIMESTAMP" /\ ~Settled(c.n \div (Day * Ticks))

\* ExternalTrigger.java:84-88 writes every field of NEW back, touched or not: a
\* field the method left alone keeps its value, NULL included.
UntouchedFieldsAreKept ==
  pc = "returned" /\ decl.kind = "TRIGGER" =>
    \A i \in DOMAIN results : results[i] = args[i] =>
      Same(Built(outClasses[i], decl.out[i]).type, inMsg[i], outMsg[i])

\* README.md:247-248: the method gets the value of its own field; NULL is zero
\* or false for a primitive, and null for any other class.
ArgumentsAreInputs ==
  pc = "running" =>
    \A i \in DOMAIN args :
      LET back == ToMessage(inClasses[i], decl.in[i], args[i]) IN
      IF inMsg[i].null /\ inClasses[i] \in {"short", "boolean"}
      THEN args[i].class # "null" /\ back = Cell(0)
      ELSE Same(Built(inClasses[i], decl.in[i]).type, inMsg[i], back)

\* The number a cell stands for is the nearest to d its scale allows.
Nearest(field, cell, d) ==
  LET error == cell.n * Unit(field.scale) - d IN
  2 * error <= Unit(field.scale) /\ -2 * error <= Unit(field.scale)

InRange(field, d) ==
  d \in ((1 - HalfRange) * Unit(field.scale))..((HalfRange - 1) * Unit(field.scale))

IsDecimal(i) ==
  /\ Converter(outClasses[i], decl.out[i]) = "BigDecimal"
  /\ decl.out[i].type = "SHORT"
  /\ results[i] # Null

\* README.md:253-256: a call that returns has written all the method left, this
\* row's and no other's: NULL for null, and the nearest number in range.
ResultsAreWritten ==
  pc = "returned" =>
    \A i \in DOMAIN results :
      /\ outMsg[i].null <=> results[i] = Null
      /\ IsDecimal(i) /\ InRange(decl.out[i], results[i].n) =>
           Nearest(decl.out[i], outMsg[i], results[i].n)
      /\ results[i].class \in {"String", "byte[]", "Blob", "Short", "Double", "Boolean"} =>
           outMsg[i].n = results[i].n

\* ExternalEngine.java:243-266, 434-448: whatever string or byte array the method
\* leaves, no more is written than the field of the message holds.
TextsFit ==
  pc \in {"writing", "returned"} =>
    \A i \in DOMAIN outMsg :
      LET field == Built(outClasses[i], decl.out[i]) IN
      i < next /\ field.type = "VARYING" /\ ~outMsg[i].null => outMsg[i].n <= field.length
=============================================================================

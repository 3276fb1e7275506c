---------------------------- MODULE RoutineProofs ----------------------------
(***************************************************************************)
(* What a call leaves in its message, for every declaration, text, method  *)
(* and value: up to the last section nothing depends on what the parser    *)
(* read.  There it does: which entry points make a routine.                *)
(***************************************************************************)
EXTENDS Routine, EntryPointProofs

\* What Written and ToMessage say of the fields before next.
FieldWritten(i) ==
  Written(i) /\ outMsg[i] = ToMessage(outClasses[i], decl.out[i], results[i])

\* The arrays of a call have the size of the declaration ...
Sized ==
  pc \in {"running", "preparing", "writing", "returned"} =>
    /\ DOMAIN outMsg = DOMAIN decl.out
    /\ DOMAIN results = DOMAIN decl.out
    /\ \A i \in DOMAIN results : results[i].n \in Int

\* ... and the fields up to next have been written.
WrittenSoFar ==
  /\ pc \in {"writing", "returned"} =>
       next \in Nat \ {0} /\ \A i \in DOMAIN results : i < next => FieldWritten(i)
  /\ pc = "returned" => next \notin DOMAIN results

\* A trigger has no parameters: all its fields are Objects.
FieldsAreObjects ==
  decl.kind = "TRIGGER" =>
    /\ entry.types = <<>>
    /\ Made => \A i \in DOMAIN decl.in : inClasses[i] = "Object" /\ outClasses[i] = "Object"

\* The classes of a routine are those that setupConversion accepted, ...
Accepted ==
  Made => AllConvertible(inClasses, decl.in) /\ AllConvertible(outClasses, decl.out)

\* ... and its arguments were taken from the message.
Taken ==
  pc \in {"running", "preparing", "writing", "returned"} =>
    inMsg \in Messages(inClasses, decl.in) /\ args = Arguments(inMsg)

IInv ==
  decl \in Declarations /\ Sized /\ WrittenSoFar /\ FieldsAreObjects /\ Accepted /\ Taken

-----------------------------------------------------------------------------
(* Fields and values.                                                      *)

LEMMA FieldTypes ==
  ASSUME NEW d \in Declarations
  PROVE  /\ d.in \in Seq(Fields)
         /\ d.out \in Seq(Fields)
         /\ d.kind = "TRIGGER" => d.in = d.out
BY RoutineAssumption

\* setupConversion makes a field of a type that exists ...
LEMMA BuiltType ==
  ASSUME NEW class, NEW field \in Fields
  PROVE  Built(class, field).type \in FbTypes
BY DEF Built, Field, Text, Fields, FbTypes, Numbers, Times

\* ... and a VARYING only for a text.
LEMMA VaryingIsText ==
  ASSUME NEW class, NEW field \in Fields,
         Built(class, field).type = "VARYING"
  PROVE  Converter(class, field) \in {"String", "byte[]"}
BY DEF Built, Field, Text, Fields, FbTypes, Numbers, Times

LEMMA TimesAreInt ==
  ASSUME NEW n \in Int
  PROVE  FbDateToJava(n) \in Int /\ FbTimeToJava(n) \in Int /\ FbTimestampToJava(n) \in Int
<1>1. \A k \in Int : UtcOf(k) \in Int /\ LocalOf(k) \in Int
  BY ConversionsAssumption DEF UtcOf, LocalOf, Offset
<1>2. EpochTime \in Int /\ EpochDay \in Int
  BY <1>1, ConversionsAssumption DEF EpochTime, EpochDay
<1>3. \A k \in Int : FbDateToJava(k) \in Int /\ FbTimeToJava(k) \in Int
  BY <1>1, <1>2, ConversionsAssumption DEF FbDateToJava, FbTimeToJava, Ticks
<1>4. n \div (Day * Ticks) \in Int /\ n % (Day * Ticks) \in Int
  BY ConversionsAssumption DEF Ticks
<1> QED
  BY <1>3, <1>4 DEF FbTimestampToJava

LEMMA Units == ASSUME NEW scale PROVE Unit(scale) \in {1, 10, 100}
BY Zenon DEF Unit

\* getFromMessage makes an object with a number.
LEMMA FromMessageNumber ==
  ASSUME NEW class, NEW field, NEW cell \in Cells
  PROVE  FromMessage(class, field, cell).n \in Int
<1> DEFINE c == Converter(class, field)
           decimal == IF field.type = "SHORT" THEN cell.n * Unit(field.scale) ELSE cell.n
<1>1. cell.n \in Int
  BY DEF Cells
<1>2. decimal \in Int
  BY <1>1, Units
<1>3. \A k, l : Object(k, l).n = l
  BY DEF Object
<1>4. FromNull(class).n \in Int
  BY DEF FromNull, Object, Null
<1>5. FromMessage(class, field, cell) \in
        {FromNull(class), Object(c, decimal), Object(c, FbDateToJava(cell.n)),
         Object(c, FbTimeToJava(cell.n)), Object(c, FbTimestampToJava(cell.n)),
         Object(Wrapper(c), Content(c, field, cell.n))}
  BY Zenon DEF FromMessage
<1>6. Content(c, field, cell.n) \in Int
  BY <1>1 DEF Content, Zeroed
<1> QED
  <2> HIDE DEF c, decimal
  <2> QED
    BY <1>1, <1>2, <1>3, <1>4, <1>5, <1>6, TimesAreInt

LEMMA MessageCells ==
  ASSUME NEW classes, NEW fields \in Seq(Fields),
         NEW msg \in Messages(classes, fields)
  PROVE  DOMAIN msg = DOMAIN fields /\ \A i \in DOMAIN fields : msg[i] \in Cells
<1>1. DOMAIN msg = DOMAIN fields /\ \A i \in DOMAIN fields : msg[i] \in CellsOf(classes[i], fields[i])
  BY DEF Messages
<1>2. ASSUME NEW i \in DOMAIN fields
      PROVE  msg[i] \in Cells
  <2>1. fields[i] \in Fields
    OBVIOUS
  <2>2. Inputs[Built(classes[i], fields[i]).type] \subseteq Int
    BY <2>1, BuiltType, RoutineAssumption
  <2>3. NullCell \in Cells /\ \A n \in Int : Cell(n) \in Cells
    BY DEF NullCell, Cell, Cells
  <2>4. msg[i] \in {NullCell} \cup {Cell(n) : n \in Inputs[Built(classes[i], fields[i]).type]}
    BY <1>1 DEF CellsOf
  <2> QED
    BY <2>2, <2>3, <2>4
<1> QED
  BY <1>1, <1>2

LEMMA AssignableNumber ==
  ASSUME NEW class, NEW o \in Assignable(class)
  PROVE  o.n \in Int
<1>1. \A c : \A x \in Objects(c) : x.n \in Int
  BY RoutineAssumption DEF Objects, Object
<1> QED
  BY <1>1 DEF Assignable, Null

-----------------------------------------------------------------------------
(* The invariant.                                                          *)

LEMMA InitCorrect == ASSUME Init PROVE IInv
BY DEF Init, IInv, Sized, WrittenSoFar, FieldsAreObjects, Accepted, Taken, Made, Rejected

\* A trigger has no parameters.
LEMMA ParsedTrigger ==
  ASSUME NEW s, NEW in, NEW out
  PROVE  Parse(s, in, out, TRUE).types = <<>>
<1>1. Rejected.types = <<>> /\ Invalid.types = <<>>
  BY DEF Rejected, Invalid
<1> QED
  BY <1>1, Zenon DEF Parse

LEMMA ReadCorrect == ASSUME IInv, Read PROVE IInv'
<1>1. pc' = "parsed" /\ UNCHANGED <<decl, text, inClasses, outClasses, callVars>>
  BY DEF Read
<1>2. decl.kind = "TRIGGER" => entry'.types = <<>>
  BY ParsedTrigger DEF Read
<1> QED
  BY <1>1, <1>2 DEF IInv, Sized, WrittenSoFar, FieldsAreObjects, Accepted, Taken, Made, callVars

LEMMA MakeCorrect == ASSUME IInv, Make PROVE IInv'
<1>1. pc' = "ready" /\ UNCHANGED <<decl, text, entry, callVars>>
  BY DEF Make
<1>2. AllConvertible(inClasses', decl.in) /\ AllConvertible(outClasses', decl.out)
  BY DEF Make
<1>3. ASSUME decl.kind = "TRIGGER", NEW i \in DOMAIN decl.in
      PROVE  inClasses'[i] = "Object" /\ outClasses'[i] = "Object"
  <2>1. entry.types = <<>> /\ decl.in = decl.out
    BY <1>3, FieldTypes DEF IInv, FieldsAreObjects
  <2>2. inClasses' = ClassesOf(<<>>, decl.in) /\ outClasses' = ClassesOf(<<>>, decl.out)
    BY <1>3, <2>1 DEF Make, InputsOf, OutputsOf
  <2> QED
    BY <1>3, <2>1, <2>2 DEF ClassesOf
<1> QED
  BY <1>1, <1>2, <1>3
  DEF IInv, Sized, WrittenSoFar, FieldsAreObjects, Accepted, Taken, callVars, AllConvertible

\* What a call does not touch.
LEMMA RoutineKept ==
  ASSUME IInv, UNCHANGED routineVars, Made' => Made
  PROVE  decl' = decl /\ decl' \in Declarations /\ FieldsAreObjects' /\ Accepted'
BY DEF IInv, FieldsAreObjects, Accepted, AllConvertible, routineVars

LEMMA ArgumentsKept ==
  ASSUME IInv, UNCHANGED <<routineVars, inMsg, args>>,
         pc' \in {"running", "preparing", "writing", "returned"} =>
           pc \in {"running", "preparing", "writing", "returned"}
  PROVE  Taken'
BY DEF IInv, Taken, Arguments, routineVars

LEMMA CallCorrect == ASSUME IInv, Call PROVE IInv'
<1>1. decl' = decl /\ decl \in Declarations /\ pc' = "running"
  BY DEF IInv, Call, routineVars
<1>2. DOMAIN inMsg' = DOMAIN decl.in /\ \A i \in DOMAIN decl.in : inMsg'[i] \in Cells
  BY <1>1, MessageCells, FieldTypes DEF Call
<1>3. /\ DOMAIN args' = DOMAIN decl.in
      /\ \A i \in DOMAIN args' : args'[i].n \in Int
  <2>1. args' = Arguments(inMsg')
    BY DEF Call
  <2>2. ASSUME NEW i \in DOMAIN decl.in
        PROVE  Arguments(inMsg')[i].n \in Int
    BY <1>2, FromMessageNumber DEF Arguments
  <2> QED
    BY <2>1, <2>2 DEF Arguments
<1>4. FieldsAreObjects' /\ Accepted'
  BY <1>1, RoutineKept DEF Call, Made
<1>5. Taken'
  BY DEF Call, Taken, Arguments, routineVars
<1>6. Sized'
  <2>1. CASE decl.kind = "TRIGGER"
    <3>1. decl.in = decl.out /\ outMsg' = inMsg' /\ results' = args'
      BY <1>1, <2>1, FieldTypes DEF Call
    <3> QED
      BY <1>1, <1>2, <1>3, <3>1 DEF Sized
  <2>2. CASE decl.kind # "TRIGGER"
    <3>1. /\ outMsg' = [i \in DOMAIN decl.out |-> NullCell]
          /\ results' = [i \in DOMAIN decl.out |-> FromNull(outClasses[i])]
      BY <2>2 DEF Call
    <3>2. \A class : FromNull(class).n \in Int
      BY DEF FromNull, Object, Null
    <3> QED
      BY <1>1, <3>1, <3>2 DEF Sized
  <2> QED
    BY <2>1, <2>2
<1> QED
  BY <1>1, <1>4, <1>5, <1>6 DEF IInv, WrittenSoFar

LEMMA RunCorrect == ASSUME IInv, Run PROVE IInv'
<1>1. DOMAIN results' = DOMAIN results /\ \A i \in DOMAIN results : results'[i].n \in Int
  <2>1. CASE UNCHANGED results
    BY <2>1 DEF IInv, Sized, Run
  <2>2. ASSUME NEW i \in DOMAIN results, NEW o \in Assignable(outClasses[i]),
               results' = [results EXCEPT ![i] = o]
        PROVE  DOMAIN results' = DOMAIN results /\ \A j \in DOMAIN results : results'[j].n \in Int
    BY <2>2, AssignableNumber DEF IInv, Sized, Run
  <2> QED
    BY <2>1, <2>2 DEF Run
<1>2. /\ UNCHANGED <<routineVars, inMsg, outMsg, args, next>>
      /\ pc = "running" /\ pc' = "preparing"
  BY DEF Run
<1>3. decl' = decl /\ decl' \in Declarations /\ FieldsAreObjects' /\ Accepted' /\ Taken'
  BY <1>2, RoutineKept, ArgumentsKept DEF Made
<1> QED
  BY <1>1, <1>2, <1>3 DEF IInv, Sized, WrittenSoFar

LEMMA WriteCorrect == ASSUME IInv, Write PROVE IInv'
<1>1. next \in Nat \ {0} /\ next \in DOMAIN outMsg /\ next' = next + 1
  BY DEF IInv, Sized, WrittenSoFar, Write
<1>2. DOMAIN outMsg' = DOMAIN outMsg
  BY DEF Write
<1>3. ASSUME NEW i \in DOMAIN results, i < next'
      PROVE  FieldWritten(i)'
  <2>1. Written(i)' = Written(i) /\ DOMAIN results \subseteq Int
    <3>1. DOMAIN results \subseteq Int
      BY FieldTypes DEF IInv, Sized, Write
    <3> QED
      BY <3>1 DEF Written, Write, routineVars
  <2>2. CASE i = next
    BY <1>1, <2>1, <2>2 DEF FieldWritten, Write, routineVars
  <2>3. CASE i # next
    <3>1. i < next /\ outMsg'[i] = outMsg[i]
      BY <1>1, <1>3, <2>1, <2>3 DEF Write
    <3>2. FieldWritten(i)
      BY <3>1 DEF IInv, WrittenSoFar, Write
    <3> QED
      BY <2>1, <3>1, <3>2 DEF FieldWritten, Write, routineVars
  <2> QED
    BY <2>2, <2>3
<1>4. decl' = decl /\ decl' \in Declarations /\ FieldsAreObjects' /\ Accepted' /\ Taken'
  BY RoutineKept, ArgumentsKept DEF Made, Write
<1> QED
  BY <1>1, <1>2, <1>3, <1>4 DEF IInv, Sized, WrittenSoFar, Write

\* Whatever stops or goes on without touching the results.
LEMMA StepCorrect ==
  ASSUME IInv, Reject \/ RejectReturnType \/ NoMoreRows \/ RunFails \/ Prepare \/ PrepareFails
               \/ WriteFails \/ Return \/ Fetch \/ UNCHANGED vars
  PROVE  IInv'
<1>1. UNCHANGED <<routineVars, inMsg, outMsg, args, results>> /\ (Made' => Made)
  BY DEF Reject, RejectReturnType, NoMoreRows, RunFails, Prepare, PrepareFails, WriteFails,
         Return, Fetch, vars, callVars, Made
<1>2. pc' \in {"running", "preparing", "writing", "returned"} =>
        pc \in {"running", "preparing", "writing", "returned"}
  BY DEF Reject, RejectReturnType, NoMoreRows, RunFails, Prepare, PrepareFails, WriteFails,
         Return, Fetch, vars
<1>3. decl' = decl /\ decl' \in Declarations /\ FieldsAreObjects' /\ Accepted' /\ Taken'
  BY <1>1, <1>2, RoutineKept, ArgumentsKept
<1>4. Sized'
  BY <1>1, <1>2, <1>3 DEF IInv, Sized
<1>5. WrittenSoFar'
  <2>1. CASE Prepare
    <3>1. pc' = "writing" /\ next' = 1
      BY <2>1 DEF Prepare
    <3>2. \A i \in DOMAIN results : ~ (i < 1)
      BY <2>1, FieldTypes DEF Prepare, IInv, Sized
    <3> QED
      BY <1>1, <3>1, <3>2 DEF WrittenSoFar
  <2>2. CASE ~Prepare
    <3>1. /\ pc' \in {"writing", "returned"} => pc \in {"writing", "returned"} /\ next' = next
          /\ pc' = "returned" => next' \notin DOMAIN results'
      BY <2>2 DEF IInv, WrittenSoFar, Reject, RejectReturnType, NoMoreRows, RunFails,
                  PrepareFails, WriteFails, Return, Fetch, vars, callVars
    <3>2. \A i : FieldWritten(i)' = FieldWritten(i)
      BY <1>1 DEF FieldWritten, Written, routineVars
    <3> QED
      BY <1>1, <3>1, <3>2 DEF IInv, WrittenSoFar
  <2> QED
    BY <2>1, <2>2
<1> QED
  BY <1>3, <1>4, <1>5 DEF IInv

LEMMA NextCorrect == ASSUME IInv, [Next]_vars PROVE IInv'
BY ReadCorrect, MakeCorrect, CallCorrect, RunCorrect, WriteCorrect, StepCorrect DEF Next

LEMMA Correct == Spec => []IInv
BY InitCorrect, NextCorrect, PTL DEF Spec

-----------------------------------------------------------------------------
(* The properties.                                                         *)

\* ExternalEngine.java:434-448, 466-471: no text is longer than its field,
\* whatever the routine leaves in its results.
THEOREM TextsAlwaysFit == Spec => []TextsFit
<1>1. ASSUME IInv PROVE TextsFit
  <2> SUFFICES ASSUME pc \in {"writing", "returned"}, NEW i \in DOMAIN outMsg, i < next,
                      Built(outClasses[i], decl.out[i]).type = "VARYING", ~outMsg[i].null
               PROVE  outMsg[i].n <= Built(outClasses[i], decl.out[i]).length
    BY DEF TextsFit
  <2> DEFINE c == Converter(outClasses[i], decl.out[i])
             o == results[i]
  <2>1. FieldWritten(i) /\ decl.out[i] \in Fields
    <3>1. i \in DOMAIN results /\ i \in DOMAIN decl.out
      BY <1>1 DEF IInv, Sized
    <3>2. decl.out \in Seq(Fields)
      BY <1>1, FieldTypes DEF IInv
    <3> QED
      BY <1>1, <3>1, <3>2 DEF IInv, WrittenSoFar
  <2>2. c \in {"String", "byte[]"}
    BY <2>1, VaryingIsText
  <2>3. o # Null
    BY <2>1 DEF FieldWritten, ToMessage, NullCell
  <2>4. outMsg[i] = Cell(o.n)
    <3> HIDE DEF o
    <3>1. outMsg[i] = ToMessage(outClasses[i], decl.out[i], o)
      BY <2>1 DEF FieldWritten, o
    <3> QED
      BY Zenon, <2>2, <2>3, <3>1 DEF ToMessage
  <2>5. FitsLength(Built(outClasses[i], decl.out[i]), c, o)
    BY <2>1, <2>3 DEF FieldWritten, Written, Writes
  <2> QED
    BY <2>2, <2>4, <2>5 DEF FitsLength, Cell
<1> QED
  BY <1>1, Correct, PTL

-----------------------------------------------------------------------------
(* The arithmetic of a DECIMAL.                                            *)

\* BigDecimal.setScale with HALF_UP: no unit is nearer.
LEMMA HalfUpIsNearest ==
  ASSUME NEW d \in Int, NEW unit \in {1, 10, 100}
  PROVE  /\ HalfUp(d, unit) \in Int
         /\ 2 * (HalfUp(d, unit) * unit - d) <= unit
         /\ -2 * (HalfUp(d, unit) * unit - d) <= unit
<1>1. CASE unit = 1
  BY <1>1 DEF HalfUp
<1>2. CASE unit = 10
  BY <1>2 DEF HalfUp
<1>3. CASE unit = 100
  BY <1>3 DEF HalfUp
<1> QED
  BY <1>1, <1>2, <1>3

LEMMA HalfUpStaysInRange ==
  ASSUME NEW d \in Int, NEW unit \in {1, 10, 100}, NEW half \in Nat \ {0},
         d \in ((1 - half) * unit)..((half - 1) * unit)
  PROVE  HalfUp(d, unit) \in (1 - half)..(half - 1)
<1>1. CASE unit = 1
  BY <1>1 DEF HalfUp
<1>2. CASE unit = 10
  BY <1>2 DEF HalfUp
<1>3. CASE unit = 100
  BY <1>3 DEF HalfUp
<1> QED
  BY <1>1, <1>2, <1>3

\* BigInteger.shortValue keeps what fits.
LEMMA NarrowKeeps ==
  ASSUME NEW half \in Nat \ {0}, NEW i \in (-half)..(half - 1)
  PROVE  Narrow(i, half) = i
<1> DEFINE x == i + half
           m == 2 * half
<1>1. x \in Int /\ m \in Int /\ 0 <= x /\ x < m
  OBVIOUS
<1>2. x % m = x
  <2> HIDE DEF x, m
  <2> QED
    BY <1>1
<1> QED
  BY <1>2 DEF Narrow

\* ToMessage of an object that is not null, by its converter.
LEMMA ConvertedNumber ==
  ASSUME NEW class, NEW field, NEW o, o # Null, Converter(class, field) = "BigDecimal"
  PROVE  ToMessage(class, field, o) = Cell(DecimalCell(o.n, Built(class, field)))
BY Zenon DEF ToMessage

LEMMA ConvertedOther ==
  ASSUME NEW class, NEW field, NEW o, o # Null,
         FitsClass(Converter(class, field), o),
         o.class \in {"String", "byte[]", "Blob", "Short", "Double", "Boolean"}
  PROVE  ToMessage(class, field, o) = Cell(o.n)
<1> DEFINE c == Converter(class, field)
<1>1. c \notin {"BigDecimal", "Date", "Time", "Timestamp"}
  BY DEF FitsClass, Wrapper
<1> HIDE DEF c
<1>2. ToMessage(class, field, o) =
        CASE c = "BigDecimal" -> Cell(DecimalCell(o.n, Built(class, field)))
          [] c = "Date"       -> Cell(JavaDateToFb(o.n))
          [] c = "Time"       -> Cell(JavaTimeToFb(o.n))
          [] c = "Timestamp"  -> Cell(JavaTimestampToFb(o.n))
          [] OTHER            -> Cell(o.n)
  BY Zenon DEF ToMessage, c
<1> QED
  BY Zenon, <1>1, <1>2

\* A cell is NULL only for null.
LEMMA ConvertedNull ==
  ASSUME NEW class, NEW field, NEW o
  PROVE  ToMessage(class, field, o).null <=> o = Null
<1>1. \A n : Cell(n).null = FALSE
  BY DEF Cell
<1>2. NullCell.null = TRUE
  BY DEF NullCell
<1>3. CASE o = Null
  BY Zenon, <1>2, <1>3 DEF ToMessage
<1>4. CASE o # Null
  <2>1. \E n : ToMessage(class, field, o) = Cell(n)
    BY Zenon, <1>4 DEF ToMessage
  <2> QED
    BY Zenon, <1>1, <1>4, <2>1
<1> QED
  BY <1>3, <1>4

\* ExternalEngine.java:904-940: when putInMessage has returned, every field has
\* NULL for null and for nothing else, the nearest number for a number in range,
\* and the value itself otherwise.
THEOREM EveryResultIsWritten == Spec => []ResultsAreWritten
<1>1. ASSUME IInv PROVE ResultsAreWritten
  <2> SUFFICES ASSUME pc = "returned", NEW i \in DOMAIN results
               PROVE  /\ outMsg[i].null <=> results[i] = Null
                      /\ IsDecimal(i) /\ InRange(decl.out[i], results[i].n) =>
                           Nearest(decl.out[i], outMsg[i], results[i].n)
                      /\ results[i].class \in {"String", "byte[]", "Blob", "Short", "Double", "Boolean"} =>
                           outMsg[i].n = results[i].n
    BY DEF ResultsAreWritten
  <2> DEFINE o == results[i]
             field == decl.out[i]
  <2>2. decl.out \in Seq(Fields) /\ DOMAIN results = DOMAIN decl.out /\ o.n \in Int
    BY <1>1, FieldTypes DEF IInv, Sized
  <2>3. i < next
    <3>1. next \in Nat \ {0} /\ next \notin DOMAIN results
      BY <1>1 DEF IInv, WrittenSoFar
    <3> QED
      BY <2>2, <3>1
  <2>4. Written(i) /\ outMsg[i] = ToMessage(outClasses[i], field, o)
    BY <1>1, <2>3 DEF IInv, WrittenSoFar, FieldWritten
  <2> HIDE DEF o, field
  <2>5. outMsg[i].null <=> o = Null
    BY <2>4, ConvertedNull
  <2>6. ASSUME IsDecimal(i), InRange(field, o.n)
        PROVE  Nearest(field, outMsg[i], o.n)
    <3>1. Converter(outClasses[i], field) = "BigDecimal" /\ field.type = "SHORT" /\ o # Null
      BY <2>6 DEF IsDecimal, o, field
    <3>2. Built(outClasses[i], field) = field
      BY Zenon, <3>1 DEF Built, Numbers
    <3>3. outMsg[i] = Cell(DecimalCell(o.n, field))
      BY <2>4, <3>1, <3>2, ConvertedNumber
    <3> DEFINE unit == Unit(field.scale)
               q == HalfUp(o.n, unit)
    <3>4. unit \in {1, 10, 100}
      BY Units
    <3>5. o.n \in ((1 - HalfRange) * unit)..((HalfRange - 1) * unit)
      BY <2>6 DEF InRange
    <3>6. HalfRange \in Nat \ {0}
      BY ConversionsAssumption
    <3> HIDE DEF unit
    <3>7. /\ q \in (1 - HalfRange)..(HalfRange - 1)
          /\ 2 * (q * unit - o.n) <= unit /\ -2 * (q * unit - o.n) <= unit
      <4>1. o.n \in Int
        BY <2>2 DEF o
      <4>2. 2 * (q * unit - o.n) <= unit /\ -2 * (q * unit - o.n) <= unit
        <5>1. CASE unit = 1
          BY <4>1, <5>1, HalfUpIsNearest
        <5>2. CASE unit = 10
          BY <4>1, <5>2, HalfUpIsNearest
        <5>3. CASE unit = 100
          BY <4>1, <5>3, HalfUpIsNearest
        <5> QED
          BY <3>4, <5>1, <5>2, <5>3
      <4>3. q \in (1 - HalfRange)..(HalfRange - 1)
        BY <3>4, <3>5, <3>6, <4>1, HalfUpStaysInRange
      <4> QED
        BY <4>2, <4>3
    <3> HIDE DEF q
    <3>8. Narrow(q, HalfRange) = q
      BY <3>6, <3>7, NarrowKeeps
    <3>9. outMsg[i].n = q
      BY <3>1, <3>3, <3>8 DEF DecimalCell, Cell, q, unit
    <3> QED
      BY <3>7, <3>9 DEF Nearest, unit
  <2>7. ASSUME o.class \in {"String", "byte[]", "Blob", "Short", "Double", "Boolean"}
        PROVE  outMsg[i].n = o.n
    <3>1. o # Null
      BY <2>7 DEF Null
    <3>2. FitsClass(Converter(outClasses[i], field), o)
      BY <2>4, <3>1 DEF Written, Writes, o, field
    <3> QED
      BY <2>4, <2>7, <3>1, <3>2, ConvertedOther DEF Cell
  <2> QED
    BY <2>5, <2>6, <2>7 DEF o, field
<1> QED
  BY <1>1, Correct, PTL

-----------------------------------------------------------------------------
(* Division.                                                               *)

LEMMA Division ==
  ASSUME NEW d \in Nat \ {0}, NEW q \in Int, NEW r \in 0..(d - 1)
  PROVE  (q * d + r) \div d = q /\ (q * d + r) % d = r
OBVIOUS

LEMMA DivisionExists ==
  ASSUME NEW d \in Nat \ {0}, NEW n \in Int
  PROVE  \E q \in Int, r \in 0..(d - 1) : n = q * d + r
<1> DEFINE S == {r \in Nat : \E q \in Int : n = q * d + r}
<1>1. S # {}
  <2>1. CASE n >= 0
    <3>1. \E q \in Int : n = q * d + n
      <4> WITNESS 0 \in Int
      <4> QED
        OBVIOUS
    <3>2. n \in Nat
      BY <2>1
    <3> QED
      BY Zenon, <3>1, <3>2
  <2>2. CASE n < 0
    <3>1. (-n) * (d - 1) \in Nat
      BY <2>2
    <3>2. \E q \in Int : n = q * d + (-n) * (d - 1)
      <4> WITNESS n \in Int
      <4> QED
        OBVIOUS
    <3> HIDE DEF S
    <3> QED
      BY <3>1, <3>2 DEF S
  <2> HIDE DEF S
  <2> QED
    BY <2>1, <2>2
<1>2. PICK r \in S : \A j \in S : r <= j
  <2> HIDE DEF S
  <2> S \in SUBSET Nat
    BY DEF S
  <2> QED
    BY <1>1, LeastExists
<1>3. PICK q \in Int : n = q * d + r
  BY <1>2
<1>4. r < d
  <2> SUFFICES ASSUME r >= d PROVE FALSE
    BY <1>2
  <2>1. r - d \in Nat /\ n = (q + 1) * d + (r - d) /\ q + 1 \in Int
    BY <1>3
  <2>2. r - d \in S
    BY <2>1
  <2>3. r <= r - d
    BY <1>2, <2>2
  <2> QED
    BY <2>3, <1>2
<1> QED
  BY <1>3, <1>4

LEMMA DivisionBack ==
  ASSUME NEW d \in Nat \ {0}, NEW n \in Int
  PROVE  \E q \in Int, r \in 0..(d - 1) : n = q * d + r /\ n \div d = q /\ n % d = r
<1>1. PICK q \in Int, r \in 0..(d - 1) : n = q * d + r
  BY DivisionExists
<1>2. (q * d + r) \div d = q /\ (q * d + r) % d = r
  BY <1>1, Division
<1> QED
  BY <1>1, <1>2

-----------------------------------------------------------------------------
(* The calendar: what comes back of a date, a time and a timestamp.        *)

\* The clocks do not change on the day of the epoch; and where that is the last
\* hour of a day, no change skips this hour.
OrdinaryZone ==
  /\ Settled(EpochDay)
  /\ EpochTime = Day - 1 => (Standard + SummerBegins) % Day # Day - 1

LEMMA LocalBack ==
  ASSUME NEW l \in Int
  PROVE  /\ UtcOf(l) \in Int
         /\ LocalOf(UtcOf(l)) \in {l, l + 1}
         /\ LocalOf(UtcOf(l)) = l + 1 => l = Standard + SummerBegins
BY ConversionsAssumption DEF LocalOf, UtcOf, Offset

LEMMA SettledTimes ==
  ASSUME NEW d \in Int, Settled(d)
  PROVE  \E offset \in Int :
           \A l \in (d * Day)..((d + 1) * Day - 1) :
             /\ UtcOf(l) = l - offset
             /\ LocalOf(l - offset) = l
             /\ \A u \in Int : LocalOf(u) = l => u = l - offset
<1>1. PICK offset \in {Standard, Standard + 1} :
        \A l \in (d * Day)..((d + 1) * Day - 1) : InstantsOf(l) = {l - offset}
  BY DEF Settled
<1>2. offset \in Int
  BY ConversionsAssumption
<1>3. ASSUME NEW l \in (d * Day)..((d + 1) * Day - 1)
      PROVE  /\ UtcOf(l) = l - offset
             /\ LocalOf(l - offset) = l
             /\ \A u \in Int : LocalOf(u) = l => u = l - offset
  <2>1. l \in Int
    BY ConversionsAssumption
  <2>2. l - offset \in InstantsOf(l) /\ \A u \in InstantsOf(l) : u = l - offset
    BY <1>1, <1>3
  <2>3. LocalOf(l - offset) = l
    BY <2>2 DEF InstantsOf
  <2>4. ASSUME NEW u \in Int, LocalOf(u) = l PROVE u = l - offset
    <3>1. u \in {l - Standard, l - Standard - 1}
      BY <2>1, <2>4, ConversionsAssumption DEF LocalOf, Offset
    <3> QED
      BY <2>2, <2>4, <3>1 DEF InstantsOf
  <2>5. LocalOf(UtcOf(l)) = l
    BY <1>1, <2>1, <2>3, ConversionsAssumption DEF LocalOf, UtcOf, Offset
  <2>6. UtcOf(l) \in Int
    BY <2>1, LocalBack
  <2> QED
    BY <2>3, <2>4, <2>5, <2>6
<1> QED
  BY <1>2, <1>3

LEMMA EpochTimes ==
  /\ EpochTime \in 0..(Day - 1) /\ EpochDay \in Int
  /\ EpochDay * Day + EpochTime = LocalOf(0)
  /\ LocalOf(0) \in Int
<1>1. LocalOf(0) \in Int /\ Day \in Nat \ {0}
  BY ConversionsAssumption DEF LocalOf, Offset
<1>2. PICK q \in Int, r \in 0..(Day - 1) :
        LocalOf(0) = q * Day + r /\ LocalOf(0) \div Day = q /\ LocalOf(0) % Day = r
  BY <1>1, DivisionBack
<1>3. EpochDay = q /\ EpochTime = r
  BY <1>2 DEF EpochDay, EpochTime
<1> QED
  BY <1>1, <1>2, <1>3

\* A date comes back, whatever the clocks do on that day.
LEMMA DateComesBack ==
  ASSUME OrdinaryZone, NEW n \in Int
  PROVE  JavaDateToFb(FbDateToJava(n)) = n
<1> DEFINE l == n * Day + EpochTime
<1>1. l \in Int /\ Day \in Nat \ {0}
  BY EpochTimes, ConversionsAssumption
<1>2. l \div Day = n /\ l % Day = EpochTime
  BY <1>1, EpochTimes, Division
<1>3. CASE LocalOf(UtcOf(l)) = l
  BY <1>2, <1>3 DEF JavaDateToFb, FbDateToJava
<1>4. CASE LocalOf(UtcOf(l)) # l
  <2>1. LocalOf(UtcOf(l)) = l + 1 /\ l = Standard + SummerBegins
    BY <1>1, <1>4, LocalBack
  <2>2. EpochTime # Day - 1
    BY <1>2, <2>1 DEF OrdinaryZone
  <2>3. EpochTime + 1 \in 0..(Day - 1) /\ l + 1 = n * Day + (EpochTime + 1)
    BY <1>1, <2>2, EpochTimes
  <2>4. (l + 1) \div Day = n
    BY <1>1, <2>3, Division
  <2> QED
    BY <2>1, <2>4 DEF JavaDateToFb, FbDateToJava
<1> QED
  BY <1>3, <1>4

LEMMA TickDivision ==
  ASSUME NEW t \in Int
  PROVE  /\ t \div Ticks \in Int
         /\ t \in 0..(Day * Ticks - 1) => t \div Ticks \in 0..(Day - 1)
         /\ (t * Ticks) \div Ticks = t
BY ConversionsAssumption DEF Ticks

\* A time of the day, on a day on which the clocks do not change.
LEMMA TimeOfDay ==
  ASSUME NEW d \in Int, NEW k \in 0..(Day - 1)
  PROVE  /\ d * Day + k \in (d * Day)..((d + 1) * Day - 1)
         /\ (d * Day + k) \div Day = d /\ (d * Day + k) % Day = k
<1>1. Day \in Nat \ {0}
  BY ConversionsAssumption
<1>2. (d * Day + k) \div Day = d /\ (d * Day + k) % Day = k
  BY <1>1, Division
<1>3. (d + 1) * Day = d * Day + Day
  BY <1>1
<1> QED
  BY <1>1, <1>2, <1>3

LEMMA TimeComesBack ==
  ASSUME OrdinaryZone, NEW t \in 0..(Day * Ticks - 1)
  PROVE  JavaTimeToFb(FbTimeToJava(t)) \div Ticks = t \div Ticks
<1> DEFINE k == t \div Ticks
           l == EpochDay * Day + k
<1>1. k \in 0..(Day - 1) /\ EpochDay \in Int /\ k \in Int
  BY TickDivision, EpochTimes, ConversionsAssumption DEF Ticks
<1> HIDE DEF k
<1>2. l \in (EpochDay * Day)..((EpochDay + 1) * Day - 1) /\ l % Day = k
  BY <1>1, TimeOfDay
<1>3. LocalOf(UtcOf(l)) = l
  BY <1>1, <1>2, SettledTimes DEF OrdinaryZone
<1>4. JavaTimeToFb(FbTimeToJava(t)) = k * Ticks
  BY <1>2, <1>3 DEF JavaTimeToFb, FbTimeToJava, k
<1> QED
  BY <1>1, <1>4, TickDivision DEF k

LEMMA TimestampComesBack ==
  ASSUME OrdinaryZone, NEW n \in Int, Settled(n \div (Day * Ticks))
  PROVE  JavaTimestampToFb(FbTimestampToJava(n)) \div Ticks = n \div Ticks
<1> DEFINE whole == Day * Ticks
<1>1. Day \in Nat \ {0} /\ whole \in Nat \ {0} /\ EpochDay \in Int /\ EpochTime \in 0..(Day - 1)
  BY EpochTimes, ConversionsAssumption DEF Ticks
<1>2. PICK d \in Int, t \in 0..(whole - 1) :
        n = d * whole + t /\ n \div whole = d /\ n % whole = t
  <2> HIDE DEF whole
  <2> QED
    BY <1>1, DivisionBack
<1> DEFINE k == t \div Ticks
<1>3. k \in 0..(Day - 1) /\ t \in Int /\ k \in Int
  BY <1>1, <1>2, TickDivision
<1>4. PICK o \in Int : \A l \in (d * Day)..((d + 1) * Day - 1) :
        UtcOf(l) = l - o /\ LocalOf(l - o) = l
  BY <1>2, SettledTimes
<1>5. PICK e \in Int : \A l \in (EpochDay * Day)..((EpochDay + 1) * Day - 1) :
        UtcOf(l) = l - e /\ \A u \in Int : LocalOf(u) = l => u = l - e
  BY <1>1, SettledTimes DEF OrdinaryZone
<1> HIDE DEF k, whole
<1> DEFINE date == d * Day + EpochTime
           time == EpochDay * Day + k
           local == d * Day + k
<1>6. UtcOf(date) = date - o /\ LocalOf(local - o) = local
  BY <1>1, <1>3, <1>4, TimeOfDay
<1>7. UtcOf(time) = time - e
  BY <1>1, <1>3, <1>5, TimeOfDay
<1>8. e = EpochDay * Day + EpochTime
  <2>1. 0 = LocalOf(0) - e /\ LocalOf(0) = EpochDay * Day + EpochTime
    BY <1>1, <1>5, TimeOfDay, EpochTimes
  <2> QED
    BY <2>1, <1>5, EpochTimes
<1>9. FbTimestampToJava(n) = local - o
  <2>1. FbTimestampToJava(n) = (date - o) + (time - e)
    BY <1>2, <1>6, <1>7 DEF FbTimestampToJava, FbDateToJava, FbTimeToJava, k, whole
  <2> QED
    BY <2>1, <1>1, <1>3, <1>4, <1>8
<1>10. JavaTimestampToFb(local - o) = d * Day * Ticks + k * Ticks
  BY <1>3, <1>6, TimeOfDay DEF JavaTimestampToFb, JavaDateToFb, JavaTimeToFb
<1>11. JavaTimestampToFb(FbTimestampToJava(n)) \div Ticks = d * Day + k
  <2>1. JavaTimestampToFb(FbTimestampToJava(n)) = local * Ticks
    BY <1>1, <1>3, <1>9, <1>10 DEF Ticks
  <2> QED
    BY <1>1, <1>3, <2>1, TickDivision
<1>12. n \div Ticks = d * Day + k
  <2>1. PICK r \in 0..(Ticks - 1) : t = k * Ticks + r
    BY <1>3, DivisionBack DEF k, Ticks
  <2>2. n = (d * Day + k) * Ticks + r
    BY <1>1, <1>2, <1>3, <2>1 DEF whole, Ticks
  <2>3. ((d * Day + k) * Ticks + r) \div Ticks = d * Day + k
    BY <1>1, <1>3, Division DEF Ticks
  <2> QED
    BY <2>2, <2>3
<1> QED
  BY <1>11, <1>12

LEMMA DecimalComesBack ==
  ASSUME NEW n \in (-HalfRange)..(HalfRange - 1), NEW unit \in {1, 10, 100}
  PROVE  Narrow(HalfUp(n * unit, unit), HalfRange) = n
<1>1. HalfUp(n * unit, unit) = n
  <2>0. n \in Int
    BY ConversionsAssumption
  <2>1. CASE unit = 1
    BY <2>0, <2>1 DEF HalfUp
  <2>2. CASE unit = 10
    BY <2>0, <2>2 DEF HalfUp
  <2>3. CASE unit = 100
    BY <2>0, <2>3 DEF HalfUp
  <2> QED
    BY <2>1, <2>2, <2>3
<1> QED
  BY <1>1, NarrowKeeps, ConversionsAssumption

-----------------------------------------------------------------------------
(* The conversions there and back.                                         *)

LEMMA WrapperIsClass ==
  ASSUME NEW class \in Classes
  PROVE  Wrapper(class) # "null"
BY DEF Wrapper, Classes

LEMMA ConverterIsClass ==
  ASSUME NEW class \in Classes, NEW field \in Fields
  PROVE  /\ Converter(class, field) \in Classes \ {"Object"}
         /\ Converter(class, field) \in {"short", "boolean"} <=> class \in {"short", "boolean"}
<1>1. DefaultClass[field.type] \in {"String", "Blob", "BigDecimal", "Double", "Date", "Time",
                                    "Timestamp", "Boolean"}
  BY DEF DefaultClass, Fields, FbTypes, Numbers, Times
<1> QED
  BY <1>1 DEF Converter, Classes

LEMMA DefaultClasses ==
  /\ DefaultClass["TEXT"] = "String" /\ DefaultClass["VARYING"] = "String"
  /\ DefaultClass["BLOB"] = "Blob" /\ DefaultClass["BOOLEAN"] = "Boolean"
  /\ DefaultClass["SHORT"] = "BigDecimal" /\ DefaultClass["DOUBLE"] = "Double"
  /\ DefaultClass["DATE"] = "Date" /\ DefaultClass["TIME"] = "Time"
  /\ DefaultClass["TIMESTAMP"] = "Timestamp"
<1>1. {"TEXT", "VARYING", "BLOB", "BOOLEAN", "SHORT", "DOUBLE", "DATE", "TIME", "TIMESTAMP"}
        \subseteq FbTypes
  BY DEF FbTypes, Numbers, Times
<1> QED
  BY <1>1 DEF DefaultClass

\* The type of the field that the default data type makes.
LEMMA BuiltDefault ==
  ASSUME NEW field \in Fields
  PROVE  Built("Object", field).type = IF field.type = "TEXT" THEN "VARYING" ELSE field.type
<1>1. \A t, l, s : Field(t, l, s).type = t
  BY DEF Field
<1> DEFINE c == Converter("Object", field)
<1>2. c = DefaultClass[field.type] /\ field.type \in FbTypes
  BY DEF Converter, Fields
<1>3. Built("Object", field) =
        CASE c \in {"String", "byte[]"} /\ field.type \in {"TEXT", "VARYING"} -> Text(field)
          [] c \in {"String", "byte[]", "Blob"} /\ field.type = "BLOB" -> field
          [] c = "String" /\ field.type \in Numbers \cup Times \cup {"BOOLEAN"} ->
               Field("VARYING", 25, field.scale)
          [] c = "BigDecimal" /\ field.type \in Numbers -> field
          [] c = "BigDecimal" /\ field.type \notin Numbers -> Field("DOUBLE", 8, 0)
          [] c = "Double" -> Field("DOUBLE", 8, field.scale)
          [] c \in {"short", "Short"} -> Field("SHORT", 2, 0)
          [] c = "Date" -> Field("DATE", 4, field.scale)
          [] c = "Time" -> Field("TIME", 4, 0)
          [] c = "Timestamp" -> Field("TIMESTAMP", 8, 0)
          [] OTHER -> Field("BOOLEAN", 1, field.scale)
  BY Zenon DEF Built
<1> DEFINE built == Built("Object", field)
<1> HIDE DEF c, built
<1>4. CASE field.type \in {"TEXT", "VARYING"}
  <2>1. c = "String"
    BY <1>2, <1>4, DefaultClasses
  <2>2. built = Text(field)
    BY <1>3, <1>4, <2>1, Zenon DEF built, Numbers, Times
  <2> QED
    BY <1>1, <1>4, <2>2 DEF Text, built
<1>5. CASE field.type = "BLOB"
  <2>1. c = "Blob"
    BY <1>2, <1>5, DefaultClasses
  <2>2. built = field
    BY <1>3, <1>5, <2>1, Zenon DEF built
  <2> QED
    BY <1>5, <2>2 DEF built
<1>6. CASE field.type = "SHORT"
  <2>1. c = "BigDecimal"
    BY <1>2, <1>6, DefaultClasses
  <2>2. built = field
    BY <1>3, <1>6, <2>1, Zenon DEF built, Numbers
  <2> QED
    BY <1>6, <2>2 DEF built
<1>7. CASE field.type \in {"DOUBLE", "DATE", "TIME", "TIMESTAMP"}
  <2>1. /\ field.type = "DOUBLE" => c = "Double"
        /\ field.type = "DATE" => c = "Date"
        /\ field.type = "TIME" => c = "Time"
        /\ field.type = "TIMESTAMP" => c = "Timestamp"
    BY <1>2, DefaultClasses
  <2>2. CASE field.type = "DOUBLE"
    <3>1. built = Field("DOUBLE", 8, field.scale)
      BY <1>3, <2>1, <2>2, Zenon DEF built
    <3> QED
      BY <1>1, <2>2, <3>1 DEF built
  <2>3. CASE field.type = "DATE"
    <3>1. built = Field("DATE", 4, field.scale)
      BY <1>3, <2>1, <2>3, Zenon DEF built
    <3> QED
      BY <1>1, <2>3, <3>1 DEF built
  <2>4. CASE field.type = "TIME"
    <3>1. built = Field("TIME", 4, 0)
      BY <1>3, <2>1, <2>4, Zenon DEF built
    <3> QED
      BY <1>1, <2>4, <3>1 DEF built
  <2>5. CASE field.type = "TIMESTAMP"
    <3>1. built = Field("TIMESTAMP", 8, 0)
      BY <1>3, <2>1, <2>5, Zenon DEF built
    <3> QED
      BY <1>1, <2>5, <3>1 DEF built
  <2> QED
    BY <1>7, <2>2, <2>3, <2>4, <2>5
<1>8. CASE field.type = "BOOLEAN"
  <2>1. c = "Boolean"
    BY <1>2, <1>8, DefaultClasses
  <2>2. built = Field("BOOLEAN", 1, field.scale)
    BY <1>3, <1>8, <2>1, Zenon DEF built
  <2> QED
    BY <1>1, <1>8, <2>2 DEF built
<1> QED
  BY <1>2, <1>4, <1>5, <1>6, <1>7, <1>8 DEF FbTypes, Numbers, Times

\* setupConversion leaves the data type alone.
LEMMA SameConverter ==
  ASSUME NEW class \in Classes, NEW field \in Fields
  PROVE  Converter(class, Built(class, field)) = Converter(class, field)
<1>1. CASE class # "Object"
  BY <1>1 DEF Converter
<1>2. CASE class = "Object"
  BY <1>2, BuiltDefault, DefaultClasses DEF Converter
<1> QED
  BY <1>1, <1>2

LEMMA BuiltTimes ==
  ASSUME NEW class \in Classes, NEW field \in Fields
  PROVE  LET c == Converter(class, field)
             type == Built(class, field).type IN
         /\ c = "Date" => type = "DATE"
         /\ c = "Time" => type = "TIME"
         /\ c = "Timestamp" => type = "TIMESTAMP"
         /\ c = "BigDecimal" /\ type = "SHORT" => Built(class, field) = field
<1>1. \A t, l, s : Field(t, l, s).type = t
  BY DEF Field
<1> DEFINE c == Converter(class, field)
<1>2. CASE c = "BigDecimal"
  BY <1>1, <1>2, Zenon DEF Built
<1>3. CASE c \in {"Date", "Time", "Timestamp"}
  BY <1>1, <1>3 DEF Built
<1> QED
  BY <1>2, <1>3

\* FromMessage and ToMessage by their converter.
LEMMA TakenBy ==
  ASSUME NEW class, NEW field, NEW cell, ~cell.null
  PROVE  LET c == Converter(class, field)
             o == FromMessage(class, field, cell) IN
         /\ c = "BigDecimal" =>
              o = Object(c, IF field.type = "SHORT" THEN cell.n * Unit(field.scale) ELSE cell.n)
         /\ c = "Date" => o = Object(c, FbDateToJava(cell.n))
         /\ c = "Time" => o = Object(c, FbTimeToJava(cell.n))
         /\ c = "Timestamp" => o = Object(c, FbTimestampToJava(cell.n))
         /\ c \notin {"BigDecimal", "Date", "Time", "Timestamp"} =>
              o = Object(Wrapper(c), Content(c, field, cell.n))
BY Zenon DEF FromMessage

LEMMA PutBy ==
  ASSUME NEW class, NEW declared, NEW o, o # Null
  PROVE  LET c == Converter(class, declared)
             cell == ToMessage(class, declared, o) IN
         /\ c = "BigDecimal" => cell = Cell(DecimalCell(o.n, Built(class, declared)))
         /\ c = "Date" => cell = Cell(JavaDateToFb(o.n))
         /\ c = "Time" => cell = Cell(JavaTimeToFb(o.n))
         /\ c = "Timestamp" => cell = Cell(JavaTimestampToFb(o.n))
         /\ c \notin {"BigDecimal", "Date", "Time", "Timestamp"} => cell = Cell(o.n)
BY Zenon DEF ToMessage

\* What putInMessage makes of what getFromMessage made of a cell.
Back(class, field, cell) ==
  ToMessage(class, field, FromMessage(class, Built(class, field), cell))

\* A blob that is read by a stream is read whole.
BlobsWhole(class) == class = "Object" \/ Inputs["BLOB"] \subseteq ReadAtOnce

\* What one read() gets of a blob is all of it.
LEMMA WholeContent ==
  ASSUME NEW class \in Classes, NEW field \in Fields, BlobsWhole(class),
         NEW n \in Inputs[Built(class, field).type]
  PROVE  Content(Converter(class, field), Built(class, field), n) = n
<1>1. CASE Built(class, field).type = "BLOB" /\ class = "Object"
  <2>1. field.type = "BLOB"
    BY <1>1, BuiltDefault DEF Fields
  <2>2. Converter(class, field) = "Blob"
    BY <1>1, <2>1, DefaultClasses DEF Converter
  <2> QED
    BY <2>2 DEF Content
<1>2. CASE Built(class, field).type = "BLOB" /\ class # "Object"
  BY <1>2 DEF BlobsWhole, Content
<1>3. CASE Built(class, field).type # "BLOB"
  BY <1>3 DEF Content
<1> QED
  BY <1>1, <1>2, <1>3

LEMMA NumberComesBack ==
  ASSUME OrdinaryZone, NEW class \in Classes, NEW field \in Fields, BlobsWhole(class),
         NEW n \in Inputs[Built(class, field).type]
  PROVE  Same(Built(class, field).type, Cell(n), Back(class, field, Cell(n)))
<1> DEFINE c == Converter(class, field)
           built == Built(class, field)
           o == FromMessage(class, built, Cell(n))
           back == ToMessage(class, field, o)
<1>1. n \in Int
  BY BuiltType, RoutineAssumption
<1>2. Cell(n).null = FALSE /\ Cell(n).n = n
  BY DEF Cell
<1>3. Converter(class, built) = c /\ c \in Classes \ {"Object"}
  BY SameConverter, ConverterIsClass
<1>4. \A k, m : Object(k, m).class = k /\ Object(k, m).n = m
  BY DEF Object
<1>5. Null.class = "null"
  BY DEF Null
<1>6. /\ c = "Date" => built.type = "DATE"
      /\ c = "Time" => built.type = "TIME"
      /\ c = "Timestamp" => built.type = "TIMESTAMP"
  BY BuiltTimes
<1> HIDE DEF c
<1>7. CASE c = "BigDecimal"
  <2> DEFINE unit == Unit(built.scale)
             m == IF built.type = "SHORT" THEN n * unit ELSE n
  <2>1. o = Object(c, m)
    BY <1>2, <1>3, <1>7, TakenBy
  <2>2. o # Null /\ o.n = m
    BY <1>4, <1>5, <1>7, <2>1
  <2>3. back = Cell(DecimalCell(m, built))
    <3> HIDE DEF o, m, built
    <3> QED
      BY <1>7, <2>2, PutBy DEF c, built
  <2>4. DecimalCell(m, built) = n
    <3>1. CASE built.type = "SHORT"
      <4>1. unit \in {1, 10, 100} /\ n \in (-HalfRange)..(HalfRange - 1)
        BY <3>1, Units, RoutineAssumption
      <4> HIDE DEF unit
      <4>2. Narrow(HalfUp(n * unit, unit), HalfRange) = n
        BY <4>1, DecimalComesBack
      <4> QED
        BY <3>1, <4>2 DEF DecimalCell, unit
    <3>2. CASE built.type # "SHORT"
      BY <3>2 DEF DecimalCell
    <3> QED
      BY <3>1, <3>2
  <2> QED
    BY <2>3, <2>4 DEF Same, Back
<1>8. CASE c = "Date"
  <2>1. o = Object(c, FbDateToJava(n))
    BY <1>2, <1>3, <1>8, TakenBy
  <2>2. o # Null /\ o.n = FbDateToJava(n)
    BY <1>4, <1>5, <1>8, <2>1
  <2>3. back = Cell(JavaDateToFb(o.n))
    <3> HIDE DEF o
    <3> QED
      BY <1>8, <2>2, PutBy DEF c
  <2>4. back = Cell(n)
    BY <1>1, <2>2, <2>3, DateComesBack
  <2> QED
    BY <2>4 DEF Same, Back
<1>9. CASE c = "Time"
  <2>1. o = Object(c, FbTimeToJava(n))
    BY <1>2, <1>3, <1>9, TakenBy
  <2>2. o # Null /\ o.n = FbTimeToJava(n)
    BY <1>4, <1>5, <1>9, <2>1
  <2>3. back = Cell(JavaTimeToFb(o.n))
    <3> HIDE DEF o
    <3> QED
      BY <1>9, <2>2, PutBy DEF c
  <2>4. n \in 0..(Day * Ticks - 1)
    BY <1>6, <1>9, RoutineAssumption
  <2>5. back.null = FALSE /\ back.n \div Ticks = n \div Ticks
    <3> HIDE DEF back, o
    <3> QED
      BY <2>2, <2>3, <2>4, TimeComesBack DEF Cell
  <2> QED
    BY <1>2, <1>6, <1>9, <2>5 DEF Same, Back
<1>10. CASE c = "Timestamp"
  <2>1. o = Object(c, FbTimestampToJava(n))
    BY <1>2, <1>3, <1>10, TakenBy
  <2>2. o # Null /\ o.n = FbTimestampToJava(n)
    BY <1>4, <1>5, <1>10, <2>1
  <2>3. back = Cell(JavaTimestampToFb(o.n))
    <3> HIDE DEF o
    <3> QED
      BY <1>10, <2>2, PutBy DEF c
  <2>4. back.null = FALSE /\ (Settled(n \div (Day * Ticks)) => back.n \div Ticks = n \div Ticks)
    <3> HIDE DEF back, o
    <3> QED
      BY <1>1, <2>2, <2>3, TimestampComesBack DEF Cell
  <2> QED
    BY <1>2, <1>6, <1>10, <2>4 DEF Same, Back
<1>11. CASE c \notin {"BigDecimal", "Date", "Time", "Timestamp"}
  <2>0. Content(c, built, n) = n
    BY WholeContent DEF c
  <2>1. o = Object(Wrapper(c), n)
    BY <1>2, <1>3, <1>11, <2>0, TakenBy
  <2>2. o # Null /\ o.n = n
    BY <1>3, <1>4, <1>5, <2>1, WrapperIsClass
  <2>3. back = Cell(o.n)
    <3> HIDE DEF o
    <3> QED
      BY <1>11, <2>2, PutBy DEF c
  <2> QED
    BY <2>2, <2>3 DEF Same, Back
<1> QED
  BY <1>7, <1>8, <1>9, <1>10, <1>11

\* NULL is zero or false for a primitive, and null for any other class.
LEMMA NullComesBack ==
  ASSUME NEW class \in Classes, NEW field \in Fields
  PROVE  IF class \in {"short", "boolean"}
         THEN /\ FromMessage(class, Built(class, field), NullCell).class # "null"
              /\ Back(class, field, NullCell) = Cell(0)
         ELSE Back(class, field, NullCell) = NullCell
<1> DEFINE o == FromMessage(class, Built(class, field), NullCell)
<1>1. o = FromNull(class)
  BY DEF FromMessage, NullCell
<1>2. CASE class \in {"short", "boolean"}
  <2>1. o = Object(Wrapper(class), 0)
    BY <1>1, <1>2 DEF FromNull
  <2>2. o.class # "null" /\ o # Null /\ o.n = 0
    BY <2>1, WrapperIsClass DEF Object, Null
  <2>3. Converter(class, field) \notin {"BigDecimal", "Date", "Time", "Timestamp"}
    BY <1>2 DEF Converter
  <2>4. ToMessage(class, field, o) = Cell(o.n)
    <3> HIDE DEF o
    <3> QED
      BY <2>2, <2>3, PutBy
  <2> QED
    BY <1>2, <2>2, <2>4 DEF Back
<1>3. CASE class \notin {"short", "boolean"}
  <2>1. o = Null
    BY <1>1, <1>3 DEF FromNull
  <2>2. ToMessage(class, field, Null) = NullCell
    BY Zenon DEF ToMessage
  <2> QED
    BY <1>3, <2>1, <2>2 DEF Back
<1> QED
  BY <1>2, <1>3

LEMMA CellComesBack ==
  ASSUME OrdinaryZone, NEW class \in Classes, NEW field \in Fields, BlobsWhole(class),
         NEW cell \in CellsOf(class, field)
  PROVE  IF cell.null /\ class \in {"short", "boolean"}
         THEN /\ FromMessage(class, Built(class, field), cell).class # "null"
              /\ Back(class, field, cell) = Cell(0)
         ELSE Same(Built(class, field).type, cell, Back(class, field, cell))
<1>1. CASE cell = NullCell
  <2>1. NullCell.null = TRUE
    BY DEF NullCell
  <2> QED
    BY <1>1, <2>1, NullComesBack DEF Same
<1>2. ASSUME NEW n \in Inputs[Built(class, field).type], cell = Cell(n)
      PROVE  cell.null = FALSE /\ Same(Built(class, field).type, cell, Back(class, field, cell))
  <2>1. Cell(n).null = FALSE
    BY DEF Cell
  <2> QED
    BY <1>2, <2>1, NumberComesBack
<1> QED
  BY <1>1, <1>2 DEF CellsOf

\* ExternalEngine.java:899-902: the method gets the value of each field, which
\* putInMessage would turn into the cell it came from; NULL is zero or false for
\* a primitive and null for any other class.  One read() gets every blob whole.
THEOREM ArgumentsComeFromTheMessage ==
  ASSUME OrdinaryZone, Inputs["BLOB"] \subseteq ReadAtOnce
  PROVE  Spec => []ArgumentsAreInputs
<1>1. ASSUME IInv PROVE ArgumentsAreInputs
  <2> SUFFICES ASSUME pc = "running", NEW i \in DOMAIN args
               PROVE  LET back == ToMessage(inClasses[i], decl.in[i], args[i]) IN
                      IF inMsg[i].null /\ inClasses[i] \in {"short", "boolean"}
                      THEN args[i].class # "null" /\ back = Cell(0)
                      ELSE Same(Built(inClasses[i], decl.in[i]).type, inMsg[i], back)
    BY DEF ArgumentsAreInputs
  <2>1. inMsg \in Messages(inClasses, decl.in) /\ args = Arguments(inMsg)
    BY <1>1 DEF IInv, Taken
  <2>2. i \in DOMAIN decl.in /\ decl.in \in Seq(Fields)
    BY <1>1, <2>1, FieldTypes DEF IInv, Arguments
  <2>3. decl.in[i] \in Fields /\ inMsg[i] \in CellsOf(inClasses[i], decl.in[i])
    BY <2>1, <2>2 DEF Messages
  <2>4. inClasses[i] \in Classes
    BY <1>1, <2>2 DEF IInv, Accepted, AllConvertible, Convertible, Made
  <2>5. args[i] = FromMessage(inClasses[i], Built(inClasses[i], decl.in[i]), inMsg[i])
    BY <2>1, <2>2 DEF Arguments
  <2> QED
    BY <2>3, <2>4, <2>5, CellComesBack DEF Back, BlobsWhole
<1> QED
  BY <1>1, Correct, PTL

\* ExternalTrigger.java:84-88: every field of NEW is written back; one the method
\* left alone keeps its value.
THEOREM UntouchedFieldsKeepTheirValues ==
  ASSUME OrdinaryZone
  PROVE  Spec => []UntouchedFieldsAreKept
<1>1. ASSUME IInv PROVE UntouchedFieldsAreKept
  <2> SUFFICES ASSUME pc = "returned", decl.kind = "TRIGGER",
                      NEW i \in DOMAIN results, results[i] = args[i]
               PROVE  Same(Built(outClasses[i], decl.out[i]).type, inMsg[i], outMsg[i])
    BY DEF UntouchedFieldsAreKept
  <2> DEFINE field == decl.in[i]
  <2>1. inMsg \in Messages(inClasses, decl.in) /\ args = Arguments(inMsg)
    BY <1>1 DEF IInv, Taken
  <2>2. decl.in = decl.out /\ decl.in \in Seq(Fields) /\ i \in DOMAIN decl.in
    BY <1>1, FieldTypes DEF IInv, Sized
  <2>3. inClasses[i] = "Object" /\ outClasses[i] = "Object"
    BY <1>1, <2>2 DEF IInv, FieldsAreObjects, Made
  <2>4. field \in Fields /\ inMsg[i] \in CellsOf("Object", field)
    BY <2>1, <2>2, <2>3 DEF Messages
  <2>5. args[i] = FromMessage("Object", Built("Object", field), inMsg[i])
    BY <2>1, <2>2, <2>3 DEF Arguments
  <2>6. outMsg[i] = ToMessage("Object", field, results[i])
    <3>1. i < next
      BY <1>1, <2>2 DEF IInv, Sized, WrittenSoFar
    <3>2. FieldWritten(i)
      BY <1>1, <3>1 DEF IInv, WrittenSoFar
    <3> QED
      BY <2>2, <2>3, <3>2 DEF FieldWritten
  <2>7. outMsg[i] = Back("Object", field, inMsg[i])
    BY <2>5, <2>6 DEF Back
  <2>8. Same(Built("Object", field).type, inMsg[i], Back("Object", field, inMsg[i]))
    BY <2>4, CellComesBack DEF Classes, BlobsWhole
  <2> QED
    BY <2>2, <2>3, <2>7, <2>8
<1> QED
  BY <1>1, Correct, PTL

-----------------------------------------------------------------------------
(* The types of objects and cells.                                         *)

ClassOK(class) == class \in DOMAIN Results \cup {"null"}

LEMMA WrapperOK ==
  ASSUME NEW class \in Classes \ {"Object"}
  PROVE  ClassOK(Wrapper(class))
BY RoutineAssumption DEF ClassOK, ObjectClasses

LEMMA FromNullOK ==
  ASSUME NEW class \in Classes
  PROVE  ClassOK(FromNull(class).class)
<1>1. CASE class \in {"short", "boolean"}
  BY <1>1, WrapperOK DEF FromNull, Object
<1>2. CASE class \notin {"short", "boolean"}
  BY <1>2 DEF FromNull, Null, ClassOK
<1> QED
  BY <1>1, <1>2

\* getFromMessage makes an object of a class that exists, or null.
LEMMA FromMessageOK ==
  ASSUME NEW class \in Classes, NEW field \in Fields, NEW cell
  PROVE  ClassOK(FromMessage(class, Built(class, field), cell).class)
<1> DEFINE c == Converter(class, field)
           built == Built(class, field)
           o == FromMessage(class, built, cell)
<1>1. CASE cell.null
  <2>1. o = FromNull(class)
    BY <1>1, Zenon DEF FromMessage
  <2> QED
    BY <2>1, FromNullOK
<1>2. CASE ~cell.null
  <2>1. Converter(class, built) = c /\ c \in Classes \ {"Object"}
    BY SameConverter, ConverterIsClass
  <2>2. o.class = Wrapper(c)
    <3> DEFINE d == Converter(class, built)
               decimal == IF built.type = "SHORT" THEN cell.n * Unit(built.scale) ELSE cell.n
    <3>1. \A k, m : Object(k, m).class = k
      BY DEF Object
    <3>2. o \in {Object(d, decimal), Object(d, FbDateToJava(cell.n)), Object(d, FbTimeToJava(cell.n)),
                 Object(d, FbTimestampToJava(cell.n)), Object(Wrapper(d), Content(d, built, cell.n))}
      BY <1>2, Zenon DEF FromMessage
    <3>3. d \notin {"BigDecimal", "Date", "Time", "Timestamp"} => o = Object(Wrapper(d), Content(d, built, cell.n))
      BY <1>2, Zenon DEF FromMessage
    <3>4. d \in {"BigDecimal", "Date", "Time", "Timestamp"} => Wrapper(d) = d
      BY DEF Wrapper
    <3> HIDE DEF o, d, decimal
    <3>5. o.class = Wrapper(d)
      BY <3>1, <3>2, <3>3, <3>4
    <3> QED
      BY <2>1, <3>5 DEF d
  <2> QED
    BY <2>1, <2>2, WrapperOK
<1> QED
  BY <1>1, <1>2

LEMMA AssignableOK ==
  ASSUME NEW class, NEW o \in Assignable(class)
  PROVE  ClassOK(o.class)
<1>1. \A c : \A x \in Objects(c) : x.class \in DOMAIN Results
  BY DEF Objects, Object
<1>2. Null.class = "null"
  BY DEF Null
<1>3. o = Null \/ \E c : o \in Objects(c)
  BY Zenon DEF Assignable
<1> QED
  BY <1>1, <1>2, <1>3 DEF ClassOK

LEMMA DaysAreInt ==
  ASSUME NEW u \in Int
  PROVE  JavaDateToFb(u) \in Int /\ JavaTimeToFb(u) \in Int /\ JavaTimestampToFb(u) \in Int
<1>1. LocalOf(u) \in Int /\ Day \in Nat \ {0}
  BY ConversionsAssumption DEF LocalOf, Offset
<1>2. PICK q \in Int, r \in 0..(Day - 1) : LocalOf(u) \div Day = q /\ LocalOf(u) % Day = r
  BY <1>1, DivisionBack
<1>3. JavaDateToFb(u) = q /\ JavaTimeToFb(u) = r * Ticks
  BY <1>2 DEF JavaDateToFb, JavaTimeToFb
<1>4. r * Ticks \in Int /\ q * Day * Ticks \in Int
  BY <1>1, <1>2 DEF Ticks
<1> QED
  BY <1>2, <1>3, <1>4 DEF JavaTimestampToFb

LEMMA NarrowIsInt ==
  ASSUME NEW half \in Nat \ {0}, NEW i \in Int
  PROVE  Narrow(i, half) \in Int
<1>1. 2 * half \in Nat \ {0} /\ i + half \in Int
  OBVIOUS
<1>2. (i + half) % (2 * half) \in Int
  BY <1>1, DivisionBack
<1> QED
  BY <1>2 DEF Narrow

\* putInMessage writes a cell.
LEMMA ToMessageCell ==
  ASSUME NEW class, NEW declared, NEW o, o.n \in Int
  PROVE  ToMessage(class, declared, o) \in Cells
<1> DEFINE c == Converter(class, declared)
           decimal == DecimalCell(o.n, Built(class, declared))
<1>1. NullCell \in Cells /\ \A n \in Int : Cell(n) \in Cells
  BY DEF NullCell, Cell, Cells
<1>2. decimal \in Int
  <2> DEFINE field == Built(class, declared)
             half == HalfUp(o.n, Unit(field.scale))
  <2>1. half \in Int
    BY Units, HalfUpIsNearest
  <2>2. Narrow(half, HalfRange) \in Int
    <3> HIDE DEF half
    <3> QED
      BY <2>1, NarrowIsInt, ConversionsAssumption
  <2> HIDE DEF field
  <2> QED
    BY <2>2 DEF DecimalCell, field
<1>3. CASE o = Null
  BY <1>1, <1>3, Zenon DEF ToMessage
<1>4. CASE o # Null
  <2>1. ToMessage(class, declared, o) \in
          {Cell(decimal), Cell(JavaDateToFb(o.n)), Cell(JavaTimeToFb(o.n)),
           Cell(JavaTimestampToFb(o.n)), Cell(o.n)}
    BY <1>4, Zenon DEF ToMessage
  <2> HIDE DEF decimal
  <2> QED
    BY <1>1, <1>2, <2>1, DaysAreInt
<1> QED
  BY <1>3, <1>4

\* The types of the classes, what a call writes and the objects it leaves.
Typed ==
  /\ pc \in Phases
  /\ text \in Seq(Identifiers \cup Punctuation)
  /\ entry.types \in Seq(NamedClasses)
  /\ Made => DOMAIN inClasses = DOMAIN decl.in /\ DOMAIN outClasses = DOMAIN decl.out
  /\ pc \in {"running", "preparing", "writing", "returned"} =>
       outMsg \in [DOMAIN decl.out -> Cells] /\ ObjectsOK(results)

LEMMA TypedInit == ASSUME Init PROVE Typed
BY RoutineAssumption DEF Init, Typed, Phases, Made, Rejected

LEMMA TwoParts ==
  ASSUME NEW S, NEW list \in Seq(S), NEW n \in Nat, n <= Len(list)
  PROVE  /\ list # <<>> => Len(list) # 0
         /\ DOMAIN SubSeq(list, 1, n) = 1..n
         /\ DOMAIN SubSeq(list, n + 1, Len(list)) = 1..(Len(list) - n)
         /\ Len(list) = n => SubSeq(list, n + 1, Len(list)) = <<>>
<1>1. SubSeq(list, 1, n) \in Seq(S) /\ Len(SubSeq(list, 1, n)) = n
  OBVIOUS
<1>2. /\ SubSeq(list, n + 1, Len(list)) \in Seq(S)
      /\ Len(SubSeq(list, n + 1, Len(list))) = Len(list) - n
  OBVIOUS
<1>3. list # <<>> => Len(list) # 0
  OBVIOUS
<1>4. Len(list) = n => SubSeq(list, n + 1, Len(list)) = <<>>
  OBVIOUS
<1>5. DOMAIN SubSeq(list, 1, n) = 1..n
  BY <1>1
<1>6. DOMAIN SubSeq(list, n + 1, Len(list)) = 1..(Len(list) - n)
  BY <1>2
<1> QED
  BY <1>3, <1>4, <1>5, <1>6

\* The classes of a routine are as many as its fields.
LEMMA ClassesDomain ==
  ASSUME NEW list \in Seq(NamedClasses), CountFits(Len(list)), decl \in Declarations, NEW ret
  PROVE  LET outs == IF decl.kind = "FUNCTION" THEN <<ret>> ELSE OutputsOf(list) IN
         /\ DOMAIN ClassesOf(InputsOf(list), decl.in) = DOMAIN decl.in
         /\ DOMAIN ClassesOf(outs, decl.out) = DOMAIN decl.out
<1>1. /\ decl.in \in Seq(Fields) /\ decl.out \in Seq(Fields) /\ decl.kind \in Kinds
      /\ decl.kind = "TRIGGER" => decl.in = decl.out
      /\ decl.kind = "FUNCTION" => Len(decl.out) = 1
  BY RoutineAssumption
<1>2. /\ DOMAIN decl.in = 1..Len(decl.in) /\ Len(decl.in) \in Nat
      /\ DOMAIN decl.out = 1..Len(decl.out) /\ Len(decl.out) \in Nat
  BY <1>1
<1>3. \A fields : DOMAIN ClassesOf(<<>>, fields) = DOMAIN fields
  BY DEF ClassesOf
<1>4. \A classes, fields : classes # <<>> => ClassesOf(classes, fields) = classes
  BY DEF ClassesOf
<1>5. CASE list = <<>>
  <2>1. InputsOf(list) = <<>> /\ OutputsOf(list) = <<>>
    BY <1>5 DEF InputsOf, OutputsOf
  <2>2. CASE decl.kind = "FUNCTION"
    <3>1. DOMAIN <<ret>> = 1..1 /\ <<ret>> # <<>>
      OBVIOUS
    <3> QED
      BY <1>1, <1>2, <1>3, <1>4, <2>1, <2>2, <3>1
  <2> QED
    BY <1>3, <2>1, <2>2
<1>6. CASE list # <<>>
  <2>0. Len(list) # 0 /\ Len(list) \in Nat
    <3>1. 0 <= Len(list) /\ Len(list) \in Nat
      OBVIOUS
    <3> QED
      BY <1>6, <3>1, TwoParts
  <2>1. Len(list) = Len(decl.in) + (IF decl.kind = "PROCEDURE" THEN Len(decl.out) ELSE 0)
    BY <2>0, Zenon DEF CountFits
  <2>2. /\ InputsOf(list) = SubSeq(list, 1, Len(decl.in))
        /\ OutputsOf(list) = SubSeq(list, Len(decl.in) + 1, Len(list))
    BY <1>6 DEF InputsOf, OutputsOf
  <2>3. /\ DOMAIN SubSeq(list, 1, Len(decl.in)) = 1..Len(decl.in)
        /\ DOMAIN SubSeq(list, Len(decl.in) + 1, Len(list)) = 1..(Len(list) - Len(decl.in))
    <3> DEFINE more == IF decl.kind = "PROCEDURE" THEN Len(decl.out) ELSE 0
    <3>1. more \in Nat /\ Len(list) = Len(decl.in) + more
      BY <1>2, <2>1
    <3>2. Len(decl.in) <= Len(list)
      <4> HIDE DEF more
      <4> QED
        BY <1>2, <3>1
    <3> QED
      BY <1>2, <3>2, TwoParts
  <2>4. DOMAIN ClassesOf(InputsOf(list), decl.in) = DOMAIN decl.in
    BY <1>2, <1>3, <1>4, <2>2, <2>3
  <2>5. CASE decl.kind = "FUNCTION"
    <3>1. DOMAIN <<ret>> = 1..1 /\ <<ret>> # <<>>
      OBVIOUS
    <3> QED
      BY <1>1, <1>2, <1>4, <2>4, <2>5, <3>1
  <2>6. CASE decl.kind = "PROCEDURE"
    <3>1. Len(list) - Len(decl.in) = Len(decl.out)
      BY <1>2, <2>1, <2>6
    <3> QED
      BY <1>2, <1>3, <1>4, <2>2, <2>3, <2>4, <2>6, <3>1
  <2>7. CASE decl.kind = "TRIGGER"
    <3>1. Len(list) = Len(decl.in)
      BY <1>2, <2>1, <2>7
    <3>2. SubSeq(list, Len(decl.in) + 1, Len(list)) = <<>>
      BY <1>2, <2>0, <3>1, TwoParts
    <3> QED
      BY <1>3, <2>2, <2>4, <2>7, <3>2
  <2> QED
    BY <1>1, <2>5, <2>6, <2>7 DEF Kinds
<1> QED
  BY <1>5, <1>6

LEMMA TypedNext ==
  ASSUME IInv, IInv', Typed, [Next]_vars
  PROVE  Typed'
<1>1. decl \in Declarations /\ decl' = decl /\ text' = text
  BY DEF IInv, Next, Read, Make, Reject, RejectReturnType, Call, Run, NoMoreRows, RunFails, Prepare,
         PrepareFails, Write, WriteFails, Return, Fetch, routineVars, callVars, vars
<1>2. decl.in \in Seq(Fields) /\ decl.out \in Seq(Fields)
  BY <1>1, FieldTypes
<1>3. Made => \A i \in DOMAIN decl.out : outClasses[i] \in Classes
  BY DEF IInv, Accepted, AllConvertible, Convertible
<1>4. CASE Read
  <2>1. entry'.types \in Seq(NamedClasses)
    <3>1. Len(decl.in) \in Nat /\ Len(decl.out) \in Nat
      BY <1>2
    <3> DEFINE out == IF decl.kind = "TRIGGER" THEN 0 ELSE Len(decl.out)
               isTrigger == decl.kind = "TRIGGER"
    <3>2. out \in Nat /\ isTrigger \in BOOLEAN /\ text \in Seq(Identifiers \cup Punctuation)
      BY <3>1 DEF Typed
    <3>3. entry' = Parse(text, Len(decl.in), out, isTrigger)
      BY <1>4 DEF Read
    <3> HIDE DEF out, isTrigger
    <3> QED
      BY <3>1, <3>2, <3>3, ParseType
  <2> QED
    BY <1>4, <2>1 DEF Read, Typed, Phases, Made
<1>5. CASE Make
  <2>1. PICK ret \in ReturnTypes :
          LET outs == IF decl.kind = "FUNCTION" THEN <<ret>> ELSE OutputsOf(entry.types) IN
          /\ inClasses' = ClassesOf(InputsOf(entry.types), decl.in)
          /\ outClasses' = ClassesOf(outs, decl.out)
    BY <1>5 DEF Make
  <2>2. CountFits(Len(entry.types)) /\ entry.types \in Seq(NamedClasses)
    BY <1>5 DEF Make, Typed
  <2>3. DOMAIN inClasses' = DOMAIN decl.in /\ DOMAIN outClasses' = DOMAIN decl.out
    BY <1>1, <2>1, <2>2, ClassesDomain
  <2> QED
    BY <1>1, <1>5, <2>3 DEF Make, Typed, Phases
<1>6. CASE Call
  <2>1. inMsg' \in [DOMAIN decl.in -> Cells]
    <3>1. inMsg' \in Messages(inClasses, decl.in)
      BY <1>6 DEF Call
    <3>2. DOMAIN inMsg' = DOMAIN decl.in /\ \A i \in DOMAIN decl.in : inMsg'[i] \in Cells
      BY <1>2, <3>1, MessageCells
    <3>3. inMsg' = [i \in DOMAIN inMsg' |-> inMsg'[i]]
      BY <3>1 DEF Messages
    <3> QED
      BY <3>2, <3>3
  <2>2. outMsg' \in [DOMAIN decl.out -> Cells]
    <3>1. CASE decl.kind = "TRIGGER"
      BY <1>1, <1>6, <2>1, <3>1, FieldTypes DEF Call
    <3>2. CASE decl.kind # "TRIGGER"
      BY <1>6, <3>2 DEF Call, NullCell, Cells
    <3> QED
      BY <3>1, <3>2
  <2>3. ObjectsOK(results')
    <3>1. CASE decl.kind = "TRIGGER"
      <4>1. results' = Arguments(inMsg')
        BY <1>6, <3>1 DEF Call
      <4>2. ASSUME NEW i \in DOMAIN decl.in
            PROVE  ClassOK(FromMessage(inClasses[i], Built(inClasses[i], decl.in[i]), inMsg'[i]).class)
        <5>1. inClasses[i] \in Classes /\ decl.in[i] \in Fields
          BY <1>2, <1>6 DEF IInv, Accepted, AllConvertible, Convertible, Made, Call
        <5> QED
          BY <5>1, FromMessageOK
      <4> QED
        BY <4>1, <4>2 DEF ObjectsOK, Arguments, ClassOK
    <3>2. CASE decl.kind # "TRIGGER"
      <4>1. results' = [i \in DOMAIN decl.out |-> FromNull(outClasses[i])]
        BY <1>6, <3>2 DEF Call
      <4>2. \A i \in DOMAIN decl.out : ClassOK(FromNull(outClasses[i]).class)
        BY <1>3, <1>6, FromNullOK DEF Call, Made
      <4> QED
        BY <4>1, <4>2 DEF ObjectsOK, ClassOK
    <3> QED
      BY <3>1, <3>2
  <2> QED
    BY <1>1, <1>6, <2>2, <2>3 DEF Call, Typed, Phases, Made, routineVars
<1>7. CASE Run
  <2>1. ObjectsOK(results')
    <3>1. ObjectsOK(results)
      BY <1>7 DEF Run, Typed
    <3>2. ASSUME NEW i \in DOMAIN results, NEW o \in Assignable(outClasses[i]),
                 results' = [results EXCEPT ![i] = o]
          PROVE  ObjectsOK(results')
      BY <3>1, <3>2, AssignableOK DEF ObjectsOK, ClassOK
    <3> QED
      BY <1>7, <3>1, <3>2 DEF Run
  <2> QED
    BY <1>1, <1>7, <2>1 DEF Run, Typed, Phases, Made, routineVars
<1>8. CASE Write
  <2>1. results[next].n \in Int /\ outMsg \in [DOMAIN decl.out -> Cells]
    BY <1>8 DEF IInv, Sized, Write, Typed
  <2>2. outMsg' \in [DOMAIN decl.out -> Cells]
    BY <1>8, <2>1, ToMessageCell DEF Write
  <2> QED
    BY <1>1, <1>8, <2>2 DEF Write, Typed, Phases, Made, routineVars
<1>9. CASE Reject \/ RejectReturnType \/ NoMoreRows \/ RunFails \/ Prepare \/ PrepareFails
           \/ WriteFails \/ Return \/ Fetch \/ UNCHANGED vars
  <2>1. /\ UNCHANGED <<routineVars, outMsg, results>>
        /\ pc' \in Phases /\ (Made' => Made)
        /\ pc' \in {"running", "preparing", "writing", "returned"} =>
             pc \in {"running", "preparing", "writing", "returned"}
    BY <1>9 DEF Reject, RejectReturnType, NoMoreRows, RunFails, Prepare, PrepareFails, WriteFails,
                Return, Fetch, vars, callVars, Made, Phases, Typed
  <2> QED
    BY <2>1 DEF Typed, routineVars
<1> QED
  BY <1>4, <1>5, <1>6, <1>7, <1>8, <1>9 DEF Next

\* Everything has its type: the arrays and messages of a call have the sizes of
\* the declaration, whatever text it was declared with (Routine.java:119, 153).
THEOREM TypeCorrect == Spec => []TypeOK
<1>1. ASSUME IInv, Typed PROVE TypeOK
  <2>1. decl \in Declarations /\ decl.in \in Seq(Fields)
    BY <1>1, FieldTypes DEF IInv
  <2>2. ASSUME pc \in {"running", "preparing", "writing", "returned"}
        PROVE  /\ DOMAIN args = DOMAIN decl.in /\ DOMAIN results = DOMAIN decl.out
               /\ inMsg \in [DOMAIN decl.in -> Cells] /\ ObjectsOK(args)
    <3>1. inMsg \in Messages(inClasses, decl.in) /\ args = Arguments(inMsg)
      BY <1>1, <2>2 DEF IInv, Taken
    <3>2. inMsg \in [DOMAIN decl.in -> Cells]
      <4>1. DOMAIN inMsg = DOMAIN decl.in /\ \A i \in DOMAIN decl.in : inMsg[i] \in Cells
        BY <2>1, <3>1, MessageCells
      <4>2. inMsg = [i \in DOMAIN inMsg |-> inMsg[i]]
        BY <3>1 DEF Messages
      <4> QED
        BY <4>1, <4>2
    <3>3. ASSUME NEW i \in DOMAIN decl.in
          PROVE  ClassOK(FromMessage(inClasses[i], Built(inClasses[i], decl.in[i]), inMsg[i]).class)
      <4>1. inClasses[i] \in Classes /\ decl.in[i] \in Fields
        BY <1>1, <2>1, <2>2 DEF IInv, Accepted, AllConvertible, Convertible, Made
      <4> QED
        BY <4>1, FromMessageOK
    <3> QED
      BY <1>1, <2>2, <3>1, <3>2, <3>3 DEF IInv, Sized, Arguments, ObjectsOK, ClassOK
  <2> QED
    BY <1>1, <2>1, <2>2 DEF Typed, TypeOK
<1>2. Init => Typed
  BY TypedInit
<1>3. IInv /\ IInv' /\ Typed /\ [Next]_vars => Typed'
  BY TypedNext
<1> QED
  BY <1>1, <1>2, <1>3, Correct, PTL DEF Spec

-----------------------------------------------------------------------------
(* The entry points that make a routine.                                   *)

\* The classes the method's parameters give to the fields of its results.
OwnOutputs == IF decl.kind = "FUNCTION" THEN <<>> ELSE OutputsOf(entry.types)

\* What getRoutine wants of an entry point, whatever its method returns.
Usable ==
  /\ Found /\ CountFits(Len(entry.types))
  /\ AllConvertible(ClassesOf(InputsOf(entry.types), decl.in), decl.in)
  /\ AllConvertible(ClassesOf(OwnOutputs, decl.out), decl.out)

\* The fields that parameters stand for.
FieldsOf == IF decl.kind = "PROCEDURE" THEN decl.in \o decl.out ELSE decl.in
OutputCount == IF decl.kind = "PROCEDURE" THEN Len(decl.out) ELSE 0

IsTrigger == decl.kind = "TRIGGER"
ParsedOutputs == IF decl.kind = "TRIGGER" THEN 0 ELSE Len(decl.out)

\* What became of the text is what was read in it.
AsRead ==
  /\ pc # "declared" => entry = Parse(text, Len(decl.in), ParsedOutputs, IsTrigger)
  /\ pc = "rejected" => ~Usable
  /\ Made =>
       /\ Found /\ CountFits(Len(entry.types))
       /\ inClasses = ClassesOf(InputsOf(entry.types), decl.in)
       /\ decl.kind # "FUNCTION" => outClasses = ClassesOf(OutputsOf(entry.types), decl.out)

LEMMA AsReadInit == ASSUME Init PROVE AsRead
BY DEF Init, AsRead, Made

LEMMA AsReadNext == ASSUME AsRead, [Next]_vars PROVE AsRead'
<1>1. CASE Read
  BY <1>1, Zenon DEF Read, AsRead, Made, ParsedOutputs, IsTrigger
<1>2. CASE Make
  <2>1. /\ decl' = decl /\ text' = text /\ entry' = entry /\ pc = "parsed" /\ pc' = "ready"
        /\ Found /\ CountFits(Len(entry.types))
        /\ inClasses' = ClassesOf(InputsOf(entry.types), decl.in)
        /\ decl.kind # "FUNCTION" => outClasses' = ClassesOf(OutputsOf(entry.types), decl.out)
    BY <1>2, Zenon DEF Make
  <2>2. Found' /\ CountFits(Len(entry.types))' /\ IsTrigger' = IsTrigger /\ ParsedOutputs' = ParsedOutputs
    BY <2>1 DEF Found, CountFits, IsTrigger, ParsedOutputs
  <2>3. /\ ClassesOf(InputsOf(entry.types), decl.in)' = ClassesOf(InputsOf(entry.types), decl.in)
        /\ ClassesOf(OutputsOf(entry.types), decl.out)' = ClassesOf(OutputsOf(entry.types), decl.out)
    BY <2>1 DEF ClassesOf, InputsOf, OutputsOf
  <2> QED
    BY <2>1, <2>2, <2>3 DEF AsRead
<1>3. ASSUME UNCHANGED routineVars, pc # "declared",
             Made' => Made, pc' = "rejected" => pc = "rejected" \/ ~Usable
      PROVE  AsRead'
  <2>1. Found' = Found /\ CountFits(Len(entry.types))' = CountFits(Len(entry.types))
        /\ IsTrigger' = IsTrigger /\ ParsedOutputs' = ParsedOutputs
    BY <1>3 DEF Found, CountFits, IsTrigger, ParsedOutputs, routineVars
  <2>2. /\ ClassesOf(InputsOf(entry.types), decl.in)' = ClassesOf(InputsOf(entry.types), decl.in)
        /\ ClassesOf(OutputsOf(entry.types), decl.out)' = ClassesOf(OutputsOf(entry.types), decl.out)
        /\ Usable' = Usable
    BY <1>3 DEF ClassesOf, InputsOf, OutputsOf, Usable, OwnOutputs, AllConvertible, Found, CountFits,
                routineVars
  <2> QED
    BY <1>3, <2>1, <2>2 DEF AsRead, routineVars
<1>4. CASE Reject
  <2>1. ~Usable
    BY <1>4, Zenon DEF Reject, Usable, OwnOutputs
  <2> QED
    BY <1>3, <1>4, <2>1 DEF Reject, Made
<1>5. CASE UNCHANGED vars
  <2>1. CASE pc = "declared"
    BY <1>5, <2>1 DEF vars, AsRead, Made
  <2>2. CASE pc # "declared"
    BY <1>3, <1>5, <2>2 DEF vars, Made, routineVars
  <2> QED
    BY <2>1, <2>2
<1>6. CASE \/ RejectReturnType \/ Call \/ Run \/ NoMoreRows \/ RunFails \/ Prepare \/ PrepareFails
           \/ Write \/ WriteFails \/ Return \/ Fetch
  <2>1. UNCHANGED routineVars /\ pc # "declared" /\ (Made' => Made) /\ pc' # "rejected"
    BY <1>6 DEF RejectReturnType, Call, Run, NoMoreRows, RunFails, Prepare, PrepareFails, Write,
                WriteFails, Return, Fetch, Made, routineVars
  <2> QED
    BY <1>3, <2>1
<1> QED
  BY <1>1, <1>2, <1>4, <1>5, <1>6, Zenon DEF Next

\* The table of README.md:221-244 is what setupConversion allows.
Fits(class, field) ==
  /\ class = "byte[]" => field.type \in {"BLOB", "TEXT", "VARYING"}
  /\ class = "Blob" => field.type = "BLOB"

LEMMA FitsIs ==
  ASSUME NEW class \in NamedClasses, NEW field
  PROVE  Fits(class, field) <=> Convertible(class, field)
<1>1. class \in Classes
  BY RoutineAssumption, Zenon DEF NamedClasses
<1> QED
  BY <1>1, Zenon DEF Fits, Convertible

LEMMA ObjectsFit ==
  ASSUME NEW fields
  PROVE  AllConvertible(ClassesOf(<<>>, fields), fields)
<1>1. \A i \in DOMAIN fields : ClassesOf(<<>>, fields)[i] = "Object"
  BY DEF ClassesOf
<1>2. "Object" \in Classes /\ "Object" # "byte[]" /\ "Object" # "Blob"
  BY DEF Classes
<1> QED
  BY <1>1, <1>2, Zenon DEF AllConvertible, Convertible

LEMMA DocumentedListsAre ==
  DocumentedLists =
    {<<>>} \cup IF IsTrigger THEN {}
               ELSE {l \in [DOMAIN FieldsOf -> NamedClasses] :
                       \A i \in DOMAIN FieldsOf : Fits(l[i], FieldsOf[i])}
BY Zenon DEF DocumentedLists, FieldsOf, Fits, IsTrigger, NamedClasses

LEMMA FieldsAre ==
  ASSUME decl \in Declarations
  PROVE  /\ FieldsOf \in Seq(Fields) /\ Len(FieldsOf) = Len(decl.in) + OutputCount
         /\ OutputCount \in Nat /\ Len(decl.in) \in Nat /\ Len(decl.out) \in Nat
         /\ DOMAIN decl.in = 1..Len(decl.in) /\ DOMAIN decl.out = 1..Len(decl.out)
         /\ DOMAIN FieldsOf = 1..(Len(decl.in) + OutputCount)
         /\ \A i \in 1..Len(decl.in) : FieldsOf[i] = decl.in[i]
         /\ decl.kind = "PROCEDURE" =>
              \A i \in 1..Len(decl.out) : FieldsOf[Len(decl.in) + i] = decl.out[i]
<1> DEFINE in == decl.in
           out == decl.out
           all == in \o out
<1>1. in \in Seq(Fields) /\ out \in Seq(Fields)
  BY FieldTypes
<1>2. /\ Len(in) \in Nat /\ Len(out) \in Nat /\ DOMAIN in = 1..Len(in) /\ DOMAIN out = 1..Len(out)
  BY <1>1
<1> HIDE DEF in, out
<1>3. /\ all \in Seq(Fields) /\ Len(all) = Len(in) + Len(out) /\ DOMAIN all = 1..(Len(in) + Len(out))
      /\ \A i \in 1..Len(in) : all[i] = in[i]
      /\ \A i \in 1..Len(out) : all[Len(in) + i] = out[i]
  BY <1>1, <1>2
<1> HIDE DEF all
<1>4. CASE decl.kind = "PROCEDURE"
  <2>1. FieldsOf = all /\ OutputCount = Len(out)
    BY <1>4 DEF FieldsOf, OutputCount, all, in, out
  <2> QED
    BY <1>2, <1>3, <2>1 DEF in, out
<1>5. CASE decl.kind # "PROCEDURE"
  <2>1. FieldsOf = in /\ OutputCount = 0
    BY <1>5 DEF FieldsOf, OutputCount, in
  <2>2. Len(in) + 0 = Len(in)
    BY <1>2
  <2> QED
    BY <1>1, <1>2, <1>5, <2>1, <2>2 DEF in, out
<1> QED
  BY <1>4, <1>5

\* The two parts of a list of classes.
LEMMA PartsOf ==
  ASSUME NEW S, NEW list \in Seq(S), NEW n \in Nat, NEW m \in Nat, Len(list) = n + m
  PROVE  /\ SubSeq(list, 1, n) \in Seq(S) /\ Len(SubSeq(list, 1, n)) = n
         /\ SubSeq(list, n + 1, Len(list)) \in Seq(S) /\ Len(SubSeq(list, n + 1, Len(list))) = m
         /\ \A i \in 1..n : SubSeq(list, 1, n)[i] = list[i]
         /\ \A i \in 1..m : SubSeq(list, n + 1, Len(list))[i] = list[n + i]
OBVIOUS

LEMMA ClassesAre ==
  ASSUME decl \in Declarations, NEW list \in Seq(NamedClasses), list # <<>>,
         Len(list) = Len(decl.in) + OutputCount
  PROVE  /\ \A i \in 1..Len(decl.in) : ClassesOf(InputsOf(list), decl.in)[i] = list[i]
         /\ decl.kind = "PROCEDURE" =>
              \A i \in 1..Len(decl.out) :
                ClassesOf(OutputsOf(list), decl.out)[i] = list[Len(decl.in) + i]
<1> DEFINE I == Len(decl.in)
           O == Len(decl.out)
           first == SubSeq(list, 1, I)
           second == SubSeq(list, I + 1, Len(list))
<1>1. I \in Nat /\ O \in Nat /\ OutputCount \in Nat
  BY FieldsAre
<1>2. /\ first \in Seq(NamedClasses) /\ Len(first) = I /\ \A i \in 1..I : first[i] = list[i]
      /\ second \in Seq(NamedClasses) /\ Len(second) = OutputCount
      /\ \A i \in 1..OutputCount : second[i] = list[I + i]
  <2> HIDE DEF I
  <2>1. Len(list) = I + OutputCount
    BY DEF I
  <2> HIDE DEF first, second
  <2> QED
    BY <1>1, <2>1, PartsOf DEF first, second
<1>3. InputsOf(list) = first /\ OutputsOf(list) = second
  BY DEF InputsOf, OutputsOf
<1> HIDE DEF first, second
<1>4. ASSUME NEW i \in 1..I PROVE ClassesOf(InputsOf(list), decl.in)[i] = list[i]
  <2>1. first # <<>>
    <3>1. Len(first) # 0
      BY <1>1, <1>2, <1>4
    <3> QED
      BY <1>2, <3>1, EmptySeq
  <2> QED
    BY <1>2, <1>3, <2>1 DEF ClassesOf
<1>5. ASSUME decl.kind = "PROCEDURE", NEW i \in 1..O
      PROVE  ClassesOf(OutputsOf(list), decl.out)[i] = list[I + i]
  <2>0. OutputCount = O
    BY <1>5 DEF OutputCount
  <2>1. second # <<>>
    <3>1. Len(second) # 0
      BY <1>1, <1>2, <1>5, <2>0
    <3> QED
      BY <1>2, <3>1, EmptySeq
  <2> QED
    BY <1>2, <1>3, <2>0, <2>1 DEF ClassesOf
<1> QED
  BY <1>4, <1>5

\* A list fits the declaration if both of its parts can be converted.
LEMMA FitsInParts ==
  ASSUME decl \in Declarations, NEW list \in Seq(NamedClasses), list # <<>>,
         Len(list) = Len(decl.in) + OutputCount
  PROVE  (\A i \in DOMAIN FieldsOf : Fits(list[i], FieldsOf[i])) <=>
           /\ AllConvertible(ClassesOf(InputsOf(list), decl.in), decl.in)
           /\ decl.kind = "PROCEDURE" =>
                AllConvertible(ClassesOf(OutputsOf(list), decl.out), decl.out)
<1> DEFINE I == Len(decl.in)
           O == Len(decl.out)
           ins == ClassesOf(InputsOf(list), decl.in)
           outs == ClassesOf(OutputsOf(list), decl.out)
<1>1. /\ I \in Nat /\ O \in Nat /\ DOMAIN decl.in = 1..I /\ DOMAIN decl.out = 1..O
      /\ OutputCount \in Nat /\ DOMAIN FieldsOf = 1..(I + OutputCount)
      /\ \A i \in 1..I : FieldsOf[i] = decl.in[i]
      /\ decl.kind = "PROCEDURE" => \A i \in 1..O : FieldsOf[I + i] = decl.out[i]
  BY FieldsAre
<1>2. /\ \A i \in 1..I : ins[i] = list[i]
      /\ decl.kind = "PROCEDURE" => \A i \in 1..O : outs[i] = list[I + i]
  BY ClassesAre
<1>3. Len(list) = I + OutputCount
  OBVIOUS
<1>4. \A i \in 1..(I + OutputCount) : list[i] \in NamedClasses
  BY <1>3
<1> HIDE DEF I, O, ins, outs
<1>5. \A i \in 1..I : i \in 1..(I + OutputCount)
  BY <1>1
<1>6. AllConvertible(ins, decl.in) <=> \A i \in 1..I : Fits(list[i], FieldsOf[i])
  <2>1. \A i \in 1..I : Fits(list[i], FieldsOf[i]) <=> Convertible(ins[i], decl.in[i])
    BY <1>1, <1>2, <1>4, <1>5, FitsIs, Zenon
  <2> QED
    BY <1>1, <2>1, Zenon DEF AllConvertible
<1>7. CASE decl.kind = "PROCEDURE"
  <2>0. OutputCount = O
    BY <1>7 DEF OutputCount, O
  <2>1. \A i \in 1..O : I + i \in 1..(I + OutputCount)
    BY <1>1, <2>0
  <2>2. \A i \in 1..O : Fits(list[I + i], FieldsOf[I + i]) <=> Convertible(outs[i], decl.out[i])
    BY <1>1, <1>2, <1>4, <1>7, <2>1, FitsIs, Zenon
  <2>3. AllConvertible(outs, decl.out) <=> \A i \in 1..O : Fits(list[I + i], FieldsOf[I + i])
    BY <1>1, <2>2, Zenon DEF AllConvertible
  <2>4. \A i \in 1..(I + OutputCount) : i \in 1..I \/ (i - I \in 1..O /\ i = I + (i - I))
    BY <1>1, <2>0
  <2>5. (\A i \in 1..(I + OutputCount) : Fits(list[i], FieldsOf[i])) <=>
          /\ \A i \in 1..I : Fits(list[i], FieldsOf[i])
          /\ \A i \in 1..O : Fits(list[I + i], FieldsOf[I + i])
    <3>1. ASSUME \A i \in 1..I : Fits(list[i], FieldsOf[i]),
                 \A i \in 1..O : Fits(list[I + i], FieldsOf[I + i]), NEW i \in 1..(I + OutputCount)
          PROVE  Fits(list[i], FieldsOf[i])
      BY <2>4, <3>1, Zenon
    <3> QED
      BY <1>5, <2>1, <3>1, Zenon
  <2> QED
    BY <1>1, <1>6, <1>7, <2>3, <2>5, Zenon DEF ins, outs
<1>8. CASE decl.kind # "PROCEDURE"
  <2>1. 1..(I + OutputCount) = 1..I
    BY <1>1, <1>8 DEF OutputCount
  <2> QED
    BY <1>1, <1>6, <1>8, <2>1, Zenon DEF ins, outs
<1> QED
  BY <1>7, <1>8

\* A text without its last token.
LEMMA StrayToken ==
  ASSUME NEW T, NEW w \in Seq(T), NEW c
  PROVE  LET u == w \o <<c>> IN
         Len(u) = Len(w) + 1 /\ Len(w) \in Nat /\ u[Len(u)] = c /\ SubSeq(u, 1, Len(w)) = w
<1> DEFINE U == T \cup {c}
           d == <<c>>
           u == w \o d
           L == Len(w)
           t == SubSeq(u, 1, L)
<1>1. w \in Seq(U) /\ L \in Nat
  <2>1. T \subseteq U
    OBVIOUS
  <2> HIDE DEF U
  <2> QED
    BY <2>1, SeqMonotonic
<1>2. d \in Seq(U) /\ Len(d) = 1 /\ d[1] = c
  <2>1. c \in U
    OBVIOUS
  <2> HIDE DEF U
  <2> QED
    BY <2>1
<1> HIDE DEF U, d
<1>3. /\ w \o d \in Seq(U) /\ Len(w \o d) = Len(w) + 1
      /\ \A i \in 1..Len(w) : (w \o d)[i] = w[i]
      /\ (w \o d)[Len(w) + 1] = d[1]
  BY <1>1, <1>2, OneMore, Zenon
<1>4. u \in Seq(U) /\ Len(u) = L + 1 /\ (\A i \in 1..L : u[i] = w[i]) /\ u[L + 1] = c
  BY <1>2, <1>3, Zenon
<1> HIDE DEF u, L
<1>5. t \in Seq(U) /\ Len(t) = L /\ \A i \in 1..L : t[i] = u[i]
  BY <1>1, <1>4
<1> HIDE DEF t
<1>6. t = w
  BY <1>1, <1>4, <1>5, SeqEqual DEF L
<1> QED
  BY <1>1, <1>4, <1>6, Zenon DEF t, u, L, d

LEMMA WholeText ==
  ASSUME NEW T, NEW w \in Seq(T)
  PROVE  SubSeq(w, 1, Len(w)) = w /\ ~ (Len(w) < Len(w))
<1>1. Len(w) \in Nat
  OBVIOUS
<1>2. ~ (Len(w) < Len(w))
  BY <1>1
<1> QED
  BY <1>2, SubSeqFull

\* The types of a usable entry point are a documented list.
LEMMA ListDocumented ==
  ASSUME decl \in Declarations, NEW list \in Seq(NamedClasses), CountFits(Len(list)),
         IsTrigger => list = <<>>,
         AllConvertible(ClassesOf(InputsOf(list), decl.in), decl.in),
         decl.kind = "PROCEDURE" =>
           AllConvertible(ClassesOf(OutputsOf(list), decl.out), decl.out)
  PROVE  list \in DocumentedLists
<1>1. CASE list = <<>>
  BY <1>1, DocumentedListsAre, Zenon
<1>2. CASE list # <<>>
  <2>1. Len(list) = Len(decl.in) + OutputCount
    <3>1. Len(list) # 0
      BY <1>2, EmptySeq
    <3> QED
      BY <3>1, Zenon DEF CountFits, OutputCount
  <2>2. \A i \in DOMAIN FieldsOf : Fits(list[i], FieldsOf[i])
    BY <1>2, <2>1, FitsInParts, Zenon
  <2>3. list \in [DOMAIN FieldsOf -> NamedClasses]
    <3>1. DOMAIN FieldsOf = 1..(Len(decl.in) + OutputCount)
      BY FieldsAre
    <3>2. list \in [1..Len(list) -> NamedClasses]
      OBVIOUS
    <3> QED
      BY <2>1, <3>1, <3>2
  <2> QED
    BY <1>2, <2>2, <2>3, DocumentedListsAre, Zenon
<1> QED
  BY <1>1, <1>2

\* A documented list fits the declaration.
LEMMA DocumentedFits ==
  ASSUME decl \in Declarations, NEW list \in DocumentedLists
  PROVE  /\ list \in Seq(NamedClasses) /\ CountFits(Len(list))
         /\ IsTrigger => list = <<>>
         /\ Len(list) <= Len(decl.in) + ParsedOutputs
         /\ AllConvertible(ClassesOf(InputsOf(list), decl.in), decl.in)
         /\ AllConvertible(ClassesOf(IF decl.kind = "FUNCTION" THEN <<>> ELSE OutputsOf(list),
                                     decl.out), decl.out)
<1>1. Len(decl.in) \in Nat /\ Len(decl.out) \in Nat /\ ParsedOutputs \in Nat /\ OutputCount \in Nat
      /\ FieldsOf \in Seq(Fields)
      /\ Len(FieldsOf) = Len(decl.in) + OutputCount
      /\ DOMAIN FieldsOf = 1..(Len(decl.in) + OutputCount)
  <2>1. Len(decl.in) \in Nat /\ Len(decl.out) \in Nat /\ OutputCount \in Nat
      /\ FieldsOf \in Seq(Fields) /\ Len(FieldsOf) = Len(decl.in) + OutputCount
      /\ DOMAIN FieldsOf = 1..(Len(decl.in) + OutputCount)
    BY FieldsAre
  <2> QED
    BY <2>1 DEF ParsedOutputs
<1>2. CASE list = <<>>
  <2>1. Len(<<>>) = 0 /\ <<>> \in Seq(NamedClasses)
    BY EmptySeq
  <2>2. InputsOf(list) = <<>> /\ OutputsOf(list) = <<>>
    BY <1>2, Zenon DEF InputsOf, OutputsOf
  <2>3. 0 <= Len(decl.in) + ParsedOutputs
    BY <1>1
  <2> QED
    BY <1>2, <2>1, <2>2, <2>3, ObjectsFit, Zenon DEF CountFits
<1>3. CASE list # <<>>
  <2>1. ~IsTrigger /\ list \in [DOMAIN FieldsOf -> NamedClasses]
        /\ \A i \in DOMAIN FieldsOf : Fits(list[i], FieldsOf[i])
    BY <1>3, DocumentedListsAre, Zenon
  <2>2. list \in Seq(NamedClasses) /\ Len(list) = Len(decl.in) + OutputCount
    <3> DEFINE m == Len(decl.in) + OutputCount
    <3>1. m \in Nat /\ list \in [1..m -> NamedClasses]
      BY <1>1, <2>1
    <3> HIDE DEF m
    <3>2. list \in Seq(NamedClasses) /\ Len(list) = m
      BY <3>1
    <3> QED
      BY <3>2 DEF m
  <2>3. /\ AllConvertible(ClassesOf(InputsOf(list), decl.in), decl.in)
        /\ decl.kind = "PROCEDURE" =>
             AllConvertible(ClassesOf(OutputsOf(list), decl.out), decl.out)
    BY <1>3, <2>1, <2>2, FitsInParts, Zenon
  <2>4. decl.kind \in Kinds
    BY RoutineAssumption
  <2>5. decl.kind = "FUNCTION" \/ decl.kind = "PROCEDURE"
    BY <2>1, <2>4 DEF Kinds, IsTrigger
  <2>6. CountFits(Len(list))
    BY <2>2, Zenon DEF CountFits, OutputCount
  <2>7. Len(list) <= Len(decl.in) + ParsedOutputs
    BY <1>1, <2>1, <2>2 DEF OutputCount, ParsedOutputs, IsTrigger
  <2>8. CASE decl.kind = "FUNCTION"
    BY <2>1, <2>2, <2>3, <2>6, <2>7, <2>8, ObjectsFit, Zenon
  <2>9. CASE decl.kind = "PROCEDURE"
    <3>1. decl.kind # "FUNCTION"
      BY <2>9
    <3> QED
      BY <2>1, <2>2, <2>3, <2>6, <2>7, <2>9, <3>1, Zenon
  <2> QED
    BY <2>5, <2>8, <2>9
<1> QED
  BY <1>2, <1>3

\* The classes of a procedure are the types of its entry point, inputs first.
LEMMA ProcedureClasses ==
  ASSUME decl \in Declarations, decl.kind = "PROCEDURE",
         NEW list \in Seq(NamedClasses), list # <<>>, CountFits(Len(list))
  PROVE  ClassesOf(InputsOf(list), decl.in) \o ClassesOf(OutputsOf(list), decl.out) = list
<1> DEFINE I == Len(decl.in)
           O == Len(decl.out)
           first == SubSeq(list, 1, I)
           second == SubSeq(list, I + 1, Len(list))
<1>1. /\ I \in Nat /\ O \in Nat /\ DOMAIN decl.in = 1..I /\ DOMAIN decl.out = 1..O
  BY FieldsAre
<1>2. Len(list) = I + O
  <2>1. Len(list) # 0
    BY EmptySeq
  <2> QED
    BY <2>1, Zenon DEF CountFits
<1>3. /\ first \in Seq(NamedClasses) /\ Len(first) = I
      /\ second \in Seq(NamedClasses) /\ Len(second) = O
      /\ \A i \in 1..I : first[i] = list[i]
      /\ \A i \in 1..O : second[i] = list[I + i]
  <2> HIDE DEF I, O
  <2> QED
    BY <1>1, <1>2, PartsOf
<1>4. InputsOf(list) = first /\ OutputsOf(list) = second
  BY DEF InputsOf, OutputsOf
<1> HIDE DEF first, second, I, O
<1>5. \A fields, part : part \in Seq(NamedClasses) /\ DOMAIN fields = 1..Len(part) =>
        ClassesOf(part, fields) = part
  <2> TAKE fields, part
  <2> HAVE part \in Seq(NamedClasses) /\ DOMAIN fields = 1..Len(part)
  <2>1. CASE part = <<>>
    <3>1. DOMAIN fields = {}
      BY <2>1
    <3>2. [i \in DOMAIN fields |-> "Object"] = <<>>
      BY <3>1
    <3> QED
      BY <2>1, <3>2 DEF ClassesOf
  <2>2. CASE part # <<>>
    BY <2>2 DEF ClassesOf
  <2> QED
    BY <2>1, <2>2
<1>6. ClassesOf(first, decl.in) = first /\ ClassesOf(second, decl.out) = second
  BY <1>1, <1>3, <1>5
<1>7. first \o second = list
  <2> DEFINE u == first \o second
  <2>1. u \in Seq(NamedClasses) /\ Len(u) = I + O
        /\ \A i \in 1..(I + O) : u[i] = IF i <= I THEN first[i] ELSE second[i - I]
    BY <1>1, <1>3, ConcatProperties
  <2>2. \A i \in 1..(I + O) : i \in 1..I \/ (~(i <= I) /\ i - I \in 1..O /\ I + (i - I) = i)
    BY <1>1
  <2> HIDE DEF u
  <2>3. ASSUME NEW i \in 1..(I + O) PROVE u[i] = list[i]
    <3>1. CASE i \in 1..I
      BY <1>1, <1>3, <2>1, <3>1
    <3>2. CASE ~(i <= I) /\ i - I \in 1..O /\ I + (i - I) = i
      <4> DEFINE j == i - I
      <4>1. u[i] = second[j] /\ j \in 1..O /\ I + j = i
        BY <2>1, <3>2
      <4> HIDE DEF j
      <4> QED
        BY <1>3, <4>1
    <3> QED
      BY <2>2, <3>1, <3>2
  <2>4. u = list
    BY <1>2, <2>1, <2>3, SeqEqual
  <2> QED
    BY <2>4 DEF u
<1> QED
  BY <1>4, <1>6, <1>7, Zenon

LEMMA OneLess ==
  ASSUME NEW n, NEW m \in Nat, n = m + 1
  PROVE  m = n - 1
OBVIOUS

LEMMA MethodFacts ==
  /\ IsName(Class) /\ Class \in Seq(Identifiers \cup {"."}) /\ Class # <<>>
  /\ Method \in Seq(Identifiers) /\ Len(Method) = 1
  /\ Method \in Seq(Identifiers \cup {"."}) /\ Method # <<>>
<1>1. IsName(Class) /\ Method \in Seq(Identifiers) /\ Len(Method) = 1
  BY RoutineAssumption, Zenon
<1>2. Class \in Seq(Identifiers \cup {"."}) /\ Class # <<>>
  BY <1>1, NameFacts, Zenon
<1>3. Method \in Seq(Identifiers \cup {"."})
  <2>1. Identifiers \subseteq Identifiers \cup {"."}
    BY Zenon
  <2> QED
    BY <1>1, <2>1, SeqMonotonic, Zenon
<1>4. Method # <<>>
  BY <1>1, SomeToken, Zenon
<1> QED
  BY <1>1, <1>2, <1>3, <1>4, Zenon

\* The sizes that getRoutine knows are numbers.
LEMMA ParsedSizes ==
  ASSUME decl \in Declarations
  PROVE  Len(decl.in) \in Nat /\ ParsedOutputs \in Nat
BY FieldsAre DEF ParsedOutputs

LEMMA ReadyIsDocumented ==
  ASSUME IInv, Typed, AsRead
  PROVE  OnlyDocumentedAreAccepted
<1> SUFFICES ASSUME pc = "ready" PROVE OnlyDocumentedAreAccepted
  BY Zenon DEF OnlyDocumentedAreAccepted
<1> DEFINE in == Len(decl.in)
           list == entry.types
           spec == Compact(text)[1]
           S == Specifications(Class, Method, list, in)
<1>0. Made /\ pc # "declared"
  BY DEF Made
<1>1. /\ decl \in Declarations /\ list \in Seq(NamedClasses) /\ text \in Seq(Tokens)
      /\ AllConvertible(inClasses, decl.in) /\ AllConvertible(outClasses, decl.out)
      /\ IsTrigger => list = <<>>
  <2>1. text \in Seq(Identifiers \cup Punctuation)
    BY Zenon DEF Typed
  <2>2. Tokens = Identifiers \cup Punctuation
    BY Zenon DEF Tokens
  <2> QED
    BY <1>0, <2>1, <2>2, Zenon DEF IInv, Typed, Accepted, FieldsAreObjects, IsTrigger
<1>2. /\ entry = Parse(text, in, ParsedOutputs, IsTrigger)
      /\ entry.ok /\ entry.class = Class /\ entry.method = Method /\ CountFits(Len(list))
      /\ inClasses = ClassesOf(InputsOf(list), decl.in)
      /\ decl.kind # "FUNCTION" => outClasses = ClassesOf(OutputsOf(list), decl.out)
  BY <1>0, Zenon DEF AsRead, Found
<1>3. \E n \in {Len(spec), Len(spec) - 1} :
        /\ n < Len(spec) => spec[Len(spec)] \in OneChar
        /\ SubSeq(spec, 1, n) \in S
  <2> DEFINE r == Parse(text, in, ParsedOutputs, IsTrigger)
  <2>1. /\ r.ok /\ r.class = Class /\ r.method = Method /\ r.types = list
    BY <1>2, Zenon
  <2>2. in \in Nat /\ ParsedOutputs \in Nat
    BY <1>1, ParsedSizes, Zenon
  <2>3. ReadAs(text, in, ParsedOutputs, IsTrigger, Class, Method)
    BY <1>1, <2>1, <2>2, MethodFacts, Zenon DEF ReadAs
  <2>r. TextIs(text, Class, Method, r.types, in)
    BY <2>3, ParseReads, Zenon
  <2>4. PICK w \in Specifications(Class, Method, r.types, in) :
           /\ w \in Seq(Tokens)
           /\ Compact(text)[1] = w \/ \E c \in OneChar : Compact(text)[1] = w \o <<c>>
    BY <2>r, Zenon DEF TextIs
  <2>5. w \in S
    BY <2>1, <2>4, Zenon
  <2>6. CASE spec = w
    <3>1. SubSeq(spec, 1, Len(spec)) = spec /\ ~ (Len(spec) < Len(spec))
      BY <2>4, <2>6, WholeText, Zenon
    <3> HIDE DEF spec, S
    <3>2. SubSeq(spec, 1, Len(spec)) \in S
      BY <2>5, <2>6, <3>1, Zenon
    <3> QED
      BY <3>1, <3>2, Zenon
  <2>7. ASSUME NEW c \in OneChar, spec = w \o <<c>>
        PROVE  \E n \in {Len(spec), Len(spec) - 1} :
                 /\ n < Len(spec) => spec[Len(spec)] \in OneChar
                 /\ SubSeq(spec, 1, n) \in S
    <3> HIDE DEF spec, S
    <3>1. /\ Len(spec) = Len(w) + 1 /\ Len(w) \in Nat /\ spec[Len(spec)] = c
          /\ SubSeq(spec, 1, Len(w)) = w
      BY <2>4, <2>7, StrayToken, Zenon
    <3>2. Len(w) = Len(spec) - 1
      BY <3>1, OneLess, Zenon
    <3> QED
      BY <2>5, <3>1, <3>2, Zenon
  <2> QED
    BY <2>4, <2>6, <2>7, Zenon
<1>4. list \in DocumentedLists
  <2>1. decl.kind = "PROCEDURE" => decl.kind # "FUNCTION"
    BY Zenon
  <2> QED
    BY <1>1, <1>2, <2>1, ListDocumented, Zenon
<1>5. decl.kind = "PROCEDURE" /\ list # <<>> => inClasses \o outClasses = list
  <2>1. decl.kind = "PROCEDURE" => decl.kind # "FUNCTION"
    BY Zenon
  <2> QED
    BY <1>1, <1>2, <2>1, ProcedureClasses, Zenon
<1> QED
  BY <1>3, <1>4, <1>5, Zenon DEF OnlyDocumentedAreAccepted

LEMMA RejectedIsNotDocumented ==
  ASSUME IInv, Typed, AsRead
  PROVE  DocumentedAreAccepted
<1> SUFFICES ASSUME pc = "rejected", NamesAreWhole, NEW l \in DocumentedLists,
                    Compact(text)[1] \in Specifications(Class, Method, l, Len(decl.in))
             PROVE  FALSE
  BY Zenon DEF DocumentedAreAccepted
<1>1. decl \in Declarations /\ text \in Seq(Tokens)
  <2>1. text \in Seq(Identifiers \cup Punctuation)
    BY Zenon DEF Typed
  <2>2. Tokens = Identifiers \cup Punctuation
    BY Zenon DEF Tokens
  <2> QED
    BY <2>1, <2>2, Zenon DEF IInv
<1>2. entry = Parse(text, Len(decl.in), ParsedOutputs, IsTrigger) /\ ~Usable
  <2>1. pc # "declared"
    BY Zenon
  <2> QED
    BY <2>1, Zenon DEF AsRead
<1>3. /\ l \in Seq(NamedClasses) /\ CountFits(Len(l))
      /\ IsTrigger => l = <<>>
      /\ Len(l) <= Len(decl.in) + ParsedOutputs
      /\ AllConvertible(ClassesOf(InputsOf(l), decl.in), decl.in)
      /\ AllConvertible(ClassesOf(IF decl.kind = "FUNCTION" THEN <<>> ELSE OutputsOf(l),
                                  decl.out), decl.out)
  BY <1>1, DocumentedFits, Zenon
<1>4. Len(decl.in) \in Nat /\ ParsedOutputs \in Nat
  BY <1>1, ParsedSizes, Zenon
<1>5. Whole(text)
  BY Zenon DEF Whole, NamesAreWhole
<1>6. DocumentedAs(text, Len(decl.in), ParsedOutputs, IsTrigger, Class, Method, l)
  BY <1>1, <1>3, <1>4, <1>5, MethodFacts, Zenon DEF DocumentedAs
<1>7. entry = EntryOf(Class, Method, l)
  BY <1>2, <1>6, ParseAccepts
<1>8. Found /\ entry.types = l
  <2>1. /\ EntryOf(Class, Method, l).ok /\ EntryOf(Class, Method, l).class = Class
        /\ EntryOf(Class, Method, l).method = Method /\ EntryOf(Class, Method, l).types = l
    BY Zenon DEF EntryOf
  <2> QED
    BY <1>7, <2>1, Zenon DEF Found
<1>9. Usable
  BY <1>3, <1>8, Zenon DEF Usable, OwnOutputs
<1> QED
  BY <1>2, <1>9, Zenon

\* README.md:201-244 and ExternalEngine.getRoutine: whatever the declaration, the text
\* and the types, a text of the documented form with compatible types is not rejected,
\* and nothing else is accepted but for the stray character of ExternalEngine.java:1532.
THEOREM EntryPointsAreDocumented == Spec => []AcceptedAsDocumented
<1>1. Init => AsRead /\ Typed
  BY AsReadInit, TypedInit
<1>2. IInv /\ IInv' /\ (AsRead /\ Typed) /\ [Next]_vars => (AsRead /\ Typed)'
  BY AsReadNext, TypedNext
<1>3. IInv /\ AsRead /\ Typed => AcceptedAsDocumented
  BY ReadyIsDocumented, RejectedIsNotDocumented, Zenon DEF AcceptedAsDocumented
<1>4. Init => IInv
  BY InitCorrect
<1>5. IInv /\ [Next]_vars => IInv'
  BY NextCorrect
<1> QED
  BY <1>1, <1>2, <1>3, <1>4, <1>5, PTL DEF Spec
=============================================================================

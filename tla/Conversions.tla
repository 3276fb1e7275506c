----------------------------- MODULE Conversions -----------------------------
(***************************************************************************)
(* The values of a message and their Java objects: the table of data types *)
(* and conversions in ExternalEngine.java.                                 *)
(*                                                                         *)
(* A field has a Firebird type, a length in bytes and a scale.  A cell of  *)
(* a message is NULL or a number: the value of a number in units of its    *)
(* scale (hundredths for a DOUBLE), the bytes of a text, the contents of a *)
(* blob, a date in days, a time in ticks.  An object has a class and a     *)
(* number: a BigDecimal counts hundredths, a time milliseconds in UTC.     *)
(***************************************************************************)
EXTENDS Integers

CONSTANTS
  HalfRange,     \* a SMALLINT is in -HalfRange..HalfRange-1
  Day,           \* Java's milliseconds of a day
  Standard,      \* the offset of the default time zone from UTC ...
  SummerBegins,  \* ... which is one more from this instant ...
  SummerEnds,    \* ... until this one
  ReadAtOnce     \* the blobs that one InputStream.read() gets whole

ASSUME ConversionsAssumption ==
  /\ HalfRange \in Nat \ {0}
  /\ Day \in Nat \ {0}
  /\ Standard \in Int
  /\ SummerBegins \in Int /\ SummerEnds \in Int

Ticks == 10  \* Firebird's ticks of a millisecond

Cells == [null : BOOLEAN, n : Int]
NullCell == [null |-> TRUE, n |-> 0]
Cell(n) == [null |-> FALSE, n |-> n]

Null == [class |-> "null", n |-> 0]
Object(class, n) == [class |-> class, n |-> n]

Numbers == {"SHORT", "DOUBLE"}
Times == {"DATE", "TIME", "TIMESTAMP"}
FbTypes == {"TEXT", "VARYING", "BLOB", "BOOLEAN"} \cup Numbers \cup Times

Fields == [type : FbTypes, length : Nat, scale : Int]

\* defaultDataTypes.
DefaultClass ==
  [t \in FbTypes |->
     CASE t \in {"TEXT", "VARYING"} -> "String"
       [] t = "BLOB"      -> "Blob"
       [] t = "SHORT"     -> "BigDecimal"
       [] t = "DOUBLE"    -> "Double"
       [] t = "DATE"      -> "Date"
       [] t = "TIME"      -> "Time"
       [] t = "TIMESTAMP" -> "Timestamp"
       [] t = "BOOLEAN"   -> "Boolean"]

\* dataTypesByClass, but for the other widths of numbers.
Classes == {"String", "byte[]", "Blob", "BigDecimal", "Double", "short", "Short",
            "Date", "Time", "Timestamp", "boolean", "Boolean", "Object"}

\* The data type that converts a parameter of a class.
Converter(class, field) == IF class = "Object" THEN DefaultClass[field.type] ELSE class

Wrapper(class) == CASE class = "short" -> "Short" [] class = "boolean" -> "Boolean" [] OTHER -> class

ObjectClasses == {Wrapper(c) : c \in Classes \ {"Object"}}

-----------------------------------------------------------------------------
(* setupConversion: the field of the message, which the server casts to    *)
(* and from.                                                               *)

Field(type, length, scale) == [type |-> type, length |-> length, scale |-> scale]

Convertible(class, field) ==
  /\ class \in Classes
  /\ class = "byte[]" => field.type \in {"TEXT", "VARYING", "BLOB"}
  /\ class = "Blob" => field.type = "BLOB"

Text(field) == Field("VARYING", field.length, field.scale)

Built(class, field) ==
  LET c == Converter(class, field) IN
  CASE c \in {"String", "byte[]"} /\ field.type \in {"TEXT", "VARYING"} -> Text(field)
    [] c \in {"String", "byte[]", "Blob"} /\ field.type = "BLOB" -> field
    [] c = "String" /\ field.type \in Numbers \cup Times \cup {"BOOLEAN"} ->
         Field("VARYING", 25, field.scale)
    [] c = "BigDecimal" /\ field.type \in Numbers -> field
    [] c = "BigDecimal" /\ field.type \notin Numbers -> Field("DOUBLE", 8, 0)
    [] c = "Double" -> Field("DOUBLE", 8, field.scale)
    [] c \in {"short", "Short"} -> Field("SHORT", 2, 0)
    [] c = "Date" -> Field("DATE", 4, field.scale)
    [] c = "Time" -> Field("TIME", 4, 0)
    [] c = "Timestamp" -> Field("TIMESTAMP", 8, 0)
    [] OTHER -> Field("BOOLEAN", 1, field.scale)

-----------------------------------------------------------------------------
(* Numbers.                                                                *)

\* The hundredths in a unit of a field with a scale of 0, -1 or -2.
Unit(scale) == CASE scale = 0 -> 100 [] scale = -1 -> 10 [] OTHER -> 1

\* BigDecimal.setScale(-scale, HALF_UP): the nearest unit, ties away from zero.
HalfUp(d, unit) ==
  IF d >= 0 THEN (2 * d + unit) \div (2 * unit) ELSE -((unit - 2 * d) \div (2 * unit))

\* BigInteger.shortValue: the low bits, whatever they mean.
Narrow(i, half) == ((i + half) % (2 * half)) - half

-----------------------------------------------------------------------------
(* Dates and times, by a Calendar in the default time zone.                *)

Offset(u) == IF SummerBegins <= u /\ u < SummerEnds THEN Standard + 1 ELSE Standard
LocalOf(u) == u + Offset(u)

\* Calendar is external: it takes an hour that exists twice for standard time,
\* and one that does not exist for standard time as well.
UtcOf(l) ==
  IF Offset(l - Standard) = Standard THEN l - Standard
  ELSE IF Offset(l - Standard - 1) = Standard + 1 THEN l - Standard - 1
  ELSE l - Standard

\* setTimeInMillis(0), and the fields that are not set afterwards.
EpochDay  == LocalOf(0) \div Day
EpochTime == LocalOf(0) % Day

FbDateToJava(d) == UtcOf(d * Day + EpochTime)
JavaDateToFb(u) == LocalOf(u) \div Day
FbTimeToJava(t) == UtcOf(EpochDay * Day + t \div Ticks)
JavaTimeToFb(u) == (LocalOf(u) % Day) * Ticks

\* Mutant: the time of day that the date already has is counted twice.
FbTimestampTwice(n) ==
  FbDateToJava(n \div (Day * Ticks)) + FbTimeToJava(n % (Day * Ticks)) - EpochDay * Day

\* date + time - baseTime.getTime(), where new Time(0) is the epoch in UTC.
FbTimestampToJava(n) ==
  FbDateToJava(n \div (Day * Ticks)) + FbTimeToJava(n % (Day * Ticks))

JavaTimestampToFb(u) == JavaDateToFb(u) * Day * Ticks + JavaTimeToFb(u)

-----------------------------------------------------------------------------
(* getFromMessagePrivileged and getFromMessageUnprivileged.                *)

\* Mutant: NULL is null for every class.
FromNullAlways(class) == Null

\* What NULL becomes.
FromNull(class) ==
  IF class \in {"short", "boolean"} THEN Object(Wrapper(class), 0) ELSE Null

\* The contents of a blob of which the rest was not read.
Zeroed == -1

\* A blob is read by one call, and nobody looks at how far it got.
Content(c, field, n) ==
  IF c \in {"String", "byte[]"} /\ field.type = "BLOB" /\ n \notin ReadAtOnce THEN Zeroed ELSE n

FromMessage(class, field, cell) ==
  LET c == Converter(class, field) IN
  IF cell.null THEN FromNull(class)
  ELSE CASE c = "BigDecimal" -> Object(c, IF field.type = "SHORT" THEN cell.n * Unit(field.scale) ELSE cell.n)
         [] c = "Date"       -> Object(c, FbDateToJava(cell.n))
         [] c = "Time"       -> Object(c, FbTimeToJava(cell.n))
         [] c = "Timestamp"  -> Object(c, FbTimestampToJava(cell.n))
         [] OTHER            -> Object(Wrapper(c), Content(c, field, cell.n))

-----------------------------------------------------------------------------
(* putInMessageUnprivileged and putInMessagePrivileged.                    *)

\* The casts of the first phase; the other classes are cast in the second.
CastFirst == {"String", "Blob", "BigDecimal", "Date", "Time", "Timestamp"}

FitsClass(c, o) ==
  \/ o.class = Wrapper(c)
  \/ c = "Date" /\ o.class \in {"Time", "Timestamp"}
  \/ c = "Time" /\ o.class \in {"Date", "Timestamp"}

\* Mutant: the length of a byte array is not looked at.
FitsText(field, c, o) == c = "String" => o.n <= field.length

FitsLength(field, c, o) ==
  field.type = "VARYING" /\ c \in {"String", "byte[]"} => o.n <= field.length

\* Does the first phase accept the object?
Prepares(class, declared, o) ==
  LET c == Converter(class, declared)
      field == Built(class, declared) IN
  o # Null /\ (c \in CastFirst \/ field.type = "BLOB") =>
    FitsClass(c, o) /\ (c = "String" => FitsLength(field, c, o))

\* Does the second?
Writes(class, declared, o) ==
  LET c == Converter(class, declared) IN
  o # Null => FitsClass(c, o) /\ FitsLength(Built(class, declared), c, o)

\* Mutant: digits that do not fit the scale are cut off.
DecimalCut(d, field) ==
  IF field.type = "SHORT" THEN Narrow(d \div Unit(field.scale), HalfRange) ELSE d

\* What BigDecimal leaves in a SMALLINT.
DecimalCell(d, field) ==
  IF field.type = "SHORT" THEN Narrow(HalfUp(d, Unit(field.scale)), HalfRange) ELSE d

ToMessage(class, declared, o) ==
  LET c == Converter(class, declared)
      field == Built(class, declared) IN
  IF o = Null THEN NullCell
  ELSE CASE c = "BigDecimal" -> Cell(DecimalCell(o.n, field))
         [] c = "Date"       -> Cell(JavaDateToFb(o.n))
         [] c = "Time"       -> Cell(JavaTimeToFb(o.n))
         [] c = "Timestamp"  -> Cell(JavaTimestampToFb(o.n))
         [] OTHER            -> Cell(o.n)
=============================================================================

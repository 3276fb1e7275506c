------------------------------ MODULE MCRoutine ------------------------------
(* Values of the constants of Routine for TLC. *)
EXTENDS Routine, TLC, SequencesExt

Java(name, brackets, class) == [name |-> name, brackets |-> brackets, class |-> class]

SomeTypes ==
  {Java(<<"short">>, 0, "short"), Java(<<"byte">>, 1, "byte[]"),
   Java(<<"String">>, 0, "String"), Java(<<"java", ".", "lang", ".", "String">>, 0, "String")}

SomeIdentifiers == {"pkg", "Cls", "mth", "short", "byte", "String", "java", "lang", "x"}
SingleChars == Punctuation \cup {"x"}

WestOfUtc == -2

TheClass  == <<"pkg", ".", "Cls">>
TheMethod == <<"mth">>

Char3 == Field("TEXT", 3, 0)
Small(scale) == Field("SHORT", 2, scale)
Of(type) == Field(type, 8, 0)

Fun  == [kind |-> "FUNCTION", in |-> <<Small(0)>>, out |-> <<Small(-1)>>]
Proc == [kind |-> "PROCEDURE", in |-> <<Char3>>, out |-> <<Small(0), Char3>>]
Trig(fields) == [kind |-> "TRIGGER", in |-> fields, out |-> fields]

Triggers ==
  {Trig(<<>>), Trig(<<Of("TIME"), Small(-1)>>), Trig(<<Of("TIMESTAMP"), Of("DATE")>>),
   Trig(<<Of("BLOB"), Of("BOOLEAN"), Of("DOUBLE")>>)}

BlobFun == [kind |-> "FUNCTION", in |-> <<Of("BLOB")>>, out |-> <<Of("BLOB")>>]

AllDeclarations == {Fun, BlobFun, Proc} \cup Triggers

Start == TheClass \o <<".">> \o TheMethod

\* What the manual shows, plain and with blanks.
Plain(d) ==
  IF d.kind = "TRIGGER" THEN {Start \o <<"(", ")">>}
  ELSE IF d = BlobFun THEN
    {Start \o <<"(", "byte", "[", "]", ")">>, Start \o <<"(", "String", ")">>}
  ELSE IF d.kind = "FUNCTION" THEN
    {Start \o <<"(", ")">>,
     Start \o <<"(", "java", ".", "lang", ".", "String", ")", " ", "!", "x">>,
     Start \o <<"(", " ", "short", " ", ")">>}
  ELSE
    {Start \o <<"(", ")">>,
     Start \o <<"(", "String", ",", " ", "short", "[", "]", ",", "byte", "[", "]", "[", "]", ")">>,
     Start \o <<"(", "byte", " ", "[", " ", "]", ",", "String", "[", "]", ",", "String", "[", "]", ")">>}

Tokens == SomeIdentifiers \cup Punctuation

Adjacent(s) == \E i \in 1..(Len(s) - 1) : s[i] \in SomeIdentifiers /\ s[i + 1] \in SomeIdentifiers

\* Every text that differs from one of those by one token.
Edits(s) ==
  {e \in {RemoveAt(s, i) : i \in DOMAIN s}
         \cup {ReplaceAt(s, i, t) : i \in DOMAIN s, t \in Tokens}
         \cup {InsertAt(s, i, t) : i \in 1..(Len(s) + 1), t \in Tokens} :
     ~Adjacent(e)}

\* For the function also those that differ from the shortest by two.
EditsTwice == UNION {Edits(e) : e \in Edits(Start \o <<"(", ")">>)}

AllTexts ==
  [d \in AllDeclarations |->
     Plain(d) \cup UNION {Edits(s) : s \in Plain(d)} \cup IF d = Fun THEN EditsTwice ELSE {}]

SomeReturns == {"void", "short", "String", "byte[]", "Object", "Blob", "List"}

TickNumbers == {0, 57, 79}
SomeInputs ==
  [t \in FbTypes |->
     CASE t = "VARYING"   -> {0, 3}
       [] t = "SHORT"     -> {-8, 7}
       [] t = "TIME"      -> TickNumbers
       [] t = "TIMESTAMP" -> {d * Day * Ticks + k : d \in {-1, 0, 5, 10}, k \in TickNumbers}
       [] t = "DATE"      -> {-1, 5, 10}
       [] OTHER           -> {0, 1}]

SomeResults ==
  [c \in {"String", "byte[]", "Blob", "Short", "BigDecimal", "Double", "Date", "Time",
          "Timestamp", "Boolean"} |->
     CASE c = "String"     -> {3, 4, 25, 26}
       [] c = "byte[]"     -> {3, 4}
       [] c = "BigDecimal" -> {-805, -15, 25, 124, 900}
       [] c = "Timestamp"  -> {43}
       [] OTHER            -> {0, 1}]
=============================================================================

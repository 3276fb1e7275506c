------------------------------ MODULE EntryPoint ------------------------------
(***************************************************************************)
(* The call specification of a routine, `<class>.<method>(<types>)' with   *)
(* an optional `!<info>', and how ExternalEngine.getRoutine reads it: the  *)
(* parser goes from character to character and never back.                 *)
(*                                                                         *)
(* A string is a sequence of tokens: a Java identifier, one character of   *)
(* punctuation, or " " for any blank.  Two identifiers are never adjacent. *)
(***************************************************************************)
EXTENDS Integers, Sequences

CONSTANTS
  Identifiers,  \* the identifiers of the strings considered
  OneChar,      \* the tokens that are a single character
  Types         \* javaClassesByName: [name, brackets, class] records

Punctuation == {".", ",", "(", ")", "[", "]", "!", " "}

\* `a.b.c'.
IsName(w) ==
  /\ w \in Seq(Identifiers \cup {"."})
  /\ Len(w) % 2 = 1
  /\ \A i \in DOMAIN w : (w[i] = ".") <=> (i % 2 = 0)

ASSUME IdentifiersAssumption ==
  Identifiers \cap (Punctuation \cup {"end"}) = {} /\ "end" \notin OneChar

\* javaClassesByName is a map: a name has one class.
ASSUME TypesAssumption ==
  /\ \A t \in Types : IsName(t.name) /\ t.brackets \in Nat
  /\ \A t, u \in Types : t.name = u.name /\ t.brackets = u.brackets => t = u

\* What getChar and peekChar find: an exception is a token that nothing is.
At(s, p) == IF p \in DOMAIN s THEN s[p] ELSE "end"

Skip(s, p) == CHOOSE q \in p..(Len(s) + 1) :
                /\ At(s, q) # " "
                /\ \A r \in p..(q - 1) : At(s, r) = " "

Least(S) == CHOOSE i \in S : \A j \in S : i <= j

\* The end of `a.b.c' from p on, or 0: getName, and the loop of getDataType.
NameEnd(s, p) ==
  LET dots == Least({k \in 0..Len(s) : At(s, p + 2 * k + 1) # "."}) IN
  IF \A k \in 0..dots : At(s, p + 2 * k) \in Identifiers THEN p + 2 * dots + 1 ELSE 0

\* Where the brackets from p on end, and how many pairs they are; 0 for an error.
Brackets(s) ==
  LET f[p \in 1..(Len(s) + 1)] ==
        IF At(s, p) # "[" THEN [end |-> p, count |-> 0]
        ELSE LET close == Skip(s, p + 1) IN
             IF At(s, close) # "]" THEN [end |-> 0, count |-> 0]
             ELSE LET rest == f[Skip(s, close + 1)] IN
                  [rest EXCEPT !.count = @ + 1]
  IN f

NoType == [end |-> 0, class |-> "none"]

\* getDataType: an output parameter has one pair of brackets more than its type.
DataType(s, p, isOutput) ==
  LET e == NameEnd(s, p)
      brackets == Brackets(s)[Skip(s, e)]
      known == {t \in Types : /\ t.name = SubSeq(s, p, e - 1)
                              /\ t.brackets = brackets.count - (IF isOutput THEN 1 ELSE 0)}
  IN
  IF e = 0 THEN NoType
  ELSE IF brackets.end = 0 \/ known = {} THEN NoType
  ELSE [end |-> brackets.end, class |-> (CHOOSE t \in known : TRUE).class]

Invalid == [ok |-> FALSE, types |-> <<>>, end |-> 0]

\* Mutant: the first output parameter is taken for an input.
IsOutputFromNext(n, inCount, outCount) == n > inCount + 1 /\ n <= inCount + outCount

\* The parameters after the inputs of the declaration are its outputs.
IsOutput(n, inCount, outCount) == n > inCount /\ n <= inCount + outCount

\* The loop over the parameters: from the n-th on, at a position, the types that
\* follow and the position after the parenthesis.  The server knows no field beyond
\* those of the declaration.
Parameters(s, inCount, outCount) ==
  LET f[at \in (1..(inCount + outCount + 1)) \X (1..(Len(s) + 1))] ==
        LET n    == at[1]
            type == DataType(s, at[2], IsOutput(n, inCount, outCount))
            sep  == Skip(s, type.end)
        IN
        IF n > inCount + outCount THEN Invalid
        ELSE IF type.end = 0 THEN Invalid
        ELSE IF At(s, sep) = ")" THEN [ok |-> TRUE, types |-> <<type.class>>, end |-> sep + 1]
        ELSE IF At(s, sep) = "," THEN
          LET rest == f[<<n + 1, Skip(s, sep + 1)>>] IN
          [rest EXCEPT !.types = <<type.class>> \o @]
        ELSE Invalid
  IN f

\* After the parenthesis there is nothing or `!'.  The character that is not
\* `!' has been consumed when the end is checked: if it is the last it passes.
EndsWell(s, p) ==
  LET q == Skip(s, p) IN
  \/ q > Len(s)
  \/ s[q] = "!"
  \/ q = Len(s) /\ s[q] \in OneChar

\* String.trim.
Trim(s) ==
  LET text == {i \in DOMAIN s : s[i] # " "} IN
  IF text = {} THEN <<>>
  ELSE SubSeq(s, Least(text), CHOOSE i \in text : \A j \in text : j <= i)

Rejected == [ok |-> FALSE, class |-> <<>>, method |-> <<>>, types |-> <<>>]

\* The first half of getRoutine, up to the check of the end of the string: the
\* names of the class and the method, and the classes of the parameters.
Parse(s, inCount, outCount, isTrigger) ==
  LET opens == {i \in DOMAIN s : s[i] = "("}
      open  == Least(opens)
      dots  == {i \in 1..(open - 1) : s[i] = "."}
      dot   == CHOOSE i \in dots : \A j \in dots : j <= i
      first == Skip(s, open + 1)
      list  == IF At(s, first) = ")" THEN [ok |-> TRUE, types |-> <<>>, end |-> first + 1]
               ELSE IF isTrigger THEN Invalid
               ELSE Parameters(s, inCount, outCount)[<<1, first>>]
  IN
  IF opens = {} THEN Rejected
  ELSE IF dots = {} \/ ~list.ok THEN Rejected
  ELSE IF ~EndsWell(s, list.end) THEN Rejected
  ELSE [ok |-> TRUE, class |-> Trim(SubSeq(s, 1, dot - 1)),
        method |-> Trim(SubSeq(s, dot + 1, open - 1)), types |-> list.types]

-----------------------------------------------------------------------------
(* The grammar of README.md:201-209, for reference.                        *)

\* Where the name info of a string begins, or the string ends.
InfoStart(s) ==
  LET marks == {i \in DOMAIN s : s[i] = "!"} IN
  IF marks = {} THEN Len(s) + 1 ELSE Least(marks)

\* The tokens of a string from each position to its name info, without the blanks.
Compact(s) ==
  LET f[p \in 1..InfoStart(s)] ==
        IF p = InfoStart(s) THEN <<>>
        ELSE IF s[p] = " " THEN f[p + 1]
        ELSE <<s[p]>> \o f[p + 1]
  IN f

Pairs(k) == [i \in 1..(2 * k) |-> IF i % 2 = 1 THEN "[" ELSE "]"]

\* The ways to write a type of a class.
Spellings(class, isOutput) ==
  {t.name \o Pairs(t.brackets + (IF isOutput THEN 1 ELSE 0)) : t \in {u \in Types : u.class = class}}

\* One of the texts, then a separator, then one of the others.
Joined(texts, separator, others) == {t \o separator \o o : t \in texts, o \in others}

\* The ways to write a list of types from the n-th on; those after inCount are outputs.
Lists(classes, inCount) ==
  LET f[n \in 1..(Len(classes) + 1)] ==
        IF n > Len(classes) THEN {<<>>}
        ELSE Joined(Spellings(classes[n], n > inCount),
                    IF n = Len(classes) THEN <<>> ELSE <<",">>, f[n + 1])
  IN f

\* The call specifications of a method.
Specifications(class, method, classes, inCount) ==
  {class \o <<".">> \o method \o <<"(">> \o l \o <<")">> : l \in Lists(classes, inCount)[1]}
=============================================================================

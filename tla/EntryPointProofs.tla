--------------------------- MODULE EntryPointProofs ---------------------------
(***************************************************************************)
(* What the parser of call specifications returns, for every text: classes *)
(* of the table, and exactly the lists that the grammar of the manual has. *)
(***************************************************************************)
EXTENDS EntryPoint, SequenceTheorems, WellFoundedInduction, TLAPS

LEMMA LeastExists ==
  ASSUME NEW S \in SUBSET Nat, S # {}
  PROVE  \E i \in S : \A j \in S : i <= j
<1>1. PICK i \in S : \A j \in S : ~ (<<j, i>> \in OpToRel(<, Nat))
  BY NatLessThanWellFounded, WFMin
<1>2. ASSUME NEW j \in S PROVE i <= j
  <2>1. ~ (<<j, i>> \in {ss \in Nat \X Nat : ss[1] < ss[2]})
    BY <1>1 DEF OpToRel
  <2> QED
    BY <2>1
<1> QED
  BY <1>2

-----------------------------------------------------------------------------
(* Functions that are defined by recursion: the parser's loops.            *)

\* Induction over the rank of an argument.
LEMMA RankInduction ==
  ASSUME NEW D, NEW B \in Nat, NEW rank \in [D -> 0..B], NEW S,
         \A x \in D : (\A y \in D : rank[y] < rank[x] => y \in S) => x \in S
  PROVE  D \subseteq S
<1> SUFFICES ASSUME NEW z \in D, z \notin S PROVE FALSE
  OBVIOUS
<1> DEFINE R == {k \in Nat : \E x \in D : rank[x] = k /\ x \notin S}
<1>1. rank[z] \in R
  OBVIOUS
<1>2. PICK k \in R : \A j \in R : k <= j
  <2> HIDE DEF R
  <2> R \in SUBSET Nat
    BY DEF R
  <2> QED
    BY <1>1, LeastExists
<1>3. PICK x \in D : rank[x] = k /\ x \notin S
  BY <1>2
<1>4. ASSUME NEW y \in D, rank[y] < rank[x] PROVE y \in S
  <2> SUFFICES ASSUME y \notin S PROVE FALSE
    OBVIOUS
  <2>1. rank[y] \in R
    OBVIOUS
  <2> QED
    BY <1>2, <1>3, <1>4, <2>1
<1> QED
  BY <1>3, <1>4

\* E computes the values of a function on D from those of a smaller rank.
IsRecursion(D, V, B, rank, E) ==
  /\ V # {} /\ B \in Nat
  /\ rank \in [D -> 0..B]
  /\ E \in [[D -> V] -> [D -> V]]
  /\ \A g, h \in [D -> V] : \A x \in D :
       (\A y \in D : rank[y] < rank[x] => g[y] = h[y]) => E[g][x] = E[h][x]

LEMMA RecursionExists ==
  ASSUME NEW D, NEW V, NEW B, NEW rank, NEW E, IsRecursion(D, V, B, rank, E)
  PROVE  \E f \in [D -> V] : f = E[f]
<1>0. /\ V # {} /\ B \in Nat
      /\ rank \in [D -> 0..B]
      /\ E \in [[D -> V] -> [D -> V]]
      /\ \A g, h \in [D -> V] : \A x \in D :
           (\A y \in D : rank[y] < rank[x] => g[y] = h[y]) => E[g][x] = E[h][x]
  BY DEF IsRecursion
<1> PICK v0 \in V : TRUE
  BY <1>0
<1> USE <1>0
<1> DEFINE UpTo(k) == \E f \in [D -> V] : \A x \in D : rank[x] < k => f[x] = E[f][x]
           R == {k \in Nat : ~UpTo(k)}
<1>1. UpTo(0)
  <2>1. [x \in D |-> v0] \in [D -> V]
    OBVIOUS
  <2>2. \A x \in D : ~ (rank[x] < 0)
    OBVIOUS
  <2> QED
    BY <2>1, <2>2
<1>2. ASSUME NEW k \in Nat, UpTo(k) PROVE UpTo(k + 1)
  <2>1. PICK f \in [D -> V] : \A x \in D : rank[x] < k => f[x] = E[f][x]
    BY <1>2
  <2>2. E[f] \in [D -> V]
    OBVIOUS
  <2>3. ASSUME NEW x \in D, rank[x] < k + 1 PROVE E[f][x] = E[E[f]][x]
    <3>1. \A y \in D : rank[y] < rank[x] => f[y] = E[f][y]
      BY <2>1, <2>3
    <3> QED
      BY <2>2, <3>1
  <2> QED
    BY <2>2, <2>3
<1>3. UpTo(B + 1)
  <2> HIDE DEF UpTo
  <2> SUFFICES ASSUME ~UpTo(B + 1) PROVE FALSE
    OBVIOUS
  <2>1. R # {} /\ R \in SUBSET Nat
    OBVIOUS
  <2>2. PICK k \in R : \A j \in R : k <= j
    <3> HIDE DEF R
    <3> QED
      BY <2>1, LeastExists
  <2>3. k - 1 \in Nat /\ k - 1 \notin R
    BY <1>1, <2>2
  <2> QED
    BY <1>2, <2>2, <2>3
<1>4. PICK f \in [D -> V] : \A x \in D : rank[x] < B + 1 => f[x] = E[f][x]
  BY <1>3
<1>5. \A x \in D : f[x] = E[f][x]
  BY <1>4
<1> QED
  BY <1>5

-----------------------------------------------------------------------------
(* The parser: the types it reads are a list of classes.                   *)

\* Where the blanks from p on end.
LEMMA SkipType ==
  ASSUME NEW T, NEW s \in Seq(T), NEW p \in 1..(Len(s) + 1)
  PROVE  /\ Skip(s, p) \in p..(Len(s) + 1)
         /\ At(s, Skip(s, p)) # " "
         /\ \A r \in p..(Skip(s, p) - 1) : At(s, r) = " "
<1> DEFINE end == Len(s) + 1
           R == {q \in p..end : At(s, q) # " "}
<1>0. end \in Nat /\ p \in 1..end /\ p \in Nat
  OBVIOUS
<1>1. end \in R
  <2>1. end \notin DOMAIN s /\ end \in p..end
    BY <1>0
  <2>2. At(s, end) = "end"
    BY <2>1, Zenon DEF At
  <2> QED
    BY <2>1, <2>2
<1>2. PICK q \in R : \A r \in R : q <= r
  <2>1. R \in SUBSET Nat
    <3>1. p..end \subseteq Nat
      BY <1>0
    <3> QED
      BY <3>1, Zenon
  <2> HIDE DEF R
  <2> QED
    BY <1>1, <2>1, LeastExists
<1>3. q \in p..end /\ At(s, q) # " " /\ \A r \in p..(q - 1) : At(s, r) = " "
  <2>1. q \in p..end
    BY <1>2
  <2>3. At(s, q) # " "
    BY <1>2
  <2>2. ASSUME NEW r \in p..(q - 1) PROVE At(s, r) = " "
    <3>1. r \in p..end /\ ~ (q <= r)
      <4> HIDE DEF R
      <4> QED
        BY <1>0, <2>1
    <3>2. r \notin R
      BY <1>2, <3>1
    <3> QED
      BY <3>1, <3>2
  <2> QED
    BY <2>1, <2>2, <2>3
<1> QED
  BY <1>3 DEF Skip

LEMMA AtEnd ==
  ASSUME NEW T, NEW s \in Seq(T), NEW p, At(s, p) # "end"
  PROVE  p \in 1..Len(s) /\ s[p] = At(s, p)
BY DEF At

\* One turn of the loop over the brackets.
BracketsBody(s, g, p) ==
  IF At(s, p) # "[" THEN [end |-> p, count |-> 0]
  ELSE IF At(s, Skip(s, p + 1)) # "]" THEN [end |-> 0, count |-> 0]
  ELSE [g[Skip(s, Skip(s, p + 1) + 1)] EXCEPT !.count = @ + 1]

\* The brackets are counted up to the end of the text.
LEMMA BracketsFacts ==
  ASSUME NEW T, NEW s \in Seq(T)
  PROVE  \A p \in 1..(Len(s) + 1) :
           /\ Brackets(s)[p] \in [end : 0..(Len(s) + 1), count : Nat]
           /\ Brackets(s)[p] = BracketsBody(s, Brackets(s), p)
<1> DEFINE D == 1..(Len(s) + 1)
           V == [end : 0..(Len(s) + 1), count : Nat]
           Body(g, p) ==
             IF At(s, p) # "[" THEN [end |-> p, count |-> 0]
             ELSE LET close == Skip(s, p + 1) IN
                  IF At(s, close) # "]" THEN [end |-> 0, count |-> 0]
                  ELSE LET rest == g[Skip(s, close + 1)] IN
                       [rest EXCEPT !.count = @ + 1]
           E == [g \in [D -> V] |-> [p \in D |-> Body(g, p)]]
           rank == [p \in D |-> Len(s) + 1 - p]
<1>0. Len(s) \in Nat
  OBVIOUS
<1>1. ASSUME NEW p \in D, At(s, p) = "[", At(s, Skip(s, p + 1)) = "]"
      PROVE  Skip(s, Skip(s, p + 1) + 1) \in (p + 1)..(Len(s) + 1)
  <2>1. p \in 1..Len(s)
    BY <1>1, AtEnd
  <2>2. Skip(s, p + 1) \in (p + 1)..Len(s)
    <3>1. Skip(s, p + 1) \in (p + 1)..(Len(s) + 1)
      <4>1. p + 1 \in 1..(Len(s) + 1)
        BY <1>0, <2>1
      <4> QED
        BY <4>1, SkipType
    <3>2. Skip(s, p + 1) \in 1..Len(s)
      BY <1>1, AtEnd
    <3> QED
      BY <2>1, <3>1, <3>2
  <2>3. Skip(s, Skip(s, p + 1) + 1) \in (Skip(s, p + 1) + 1)..(Len(s) + 1)
    <3>1. Skip(s, p + 1) + 1 \in 1..(Len(s) + 1)
      BY <1>0, <2>1, <2>2
    <3> QED
      BY <3>1, SkipType
  <2> QED
    BY <2>1, <2>2, <2>3
<1>2. ASSUME NEW p \in D, NEW g, \A q \in D : p < q => g[q] \in V
      PROVE  Body(g, p) \in V
  <2>1. CASE At(s, p) # "["
    BY <2>1
  <2>2. CASE At(s, p) = "[" /\ At(s, Skip(s, p + 1)) # "]"
    BY <2>2
  <2>3. CASE At(s, p) = "[" /\ At(s, Skip(s, p + 1)) = "]"
    <3> DEFINE q == Skip(s, Skip(s, p + 1) + 1)
    <3>1. q \in D /\ p < q
      BY <1>1, <2>3
    <3>2. g[q] \in V
      BY <1>2, <3>1
    <3> QED
      BY <2>3, <3>2
  <2> QED
    BY <2>1, <2>2, <2>3
<1>3. ASSUME NEW p \in D, NEW g, NEW h, \A q \in D : p < q => g[q] = h[q]
      PROVE  Body(g, p) = Body(h, p)
  <2>1. CASE At(s, p) = "[" /\ At(s, Skip(s, p + 1)) = "]"
    <3>1. Skip(s, Skip(s, p + 1) + 1) \in D /\ p < Skip(s, Skip(s, p + 1) + 1)
      BY <1>1, <2>1
    <3> QED
      BY <1>3, <2>1, <3>1
  <2>2. CASE ~ (At(s, p) = "[" /\ At(s, Skip(s, p + 1)) = "]")
    BY <2>2
  <2> QED
    BY <2>1, <2>2
<1> HIDE DEF Body
<1>4. rank \in [D -> 0..Len(s)]
  BY <1>0
<1>9. \A p, q \in D : rank[q] < rank[p] <=> p < q
  BY <1>0
<1>5. \E f : f = [p \in D |-> Body(f, p)]
  <2>1. E \in [[D -> V] -> [D -> V]]
    BY <1>2
  <2>2. \A g, h \in [D -> V] : \A p \in D :
          (\A q \in D : rank[q] < rank[p] => g[q] = h[q]) => E[g][p] = E[h][p]
    BY <1>3, <1>9
  <2>3. V # {}
    <3>1. [end |-> 0, count |-> 0] \in V
      BY <1>0
    <3> QED
      BY <3>1
  <2>4. \E f \in [D -> V] : f = E[f]
    <3> HIDE DEF D, V, E, rank
    <3>1. IsRecursion(D, V, Len(s), rank, E)
      BY <1>0, <1>4, <2>1, <2>2, <2>3 DEF IsRecursion
    <3> QED
      BY <3>1, RecursionExists
  <2> QED
    BY <2>4
<1> DEFINE F == Brackets(s)
<1>6. F = [p \in D |-> Body(F, p)]
  <2>1. F = CHOOSE f : f = [p \in D |-> Body(f, p)]
    BY Zenon DEF Brackets, Body
  <2> HIDE DEF F
  <2> QED
    BY <1>5, <2>1
<1> DEFINE S == {p \in D : F[p] \in V}
<1>7. ASSUME NEW p \in D, \A q \in D : rank[q] < rank[p] => q \in S
      PROVE  p \in S
  <2> HIDE DEF F
  <2>1. \A q \in D : p < q => F[q] \in V
    BY <1>7, <1>9
  <2>2. Body(F, p) \in V
    BY <1>2, <2>1
  <2> QED
    BY <1>6, <2>2
<1>8. D \subseteq S
  <2> HIDE DEF D, S, rank
  <2> QED
    BY <1>0, <1>4, <1>7, RankInduction
<1>10. \A p \in D : F[p] = BracketsBody(s, F, p)
  <2>1. \A p \in D : Body(F, p) = BracketsBody(s, F, p)
    BY Zenon DEF Body, BracketsBody
  <2> HIDE DEF F, D
  <2> QED
    BY <1>6, <2>1
<1> QED
  BY <1>8, <1>10

LEMMA BracketsType ==
  ASSUME NEW T, NEW s \in Seq(T), NEW p \in 1..(Len(s) + 1)
  PROVE  Brackets(s)[p] \in [end : 0..(Len(s) + 1), count : Nat]
BY BracketsFacts, Zenon

LEMMA BracketsStep ==
  ASSUME NEW T, NEW s \in Seq(T), NEW p \in 1..(Len(s) + 1)
  PROVE  Brackets(s)[p] = BracketsBody(s, Brackets(s), p)
BY BracketsFacts, Zenon

LEMMA LeastIsMember ==
  ASSUME NEW S \in SUBSET Nat, S # {}
  PROVE  Least(S) \in S
BY LeastExists DEF Least

LEMMA NameEndType ==
  ASSUME NEW T, NEW s \in Seq(T), NEW p \in 1..(Len(s) + 1)
  PROVE  NameEnd(s, p) \in 0..(Len(s) + 1)
<1> DEFINE R == {k \in 0..Len(s) : At(s, p + 2 * k + 1) # "."}
           dots == Least(R)
<1>0. Len(s) \in Nat /\ p \in Nat
  OBVIOUS
<1>1. Len(s) \in R
  <2>1. p + 2 * Len(s) + 1 \notin DOMAIN s
    BY <1>0
  <2>2. At(s, p + 2 * Len(s) + 1) = "end"
    BY <2>1, Zenon DEF At
  <2> QED
    BY <1>0, <2>2
<1>2. dots \in R
  <2>1. R \in SUBSET Nat
    <3>1. 0..Len(s) \subseteq Nat
      BY <1>0
    <3> QED
      BY <3>1, Zenon
  <2> HIDE DEF R
  <2> QED
    BY <1>1, <2>1, LeastIsMember
<1>3. dots \in 0..Len(s)
  BY <1>2, Zenon
<1>4. ASSUME At(s, p + 2 * dots) \in Identifiers
      PROVE  p + 2 * dots + 1 \in 0..(Len(s) + 1)
  <2> HIDE DEF dots
  <2>1. At(s, p + 2 * dots) # "end"
    BY <1>4, IdentifiersAssumption
  <2>2. p + 2 * dots \in 1..Len(s)
    BY <2>1, AtEnd
  <2> QED
    BY <1>0, <1>3, <2>2
<1>5. NameEnd(s, p) =
        IF \A k \in 0..dots : At(s, p + 2 * k) \in Identifiers THEN p + 2 * dots + 1 ELSE 0
  BY DEF NameEnd
<1>6. CASE \A k \in 0..dots : At(s, p + 2 * k) \in Identifiers
  <2> HIDE DEF dots
  <2>1. dots \in 0..dots
    BY <1>0, <1>3
  <2>2. At(s, p + 2 * dots) \in Identifiers
    BY <1>6, <2>1
  <2>3. p + 2 * dots + 1 \in 0..(Len(s) + 1)
    BY <1>4, <2>2 DEF dots
  <2> QED
    BY <1>5, <1>6, <2>3, Zenon DEF dots
<1>7. CASE ~ \A k \in 0..dots : At(s, p + 2 * k) \in Identifiers
  <2>1. NameEnd(s, p) = 0
    BY <1>5, <1>7, Zenon
  <2> QED
    BY <1>0, <2>1
<1> QED
  BY <1>6, <1>7

\* The classes that a text can name.
NamedClasses == {t.class : t \in Types}

LEMMA DataTypeType ==
  ASSUME NEW T, NEW s \in Seq(T), NEW p \in 1..(Len(s) + 1), NEW isOutput,
         DataType(s, p, isOutput).end # 0
  PROVE  /\ DataType(s, p, isOutput).end \in 1..(Len(s) + 1)
         /\ DataType(s, p, isOutput).class \in NamedClasses
<1> DEFINE e == NameEnd(s, p)
           brackets == Brackets(s)[Skip(s, e)]
           known == {t \in Types : /\ t.name = SubSeq(s, p, e - 1)
                                   /\ t.brackets = brackets.count - (IF isOutput THEN 1 ELSE 0)}
<1>1. /\ e # 0 /\ brackets.end # 0 /\ known # {}
      /\ DataType(s, p, isOutput) = [end |-> brackets.end, class |-> (CHOOSE t \in known : TRUE).class]
  <2> DEFINE found == [end |-> brackets.end, class |-> (CHOOSE t \in known : TRUE).class]
  <2>1. DataType(s, p, isOutput) =
          IF e = 0 THEN NoType ELSE IF brackets.end = 0 \/ known = {} THEN NoType ELSE found
    BY Zenon DEF DataType
  <2>2. NoType.end = 0
    BY DEF NoType
  <2> HIDE DEF e, brackets, known, found
  <2> QED
    BY <2>1, <2>2 DEF found
<1>2. e \in 1..(Len(s) + 1)
  <2> HIDE DEF e
  <2> QED
    BY <1>1, NameEndType DEF e
<1>3. brackets.end \in 1..(Len(s) + 1)
  <2>1. Skip(s, e) \in 1..(Len(s) + 1)
    <3> HIDE DEF e
    <3>1. Skip(s, e) \in e..(Len(s) + 1)
      BY <1>2, SkipType
    <3> QED
      BY <1>2, <3>1
  <2>2. brackets \in [end : 0..(Len(s) + 1), count : Nat]
    BY <2>1, BracketsType
  <2> HIDE DEF brackets
  <2> QED
    BY <1>1, <2>2
<1>4. (CHOOSE t \in known : TRUE) \in Types
  <2> HIDE DEF brackets, e
  <2> QED
    BY <1>1
<1> DEFINE type == CHOOSE t \in known : TRUE
<1>5. type.class \in NamedClasses
  <2> HIDE DEF known
  <2> QED
    BY <1>4 DEF NamedClasses
<1> HIDE DEF brackets, known, type
<1>6. DataType(s, p, isOutput) = [end |-> brackets.end, class |-> type.class]
  BY <1>1 DEF type
<1> QED
  BY <1>3, <1>5, <1>6

\* The type of the n-th parameter at a position, and where the separator is.
TypeAt(s, in, out, x) == DataType(s, x[2], IsOutput(x[1], in, out))
SeparatorAt(s, in, out, x) == Skip(s, TypeAt(s, in, out, x).end)
Following(s, in, out, x) == <<x[1] + 1, Skip(s, SeparatorAt(s, in, out, x) + 1)>>

\* One turn of the loop over the parameters.
ParametersBody(s, in, out, g, x) ==
  LET class == TypeAt(s, in, out, x).class
      sep   == SeparatorAt(s, in, out, x)
  IN
  IF x[1] > in + out THEN Invalid
  ELSE IF TypeAt(s, in, out, x).end = 0 THEN Invalid
  ELSE IF At(s, sep) = ")" THEN [ok |-> TRUE, types |-> <<class>>, end |-> sep + 1]
  ELSE IF At(s, sep) = "," THEN
    [g[Following(s, in, out, x)] EXCEPT !.types = <<class>> \o @]
  ELSE Invalid

\* The loop reads a list of those classes, wherever it begins.
LEMMA ParametersFacts ==
  ASSUME NEW T, NEW s \in Seq(T), NEW in \in Nat, NEW out \in Nat,
         NEW at \in (1..(in + out + 1)) \X (1..(Len(s) + 1))
  PROVE  /\ Parameters(s, in, out)[at] \in [ok : BOOLEAN, types : Seq(NamedClasses), end : Nat]
         /\ Parameters(s, in, out)[at] = ParametersBody(s, in, out, Parameters(s, in, out), at)
<1> DEFINE D == (1..(in + out + 1)) \X (1..(Len(s) + 1))
           V == [ok : BOOLEAN, types : Seq(NamedClasses), end : Nat]
           type(x) == DataType(s, x[2], IsOutput(x[1], in, out))
           sep(x) == Skip(s, type(x).end)
           one(x) == [ok |-> TRUE, types |-> <<type(x).class>>, end |-> sep(x) + 1]
           following(x) == <<x[1] + 1, Skip(s, sep(x) + 1)>>
           before(x, rest) == [rest EXCEPT !.types = <<type(x).class>> \o @]
           Goes(x) == ~ (x[1] > in + out) /\ type(x).end # 0
           Body(g, x) ==
             IF x[1] > in + out THEN Invalid
             ELSE IF type(x).end = 0 THEN Invalid
             ELSE IF At(s, sep(x)) = ")" THEN one(x)
             ELSE IF At(s, sep(x)) = "," THEN before(x, g[following(x)])
             ELSE Invalid
           E == [g \in [D -> V] |-> [x \in D |-> Body(g, x)]]
           rank == [x \in D |-> in + out + 1 - x[1]]
           F == Parameters(s, in, out)
<1>0. Len(s) \in Nat
  OBVIOUS
<1>1. ASSUME NEW x \in D, Goes(x)
      PROVE  type(x).end \in 1..(Len(s) + 1) /\ type(x).class \in NamedClasses
  BY <1>1, DataTypeType
<1>2. ASSUME NEW x \in D, Goes(x)
      PROVE  sep(x) \in 1..(Len(s) + 1)
  <2> HIDE DEF type
  <2>1. type(x).end \in 1..(Len(s) + 1)
    BY <1>1, <1>2
  <2>2. sep(x) \in type(x).end..(Len(s) + 1)
    BY <2>1, SkipType
  <2> HIDE DEF sep
  <2> QED
    BY <2>1, <2>2
<1>3. ASSUME NEW x \in D, Goes(x), At(s, sep(x)) = ","
      PROVE  following(x) \in D /\ rank[following(x)] < rank[x]
  <2> HIDE DEF sep, type
  <2>1. sep(x) \in 1..Len(s)
    BY <1>3, AtEnd
  <2>2. sep(x) + 1 \in 1..(Len(s) + 1)
    BY <1>0, <2>1
  <2>3. Skip(s, sep(x) + 1) \in (sep(x) + 1)..(Len(s) + 1)
    BY <2>2, SkipType
  <2>4. x[1] + 1 \in 1..(in + out + 1)
    <3>1. x[1] \in 1..(in + out + 1) /\ ~ (x[1] > in + out)
      BY <1>3
    <3> QED
      BY <3>1
  <2>5. Skip(s, sep(x) + 1) \in 1..(Len(s) + 1)
    BY <2>2, <2>3
  <2>6. following(x) \in D /\ following(x)[1] = x[1] + 1
    BY <2>4, <2>5
  <2>7. rank[following(x)] = in + out + 1 - (x[1] + 1) /\ rank[x] = in + out + 1 - x[1]
    <3> HIDE DEF following
    <3> QED
      BY <2>6
  <2> QED
    BY <2>4, <2>6, <2>7
<1> HIDE DEF following, sep, type
<1>4. Invalid \in V
  BY DEF Invalid
<1>5. ASSUME NEW x \in D, Goes(x) PROVE one(x) \in V
  BY <1>0, <1>1, <1>2, <1>5
<1>6. ASSUME NEW x \in D, Goes(x), NEW rest \in V PROVE before(x, rest) \in V
  <2>1. <<type(x).class>> \o rest.types \in Seq(NamedClasses)
    <3>1. rest.types \in Seq(NamedClasses) /\ type(x).class \in NamedClasses
      BY <1>1, <1>6
    <3> QED
      BY <3>1
  <2> DEFINE types == <<type(x).class>> \o rest.types
  <2>2. before(x, rest) = [rest EXCEPT !.types = types]
    OBVIOUS
  <2> HIDE DEF types, before
  <2> QED
    BY <2>1, <2>2 DEF types
<1> HIDE DEF one, before, V
<1>7. ASSUME NEW x \in D, NEW g, \A y \in D : rank[y] < rank[x] => g[y] \in V
      PROVE  Body(g, x) \in V
  <2>1. ASSUME Goes(x), At(s, sep(x)) = "," PROVE before(x, g[following(x)]) \in V
    <3> HIDE DEF D, rank, Goes
    <3>1. following(x) \in D /\ rank[following(x)] < rank[x]
      BY <1>3, <2>1
    <3>2. g[following(x)] \in V
      BY <1>7, <3>1
    <3> QED
      BY <1>6, <2>1, <3>2
  <2>2. \/ Body(g, x) = Invalid
        \/ Goes(x) /\ Body(g, x) = one(x)
        \/ Goes(x) /\ At(s, sep(x)) = "," /\ Body(g, x) = before(x, g[following(x)])
    BY Zenon
  <2> HIDE DEF Body, Goes
  <2> QED
    BY <1>4, <1>5, <2>1, <2>2
<1>8. ASSUME NEW x \in D, NEW g, NEW h, \A y \in D : rank[y] < rank[x] => g[y] = h[y]
      PROVE  Body(g, x) = Body(h, x)
  <2>1. ASSUME Goes(x), At(s, sep(x)) = "," PROVE g[following(x)] = h[following(x)]
    <3> HIDE DEF D, rank, Goes
    <3> QED
      BY <1>3, <1>8, <2>1
  <2> QED
    BY <2>1, Zenon
<1> HIDE DEF Body
<1>9. rank \in [D -> 0..(in + out)] /\ in + out \in Nat
  OBVIOUS
<1>10. \E f : f = [x \in D |-> Body(f, x)]
  <2>1. E \in [[D -> V] -> [D -> V]]
    <3> HIDE DEF D, rank
    <3> QED
      BY <1>7
  <2>2. \A g, h \in [D -> V] : \A x \in D :
          (\A y \in D : rank[y] < rank[x] => g[y] = h[y]) => E[g][x] = E[h][x]
    <3> HIDE DEF D, rank
    <3> QED
      BY <1>8
  <2>3. \E f \in [D -> V] : f = E[f]
    <3> HIDE DEF D, E, rank
    <3>1. IsRecursion(D, V, in + out, rank, E)
      BY <1>4, <1>9, <2>1, <2>2 DEF IsRecursion
    <3> QED
      BY <3>1, RecursionExists
  <2> QED
    BY <2>3
<1>11. F = [x \in D |-> Body(F, x)]
  <2>1. F = CHOOSE f : f = [x \in D |-> Body(f, x)]
    BY Zenon DEF Parameters, Body, following, sep, type, one, before
  <2> HIDE DEF F, D
  <2> QED
    BY <1>10, <2>1
<1> DEFINE S == {x \in D : F[x] \in V}
<1>12. ASSUME NEW x \in D, \A y \in D : rank[y] < rank[x] => y \in S
       PROVE  x \in S
  <2> HIDE DEF F, D, rank
  <2>1. \A y \in D : rank[y] < rank[x] => F[y] \in V
    BY <1>12
  <2>2. Body(F, x) \in V
    BY <1>7, <2>1
  <2> QED
    BY <1>11, <2>2
<1>13. D \subseteq S
  <2> HIDE DEF D, S, rank
  <2> QED
    BY <1>9, <1>12, RankInduction
<1>14. at \in D
  OBVIOUS
<1>15. F[at] = ParametersBody(s, in, out, F, at)
  <2>1. F[at] = Body(F, at)
    <3> HIDE DEF F, D
    <3> QED
      BY <1>11, <1>14
  <2>2. Body(F, at) = ParametersBody(s, in, out, F, at)
    <3> HIDE DEF F, D
    <3> QED
      BY Zenon DEF Body, ParametersBody, TypeAt, SeparatorAt, Following, type, sep, one, following, before
  <2> QED
    BY <2>1, <2>2
<1>16. F[at] \in V
  <2> HIDE DEF F, D
  <2> QED
    BY <1>13, <1>14
<1> QED
  BY <1>15, <1>16 DEF V

LEMMA ParametersType ==
  ASSUME NEW T, NEW s \in Seq(T), NEW in \in Nat, NEW out \in Nat,
         NEW at \in (1..(in + out + 1)) \X (1..(Len(s) + 1))
  PROVE  Parameters(s, in, out)[at] \in [ok : BOOLEAN, types : Seq(NamedClasses), end : Nat]
BY ParametersFacts, Zenon

LEMMA ParametersStep ==
  ASSUME NEW T, NEW s \in Seq(T), NEW in \in Nat, NEW out \in Nat,
         NEW at \in (1..(in + out + 1)) \X (1..(Len(s) + 1))
  PROVE  Parameters(s, in, out)[at] = ParametersBody(s, in, out, Parameters(s, in, out), at)
BY ParametersFacts, ZenonT(60)

\* getRoutine: the types of the parameters.
LEMMA ParseType ==
  ASSUME NEW T, NEW s \in Seq(T), NEW in \in Nat, NEW out \in Nat, NEW isTrigger \in BOOLEAN
  PROVE  Parse(s, in, out, isTrigger).types \in Seq(NamedClasses)
<1> DEFINE opens == {i \in DOMAIN s : s[i] = "("}
           first == Skip(s, Least(opens) + 1)
           list == IF At(s, first) = ")" THEN [ok |-> TRUE, types |-> <<>>, end |-> first + 1]
                   ELSE IF isTrigger THEN Invalid
                   ELSE Parameters(s, in, out)[<<1, first>>]
<1>1. Rejected.types \in Seq(NamedClasses) /\ Invalid.types \in Seq(NamedClasses)
  BY DEF Rejected, Invalid
<1>2. ASSUME opens # {} PROVE list.types \in Seq(NamedClasses)
  <2>1. Len(s) \in Nat /\ DOMAIN s = 1..Len(s)
    OBVIOUS
  <2>2. Least(opens) \in 1..Len(s)
    <3>1. opens \in SUBSET Nat
      BY <2>1
    <3>2. Least(opens) \in opens
      <4> HIDE DEF opens
      <4> QED
        BY <1>2, <3>1, LeastIsMember
    <3> QED
      BY <2>1, <3>2
  <2>3. first \in 1..(Len(s) + 1)
    <3> HIDE DEF opens
    <3>1. Least(opens) + 1 \in 1..(Len(s) + 1)
      BY <2>1, <2>2
    <3>2. first \in (Least(opens) + 1)..(Len(s) + 1)
      BY <3>1, SkipType
    <3> HIDE DEF first
    <3> QED
      BY <2>1, <3>1, <3>2
  <2> HIDE DEF first
  <2>4. <<1, first>> \in (1..(in + out + 1)) \X (1..(Len(s) + 1))
    BY <2>3
  <2>5. Parameters(s, in, out)[<<1, first>>].types \in Seq(NamedClasses)
    BY <2>4, ParametersType
  <2>6. <<>> \in Seq(NamedClasses)
    OBVIOUS
  <2> QED
    BY <1>1, <2>5, <2>6
<1>3. Parse(s, in, out, isTrigger).types \in {Rejected.types, list.types}
  BY Zenon DEF Parse
<1>4. opens = {} => Parse(s, in, out, isTrigger).types = Rejected.types
  BY Zenon DEF Parse
<1> HIDE DEF opens, list
<1> QED
  BY <1>1, <1>2, <1>3, <1>4

-----------------------------------------------------------------------------
(* The text without its blanks, from each position to its name info.       *)

\* The tokens from p on and before q.
NoInfo(s, p, q) == \A r \in p..(q - 1) : s[r] # "!"
Blank(s, p, q) == \A r \in p..(q - 1) : s[r] = " "
Dense(s, p, q) == \A r \in p..(q - 1) : s[r] # " "

LEMMA InfoStartFacts ==
  ASSUME NEW T, NEW s \in Seq(T)
  PROVE  /\ InfoStart(s) \in 1..(Len(s) + 1)
         /\ NoInfo(s, 1, InfoStart(s))
         /\ InfoStart(s) \in DOMAIN s => s[InfoStart(s)] = "!"
<1> DEFINE marks == {i \in DOMAIN s : s[i] = "!"}
<1>0. Len(s) \in Nat /\ DOMAIN s = 1..Len(s)
  OBVIOUS
<1>1. InfoStart(s) = IF marks = {} THEN Len(s) + 1 ELSE Least(marks)
  BY DEF InfoStart
<1> USE DEF NoInfo
<1>2. CASE marks = {}
  <2>1. InfoStart(s) = Len(s) + 1
    BY <1>1, <1>2
  <2>2. \A p \in 1..Len(s) : s[p] # "!"
    BY <1>0, <1>2
  <2> QED
    BY <1>0, <2>1, <2>2
<1>3. CASE marks # {}
  <2>1. marks \in SUBSET Nat
    BY <1>0
  <2>2. InfoStart(s) = Least(marks)
    BY <1>1, <1>3
  <2>3. Least(marks) \in marks /\ \A j \in marks : Least(marks) <= j
    <3> HIDE DEF marks
    <3> QED
      BY <1>3, <2>1, LeastExists DEF Least
  <2>4. ASSUME NEW p \in 1..(InfoStart(s) - 1) PROVE p \in 1..Len(s) /\ p \notin marks
    <3>1. Least(marks) \in 1..Len(s)
      BY <1>0, <2>3
    <3>2. p \in 1..Len(s) /\ ~ (Least(marks) <= p)
      <4> HIDE DEF marks
      <4> QED
        BY <1>0, <2>2, <3>1
    <3> QED
      BY <2>3, <3>2
  <2>5. \A p \in 1..(InfoStart(s) - 1) : s[p] # "!"
    BY <1>0, <2>4
  <2>6. InfoStart(s) \in 1..(Len(s) + 1) /\ s[InfoStart(s)] = "!"
    BY <1>0, <2>2, <2>3
  <2> QED
    BY <2>5, <2>6
<1> QED
  BY <1>2, <1>3

LEMMA InfoStartType ==
  ASSUME NEW T, NEW s \in Seq(T)
  PROVE  InfoStart(s) \in 1..(Len(s) + 1) /\ InfoStart(s) \in Nat /\ Len(s) \in Nat
<1>1. InfoStart(s) \in 1..(Len(s) + 1)
  BY InfoStartFacts, Zenon
<1>2. Len(s) \in Nat
  OBVIOUS
<1> QED
  BY <1>1, <1>2

LEMMA CompactType ==
  ASSUME NEW T, NEW s \in Seq(T), NEW p \in 1..InfoStart(s)
  PROVE  /\ Compact(s)[p] \in Seq(T)
         /\ Compact(s)[p] = IF p = InfoStart(s) THEN <<>>
                            ELSE IF s[p] = " " THEN Compact(s)[p + 1]
                            ELSE <<s[p]>> \o Compact(s)[p + 1]
<1> DEFINE N == InfoStart(s)
           D == 1..N
           V == Seq(T)
           Body(g, q) == IF q = N THEN <<>>
                         ELSE IF s[q] = " " THEN g[q + 1]
                         ELSE <<s[q]>> \o g[q + 1]
           E == [g \in [D -> V] |-> [q \in D |-> Body(g, q)]]
           rank == [q \in D |-> N - q]
           F == Compact(s)
<1>0. N \in Nat /\ N \in 1..(Len(s) + 1) /\ Len(s) \in Nat
  BY InfoStartType
<1> HIDE DEF N
<1>1. ASSUME NEW q \in D, NEW g, q # N => q + 1 \in D /\ g[q + 1] \in V
      PROVE  Body(g, q) \in V
  <2>1. CASE q # N
    <3>1. s[q] \in T /\ g[q + 1] \in Seq(T)
      BY <1>0, <1>1, <2>1
    <3>2. <<s[q]>> \in Seq(T)
      BY <3>1
    <3>3. <<s[q]>> \o g[q + 1] \in Seq(T)
      BY <3>1, <3>2, ConcatProperties
    <3> QED
      BY <2>1, <3>1, <3>3
  <2>2. CASE q = N
    BY <2>2
  <2> QED
    BY <2>1, <2>2
<1>2. rank \in [D -> 0..N]
  BY <1>0
<1>11. \A q, r \in D : rank[q] < rank[r] <=> r < q
  BY <1>0
<1>3. \A q \in D : q # N => q + 1 \in D /\ q < q + 1
  BY <1>0
<1>4. ASSUME NEW q \in D, NEW g, NEW h, \A r \in D : q < r => g[r] = h[r]
      PROVE  Body(g, q) = Body(h, q)
  BY <1>3, <1>4
<1> HIDE DEF Body
<1>5. \E f : f = [q \in D |-> Body(f, q)]
  <2>1. E \in [[D -> V] -> [D -> V]]
    BY <1>1, <1>3
  <2>2. \A g, h \in [D -> V] : \A q \in D :
          (\A r \in D : rank[r] < rank[q] => g[r] = h[r]) => E[g][q] = E[h][q]
    <3> SUFFICES ASSUME NEW g \in [D -> V], NEW h \in [D -> V], NEW q \in D,
                        \A r \in D : rank[r] < rank[q] => g[r] = h[r]
                 PROVE  E[g][q] = E[h][q]
      OBVIOUS
    <3>1. \A r \in D : q < r => g[r] = h[r]
      <4> HIDE DEF rank
      <4> QED
        BY <1>11
    <3>2. Body(g, q) = Body(h, q)
      BY <1>4, <3>1
    <3> QED
      BY <3>2
  <2>3. V # {}
    BY EmptySeq
  <2>4. \E f \in [D -> V] : f = E[f]
    <3> HIDE DEF D, V, E, rank
    <3>1. IsRecursion(D, V, N, rank, E)
      BY <1>0, <1>2, <2>1, <2>2, <2>3 DEF IsRecursion
    <3> QED
      BY <3>1, RecursionExists
  <2> QED
    BY <2>4
<1>6. F = [q \in D |-> Body(F, q)]
  <2>1. F = CHOOSE f : f = [q \in D |-> Body(f, q)]
    BY Zenon DEF Compact, Body, N
  <2> HIDE DEF F
  <2> QED
    BY <1>5, <2>1
<1> DEFINE S == {q \in D : F[q] \in V}
<1> HIDE DEF F
<1>7. ASSUME NEW q \in D, \A r \in D : rank[r] < rank[q] => r \in S
      PROVE  q \in S
  <2>1. q # N => q + 1 \in D /\ F[q + 1] \in V
    BY <1>3, <1>7, <1>11
  <2>2. Body(F, q) \in V
    BY <1>1, <2>1
  <2> QED
    BY <1>6, <2>2
<1>8. D \subseteq S
  <2> HIDE DEF D, S, rank
  <2> QED
    BY <1>0, <1>2, <1>7, RankInduction
<1>9. p \in D
  BY DEF N
<1>10. F[p] = Body(F, p)
  BY <1>6, <1>9
<1> QED
  BY <1>8, <1>9, <1>10 DEF F, Body, N

LEMMA CompactIsSeq ==
  ASSUME NEW T, NEW s \in Seq(T), NEW p \in 1..InfoStart(s)
  PROVE  Compact(s)[p] \in Seq(T)
BY CompactType, Zenon

LEMMA CompactEnd ==
  ASSUME NEW T, NEW s \in Seq(T)
  PROVE  Compact(s)[InfoStart(s)] = <<>>
<1>1. InfoStart(s) \in 1..InfoStart(s)
  BY InfoStartType
<1> QED
  BY <1>1, CompactType, Zenon

LEMMA CompactBlank ==
  ASSUME NEW T, NEW s \in Seq(T), NEW p \in 1..InfoStart(s), p # InfoStart(s), s[p] = " "
  PROVE  Compact(s)[p] = Compact(s)[p + 1]
BY CompactType, Zenon

LEMMA CompactToken ==
  ASSUME NEW T, NEW s \in Seq(T), NEW p \in 1..InfoStart(s), p # InfoStart(s), s[p] # " "
  PROVE  Compact(s)[p] = <<s[p]>> \o Compact(s)[p + 1]
BY CompactType, Zenon

\* There is a token at a position, or nothing.
Solid(s, p) == At(s, p) # " "

\* Induction from the end of an interval to its beginning.
LEMMA DownInduction ==
  ASSUME NEW a \in Int, NEW b \in Int, a <= b, NEW S,
         b \in S, \A r \in a..(b - 1) : r + 1 \in S => r \in S
  PROVE  a..b \subseteq S
<1> DEFINE D == a..b
           rank == [r \in D |-> b - r]
<1>1. b - a \in Nat /\ rank \in [D -> 0..(b - a)]
  OBVIOUS
<1>2. ASSUME NEW r \in D, \A q \in D : rank[q] < rank[r] => q \in S
      PROVE  r \in S
  <2>1. CASE r = b
    BY <2>1
  <2>2. CASE r # b
    <3>1. r \in a..(b - 1) /\ r + 1 \in D /\ rank[r + 1] < rank[r]
      BY <2>2
    <3> QED
      BY <1>2, <3>1
  <2> QED
    BY <2>1, <2>2
<1> HIDE DEF D, rank
<1>3. D \subseteq S
  BY <1>1, <1>2, RankInduction
<1> QED
  BY <1>3 DEF D

LEMMA BlanksAreNothing ==
  ASSUME NEW T, NEW s \in Seq(T), NEW q \in 1..InfoStart(s), NEW p \in 1..q,
         Blank(s, p, q)
  PROVE  Compact(s)[p] = Compact(s)[q]
<1> DEFINE N == InfoStart(s)
           S == {r \in p..q : Compact(s)[r] = Compact(s)[q]}
<1>0. N \in Nat
  BY InfoStartType
<1> HIDE DEF N
<1>1. ASSUME NEW r \in p..(q - 1), r + 1 \in S PROVE r \in S
  <2>1. r \in 1..N /\ r # N
    BY <1>0 DEF N
  <2>2. s[r] = " "
    BY DEF Blank
  <2>3. Compact(s)[r] = Compact(s)[r + 1]
    BY <2>1, <2>2, CompactBlank, Zenon DEF N
  <2> QED
    BY <1>1, <2>3
<1>2. q \in S
  OBVIOUS
<1>3. p..q \subseteq S
  <2> HIDE DEF S
  <2> QED
    BY <1>1, <1>2, DownInduction, SMTT(60)
<1> QED
  BY <1>3

LEMMA TokensStay ==
  ASSUME NEW T, NEW s \in Seq(T), NEW q \in 1..InfoStart(s), NEW p \in 1..q,
         Dense(s, p, q)
  PROVE  Compact(s)[p] = SubSeq(s, p, q - 1) \o Compact(s)[q]
<1> DEFINE N == InfoStart(s)
           C(r) == Compact(s)[r]
           S == {r \in p..q : C(r) = SubSeq(s, r, q - 1) \o C(q)}
<1>0. N \in 1..(Len(s) + 1) /\ Len(s) \in Nat /\ q \in 1..N
  BY InfoStartType
<1>1. \A r \in 1..N : C(r) \in Seq(T)
  BY CompactIsSeq
<1>2. \A r \in 1..N : r # N /\ s[r] # " " => C(r) = <<s[r]>> \o C(r + 1)
  BY CompactToken, Zenon
<1> HIDE DEF N, C
<1>3. ASSUME NEW r \in p..(q - 1), r + 1 \in S PROVE r \in S
  <2>1. r \in 1..N /\ r # N /\ r + 1 \in 1..q /\ r \in 1..Len(s) /\ q - 1 \in r..Len(s)
    BY <1>0
  <2>2. C(r) = <<s[r]>> \o C(r + 1)
    <3>1. s[r] # " "
      BY DEF Dense
    <3> QED
      BY <1>2, <2>1, <3>1, Zenon
  <2>3. C(r + 1) = SubSeq(s, r + 1, q - 1) \o C(q)
    BY <1>3
  <2>4. SubSeq(s, r, q - 1) = <<s[r]>> \o SubSeq(s, r + 1, q - 1)
    BY <2>1, SubSeqRecursiveFirst
  <2>5. <<s[r]>> \in Seq(T) /\ SubSeq(s, r + 1, q - 1) \in Seq(T) /\ C(q) \in Seq(T)
    <3>1. \A i \in (r + 1)..(q - 1) : s[i] \in T
      BY <1>0, <2>1
    <3>2. SubSeq(s, r + 1, q - 1) \in Seq(T)
      BY <2>1, <3>1, SubSeqProperties
    <3>3. s[r] \in T
      BY <2>1
    <3> QED
      BY <1>0, <1>1, <3>2, <3>3
  <2>6. C(r) = SubSeq(s, r, q - 1) \o C(q)
    <3>1. (<<s[r]>> \o SubSeq(s, r + 1, q - 1)) \o C(q) = <<s[r]>> \o (SubSeq(s, r + 1, q - 1) \o C(q))
      BY <2>5, ConcatAssociative, SMTT(60)
    <3> QED
      BY <2>2, <2>3, <2>4, <3>1, Zenon
  <2> QED
    BY <2>1, <2>6
<1>4. q \in S
  <2>1. SubSeq(s, q, q - 1) = <<>>
    BY <1>0, SubSeqEmpty
  <2>2. <<>> \o C(q) = C(q)
    BY <1>0, <1>1, ConcatEmptySeq
  <2>3. q \in p..q
    BY <1>0
  <2> QED
    BY <2>1, <2>2, <2>3
<1>5. p..q \subseteq S
  <2> HIDE DEF S
  <2> QED
    BY <1>3, <1>4, DownInduction, SMTT(60)
<1>6. p \in p..q
  BY <1>0
<1>7. C(p) = SubSeq(s, p, q - 1) \o C(q)
  BY <1>5, <1>6, Zenon
<1> QED
  BY <1>7 DEF C

\* Blanks are skipped, and nothing else.
LEMMA SkipCompact ==
  ASSUME NEW T, NEW s \in Seq(T), NEW p \in 1..InfoStart(s)
  PROVE  /\ Skip(s, p) \in p..InfoStart(s)
         /\ Solid(s, Skip(s, p))
         /\ Compact(s)[Skip(s, p)] = Compact(s)[p]
<1> DEFINE N == InfoStart(s)
           q == Skip(s, p)
<1>0. N \in 1..(Len(s) + 1) /\ Len(s) \in Nat /\ N \in Nat
  BY InfoStartType, Zenon
<1>d. DOMAIN s = 1..Len(s)
  OBVIOUS
<1>p. p \in 1..N /\ p \in 1..(Len(s) + 1)
  BY <1>0
<1>1. q \in p..(Len(s) + 1) /\ Solid(s, q)
  BY <1>p, SkipType, Zenon DEF Solid
<1>2. \A r \in p..(q - 1) : ~Solid(s, r)
  BY <1>p, SkipType, Zenon DEF Solid
<1>3. Solid(s, N)
  <2>1. N \in DOMAIN s => s[N] = "!"
    BY InfoStartFacts, Zenon
  <2>2. At(s, N) \in {"!", "end"}
    BY <2>1 DEF At
  <2> QED
    BY <2>2 DEF Solid
<1> HIDE DEF N, q
<1>4. q \in p..N
  <2>1. N \notin p..(q - 1)
    BY <1>2, <1>3
  <2> QED
    BY <1>0, <1>1, <1>p, <2>1
<1>5. ASSUME NEW r \in p..(q - 1) PROVE s[r] = " "
  <2>1. r \in 1..Len(s)
    BY <1>0, <1>1, <1>p
  <2>2. At(s, r) = " "
    BY <1>2, Zenon DEF Solid
  <2>3. At(s, r) = s[r]
    BY <1>d, <2>1, Zenon DEF At
  <2> QED
    BY <2>2, <2>3
<1>6. Compact(s)[p] = Compact(s)[q]
  <2>1. q \in 1..N /\ p \in 1..q
    BY <1>0, <1>4, <1>p
  <2>2. Blank(s, p, q)
    BY <1>5 DEF Blank
  <2> QED
    BY <2>1, <2>2, BlanksAreNothing, Zenon DEF N
<1> QED
  BY <1>1, <1>4, <1>6 DEF N, q

\* The token at a position.
LEMMA CompactHead ==
  ASSUME NEW T, NEW s \in Seq(T), NEW p \in 1..InfoStart(s), p # InfoStart(s), Solid(s, p)
  PROVE  /\ p \in 1..Len(s) /\ At(s, p) = s[p] /\ s[p] \in T
         /\ p + 1 \in 1..InfoStart(s)
         /\ Compact(s)[p + 1] \in Seq(T)
         /\ Compact(s)[p] = <<s[p]>> \o Compact(s)[p + 1]
<1> DEFINE N == InfoStart(s)
<1>0. N \in 1..(Len(s) + 1) /\ Len(s) \in Nat /\ N \in Nat
  BY InfoStartType, Zenon
<1>1. p \in 1..Len(s) /\ p + 1 \in 1..N
  BY <1>0
<1>2. At(s, p) = s[p] /\ s[p] \in T
  BY <1>1 DEF At
<1>4. Compact(s)[p + 1] \in Seq(T)
  BY <1>1, CompactIsSeq
<1>5. Compact(s)[p] = <<s[p]>> \o Compact(s)[p + 1]
  BY <1>2, CompactToken, Zenon DEF Solid
<1> QED
  BY <1>1, <1>2, <1>4, <1>5

\* The specification ends at its name info or with the text.
LEMMA InfoFollows ==
  ASSUME NEW T, NEW s \in Seq(T)
  PROVE  At(s, InfoStart(s)) \in {"!", "end"}
<1>1. InfoStart(s) \in DOMAIN s => s[InfoStart(s)] = "!"
  BY InfoStartFacts, Zenon
<1> QED
  BY <1>1 DEF At

\* A token that is not the beginning of the name info is before it.
LEMMA BeforeInfo ==
  ASSUME NEW T, NEW s \in Seq(T), NEW p \in 1..InfoStart(s), NEW c, At(s, p) = c,
         c \notin {"!", "end"}
  PROVE  p # InfoStart(s)
BY InfoFollows

-----------------------------------------------------------------------------
(* What the parser has read.                                               *)

Tokens == Identifiers \cup Punctuation

\* The tokens from p on and before q are w.
Reads(s, p, q, w) ==
  /\ p \in 1..InfoStart(s) /\ q \in p..InfoStart(s)
  /\ w \in Seq(Tokens)
  /\ Compact(s)[p] = w \o Compact(s)[q]

LEMMA ReadsOn ==
  ASSUME NEW s \in Seq(Tokens), NEW p, NEW q, NEW r, NEW v, NEW w,
         Reads(s, p, q, v), Reads(s, q, r, w)
  PROVE  Reads(s, p, r, v \o w)
<1> DEFINE N == InfoStart(s)
           C(x) == Compact(s)[x]
<1>0. N \in Nat /\ p \in 1..N /\ q \in p..N /\ r \in q..N
  BY InfoStartType DEF Reads
<1>1. v \in Seq(Tokens) /\ w \in Seq(Tokens) /\ C(p) = v \o C(q) /\ C(q) = w \o C(r)
  BY DEF Reads
<1>2. r \in 1..N /\ r \in p..N
  BY <1>0
<1>3. C(r) \in Seq(Tokens)
  BY <1>2, CompactIsSeq
<1> HIDE DEF N, C
<1>4. v \o w \in Seq(Tokens) /\ v \o (w \o C(r)) = (v \o w) \o C(r)
  BY <1>1, <1>3, ConcatProperties, ConcatAssociative, SMTT(30)
<1>5. C(p) = (v \o w) \o C(r)
  BY <1>1, <1>4
<1> QED
  BY <1>0, <1>2, <1>4, <1>5 DEF Reads, C, N

LEMMA ReadsBlanks ==
  ASSUME NEW s \in Seq(Tokens), NEW p \in 1..InfoStart(s)
  PROVE  Reads(s, p, Skip(s, p), <<>>)
<1> DEFINE q == Skip(s, p)
<1>1. q \in p..InfoStart(s) /\ Compact(s)[q] = Compact(s)[p]
  BY SkipCompact
<1>2. q \in 1..InfoStart(s)
  BY <1>1, InfoStartType
<1>3. Compact(s)[q] \in Seq(Tokens)
  BY <1>2, CompactIsSeq
<1> HIDE DEF q
<1>4. <<>> \o Compact(s)[q] = Compact(s)[q] /\ <<>> \in Seq(Tokens)
  BY <1>3, ConcatEmptySeq, EmptySeq
<1> QED
  BY <1>1, <1>4 DEF Reads, q

LEMMA TokensDiffer ==
  ASSUME NEW c \in Identifiers \cup {".", ",", "(", ")", "[", "]"}
  PROVE  c \in Tokens /\ c \notin {" ", "!", "end"}
BY IdentifiersAssumption DEF Tokens, Punctuation

\* There is a token of a specification at a position.
Sees(s, p, c) == c \in Identifiers \cup {".", ",", "(", ")", "[", "]"} /\ At(s, p) = c

LEMMA OneToken ==
  ASSUME NEW S, NEW c \in S
  PROVE  <<c>> \in Seq(S) /\ <<c>> \o <<>> = <<c>>
OBVIOUS

LEMMA ReadsToken ==
  ASSUME NEW s \in Seq(Tokens), NEW p \in 1..InfoStart(s), NEW c, Sees(s, p, c)
  PROVE  Reads(s, p, p + 1, <<c>>)
<1> DEFINE N == InfoStart(s)
<1>0. c \in Tokens /\ c \notin {" ", "!", "end"} /\ At(s, p) = c
  BY TokensDiffer DEF Sees
<1>1. p # N /\ Solid(s, p)
  BY <1>0, BeforeInfo, Zenon DEF Solid
<1>2. p + 1 \in 1..N /\ At(s, p) = s[p]
  BY <1>1, CompactHead, Zenon
<1>3. Compact(s)[p] = <<c>> \o Compact(s)[p + 1]
  BY <1>0, <1>1, CompactHead, Zenon
<1>4. <<c>> \in Seq(Tokens)
  BY <1>0, OneToken
<1>5. p \in 1..N /\ p + 1 \in p..N
  <2>1. p \in 1..N /\ p + 1 \in 1..N /\ N \in Nat
    BY <1>2, InfoStartType
  <2> HIDE DEF N
  <2> QED
    BY <2>1
<1> QED
  BY <1>3, <1>4, <1>5, Zenon DEF Reads

LEMMA ReadsType ==
  ASSUME NEW s \in Seq(Tokens), NEW p, NEW q, NEW w, Reads(s, p, q, w)
  PROVE  p \in 1..InfoStart(s) /\ q \in 1..InfoStart(s) /\ w \in Seq(Tokens)
<1>1. InfoStart(s) \in Nat
  BY InfoStartType
<1> QED
  BY <1>1 DEF Reads

\* A token and the blanks after it.
LEMMA ReadsSpaced ==
  ASSUME NEW s \in Seq(Tokens), NEW p \in 1..InfoStart(s), NEW c, Sees(s, p, c)
  PROVE  Reads(s, p, Skip(s, p + 1), <<c>>)
<1>1. Reads(s, p, p + 1, <<c>>)
  BY ReadsToken
<1>2. p + 1 \in 1..InfoStart(s)
  BY <1>1, ReadsType
<1>3. Reads(s, p + 1, Skip(s, p + 1), <<>>)
  BY <1>2, ReadsBlanks
<1>4. <<c>> \o <<>> = <<c>>
  BY OneToken
<1>5. Reads(s, p, Skip(s, p + 1), <<c>> \o <<>>)
  BY <1>1, <1>3, ReadsOn
<1> QED
  BY <1>4, <1>5

-----------------------------------------------------------------------------
(* Names and brackets that were read.                                      *)

\* An even number of steps is two at a time.
LEMMA Halves ==
  ASSUME NEW n \in Nat
  PROVE  \E k \in 0..n : n = 2 * k \/ n = 2 * k + 1
<1>1. n \div 2 \in 0..n /\ (n = 2 * (n \div 2) \/ n = 2 * (n \div 2) + 1)
  OBVIOUS
<1> QED
  BY <1>1

\* The tokens of the name at p.
LEMMA NameTokens ==
  ASSUME NEW s \in Seq(Tokens), NEW p \in 1..(Len(s) + 1), NameEnd(s, p) # 0
  PROVE  /\ NameEnd(s, p) \in (p + 1)..(Len(s) + 1)
         /\ \A r \in p..(NameEnd(s, p) - 1) : At(s, r) \in Identifiers \cup {"."}
<1> DEFINE R == {k \in 0..Len(s) : At(s, p + 2 * k + 1) # "."}
           dots == Least(R)
           Named == \A k \in 0..dots : At(s, p + 2 * k) \in Identifiers
<1>0. Len(s) \in Nat /\ p \in Nat
  OBVIOUS
<1>1. R \in SUBSET Nat
  <2>1. 0..Len(s) \subseteq Nat
    BY <1>0
  <2> QED
    BY <2>1, Zenon
<1>2. R # {}
  <2>1. p + 2 * Len(s) + 1 \notin DOMAIN s
    BY <1>0
  <2>2. At(s, p + 2 * Len(s) + 1) = "end"
    BY <2>1, Zenon DEF At
  <2>3. Len(s) \in R
    BY <1>0, <2>2
  <2> QED
    BY <2>3
<1>3. dots \in R /\ \A j \in R : dots <= j
  <2> HIDE DEF R
  <2> QED
    BY <1>1, <1>2, LeastExists DEF Least
<1>4. dots \in 0..Len(s)
  BY <1>3, Zenon
<1>5. NameEnd(s, p) = IF Named THEN p + 2 * dots + 1 ELSE 0
  BY Zenon DEF NameEnd
<1>6. Named /\ NameEnd(s, p) = p + 2 * dots + 1
  BY <1>5, Zenon
<1>7. ASSUME NEW k \in 0..Len(s), k < dots PROVE At(s, p + 2 * k + 1) = "."
  <2>1. k \notin R
    <3> HIDE DEF R
    <3>1. ~ (dots <= k)
      BY <1>4, <1>7
    <3> QED
      BY <1>3, <3>1
  <2> QED
    BY <2>1, Zenon
<1> HIDE DEF dots
<1>8. ASSUME NEW r \in p..(p + 2 * dots) PROVE At(s, r) \in Identifiers \cup {"."}
  <2>1. PICK k \in 0..(r - p) : r - p = 2 * k \/ r - p = 2 * k + 1
    <3>1. r - p \in Nat
      BY <1>0
    <3> QED
      BY <3>1, Halves
  <2>2. CASE r - p = 2 * k
    <3>1. r = p + 2 * k /\ k \in 0..dots
      BY <1>0, <1>4, <2>2
    <3> QED
      BY <1>6, <3>1
  <2>3. CASE r - p = 2 * k + 1
    <3>1. r = p + 2 * k + 1 /\ k \in 0..Len(s) /\ k < dots
      BY <1>0, <1>4, <2>3
    <3> QED
      BY <1>7, <3>1
  <2> QED
    BY <2>1, <2>2, <2>3
<1>9. p + 2 * dots + 1 \in (p + 1)..(Len(s) + 1)
  <2>1. dots \in 0..dots
    BY <1>4
  <2>2. At(s, p + 2 * dots) \in Identifiers
    BY <1>6, <2>1
  <2>3. At(s, p + 2 * dots) # "end"
    BY <2>2, TokensDiffer
  <2>4. p + 2 * dots \in 1..Len(s)
    BY <2>3, AtEnd
  <2> QED
    BY <1>0, <1>4, <2>4
<1> QED
  BY <1>0, <1>4, <1>6, <1>8, <1>9

LEMMA NameReads ==
  ASSUME NEW s \in Seq(Tokens), NEW p \in 1..InfoStart(s), NameEnd(s, p) # 0
  PROVE  Reads(s, p, NameEnd(s, p), SubSeq(s, p, NameEnd(s, p) - 1))
<1> DEFINE N == InfoStart(s)
           e == NameEnd(s, p)
<1>0. N \in 1..(Len(s) + 1) /\ Len(s) \in Nat
  BY InfoStartType
<1>1. p \in 1..N /\ p \in 1..(Len(s) + 1)
  BY <1>0
<1>2. e \in (p + 1)..(Len(s) + 1)
  BY <1>1, NameTokens, Zenon
<1>3. \A r \in p..(e - 1) : At(s, r) \in Identifiers \cup {"."}
  BY <1>1, NameTokens, Zenon
<1>4. N \notin p..(e - 1)
  <2>1. At(s, N) \in {"!", "end"}
    BY InfoFollows
  <2>2. At(s, N) \notin Identifiers \cup {"."}
    BY <2>1, TokensDiffer
  <2> QED
    BY <1>3, <2>2, Zenon
<1> HIDE DEF N, e
<1>5. e \in 1..N /\ p \in 1..e /\ e \in p..N
  BY <1>0, <1>1, <1>2, <1>4
<1>6. ASSUME NEW r \in p..(e - 1) PROVE s[r] # " "
  <2>1. r \in 1..Len(s)
    BY <1>0, <1>1, <1>2
  <2>2. At(s, r) = s[r]
    BY <2>1 DEF At
  <2>3. At(s, r) \in Identifiers \cup {"."}
    BY <1>3
  <2> QED
    BY <2>2, <2>3, TokensDiffer
<1>7. Dense(s, p, e)
  BY <1>6 DEF Dense
<1>8. Compact(s)[p] = SubSeq(s, p, e - 1) \o Compact(s)[e]
  BY <1>5, <1>7, TokensStay DEF N
<1>9. SubSeq(s, p, e - 1) \in Seq(Tokens)
  <2>1. \A i \in p..(e - 1) : s[i] \in Tokens
    BY <1>0, <1>1, <1>2
  <2> QED
    BY <1>1, <1>2, <2>1, SubSeqProperties
<1> QED
  BY <1>1, <1>5, <1>8, <1>9, Zenon DEF Reads, N, e

LEMMA PairsType ==
  ASSUME NEW k \in Nat
  PROVE  Pairs(k) \in Seq(Tokens) /\ Len(Pairs(k)) = 2 * k
<1>1. \A i \in 1..(2 * k) : (IF i % 2 = 1 THEN "[" ELSE "]") \in Tokens
  BY DEF Tokens, Punctuation
<1>2. 2 * k \in Nat
  OBVIOUS
<1>3. Pairs(k) \in [1..(2 * k) -> Tokens]
  BY <1>1 DEF Pairs
<1> HIDE DEF Pairs
<1> QED
  BY <1>2, <1>3

LEMMA PairsNext ==
  ASSUME NEW k \in Nat
  PROVE  Pairs(k + 1) = <<"[", "]">> \o Pairs(k)
<1> DEFINE two == <<"[", "]">>
           all == two \o Pairs(k)
<1>1. two \in Seq(Tokens) /\ Len(two) = 2
  <2>1. "[" \in Tokens /\ "]" \in Tokens
    BY DEF Tokens, Punctuation
  <2> QED
    BY <2>1
<1>2. Pairs(k) \in Seq(Tokens) /\ Len(Pairs(k)) = 2 * k
  BY PairsType
<1>3. Pairs(k + 1) \in Seq(Tokens) /\ Len(Pairs(k + 1)) = 2 * k + 2
  BY PairsType
<1>4. /\ all \in Seq(Tokens) /\ Len(all) = 2 * k + 2
      /\ \A i \in 1..(2 * k + 2) : all[i] = IF i <= 2 THEN two[i] ELSE Pairs(k)[i - 2]
  <2> HIDE DEF two
  <2>1. /\ all \in Seq(Tokens) /\ Len(all) = Len(two) + Len(Pairs(k))
        /\ \A i \in 1..(Len(two) + Len(Pairs(k))) :
             all[i] = IF i <= Len(two) THEN two[i] ELSE Pairs(k)[i - Len(two)]
    BY <1>1, <1>2, ConcatProperties
  <2>2. Len(two) + Len(Pairs(k)) = 2 * k + 2
    BY <1>1, <1>2
  <2> HIDE DEF all
  <2> QED
    BY <1>1, <2>1, <2>2
<1>5. ASSUME NEW i \in 1..(2 * k + 2) PROVE Pairs(k + 1)[i] = all[i]
  <2>1. Pairs(k + 1)[i] = IF i % 2 = 1 THEN "[" ELSE "]"
    BY DEF Pairs
  <2>2. CASE i <= 2
    <3>1. i = 1 \/ i = 2
      BY <2>2
    <3>2. all[i] = two[i]
      BY <1>4, <2>2
    <3>3. two[1] = "[" /\ two[2] = "]"
      OBVIOUS
    <3> HIDE DEF all, two
    <3> QED
      BY <2>1, <3>1, <3>2, <3>3
  <2>3. CASE ~ (i <= 2)
    <3>1. i - 2 \in 1..(2 * k) /\ (i - 2) % 2 = i % 2
      BY <2>3
    <3>2. Pairs(k)[i - 2] = IF (i - 2) % 2 = 1 THEN "[" ELSE "]"
      BY <3>1 DEF Pairs
    <3>3. all[i] = Pairs(k)[i - 2]
      BY <1>4, <2>3
    <3> HIDE DEF all
    <3> QED
      BY <2>1, <3>1, <3>2, <3>3
  <2> QED
    BY <2>2, <2>3
<1> HIDE DEF all
<1>6. Pairs(k + 1) = all
  BY <1>3, <1>4, <1>5, SeqEqual
<1> QED
  BY <1>6 DEF all, two

LEMMA PairsNone == Pairs(0) = <<>>
<1>1. Pairs(0) \in Seq(Tokens) /\ Len(Pairs(0)) = 0
  BY PairsType
<1> QED
  BY <1>1, EmptySeq

LEMMA BracketsNone ==
  ASSUME NEW s \in Seq(Tokens), NEW p \in 1..(Len(s) + 1), ~Sees(s, p, "[")
  PROVE  Brackets(s)[p] = [end |-> p, count |-> 0]
<1>1. Brackets(s)[p] = BracketsBody(s, Brackets(s), p)
  BY BracketsStep
<1> QED
  BY <1>1, Zenon DEF BracketsBody, Sees

LEMMA BracketsBroken ==
  ASSUME NEW s \in Seq(Tokens), NEW p \in 1..(Len(s) + 1), Sees(s, p, "["),
         ~Sees(s, Skip(s, p + 1), "]")
  PROVE  Brackets(s)[p].end = 0
<1>1. Brackets(s)[p] = BracketsBody(s, Brackets(s), p)
  BY BracketsStep
<1>2. Brackets(s)[p] = [end |-> 0, count |-> 0]
  BY <1>1, Zenon DEF BracketsBody, Sees
<1> QED
  BY <1>2

\* The positions of a pair of brackets and of what follows it.
LEMMA BracketsMore ==
  ASSUME NEW s \in Seq(Tokens), NEW p \in 1..(Len(s) + 1), Sees(s, p, "["),
         Sees(s, Skip(s, p + 1), "]")
  PROVE  LET q == Skip(s, Skip(s, p + 1) + 1) IN
         /\ q \in (p + 1)..(Len(s) + 1)
         /\ Brackets(s)[p].end = Brackets(s)[q].end
         /\ Brackets(s)[p].count = Brackets(s)[q].count + 1
         /\ Brackets(s)[q].count \in Nat
<1> DEFINE c == Skip(s, p + 1)
           q == Skip(s, c + 1)
           F == Brackets(s)
<1>1. At(s, p) = "[" /\ At(s, c) = "]"
  BY DEF Sees
<1>2. p \in 1..Len(s)
  BY <1>1, AtEnd
<1>3. c \in (p + 1)..(Len(s) + 1)
  <2>1. p + 1 \in 1..(Len(s) + 1)
    BY <1>2
  <2> QED
    BY <2>1, SkipType, Zenon
<1>4. c \in 1..Len(s)
  BY <1>1, AtEnd
<1>5. q \in (c + 1)..(Len(s) + 1)
  <2>1. c + 1 \in 1..(Len(s) + 1)
    <3> HIDE DEF c
    <3> QED
      BY <1>4
  <2> QED
    BY <2>1, SkipType, Zenon
<1>6. F[p] = [F[q] EXCEPT !.count = @ + 1]
  <2>1. F[p] = BracketsBody(s, F, p)
    BY BracketsStep
  <2> QED
    BY <1>1, <2>1, Zenon DEF BracketsBody
<1>7. q \in (p + 1)..(Len(s) + 1) /\ q \in 1..(Len(s) + 1)
  <2> HIDE DEF q, c
  <2> QED
    BY <1>2, <1>3, <1>5
<1>8. F[q] \in [end : 0..(Len(s) + 1), count : Nat]
  BY <1>7, BracketsType
<1> HIDE DEF F, q
<1>9. F[p].end = F[q].end /\ F[p].count = F[q].count + 1 /\ F[q].count \in Nat
  BY <1>6, <1>8
<1> QED
  BY <1>7, <1>9 DEF F, q

LEMMA ReadsNothing ==
  ASSUME NEW s \in Seq(Tokens), NEW p \in 1..InfoStart(s)
  PROVE  Reads(s, p, p, <<>>)
<1>1. p \in p..InfoStart(s)
  BY InfoStartType
<1>2. <<>> \o Compact(s)[p] = Compact(s)[p] /\ <<>> \in Seq(Tokens)
  BY CompactIsSeq, ConcatEmptySeq, EmptySeq
<1> QED
  BY <1>1, <1>2 DEF Reads

LEMMA TwoTokens ==
  ASSUME NEW c, NEW d
  PROVE  <<c>> \o <<d>> = <<c, d>>
<1> DEFINE S == {c, d}
<1>1. <<c>> \in Seq(S) /\ Len(<<c>>) = 1 /\ <<d>> \in Seq(S) /\ Len(<<d>>) = 1
  OBVIOUS
<1>2. <<c, d>> \in Seq(S) /\ Len(<<c, d>>) = 2
  OBVIOUS
<1>3. /\ <<c>> \o <<d>> \in Seq(S) /\ Len(<<c>> \o <<d>>) = 2
      /\ (<<c>> \o <<d>>)[1] = c /\ (<<c>> \o <<d>>)[2] = d
  <2> HIDE DEF S
  <2>1. <<c>>[1] = c /\ <<d>>[1] = d
    OBVIOUS
  <2> QED
    BY <1>1, <2>1, ConcatProperties
<1>4. <<c, d>>[1] = c /\ <<c, d>>[2] = d
  OBVIOUS
<1>5. \A i \in 1..2 : (<<c>> \o <<d>>)[i] = <<c, d>>[i]
  <2> SUFFICES ASSUME NEW i \in 1..2 PROVE (<<c>> \o <<d>>)[i] = <<c, d>>[i]
    OBVIOUS
  <2>1. i = 1 \/ i = 2
    OBVIOUS
  <2> QED
    BY <1>3, <1>4, <2>1
<1> HIDE DEF S
<1> QED
  BY <1>2, <1>3, <1>5, SeqEqual

LEMMA PairReads ==
  ASSUME NEW s \in Seq(Tokens), NEW p \in 1..InfoStart(s), Sees(s, p, "["),
         Sees(s, Skip(s, p + 1), "]")
  PROVE  Reads(s, p, Skip(s, Skip(s, p + 1) + 1), <<"[", "]">>)
<1> DEFINE c == Skip(s, p + 1)
           q == Skip(s, c + 1)
<1>1. Reads(s, p, c, <<"[">>)
  BY ReadsSpaced
<1>2. c \in 1..InfoStart(s)
  BY <1>1, ReadsType
<1>3. Reads(s, c, q, <<"]">>)
  BY <1>2, ReadsSpaced
<1>4. Reads(s, p, q, <<"[">> \o <<"]">>)
  BY <1>1, <1>3, ReadsOn
<1>5. <<"[">> \o <<"]">> = <<"[", "]">>
  BY TwoTokens
<1> QED
  BY <1>4, <1>5

LEMMA BracketsRead ==
  ASSUME NEW s \in Seq(Tokens), NEW p \in 1..InfoStart(s), Brackets(s)[p].end # 0
  PROVE  Reads(s, p, Brackets(s)[p].end, Pairs(Brackets(s)[p].count))
<1> DEFINE N == InfoStart(s)
           D == 1..N
           F == Brackets(s)
           Read(x) == F[x].end # 0 => Reads(s, x, F[x].end, Pairs(F[x].count))
           S == {x \in D : Read(x)}
           rank == [x \in D |-> N - x]
<1>0. N \in Nat /\ Len(s) \in Nat /\ N \in 1..(Len(s) + 1)
  BY InfoStartType
<1>1. rank \in [D -> 0..N] /\ \A x, y \in D : rank[y] < rank[x] <=> x < y
  <2> HIDE DEF N
  <2> QED
    BY <1>0
<1>2. ASSUME NEW x \in D, \A y \in D : rank[y] < rank[x] => y \in S PROVE Read(x)
  <2>0. x \in 1..(Len(s) + 1)
    <3> HIDE DEF N
    <3> QED
      BY <1>0
  <2>1. CASE ~Sees(s, x, "[")
    <3>1. F[x] = [end |-> x, count |-> 0]
      BY <2>0, <2>1, BracketsNone
    <3>2. F[x].end = x /\ F[x].count = 0
      <4> HIDE DEF F
      <4> QED
        BY <3>1
    <3>3. Reads(s, x, x, <<>>)
      BY ReadsNothing
    <3> QED
      BY <3>2, <3>3, PairsNone
  <2>2. CASE Sees(s, x, "[") /\ ~Sees(s, Skip(s, x + 1), "]")
    BY <2>0, <2>2, BracketsBroken
  <2>3. CASE Sees(s, x, "[") /\ Sees(s, Skip(s, x + 1), "]")
    <3> DEFINE y == Skip(s, Skip(s, x + 1) + 1)
    <3>1. /\ y \in (x + 1)..(Len(s) + 1)
          /\ F[x].end = F[y].end /\ F[x].count = F[y].count + 1 /\ F[y].count \in Nat
      BY <2>0, <2>3, BracketsMore
    <3>2. Reads(s, x, y, <<"[", "]">>)
      BY <2>3, PairReads
    <3>3. y \in D
      BY <3>2, ReadsType
    <3>4. rank[y] < rank[x]
      <4> HIDE DEF y, rank, N
      <4>1. x < y
        BY <1>0, <3>1, <3>3
      <4> QED
        BY <1>1, <3>3, <4>1
    <3> HIDE DEF y, F, rank
    <3>5. Read(y)
      BY <1>2, <3>3, <3>4
    <3>6. ASSUME F[x].end # 0 PROVE Reads(s, x, F[x].end, Pairs(F[x].count))
      <4>1. Reads(s, y, F[y].end, Pairs(F[y].count))
        BY <3>1, <3>5, <3>6
      <4>2. Reads(s, x, F[y].end, <<"[", "]">> \o Pairs(F[y].count))
        BY <3>2, <4>1, ReadsOn
      <4>3. Pairs(F[x].count) = <<"[", "]">> \o Pairs(F[y].count)
        BY <3>1, PairsNext
      <4> QED
        BY <3>1, <4>2, <4>3
    <3> QED
      BY <3>6
  <2> QED
    BY <2>1, <2>2, <2>3
<1> HIDE DEF Read
<1>3. D \subseteq S
  <2>1. \A x \in D : (\A y \in D : rank[y] < rank[x] => y \in S) => x \in S
    BY <1>2
  <2> HIDE DEF D, S, rank, N
  <2> QED
    BY <1>0, <1>1, <2>1, RankInduction
<1> QED
  BY <1>3 DEF Read

-----------------------------------------------------------------------------
(* Types and lists that were read.                                         *)

\* The pair of brackets that makes a type an output.
Extra(isOutput) == IF isOutput THEN 1 ELSE 0

LEMMA DataTypeFound ==
  ASSUME NEW s, NEW p, NEW isOutput, DataType(s, p, isOutput).end # 0
  PROVE  LET e == NameEnd(s, p)
             b == Brackets(s)[Skip(s, e)]
         IN
         /\ e # 0 /\ b.end # 0
         /\ \E t \in Types : /\ t.name = SubSeq(s, p, e - 1)
                             /\ t.brackets = b.count - Extra(isOutput)
                             /\ DataType(s, p, isOutput).end = b.end
                             /\ DataType(s, p, isOutput).class = t.class
<1> DEFINE e == NameEnd(s, p)
           b == Brackets(s)[Skip(s, e)]
           known == {t \in Types : /\ t.name = SubSeq(s, p, e - 1)
                                   /\ t.brackets = b.count - Extra(isOutput)}
           type == CHOOSE t \in known : TRUE
           found == [end |-> b.end, class |-> type.class]
<1>1. DataType(s, p, isOutput) =
        IF e = 0 THEN NoType ELSE IF b.end = 0 \/ known = {} THEN NoType ELSE found
  BY Zenon DEF DataType, Extra
<1>2. NoType.end = 0
  BY DEF NoType
<1>3. e # 0 /\ b.end # 0 /\ known # {} /\ DataType(s, p, isOutput) = found
  <2> HIDE DEF e, b, known, found
  <2> QED
    BY <1>1, <1>2
<1>4. type \in known
  <2> HIDE DEF known
  <2> QED
    BY <1>3
<1>5. type \in Types /\ type.name = SubSeq(s, p, e - 1) /\ type.brackets = b.count - Extra(isOutput)
  <2> HIDE DEF type
  <2> QED
    BY <1>4
<1>6. DataType(s, p, isOutput).end = b.end /\ DataType(s, p, isOutput).class = type.class
  <2> HIDE DEF type, b
  <2> QED
    BY <1>3
<1> HIDE DEF type
<1> QED
  BY <1>3, <1>5, <1>6, Zenon

LEMMA SpellingsType ==
  ASSUME NEW t \in Types, NEW isOutput
  PROVE  /\ t.name \in Seq(Tokens)
         /\ t.brackets + Extra(isOutput) \in Nat
         /\ t.name \o Pairs(t.brackets + Extra(isOutput)) \in Spellings(t.class, isOutput)
<1>1. t.name \in Seq(Identifiers \cup {"."}) /\ t.brackets \in Nat
  BY TypesAssumption DEF IsName
<1>2. Identifiers \cup {"."} \subseteq Tokens
  BY TokensDiffer
<1>3. t.name \in Seq(Tokens)
  BY <1>1, <1>2, SeqMonotonic, Zenon
<1>4. t.brackets + Extra(isOutput) \in Nat
  BY <1>1 DEF Extra
<1>5. t.name \o Pairs(t.brackets + Extra(isOutput)) \in Spellings(t.class, isOutput)
  BY Zenon DEF Spellings, Extra
<1> QED
  BY <1>3, <1>4, <1>5

LEMMA DataTypeReads ==
  ASSUME NEW s \in Seq(Tokens), NEW p \in 1..InfoStart(s), NEW isOutput,
         DataType(s, p, isOutput).end # 0
  PROVE  \E w \in Spellings(DataType(s, p, isOutput).class, isOutput) :
           Reads(s, p, DataType(s, p, isOutput).end, w)
<1> DEFINE e == NameEnd(s, p)
           a == Skip(s, e)
           b == Brackets(s)[a]
           name == SubSeq(s, p, e - 1)
           type == DataType(s, p, isOutput)
<1>1. /\ e # 0 /\ b.end # 0
      /\ \E t \in Types : /\ t.name = name
                          /\ t.brackets = b.count - Extra(isOutput)
                          /\ type.end = b.end /\ type.class = t.class
  BY DataTypeFound
<1>2. PICK t \in Types : /\ t.name = name
                         /\ t.brackets = b.count - Extra(isOutput)
                         /\ type.end = b.end /\ type.class = t.class
  BY <1>1
<1>3. Reads(s, p, e, name)
  BY <1>1, NameReads
<1> HIDE DEF name, type
<1>4. Reads(s, e, a, <<>>) /\ a \in 1..InfoStart(s)
  <2>1. e \in 1..InfoStart(s)
    BY <1>3, ReadsType
  <2>2. Reads(s, e, a, <<>>)
    BY <2>1, ReadsBlanks
  <2> QED
    BY <2>2, ReadsType
<1>5. Reads(s, a, b.end, Pairs(b.count))
  BY <1>1, <1>4, BracketsRead
<1>6. Reads(s, p, a, name)
  <2>1. Reads(s, p, a, name \o <<>>) /\ name \in Seq(Tokens)
    BY <1>3, <1>4, ReadsOn, ReadsType
  <2> QED
    BY <2>1, ConcatEmptySeq
<1>7. Reads(s, p, b.end, name \o Pairs(b.count))
  BY <1>5, <1>6, ReadsOn
<1>8. t.brackets + Extra(isOutput) = b.count
  <2>1. a \in 1..(Len(s) + 1)
    <3>1. InfoStart(s) \in 1..(Len(s) + 1) /\ Len(s) \in Nat
      BY InfoStartType
    <3> HIDE DEF a
    <3> QED
      BY <1>4, <3>1
  <2>2. b \in [end : 0..(Len(s) + 1), count : Nat]
    BY <2>1, BracketsType
  <2> HIDE DEF b
  <2>3. b.count \in Nat /\ Extra(isOutput) \in Nat
    BY <2>2 DEF Extra
  <2> QED
    BY <1>2, <2>3
<1>9. name \o Pairs(b.count) \in Spellings(type.class, isOutput)
  <2>1. t.name \o Pairs(t.brackets + Extra(isOutput)) \in Spellings(t.class, isOutput)
    BY SpellingsType
  <2> HIDE DEF b
  <2> QED
    BY <1>2, <1>8, <2>1
<1>10. Reads(s, p, type.end, name \o Pairs(b.count))
  <2> HIDE DEF b
  <2> QED
    BY <1>2, <1>7
<1> HIDE DEF b
<1> QED
  BY <1>9, <1>10 DEF type

\* One turn of the definition of the lists.
ListsBody(classes, inCount, g, n) ==
  IF n > Len(classes) THEN {<<>>}
  ELSE Joined(Spellings(classes[n], n > inCount),
              IF n = Len(classes) THEN <<>> ELSE <<",">>, g[n + 1])

LEMMA JoinedHas ==
  ASSUME NEW texts, NEW separator, NEW others, NEW w
  PROVE  w \in Joined(texts, separator, others)
           <=> \E t \in texts, l \in others : w = t \o separator \o l
BY DEF Joined

LEMMA SpellingsAreSeq ==
  ASSUME NEW class, NEW isOutput
  PROVE  Spellings(class, isOutput) \subseteq Seq(Tokens)
<1> SUFFICES ASSUME NEW w \in Spellings(class, isOutput) PROVE w \in Seq(Tokens)
  OBVIOUS
<1>1. PICK t \in Types : w = t.name \o Pairs(t.brackets + Extra(isOutput))
  BY Zenon DEF Spellings, Extra
<1>2. t.name \in Seq(Tokens) /\ Pairs(t.brackets + Extra(isOutput)) \in Seq(Tokens)
  BY SpellingsType, PairsType
<1> QED
  BY <1>1, <1>2, ConcatProperties

LEMMA ListsFacts ==
  ASSUME NEW C, NEW classes \in Seq(C), NEW inCount \in Nat, NEW n \in 1..(Len(classes) + 1)
  PROVE  /\ Lists(classes, inCount)[n] \in SUBSET Seq(Tokens)
         /\ Lists(classes, inCount)[n] = ListsBody(classes, inCount, Lists(classes, inCount), n)
<1> DEFINE L == Len(classes)
           D == 1..(L + 1)
           V == SUBSET Seq(Tokens)
           Spell(k) == Spellings(classes[k], k > inCount)
           comma(k) == IF k = L THEN <<>> ELSE <<",">>
           all(k, T) == Joined(Spell(k), comma(k), T)
           Body(g, k) == IF k > L THEN {<<>>} ELSE all(k, g[k + 1])
           E == [g \in [D -> V] |-> [k \in D |-> Body(g, k)]]
           rank == [k \in D |-> L + 1 - k]
           F == Lists(classes, inCount)
<1>0. L \in Nat
  OBVIOUS
<1>1. ASSUME NEW k, NEW T \in V PROVE all(k, T) \in V
  <2> SUFFICES ASSUME NEW w \in all(k, T) PROVE w \in Seq(Tokens)
    OBVIOUS
  <2>0. PICK t \in Spell(k), l \in T : w = t \o comma(k) \o l
    <3> HIDE DEF comma, Spell
    <3> QED
      BY JoinedHas
  <2>1. t \in Seq(Tokens)
    BY SpellingsAreSeq
  <2>2. comma(k) \in Seq(Tokens)
    <3>1. <<",">> \in Seq(Tokens) /\ <<>> \in Seq(Tokens)
      BY TokensDiffer, OneToken, EmptySeq
    <3> QED
      BY <3>1
  <2> HIDE DEF comma
  <2>3. t \o comma(k) \in Seq(Tokens)
    BY <2>1, <2>2, ConcatProperties
  <2> QED
    BY <2>0, <2>3, ConcatProperties
<1>2. {<<>>} \in V
  BY EmptySeq
<1>3. rank \in [D -> 0..L]
  BY <1>0
<1>4. \A k, m \in D : rank[k] < rank[m] <=> m < k
  BY <1>0
<1>5. \A k \in D : ~ (k > L) => k + 1 \in D /\ k < k + 1
  BY <1>0
<1> HIDE DEF all, L
<1>6. ASSUME NEW k \in D, NEW g, \A m \in D : rank[m] < rank[k] => g[m] \in V
      PROVE  Body(g, k) \in V
  <2>1. CASE k > L
    BY <1>2, <2>1
  <2>2. CASE ~ (k > L)
    <3>1. k + 1 \in D /\ rank[k + 1] < rank[k]
      <4> HIDE DEF rank, D
      <4> QED
        BY <1>4, <1>5, <2>2
    <3>2. g[k + 1] \in V
      BY <1>6, <3>1
    <3> HIDE DEF V
    <3> QED
      BY <1>1, <2>2, <3>2
  <2> QED
    BY <2>1, <2>2
<1>7. ASSUME NEW k \in D, NEW g, NEW h, \A m \in D : rank[m] < rank[k] => g[m] = h[m]
      PROVE  Body(g, k) = Body(h, k)
  <2>1. ASSUME ~ (k > L) PROVE g[k + 1] = h[k + 1]
    <3> HIDE DEF rank, D
    <3>1. k + 1 \in D /\ rank[k + 1] < rank[k]
      BY <1>4, <1>5, <2>1
    <3> QED
      BY <1>7, <3>1
  <2> QED
    BY <2>1
<1> HIDE DEF Body, V
<1>8. \E f : f = [k \in D |-> Body(f, k)]
  <2>1. E \in [[D -> V] -> [D -> V]]
    <3> HIDE DEF D, rank
    <3> QED
      BY <1>6
  <2>2. \A g, h \in [D -> V] : \A k \in D :
          (\A m \in D : rank[m] < rank[k] => g[m] = h[m]) => E[g][k] = E[h][k]
    <3> HIDE DEF D, rank
    <3> QED
      BY <1>7
  <2>3. \E f \in [D -> V] : f = E[f]
    <3> HIDE DEF D, E, rank
    <3>1. IsRecursion(D, V, L, rank, E)
      BY <1>0, <1>2, <1>3, <2>1, <2>2 DEF IsRecursion
    <3> QED
      BY <3>1, RecursionExists
  <2> QED
    BY <2>3
<1>9. F = [k \in D |-> Body(F, k)]
  <2>1. F = CHOOSE f : f = [k \in D |-> Body(f, k)]
    BY Zenon DEF Lists, Body, all, L
  <2> HIDE DEF F, D
  <2> QED
    BY <1>8, <2>1
<1> DEFINE S == {k \in D : F[k] \in V}
<1>10. ASSUME NEW k \in D, \A m \in D : rank[m] < rank[k] => m \in S
       PROVE  k \in S
  <2> HIDE DEF F, D, rank
  <2>1. \A m \in D : rank[m] < rank[k] => F[m] \in V
    BY <1>10
  <2>2. Body(F, k) \in V
    BY <1>6, <2>1
  <2> QED
    BY <1>9, <2>2
<1>11. D \subseteq S
  <2> HIDE DEF D, S, rank
  <2> QED
    BY <1>0, <1>3, <1>10, RankInduction
<1>12. n \in D
  BY DEF L
<1>13. F[n] = Body(F, n)
  <2> HIDE DEF F, D
  <2> QED
    BY <1>9, <1>12
<1>14. Body(F, n) = ListsBody(classes, inCount, F, n)
  <2> HIDE DEF F, D
  <2> QED
    BY Zenon DEF Body, ListsBody, all, L
<1> QED
  BY <1>11, <1>12, <1>13, <1>14, Zenon DEF V

LEMMA ListsAfter ==
  ASSUME NEW C, NEW classes \in Seq(C), NEW inCount \in Nat
  PROVE  Lists(classes, inCount)[Len(classes) + 1] = {<<>>}
<1> DEFINE n == Len(classes) + 1
<1>1. n \in 1..(Len(classes) + 1) /\ n > Len(classes)
  OBVIOUS
<1>2. Lists(classes, inCount)[n] = ListsBody(classes, inCount, Lists(classes, inCount), n)
  BY <1>1, ListsFacts
<1> HIDE DEF n
<1>3. Lists(classes, inCount)[n] = {<<>>}
  BY <1>1, <1>2, Zenon DEF ListsBody
<1> QED
  BY <1>3 DEF n

\* What precedes the rest of a list.
LEMMA ListsStep ==
  ASSUME NEW C, NEW classes \in Seq(C), NEW inCount \in Nat, NEW n \in 1..Len(classes)
  PROVE  Lists(classes, inCount)[n] =
           Joined(Spellings(classes[n], n > inCount),
                  IF n = Len(classes) THEN <<>> ELSE <<",">>, Lists(classes, inCount)[n + 1])
<1>1. n \in 1..(Len(classes) + 1) /\ ~ (n > Len(classes))
  OBVIOUS
<1>2. Lists(classes, inCount)[n] = ListsBody(classes, inCount, Lists(classes, inCount), n)
  BY <1>1, ListsFacts
<1> QED
  BY <1>1, <1>2, Zenon DEF ListsBody

LEMMA ListsLast ==
  ASSUME NEW C, NEW classes \in Seq(C), NEW inCount \in Nat, NEW n, n = Len(classes), n # 0
  PROVE  Lists(classes, inCount)[n] = Spellings(classes[n], n > inCount)
<1> DEFINE W == Spellings(classes[n], n > inCount)
           rest == Lists(classes, inCount)[n + 1]
<1>1. n \in 1..Len(classes)
  OBVIOUS
<1>2. rest = {<<>>}
  BY ListsAfter
<1>3. Lists(classes, inCount)[n] = Joined(W, <<>>, rest)
  BY <1>1, ListsStep, Zenon
<1>4. ASSUME NEW t \in W PROVE t \o <<>> \o <<>> = t
  <2>2. t \in Seq(Tokens)
    BY SpellingsAreSeq
  <2> QED
    BY <2>2, ConcatEmptySeq
<1> HIDE DEF W, rest
<1> DEFINE none == <<>>
<1> HIDE DEF none
<1>5. ASSUME NEW w \in Joined(W, none, rest) PROVE w \in W
  <2>1. PICK t \in W, l \in rest : w = t \o none \o l
    BY JoinedHas
  <2> QED
    BY <1>2, <1>4, <2>1 DEF none
<1>6. ASSUME NEW w \in W PROVE w \in Joined(W, none, rest)
  <2>1. none \in rest /\ w = w \o none \o none
    BY <1>2, <1>4 DEF none
  <2> QED
    BY <2>1, JoinedHas
<1>7. Joined(W, <<>>, rest) = W
  BY <1>5, <1>6, Zenon DEF none
<1> QED
  BY <1>3, <1>7 DEF W

LEMMA ListsMore ==
  ASSUME NEW C, NEW classes \in Seq(C), NEW inCount \in Nat, NEW n \in 1..Len(classes),
         n # Len(classes)
  PROVE  Lists(classes, inCount)[n] =
           Joined(Spellings(classes[n], n > inCount), <<",">>, Lists(classes, inCount)[n + 1])
BY ListsStep, Zenon

\* A separator after what has been read, and the blanks around it.
LEMMA ReadsSeparator ==
  ASSUME NEW s \in Seq(Tokens), NEW p, NEW q, NEW w, Reads(s, p, q, w),
         NEW c, Sees(s, Skip(s, q), c)
  PROVE  /\ Reads(s, p, Skip(s, q) + 1, w \o <<c>>)
         /\ Reads(s, p, Skip(s, Skip(s, q) + 1), w \o <<c>>)
<1> DEFINE a == Skip(s, q)
<1>1. q \in 1..InfoStart(s) /\ w \in Seq(Tokens)
  BY ReadsType
<1>2. Reads(s, q, a, <<>>)
  BY <1>1, ReadsBlanks
<1>3. a \in 1..InfoStart(s)
  BY <1>2, ReadsType
<1>4. Reads(s, p, a, w \o <<>>)
  BY <1>2, ReadsOn
<1>5. w \o <<>> = w
  BY <1>1, ConcatEmptySeq
<1>6. Reads(s, p, a, w)
  BY <1>4, <1>5
<1>7. Reads(s, a, a + 1, <<c>>) /\ Reads(s, a, Skip(s, a + 1), <<c>>)
  BY <1>3, ReadsToken, ReadsSpaced
<1> HIDE DEF a
<1>8. Reads(s, p, a + 1, w \o <<c>>)
  BY <1>6, <1>7, ReadsOn
<1>9. Reads(s, p, Skip(s, a + 1), w \o <<c>>)
  BY <1>6, <1>7, ReadsOn
<1> QED
  BY <1>8, <1>9 DEF a

\* The positions that the parser comes to.
Places(s, in, out) == (1..(in + out + 1)) \X (1..InfoStart(s))

LEMMA PlacesType ==
  ASSUME NEW s \in Seq(Tokens), NEW in \in Nat, NEW out \in Nat, NEW x \in Places(s, in, out)
  PROVE  /\ x \in (1..(in + out + 1)) \X (1..(Len(s) + 1))
         /\ x[1] \in 1..(in + out + 1) /\ x[2] \in 1..InfoStart(s)
<1> DEFINE N == InfoStart(s)
<1>1. N \in 1..(Len(s) + 1) /\ Len(s) \in Nat
  BY InfoStartType
<1>2. x \in (1..(in + out + 1)) \X (1..N)
  BY DEF Places
<1> HIDE DEF N
<1>3. 1..N \subseteq 1..(Len(s) + 1)
  BY <1>1
<1>4. x \in (1..(in + out + 1)) \X (1..(Len(s) + 1))
  BY <1>2, <1>3
<1> QED
  BY <1>2, <1>4 DEF N

\* How a list goes on where the loop does not fail.
LEMMA ParametersCases ==
  ASSUME NEW s \in Seq(Tokens), NEW in \in Nat, NEW out \in Nat, NEW x \in Places(s, in, out),
         Parameters(s, in, out)[x].ok
  PROVE  LET P   == Parameters(s, in, out)
             T   == TypeAt(s, in, out, x)
             sep == SeparatorAt(s, in, out, x)
             y   == Following(s, in, out, x)
         IN
         /\ x[1] <= in + out /\ T.end # 0 /\ T.class \in NamedClasses
         /\ \/ Sees(s, sep, ")") /\ P[x].types = <<T.class>> /\ P[x].end = sep + 1
            \/ /\ Sees(s, sep, ",") /\ P[y].ok
               /\ P[x].types = <<T.class>> \o P[y].types /\ P[x].end = P[y].end
<1> DEFINE P   == Parameters(s, in, out)
           T   == TypeAt(s, in, out, x)
           sep == SeparatorAt(s, in, out, x)
           y   == Following(s, in, out, x)
           one == [ok |-> TRUE, types |-> <<T.class>>, end |-> sep + 1]
           more == [P[y] EXCEPT !.types = <<T.class>> \o @]
<1>0. /\ x \in (1..(in + out + 1)) \X (1..(Len(s) + 1))
      /\ x[1] \in 1..(in + out + 1) /\ x[2] \in 1..(Len(s) + 1)
  <2>1. x \in (1..(in + out + 1)) \X (1..(Len(s) + 1))
    BY PlacesType
  <2> QED
    BY <2>1
<1>1. P[x] = ParametersBody(s, in, out, P, x)
  BY <1>0, ParametersStep
<1>2. Invalid.ok = FALSE
  BY DEF Invalid
<1>3. \/ P[x] = Invalid
      \/ /\ ~ (x[1] > in + out) /\ T.end # 0
         /\ \/ At(s, sep) = ")" /\ P[x] = one
            \/ At(s, sep) = "," /\ P[x] = more
  BY <1>1, Zenon DEF ParametersBody
<1>4. /\ ~ (x[1] > in + out) /\ T.end # 0
      /\ \/ At(s, sep) = ")" /\ P[x] = one
         \/ At(s, sep) = "," /\ P[x] = more
  <2>1. P[x] # Invalid
    BY <1>2
  <2> QED
    BY <1>3, <2>1, Zenon
<1>g. ~ (x[1] > in + out) /\ T.end # 0
  BY <1>4, Zenon
<1>5. T.class \in NamedClasses
  <2>1. T = DataType(s, x[2], IsOutput(x[1], in, out))
    BY DEF TypeAt
  <2> QED
    BY <1>0, <1>g, <2>1, DataTypeType
<1>6. x[1] <= in + out
  BY <1>0, <1>g
<1>7. CASE At(s, sep) = ")" /\ P[x] = one
  <2>1. P[x].types = <<T.class>> /\ P[x].end = sep + 1
    <3> HIDE DEF T, sep, P
    <3> QED
      BY <1>7
  <2>2. Sees(s, sep, ")")
    BY <1>7, Zenon DEF Sees
  <2> QED
    BY <1>4, <1>5, <1>6, <2>1, <2>2, Zenon
<1>8. CASE At(s, sep) = "," /\ P[x] = more
  <2>1. Sees(s, sep, ",")
    BY <1>8, Zenon DEF Sees
  <2>2. y \in (1..(in + out + 1)) \X (1..(Len(s) + 1))
    <3>1. T.end \in 1..(Len(s) + 1)
      <4>1. T = DataType(s, x[2], IsOutput(x[1], in, out))
        BY DEF TypeAt
      <4> QED
        BY <1>0, <1>g, <4>1, DataTypeType
    <3>2. Len(s) \in Nat /\ sep \in 1..Len(s)
      <4>1. Len(s) \in Nat
        OBVIOUS
      <4> QED
        BY <1>8, <4>1, AtEnd
    <3>3. sep + 1 \in 1..(Len(s) + 1)
      <4> HIDE DEF sep
      <4> QED
        BY <3>2
    <3>4. Skip(s, sep + 1) \in (sep + 1)..(Len(s) + 1)
      BY <3>3, SkipType, Zenon
    <3>5. Skip(s, sep + 1) \in 1..(Len(s) + 1)
      <4> HIDE DEF sep
      <4> QED
        BY <3>2, <3>3, <3>4
    <3>6. x[1] + 1 \in 1..(in + out + 1)
      BY <1>0, <1>6
    <3> QED
      BY <3>5, <3>6 DEF Following
  <2>3. P[y] \in [ok : BOOLEAN, types : Seq(NamedClasses), end : Nat]
    BY <2>2, ParametersType
  <2>4. P[y].ok /\ P[x].types = <<T.class>> \o P[y].types /\ P[x].end = P[y].end
    <3>1. P[x].ok
      OBVIOUS
    <3> DEFINE r == P[y]
               c == T.class
    <3>2. P[x] = [r EXCEPT !.types = <<c>> \o @]
      BY <1>8
    <3>3. r \in [ok : BOOLEAN, types : Seq(NamedClasses), end : Nat]
      BY <2>3
    <3> HIDE DEF r, c, P
    <3>4. r.ok /\ P[x].types = <<c>> \o r.types /\ P[x].end = r.end
      BY <3>1, <3>2, <3>3
    <3> QED
      BY <3>4 DEF r, c, P
  <2> QED
    BY <1>4, <1>5, <1>6, <2>1, <2>4, Zenon
<1> QED
  BY <1>4, <1>7, <1>8

\* The classes of a list from the n-th on.
From(classes, n) == SubSeq(classes, n, Len(classes))

LEMMA FromType ==
  ASSUME NEW C, NEW classes \in Seq(C), NEW n \in 1..(Len(classes) + 1)
  PROVE  /\ From(classes, n) \in Seq(C) /\ Len(From(classes, n)) = Len(classes) - n + 1
         /\ \A i \in 1..(Len(classes) - n + 1) : From(classes, n)[i] = classes[n + i - 1]
<1>1. n \in Int /\ Len(classes) \in Int /\ \A i \in n..Len(classes) : classes[i] \in C
  OBVIOUS
<1>2. /\ From(classes, n) \in Seq(C)
      /\ Len(From(classes, n)) = IF n <= Len(classes) THEN Len(classes) - n + 1 ELSE 0
      /\ \A i \in 1..(Len(classes) - n + 1) : From(classes, n)[i] = classes[n + i - 1]
  BY <1>1, SubSeqProperties DEF From
<1>3. Len(classes) - n + 1 = IF n <= Len(classes) THEN Len(classes) - n + 1 ELSE 0
  OBVIOUS
<1> QED
  BY <1>2, <1>3

LEMMA FromOne ==
  ASSUME NEW C, NEW classes \in Seq(C), NEW n \in 1..(Len(classes) + 1), NEW c,
         From(classes, n) = <<c>>
  PROVE  n = Len(classes) /\ classes[n] = c
<1>1. Len(From(classes, n)) = Len(classes) - n + 1
  BY FromType
<1>2. Len(<<c>>) = 1 /\ <<c>>[1] = c
  OBVIOUS
<1>3. n = Len(classes)
  <2>1. Len(classes) - n + 1 = 1 /\ Len(classes) \in Nat
    BY <1>1, <1>2
  <2> QED
    BY <2>1
<1>4. From(classes, n)[1] = classes[n]
  <2>1. 1 \in 1..(Len(classes) - n + 1) /\ n + 1 - 1 = n
    BY <1>3
  <2>2. From(classes, n)[1] = classes[n + 1 - 1]
    BY <2>1, FromType
  <2> QED
    BY <2>1, <2>2
<1> QED
  BY <1>2, <1>3, <1>4

\* A class and more classes.
Before(c, rest) == <<c>> \o rest

LEMMA FromMore ==
  ASSUME NEW C, NEW classes \in Seq(C), NEW n \in 1..(Len(classes) + 1), NEW c \in C,
         NEW rest \in Seq(C), rest # <<>>,
         From(classes, n) = Before(c, rest)
  PROVE  /\ n \in 1..Len(classes) /\ n # Len(classes)
         /\ classes[n] = c /\ From(classes, n + 1) = rest
<1> DEFINE all == Before(c, rest)
           L == Len(classes)
<1>0. L \in Nat
  OBVIOUS
<1>1. From(classes, n) \in Seq(C) /\ Len(From(classes, n)) = L - n + 1
  BY FromType
<1>2. /\ Len(all) = 1 + Len(rest)
      /\ \A i \in 1..(1 + Len(rest)) : all[i] = IF i <= 1 THEN c ELSE rest[i - 1]
  <2>1. <<c>> \in Seq(C) /\ Len(<<c>>) = 1 /\ <<c>>[1] = c
    OBVIOUS
  <2>2. /\ Len(all) = Len(<<c>>) + Len(rest)
        /\ \A i \in 1..(Len(<<c>>) + Len(rest)) :
             all[i] = IF i <= Len(<<c>>) THEN <<c>>[i] ELSE rest[i - Len(<<c>>)]
    BY <2>1, ConcatProperties DEF Before
  <2> HIDE DEF all
  <2> QED
    BY <2>1, <2>2
<1>3. Len(rest) \in Nat \ {0}
  BY EmptySeq
<1>4. L - n + 1 = 1 + Len(rest)
  <2> HIDE DEF all, L
  <2> QED
    BY <1>1, <1>2 DEF all
<1>5. n \in 1..L /\ n # L /\ n + 1 \in 1..L
  BY <1>0, <1>3, <1>4
<1>6. \A i \in 1..(L - n + 1) : From(classes, n)[i] = classes[n + i - 1]
  BY <1>5 DEF From
<1>7. classes[n] = c
  <2>1. From(classes, n)[1] = classes[n]
    BY <1>5, <1>6
  <2>2. all[1] = c
    BY <1>2, <1>3
  <2> QED
    BY <2>1, <2>2
<1>8. From(classes, n + 1) \in Seq(C) /\ Len(From(classes, n + 1)) = L - n
  BY <1>5 DEF From
<1>9. ASSUME NEW i \in 1..(L - n) PROVE From(classes, n + 1)[i] = rest[i]
  <2>1. From(classes, n + 1)[i] = classes[n + i]
    BY <1>5 DEF From
  <2>2. i + 1 \in 1..(1 + Len(rest)) /\ i + 1 \in 1..(L - n + 1) /\ ~ (i + 1 <= 1)
    BY <1>0, <1>4, <1>5
  <2>3. all[i + 1] = rest[i]
    <3> HIDE DEF all
    <3> QED
      BY <1>2, <2>2
  <2>4. From(classes, n)[i + 1] = classes[n + i]
    BY <1>6, <2>2
  <2> HIDE DEF all
  <2> QED
    BY <2>1, <2>3, <2>4 DEF all
<1>10. From(classes, n + 1) = rest
  <2>1. Len(rest) = L - n
    BY <1>0, <1>3, <1>4
  <2> HIDE DEF L
  <2> QED
    BY <1>8, <1>9, <2>1, SeqEqual
<1> QED
  BY <1>5, <1>7, <1>10

LEMMA ReadsOnTo ==
  ASSUME NEW s \in Seq(Tokens), NEW p, NEW q, NEW r, NEW v, NEW l \in Seq(Tokens), NEW c,
         <<c>> \in Seq(Tokens), Reads(s, p, q, v), Reads(s, q, r, l \o <<c>>)
  PROVE  Reads(s, p, r, (v \o l) \o <<c>>)
<1>1. Reads(s, p, r, v \o (l \o <<c>>))
  BY ReadsOn
<1> DEFINE d == <<c>>
<1>2. v \in Seq(Tokens) /\ d \in Seq(Tokens)
  BY ReadsType
<1> HIDE DEF d
<1>3. (v \o l) \o d = v \o (l \o d)
  BY <1>2, ConcatAssociative
<1> QED
  BY <1>1, <1>3 DEF d

\* From a position on, the loop reads a list and the parenthesis.
ReadsList(s, in, out, x) ==
  LET r == Parameters(s, in, out)[x] IN
  r.ok =>
    /\ r.types \in Seq(NamedClasses) /\ r.types # <<>>
    /\ \A classes \in Seq(NamedClasses) :
         x[1] <= Len(classes) + 1 /\ From(classes, x[1]) = r.types =>
           \E l \in Lists(classes, in)[x[1]] : Reads(s, x[2], r.end, l \o <<")">>)

\* The parameter before a separator.
LEMMA TypeReads ==
  ASSUME NEW s \in Seq(Tokens), NEW in \in Nat, NEW out \in Nat, NEW x \in Places(s, in, out),
         TypeAt(s, in, out, x).end # 0, x[1] <= in + out,
         NEW c, Sees(s, SeparatorAt(s, in, out, x), c)
  PROVE  \E w \in Spellings(TypeAt(s, in, out, x).class, x[1] > in) :
           /\ Reads(s, x[2], SeparatorAt(s, in, out, x) + 1, w \o <<c>>)
           /\ Reads(s, x[2], Skip(s, SeparatorAt(s, in, out, x) + 1), w \o <<c>>)
<1> DEFINE T == TypeAt(s, in, out, x)
<1>1. x[1] \in 1..(in + out + 1) /\ x[2] \in 1..InfoStart(s)
  BY PlacesType
<1>2. IsOutput(x[1], in, out) = (x[1] > in)
  BY <1>1 DEF IsOutput
<1>3. T = DataType(s, x[2], x[1] > in)
  BY <1>2 DEF TypeAt
<1>4. PICK w \in Spellings(T.class, x[1] > in) : Reads(s, x[2], T.end, w)
  BY <1>1, <1>3, DataTypeReads
<1>5. SeparatorAt(s, in, out, x) = Skip(s, T.end)
  BY DEF SeparatorAt
<1> HIDE DEF T
<1>6. /\ Reads(s, x[2], SeparatorAt(s, in, out, x) + 1, w \o <<c>>)
      /\ Reads(s, x[2], Skip(s, SeparatorAt(s, in, out, x) + 1), w \o <<c>>)
  BY <1>4, <1>5, ReadsSeparator
<1> QED
  BY <1>6 DEF T

LEMMA ParametersRead ==
  ASSUME NEW s \in Seq(Tokens), NEW in \in Nat, NEW out \in Nat, NEW x \in Places(s, in, out)
  PROVE  ReadsList(s, in, out, x)
<1> DEFINE D == Places(s, in, out)
           P == Parameters(s, in, out)
           S == {z \in D : ReadsList(s, in, out, z)}
           rank == [z \in D |-> in + out + 1 - z[1]]
<1>1. in + out \in Nat /\ \A z \in D : z[1] \in 1..(in + out + 1) /\ z[2] \in 1..InfoStart(s)
  BY PlacesType
<1>2. rank \in [D -> 0..(in + out)]
  <2> HIDE DEF D
  <2> QED
    BY <1>1
<1>3. \A y, z \in D : rank[y] < rank[z] <=> z[1] < y[1]
  <2> HIDE DEF D
  <2> QED
    BY <1>1
<1> HIDE DEF rank, D
<1>4. ASSUME NEW z \in D, \A y \in D : rank[y] < rank[z] => y \in S
      PROVE  ReadsList(s, in, out, z)
  <2> DEFINE T   == TypeAt(s, in, out, z)
             sep == SeparatorAt(s, in, out, z)
             y   == Following(s, in, out, z)
             n   == z[1]
             p   == z[2]
  <2>0. z \in Places(s, in, out) /\ n \in 1..(in + out + 1) /\ p \in 1..InfoStart(s)
    BY <1>1 DEF D
  <2> SUFFICES ASSUME P[z].ok
               PROVE  /\ P[z].types \in Seq(NamedClasses) /\ P[z].types # <<>>
                      /\ \A classes \in Seq(NamedClasses) :
                           n <= Len(classes) + 1 /\ From(classes, n) = P[z].types =>
                             \E l \in Lists(classes, in)[n] : Reads(s, p, P[z].end, l \o <<")">>)
    BY DEF ReadsList
  <2>1. /\ n <= in + out /\ T.end # 0 /\ T.class \in NamedClasses
        /\ \/ Sees(s, sep, ")") /\ P[z].types = <<T.class>> /\ P[z].end = sep + 1
           \/ /\ Sees(s, sep, ",") /\ P[y].ok
              /\ P[z].types = <<T.class>> \o P[y].types /\ P[z].end = P[y].end
    BY <2>0, ParametersCases
  <2>2. ASSUME NEW c, Sees(s, sep, c)
        PROVE  \E w \in Spellings(T.class, n > in) :
                 Reads(s, p, sep + 1, w \o <<c>>) /\ Reads(s, p, Skip(s, sep + 1), w \o <<c>>)
    BY <2>0, <2>1, <2>2, TypeReads
  <2>3. y[1] = n + 1 /\ y[2] = Skip(s, sep + 1)
    BY DEF Following
  <2>6. n <= in + out /\ T.class \in NamedClasses
    BY <2>1, Zenon
  <2> HIDE DEF T, sep, y, P
  <2>4. CASE Sees(s, sep, ")") /\ P[z].types = <<T.class>> /\ P[z].end = sep + 1
    <3>1. PICK w \in Spellings(T.class, n > in) : Reads(s, p, sep + 1, w \o <<")">>)
      BY <2>2, <2>4
    <3>2. P[z].types \in Seq(NamedClasses) /\ P[z].types # <<>>
      <4>1. <<T.class>> \in Seq(NamedClasses) /\ <<T.class>> # <<>>
        BY <2>1, OneToken
      <4> QED
        BY <2>4, <4>1
    <3>3. ASSUME NEW classes \in Seq(NamedClasses), n <= Len(classes) + 1,
                 From(classes, n) = P[z].types
          PROVE  \E l \in Lists(classes, in)[n] : Reads(s, p, P[z].end, l \o <<")">>)
      <4>0. n \in 1..(Len(classes) + 1)
        BY <2>0, <3>3
      <4>1. n = Len(classes) /\ classes[n] = T.class
        BY <2>4, <3>3, <4>0, FromOne
      <4>2. n # 0
        BY <2>0
      <4>3. Lists(classes, in)[n] = Spellings(T.class, n > in)
        BY <4>1, <4>2, ListsLast
      <4> QED
        BY <2>4, <3>1, <4>3
    <3> QED
      BY <3>2, <3>3
  <2>5. CASE /\ Sees(s, sep, ",") /\ P[y].ok
             /\ P[z].types = <<T.class>> \o P[y].types /\ P[z].end = P[y].end
    <3>1. PICK w \in Spellings(T.class, n > in) : Reads(s, p, y[2], w \o <<",">>)
      BY <2>2, <2>3, <2>5
    <3>2. y \in D /\ rank[y] < rank[z]
      <4>1. y[2] \in 1..InfoStart(s)
        BY <3>1, ReadsType
      <4>2. n + 1 \in 1..(in + out + 1) /\ n < n + 1
        BY <2>0, <2>6
      <4>3. y = <<y[1], y[2]>>
        BY DEF y, Following
      <4>4. y \in D
        BY <2>3, <4>1, <4>2, <4>3 DEF D, Places
      <4> QED
        BY <1>3, <2>3, <4>2, <4>4
    <3>3. ReadsList(s, in, out, y)
      BY <1>4, <3>2
    <3>4. /\ P[y].types \in Seq(NamedClasses) /\ P[y].types # <<>>
          /\ \A classes \in Seq(NamedClasses) :
               y[1] <= Len(classes) + 1 /\ From(classes, y[1]) = P[y].types =>
                 \E l \in Lists(classes, in)[y[1]] : Reads(s, y[2], P[y].end, l \o <<")">>)
      BY <2>5, <3>3 DEF ReadsList, P
    <3>5. P[z].types \in Seq(NamedClasses) /\ P[z].types # <<>>
      <4>1. <<T.class>> \in Seq(NamedClasses) /\ <<T.class>> # <<>>
        BY <2>1, OneToken
      <4>2. /\ <<T.class>> \o P[y].types \in Seq(NamedClasses)
            /\ <<T.class>> \o P[y].types # <<>>
        BY <3>4, <4>1, ConcatProperties, ConcatEqualIffEmpty
      <4> QED
        BY <2>5, <4>2
    <3>6. ASSUME NEW classes \in Seq(NamedClasses), n <= Len(classes) + 1,
                 From(classes, n) = P[z].types
          PROVE  \E l \in Lists(classes, in)[n] : Reads(s, p, P[z].end, l \o <<")">>)
      <4>0. n \in 1..(Len(classes) + 1)
        BY <2>0, <3>6
      <4>1. /\ n \in 1..Len(classes) /\ n # Len(classes)
            /\ classes[n] = T.class /\ From(classes, n + 1) = P[y].types
        <5>1. From(classes, n) = <<T.class>> \o P[y].types
          BY <2>5, <3>6
        <5> DEFINE rest == P[y].types
                   c == T.class
        <5>2. rest \in Seq(NamedClasses) /\ rest # <<>> /\ c \in NamedClasses
          BY <2>6, <3>4, Zenon
        <5> HIDE DEF rest, c
        <5>3. From(classes, n) = Before(c, rest)
          BY <5>1 DEF rest, c, Before
        <5>4. /\ n \in 1..Len(classes) /\ n # Len(classes)
              /\ classes[n] = c /\ From(classes, n + 1) = rest
          BY <4>0, <5>2, <5>3, FromMore
        <5> QED
          BY <5>4 DEF rest, c
      <4>2. PICK l \in Lists(classes, in)[n + 1] : Reads(s, y[2], P[y].end, l \o <<")">>)
        <5>1. y[1] = n + 1 /\ n + 1 <= Len(classes) + 1
          BY <2>3, <4>1
        <5> QED
          BY <3>4, <4>1, <5>1
      <4>3. Lists(classes, in)[n] = Joined(Spellings(T.class, n > in), <<",">>, Lists(classes, in)[n + 1])
        BY <4>1, ListsMore, ZenonT(60)
      <4>4. (w \o <<",">>) \o l \in Lists(classes, in)[n]
        <5> DEFINE comma == <<",">>
                   W == Spellings(T.class, n > in)
                   others == Lists(classes, in)[n + 1]
        <5> HIDE DEF comma, W, others
        <5>1. w \in W /\ l \in others /\ Lists(classes, in)[n] = Joined(W, comma, others)
          BY <3>1, <4>2, <4>3 DEF comma, W, others
        <5>2. (w \o comma) \o l \in Joined(W, comma, others)
          BY <5>1, JoinedHas
        <5> QED
          BY <5>1, <5>2 DEF comma
      <4>5. Reads(s, p, P[y].end, ((w \o <<",">>) \o l) \o <<")">>)
        <5>1. l \in Seq(Tokens)
          <6>1. n + 1 \in 1..(Len(classes) + 1)
            BY <4>1
          <6> QED
            BY <6>1, ListsFacts
        <5>2. <<")">> \in Seq(Tokens)
          BY TokensDiffer, OneToken
        <5> QED
          BY <3>1, <4>2, <5>1, <5>2, ReadsOnTo, Zenon
      <4> QED
        BY <2>5, <4>4, <4>5
    <3> QED
      BY <3>5, <3>6
  <2> QED
    BY <2>1, <2>4, <2>5
<1>5. D \subseteq S
  <2>1. \A z \in D : (\A y \in D : rank[y] < rank[z] => y \in S) => z \in S
    BY <1>4
  <2> HIDE DEF S
  <2> QED
    BY <1>1, <1>2, <2>1, RankInduction, SMTT(60)
<1> QED
  BY <1>5 DEF D

-----------------------------------------------------------------------------
(* Names without the blanks around them.                                   *)

LEMMA GreatestExists ==
  ASSUME NEW n \in Nat, NEW S \in SUBSET (1..n), S # {}
  PROVE  \E i \in S : \A j \in S : j <= i
<1> DEFINE R == {n - i : i \in S}
<1>1. R \in SUBSET Nat /\ R # {}
  <2>1. \A i \in S : n - i \in Nat
    OBVIOUS
  <2> QED
    BY <2>1, Zenon
<1>2. PICK k \in R : \A j \in R : k <= j
  <2> HIDE DEF R
  <2> QED
    BY <1>1, LeastExists
<1>3. PICK i \in S : k = n - i
  BY <1>2
<1>4. ASSUME NEW j \in S PROVE j <= i
  <2>1. n - j \in R
    OBVIOUS
  <2>2. k <= n - j
    <3> HIDE DEF R
    <3> QED
      BY <1>2, <2>1
  <2>3. i \in 1..n /\ j \in 1..n
    OBVIOUS
  <2> QED
    BY <1>3, <2>2, <2>3
<1> QED
  BY <1>4

\* The positions of the tokens of a text that are no blanks.
Solids(t) == {i \in DOMAIN t : t[i] # " "}
Greatest(S) == CHOOSE i \in S : \A j \in S : j <= i

LEMMA SolidsFacts ==
  ASSUME NEW T, NEW t \in Seq(T), Solids(t) # {}
  PROVE  LET f == Least(Solids(t))
             g == Greatest(Solids(t))
         IN
         /\ f \in Solids(t) /\ g \in Solids(t)
         /\ f \in 1..Len(t) /\ g \in f..Len(t)
         /\ Blank(t, 1, f) /\ Blank(t, g + 1, Len(t) + 1)
<1> DEFINE S == Solids(t)
           f == Least(S)
           g == Greatest(S)
           L == Len(t)
<1>0. L \in Nat /\ DOMAIN t = 1..L /\ S \in SUBSET (1..L) /\ S \in SUBSET Nat
  <2>1. L \in Nat /\ DOMAIN t = 1..L /\ 1..L \subseteq Nat
    OBVIOUS
  <2>2. S \subseteq DOMAIN t
    BY Zenon DEF Solids
  <2> HIDE DEF S, L
  <2> QED
    BY <2>1, <2>2
<1>1. \A i \in 1..L : i \notin S => t[i] = " "
  BY <1>0, Zenon DEF Solids
<1> HIDE DEF S, L
<1>2. f \in S /\ \A j \in S : f <= j
  BY <1>0, LeastExists DEF Least, S
<1>3. g \in S /\ \A j \in S : j <= g
  BY <1>0, GreatestExists DEF Greatest, S
<1> HIDE DEF f, g
<1>4. f \in 1..L /\ g \in f..L
  BY <1>0, <1>2, <1>3
<1>5. ASSUME NEW r \in 1..(f - 1) PROVE r \in 1..L /\ r \notin S
  BY <1>0, <1>2, <1>4, <1>5
<1>6. ASSUME NEW r \in (g + 1)..((L + 1) - 1) PROVE r \in 1..L /\ r \notin S
  BY <1>0, <1>3, <1>4, <1>6
<1>7. Blank(t, 1, f)
  BY <1>1, <1>5, Zenon DEF Blank
<1>8. Blank(t, g + 1, L + 1)
  BY <1>1, <1>6, Zenon DEF Blank
<1> QED
  BY <1>2, <1>3, <1>4, <1>7, <1>8 DEF S, f, g, L

LEMMA TrimNonEmpty ==
  ASSUME NEW t, Solids(t) # {}
  PROVE  Trim(t) = SubSeq(t, Least(Solids(t)), Greatest(Solids(t)))
BY Zenon DEF Trim, Solids, Greatest

LEMMA TrimEmpty ==
  ASSUME NEW t, Solids(t) = {}
  PROVE  Trim(t) = <<>>
BY Zenon DEF Trim, Solids

LEMMA TrimIs ==
  ASSUME NEW T, NEW t \in Seq(T), NEW f \in 1..Len(t), NEW g \in f..Len(t),
         Blank(t, 1, f), Blank(t, g + 1, Len(t) + 1),
         f \in Solids(t), g \in Solids(t)
  PROVE  Trim(t) = SubSeq(t, f, g)
<1> DEFINE S == Solids(t)
           L == Len(t)
<1>0. L \in Nat /\ f \in 1..L /\ g \in f..L /\ S \in SUBSET (1..L)
  <2>1. L \in Nat /\ DOMAIN t = 1..L
    OBVIOUS
  <2>2. S \subseteq DOMAIN t
    BY Zenon DEF Solids
  <2> HIDE DEF S, L
  <2> QED
    BY <2>1, <2>2 DEF L
<1>1. \A i \in 1..L : t[i] = " " => i \notin S
  BY Zenon DEF Solids
<1>2. Least(S) \in S /\ Greatest(S) \in S /\ Least(S) \in 1..L /\ Greatest(S) \in 1..L
  <2>1. S # {}
    OBVIOUS
  <2>2. Least(S) \in S /\ Greatest(S) \in S
    BY <2>1, SolidsFacts, Zenon
  <2> HIDE DEF S
  <2> QED
    BY <1>0, <2>2
<1>3. Blank(t, 1, Least(S)) /\ Blank(t, Greatest(S) + 1, L + 1)
  <2>1. S # {}
    OBVIOUS
  <2> QED
    BY <2>1, SolidsFacts, Zenon
<1> DEFINE a == Least(S)
           b == Greatest(S)
<1> HIDE DEF a, b
<1>4. \A i, j \in 1..L : Blank(t, 1, i) /\ j \in S => i <= j
  <2> SUFFICES ASSUME NEW i \in 1..L, NEW j \in 1..L, Blank(t, 1, i), j \in S, ~ (i <= j)
               PROVE  FALSE
    BY Zenon
  <2>1. j \in 1..(i - 1)
    BY <1>0
  <2>2. t[j] = " "
    BY <2>1, Zenon DEF Blank
  <2> QED
    BY <1>1, <2>2, Zenon
<1>5. \A i, j \in 1..L : Blank(t, i + 1, L + 1) /\ j \in S => j <= i
  <2> SUFFICES ASSUME NEW i \in 1..L, NEW j \in 1..L, Blank(t, i + 1, L + 1), j \in S, ~ (j <= i)
               PROVE  FALSE
    BY Zenon
  <2>1. j \in (i + 1)..((L + 1) - 1)
    BY <1>0
  <2>2. t[j] = " "
    BY <2>1, Zenon DEF Blank
  <2> QED
    BY <1>1, <2>2, Zenon
<1> HIDE DEF S, L
<1>6. g \in 1..L
  BY <1>0
<1>7. a = f
  <2>1. a <= f /\ f <= a
    BY <1>0, <1>2, <1>3, <1>4 DEF a, S, L
  <2> QED
    BY <1>0, <1>2, <2>1 DEF a
<1>8. b = g
  <2>1. b <= g /\ g <= b
    BY <1>0, <1>2, <1>3, <1>5, <1>6 DEF b, S, L
  <2> QED
    BY <1>0, <1>2, <1>6, <2>1 DEF b
<1>9. Trim(t) = SubSeq(t, a, b)
  <2>1. Solids(t) # {}
    OBVIOUS
  <2> QED
    BY <2>1, TrimNonEmpty, Zenon DEF a, b, S
<1> QED
  BY <1>7, <1>8, <1>9

\* A part of a part.
LEMMA PartOfPart ==
  ASSUME NEW T, NEW s \in Seq(T), NEW a \in 1..(Len(s) + 1), NEW b \in (a - 1)..Len(s),
         NEW f \in 1..(b - a + 1), NEW g \in f..(b - a + 1)
  PROVE  /\ SubSeq(s, a, b) \in Seq(T) /\ Len(SubSeq(s, a, b)) = b - a + 1
         /\ \A i \in 1..(b - a + 1) : SubSeq(s, a, b)[i] = s[a + i - 1]
         /\ SubSeq(SubSeq(s, a, b), f, g) = SubSeq(s, a + f - 1, a + g - 1)
<1> DEFINE t == SubSeq(s, a, b)
           u == SubSeq(s, a + f - 1, a + g - 1)
           v == SubSeq(t, f, g)
<1>0. a \in Int /\ b \in Int /\ f \in Int /\ g \in Int /\ Len(s) \in Nat
  OBVIOUS
<1>1. t \in Seq(T) /\ Len(t) = b - a + 1 /\ \A i \in 1..(b - a + 1) : t[i] = s[a + i - 1]
  <2>1. \A i \in a..b : s[i] \in T
    BY <1>0
  <2> QED
    BY <1>0, <2>1, SubSeqProperties
<1>2. u \in Seq(T) /\ Len(u) = g - f + 1 /\ \A i \in 1..(g - f + 1) : u[i] = s[(a + f - 1) + i - 1]
  <2>1. \A i \in (a + f - 1)..(a + g - 1) : s[i] \in T
    BY <1>0
  <2>2. a + f - 1 \in Int /\ a + g - 1 \in Int /\ a + f - 1 <= a + g - 1
        /\ (a + g - 1) - (a + f - 1) + 1 = g - f + 1
    BY <1>0
  <2> QED
    BY <2>1, <2>2, SubSeqProperties
<1> HIDE DEF t, u
<1>3. v \in Seq(T) /\ Len(v) = g - f + 1 /\ \A i \in 1..(g - f + 1) : v[i] = t[f + i - 1]
  <2>1. \A i \in f..g : t[i] \in T
    BY <1>0, <1>1
  <2> QED
    BY <1>0, <2>1, SubSeqProperties
<1> HIDE DEF v
<1>4. ASSUME NEW i \in 1..(g - f + 1) PROVE v[i] = u[i]
  <2>1. f + i - 1 \in 1..(b - a + 1) /\ a + (f + i - 1) - 1 = (a + f - 1) + i - 1
    BY <1>0
  <2>2. t[f + i - 1] = s[a + (f + i - 1) - 1]
    BY <1>1, <2>1
  <2> QED
    BY <1>2, <1>3, <2>1, <2>2
<1>5. v = u
  BY <1>2, <1>3, <1>4, SeqEqual
<1> QED
  BY <1>1, <1>5 DEF t, u, v

\* The part of a text between two positions, and what String.trim leaves of it.
LEMMA TrimmedFacts ==
  ASSUME NEW T, NEW s \in Seq(T), NEW a \in 1..(Len(s) + 1), NEW b \in (a - 1)..Len(s),
         Trim(SubSeq(s, a, b)) # <<>>
  PROVE  \E f \in a..b : \E g \in f..b :
           /\ Trim(SubSeq(s, a, b)) = SubSeq(s, f, g)
           /\ Blank(s, a, f) /\ Blank(s, g + 1, b + 1)
<1> DEFINE t == SubSeq(s, a, b)
           L == b - a + 1
<1>0. a \in Int /\ b \in Int /\ Len(s) \in Nat /\ L \in Nat
  OBVIOUS
<1>1. t \in Seq(T) /\ Len(t) = L /\ \A i \in 1..L : t[i] = s[a + i - 1]
  <2>1. \A i \in a..b : s[i] \in T
    BY <1>0
  <2>2. a <= b \/ b = a - 1
    BY <1>0
  <2> QED
    BY <1>0, <2>1, <2>2, SubSeqProperties
<1>2. Solids(t) # {}
  BY TrimEmpty
<1> DEFINE f == Least(Solids(t))
           g == Greatest(Solids(t))
<1>3. Trim(t) = SubSeq(t, f, g)
  BY <1>2, TrimNonEmpty
<1>4. f \in 1..Len(t) /\ g \in f..Len(t) /\ Blank(t, 1, f) /\ Blank(t, g + 1, Len(t) + 1)
  BY <1>1, <1>2, SolidsFacts, Zenon
<1> HIDE DEF f, g
<1>5. f \in 1..L /\ g \in f..L /\ Blank(t, 1, f) /\ Blank(t, g + 1, L + 1)
  BY <1>1, <1>4
<1>6. SubSeq(t, f, g) = SubSeq(s, a + f - 1, a + g - 1)
  BY <1>5, PartOfPart
<1>7. a + f - 1 \in a..b /\ a + g - 1 \in (a + f - 1)..b
  BY <1>0, <1>5
<1>8. Blank(s, a, a + f - 1)
  <2>1. ASSUME NEW r \in a..((a + f - 1) - 1) PROVE s[r] = " "
    <3>1. r - a + 1 \in 1..(f - 1) /\ r - a + 1 \in 1..L /\ a + (r - a + 1) - 1 = r
      BY <1>0, <1>5
    <3>2. t[r - a + 1] = " "
      BY <1>5, <3>1, Zenon DEF Blank
    <3>3. t[r - a + 1] = s[r]
      BY <1>1, <3>1
    <3> QED
      BY <3>2, <3>3
  <2> QED
    BY <2>1, Zenon DEF Blank
<1>9. Blank(s, (a + g - 1) + 1, b + 1)
  <2>1. ASSUME NEW r \in ((a + g - 1) + 1)..((b + 1) - 1) PROVE s[r] = " "
    <3>1. r - a + 1 \in (g + 1)..((L + 1) - 1) /\ r - a + 1 \in 1..L /\ a + (r - a + 1) - 1 = r
      BY <1>0, <1>5
    <3>2. t[r - a + 1] = " "
      BY <1>5, <3>1, Zenon DEF Blank
    <3>3. t[r - a + 1] = s[r]
      BY <1>1, <3>1
    <3> QED
      BY <3>2, <3>3
  <2> QED
    BY <2>1, Zenon DEF Blank
<1>10. Trim(t) = SubSeq(s, a + f - 1, a + g - 1)
  BY <1>3, <1>6
<1> HIDE DEF t
<1>11. \E x \in a..b : \E y \in x..b :
         Trim(t) = SubSeq(s, x, y) /\ Blank(s, a, x) /\ Blank(s, y + 1, b + 1)
  BY <1>7, <1>8, <1>9, <1>10
<1> QED
  BY <1>11 DEF t

\* A name that was trimmed is what was read.
LEMMA TrimmedReads ==
  ASSUME NEW s \in Seq(Tokens), NEW a \in 1..(Len(s) + 1), NEW b \in (a - 1)..Len(s),
         NEW w \in Seq(Identifiers \cup {"."}), w # <<>>, Trim(SubSeq(s, a, b)) = w
  PROVE  /\ NoInfo(s, a, b + 1)
         /\ b + 1 <= InfoStart(s) => Reads(s, a, b + 1, w)
<1>0. a \in Int /\ b \in Int /\ Len(s) \in Nat /\ a \in 1..(b + 1)
  OBVIOUS
<1>e. \E f \in a..b : \E g \in f..b :
        w = SubSeq(s, f, g) /\ Blank(s, a, f) /\ Blank(s, g + 1, b + 1)
  BY TrimmedFacts, Zenon
<1>f. PICK f \in a..b :
        \E g \in f..b : w = SubSeq(s, f, g) /\ Blank(s, a, f) /\ Blank(s, g + 1, b + 1)
  BY <1>e
<1>1. PICK g \in f..b : w = SubSeq(s, f, g) /\ Blank(s, a, f) /\ Blank(s, g + 1, b + 1)
  BY <1>f
<1>2. ASSUME NEW r \in f..g PROVE s[r] \in Identifiers \cup {"."}
  <2>1. r - f + 1 \in 1..(g - f + 1) /\ f + (r - f + 1) - 1 = r
    OBVIOUS
  <2>2. Len(w) = g - f + 1 /\ w[r - f + 1] = s[r]
    <3>1. \A i \in f..g : s[i] \in Tokens
      BY <1>0
    <3> QED
      BY <1>1, <2>1, <3>1, SubSeqProperties
  <2> QED
    BY <2>1, <2>2
<1>3. ASSUME NEW r \in a..((b + 1) - 1) PROVE s[r] # "!"
  <2>1. r \in a..(f - 1) \/ r \in f..g \/ r \in (g + 1)..((b + 1) - 1)
    BY <1>0
  <2>2. ASSUME s[r] = " " PROVE s[r] # "!"
    BY <2>2
  <2>3. ASSUME s[r] \in Identifiers \cup {"."} PROVE s[r] # "!"
    BY <2>3, TokensDiffer, Zenon
  <2> QED
    BY <1>1, <1>2, <2>1, <2>2, <2>3, Zenon DEF Blank
<1>4. NoInfo(s, a, b + 1)
  BY <1>3, Zenon DEF NoInfo
<1>5. ASSUME b + 1 <= InfoStart(s) PROVE Reads(s, a, b + 1, w)
  <2> DEFINE N == InfoStart(s)
             C(r) == Compact(s)[r]
  <2>0. N \in Nat /\ b + 1 <= N
    BY <1>5, InfoStartType
  <2>1. f \in 1..N /\ a \in 1..f /\ g + 1 \in 1..N /\ f \in 1..(g + 1) /\ b + 1 \in 1..N
        /\ g + 1 \in 1..(b + 1) /\ a \in 1..N /\ b + 1 \in a..N
    <3> HIDE DEF N
    <3> QED
      BY <1>0, <2>0
  <2>2. C(a) = C(f)
    BY <1>1, <2>1, BlanksAreNothing, Zenon
  <2>3. C(g + 1) = C(b + 1)
    BY <1>1, <2>1, BlanksAreNothing, Zenon
  <2>4. Dense(s, f, g + 1)
    <3>1. ASSUME NEW r \in f..((g + 1) - 1) PROVE s[r] # " "
      <4>1. r \in f..g
        BY <1>0
      <4> QED
        BY <1>2, <4>1, TokensDiffer, Zenon
    <3> QED
      BY <3>1, Zenon DEF Dense
  <2>5. C(f) = w \o C(g + 1)
    <3>1. C(f) = SubSeq(s, f, (g + 1) - 1) \o C(g + 1)
      BY <2>1, <2>4, TokensStay
    <3>2. (g + 1) - 1 = g
      BY <1>0
    <3> HIDE DEF C
    <3> QED
      BY <1>1, <3>1, <3>2
  <2>6. w \in Seq(Tokens)
    <3>1. Identifiers \cup {"."} \subseteq Tokens
      BY TokensDiffer, Zenon
    <3> QED
      BY <3>1, SeqMonotonic, Zenon
  <2>7. C(a) = w \o C(b + 1)
    <3> HIDE DEF C
    <3> QED
      BY <2>2, <2>3, <2>5
  <2> QED
    BY <2>1, <2>6, <2>7, Zenon DEF Reads
<1> QED
  BY <1>4, <1>5

-----------------------------------------------------------------------------
(* The parser accepts nothing that is not documented.                      *)

Opens(s) == {i \in DOMAIN s : s[i] = "("}
Dots(s, open) == {i \in 1..(open - 1) : s[i] = "."}

\* What follows the parenthesis.
TypesFrom(s, in, out, isTrigger, first) ==
  IF At(s, first) = ")" THEN [ok |-> TRUE, types |-> <<>>, end |-> first + 1]
  ELSE IF isTrigger THEN Invalid
  ELSE Parameters(s, in, out)[<<1, first>>]

\* The positions that getRoutine remembers.
OpenOf(s) == Least(Opens(s))
DotOf(s) == Greatest(Dots(s, OpenOf(s)))
FirstOf(s) == Skip(s, OpenOf(s) + 1)

ParsedAs(s, list) ==
  [ok |-> TRUE, class |-> Trim(SubSeq(s, 1, DotOf(s) - 1)),
   method |-> Trim(SubSeq(s, DotOf(s) + 1, OpenOf(s) - 1)), types |-> list.types]

LEMMA ParseIs ==
  ASSUME NEW s, NEW in, NEW out, NEW isTrigger
  PROVE  LET list == TypesFrom(s, in, out, isTrigger, FirstOf(s)) IN
         Parse(s, in, out, isTrigger) =
           IF Opens(s) = {} THEN Rejected
           ELSE IF Dots(s, OpenOf(s)) = {} \/ ~list.ok THEN Rejected
           ELSE IF ~EndsWell(s, list.end) THEN Rejected
           ELSE ParsedAs(s, list)
BY Zenon DEF Parse, Opens, Dots, OpenOf, DotOf, FirstOf, Greatest, TypesFrom, ParsedAs

LEMMA ParseFound ==
  ASSUME NEW s, NEW in, NEW out, NEW isTrigger, Parse(s, in, out, isTrigger).ok
  PROVE  LET list == TypesFrom(s, in, out, isTrigger, FirstOf(s))
             r    == Parse(s, in, out, isTrigger)
         IN
         /\ Opens(s) # {} /\ Dots(s, OpenOf(s)) # {} /\ list.ok /\ EndsWell(s, list.end)
         /\ r.class = Trim(SubSeq(s, 1, DotOf(s) - 1))
         /\ r.method = Trim(SubSeq(s, DotOf(s) + 1, OpenOf(s) - 1))
         /\ r.types = list.types
<1> DEFINE list == TypesFrom(s, in, out, isTrigger, FirstOf(s))
           r    == Parse(s, in, out, isTrigger)
<1>1. r = IF Opens(s) = {} THEN Rejected
          ELSE IF Dots(s, OpenOf(s)) = {} \/ ~list.ok THEN Rejected
          ELSE IF ~EndsWell(s, list.end) THEN Rejected
          ELSE ParsedAs(s, list)
  BY ParseIs
<1>2. Rejected.ok = FALSE
  BY DEF Rejected
<1>3. r.ok
  OBVIOUS
<1> HIDE DEF list, r
<1>4. /\ Opens(s) # {} /\ Dots(s, OpenOf(s)) # {} /\ list.ok /\ EndsWell(s, list.end)
      /\ r = ParsedAs(s, list)
  BY <1>1, <1>2, <1>3
<1>5. /\ r.class = Trim(SubSeq(s, 1, DotOf(s) - 1))
      /\ r.method = Trim(SubSeq(s, DotOf(s) + 1, OpenOf(s) - 1))
      /\ r.types = list.types
  BY <1>4 DEF ParsedAs
<1> QED
  BY <1>4, <1>5 DEF list, r

LEMMA PositionsFound ==
  ASSUME NEW T, NEW s \in Seq(T), Opens(s) # {}, Dots(s, OpenOf(s)) # {}
  PROVE  /\ OpenOf(s) \in 1..Len(s) /\ s[OpenOf(s)] = "(" /\ Sees(s, OpenOf(s), "(")
         /\ DotOf(s) \in 1..(OpenOf(s) - 1) /\ s[DotOf(s)] = "." /\ Sees(s, DotOf(s), ".")
<1> DEFINE open == OpenOf(s)
           dot == DotOf(s)
<1>0. DOMAIN s = 1..Len(s) /\ 1..Len(s) \subseteq Nat /\ Len(s) \in Nat
  OBVIOUS
<1>1. open \in Opens(s)
  <2>1. Opens(s) \subseteq DOMAIN s
    BY Zenon DEF Opens
  <2>2. Opens(s) \in SUBSET Nat
    BY <1>0, <2>1
  <2> QED
    BY <2>2, LeastIsMember DEF OpenOf
<1>2. open \in 1..Len(s) /\ s[open] = "("
  BY <1>0, <1>1, Zenon DEF Opens
<1> HIDE DEF open
<1>3. open \in 1..Len(s) /\ open - 1 \in Nat
  <2>1. open \in 1..Len(s)
    BY <1>2, Zenon
  <2> QED
    BY <1>0, <2>1
<1>4. dot \in Dots(s, open)
  <2>1. Dots(s, open) \subseteq 1..(open - 1)
    BY Zenon DEF Dots
  <2>2. Dots(s, open) \in SUBSET (1..(open - 1)) /\ Dots(s, open) # {}
    BY <2>1, Zenon DEF open
  <2> QED
    BY <1>3, <2>2, GreatestExists DEF Greatest, DotOf, open
<1>5. dot \in 1..(open - 1) /\ s[dot] = "."
  BY <1>4, Zenon DEF Dots
<1>6. dot \in 1..Len(s)
  <2>1. dot \in 1..(open - 1)
    BY <1>5, Zenon
  <2> HIDE DEF dot
  <2> QED
    BY <1>0, <1>3, <2>1
<1>7. Sees(s, open, "(") /\ Sees(s, dot, ".")
  BY <1>0, <1>2, <1>5, <1>6, Zenon DEF Sees, At
<1> QED
  BY <1>2, <1>5, <1>7, Zenon DEF open

\* What follows the name is a list of types and a parenthesis.
LEMMA TypesRead ==
  ASSUME NEW s \in Seq(Tokens), NEW in \in Nat, NEW out \in Nat, NEW isTrigger,
         NEW p \in 1..InfoStart(s), TypesFrom(s, in, out, isTrigger, p).ok
  PROVE  LET list == TypesFrom(s, in, out, isTrigger, p) IN
         /\ list.types \in Seq(NamedClasses)
         /\ \E l \in Lists(list.types, in)[1] : Reads(s, p, list.end, l \o <<")">>)
<1> DEFINE list == TypesFrom(s, in, out, isTrigger, p)
           none == [ok |-> TRUE, types |-> <<>>, end |-> p + 1]
           P    == Parameters(s, in, out)
           x    == <<1, p>>
<1>0. Invalid.ok = FALSE /\ none.types = <<>> /\ none.end = p + 1
  BY DEF Invalid
<1>1. CASE At(s, p) = ")"
  <2>1. list = none
    BY <1>1, Zenon DEF TypesFrom
  <2>2. Sees(s, p, ")")
    BY <1>1, Zenon DEF Sees
  <2>3. Reads(s, p, p + 1, <<")">>)
    BY <2>2, ReadsToken
  <2>4. <<>> \o <<")">> = <<")">>
    <3>1. <<")">> \in Seq(Tokens)
      BY <2>3, ReadsType
    <3> DEFINE close == <<")">>
    <3> HIDE DEF close
    <3>2. close \in Seq(Tokens)
      BY <3>1 DEF close
    <3>3. <<>> \o close = close
      BY <3>2, ConcatEmptySeq
    <3> QED
      BY <3>3 DEF close
  <2>5. <<>> \in Seq(NamedClasses) /\ Len(<<>>) + 1 = 1
    BY EmptySeq
  <2>6. Lists(<<>>, in)[1] = {<<>>}
    <3>1. Lists(<<>>, in)[Len(<<>>) + 1] = {<<>>}
      BY <2>5, ListsAfter
    <3> QED
      BY <2>5, <3>1
  <2>7. list.types = <<>> /\ list.end = p + 1
    BY <1>0, <2>1
  <2>8. <<>> \in Lists(list.types, in)[1] /\ list.types \in Seq(NamedClasses)
    BY <2>5, <2>6, <2>7
  <2>9. Reads(s, p, list.end, <<>> \o <<")">>)
    BY <2>3, <2>4, <2>7
  <2> QED
    BY <2>8, <2>9, Zenon
<1>2. CASE At(s, p) # ")"
  <2>1. list = P[x]
    <3>1. list = IF isTrigger THEN Invalid ELSE P[x]
      BY <1>2, Zenon DEF TypesFrom
    <3>2. list # Invalid
      BY <1>0
    <3> QED
      BY <3>1, <3>2, Zenon
  <2>2. x \in Places(s, in, out) /\ x[1] = 1 /\ x[2] = p
    BY DEF Places
  <2>3. ReadsList(s, in, out, x)
    BY <2>2, ParametersRead
  <2>4. P[x].ok
    BY <2>1
  <2>5. /\ P[x].types \in Seq(NamedClasses)
        /\ \A classes \in Seq(NamedClasses) :
             x[1] <= Len(classes) + 1 /\ From(classes, x[1]) = P[x].types =>
               \E l \in Lists(classes, in)[x[1]] : Reads(s, x[2], P[x].end, l \o <<")">>)
    BY <2>3, <2>4, Zenon DEF ReadsList
  <2> DEFINE types == P[x].types
  <2>6. x[1] <= Len(types) + 1 /\ From(types, x[1]) = types
    <3>1. types \in Seq(NamedClasses)
      BY <2>5, Zenon
    <3> HIDE DEF types, x
    <3> QED
      BY <2>2, <3>1, SubSeqFull DEF From
  <2>7. \E l \in Lists(types, in)[1] : Reads(s, p, P[x].end, l \o <<")">>)
    BY <2>2, <2>5, <2>6, Zenon
  <2> QED
    BY <2>1, <2>5, <2>7, Zenon
<1> QED
  BY <1>1, <1>2, Zenon

\* Nothing is left, or one character.
LEMMA EndsWellFacts ==
  ASSUME NEW s \in Seq(Tokens), NEW p \in 1..InfoStart(s), EndsWell(s, p)
  PROVE  Compact(s)[p] = <<>> \/ \E c \in OneChar : Compact(s)[p] = <<c>>
<1> DEFINE N == InfoStart(s)
           q == Skip(s, p)
           L == Len(s)
<1>0. N \in 1..(L + 1) /\ L \in Nat /\ N \in Nat /\ DOMAIN s = 1..L
  <2>1. DOMAIN s = 1..L
    OBVIOUS
  <2> QED
    BY <2>1, InfoStartType, Zenon
<1>1. q \in p..N /\ Solid(s, q) /\ Compact(s)[q] = Compact(s)[p]
  BY SkipCompact
<1>p. p \in 1..N
  OBVIOUS
<1>2. Compact(s)[N] = <<>>
  BY CompactEnd
<1>3. q > L \/ s[q] = "!" \/ (q = L /\ s[q] \in OneChar)
  BY Zenon DEF EndsWell
<1> HIDE DEF N, q, L
<1>4. q \in 1..N
  BY <1>0, <1>1, <1>p
<1>5. CASE q = N
  BY <1>1, <1>2, <1>5
<1>6. CASE q # N
  <2>1. q \in 1..(N - 1) /\ q <= L
    BY <1>0, <1>4, <1>6
  <2>2. s[q] # "!"
    BY <2>1, InfoStartFacts, Zenon DEF NoInfo, N
  <2>3. q = L /\ s[q] \in OneChar
    <3>1. ~ (q > L)
      BY <1>0, <1>4, <2>1
    <3> QED
      BY <1>3, <2>2, <3>1, Zenon
  <2>4. /\ q + 1 \in 1..N /\ Compact(s)[q + 1] \in Seq(Tokens)
        /\ Compact(s)[q] = <<s[q]>> \o Compact(s)[q + 1]
    BY <1>1, <1>4, <1>6, CompactHead DEF N
  <2>5. q + 1 = N
    BY <1>0, <1>4, <2>3, <2>4
  <2>6. <<s[q]>> \o <<>> = <<s[q]>>
    BY OneToken
  <2>7. Compact(s)[p] = <<s[q]>>
    BY <1>1, <1>2, <2>4, <2>5, <2>6
  <2> QED
    BY <2>3, <2>7
<1> QED
  BY <1>5, <1>6

\* The tokens of a name are before the name info of its text.
LEMMA BeforeInfoOrAt ==
  ASSUME NEW T, NEW s \in Seq(T), NEW q \in 1..Len(s), NoInfo(s, 1, q + 1)
  PROVE  q + 1 <= InfoStart(s)
<1> DEFINE N == InfoStart(s)
<1>0. N \in 1..(Len(s) + 1) /\ Len(s) \in Nat /\ DOMAIN s = 1..Len(s)
  <2>1. DOMAIN s = 1..Len(s)
    OBVIOUS
  <2> QED
    BY <2>1, InfoStartType, Zenon
<1>1. N \in DOMAIN s => s[N] = "!"
  BY InfoStartFacts, Zenon
<1> HIDE DEF N
<1>2. SUFFICES ASSUME ~ (q + 1 <= N) PROVE FALSE
  BY DEF N
<1>3. N \in 1..((q + 1) - 1) /\ N \in DOMAIN s
  BY <1>0, <1>2
<1>4. s[N] # "!"
  BY <1>3, Zenon DEF NoInfo
<1> QED
  BY <1>1, <1>3, <1>4

LEMMA NoInfoOn ==
  ASSUME NEW s, NEW p \in Int, NEW q \in Int, NEW r \in Int, NoInfo(s, p, q), NoInfo(s, q + 1, r),
         s[q] # "!"
  PROVE  NoInfo(s, p, r)
<1>1. ASSUME NEW i \in p..(r - 1) PROVE i \in p..(q - 1) \/ i = q \/ i \in (q + 1)..(r - 1)
  OBVIOUS
<1>2. ASSUME NEW i \in p..(r - 1) PROVE s[i] # "!"
  BY <1>1, Zenon DEF NoInfo
<1> QED
  BY <1>2, Zenon DEF NoInfo

LEMMA NoInfoOne ==
  ASSUME NEW s, NEW q \in Int, s[q] # "!"
  PROVE  NoInfo(s, q, q + 1)
<1>1. \A i \in q..((q + 1) - 1) : i = q
  OBVIOUS
<1> QED
  BY <1>1, Zenon DEF NoInfo

\* The names, and the punctuation after each.
LEMMA NamesRead ==
  ASSUME NEW s \in Seq(Tokens), Opens(s) # {}, Dots(s, OpenOf(s)) # {},
         NEW class \in Seq(Identifiers \cup {"."}), class # <<>>,
         NEW method \in Seq(Identifiers \cup {"."}), method # <<>>,
         Trim(SubSeq(s, 1, DotOf(s) - 1)) = class,
         Trim(SubSeq(s, DotOf(s) + 1, OpenOf(s) - 1)) = method
  PROVE  Reads(s, 1, FirstOf(s), class \o <<".">> \o method \o <<"(">>)
<1> DEFINE open == OpenOf(s)
           dot == DotOf(s)
           N == InfoStart(s)
<1>0. N \in Nat /\ Len(s) \in Nat /\ N \in 1..(Len(s) + 1)
  BY InfoStartType
<1>1. open \in 1..Len(s) /\ s[open] = "(" /\ Sees(s, open, "(")
  BY PositionsFound, Zenon
<1>2. dot \in 1..(open - 1) /\ s[dot] = "." /\ Sees(s, dot, ".")
  BY PositionsFound, Zenon
<1>p. open \in 1..Len(s) /\ dot \in 1..(open - 1)
  BY <1>1, <1>2, Zenon
<1> HIDE DEF open, dot, N
<1>3. /\ 1 \in 1..(Len(s) + 1) /\ dot - 1 \in (1 - 1)..Len(s)
      /\ dot + 1 \in 1..(Len(s) + 1) /\ open - 1 \in ((dot + 1) - 1)..Len(s)
      /\ (dot - 1) + 1 = dot /\ (open - 1) + 1 = open
      /\ dot \in Int /\ open \in Int /\ dot + 1 \in Int /\ open + 1 \in Int /\ 1 \in Int
  BY <1>0, <1>p
<1>4. NoInfo(s, 1, dot) /\ (dot <= N => Reads(s, 1, dot, class))
  <2>1. /\ NoInfo(s, 1, (dot - 1) + 1)
        /\ (dot - 1) + 1 <= InfoStart(s) => Reads(s, 1, (dot - 1) + 1, class)
    BY <1>3, TrimmedReads, Zenon DEF dot
  <2> QED
    BY <1>3, <2>1, Zenon DEF N
<1>5. NoInfo(s, dot + 1, open) /\ (open <= N => Reads(s, dot + 1, open, method))
  <2>1. /\ NoInfo(s, dot + 1, (open - 1) + 1)
        /\ (open - 1) + 1 <= InfoStart(s) => Reads(s, dot + 1, (open - 1) + 1, method)
    BY <1>3, TrimmedReads, Zenon DEF dot, open
  <2> QED
    BY <1>3, <2>1, Zenon DEF N
<1>6. NoInfo(s, 1, open + 1)
  <2>1. s[dot] # "!" /\ s[open] # "!"
    BY <1>1, <1>2
  <2>2. NoInfo(s, 1, open)
    BY <1>3, <1>4, <1>5, <2>1, NoInfoOn, Zenon
  <2>3. NoInfo(s, open + 1, open + 1)
    <3>1. \A i \in (open + 1)..((open + 1) - 1) : FALSE
      BY <1>3
    <3> QED
      BY <3>1, Zenon DEF NoInfo
  <2> QED
    BY <1>3, <2>1, <2>2, <2>3, NoInfoOn, Zenon
<1>7. open + 1 <= N
  BY <1>6, <1>p, BeforeInfoOrAt, Zenon DEF N
<1>8. dot <= N /\ open <= N /\ dot \in 1..N /\ open \in 1..N
  BY <1>0, <1>p, <1>7
<1>9. Reads(s, 1, dot, class) /\ Reads(s, dot + 1, open, method)
  BY <1>4, <1>5, <1>8, Zenon
<1>10. Reads(s, dot, dot + 1, <<".">>)
  BY <1>2, <1>8, ReadsToken, Zenon DEF N
<1>11. Reads(s, open, FirstOf(s), <<"(">>)
  BY <1>1, <1>8, ReadsSpaced, Zenon DEF N, FirstOf, open
<1>12. Reads(s, 1, dot + 1, class \o <<".">>)
  BY <1>9, <1>10, ReadsOn, Zenon
<1>13. Reads(s, 1, open, class \o <<".">> \o method)
  <2> DEFINE a == class \o <<".">>
  <2>1. Reads(s, 1, dot + 1, a)
    BY <1>12
  <2> HIDE DEF a
  <2>2. Reads(s, 1, open, a \o method)
    BY <1>9, <2>1, ReadsOn
  <2> QED
    BY <2>2 DEF a
<1> QED
  BY <1>11, <1>13, ReadsOn, Zenon

\* An entry point that was read, and a text it can be read in.
ReadAs(s, in, out, isTrigger, class, method) ==
  /\ s \in Seq(Tokens) /\ in \in Nat /\ out \in Nat
  /\ class \in Seq(Identifiers \cup {"."}) /\ class # <<>>
  /\ method \in Seq(Identifiers \cup {"."}) /\ method # <<>>
  /\ Parse(s, in, out, isTrigger).ok
  /\ Parse(s, in, out, isTrigger).class = class
  /\ Parse(s, in, out, isTrigger).method = method

TextIs(s, class, method, types, in) ==
  \E w \in Specifications(class, method, types, in) :
    /\ w \in Seq(Tokens)
    /\ Compact(s)[1] = w \/ \E c \in OneChar : Compact(s)[1] = w \o <<c>>

\* getRoutine: what it accepts is a call specification of what it found, and
\* perhaps one more character.
THEOREM ParseReads ==
  ASSUME NEW s, NEW in, NEW out, NEW isTrigger, NEW class, NEW method,
         ReadAs(s, in, out, isTrigger, class, method)
  PROVE  TextIs(s, class, method, Parse(s, in, out, isTrigger).types, in)
<1> s \in Seq(Tokens)
  BY Zenon DEF ReadAs
<1> in \in Nat
  BY Zenon DEF ReadAs
<1> out \in Nat
  BY Zenon DEF ReadAs
<1> class \in Seq(Identifiers \cup {"."}) /\ class # <<>>
  BY Zenon DEF ReadAs
<1> method \in Seq(Identifiers \cup {"."}) /\ method # <<>>
  BY Zenon DEF ReadAs
<1> Parse(s, in, out, isTrigger).ok
  BY Zenon DEF ReadAs
<1> Parse(s, in, out, isTrigger).class = class
  BY Zenon DEF ReadAs
<1> Parse(s, in, out, isTrigger).method = method
  BY Zenon DEF ReadAs
<1> SUFFICES \E w \in Specifications(class, method, Parse(s, in, out, isTrigger).types, in) :
               /\ w \in Seq(Tokens)
               /\ Compact(s)[1] = w \/ \E c \in OneChar : Compact(s)[1] = w \o <<c>>
  BY Zenon DEF TextIs
<1> DEFINE r     == Parse(s, in, out, isTrigger)
           first == FirstOf(s)
           list  == TypesFrom(s, in, out, isTrigger, first)
           v     == class \o <<".">> \o method \o <<"(">>
<1>1. /\ Opens(s) # {} /\ Dots(s, OpenOf(s)) # {} /\ list.ok /\ EndsWell(s, list.end)
      /\ r.class = Trim(SubSeq(s, 1, DotOf(s) - 1))
      /\ r.method = Trim(SubSeq(s, DotOf(s) + 1, OpenOf(s) - 1))
      /\ r.types = list.types
  BY ParseFound, Zenon
<1>2. Reads(s, 1, first, v)
  <2>1. Trim(SubSeq(s, 1, DotOf(s) - 1)) = class
    BY <1>1, Zenon
  <2>2. Trim(SubSeq(s, DotOf(s) + 1, OpenOf(s) - 1)) = method
    BY <1>1, Zenon
  <2> QED
    BY <1>1, <2>1, <2>2, NamesRead, Zenon
<1>3. first \in 1..InfoStart(s) /\ v \in Seq(Tokens)
  BY <1>2, ReadsType, Zenon
<1>4. /\ list.types \in Seq(NamedClasses)
      /\ \E l \in Lists(list.types, in)[1] : Reads(s, first, list.end, l \o <<")">>)
  BY <1>1, <1>3, TypesRead, Zenon
<1>5. PICK l \in Lists(list.types, in)[1] : Reads(s, first, list.end, l \o <<")">>)
  BY <1>4, Zenon
<1>6. l \in Seq(Tokens)
  <2> DEFINE types == list.types
  <2>1. types \in Seq(NamedClasses)
    BY <1>4, Zenon
  <2> HIDE DEF types
  <2>2. 1 \in 1..(Len(types) + 1)
    BY <2>1
  <2>3. Lists(types, in)[1] \in SUBSET Seq(Tokens)
    BY <2>1, <2>2, ListsFacts, Zenon
  <2>4. Lists(types, in)[1] \subseteq Seq(Tokens)
    BY <2>3
  <2> QED
    BY <2>4, Zenon DEF types
<1> DEFINE w == (v \o l) \o <<")">>
<1>7. Reads(s, 1, list.end, w)
  <2>1. <<")">> \in Seq(Tokens)
    BY TokensDiffer, OneToken
  <2> HIDE DEF v, list
  <2> QED
    BY <1>2, <1>5, <1>6, <2>1, ReadsOnTo, Zenon
<1>8. w \in Specifications(class, method, r.types, in)
  BY <1>1, <1>5, Zenon DEF Specifications
<1> DEFINE e == list.end
<1>9. e \in 1..InfoStart(s) /\ w \in Seq(Tokens) /\ EndsWell(s, e)
  BY <1>1, <1>7, ReadsType, Zenon
<1>10. Compact(s)[1] = w \o Compact(s)[e]
  BY <1>7, Zenon DEF Reads
<1> HIDE DEF w, e
<1>11. w \o <<>> = w
  BY <1>9, ConcatEmptySeq
<1>12. Compact(s)[1] = w \/ \E c \in OneChar : Compact(s)[1] = w \o <<c>>
  BY <1>9, <1>10, <1>11, EndsWellFacts, Zenon
<1> QED
  BY <1>8, <1>9, <1>12, Zenon
-----------------------------------------------------------------------------
(* What the text still has to say.                                         *)

\* From p on the tokens of the specification are w.
Rest(s, p, w) ==
  p \in 1..InfoStart(s) /\ w \in Seq(Tokens) /\ Compact(s)[p] = w

LEMMA BeforeFacts ==
  ASSUME NEW S, NEW c \in S, NEW w \in Seq(S)
  PROVE  /\ Before(c, w) \in Seq(S) /\ Len(Before(c, w)) = Len(w) + 1
         /\ Before(c, w)[1] = c /\ Before(c, w) # <<>>
<1>1. <<c>> \in Seq(S) /\ Len(<<c>>) = 1 /\ <<c>>[1] = c
  OBVIOUS
<1>2. /\ Before(c, w) \in Seq(S) /\ Len(Before(c, w)) = Len(w) + 1
      /\ Before(c, w)[1] = c
  BY <1>1, ConcatProperties DEF Before
<1>3. Before(c, w) # <<>>
  BY <1>2, EmptySeq
<1> QED
  BY <1>2, <1>3

LEMMA BeforeCancels ==
  ASSUME NEW S, NEW c \in S, NEW d \in S, NEW v \in Seq(S), NEW w \in Seq(S),
         Before(c, v) = Before(d, w)
  PROVE  c = d /\ v = w
<1>1. c = d
  <2>1. Before(c, v)[1] = c
    BY BeforeFacts
  <2>2. Before(d, w)[1] = d
    BY BeforeFacts
  <2> QED
    BY <2>1, <2>2
<1>2. <<c>> \in Seq(S) /\ <<c>> \o v = <<c>> \o w
  BY <1>1, OneToken DEF Before
<1>4. v = w
  BY <1>2, ConcatSimplifications
<1> QED
  BY <1>1, <1>4

LEMMA BeforeOn ==
  ASSUME NEW S, NEW c \in S, NEW v \in Seq(S), NEW w \in Seq(S)
  PROVE  Before(c, v) \o w = Before(c, v \o w)
<1>1. <<c>> \in Seq(S)
  BY OneToken
<1> QED
  BY <1>1, ConcatAssociative DEF Before

\* The token where there is no blank.
LEMMA NextToken ==
  ASSUME NEW s \in Seq(Tokens), NEW p, NEW c \in Tokens, NEW w \in Seq(Tokens),
         Rest(s, p, Before(c, w)), Solid(s, p)
  PROVE  /\ p \in 1..InfoStart(s) /\ p # InfoStart(s) /\ p \in 1..Len(s)
         /\ s[p] = c /\ At(s, p) = c
         /\ Rest(s, p + 1, w)
<1>1. p \in 1..InfoStart(s) /\ Compact(s)[p] = Before(c, w)
  BY DEF Rest
<1>2. p # InfoStart(s)
  <2>1. Compact(s)[InfoStart(s)] = <<>>
    BY CompactEnd
  <2>2. Before(c, w) # <<>>
    BY BeforeFacts
  <2> QED
    BY <1>1, <2>1, <2>2
<1>3. /\ p \in 1..Len(s) /\ At(s, p) = s[p] /\ s[p] \in Tokens
      /\ p + 1 \in 1..InfoStart(s)
      /\ Compact(s)[p + 1] \in Seq(Tokens)
      /\ Compact(s)[p] = Before(s[p], Compact(s)[p + 1])
  BY <1>1, <1>2, CompactHead DEF Before
<1>4. s[p] = c /\ Compact(s)[p + 1] = w
  <2> DEFINE d == s[p]
             v == Compact(s)[p + 1]
  <2>1. d \in Tokens /\ v \in Seq(Tokens) /\ Before(c, w) = Before(d, v)
    BY <1>1, <1>3
  <2> HIDE DEF d, v
  <2>2. c = d /\ w = v
    BY <2>1, BeforeCancels
  <2> QED
    BY <2>2 DEF d, v
<1> QED
  BY <1>1, <1>2, <1>3, <1>4 DEF Rest

\* The blanks before it.
LEMMA RestSkip ==
  ASSUME NEW s \in Seq(Tokens), NEW p, NEW w, Rest(s, p, w)
  PROVE  Rest(s, Skip(s, p), w) /\ Solid(s, Skip(s, p)) /\ Skip(s, p) \in p..InfoStart(s)
<1>1. p \in 1..InfoStart(s) /\ w \in Seq(Tokens) /\ Compact(s)[p] = w
  BY DEF Rest
<1>2. /\ Skip(s, p) \in p..InfoStart(s) /\ Solid(s, Skip(s, p))
      /\ Compact(s)[Skip(s, p)] = Compact(s)[p]
  BY <1>1, SkipCompact
<1>3. Skip(s, p) \in 1..InfoStart(s)
  BY <1>1, <1>2, InfoStartType
<1> QED
  BY <1>1, <1>2, <1>3 DEF Rest

\* The next token, wherever the blanks before it end.
LEMMA NextSees ==
  ASSUME NEW s \in Seq(Tokens), NEW p, NEW c \in Identifiers \cup {".", ",", "(", ")", "[", "]"},
         NEW w \in Seq(Tokens), Rest(s, p, Before(c, w))
  PROVE  /\ Sees(s, Skip(s, p), c) /\ s[Skip(s, p)] = c
         /\ Skip(s, p) \in p..InfoStart(s) /\ Skip(s, p) # InfoStart(s) /\ Skip(s, p) \in 1..Len(s)
         /\ Rest(s, Skip(s, p) + 1, w)
<1>1. Rest(s, Skip(s, p), Before(c, w)) /\ Solid(s, Skip(s, p)) /\ Skip(s, p) \in p..InfoStart(s)
  BY RestSkip
<1>2. c \in Tokens
  BY TokensDiffer
<1>3. /\ Skip(s, p) # InfoStart(s) /\ Skip(s, p) \in 1..Len(s)
      /\ s[Skip(s, p)] = c /\ At(s, Skip(s, p)) = c
      /\ Rest(s, Skip(s, p) + 1, w)
  BY <1>1, <1>2, NextToken
<1>4. Sees(s, Skip(s, p), c)
  BY <1>3, Zenon DEF Sees
<1> QED
  BY <1>1, <1>3, <1>4, Zenon

\* No blank touches a dot.
Whole(s) ==
  \A i \in 1..(InfoStart(s) - 1) : s[i] = "." =>
    /\ i > 1 => s[i - 1] # " "
    /\ i < Len(s) => s[i + 1] # " "

LEMMA FromNext ==
  ASSUME NEW S, NEW n \in Seq(S), NEW i \in 1..Len(n)
  PROVE  /\ From(n, i) = Before(n[i], From(n, i + 1))
         /\ n[i] \in S /\ From(n, i + 1) \in Seq(S)
<1>1. Len(n) \in i..Len(n) /\ i + 1 \in 1..(Len(n) + 1)
  OBVIOUS
<1>2. SubSeq(n, i, Len(n)) = <<n[i]>> \o SubSeq(n, i + 1, Len(n))
  BY <1>1, SubSeqRecursiveFirst
<1>3. From(n, i + 1) \in Seq(S)
  BY <1>1, FromType
<1> QED
  BY <1>2, <1>3 DEF From, Before

LEMMA FromAll ==
  ASSUME NEW S, NEW n \in Seq(S)
  PROVE  From(n, 1) = n /\ From(n, Len(n) + 1) = <<>>
<1>1. From(n, 1) = n
  BY SubSeqFull DEF From
<1>2. Len(n) + 1 \in Int /\ Len(n) \in Int /\ Len(n) < Len(n) + 1
  OBVIOUS
<1>3. From(n, Len(n) + 1) = <<>>
  BY <1>2, SubSeqEmpty DEF From
<1> QED
  BY <1>1, <1>3

LEMMA NotSolid ==
  ASSUME NEW T, NEW s \in Seq(T), NEW p, ~Solid(s, p)
  PROVE  p \in 1..Len(s) /\ s[p] = " "
<1>1. At(s, p) = " "
  BY DEF Solid
<1>2. At(s, p) # "end"
  BY <1>1
<1> QED
  BY <1>1, <1>2, AtEnd, Zenon

\* Where the last token of a name was read, the next is not behind a blank.
LEMMA NoGap ==
  ASSUME NEW s \in Seq(Tokens), Whole(s), NEW p, NEW c \in Tokens, NEW w \in Seq(Tokens),
         Rest(s, p, Before(c, w)), p > 1,
         c = "." \/ s[p - 1] = "."
  PROVE  Solid(s, p)
<1> SUFFICES ASSUME ~Solid(s, p) PROVE FALSE
  OBVIOUS
<1> DEFINE N == InfoStart(s)
           q == Skip(s, p)
           L == Len(s)
<1>0. N \in Nat /\ L \in Nat /\ N \in 1..(L + 1)
  BY InfoStartType
<1>1. p \in 1..L /\ s[p] = " "
  BY NotSolid
<1>p. p \in 1..L /\ p \in 1..N
  BY <1>1, Zenon DEF Rest
<1>2. Rest(s, q, Before(c, w)) /\ Solid(s, q) /\ q \in p..N
  BY RestSkip
<1>3. q # N /\ q \in 1..L /\ s[q] = c
  BY <1>2, NextToken
<1>4. \A r \in p..(q - 1) : At(s, r) = " "
  <2>1. p \in 1..(L + 1)
    BY <1>0, <1>p
  <2> QED
    BY <2>1, SkipType, Zenon
<1>5. q # p
  BY <1>2
<1> HIDE DEF N, L, q
<1>q. q \in p..N /\ q # N /\ q \in 1..L
  BY <1>2, <1>3, Zenon
<1>6. q - 1 \in p..(q - 1) /\ q - 1 \in 1..L /\ q \in 1..(N - 1) /\ q > 1
  BY <1>0, <1>p, <1>5, <1>q
<1>7. s[q - 1] = " "
  <2>1. DOMAIN s = 1..L
    BY DEF L
  <2> QED
    BY <1>4, <1>6, <2>1, Zenon DEF At
<1>8. CASE c = "."
  BY <1>3, <1>6, <1>7, <1>8, Zenon DEF Whole, N
<1>9. CASE s[p - 1] = "."
  <2>1. p - 1 \in 1..(N - 1) /\ p - 1 < L /\ (p - 1) + 1 = p
    BY <1>0, <1>p
  <2> QED
    BY <1>1, <1>9, <2>1, Zenon DEF Whole, N, L
<1> QED
  BY <1>8, <1>9, Zenon

\* A name is read from its first token to its last.
LEMMA NameStays ==
  ASSUME NEW s \in Seq(Tokens), Whole(s), NEW p, NEW n, IsName(n), NEW w \in Seq(Tokens),
         Rest(s, p, n \o w), Solid(s, p)
  PROVE  /\ \A j \in 1..Len(n) : s[p + j - 1] = n[j]
         /\ Rest(s, p + Len(n), w)
<1> DEFINE L == Len(n)
           Stays(i) == /\ \A j \in 1..i : s[p + j - 1] = n[j]
                       /\ Rest(s, p + i, From(n, i + 1) \o w)
           D == 0..L
           S == {i \in D : Stays(i)}
           rank == [i \in D |-> i]
<1>0. n \in Seq(Identifiers \cup {"."}) /\ \A i \in DOMAIN n : (n[i] = ".") <=> (i % 2 = 0)
  BY Zenon DEF IsName
<1>1. n \in Seq(Tokens)
  <2>1. Identifiers \cup {"."} \subseteq Tokens
    BY TokensDiffer, Zenon
  <2> QED
    BY <1>0, <2>1, SeqMonotonic, Zenon
<1>2. L \in Nat /\ DOMAIN n = 1..L
  BY <1>1
<1>3. p \in 1..InfoStart(s) /\ p \in Nat
  <2>1. p \in 1..InfoStart(s)
    BY DEF Rest
  <2> QED
    BY <2>1
<1>4. \A i \in 1..L : n[i] \in Tokens /\ From(n, i) \o w = Before(n[i], From(n, i + 1) \o w)
                      /\ From(n, i + 1) \o w \in Seq(Tokens)
  <2> SUFFICES ASSUME NEW i \in 1..L
               PROVE  n[i] \in Tokens /\ From(n, i) \o w = Before(n[i], From(n, i + 1) \o w)
                      /\ From(n, i + 1) \o w \in Seq(Tokens)
    OBVIOUS
  <2> DEFINE c == n[i]
             v == From(n, i + 1)
  <2>1. From(n, i) = Before(c, v) /\ c \in Tokens /\ v \in Seq(Tokens)
    BY <1>1, FromNext
  <2> HIDE DEF c, v
  <2>2. Before(c, v) \o w = Before(c, v \o w) /\ v \o w \in Seq(Tokens)
    BY <2>1, BeforeOn, ConcatProperties
  <2> QED
    BY <2>1, <2>2 DEF c, v
<1> HIDE DEF L
<1>5. Stays(0)
  <2>1. From(n, 1) = n
    BY <1>1, FromAll
  <2>2. p + 0 = p /\ 0 + 1 = 1 /\ 1..0 = {}
    BY <1>3
  <2>3. Rest(s, p + 0, From(n, 0 + 1) \o w)
    BY <2>1, <2>2
  <2> QED
    BY <2>2, <2>3
<1>6. ASSUME NEW i \in 1..L, Stays(i - 1) PROVE Stays(i)
  <2> DEFINE q == p + (i - 1)
             c == n[i]
             v == From(n, i + 1) \o w
  <2>1. Rest(s, q, From(n, (i - 1) + 1) \o w)
    BY <1>6
  <2>2. (i - 1) + 1 = i /\ q = p + i - 1 /\ q + 1 = p + i
    BY <1>2, <1>3
  <2>3. Rest(s, q, Before(c, v)) /\ c \in Tokens /\ v \in Seq(Tokens)
    BY <1>4, <2>1, <2>2
  <2>4. Solid(s, q)
    <3>1. CASE i = 1
      <4>1. q = p
        BY <1>3, <3>1
      <4> QED
        BY <4>1
    <3>2. CASE i # 1
      <4>1. i - 1 \in 1..(i - 1) /\ i - 1 \in 1..L /\ q > 1 /\ p + (i - 1) - 1 = q - 1
        BY <1>2, <1>3, <3>2
      <4>2. s[q - 1] = n[i - 1]
        BY <1>6, <4>1
      <4>3. i % 2 = 0 \/ (i - 1) % 2 = 0
        BY <1>2
      <4>4. c = "." \/ n[i - 1] = "."
        BY <1>0, <1>2, <4>1, <4>3, Zenon
      <4> HIDE DEF q, c, v
      <4>5. c = "." \/ s[q - 1] = "."
        BY <4>2, <4>4, Zenon
      <4> QED
        BY <2>3, <4>1, <4>5, NoGap, Zenon
    <3> QED
      BY <3>1, <3>2
  <2> HIDE DEF q, c, v
  <2>5. s[q] = c /\ Rest(s, q + 1, v)
    BY <2>3, <2>4, NextToken, Zenon
  <2>6. ASSUME NEW j \in 1..i PROVE s[p + j - 1] = n[j]
    <3>1. j \in 1..(i - 1) \/ j = i
      BY <1>2
    <3>2. CASE j = i
      BY <2>2, <2>5, <3>2 DEF c
    <3>3. CASE j \in 1..(i - 1)
      BY <1>6, <3>3
    <3> QED
      BY <3>1, <3>2, <3>3
  <2>7. Rest(s, p + i, From(n, i + 1) \o w)
    BY <2>2, <2>5 DEF v
  <2> QED
    BY <2>6, <2>7
<1> HIDE DEF Stays
<1>7. ASSUME NEW i \in D, \A j \in D : rank[j] < rank[i] => j \in S PROVE i \in S
  <2>1. CASE i = 0
    BY <1>5, <2>1
  <2>2. CASE i # 0
    <3>1. i \in 1..L /\ i - 1 \in D /\ rank[i - 1] < rank[i]
      BY <1>2, <2>2
    <3>2. Stays(i - 1)
      BY <1>7, <3>1
    <3> QED
      BY <1>6, <3>1, <3>2
  <2> QED
    BY <2>1, <2>2
<1>8. rank \in [D -> 0..L]
  BY <1>2
<1>9. D \subseteq S
  <2> HIDE DEF D, S, rank
  <2> QED
    BY <1>2, <1>7, <1>8, RankInduction
<1>10. Stays(L)
  BY <1>2, <1>9
<1>11. From(n, L + 1) \o w = w
  <2>1. From(n, L + 1) = <<>>
    BY <1>1, FromAll DEF L
  <2> QED
    BY <2>1, ConcatEmptySeq
<1> QED
  BY <1>10, <1>11 DEF Stays, L

LEMMA TwoBefore ==
  ASSUME NEW a \in Tokens, NEW b \in Tokens, NEW w \in Seq(Tokens), NEW v \in Seq(Tokens)
  PROVE  /\ (<<a, b>> \o w) \o v = Before(a, Before(b, w \o v))
         /\ w \o v \in Seq(Tokens) /\ Before(b, w \o v) \in Seq(Tokens)
<1>1. <<a>> \in Seq(Tokens) /\ <<b>> \in Seq(Tokens) /\ <<a>> \o <<b>> = <<a, b>>
  BY OneToken, TwoTokens
<1>2. w \o v \in Seq(Tokens)
  BY ConcatProperties
<1>3. Before(b, w \o v) \in Seq(Tokens)
  BY <1>2, BeforeFacts
<1>4. Before(b, w) \in Seq(Tokens)
  BY BeforeFacts
<1>5. Before(b, w) \o v = Before(b, w \o v)
  BY BeforeOn
<1>6. (<<a>> \o <<b>>) \o w = Before(a, Before(b, w))
  BY <1>1, ConcatAssociative DEF Before
<1>7. Before(a, Before(b, w)) \o v = Before(a, Before(b, w) \o v)
  <2> DEFINE t == Before(b, w)
  <2> HIDE DEF t
  <2>1. t \in Seq(Tokens) /\ a \in Tokens /\ v \in Seq(Tokens)
    BY <1>4 DEF t
  <2>2. Before(a, t) \o v = Before(a, t \o v)
    BY <2>1, BeforeOn, SMTT(30)
  <2> QED
    BY <2>2 DEF t
<1> QED
  BY <1>1, <1>2, <1>3, <1>5, <1>6, <1>7

LEMMA PairsMore ==
  ASSUME NEW k \in Nat, NEW v \in Seq(Tokens)
  PROVE  /\ Pairs(k + 1) \o v = Before("[", Before("]", Pairs(k) \o v))
         /\ Pairs(k) \o v \in Seq(Tokens) /\ Before("]", Pairs(k) \o v) \in Seq(Tokens)
<1> DEFINE a == "["
           b == "]"
           w == Pairs(k)
<1>1. a \in Tokens /\ b \in Tokens
  BY DEF Tokens, Punctuation
<1>2. w \in Seq(Tokens)
  BY PairsType
<1>3. Pairs(k + 1) = <<a, b>> \o w
  BY PairsNext
<1> HIDE DEF a, b, w
<1>4. /\ (<<a, b>> \o w) \o v = Before(a, Before(b, w \o v))
      /\ w \o v \in Seq(Tokens) /\ Before(b, w \o v) \in Seq(Tokens)
  BY <1>1, <1>2, TwoBefore, ZenonT(60)
<1> QED
  BY <1>3, <1>4 DEF a, b, w

\* A token after a type.
Separates(c) == c \in {",", ")"}

LEMMA SeparatesFacts ==
  ASSUME NEW c, Separates(c)
  PROVE  c \in Tokens /\ c \notin {"[", ".", " "} /\ c \in Identifiers \cup {".", ",", "(", ")", "[", "]"}
BY DEF Separates, Tokens, Punctuation

\* Brackets are read to the last, and all are counted.
LEMMA BracketsAccept ==
  ASSUME NEW s \in Seq(Tokens), NEW a, Solid(s, a), NEW k \in Nat,
         NEW c, Separates(c), NEW u \in Seq(Tokens), Rest(s, a, Pairs(k) \o Before(c, u))
  PROVE  /\ Brackets(s)[a].count = k
         /\ Rest(s, Brackets(s)[a].end, Before(c, u))
<1> DEFINE N == InfoStart(s)
           D == 1..N
           F == Brackets(s)
           v == Before(c, u)
           Reached(x, i) == F[x].count = i /\ Rest(s, F[x].end, v)
           Accepts(x) == \A i \in Nat : Solid(s, x) /\ Rest(s, x, Pairs(i) \o v) => Reached(x, i)
           S == {x \in D : Accepts(x)}
           rank == [x \in D |-> N - x]
<1>0. N \in Nat /\ Len(s) \in Nat /\ N \in 1..(Len(s) + 1)
  BY InfoStartType
<1>1. rank \in [D -> 0..N] /\ \A x, y \in D : rank[y] < rank[x] <=> x < y
  <2> HIDE DEF N
  <2> QED
    BY <1>0
<1>c. c \in Tokens /\ c # "["
  BY SeparatesFacts, Zenon
<1>v. v \in Seq(Tokens)
  BY <1>c, BeforeFacts, Zenon
<1>2. ASSUME NEW x \in D, Solid(s, x), Rest(s, x, Pairs(0) \o v) PROVE Reached(x, 0)
  <2>0. x \in 1..(Len(s) + 1)
    <3> HIDE DEF N
    <3> QED
      BY <1>0
  <2>1. Rest(s, x, v)
    <3>1. <<>> \o v = v
      <4> HIDE DEF v
      <4> QED
        BY <1>v, ConcatEmptySeq
    <3> QED
      BY <1>2, <3>1, PairsNone, Zenon
  <2>2. At(s, x) = c
    BY <1>2, <1>c, <2>1, NextToken, Zenon
  <2>3. ~Sees(s, x, "[")
    BY <1>c, <2>2, Zenon DEF Sees
  <2>4. F[x] = [end |-> x, count |-> 0]
    BY <2>0, <2>3, BracketsNone, Zenon
  <2> HIDE DEF F, v
  <2>5. F[x].end = x /\ F[x].count = 0
    BY <2>4
  <2> QED
    BY <2>1, <2>5
<1>3. ASSUME NEW x \in D, NEW i \in Nat, Solid(s, x), Rest(s, x, Pairs(i + 1) \o v),
             \A y \in D : rank[y] < rank[x] => Accepts(y)
      PROVE  Reached(x, i + 1)
  <2>0. x \in 1..(Len(s) + 1)
    <3> HIDE DEF N
    <3> QED
      BY <1>0
  <2> DEFINE w == Pairs(i) \o v
             cl == Skip(s, x + 1)
             y == Skip(s, cl + 1)
  <2>1. w \in Seq(Tokens) /\ Before("]", w) \in Seq(Tokens) /\ Pairs(i + 1) \o v = Before("[", Before("]", w))
    BY <1>v, PairsMore, Zenon
  <2> HIDE DEF w
  <2>2. "[" \in Tokens
    BY DEF Tokens, Punctuation
  <2>3. Rest(s, x, Before("[", Before("]", w)))
    BY <1>3, <2>1, Zenon
  <2>4. At(s, x) = "[" /\ Rest(s, x + 1, Before("]", w))
    BY <1>3, <2>1, <2>2, <2>3, NextToken, Zenon
  <2>5. Sees(s, cl, "]") /\ Rest(s, cl + 1, w)
    <3>1. "]" \in Identifiers \cup {".", ",", "(", ")", "[", "]"}
      BY Zenon
    <3> QED
      BY <2>1, <2>4, <3>1, NextSees, Zenon
  <2>6. Rest(s, y, w) /\ Solid(s, y)
    BY <2>5, RestSkip, Zenon
  <2>7. Sees(s, x, "[")
    BY <2>4, Zenon DEF Sees
  <2>8. /\ y \in (x + 1)..(Len(s) + 1)
        /\ F[x].end = F[y].end /\ F[x].count = F[y].count + 1 /\ F[y].count \in Nat
    BY <2>0, <2>5, <2>7, BracketsMore, Zenon
  <2>9. y \in D
    BY <2>6, Zenon DEF Rest
  <2> HIDE DEF y, cl, F, rank, D
  <2>10. rank[y] < rank[x]
    <3>1. x < y
      <4>1. y \in (x + 1)..(Len(s) + 1)
        BY <2>8, Zenon
      <4> QED
        BY <1>0, <2>0, <4>1
    <3> QED
      BY <1>1, <2>9, <3>1
  <2>11. Reached(y, i)
    BY <1>3, <2>6, <2>9, <2>10, Zenon DEF w
  <2> HIDE DEF v
  <2> QED
    BY <2>8, <2>11
<1> HIDE DEF Reached
<1>4. ASSUME NEW x \in D, \A y \in D : rank[y] < rank[x] => y \in S PROVE x \in S
  <2> SUFFICES ASSUME NEW i \in Nat, Solid(s, x), Rest(s, x, Pairs(i) \o v) PROVE Reached(x, i)
    BY Zenon
  <2>1. CASE i = 0
    BY <1>2, <2>1, Zenon
  <2>2. CASE i # 0
    <3>1. i - 1 \in Nat /\ (i - 1) + 1 = i
      BY <2>2
    <3>2. \A y \in D : rank[y] < rank[x] => Accepts(y)
      BY <1>4, Zenon
    <3>3. Rest(s, x, Pairs((i - 1) + 1) \o v)
      BY <3>1, Zenon
    <3>4. Reached(x, (i - 1) + 1)
      BY <1>3, <3>1, <3>2, <3>3, Zenon
    <3> QED
      BY <3>1, <3>4, Zenon
  <2> QED
    BY <2>1, <2>2, Zenon
<1> HIDE DEF Accepts
<1>5. D \subseteq S
  <2> HIDE DEF D, S, rank, N
  <2> QED
    BY <1>0, <1>1, <1>4, RankInduction
<1>6. a \in D
  BY Zenon DEF Rest
<1>7. Accepts(a)
  BY <1>5, <1>6, Zenon
<1> QED
  BY <1>7, Zenon DEF Accepts, Reached

\* The dots of a name end it.
LEMMA NameEndIs ==
  ASSUME NEW s \in Seq(Tokens), NEW p \in Nat \ {0}, NEW n, IsName(n),
         \A j \in 1..Len(n) : At(s, p + j - 1) = n[j],
         p + Len(n) <= Len(s) + 1, At(s, p + Len(n)) # "."
  PROVE  NameEnd(s, p) = p + Len(n)
<1> DEFINE R == {k \in 0..Len(s) : At(s, p + 2 * k + 1) # "."}
           dots == Least(R)
           Named == \A k \in 0..dots : At(s, p + 2 * k) \in Identifiers
           L == Len(n)
           m == L \div 2
<1>0. /\ n \in Seq(Identifiers \cup {"."}) /\ L % 2 = 1
      /\ \A i \in DOMAIN n : (n[i] = ".") <=> (i % 2 = 0)
  BY Zenon DEF IsName
<1>1. L \in Nat /\ DOMAIN n = 1..L /\ Len(s) \in Nat /\ L = 2 * m + 1 /\ m \in 0..Len(s)
      /\ p + L <= Len(s) + 1
  <2>1. n \in Seq(Identifiers \cup {"."}) /\ L % 2 = 1
    BY <1>0, Zenon
  <2>2. L \in Nat /\ DOMAIN n = 1..L
    BY <2>1
  <2>3. Len(s) \in Nat /\ p + L <= Len(s) + 1
    OBVIOUS
  <2> HIDE DEF L
  <2> QED
    BY <2>1, <2>2, <2>3
<1>s. \A j \in 1..L : At(s, p + j - 1) = n[j]
  OBVIOUS
<1>e. At(s, p + L) # "."
  OBVIOUS
<1> HIDE DEF L, m
<1>2. m \in R
  <2>1. p + 2 * m + 1 = p + L
    BY <1>1
  <2> QED
    BY <1>1, <1>e, <2>1, Zenon
<1>3. ASSUME NEW k \in 0..Len(s), k < m PROVE k \notin R
  <2>1. 2 * k + 2 \in 1..L /\ p + (2 * k + 2) - 1 = p + 2 * k + 1 /\ (2 * k + 2) % 2 = 0
    BY <1>1, <1>3
  <2>2. n[2 * k + 2] = "."
    BY <1>0, <1>1, <2>1, Zenon
  <2>3. At(s, p + (2 * k + 2) - 1) = n[2 * k + 2]
    BY <1>s, <2>1, Zenon
  <2>4. At(s, p + 2 * k + 1) = "."
    BY <2>1, <2>2, <2>3, Zenon
  <2> QED
    BY <2>4, Zenon
<1>4. R \subseteq 0..Len(s) /\ R \in SUBSET Nat
  <2>1. R \subseteq 0..Len(s)
    BY Zenon
  <2>2. 0..Len(s) \subseteq Nat
    BY <1>1
  <2> QED
    BY <2>1, <2>2, Zenon
<1>5. NameEnd(s, p) = IF Named THEN p + 2 * dots + 1 ELSE 0
  BY Zenon DEF NameEnd
<1>6. dots = m
  <2> HIDE DEF R
  <2>1. dots \in R /\ \A j \in R : dots <= j
    BY <1>2, <1>4, LeastExists DEF Least
  <2> HIDE DEF dots
  <2>2. dots \in 0..Len(s) /\ dots <= m
    BY <1>2, <1>4, <2>1
  <2>3. ~ (dots < m)
    BY <1>3, <2>1, <2>2
  <2> QED
    BY <1>1, <2>2, <2>3
<1>7. ASSUME NEW k \in 0..dots PROVE At(s, p + 2 * k) \in Identifiers
  <2>0. k \in 0..m
    BY <1>6, Zenon
  <2>1. 2 * k + 1 \in 1..L /\ p + (2 * k + 1) - 1 = p + 2 * k /\ (2 * k + 1) % 2 # 0
    BY <1>1, <2>0
  <2>2. n[2 * k + 1] \in Identifiers \cup {"."} /\ n[2 * k + 1] # "."
    <3>1. n[2 * k + 1] # "."
      BY <1>0, <1>1, <2>1, Zenon
    <3>2. \A i \in 1..L : n[i] \in Identifiers \cup {"."}
      <4>1. n \in Seq(Identifiers \cup {"."})
        BY <1>0, Zenon
      <4> QED
        BY <4>1 DEF L
    <3> QED
      BY <2>1, <3>1, <3>2, Zenon
  <2>3. At(s, p + (2 * k + 1) - 1) = n[2 * k + 1]
    BY <1>s, <2>1, Zenon
  <2> QED
    BY <2>1, <2>2, <2>3, Zenon
<1>8. Named
  BY <1>7, Zenon
<1>9. NameEnd(s, p) = p + 2 * m + 1
  BY <1>5, <1>6, <1>8, Zenon
<1>10. p + 2 * m + 1 = p + L
  BY <1>1
<1> QED
  BY <1>9, <1>10 DEF L

\* A name is never empty.
LEMMA NameFacts ==
  ASSUME NEW n, IsName(n)
  PROVE  /\ n \in Seq(Tokens) /\ n \in Seq(Identifiers \cup {"."})
         /\ Len(n) \in Nat \ {0} /\ n # <<>>
         /\ \A i \in 1..Len(n) : n[i] \in Identifiers \cup {"."}
<1>1. n \in Seq(Identifiers \cup {"."}) /\ Len(n) % 2 = 1
  BY Zenon DEF IsName
<1>2. n \in Seq(Tokens)
  <2>1. Identifiers \cup {"."} \subseteq Tokens
    BY TokensDiffer, Zenon
  <2> QED
    BY <1>1, <2>1, SeqMonotonic, Zenon
<1>3. Len(n) \in Nat \ {0} /\ n # <<>>
  <2> DEFINE I == Identifiers \cup {"."}
  <2>1. n \in Seq(I)
    BY <1>1, Zenon
  <2> HIDE DEF I
  <2>2. Len(n) \in Nat /\ Len(n) # 0
    BY <1>1, <2>1
  <2> QED
    BY <2>1, <2>2, EmptySeq
<1>4. \A i \in 1..Len(n) : n[i] \in Identifiers \cup {"."}
  <2> DEFINE I == Identifiers \cup {"."}
  <2>1. n \in Seq(I)
    BY <1>1, Zenon
  <2> HIDE DEF I
  <2>2. \A i \in 1..Len(n) : n[i] \in I
    BY <2>1
  <2> QED
    BY <2>2, Zenon DEF I
<1> QED
  BY <1>1, <1>2, <1>3, <1>4, Zenon

\* A name and the token after it.
LEMMA NameAccept ==
  ASSUME NEW s \in Seq(Tokens), Whole(s), NEW p, NEW n, IsName(n),
         NEW c \in Tokens \ {"."}, NEW u \in Seq(Tokens),
         Rest(s, p, n \o Before(c, u)), Solid(s, p)
  PROVE  /\ NameEnd(s, p) = p + Len(n) /\ SubSeq(s, p, (p + Len(n)) - 1) = n
         /\ Rest(s, p + Len(n), Before(c, u))
<1> DEFINE L == Len(n)
           N == InfoStart(s)
           w == Before(c, u)
<1>0. N \in Nat /\ Len(s) \in Nat /\ N \in 1..(Len(s) + 1)
  BY InfoStartType
<1>1. n \in Seq(Tokens) /\ L \in Nat \ {0}
  BY NameFacts
<1>2. w \in Seq(Tokens)
  BY BeforeFacts
<1>3. (\A j \in 1..L : s[p + j - 1] = n[j]) /\ Rest(s, p + L, w)
  BY <1>2, NameStays
<1>4. Rest(s, p + L, w)
  BY <1>3, Zenon
<1> HIDE DEF N, L
<1>5. p \in 1..N /\ p + L \in 1..N
  BY <1>4, Zenon DEF Rest, N
<1>6. p \in Nat \ {0} /\ p + L <= Len(s) + 1
  BY <1>0, <1>5
<1>7. ASSUME NEW j \in 1..L PROVE At(s, p + j - 1) = n[j]
  <2>1. p + j - 1 \in 1..Len(s)
    BY <1>0, <1>1, <1>5
  <2>2. DOMAIN s = 1..Len(s)
    OBVIOUS
  <2> QED
    BY <1>3, <2>1, <2>2, Zenon DEF At
<1>8. At(s, p + L) # "."
  <2>1. CASE Solid(s, p + L)
    <3>1. At(s, p + L) = c
      BY <1>4, <2>1, NextToken, Zenon
    <3> QED
      BY <3>1, Zenon
  <2>2. CASE ~Solid(s, p + L)
    BY <2>2 DEF Solid
  <2> QED
    BY <2>1, <2>2, Zenon
<1>9. NameEnd(s, p) = p + L
  BY <1>6, <1>7, <1>8, NameEndIs, Zenon DEF L
<1>10. SubSeq(s, p, (p + L) - 1) = n
  <2> DEFINE t == SubSeq(s, p, (p + L) - 1)
  <2>1. \A i \in p..((p + L) - 1) : s[i] \in Tokens
    BY <1>0, <1>1, <1>5
  <2>2. t \in Seq(Tokens) /\ Len(t) = L /\ \A i \in 1..L : t[i] = s[p + i - 1]
    <3>1. p \in Int /\ (p + L) - 1 \in Int /\ p <= (p + L) - 1 /\ ((p + L) - 1) - p + 1 = L
      BY <1>0, <1>1, <1>5
    <3> QED
      BY <2>1, <3>1, SubSeqProperties
  <2> HIDE DEF t
  <2>3. \A i \in 1..L : t[i] = n[i]
    BY <1>3, <2>2
  <2>4. t = n
    BY <1>1, <2>2, <2>3, SeqEqual DEF L
  <2> QED
    BY <2>4 DEF t
<1> QED
  BY <1>4, <1>9, <1>10, Zenon DEF L

LEMMA PairsHead ==
  ASSUME NEW k \in Nat, NEW c, Separates(c), NEW u \in Seq(Tokens)
  PROVE  \E d \in Tokens \ {"."} : \E v \in Seq(Tokens) : Pairs(k) \o Before(c, u) = Before(d, v)
<1>c. c \in Tokens \ {"."} /\ "[" \in Tokens \ {"."}
  <2>1. "[" \in Tokens
    BY Zenon DEF Tokens, Punctuation
  <2> QED
    BY <2>1, SeparatesFacts, Zenon
<1>0. Before(c, u) \in Seq(Tokens)
  BY <1>c, BeforeFacts, Zenon
<1>1. CASE k = 0
  <2> DEFINE w == Before(c, u)
  <2> HIDE DEF w
  <2>1. w \in Seq(Tokens)
    BY <1>0 DEF w
  <2>2. <<>> \o w = w
    BY <2>1, ConcatEmptySeq
  <2>3. Pairs(k) \o w = w
    BY <1>1, <2>2, PairsNone, Zenon
  <2> QED
    BY <1>c, <2>3, Zenon DEF w
<1>2. CASE k # 0
  <2>1. k - 1 \in Nat /\ (k - 1) + 1 = k
    BY <1>2
  <2>2. /\ Pairs((k - 1) + 1) \o Before(c, u) = Before("[", Before("]", Pairs(k - 1) \o Before(c, u)))
        /\ Before("]", Pairs(k - 1) \o Before(c, u)) \in Seq(Tokens)
    BY <1>0, <2>1, PairsMore, Zenon
  <2>3. Pairs(k) \o Before(c, u) = Before("[", Before("]", Pairs(k - 1) \o Before(c, u)))
    BY <2>1, <2>2, Zenon
  <2> QED
    BY <1>c, <2>2, <2>3, Zenon
<1> QED
  BY <1>1, <1>2

LEMMA DataTypeIs ==
  ASSUME NEW s, NEW p, NEW isOutput, NEW t \in Types,
         NameEnd(s, p) # 0, Brackets(s)[Skip(s, NameEnd(s, p))].end # 0,
         t.name = SubSeq(s, p, NameEnd(s, p) - 1),
         t.brackets = Brackets(s)[Skip(s, NameEnd(s, p))].count - Extra(isOutput)
  PROVE  /\ DataType(s, p, isOutput).end = Brackets(s)[Skip(s, NameEnd(s, p))].end
         /\ DataType(s, p, isOutput).class = t.class
<1> DEFINE e == NameEnd(s, p)
           b == Brackets(s)[Skip(s, e)]
           known == {u \in Types : /\ u.name = SubSeq(s, p, e - 1)
                                   /\ u.brackets = b.count - Extra(isOutput)}
           type == CHOOSE u \in known : TRUE
           found == [end |-> b.end, class |-> type.class]
<1>1. DataType(s, p, isOutput) =
        IF e = 0 THEN NoType ELSE IF b.end = 0 \/ known = {} THEN NoType ELSE found
  BY Zenon DEF DataType, Extra
<1>2. t \in known
  BY Zenon
<1>3. type \in known
  <2> HIDE DEF known
  <2> QED
    BY <1>2
<1>4. type = t
  <2>1. /\ type \in Types /\ type.name = SubSeq(s, p, e - 1)
        /\ type.brackets = b.count - Extra(isOutput)
    BY <1>3, Zenon
  <2> HIDE DEF type, e, b
  <2>2. type.name = t.name /\ type.brackets = t.brackets
    BY <2>1, Zenon DEF e, b
  <2> QED
    BY <2>1, <2>2, TypesAssumption, Zenon
<1>5. DataType(s, p, isOutput) = found
  <2>1. known # {}
    BY <1>2, Zenon
  <2>2. e # 0 /\ b.end # 0
    BY Zenon
  <2> HIDE DEF known, found, e, b
  <2> QED
    BY <1>1, <2>1, <2>2, Zenon
<1> HIDE DEF type, b
<1>6. DataType(s, p, isOutput).end = b.end /\ DataType(s, p, isOutput).class = t.class
  BY <1>4, <1>5
<1> QED
  BY <1>6 DEF b

\* Every way to write a type is read as that type.
LEMMA DataTypeAccept ==
  ASSUME NEW s \in Seq(Tokens), Whole(s), NEW p, NEW class, NEW isOutput,
         NEW w \in Spellings(class, isOutput), NEW c, Separates(c), NEW u \in Seq(Tokens),
         Rest(s, p, w \o Before(c, u)), Solid(s, p)
  PROVE  /\ DataType(s, p, isOutput).class = class
         /\ DataType(s, p, isOutput).end # 0
         /\ Rest(s, DataType(s, p, isOutput).end, Before(c, u))
<1>1. PICK t \in Types : w = t.name \o Pairs(t.brackets + Extra(isOutput)) /\ t.class = class
  BY Zenon DEF Spellings, Extra
<1> DEFINE k == t.brackets + Extra(isOutput)
           n == t.name
           v == Before(c, u)
           e == p + Len(n)
           a == Skip(s, e)
           b == Brackets(s)[a]
<1>2. IsName(n) /\ t.brackets \in Nat
  BY TypesAssumption, Zenon
<1>3. k \in Nat /\ t.brackets = k - Extra(isOutput) /\ n \in Seq(Tokens) /\ Extra(isOutput) \in Nat
  <2>1. Extra(isOutput) \in Nat
    BY DEF Extra
  <2> DEFINE x == Extra(isOutput)
             y == t.brackets
  <2>2. x \in Nat /\ y \in Nat
    BY <1>2, <2>1
  <2> HIDE DEF x, y
  <2>3. y + x \in Nat /\ y = (y + x) - x
    BY <2>2
  <2> QED
    BY <1>2, <2>1, <2>3, NameFacts, Zenon DEF x, y
<1>c. c \in Tokens
  BY SeparatesFacts, Zenon
<1>4. v \in Seq(Tokens) /\ Pairs(k) \in Seq(Tokens)
  BY <1>3, <1>c, BeforeFacts, PairsType, Zenon
<1>5. PICK d \in Tokens \ {"."} : \E x \in Seq(Tokens) : Pairs(k) \o v = Before(d, x)
  <2> HIDE DEF k
  <2>1. \E d \in Tokens \ {"."} : \E x \in Seq(Tokens) : Pairs(k) \o Before(c, u) = Before(d, x)
    <3>1. k \in Nat
      BY <1>3, Zenon
    <3> QED
      BY <3>1, PairsHead, ZenonT(60)
  <2> QED
    BY <2>1, Zenon
<1>6. PICK x \in Seq(Tokens) : Pairs(k) \o v = Before(d, x)
  BY <1>5, Zenon
<1>7. Rest(s, p, n \o Before(d, x))
  <2> DEFINE q == Pairs(k)
  <2>1. Rest(s, p, (n \o q) \o v)
    BY <1>1
  <2>2. n \in Seq(Tokens) /\ q \in Seq(Tokens) /\ v \in Seq(Tokens)
    BY <1>3, <1>4
  <2>3. q \o v = Before(d, x)
    BY <1>6
  <2> HIDE DEF q, n, v
  <2>4. (n \o q) \o v = n \o (q \o v)
    BY <2>2, ConcatAssociative
  <2> QED
    BY <2>1, <2>3, <2>4
<1>8. /\ NameEnd(s, p) = p + Len(n) /\ SubSeq(s, p, (p + Len(n)) - 1) = n
      /\ Rest(s, p + Len(n), Before(d, x))
  <2> HIDE DEF n
  <2> QED
    BY <1>2, <1>7, NameAccept, Zenon
<1>9. NameEnd(s, p) = e /\ SubSeq(s, p, e - 1) = n /\ Rest(s, e, Pairs(k) \o v)
  <2> HIDE DEF n, k, v
  <2> QED
    BY <1>6, <1>8, Zenon
<1> HIDE DEF e
<1>10. Rest(s, a, Pairs(k) \o v) /\ Solid(s, a)
  <2> HIDE DEF k, v
  <2> QED
    BY <1>9, RestSkip, Zenon
<1>11. b.count = k /\ Rest(s, b.end, v)
  <2> HIDE DEF k, a
  <2> QED
    BY <1>3, <1>10, BracketsAccept, Zenon
<1>12. b.end # 0
  <2> DEFINE y == b.end
  <2>1. y \in 1..InfoStart(s)
    BY <1>11, Zenon DEF Rest
  <2> HIDE DEF y, b
  <2>2. y # 0
    BY <2>1
  <2> QED
    BY <2>2 DEF y
<1>13. e # 0
  <2>1. e \in 1..InfoStart(s)
    BY <1>9, Zenon DEF Rest
  <2> QED
    BY <2>1
<1>14. /\ DataType(s, p, isOutput).end = b.end
       /\ DataType(s, p, isOutput).class = t.class
  <2>1. t.brackets = b.count - Extra(isOutput)
    <3> HIDE DEF b, k
    <3> QED
      BY <1>3, <1>11, Zenon
  <2>2. NameEnd(s, p) # 0 /\ Brackets(s)[Skip(s, NameEnd(s, p))] = b /\ t.name = SubSeq(s, p, NameEnd(s, p) - 1)
    BY <1>9, <1>13, Zenon
  <2> HIDE DEF b
  <2> QED
    BY <1>12, <2>1, <2>2, DataTypeIs, Zenon
<1> HIDE DEF b
<1> QED
  BY <1>1, <1>11, <1>12, <1>14, Zenon

LEMMA BeforeNothing ==
  ASSUME NEW c
  PROVE  Before(c, <<>>) = <<c>>
<1>1. <<c>> \o <<>> = <<c>>
  <2> DEFINE S == {c}
  <2>1. c \in S
    OBVIOUS
  <2> HIDE DEF S
  <2> QED
    BY <2>1, OneToken
<1> QED
  BY <1>1 DEF Before

\* A type, a separator and the rest of a list.
LEMMA ListTail ==
  ASSUME NEW w \in Seq(Tokens), NEW c \in Tokens, NEW l \in Seq(Tokens), NEW d \in Tokens
  PROVE  /\ ((w \o <<c>>) \o l) \o <<d>> = w \o Before(c, l \o <<d>>)
         /\ l \o <<d>> \in Seq(Tokens)
<1> DEFINE a == <<c>>
           b == <<d>>
<1>1. a \in Seq(Tokens) /\ b \in Seq(Tokens)
  BY OneToken
<1> HIDE DEF a, b
<1>2. l \o b \in Seq(Tokens) /\ w \o a \in Seq(Tokens)
  BY <1>1, ConcatProperties
<1>3. ((w \o a) \o l) \o b = (w \o a) \o (l \o b)
  <2> DEFINE v == w \o a
  <2>1. v \in Seq(Tokens)
    BY <1>2
  <2> HIDE DEF v
  <2>2. (v \o l) \o b = v \o (l \o b)
    BY <1>1, <2>1, ConcatAssociative
  <2> QED
    BY <2>2 DEF v
<1>4. (w \o a) \o (l \o b) = w \o (a \o (l \o b))
  <2> DEFINE m == l \o b
  <2>1. m \in Seq(Tokens)
    BY <1>2
  <2> HIDE DEF m
  <2>2. (w \o a) \o m = w \o (a \o m)
    BY <1>1, <2>1, ConcatAssociative, SMTT(60)
  <2> QED
    BY <2>2 DEF m
<1>5. a \o (l \o b) = Before(c, l \o b)
  BY DEF Before, a
<1> QED
  BY <1>2, <1>3, <1>4, <1>5 DEF a, b

LEMMA SumIsNat ==
  ASSUME NEW a \in Nat, NEW b \in Nat
  PROVE  a + b \in Nat
OBVIOUS

LEMMA NotMore ==
  ASSUME NEW m \in Nat, NEW n \in 1..(m + 1), n <= m
  PROVE  ~ (n > m)
OBVIOUS

\* The loop at a parenthesis and at a comma.
LEMMA ParametersLast ==
  ASSUME NEW s \in Seq(Tokens), NEW in \in Nat, NEW out \in Nat, NEW x \in Places(s, in, out),
         x[1] <= in + out, TypeAt(s, in, out, x).end # 0, Sees(s, SeparatorAt(s, in, out, x), ")")
  PROVE  /\ Parameters(s, in, out)[x].ok
         /\ Parameters(s, in, out)[x].types = <<TypeAt(s, in, out, x).class>>
         /\ Parameters(s, in, out)[x].end = SeparatorAt(s, in, out, x) + 1
<1> DEFINE P == Parameters(s, in, out)
           class == TypeAt(s, in, out, x).class
           sep == SeparatorAt(s, in, out, x)
<1>0. /\ x \in (1..(in + out + 1)) \X (1..(Len(s) + 1)) /\ x[1] \in 1..(in + out + 1)
      /\ in + out \in Nat
  BY PlacesType, SumIsNat, Zenon
<1>1. P[x] = ParametersBody(s, in, out, P, x)
  BY <1>0, ParametersStep, Zenon
<1>2. At(s, sep) = ")"
  BY Zenon DEF Sees
<1>3. ~ (x[1] > in + out)
  BY <1>0, NotMore, Zenon
<1>4. P[x] = [ok |-> TRUE, types |-> <<class>>, end |-> sep + 1]
  BY <1>1, <1>2, <1>3, Zenon DEF ParametersBody
<1> HIDE DEF P, class, sep
<1>5. P[x].ok /\ P[x].types = <<class>> /\ P[x].end = sep + 1
  BY <1>4
<1> QED
  BY <1>5 DEF P, class, sep

LEMMA ParametersMore ==
  ASSUME NEW s \in Seq(Tokens), NEW in \in Nat, NEW out \in Nat, NEW x \in Places(s, in, out),
         x[1] <= in + out, TypeAt(s, in, out, x).end # 0, Sees(s, SeparatorAt(s, in, out, x), ","),
         Following(s, in, out, x) \in Places(s, in, out)
  PROVE  LET P == Parameters(s, in, out)
             y == Following(s, in, out, x)
         IN
         /\ P[x].ok = P[y].ok /\ P[x].end = P[y].end
         /\ P[x].types = Before(TypeAt(s, in, out, x).class, P[y].types)
<1> DEFINE P == Parameters(s, in, out)
           class == TypeAt(s, in, out, x).class
           sep == SeparatorAt(s, in, out, x)
           y == Following(s, in, out, x)
           r == P[y]
<1>0. /\ x \in (1..(in + out + 1)) \X (1..(Len(s) + 1)) /\ x[1] \in 1..(in + out + 1)
      /\ in + out \in Nat
  BY PlacesType, SumIsNat, Zenon
<1>1. P[x] = ParametersBody(s, in, out, P, x)
  BY <1>0, ParametersStep, Zenon
<1>2. At(s, sep) = "," /\ At(s, sep) # ")"
  <2>1. At(s, sep) = ","
    BY Zenon DEF Sees
  <2> QED
    BY <2>1, Zenon
<1>3. ~ (x[1] > in + out)
  BY <1>0, NotMore, Zenon
<1>4. P[x] = [r EXCEPT !.types = <<class>> \o @]
  BY <1>1, <1>2, <1>3, Zenon DEF ParametersBody
<1>5. r \in [ok : BOOLEAN, types : Seq(NamedClasses), end : Nat]
  <2>1. y \in (1..(in + out + 1)) \X (1..(Len(s) + 1))
    BY PlacesType, Zenon
  <2> QED
    BY <2>1, ParametersType, Zenon
<1> HIDE DEF P, class, r
<1>6. P[x].ok = r.ok /\ P[x].types = <<class>> \o r.types /\ P[x].end = r.end
  BY <1>4, <1>5
<1> QED
  BY <1>6 DEF P, class, r, Before

\* A type that is followed by a separator.
LEMMA TypeAccept ==
  ASSUME NEW s \in Seq(Tokens), Whole(s), NEW in \in Nat, NEW out \in Nat,
         NEW n \in 1..(in + out), NEW p, NEW class, NEW w \in Spellings(class, n > in),
         NEW c, Separates(c), NEW u \in Seq(Tokens),
         Rest(s, p, w \o Before(c, u)), Solid(s, p)
  PROVE  LET x == <<n, p>> IN
         /\ x \in Places(s, in, out)
         /\ TypeAt(s, in, out, x).class = class /\ TypeAt(s, in, out, x).end # 0
         /\ Sees(s, SeparatorAt(s, in, out, x), c)
         /\ Rest(s, SeparatorAt(s, in, out, x) + 1, u)
<1> DEFINE x == <<n, p>>
           T == TypeAt(s, in, out, x)
<1>1. p \in 1..InfoStart(s)
  BY Zenon DEF Rest
<1>2. n \in 1..(in + out + 1) /\ IsOutput(n, in, out) = (n > in)
  BY DEF IsOutput
<1>3. x \in Places(s, in, out)
  BY <1>1, <1>2 DEF Places
<1>4. T = DataType(s, p, n > in)
  <2>1. x[1] = n /\ x[2] = p
    OBVIOUS
  <2> HIDE DEF x
  <2> QED
    BY <1>2, <2>1, Zenon DEF TypeAt
<1>5. /\ DataType(s, p, n > in).class = class
      /\ DataType(s, p, n > in).end # 0
      /\ Rest(s, DataType(s, p, n > in).end, Before(c, u))
  BY DataTypeAccept, Zenon
<1>6. T.class = class /\ T.end # 0 /\ Rest(s, T.end, Before(c, u))
  BY <1>4, <1>5, Zenon
<1>7. SeparatorAt(s, in, out, x) = Skip(s, T.end)
  BY Zenon DEF SeparatorAt
<1> HIDE DEF T, x
<1>8. Sees(s, Skip(s, T.end), c) /\ Rest(s, Skip(s, T.end) + 1, u)
  BY <1>6, NextSees, SeparatesFacts, Zenon
<1> QED
  BY <1>3, <1>6, <1>7, <1>8, Zenon DEF T, x

\* From the n-th on, every way to write a list of types is read as that list.
Accepts(s, classes, in, out, n) ==
  \A p, l : l \in Lists(classes, in)[n] /\ Rest(s, p, l \o <<")">>) /\ Solid(s, p) =>
    LET r == Parameters(s, in, out)[<<n, p>>] IN
    r.ok /\ r.types = From(classes, n) /\ Rest(s, r.end, <<>>)

LEMMA AcceptsOne ==
  ASSUME NEW s \in Seq(Tokens), Whole(s), NEW in \in Nat, NEW out \in Nat,
         NEW classes, NEW n \in 1..(in + out), NEW class,
         Lists(classes, in)[n] = Spellings(class, n > in), From(classes, n) = <<class>>
  PROVE  Accepts(s, classes, in, out, n)
<1> SUFFICES ASSUME NEW p, NEW l, l \in Lists(classes, in)[n], Rest(s, p, l \o <<")">>), Solid(s, p)
             PROVE  LET r == Parameters(s, in, out)[<<n, p>>] IN
                    r.ok /\ r.types = From(classes, n) /\ Rest(s, r.end, <<>>)
  BY Zenon DEF Accepts
<1> DEFINE x == <<n, p>>
           T == TypeAt(s, in, out, x)
           sep == SeparatorAt(s, in, out, x)
           P == Parameters(s, in, out)
<1>1. l \in Spellings(class, n > in)
  BY Zenon
<1>2. <<>> \in Seq(Tokens) /\ Separates(")")
  BY EmptySeq, Zenon DEF Separates
<1>3. Before(")", <<>>) = <<")">>
  BY BeforeNothing, Zenon
<1>4. Rest(s, p, l \o Before(")", <<>>))
  BY <1>3, Zenon
<1>5. /\ x \in Places(s, in, out)
      /\ T.class = class /\ T.end # 0
      /\ Sees(s, sep, ")") /\ Rest(s, sep + 1, <<>>)
  <2> DEFINE u == <<>>
             c == ")"
  <2>1. u \in Seq(Tokens) /\ Separates(c) /\ Rest(s, p, l \o Before(c, u))
    BY <1>2, <1>4, Zenon
  <2> HIDE DEF u, c
  <2>3. /\ x \in Places(s, in, out)
        /\ T.class = class /\ T.end # 0
        /\ Sees(s, sep, c) /\ Rest(s, sep + 1, u)
    BY <1>1, <2>1, TypeAccept, Zenon
  <2> QED
    BY <2>3, Zenon DEF u, c
<1>6. x[1] <= in + out
  <2>1. x[1] = n
    OBVIOUS
  <2>2. n <= in + out
    OBVIOUS
  <2> QED
    BY <2>1, <2>2, Zenon
<1>7. P[x].ok /\ P[x].types = <<T.class>> /\ P[x].end = sep + 1
  BY <1>5, <1>6, ParametersLast, Zenon
<1> QED
  BY <1>5, <1>7, Zenon

LEMMA AcceptsLast ==
  ASSUME NEW s \in Seq(Tokens), Whole(s), NEW in \in Nat, NEW out \in Nat,
         NEW classes \in Seq(NamedClasses), Len(classes) <= in + out,
         NEW n, n = Len(classes), n # 0
  PROVE  Accepts(s, classes, in, out, n)
<1>0. n \in 1..(in + out) /\ n \in 1..Len(classes)
  <2> DEFINE L == Len(classes)
  <2>1. L \in Nat /\ n = L /\ n # 0 /\ L <= in + out
    OBVIOUS
  <2> HIDE DEF L
  <2>2. n \in 1..(in + out) /\ n \in 1..L
    BY <2>1
  <2> QED
    BY <2>2 DEF L
<1>1. Lists(classes, in)[n] = Spellings(classes[n], n > in)
  BY ListsLast, Zenon
<1>2. From(classes, n) = <<classes[n]>>
  <2>1. From(classes, n) = Before(classes[n], From(classes, n + 1))
    BY <1>0, FromNext, Zenon
  <2>2. From(classes, n + 1) = <<>>
    BY FromAll, Zenon
  <2> QED
    BY <2>1, <2>2, BeforeNothing, Zenon
<1> QED
  BY <1>0, <1>1, <1>2, AcceptsOne, Zenon

LEMMA AcceptsMore ==
  ASSUME NEW s \in Seq(Tokens), Whole(s), NEW in \in Nat, NEW out \in Nat,
         NEW classes \in Seq(NamedClasses), Len(classes) <= in + out,
         NEW n \in 1..(Len(classes) - 1), Accepts(s, classes, in, out, n + 1)
  PROVE  Accepts(s, classes, in, out, n)
<1> SUFFICES ASSUME NEW p, NEW l, l \in Lists(classes, in)[n], Rest(s, p, l \o <<")">>), Solid(s, p)
             PROVE  LET r == Parameters(s, in, out)[<<n, p>>] IN
                    r.ok /\ r.types = From(classes, n) /\ Rest(s, r.end, <<>>)
  BY Zenon DEF Accepts
<1> DEFINE x == <<n, p>>
           T == TypeAt(s, in, out, x)
           sep == SeparatorAt(s, in, out, x)
           y == Following(s, in, out, x)
           P == Parameters(s, in, out)
<1>0. /\ n \in 1..(in + out) /\ n \in 1..Len(classes) /\ n # Len(classes)
      /\ n + 1 \in 1..(in + out + 1) /\ n + 1 \in 1..(Len(classes) + 1)
  <2> DEFINE L == Len(classes)
  <2>1. L \in Nat /\ n \in 1..(L - 1) /\ L <= in + out
    OBVIOUS
  <2> HIDE DEF L
  <2>2. n \in 1..(in + out) /\ n \in 1..L /\ n # L /\ n + 1 \in 1..(in + out + 1) /\ n + 1 \in 1..(L + 1)
    BY <2>1
  <2> QED
    BY <2>2 DEF L
<1>1. PICK w \in Spellings(classes[n], n > in), m \in Lists(classes, in)[n + 1] :
        l = w \o <<",">> \o m
  <2>1. Lists(classes, in)[n] =
          Joined(Spellings(classes[n], n > in), <<",">>, Lists(classes, in)[n + 1])
    BY <1>0, ListsMore, Zenon
  <2> QED
    <3> DEFINE comma == <<",">>
               W == Spellings(classes[n], n > in)
               others == Lists(classes, in)[n + 1]
    <3> HIDE DEF comma, W, others
    <3>1. l \in Joined(W, comma, others)
      BY <2>1, Zenon DEF comma, W, others
    <3>2. \E w \in W, m \in others : l = w \o comma \o m
      BY <3>1, JoinedHas
    <3> QED
      BY <3>2, Zenon DEF comma, W, others
<1>2. w \in Seq(Tokens) /\ m \in Seq(Tokens)
  <2>1. Lists(classes, in)[n + 1] \in SUBSET Seq(Tokens)
    BY <1>0, ListsFacts, Zenon
  <2>2. Spellings(classes[n], n > in) \in SUBSET Seq(Tokens)
    BY SpellingsAreSeq, Zenon
  <2> QED
    BY <2>1, <2>2, Zenon
<1>3. Separates(",") /\ "," \in Tokens /\ ")" \in Tokens
  BY Zenon DEF Separates, Tokens, Punctuation
<1> DEFINE u == m \o <<")">>
<1>4. u \in Seq(Tokens) /\ Rest(s, p, w \o Before(",", u))
  <2>1. ((w \o <<",">>) \o m) \o <<")">> = w \o Before(",", m \o <<")">>) /\ m \o <<")">> \in Seq(Tokens)
    BY <1>2, <1>3, ListTail, ZenonT(60)
  <2> QED
    BY <1>1, <2>1, Zenon
<1>5. /\ x \in Places(s, in, out)
      /\ T.class = classes[n] /\ T.end # 0
      /\ Sees(s, sep, ",") /\ Rest(s, sep + 1, u)
  <2> HIDE DEF u
  <2> QED
    BY <1>0, <1>1, <1>3, <1>4, TypeAccept, Zenon
<1>6. x[1] <= in + out /\ y = <<n + 1, Skip(s, sep + 1)>>
  <2>1. x[1] = n
    OBVIOUS
  <2>2. n <= in + out
    BY <1>0
  <2> QED
    BY <2>1, <2>2, Zenon DEF Following
<1> HIDE DEF sep
<1>7. Rest(s, Skip(s, sep + 1), u) /\ Solid(s, Skip(s, sep + 1))
  <2> HIDE DEF u
  <2> QED
    BY <1>5, RestSkip, Zenon
<1>8. y \in Places(s, in, out)
  <2>1. Skip(s, sep + 1) \in 1..InfoStart(s)
    BY <1>7, Zenon DEF Rest
  <2> HIDE DEF y
  <2> QED
    BY <1>0, <1>6, <2>1 DEF Places
<1>9. P[y].ok /\ P[y].types = From(classes, n + 1) /\ Rest(s, P[y].end, <<>>)
  BY <1>1, <1>6, <1>7, Zenon DEF Accepts
<1>10. /\ P[x].ok = P[y].ok /\ P[x].end = P[y].end
       /\ P[x].types = Before(T.class, P[y].types)
  BY <1>5, <1>6, <1>8, ParametersMore, Zenon DEF sep
<1>11. From(classes, n) = Before(classes[n], From(classes, n + 1))
  BY <1>0, FromNext, Zenon
<1> HIDE DEF x, y, P, T
<1>12. P[x].ok /\ P[x].types = From(classes, n) /\ Rest(s, P[x].end, <<>>)
  BY <1>5, <1>9, <1>10, <1>11, Zenon
<1> QED
  BY <1>12, Zenon DEF x, P

LEMMA ParametersAccept ==
  ASSUME NEW s \in Seq(Tokens), Whole(s), NEW in \in Nat, NEW out \in Nat,
         NEW classes \in Seq(NamedClasses), Len(classes) <= in + out, classes # <<>>
  PROVE  Accepts(s, classes, in, out, 1)
<1> DEFINE L == Len(classes)
           S == {n \in 1..L : Accepts(s, classes, in, out, n)}
<1>0. L \in Nat \ {0}
  BY EmptySeq
<1>1. L \in S
  <2>1. Accepts(s, classes, in, out, L)
    <3>1. L # 0
      BY <1>0
    <3> QED
      BY <3>1, AcceptsLast, Zenon
  <2>2. L \in 1..L
    BY <1>0
  <2> QED
    BY <2>1, <2>2, Zenon
<1>2. ASSUME NEW n \in 1..(L - 1), n + 1 \in S PROVE n \in S
  <2>1. Accepts(s, classes, in, out, n)
    BY <1>2, AcceptsMore, Zenon
  <2>2. n \in 1..L
    BY <1>0
  <2> QED
    BY <2>1, <2>2, Zenon
<1> HIDE DEF S, L
<1>3. 1..L \subseteq S
  <2>1. 1 \in Int /\ L \in Int /\ 1 <= L
    BY <1>0
  <2>2. \A n \in 1..(L - 1) : n + 1 \in S => n \in S
    BY <1>2
  <2> QED
    BY <1>1, <2>1, <2>2, DownInduction, Zenon
<1>4. 1 \in S
  BY <1>0, <1>3
<1> QED
  BY <1>4, Zenon DEF S

-----------------------------------------------------------------------------
(* The parser accepts what is documented.                                  *)

LEMMA SkipBlank ==
  ASSUME NEW T, NEW s \in Seq(T), NEW p \in 1..(Len(s) + 1)
  PROVE  Blank(s, p, Skip(s, p))
<1> DEFINE q == Skip(s, p)
           L == Len(s)
<1>0. q \in p..(L + 1) /\ \A r \in p..(q - 1) : At(s, r) = " "
  BY SkipType, Zenon
<1>1. DOMAIN s = 1..L /\ L \in Nat /\ p \in 1..(L + 1)
  OBVIOUS
<1> HIDE DEF q, L
<1>2. ASSUME NEW r \in p..(q - 1) PROVE s[r] = " "
  <2>0. q \in p..(L + 1)
    BY <1>0, Zenon
  <2>1. r \in 1..L
    BY <1>1, <2>0
  <2> QED
    BY <1>0, <1>1, <2>1, Zenon DEF At
<1> QED
  BY <1>2, Zenon DEF Blank, q

LEMMA EndsWellIs ==
  ASSUME NEW s \in Seq(Tokens), NEW p, Rest(s, p, <<>>)
  PROVE  EndsWell(s, p)
<1> DEFINE N == InfoStart(s)
           q == Skip(s, p)
           L == Len(s)
<1>0. N \in 1..(L + 1) /\ L \in Nat /\ DOMAIN s = 1..L
  <2>1. DOMAIN s = 1..L
    OBVIOUS
  <2> QED
    BY <2>1, InfoStartType, Zenon
<1>1. Rest(s, q, <<>>) /\ Solid(s, q)
  BY RestSkip, Zenon
<1>2. q \in 1..N /\ Compact(s)[q] = <<>>
  BY <1>1, Zenon DEF Rest
<1>3. q = N
  <2> SUFFICES ASSUME q # N PROVE FALSE
    OBVIOUS
  <2>1. /\ s[q] \in Tokens /\ Compact(s)[q + 1] \in Seq(Tokens)
        /\ Compact(s)[q] = Before(s[q], Compact(s)[q + 1])
    BY <1>1, <1>2, CompactHead, Zenon DEF Before
  <2> DEFINE c == s[q]
             v == Compact(s)[q + 1]
  <2>a. c \in Tokens /\ v \in Seq(Tokens) /\ Compact(s)[q] = Before(c, v)
    BY <2>1, Zenon
  <2> HIDE DEF c, v
  <2>b. Before(c, v) # <<>>
    BY <2>a, BeforeFacts
  <2>2. Compact(s)[q] # <<>>
    BY <2>a, <2>b
  <2> QED
    BY <1>2, <2>2
<1>4. N \in DOMAIN s => s[N] = "!"
  BY InfoStartFacts, Zenon
<1> HIDE DEF q, N, L
<1>5. q > L \/ q \in 1..L
  BY <1>0, <1>3
<1>6. q > L \/ s[q] = "!"
  BY <1>0, <1>3, <1>4, <1>5, Zenon
<1> QED
  BY <1>6, Zenon DEF EndsWell, q, L

\* A part of a text between blanks is what String.trim leaves.
LEMMA TrimmedIs ==
  ASSUME NEW T, NEW s \in Seq(T), NEW a \in 1..(Len(s) + 1), NEW b \in (a - 1)..Len(s),
         NEW f \in a..b, NEW g \in f..b,
         Blank(s, a, f), Blank(s, g + 1, b + 1), f \in Solids(s), g \in Solids(s)
  PROVE  Trim(SubSeq(s, a, b)) = SubSeq(s, f, g)
<1> DEFINE t == SubSeq(s, a, b)
           L == b - a + 1
           x == f - a + 1
           y == g - a + 1
<1>0. /\ a \in Int /\ b \in Int /\ Len(s) \in Nat /\ L \in Nat
      /\ x \in 1..L /\ y \in x..L /\ y \in 1..L /\ a + x - 1 = f /\ a + y - 1 = g
  OBVIOUS
<1>1. /\ t \in Seq(T) /\ Len(t) = L /\ \A i \in 1..L : t[i] = s[a + i - 1]
      /\ SubSeq(t, x, y) = SubSeq(s, f, g)
  <2>0. x \in 1..(b - a + 1) /\ y \in x..(b - a + 1)
    BY <1>0
  <2> HIDE DEF x, y
  <2>1. /\ SubSeq(s, a, b) \in Seq(T) /\ Len(SubSeq(s, a, b)) = b - a + 1
        /\ \A i \in 1..(b - a + 1) : SubSeq(s, a, b)[i] = s[a + i - 1]
        /\ SubSeq(SubSeq(s, a, b), x, y) = SubSeq(s, a + x - 1, a + y - 1)
    BY <2>0, PartOfPart
  <2> QED
    BY <1>0, <2>1, Zenon
<1> HIDE DEF t
<1>d. DOMAIN t = 1..L
  BY <1>1
<1>2. t[x] = s[f] /\ t[y] = s[g]
  BY <1>0, <1>1
<1>3. x \in Solids(t) /\ y \in Solids(t)
  <2>1. s[f] # " " /\ s[g] # " "
    BY Zenon DEF Solids
  <2> HIDE DEF x, y, L
  <2> QED
    BY <1>0, <1>2, <1>d, <2>1, Zenon DEF Solids
<1>4. Blank(t, 1, x)
  <2>1. ASSUME NEW r \in 1..(x - 1) PROVE t[r] = " "
    <3>1. r \in 1..L /\ a + r - 1 \in a..(f - 1)
      BY <1>0
    <3>2. s[a + r - 1] = " "
      BY <3>1, Zenon DEF Blank
    <3>3. t[r] = s[a + r - 1]
      BY <1>1, <3>1
    <3> QED
      BY <3>2, <3>3
  <2> QED
    BY <2>1, Zenon DEF Blank
<1>5. Blank(t, y + 1, L + 1)
  <2>1. ASSUME NEW r \in (y + 1)..((L + 1) - 1) PROVE t[r] = " "
    <3>1. r \in 1..L /\ a + r - 1 \in (g + 1)..((b + 1) - 1)
      BY <1>0
    <3>2. s[a + r - 1] = " "
      BY <3>1, Zenon DEF Blank
    <3>3. t[r] = s[a + r - 1]
      BY <1>1, <3>1
    <3> QED
      BY <3>2, <3>3
  <2> QED
    BY <2>1, Zenon DEF Blank
<1> HIDE DEF x, y, L
<1>6. Trim(t) = SubSeq(t, x, y)
  <2>1. x \in 1..Len(t) /\ y \in x..Len(t) /\ Blank(t, 1, x) /\ Blank(t, y + 1, Len(t) + 1)
    BY <1>0, <1>1, <1>4, <1>5, Zenon
  <2> QED
    BY <1>1, <1>3, <2>1, TrimIs, Zenon
<1> QED
  BY <1>1, <1>6, Zenon DEF t

\* A sequence with one more element.
LEMMA OneMore ==
  ASSUME NEW S, NEW w \in Seq(S), NEW d \in Seq(S), Len(d) = 1
  PROVE  /\ w \o d \in Seq(S) /\ Len(w \o d) = Len(w) + 1
         /\ \A i \in 1..Len(w) : (w \o d)[i] = w[i]
         /\ (w \o d)[Len(w) + 1] = d[1]
<1>1. /\ w \o d \in Seq(S) /\ Len(w \o d) = Len(w) + Len(d)
      /\ \A i \in 1..(Len(w) + Len(d)) : (w \o d)[i] = IF i <= Len(w) THEN w[i] ELSE d[i - Len(w)]
  BY ConcatProperties
<1>2. Len(w) \in Nat
  OBVIOUS
<1> DEFINE L == Len(w)
           u == w \o d
<1>3. /\ L \in Nat /\ u \in Seq(S) /\ Len(u) = L + 1
      /\ \A i \in 1..(L + 1) : u[i] = IF i <= L THEN w[i] ELSE d[i - L]
  BY <1>1, <1>2
<1> HIDE DEF L, u
<1>4. /\ \A i \in 1..L : u[i] = w[i]
      /\ u[L + 1] = d[1]
  BY <1>3
<1> QED
  BY <1>3, <1>4 DEF u, L

\* The name of a method is one, too.
LEMMA NameOfMethod ==
  ASSUME NEW class, IsName(class), NEW method \in Seq(Identifiers), Len(method) = 1
  PROVE  LET n == class \o <<".">> \o method IN
         /\ IsName(n) /\ Len(n) = Len(class) + 2
         /\ \A i \in 1..Len(class) : n[i] = class[i]
         /\ n[Len(class) + 1] = "." /\ n[Len(class) + 2] = method[1]
         /\ method[1] \in Identifiers /\ method \in Seq(Identifiers \cup {"."})
<1> DEFINE I == Identifiers \cup {"."}
           dot == "."
           a == class \o <<dot>>
           n == a \o method
           L == Len(class)
<1>1. class \in Seq(I) /\ L % 2 = 1 /\ \A i \in DOMAIN class : (class[i] = ".") <=> (i % 2 = 0)
  BY Zenon DEF IsName
<1>2. dot \in I /\ Identifiers \subseteq I
  BY Zenon
<1>3. method \in Seq(I) /\ method[1] \in Identifiers /\ Len(method) = 1
  <2> HIDE DEF I
  <2>1. method \in Seq(I)
    BY <1>2, SeqMonotonic, Zenon
  <2> QED
    BY <2>1
<1> HIDE DEF I, dot
<1>4. <<dot>> \in Seq(I) /\ Len(<<dot>>) = 1 /\ <<dot>>[1] = dot
  BY <1>2
<1>0. class \in Seq(I) /\ L \in Nat /\ DOMAIN class = 1..L
  <2>1. class \in Seq(I)
    BY <1>1, Zenon
  <2> QED
    BY <2>1
<1>m. L % 2 = 1
  BY <1>1, Zenon
<1>5. /\ a \in Seq(I) /\ Len(a) = L + 1
      /\ (\A i \in 1..L : a[i] = class[i]) /\ a[L + 1] = dot
  <2> DEFINE d == <<dot>>
  <2> HIDE DEF d
  <2>0. d \in Seq(I) /\ Len(d) = 1 /\ d[1] = dot
    BY <1>4 DEF d
  <2>1. /\ class \o d \in Seq(I) /\ Len(class \o d) = Len(class) + 1
        /\ \A i \in 1..Len(class) : (class \o d)[i] = class[i]
        /\ (class \o d)[Len(class) + 1] = d[1]
    BY <1>0, <2>0, OneMore, Zenon
  <2> QED
    BY <2>0, <2>1, Zenon DEF d
<1> HIDE DEF a
<1>6. /\ n \in Seq(I) /\ Len(n) = L + 2
      /\ (\A i \in 1..(L + 1) : n[i] = a[i]) /\ n[L + 2] = method[1]
  <2>1. /\ a \o method \in Seq(I) /\ Len(a \o method) = Len(a) + 1
        /\ \A i \in 1..Len(a) : (a \o method)[i] = a[i]
        /\ (a \o method)[Len(a) + 1] = method[1]
    BY <1>3, <1>5, OneMore, Zenon
  <2>2. (L + 1) + 1 = L + 2
    BY <1>0
  <2> HIDE DEF L
  <2> QED
    BY <1>5, <2>1, <2>2, Zenon
<1> HIDE DEF n, L
<1>7. (\A i \in 1..L : n[i] = class[i]) /\ n[L + 1] = dot /\ n[L + 2] = method[1]
  BY <1>0, <1>5, <1>6
<1>8. DOMAIN n = 1..(L + 2)
  BY <1>6
<1>9. ASSUME NEW i \in 1..(L + 2) PROVE (n[i] = ".") <=> (i % 2 = 0)
  <2>1. CASE i \in 1..L
    BY <1>0, <1>1, <1>7, <2>1, Zenon
  <2>2. CASE i = L + 1
    <3>1. i % 2 = 0
      BY <1>0, <1>m, <2>2
    <3> QED
      BY <1>7, <2>2, <3>1, Zenon DEF dot
  <2>3. CASE i = L + 2
    <3>1. i % 2 # 0
      BY <1>0, <1>m, <2>3
    <3>2. method[1] # "."
      BY <1>3, IdentifiersAssumption, Zenon DEF Punctuation
    <3> QED
      BY <1>7, <2>3, <3>1, <3>2, Zenon
  <2>4. i \in 1..L \/ i = L + 1 \/ i = L + 2
    BY <1>0
  <2> QED
    BY <2>1, <2>2, <2>3, <2>4, Zenon
<1>10. Len(n) % 2 = 1
  BY <1>0, <1>6, <1>m
<1>11. IsName(n)
  BY <1>6, <1>8, <1>9, <1>10, Zenon DEF IsName, I
<1> QED
  BY <1>3, <1>6, <1>7, <1>11, Zenon DEF n, a, L, I, dot

LEMMA LeastIs ==
  ASSUME NEW S \in SUBSET Nat, NEW i \in S, \A j \in S : i <= j
  PROVE  Least(S) = i
<1> DEFINE m == Least(S)
<1>1. m \in S /\ \A j \in S : m <= j
  BY DEF Least
<1> HIDE DEF m
<1>2. m = i
  BY <1>1
<1> QED
  BY <1>2 DEF m

LEMMA GreatestIs ==
  ASSUME NEW S \in SUBSET Nat, NEW i \in S, \A j \in S : j <= i
  PROVE  Greatest(S) = i
<1> DEFINE m == Greatest(S)
<1>1. m \in S /\ \A j \in S : j <= m
  BY DEF Greatest
<1> HIDE DEF m
<1>2. m = i
  BY <1>1
<1> QED
  BY <1>2 DEF m

\* Nothing of a name is a parenthesis, and no parenthesis is a dot.
LEMMA NotOpen ==
  ASSUME NEW c \in Identifiers \cup {"."}
  PROVE  c # "("
BY IdentifiersAssumption, Zenon DEF Punctuation

\* A name and a parenthesis: the parenthesis is the first one.
LEMMA HeadAccept ==
  ASSUME NEW s \in Seq(Tokens), Whole(s), NEW n, IsName(n), NEW u \in Seq(Tokens),
         Rest(s, 1, n \o Before("(", u))
  PROVE  LET p == Skip(s, 1)
             open == Skip(s, p + Len(n))
         IN
         /\ p \in 1..Len(s) /\ p + Len(n) <= open /\ open \in 1..Len(s)
         /\ Blank(s, 1, p) /\ Blank(s, p + Len(n), open)
         /\ \A j \in 1..Len(n) : s[p + j - 1] = n[j]
         /\ Opens(s) # {} /\ OpenOf(s) = open
         /\ Rest(s, open + 1, u)
<1> DEFINE L == Len(s)
           N == Len(n)
           p == Skip(s, 1)
           e == p + N
           open == Skip(s, e)
           c == "("
           v == Before(c, u)
<1>0. L \in Nat /\ DOMAIN s = 1..L /\ N \in Nat \ {0} /\ 1 \in 1..(L + 1)
      /\ \A i \in 1..N : n[i] \in Identifiers \cup {"."}
  <2>1. L \in Nat /\ DOMAIN s = 1..L /\ 1 \in 1..(L + 1)
    OBVIOUS
  <2> QED
    BY <2>1, NameFacts, Zenon
<1>c. c \in Tokens /\ c \in Identifiers \cup {".", ",", "(", ")", "[", "]"}
  BY Zenon DEF Tokens, Punctuation
<1> HIDE DEF c
<1>v. v \in Seq(Tokens)
  BY <1>c, BeforeFacts
<1>1. Rest(s, 1, n \o v)
  BY Zenon DEF v, c
<1>2. Rest(s, p, n \o v) /\ Solid(s, p) /\ p \in 1..InfoStart(s)
  BY <1>1, RestSkip, Zenon
<1> HIDE DEF v
<1>3. /\ \A j \in 1..N : s[p + j - 1] = n[j]
      /\ Rest(s, e, v)
  BY <1>2, <1>v, NameStays, Zenon
<1>4. /\ s[open] = c /\ open \in e..InfoStart(s) /\ open # InfoStart(s) /\ open \in 1..L
      /\ Rest(s, open + 1, u)
  <2>1. Rest(s, e, Before(c, u))
    BY <1>3, Zenon DEF v
  <2> HIDE DEF e
  <2> QED
    BY <1>c, <2>1, NextSees, Zenon
<1>5. e \in 1..InfoStart(s)
  BY <1>3, Zenon DEF Rest
<1>6. InfoStart(s) \in 1..(L + 1) /\ InfoStart(s) \in Nat
  BY InfoStartType, Zenon
<1>7. Blank(s, 1, p)
  BY <1>0, SkipBlank, Zenon
<1>8. Blank(s, e, open)
  <2>1. e \in 1..(L + 1)
    <3> HIDE DEF e, L
    <3> QED
      BY <1>0, <1>5, <1>6
  <2> HIDE DEF e
  <2> QED
    BY <2>1, SkipBlank, Zenon
<1> HIDE DEF p, open, L, N
<1>9. p \in Nat /\ p >= 1 /\ e >= p /\ e \in Nat /\ open \in Nat /\ e <= open /\ p \in 1..L
  BY <1>0, <1>2, <1>4, <1>5, <1>6
<1>10. ASSUME NEW r \in 1..(open - 1) PROVE s[r] # c
  <2>1. r \in 1..(p - 1) \/ (r - p + 1 \in 1..N /\ p + (r - p + 1) - 1 = r) \/ r \in e..(open - 1)
    BY <1>0, <1>9
  <2>b. " " # c
    BY Zenon DEF c
  <2>2. CASE r \in 1..(p - 1)
    <3>1. s[r] = " "
      BY <1>7, <2>2, Zenon DEF Blank
    <3> QED
      BY <2>b, <3>1, Zenon
  <2>3. CASE r \in e..(open - 1)
    <3>1. s[r] = " "
      BY <1>8, <2>3, Zenon DEF Blank
    <3> QED
      BY <2>b, <3>1, Zenon
  <2>4. CASE r - p + 1 \in 1..N /\ p + (r - p + 1) - 1 = r
    <3> DEFINE j == r - p + 1
    <3>1. j \in 1..N /\ p + j - 1 = r
      BY <2>4
    <3> HIDE DEF j
    <3>2. s[r] = n[j] /\ n[j] \in Identifiers \cup {"."}
      BY <1>0, <1>3, <3>1, Zenon
    <3>3. n[j] # "("
      BY <3>2, NotOpen, Zenon
    <3> QED
      BY <3>2, <3>3, Zenon DEF c
  <2> QED
    BY <2>1, <2>2, <2>3, <2>4, Zenon
<1>11. open \in Opens(s)
  BY <1>0, <1>4, Zenon DEF Opens, c
<1>12. ASSUME NEW j \in Opens(s) PROVE open <= j
  <2>1. j \in 1..L /\ s[j] = c
    BY <1>0, Zenon DEF Opens, c
  <2>2. j \notin 1..(open - 1)
    BY <1>10, <2>1
  <2> QED
    BY <1>0, <1>9, <2>1, <2>2
<1>13. OpenOf(s) = open
  <2>1. Opens(s) \subseteq 1..L
    BY <1>0, Zenon DEF Opens
  <2>2. Opens(s) \in SUBSET Nat
    BY <1>0, <2>1
  <2>3. \A j \in Opens(s) : open <= j
    BY <1>12
  <2> QED
    BY <1>11, <2>2, <2>3, LeastIs, Zenon DEF OpenOf
<1>14. Opens(s) # {} /\ p + N <= open
  BY <1>9, <1>11
<1> QED
  BY <1>3, <1>4, <1>7, <1>8, <1>9, <1>13, <1>14, Zenon DEF p, open, L, N, e

LEMMA PartIs ==
  ASSUME NEW T, NEW s \in Seq(T), NEW n \in Seq(T), NEW p \in Nat \ {0},
         n # <<>>, p + Len(n) - 1 <= Len(s), \A j \in 1..Len(n) : s[p + j - 1] = n[j]
  PROVE  SubSeq(s, p, p + Len(n) - 1) = n
<1> DEFINE L == Len(n)
           g == p + L - 1
           t == SubSeq(s, p, g)
<1>0. L \in Nat /\ L # 0
  BY EmptySeq
<1>1. \A i \in p..g : s[i] \in T
  OBVIOUS
<1>2. t \in Seq(T) /\ Len(t) = L /\ \A i \in 1..L : t[i] = s[p + i - 1]
  <2>1. p \in Int /\ g \in Int /\ p <= g /\ g - p + 1 = L
    BY <1>0
  <2> QED
    BY <1>1, <2>1, SubSeqProperties
<1> HIDE DEF t
<1>3. \A i \in 1..L : t[i] = n[i]
  BY <1>2
<1>4. t = n
  BY <1>2, <1>3, SeqEqual DEF L
<1> QED
  BY <1>4 DEF t

LEMMA SomeToken ==
  ASSUME NEW T, NEW w \in Seq(T), Len(w) = 1
  PROVE  w # <<>>
BY EmptySeq

\* The names of the class and the method are what stands around the last dot.
LEMMA NamesAccept ==
  ASSUME NEW s \in Seq(Tokens), Whole(s), NEW class, IsName(class),
         NEW method \in Seq(Identifiers), Len(method) = 1, NEW u \in Seq(Tokens),
         Rest(s, 1, (class \o <<".">> \o method) \o Before("(", u))
  PROVE  /\ Dots(s, OpenOf(s)) # {}
         /\ Trim(SubSeq(s, 1, DotOf(s) - 1)) = class
         /\ Trim(SubSeq(s, DotOf(s) + 1, OpenOf(s) - 1)) = method
<1> DEFINE n == class \o <<".">> \o method
           L == Len(s)
           K == Len(class)
           N == Len(n)
           p == Skip(s, 1)
           open == Skip(s, p + N)
           d == p + K
           m == d + 1
<1>1. /\ IsName(n) /\ N = K + 2
      /\ \A i \in 1..K : n[i] = class[i]
      /\ n[K + 1] = "." /\ n[K + 2] = method[1]
      /\ method[1] \in Identifiers /\ method \in Seq(Identifiers \cup {"."})
  BY NameOfMethod, Zenon
<1>2. /\ class \in Seq(Tokens) /\ K \in Nat \ {0} /\ class # <<>>
      /\ \A i \in 1..K : class[i] \in Identifiers \cup {"."}
  BY NameFacts, Zenon
<1>3. method \in Seq(Tokens) /\ method # <<>>
  <2>1. Identifiers \subseteq Tokens
    BY Zenon DEF Tokens
  <2>2. method \in Seq(Tokens)
    BY <2>1, SeqMonotonic, Zenon
  <2> QED
    BY <2>2, SomeToken, Zenon
<1> HIDE DEF n
<1>4. /\ p \in 1..L /\ p + N <= open /\ open \in 1..L
      /\ Blank(s, 1, p) /\ Blank(s, p + N, open)
      /\ \A j \in 1..N : s[p + j - 1] = n[j]
      /\ OpenOf(s) = open
  <2>1. Rest(s, 1, n \o Before("(", u))
    BY Zenon DEF n
  <2> QED
    BY <1>1, <2>1, HeadAccept, ZenonT(60)
<1>5. L \in Nat /\ DOMAIN s = 1..L
  OBVIOUS
<1>6. Len(method) = 1
  OBVIOUS
<1> HIDE DEF L, K, N, p, open
<1>7. /\ p \in Nat \ {0} /\ d \in Nat /\ open \in Nat /\ m \in Nat \ {0} /\ d > p
      /\ d \in 1..(open - 1) /\ m \in 1..(open - 1) /\ m <= L /\ p + N = m + 1 /\ d <= L
  BY <1>1, <1>2, <1>4, <1>5
<1>8. s[d] = "." /\ s[m] = method[1]
  <2>1. K + 1 \in 1..N /\ K + 2 \in 1..N /\ p + (K + 1) - 1 = d /\ p + (K + 2) - 1 = m
    BY <1>1, <1>2, <1>7
  <2> HIDE DEF d, m
  <2>2. s[d] = n[K + 1] /\ s[m] = n[K + 2]
    BY <1>4, <2>1
  <2> QED
    BY <1>1, <2>2, Zenon
<1>9. \A j \in 1..K : s[p + j - 1] = class[j]
  <2>1. 1..K \subseteq 1..N
    BY <1>1, <1>2
  <2> QED
    BY <1>1, <1>4, <2>1, Zenon
<1>10. DotOf(s) = d /\ Dots(s, OpenOf(s)) # {}
  <2> DEFINE D == Dots(s, open)
  <2> HIDE DEF d, m
  <2>1. d \in D
    BY <1>7, <1>8, Zenon DEF Dots
  <2>2. ASSUME NEW j \in D PROVE j <= d
    <3>1. j \in 1..(open - 1) /\ s[j] = "."
      BY Zenon DEF Dots
    <3>p. j \in 1..(open - 1)
      BY <3>1, Zenon
    <3>2. j <= d \/ j = m \/ j \in (p + N)..(open - 1)
      BY <1>7, <3>p DEF m
    <3>3. j # m
      <4>1. method[1] # "."
        BY <1>1, IdentifiersAssumption, Zenon DEF Punctuation
      <4> QED
        BY <1>8, <3>1, <4>1, Zenon
    <3>4. j \notin (p + N)..(open - 1)
      <4>1. s[j] # " "
        BY <3>1, Zenon
      <4> QED
        BY <1>4, <4>1, Zenon DEF Blank
    <3> QED
      BY <3>2, <3>3, <3>4
  <2>3. D \in SUBSET Nat
    <3>1. D \subseteq 1..(open - 1)
      BY Zenon DEF Dots
    <3> HIDE DEF D
    <3> QED
      BY <1>7, <3>1
  <2>4. \A j \in D : j <= d
    BY <2>2
  <2> HIDE DEF D
  <2>5. Greatest(D) = d
    BY <2>1, <2>3, <2>4, GreatestIs, Zenon
  <2> QED
    BY <1>4, <2>1, <2>5, Zenon DEF DotOf, D
<1>11. ASSUME NEW i \in 1..L, s[i] \in Identifiers \cup {"."} PROVE i \in Solids(s)
  <2>1. s[i] # " "
    BY <1>11, TokensDiffer, Zenon
  <2> QED
    BY <1>5, <2>1, Zenon DEF Solids
<1>12. Trim(SubSeq(s, 1, DotOf(s) - 1)) = class
  <2> DEFINE g == d - 1
  <2>1. /\ g \in Nat /\ g = p + K - 1 /\ g <= L /\ 1 \in 1..(L + 1) /\ g \in (1 - 1)..L
        /\ p \in 1..g /\ g \in p..g /\ g \in 1..L /\ p \in 1..L /\ g + 1 = d /\ 1 \in 1..K /\ K \in 1..K
        /\ p + 1 - 1 = p
    BY <1>1, <1>2, <1>5, <1>7
  <2>2. s[p] = class[1] /\ s[g] = class[K]
    BY <1>9, <2>1
  <2>3. p \in Solids(s) /\ g \in Solids(s)
    <3>1. s[p] \in Identifiers \cup {"."} /\ s[g] \in Identifiers \cup {"."}
      BY <1>2, <2>1, <2>2, Zenon
    <3> HIDE DEF g
    <3> QED
      BY <1>11, <2>1, <3>1, Zenon
  <2>4. Blank(s, g + 1, g + 1)
    <3>1. (g + 1)..((g + 1) - 1) = {}
      BY <2>1
    <3> QED
      BY <3>1, Zenon DEF Blank
  <2> HIDE DEF g, d
  <2>5. Trim(SubSeq(s, 1, g)) = SubSeq(s, p, g)
    BY <1>4, <2>1, <2>3, <2>4, TrimmedIs, Zenon DEF L
  <2>6. SubSeq(s, p, p + K - 1) = class
    <3>1. p + K - 1 <= L
      BY <2>1, Zenon
    <3> QED
      BY <1>2, <1>7, <1>9, <3>1, PartIs, ZenonT(60) DEF K, L
  <2> QED
    BY <1>10, <2>1, <2>5, <2>6, Zenon DEF g
<1>13. Trim(SubSeq(s, DotOf(s) + 1, OpenOf(s) - 1)) = method
  <2> DEFINE b == open - 1
  <2>1. /\ m \in 1..(L + 1) /\ b \in (m - 1)..L /\ m \in m..b /\ m \in m..m /\ m \in 1..L
        /\ b + 1 = open /\ m \in Nat /\ m = m + 1 - 1 /\ m <= L
    BY <1>4, <1>5, <1>7
  <2>2. m \in Solids(s)
    <3>1. s[m] \in Identifiers \cup {"."}
      BY <1>1, <1>8, Zenon
    <3> HIDE DEF m
    <3> QED
      BY <1>11, <2>1, <3>1, Zenon
  <2> HIDE DEF b, m
  <2>3. Blank(s, m, m)
    <3>1. m..(m - 1) = {}
      BY <2>1
    <3> QED
      BY <3>1, Zenon DEF Blank
  <2>4. Blank(s, m + 1, b + 1)
    BY <1>4, <1>7, <2>1, Zenon
  <2>5. Trim(SubSeq(s, m, b)) = SubSeq(s, m, m)
    BY <2>1, <2>2, <2>3, <2>4, TrimmedIs, Zenon DEF L
  <2>6. \A j \in 1..Len(method) : s[m + j - 1] = method[j]
    <3>1. \A j \in 1..1 : j = 1 /\ m + j - 1 = m
      BY <2>1
    <3> QED
      BY <1>6, <1>8, <3>1, Zenon
  <2>7. m = m + Len(method) - 1
    BY <1>6, <2>1, Zenon
  <2>8. SubSeq(s, m, m + Len(method) - 1) = method
    <3>1. m + Len(method) - 1 <= L
      BY <2>1, <2>7, Zenon
    <3> QED
      BY <1>3, <1>7, <2>6, <3>1, PartIs, ZenonT(60) DEF L
  <2> QED
    BY <1>4, <1>10, <2>5, <2>7, <2>8, Zenon DEF b, m
<1> QED
  BY <1>10, <1>12, <1>13, Zenon

LEMMA OneWithin ==
  ASSUME NEW m \in Nat
  PROVE  1 \in 1..(m + 1)
OBVIOUS

LEMMA WithinPart ==
  ASSUME NEW L \in Nat, NEW N \in 1..(L + 1), NEW q \in 1..N
  PROVE  q \in 1..(L + 1) /\ q \in Nat
OBVIOUS

LEMMA FirstOfPart ==
  ASSUME NEW q \in Nat, NEW L \in Nat, NEW e \in (q + 1)..L
  PROVE  q \in q..(e - 1)
OBVIOUS

LEMMA NextIsNat ==
  ASSUME NEW L \in Nat
  PROVE  L + 1 \in Nat
OBVIOUS

LEMMA NothingOne == Len(<<>>) + 1 = 1
OBVIOUS

\* A parenthesis after the last type, or in place of all of them.
LEMMA TypesAccept ==
  ASSUME NEW s \in Seq(Tokens), Whole(s), NEW in \in Nat, NEW out \in Nat, NEW isTrigger,
         NEW classes \in Seq(NamedClasses), Len(classes) <= in + out,
         isTrigger => classes = <<>>, NEW l \in Lists(classes, in)[1],
         NEW p, Rest(s, p, l \o <<")">>)
  PROVE  LET r == TypesFrom(s, in, out, isTrigger, Skip(s, p)) IN
         r.ok /\ r.types = classes /\ EndsWell(s, r.end)
<1> DEFINE q == Skip(s, p)
           c == ")"
           r == TypesFrom(s, in, out, isTrigger, q)
           P == Parameters(s, in, out)
<1>1. Rest(s, q, l \o <<")">>) /\ Solid(s, q)
  BY RestSkip, Zenon
<1>c. c \in Tokens
  BY Zenon DEF c, Tokens, Punctuation
<1> HIDE DEF q, P
<1>2. CASE classes = <<>>
  <2>1. l = <<>>
    <3>1. Len(classes) + 1 = 1
      BY <1>2, NothingOne, Zenon
    <3>2. Lists(classes, in)[Len(classes) + 1] = {<<>>}
      BY ListsAfter, Zenon
    <3>3. Lists(classes, in)[1] = {<<>>}
      BY <3>1, <3>2, Zenon
    <3> QED
      BY <3>3, Zenon
  <2> HIDE DEF c
  <2>2. Rest(s, q, <<>> \o <<c>>)
    BY <1>1, <2>1, Zenon DEF c
  <2>3. <<>> \in Seq(Tokens) /\ <<>> \o <<c>> = Before(c, <<>>)
    <3>1. <<c>> \in Seq(Tokens)
      BY <1>c, OneToken, Zenon
    <3>2. <<>> \o <<c>> = <<c>> /\ <<>> \in Seq(Tokens)
      BY <3>1, ConcatEmptySeq, EmptySeq, Zenon
    <3> QED
      BY <1>c, <3>2, BeforeNothing, Zenon
  <2>4. At(s, q) = c /\ Rest(s, q + 1, <<>>)
    <3>1. Rest(s, q, Before(c, <<>>)) /\ <<>> \in Seq(Tokens)
      BY <2>2, <2>3, Zenon
    <3> DEFINE w == <<>>
    <3> HIDE DEF w
    <3>2. Rest(s, q, Before(c, w)) /\ w \in Seq(Tokens)
      BY <3>1, Zenon DEF w
    <3>3. At(s, q) = c /\ Rest(s, q + 1, w)
      BY <1>1, <1>c, <3>2, NextToken, Zenon
    <3> QED
      BY <3>3, Zenon DEF w
  <2>5. r = [ok |-> TRUE, types |-> <<>>, end |-> q + 1]
    BY <2>4, Zenon DEF TypesFrom, c
  <2>6. r.ok /\ r.types = <<>> /\ r.end = q + 1
    <3> DEFINE e == q + 1
    <3>1. r = [ok |-> TRUE, types |-> <<>>, end |-> e]
      BY <2>5
    <3> HIDE DEF e, r
    <3>2. r.ok /\ r.types = <<>> /\ r.end = e
      BY <3>1, Zenon
    <3> QED
      BY <3>2 DEF e
  <2>7. EndsWell(s, q + 1)
    BY <2>4, EndsWellIs, Zenon
  <2> QED
    BY <1>2, <2>6, <2>7, Zenon DEF q
<1>3. CASE classes # <<>>
  <2>1. Accepts(s, classes, in, out, 1)
    BY <1>3, ParametersAccept, Zenon
  <2>2. /\ P[<<1, q>>].ok /\ P[<<1, q>>].types = From(classes, 1)
        /\ Rest(s, P[<<1, q>>].end, <<>>)
    BY <1>1, <2>1, Zenon DEF Accepts, P
  <2>3. From(classes, 1) = classes
    BY FromAll, Zenon
  <2>4. <<1, q>> \in Places(s, in, out) /\ q \in 1..(Len(s) + 1) /\ q \in Nat
        /\ Len(s) + 1 \in Nat
    <3>1. q \in 1..InfoStart(s)
      BY <1>1, Zenon DEF Rest
    <3>2. 1 \in 1..(in + out + 1)
      BY SumIsNat, OneWithin, Zenon
    <3>3. InfoStart(s) \in 1..(Len(s) + 1) /\ Len(s) \in Nat
      BY InfoStartType, Zenon
    <3>4. q \in 1..(Len(s) + 1) /\ q \in Nat
      BY <3>1, <3>3, WithinPart, Zenon
    <3> QED
      BY <3>1, <3>2, <3>3, <3>4, NextIsNat, Zenon DEF Places
  <2>5. TypeAt(s, in, out, <<1, q>>).end # 0
    <3> DEFINE x == <<1, q>>
    <3>1. Parameters(s, in, out)[x].ok /\ x \in Places(s, in, out)
      BY <2>2, <2>4, Zenon DEF P
    <3> HIDE DEF x
    <3>2. TypeAt(s, in, out, x).end # 0
      BY <3>1, ParametersCases, Zenon
    <3> QED
      BY <3>2, Zenon DEF x
  <2>6. NameEnd(s, q) # 0
    <3>1. <<1, q>>[2] = q
      BY Zenon
    <3>2. DataType(s, q, IsOutput(<<1, q>>[1], in, out)).end # 0
      BY <2>5, <3>1, Zenon DEF TypeAt
    <3> QED
      BY <3>2, DataTypeFound, Zenon
  <2>7. At(s, q) # ")"
    <3>1. /\ NameEnd(s, q) \in (q + 1)..(Len(s) + 1)
          /\ \A i \in q..(NameEnd(s, q) - 1) : At(s, i) \in Identifiers \cup {"."}
      BY <2>4, <2>6, NameTokens, Zenon
    <3>2. q \in q..(NameEnd(s, q) - 1)
      BY <2>4, <3>1, FirstOfPart, Zenon
    <3>3. At(s, q) \in Identifiers \cup {"."}
      BY <3>1, <3>2, Zenon
    <3> QED
      BY <3>3, IdentifiersAssumption, Zenon DEF Punctuation
  <2>8. r = P[<<1, q>>]
    BY <1>3, <2>7, Zenon DEF TypesFrom, P
  <2>9. EndsWell(s, P[<<1, q>>].end)
    BY <2>2, EndsWellIs, Zenon
  <2> QED
    BY <2>2, <2>3, <2>8, <2>9, Zenon DEF q
<1> QED
  BY <1>2, <1>3, Zenon

\* A text of the documented form, and the entry point that is read in it.
DocumentedAs(s, in, out, isTrigger, class, method, classes) ==
  /\ s \in Seq(Tokens) /\ Whole(s) /\ in \in Nat /\ out \in Nat
  /\ IsName(class) /\ method \in Seq(Identifiers) /\ Len(method) = 1
  /\ classes \in Seq(NamedClasses) /\ Len(classes) <= in + out
  /\ isTrigger => classes = <<>>
  /\ Compact(s)[1] \in Specifications(class, method, classes, in)

EntryOf(class, method, types) ==
  [ok |-> TRUE, class |-> class, method |-> method, types |-> types]

LEMMA FirstPlace ==
  ASSUME NEW L \in Nat, NEW n \in 1..(L + 1)
  PROVE  1 \in 1..n
OBVIOUS

\* getRoutine accepts what the grammar of README.md:201-209 says, blanks between any
\* two tokens but those of a name.
THEOREM ParseAccepts ==
  ASSUME NEW s, NEW in, NEW out, NEW isTrigger, NEW class, NEW method, NEW classes,
         DocumentedAs(s, in, out, isTrigger, class, method, classes)
  PROVE  Parse(s, in, out, isTrigger) = EntryOf(class, method, classes)
<1> s \in Seq(Tokens)
  BY Zenon DEF DocumentedAs
<1> Whole(s)
  BY Zenon DEF DocumentedAs
<1> in \in Nat
  BY Zenon DEF DocumentedAs
<1> out \in Nat
  BY Zenon DEF DocumentedAs
<1> IsName(class)
  BY Zenon DEF DocumentedAs
<1> method \in Seq(Identifiers) /\ Len(method) = 1
  BY Zenon DEF DocumentedAs
<1> classes \in Seq(NamedClasses)
  BY Zenon DEF DocumentedAs
<1> Len(classes) <= in + out
  BY Zenon DEF DocumentedAs
<1> isTrigger => classes = <<>>
  BY Zenon DEF DocumentedAs
<1> Compact(s)[1] \in Specifications(class, method, classes, in)
  BY Zenon DEF DocumentedAs
<1> 1 \in 1..InfoStart(s)
  BY InfoStartType, FirstPlace, Zenon
<1> Compact(s)[1] \in Seq(Tokens)
  BY CompactIsSeq, Zenon
<1> DEFINE n == class \o <<".">> \o method
           c == "("
           d == ")"
<1>1. PICK l \in Lists(classes, in)[1] :
         Compact(s)[1] = class \o <<".">> \o method \o <<"(">> \o l \o <<")">>
  BY Zenon DEF Specifications
<1>n. IsName(n) /\ n \in Seq(Tokens)
  <2>1. IsName(n)
    BY NameOfMethod, Zenon
  <2> QED
    BY <2>1, NameFacts, Zenon
<1>2. Compact(s)[1] = ((n \o <<c>>) \o l) \o <<d>>
  BY <1>1, Zenon
<1>c. c \in Tokens /\ d \in Tokens
  BY Zenon DEF c, d, Tokens, Punctuation
<1>l. l \in Seq(Tokens)
  <2>1. Len(classes) \in Nat
    BY LenProperties, Zenon
  <2>2. 1 \in 1..(Len(classes) + 1)
    BY <2>1, OneWithin, Zenon
  <2> QED
    BY <2>2, ListsFacts, Zenon
<1> HIDE DEF n, c, d
<1>3. ((n \o <<c>>) \o l) \o <<d>> = n \o Before(c, l \o <<d>>) /\ l \o <<d>> \in Seq(Tokens)
  <2>1. n \in Seq(Tokens)
    BY <1>n, Zenon
  <2>2. c \in Tokens
    BY <1>c, Zenon
  <2>3. d \in Tokens
    BY <1>c, Zenon
  <2> QED
    BY <2>1, <2>2, <2>3, <1>l, ListTail, ZenonT(60)
<1>4. Rest(s, 1, n \o Before(c, l \o <<d>>))
  BY <1>2, <1>3, Zenon DEF Rest
<1> DEFINE u == l \o <<d>>
<1>5. u \in Seq(Tokens) /\ Rest(s, 1, n \o Before("(", u))
  BY <1>3, <1>4, Zenon DEF c
<1> HIDE DEF u
<1>6. /\ Opens(s) # {} /\ Rest(s, OpenOf(s) + 1, u)
  BY <1>n, <1>5, HeadAccept, Zenon
<1>7. /\ Dots(s, OpenOf(s)) # {}
      /\ Trim(SubSeq(s, 1, DotOf(s) - 1)) = class
      /\ Trim(SubSeq(s, DotOf(s) + 1, OpenOf(s) - 1)) = method
  <2>1. Rest(s, 1, (class \o <<".">> \o method) \o Before("(", u))
    BY <1>5, Zenon DEF n
  <2> QED
    BY <1>5, <2>1, NamesAccept, Zenon
<1> DEFINE list == TypesFrom(s, in, out, isTrigger, FirstOf(s))
<1>8. list.ok /\ list.types = classes /\ EndsWell(s, list.end)
  <2>1. Rest(s, OpenOf(s) + 1, l \o <<")">>)
    BY <1>6, Zenon DEF u, d
  <2> QED
    BY <2>1, TypesAccept, Zenon DEF FirstOf
<1> HIDE DEF list
<1>9. Parse(s, in, out, isTrigger) = ParsedAs(s, list)
  <2>1. Parse(s, in, out, isTrigger) =
           IF Opens(s) = {} THEN Rejected
           ELSE IF Dots(s, OpenOf(s)) = {} \/ ~list.ok THEN Rejected
           ELSE IF ~EndsWell(s, list.end) THEN Rejected
           ELSE ParsedAs(s, list)
    BY ParseIs, Zenon DEF list
  <2> QED
    BY <1>6, <1>7, <1>8, <2>1, Zenon
<1> QED
  BY <1>7, <1>8, <1>9, Zenon DEF ParsedAs, EntryOf
=============================================================================

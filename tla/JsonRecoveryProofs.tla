------------------------- MODULE JsonRecoveryProofs -------------------------
(***************************************************************************)
(* The recovery of a JSON object, for answers of any length: what the scan *)
(* returns is the first object a JSON parser sees, and it raises only when *)
(* there is none.                                                          *)
(*                                                                         *)
(* Both read the answer differently: the parser from an object inwards,    *)
(* the scan from left to right with a counter and two flags.  The state of *)
(* the scan says which is the innermost object around it.                  *)
(***************************************************************************)
EXTENDS JsonRecovery, FiniteSetTheorems, SequenceTheorems, WellFoundedInduction, TLAPS

(* A nonempty set of positions has a first one.                            *)
LEMMA FirstPosition ==
  ASSUME NEW S, S \subseteq Nat, S # {}
  PROVE  \E q \in S : \A r \in S : q <= r
<1>1. IsWellFoundedOn(OpToRel(<, Nat), Nat)
  BY NatLessThanWellFounded
<1>2. \E q \in S : \A r \in S : <<r, q>> \notin OpToRel(<, Nat)
  BY <1>1, WFMin
<1>3. \A q, r \in Nat : <<r, q>> \notin OpToRel(<, Nat) => q <= r
  BY DEF OpToRel
<1> QED BY <1>2, <1>3

(* What holds of no characters, and is passed on by every further one,     *)
(* holds of all.                                                           *)
LEMMA StepInduction ==
  ASSUME NEW n \in Nat, NEW Holds, 0 \in Holds,
         \A m \in 1..n : m - 1 \in Holds => m \in Holds
  PROVE  0..n \subseteq Holds
<1> DEFINE fails == (0..n) \ Holds
<1> SUFFICES ASSUME fails # {}
             PROVE  FALSE
  OBVIOUS
<1>0. fails \subseteq Nat
  OBVIOUS
<1>1. PICK m \in fails : \A other \in fails : m <= other
  <2> HIDE DEF fails
  <2> QED BY <1>0, FirstPosition
<1>2. m \in 1..n /\ m - 1 \in 0..n /\ ~ (m <= m - 1)
  BY <1>1
<1> QED BY <1>1, <1>2

-----------------------------------------------------------------------------
(* What the span of i and j must be to be an object, given which of the    *)
(* shorter ones are.                                                       *)
ObjectBody(t, is_object, i, j) ==
  /\ i < j /\ t[i] = LBrace /\ t[j] = RBrace
  /\ \/ j = i + 1
     \/ \E k \in (i + 2)..(j - 3) :
          /\ IsString(t, i + 1, k) /\ t[k + 1] = Colon
          /\ \/ IsString(t, k + 2, j - 1)
             \/ k + 2 = j - 1 /\ t[k + 2] = "x"
             \/ is_object[<<k + 2, j - 1>>]

Objects(t, n, m, f) ==
  f = [span \in (1..n) \X (1..m) |-> ObjectBody(t, f, span[1], span[2])]

(* A function with the equation of the definition exists: an object is     *)
(* longer than the one inside it.                                          *)
LEMMA ObjectsExist ==
  ASSUME NEW t, NEW n \in Nat
  PROVE  \E f : Objects(t, n, n, f)
<1> DEFINE holds == {m \in 0..n : \E f : Objects(t, n, m, f)}
<1>1. 0 \in holds
  <2> DEFINE f == [span \in (1..n) \X (1..0) |-> FALSE]
  <2>1. (1..n) \X (1..0) = {}
    OBVIOUS
  <2>2. Objects(t, n, 0, f)
    BY <2>1 DEF Objects
  <2> QED BY <2>2
<1>2. ASSUME NEW m \in 1..n, m - 1 \in holds
      PROVE  m \in holds
  <2>1. PICK f : Objects(t, n, m - 1, f)
    BY <1>2
  <2> DEFINE g == [span \in (1..n) \X (1..m) |->
                     IF span[2] = m THEN ObjectBody(t, f, span[1], m) ELSE f[span]]
  <2>2. ASSUME NEW i \in 1..n, NEW j \in 1..m, NEW k \in (i + 2)..(j - 3)
        PROVE  g[<<k + 2, j - 1>>] = f[<<k + 2, j - 1>>]
    <3>1. k + 2 \in 1..n /\ j - 1 \in 1..m /\ j - 1 # m
      OBVIOUS
    <3> QED BY <3>1
  <2>3. ASSUME NEW i \in 1..n, NEW j \in 1..m
        PROVE  ObjectBody(t, g, i, j) = ObjectBody(t, f, i, j)
    <3> HIDE DEF g
    <3> QED BY <2>2 DEF ObjectBody
  <2>4. ASSUME NEW i \in 1..n, NEW j \in 1..m
        PROVE  g[<<i, j>>] = ObjectBody(t, f, i, j)
    <3>1. CASE j = m
      BY <3>1
    <3>2. CASE j # m
      <4>1. j \in 1..(m - 1)
        BY <3>2
      <4>2. f[<<i, j>>] = ObjectBody(t, f, i, j)
        BY <2>1, <4>1 DEF Objects
      <4> QED BY <3>2, <4>2
    <3> QED BY <3>1, <3>2
  <2>5. g = [span \in (1..n) \X (1..m) |-> g[span]]
    OBVIOUS
  <2> HIDE DEF g
  <2>6. \A span \in (1..n) \X (1..m) : g[span] = ObjectBody(t, g, span[1], span[2])
    BY <2>3, <2>4
  <2>7. Objects(t, n, m, g)
    BY <2>5, <2>6 DEF Objects
  <2> QED BY <2>7
<1> HIDE DEF holds
<1>3. 0..n \subseteq holds
  BY <1>1, <1>2, StepInduction
<1> QED BY <1>3 DEF holds

(* So the definition is an equation.                                       *)
LEMMA ObjectSpans ==
  ASSUME NEW t, Len(t) \in Nat, NEW i \in 1..Len(t), NEW j \in 1..Len(t)
  PROVE  IsObject(t)[<<i, j>>] = ObjectBody(t, IsObject(t), i, j)
<1> DEFINE f == CHOOSE g : Objects(t, Len(t), Len(t), g)
<1>1. IsObject(t) = f
  BY DEF IsObject, Objects, ObjectBody, Span
<1>2. Objects(t, Len(t), Len(t), f)
  BY ObjectsExist
<1> HIDE DEF f
<1>3. f[<<i, j>>] = ObjectBody(t, f, i, j)
  BY <1>2 DEF Objects
<1> QED BY <1>1, <1>3

-----------------------------------------------------------------------------
(* Nothing before the first character of a string escapes it.              *)
LEMMA NotEscaped ==
  ASSUME NEW t, NEW c \in Int
  PROVE  ~Escaped(t, c, c)
<1>1. {b \in c..(c - 1) : \A i \in b..(c - 1) : t[i] = Backslash} = {}
  OBVIOUS
<1> QED BY <1>1, FS_EmptySet DEF Escaped

(* A backslash escapes the next character unless it is escaped itself.     *)
LEMMA EscapedNext ==
  ASSUME NEW t, NEW c \in Int, NEW p \in Int, c <= p
  PROVE  Escaped(t, c, p + 1) <=> t[p] = Backslash /\ ~Escaped(t, c, p)
<1> DEFINE Run(q) == {b \in c..(q - 1) : \A i \in b..(q - 1) : t[i] = Backslash}
           before == Cardinality(Run(p))
           after == Cardinality(Run(p + 1))
<1>1. /\ Escaped(t, c, p) <=> before % 2 = 1
      /\ Escaped(t, c, p + 1) <=> after % 2 = 1
  BY DEF Escaped
<1>2. CASE t[p] # Backslash
  <2>1. Run(p + 1) = {}
    BY <1>2
  <2>2. after = 0
    BY <2>1, FS_EmptySet
  <2> HIDE DEF before, after
  <2> QED BY <1>1, <1>2, <2>2
<1>3. CASE t[p] = Backslash
  <2>1. Run(p + 1) = Run(p) \cup {p}
    BY <1>3
  <2>2. p \notin Run(p)
    OBVIOUS
  <2>3. IsFiniteSet(Run(p))
    <3>1. IsFiniteSet(c..(p - 1))
      BY FS_Interval
    <3> QED BY <3>1, FS_Subset
  <2>4. before \in Nat /\ after = before + 1
    BY <2>1, <2>2, <2>3, FS_AddElement, FS_CardinalityType
  <2> HIDE DEF before, after
  <2>5. (before + 1) % 2 = 1 <=> before % 2 # 1
    BY <2>4
  <2> QED BY <1>1, <1>3, <2>4, <2>5
<1> QED BY <1>2, <1>3

-----------------------------------------------------------------------------
(* The spans of an answer that are objects.                                *)
Object(t, i, j) ==
  i \in 1..Len(t) /\ j \in 1..Len(t) /\ IsObject(t)[<<i, j>>]

(* Objects inside one another end together: from b to j they all close.    *)
Closes(t, b, j) == b <= j /\ \A p \in b..j : t[p] = RBrace

(* A value at m, the last thing in an object that ends at b.               *)
Value(t, m, b) ==
  \/ IsString(t, m, b - 1)
  \/ m = b - 1 /\ t[m] = "x"
  \/ Object(t, m, b - 1)

(* What comes behind a string inside an object that ends at b.             *)
Follows(t, m, b) == m = b \/ (m < b /\ t[m] = Colon /\ Value(t, m + 1, b))

Plain == ~in_string /\ ~escaped

(***************************************************************************)
(* Where the scan of an object that ends at j can be, by the innermost     *)
(* object around the position read next, which ends at b.                  *)
(***************************************************************************)
AtObject(j) ==
  \E b \in 1..j :
    /\ Closes(text, b, j) /\ Object(text, index, b)
    /\ Plain /\ depth = j - b

AtString(j) ==
  \E b \in 1..j : \E e \in 1..(b - 1) :
    /\ Closes(text, b, j) /\ IsString(text, index, e) /\ Follows(text, e + 1, b)
    /\ Plain /\ depth = j - b + 1

InString(j) ==
  \E b \in 1..j : \E e \in 1..(b - 1) : \E c \in 0..(e - 1) :
    /\ Closes(text, b, j) /\ IsString(text, c, e) /\ Follows(text, e + 1, b)
    /\ index \in (c + 1)..e
    /\ in_string /\ (escaped <=> Escaped(text, c + 1, index))
    /\ depth = j - b + 1

AtColon(j) ==
  \E b \in 1..j :
    /\ Closes(text, b, j) /\ index < b /\ Follows(text, index, b)
    /\ Plain /\ depth = j - b + 1

AtNumber(j) ==
  \E b \in 1..j :
    /\ Closes(text, b, j) /\ index = b - 1 /\ text[index] = "x"
    /\ Plain /\ depth = j - b + 1

AtClosing(j) == Closes(text, index, j) /\ Plain /\ depth = j - index + 1

Inside(j) ==
  AtObject(j) \/ AtString(j) \/ InString(j) \/ AtColon(j) \/ AtNumber(j) \/ AtClosing(j)

Characters == {LBrace, RBrace, Colon, "x", Quote, Backslash}

Types ==
  /\ text \in Seq(Characters)
  /\ stage \in {"whole", "find", "scan", "parsed", "raised"}
  /\ start \in 0..Len(text)
  /\ index \in Nat /\ depth \in Int
  /\ in_string \in BOOLEAN /\ escaped \in BOOLEAN
  /\ stage = "whole" => start = 0

(* The scan is inside every object that starts where it started.           *)
Scan ==
  stage = "scan" => /\ start # 0 /\ index # 0
                    /\ \A j \in 1..Len(text) : Object(text, start, j) => Inside(j)

(* No object starts before k.                                              *)
NoneBefore(t, k) == \A i, j \in 1..Len(t) : Object(t, i, j) => k <= i

(* What was given up holds no object.                                      *)
Found ==
  /\ stage = "find" => NoneBefore(text, start + 1)
  /\ stage = "scan" => NoneBefore(text, start)
  /\ stage = "raised" => \A i, j \in 1..Len(text) : ~Object(text, i, j)
  /\ stage = "parsed" =>
       \E i, j \in 1..Len(text) :
         object = <<i, j>> /\ Object(text, i, j) /\ NoneBefore(text, i)

IInv == Types /\ Scan /\ Found

-----------------------------------------------------------------------------
(* An object is empty, or has a key and a value.                           *)
LEMMA ObjectIs ==
  ASSUME NEW t, Len(t) \in Nat, NEW i, NEW b, Object(t, i, b)
  PROVE  /\ i \in 1..Len(t) /\ b \in 1..Len(t) /\ i < b
         /\ t[i] = LBrace /\ t[b] = RBrace
         /\ \/ b = i + 1
            \/ \E e \in (i + 2)..(b - 3) :
                 IsString(t, i + 1, e) /\ Follows(t, e + 1, b)
<1>1. i \in 1..Len(t) /\ b \in 1..Len(t) /\ ObjectBody(t, IsObject(t), i, b)
  BY ObjectSpans DEF Object
<1>2. ASSUME NEW e \in (i + 2)..(b - 3),
             IsString(t, i + 1, e), t[e + 1] = Colon,
             \/ IsString(t, e + 2, b - 1)
             \/ e + 2 = b - 1 /\ t[e + 2] = "x"
             \/ IsObject(t)[<<e + 2, b - 1>>]
      PROVE  Follows(t, e + 1, b)
  <2>1. e + 2 \in 1..Len(t) /\ b - 1 \in 1..Len(t) /\ e + 1 < b /\ (e + 1) + 1 = e + 2
    BY <1>1
  <2>2. Value(t, e + 2, b)
    BY <1>2, <2>1 DEF Value, Object
  <2> QED BY <1>2, <2>1, <2>2 DEF Follows
<1> QED BY <1>1, <1>2 DEF ObjectBody

(* The characters the scan tells apart differ.                             *)
LEMMA CharactersDiffer ==
  /\ Quote \notin {LBrace, RBrace, Colon, "x", Backslash}
  /\ Backslash \notin {LBrace, RBrace, Colon, "x"}
  /\ LBrace \notin {RBrace, Colon, "x"}
  /\ RBrace \notin {Colon, "x"}
  /\ Colon # "x"
BY DEF LBrace, RBrace, Colon, Quote, Backslash

(* Inside an object the answer has not ended.                              *)
LEMMA InsideIsBefore ==
  ASSUME Types, NEW j \in 1..Len(text), Inside(j)
  PROVE  index <= j
<1>1. Len(text) \in Nat /\ index \in Nat
  BY DEF Types
<1>2. CASE AtObject(j)
  <2>1. PICK b \in 1..j : Object(text, index, b)
    BY <1>2 DEF AtObject
  <2>2. index < b
    BY <1>1, <2>1, ObjectIs
  <2> QED BY <1>1, <2>1, <2>2
<1>3. CASE AtString(j)
  <2>1. PICK b \in 1..j : \E e \in 1..(b - 1) : IsString(text, index, e)
    BY <1>3 DEF AtString
  <2> QED BY <1>1, <2>1 DEF IsString
<1>4. CASE InString(j)
  BY <1>1, <1>4 DEF InString
<1>5. CASE AtColon(j)
  BY <1>1, <1>5 DEF AtColon
<1>6. CASE AtNumber(j)
  BY <1>1, <1>6 DEF AtNumber
<1>7. CASE AtClosing(j)
  BY <1>1, <1>7 DEF AtClosing, Closes
<1> QED BY <1>2, <1>3, <1>4, <1>5, <1>6, <1>7 DEF Inside

(* Of the braces that close, the first one, and one more or one less.      *)
LEMMA ClosesAt ==
  ASSUME NEW t, NEW b \in Int, NEW j \in Int
  PROVE  /\ Closes(t, b, j) => b <= j /\ t[b] = RBrace
         /\ Closes(t, b, j) /\ b # j => Closes(t, b + 1, j)
         /\ Closes(t, b, j) /\ t[b - 1] = RBrace => Closes(t, b - 1, j)
<1>1. b <= j => b \in b..j
  OBVIOUS
<1>2. b # j /\ b <= j => b + 1 <= j /\ \A p \in (b + 1)..j : p \in b..j
  OBVIOUS
<1>3. b <= j => b - 1 <= j /\ \A p \in (b - 1)..j : p \in b..j \/ p = b - 1
  OBVIOUS
<1> QED BY <1>1, <1>2, <1>3 DEF Closes

-----------------------------------------------------------------------------
(* A step of the scan that stays in the answer.                            *)
ScanStep ==
  \/ scan_string
  \/ scan_character
  \/ scan_closing /\ depth' # 0

(* It reads the character at index.                                        *)
LEMMA StepIs ==
  ASSUME Types, ScanStep, NEW j \in 1..Len(text)
  PROVE  /\ Len(text) \in Nat /\ index \in Nat /\ depth \in Int /\ j \in Nat
         /\ index' = index + 1 /\ text' = text
<1>1. Len(text) \in Nat /\ index \in Nat /\ depth \in Int
  BY DEF Types
<1>2. Advance
  BY DEF ScanStep, scan_string, scan_character, scan_closing
<1>3. index' = index + 1 /\ text' = text
  BY <1>2 DEF Advance
<1> QED BY <1>1, <1>3

(* Reading the brace an object opens with.                                 *)
LEMMA ObjectStep ==
  ASSUME Types, Types', NEW j \in 1..Len(text), AtObject(j), ScanStep
  PROVE  scan_character /\ (AtString(j)' \/ AtClosing(j)')
<1>1. PICK b \in 1..j : /\ Closes(text, b, j) /\ Object(text, index, b)
                        /\ Plain /\ depth = j - b
  BY DEF AtObject
<1>2. /\ Len(text) \in Nat /\ index \in Nat /\ depth \in Int /\ j \in Nat
      /\ index' = index + 1 /\ text' = text
  BY StepIs
<1>3. /\ index < b /\ text[index] = LBrace
      /\ \/ b = index + 1
         \/ \E e \in (index + 2)..(b - 3) :
              IsString(text, index + 1, e) /\ Follows(text, e + 1, b)
  BY <1>1, <1>2, ObjectIs
<1>4. scan_character
  BY <1>1, <1>3, CharactersDiffer
     DEF ScanStep, scan_string, scan_closing, Scanning, Plain
<1>5. index' = index + 1 /\ depth' = j - b + 1 /\ Plain'
  BY <1>1, <1>3, <1>4, CharactersDiffer DEF scan_character, Advance, Plain
<1>6. CASE b = index + 1
  BY <1>1, <1>2, <1>4, <1>5, <1>6 DEF AtClosing
<1>7. ASSUME NEW e \in (index + 2)..(b - 3),
             IsString(text, index + 1, e), Follows(text, e + 1, b)
      PROVE  AtString(j)'
  <2>1. e \in 1..(b - 1)
    BY <1>2, <1>3
  <2> QED BY <1>1, <1>2, <1>5, <1>7, <2>1 DEF AtString
<1> QED BY <1>3, <1>4, <1>6, <1>7

(* Reading the quote a string opens with.                                  *)
LEMMA StringStep ==
  ASSUME Types, Types', NEW j \in 1..Len(text), AtString(j), ScanStep
  PROVE  scan_character /\ InString(j)'
<1>0. PICK b \in 1..j : \E e \in 1..(b - 1) :
        /\ Closes(text, b, j) /\ IsString(text, index, e) /\ Follows(text, e + 1, b)
        /\ Plain /\ depth = j - b + 1
  BY DEF AtString
<1>1. PICK e \in 1..(b - 1) :
        /\ Closes(text, b, j) /\ IsString(text, index, e) /\ Follows(text, e + 1, b)
        /\ Plain /\ depth = j - b + 1
  BY <1>0
<1>2. /\ Len(text) \in Nat /\ index \in Nat /\ depth \in Int /\ j \in Nat
      /\ index' = index + 1 /\ text' = text
  BY StepIs
<1>3. text[index] = Quote /\ index < e
  BY <1>1 DEF IsString
<1>4. scan_character
  BY <1>1, <1>3, CharactersDiffer
     DEF ScanStep, scan_string, scan_closing, Scanning, Plain
<1>5. index' = index + 1 /\ depth' = depth /\ in_string' /\ ~escaped'
  BY <1>1, <1>3, <1>4, CharactersDiffer DEF scan_character, Advance, Plain
<1>6. ~Escaped(text, index + 1, index + 1)
  BY <1>2, NotEscaped
<1>7. index \in 0..(e - 1) /\ index + 1 \in (index + 1)..e
  BY <1>2, <1>3
<1> QED BY <1>1, <1>2, <1>4, <1>5, <1>6, <1>7 DEF InString

(* Reading a character of a string, or the quote it ends with.             *)
LEMMA InStringStep ==
  ASSUME Types, Types', NEW j \in 1..Len(text), InString(j), ScanStep
  PROVE  scan_string /\ (InString(j)' \/ AtColon(j)' \/ AtClosing(j)')
<1>0. PICK b \in 1..j : \E e \in 1..(b - 1) : \E c \in 0..(e - 1) :
        /\ Closes(text, b, j) /\ IsString(text, c, e) /\ Follows(text, e + 1, b)
        /\ index \in (c + 1)..e
        /\ in_string /\ (escaped <=> Escaped(text, c + 1, index))
        /\ depth = j - b + 1
  BY DEF InString
<1> PICK e \in 1..(b - 1) : \E c \in 0..(e - 1) :
        /\ Closes(text, b, j) /\ IsString(text, c, e) /\ Follows(text, e + 1, b)
        /\ index \in (c + 1)..e
        /\ in_string /\ (escaped <=> Escaped(text, c + 1, index))
        /\ depth = j - b + 1
  BY <1>0
<1>1. PICK c \in 0..(e - 1) :
        /\ Closes(text, b, j) /\ IsString(text, c, e) /\ Follows(text, e + 1, b)
        /\ index \in (c + 1)..e
        /\ in_string /\ (escaped <=> Escaped(text, c + 1, index))
        /\ depth = j - b + 1
  OBVIOUS
<1>2. /\ Len(text) \in Nat /\ index \in Nat /\ depth \in Int /\ j \in Nat
      /\ index' = index + 1 /\ text' = text
  BY StepIs
<1>3. scan_string
  BY <1>1 DEF ScanStep, scan_character, scan_closing
<1>4. /\ escaped' = (~escaped /\ text[index] = Backslash)
      /\ in_string' = (escaped \/ text[index] # Quote)
      /\ index' = index + 1 /\ depth' = depth
  BY <1>3 DEF scan_string, BeginsEscape, Advance
<1>5. CASE index # e
  <2>1. index \in (c + 1)..(e - 1) /\ index + 1 \in (c + 1)..e
    BY <1>1, <1>5
  <2>2. IF escaped THEN text[index] \in {Quote, Backslash} ELSE text[index] # Quote
    BY <1>1, <2>1 DEF IsString
  <2>3. in_string'
    BY <1>4, <2>2
  <2>4. Escaped(text, c + 1, index + 1) <=>
          text[index] = Backslash /\ ~Escaped(text, c + 1, index)
    BY <1>1, <2>1, EscapedNext
  <2>5. escaped' <=> Escaped(text, c + 1, index')
    BY <1>1, <1>4, <2>4
  <2>6. InString(j)'
    BY <1>1, <1>2, <1>4, <2>1, <2>3, <2>5 DEF InString
  <2> QED BY <1>3, <2>6
<1>6. CASE index = e
  <2>1. text[index] = Quote /\ ~escaped
    BY <1>1, <1>6 DEF IsString
  <2>2. Plain'
    BY <1>4, <2>1, CharactersDiffer DEF Plain
  <2>3. index' = e + 1 /\ depth' = j - b + 1
    BY <1>1, <1>4, <1>6
  <2>4. CASE e + 1 = b
    BY <1>1, <1>2, <1>3, <2>2, <2>3, <2>4 DEF AtClosing
  <2>5. CASE e + 1 # b
    <3>1. e + 1 < b
      BY <1>1, <2>5
    <3> QED BY <1>1, <1>2, <1>3, <2>2, <2>3, <3>1 DEF AtColon
  <2> QED BY <2>4, <2>5
<1> QED BY <1>5, <1>6

(* Reading the colon before a value.                                       *)
LEMMA ColonStep ==
  ASSUME Types, Types', NEW j \in 1..Len(text), AtColon(j), ScanStep
  PROVE  scan_character /\ (AtString(j)' \/ AtNumber(j)' \/ AtObject(j)')
<1>1. PICK b \in 1..j :
        /\ Closes(text, b, j) /\ index < b /\ Follows(text, index, b)
        /\ Plain /\ depth = j - b + 1
  BY DEF AtColon
<1>2. /\ Len(text) \in Nat /\ index \in Nat /\ depth \in Int /\ j \in Nat
      /\ index' = index + 1 /\ text' = text
  BY StepIs
<1>3. text[index] = Colon /\ Value(text, index + 1, b)
  BY <1>1, <1>2 DEF Follows
<1>4. scan_character
  BY <1>1, <1>3, CharactersDiffer
     DEF ScanStep, scan_string, scan_closing, Scanning, Plain
<1>5. index' = index + 1 /\ depth' = depth /\ Plain'
  BY <1>1, <1>3, <1>4, CharactersDiffer DEF scan_character, Advance, Plain
<1>6. CASE IsString(text, index + 1, b - 1)
  <2>1. b - 1 \in 1..(b - 1) /\ (b - 1) + 1 = b
    BY <1>1, <1>2, <1>6 DEF IsString
  <2>2. Follows(text, (b - 1) + 1, b)
    BY <2>1 DEF Follows
  <2> QED BY <1>1, <1>2, <1>4, <1>5, <1>6, <2>1, <2>2 DEF AtString
<1>7. CASE index + 1 = b - 1 /\ text[index + 1] = "x"
  BY <1>1, <1>2, <1>4, <1>5, <1>7 DEF AtNumber
<1>8. CASE Object(text, index + 1, b - 1)
  <2>1. b - 1 \in 1..j /\ text[b - 1] = RBrace
    BY <1>1, <1>2, <1>8, ObjectIs
  <2>2. Closes(text, b - 1, j)
    BY <1>1, <1>2, <2>1, ClosesAt
  <2>3. depth' = j - (b - 1)
    BY <1>1, <1>5
  <2> QED BY <1>2, <1>4, <1>5, <1>8, <2>1, <2>2, <2>3 DEF AtObject
<1> QED BY <1>3, <1>6, <1>7, <1>8 DEF Value

(* Reading a number.                                                       *)
LEMMA NumberStep ==
  ASSUME Types, Types', NEW j \in 1..Len(text), AtNumber(j), ScanStep
  PROVE  scan_character /\ AtClosing(j)'
<1>1. PICK b \in 1..j :
        /\ Closes(text, b, j) /\ index = b - 1 /\ text[index] = "x"
        /\ Plain /\ depth = j - b + 1
  BY DEF AtNumber
<1>2. /\ Len(text) \in Nat /\ index \in Nat /\ depth \in Int /\ j \in Nat
      /\ index' = index + 1 /\ text' = text
  BY StepIs
<1>3. scan_character
  BY <1>1, CharactersDiffer DEF ScanStep, scan_string, scan_closing, Scanning, Plain
<1>4. depth' = depth /\ Plain'
  BY <1>1, <1>3, CharactersDiffer DEF scan_character, Plain
<1>5. index' = b
  BY <1>1, <1>2
<1> QED BY <1>1, <1>2, <1>3, <1>4, <1>5 DEF AtClosing

(* Reading a brace that closes: the last one brings the depth to zero.     *)
LEMMA ClosingStep ==
  ASSUME Types, Types', NEW j \in 1..Len(text), AtClosing(j), ScanStep
  PROVE  scan_closing /\ AtClosing(j)'
<1>1. Closes(text, index, j) /\ Plain /\ depth = j - index + 1
  BY DEF AtClosing
<1>2. /\ Len(text) \in Nat /\ index \in Nat /\ depth \in Int /\ j \in Nat
      /\ index' = index + 1 /\ text' = text
  BY StepIs
<1>8. index <= j /\ text[index] = RBrace
  BY <1>1, <1>2, ClosesAt
<1>3. scan_closing /\ depth' = depth - 1 /\ depth' # 0
  BY <1>1, <1>8 DEF ScanStep, scan_string, scan_character, scan_closing, Plain
<1>4. index' = index + 1 /\ Plain'
  BY <1>1, <1>3 DEF scan_closing, Advance, Plain
<1>5. index < j
  BY <1>1, <1>2, <1>3, <1>8
<1>6. Closes(text, index + 1, j)
  BY <1>1, <1>2, <1>5, ClosesAt
<1>7. depth' = j - (index + 1) + 1
  BY <1>1, <1>2, <1>3
<1> QED BY <1>2, <1>3, <1>4, <1>6, <1>7 DEF AtClosing

(* Inside an object, every step keeps the scan inside.                     *)
LEMMA InsideStep ==
  ASSUME Types, Types', NEW j \in 1..Len(text), Inside(j), ScanStep
  PROVE  Inside(j)'
BY ObjectStep, StringStep, InStringStep, ColonStep, NumberStep, ClosingStep DEF Inside

(* A brace that counts, inside an object, closes one.                      *)
LEMMA ClosingIs ==
  ASSUME Types, NEW j \in 1..Len(text), Inside(j), scan_closing
  PROVE  AtClosing(j)
<1>1. text[index] = RBrace /\ ~in_string /\ Len(text) \in Nat /\ index \in Nat
  BY DEF scan_closing, Scanning, Types
<1>2. ~AtObject(j)
  <2>1. ASSUME NEW b \in 1..j, Object(text, index, b)
        PROVE  FALSE
    BY <1>1, <2>1, ObjectIs, CharactersDiffer
  <2> QED BY <2>1 DEF AtObject
<1>3. ~AtString(j)
  BY <1>1, CharactersDiffer DEF AtString, IsString
<1>4. ~InString(j)
  BY <1>1 DEF InString
<1>5. ~AtColon(j)
  BY <1>1, CharactersDiffer DEF AtColon, Follows
<1>6. ~AtNumber(j)
  BY <1>1, CharactersDiffer DEF AtNumber
<1> QED BY <1>2, <1>3, <1>4, <1>5, <1>6 DEF Inside

(* What json.loads accepts of the answer.                                  *)
LEMMA ParsesIs ==
  ASSUME Types, NEW i \in 1..Len(text), NEW j \in 1..Len(text)
  PROVE  Parses(i, j) <=> Object(text, i, j)
<1>1. Len(text) \in Nat
  BY DEF Types
<1>2. Object(text, i, j) => i <= j
  BY <1>1, ObjectIs
<1> QED BY <1>2 DEF Parses, Object

-----------------------------------------------------------------------------
(* Nothing was given up and nothing is scanned at first.                   *)
LEMMA InitHolds == Init => IInv
<1> SUFFICES ASSUME Init
             PROVE  IInv
  OBVIOUS
<1>1. text \in Seq(Characters)
  BY ResponsesAssumption DEF Init, Characters
<1>2. Len(text) \in Nat
  BY <1>1
<1>3. /\ stage = "whole" /\ start = 0 /\ index = 0 /\ depth = 0
      /\ in_string = FALSE /\ escaped = FALSE
  BY DEF Init
<1>4. Types
  <2>1. 0 \in 0..Len(text)
    BY <1>2
  <2>2. start \in 0..Len(text) /\ index \in Nat /\ depth \in Int
    BY <1>3, <2>1
  <2>3. in_string \in BOOLEAN /\ escaped \in BOOLEAN
    BY <1>3, Zenon
  <2> QED BY <1>1, <1>3, <2>2, <2>3 DEF Types
<1>5. Scan
  BY <1>3 DEF Scan
<1>6. Found
  BY <1>1, <1>2, <1>3 DEF Found
<1> QED BY <1>4, <1>5, <1>6 DEF IInv

(* Every step keeps the types.                                            *)
LEMMA TypesKeep == IInv /\ [Next]_vars => Types'
<1> SUFFICES ASSUME IInv, [Next]_vars
             PROVE  Types'
  OBVIOUS
<1>0. Types /\ (stage = "scan" => index \in Nat \ {0})
  BY DEF IInv, Types, Scan
<1>1. CASE load_whole
  BY <1>0, <1>1 DEF load_whole, scan, Types
<1>2. CASE find_start
  <2> DEFINE braces == {p \in (start + 1)..Len(text) : text[p] = LBrace}
  <2>1. CASE braces = {}
    BY <1>0, <1>2, <2>1 DEF find_start, scan, Types
  <2>2. CASE braces # {}
    <3>1. Min(braces) \in braces
      <4>1. braces \subseteq Nat
        BY <1>0 DEF Types
      <4> HIDE DEF braces
      <4> QED BY <2>2, <4>1, FirstPosition DEF Min
    <3>2. /\ start' = Min(braces) /\ index' = start' /\ depth' = 0
          /\ in_string' = FALSE /\ escaped' = FALSE
          /\ stage' = "scan" /\ text' = text
      BY <1>2, <2>2 DEF find_start
    <3>3. Min(braces) \in 0..Len(text) /\ Min(braces) \in Nat
      BY <1>0, <3>1 DEF Types
    <3>4. text \in Seq(Characters) /\ Len(text) \in Nat
      BY <1>0 DEF Types
    <3> HIDE DEF braces
    <3>5. text' \in Seq(Characters) /\ stage' = "scan" /\ depth' = 0
      BY <3>2, <3>4
    <3>6. start' \in 0..Len(text') /\ index' \in Nat
      BY <3>2, <3>3
    <3>7. depth' \in Int
      BY <3>2
    <3>8. in_string' \in BOOLEAN /\ escaped' \in BOOLEAN
      BY <3>2, Zenon
    <3> QED BY <3>5, <3>6, <3>7, <3>8 DEF Types
  <2> QED BY <2>1, <2>2
<1>3. CASE scan_string
  BY <1>0, <1>3 DEF scan_string, Advance, Types
<1>4. CASE scan_character
  BY <1>0, <1>4 DEF scan_character, Advance, Types
<1>5. CASE scan_closing
  BY <1>0, <1>5 DEF scan_closing, Scanning, Advance, ResumeAt, Types
<1>6. CASE scan_truncated
  BY <1>0, <1>6 DEF scan_truncated, scan, Types
<1>7. CASE UNCHANGED vars
  BY <1>0, <1>7 DEF vars, scan, Types
<1> QED BY <1>1, <1>2, <1>3, <1>4, <1>5, <1>6, <1>7 DEF Next

(* The whole answer, or a scan for the first object of it.                 *)
LEMMA WholeKeeps ==
  ASSUME IInv, load_whole
  PROVE  Scan' /\ Found'
<1>1. /\ Types /\ Len(text) \in Nat /\ start = 0 /\ text' = text /\ start' = start
      /\ text # << >> => 1 \in 1..Len(text) /\ Len(text) \in 1..Len(text)
      /\ text = << >> => 1..Len(text) = {}
  <2>1. Types /\ stage = "whole"
    BY DEF IInv, load_whole
  <2>2. text \in Seq(Characters) /\ start = 0
    BY <2>1 DEF Types
  <2> QED BY <2>1, <2>2, EmptySeq DEF load_whole
<1>2. NoneBefore(text, 1)
  BY <1>1 DEF NoneBefore
<1>3. CASE text = << >> /\ stage' = "raised"
  BY <1>1, <1>3 DEF Scan, Found
<1>4. CASE text # << >> /\ Parses(1, Len(text)) /\ object' = <<1, Len(text)>> /\ stage' = "parsed"
  <2>1. Object(text, 1, Len(text))
    BY <1>1, <1>4, ParsesIs
  <2> QED BY <1>1, <1>2, <1>4, <2>1 DEF Scan, Found
<1>5. CASE stage' = "find"
  BY <1>1, <1>2, <1>5 DEF Scan, Found
<1> QED BY <1>3, <1>4, <1>5 DEF load_whole

(* The next brace: what lies before it starts no object.                   *)
LEMMA FindKeeps ==
  ASSUME IInv, find_start
  PROVE  Scan' /\ Found'
<1> DEFINE braces == {p \in (start + 1)..Len(text) : text[p] = LBrace}
<1>1. /\ Types /\ Len(text) \in Nat /\ start \in Nat /\ text' = text
      /\ NoneBefore(text, start + 1)
  BY DEF IInv, Types, find_start, Found
<1>2. ASSUME NEW i \in 1..Len(text), NEW j \in 1..Len(text), Object(text, i, j)
      PROVE  i \in braces /\ text[j] = RBrace
  <2>1. text[i] = LBrace /\ text[j] = RBrace
    BY <1>1, <1>2, ObjectIs
  <2>2. start + 1 <= i
    BY <1>1, <1>2 DEF NoneBefore
  <2> QED BY <1>1, <2>1, <2>2
<1>3. CASE braces = {}
  <2>1. stage' = "raised"
    BY <1>3 DEF find_start
  <2> HIDE DEF braces
  <2> QED BY <1>1, <1>2, <1>3, <2>1 DEF Scan, Found
<1>4. CASE braces # {}
  <2>1. Min(braces) \in braces /\ \A p \in braces : Min(braces) <= p
    <3>1. braces \subseteq Nat
      BY <1>1
    <3> HIDE DEF braces
    <3> QED BY <1>4, <3>1, FirstPosition DEF Min
  <2>2. /\ start' = Min(braces) /\ index' = start' /\ depth' = 0
        /\ in_string' = FALSE /\ escaped' = FALSE /\ stage' = "scan"
    BY <1>4 DEF find_start
  <2>3. start' \in 1..Len(text)
    BY <1>1, <2>1, <2>2
  <2> HIDE DEF braces
  <2>4. Found'
    BY <1>1, <1>2, <2>1, <2>2 DEF Found, NoneBefore
  <2>5. ASSUME NEW j \in 1..Len(text), Object(text, start', j)
        PROVE  AtObject(j)'
    <3>1. text[j] = RBrace
      BY <1>2, <2>3, <2>5
    <3>2. Closes(text, j, j)
      BY <3>1 DEF Closes
    <3>3. j \in 1..j /\ 0 = j - j
      BY <1>1
    <3> QED BY <1>1, <2>2, <2>5, <3>2, <3>3 DEF AtObject, Plain
  <2>6. Scan'
    BY <1>1, <2>2, <2>3, <2>5 DEF Scan, Inside
  <2> QED BY <2>4, <2>6
<1> QED BY <1>3, <1>4

(* A step that stays in the answer.                                        *)
LEMMA ScanKeeps ==
  ASSUME IInv, Types', ScanStep
  PROVE  Scan' /\ Found'
<1>1. stage = "scan" /\ stage' = "scan" /\ start' = start /\ Advance
  BY DEF ScanStep, scan_string, scan_character, scan_closing, Scanning, Advance
<1>2. text' = text /\ index' = index + 1 /\ index \in Nat
  BY <1>1 DEF Advance, IInv, Types
<1>3. \A j \in 1..Len(text) : Object(text, start, j) => Inside(j)'
  BY <1>1, InsideStep DEF IInv, Scan
<1> QED BY <1>1, <1>2, <1>3 DEF IInv, Scan, Found

(* The brace that balances the one the scan started from.                  *)
LEMMA BalancedKeeps ==
  ASSUME IInv, scan_closing, depth' = 0
  PROVE  Scan' /\ Found'
<1>1. /\ Types /\ Len(text) \in Nat /\ start \in 1..Len(text) /\ index \in 1..Len(text)
      /\ depth \in Int /\ NoneBefore(text, start)
      /\ \A j \in 1..Len(text) : Object(text, start, j) => Inside(j)
  BY DEF IInv, Types, Scan, Found, scan_closing, Scanning
<1>2. ASSUME NEW j \in 1..Len(text), Object(text, start, j)
      PROVE  j = index
  <2>1. AtClosing(j)
    BY <1>1, <1>2, ClosingIs
  <2>2. depth = j - index + 1 /\ depth - 1 = 0
    BY <2>1 DEF AtClosing, scan_closing
  <2> QED BY <1>1, <2>2
<1>3. text' = text /\ start' = start
  BY DEF scan_closing, ResumeAt
<1>4. CASE Parses(start, index) /\ stage' = "parsed" /\ object' = <<start, index>>
  <2>1. Object(text, start, index)
    BY <1>1, <1>4, ParsesIs
  <2> QED BY <1>1, <1>3, <1>4, <2>1 DEF Scan, Found
<1>5. CASE ~Parses(start, index) /\ stage' = "find"
  <2>1. \A j \in 1..Len(text) : ~Object(text, start, j)
    BY <1>1, <1>2, <1>5, ParsesIs
  <2>2. NoneBefore(text, start + 1)
    BY <1>1, <2>1 DEF NoneBefore
  <2> QED BY <1>3, <1>5, <2>2 DEF Scan, Found
<1> QED BY <1>4, <1>5 DEF scan_closing

(* The scan runs off the end of the answer: no object starts at its brace. *)
LEMMA TruncatedKeeps ==
  ASSUME IInv, scan_truncated
  PROVE  Scan' /\ Found'
<1>1. /\ Types /\ Len(text) \in Nat /\ start \in 1..Len(text) /\ index \in Nat
      /\ index > Len(text) /\ NoneBefore(text, start)
      /\ \A j \in 1..Len(text) : Object(text, start, j) => Inside(j)
  BY DEF IInv, Types, Scan, Found, scan_truncated
<1>2. \A j \in 1..Len(text) : ~Object(text, start, j)
  BY <1>1, InsideIsBefore
<1>3. NoneBefore(text, start + 1)
  BY <1>1, <1>2 DEF NoneBefore
<1> QED BY <1>3 DEF scan_truncated, Scan, Found

(* The invariant holds throughout a call.                                  *)
LEMMA InvariantHolds == Spec => []IInv
<1>1. ASSUME IInv, [Next]_vars
      PROVE  IInv'
  <2>0. Types'
    BY <1>1, TypesKeep
  <2>1. CASE load_whole
    BY <1>1, <2>0, <2>1, WholeKeeps DEF IInv
  <2>2. CASE find_start
    BY <1>1, <2>0, <2>2, FindKeeps DEF IInv
  <2>3. CASE ScanStep
    BY <1>1, <2>0, <2>3, ScanKeeps DEF IInv
  <2>4. CASE scan_closing /\ depth' = 0
    BY <1>1, <2>0, <2>4, BalancedKeeps DEF IInv
  <2>5. CASE scan_truncated
    BY <1>1, <2>0, <2>5, TruncatedKeeps DEF IInv
  <2>6. CASE UNCHANGED vars
    <3>1. /\ UNCHANGED <<text, stage, start, object>>
          /\ UNCHANGED <<index, depth, in_string, escaped>>
      BY <2>6 DEF vars, scan
    <3> QED BY <1>1, <2>0, <3>1
            DEF IInv, Scan, Found, Inside, AtObject, AtString, InString, AtColon,
                AtNumber, AtClosing, Plain
  <2> QED BY <1>1, <2>1, <2>2, <2>3, <2>4, <2>5, <2>6 DEF Next, ScanStep
<1> QED BY <1>1, InitHolds, PTL DEF Spec

(* The object returned is the first of the answer, and the call raises     *)
(* only if there is none: FirstObjectRecovered, for answers of any length, *)
(* whatever prose, braces in strings and truncated objects surround it.    *)
THEOREM FirstObjectRecoveredHolds == Spec => []FirstObjectRecovered
<1>1. IInv => FirstObjectRecovered
  <2> SUFFICES ASSUME IInv
               PROVE  FirstObjectRecovered
    OBVIOUS
  <2> DEFINE objects == {span \in Span(text) : Parses(span[1], span[2])}
             starts == {span[1] : span \in objects}
  <2>1. Types /\ Len(text) \in Nat
    BY DEF IInv, Types
  <2>2. \A i, j \in 1..Len(text) : <<i, j>> \in objects <=> Object(text, i, j)
    BY <2>1, ParsesIs DEF Span
  <2>3. \A span \in objects :
          /\ span = <<span[1], span[2]>>
          /\ span[1] \in 1..Len(text) /\ span[2] \in 1..Len(text)
    BY DEF Span
  <2>4. ASSUME stage = "parsed"
        PROVE  object \in objects /\ object[1] = Min(starts)
    <3>1. PICK i \in 1..Len(text), j \in 1..Len(text) :
            object = <<i, j>> /\ Object(text, i, j) /\ NoneBefore(text, i)
      BY <2>4 DEF IInv, Found
    <3>2. object \in objects /\ object[1] = i
      BY <2>2, <3>1
    <3> HIDE DEF objects
    <3>3. i \in starts
      BY <3>2
    <3>4. \A s \in starts : s \in 1..Len(text) /\ i <= s
      BY <2>2, <2>3, <3>1 DEF NoneBefore
    <3> HIDE DEF starts
    <3>5. \A s \in starts : (\A r \in starts : s <= r) => s = i
      BY <2>1, <3>3, <3>4
    <3>6. Min(starts) = i
      BY <3>3, <3>4, <3>5 DEF Min
    <3> QED BY <3>2, <3>6
  <2>5. stage = "raised" => objects = {}
    <3>1. stage = "raised" => \A i, j \in 1..Len(text) : <<i, j>> \notin objects
      BY <2>2 DEF IInv, Found
    <3> HIDE DEF objects
    <3> QED BY <2>3, <3>1
  <2> HIDE DEF objects, starts
  <2> QED BY <2>4, <2>5 DEF FirstObjectRecovered, objects, starts
<1> QED BY <1>1, InvariantHolds, PTL
=============================================================================

------------------------- MODULE BusinessRulesProofs -------------------------
(***************************************************************************)
(* The business rules for every consistent document: whatever its amounts  *)
(* and dates are, and in whatever convention they are printed.             *)
(***************************************************************************)
EXTENDS BusinessRules, SequenceTheorems, WellFoundedInduction, TLAPS

(* A nonempty set of numbers has a least one.                              *)
LEMMA LeastNumber ==
  ASSUME NEW S, S \subseteq Nat, S # {}
  PROVE  \E q \in S : \A r \in S : q <= r
<1>1. IsWellFoundedOn(OpToRel(<, Nat), Nat)
  BY NatLessThanWellFounded
<1>2. \E q \in S : \A r \in S : <<r, q>> \notin OpToRel(<, Nat)
  BY <1>1, WFMin
<1>3. \A q, r \in Nat : <<r, q>> \notin OpToRel(<, Nat) => q <= r
  BY DEF OpToRel
<1> QED BY <1>2, <1>3

(* What holds of zero, and of a number when it holds of those before it,   *)
(* holds of all.                                                           *)
LEMMA StrongInduction ==
  ASSUME NEW n \in Nat, NEW Holds,
         \A m \in 0..n : (\A k \in 0..(m - 1) : k \in Holds) => m \in Holds
  PROVE  0..n \subseteq Holds
<1> DEFINE fails == (0..n) \ Holds
<1> SUFFICES ASSUME fails # {}
             PROVE  FALSE
  OBVIOUS
<1>0. fails \subseteq Nat
  OBVIOUS
<1>1. PICK m \in fails : \A other \in fails : m <= other
  <2> HIDE DEF fails
  <2> QED BY <1>0, LeastNumber
<1>2. \A k \in 0..(m - 1) : k \in Holds
  BY <1>1
<1> QED BY <1>1, <1>2

LEMMA StepInduction ==
  ASSUME NEW n \in Nat, NEW Holds, 0 \in Holds,
         \A m \in 1..n : m - 1 \in Holds => m \in Holds
  PROVE  0..n \subseteq Holds
<1>1. ASSUME NEW m \in 0..n, \A k \in 0..(m - 1) : k \in Holds
      PROVE  m \in Holds
  BY <1>1
<1> QED BY <1>1, StrongInduction

-----------------------------------------------------------------------------
(* The equation of the filter, for the first n characters.                 *)
Filters(kept, text, chars, n) ==
  kept = [i \in 0..n |->
            IF i = 0 THEN << >>
            ELSE IF text[i] \in chars THEN Append(kept[i - 1], text[i])
            ELSE kept[i - 1]]

LEMMA FilterExists ==
  ASSUME NEW text, NEW chars, NEW n \in Nat
  PROVE  \E kept : Filters(kept, text, chars, n)
<1> DEFINE holds == {m \in 0..n : \E kept : Filters(kept, text, chars, m)}
<1>1. 0 \in holds
  <2> DEFINE f == [i \in 0..0 |-> << >>]
  <2>1. Filters(f, text, chars, 0)
    BY DEF Filters
  <2> QED BY <2>1
<1>2. ASSUME NEW m \in 1..n, m - 1 \in holds
      PROVE  m \in holds
  <2>1. PICK f : Filters(f, text, chars, m - 1)
    BY <1>2
  <2> DEFINE g == [i \in 0..m |->
                     IF i = m THEN (IF text[m] \in chars THEN Append(f[m - 1], text[m])
                                    ELSE f[m - 1])
                     ELSE f[i]]
  <2>2. ASSUME NEW i \in 0..m
        PROVE  g[i] = IF i = 0 THEN << >>
                      ELSE IF text[i] \in chars THEN Append(g[i - 1], text[i])
                      ELSE g[i - 1]
    <3>1. CASE i = m
      BY <3>1
    <3>2. CASE i # m
      <4>1. i \in 0..(m - 1) /\ (i # 0 => i - 1 \in 0..m /\ i - 1 # m)
        BY <3>2
      <4>2. f[i] = IF i = 0 THEN << >>
                   ELSE IF text[i] \in chars THEN Append(f[i - 1], text[i])
                   ELSE f[i - 1]
        BY <4>1, <2>1 DEF Filters
      <4> QED BY <4>1, <4>2, <3>2
    <3> QED BY <3>1, <3>2
  <2>3. Filters(g, text, chars, m)
    BY <2>2 DEF Filters
  <2> QED BY <2>3
<1>3. 0..n \subseteq holds
  <2> HIDE DEF holds
  <2> QED BY <1>1, <1>2, StepInduction
<1> QED BY <1>3

(* How a filtered text comes about, character by character.                *)
Keeps(kept, text, chars, T) ==
  /\ kept \in [0..Len(text) -> Seq(T)]
  /\ kept[0] = << >>
  /\ \A i \in 1..Len(text) :
       kept[i] = IF text[i] \in chars THEN Append(kept[i - 1], text[i]) ELSE kept[i - 1]
  /\ Only(text, chars) = kept[Len(text)]

LEMMA OnlyIs ==
  ASSUME NEW S, NEW text \in Seq(S), NEW chars, NEW T, S \cap chars \subseteq T
  PROVE  \E kept : Keeps(kept, text, chars, T)
<1>0. PICK n \in Nat : n = Len(text)
  OBVIOUS
<1>1. PICK kept : /\ Filters(kept, text, chars, n)
                  /\ kept = CHOOSE f : Filters(f, text, chars, n)
  BY FilterExists
<1>2. Only(text, chars) = kept[n]
  BY <1>0, <1>1 DEF Only, Filters
<1>3. \A i \in 0..n :
        kept[i] = IF i = 0 THEN << >>
                  ELSE IF text[i] \in chars THEN Append(kept[i - 1], text[i])
                  ELSE kept[i - 1]
  BY <1>1 DEF Filters
<1> DEFINE typed == {i \in 0..n : kept[i] \in Seq(T)}
<1>4. 0 \in typed
  <2>1. kept[0] = << >>
    BY <1>3
  <2>2. kept[0] \in Seq(T)
    BY <2>1, EmptySeq, Zenon
  <2> QED BY <2>2
<1>5. ASSUME NEW m \in 1..n, m - 1 \in typed
      PROVE  m \in typed
  <2>1. text[m] \in S
    BY <1>0
  <2>2. m # 0 /\ m \in 0..n
    OBVIOUS
  <2>3. kept[m] = IF text[m] \in chars THEN Append(kept[m - 1], text[m]) ELSE kept[m - 1]
    BY <1>3, <2>2
  <2>4. text[m] \in chars => Append(kept[m - 1], text[m]) \in Seq(T)
    BY <2>1, <1>5, AppendProperties
  <2> QED BY <2>2, <2>3, <2>4, <1>5
<1>6. 0..n \subseteq typed
  <2> HIDE DEF typed
  <2> QED BY <1>4, <1>5, StepInduction
<1>7. kept \in [0..n -> Seq(T)]
  BY <1>1, <1>6 DEF Filters
<1>8. kept[0] = << >>
  BY <1>3
<1>9. ASSUME NEW i \in 1..n
      PROVE  kept[i] = IF text[i] \in chars THEN Append(kept[i - 1], text[i])
                       ELSE kept[i - 1]
  BY <1>3
<1>10. Keeps(kept, text, chars, T)
  BY <1>0, <1>2, <1>7, <1>8, <1>9 DEF Keeps
<1> QED BY <1>10

LEMMA OnlyTyped ==
  ASSUME NEW S, NEW text \in Seq(S), NEW chars, NEW T, S \cap chars \subseteq T
  PROVE  Only(text, chars) \in Seq(T)
<1>1. PICK kept : Keeps(kept, text, chars, T)
  BY OnlyIs
<1>2. Len(text) \in 0..Len(text)
  OBVIOUS
<1> QED BY <1>1, <1>2 DEF Keeps

LEMMA KeepsExists ==
  ASSUME NEW S, NEW text \in Seq(S), NEW chars
  PROVE  \E kept : Keeps(kept, text, chars, S)
<1>1. S \cap chars \subseteq S
  OBVIOUS
<1> QED BY <1>1, OnlyIs

(* Characters that are all wanted stay, and of unwanted ones none.         *)
LEMMA OnlyAll ==
  ASSUME NEW S, NEW text \in Seq(S), NEW chars, S \subseteq chars
  PROVE  Only(text, chars) = text
<1>0. PICK n \in Nat : n = Len(text) /\ \A i \in 1..n : text[i] \in S
  OBVIOUS
<1>1. PICK kept : Keeps(kept, text, chars, S)
  BY KeepsExists
<1> DEFINE same == {i \in 0..n : Len(kept[i]) = i /\ \A k \in 1..i : kept[i][k] = text[k]}
<1>2. 0 \in same
  <2>1. Len(kept[0]) = 0
    BY <1>1, EmptySeq, Zenon DEF Keeps
  <2> QED BY <2>1
<1>3. ASSUME NEW m \in 1..n, m - 1 \in same
      PROVE  m \in same
  <2>1. text[m] \in S
    BY <1>0
  <2>2. kept[m] = Append(kept[m - 1], text[m])
    BY <1>0, <1>1, <2>1 DEF Keeps
  <2>3. kept[m - 1] \in Seq(S) /\ Len(kept[m - 1]) = m - 1
    BY <1>0, <1>1, <1>3 DEF Keeps
  <2>4. Len(kept[m]) = m /\ kept[m][m] = text[m]
    BY <2>1, <2>2, <2>3, AppendProperties
  <2>5. ASSUME NEW k \in 1..(m - 1)
        PROVE  kept[m][k] = text[k]
    <3>1. kept[m][k] = kept[m - 1][k]
      BY <2>1, <2>2, <2>3, AppendProperties
    <3> QED BY <3>1, <1>3
  <2> QED BY <2>4, <2>5
<1>4. 0..n \subseteq same
  <2> HIDE DEF same
  <2> QED BY <1>2, <1>3, StepInduction
<1>5. n \in same /\ kept[n] \in Seq(S)
  BY <1>0, <1>1, <1>4 DEF Keeps
<1>6. kept[n] = text
  BY <1>0, <1>5, SeqEqual
<1> QED BY <1>0, <1>1, <1>6 DEF Keeps

LEMMA OnlyNone ==
  ASSUME NEW S, NEW text \in Seq(S), NEW chars, S \cap chars = {}
  PROVE  Only(text, chars) = << >>
<1>0. PICK n \in Nat : n = Len(text) /\ \A i \in 1..n : text[i] \in S
  OBVIOUS
<1>1. PICK kept : Keeps(kept, text, chars, S)
  BY KeepsExists
<1> DEFINE same == {i \in 0..n : kept[i] = kept[0]}
<1>2. 0 \in same
  OBVIOUS
<1>3. ASSUME NEW m \in 1..n, m - 1 \in same
      PROVE  m \in same
  <2>1. text[m] \notin chars
    BY <1>0
  <2> QED BY <1>0, <1>1, <1>3, <2>1 DEF Keeps
<1>4. 0..n \subseteq same
  <2> HIDE DEF same
  <2> QED BY <1>2, <1>3, StepInduction
<1>5. kept[n] = kept[0]
  BY <1>4
<1> QED BY <1>0, <1>1, <1>5, Zenon DEF Keeps

(* Only the wanted characters of the text count.                           *)
LEMMA OnlySame ==
  ASSUME NEW S, NEW text \in Seq(S), NEW chars, NEW others, S \cap chars = S \cap others
  PROVE  Only(text, chars) = Only(text, others)
<1>0. PICK n \in Nat : n = Len(text) /\ \A i \in 1..n : text[i] \in S
  OBVIOUS
<1>1. PICK kept : Keeps(kept, text, chars, S)
  BY KeepsExists
<1>2. PICK other : Keeps(other, text, others, S)
  BY KeepsExists
<1> DEFINE same == {i \in 0..n : kept[i] = other[i]}
<1>3. 0 \in same
  <2>1. kept[0] = other[0]
    BY <1>1, <1>2, Zenon DEF Keeps
  <2> QED BY <2>1
<1>4. ASSUME NEW m \in 1..n, m - 1 \in same
      PROVE  m \in same
  <2>1. text[m] \in chars <=> text[m] \in others
    BY <1>0
  <2> QED BY <1>0, <1>1, <1>2, <1>4, <2>1 DEF Keeps
<1>5. 0..n \subseteq same
  <2> HIDE DEF same
  <2> QED BY <1>3, <1>4, StepInduction
<1>6. kept[n] = other[n]
  BY <1>5
<1> QED BY <1>0, <1>1, <1>2, <1>6 DEF Keeps

LEMMA OnlyConcat ==
  ASSUME NEW S, NEW s \in Seq(S), NEW t \in Seq(S), NEW chars
  PROVE  Only(s \o t, chars) = Only(s, chars) \o Only(t, chars)
<1>0. PICK n \in Nat, m \in Nat : n = Len(s) /\ m = Len(t)
  OBVIOUS
<1> DEFINE st == s \o t
<1>1. st \in Seq(S) /\ Len(st) = n + m
  BY <1>0, ConcatProperties
<1>2. ASSUME NEW i \in 1..n
      PROVE  st[i] = s[i]
  BY <1>0, ConcatProperties
<1>3. ASSUME NEW i \in 1..m
      PROVE  st[n + i] = t[i] /\ t[i] \in S
  <2>1. n + i \in 1..(n + m) /\ ~ (n + i <= n) /\ (n + i) - n = i
    OBVIOUS
  <2>2. st[n + i] = t[(n + i) - n]
    BY <1>0, <2>1, ConcatProperties
  <2> QED BY <1>0, <2>1, <2>2
<1> HIDE DEF st
<1>4. PICK left : Keeps(left, s, chars, S)
  BY KeepsExists
<1>5. PICK right : Keeps(right, t, chars, S)
  BY KeepsExists
<1>6. PICK both : Keeps(both, st, chars, S)
  BY <1>1, KeepsExists
<1> DEFINE first == {i \in 0..n : both[i] = left[i]}
           joined(i) == left[n] \o right[i]
           second == {i \in 0..m : both[n + i] = joined(i)}
<1>7. 0..n \subseteq first
  <2>1. 0 \in first
    <3>1. both[0] = left[0]
      BY <1>4, <1>6, Zenon DEF Keeps
    <3> QED BY <3>1
  <2>2. ASSUME NEW i \in 1..n, i - 1 \in first
        PROVE  i \in first
    <3>1. i \in 1..(n + m)
      OBVIOUS
    <3>2. both[i] = IF s[i] \in chars THEN Append(both[i - 1], s[i]) ELSE both[i - 1]
      BY <1>1, <1>2, <1>6, <3>1 DEF Keeps
    <3>3. left[i] = IF s[i] \in chars THEN Append(left[i - 1], s[i]) ELSE left[i - 1]
      BY <1>0, <1>4 DEF Keeps
    <3> QED BY <2>2, <3>2, <3>3
  <2> HIDE DEF first
  <2> QED BY <2>1, <2>2, StepInduction
<1>8. left[n] \in Seq(S)
  BY <1>0, <1>4 DEF Keeps
<1>9. 0..m \subseteq second
  <2>1. 0 \in second
    <3>1. both[n] = left[n]
      BY <1>7
    <3>2. left[n] = left[n] \o right[0]
      BY <1>5, <1>8, ConcatEmptySeq, Zenon DEF Keeps
    <3>3. both[n] = joined(0)
      BY <3>1, <3>2, Zenon
    <3>4. n + 0 = n
      OBVIOUS
    <3> HIDE DEF joined
    <3> QED BY <3>3, <3>4
  <2>2. ASSUME NEW i \in 1..m, i - 1 \in second
        PROVE  i \in second
    <3>1. n + i \in 1..(n + m) /\ (n + i) - 1 = n + (i - 1)
      OBVIOUS
    <3>2. both[n + i] = IF t[i] \in chars THEN Append(both[n + (i - 1)], t[i])
                        ELSE both[n + (i - 1)]
      BY <1>1, <1>3, <1>6, <3>1 DEF Keeps
    <3>3. both[n + (i - 1)] = left[n] \o right[i - 1]
      BY <2>2
    <3>4. right[i] = IF t[i] \in chars THEN Append(right[i - 1], t[i]) ELSE right[i - 1]
      BY <1>0, <1>5 DEF Keeps
    <3>5. right[i - 1] \in Seq(S) /\ t[i] \in S
      <4>1. i - 1 \in 0..m
        OBVIOUS
      <4> QED BY <4>1, <1>0, <1>3, <1>5 DEF Keeps
    <3>6. Append(left[n] \o right[i - 1], t[i]) = left[n] \o Append(right[i - 1], t[i])
      <4>1. PICK front \in Seq(S), back \in Seq(S), c \in S :
              front = left[n] /\ back = right[i - 1] /\ c = t[i]
        BY <1>8, <3>5
      <4>2. front \o back \in Seq(S) /\ <<c>> \in Seq(S)
        BY ConcatProperties
      <4>3. Append(front \o back, c) = (front \o back) \o <<c>> /\ Append(back, c) = back \o <<c>>
        BY <4>2, AppendIsConcat
      <4>4. (front \o back) \o <<c>> = front \o (back \o <<c>>)
        BY SMTT(30), <4>2, ConcatAssociative
      <4> QED BY <4>1, <4>3, <4>4
    <3>7. both[n + i] = joined(i)
      BY <3>2, <3>3, <3>4, <3>6
    <3> HIDE DEF joined
    <3> QED BY <3>7
  <2> HIDE DEF second
  <2> QED BY <2>1, <2>2, StepInduction
<1>10. both[n + m] = left[n] \o right[m]
  <2>1. both[n + m] = joined(m)
    <3> HIDE DEF joined
    <3> QED BY <1>9
  <2> QED BY <2>1
<1>11. Only(st, chars) = both[n + m] /\ Only(s, chars) = left[n] /\ Only(t, chars) = right[m]
  BY <1>0, <1>1, <1>4, <1>5, <1>6 DEF Keeps
<1> QED BY <1>10, <1>11 DEF st

(* The same, with a name for the provers to go by.                         *)
OnlySplits(s, t, chars) == Only(s \o t, chars) = Only(s, chars) \o Only(t, chars)

LEMMA OnlySplitsHolds ==
  ASSUME NEW S, NEW s \in Seq(S), NEW t \in Seq(S), NEW chars
  PROVE  OnlySplits(s, t, chars)
BY OnlyConcat DEF OnlySplits

-----------------------------------------------------------------------------
(* The ten digits, and what they are worth.                                *)
LEMMA DigitsAre ==
  /\ Len(DigitAt) = 10 /\ DOMAIN DigitAt = 1..10
  /\ \A i, j \in 1..10 : DigitAt[i] = DigitAt[j] => i = j
<1>1. Len(DigitAt) = 10 /\ DOMAIN DigitAt = 1..10
  BY DEF DigitAt
<1>2. /\ DigitAt[1] = "0" /\ DigitAt[2] = "1" /\ DigitAt[3] = "2" /\ DigitAt[4] = "3"
      /\ DigitAt[5] = "4" /\ DigitAt[6] = "5" /\ DigitAt[7] = "6" /\ DigitAt[8] = "7"
      /\ DigitAt[9] = "8" /\ DigitAt[10] = "9"
  BY DEF DigitAt
<1>3. ASSUME NEW i \in 1..10, NEW j \in 1..10, DigitAt[i] = DigitAt[j]
      PROVE  i = j
  <2>1. i \in {1, 2, 3, 4, 5, 6, 7, 8, 9, 10} /\ j \in {1, 2, 3, 4, 5, 6, 7, 8, 9, 10}
    OBVIOUS
  <2> QED BY <2>1, <1>2, <1>3
<1> QED BY <1>1, <1>3

LEMMA DigitValueIs ==
  ASSUME NEW k \in 0..9
  PROVE  DigitValue(DigitAt[k + 1]) = k /\ DigitAt[k + 1] \in DigitChars
<1> DEFINE c == DigitAt[k + 1]
           at == {i \in 1..Len(DigitAt) : DigitAt[i] = c}
<1>1. at = {k + 1}
  <2>1. k + 1 \in 1..10
    OBVIOUS
  <2> QED BY <2>1, DigitsAre
<1>2. Min(at) = k + 1
  <2> HIDE DEF at
  <2> QED BY <1>1 DEF Min
<1>3. DigitValue(c) = Min(at) - 1
  <2>1. at # {}
    BY <1>1
  <2> QED BY <2>1 DEF DigitValue, SelectInSeq
<1>4. DigitAt[k + 1] \in DigitChars
  BY DigitsAre DEF DigitChars, ToSet
<1> QED BY <1>2, <1>3, <1>4

LEMMA DigitValueType ==
  ASSUME NEW c \in DigitChars
  PROVE  DigitValue(c) \in 0..9
<1>1. PICK i \in 1..10 : c = DigitAt[i]
  BY DigitsAre DEF DigitChars, ToSet
<1>2. i - 1 \in 0..9 /\ (i - 1) + 1 = i
  OBVIOUS
<1>3. DigitValue(DigitAt[(i - 1) + 1]) = i - 1
  BY <1>2, DigitValueIs
<1> QED BY <1>1, <1>2, <1>3

(* The equation of the number, for the first n digits.                     *)
Counts(value, digits, n) ==
  value = [i \in 0..n |->
             IF i = 0 THEN 0 ELSE 10 * value[i - 1] + DigitValue(digits[i])]

LEMMA CountExists ==
  ASSUME NEW digits, NEW n \in Nat
  PROVE  \E value : Counts(value, digits, n)
<1> DEFINE holds == {m \in 0..n : \E value : Counts(value, digits, m)}
<1>1. 0 \in holds
  <2> DEFINE f == [i \in 0..0 |-> 0]
  <2>1. Counts(f, digits, 0)
    BY DEF Counts
  <2> QED BY <2>1
<1>2. ASSUME NEW m \in 1..n, m - 1 \in holds
      PROVE  m \in holds
  <2>1. PICK f : Counts(f, digits, m - 1)
    BY <1>2
  <2> DEFINE g == [i \in 0..m |->
                     IF i = m THEN 10 * f[m - 1] + DigitValue(digits[m]) ELSE f[i]]
  <2>2. ASSUME NEW i \in 0..m
        PROVE  g[i] = IF i = 0 THEN 0 ELSE 10 * g[i - 1] + DigitValue(digits[i])
    <3>1. CASE i = m
      BY <3>1
    <3>2. CASE i # m
      <4>1. i \in 0..(m - 1) /\ (i # 0 => i - 1 \in 0..m /\ i - 1 # m)
        BY <3>2
      <4>2. f[i] = IF i = 0 THEN 0 ELSE 10 * f[i - 1] + DigitValue(digits[i])
        BY <4>1, <2>1 DEF Counts
      <4> QED BY <4>1, <4>2, <3>2
    <3> QED BY <3>1, <3>2
  <2>3. Counts(g, digits, m)
    BY <2>2 DEF Counts
  <2> QED BY <2>3
<1>3. 0..n \subseteq holds
  <2> HIDE DEF holds
  <2> QED BY <1>1, <1>2, StepInduction
<1> QED BY <1>3

(* How the number comes about, digit by digit.                             *)
Reads(value, digits) ==
  /\ value \in [0..Len(digits) -> Nat]
  /\ value[0] = 0
  /\ \A i \in 1..Len(digits) : value[i] = 10 * value[i - 1] + DigitValue(digits[i])
  /\ Number(digits) = value[Len(digits)]

LEMMA NumberIs ==
  ASSUME NEW digits \in Seq(DigitChars)
  PROVE  \E value : Reads(value, digits)
<1>0. PICK n \in Nat : n = Len(digits)
  OBVIOUS
<1>1. PICK value : /\ Counts(value, digits, n)
                   /\ value = CHOOSE f : Counts(f, digits, n)
  BY CountExists
<1>2. Number(digits) = value[n]
  BY <1>0, <1>1 DEF Number, Counts
<1>3. \A i \in 0..n : value[i] = IF i = 0 THEN 0 ELSE 10 * value[i - 1] + DigitValue(digits[i])
  BY <1>1 DEF Counts
<1> DEFINE typed == {i \in 0..n : value[i] \in Nat}
<1>4. 0 \in typed
  BY <1>3
<1>5. ASSUME NEW m \in 1..n, m - 1 \in typed
      PROVE  m \in typed
  <2>1. digits[m] \in DigitChars
    BY <1>0
  <2>2. DigitValue(digits[m]) \in Nat
    BY <2>1, DigitValueType
  <2>3. m # 0 /\ m \in 0..n
    OBVIOUS
  <2>4. value[m] = 10 * value[m - 1] + DigitValue(digits[m])
    BY <1>3, <2>3
  <2> QED BY <2>2, <2>4, <1>5
<1>6. 0..n \subseteq typed
  <2> HIDE DEF typed
  <2> QED BY <1>4, <1>5, StepInduction
<1>7. value \in [0..n -> Nat]
  BY <1>1, <1>6 DEF Counts
<1>8. value[0] = 0
  BY <1>3
<1>9. ASSUME NEW i \in 1..n
      PROVE  value[i] = 10 * value[i - 1] + DigitValue(digits[i])
  BY <1>3
<1>10. Reads(value, digits)
  BY <1>0, <1>2, <1>7, <1>8, <1>9 DEF Reads
<1> QED BY <1>10

LEMMA NumberType ==
  ASSUME NEW digits \in Seq(DigitChars)
  PROVE  Number(digits) \in Nat
<1>1. PICK value : Reads(value, digits)
  BY NumberIs
<1>2. Len(digits) \in 0..Len(digits)
  OBVIOUS
<1> QED BY <1>1, <1>2 DEF Reads

(* A further digit shifts the number.                                      *)
LEMMA NumberShifts ==
  ASSUME NEW digits \in Seq(DigitChars), NEW k \in 0..9
  PROVE  /\ digits \o <<DigitAt[k + 1]>> \in Seq(DigitChars)
         /\ Number(digits \o <<DigitAt[k + 1]>>) = 10 * Number(digits) + k
<1> DEFINE c == DigitAt[k + 1]
           longer == digits \o <<c>>
<1>0. PICK n \in Nat : n = Len(digits)
  OBVIOUS
<1>1. c \in DigitChars /\ DigitValue(c) = k
  BY DigitValueIs
<1>2. longer \in Seq(DigitChars) /\ Len(longer) = n + 1 /\ longer[n + 1] = c
      /\ \A i \in 1..n : longer[i] = digits[i]
  <2> HIDE DEF c
  <2>1. <<c>> \in Seq(DigitChars) /\ Len(<<c>>) = 1 /\ <<c>>[1] = c
    BY <1>1
  <2> QED BY <1>0, <2>1, ConcatProperties
<1> HIDE DEF longer, c
<1>3. PICK value : Reads(value, digits)
  BY NumberIs
<1>4. PICK shifted : Reads(shifted, longer)
  BY <1>2, NumberIs
<1> DEFINE same == {i \in 0..n : shifted[i] = value[i]}
<1>5. 0 \in same
  BY <1>3, <1>4 DEF Reads
<1>6. ASSUME NEW i \in 1..n, i - 1 \in same
      PROVE  i \in same
  <2>1. i \in 1..(n + 1)
    OBVIOUS
  <2>2. shifted[i] = 10 * shifted[i - 1] + DigitValue(digits[i])
    BY <1>2, <1>4, <2>1 DEF Reads
  <2>3. value[i] = 10 * value[i - 1] + DigitValue(digits[i])
    BY <1>0, <1>3 DEF Reads
  <2> QED BY <1>6, <2>2, <2>3
<1>7. 0..n \subseteq same
  <2> HIDE DEF same
  <2> QED BY <1>5, <1>6, StepInduction
<1>8. shifted[n] = value[n] /\ Number(digits) = value[n]
  BY <1>0, <1>3, <1>7 DEF Reads
<1>9. n + 1 \in 1..(n + 1) /\ (n + 1) - 1 = n
  OBVIOUS
<1>10. Number(longer) = shifted[n + 1] /\ shifted[n + 1] = 10 * shifted[n] + DigitValue(c)
  BY <1>2, <1>4, <1>9 DEF Reads
<1>11. Number(longer) = 10 * Number(digits) + k
  BY <1>1, <1>8, <1>10
<1> QED BY <1>2, <1>11 DEF longer, c

LEMMA NumberOfNothing == Number(<< >>) = 0
<1>1. << >> \in Seq(DigitChars) /\ Len(<< >>) = 0
  BY EmptySeq
<1>2. PICK value : Reads(value, << >>)
  BY <1>1, NumberIs
<1> QED BY <1>1, <1>2 DEF Reads

LEMMA NothingBefore ==
  ASSUME NEW S, NEW s \in Seq(S)
  PROVE  << >> \o s = s
BY ConcatEmptySeq

(* Digits behind a text come one by one.                                   *)
LEMMA PairBehind ==
  ASSUME NEW S, NEW s \in Seq(S), NEW a \in S, NEW b \in S
  PROVE  s \o <<a, b>> = (s \o <<a>>) \o <<b>>
<1>0. PICK n \in Nat : n = Len(s)
  OBVIOUS
<1>1. /\ <<a>> \in Seq(S) /\ Len(<<a>>) = 1 /\ <<a>>[1] = a
      /\ <<b>> \in Seq(S) /\ Len(<<b>>) = 1 /\ <<b>>[1] = b
      /\ <<a, b>> \in Seq(S) /\ Len(<<a, b>>) = 2 /\ <<a, b>>[1] = a /\ <<a, b>>[2] = b
  OBVIOUS
<1>2. PICK x \in Seq(S), y \in Seq(S), p \in Seq(S) : x = <<a>> /\ y = <<b>> /\ p = <<a, b>>
  BY <1>1
<1>3. /\ s \o x \in Seq(S) /\ Len(s \o x) = n + 1 /\ (s \o x)[n + 1] = a
      /\ \A i \in 1..n : (s \o x)[i] = s[i]
  BY <1>0, <1>1, <1>2, ConcatProperties
<1>4. PICK front \in Seq(S) : front = s \o x /\ Len(front) = n + 1
  BY <1>3
<1>5. /\ front \o y \in Seq(S) /\ Len(front \o y) = n + 2
      /\ (front \o y)[n + 2] = b
      /\ \A i \in 1..(n + 1) : (front \o y)[i] = front[i]
  <2>1. Len(y) = 1 /\ y[1] = b /\ Len(front) \in Nat
    BY <1>1, <1>2
  <2>2. /\ front \o y \in Seq(S) /\ Len(front \o y) = Len(front) + Len(y)
        /\ \A i \in 1..(Len(front) + Len(y)) :
             (front \o y)[i] = IF i <= Len(front) THEN front[i] ELSE y[i - Len(front)]
    BY ConcatProperties
  <2> QED BY <1>4, <2>1, <2>2
<1>6. /\ s \o p \in Seq(S) /\ Len(s \o p) = n + 2
      /\ (s \o p)[n + 1] = a /\ (s \o p)[n + 2] = b
      /\ \A i \in 1..n : (s \o p)[i] = s[i]
  BY <1>0, <1>1, <1>2, ConcatProperties
<1>7. \A i \in 1..(n + 2) : (s \o p)[i] = (front \o y)[i]
  <2>1. \A i \in 1..(n + 2) : i \in 1..n \/ i = n + 1 \/ i = n + 2
    OBVIOUS
  <2>2. n + 1 \in 1..(n + 1) /\ \A i \in 1..n : i \in 1..(n + 1)
    OBVIOUS
  <2> QED BY <1>3, <1>4, <1>5, <1>6, <2>1, <2>2
<1>8. s \o p = front \o y
  BY <1>5, <1>6, <1>7, SeqEqual
<1> QED BY <1>2, <1>4, <1>8

LEMMA TripleBehind ==
  ASSUME NEW S, NEW s \in Seq(S), NEW a \in S, NEW b \in S, NEW c \in S
  PROVE  s \o <<a, b, c>> = (s \o <<a, b>>) \o <<c>>
<1>0. PICK n \in Nat : n = Len(s)
  OBVIOUS
<1>1. /\ <<c>> \in Seq(S) /\ Len(<<c>>) = 1 /\ <<c>>[1] = c
      /\ <<a, b>> \in Seq(S) /\ Len(<<a, b>>) = 2 /\ <<a, b>>[1] = a /\ <<a, b>>[2] = b
      /\ <<a, b, c>> \in Seq(S) /\ Len(<<a, b, c>>) = 3
      /\ <<a, b, c>>[1] = a /\ <<a, b, c>>[2] = b /\ <<a, b, c>>[3] = c
  OBVIOUS
<1>2. PICK p \in Seq(S), z \in Seq(S), t \in Seq(S) : p = <<a, b>> /\ z = <<c>> /\ t = <<a, b, c>>
  BY <1>1
<1>3. /\ s \o p \in Seq(S) /\ Len(s \o p) = n + 2
      /\ (s \o p)[n + 1] = a /\ (s \o p)[n + 2] = b
      /\ \A i \in 1..n : (s \o p)[i] = s[i]
  BY <1>0, <1>1, <1>2, ConcatProperties
<1>4. PICK front \in Seq(S) : front = s \o p /\ Len(front) = n + 2
  BY <1>3
<1>5. /\ front \o z \in Seq(S) /\ Len(front \o z) = n + 3
      /\ (front \o z)[n + 3] = c
      /\ \A i \in 1..(n + 2) : (front \o z)[i] = front[i]
  <2>1. Len(z) = 1 /\ z[1] = c /\ Len(front) \in Nat
    BY <1>1, <1>2
  <2>2. /\ front \o z \in Seq(S) /\ Len(front \o z) = Len(front) + Len(z)
        /\ \A i \in 1..(Len(front) + Len(z)) :
             (front \o z)[i] = IF i <= Len(front) THEN front[i] ELSE z[i - Len(front)]
    BY ConcatProperties
  <2> QED BY <1>4, <2>1, <2>2
<1>6. /\ s \o t \in Seq(S) /\ Len(s \o t) = n + 3
      /\ (s \o t)[n + 1] = a /\ (s \o t)[n + 2] = b /\ (s \o t)[n + 3] = c
      /\ \A i \in 1..n : (s \o t)[i] = s[i]
  BY <1>0, <1>1, <1>2, ConcatProperties
<1>7. \A i \in 1..(n + 3) : (s \o t)[i] = (front \o z)[i]
  <2>1. \A i \in 1..(n + 3) : i \in 1..n \/ i = n + 1 \/ i = n + 2 \/ i = n + 3
    OBVIOUS
  <2>2. n + 1 \in 1..(n + 2) /\ n + 2 \in 1..(n + 2) /\ \A i \in 1..n : i \in 1..(n + 2)
    OBVIOUS
  <2> QED BY <1>3, <1>4, <1>5, <1>6, <2>1, <2>2
<1>8. s \o t = front \o z
  BY <1>5, <1>6, <1>7, SeqEqual
<1> QED BY <1>2, <1>4, <1>8

(* The printed digits of a number below 100, 1000, behind others.          *)
LEMMA DigitIs ==
  ASSUME NEW n \in Nat
  PROVE  /\ n % 10 \in 0..9 /\ Digit(n) = DigitAt[(n % 10) + 1] /\ Digit(n) \in DigitChars
<1>1. n % 10 \in 0..9
  OBVIOUS
<1> QED BY <1>1, DigitValueIs DEF Digit

LEMMA OneDigitRead ==
  ASSUME NEW s \in Seq(DigitChars), NEW n \in Nat
  PROVE  /\ s \o <<Digit(n)>> \in Seq(DigitChars)
         /\ Number(s \o <<Digit(n)>>) = 10 * Number(s) + (n % 10)
BY DigitIs, NumberShifts

LEMMA TwoDigitsRead ==
  ASSUME NEW s \in Seq(DigitChars), NEW n \in 0..99
  PROVE  /\ TwoDigits(n) \in Seq(DigitChars) /\ Len(TwoDigits(n)) = 2
         /\ s \o TwoDigits(n) \in Seq(DigitChars)
         /\ Number(s \o TwoDigits(n)) = 100 * Number(s) + n
<1>1. n \div 10 \in Nat /\ n \in Nat
  OBVIOUS
<1>2. Digit(n \div 10) \in DigitChars /\ Digit(n) \in DigitChars
  BY <1>1, DigitIs
<1> DEFINE shifted == s \o <<Digit(n \div 10)>>
<1>3. shifted \in Seq(DigitChars) /\ Number(shifted) = 10 * Number(s) + ((n \div 10) % 10)
  BY <1>1, OneDigitRead
<1>4. s \o TwoDigits(n) = shifted \o <<Digit(n)>>
  BY <1>2, PairBehind DEF TwoDigits
<1>5. TwoDigits(n) \in Seq(DigitChars) /\ Len(TwoDigits(n)) = 2
  BY <1>2 DEF TwoDigits
<1> HIDE DEF shifted
<1>6. /\ shifted \o <<Digit(n)>> \in Seq(DigitChars)
      /\ Number(shifted \o <<Digit(n)>>) = 10 * Number(shifted) + (n % 10)
  BY <1>1, <1>3, OneDigitRead
<1>7. Number(s) \in Nat
  BY NumberType
<1>8. 10 * (10 * Number(s) + ((n \div 10) % 10)) + (n % 10) = 100 * Number(s) + n
  BY SMTT(30), <1>7
<1> QED BY <1>3, <1>4, <1>5, <1>6, <1>8

BelowThousand == 0..999

Thousands(number, n) == 1000 * number + n

LEMMA ThreeDigitsRead ==
  ASSUME NEW s \in Seq(DigitChars), NEW n \in BelowThousand
  PROVE  /\ ThreeDigits(n) \in Seq(DigitChars) /\ Len(ThreeDigits(n)) = 3
         /\ s \o ThreeDigits(n) \in Seq(DigitChars)
         /\ Number(s \o ThreeDigits(n)) = Thousands(Number(s), n)
<1>1. n \div 10 \in 0..99 /\ n \div 100 \in Nat /\ n \div 10 \in Nat /\ n \in Nat
      /\ (n \div 10) \div 10 = n \div 100
  BY DEF BelowThousand
<1>2. Digit(n \div 100) \in DigitChars /\ Digit(n \div 10) \in DigitChars /\ Digit(n) \in DigitChars
  BY <1>1, DigitIs
<1> DEFINE shifted == s \o TwoDigits(n \div 10)
<1>3. shifted \in Seq(DigitChars) /\ Number(shifted) = 100 * Number(s) + (n \div 10)
  BY <1>1, TwoDigitsRead
<1>4. s \o ThreeDigits(n) = shifted \o <<Digit(n)>>
  <2>1. TwoDigits(n \div 10) = <<Digit(n \div 100), Digit(n \div 10)>>
    BY <1>1 DEF TwoDigits
  <2>2. s \o <<Digit(n \div 100), Digit(n \div 10), Digit(n)>>
          = (s \o <<Digit(n \div 100), Digit(n \div 10)>>) \o <<Digit(n)>>
    BY <1>2, TripleBehind
  <2> QED BY <2>1, <2>2, Zenon DEF ThreeDigits
<1>5. ThreeDigits(n) \in Seq(DigitChars) /\ Len(ThreeDigits(n)) = 3
  BY <1>2 DEF ThreeDigits
<1> HIDE DEF shifted
<1>6. /\ shifted \o <<Digit(n)>> \in Seq(DigitChars)
      /\ Number(shifted \o <<Digit(n)>>) = 10 * Number(shifted) + (n % 10)
  BY <1>1, <1>3, OneDigitRead
<1>7. Number(s) \in Nat
  BY NumberType
<1>8. 10 * (100 * Number(s) + (n \div 10)) + (n % 10) = Thousands(Number(s), n)
  BY <1>1, <1>7 DEF Thousands
<1> QED BY <1>3, <1>4, <1>5, <1>6, <1>8

LEMMA LeadingRead ==
  ASSUME NEW n \in BelowThousand
  PROVE  /\ Leading(n) \in Seq(DigitChars) /\ Len(Leading(n)) > 0
         /\ Number(Leading(n)) = n
<1>1. << >> \in Seq(DigitChars) /\ n \in Nat
  BY EmptySeq DEF BelowThousand
<1>2. CASE n < 10
  <2>1. <<Digit(n)>> \in Seq(DigitChars) /\ Len(<<Digit(n)>>) = 1
    BY <1>1, DigitIs
  <2>2. Number(<< >> \o <<Digit(n)>>) = 10 * Number(<< >>) + (n % 10)
    BY <1>1, OneDigitRead
  <2>3. << >> \o <<Digit(n)>> = <<Digit(n)>>
    BY <2>1, NothingBefore
  <2>4. Number(<<Digit(n)>>) = n
    BY <1>1, <1>2, <2>2, <2>3, NumberOfNothing
  <2> QED BY <1>2, <2>1, <2>4 DEF Leading
<1>3. CASE n >= 10 /\ n < 100
  <2>0. n \in 0..99
    BY <1>1, <1>3
  <2>1. /\ TwoDigits(n) \in Seq(DigitChars) /\ Len(TwoDigits(n)) = 2
        /\ Number(<< >> \o TwoDigits(n)) = 100 * Number(<< >>) + n
    BY <1>1, <2>0, TwoDigitsRead
  <2>2. << >> \o TwoDigits(n) = TwoDigits(n)
    BY <2>1, NothingBefore
  <2>3. Number(TwoDigits(n)) = n
    BY <1>1, <2>1, <2>2, NumberOfNothing
  <2> QED BY <1>1, <1>3, <2>1, <2>3 DEF Leading
<1>4. CASE n >= 100
  <2>1. /\ ThreeDigits(n) \in Seq(DigitChars) /\ Len(ThreeDigits(n)) = 3
        /\ Number(<< >> \o ThreeDigits(n)) = Thousands(Number(<< >>), n)
    BY <1>1, ThreeDigitsRead
  <2>2. << >> \o ThreeDigits(n) = ThreeDigits(n)
    BY <2>1, NothingBefore
  <2>3. Number(ThreeDigits(n)) = n
    BY <2>1, <2>2, NumberOfNothing, <1>1 DEF Thousands
  <2> QED BY SMTT(30), <1>1, <1>4, <2>1, <2>3 DEF Leading
<1> QED BY <1>1, <1>2, <1>3, <1>4

LEMMA GroupsOf ==
  ASSUME NEW k \in Nat
  PROVE  /\ k < 1000 => k \in BelowThousand
         /\ ~ (k < 1000) => /\ k \div 1000 \in 0..(k - 1) /\ k % 1000 \in BelowThousand
                            /\ Thousands(k \div 1000, k % 1000) = k
BY DEF BelowThousand, Thousands

(* The equation of the printed groups, for the numbers up to n.            *)
Groups(grouped, separator, n) ==
  grouped = [k \in 0..n |->
               IF k < 1000 THEN Leading(k)
               ELSE grouped[k \div 1000] \o separator \o ThreeDigits(k % 1000)]

LEMMA GroupsExist ==
  ASSUME NEW separator, NEW n \in Nat
  PROVE  \E grouped : Groups(grouped, separator, n)
<1> DEFINE holds == {m \in 0..n : \E grouped : Groups(grouped, separator, m)}
<1>1. 0 \in holds
  <2> DEFINE f == [i \in 0..0 |-> Leading(i)]
  <2>1. Groups(f, separator, 0)
    BY DEF Groups
  <2> QED BY <2>1
<1>2. ASSUME NEW m \in 1..n, m - 1 \in holds
      PROVE  m \in holds
  <2>1. PICK f : Groups(f, separator, m - 1)
    BY <1>2
  <2> DEFINE body(h, k) == IF k < 1000 THEN Leading(k)
                           ELSE h[k \div 1000] \o separator \o ThreeDigits(k % 1000)
             g == [k \in 0..m |-> IF k = m THEN body(f, m) ELSE f[k]]
  <2>2. ASSUME NEW k \in 0..m
        PROVE  g[k] = body(g, k)
    <3>1. ~ (k < 1000) => k \div 1000 \in 0..m /\ k \div 1000 # m
      BY GroupsOf
    <3>2. ~ (k < 1000) => g[k \div 1000] = f[k \div 1000]
      BY <3>1
    <3>3. body(g, k) = body(f, k)
      BY <3>2
    <3>4. CASE k = m
      BY <3>3, <3>4
    <3>5. CASE k # m
      <4>1. k \in 0..(m - 1)
        BY <3>5
      <4>2. f[k] = body(f, k)
        BY <4>1, <2>1 DEF Groups
      <4>3. g[k] = f[k]
        BY <3>5
      <4> QED BY <3>3, <4>2, <4>3
    <3> QED BY <3>4, <3>5
  <2>3. g = [k \in 0..m |-> body(g, k)]
    <3>1. g = [k \in 0..m |-> g[k]]
      OBVIOUS
    <3> HIDE DEF g, body
    <3> QED BY <2>2, <3>1
  <2>4. Groups(g, separator, m)
    <3> HIDE DEF g
    <3> QED BY <2>3 DEF Groups
  <2> QED BY <2>4
<1>3. 0..n \subseteq holds
  <2> HIDE DEF holds
  <2> QED BY <1>1, <1>2, StepInduction
<1> QED BY <1>3

(* Separators do not change what the digits of the groups are read as.     *)
GroupsOfNumber(text, k, Separators) ==
  /\ text \in Seq(DigitChars \cup Separators)
  /\ Len(text) > 0 /\ text[1] \in DigitChars
  /\ Only(text, DigitChars) \in Seq(DigitChars) /\ Len(Only(text, DigitChars)) > 0
  /\ Number(Only(text, DigitChars)) = k

LEMMA LeadingGroup ==
  ASSUME NEW k \in BelowThousand, NEW Separators
  PROVE  GroupsOfNumber(Leading(k), k, Separators)
<1>1. Leading(k) \in Seq(DigitChars) /\ Len(Leading(k)) > 0 /\ Number(Leading(k)) = k
  BY LeadingRead
<1>2. Only(Leading(k), DigitChars) = Leading(k)
  BY <1>1, OnlyAll
<1>3. Leading(k) \in Seq(DigitChars \cup Separators) /\ Leading(k)[1] \in DigitChars
  BY <1>1
<1> QED BY <1>1, <1>2, <1>3 DEF GroupsOfNumber

LEMMA FurtherGroup ==
  ASSUME NEW text, NEW k \in Nat, NEW Separators, Separators \cap DigitChars = {},
         NEW separator \in Seq(Separators), GroupsOfNumber(text, k, Separators),
         NEW n \in BelowThousand
  PROVE  GroupsOfNumber(text \o separator \o ThreeDigits(n), Thousands(k, n), Separators)
<1> DEFINE chars == DigitChars \cup Separators
           three == ThreeDigits(n)
           before == text \o separator
           digits == Only(text, DigitChars)
<1>1. /\ text \in Seq(chars) /\ Len(text) > 0 /\ text[1] \in DigitChars
      /\ digits \in Seq(DigitChars) /\ Len(digits) > 0 /\ Number(digits) = k
  BY DEF GroupsOfNumber
<1>2. /\ three \in Seq(DigitChars) /\ Len(three) = 3
      /\ digits \o three \in Seq(DigitChars)
      /\ Number(digits \o three) = Thousands(Number(digits), n)
  <2> HIDE DEF digits
  <2> QED BY <1>1, ThreeDigitsRead
<1>3. separator \in Seq(chars) /\ three \in Seq(chars)
  BY <1>2
<1> HIDE DEF three, digits
<1>4. before \in Seq(chars) /\ Len(before) > 0 /\ before[1] = text[1]
  <2> HIDE DEF chars
  <2> QED BY <1>1, <1>3, ConcatProperties
<1>5. Only(before, DigitChars) = digits \o Only(separator, DigitChars)
  <2> HIDE DEF chars
  <2> QED BY <1>1, <1>3, OnlyConcat DEF digits
<1>6. Only(separator, DigitChars) = << >>
  BY OnlyNone
<1>7. digits \o << >> = digits
  BY <1>1, ConcatEmptySeq
<1> HIDE DEF before
<1>8. Only(before \o three, DigitChars) = Only(before, DigitChars) \o Only(three, DigitChars)
  <2> HIDE DEF chars
  <2> QED BY <1>3, <1>4, OnlyConcat
<1>9. Only(three, DigitChars) = three
  BY <1>2, OnlyAll
<1>10. Only(before \o three, DigitChars) = digits \o three
  BY <1>5, <1>6, <1>7, <1>8, <1>9, Zenon
<1>11. /\ before \o three \in Seq(chars) /\ Len(before \o three) > 0
       /\ (before \o three)[1] \in DigitChars
  <2> HIDE DEF chars
  <2> QED BY <1>1, <1>3, <1>4, ConcatProperties
<1>12. Len(digits \o three) > 0
  BY <1>1, <1>2, ConcatProperties
<1>13. GroupsOfNumber(before \o three, Thousands(k, n), Separators)
  BY <1>1, <1>2, <1>10, <1>11, <1>12 DEF GroupsOfNumber
<1> QED BY <1>13 DEF before, three

LEMMA GroupedRead ==
  ASSUME NEW number \in Nat, NEW Separators, Separators \cap DigitChars = {},
         NEW separator \in Seq(Separators)
  PROVE  GroupsOfNumber(Grouped(number, separator), number, Separators)
<1>1. PICK grouped : /\ Groups(grouped, separator, number)
                     /\ grouped = CHOOSE f : Groups(f, separator, number)
  BY GroupsExist
<1>2. Grouped(number, separator) = grouped[number]
  BY <1>1 DEF Grouped, Groups
<1> DEFINE printed(k) == IF k < 1000 THEN Leading(k)
                         ELSE grouped[k \div 1000] \o separator \o ThreeDigits(k % 1000)
<1>3. \A k \in 0..number : grouped[k] = printed(k)
  BY <1>1 DEF Groups
<1> DEFINE read == {k \in 0..number : GroupsOfNumber(grouped[k], k, Separators)}
<1>4. ASSUME NEW m \in 0..number, \A k \in 0..(m - 1) : k \in read
      PROVE  m \in read
  <2>1. CASE m < 1000
    <3>1. grouped[m] = Leading(m) /\ m \in BelowThousand
      BY <1>3, <2>1, GroupsOf
    <3> QED BY <3>1, LeadingGroup
  <2>2. CASE ~ (m < 1000)
    <3>1. /\ m \div 1000 \in 0..(m - 1) /\ m % 1000 \in BelowThousand
          /\ Thousands(m \div 1000, m % 1000) = m
      BY <2>2, GroupsOf
    <3>2. GroupsOfNumber(grouped[m \div 1000], m \div 1000, Separators)
      BY <1>4, <3>1
    <3>3. grouped[m] = grouped[m \div 1000] \o separator \o ThreeDigits(m % 1000)
      <4>1. grouped[m] = printed(m)
        <5> HIDE DEF printed
        <5> QED BY <1>3
      <4>2. printed(m) = grouped[m \div 1000] \o separator \o ThreeDigits(m % 1000)
        BY ZenonT(30), <2>2
      <4> HIDE DEF printed
      <4> QED BY <4>1, <4>2
    <3>4. PICK q \in Nat, r \in BelowThousand : q = m \div 1000 /\ r = m % 1000
      BY <3>1
    <3>5. GroupsOfNumber(grouped[q] \o separator \o ThreeDigits(r), Thousands(q, r), Separators)
      BY <3>2, <3>4, FurtherGroup
    <3>6. GroupsOfNumber(grouped[m], m, Separators)
      BY <3>1, <3>3, <3>4, <3>5
    <3> QED BY <3>6
  <2> QED BY <2>1, <2>2
<1>5. 0..number \subseteq read
  <2> HIDE DEF read
  <2> QED BY <1>4, StrongInduction
<1> QED BY <1>2, <1>5

-----------------------------------------------------------------------------
(* Filtering twice keeps what both filters keep.                           *)
LEMMA OnlyAppend ==
  ASSUME NEW S, NEW s \in Seq(S), NEW c \in S, NEW chars
  PROVE  Only(Append(s, c), chars) = IF c \in chars THEN Append(Only(s, chars), c)
                                     ELSE Only(s, chars)
<1>0. <<c>> \in Seq(S) /\ <<c>> \in Seq({c})
  OBVIOUS
<1>1. PICK x : x = <<c>> /\ x \in Seq(S) /\ x \in Seq({c})
  BY <1>0, Zenon
<1>2. x \in Seq(S) /\ x \in Seq({c}) /\ Append(s, c) = s \o x
  BY <1>1, AppendIsConcat
<1>a. x \in Seq(S)
  BY <1>1
<1>b. x \in Seq({c})
  BY <1>1
<1>3. Only(s \o x, chars) = Only(s, chars) \o Only(x, chars)
  BY <1>a, OnlyConcat
<1>4. Only(s, chars) \in Seq(S)
  <2>1. S \cap chars \subseteq S
    OBVIOUS
  <2> QED BY <2>1, OnlyTyped
<1>5. CASE c \in chars
  <2>1. Only(x, chars) = x
    BY <1>b, <1>5, OnlyAll
  <2>2. Append(Only(s, chars), c) = Only(s, chars) \o x
    BY <1>1, <1>4, AppendIsConcat
  <2> QED BY <1>2, <1>3, <1>5, <2>1, <2>2
<1>6. CASE c \notin chars
  <2>1. Only(x, chars) = << >>
    BY <1>b, <1>6, OnlyNone
  <2>2. Only(s, chars) \o << >> = Only(s, chars)
    BY <1>4, ConcatEmptySeq
  <2>3. Only(s \o x, chars) = Only(s, chars)
    BY <1>3, <2>1, <2>2, Zenon
  <2> QED BY <1>2, <1>6, <2>3
<1> QED BY <1>5, <1>6

LEMMA OnlyOnly ==
  ASSUME NEW S, NEW text \in Seq(S), NEW chars, NEW fewer, fewer \subseteq chars
  PROVE  Only(Only(text, chars), fewer) = Only(text, fewer)
<1>0. PICK n \in Nat : n = Len(text) /\ \A i \in 1..n : text[i] \in S
  OBVIOUS
<1>1. PICK kept : Keeps(kept, text, chars, S)
  BY KeepsExists
<1>2. PICK less : Keeps(less, text, fewer, S)
  BY KeepsExists
<1> DEFINE same == {i \in 0..n : Only(kept[i], fewer) = less[i]}
<1>3. 0 \in same
  <2>1. << >> \in Seq({}) /\ kept[0] = << >> /\ less[0] = << >>
    BY <1>1, <1>2, EmptySeq, Zenon DEF Keeps
  <2>2. Only(<< >>, fewer) = << >>
    <3>1. PICK e \in Seq({}) : e = << >>
      BY <2>1, Zenon
    <3>2. Only(e, fewer) = << >>
      BY OnlyNone
    <3> QED BY <3>1, <3>2, Zenon
  <2>3. Only(kept[0], fewer) = less[0]
    BY <2>1, <2>2, Zenon
  <2> QED BY <2>3
<1>4. ASSUME NEW m \in 1..n, m - 1 \in same
      PROVE  m \in same
  <2>1. PICK s \in Seq(S), c \in S : s = kept[m - 1] /\ c = text[m]
    <3>1. m - 1 \in 0..n
      OBVIOUS
    <3> QED BY <1>0, <1>1, <3>1 DEF Keeps
  <2>2. Only(Append(s, c), fewer) = IF c \in fewer THEN Append(Only(s, fewer), c)
                                    ELSE Only(s, fewer)
    BY OnlyAppend
  <2>3. kept[m] = IF c \in chars THEN Append(s, c) ELSE s
    BY <1>0, <1>1, <2>1 DEF Keeps
  <2>4. less[m] = IF c \in fewer THEN Append(less[m - 1], c) ELSE less[m - 1]
    BY <1>0, <1>2, <2>1 DEF Keeps
  <2>5. Only(s, fewer) = less[m - 1]
    BY <1>4, <2>1
  <2>6. Only(kept[m], fewer) = less[m]
    BY <2>2, <2>3, <2>4, <2>5
  <2> QED BY <2>6
<1>5. 0..n \subseteq same
  <2> HIDE DEF same
  <2> QED BY <1>3, <1>4, StepInduction
<1>6. Only(kept[n], fewer) = less[n]
  BY <1>5
<1> QED BY <1>0, <1>1, <1>2, <1>6 DEF Keeps

-----------------------------------------------------------------------------
(* str.rfind: the last place of a character, or 0.                         *)
LEMMA LastAtIs ==
  ASSUME NEW S, NEW text \in Seq(S), NEW char
  PROVE  \/ LastAt(text, char) = 0 /\ \A i \in 1..Len(text) : text[i] # char
         \/ /\ LastAt(text, char) \in 1..Len(text) /\ text[LastAt(text, char)] = char
            /\ \A i \in 1..Len(text) : text[i] = char => i <= LastAt(text, char)
<1> DEFINE at == {i \in 1..Len(text) : text[i] = char}
<1>1. LastAt(text, char) = IF at # {} THEN Max(at) ELSE 0
  BY DEF LastAt, SelectLastInSeq
<1>2. CASE at = {}
  BY <1>1, <1>2
<1>3. CASE at # {}
  <2> DEFINE behind == {Len(text) - i : i \in at}
  <2>1. behind \subseteq Nat /\ behind # {}
    BY <1>3
  <2>2. PICK q \in behind : \A r \in behind : q <= r
    <3> HIDE DEF behind
    <3> QED BY <2>1, LeastNumber
  <2>3. PICK p \in at : q = Len(text) - p
    BY <2>2
  <2>4. \A i \in at : p >= i
    <3>1. ASSUME NEW i \in at
          PROVE  p >= i
      <4>1. q <= Len(text) - i
        BY <2>2, <3>1
      <4> QED BY <2>3, <4>1
    <3> QED BY <3>1
  <2>5. Max(at) \in at /\ \A i \in at : Max(at) >= i
    <3> HIDE DEF at
    <3> QED BY <2>3, <2>4 DEF Max
  <2> QED BY <1>1, <1>3, <2>5
<1> QED BY <1>2, <1>3

(* A plain text has digits, points and signs, and no comma.                *)
PlainChars == DigitChars \cup {".", "-"}

LEMMA CharsAre ==
  /\ DigitChars = {"0", "1", "2", "3", "4", "5", "6", "7", "8", "9"}
  /\ PlainChars \subseteq NumberChars
<1>1. DigitChars = {"0", "1", "2", "3", "4", "5", "6", "7", "8", "9"}
  <2>1. DigitChars = {DigitAt[i] : i \in {1, 2, 3, 4, 5, 6, 7, 8, 9, 10}}
    <3>1. 1..10 = {1, 2, 3, 4, 5, 6, 7, 8, 9, 10}
      OBVIOUS
    <3> QED BY <3>1, DigitsAre DEF DigitChars, ToSet
  <2> QED BY <2>1 DEF DigitAt
<1>2. NumberChars = DigitChars \cup {",", ".", "-"} /\ PlainChars = DigitChars \cup {".", "-"}
  BY DEF NumberChars, PlainChars
<1> HIDE DEF NumberChars, PlainChars
<1>3. PlainChars \subseteq NumberChars
  BY <1>2
<1> QED BY <1>1, <1>3

LEMMA WithoutIs ==
  ASSUME NEW S, NEW text \in Seq(S), NEW char
  PROVE  Without(text, char) = Only(text, S \ {char})
<1>1. ToSet(text) \subseteq S
  BY DEF ToSet
<1>2. text \in Seq(ToSet(text))
  BY DEF ToSet
<1>3. ToSet(text) \cap (ToSet(text) \ {char}) = ToSet(text) \cap (S \ {char})
  BY <1>1
<1> QED BY <1>2, <1>3, OnlySame DEF Without

CommaChars == DigitChars \cup {",", "-"}

Replaced(replaced, s) ==
  /\ replaced \in Seq(PlainChars) /\ Len(replaced) = Len(s)
  /\ \A i \in 1..Len(s) : replaced[i] = IF s[i] = "," THEN "." ELSE s[i]

LEMMA CommaReplaced ==
  ASSUME NEW s \in Seq(CommaChars)
  PROVE  Replaced(ReplaceAll(s, ",", "."), s)
<1> DEFINE instead == [i \in 1..Len(s) |-> IF s[i] = "," THEN "." ELSE s[i]]
<1>1. PICK k \in Nat : k = Len(s)
  BY LenProperties
<1>2. ASSUME NEW i \in 1..Len(s)
      PROVE  instead[i] \in PlainChars
  <2>1. s[i] \in CommaChars
    BY ElementOfSeq
  <2> QED BY <2>1 DEF PlainChars, CommaChars
<1>3. instead \in [1..Len(s) -> PlainChars]
  BY <1>2
<1>4. \A i \in 1..Len(s) : instead[i] = IF s[i] = "," THEN "." ELSE s[i]
  OBVIOUS
<1>5. ReplaceAll(s, ",", ".") = instead
  BY DEF ReplaceAll
<1> HIDE DEF instead
<1>6. instead \in Seq(PlainChars)
  <2>1. instead \in UNION {[1..n -> PlainChars] : n \in Nat}
    BY <1>1, <1>3
  <2> QED BY <2>1, SeqDef, Zenon
<1>7. Len(instead) = Len(s)
  <2>1. DOMAIN instead = 1..k /\ DOMAIN instead = 1..Len(instead)
    BY <1>1, <1>3, <1>6, LenProperties
  <2>2. PICK m \in Nat : m = Len(instead)
    BY <1>6, LenProperties
  <2>3. 1..m = 1..k
    BY <2>1, <2>2
  <2>4. (m # 0 => m \in 1..k) /\ (k # 0 => k \in 1..m)
    <3>1. (m # 0 => m \in 1..m) /\ (k # 0 => k \in 1..k)
      OBVIOUS
    <3> QED BY <2>3, <3>1
  <2>5. m = k
    BY <2>4
  <2> QED BY <1>1, <2>2, <2>5
<1> QED BY <1>4, <1>5, <1>6, <1>7 DEF Replaced

LEMMA NotationIsPlain ==
  ASSUME NEW S, NEW text \in Seq(S)
  PROVE  DecimalNotation(Noiseless(text)) \in Seq(PlainChars)
<1> DEFINE clean == Noiseless(text)
<1>1. clean \in Seq(NumberChars)
  <2>1. S \cap NumberChars \subseteq NumberChars
    OBVIOUS
  <2> QED BY <2>1, OnlyTyped DEF Noiseless
<1> HIDE DEF clean
<1>2. Without(clean, ",") \in Seq(PlainChars)
  <2>1. Without(clean, ",") = Only(clean, NumberChars \ {","})
    BY <1>1, WithoutIs
  <2>2. NumberChars \cap (NumberChars \ {","}) \subseteq PlainChars
    BY DEF NumberChars, PlainChars
  <2> QED BY ZenonT(30), <1>1, <2>1, <2>2, OnlyTyped
<1>3. ReplaceAll(Without(clean, "."), ",", ".") \in Seq(PlainChars)
  <2>1. Without(clean, ".") = Only(clean, NumberChars \ {"."})
    BY <1>1, WithoutIs
  <2>2. NumberChars \cap (NumberChars \ {"."}) \subseteq CommaChars
    BY DEF NumberChars, CommaChars
  <2>3. PICK s \in Seq(CommaChars) : s = Without(clean, ".")
    BY <1>1, <2>1, <2>2, OnlyTyped
  <2>4. ReplaceAll(s, ",", ".") \in Seq(PlainChars)
    BY CommaReplaced DEF Replaced
  <2> QED BY <2>3, <2>4
<1>4. DecimalNotation(clean) \in Seq(PlainChars)
  BY <1>2, <1>3 DEF DecimalNotation
<1> QED BY <1>4 DEF clean

LEMMA PlainIsKept ==
  ASSUME NEW text \in Seq(PlainChars)
  PROVE  DecimalNotation(Noiseless(text)) = text /\ ~Accounting(text)
<1>0. "," \notin PlainChars /\ "(" \notin PlainChars
  BY CharsAre DEF PlainChars
<1>1. Noiseless(text) = text
  <2>1. PlainChars \subseteq NumberChars
    BY CharsAre
  <2> QED BY <2>1, OnlyAll DEF Noiseless
<1>2. \A i \in 1..Len(text) : text[i] # "," /\ text[i] # "("
  BY <1>0, ElementOfSeq
<1>3. LastAt(text, ",") = 0
  BY <1>2, LastAtIs
<1>4. ~ (LastAt(text, ",") > LastAt(text, "."))
  <2>1. Len(text) \in Nat
    OBVIOUS
  <2>2. PICK p \in Nat : p = LastAt(text, ".")
    BY <2>1, LastAtIs
  <2>3. ~ (0 > p)
    OBVIOUS
  <2> QED BY <1>3, <2>2, <2>3, Zenon
<1>5. Without(text, ",") = text
  <2>1. PlainChars \subseteq PlainChars \ {","}
    BY <1>0
  <2>2. Only(text, PlainChars \ {","}) = text
    BY <2>1, OnlyAll
  <2> QED BY <2>2, WithoutIs
<1>6. ~Accounting(text)
  <2>1. CASE text = << >>
    BY <2>1 DEF Accounting
  <2>2. CASE text # << >>
    <3>1. 1 \in 1..Len(text) /\ Head(text) = text[1]
      BY <2>2
    <3> QED BY <1>2, <3>1 DEF Accounting
  <2> QED BY <2>1, <2>2
<1> QED BY <1>1, <1>4, <1>5, <1>6 DEF DecimalNotation

-----------------------------------------------------------------------------
(* A text is read as one number or none.                                   *)
LEMMA UnsignedType ==
  ASSUME NEW S, NEW text \in Seq(S), NEW amount \in Unsigned(text)
  PROVE  amount \in Nat /\ Unsigned(text) = {amount}
<1> DEFINE digits == Without(text, ".")
           point == LastAt(text, ".")
           decimals == IF point = 0 THEN 0 ELSE Len(text) - point
           read == /\ digits # << >> /\ ToSet(digits) \subseteq DigitChars
                   /\ Len(digits) >= Len(text) - 1 /\ decimals <= 3
<1>1. Unsigned(text) = IF read THEN {Number(digits) * Thousandths[decimals + 1]} ELSE {}
  BY DEF Unsigned
<1>2. read
  BY <1>1
<1>3. amount = Number(digits) * Thousandths[decimals + 1]
  BY <1>1, <1>2
<1>4. digits \in Seq(DigitChars)
  <2>1. S \cap (S \ {"."}) \subseteq S
    OBVIOUS
  <2>2. digits \in Seq(S)
    <3>1. Only(text, S \ {"."}) \in Seq(S)
      BY <2>1, OnlyTyped
    <3> QED BY <3>1, WithoutIs
  <2> HIDE DEF digits
  <2>3. \A i \in 1..Len(digits) : digits[i] \in DigitChars
    BY <1>2, <2>2 DEF ToSet
  <2> QED BY <2>2, <2>3
<1>5. PICK d \in 0..3 : d = decimals
  <2>1. PICK q \in 0..Len(text) : q = point
    BY LastAtIs
  <2>2. Len(text) \in Nat
    OBVIOUS
  <2> QED BY <1>2, <2>1, <2>2
<1>6. PICK number \in Nat : number = Number(digits)
  BY <1>4, NumberType
<1>7. Thousandths[d + 1] \in {1000, 100, 10, 1}
  <2>1. d \in {0, 1, 2, 3}
    OBVIOUS
  <2>2. /\ Thousandths[1] = 1000 /\ Thousandths[2] = 100
        /\ Thousandths[3] = 10 /\ Thousandths[4] = 1
    BY DEF Thousandths
  <2> QED BY <2>1, <2>2
<1>8. number * Thousandths[d + 1] \in Nat
  BY <1>7
<1> HIDE DEF read, digits, decimals
<1>9. amount \in Nat
  BY <1>3, <1>5, <1>6, <1>8
<1> QED BY <1>1, <1>2, <1>3, <1>9

Fronted(t, c, s) == t = <<c>> \o s /\ t # << >> /\ Head(t) = c /\ Tail(t) = s

LEMMA FrontOf ==
  ASSUME NEW S, NEW c \in S, NEW s \in Seq(S)
  PROVE  \E t \in Seq(S) : Fronted(t, c, s)
<1>0. PICK n \in Nat : n = Len(s)
  OBVIOUS
<1>1. PICK x : x = <<c>> /\ x \in Seq(S) /\ Len(x) = 1 /\ x[1] = c
  <2>1. <<c>> \in Seq(S) /\ Len(<<c>>) = 1 /\ <<c>>[1] = c
    OBVIOUS
  <2> QED BY <2>1, Zenon
<1>2. x \in Seq(S) /\ Len(x) = 1 /\ x[1] = c
  BY <1>1
<1>3. PICK t \in Seq(S) : t = x \o s
  BY <1>2, ConcatProperties
<1>4. Len(t) = n + 1 /\ t[1] = c /\ \A i \in 1..n : t[i + 1] = s[i]
  <2>1. /\ Len(x \o s) = Len(x) + Len(s)
        /\ \A i \in 1..(Len(x) + Len(s)) :
             (x \o s)[i] = IF i <= Len(x) THEN x[i] ELSE s[i - Len(x)]
    BY <1>2, ConcatProperties
  <2>2. /\ Len(t) = 1 + n
        /\ \A i \in 1..(1 + n) : t[i] = IF i <= 1 THEN x[i] ELSE s[i - 1]
    BY <1>0, <1>2, <1>3, <2>1
  <2>3. 1 \in 1..(1 + n)
        /\ \A i \in 1..n : i + 1 \in 1..(1 + n) /\ ~ (i + 1 <= 1) /\ (i + 1) - 1 = i
    OBVIOUS
  <2> QED BY <1>2, <2>2, <2>3
<1>5. t # << >>
  BY <1>4
<1>6. Head(t) = c
  BY <1>4, <1>5
<1>7. Tail(t) \in Seq(S) /\ Len(Tail(t)) = n /\ \A i \in 1..n : Tail(t)[i] = t[i + 1]
  BY <1>4, <1>5, HeadTailProperties
<1>8. Tail(t) = s
  BY <1>0, <1>4, <1>7, SeqEqual
<1> QED BY <1>1, <1>3, <1>5, <1>6, <1>8 DEF Fronted

LEMMA HeadKept ==
  ASSUME NEW S, NEW text \in Seq(S), text # << >>, NEW chars, Head(text) \in chars
  PROVE  \E i \in 1..Len(Only(text, chars)) : Only(text, chars)[i] = Head(text)
<1>1. PICK c \in S, rest \in Seq(S) : c = Head(text) /\ rest = Tail(text)
  BY HeadTailProperties
<1>2. PICK x : x = <<c>> /\ x \in Seq(S) /\ x \in Seq({c}) /\ Len(x) = 1 /\ x[1] = c
  <2>1. <<c>> \in Seq(S) /\ <<c>> \in Seq({c}) /\ Len(<<c>>) = 1 /\ <<c>>[1] = c
    OBVIOUS
  <2> QED BY <2>1, Zenon
<1>3. x \in Seq(S) /\ Len(x) = 1 /\ x[1] = c
  BY <1>2
<1>4. text = x \o rest
  BY <1>1, <1>2
<1>5. Only(x \o rest, chars) = Only(x, chars) \o Only(rest, chars)
  BY <1>3, OnlyConcat
<1>6. Only(x, chars) = x
  <2>1. {c} \subseteq chars /\ x \in Seq({c})
    BY <1>1, <1>2
  <2> QED BY <2>1, OnlyAll
<1>7. PICK kept \in Seq(S) : kept = Only(rest, chars)
  <2>1. S \cap chars \subseteq S
    OBVIOUS
  <2> QED BY <2>1, OnlyTyped
<1>8. (x \o kept)[1] = c /\ 1 \in 1..Len(x \o kept)
  BY <1>3, ConcatProperties
<1> QED BY <1>1, <1>4, <1>5, <1>6, <1>7, <1>8

(* A number without a sign has no sign.                                    *)
LEMMA UnsignedIsNot ==
  ASSUME NEW S, NEW text \in Seq(S), Unsigned(text) # {}
  PROVE  text # << >> /\ ~Signed(text)
<1>1. Without(text, ".") # << >> /\ ToSet(Without(text, ".")) \subseteq DigitChars
  BY DEF Unsigned
<1>2. Without(text, ".") = Only(text, S \ {"."})
  BY WithoutIs
<1>3. text # << >>
  <2> SUFFICES ASSUME text = << >>
               PROVE  FALSE
    OBVIOUS
  <2>1. PICK e \in Seq({}) : e = text
    BY EmptySeq, Zenon
  <2>2. Only(e, S \ {"."}) = << >>
    BY OnlyNone
  <2> QED BY <1>1, <1>2, <2>2
<1>4. ASSUME Head(text) = "-"
      PROVE  FALSE
  <2>1. Head(text) \in S \ {"."}
    BY <1>3, <1>4
  <2>2. PICK i \in 1..Len(Only(text, S \ {"."})) : Only(text, S \ {"."})[i] = "-"
    BY <1>3, <1>4, <2>1, HeadKept
  <2>3. "-" \in DigitChars
    <3>1. Only(text, S \ {"."}) \in Seq(S)
      <4>1. S \cap (S \ {"."}) \subseteq S
        OBVIOUS
      <4> QED BY <4>1, OnlyTyped
    <3> QED BY <1>1, <1>2, <2>2, <3>1 DEF ToSet
  <2> QED BY <2>3, CharsAre
<1> QED BY <1>3, <1>4 DEF Signed

LEMMA DecimalType ==
  ASSUME NEW S, NEW text \in Seq(S), NEW amount \in DecimalOf(text)
  PROVE  amount \in Int /\ DecimalOf(text) = {amount}
<1>1. CASE Signed(text)
  <2>1. Tail(text) \in Seq(S)
    BY <1>1 DEF Signed
  <2>2. PICK size \in Unsigned(Tail(text)) : amount = -size
    BY <1>1 DEF DecimalOf
  <2>3. size \in Nat /\ Unsigned(Tail(text)) = {size}
    BY <2>1, UnsignedType
  <2> QED BY <1>1, <2>2, <2>3 DEF DecimalOf
<1>2. CASE ~Signed(text)
  <2>1. amount \in Unsigned(text) /\ DecimalOf(text) = Unsigned(text)
    BY <1>2 DEF DecimalOf
  <2> QED BY <2>1, UnsignedType
<1> QED BY <1>1, <1>2

LEMMA ReadingType ==
  ASSUME NEW S, NEW text \in Seq(S), NEW amount \in parse_decimal(text)
  PROVE  amount \in Int /\ parse_decimal(text) = {amount}
<1> DEFINE plain == DecimalNotation(Noiseless(text))
<1>1. plain \in Seq(PlainChars)
  BY NotationIsPlain
<1>2. PICK size \in DecimalOf(plain) : amount = IF Accounting(text) THEN -size ELSE size
  BY DEF parse_decimal
<1> HIDE DEF plain
<1>3. size \in Int /\ DecimalOf(plain) = {size}
  BY <1>1, DecimalType
<1>4. parse_decimal(text) = {amount}
  BY <1>2, <1>3 DEF parse_decimal, plain
<1> QED BY <1>2, <1>3, <1>4

(* Nothing is not an amount.                                               *)
LEMMA NothingIsRead ==
  parse_decimal(<< >>) = {} /\ << >> \in Seq(PlainChars) /\ Stored(<< >>) = << >>
<1>1. PICK e \in Seq(PlainChars) : e = << >>
  BY EmptySeq, Zenon
<1>2. Unsigned(e) = {}
  BY <1>1, UnsignedIsNot
<1>3. DecimalOf(e) = {}
  BY <1>1, <1>2 DEF DecimalOf, Signed
<1>4. DecimalNotation(Noiseless(e)) = e
  BY PlainIsKept
<1>5. parse_decimal(e) = {}
  BY <1>3, <1>4 DEF parse_decimal
<1>6. Stored(e) = << >>
  BY <1>5 DEF Stored
<1> QED BY <1>1, <1>5, <1>6

(* A plain text is read as it stands, and kept when it is a number.        *)
LEMMA PlainIsRead ==
  ASSUME NEW text \in Seq(PlainChars)
  PROVE  /\ parse_decimal(text) = DecimalOf(text)
         /\ DecimalOf(text) # {} => Stored(text) = text
<1>1. DecimalNotation(Noiseless(text)) = text /\ ~Accounting(text)
  BY PlainIsKept
<1>2. parse_decimal(text) = DecimalOf(text)
  BY <1>1 DEF parse_decimal
<1> QED BY <1>1, <1>2 DEF Stored

(* Storing keeps the amount, whatever the text was.                        *)
StoredAs(stored, amounts) ==
  /\ stored \in Seq(PlainChars)
  /\ parse_decimal(stored) = amounts
  /\ Stored(stored) = stored

LEMMA StoredIsRead ==
  ASSUME NEW S, NEW text \in Seq(S)
  PROVE  StoredAs(Stored(text), parse_decimal(text))
<1> DEFINE plain == DecimalNotation(Noiseless(text))
<1>1. plain \in Seq(PlainChars)
  BY NotationIsPlain
<1>2. parse_decimal(text) = {IF Accounting(text) THEN -amount ELSE amount :
                               amount \in DecimalOf(plain)}
  BY DEF parse_decimal
<1>3. Stored(text) = IF parse_decimal(text) = {} THEN << >>
                     ELSE IF ~Accounting(text) THEN plain
                     ELSE IF Signed(plain) THEN Tail(plain)
                     ELSE <<"-">> \o plain
  BY DEF Stored
<1> HIDE DEF plain
<1>4. CASE parse_decimal(text) = {}
  <2>1. Stored(text) = << >>
    BY <1>3, <1>4
  <2> QED BY <1>4, <2>1, NothingIsRead DEF StoredAs
<1>5. CASE parse_decimal(text) # {} /\ ~Accounting(text)
  <2>1. Stored(text) = plain /\ parse_decimal(text) = DecimalOf(plain) /\ DecimalOf(plain) # {}
    BY <1>2, <1>3, <1>5
  <2> QED BY <1>1, <2>1, PlainIsRead DEF StoredAs
<1>6. CASE parse_decimal(text) # {} /\ Accounting(text) /\ Signed(plain)
  <2>1. PICK rest \in Seq(PlainChars) : rest = Tail(plain)
    BY <1>1, <1>6, HeadTailProperties DEF Signed
  <2>2. DecimalOf(plain) = {-amount : amount \in Unsigned(rest)}
    BY <1>6, <2>1 DEF DecimalOf
  <2>3. PICK size \in Unsigned(rest) : TRUE
    BY <1>2, <1>6, <2>2
  <2>4. size \in Nat /\ Unsigned(rest) = {size}
    BY UnsignedType
  <2>5. DecimalOf(rest) = {size}
    BY <2>4, UnsignedIsNot DEF DecimalOf
  <2>6. DecimalOf(plain) = {-size}
    BY <2>2, <2>4
  <2>7. parse_decimal(text) = {size}
    BY <1>2, <1>6, <2>4, <2>6
  <2>8. Stored(text) = rest
    BY <1>3, <1>6, <2>1
  <2> QED BY <2>5, <2>7, <2>8, PlainIsRead DEF StoredAs
<1>7. CASE parse_decimal(text) # {} /\ Accounting(text) /\ ~Signed(plain)
  <2>1. PICK size \in Unsigned(plain) : TRUE
    BY <1>2, <1>7 DEF DecimalOf
  <2>2. size \in Nat /\ Unsigned(plain) = {size} /\ DecimalOf(plain) = {size}
    BY <1>1, <1>7, UnsignedType DEF DecimalOf
  <2>3. parse_decimal(text) = {-size}
    BY <1>2, <1>7, <2>2
  <2>4. PICK signed \in Seq(PlainChars) : /\ signed = <<"-">> \o plain /\ Signed(signed)
                                          /\ Tail(signed) = plain
    <3>1. "-" \in PlainChars
      BY DEF PlainChars
    <3>2. PICK c \in PlainChars : c = "-"
      BY <3>1
    <3>3. PICK signed \in Seq(PlainChars) : Fronted(signed, c, plain)
      BY <1>1, FrontOf
    <3> QED BY <3>2, <3>3 DEF Fronted, Signed
  <2>5. DecimalOf(signed) = {-size}
    BY <2>2, <2>4 DEF DecimalOf
  <2>6. Stored(text) = signed
    BY <1>3, <1>7, <2>4
  <2> QED BY <2>3, <2>5, <2>6, PlainIsRead DEF StoredAs
<1> QED BY <1>4, <1>5, <1>6, <1>7

-----------------------------------------------------------------------------
(* A number, its decimal separator and two digits of cents.                *)
Pointed(text, front, char, cents) ==
  /\ Len(text) = Len(front) + 3
  /\ \A i \in 1..Len(front) : text[i] = front[i]
  /\ text[Len(front) + 1] = char
  /\ text[Len(front) + 2] = cents[1] /\ text[Len(front) + 3] = cents[2]

LEMMA PointedIs ==
  ASSUME NEW S, NEW front \in Seq(S), NEW point \in Seq(S), NEW cents \in Seq(S),
         Len(point) = 1, Len(cents) = 2
  PROVE  /\ (front \o point) \o cents \in Seq(S)
         /\ Pointed((front \o point) \o cents, front, point[1], cents)
<1>0. PICK n \in Nat : n = Len(front)
  OBVIOUS
<1>1. PICK s \in Seq(S) : s = front \o point
  BY ConcatProperties
<1>2. Len(s) = n + 1 /\ \A i \in 1..(n + 1) : s[i] = IF i <= n THEN front[i] ELSE point[i - n]
  <2>1. Len(front \o point) = Len(front) + Len(point)
        /\ \A i \in 1..(Len(front) + Len(point)) :
             (front \o point)[i] = IF i <= Len(front) THEN front[i] ELSE point[i - Len(front)]
    BY ConcatProperties
  <2> QED BY <1>0, <1>1, <2>1
<1>3. s \o cents \in Seq(S) /\ Len(s \o cents) = Len(s) + Len(cents)
      /\ \A i \in 1..(Len(s) + Len(cents)) :
           (s \o cents)[i] = IF i <= Len(s) THEN s[i] ELSE cents[i - Len(s)]
  BY ConcatProperties
<1>4. PICK t \in Seq(S) : t = s \o cents
  BY <1>3
<1>5. Len(t) = n + 3
      /\ \A i \in 1..(n + 3) : t[i] = IF i <= n + 1 THEN s[i] ELSE cents[i - (n + 1)]
  BY <1>2, <1>3, <1>4
<1>6. \A i \in 1..n : t[i] = front[i]
  <2>1. \A i \in 1..n : i \in 1..(n + 3) /\ i \in 1..(n + 1) /\ i <= n + 1 /\ i <= n
    OBVIOUS
  <2> QED BY <1>2, <1>5, <2>1
<1>7. t[n + 1] = point[1] /\ t[n + 2] = cents[1] /\ t[n + 3] = cents[2]
  <2>1. /\ n + 1 \in 1..(n + 3) /\ n + 2 \in 1..(n + 3) /\ n + 3 \in 1..(n + 3)
        /\ n + 1 \in 1..(n + 1) /\ ~ (n + 1 <= n) /\ (n + 1) - n = 1
        /\ ~ (n + 2 <= n + 1) /\ (n + 2) - (n + 1) = 1
        /\ ~ (n + 3 <= n + 1) /\ (n + 3) - (n + 1) = 2
    OBVIOUS
  <2>2. t[n + 1] = s[n + 1] /\ s[n + 1] = point[1]
    BY <1>2, <1>5, <2>1
  <2>3. t[n + 2] = cents[1] /\ t[n + 3] = cents[2]
    BY <1>5, <2>1
  <2> QED BY <2>2, <2>3
<1> QED BY <1>0, <1>1, <1>4, <1>5, <1>6, <1>7 DEF Pointed

Kept(text, chars) == Only(text, chars) = text

KeepsPoint(front, point, cents, chars) ==
  Only((front \o point) \o cents, chars) = (Only(front, chars) \o point) \o cents

LEMMA OnlyPointed ==
  ASSUME NEW S, NEW front \in Seq(S), NEW point \in Seq(S), NEW cents \in Seq(S),
         NEW chars, Kept(point, chars), Kept(cents, chars)
  PROVE  KeepsPoint(front, point, cents, chars)
<1>1. PICK s \in Seq(S) : s = front \o point
  BY ConcatProperties
<1>2. Only(s \o cents, chars) = Only(s, chars) \o Only(cents, chars)
  BY SMTT(30), OnlyConcat
<1>3. Only(front \o point, chars) = Only(front, chars) \o Only(point, chars)
  BY SMTT(30), OnlyConcat
<1> QED BY <1>1, <1>2, <1>3, Zenon DEF Kept, KeepsPoint

LEMMA LastAtThere ==
  ASSUME NEW S, NEW text \in Seq(S), NEW char, NEW i \in 1..Len(text), text[i] = char,
         \A j \in 1..Len(text) : text[j] = char => j <= i
  PROVE  LastAt(text, char) = i
<1>1. /\ LastAt(text, char) \in 1..Len(text) /\ text[LastAt(text, char)] = char
      /\ \A j \in 1..Len(text) : text[j] = char => j <= LastAt(text, char)
  BY LastAtIs
<1>2. PICK p \in 1..Len(text) : p = LastAt(text, char)
  BY <1>1
<1>3. i <= p /\ p <= i
  BY <1>1, <1>2
<1> QED BY <1>2, <1>3

Points == {"."}

Commas == {","}

(* Digits, a point and two digits are read as they should be.              *)
LEMMA PointRead ==
  ASSUME NEW digits \in Seq(DigitChars), Len(digits) > 0,
         NEW point \in Seq(Points), Len(point) = 1, NEW r \in 0..99
  PROVE  /\ (digits \o point) \o TwoDigits(r) \in Seq(PlainChars)
         /\ DecimalOf((digits \o point) \o TwoDigits(r)) = {10 * (100 * Number(digits) + r)}
<1> DEFINE cents == TwoDigits(r)
           text == (digits \o point) \o cents
<1>0. PICK n \in Nat : n = Len(digits)
  OBVIOUS
<1>1. /\ cents \in Seq(DigitChars) /\ Len(cents) = 2
      /\ digits \o cents \in Seq(DigitChars)
      /\ Number(digits \o cents) = 100 * Number(digits) + r
  BY TwoDigitsRead
<1> HIDE DEF cents
<1>2. /\ digits \in Seq(PlainChars) /\ point \in Seq(PlainChars) /\ cents \in Seq(PlainChars)
  <2>1. DigitChars \subseteq PlainChars /\ Points \subseteq PlainChars
    BY DEF PlainChars, Points
  <2> QED BY <1>1, <2>1, SeqMonotonic
<1>3. text \in Seq(PlainChars) /\ Pointed(text, digits, point[1], cents)
  BY <1>1, <1>2, PointedIs
<1>4. point[1] = "."
  <2>1. 1 \in 1..Len(point)
    OBVIOUS
  <2>2. point[1] \in Points
    BY <2>1, ElementOfSeq
  <2> QED BY <2>2 DEF Points
<1>5. Without(text, ".") = digits \o cents
  <2> DEFINE others == PlainChars \ {"."}
  <2>1. Without(text, ".") = Only(text, others)
    BY <1>3, WithoutIs
  <2>2. /\ DigitChars \subseteq others /\ Points \cap others = {}
    BY CharsAre DEF PlainChars, Points
  <2> HIDE DEF others
  <2>3. PICK s \in Seq(PlainChars) : s = digits \o point
    BY <1>2, ConcatProperties
  <2>4. Only(s \o cents, others) = Only(s, others) \o Only(cents, others)
    <3>1. OnlySplits(s, cents, others)
      BY <1>2, OnlySplitsHolds
    <3> QED BY <3>1 DEF OnlySplits
  <2>5. Only(digits \o point, others) = Only(digits, others) \o Only(point, others)
    BY SMTT(30), <1>2, OnlyConcat
  <2>6. Only(digits, others) = digits /\ Only(cents, others) = cents
    BY <1>1, <2>2, OnlyAll
  <2>7. Only(point, others) = << >>
    BY <2>2, OnlyNone
  <2>8. digits \o << >> = digits
    BY ConcatEmptySeq
  <2> QED BY <2>1, <2>3, <2>4, <2>5, <2>6, <2>7, <2>8, Zenon
<1> HIDE DEF text
<1>6. Len(text) = n + 3 /\ text[n + 1] = "."
      /\ \A i \in 1..(n + 3) : text[i] = "." => i <= n + 1
  <2>1. Len(text) = n + 3 /\ text[n + 1] = "." /\ text[n + 2] = cents[1] /\ text[n + 3] = cents[2]
    BY <1>0, <1>3, <1>4 DEF Pointed
  <2>2. cents[1] # "." /\ cents[2] # "."
    <3>1. cents[1] \in DigitChars /\ cents[2] \in DigitChars
      <4>1. 1 \in 1..Len(cents) /\ 2 \in 1..Len(cents)
        BY <1>1
      <4> QED BY <1>1, <4>1, ElementOfSeq
    <3> QED BY <3>1, CharsAre
  <2>3. \A i \in 1..(n + 3) : i <= n + 1 \/ i = n + 2 \/ i = n + 3
    OBVIOUS
  <2> QED BY <2>1, <2>2, <2>3
<1>7. LastAt(text, ".") = n + 1
  <2>1. n + 1 \in 1..(n + 3)
    OBVIOUS
  <2> QED BY SMTT(30), <1>3, <1>6, <2>1, LastAtThere
<1>8. Number(digits) \in Nat
  BY NumberType
<1>9. /\ digits \o cents # << >> /\ ToSet(digits \o cents) \subseteq DigitChars
      /\ Len(digits \o cents) = n + 2
  <2>1. Len(digits \o cents) = n + 2
    <3>1. Len(digits \o cents) = Len(digits) + Len(cents)
      BY <1>1, ConcatProperties
    <3> QED BY <1>0, <1>1, <3>1
  <2>2. PICK q \in Seq(DigitChars) : q = digits \o cents
    BY <1>1
  <2>3. ToSet(q) \subseteq DigitChars
    BY DEF ToSet
  <2> QED BY <2>1, <2>2, <2>3, EmptySeq
<1>10. Unsigned(text) = {10 * (100 * Number(digits) + r)}
  <2>1. /\ n + 2 >= (n + 3) - 1 /\ (n + 3) - (n + 1) = 2 /\ n + 1 # 0 /\ 2 <= 3 /\ 2 + 1 = 3
    OBVIOUS
  <2>2. Thousandths[3] = 10
    BY DEF Thousandths
  <2>3. Unsigned(text) = {Number(digits \o cents) * Thousandths[3]}
    BY <1>5, <1>6, <1>7, <1>9, <2>1 DEF Unsigned
  <2>4. Number(digits \o cents) * Thousandths[3] = 10 * (100 * Number(digits) + r)
    BY <1>1, <1>8, <2>2
  <2> QED BY <2>3, <2>4
<1>11. ~Signed(text)
  BY <1>3, <1>10, UnsignedIsNot
<1> QED BY <1>3, <1>10, <1>11 DEF DecimalOf, text, cents

(* The separator p comes behind any separator o.                           *)
Behind(text, p, o) ==
  LastAt(text, p) > LastAt(text, o) /\ ~ (LastAt(text, o) > LastAt(text, p))

(* The separator before the cents is the last of its kind, and behind any  *)
(* other.                                                                  *)
LEMMA PointIsLast ==
  ASSUME NEW S, NEW text \in Seq(S), NEW n \in Nat, Len(text) = n + 3, NEW p, NEW o,
         text[n + 1] = p, p # o,
         text[n + 2] \notin {p, o}, text[n + 3] \notin {p, o}
  PROVE  Behind(text, p, o)
<1>1. \A i \in 1..(n + 3) : i <= n \/ i = n + 1 \/ i = n + 2 \/ i = n + 3
  OBVIOUS
<1>2. n + 1 \in 1..(n + 3) /\ \A i \in 1..(n + 3) : i <= n => i <= n + 1
  OBVIOUS
<1>3. LastAt(text, p) = n + 1
  <2>1. \A i \in 1..Len(text) : text[i] = p => i <= n + 1
    BY <1>1, <1>2
  <2> QED BY <1>2, <2>1, LastAtThere
<1>4. PICK q \in 0..n : q = LastAt(text, o)
  <2>1. \/ LastAt(text, o) = 0
        \/ LastAt(text, o) \in 1..Len(text) /\ text[LastAt(text, o)] = o
    BY LastAtIs
  <2>2. LastAt(text, o) \in 1..Len(text) => LastAt(text, o) \in 1..(n + 3)
    OBVIOUS
  <2>3. \A i \in 1..(n + 3) : text[i] = o => i \in 0..n
    BY <1>1
  <2>4. 0 \in 0..n
    OBVIOUS
  <2> QED BY <2>1, <2>2, <2>3, <2>4
<1>5. n + 1 > q /\ ~ (q > n + 1)
  OBVIOUS
<1> QED BY <1>3, <1>4, <1>5, Zenon DEF Behind

(* Digits in groups whose separators are neither digits nor signs, nor the *)
(* decimal separator p; o is the separator of the other convention.        *)
Separable(Separators, p, o) ==
  /\ p \in {",", "."} /\ o \in {",", "."} /\ p # o
  /\ Separators \cap (DigitChars \cup {"-", p}) = {}

LEMMA SeparableChars ==
  ASSUME NEW Separators, NEW p, NEW o, Separable(Separators, p, o)
  PROVE  /\ (DigitChars \cup Separators) \cap NumberChars \subseteq DigitChars \cup {o}
         /\ p \notin DigitChars /\ o \notin DigitChars /\ p # o
         /\ DigitChars \cup {o} \subseteq NumberChars
         /\ (DigitChars \cup Separators) \cap (NumberChars \ {o})
              = (DigitChars \cup Separators) \cap DigitChars
         /\ DigitChars \subseteq NumberChars \ {o} /\ {p} \subseteq NumberChars \ {o}
<1>1. p \notin DigitChars /\ o \notin DigitChars
  BY CharsAre DEF Separable
<1>2. NumberChars = DigitChars \cup {p, o, "-"}
  <2>1. (p = "," /\ o = ".") \/ (p = "." /\ o = ",")
    BY DEF Separable
  <2>2. {p, o, "-"} = {",", ".", "-"}
    BY <2>1
  <2> QED BY <2>2 DEF NumberChars
<1>3. p # o /\ o # "-" /\ p # "-" /\ Separators \cap (DigitChars \cup {"-", p}) = {}
  BY DEF Separable
<1>4. o \notin DigitChars /\ "-" \notin DigitChars
  BY <1>1, CharsAre
<1> HIDE DEF NumberChars, Separable, DigitChars
<1> QED BY <1>1, <1>2, <1>3, <1>4

Parted(group, point, cents, p, o) ==
  /\ Behind((Only(group, NumberChars) \o point) \o cents, p, o)
  /\ Without((Only(group, NumberChars) \o point) \o cents, o)
       = (Only(group, DigitChars) \o point) \o cents

LEMMA SeparatedFrom ==
  ASSUME NEW Separators, NEW p, NEW o, Separable(Separators, p, o),
         NEW group \in Seq(DigitChars \cup Separators),
         NEW point \in Seq({p}), Len(point) = 1,
         NEW cents \in Seq(DigitChars), Len(cents) = 2
  PROVE  Parted(group, point, cents, p, o)
<1> DEFINE chars == DigitChars \cup Separators
           front == Only(group, NumberChars)
           less == NumberChars \ {o}
           clean == (front \o point) \o cents
<1>1. /\ chars \cap NumberChars \subseteq DigitChars \cup {o}
      /\ p \notin DigitChars /\ o \notin DigitChars /\ p # o
      /\ chars \cap less = chars \cap DigitChars
      /\ DigitChars \subseteq less /\ {p} \subseteq less
      /\ less \subseteq NumberChars
      /\ DigitChars \cup {o} \subseteq NumberChars
  BY SeparableChars
<1>2. group \in Seq(chars)
  OBVIOUS
<1> HIDE DEF chars, less
<1>3. front \in Seq(NumberChars)
  <2>1. chars \cap NumberChars \subseteq NumberChars
    OBVIOUS
  <2> QED BY <1>2, <2>1, OnlyTyped
<1>4. cents \in Seq(less) /\ point \in Seq(less)
  BY <1>1, SeqMonotonic
<1>5. cents \in Seq(NumberChars) /\ point \in Seq(NumberChars)
  BY <1>1, <1>4, SeqMonotonic
<1>6. Only(front, less) = Only(group, DigitChars)
  <2>1. Only(Only(group, NumberChars), less) = Only(group, less)
    BY <1>1, <1>2, OnlyOnly
  <2>2. Only(group, less) = Only(group, DigitChars)
    BY <1>1, <1>2, OnlySame
  <2> QED BY <2>1, <2>2
<1> HIDE DEF front
<1>7. PICK n \in Nat : n = Len(front)
  BY <1>3
<1>8. clean \in Seq(NumberChars) /\ Pointed(clean, front, point[1], cents)
  BY <1>3, <1>5, PointedIs
<1>9. Only(clean, less) = (Only(front, less) \o point) \o cents
  <2>1. Kept(point, less) /\ Kept(cents, less)
    <3>1. less \subseteq less
      OBVIOUS
    <3> QED BY <1>4, <3>1, OnlyAll DEF Kept
  <2>2. PICK x \in Seq(NumberChars), y \in Seq(NumberChars), z \in Seq(NumberChars) :
          x = front /\ y = point /\ z = cents
    BY <1>3, <1>5
  <2>3. Kept(y, less) /\ Kept(z, less)
    BY <2>1, <2>2
  <2>4. Only((x \o y) \o z, less) = (Only(x, less) \o y) \o z
    BY SMTT(30), <2>3, OnlyPointed DEF KeepsPoint
  <2> QED BY <2>2, <2>4, Zenon
<1> HIDE DEF clean
<1>10. point[1] = p /\ cents[1] \notin {p, o} /\ cents[2] \notin {p, o}
  <2>1. point[1] \in {p} /\ cents[1] \in DigitChars /\ cents[2] \in DigitChars
    <3>1. 1 \in 1..1 /\ 1 \in 1..2 /\ 2 \in 1..2
      OBVIOUS
    <3> QED BY <3>1, ElementOfSeq
  <2> QED BY <1>1, <2>1
<1>11. /\ Len(clean) = n + 3 /\ clean[n + 1] = p
       /\ clean[n + 2] \notin {p, o} /\ clean[n + 3] \notin {p, o}
  BY <1>7, <1>8, <1>10 DEF Pointed
<1>12. Behind(clean, p, o)
  <2>1. p # o
    BY <1>1
  <2> QED BY <1>8, <1>11, <2>1, PointIsLast
<1>13. Without(clean, o) = Only(clean, less)
  BY <1>8, WithoutIs DEF less
<1>14. Without(clean, o) = (Only(group, DigitChars) \o point) \o cents
  BY <1>6, <1>9, <1>13
<1> QED BY <1>12, <1>14 DEF Parted, clean, front

(* A decimal comma becomes a point.                                        *)
LEMMA CommaBecomesPoint ==
  ASSUME NEW digits \in Seq(DigitChars), NEW cents \in Seq(DigitChars), Len(cents) = 2,
         NEW comma \in Seq(Commas), Len(comma) = 1, NEW dot \in Seq(Points), Len(dot) = 1
  PROVE  ReplaceAll((digits \o comma) \o cents, ",", ".") = (digits \o dot) \o cents
<1>1. /\ digits \in Seq(CommaChars) /\ cents \in Seq(CommaChars) /\ comma \in Seq(CommaChars)
      /\ digits \in Seq(PlainChars) /\ cents \in Seq(PlainChars) /\ dot \in Seq(PlainChars)
  <2>1. /\ DigitChars \subseteq CommaChars /\ Commas \subseteq CommaChars
        /\ DigitChars \subseteq PlainChars /\ Points \subseteq PlainChars
    BY DEF CommaChars, PlainChars, Commas, Points
  <2> QED BY <2>1, SeqMonotonic
<1>2. comma[1] = "," /\ dot[1] = "."
  <2>1. 1 \in 1..Len(comma) /\ 1 \in 1..Len(dot)
    OBVIOUS
  <2>2. comma[1] \in Commas /\ dot[1] \in Points
    BY <2>1, ElementOfSeq
  <2> QED BY <2>2 DEF Commas, Points
<1>3. PICK text \in Seq(CommaChars) : /\ text = (digits \o comma) \o cents
                                     /\ Pointed(text, digits, comma[1], cents)
  BY <1>1, PointedIs
<1>4. PICK other \in Seq(PlainChars) : /\ other = (digits \o dot) \o cents
                                      /\ Pointed(other, digits, dot[1], cents)
  BY <1>1, PointedIs
<1>5. PICK replaced \in Seq(PlainChars) : replaced = ReplaceAll(text, ",", ".")
                                         /\ Replaced(replaced, text)
  BY CommaReplaced DEF Replaced
<1>6. PICK n \in Nat : n = Len(digits)
  OBVIOUS
<1>7. /\ Len(text) = n + 3 /\ Len(other) = n + 3 /\ Len(replaced) = n + 3
      /\ \A i \in 1..n : text[i] = digits[i] /\ other[i] = digits[i]
      /\ text[n + 1] = "," /\ other[n + 1] = "."
      /\ text[n + 2] = cents[1] /\ other[n + 2] = cents[1]
      /\ text[n + 3] = cents[2] /\ other[n + 3] = cents[2]
  BY <1>2, <1>3, <1>4, <1>5, <1>6 DEF Pointed, Replaced
<1>8. /\ \A i \in 1..n : digits[i] # ","
      /\ cents[1] # "," /\ cents[2] # ","
  <2>1. \A i \in 1..n : digits[i] \in DigitChars
    BY <1>6, ElementOfSeq
  <2>2. 1 \in 1..Len(cents) /\ 2 \in 1..Len(cents)
    OBVIOUS
  <2>3. cents[1] \in DigitChars /\ cents[2] \in DigitChars
    BY <2>2, ElementOfSeq
  <2> QED BY <2>1, <2>3, CharsAre
<1>9. \A i \in 1..(n + 3) : replaced[i] = IF text[i] = "," THEN "." ELSE text[i]
  BY <1>5, <1>7 DEF Replaced
<1>10. \A i \in 1..(n + 3) : i \in 1..n \/ i = n + 1 \/ i = n + 2 \/ i = n + 3
  OBVIOUS
<1>11. \A i \in 1..(n + 3) : replaced[i] = other[i]
  BY <1>7, <1>8, <1>9, <1>10
<1>12. replaced = other
  BY <1>7, <1>11, SeqEqual
<1> QED BY <1>3, <1>4, <1>5, <1>12

ReadsAs(text, amount) == DecimalOf(DecimalNotation(text)) = {amount}

(* So the notation of the text has a point before the cents, whichever     *)
(* convention the text is in.                                              *)
LEMMA NotationRead ==
  ASSUME NEW Separators, NEW p, NEW o, Separable(Separators, p, o),
         NEW number \in Nat, NEW group, GroupsOfNumber(group, number, Separators),
         NEW point \in Seq({p}), Len(point) = 1, NEW r \in 0..99
  PROVE  ReadsAs((Only(group, NumberChars) \o point) \o TwoDigits(r), 10 * (100 * number + r))
<1>1. PICK digits \in Seq(DigitChars) : /\ digits = Only(group, DigitChars)
                                        /\ Len(digits) > 0 /\ Number(digits) = number
  BY DEF GroupsOfNumber
<1>2. PICK cents \in Seq(DigitChars) : cents = TwoDigits(r) /\ Len(cents) = 2
  <2>1. PICK e \in Seq(DigitChars) : TRUE
    BY <1>1
  <2> QED BY <2>1, TwoDigitsRead
<1>6. Len(digits) > 0
  BY <1>1
<1>7. Len(cents) = 2
  BY <1>2
<1>8. group \in Seq(DigitChars \cup Separators)
  BY DEF GroupsOfNumber
<1>9. /\ Behind((Only(group, NumberChars) \o point) \o cents, p, o)
      /\ Without((Only(group, NumberChars) \o point) \o cents, o)
           = (Only(group, DigitChars) \o point) \o cents
  <2>1. Parted(group, point, cents, p, o)
    BY <1>7, <1>8, SeparatedFrom
  <2> QED BY <2>1 DEF Parted
<1> DEFINE clean == (Only(group, NumberChars) \o point) \o cents
           rest == (digits \o point) \o cents
<1>3. Behind(clean, p, o) /\ Without(clean, o) = rest
  BY <1>1, <1>9
<1>4. CASE p = "."
  <2>1. o = ","
    BY <1>4 DEF Separable
  <2>2. PICK dot \in Seq(Points) : dot = point /\ Len(dot) = 1
    BY <1>4 DEF Points
  <2>a. Len(dot) = 1
    BY <2>2
  <2>3. DecimalOf(rest) = {10 * (100 * number + r)}
    <3>1. DecimalOf((digits \o dot) \o TwoDigits(r)) = {10 * (100 * Number(digits) + r)}
      BY ZenonT(30), <1>6, <2>a, PointRead
    <3> QED BY <1>1, <1>2, <2>2, <3>1
  <2>4. ~ (LastAt(clean, ",") > LastAt(clean, "."))
    BY <1>3, <1>4, <2>1 DEF Behind
  <2>5. DecimalNotation(clean) = rest
    BY <1>3, <2>1, <2>4 DEF DecimalNotation
  <2> QED BY <1>2, <2>3, <2>5 DEF ReadsAs
<1>5. CASE p = ","
  <2>1. o = "."
    BY <1>5 DEF Separable
  <2>2. DecimalNotation(clean) = ReplaceAll(rest, ",", ".")
    BY <1>3, <1>5, <2>1 DEF DecimalNotation, Behind
  <2>3. PICK dot \in Seq(Points) : Len(dot) = 1
    <3>1. <<".">> \in Seq(Points) /\ Len(<<".">>) = 1
      BY DEF Points
    <3> QED BY <3>1
  <2>4. ReplaceAll(rest, ",", ".") = (digits \o dot) \o cents
    <3>1. PICK comma \in Seq(Commas) : comma = point /\ Len(comma) = 1
      BY <1>5 DEF Commas
    <3>2. ReplaceAll((digits \o comma) \o cents, ",", ".") = (digits \o dot) \o cents
      BY <1>2, <2>3, <3>1, CommaBecomesPoint
    <3> QED BY <3>1, <3>2
  <2>5. DecimalOf((digits \o dot) \o cents) = {10 * (100 * number + r)}
    <3>1. DecimalOf((digits \o dot) \o TwoDigits(r)) = {10 * (100 * Number(digits) + r)}
      BY ZenonT(30), <1>6, <2>3, PointRead
    <3> QED BY <1>1, <1>2, <3>1
  <2> QED BY <1>2, <2>2, <2>4, <2>5 DEF ReadsAs
<1> QED BY <1>4, <1>5 DEF Separable

-----------------------------------------------------------------------------
(* What is around a number is noise.                                       *)
Noise(text) == Only(text, NumberChars) = << >>

LEMMA NoiseAround ==
  ASSUME NEW S, NEW number \in Seq(S), NEW before \in Seq(S), NEW after \in Seq(S),
         Noise(before), Noise(after)
  PROVE  Noiseless((before \o number) \o after) = Noiseless(number)
<1>1. PICK s \in Seq(S) : s = before \o number
  BY ConcatProperties
<1>2. Only(s \o after, NumberChars) = Only(s, NumberChars) \o Only(after, NumberChars)
  BY SMTT(30), OnlyConcat
<1>3. Only(before \o number, NumberChars)
        = Only(before, NumberChars) \o Only(number, NumberChars)
  BY SMTT(30), OnlyConcat
<1>4. PICK kept \in Seq(NumberChars) : kept = Only(number, NumberChars)
  <2>1. S \cap NumberChars \subseteq NumberChars
    OBVIOUS
  <2> QED BY <2>1, OnlyTyped
<1>5. << >> \o kept = kept /\ kept \o << >> = kept
  BY ConcatEmptySeq
<1> QED BY <1>1, <1>2, <1>3, <1>4, <1>5, Zenon DEF Noise, Noiseless

LEMMA FirstOf ==
  ASSUME NEW S, NEW s \in Seq(S), NEW t \in Seq(S), Len(s) > 0
  PROVE  s \o t \in Seq(S) /\ Len(s \o t) > 0 /\ (s \o t)[1] = s[1]
<1>1. /\ s \o t \in Seq(S) /\ Len(s \o t) = Len(s) + Len(t)
      /\ \A i \in 1..(Len(s) + Len(t)) :
           (s \o t)[i] = IF i <= Len(s) THEN s[i] ELSE t[i - Len(s)]
  BY ConcatProperties
<1>2. PICK n \in Nat, m \in Nat : n = Len(s) /\ m = Len(t)
  OBVIOUS
<1>3. n > 0 /\ n + m > 0 /\ 1 \in 1..(n + m) /\ 1 <= n
  BY <1>2
<1> QED BY <1>1, <1>2, <1>3

LEMMA LastOf ==
  ASSUME NEW S, NEW s \in Seq(S), NEW t \in Seq(S), Len(t) = 1
  PROVE  s \o t \in Seq(S) /\ Len(s \o t) > 0 /\ Last(s \o t) = t[1]
<1>1. /\ s \o t \in Seq(S) /\ Len(s \o t) = Len(s) + Len(t)
      /\ \A i \in 1..(Len(s) + Len(t)) :
           (s \o t)[i] = IF i <= Len(s) THEN s[i] ELSE t[i - Len(s)]
  BY ConcatProperties
<1>2. PICK n \in Nat : n = Len(s)
  OBVIOUS
<1>3. n + 1 > 0 /\ n + 1 \in 1..(n + 1) /\ ~ (n + 1 <= n) /\ (n + 1) - n = 1
  OBVIOUS
<1>4. Len(s \o t) = n + 1 /\ (s \o t)[n + 1] = t[1]
  BY <1>1, <1>2, <1>3
<1>5. Last(s \o t) = (s \o t)[n + 1]
  BY <1>4 DEF Last
<1> QED BY <1>1, <1>3, <1>4, <1>5

AnyChars == STRING \cup NumberChars \cup {"(", ")"}

LEMMA SizeParts ==
  ASSUME NEW size \in Nat, size % 10 = 0
  PROVE  /\ Whole(size) \in Nat /\ Cents(size) \in 0..99
         /\ 10 * (100 * Whole(size) + Cents(size)) = size
BY DEF Whole, Cents

LEMMA ToSetIs ==
  ASSUME NEW S, NEW s \in Seq(S)
  PROVE  /\ ToSet(s) \subseteq S /\ s \in Seq(ToSet(s))
         /\ \A i \in 1..Len(s) : s[i] \in ToSet(s)
BY DEF ToSet

(* The two separators of a convention.                                     *)
LEMMA SeparatorsOf ==
  ASSUME NEW style, Convention(style)
  PROVE  \E p, o : /\ Separable(ToSet(style.group), p, o)
                   /\ style.point \in Seq({p}) /\ Len(style.point) = 1
<1>1. style.point \in {<<",">>, <<".">>}
      /\ ToSet(style.group) \cap (DigitChars \cup {"-"} \cup ToSet(style.point)) = {}
  BY DEF Convention
<1>2. CASE style.point = <<",">>
  <2>1. <<",">> \in Seq({","}) /\ Len(<<",">>) = 1 /\ <<",">>[1] = ","
    OBVIOUS
  <2>2. PICK s : s = style.point /\ s \in Seq({","}) /\ Len(s) = 1 /\ s[1] = ","
    BY <1>2, <2>1, Zenon
  <2>3. "," \in ToSet(style.point)
    <3>1. 1 \in 1..1
      OBVIOUS
    <3> QED BY <2>2, <3>1, ToSetIs
  <2>4. Separable(ToSet(style.group), ",", ".")
    BY <1>1, <2>3 DEF Separable
  <2> QED BY <2>2, <2>4, Zenon
<1>3. CASE style.point = <<".">>
  <2>1. <<".">> \in Seq({"."}) /\ Len(<<".">>) = 1 /\ <<".">>[1] = "."
    OBVIOUS
  <2>2. PICK s : s = style.point /\ s \in Seq({"."}) /\ Len(s) = 1 /\ s[1] = "."
    BY <1>3, <2>1, Zenon
  <2>3. "." \in ToSet(style.point)
    <3>1. 1 \in 1..1
      OBVIOUS
    <3> QED BY <2>2, <3>1, ToSetIs
  <2>4. Separable(ToSet(style.group), ".", ",")
    BY <1>1, <2>3 DEF Separable
  <2> QED BY <2>2, <2>4, Zenon
<1> QED BY <1>1, <1>2, <1>3

LEMMA BareRead ==
  ASSUME NEW style, Convention(style), NEW size \in Nat, size % 10 = 0
  PROVE  /\ Bare(size, style) \in Seq(AnyChars) /\ Len(Bare(size, style)) > 0
         /\ Bare(size, style)[1] # "("
         /\ DecimalOf(DecimalNotation(Noiseless(Bare(size, style)))) = {size}
<1> DEFINE Separators == ToSet(style.group)
<1>1. PICK q \in Nat, r \in 0..99 :
        q = Whole(size) /\ r = Cents(size) /\ 10 * (100 * q + r) = size
  BY SizeParts
<1>2. PICK p, o : /\ Separable(Separators, p, o)
                  /\ style.point \in Seq({p}) /\ Len(style.point) = 1
  BY SeparatorsOf
<1>3. Separators \subseteq STRING /\ style.group \in Seq(Separators)
  <2>1. style.group \in Seq(STRING)
    BY DEF Convention
  <2> QED BY <2>1, ToSetIs
<1>4. Separators \cap DigitChars = {} /\ p \in NumberChars
  BY <1>2 DEF Separable, NumberChars
<1> HIDE DEF Separators
<1>5. PICK group \in Seq(DigitChars \cup Separators) :
        /\ group = Grouped(q, style.group) /\ GroupsOfNumber(group, q, Separators)
        /\ Len(group) > 0 /\ group[1] \in DigitChars
  BY <1>3, <1>4, GroupedRead DEF GroupsOfNumber
<1>6. PICK point \in Seq({p}) : point = style.point /\ Len(point) = 1
  BY <1>2
<1>7. PICK cents \in Seq(DigitChars) : cents = TwoDigits(r) /\ Len(cents) = 2
  <2>1. PICK e \in Seq(DigitChars) : e = << >>
    BY EmptySeq, Zenon
  <2> QED BY <2>1, TwoDigitsRead
<1>8. DigitChars \subseteq AnyChars /\ Separators \subseteq AnyChars /\ {p} \subseteq AnyChars
  BY <1>3, <1>4 DEF AnyChars, NumberChars
<1>9. PICK x \in Seq(AnyChars), y \in Seq(AnyChars), z \in Seq(AnyChars) :
        x = group /\ y = point /\ z = cents
  <2>1. DigitChars \cup Separators \subseteq AnyChars
    BY <1>8
  <2> QED BY <1>8, <2>1, SeqMonotonic
<1>10. Bare(size, style) = (x \o y) \o z
  BY <1>1, <1>5, <1>6, <1>7, <1>9 DEF Bare
<1>11. PICK s \in Seq(AnyChars) : s = x \o y /\ Len(s) > 0 /\ s[1] = x[1]
  <2>1. Len(x) > 0
    BY <1>5, <1>9
  <2> QED BY <2>1, FirstOf
<1>12. s \o z \in Seq(AnyChars) /\ Len(s \o z) > 0 /\ (s \o z)[1] = s[1]
  <2>1. Len(s) > 0
    BY <1>11
  <2> QED BY <2>1, FirstOf
<1>13. x[1] # "("
  BY <1>5, <1>9, CharsAre
<1>14. Kept(y, NumberChars) /\ Kept(z, NumberChars)
  <2>1. {p} \subseteq NumberChars /\ DigitChars \subseteq NumberChars
    BY <1>4 DEF NumberChars
  <2>2. Only(point, NumberChars) = point /\ Only(cents, NumberChars) = cents
    BY <2>1, OnlyAll
  <2> QED BY <1>9, <2>2 DEF Kept
<1>15. Noiseless((x \o y) \o z) = (Only(x, NumberChars) \o y) \o z
  <2>1. KeepsPoint(x, y, z, NumberChars)
    BY <1>14, OnlyPointed
  <2> QED BY <2>1, Zenon DEF Noiseless, KeepsPoint
<1>16. ReadsAs((Only(group, NumberChars) \o point) \o TwoDigits(r), 10 * (100 * q + r))
  <2>1. Len(point) = 1
    BY <1>6
  <2>2. GroupsOfNumber(group, q, Separators)
    BY <1>5
  <2>3. Separable(Separators, p, o)
    BY <1>2
  <2> QED BY ZenonT(30), <2>1, <2>2, <2>3, NotationRead
<1>17. DecimalOf(DecimalNotation(Noiseless(Bare(size, style)))) = {size}
  BY <1>1, <1>7, <1>9, <1>10, <1>15, <1>16, Zenon DEF ReadsAs
<1> QED BY <1>10, <1>11, <1>12, <1>13, <1>17

(* What is written around the number.                                      *)
LEMMA AroundNumber ==
  ASSUME NEW style, Convention(style)
  PROVE  /\ style.before \in Seq(AnyChars) /\ style.after \in Seq(AnyChars)
         /\ Noise(style.before) /\ Noise(style.after)
         /\ \A i \in 1..Len(style.before) : style.before[i] # "("
<1>1. style.before \in Seq(STRING) /\ style.after \in Seq(STRING)
  BY DEF Convention
<1>2. STRING \subseteq AnyChars
  BY DEF AnyChars
<1>3. style.before \in Seq(AnyChars) /\ style.after \in Seq(AnyChars)
  BY <1>1, <1>2, SeqMonotonic
<1>4. PICK B, A : B = ToSet(style.before) /\ A = ToSet(style.after)
  OBVIOUS
<1>5. B \cap NumberChars = {} /\ A \cap NumberChars = {} /\ "(" \notin B
  BY <1>4 DEF Convention
<1>6. style.before \in Seq(B) /\ style.after \in Seq(A)
  BY <1>1, <1>4, ToSetIs
<1>7. Noise(style.before) /\ Noise(style.after)
  BY <1>5, <1>6, OnlyNone DEF Noise
<1>8. \A i \in 1..Len(style.before) : style.before[i] # "("
  BY <1>5, <1>6, ElementOfSeq
<1> QED BY <1>3, <1>7, <1>8

ReadOf(text, amount) == text \in Seq(AnyChars) /\ parse_decimal(text) = {amount}

LEMMA PositiveRead ==
  ASSUME NEW style, Convention(style), NEW size \in Nat, size % 10 = 0
  PROVE  ReadOf((style.before \o Bare(size, style)) \o style.after, size)
<1>1. PICK b \in Seq(AnyChars), a \in Seq(AnyChars) :
        /\ b = style.before /\ a = style.after /\ Noise(b) /\ Noise(a)
        /\ \A i \in 1..Len(b) : b[i] # "("
  BY AroundNumber
<1>2. PICK number \in Seq(AnyChars) :
        /\ number = Bare(size, style) /\ Len(number) > 0 /\ number[1] # "("
        /\ DecimalOf(DecimalNotation(Noiseless(number))) = {size}
  BY BareRead
<1>3. PICK s \in Seq(AnyChars) : s = b \o number /\ Len(s) > 0 /\ s[1] # "("
  <2>1. CASE Len(b) > 0
    <3>1. 1 \in 1..Len(b)
      BY <2>1
    <3>2. b[1] # "("
      BY <1>1, <3>1
    <3>3. b \o number \in Seq(AnyChars) /\ Len(b \o number) > 0 /\ (b \o number)[1] = b[1]
      BY <2>1, FirstOf
    <3> QED BY <3>2, <3>3
  <2>2. CASE ~ (Len(b) > 0)
    <3>1. b = << >>
      BY <2>2, EmptySeq
    <3>2. b \o number = number
      BY <3>1, ConcatEmptySeq
    <3> QED BY <1>2, <3>2
  <2> QED BY <2>1, <2>2
<1>4. PICK text \in Seq(AnyChars) : text = s \o a /\ Len(text) > 0 /\ text[1] # "("
  <2>1. Len(s) > 0
    BY <1>3
  <2>2. s \o a \in Seq(AnyChars) /\ Len(s \o a) > 0 /\ (s \o a)[1] = s[1]
    BY <2>1, FirstOf
  <2> QED BY <1>3, <2>2
<1>5. Noiseless((b \o number) \o a) = Noiseless(number)
  <2>1. Noise(b) /\ Noise(a)
    BY <1>1
  <2> QED BY <2>1, NoiseAround
<1>6. Noiseless(text) = Noiseless(number)
  BY <1>3, <1>4, <1>5, Zenon
<1>7. ~Accounting(text)
  <2>1. Head(text) = text[1]
    BY <1>4
  <2> QED BY <1>4, <2>1 DEF Accounting
<1>8. parse_decimal(text) = {size}
  BY <1>2, <1>6, <1>7 DEF parse_decimal
<1>9. text = (style.before \o Bare(size, style)) \o style.after
  BY <1>1, <1>2, <1>3, <1>4, Zenon
<1> QED BY <1>8, <1>9 DEF ReadOf

LEMMA NegativeRead ==
  ASSUME NEW style, Convention(style), NEW size \in Nat, size % 10 = 0
  PROVE  ReadOf((<<"(">> \o Bare(size, style)) \o <<")">>, -size)
<1>1. PICK b \in Seq(AnyChars), a \in Seq(AnyChars) :
        /\ b = <<"(">> /\ a = <<")">> /\ Noise(b) /\ Noise(a)
        /\ Len(b) = 1 /\ b[1] = "(" /\ Len(a) = 1 /\ a[1] = ")"
  <2>1. "(" \in AnyChars /\ ")" \in AnyChars /\ "(" \notin NumberChars /\ ")" \notin NumberChars
    BY CharsAre DEF AnyChars, NumberChars
  <2>2. PICK o, c : o = "(" /\ c = ")"
    OBVIOUS
  <2>3. o \in AnyChars /\ c \in AnyChars /\ o \notin NumberChars /\ c \notin NumberChars
    BY <2>1, <2>2
  <2>4. /\ <<o>> \in Seq(AnyChars) /\ Len(<<o>>) = 1 /\ <<o>>[1] = o /\ <<o>> \in Seq({o})
        /\ <<c>> \in Seq(AnyChars) /\ Len(<<c>>) = 1 /\ <<c>>[1] = c /\ <<c>> \in Seq({c})
    BY <2>3
  <2>5. PICK b \in Seq({o}), a \in Seq({c}) : b = <<o>> /\ a = <<c>>
    BY <2>4
  <2>6. {o} \cap NumberChars = {} /\ {c} \cap NumberChars = {}
    BY <2>3
  <2>7. Noise(b) /\ Noise(a)
    BY <2>6, OnlyNone DEF Noise
  <2> QED BY <2>2, <2>4, <2>5, <2>7, Zenon
<1>2. PICK number \in Seq(AnyChars) :
        /\ number = Bare(size, style)
        /\ DecimalOf(DecimalNotation(Noiseless(number))) = {size}
  BY BareRead
<1>3. PICK s \in Seq(AnyChars) : s = b \o number /\ Len(s) > 0 /\ s[1] = "("
  <2>1. Len(b) > 0
    BY <1>1
  <2>2. b \o number \in Seq(AnyChars) /\ Len(b \o number) > 0 /\ (b \o number)[1] = b[1]
    BY <2>1, FirstOf
  <2> QED BY <1>1, <2>2
<1>4. PICK text \in Seq(AnyChars) :
        text = s \o a /\ Len(text) > 0 /\ text[1] = "(" /\ Last(text) = ")"
  <2>1. Len(s) > 0 /\ Len(a) = 1
    BY <1>1, <1>3
  <2>2. s \o a \in Seq(AnyChars) /\ Len(s \o a) > 0 /\ (s \o a)[1] = s[1]
    BY <2>1, FirstOf
  <2>3. Last(s \o a) = a[1]
    BY <2>1, LastOf
  <2> QED BY <1>1, <1>3, <2>2, <2>3
<1>5. Noiseless((b \o number) \o a) = Noiseless(number)
  <2>1. Noise(b) /\ Noise(a)
    BY <1>1
  <2> QED BY <2>1, NoiseAround
<1>6. Noiseless(text) = Noiseless(number)
  BY <1>3, <1>4, <1>5, Zenon
<1>7. Accounting(text)
  <2>1. text # << >> /\ Head(text) = text[1]
    BY <1>4
  <2> QED BY <1>4, <2>1 DEF Accounting
<1>8. parse_decimal(text) = {-size}
  BY <1>2, <1>6, <1>7 DEF parse_decimal
<1>9. text = (<<"(">> \o Bare(size, style)) \o <<")">>
  BY <1>1, <1>2, <1>3, <1>4, Zenon
<1> QED BY <1>8, <1>9 DEF ReadOf

(* An amount in cents is read as it was meant.                             *)
LEMMA AmountRead ==
  ASSUME NEW style, Convention(style), NEW amount, IsCents(amount)
  PROVE  ReadOf(Printed(amount, style), amount)
<1>1. amount \in Int /\ amount % 10 = 0
  BY DEF IsCents
<1>2. CASE amount < 0
  <2>1. PICK size \in Nat : size = -amount /\ size % 10 = 0
    BY <1>1, <1>2
  <2>2. Printed(amount, style) = (<<"(">> \o Bare(size, style)) \o <<")">>
    BY <1>2, <2>1 DEF Printed
  <2>3. ReadOf((<<"(">> \o Bare(size, style)) \o <<")">>, -size)
    BY <2>1, NegativeRead
  <2>4. -size = amount
    BY <1>1, <2>1
  <2> QED BY <2>2, <2>3, <2>4
<1>3. CASE ~ (amount < 0)
  <2>1. PICK size \in Nat : size = amount /\ size % 10 = 0
    BY <1>1, <1>3
  <2>2. Printed(amount, style) = (style.before \o Bare(size, style)) \o style.after
    BY <1>3, <2>1 DEF Printed
  <2>3. ReadOf((style.before \o Bare(size, style)) \o style.after, size)
    BY <2>1, PositiveRead
  <2> QED BY <2>1, <2>2, <2>3
<1> QED BY <1>2, <1>3

-----------------------------------------------------------------------------
(* Dates.                                                                  *)
DayFirst   == <<"d", "m", "y">>
YearFirst  == <<"y", "m", "d">>
MonthFirst == <<"m", "d", "y">>

(* The date a text gives when year, month and day are at these places.     *)
At(text, sep, date) == IF text.sep = sep /\ Calendar(date) THEN {date} ELSE {}

LEMMA OrdersAre ==
  /\ DayFirst[1] = "d" /\ DayFirst[2] = "m" /\ DayFirst[3] = "y"
  /\ YearFirst[1] = "y" /\ YearFirst[2] = "m" /\ YearFirst[3] = "d"
  /\ MonthFirst[1] = "m" /\ MonthFirst[2] = "d" /\ MonthFirst[3] = "y"
BY DEF DayFirst, YearFirst, MonthFirst

LEMMA PlacesAre ==
  /\ (CHOOSE j \in 1..3 : DayFirst[j] = "d") = 1
  /\ (CHOOSE j \in 1..3 : DayFirst[j] = "m") = 2
  /\ (CHOOSE j \in 1..3 : DayFirst[j] = "y") = 3
  /\ (CHOOSE j \in 1..3 : YearFirst[j] = "y") = 1
  /\ (CHOOSE j \in 1..3 : YearFirst[j] = "m") = 2
  /\ (CHOOSE j \in 1..3 : YearFirst[j] = "d") = 3
  /\ (CHOOSE j \in 1..3 : MonthFirst[j] = "m") = 1
  /\ (CHOOSE j \in 1..3 : MonthFirst[j] = "d") = 2
  /\ (CHOOSE j \in 1..3 : MonthFirst[j] = "y") = 3
<1>1. \A j \in 1..3 : j = 1 \/ j = 2 \/ j = 3
  OBVIOUS
<1>2. 1 \in 1..3 /\ 2 \in 1..3 /\ 3 \in 1..3
  OBVIOUS
<1>3. /\ (CHOOSE j \in 1..3 : DayFirst[j] = "d") = 1
      /\ (CHOOSE j \in 1..3 : DayFirst[j] = "m") = 2
      /\ (CHOOSE j \in 1..3 : DayFirst[j] = "y") = 3
  BY <1>1, <1>2, OrdersAre
<1>4. /\ (CHOOSE j \in 1..3 : YearFirst[j] = "y") = 1
      /\ (CHOOSE j \in 1..3 : YearFirst[j] = "m") = 2
      /\ (CHOOSE j \in 1..3 : YearFirst[j] = "d") = 3
  BY <1>1, <1>2, OrdersAre
<1>5. /\ (CHOOSE j \in 1..3 : MonthFirst[j] = "m") = 1
      /\ (CHOOSE j \in 1..3 : MonthFirst[j] = "d") = 2
      /\ (CHOOSE j \in 1..3 : MonthFirst[j] = "y") = 3
  BY <1>1, <1>2, OrdersAre
<1> QED BY <1>3, <1>4, <1>5

LEMMA InOrder ==
  ASSUME NEW text, NEW sep
  PROVE  LET p == text.parts
         IN /\ InLayout(text, Layout(sep, DayFirst)) = At(text, sep, <<p[3], p[2], p[1]>>)
            /\ InLayout(text, Layout(sep, YearFirst)) = At(text, sep, <<p[1], p[2], p[3]>>)
            /\ InLayout(text, Layout(sep, MonthFirst)) = At(text, sep, <<p[3], p[1], p[2]>>)
<1> DEFINE p == text.parts
<1>1. InLayout(text, Layout(sep, DayFirst)) = At(text, sep, <<p[3], p[2], p[1]>>)
  BY PlacesAre DEF InLayout, Layout, At
<1>2. InLayout(text, Layout(sep, YearFirst)) = At(text, sep, <<p[1], p[2], p[3]>>)
  BY PlacesAre DEF InLayout, Layout, At
<1>3. InLayout(text, Layout(sep, MonthFirst)) = At(text, sep, <<p[3], p[1], p[2]>>)
  BY PlacesAre DEF InLayout, Layout, At
<1> QED BY <1>1, <1>2, <1>3

Shows(text, sep, first, second, third) ==
  /\ text.sep = sep
  /\ text.parts[1] = first /\ text.parts[2] = second /\ text.parts[3] = third

LEMMA PrintedParts ==
  ASSUME NEW y, NEW m, NEW d, NEW sep
  PROVE  /\ Shows(PrintedDate(<<y, m, d>>, Layout(sep, DayFirst)), sep, d, m, y)
         /\ Shows(PrintedDate(<<y, m, d>>, Layout(sep, YearFirst)), sep, y, m, d)
         /\ Shows(PrintedDate(<<y, m, d>>, Layout(sep, MonthFirst)), sep, m, d, y)
BY OrdersAre DEF PrintedDate, Layout, Shows

LEMMA FormatsAre ==
  /\ DOMAIN SupportedDateFormats = 1..7
  /\ SupportedDateFormats[1] = Layout("/", DayFirst)
  /\ SupportedDateFormats[2] = Layout("-", DayFirst)
  /\ SupportedDateFormats[3] = Layout(".", DayFirst)
  /\ SupportedDateFormats[4] = Layout("-", YearFirst)
  /\ SupportedDateFormats[5] = Layout("/", YearFirst)
  /\ SupportedDateFormats[6] = Layout("/", MonthFirst)
  /\ SupportedDateFormats[7] = Layout("name", DayFirst)
BY DEF SupportedDateFormats, DayFirst, YearFirst, MonthFirst

LEMMA FirstFit ==
  ASSUME NEW text, NEW k \in 1..7, NEW date,
         InLayout(text, SupportedDateFormats[k]) = {date},
         \A j \in 1..(k - 1) : InLayout(text, SupportedDateFormats[j]) = {}
  PROVE  parse_date(text) = {date}
<1> DEFINE fitting == {i \in DOMAIN SupportedDateFormats :
                         InLayout(text, SupportedDateFormats[i]) # {}}
<1>1. k \in fitting /\ \A i \in fitting : i \in 1..7
  BY FormatsAre
<1>2. \A i \in fitting : k <= i
  <2>1. ASSUME NEW i \in fitting, ~ (k <= i)
        PROVE  FALSE
    <3>1. i \in 1..(k - 1)
      BY <1>1, <2>1
    <3> QED BY <2>1, <3>1
  <2> QED BY <2>1
<1>3. parse_date(text) = IF fitting = {} THEN {}
                         ELSE InLayout(text, SupportedDateFormats[Min(fitting)])
  BY DEF parse_date
<1> HIDE DEF fitting
<1>4. Min(fitting) = k
  <2>1. PICK least : least = Min(fitting) /\ least \in fitting /\ \A i \in fitting : least <= i
    BY <1>1, <1>2 DEF Min
  <2>2. least \in 1..7 /\ least <= k /\ k <= least
    BY <1>1, <1>2, <2>1
  <2> QED BY <2>1, <2>2
<1> QED BY <1>1, <1>3, <1>4

(* No day or month is a year.                                              *)
Years == 1000..9999

LEMMA CalendarIs ==
  ASSUME NEW y, NEW m, NEW d
  PROVE  Calendar(<<y, m, d>>) <=> y \in Years /\ m \in 1..12 /\ d \in 1..DaysIn(y, m)
BY DEF Calendar, Years

LEMMA CalendarParts ==
  ASSUME NEW y, NEW m, NEW d, Calendar(<<y, m, d>>)
  PROVE  y \in Years /\ m \in 1..12 /\ d \in 1..31
BY CalendarIs DEF DaysIn

LEMMA NoYear ==
  ASSUME NEW n \in 1..31
  PROVE  n \notin Years
<1>1. \A i \in Years : i \in Int /\ 1000 <= i
  BY DEF Years
<1>2. n \in Int /\ n <= 31
  OBVIOUS
<1>3. ~ (1000 <= n)
  BY <1>2
<1> QED BY <1>1, <1>3

(* A date is read as it was meant, in every layout that can be told from   *)
(* the day-first one.                                                      *)
LEMMA DateFits ==
  ASSUME NEW y, NEW m, NEW d, Calendar(<<y, m, d>>), NEW k \in 1..7,
         k = 6 => d > 12
  PROVE  parse_date(PrintedDate(<<y, m, d>>, SupportedDateFormats[k])) = {<<y, m, d>>}
<1> DEFINE date == <<y, m, d>>
<1>1. y \in Years /\ m \in 1..12 /\ d \in 1..31
  BY CalendarParts
<1>2. PICK text : text = PrintedDate(date, SupportedDateFormats[k])
  OBVIOUS
<1>3. PICK p : p = text.parts
  OBVIOUS
<1>4. /\ InLayout(text, SupportedDateFormats[1]) = At(text, "/", <<p[3], p[2], p[1]>>)
      /\ InLayout(text, SupportedDateFormats[2]) = At(text, "-", <<p[3], p[2], p[1]>>)
      /\ InLayout(text, SupportedDateFormats[3]) = At(text, ".", <<p[3], p[2], p[1]>>)
      /\ InLayout(text, SupportedDateFormats[4]) = At(text, "-", <<p[1], p[2], p[3]>>)
      /\ InLayout(text, SupportedDateFormats[5]) = At(text, "/", <<p[1], p[2], p[3]>>)
      /\ InLayout(text, SupportedDateFormats[6]) = At(text, "/", <<p[3], p[1], p[2]>>)
      /\ InLayout(text, SupportedDateFormats[7]) = At(text, "name", <<p[3], p[2], p[1]>>)
  BY <1>3, FormatsAre, InOrder, Zenon
<1>5. ASSUME NEW a, NEW b
      PROVE  ~Calendar(<<d, a, b>>) /\ ~Calendar(<<m, a, b>>)
  <2>1. m \in 1..31
    BY <1>1
  <2> QED BY <1>1, <2>1, CalendarIs, NoYear
<1>6. ASSUME NEW sep, Shows(text, sep, d, m, y)
      PROVE  text.sep = sep /\ p[1] = d /\ p[2] = m /\ p[3] = y
  BY <1>3, <1>6, Zenon DEF Shows
<1>7. ASSUME NEW sep, Shows(text, sep, y, m, d)
      PROVE  text.sep = sep /\ p[1] = y /\ p[2] = m /\ p[3] = d
  BY <1>3, <1>7, Zenon DEF Shows
<1>8. ASSUME NEW sep, Shows(text, sep, m, d, y)
      PROVE  text.sep = sep /\ p[1] = m /\ p[2] = d /\ p[3] = y
  BY <1>3, <1>8, Zenon DEF Shows
<1> DEFINE fits(j) == InLayout(text, SupportedDateFormats[j])
<1> HIDE DEF date
<1>9. k = 6 => ~Calendar(<<y, d, m>>)
  <2>1. d \in 1..12 => ~ (d > 12)
    OBVIOUS
  <2> QED BY <2>1, CalendarIs
<1>10. CASE k = 1
  <2>1. Shows(text, "/", d, m, y)
    BY <1>2, <1>10, FormatsAre, PrintedParts DEF date
  <2>2. text.sep = "/" /\ p[1] = d /\ p[2] = m /\ p[3] = y
    BY <2>1, <1>6
  <2>3. fits(1) = {date}
    BY <1>4, <2>2 DEF At, date
  <2>4. \A j \in 1..(k - 1) : fits(j) = {}
    BY <1>10
  <2> HIDE DEF fits
  <2> QED BY <1>2, <1>10, <2>3, <2>4, FirstFit DEF fits, date
<1>11. CASE k = 2
  <2>1. Shows(text, "-", d, m, y)
    BY <1>2, <1>11, FormatsAre, PrintedParts DEF date
  <2>2. text.sep = "-" /\ p[1] = d /\ p[2] = m /\ p[3] = y
    BY <2>1, <1>6
  <2>3. fits(2) = {date}
    BY <1>4, <2>2 DEF At, date
  <2>4. fits(1) = {}
    BY <1>4, <2>2 DEF At
  <2>5. \A j \in 1..(k - 1) : fits(j) = {}
    <3>1. \A j \in 1..(k - 1) : j = 1
      BY <1>11
    <3> QED BY <2>4, <3>1
  <2> HIDE DEF fits
  <2> QED BY <1>2, <1>11, <2>3, <2>5, FirstFit DEF fits, date
<1>12. CASE k = 3
  <2>1. Shows(text, ".", d, m, y)
    BY <1>2, <1>12, FormatsAre, PrintedParts DEF date
  <2>2. text.sep = "." /\ p[1] = d /\ p[2] = m /\ p[3] = y
    BY <2>1, <1>6
  <2>3. fits(3) = {date}
    BY <1>4, <2>2 DEF At, date
  <2>4. fits(1) = {} /\ fits(2) = {}
    BY <1>4, <2>2 DEF At
  <2>5. \A j \in 1..(k - 1) : fits(j) = {}
    <3>1. \A j \in 1..(k - 1) : j = 1 \/ j = 2
      BY <1>12
    <3> QED BY <2>4, <3>1
  <2> HIDE DEF fits
  <2> QED BY <1>2, <1>12, <2>3, <2>5, FirstFit DEF fits, date
<1>13. CASE k = 4
  <2>1. Shows(text, "-", y, m, d)
    BY <1>2, <1>13, FormatsAre, PrintedParts DEF date
  <2>2. text.sep = "-" /\ p[1] = y /\ p[2] = m /\ p[3] = d
    BY <2>1, <1>7
  <2>3. fits(4) = {date}
    BY <1>4, <2>2 DEF At, date
  <2>4. fits(1) = {} /\ fits(2) = {} /\ fits(3) = {}
    BY <1>4, <1>5, <2>2 DEF At
  <2>5. \A j \in 1..(k - 1) : fits(j) = {}
    <3>1. \A j \in 1..(k - 1) : j = 1 \/ j = 2 \/ j = 3
      BY <1>13
    <3> QED BY <2>4, <3>1
  <2> HIDE DEF fits
  <2> QED BY <1>2, <1>13, <2>3, <2>5, FirstFit DEF fits, date
<1>14. CASE k = 5
  <2>1. Shows(text, "/", y, m, d)
    BY <1>2, <1>14, FormatsAre, PrintedParts DEF date
  <2>2. text.sep = "/" /\ p[1] = y /\ p[2] = m /\ p[3] = d
    BY <2>1, <1>7
  <2>3. fits(5) = {date}
    BY <1>4, <2>2 DEF At, date
  <2>4. fits(1) = {} /\ fits(2) = {} /\ fits(3) = {} /\ fits(4) = {}
    BY <1>4, <1>5, <2>2 DEF At
  <2>5. \A j \in 1..(k - 1) : fits(j) = {}
    <3>1. \A j \in 1..(k - 1) : j = 1 \/ j = 2 \/ j = 3 \/ j = 4
      BY <1>14
    <3> QED BY <2>4, <3>1
  <2> HIDE DEF fits
  <2> QED BY <1>2, <1>14, <2>3, <2>5, FirstFit DEF fits, date
<1>15. CASE k = 6
  <2>1. Shows(text, "/", m, d, y)
    BY <1>2, <1>15, FormatsAre, PrintedParts DEF date
  <2>2. text.sep = "/" /\ p[1] = m /\ p[2] = d /\ p[3] = y
    BY <2>1, <1>8
  <2>3. fits(6) = {date}
    BY <1>4, <2>2 DEF At, date
  <2>4. fits(1) = {} /\ fits(2) = {} /\ fits(3) = {} /\ fits(4) = {} /\ fits(5) = {}
    BY <1>4, <1>5, <1>9, <1>15, <2>2 DEF At
  <2>5. \A j \in 1..(k - 1) : fits(j) = {}
    <3>1. \A j \in 1..(k - 1) : j = 1 \/ j = 2 \/ j = 3 \/ j = 4 \/ j = 5
      BY <1>15
    <3> QED BY <2>4, <3>1
  <2> HIDE DEF fits
  <2> QED BY <1>2, <1>15, <2>3, <2>5, FirstFit DEF fits, date
<1>16. CASE k = 7
  <2>1. Shows(text, "name", d, m, y)
    BY <1>2, <1>16, FormatsAre, PrintedParts DEF date
  <2>2. text.sep = "name" /\ p[1] = d /\ p[2] = m /\ p[3] = y
    BY <2>1, <1>6
  <2>3. fits(7) = {date}
    BY <1>4, <2>2 DEF At, date
  <2>4. fits(1) = {} /\ fits(2) = {} /\ fits(3) = {} /\ fits(4) = {} /\ fits(5) = {} /\ fits(6) = {}
    BY <1>4, <2>2 DEF At
  <2>5. \A j \in 1..(k - 1) : fits(j) = {}
    <3>1. \A j \in 1..(k - 1) : j = 1 \/ j = 2 \/ j = 3 \/ j = 4 \/ j = 5 \/ j = 6
      BY <1>16
    <3> QED BY <2>4, <3>1
  <2> HIDE DEF fits
  <2> QED BY <1>2, <1>16, <2>3, <2>5, FirstFit DEF fits, date
<1>17. k = 1 \/ k = 2 \/ k = 3 \/ k = 4 \/ k = 5 \/ k = 6 \/ k = 7
  OBVIOUS
<1> QED BY <1>10, <1>11, <1>12, <1>13, <1>14, <1>15, <1>16, <1>17

-----------------------------------------------------------------------------
(* What a document prints.  An amount that it does not have is printed as  *)
(* nothing, and nothing else is.                                           *)
Prints(text, amounts) ==
  /\ text \in Seq(AnyChars)
  /\ parse_decimal(text) = amounts
  /\ text = << >> <=> amounts = {}

LEMMA AmountPrinted ==
  ASSUME NEW doc, Consistent(doc), NEW f \in AmountFields \cap DOMAIN doc.says
  PROVE  Prints(PrintedField(doc, f), doc.says[f])
<1> DEFINE said == doc.says[f]
           text == PrintedField(doc, f)
<1>1. Convention(doc.style)
  BY DEF Consistent
<1>2. \A amount \in said : IsCents(amount) /\ said = {amount}
  BY DEF Consistent
<1>3. text = IF said = {} THEN << >> ELSE Printed(CHOOSE a \in said : TRUE, doc.style)
  BY DEF PrintedField, AmountFields, DateFields
<1>4. CASE said = {}
  <2>1. PICK e \in Seq(AnyChars) : e = << >>
    BY EmptySeq, Zenon
  <2> QED BY <1>3, <1>4, <2>1, NothingIsRead DEF Prints
<1>5. CASE said # {}
  <2> DEFINE amount == CHOOSE a \in said : TRUE
  <2>1. amount \in said
    BY <1>5
  <2> HIDE DEF amount
  <2>2. IsCents(amount) /\ said = {amount}
    BY <1>2, <2>1
  <2>3. ReadOf(Printed(amount, doc.style), amount)
    BY <1>1, <2>2, AmountRead
  <2>4. text = Printed(amount, doc.style)
    BY <1>3, <1>5 DEF amount
  <2>5. text \in Seq(AnyChars) /\ parse_decimal(text) = said
    BY <2>2, <2>3, <2>4 DEF ReadOf
  <2>6. text # << >>
    BY <1>5, <2>5, NothingIsRead
  <2> QED BY <1>5, <2>5, <2>6 DEF Prints
<1> QED BY <1>4, <1>5

(* It is stored as what it is.                                             *)
LEMMA PrintedIsStored ==
  ASSUME NEW text, NEW amounts, Prints(text, amounts)
  PROVE  StoredAs(Stored(text), amounts) /\ (Stored(text) = << >> <=> amounts = {})
<1>1. text \in Seq(AnyChars) /\ parse_decimal(text) = amounts
  BY DEF Prints
<1>2. StoredAs(Stored(text), amounts)
  BY <1>1, StoredIsRead
<1>3. amounts = {} => Stored(text) = << >>
  BY NothingIsRead DEF Prints
<1>4. Stored(text) = << >> => amounts = {}
  BY <1>2, NothingIsRead DEF StoredAs
<1> QED BY <1>2, <1>3, <1>4

(* No date is read where none is printed.                                  *)
LEMMA NoDateIsRead == parse_date(Unprinted) = {}
<1>1. ASSUME NEW i \in 1..7
      PROVE  InLayout(Unprinted, SupportedDateFormats[i]) = {}
  <2>1. SupportedDateFormats[i].sep # ""
    <3>1. \A sep, order : Layout(sep, order).sep = sep
      BY DEF Layout
    <3>2. i = 1 \/ i = 2 \/ i = 3 \/ i = 4 \/ i = 5 \/ i = 6 \/ i = 7
      OBVIOUS
    <3>3. /\ SupportedDateFormats[1].sep = "/" /\ SupportedDateFormats[2].sep = "-"
          /\ SupportedDateFormats[3].sep = "." /\ SupportedDateFormats[4].sep = "-"
          /\ SupportedDateFormats[5].sep = "/" /\ SupportedDateFormats[6].sep = "/"
          /\ SupportedDateFormats[7].sep = "name"
      BY <3>1, FormatsAre, Zenon
    <3> QED BY <3>2, <3>3
  <2>2. Unprinted.sep = ""
    BY DEF Unprinted
  <2> QED BY <2>1, <2>2 DEF InLayout
<1> QED BY <1>1, FormatsAre DEF parse_date

(* A date is read as it was meant.                                         *)
LEMMA DatePrinted ==
  ASSUME NEW doc, Consistent(doc), Legible(doc), NEW f \in DateFields \cap DOMAIN doc.says
  PROVE  /\ parse_date(PrintedField(doc, f)) = doc.says[f]
         /\ PrintedField(doc, f) = Unprinted <=> doc.says[f] = {}
<1> DEFINE said == doc.says[f]
           text == PrintedField(doc, f)
<1>1. text = IF said = {} THEN Unprinted
             ELSE PrintedDate(CHOOSE d \in said : TRUE, doc.layout)
  BY DEF PrintedField, AmountFields, DateFields
<1>2. CASE said = {}
  BY <1>1, <1>2, NoDateIsRead
<1>3. CASE said # {}
  <2> DEFINE date == CHOOSE d \in said : TRUE
  <2>1. date \in said
    BY <1>3
  <2>2. text = PrintedDate(date, doc.layout)
    BY <1>1, <1>3
  <2> HIDE DEF date
  <2>3. date \in Int \X Int \X Int /\ Calendar(date) /\ said = {date}
    BY <2>1 DEF Consistent
  <2>4. PICK y, m, d : date = <<y, m, d>>
    BY <2>3
  <2>5. PICK k \in 1..7 : doc.layout = SupportedDateFormats[k]
    BY FormatsAre DEF Consistent, ToSet
  <2>6. k = 6 => d > 12
    <3>1. ~Ambiguous(date, doc.layout)
      BY <2>1 DEF Legible
    <3>2. date[3] = d /\ d \in Int
      BY <2>3, <2>4
    <3>3. k = 6 => doc.layout = Layout("/", <<"m", "d", "y">>)
      BY <2>5, FormatsAre, Zenon DEF MonthFirst
    <3>4. k = 6 => ~ (date[3] <= 12)
      BY <3>1, <3>3, Zenon DEF Ambiguous
    <3> QED BY <3>2, <3>4
  <2>7. parse_date(text) = said
    BY <2>2, <2>3, <2>4, <2>5, <2>6, DateFits
  <2> QED BY <1>3, <2>7, NoDateIsRead
<1> QED BY <1>2, <1>3

(* The document does not change.                                           *)
LEMMA DocumentFixed == Spec => [](document \in Documents)
<1>1. Init => document \in Documents
  BY DEF Init
<1>2. document \in Documents /\ [Next]_vars => (document \in Documents)'
  BY DEF Next, extract, validation_node, crop_and_vlm_retry_node, vars
<1> QED BY <1>1, <1>2, PTL DEF Spec

(* Amounts with cents are read as they were meant in every convention, and *)
(* dates in every layout that can be told from the day-first one; storing  *)
(* an amount changes nothing.                                              *)
THEOREM PrintedIsReadHolds == Spec => []PrintedIsRead
<1>1. ASSUME document \in Documents
      PROVE  PrintedIsRead
  <2> DEFINE printed == PrintedDocument(document)
  <2>0. Consistent(document)
    BY <1>1, BusinessRulesAssumption
  <2>1. /\ DOMAIN printed = DOMAIN document.says
        /\ \A f \in DOMAIN printed : printed[f] = PrintedField(document, f)
    BY DEF PrintedDocument
  <2> HIDE DEF printed
  <2>2. ASSUME NEW f \in AmountFields \cap DOMAIN printed
        PROVE  /\ parse_decimal(printed[f]) = document.says[f]
               /\ parse_decimal(Stored(printed[f])) = document.says[f]
               /\ Stored(Stored(printed[f])) = Stored(printed[f])
    <3>1. Prints(printed[f], document.says[f])
      BY <2>0, <2>1, AmountPrinted
    <3>2. StoredAs(Stored(printed[f]), document.says[f])
      BY <3>1, PrintedIsStored
    <3> QED BY <3>1, <3>2 DEF Prints, StoredAs
  <2>3. ASSUME Legible(document), NEW f \in DateFields \cap DOMAIN printed
        PROVE  parse_date(printed[f]) = document.says[f]
    BY <2>0, <2>1, <2>3, DatePrinted
  <2> QED BY <2>2, <2>3 DEF PrintedIsRead, printed
<1> QED BY <1>1, DocumentFixed, PTL

-----------------------------------------------------------------------------
(* The fields of the document types.                                       *)
LEMMA InvoiceFields ==
  /\ TextFields("invoice") = {"invoice_id", "vendor_name", "vendor_tax_id",
                              "customer_tax_id", "currency"}
  /\ FieldsOf("invoice") = TextFields("invoice") \cup
       {"subtotal", "tax_amount", "total_amount", "invoice_date", "due_date"}
  /\ Optional("invoice") = {"due_date", "vendor_tax_id", "customer_tax_id", "currency"}
BY Zenon DEF FieldsOf, TextFields, Optional

LEMMA CardFields ==
  /\ TextFields("ine") = {"full_name", "voter_key", "postal_code"}
  /\ FieldsOf("ine") = TextFields("ine") \cup
       {"curp", "date_of_birth", "sex", "expiration_date"}
  /\ Optional("ine") = {"sex", "expiration_date", "postal_code"}
BY Zenon DEF FieldsOf, TextFields, Optional

LEMMA ProofFields ==
  /\ TextFields("proof_of_address") =
       {"holder_name", "address", "postal_code", "service_provider", "account_number"}
  /\ FieldsOf("proof_of_address") = TextFields("proof_of_address") \cup {"issue_date"}
  /\ Optional("proof_of_address") = {"service_provider", "account_number"}
BY Zenon DEF FieldsOf, TextFields, Optional

LEMMA SaysFields ==
  ASSUME NEW doc, Consistent(doc)
  PROVE  /\ doc.doc_type \in {"invoice", "ine", "proof_of_address"}
         /\ doc.doc_type = "invoice" =>
              DOMAIN doc.says = FieldsOf("invoice") \cup {"discount_amount", "line_items"}
         /\ doc.doc_type # "invoice" => DOMAIN doc.says = FieldsOf(doc.doc_type)
         /\ "line_items" \in DOMAIN doc.says => doc.doc_type = "invoice"
<1>1. /\ doc.doc_type \in {"invoice", "ine", "proof_of_address"}
      /\ doc.doc_type = "invoice" =>
           DOMAIN doc.says = FieldsOf("invoice") \cup {"discount_amount", "line_items"}
      /\ doc.doc_type # "invoice" => DOMAIN doc.says = FieldsOf(doc.doc_type)
  BY DEF Consistent, DocTypes
<1>2. "line_items" \notin FieldsOf("ine") \cup FieldsOf("proof_of_address")
  BY CardFields, ProofFields
<1> QED BY <1>1, <1>2

-----------------------------------------------------------------------------
(* The data of a document that is read right.                              *)
Right(doc) == Normalized(PrintedDocument(doc))

IsStored(text) == text \in Seq(PlainChars) /\ Stored(text) = text

(* The lines of a reading are those that are said.                         *)
LinesRead(lines, said) ==
  /\ DOMAIN lines = DOMAIN said
  /\ lines = << >> <=> said = << >>
  /\ [i \in DOMAIN lines |-> Stored(lines[i])] = lines
  /\ \A i \in DOMAIN lines : parse_decimal(lines[i]) = {said[i]}

LEMMA RightLines ==
  ASSUME NEW doc, Consistent(doc), "line_items" \in DOMAIN doc.says
  PROVE  LinesRead(Right(doc)["line_items"], doc.says["line_items"])
<1> DEFINE said == doc.says["line_items"]
           lines == Right(doc)["line_items"]
           text(i) == Printed(said[i], doc.style)
<1>1. /\ Convention(doc.style) /\ said \in Seq(Int)
      /\ \A i \in DOMAIN said : IsCents(said[i])
  BY SaysFields DEF Consistent, ConsistentInvoice
<1>2. PrintedField(doc, "line_items") = [i \in DOMAIN said |-> text(i)]
  BY DEF PrintedField, AmountFields, DateFields
<1>3. PrintedDocument(doc)["line_items"] = [i \in DOMAIN said |-> text(i)]
  BY <1>2 DEF PrintedDocument
<1>4. lines = [i \in DOMAIN said |-> Stored(text(i))]
  BY <1>3 DEF Right, Normalized, AmountFields, PrintedDocument
<1>5. ASSUME NEW i \in DOMAIN said
      PROVE  StoredAs(Stored(text(i)), {said[i]})
  <2>1. ReadOf(text(i), said[i])
    BY <1>1, <1>5, AmountRead
  <2> QED BY <2>1, StoredIsRead DEF ReadOf
<1> HIDE DEF lines, text
<1>6. DOMAIN lines = DOMAIN said /\ \A i \in DOMAIN lines : lines[i] = Stored(text(i))
  BY <1>4
<1>7. \A i \in DOMAIN lines :
        Stored(lines[i]) = lines[i] /\ parse_decimal(lines[i]) = {said[i]}
  BY <1>5, <1>6 DEF StoredAs
<1>8. [i \in DOMAIN lines |-> Stored(lines[i])] = lines
  BY <1>4, <1>6, <1>7
<1>9. lines = << >> <=> said = << >>
  BY <1>1, <1>4
<1> QED BY <1>6, <1>7, <1>8, <1>9 DEF LinesRead, lines

LEMMA RightFields ==
  ASSUME NEW doc, Consistent(doc)
  PROVE  /\ DOMAIN Right(doc) = DOMAIN doc.says
         /\ \A f \in AmountFields \cap DOMAIN doc.says :
              /\ Right(doc)[f] = Stored(PrintedField(doc, f))
              /\ IsStored(Right(doc)[f])
              /\ parse_decimal(Right(doc)[f]) = doc.says[f]
              /\ Right(doc)[f] = << >> <=> doc.says[f] = {}
         /\ \A f \in DOMAIN doc.says \ (AmountFields \cup {"line_items"}) :
              Right(doc)[f] = PrintedField(doc, f)
<1>1. DOMAIN Right(doc) = DOMAIN doc.says
  BY DEF Right, Normalized, PrintedDocument
<1>2. ASSUME NEW f \in AmountFields \cap DOMAIN doc.says
      PROVE  /\ Right(doc)[f] = Stored(PrintedField(doc, f))
             /\ IsStored(Right(doc)[f])
             /\ parse_decimal(Right(doc)[f]) = doc.says[f]
             /\ Right(doc)[f] = << >> <=> doc.says[f] = {}
  <2>1. Right(doc)[f] = Stored(PrintedField(doc, f))
    BY DEF Right, Normalized, PrintedDocument, AmountFields
  <2>2. Prints(PrintedField(doc, f), doc.says[f])
    BY AmountPrinted
  <2> QED BY <2>1, <2>2, PrintedIsStored DEF StoredAs, IsStored
<1>3. ASSUME NEW f \in DOMAIN doc.says \ (AmountFields \cup {"line_items"})
      PROVE  Right(doc)[f] = PrintedField(doc, f)
  BY <1>3 DEF Right, Normalized, PrintedDocument, AmountFields
<1> QED BY <1>1, <1>2, <1>3

-----------------------------------------------------------------------------
(* What the field rules ask, kind by kind.                                 *)
TextField == TextFields("invoice") \cup TextFields("ine") \cup TextFields("proof_of_address")

LEMMA TextsAre ==
  /\ UNION {TextFields(d) : d \in DocTypes} = TextField
  /\ TextField = {"invoice_id", "vendor_name", "vendor_tax_id", "customer_tax_id", "currency",
                  "full_name", "voter_key", "postal_code", "holder_name", "address",
                  "service_provider", "account_number"}
<1>1. UNION {TextFields(d) : d \in DocTypes} = TextField
  BY DEF TextField, DocTypes
<1>2. TextField = {"invoice_id", "vendor_name", "vendor_tax_id", "customer_tax_id", "currency",
                  "full_name", "voter_key", "postal_code", "holder_name", "address",
                  "service_provider", "account_number"}
  BY InvoiceFields, CardFields, ProofFields DEF TextField
<1> QED BY <1>1, <1>2

LEMMA AmountRules ==
  ASSUME NEW f \in {"subtotal", "tax_amount", "total_amount"}, NEW reading
  PROVE  /\ Missing(f, reading) <=> reading = << >>
         /\ Fits(f, reading) <=> parse_decimal(reading) # {}
<1> USE TextsAre
<1>1. f \notin TextField /\ f # "curp" /\ f # "sex" /\ f # "expiration_date"
  OBVIOUS
<1>2. Missing(f, reading) <=> reading = << >>
  BY <1>1, Zenon DEF Missing
<1>3. Fits(f, reading) <=> parse_decimal(reading) # {}
  BY <1>1, Zenon DEF Fits
<1> QED BY <1>2, <1>3

LEMMA DateRules ==
  ASSUME NEW f \in DateFields, NEW reading
  PROVE  /\ Missing(f, reading) <=> reading = Unprinted
         /\ Fits(f, reading) <=> parse_date(reading) # {}
<1>1. /\ f \notin TextField /\ f # "curp" /\ f # "sex" /\ f # "expiration_date"
      /\ f \notin {"subtotal", "tax_amount", "total_amount"}
  BY TextsAre DEF DateFields
<1>2. f \notin {"sex"} \cup UNION {TextFields(d) : d \in DocTypes}
  BY <1>1, TextsAre
<1>3. Missing(f, reading) <=> reading = Unprinted
  BY <1>1, <1>2, Zenon DEF Missing
<1>4. Fits(f, reading) <=> parse_date(reading) # {}
  BY <1>1, <1>2, TextsAre, Zenon DEF Fits
<1> QED BY <1>3, <1>4

LEMMA TextRules ==
  ASSUME NEW f \in TextField, NEW reading
  PROVE  /\ Missing(f, reading) <=> reading = ""
         /\ Fits(f, reading) <=> reading = "well formed"
<1>1. /\ f # "curp" /\ f # "sex" /\ f # "expiration_date"
      /\ f \notin {"subtotal", "tax_amount", "total_amount"}
  BY TextsAre
<1>2. f \in {"sex"} \cup UNION {TextFields(d) : d \in DocTypes}
  BY <1>1, TextsAre
<1>3. Missing(f, reading) <=> reading = ""
  BY <1>1, <1>2, Zenon DEF Missing
<1>4. Fits(f, reading) <=> reading = "well formed"
  BY <1>1, <1>2, TextsAre, Zenon DEF Fits
<1> QED BY <1>3, <1>4

LEMMA CardRules ==
  ASSUME NEW reading
  PROVE  /\ Missing("curp", reading) <=> reading.form = "missing"
         /\ Fits("curp", reading) <=> MatchesCurp(reading)
         /\ Missing("sex", reading) <=> reading = ""
         /\ Fits("sex", reading) <=> reading \in {"H", "M", "X"}
         /\ Missing("expiration_date", reading) <=> reading = Unprinted
<1>1. /\ {"curp", "sex", "expiration_date"} \cap TextField = {}
      /\ {"curp", "sex", "expiration_date"} \cap {"subtotal", "tax_amount", "total_amount"} = {}
  BY TextsAre
<1>2. /\ "sex" \in {"sex"} \cup UNION {TextFields(d) : d \in DocTypes}
      /\ "curp" \notin {"sex"} \cup UNION {TextFields(d) : d \in DocTypes}
      /\ "expiration_date" \notin {"sex"} \cup UNION {TextFields(d) : d \in DocTypes}
      /\ "sex" \notin UNION {TextFields(d) : d \in DocTypes}
  BY <1>1, TextsAre
<1>3. "curp" # "sex" /\ "curp" # "expiration_date" /\ "sex" # "expiration_date"
  OBVIOUS
<1>4. \A f \in {"curp", "sex", "expiration_date"} :
        f \notin {"subtotal", "tax_amount", "total_amount"}
  BY <1>1
<1>5. Missing("curp", reading) <=> reading.form = "missing"
  BY <1>2, <1>3, <1>4, Zenon DEF Missing
<1>6. Fits("curp", reading) <=> MatchesCurp(reading)
  BY <1>2, <1>3, <1>4, Zenon DEF Fits
<1>7. Missing("sex", reading) <=> reading = ""
  BY <1>2, <1>3, <1>4, Zenon DEF Missing
<1>8. Fits("sex", reading) <=> reading \in {"H", "M", "X"}
  BY <1>2, <1>3, <1>4, Zenon DEF Fits
<1>9. Missing("expiration_date", reading) <=> reading = Unprinted
  BY <1>2, <1>3, <1>4, Zenon DEF Missing
<1> QED BY <1>5, <1>6, <1>7, <1>8, <1>9

(* The field rule of f holds of a reading.                                 *)
FieldRule(doc_type, f, reading) ==
  IF Missing(f, reading) THEN f \in Optional(doc_type) ELSE Fits(f, reading)

LEMMA FieldErrorsAre ==
  ASSUME NEW doc_type, NEW reading
  PROVE  FieldRuleErrors(doc_type, reading) =
           {f \in FieldsOf(doc_type) : ~FieldRule(doc_type, f, reading[f])}
BY Zenon DEF FieldRuleErrors, FieldRule

(* The kinds of fields, and what a document says of them.                  *)
LEMMA FieldKinds ==
  ASSUME NEW doc, Consistent(doc), NEW f \in FieldsOf(doc.doc_type)
  PROVE  /\ f \in DOMAIN doc.says /\ f # "line_items"
         /\ \/ f \in {"subtotal", "tax_amount", "total_amount"} /\ doc.doc_type = "invoice"
            \/ f \in DateFields
            \/ f \in TextField /\ f \in TextFields(doc.doc_type)
            \/ f \in {"curp", "sex", "expiration_date"} /\ doc.doc_type = "ine"
<1>1. f \in DOMAIN doc.says
  BY SaysFields
<1>2. CASE doc.doc_type = "invoice"
  BY <1>1, <1>2, InvoiceFields DEF TextField, DateFields
<1>3. CASE doc.doc_type = "ine"
  BY <1>1, <1>3, CardFields DEF TextField, DateFields
<1>4. CASE doc.doc_type = "proof_of_address"
  BY <1>1, <1>4, ProofFields DEF TextField, DateFields
<1> QED BY <1>2, <1>3, <1>4, SaysFields

(* A field that is not printed is optional.                                *)
LEMMA RequiredIsPrinted ==
  ASSUME NEW doc, Consistent(doc),
         NEW f \in FieldsOf(doc.doc_type) \ Optional(doc.doc_type)
  PROVE  /\ f \in AmountFields \cup DateFields => doc.says[f] # {}
         /\ f \in TextFields(doc.doc_type) => doc.says[f] = "well formed"
<1>1. f \in AmountFields \cup DateFields => doc.says[f] # {}
  BY DEF Consistent
<1>2. f \in TextFields(doc.doc_type) => doc.says[f] = "well formed"
  BY DEF Consistent
<1> QED BY <1>1, <1>2

(* What a card says besides its texts.                                     *)
LEMMA CardSays ==
  ASSUME NEW doc, Consistent(doc), doc.doc_type = "ine"
  PROVE  \E born \in Int \X Int \X Int :
           /\ doc.says["date_of_birth"] = {born}
           /\ doc.says["sex"] \in {"H", "M", "X"}
           /\ doc.says["curp"].form = "curp"
           /\ doc.says["curp"].birth = ShortDate(born)
           /\ doc.says["curp"].sex \in {"H", "M", "X"}
           /\ doc.says["sex"] \in {doc.says["curp"].sex, "X"}
           /\ Calendar(born) /\ ~Before(Today, born) /\ born[1] >= Today[1] - 120
           /\ doc.says["expiration_date"] = Unprinted
                \/ Fits("expiration_date", doc.says["expiration_date"])
<1>1. ConsistentCard(doc.says)
  BY DEF Consistent
<1>2. "date_of_birth" \in DateFields \cap (FieldsOf("ine") \ Optional("ine"))
  BY CardFields DEF DateFields
<1>3. "date_of_birth" \in DOMAIN doc.says
  BY <1>2, SaysFields
<1>4. doc.says["date_of_birth"] # {}
  BY <1>2, RequiredIsPrinted
<1>5. PICK born \in doc.says["date_of_birth"] :
        born \in Int \X Int \X Int /\ Calendar(born) /\ doc.says["date_of_birth"] = {born}
  BY <1>2, <1>3, <1>4 DEF Consistent
<1>6. ~Before(Today, born) /\ born[1] >= Today[1] - 120
  BY <1>1, <1>5 DEF ConsistentCard
<1>7. PICK encoded \in {"H", "M", "X"} :
        /\ doc.says.curp = [form |-> "curp", birth |-> ShortDate(born), sex |-> encoded]
        /\ doc.says.sex \in {encoded, "X"}
  BY <1>1, <1>5 DEF ConsistentCard
<1>8. /\ doc.says["curp"].form = "curp" /\ doc.says["curp"].birth = ShortDate(born)
      /\ doc.says["curp"].sex = encoded /\ doc.says["sex"] \in {encoded, "X"}
  BY <1>7
<1>9. doc.says["sex"] \in {"H", "M", "X"}
      /\ (doc.says["expiration_date"] = Unprinted
            \/ Fits("expiration_date", doc.says["expiration_date"]))
  BY <1>1 DEF ConsistentCard
<1> QED BY <1>5, <1>6, <1>7, <1>8, <1>9

(* What a card says of the sex, and what follows for it.                   *)
LEMMA CardSex ==
  ASSUME NEW doc, Consistent(doc), doc.doc_type = "ine"
  PROVE  LET said == doc.says
         IN \/ /\ RefusedForX(doc) = {} /\ MatchesCurp(said["curp"])
               /\ said["sex"] = said["curp"].sex
            \/ /\ RefusedForX(doc) = {"sex"} /\ MatchesCurp(said["curp"])
               /\ said["sex"] # said["curp"].sex /\ said["sex"] = "X"
            \/ RefusedForX(doc) = {"curp"} /\ ~MatchesCurp(said["curp"])
<1> DEFINE sex == doc.says["sex"]
           encoded == doc.says["curp"].sex
<1>1. /\ encoded \in {"H", "M", "X"} /\ sex \in {encoded, "X"}
      /\ doc.says["curp"].form = "curp"
  BY CardSays
<1>2. MatchesCurp(doc.says["curp"]) <=> encoded # "X"
  BY <1>1 DEF MatchesCurp
<1>3. RefusedForX(doc) = IF sex # "X" THEN {} ELSE IF encoded = "X" THEN {"curp"} ELSE {"sex"}
  BY DEF RefusedForX
<1> HIDE DEF sex, encoded
<1>4. CASE sex # "X"
  <2>1. RefusedForX(doc) = {} /\ sex = encoded
    BY <1>1, <1>3, <1>4
  <2> QED BY <1>2, <1>4, <2>1 DEF sex, encoded
<1>5. CASE sex = "X" /\ encoded = "X"
  BY <1>2, <1>3, <1>5
<1>6. CASE sex = "X" /\ encoded # "X"
  BY <1>2, <1>3, <1>6 DEF sex, encoded
<1> QED BY <1>4, <1>5, <1>6

(* Only cards are refused for the sex they print.                          *)
LEMMA OnlyCardsAreRefused ==
  ASSUME NEW doc, doc.doc_type # "ine"
  PROVE  RefusedForX(doc) = {}
BY DEF RefusedForX

(* Read right, every field follows its rule, save for a CURP that encodes X.*)
LEMMA RightFits ==
  ASSUME NEW doc, Consistent(doc), Legible(doc), NEW f \in FieldsOf(doc.doc_type)
  PROVE  /\ FieldRule(doc.doc_type, f, Right(doc)[f])
              <=> ~ (f = "curp" /\ RefusedForX(doc) = {"curp"})
         /\ Missing(f, Right(doc)[f]) <=> Missing(f, PrintedField(doc, f))
<1> DEFINE reading == Right(doc)[f]
           optional == Optional(doc.doc_type)
<1>0. f \in DOMAIN doc.says /\ f # "line_items"
  BY FieldKinds
<1>1. CASE f \in {"subtotal", "tax_amount", "total_amount"} /\ doc.doc_type = "invoice"
  <2>1. f \in AmountFields
    BY <1>1 DEF AmountFields
  <2>2. f \notin optional
    BY <1>1, InvoiceFields
  <2>3. doc.says[f] # {}
    BY <2>1, <2>2, RequiredIsPrinted
  <2>4. reading # << >> /\ parse_decimal(reading) # {}
    BY <1>0, <2>1, <2>3, RightFields
  <2>5. Prints(PrintedField(doc, f), doc.says[f])
    BY <1>0, <2>1, AmountPrinted
  <2>6. f # "curp"
    BY <1>1
  <2> QED BY <1>1, <2>3, <2>4, <2>5, <2>6, AmountRules DEF FieldRule, Prints
<1>2. CASE f \in DateFields
  <2>1. f \notin AmountFields /\ f # "line_items"
    BY <1>0, <1>2 DEF DateFields, AmountFields
  <2>2. reading = PrintedField(doc, f)
    BY <1>0, <2>1, RightFields
  <2>3. parse_date(reading) = doc.says[f] /\ (reading = Unprinted <=> doc.says[f] = {})
    BY <1>0, <1>2, <2>2, DatePrinted
  <2>4. doc.says[f] = {} => f \in optional
    BY <1>2, RequiredIsPrinted
  <2>5. f # "curp"
    BY <1>2 DEF DateFields
  <2> HIDE DEF reading
  <2> QED BY <1>2, <2>2, <2>3, <2>4, <2>5, DateRules DEF FieldRule, reading
<1>3. CASE f \in TextField /\ f \in TextFields(doc.doc_type)
  <2>1. f \notin AmountFields /\ f # "line_items" /\ f \notin DateFields
    BY <1>3, TextsAre DEF DateFields, AmountFields
  <2>2. reading = PrintedField(doc, f)
    BY <1>0, <2>1, RightFields
  <2>3. PrintedField(doc, f) = doc.says[f]
    BY <2>1, Zenon DEF PrintedField
  <2>4. doc.says[f] = "well formed" \/ (doc.says[f] = "" /\ f \in optional)
    BY <1>3 DEF Consistent
  <2>5. f # "curp"
    BY <1>3, TextsAre
  <2> HIDE DEF reading
  <2> QED BY <1>3, <2>2, <2>3, <2>4, <2>5, TextRules DEF FieldRule, reading
<1>4. CASE f \in {"curp", "sex", "expiration_date"} /\ doc.doc_type = "ine"
  <2>1. f \notin AmountFields /\ f # "line_items" /\ f \notin DateFields
    BY <1>4 DEF DateFields, AmountFields
  <2>2. reading = PrintedField(doc, f)
    BY <1>0, <2>1, RightFields
  <2>3. PrintedField(doc, f) = doc.says[f]
    BY <2>1, Zenon DEF PrintedField
  <2>4. /\ doc.says["sex"] \in {"H", "M", "X"} /\ doc.says["curp"].form = "curp"
        /\ doc.says["expiration_date"] = Unprinted
             \/ Fits("expiration_date", doc.says["expiration_date"])
    BY <1>4, CardSays
  <2>5. "expiration_date" \in Optional("ine")
    BY CardFields
  <2> HIDE DEF reading
  <2>6. CASE f = "curp"
    <3>1. reading.form # "missing" /\ reading = doc.says["curp"]
      BY <2>2, <2>3, <2>4, <2>6
    <3>2. MatchesCurp(doc.says["curp"]) <=> RefusedForX(doc) # {"curp"}
      BY <1>4, CardSex
    <3>3. FieldRule(doc.doc_type, f, reading) <=> MatchesCurp(reading)
      BY <2>6, <3>1, CardRules DEF FieldRule
    <3> QED BY <2>2, <2>6, <3>1, <3>2, <3>3 DEF reading
  <2>7. CASE f = "sex"
    <3>1. reading \in {"H", "M", "X"}
      BY <2>2, <2>3, <2>4, <2>7
    <3> QED BY <2>2, <2>7, <3>1, CardRules DEF FieldRule, reading
  <2>8. CASE f = "expiration_date"
    BY <1>4, <2>2, <2>3, <2>4, <2>5, <2>8, CardRules DEF FieldRule, reading
  <2> QED BY <1>4, <2>6, <2>7, <2>8
<1> QED BY <1>1, <1>2, <1>3, <1>4, FieldKinds

-----------------------------------------------------------------------------
(* What the rules of a document are about.                                 *)
LEMMA InvoiceSays ==
  ASSUME NEW doc, Consistent(doc), doc.doc_type = "invoice"
  PROVE  \E s, t, o, d \in Int :
           /\ doc.says["subtotal"] = {s} /\ doc.says["tax_amount"] = {t}
           /\ doc.says["total_amount"] = {o}
           /\ doc.says["discount_amount"] = {d} \/ (doc.says["discount_amount"] = {} /\ d = 0)
           /\ Within(s - d + t, o)
           /\ doc.says["line_items"] # << >> => Within(LineSum(doc.says["line_items"]), s)
<1>1. ConsistentInvoice(doc.says)
  BY DEF Consistent
<1>2. AddsUp(doc.says)
  BY <1>1 DEF ConsistentInvoice
<1>3. \A f \in {"subtotal", "tax_amount", "total_amount", "discount_amount"} :
        f \in AmountFields \cap DOMAIN doc.says
  BY SaysFields, InvoiceFields DEF AmountFields
<1>4. \A f \in {"subtotal", "tax_amount", "total_amount"} : doc.says[f] # {}
  BY ZenonT(30), <1>3, RequiredIsPrinted, InvoiceFields
<1>5. ASSUME NEW f \in {"subtotal", "tax_amount", "total_amount", "discount_amount"},
             NEW amount \in doc.says[f]
      PROVE  amount \in Int /\ doc.says[f] = {amount}
  BY <1>3, <1>5 DEF Consistent, IsCents
<1>6. PICK s \in doc.says["subtotal"], t \in doc.says["tax_amount"],
           o \in doc.says["total_amount"] : TRUE
  BY <1>4
<1>7. /\ s \in Int /\ t \in Int /\ o \in Int
      /\ doc.says["subtotal"] = {s} /\ doc.says["tax_amount"] = {t}
      /\ doc.says["total_amount"] = {o}
  BY <1>5, <1>6
<1>8. PICK d \in Int :
        /\ doc.says["discount_amount"] = {d} \/ (doc.says["discount_amount"] = {} /\ d = 0)
        /\ d \in (IF doc.says["discount_amount"] = {} THEN {0} ELSE doc.says["discount_amount"])
  <2>1. CASE doc.says["discount_amount"] = {}
    BY <2>1
  <2>2. CASE doc.says["discount_amount"] # {}
    <3>1. PICK d \in doc.says["discount_amount"] : TRUE
      BY <2>2
    <3> QED BY <1>5, <2>2, <3>1
  <2> QED BY <2>1, <2>2
<1>9. /\ Within(s - d + t, o)
      /\ doc.says["line_items"] # << >> => Within(LineSum(doc.says["line_items"]), s)
  BY <1>2, <1>6, <1>8 DEF AddsUp
<1> QED BY <1>7, <1>8, <1>9

(* The lines of a reading are compared as they are said.                   *)
LEMMA LinesRule ==
  ASSUME NEW reading, NEW said \in Seq(Int), LinesRead(reading["line_items"], said)
  PROVE  check_invoice_line_items(reading) =
           IF said # << >> /\ \E subtotal \in parse_decimal(reading["subtotal"]) :
                                ~Within(LineSum(said), subtotal)
           THEN {"subtotal"} ELSE {}
<1> DEFINE lines == reading["line_items"]
           amounts == [i \in DOMAIN lines |-> CHOOSE amount \in parse_decimal(lines[i]) : TRUE]
<1>1. /\ DOMAIN lines = DOMAIN said /\ (lines = << >> <=> said = << >>)
      /\ \A i \in DOMAIN lines : parse_decimal(lines[i]) = {said[i]}
  BY DEF LinesRead
<1>2. \A i \in DOMAIN lines : (CHOOSE amount \in parse_decimal(lines[i]) : TRUE) = said[i]
  BY <1>1
<1>3. amounts = [i \in DOMAIN said |-> said[i]]
  BY <1>1, <1>2
<1>4. amounts = said
  <2>1. said \in [DOMAIN said -> Int]
    OBVIOUS
  <2> HIDE DEF amounts
  <2> QED BY <1>3, <2>1
<1>5. \A i \in DOMAIN lines : parse_decimal(lines[i]) # {}
  BY <1>1
<1>6. check_invoice_line_items(reading) =
        IF /\ lines # << >> /\ \A i \in DOMAIN lines : parse_decimal(lines[i]) # {}
           /\ \E subtotal \in parse_decimal(reading["subtotal"]) :
                ~Within(LineSum(amounts), subtotal)
        THEN {"subtotal"} ELSE {}
  BY Zenon DEF check_invoice_line_items
<1> HIDE DEF lines, amounts
<1> QED BY <1>1, <1>4, <1>5, <1>6

(* A document that the tools can accept.                                   *)
Readable(doc) == Legible(doc) /\ RefusedForX(doc) = {}

(* A reading that differs from the document in the field m at most.        *)
OneOff(doc, reading, m) ==
  /\ DOMAIN reading = DOMAIN doc.says
  /\ \A f \in DOMAIN reading \ {m} : reading[f] = Right(doc)[f]
  /\ \A f \in AmountFields \cap DOMAIN reading : IsStored(reading[f])

(* Its other fields read as they are printed, and so do its amounts.       *)
LEMMA OneOffReads ==
  ASSUME NEW doc, Consistent(doc), Legible(doc), NEW reading, NEW m, OneOff(doc, reading, m)
  PROVE  /\ \A f \in AmountFields \cap DOMAIN doc.says :
              f # m => parse_decimal(reading[f]) = doc.says[f]
         /\ \A f \in AmountFields \cap DOMAIN doc.says :
              /\ parse_decimal(reading[f]) = {} <=> reading[f] = << >>
              /\ \A a \in parse_decimal(reading[f]) : a \in Int /\ parse_decimal(reading[f]) = {a}
         /\ \A f \in DateFields \cap DOMAIN doc.says :
              f # m => parse_date(reading[f]) = doc.says[f]
         /\ \A f \in DOMAIN doc.says :
              f \notin AmountFields \cup DateFields \cup {"line_items", m} =>
                reading[f] = doc.says[f]
         /\ "line_items" \in DOMAIN doc.says /\ m # "line_items" =>
              LinesRead(reading["line_items"], doc.says["line_items"])
<1>1. \A f \in DOMAIN doc.says : f # m => reading[f] = Right(doc)[f]
  BY DEF OneOff
<1>2. \A f \in AmountFields \cap DOMAIN doc.says : IsStored(reading[f])
  BY DEF OneOff
<1>3. ASSUME NEW f \in AmountFields \cap DOMAIN doc.says
      PROVE  /\ parse_decimal(reading[f]) = {} <=> reading[f] = << >>
             /\ \A a \in parse_decimal(reading[f]) : a \in Int /\ parse_decimal(reading[f]) = {a}
  <2>1. reading[f] \in Seq(PlainChars) /\ Stored(reading[f]) = reading[f]
    BY <1>2 DEF IsStored
  <2>2. parse_decimal(reading[f]) = {} => Stored(reading[f]) = << >>
    BY Zenon DEF Stored
  <2> QED BY <2>1, <2>2, NothingIsRead, ReadingType
<1>4. ASSUME NEW f \in DateFields \cap DOMAIN doc.says, f # m
      PROVE  parse_date(reading[f]) = doc.says[f]
  <2>1. f \notin AmountFields /\ f # "line_items"
    BY <1>4 DEF DateFields, AmountFields
  <2>2. reading[f] = PrintedField(doc, f)
    BY <1>1, <1>4, <2>1, RightFields
  <2> QED BY <2>2, DatePrinted
<1>5. ASSUME NEW f \in DOMAIN doc.says,
             f \notin AmountFields \cup DateFields \cup {"line_items", m}
      PROVE  reading[f] = doc.says[f]
  <2>1. reading[f] = PrintedField(doc, f)
    BY <1>1, <1>5, RightFields
  <2>2. PrintedField(doc, f) = doc.says[f]
    BY <1>5, Zenon DEF PrintedField
  <2> QED BY <2>1, <2>2
<1>6. \A f \in AmountFields \cap DOMAIN doc.says :
        f # m => parse_decimal(reading[f]) = doc.says[f]
  BY <1>1, RightFields
<1>7. "line_items" \in DOMAIN doc.says /\ m # "line_items" =>
        LinesRead(reading["line_items"], doc.says["line_items"])
  BY <1>1, RightLines
<1> QED BY <1>3, <1>4, <1>5, <1>6, <1>7

-----------------------------------------------------------------------------
(* The field rules blame nothing but a field that is read wrong, and a     *)
(* CURP that encodes X.                                                    *)
LEMMA FieldBlame ==
  ASSUME NEW doc, Consistent(doc), Legible(doc), NEW reading, NEW m, OneOff(doc, reading, m),
         NEW f \in FieldRuleErrors(doc.doc_type, reading)
  PROVE  /\ f = m \/ (f = "curp" /\ RefusedForX(doc) = {"curp"})
         /\ f \in FieldsOf(doc.doc_type)
<1>1. f \in FieldsOf(doc.doc_type) /\ ~FieldRule(doc.doc_type, f, reading[f])
  BY FieldErrorsAre
<1>2. /\ FieldRule(doc.doc_type, f, Right(doc)[f])
           <=> ~ (f = "curp" /\ RefusedForX(doc) = {"curp"})
      /\ f \in DOMAIN doc.says
  BY <1>1, RightFits, FieldKinds
<1>3. f # m => reading[f] = Right(doc)[f]
  BY <1>2 DEF OneOff
<1> QED BY <1>1, <1>2, <1>3

(* The totals rule tells a wrong total from a wrong operand only by what   *)
(* other rules know.                                                       *)
LEMMA TotalsBlame ==
  ASSUME document \in Documents, Legible(document), document.doc_type = "invoice",
         NEW m, OneOff(document, data, m), check_invoice_totals(data) # {}
  PROVE  \/ m = "total_amount" /\ check_invoice_totals(data) = {"total_amount"}
         \/ m = "subtotal" /\ check_invoice_line_items(data) = {"subtotal"}
         \/ m \in Witnesses
<1> DEFINE said == document.says
<1>0. Consistent(document)
  BY BusinessRulesAssumption
<1>1. PICK s, t, o, d \in Int :
        /\ said["subtotal"] = {s} /\ said["tax_amount"] = {t} /\ said["total_amount"] = {o}
        /\ said["discount_amount"] = {d} \/ (said["discount_amount"] = {} /\ d = 0)
        /\ Within(s - d + t, o)
        /\ said["line_items"] # << >> => Within(LineSum(said["line_items"]), s)
  BY <1>0, InvoiceSays
<1>2. /\ check_invoice_totals(data) = {"total_amount"}
      /\ \E subtotal \in parse_decimal(data["subtotal"]), tax \in parse_decimal(data["tax_amount"]),
            total \in parse_decimal(data["total_amount"]), discount \in Discount(data) :
           ~Within(subtotal - discount + tax, total)
  BY DEF check_invoice_totals
<1>3. /\ \A f \in {"subtotal", "tax_amount", "total_amount", "discount_amount"} :
           f \in AmountFields \cap DOMAIN said
      /\ "line_items" \in DOMAIN said /\ DOMAIN data = DOMAIN said
  BY <1>0, SaysFields, InvoiceFields DEF AmountFields, OneOff
<1>4. \A f \in {"subtotal", "tax_amount", "total_amount", "discount_amount"} :
        f # m => parse_decimal(data[f]) = said[f]
  BY <1>0, <1>3, OneOffReads
<1>5. "discount_amount" # m => Discount(data) = {d}
  <2>1. Discount(data) = IF parse_decimal(data["discount_amount"]) = {} THEN {0}
                         ELSE parse_decimal(data["discount_amount"])
    BY DEF Discount
  <2>2. CASE said["discount_amount"] = {d}
    <3>1. {d} # {}
      OBVIOUS
    <3> QED BY <1>4, <2>1, <2>2, <3>1, Zenon
  <2>3. CASE said["discount_amount"] = {} /\ d = 0
    BY <1>4, <2>1, <2>3, Zenon
  <2> QED BY <1>1, <2>2, <2>3
<1>6. m \in {"subtotal", "tax_amount", "total_amount", "discount_amount"}
  BY <1>1, <1>2, <1>4, <1>5
<1>7. CASE m = "tax_amount"
  <2>1. parse_decimal(data[m]) # {}
    BY <1>2, <1>7
  <2> QED BY <1>3, <1>7, <2>1, AmountRules DEF Witnesses
<1>8. CASE m = "subtotal"
  <2>1. parse_decimal(data[m]) # {}
    BY <1>2, <1>8
  <2>2. Fits(m, data[m])
    BY <1>8, <2>1, AmountRules
  <2>3. CASE LinesAllow(data[m])
    BY <1>3, <1>8, <2>2, <2>3 DEF Witnesses
  <2>4. CASE ~LinesAllow(data[m])
    <3>1. said["line_items"] # << >>
          /\ \E subtotal \in parse_decimal(data["subtotal"]) :
               ~Within(LineSum(said["line_items"]), subtotal)
      BY <1>8, <2>4 DEF LinesAllow
    <3>2. LinesRead(data["line_items"], said["line_items"])
      BY <1>0, <1>3, <1>8, OneOffReads
    <3>3. said["line_items"] \in Seq(Int)
      BY <1>0 DEF Consistent, ConsistentInvoice
    <3>4. check_invoice_line_items(data) = {"subtotal"}
      BY <3>1, <3>2, <3>3, LinesRule
    <3> QED BY <1>8, <3>4
  <2> QED BY <2>3, <2>4
<1>9. CASE m = "discount_amount"
  BY <1>9 DEF Witnesses
<1>10. CASE m = "total_amount"
  BY <1>2, <1>10
<1> QED BY <1>6, <1>7, <1>8, <1>9, <1>10

LEMMA LinesBlame ==
  ASSUME document \in Documents, Legible(document), document.doc_type = "invoice",
         NEW m, OneOff(document, data, m), check_invoice_line_items(data) # {}
  PROVE  \/ m = "subtotal" /\ check_invoice_line_items(data) = {"subtotal"}
         \/ m \in Witnesses
<1> DEFINE said == document.says
<1>0. Consistent(document)
  BY BusinessRulesAssumption
<1>1. PICK s \in Int :
        /\ said["subtotal"] = {s}
        /\ said["line_items"] # << >> => Within(LineSum(said["line_items"]), s)
  BY <1>0, InvoiceSays
<1>2. CASE m = "line_items"
  BY <1>2 DEF Witnesses
<1>3. CASE m # "line_items"
  <2>1. "line_items" \in DOMAIN said /\ "subtotal" \in AmountFields \cap DOMAIN said
    BY <1>0, SaysFields, InvoiceFields DEF AmountFields
  <2>2. LinesRead(data["line_items"], said["line_items"])
    BY <1>0, <1>3, <2>1, OneOffReads
  <2>3. said["line_items"] \in Seq(Int)
    BY <1>0 DEF Consistent, ConsistentInvoice
  <2>4. /\ check_invoice_line_items(data) = {"subtotal"}
        /\ said["line_items"] # << >> /\ \E subtotal \in parse_decimal(data["subtotal"]) :
                                           ~Within(LineSum(said["line_items"]), subtotal)
    BY <2>2, <2>3, LinesRule
  <2>5. "subtotal" # m => parse_decimal(data["subtotal"]) = {s}
    BY <1>0, <1>1, <2>1, OneOffReads
  <2> QED BY <1>1, <2>4, <2>5
<1> QED BY <1>2, <1>3

LEMMA DatesBlame ==
  ASSUME document \in Documents, Legible(document), document.doc_type = "invoice",
         NEW m, OneOff(document, data, m), check_invoice_dates(data) # {}
  PROVE  \/ m = "due_date" /\ check_invoice_dates(data) = {"due_date"}
         \/ m \in Witnesses
<1> DEFINE said == document.says
<1>0. Consistent(document)
  BY BusinessRulesAssumption
<1>1. \A issued \in said["invoice_date"], due \in said["due_date"] : ~Before(due, issued)
  BY <1>0 DEF Consistent, ConsistentInvoice
<1>2. /\ check_invoice_dates(data) = {"due_date"}
      /\ \E issued \in parse_date(data["invoice_date"]), due \in parse_date(data["due_date"]) :
           Before(due, issued)
  BY DEF check_invoice_dates
<1>3. /\ {"invoice_date", "due_date"} \subseteq DateFields \cap DOMAIN said
      /\ DOMAIN data = DOMAIN said
  BY <1>0, SaysFields, InvoiceFields DEF DateFields, OneOff
<1>4. \A f \in {"invoice_date", "due_date"} : f # m => parse_date(data[f]) = said[f]
  BY <1>0, <1>3, OneOffReads
<1>5. m \in {"invoice_date", "due_date"}
  BY <1>1, <1>2, <1>4
<1>6. CASE m = "invoice_date"
  <2>1. parse_date(data[m]) # {}
    BY <1>2, <1>6
  <2>2. Fits(m, data[m])
    BY <1>3, <1>6, <2>1, DateRules
  <2> QED BY <1>3, <1>6, <2>2 DEF Witnesses
<1> QED BY <1>2, <1>5, <1>6

(* The numbers of a date.                                                 *)
LEMMA DatePartsAre ==
  ASSUME NEW day
  PROVE  Calendar(day) <=>
           /\ day[1] \in Years /\ day[2] \in 1..12
           /\ day[3] \in 1..DaysIn(day[1], day[2])
BY DEF Calendar, Years

LEMMA CalendarDay ==
  ASSUME NEW day, Calendar(day)
  PROVE  day[1] \in Int /\ day[2] \in 1..12 /\ day[3] \in 1..31
<1>1. /\ day[1] \in Years /\ day[2] \in 1..12
      /\ day[3] \in 1..DaysIn(day[1], day[2])
  BY DatePartsAre
<1>2. \A y \in Years : y \in Int
  BY DEF Years
<1>3. DaysIn(day[1], day[2]) \in {28, 29, 30, 31}
  BY DEF DaysIn
<1> QED BY <1>1, <1>2, <1>3

(* The year of today is a number.                                          *)
LEMMA TodayYear == Today[1] \in Int
BY TodayAssumption, CalendarDay

LEMMA CardBlame ==
  ASSUME document \in Documents, Readable(document), document.doc_type = "ine",
         NEW m, OneOff(document, data, m), DocumentRuleErrors("ine", data) # {}
  PROVE  m \in DocumentRuleErrors("ine", data) \cup Witnesses
<1> DEFINE said == document.says
<1>0. Consistent(document) /\ Legible(document)
  BY BusinessRulesAssumption DEF Readable
<1>1. PICK born \in Int \X Int \X Int :
        /\ said["date_of_birth"] = {born}
        /\ said["curp"].birth = ShortDate(born)
        /\ ~Before(Today, born) /\ born[1] >= Today[1] - 120
  BY <1>0, CardSays
<1>11. said["curp"].sex = said["sex"]
  BY <1>0, CardSex DEF Readable
<1>2. /\ DOMAIN data = DOMAIN said
      /\ {"curp", "sex", "date_of_birth"} \subseteq DOMAIN said
  BY <1>0, SaysFields, CardFields DEF OneOff
<1>3. "date_of_birth" # m => parse_date(data["date_of_birth"]) = {born}
  BY <1>0, <1>1, <1>2, OneOffReads DEF DateFields
<1>4. \A f \in {"curp", "sex"} : f # m => data[f] = said[f]
  <2>1. \A f \in {"curp", "sex"} :
          f \in DOMAIN said /\ f \notin AmountFields \cup DateFields \cup {"line_items"}
    BY <1>2 DEF AmountFields, DateFields
  <2>2. \A f \in {"curp", "sex"} :
          f # m => f \notin AmountFields \cup DateFields \cup {"line_items", m}
    BY <2>1
  <2> QED BY <1>0, <2>1, <2>2, OneOffReads
<1>5. DocumentRuleErrors("ine", data) =
        check_birth_date_in_past(data) \cup check_curp_matches_birth_date(data)
          \cup check_curp_matches_sex(data)
  BY Zenon DEF DocumentRuleErrors
<1>6. m = "date_of_birth" /\ parse_date(data[m]) # {} => m \in Witnesses
  BY <1>2, DateRules DEF Witnesses, DateFields
<1>7. m = "curp" /\ MatchesCurp(data[m]) => m \in Witnesses
  <2>1. ASSUME m = "curp", MatchesCurp(data[m])
        PROVE  Fits(m, data[m])
    BY <2>1, CardRules
  <2> QED BY <1>2, <2>1 DEF Witnesses
<1>8. CASE check_birth_date_in_past(data) # {}
  <2>1. \E b \in parse_date(data["date_of_birth"]) :
          Before(Today, b) \/ b[1] < Today[1] - 120
    BY <1>8 DEF check_birth_date_in_past
  <2>2. m # "date_of_birth" => FALSE
    <3>1. Today[1] \in Int
      BY TodayYear
    <3>2. born[1] \in Int
      OBVIOUS
    <3> QED BY <1>1, <1>3, <2>1, <3>1, <3>2
  <2>3. m = "date_of_birth" => parse_date(data[m]) # {}
    BY <2>1
  <2> QED BY <1>6, <2>2, <2>3
<1>9. CASE check_curp_matches_birth_date(data) # {}
  <2>1. /\ MatchesCurp(data["curp"])
        /\ \E b \in parse_date(data["date_of_birth"]) : ShortDate(b) # data["curp"].birth
    BY <1>9 DEF check_curp_matches_birth_date
  <2>2. m = "date_of_birth" \/ m = "curp"
    BY <1>1, <1>3, <1>4, <2>1
  <2> QED BY <1>6, <1>7, <2>1, <2>2
<1>10. CASE check_curp_matches_sex(data) # {}
  <2>1. /\ MatchesCurp(data["curp"]) /\ data["sex"] # data["curp"].sex
        /\ check_curp_matches_sex(data) = {"sex"}
    BY <1>10 DEF check_curp_matches_sex
  <2>2. m = "sex" \/ m = "curp"
    BY <1>11, <1>4, <2>1
  <2> QED BY <1>5, <1>7, <2>1, <2>2
<1> QED BY <1>5, <1>8, <1>9, <1>10

LEMMA ProofBlame ==
  ASSUME document \in Documents, Legible(document), document.doc_type = "proof_of_address",
         NEW m, OneOff(document, data, m), DocumentRuleErrors("proof_of_address", data) # {}
  PROVE  m \in DocumentRuleErrors("proof_of_address", data)
<1>0. Consistent(document)
  BY BusinessRulesAssumption
<1>1. \A issued \in document.says["issue_date"] : ~Before(Today, issued)
  BY <1>0 DEF Consistent
<1>2. DocumentRuleErrors("proof_of_address", data) = check_proof_of_address_dates(data)
  BY Zenon DEF DocumentRuleErrors
<1>3. /\ \E issued \in parse_date(data["issue_date"]) : Before(Today, issued)
      /\ check_proof_of_address_dates(data) = {"issue_date"}
  BY <1>2 DEF check_proof_of_address_dates
<1>4. "issue_date" \in DateFields \cap DOMAIN document.says
  BY <1>0, SaysFields, ProofFields DEF DateFields
<1>5. "issue_date" # m => parse_date(data["issue_date"]) = document.says["issue_date"]
  BY <1>0, <1>4, OneOffReads
<1> QED BY <1>1, <1>2, <1>3, <1>5

(* One field read wrong: either it is among the blamed, or it is a witness.*)
LEMMA BlameIsRight ==
  ASSUME document \in Documents, Readable(document),
         NEW m, OneOff(document, data, m), validate_document(document.doc_type, data) # {}
  PROVE  m \in validate_document(document.doc_type, data) \cup Witnesses
<1> DEFINE type == document.doc_type
<1>0. Consistent(document) /\ Legible(document)
  BY BusinessRulesAssumption DEF Readable
<1>1. validate_document(type, data) =
        FieldRuleErrors(type, data) \cup DocumentRuleErrors(type, data)
  BY DEF validate_document
<1>2. CASE FieldRuleErrors(type, data) # {}
  <2>1. PICK f \in FieldRuleErrors(type, data) : TRUE
    BY <1>2
  <2>2. f = m
    BY <1>0, <2>1, FieldBlame DEF Readable
  <2> QED BY <1>1, <2>1, <2>2
<1>3. CASE DocumentRuleErrors(type, data) # {}
  <2>1. CASE type = "invoice"
    <3>1. DocumentRuleErrors(type, data) = check_invoice_totals(data)
            \cup check_invoice_line_items(data) \cup check_invoice_dates(data)
      BY <2>1, Zenon DEF DocumentRuleErrors
    <3>2. CASE check_invoice_totals(data) # {}
      BY <1>0, <1>1, <2>1, <3>1, <3>2, TotalsBlame
    <3>3. CASE check_invoice_line_items(data) # {}
      BY <1>0, <1>1, <2>1, <3>1, <3>3, LinesBlame
    <3>4. CASE check_invoice_dates(data) # {}
      BY <1>0, <1>1, <2>1, <3>1, <3>4, DatesBlame
    <3> QED BY <1>3, <3>1, <3>2, <3>3, <3>4
  <2>2. CASE type = "ine"
    BY <1>1, <1>3, <2>2, CardBlame
  <2>3. CASE type = "proof_of_address"
    BY <1>0, <1>1, <1>3, <2>3, ProofBlame
  <2> QED BY <1>0, <2>1, <2>2, <2>3, SaysFields
<1> QED BY <1>1, <1>2, <1>3

(* What the blamed fields are.                                             *)
LEMMA BlamedAre ==
  ASSUME document \in Documents
  PROVE  /\ validate_document(document.doc_type, data) \subseteq FieldsOf(document.doc_type)
         /\ FieldsOf(document.doc_type) \subseteq DOMAIN document.says
         /\ "line_items" \notin FieldsOf(document.doc_type)
         /\ "none" \notin FieldsOf(document.doc_type) \cup DOMAIN document.says
<1> DEFINE type == document.doc_type
<1>0. Consistent(document)
  BY BusinessRulesAssumption
<1>1. validate_document(type, data) =
        FieldRuleErrors(type, data) \cup DocumentRuleErrors(type, data)
  BY DEF validate_document
<1>2. FieldRuleErrors(type, data) \subseteq FieldsOf(type)
  BY Zenon DEF FieldRuleErrors
<1>3. CASE type = "invoice"
  <2>1. DocumentRuleErrors(type, data) = check_invoice_totals(data)
          \cup check_invoice_line_items(data) \cup check_invoice_dates(data)
    BY <1>3, Zenon DEF DocumentRuleErrors
  <2>2. DocumentRuleErrors(type, data) \subseteq {"total_amount", "subtotal", "due_date"}
    BY <2>1 DEF check_invoice_totals, check_invoice_line_items, check_invoice_dates
  <2> QED BY <1>0, <1>1, <1>2, <1>3, <2>2, SaysFields, InvoiceFields
<1>4. CASE type = "ine"
  <2>1. DocumentRuleErrors(type, data) = check_birth_date_in_past(data)
          \cup check_curp_matches_birth_date(data) \cup check_curp_matches_sex(data)
    BY <1>4, Zenon DEF DocumentRuleErrors
  <2>2. DocumentRuleErrors(type, data) \subseteq {"date_of_birth", "curp", "sex"}
    BY <2>1 DEF check_birth_date_in_past, check_curp_matches_birth_date, check_curp_matches_sex
  <2> QED BY <1>0, <1>1, <1>2, <1>4, <2>2, SaysFields, CardFields
<1>5. CASE type = "proof_of_address"
  <2>1. DocumentRuleErrors(type, data) = check_proof_of_address_dates(data)
    BY <1>5, Zenon DEF DocumentRuleErrors
  <2>2. DocumentRuleErrors(type, data) \subseteq {"issue_date"}
    BY <2>1 DEF check_proof_of_address_dates
  <2> QED BY <1>0, <1>1, <1>2, <1>5, <2>2, SaysFields, ProofFields
<1> QED BY <1>0, <1>3, <1>4, <1>5, SaysFields

(* Read right, a document passes.                                          *)
LEMMA RightPasses ==
  ASSUME document \in Documents, Readable(document), OneOff(document, data, "none")
  PROVE  validate_document(document.doc_type, data) = {}
<1>1. "none" \notin validate_document(document.doc_type, data) \cup Witnesses
  BY BlamedAre DEF Witnesses
<1> QED BY <1>1, BlameIsRight

(* Read right, a card that prints X is blamed for that and nothing else.   *)
LEMMA RightIsRefused ==
  ASSUME document \in Documents, Legible(document), OneOff(document, data, "none")
  PROVE  validate_document(document.doc_type, data) = RefusedForX(document)
<1> DEFINE said == document.says
           refused == RefusedForX(document)
<1>0. Consistent(document)
  BY BusinessRulesAssumption
<1>1. CASE refused = {}
  BY <1>1, RightPasses DEF Readable
<1>2. CASE refused # {}
  <2>1. document.doc_type = "ine"
    BY <1>2, OnlyCardsAreRefused
  <2>2. PICK born \in Int \X Int \X Int :
          /\ said["date_of_birth"] = {born} /\ said["curp"].birth = ShortDate(born)
          /\ ~Before(Today, born) /\ born[1] >= Today[1] - 120
    BY <1>0, <2>1, CardSays
  <2>3. /\ DOMAIN data = DOMAIN said
        /\ {"curp", "sex", "date_of_birth"} \subseteq DOMAIN said
    BY <1>0, <2>1, SaysFields, CardFields DEF OneOff
  <2>4. parse_date(data["date_of_birth"]) = {born}
    BY <1>0, <2>2, <2>3, OneOffReads DEF DateFields
  <2>5. data["curp"] = said["curp"] /\ data["sex"] = said["sex"]
    <3>1. \A f \in {"curp", "sex"} :
            f \in DOMAIN said /\ f \notin AmountFields \cup DateFields \cup {"line_items", "none"}
      BY <2>3 DEF AmountFields, DateFields
    <3> QED BY <1>0, <3>1, OneOffReads
  <2>6. check_birth_date_in_past(data) = {}
    <3>1. Today[1] \in Int /\ born[1] \in Int
      BY TodayYear
    <3>2. ~ (born[1] < Today[1] - 120)
      BY <2>2, <3>1
    <3>3. \A b \in parse_date(data["date_of_birth"]) :
            ~ (Before(Today, b) \/ b[1] < Today[1] - 120)
      BY <2>2, <2>4, <3>2
    <3> QED BY <3>3, Zenon DEF check_birth_date_in_past
  <2>7. check_curp_matches_birth_date(data) = {}
    BY <2>2, <2>4, <2>5 DEF check_curp_matches_birth_date
  <2>8. check_curp_matches_sex(data) = refused \ {"curp"}
    <3>1. CASE refused = {"sex"} /\ MatchesCurp(said["curp"])
                 /\ said["sex"] # said["curp"].sex /\ said["sex"] = "X"
      BY <2>5, <3>1 DEF check_curp_matches_sex
    <3>2. CASE refused = {"curp"} /\ ~MatchesCurp(said["curp"])
      BY <2>5, <3>2 DEF check_curp_matches_sex
    <3> QED BY <1>0, <1>2, <2>1, <3>1, <3>2, CardSex
  <2>9. FieldRuleErrors("ine", data) = refused \cap {"curp"}
    <3>1. \A f \in FieldsOf("ine") : data[f] = Right(document)[f]
      <4>1. "none" \notin DOMAIN said /\ FieldsOf("ine") \subseteq DOMAIN said
        BY <2>1, BlamedAre
      <4> QED BY <2>3, <4>1 DEF OneOff
    <3>2. \A f \in FieldsOf("ine") :
            FieldRule("ine", f, data[f]) <=> ~ (f = "curp" /\ refused = {"curp"})
      BY <1>0, <2>1, <3>1, RightFits
    <3>3. "curp" \in FieldsOf("ine")
      BY CardFields
    <3>4. refused \in {{"curp"}, {"sex"}}
      BY <1>0, <1>2, <2>1, CardSex
    <3> HIDE DEF refused
    <3> QED BY <3>2, <3>3, <3>4, FieldErrorsAre
  <2>10. validate_document("ine", data) =
           FieldRuleErrors("ine", data)
             \cup (check_birth_date_in_past(data) \cup check_curp_matches_birth_date(data)
                     \cup check_curp_matches_sex(data))
    BY Zenon DEF validate_document, DocumentRuleErrors
  <2> QED BY <2>1, <2>6, <2>7, <2>8, <2>9, <2>10
<1> QED BY <1>1, <1>2

-----------------------------------------------------------------------------
(* Storing a reading stores every field by itself.                         *)
LEMMA NormalizedIs ==
  ASSUME NEW reading
  PROVE  /\ DOMAIN Normalized(reading) = DOMAIN reading
         /\ \A f \in AmountFields \cap DOMAIN reading :
              Normalized(reading)[f] = Stored(reading[f])
         /\ "line_items" \in DOMAIN reading =>
              Normalized(reading)["line_items"] =
                [i \in DOMAIN reading["line_items"] |-> Stored(reading["line_items"][i])]
         /\ \A f \in DOMAIN reading \ (AmountFields \cup {"line_items"}) :
              Normalized(reading)[f] = reading[f]
<1>1. "line_items" \notin AmountFields
  BY DEF AmountFields
<1>2. DOMAIN Normalized(reading) = DOMAIN reading
  BY DEF Normalized
<1>3. ASSUME NEW f \in AmountFields \cap DOMAIN reading
      PROVE  Normalized(reading)[f] = Stored(reading[f])
  <2>1. f \in DOMAIN reading /\ f \in AmountFields /\ f # "line_items"
    BY <1>1, <1>3
  <2> QED BY <2>1, Zenon DEF Normalized
<1>4. ASSUME "line_items" \in DOMAIN reading
      PROVE  Normalized(reading)["line_items"] =
               [i \in DOMAIN reading["line_items"] |-> Stored(reading["line_items"][i])]
  BY <1>1, <1>4, Zenon DEF Normalized
<1>5. ASSUME NEW f \in DOMAIN reading \ (AmountFields \cup {"line_items"})
      PROVE  Normalized(reading)[f] = reading[f]
  BY <1>5 DEF Normalized
<1> QED BY <1>2, <1>3, <1>4, <1>5

(* An amount that is read wrong is stored like any other.                  *)
LEMMA MisreadIsStored ==
  ASSUME document \in Documents, NEW f \in AmountFields \cap DOMAIN document.says,
         NEW reading \in Misreadings(document, f)
  PROVE  IsStored(Stored(reading))
<1> DEFINE text == PrintedField(document, f)
<1>0. Consistent(document)
  BY BusinessRulesAssumption
<1>1. reading \in MisreadAmounts(document, text)
  <2>1. /\ f \in AmountFields /\ f \notin DateFields
        /\ f # "line_items" /\ f # "curp" /\ f # "sex" /\ f # "expiration_date"
    BY DEF AmountFields, DateFields
  <2>2. Misreadings(document, f) = MisreadAmounts(document, text)
    BY <2>1 DEF Misreadings
  <2> QED BY <2>2
<1>2. text \in Seq(AnyChars)
  BY <1>0, AmountPrinted DEF Prints
<1>3. SUFFICES \E S : reading \in Seq(S)
  BY StoredIsRead DEF StoredAs, IsStored
<1> HIDE DEF text
<1>4. CASE reading = << >>
  BY <1>4
<1>5. CASE reading = <<"x">>
  <2>1. reading \in Seq({"x"})
    BY <1>5
  <2> QED BY <2>1
<1>6. CASE \E a \in OtherAmounts : reading = Printed(a, document.style)
  <2>1. PICK a \in OtherAmounts : reading = Printed(a, document.style)
    BY <1>6
  <2>2. ReadOf(reading, a)
    BY <1>0, <2>1, BusinessRulesAssumption, AmountRead DEF Consistent
  <2> QED BY <2>2 DEF ReadOf
<1>7. CASE \E cut \in {LastAt(text, Head(document.style.point))} \ {0} :
             reading = SubSeq(text, 1, cut - 1)
  <2>1. PICK cut \in 1..Len(text) : reading = SubSeq(text, 1, cut - 1)
    <3> DEFINE point == Head(document.style.point)
    <3> HIDE DEF point
    <3>1. LastAt(text, point) = 0 \/ LastAt(text, point) \in 1..Len(text)
      BY <1>2, LastAtIs
    <3> QED BY <1>7, <3>1 DEF point
  <2>2. 1 \in 1..(Len(text) + 1) /\ cut - 1 \in 0..Len(text)
    BY <1>2
  <2>3. reading \in Seq(AnyChars)
    BY <1>2, <2>1, <2>2, SubSeqProperties
  <2> QED BY <2>3
<1> QED BY <1>1, <1>4, <1>5, <1>6, <1>7 DEF MisreadAmounts

(* What is extracted differs from the document in one field at most.       *)
LEMMA ExtractedIsOneOff ==
  ASSUME document \in Documents, extract
  PROVE  OneOff(document, data', misread')
<1> DEFINE printed == PrintedDocument(document)
<1>0. Consistent(document)
  BY BusinessRulesAssumption
<1>1. CASE data' = Right(document) /\ misread' = misread
  BY <1>0, <1>1, RightFields DEF OneOff
<1>2. ASSUME NEW f \in DOMAIN printed, NEW reading \in Misreadings(document, f),
             data' = Normalized([printed EXCEPT ![f] = reading]), misread' = f
      PROVE  OneOff(document, data', misread')
  <2> DEFINE read == [printed EXCEPT ![f] = reading]
  <2>1. /\ DOMAIN printed = DOMAIN document.says
        /\ DOMAIN read = DOMAIN document.says /\ read[f] = reading
        /\ \A g \in DOMAIN read : g # f => read[g] = printed[g]
    BY DEF PrintedDocument
  <2>2. Right(document) = Normalized(printed)
    BY DEF Right
  <2>3. data' = Normalized(read)
    BY <1>2
  <2> HIDE DEF printed, read
  <2>4. \A g \in DOMAIN read : g # f => data'[g] = Right(document)[g]
    <3> SUFFICES ASSUME NEW g \in DOMAIN read, g # f
                 PROVE  data'[g] = Right(document)[g]
      OBVIOUS
    <3>1. read[g] = printed[g]
      BY <2>1
    <3>2. CASE g \in AmountFields
      <4>1. Normalized(read)[g] = Stored(read[g])
        BY <3>2, NormalizedIs
      <4>2. Normalized(printed)[g] = Stored(printed[g])
        BY <2>1, <3>2, NormalizedIs
      <4> QED BY <2>2, <2>3, <3>1, <4>1, <4>2
    <3>3. CASE g = "line_items"
      <4>1. Normalized(read)[g] = [i \in DOMAIN read[g] |-> Stored(read[g][i])]
        BY <3>3, NormalizedIs
      <4>2. Normalized(printed)[g] = [i \in DOMAIN printed[g] |-> Stored(printed[g][i])]
        BY <2>1, <3>3, NormalizedIs
      <4> QED BY <2>2, <2>3, <3>1, <4>1, <4>2
    <3>4. CASE g \notin AmountFields \cup {"line_items"}
      <4>1. Normalized(read)[g] = read[g]
        BY <3>4, NormalizedIs
      <4>2. Normalized(printed)[g] = printed[g]
        BY <2>1, <3>4, NormalizedIs
      <4> QED BY <2>2, <2>3, <3>1, <4>1, <4>2
    <3> QED BY <3>2, <3>3, <3>4
  <2>5. ASSUME NEW g \in AmountFields \cap DOMAIN read
        PROVE  IsStored(data'[g])
    <3>1. CASE g = f
      BY <2>1, <2>3, <3>1, MisreadIsStored, NormalizedIs
    <3>2. CASE g # f
      BY <1>0, <2>1, <2>4, <3>2, RightFields
    <3> QED BY <3>1, <3>2
  <2>6. DOMAIN data' = DOMAIN read
    BY <2>3, NormalizedIs
  <2> QED BY <1>2, <2>1, <2>4, <2>5, <2>6 DEF OneOff
<1> QED BY <1>1, <1>2 DEF extract, Right

-----------------------------------------------------------------------------
(* What a retry asks for again, and what it finds not printed at all.      *)
Targets == failed_fields \ flagged_fields

Blank == {f \in Targets : Missing(f, PrintedField(document, f))}

(* A retry puts the answer in place of the fields it asks for, and changes *)
(* no other one.                                                           *)
LEMMA RetriedData ==
  ASSUME document \in Documents, NEW m, OneOff(document, data, m),
         Targets \subseteq FieldsOf(document.doc_type), crop_and_vlm_retry_node
  PROVE  /\ DOMAIN data' = DOMAIN data
         /\ \A f \in DOMAIN data :
              f # "line_items" \/ m # "line_items" =>
                data'[f] = IF f \in Targets \ Blank THEN Right(document)[f] ELSE data[f]
<1> DEFINE asked == [f \in DOMAIN data |->
                       IF f \in Targets \ Blank THEN PrintedField(document, f) ELSE data[f]]
<1>0. Consistent(document)
  BY BusinessRulesAssumption
<1>1. data' = Normalized(asked)
  BY Zenon DEF crop_and_vlm_retry_node, Targets, Blank
<1>2. /\ DOMAIN asked = DOMAIN data
      /\ \A f \in DOMAIN asked :
           asked[f] = IF f \in Targets \ Blank THEN PrintedField(document, f) ELSE data[f]
  OBVIOUS
<1> HIDE DEF asked
<1>3. DOMAIN data' = DOMAIN data /\ DOMAIN data = DOMAIN document.says
  BY <1>1, <1>2, NormalizedIs DEF OneOff
<1>4. ASSUME NEW f \in AmountFields \cap DOMAIN data
      PROVE  data'[f] = IF f \in Targets \ Blank THEN Right(document)[f] ELSE data[f]
  <2>1. data'[f] = Stored(asked[f])
    BY <1>1, <1>2, NormalizedIs
  <2>2. Stored(data[f]) = data[f]
    BY DEF OneOff, IsStored
  <2>3. Right(document)[f] = Stored(PrintedField(document, f))
    BY <1>0, <1>3, RightFields
  <2> QED BY <1>2, <2>1, <2>2, <2>3
<1>5. ASSUME NEW f \in DOMAIN data, f = "line_items", m # f
      PROVE  data'[f] = IF f \in Targets \ Blank THEN Right(document)[f] ELSE data[f]
  <2>1. f \notin Targets
    BY <1>5, BlamedAre
  <2>2. asked[f] = data[f]
    BY <1>2, <2>1
  <2>3. data'[f] = [i \in DOMAIN asked[f] |-> Stored(asked[f][i])]
    BY <1>1, <1>2, <1>5, NormalizedIs
  <2>4. data[f] = Right(document)[f]
    BY <1>5 DEF OneOff
  <2>5. [i \in DOMAIN data[f] |-> Stored(data[f][i])] = data[f]
    BY <1>0, <1>3, <1>5, <2>4, RightLines DEF LinesRead
  <2> QED BY <2>1, <2>2, <2>3, <2>5
<1>6. ASSUME NEW f \in DOMAIN data, f \notin AmountFields, f # "line_items"
      PROVE  data'[f] = IF f \in Targets \ Blank THEN Right(document)[f] ELSE data[f]
  <2>1. data'[f] = asked[f]
    BY <1>1, <1>2, <1>6, NormalizedIs
  <2>2. Right(document)[f] = PrintedField(document, f)
    BY <1>0, <1>3, <1>6, RightFields
  <2> QED BY <1>2, <2>1, <2>2
<1> QED BY <1>3, <1>4, <1>5, <1>6

(* So the field that is read wrong stays the only one, and is healed when  *)
(* it is asked for and printed.                                            *)
LEMMA RetriedIsOneOff ==
  ASSUME document \in Documents, NEW m, OneOff(document, data, m),
         Targets \subseteq FieldsOf(document.doc_type), crop_and_vlm_retry_node
  PROVE  /\ OneOff(document, data', m)
         /\ m \in Targets \ Blank => OneOff(document, data', "none")
<1>0. Consistent(document)
  BY BusinessRulesAssumption
<1>1. /\ DOMAIN data' = DOMAIN data
      /\ \A f \in DOMAIN data :
           f # "line_items" \/ m # "line_items" =>
             data'[f] = IF f \in Targets \ Blank THEN Right(document)[f] ELSE data[f]
  BY RetriedData
<1>2. /\ DOMAIN data = DOMAIN document.says
      /\ \A f \in DOMAIN data \ {m} : data[f] = Right(document)[f]
      /\ \A f \in AmountFields \cap DOMAIN data : IsStored(data[f])
  BY DEF OneOff
<1>3. \A f \in DOMAIN data \ {m} : data'[f] = Right(document)[f]
  BY <1>1, <1>2
<1>4. \A f \in AmountFields \cap DOMAIN data : IsStored(data'[f])
  <2>1. "line_items" \notin AmountFields
    BY DEF AmountFields
  <2> QED BY <1>0, <1>1, <1>2, <2>1, RightFields
<1>5. m \in Targets \ Blank => \A f \in DOMAIN data : data'[f] = Right(document)[f]
  <2>1. m \in Targets => m # "line_items"
    BY BlamedAre
  <2> QED BY <1>1, <1>3, <2>1
<1> QED BY <1>1, <1>2, <1>3, <1>4, <1>5 DEF OneOff

(* A witness read wrong is a witness after a retry of other fields.        *)
LEMMA WitnessStays ==
  ASSUME document \in Documents, Readable(document), NEW m \in Witnesses,
         OneOff(document, data, m),
         Targets \subseteq FieldsOf(document.doc_type), crop_and_vlm_retry_node
  PROVE  m \in Witnesses'
<1> DEFINE type == document.doc_type
<1>0. /\ Consistent(document) /\ document' = document
      /\ Legible(document) /\ RefusedForX(document) = {}
  BY BusinessRulesAssumption DEF crop_and_vlm_retry_node, Readable
<1>1. CASE m \in {"discount_amount", "line_items"}
  BY <1>1 DEF Witnesses
<1>2. CASE m \in FieldsOf(type) /\ Missing(m, PrintedField(document, m))
  BY <1>0, <1>2 DEF Witnesses
<1>3. CASE /\ m \in {"tax_amount", "invoice_date", "date_of_birth", "curp", "subtotal"}
           /\ m \in DOMAIN data /\ Fits(m, data[m])
           /\ m = "subtotal" => LinesAllow(data[m])
  <2>1. /\ DOMAIN data' = DOMAIN data
        /\ data'[m] = IF m \in Targets \ Blank THEN Right(document)[m] ELSE data[m]
    BY <1>3, RetriedData
  <2>2. \A text : LinesAllow(text)' <=> LinesAllow(text)
    BY <1>0 DEF LinesAllow
  <2>3. CASE m \in Targets \ Blank
    <3>1. m \in FieldsOf(type) /\ ~Missing(m, PrintedField(document, m))
      BY <2>3 DEF Blank
    <3>2. Fits(m, Right(document)[m])
      BY <1>0, <3>1, RightFits DEF FieldRule
    <3>3. m = "subtotal" => LinesAllow(Right(document)[m])
      <4> HAVE m = "subtotal"
      <4>1. type = "invoice" /\ m \in AmountFields \cap DOMAIN document.says
        BY <1>0, <3>1, FieldKinds, TextsAre DEF AmountFields, DateFields
      <4>2. PICK s \in Int :
              /\ document.says["subtotal"] = {s}
              /\ document.says["line_items"] # << >> =>
                   Within(LineSum(document.says["line_items"]), s)
        BY <1>0, <4>1, InvoiceSays
      <4>3. parse_decimal(Right(document)[m]) = {s}
        BY <1>0, <4>1, <4>2, RightFields
      <4> QED BY <4>2, <4>3 DEF LinesAllow
    <3> QED BY <1>3, <2>1, <2>2, <2>3, <3>2, <3>3 DEF Witnesses
  <2>4. CASE m \notin Targets \ Blank
    BY <1>3, <2>1, <2>2, <2>4 DEF Witnesses
  <2> QED BY <2>3, <2>4
<1> QED BY <1>1, <1>2, <1>3 DEF Witnesses

-----------------------------------------------------------------------------
(* The inductive invariant: one field at most is read wrong, and after a   *)
(* retry none is, but for a witness; the verdicts are those of the data.   *)
Judged ==
  /\ stage \in {"retry", "refused", "accepted"} =>
       failed_fields = validate_document(document.doc_type, data)
  /\ stage = "accepted" => failed_fields = {}
  /\ stage \in {"retry", "refused"} => failed_fields # {}

Reread ==
  /\ retries \in Nat
  /\ retries = 0 => flagged_fields = {}
  /\ Readable(document) /\ retries > 0 =>
       misread \in Witnesses \/ OneOff(document, data, "none")

IInv ==
  /\ document \in Documents
  /\ stage \in {"extraction", "validation", "retry", "refused", "accepted"}
  /\ stage = "extraction" =>
       misread = "none" /\ failed_fields = {} /\ flagged_fields = {} /\ retries = 0
  /\ stage # "extraction" =>
       OneOff(document, data, misread) /\ Judged /\ Reread

LEMMA InitIInv == Init => IInv
BY DEF Init, IInv

LEMMA NextIInv == IInv /\ [Next]_vars => IInv'
<1> SUFFICES ASSUME IInv, [Next]_vars
             PROVE  IInv'
  OBVIOUS
<1>1. CASE extract
  <2>1. /\ document \in Documents /\ stage = "extraction"
        /\ misread = "none" /\ failed_fields = {} /\ flagged_fields = {} /\ retries = 0
    BY <1>1 DEF IInv, extract
  <2>2. /\ stage' = "validation" /\ document' = document /\ retries' = retries
        /\ failed_fields' = failed_fields /\ flagged_fields' = flagged_fields
    BY <1>1 DEF extract
  <2>3. OneOff(document, data', misread')
    BY <1>1, <2>1, ExtractedIsOneOff
  <2>4. Judged' /\ Reread'
    BY <2>1, <2>2 DEF Judged, Reread
  <2> QED BY <2>1, <2>2, <2>3, <2>4 DEF IInv
<1>2. CASE validation_node
  <2>1. /\ document \in Documents /\ stage = "validation"
        /\ OneOff(document, data, misread) /\ Reread
    BY <1>2 DEF IInv, validation_node
  <2>2. /\ document' = document /\ data' = data /\ flagged_fields' = flagged_fields
        /\ misread' = misread /\ retries' = retries
        /\ failed_fields' = validate_document(document.doc_type, data)
        /\ stage' \in {"accepted", "retry", "refused"}
        /\ stage' = "accepted" <=> failed_fields' = {}
    BY <1>2 DEF validation_node
  <2>3. Judged'
    BY <2>2 DEF Judged
  <2>4. Witnesses' = Witnesses
    BY <2>2 DEF Witnesses, LinesAllow
  <2>5. Reread'
    BY <2>1, <2>2, <2>4 DEF Reread
  <2> QED BY <2>1, <2>2, <2>3, <2>5 DEF IInv
<1>3. CASE crop_and_vlm_retry_node
  <2>1. /\ document \in Documents /\ stage = "retry"
        /\ OneOff(document, data, misread) /\ Judged /\ Reread
    BY <1>3 DEF IInv, crop_and_vlm_retry_node
  <2>2. /\ document' = document /\ failed_fields' = failed_fields /\ misread' = misread
        /\ retries' = retries + 1 /\ stage' = "validation"
    BY <1>3 DEF crop_and_vlm_retry_node
  <2>3. failed_fields = validate_document(document.doc_type, data) /\ failed_fields # {}
    BY <2>1 DEF Judged
  <2>4. Targets \subseteq FieldsOf(document.doc_type)
    BY <2>1, <2>3, BlamedAre DEF Targets
  <2>5. /\ OneOff(document, data', misread)
        /\ misread \in Targets \ Blank => OneOff(document, data', "none")
    BY <1>3, <2>1, <2>4, RetriedIsOneOff
  <2>6. ASSUME Readable(document)
        PROVE  misread \in Witnesses' \/ OneOff(document, data', "none")
    <3>1. CASE misread \in Witnesses
      BY <1>3, <2>1, <2>4, <2>6, <3>1, WitnessStays
    <3>2. CASE misread \notin Witnesses
      <4>1. misread \in failed_fields
        BY <2>1, <2>3, <2>6, <3>2, BlameIsRight
      <4>2. flagged_fields = {}
        BY <2>1, <2>3, <2>6, <3>2, RightPasses DEF Reread
      <4>3. misread \in Targets
        BY <4>1, <4>2 DEF Targets
      <4>4. misread \notin Blank
        BY <2>4, <3>2, <4>3 DEF Blank, Witnesses
      <4> QED BY <2>5, <4>3, <4>4
    <3> QED BY <3>1, <3>2
  <2>7. Reread'
    BY <2>1, <2>2, <2>6 DEF Reread
  <2>8. Judged'
    BY <2>1, <2>2 DEF Judged
  <2> QED BY <2>1, <2>2, <2>5, <2>7, <2>8 DEF IInv
<1>4. CASE UNCHANGED vars
  BY <1>4 DEF IInv, Judged, Reread, Witnesses, LinesAllow, vars
<1> QED BY <1>1, <1>2, <1>3, <1>4 DEF Next

(* The invariant holds of every run.                                       *)
LEMMA IInvHolds == Spec => []IInv
BY InitIInv, NextIInv, PTL DEF Spec

(* A consistent document that is read without a mistake is blamed for      *)
(* nothing, and a card that prints X for the one field that betrays it.    *)
THEOREM ConsistentNotBlamedHolds == Spec => []ConsistentNotBlamed
<1>1. IInv => ConsistentNotBlamed
  <2> SUFFICES ASSUME IInv, Legible(document), misread = "none",
                      stage \notin {"extraction", "validation"}
               PROVE  failed_fields = RefusedForX(document)
    BY DEF ConsistentNotBlamed
  <2>1. /\ document \in Documents /\ OneOff(document, data, "none")
        /\ failed_fields = validate_document(document.doc_type, data)
    BY DEF IInv, Judged
  <2> QED BY <2>1, RightIsRefused
<1> QED BY <1>1, IInvHolds, PTL

-----------------------------------------------------------------------------
(* What passes the tools is what is printed.                               *)
LEMMA PassedIs ==
  ASSUME NEW doc, NEW reading, validate_document(doc.doc_type, reading) = {}
  PROVE  /\ \A f \in FieldsOf(doc.doc_type) : FieldRule(doc.doc_type, f, reading[f])
         /\ DocumentRuleErrors(doc.doc_type, reading) = {}
BY FieldErrorsAre DEF validate_document

(* An amount is what it should be, but for the tolerance of the rule and   *)
(* the rounding of the document.  A missing amount is zero.                *)
Near(doc, reading, f) ==
  \E b, a \in Int :
    /\ (IF doc.says[f] = {} THEN {0} ELSE doc.says[f]) = {b}
    /\ (IF reading[f] = << >> THEN {0} ELSE parse_decimal(reading[f])) = {a}
    /\ a - b \in (-2 * Tolerance)..(2 * Tolerance)

(* The amounts of an invoice that passes.                                  *)
LEMMA PassedAmounts ==
  ASSUME NEW doc, Consistent(doc), Legible(doc), doc.doc_type = "invoice",
         NEW reading, NEW m, OneOff(doc, reading, m),
         validate_document(doc.doc_type, reading) = {},
         NEW f \in {"subtotal", "tax_amount", "total_amount", "discount_amount"}
  PROVE  Near(doc, reading, f)
<1> DEFINE said(g) == IF doc.says[g] = {} THEN {0} ELSE doc.says[g]
           read(g) == IF reading[g] = << >> THEN {0} ELSE parse_decimal(reading[g])
           fields == {"subtotal", "tax_amount", "total_amount", "discount_amount"}
<1>1. PICK s, t, o, d \in Int :
        /\ doc.says["subtotal"] = {s} /\ doc.says["tax_amount"] = {t}
        /\ doc.says["total_amount"] = {o}
        /\ doc.says["discount_amount"] = {d} \/ (doc.says["discount_amount"] = {} /\ d = 0)
        /\ Within(s - d + t, o)
  BY InvoiceSays
<1>2. /\ said("subtotal") = {s} /\ said("tax_amount") = {t}
      /\ said("total_amount") = {o} /\ said("discount_amount") = {d}
  BY <1>1
<1>3. \A g \in fields : g \in AmountFields \cap DOMAIN doc.says
  BY SaysFields, InvoiceFields DEF AmountFields
<1>4. ASSUME NEW g \in fields
      PROVE  \E a \in Int : read(g) = {a}
  <2>1. /\ parse_decimal(reading[g]) = {} <=> reading[g] = << >>
        /\ \A a \in parse_decimal(reading[g]) : a \in Int /\ parse_decimal(reading[g]) = {a}
    BY <1>3, OneOffReads
  <2> QED BY <2>1
<1>5. ASSUME NEW g \in fields, g # m
      PROVE  read(g) = said(g)
  <2>1. parse_decimal(reading[g]) = doc.says[g]
    BY <1>3, <1>5, OneOffReads
  <2>2. parse_decimal(reading[g]) = {} <=> reading[g] = << >>
    <3>1. g \in AmountFields \cap DOMAIN doc.says
      BY <1>3
    <3> QED BY <3>1, OneOffReads
  <2> QED BY <2>1, <2>2
<1>6. \A g \in {"subtotal", "tax_amount", "total_amount"} : read(g) = parse_decimal(reading[g])
  <2>1. \A g \in {"subtotal", "tax_amount", "total_amount"} :
          g \in FieldsOf("invoice") \ Optional("invoice")
    BY InvoiceFields
  <2>2. \A g \in {"subtotal", "tax_amount", "total_amount"} : ~Missing(g, reading[g])
    BY <2>1, PassedIs DEF FieldRule
  <2> QED BY <2>2, AmountRules
<1>7. read("discount_amount") = Discount(reading)
  <2>1. parse_decimal(reading["discount_amount"]) = {} <=> reading["discount_amount"] = << >>
    <3>1. "discount_amount" \in AmountFields \cap DOMAIN doc.says
      BY <1>3
    <3> QED BY <3>1, OneOffReads
  <2>2. Discount(reading) = IF parse_decimal(reading["discount_amount"]) = {} THEN {0}
                            ELSE parse_decimal(reading["discount_amount"])
    BY DEF Discount
  <2> QED BY <2>1, <2>2
<1>8. check_invoice_totals(reading) = {}
  <2>1. DocumentRuleErrors("invoice", reading) = check_invoice_totals(reading)
          \cup check_invoice_line_items(reading) \cup check_invoice_dates(reading)
    BY Zenon DEF DocumentRuleErrors
  <2> QED BY <2>1, PassedIs
<1>9. \A rs \in read("subtotal"), rt \in read("tax_amount"), ro \in read("total_amount"),
         rd \in read("discount_amount") : Within(rs - rd + rt, ro)
  BY <1>6, <1>7, <1>8 DEF check_invoice_totals
<1>10. f \in fields
  OBVIOUS
<1> HIDE DEF said, read, fields
<1>11. PICK rs, rt, ro, rd \in Int :
         /\ read("subtotal") = {rs} /\ read("tax_amount") = {rt}
         /\ read("total_amount") = {ro} /\ read("discount_amount") = {rd}
  BY <1>4 DEF fields
<1>12. Within(rs - rd + rt, ro)
  BY <1>9, <1>11
<1>13. /\ m # "subtotal" => rs = s
       /\ m # "tax_amount" => rt = t
       /\ m # "total_amount" => ro = o
       /\ m # "discount_amount" => rd = d
  BY <1>2, <1>5, <1>11 DEF fields
<1>14. /\ rs - s \in -20..20 /\ rt - t \in -20..20
       /\ ro - o \in -20..20 /\ rd - d \in -20..20
  BY <1>1, <1>11, <1>12, <1>13 DEF Within, Tolerance
<1>15. \A i \in -20..20 : i \in (-2 * Tolerance)..(2 * Tolerance)
  BY DEF Tolerance
<1>16. \E b, a \in Int :
         said(f) = {b} /\ read(f) = {a} /\ a - b \in (-2 * Tolerance)..(2 * Tolerance)
  BY <1>2, <1>10, <1>11, <1>14, <1>15 DEF fields
<1> QED BY <1>16, Zenon DEF said, read, Near

(* What is read as a date is one.                                          *)
LEMMA ReadIsCalendar ==
  ASSUME NEW text, NEW date \in parse_date(text)
  PROVE  Calendar(date) /\ \E y, m, d : date = <<y, m, d>>
<1>1. PICK layout : date \in InLayout(text, layout)
  BY Zenon DEF parse_date
<1> QED BY <1>1 DEF InLayout

(* Two years that a century rule cannot tell apart, in one long life.      *)
LEMMA CenturyOff ==
  ASSUME NEW y \in Int, NEW z \in Int, y % 100 = z % 100, y - z \in -120..120
  PROVE  y - z \in {-100, 0, 100}
<1>1. y = 100 * (y \div 100) + (y % 100) /\ z = 100 * (z \div 100) + (z % 100)
  OBVIOUS
<1>2. PICK q \in Int, r \in Int : q = y \div 100 /\ r = z \div 100
  OBVIOUS
<1>3. y - z = 100 * (q - r)
  BY <1>1, <1>2
<1>4. q - r \in {-1, 0, 1}
  BY <1>3
<1> QED BY <1>3, <1>4

(* A date that is not before another is not of an earlier year.            *)
LEMMA YearsFollow ==
  ASSUME NEW date, NEW other, Calendar(date), Calendar(other), ~Before(date, other)
  PROVE  date[1] \in Int /\ other[1] \in Int /\ other[1] <= date[1]
<1>1. /\ date[1] \in Int /\ date[2] \in 1..12 /\ date[3] \in 1..31
      /\ other[1] \in Int /\ other[2] \in 1..12 /\ other[3] \in 1..31
  BY CalendarDay
<1>2. ~ (10000 * date[1] + 100 * date[2] + date[3]
          < 10000 * other[1] + 100 * other[2] + other[3])
  BY DEF Before
<1> HIDE DEF Calendar, Before
<1>3. other[1] <= date[1]
  <2>1. PICK y \in Int, m \in 1..12, d \in 1..31 : y = date[1] /\ m = date[2] /\ d = date[3]
    BY <1>1
  <2>2. PICK z \in Int, n \in 1..12, e \in 1..31 : z = other[1] /\ n = other[2] /\ e = other[3]
    BY <1>1
  <2>3. ~ (10000 * y + 100 * m + d < 10000 * z + 100 * n + e)
    BY <1>2, <2>1, <2>2
  <2>4. z <= y
    <3>1. 100 * (100 * y + m) + d >= 100 * (100 * z + n) + e
      BY <2>3
    <3>2. PICK a \in Int, b \in Int : a = 100 * y + m /\ b = 100 * z + n
      OBVIOUS
    <3>3. 100 * a + d >= 100 * b + e
      BY <3>1, <3>2
    <3>4. a >= b
      BY <3>3
    <3> QED BY <3>2, <3>4
  <2> QED BY <2>1, <2>2, <2>4
<1> QED BY <1>1, <1>3

LEMMA PassedCard ==
  ASSUME NEW doc, Consistent(doc), Legible(doc), doc.doc_type = "ine",
         NEW reading, NEW m, OneOff(doc, reading, m),
         validate_document(doc.doc_type, reading) = {}
  PROVE  /\ \A d \in parse_date(reading["date_of_birth"]), e \in doc.says["date_of_birth"] :
              d[1] - e[1] \in {-100, 0, 100} /\ d[2] = e[2] /\ d[3] = e[3]
         /\ reading["sex"] \in {"", doc.says["sex"], doc.says["curp"].sex}
<1>1. PICK born \in Int \X Int \X Int :
        /\ doc.says["date_of_birth"] = {born}
        /\ doc.says["curp"].birth = ShortDate(born)
        /\ Calendar(born) /\ ~Before(Today, born) /\ born[1] >= Today[1] - 120
  BY CardSays
<1>2. {"curp", "sex", "date_of_birth"} \subseteq DOMAIN doc.says
  BY SaysFields, CardFields
<1>3. "date_of_birth" # m => parse_date(reading["date_of_birth"]) = {born}
  BY <1>1, <1>2, OneOffReads DEF DateFields
<1>4. \A f \in {"curp", "sex"} : f # m => reading[f] = doc.says[f]
  <2>1. \A f \in {"curp", "sex"} :
          f # m => f \notin AmountFields \cup DateFields \cup {"line_items", m}
    BY DEF AmountFields, DateFields
  <2> QED BY <1>2, <2>1, OneOffReads
<1>5. /\ check_birth_date_in_past(reading) = {}
      /\ check_curp_matches_birth_date(reading) = {} /\ check_curp_matches_sex(reading) = {}
  <2>1. DocumentRuleErrors("ine", reading) =
          check_birth_date_in_past(reading) \cup check_curp_matches_birth_date(reading)
            \cup check_curp_matches_sex(reading)
    BY Zenon DEF DocumentRuleErrors
  <2> QED BY <2>1, PassedIs
<1>6. MatchesCurp(reading["curp"])
  <2>1. "curp" \in FieldsOf("ine") \ Optional("ine")
    BY CardFields
  <2>2. FieldRule("ine", "curp", reading["curp"])
    BY <2>1, PassedIs
  <2>3. Fits("curp", reading["curp"])
    BY <2>1, <2>2, Zenon DEF FieldRule
  <2> QED BY <2>3, CardRules
<1>7. ASSUME NEW d \in parse_date(reading["date_of_birth"])
      PROVE  d[1] - born[1] \in {-100, 0, 100} /\ d[2] = born[2] /\ d[3] = born[3]
  <2>1. CASE m # "date_of_birth"
    <3>1. d = born
      BY <1>3, <2>1
    <3> QED BY <3>1
  <2>2. CASE m = "date_of_birth"
    <3>1. reading["curp"] = doc.says["curp"]
      BY <1>4, <2>2
    <3>2. ShortDate(d) = ShortDate(born)
      BY <1>1, <1>5, <1>6, <3>1 DEF check_curp_matches_birth_date
    <3>3. d[1] % 100 = born[1] % 100 /\ d[2] = born[2] /\ d[3] = born[3]
      BY <3>2 DEF ShortDate
    <3>4. ~Before(Today, d) /\ ~ (d[1] < Today[1] - 120)
      BY <1>5 DEF check_birth_date_in_past
    <3>5. Calendar(d)
      BY ReadIsCalendar
    <3>6. /\ Today[1] \in Int /\ d[1] \in Int /\ born[1] \in Int
          /\ d[1] <= Today[1] /\ born[1] <= Today[1]
      BY <1>1, <3>4, <3>5, YearsFollow, TodayAssumption
    <3>7. d[1] - born[1] \in -120..120
      BY <1>1, <3>4, <3>6
    <3> QED BY <3>3, <3>6, <3>7, CenturyOff
  <2> QED BY <2>1, <2>2
<1>8. reading["sex"] \in {"", doc.says["sex"], doc.says["curp"].sex}
  <2>1. CASE m = "sex"
    <3>1. reading["curp"] = doc.says["curp"]
      BY <1>4, <2>1
    <3> QED BY <1>5, <1>6, <3>1 DEF check_curp_matches_sex
  <2> QED BY <1>4, <2>1
<1>9. \A e \in doc.says["date_of_birth"] : e = born
  BY <1>1
<1>10. \A d \in parse_date(reading["date_of_birth"]), e \in doc.says["date_of_birth"] :
         d[1] - e[1] \in {-100, 0, 100} /\ d[2] = e[2] /\ d[3] = e[3]
  <2> TAKE d \in parse_date(reading["date_of_birth"]), e \in doc.says["date_of_birth"]
  <2>1. e = born
    BY <1>9
  <2>2. d[1] - born[1] \in {-100, 0, 100} /\ d[2] = born[2] /\ d[3] = born[3]
    BY <1>7
  <2> QED BY <2>1, <2>2, Zenon
<1> QED BY <1>8, <1>10

(* No single misreading of an amount, a birth date or a sex survives the   *)
(* tools, but for the tolerance of the amounts, the century of the birth   *)
(* date, and a sex that is missing or, where an X is printed, the CURP's.  *)
THEOREM AcceptedIsPrintedHolds == Spec => []AcceptedIsPrinted
<1>1. IInv => AcceptedIsPrinted
  <2> SUFFICES ASSUME IInv, Legible(document), stage = "accepted"
               PROVE  AcceptedIsPrinted
    BY DEF AcceptedIsPrinted
  <2>1. /\ Consistent(document) /\ OneOff(document, data, misread)
        /\ validate_document(document.doc_type, data) = {}
    BY BusinessRulesAssumption DEF IInv, Judged
  <2>2. ASSUME NEW f \in AmountFields \cap DOMAIN data
        PROVE  LET read == IF data[f] = << >> THEN {0} ELSE parse_decimal(data[f])
                   said == IF document.says[f] = {} THEN {0} ELSE document.says[f]
               IN \A a \in read, b \in said : a - b \in (-2 * Tolerance)..(2 * Tolerance)
    <3>1. document.doc_type = "invoice"
      <4>1. f \in DOMAIN document.says
        BY <2>1 DEF OneOff
      <4>2. f \notin FieldsOf("ine") /\ f \notin FieldsOf("proof_of_address")
        BY CardFields, ProofFields DEF AmountFields
      <4> QED BY <2>1, <4>1, <4>2, SaysFields
    <3>2. f \in {"subtotal", "tax_amount", "total_amount", "discount_amount"}
      BY DEF AmountFields
    <3>3. Near(document, data, f)
      BY <2>1, <3>1, <3>2, PassedAmounts
    <3> QED BY <3>3 DEF Near
  <2>3. ASSUME document.doc_type = "ine"
        PROVE  /\ \A d \in parse_date(data.date_of_birth), e \in document.says.date_of_birth :
                    d[1] - e[1] \in {-100, 0, 100} /\ d[2] = e[2] /\ d[3] = e[3]
               /\ data.sex \in {"", document.says.sex, document.says.curp.sex}
    BY <2>1, <2>3, PassedCard
  <2> QED BY <2>2, <2>3 DEF AcceptedIsPrinted
<1> QED BY <1>1, IInvHolds, PTL

-----------------------------------------------------------------------------
(* One right re-read of the blamed fields heals every misreading but that  *)
(* of a witness, where one may be asked for at all.                        *)
THEOREM OnePassHealsHolds ==
  ASSUME MaxRetries > 0
  PROVE  Spec => []OnePassHeals
<1>1. Init => OnePassHeals
  BY DEF Init, OnePassHeals
<1>2. IInv /\ OnePassHeals /\ [Next]_vars => OnePassHeals'
  <2> SUFFICES ASSUME IInv, OnePassHeals, [Next]_vars
               PROVE  OnePassHeals'
    OBVIOUS
  <2>1. CASE extract
    BY <2>1 DEF extract, IInv, OnePassHeals
  <2>2. CASE validation_node
    <3>1. /\ document \in Documents /\ document' = document /\ data' = data
          /\ misread' = misread /\ retries' = retries /\ Reread
      BY <2>2 DEF validation_node, IInv
    <3>2. Witnesses' = Witnesses
      BY <3>1 DEF Witnesses, LinesAllow
    <3>3. ASSUME Readable(document), stage' = "refused"
          PROVE  misread \in Witnesses
      <4>1. /\ validate_document(document.doc_type, data) # {}
            /\ \/ validate_document(document.doc_type, data) \ flagged_fields = {}
               \/ ~(retries < MaxRetries)
        BY <2>2, <3>3 DEF validation_node
      <4>2. retries > 0
        BY <3>1, <4>1 DEF Reread
      <4> QED BY <3>1, <3>3, <4>1, <4>2, RightPasses DEF Reread
    <3> QED BY <3>1, <3>2, <3>3 DEF OnePassHeals, Readable
  <2>3. CASE crop_and_vlm_retry_node
    <3>1. /\ document \in Documents /\ OneOff(document, data, misread) /\ Judged /\ Reread
          /\ stage = "retry"
      BY <2>3 DEF crop_and_vlm_retry_node, IInv
    <3>2. /\ document' = document /\ misread' = misread
          /\ retries' = retries + 1 /\ stage' = "validation"
      BY <2>3 DEF crop_and_vlm_retry_node
    <3>3. failed_fields = validate_document(document.doc_type, data) /\ failed_fields # {}
      BY <3>1 DEF Judged
    <3>4. Targets \subseteq FieldsOf(document.doc_type)
      BY <3>1, <3>3, BlamedAre DEF Targets
    <3>5. ASSUME Readable(document), retries' > 1
          PROVE  misread \in Witnesses'
      <4>1. retries > 0
        BY <3>1, <3>2, <3>5 DEF Reread
      <4>2. misread \in Witnesses
        BY <3>1, <3>3, <3>5, <4>1, RightPasses DEF Reread
      <4> QED BY <2>3, <3>1, <3>4, <3>5, <4>2, WitnessStays
    <3> QED BY <3>2, <3>5 DEF OnePassHeals, Readable
  <2>4. CASE UNCHANGED vars
    BY <2>4 DEF OnePassHeals, Witnesses, LinesAllow, vars
  <2> QED BY <2>1, <2>2, <2>3, <2>4 DEF Next
<1> QED BY <1>1, <1>2, IInvHolds, PTL DEF Spec
=============================================================================

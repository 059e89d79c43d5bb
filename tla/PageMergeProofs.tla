--------------------------- MODULE PageMergeProofs ---------------------------
(***************************************************************************)
(* The merge of the pages of a document, for every schema, number of pages *)
(* and answer of a service: what is printed is kept, the earliest page     *)
(* first, and a re-read crops the page of the box.                         *)
(*                                                                         *)
(* Both merges, of the mentions of a page and of the pages of a document,  *)
(* are folds.  What a fold returns follows from the first element at which *)
(* it would return something else.                                         *)
(*                                                                         *)
(* The second part is about that crop, for every page, raster and padding, *)
(* and every polygon a provider can report: a field of which anything is   *)
(* on the page has a crop, the crop has a pixel, and it shows the field.   *)
(***************************************************************************)
EXTENDS PageMerge, CropGeometry, WellFoundedInduction, TLAPS

(* A nonempty set of positions has a first one.                            *)
LEMMA FirstPosition ==
  ASSUME NEW S, S \subseteq Nat, S # {}
  PROVE  \E q \in S : \A r \in S : q <= r
<1>1. IsWellFoundedOn(OpToRel(<, Nat), Nat)
  BY NatLessThanWellFounded
<1>2. \E q \in S : \A r \in S : <<r, q>> \notin OpToRel(<, Nat)
  BY <1>1, WFMin
<1>3. \A q, r \in Nat : <<r, q>> \notin OpToRel(<, Nat) => q <= r
  BY DEF OpToRel
<1> QED BY <1>2, <1>3

(* A set of positions of a sequence has a last one.                        *)
LEMMA LastPosition ==
  ASSUME NEW n \in Nat, NEW S, S \subseteq 1..n, S # {}
  PROVE  \E q \in S : \A r \in S : r <= q
<1> DEFINE back == {m \in 0..n : n - m \in S}
<1>1. \A q \in S : n - q \in back
  OBVIOUS
<1>2. back \subseteq Nat
  OBVIOUS
<1>3. PICK m \in back : \A k \in back : m <= k
  <2> HIDE DEF back
  <2>1. back # {}
    BY <1>1
  <2> QED BY <1>2, <2>1, FirstPosition
<1>4. n - m \in S /\ \A r \in S : r <= n - m
  BY <1>1, <1>3
<1> QED BY <1>4

(* What holds of no element and is passed on by each one holds of all.     *)
LEMMA StepInduction ==
  ASSUME NEW n \in Nat, NEW Holds, 0 \in Holds,
         \A k \in 1..n : k - 1 \in Holds => k \in Holds
  PROVE  \A k \in 0..n : k \in Holds
<1> DEFINE fails == (0..n) \ Holds
<1> SUFFICES ASSUME fails # {}
             PROVE  FALSE
  OBVIOUS
<1>0. fails \subseteq Nat
  OBVIOUS
<1>1. PICK k \in fails : \A other \in fails : k <= other
  <2> HIDE DEF fails
  <2> QED BY <1>0, FirstPosition
<1>2. k \in 1..n /\ k - 1 \in 0..n /\ ~ (k <= k - 1)
  BY <1>1
<1> QED BY <1>1, <1>2

-----------------------------------------------------------------------------
(* The function a fold from the left chooses, for an operator that is a    *)
(* function itself: its value on a set of positions folds the elements at  *)
(* them.                                                                   *)
Folding(op, base, seq, domain, iter) ==
  iter = [s \in SUBSET domain |->
            IF s = {} THEN base ELSE op[<<iter[s \ {Max(s)}], seq[Max(s)]>>]]

(* The last of the positions up to one.                                    *)
LEMMA MaxIs ==
  ASSUME NEW m \in Nat, NEW s, s \subseteq 1..m, m \in s
  PROVE  Max(s) = m
<1>1. m \in s /\ \A y \in s : m >= y
  OBVIOUS
<1>2. \A x \in s : (\A y \in s : x >= y) => x = m
  BY <1>1
<1> QED BY <1>1, <1>2 DEF Max

(* The positions up to one are those before it, and it.                    *)
LEMMA Prefix ==
  ASSUME NEW n \in Nat, NEW k \in 1..n
  PROVE  /\ 1..k \in SUBSET (1..n) /\ 1..k # {}
         /\ Max(1..k) = k
         /\ (1..k) \ {k} = 1..(k - 1)
<1>1. k \in Nat /\ 1..k \subseteq 1..k /\ k \in 1..k
  OBVIOUS
<1>2. Max(1..k) = k
  BY <1>1, MaxIs
<1> QED BY <1>2

(* There is such a function, for sequences of any length.                  *)
LEMMA FoldExists ==
  ASSUME NEW S, NEW T, NEW op \in [S \X T -> S], NEW base \in S,
         NEW n \in Nat, NEW seq \in [1..n -> T]
  PROVE  \E iter \in [SUBSET (1..n) -> S] : Folding(op, base, seq, 1..n, iter)
<1> DEFINE holds == {m \in 0..n : \E iter \in [SUBSET (1..m) -> S] :
                                   Folding(op, base, seq, 1..m, iter)}
<1>1. 0 \in holds
  <2> DEFINE iter == [s \in SUBSET (1..0) |-> base]
  <2>1. \A s \in SUBSET (1..0) : s = {}
    OBVIOUS
  <2>2. Folding(op, base, seq, 1..0, iter)
    BY <2>1 DEF Folding
  <2> QED BY <2>2
<1>2. ASSUME NEW m \in 1..n, m - 1 \in holds
      PROVE  m \in holds
  <2>1. PICK f \in [SUBSET (1..(m - 1)) -> S] : Folding(op, base, seq, 1..(m - 1), f)
    BY <1>2
  <2> DEFINE g == [s \in SUBSET (1..m) |->
                     IF m \in s THEN op[<<f[s \ {m}], seq[m]>>] ELSE f[s]]
  <2>2. ASSUME NEW s \in SUBSET (1..m)
        PROVE  g[s] = IF s = {} THEN base ELSE op[<<g[s \ {Max(s)}], seq[Max(s)]>>]
    <3>1. CASE m \in s
      <4>1. Max(s) = m
        <5>1. m \in Nat /\ s \subseteq 1..m
          OBVIOUS
        <5> QED BY <3>1, <5>1, MaxIs
      <4>2. s \ {m} \in SUBSET (1..m) /\ m \notin s \ {m} /\ s # {}
        BY <3>1
      <4> QED BY <3>1, <4>1, <4>2
    <3>2. CASE m \notin s
      <4>1. s \in SUBSET (1..(m - 1))
        BY <3>2
      <4>2. f[s] = IF s = {} THEN base ELSE op[<<f[s \ {Max(s)}], seq[Max(s)]>>]
        BY <2>1, <4>1 DEF Folding
      <4>3. s \ {Max(s)} \in SUBSET (1..m) /\ m \notin s \ {Max(s)}
        BY <3>2
      <4> QED BY <3>2, <4>2, <4>3
    <3> QED BY <3>1, <3>2
  <2>3. g = [s \in SUBSET (1..m) |-> g[s]]
    OBVIOUS
  <2>4. g \in [SUBSET (1..m) -> S]
    <3>1. ASSUME NEW s \in SUBSET (1..m)
          PROVE  g[s] \in S
      <4>1. m \notin s => s \in SUBSET (1..(m - 1))
        OBVIOUS
      <4>2. s \ {m} \in SUBSET (1..(m - 1)) /\ seq[m] \in T
        OBVIOUS
      <4>3. f[s \ {m}] \in S /\ (m \notin s => f[s] \in S)
        BY <4>1, <4>2
      <4>4. op[<<f[s \ {m}], seq[m]>>] \in S
        BY <4>2, <4>3
      <4> QED BY <4>3, <4>4
    <3> QED BY <3>1
  <2> HIDE DEF g
  <2>5. Folding(op, base, seq, 1..m, g)
    BY <2>2, <2>3 DEF Folding
  <2> QED BY <2>4, <2>5
<1> HIDE DEF holds
<1>3. \A k \in 0..n : k \in holds
  BY <1>1, <1>2, StepInduction
<1>4. n \in holds
  BY <1>3
<1> QED BY <1>4 DEF holds

(* One by one, the mentions of a page meet setdefault.                     *)
LEMMA ExtractionChain ==
  ASSUME NEW r, Mentions(r) \in Seq(Mention)
  PROVE  \E chain :
           /\ chain[0] = << >>
           /\ \A k \in 1..Len(Mentions(r)) :
                chain[k] = setdefault(chain[k - 1], Mentions(r)[k])
           /\ ExtractionFields(r) = chain[Len(Mentions(r))]
<1> DEFINE mentions == Mentions(r)
           n == Len(mentions)
           op == [x \in Seq(Mention) \X Mention |-> setdefault(x[1], x[2])]
           Is(F) == F = [s \in SUBSET DOMAIN mentions |->
                           IF s = {} THEN << >>
                           ELSE setdefault(F[s \ {Max(s)}], mentions[Max(s)])]
           F == CHOOSE G : Is(G)
           chain == [k \in 0..n |-> F[1..k]]
<1>1. n \in Nat /\ DOMAIN mentions = 1..n /\ mentions \in [1..n -> Mention]
  OBVIOUS
<1>2. op \in [Seq(Mention) \X Mention -> Seq(Mention)]
  BY DEF setdefault
<1>3. PICK G \in [SUBSET (1..n) -> Seq(Mention)] :
             Folding(op, << >>, mentions, 1..n, G)
  <2> HIDE DEF op, n, mentions
  <2>1. << >> \in Seq(Mention)
    OBVIOUS
  <2> QED BY <1>1, <1>2, <2>1, FoldExists
<1>4. Is(G)
  <2>1. ASSUME NEW s \in SUBSET (1..n), s # {}
        PROVE  op[<<G[s \ {Max(s)}], mentions[Max(s)]>>]
                 = setdefault(G[s \ {Max(s)}], mentions[Max(s)])
    <3>1. PICK q \in s : \A y \in s : y <= q
      <4> HIDE DEF n
      <4> QED BY <1>1, <2>1, LastPosition
    <3>2. Max(s) \in s
      BY <1>1, <3>1 DEF Max
    <3>3. G[s \ {Max(s)}] \in Seq(Mention) /\ mentions[Max(s)] \in Mention
      BY <1>1, <3>2
    <3> QED BY <3>3
  <2> HIDE DEF op
  <2> QED BY <1>1, <1>3, <2>1 DEF Folding
<1>5. Is(F)
  BY <1>4
<1>6. ExtractionFields(r) = F[DOMAIN mentions]
  BY DEF ExtractionFields, FoldLeft, MapThenFoldSet
<1> HIDE DEF F, mentions, n
<1>7. F[1..0] = << >>
  <2>1. 1..0 = {} /\ {} \in SUBSET (1..n)
    OBVIOUS
  <2> QED BY <1>1, <1>5, <2>1
<1>8. ASSUME NEW k \in 1..n
      PROVE  F[1..k] = setdefault(F[1..(k - 1)], mentions[k])
  <2>1. /\ 1..k \in SUBSET (1..n) /\ 1..k # {}
        /\ Max(1..k) = k
        /\ (1..k) \ {k} = 1..(k - 1)
    BY <1>1, Prefix
  <2> QED BY <1>1, <1>5, <2>1
<1>9. /\ chain[0] = << >>
      /\ \A k \in 1..n : chain[k] = setdefault(chain[k - 1], mentions[k])
      /\ ExtractionFields(r) = chain[n]
  BY <1>1, <1>6, <1>7, <1>8
<1> QED BY <1>9 DEF mentions, n

(* An element more at the end of a sequence.                               *)
LEMMA Appended ==
  ASSUME NEW S, NEW s \in Seq(S), NEW e \in S
  PROVE  /\ Append(s, e) \in Seq(S)
         /\ DOMAIN Append(s, e) = DOMAIN s \cup {Len(s) + 1}
         /\ \A i \in DOMAIN s : Append(s, e)[i] = s[i]
         /\ Append(s, e)[Len(s) + 1] = e
OBVIOUS

(* The mentions that are the first of their name, among those before a     *)
(* position: what an adapter holds when it has come so far.                *)
FirstAt(mentions, k) == \A j \in 1..(k - 1) : mentions[j].name # mentions[k].name

HoldsFirst(held, mentions, k) ==
  /\ held \in Seq(Mention)
  /\ \A j \in 1..k : \E i \in DOMAIN held : held[i].name = mentions[j].name
  /\ \A j \in 1..k :
       FirstAt(mentions, j) => \E i \in DOMAIN held : held[i] = mentions[j]
  /\ \A i \in DOMAIN held :
       \E j \in 1..k : FirstAt(mentions, j) /\ held[i] = mentions[j]

(* setdefault keeps what an adapter holds so.                              *)
LEMMA SetdefaultHolds ==
  ASSUME NEW n \in Nat, NEW mentions \in [1..n -> Mention], NEW k \in 1..n,
         NEW held, HoldsFirst(held, mentions, k - 1)
  PROVE  HoldsFirst(setdefault(held, mentions[k]), mentions, k)
<1> DEFINE m == mentions[k]
           named == \E i \in DOMAIN held : held[i].name = m.name
<1>1. /\ 1..k = (1..(k - 1)) \cup {k}
      /\ m \in Mention
  OBVIOUS
<1>2. /\ held \in Seq(Mention)
      /\ \A j \in 1..(k - 1) : \E i \in DOMAIN held : held[i].name = mentions[j].name
      /\ \A j \in 1..(k - 1) :
           FirstAt(mentions, j) => \E i \in DOMAIN held : held[i] = mentions[j]
      /\ \A i \in DOMAIN held :
           \E j \in 1..(k - 1) : FirstAt(mentions, j) /\ held[i] = mentions[j]
  BY DEF HoldsFirst
<1>3. CASE named
  <2>1. setdefault(held, m) = held
    BY <1>3 DEF setdefault
  <2>2. ~FirstAt(mentions, k)
    BY <1>2, <1>3 DEF FirstAt
  <2>3. \A j \in 1..k : \E i \in DOMAIN held : held[i].name = mentions[j].name
    BY <1>1, <1>2, <1>3
  <2>4. \A j \in 1..k :
          FirstAt(mentions, j) => \E i \in DOMAIN held : held[i] = mentions[j]
    BY <1>1, <1>2, <2>2
  <2>5. \A i \in DOMAIN held :
          \E j \in 1..k : FirstAt(mentions, j) /\ held[i] = mentions[j]
    BY <1>1, <1>2
  <2> QED BY <1>2, <2>1, <2>3, <2>4, <2>5 DEF HoldsFirst
<1>4. CASE ~named
  <2> DEFINE longer == Append(held, m)
             last == Len(held) + 1
  <2>1. setdefault(held, m) = longer
    BY <1>4 DEF setdefault
  <2>2. /\ longer \in Seq(Mention)
        /\ DOMAIN longer = DOMAIN held \cup {last}
        /\ \A i \in DOMAIN held : longer[i] = held[i]
        /\ longer[last] = m
    BY <1>1, <1>2, Appended
  <2>3. FirstAt(mentions, k)
    BY <1>2, <1>4 DEF FirstAt
  <2> HIDE DEF longer, last
  <2>4. ASSUME NEW j \in 1..k
        PROVE  /\ \E i \in DOMAIN longer : longer[i].name = mentions[j].name
               /\ FirstAt(mentions, j) => \E i \in DOMAIN longer : longer[i] = mentions[j]
    <3>1. CASE j = k
      BY <2>2, <3>1
    <3>2. CASE j \in 1..(k - 1)
      <4>1. PICK i \in DOMAIN held : held[i].name = mentions[j].name
        BY <1>2, <3>2
      <4>2. i \in DOMAIN longer /\ longer[i].name = mentions[j].name
        BY <2>2, <4>1
      <4>3. ASSUME FirstAt(mentions, j)
            PROVE  \E x \in DOMAIN longer : longer[x] = mentions[j]
        <5>1. PICK x \in DOMAIN held : held[x] = mentions[j]
          BY <1>2, <3>2, <4>3
        <5> QED BY <2>2, <5>1
      <4> QED BY <4>2, <4>3
    <3> QED BY <1>1, <3>1, <3>2
  <2>5. ASSUME NEW i \in DOMAIN longer
        PROVE  \E j \in 1..k : FirstAt(mentions, j) /\ longer[i] = mentions[j]
    <3>1. CASE i = last
      BY <1>1, <2>2, <2>3, <3>1
    <3>2. CASE i \in DOMAIN held
      BY <1>1, <1>2, <2>2, <3>2
    <3> QED BY <2>2, <3>1, <3>2
  <2> QED BY <2>1, <2>2, <2>4, <2>5 DEF HoldsFirst
<1> QED BY <1>3, <1>4

(* An adapter keeps the first mention of every name, and nothing else.     *)
LEMMA FirstMentionsKept ==
  ASSUME NEW r \in Responses
  PROVE  /\ ExtractionFields(r) \in Seq(Mention)
         /\ \A m : m \in FirstMentions(r) <=>
              \E i \in DOMAIN ExtractionFields(r) : m = ExtractionFields(r)[i]
<1> DEFINE mentions == Mentions(r)
           n == Len(mentions)
<1>1. /\ mentions \in Seq(Mention) /\ n \in Nat /\ DOMAIN mentions = 1..n
      /\ mentions \in [1..n -> Mention]
  BY PageMergeAssumption
<1>2. PICK chain :
        /\ chain[0] = << >>
        /\ \A k \in 1..n : chain[k] = setdefault(chain[k - 1], mentions[k])
        /\ ExtractionFields(r) = chain[n]
  BY <1>1, ExtractionChain
<1>3. \A m : m \in FirstMentions(r) <=>
               \E j \in 1..n : FirstAt(mentions, j) /\ m = mentions[j]
  BY <1>1 DEF FirstMentions, FirstAt
<1> DEFINE holds == {k \in 0..n : HoldsFirst(chain[k], mentions, k)}
<1> HIDE DEF mentions, n
<1>4. 0 \in holds
  <2>1. << >> \in Seq(Mention) /\ DOMAIN << >> = {} /\ 1..0 = {} /\ 0 \in 0..n
    BY <1>1
  <2>2. HoldsFirst(<< >>, mentions, 0)
    BY <2>1 DEF HoldsFirst
  <2> QED BY <1>2, <2>1, <2>2
<1>5. ASSUME NEW k \in 1..n, k - 1 \in holds
      PROVE  k \in holds
  <2>1. HoldsFirst(setdefault(chain[k - 1], mentions[k]), mentions, k)
    BY <1>1, <1>5, SetdefaultHolds
  <2> QED BY <1>1, <1>2, <2>1
<1> HIDE DEF holds
<1>6. \A k \in 0..n : k \in holds
  BY <1>1, <1>4, <1>5, StepInduction
<1>7. HoldsFirst(ExtractionFields(r), mentions, n)
  BY <1>1, <1>2, <1>6 DEF holds
<1> DEFINE kept == ExtractionFields(r)
<1>8. /\ kept \in Seq(Mention)
      /\ \A j \in 1..n :
           FirstAt(mentions, j) => \E i \in DOMAIN kept : kept[i] = mentions[j]
      /\ \A i \in DOMAIN kept :
           \E j \in 1..n : FirstAt(mentions, j) /\ kept[i] = mentions[j]
  BY <1>7 DEF HoldsFirst
<1> HIDE DEF kept
<1>9. \A m : m \in FirstMentions(r) <=> \E i \in DOMAIN kept : m = kept[i]
  BY <1>3, <1>8
<1> QED BY <1>8, <1>9 DEF kept

-----------------------------------------------------------------------------
(* An entry located on a page is an entry.                                 *)
LEMMA OnPageTypes ==
  ASSUME NEW p \in Page, NEW e \in Mention
  PROVE  /\ OnPage(p, e) \in Entry
         /\ OnPage(p, e).value = IF e.printed THEN p ELSE 0
         /\ OnPage(p, e).box \in {0, p} /\ OnPage(p, e).tag = OnPage(p, e).box
BY PageMergeAssumption DEF OnPage, Entry, Mention, Page

(* A reading is kept when its name has a value, from its page or an        *)
(* earlier one.                                                            *)
Kept(merged, e) ==
  \E i \in DOMAIN merged : merged[i].name = e.name /\ merged[i].value \in 1..e.value

(* One entry merged: what was kept stays, and the entry is kept if it says *)
(* anything and no later page came before it.                              *)
LEMMA MergedEntryKeeps ==
  ASSUME NEW merged \in Seq(Entry), NEW entry \in Entry
  PROVE  LET after == MergedEntry(merged, entry) IN
           /\ after \in Seq(Entry)
           /\ \A i \in DOMAIN after :
                after[i] = entry \/ \E j \in DOMAIN merged : after[i] = merged[j]
           /\ \A e : Kept(merged, e) => Kept(after, e)
           /\ (/\ entry.value # 0
               /\ \A j \in DOMAIN merged : merged[j].value <= entry.value)
                => Kept(after, entry)
<1> DEFINE after == MergedEntry(merged, entry)
           named == \E i \in DOMAIN merged : merged[i].name = entry.name
<1>0. /\ \A i \in DOMAIN merged : merged[i] \in Entry /\ merged[i].value \in Nat
      /\ entry.value \in Nat
  <2>1. \A e \in Entry : e.value \in Nat
    BY PageMergeAssumption DEF Entry, Page
  <2> QED BY <2>1
<1>1. CASE named
  <2>1. after = [i \in DOMAIN merged |->
                   IF merged[i].name = entry.name /\ merged[i].value = 0
                   THEN entry ELSE merged[i]]
    BY <1>1 DEF MergedEntry
  <2>2. after \in Seq(Entry) /\ DOMAIN after = DOMAIN merged
    <3>1. after \in [1..Len(merged) -> Entry] /\ Len(merged) \in Nat
      BY <1>0, <2>1
    <3> HIDE DEF after
    <3> QED BY <3>1
  <2>3. ASSUME NEW e, Kept(merged, e)
        PROVE  Kept(after, e)
    <3>1. PICK i \in DOMAIN merged :
                 merged[i].name = e.name /\ merged[i].value \in 1..e.value
      BY <2>3 DEF Kept
    <3>2. merged[i].value # 0
      BY <3>1
    <3>3. after[i] = merged[i] /\ i \in DOMAIN after
      BY <2>1, <2>2, <3>2
    <3> QED BY <3>1, <3>3 DEF Kept
  <2>4. ASSUME entry.value # 0,
               \A j \in DOMAIN merged : merged[j].value <= entry.value
        PROVE  Kept(after, entry)
    <3>1. PICK i \in DOMAIN merged : merged[i].name = entry.name
      BY <1>1
    <3>2. i \in DOMAIN after /\ after[i].name = entry.name
          /\ after[i].value \in 1..entry.value
      BY <1>0, <2>1, <2>2, <2>4, <3>1
    <3> HIDE DEF after
    <3> QED BY <3>2 DEF Kept
  <2> QED BY <2>1, <2>2, <2>3, <2>4
<1>2. CASE ~named
  <2> DEFINE last == Len(merged) + 1
  <2>1. after = Append(merged, entry)
    BY <1>2 DEF MergedEntry
  <2>2. /\ after \in Seq(Entry)
        /\ DOMAIN after = DOMAIN merged \cup {last}
        /\ \A i \in DOMAIN merged : after[i] = merged[i]
        /\ after[last] = entry
    BY <2>1
  <2> HIDE DEF after, last
  <2>3. \A e : Kept(merged, e) => Kept(after, e)
    BY <2>2 DEF Kept
  <2>4. entry.value # 0 => Kept(after, entry)
    <3>1. entry.value # 0 => entry.value \in 1..entry.value
      BY <1>0
    <3> QED BY <2>2, <3>1 DEF Kept
  <2> QED BY <2>2, <2>3, <2>4 DEF after
<1> QED BY <1>1, <1>2

(* Entry by entry, a page is merged into the pages before it.              *)
LEMMA MergedPageChain ==
  ASSUME NEW p \in Page, NEW merged \in Seq(Entry), NEW entries \in Seq(Mention)
  PROVE  \E chain :
           /\ chain[0] = merged
           /\ \A k \in 1..Len(entries) :
                chain[k] = MergedEntry(chain[k - 1], OnPage(p, entries[k]))
           /\ MergedPage(merged, p, entries) = chain[Len(entries)]
<1> DEFINE n == Len(entries)
           op == [x \in Seq(Entry) \X Mention |-> MergedEntry(x[1], OnPage(p, x[2]))]
           Is(F) == F = [s \in SUBSET DOMAIN entries |->
                           IF s = {} THEN merged
                           ELSE MergedEntry(F[s \ {Max(s)}], OnPage(p, entries[Max(s)]))]
           F == CHOOSE G : Is(G)
           chain == [k \in 0..n |-> F[1..k]]
<1>1. n \in Nat /\ DOMAIN entries = 1..n /\ entries \in [1..n -> Mention]
  OBVIOUS
<1>2. op \in [Seq(Entry) \X Mention -> Seq(Entry)]
  <2>1. ASSUME NEW x \in Seq(Entry) \X Mention
        PROVE  MergedEntry(x[1], OnPage(p, x[2])) \in Seq(Entry)
    BY OnPageTypes, MergedEntryKeeps
  <2> QED BY <2>1
<1>3. PICK G \in [SUBSET (1..n) -> Seq(Entry)] :
             Folding(op, merged, entries, 1..n, G)
  <2> HIDE DEF op, n
  <2> QED BY <1>1, <1>2, FoldExists
<1>4. Is(G)
  <2>1. ASSUME NEW s \in SUBSET (1..n), s # {}
        PROVE  op[<<G[s \ {Max(s)}], entries[Max(s)]>>]
                 = MergedEntry(G[s \ {Max(s)}], OnPage(p, entries[Max(s)]))
    <3>1. PICK q \in s : \A y \in s : y <= q
      <4> HIDE DEF n
      <4> QED BY <1>1, <2>1, LastPosition
    <3>2. Max(s) \in s
      BY <1>1, <3>1 DEF Max
    <3>3. G[s \ {Max(s)}] \in Seq(Entry) /\ entries[Max(s)] \in Mention
      BY <1>1, <3>2
    <3> QED BY <3>3
  <2> HIDE DEF op
  <2> QED BY <1>1, <1>3, <2>1 DEF Folding
<1>5. Is(F)
  BY <1>4
<1>6. MergedPage(merged, p, entries) = F[DOMAIN entries]
  BY DEF MergedPage, FoldLeft, MapThenFoldSet
<1> HIDE DEF F, n
<1>7. F[1..0] = merged
  <2>1. 1..0 = {} /\ {} \in SUBSET (1..n)
    OBVIOUS
  <2> QED BY <1>1, <1>5, <2>1
<1>8. ASSUME NEW k \in 1..n
      PROVE  F[1..k] = MergedEntry(F[1..(k - 1)], OnPage(p, entries[k]))
  <2>1. /\ 1..k \in SUBSET (1..n) /\ 1..k # {}
        /\ Max(1..k) = k
        /\ (1..k) \ {k} = 1..(k - 1)
    BY <1>1, Prefix
  <2> QED BY <1>1, <1>5, <2>1
<1>9. /\ chain[0] = merged
      /\ \A k \in 1..n : chain[k] = MergedEntry(chain[k - 1], OnPage(p, entries[k]))
      /\ MergedPage(merged, p, entries) = chain[n]
  BY <1>1, <1>6, <1>7, <1>8
<1> QED BY <1>9 DEF n

(* What the merge of a page has done when some of its entries are merged:  *)
(* the result holds entries of the pages before and of the page, what was  *)
(* kept before is kept, and what the page prints is kept.                  *)
MergedSoFar(merged, p, entries, k, after) ==
  /\ after \in Seq(Entry)
  /\ \A i \in DOMAIN after :
       \/ \E j \in DOMAIN merged : after[i] = merged[j]
       \/ \E j \in 1..k : after[i] = OnPage(p, entries[j])
  /\ \A e : Kept(merged, e) => Kept(after, e)
  /\ \A j \in 1..k : entries[j].printed => Kept(after, OnPage(p, entries[j]))

(* One entry of a page more.                                               *)
LEMMA EntryMerged ==
  ASSUME NEW p \in Page, NEW merged \in Seq(Entry), NEW entries \in Seq(Mention),
         \A i \in DOMAIN merged : merged[i].value <= p,
         NEW k \in 1..Len(entries), NEW before,
         MergedSoFar(merged, p, entries, k - 1, before)
  PROVE  MergedSoFar(merged, p, entries, k, MergedEntry(before, OnPage(p, entries[k])))
<1> DEFINE entry == OnPage(p, entries[k])
           after == MergedEntry(before, entry)
<1>1. /\ 1..k = (1..(k - 1)) \cup {k} /\ p \in Nat \ {0}
      /\ \A j \in 1..k : entries[j] \in Mention
  BY PageMergeAssumption DEF Page
<1>2. /\ before \in Seq(Entry)
      /\ \A i \in DOMAIN before :
           \/ \E j \in DOMAIN merged : before[i] = merged[j]
           \/ \E j \in 1..(k - 1) : before[i] = OnPage(p, entries[j])
      /\ \A e : Kept(merged, e) => Kept(before, e)
      /\ \A j \in 1..(k - 1) : entries[j].printed => Kept(before, OnPage(p, entries[j]))
  BY DEF MergedSoFar
<1>3. \A j \in 1..k : /\ OnPage(p, entries[j]) \in Entry
                      /\ OnPage(p, entries[j]).value = IF entries[j].printed THEN p ELSE 0
  BY <1>1, OnPageTypes
<1>4. \A i \in DOMAIN before : before[i].value <= p
  BY <1>1, <1>2, <1>3
<1>5. entry \in Entry /\ (entries[k].printed => entry.value = p)
  BY <1>3
<1> HIDE DEF entry
<1>6. /\ after \in Seq(Entry)
      /\ \A i \in DOMAIN after :
           after[i] = entry \/ \E j \in DOMAIN before : after[i] = before[j]
      /\ \A e : Kept(before, e) => Kept(after, e)
      /\ (/\ entry.value # 0
          /\ \A j \in DOMAIN before : before[j].value <= entry.value)
           => Kept(after, entry)
  BY <1>2, <1>5, MergedEntryKeeps
<1> HIDE DEF after
<1>7. ASSUME NEW i \in DOMAIN after
      PROVE  \/ \E j \in DOMAIN merged : after[i] = merged[j]
             \/ \E j \in 1..k : after[i] = OnPage(p, entries[j])
  <2>1. CASE after[i] = entry
    BY <1>1, <2>1 DEF entry
  <2>2. CASE \E j \in DOMAIN before : after[i] = before[j]
    BY <1>1, <1>2, <2>2
  <2> QED BY <1>6, <2>1, <2>2
<1>8. ASSUME NEW j \in 1..k, entries[j].printed
      PROVE  Kept(after, OnPage(p, entries[j]))
  <2>1. CASE j = k
    <3>1. Kept(after, entry)
      BY <1>1, <1>4, <1>5, <1>6, <1>8, <2>1
    <3> QED BY <2>1, <3>1 DEF entry
  <2>2. CASE j \in 1..(k - 1)
    BY <1>2, <1>6, <1>8, <2>2
  <2> QED BY <1>1, <2>1, <2>2
<1> QED BY <1>2, <1>6, <1>7, <1>8 DEF MergedSoFar, after, entry

(* A page merged.                                                          *)
LEMMA MergedPageKeeps ==
  ASSUME NEW p \in Page, NEW merged \in Seq(Entry), NEW entries \in Seq(Mention),
         \A i \in DOMAIN merged : merged[i].value <= p
  PROVE  MergedSoFar(merged, p, entries, Len(entries), MergedPage(merged, p, entries))
<1> DEFINE n == Len(entries)
<1>1. n \in Nat
  OBVIOUS
<1>2. PICK chain :
        /\ chain[0] = merged
        /\ \A k \in 1..n : chain[k] = MergedEntry(chain[k - 1], OnPage(p, entries[k]))
        /\ MergedPage(merged, p, entries) = chain[n]
  BY MergedPageChain
<1> DEFINE holds == {k \in 0..n : MergedSoFar(merged, p, entries, k, chain[k])}
<1>3. 0 \in holds
  <2>1. 1..0 = {} /\ 0 \in 0..n
    BY <1>1
  <2>2. MergedSoFar(merged, p, entries, 0, merged)
    BY <2>1 DEF MergedSoFar
  <2> QED BY <1>2, <2>1, <2>2
<1>4. ASSUME NEW k \in 1..n, k - 1 \in holds
      PROVE  k \in holds
  <2>1. MergedSoFar(merged, p, entries, k, MergedEntry(chain[k - 1], OnPage(p, entries[k])))
    BY <1>4, EntryMerged
  <2> QED BY <1>1, <1>2, <2>1
<1> HIDE DEF holds
<1>5. \A k \in 0..n : k \in holds
  BY <1>1, <1>3, <1>4, StepInduction
<1> QED BY <1>1, <1>2, <1>5 DEF holds

-----------------------------------------------------------------------------
(* The pages are read in order, and what they said of the fields is merged *)
(* in that order.                                                          *)
PagesInOrder ==
  /\ phase = "extract" => page <= page_count
  /\ branch = "doc_intel" => \A i \in DOMAIN fields : fields[i].value < page

(* Nothing is made up, and nothing printed is dropped.                     *)
NothingMadeUp == \A i \in DOMAIN fields : fields[i] \in seen

ReadingsKept == \A e \in seen : e.value # 0 => Kept(fields, e)

(* A box has a page of the document, its own unless one call read them all.*)
BoxesTagged ==
  \A i \in DOMAIN fields :
    fields[i].box # 0 =>
      /\ fields[i].tag \in 1..page_count
      /\ branch = "doc_intel" => fields[i].tag = fields[i].box

(* The dictionaries of the schema, and the crops taken by them.            *)
MappedFrom ==
  phase = "retry" =>
    \A f \in Fields :
      /\ f \in DOMAIN data <=> Positions(f) # {}
      /\ f \in DOMAIN data => data[f] = fields[ValuePosition(f)]
      /\ f \in DOMAIN boxes <=> Located(f) # {}
      /\ f \in DOMAIN boxes =>
           /\ boxes[f] = fields[FirstOf(Located(f))]
           /\ f \in DOMAIN box_pages
           /\ box_pages[f] = PageByField(f)

CropsFrom ==
  \A f \in DOMAIN crops :
    /\ phase = "retry" /\ f \in DOMAIN boxes
    /\ crops[f] = PageAt(box_pages[f])

IInv == /\ TypeOK /\ PagesInOrder /\ NothingMadeUp /\ ReadingsKept
        /\ BoxesTagged /\ MappedFrom /\ CropsFrom

(* FirstOf is the first of some positions.                                 *)
LEMMA FirstOfIs ==
  ASSUME NEW S, S \subseteq Nat, S # {}
  PROVE  FirstOf(S) \in S /\ \A j \in S : FirstOf(S) <= j
BY FirstPosition DEF FirstOf

(* Where the value and the box of a canonical field come from.             *)
LEMMA PositionsOf ==
  ASSUME fields \in Seq(Entry), NEW f
  PROVE  /\ Positions(f) \subseteq DOMAIN fields
         /\ \A i \in Positions(f) : fields[i] \in Entry /\ AliasLookup[fields[i].name] = f
         /\ Positions(f) # {} =>
              /\ ValuePosition(f) \in Positions(f)
              /\ fields[ValuePosition(f)].value # 0
                   <=> \E i \in Positions(f) : fields[i].value # 0
         /\ Located(f) # {} =>
              /\ FirstOf(Located(f)) \in Positions(f)
              /\ fields[FirstOf(Located(f))].box # 0
<1> DEFINE n == Len(fields)
           filled == {i \in Positions(f) : fields[i].value # 0}
<1>1. /\ n \in Nat /\ DOMAIN fields = 1..n
      /\ \A i \in DOMAIN fields : fields[i] \in Entry
  OBVIOUS
<1>2. /\ Positions(f) \subseteq 1..n /\ Positions(f) \subseteq Nat
      /\ \A i \in Positions(f) : AliasLookup[fields[i].name] = f
  BY <1>1 DEF Positions
<1>3. ASSUME Positions(f) # {}
      PROVE  /\ ValuePosition(f) \in Positions(f)
             /\ fields[ValuePosition(f)].value # 0 <=> filled # {}
  <2>1. CASE filled # {}
    <3>1. ValuePosition(f) = FirstOf(filled)
      BY <2>1 DEF ValuePosition
    <3>2. FirstOf(filled) \in filled
      <4>1. filled \subseteq Nat
        BY <1>2
      <4> HIDE DEF filled
      <4> QED BY <2>1, <4>1, FirstOfIs
    <3> QED BY <2>1, <3>1, <3>2
  <2>2. CASE filled = {}
    <3>1. ValuePosition(f) = CHOOSE i \in Positions(f) : \A j \in Positions(f) : j <= i
      BY <2>2 DEF ValuePosition
    <3>2. \E i \in Positions(f) : \A j \in Positions(f) : j <= i
      BY <1>1, <1>2, <1>3, LastPosition
    <3>3. ValuePosition(f) \in Positions(f)
      BY <3>1, <3>2
    <3> QED BY <2>2, <3>3
  <2> QED BY <2>1, <2>2
<1>4. ASSUME Located(f) # {}
      PROVE  FirstOf(Located(f)) \in Located(f)
  <2>1. Located(f) \subseteq Nat
    BY <1>2 DEF Located
  <2> QED BY <1>4, <2>1, FirstOfIs
<1> QED BY <1>1, <1>2, <1>3, <1>4 DEF Located

(* The first state is one of them.                                         *)
LEMMA InitHolds == Init => IInv
<1> SUFFICES ASSUME Init PROVE IInv
  OBVIOUS
<1>1. /\ DOMAIN fields = {} /\ fields \in Seq(Entry)
      /\ DOMAIN data = {} /\ DOMAIN boxes = {} /\ DOMAIN box_pages = {}
      /\ DOMAIN crops = {}
  BY DEF Init
<1>2. TypeOK
  BY <1>1, PageMergeAssumption DEF Init, TypeOK, Page
<1>3. PagesInOrder
  BY <1>1, PageMergeAssumption DEF Init, PagesInOrder, Page
<1> QED BY <1>1, <1>2, <1>3 DEF Init, IInv, NothingMadeUp, ReadingsKept,
           BoxesTagged,
             MappedFrom, CropsFrom

(* Reading a page keeps the invariant.                                     *)
LEMMA ExtractKeeps ==
  ASSUME IInv, extract_document
  PROVE  IInv'
<1> USE DEF IInv
<1>1. PICK r \in Responses :
        /\ fields' = MergedPage(fields, page, ExtractionFields(r))
        /\ seen' = seen \cup {OnPage(page, e) : e \in FirstMentions(r)}
  BY DEF extract_document, Readings
<1> DEFINE entries == ExtractionFields(r)
           n == Len(entries)
<1>2. /\ page \in Page /\ page \in Nat \ {0} /\ page_count \in Nat /\ page <= page_count
      /\ branch = "doc_intel" /\ phase = "extract"
  BY PageMergeAssumption DEF extract_document, TypeOK, PagesInOrder, Page
<1>3. /\ entries \in Seq(Mention) /\ n \in Nat /\ DOMAIN entries = 1..n
      /\ \A m : m \in FirstMentions(r) <=> \E i \in DOMAIN entries : m = entries[i]
  BY FirstMentionsKept
<1> HIDE DEF entries, n
<1>4. fields \in Seq(Entry) /\ \A i \in DOMAIN fields : fields[i] \in Entry
  BY DEF TypeOK
<1>5. \A e \in Entry : e.value \in Nat
  BY PageMergeAssumption DEF Entry, Page
<1>6. \A i \in DOMAIN fields : fields[i].value <= page
  BY <1>2, <1>4, <1>5 DEF PagesInOrder
<1>7. MergedSoFar(fields, page, entries, n, fields')
  BY <1>1, <1>2, <1>3, <1>4, <1>6, MergedPageKeeps DEF entries, n
<1>8. /\ fields' \in Seq(Entry)
      /\ \A i \in DOMAIN fields' :
           \/ \E j \in DOMAIN fields : fields'[i] = fields[j]
           \/ \E j \in 1..n : fields'[i] = OnPage(page, entries[j])
      /\ \A e : Kept(fields, e) => Kept(fields', e)
      /\ \A j \in 1..n : entries[j].printed => Kept(fields', OnPage(page, entries[j]))
  BY <1>7 DEF MergedSoFar
<1>9. \A j \in 1..n :
        LET e == OnPage(page, entries[j]) IN
          /\ e \in Entry /\ e \in seen' /\ e.box \in {0, page} /\ e.tag = e.box
          /\ e.value = IF entries[j].printed THEN page ELSE 0
  <2>1. ASSUME NEW j \in 1..n
        PROVE  entries[j] \in Mention /\ entries[j] \in FirstMentions(r)
    BY <1>3
  <2> QED BY <1>1, <1>2, <2>1, OnPageTypes
<1>10. /\ page' = page + 1 /\ phase' \in {"extract", "failed", "map"}
       /\ phase' = "extract" => page < page_count
       /\ UNCHANGED <<branch, page_count, data, boxes, box_pages, crops, failures>>
  BY <1>2 DEF extract_document, PageDone
<1>11. \A e \in seen' : e \in seen \/ \E j \in 1..n : e = OnPage(page, entries[j])
  BY <1>1, <1>3
<1>12. TypeOK'
  <2>1. seen' \subseteq Entry
    BY <1>9, <1>11 DEF TypeOK
  <2> QED BY <1>2, <1>8, <1>10, <2>1 DEF TypeOK, Page
<1>13. PagesInOrder'
  <2>1. ASSUME NEW i \in DOMAIN fields'
        PROVE  fields'[i].value < page + 1
    <3>1. CASE \E j \in DOMAIN fields : fields'[i] = fields[j]
      BY <1>2, <1>4, <1>5, <1>6, <3>1
    <3>2. CASE \E j \in 1..n : fields'[i] = OnPage(page, entries[j])
      BY <1>2, <1>9, <3>2
    <3> QED BY <1>8, <3>1, <3>2
  <2> QED BY <1>2, <1>10, <2>1 DEF PagesInOrder
<1>14. NothingMadeUp'
  BY <1>1, <1>8, <1>9 DEF NothingMadeUp
<1>15. ReadingsKept'
  <2>1. ASSUME NEW e \in seen', e.value # 0
        PROVE  Kept(fields', e)
    <3>1. CASE e \in seen
      BY <1>8, <2>1, <3>1 DEF ReadingsKept
    <3>2. CASE \E j \in 1..n : e = OnPage(page, entries[j])
      BY <1>8, <1>9, <2>1, <3>2
    <3> QED BY <1>11, <3>1, <3>2
  <2>2. (\A e \in seen : e.value # 0 => Kept(fields, e))'
    BY <2>1 DEF Kept
  <2> QED BY <2>2 DEF ReadingsKept
<1>16. BoxesTagged'
  <2>1. ASSUME NEW i \in DOMAIN fields', fields'[i].box # 0
        PROVE  fields'[i].tag \in 1..page_count /\ fields'[i].tag = fields'[i].box
    <3>1. CASE \E j \in DOMAIN fields : fields'[i] = fields[j]
      BY <1>2, <2>1, <3>1 DEF BoxesTagged
    <3>2. CASE \E j \in 1..n : fields'[i] = OnPage(page, entries[j])
      BY <1>2, <1>9, <2>1, <3>2
    <3> QED BY <1>8, <3>1, <3>2
  <2> QED BY <1>10, <2>1 DEF BoxesTagged
<1>17. MappedFrom'
  BY <1>10 DEF MappedFrom
<1>18. CropsFrom'
  BY <1>2, <1>10 DEF CropsFrom
<1> QED BY <1>12, <1>13, <1>14, <1>15, <1>16, <1>17, <1>18

(* So does the single call.                                                *)
LEMMA CallKeeps ==
  ASSUME IInv, analyze_document_pages
  PROVE  IInv'
<1> USE DEF IInv
<1>1. /\ page_count \in Page /\ page_count \in Nat \ {0} /\ page_count <= MaxPages
      /\ MaxPages \in Nat
      /\ phase = "extract" /\ branch = "vlm_grounding"
      /\ page' = page_count + 1 /\ phase' \in {"map", "failed"}
      /\ failures' \in {failures, 1..page_count}
      /\ UNCHANGED <<branch, page_count, data, boxes, box_pages, crops>>
  BY PageMergeAssumption DEF analyze_document_pages, TypeOK, Page
<1>2. CASE \E reading \in CallReadings : fields' = reading /\ seen' = Range(reading)
  <2>1. PICK n \in Nat : fields' \in [1..n -> CallEntries] /\ seen' = Range(fields')
    BY <1>2 DEF CallReadings
  <2>2. \A e \in CallEntries :
          e \in Entry /\ e.value \in Nat /\ (e.box # 0 => e.tag = 1)
    BY PageMergeAssumption DEF CallEntries, Entry, Page
  <2>3. /\ fields' \in Seq(Entry) /\ DOMAIN fields' = 1..n
        /\ \A i \in DOMAIN fields' : fields'[i] \in CallEntries /\ fields'[i] \in seen'
        /\ \A e \in seen' : \E i \in DOMAIN fields' : e = fields'[i]
    BY <2>1, <2>2 DEF Range
  <2>4. TypeOK'
    <3>1. seen' \subseteq Entry
      BY <2>2, <2>3
    <3> QED BY <1>1, <2>3, <3>1 DEF TypeOK, Page
  <2>5. ReadingsKept'
    <3>1. ASSUME NEW e \in seen', e.value # 0
          PROVE  Kept(fields', e)
      <4>1. PICK i \in DOMAIN fields' : e = fields'[i]
        BY <2>3
      <4>2. e.value \in Nat
        BY <2>2, <2>3, <4>1
      <4> QED BY <3>1, <4>1, <4>2 DEF Kept
    <3>2. (\A e \in seen : e.value # 0 => Kept(fields, e))'
      BY <3>1 DEF Kept
    <3> QED BY <3>2 DEF ReadingsKept
  <2>6. BoxesTagged'
    BY <1>1, <2>2, <2>3 DEF BoxesTagged
  <2>7. PagesInOrder' /\ NothingMadeUp' /\ MappedFrom' /\ CropsFrom'
    BY <1>1, <2>3 DEF PagesInOrder, NothingMadeUp, MappedFrom, CropsFrom
  <2> QED BY <2>4, <2>5, <2>6, <2>7
<1>3. CASE UNCHANGED <<fields, seen>>
  <2>1. TypeOK'
    BY <1>1, <1>3 DEF TypeOK, Page
  <2>2. PagesInOrder' /\ NothingMadeUp' /\ ReadingsKept' /\ BoxesTagged'
    BY <1>1, <1>3 DEF PagesInOrder, NothingMadeUp, ReadingsKept, BoxesTagged, Kept
  <2>3. MappedFrom' /\ CropsFrom'
    BY <1>1 DEF MappedFrom, CropsFrom
  <2> QED BY <2>1, <2>2, <2>3
<1> QED BY <1>2, <1>3 DEF analyze_document_pages

(* So do the dictionaries of the schema.                                   *)
LEMMA MappingKeeps ==
  ASSUME IInv, from_extraction
  PROVE  IInv'
<1> USE DEF IInv
<1>1. fields \in Seq(Entry) /\ page_count \in Page /\ \A p \in 1..page_count : p \in Page
  BY PageMergeAssumption DEF TypeOK, Page
<1>2. /\ phase = "map" /\ phase' = "retry"
      /\ UNCHANGED <<branch, page_count, page, fields, failures, seen, crops>>
      /\ data' = [f \in {g \in Fields : Positions(g) # {}} |-> fields[ValuePosition(f)]]
      /\ boxes' = [f \in {g \in Fields : Located(g) # {}} |-> fields[FirstOf(Located(f))]]
      /\ box_pages' =
           [k \in {f \in Fields : Located(f) # {}}
                  \cup {fields[i].name : i \in Located(Unmapped)} |->
              IF k \in Fields THEN PageByField(k)
              ELSE fields[FirstOf({i \in Located(Unmapped) : fields[i].name = k})].tag]
  BY DEF from_extraction
<1>3. \A f : /\ Positions(f)' = Positions(f) /\ Located(f)' = Located(f)
             /\ ValuePosition(f)' = ValuePosition(f) /\ PageByField(f)' = PageByField(f)
  BY <1>2 DEF Positions, Located, ValuePosition, PageByField, FirstOf
<1>4. \A f : FirstOf(Located(f))' = FirstOf(Located(f))
  BY <1>3 DEF FirstOf
<1>5. ASSUME NEW i \in DOMAIN fields
      PROVE  /\ fields[i] \in Entry /\ fields[i].name \in Names
             /\ fields[i].box # 0 => fields[i].tag \in Page
  <2>1. fields[i] \in Entry
    BY <1>1
  <2> QED BY <1>1, <2>1 DEF Entry, BoxesTagged
<1>6. \A f \in DOMAIN data' : f \in Fields /\ data'[f] \in Entry
  BY <1>1, <1>2, <1>5, PositionsOf
<1>7. \A f \in DOMAIN boxes' : f \in Fields /\ boxes'[f] \in Entry
  BY <1>1, <1>2, <1>5, PositionsOf
<1>8. ASSUME NEW k \in DOMAIN box_pages'
      PROVE  k \in Fields \cup Names /\ box_pages'[k] \in Page
  <2>1. CASE k \in Fields /\ Located(k) # {}
    <3>1. FirstOf(Located(k)) \in DOMAIN fields /\ fields[FirstOf(Located(k))].box # 0
      BY <1>1, <2>1, PositionsOf
    <3> QED BY <1>2, <1>5, <2>1, <3>1 DEF PageByField
  <2>2. CASE k \in {fields[i].name : i \in Located(Unmapped)}
    <3>1. PICK i \in Located(Unmapped) : fields[i].name = k
      BY <2>2
    <3>2. i \in DOMAIN fields /\ fields[i].box # 0 /\ AliasLookup[k] = Unmapped
      BY <3>1 DEF Located, Positions
    <3>3. k \in Names /\ k \notin Fields
      BY <1>5, <3>1, <3>2, PageMergeAssumption
    <3>4. box_pages'[k] \in Page
      <4> DEFINE named == {j \in Located(Unmapped) : fields[j].name = k}
      <4>1. named \subseteq DOMAIN fields /\ named # {} /\ named \subseteq Nat
        BY <1>1, <3>1 DEF Located, Positions
      <4>2. FirstOf(named) \in named
        <5> HIDE DEF named
        <5> QED BY <4>1, FirstOfIs
      <4>3. fields[FirstOf(named)].box # 0
        BY <4>2 DEF Located
      <4>4. box_pages'[k] = fields[FirstOf(named)].tag
        BY <1>2, <3>3
      <4> QED BY <1>5, <4>1, <4>2, <4>3, <4>4
    <3> QED BY <3>3, <3>4
  <2> QED BY <1>2, <2>1, <2>2
<1>9. TypeOK'
  BY <1>2, <1>6, <1>7, <1>8 DEF TypeOK
<1>10. PagesInOrder' /\ NothingMadeUp' /\ ReadingsKept' /\ BoxesTagged'
  BY <1>2 DEF PagesInOrder, NothingMadeUp, ReadingsKept, BoxesTagged, Kept
<1>11. MappedFrom'
  <2>1. ASSUME NEW f \in Fields
        PROVE  /\ f \in DOMAIN data' <=> Positions(f) # {}
               /\ f \in DOMAIN data' => data'[f] = fields[ValuePosition(f)]
               /\ f \in DOMAIN boxes' <=> Located(f) # {}
               /\ f \in DOMAIN boxes' =>
                    /\ boxes'[f] = fields[FirstOf(Located(f))]
                    /\ f \in DOMAIN box_pages'
                    /\ box_pages'[f] = PageByField(f)
    BY <1>2
  <2> QED BY <1>2, <1>3, <1>4, <2>1 DEF MappedFrom
<1>12. CropsFrom'
  BY <1>2 DEF CropsFrom
<1> QED BY <1>9, <1>10, <1>11, <1>12

(* So does a field that is read again.                                     *)
LEMMA RetryKeeps ==
  ASSUME IInv, NEW f \in Fields, vlm_retry(f)
  PROVE  IInv'
<1> USE DEF IInv
<1>1. /\ phase = "retry" /\ f \in DOMAIN boxes
      /\ UNCHANGED <<phase, branch, page_count, page, fields, failures, seen,
                     data, boxes, box_pages>>
      /\ crops' = [g \in DOMAIN crops \cup {f} |->
                     IF g = f THEN PageAt(box_pages[f]) ELSE crops[g]]
  BY DEF vlm_retry
<1>2. TypeOK'
  <2>1. PageAt(box_pages[f]) \in Page
    BY PageMergeAssumption DEF PageAt, TypeOK, Page
  <2> QED BY <1>1, <2>1 DEF TypeOK
<1>3. PagesInOrder' /\ NothingMadeUp' /\ ReadingsKept' /\ BoxesTagged'
  BY <1>1 DEF PagesInOrder, NothingMadeUp, ReadingsKept, BoxesTagged, Kept
<1>4. MappedFrom'
  <2>1. \A g : /\ Positions(g)' = Positions(g) /\ Located(g)' = Located(g)
               /\ ValuePosition(g)' = ValuePosition(g)
               /\ PageByField(g)' = PageByField(g)
    BY <1>1 DEF Positions, Located, ValuePosition, PageByField, FirstOf
  <2>2. \A g : FirstOf(Located(g))' = FirstOf(Located(g))
    BY <2>1 DEF FirstOf
  <2> QED BY <1>1, <2>1, <2>2 DEF MappedFrom
<1>5. CropsFrom'
  <2>1. \A p : PageAt(p)' = PageAt(p)
    BY <1>1 DEF PageAt
  <2> QED BY <1>1, <2>1 DEF CropsFrom
<1> QED BY <1>2, <1>3, <1>4, <1>5

(* The invariant is inductive.                                             *)
LEMMA NextKeeps == IInv /\ [Next]_vars => IInv'
<1> SUFFICES ASSUME IInv, [Next]_vars PROVE IInv'
  OBVIOUS
<1>1. CASE extract_document
  BY <1>1, ExtractKeeps
<1>2. CASE extract_document_fails
  <2> USE DEF IInv
  <2>1. /\ phase = "extract" /\ branch = "doc_intel" /\ page \in Page
        /\ page \in Nat /\ page_count \in Nat /\ page <= page_count
        /\ page' = page + 1 /\ phase' \in {"extract", "failed", "map"}
        /\ phase' = "extract" => page < page_count
        /\ failures' = failures \cup {page}
        /\ UNCHANGED <<branch, page_count, fields, seen, data, boxes, box_pages, crops>>
    BY <1>2, PageMergeAssumption DEF extract_document_fails, PageDone, TypeOK,
       PagesInOrder, Page
  <2>2. TypeOK'
    BY <2>1 DEF TypeOK
  <2>3. PagesInOrder'
    <3>1. ASSUME NEW i \in DOMAIN fields
          PROVE  fields[i].value \in Nat
      <4>1. fields[i] \in Entry
        BY DEF TypeOK
      <4> QED BY <4>1, PageMergeAssumption DEF Entry, Page
    <3> QED BY <2>1, <3>1 DEF PagesInOrder
  <2>4. NothingMadeUp' /\ ReadingsKept' /\ BoxesTagged'
    BY <2>1 DEF NothingMadeUp, ReadingsKept, BoxesTagged, Kept
  <2>5. MappedFrom' /\ CropsFrom'
    BY <2>1 DEF MappedFrom, CropsFrom
  <2> QED BY <2>2, <2>3, <2>4, <2>5
<1>3. CASE analyze_document_pages
  BY <1>3, CallKeeps
<1>4. CASE from_extraction
  BY <1>4, MappingKeeps
<1>5. CASE from_extraction_fails
  BY <1>5 DEF from_extraction_fails, IInv, TypeOK, PagesInOrder, NothingMadeUp,
     ReadingsKept, Kept, BoxesTagged, MappedFrom, CropsFrom
<1>6. CASE \E f \in Fields : vlm_retry(f)
  BY <1>6, RetryKeeps
<1>7. CASE UNCHANGED vars
  <2>1. \A g : /\ Positions(g)' = Positions(g) /\ Located(g)' = Located(g)
               /\ ValuePosition(g)' = ValuePosition(g)
               /\ PageByField(g)' = PageByField(g) /\ PageAt(g)' = PageAt(g)
    BY <1>7 DEF vars, Positions, Located, ValuePosition, PageByField, PageAt,
       FirstOf
  <2>2. \A g : FirstOf(Located(g))' = FirstOf(Located(g))
    BY <2>1 DEF FirstOf
  <2>3. (TypeOK /\ PagesInOrder /\ NothingMadeUp /\ ReadingsKept /\ BoxesTagged)'
    BY <1>7 DEF vars, IInv, TypeOK, PagesInOrder, NothingMadeUp, ReadingsKept, Kept,
       BoxesTagged
  <2>4. MappedFrom' /\ CropsFrom'
    BY <1>7, <2>1, <2>2 DEF vars, IInv, MappedFrom, CropsFrom
  <2> QED BY <2>3, <2>4 DEF IInv
<1> QED BY <1>1, <1>2, <1>3, <1>4, <1>5, <1>6, <1>7 DEF Next

(* So it holds of every reachable state.                                   *)
LEMMA InvariantHolds == Spec => []IInv
BY InitHolds, NextKeeps, PTL DEF Spec

(* Type correctness: TypeOK of the merge and the mapping.                  *)
THEOREM TypeCorrect == Spec => []TypeOK
BY InvariantHolds, PTL DEF IInv

(* No reading is lost between provider and schema, and the earliest page   *)
(* that printed a field wins (merged_fields in extract_pages, from_        *)
(* extraction): EarliestReadingKept, for every alias table, every number   *)
(* of pages and every answer of a service, in whatever order pages fail.   *)
THEOREM EarliestReadingKeptHolds == Spec => []EarliestReadingKept
<1>1. ASSUME IInv
      PROVE  EarliestReadingKept
  <2> USE <1>1 DEF IInv
  <2>1. /\ fields \in Seq(Entry) /\ seen \subseteq Entry
        /\ \A e \in Entry : e.value \in Nat
    BY PageMergeAssumption DEF TypeOK, Entry, Page
  <2>2. ASSUME phase = "retry", NEW f \in Fields
        PROVE  (f \in DOMAIN data /\ data[f].value # 0)
                 <=> \E e \in seen : AliasLookup[e.name] = f /\ e.value # 0
    <3>1. (f \in DOMAIN data /\ data[f].value # 0)
            <=> \E i \in Positions(f) : fields[i].value # 0
      BY <2>1, <2>2, PositionsOf DEF MappedFrom
    <3>2. ASSUME NEW i \in Positions(f), fields[i].value # 0
          PROVE  \E e \in seen : AliasLookup[e.name] = f /\ e.value # 0
      BY <3>2 DEF Positions, NothingMadeUp
    <3>3. ASSUME NEW e \in seen, AliasLookup[e.name] = f, e.value # 0
          PROVE  \E i \in Positions(f) : fields[i].value # 0
      <4>1. PICK i \in DOMAIN fields :
                   fields[i].name = e.name /\ fields[i].value \in 1..e.value
        BY <3>3 DEF ReadingsKept, Kept
      <4>2. i \in Positions(f) /\ fields[i].value # 0
        BY <3>3, <4>1 DEF Positions
      <4> QED BY <4>2
    <3> QED BY <3>1, <3>2, <3>3
  <2> QED BY <2>2 DEF EarliestReadingKept, ReadingsKept, Kept
<1> QED BY <1>1, InvariantHolds, PTL

(* The page travels with the box (page_by_field, _page_at): the crop of a  *)
(* template based document shows its field, whatever aliases and pages     *)
(* named it first.                                                         *)
THEOREM CropShowsTheBoxHolds == Spec => []CropShowsTheBox
<1>1. ASSUME IInv
      PROVE  CropShowsTheBox
  <2> USE <1>1 DEF IInv
  <2>1. SUFFICES ASSUME branch = "doc_intel", NEW f \in DOMAIN crops
                 PROVE  crops[f] = boxes[f].box
    BY DEF CropShowsTheBox
  <2>2. fields \in Seq(Entry) /\ f \in Fields
    BY DEF TypeOK
  <2>3. phase = "retry" /\ f \in DOMAIN boxes /\ crops[f] = PageAt(box_pages[f])
    BY DEF CropsFrom
  <2> DEFINE q == FirstOf(Located(f))
  <2>4. q \in DOMAIN fields /\ fields[q].box # 0
    BY <2>2, <2>3, PositionsOf DEF MappedFrom
  <2>5. boxes[f] = fields[q] /\ box_pages[f] = fields[q].tag
    BY <2>2, <2>3 DEF MappedFrom, PageByField
  <2>6. fields[q].tag \in 1..page_count /\ fields[q].tag = fields[q].box
    BY <2>1, <2>4 DEF BoxesTagged
  <2> QED BY <2>3, <2>5, <2>6 DEF PageAt
<1> QED BY <1>1, InvariantHolds, PTL

-----------------------------------------------------------------------------
(* A span clamped to the page is a span of it.                             *)
LEMMA ClampedTypes ==
  ASSUME NEW start \in Int, NEW length \in Int
  PROVE  /\ Clamped(start, length) \in Span
         /\ Clamped(start, length).start = Clamp(start, PageLength)
         /\ Clamped(start, length).length =
              Clamp(length, PageLength - Clamp(start, PageLength))
BY CropGeometryAssumption DEF Clamped, Clamp, AtLeast, AtMost, Span

(* Rounding returns an integer, and never a negative pixel.                *)
LEMMA RoundType ==
  ASSUME NEW n \in Int, NEW d \in Nat \ {0}
  PROVE  /\ Round(n, d) \in Int
         /\ n >= 0 => Round(n, d) >= 0
BY DEF Round

(* The crop of any numbers has a pixel, and lies in the raster.            *)
LEMMA GuaranteedTypes ==
  ASSUME NEW first \in Nat, NEW after \in Int, NEW size \in Nat \ {0}
  PROVE  /\ Guaranteed(first, after, size) \in [first: Nat, after: Nat]
         /\ Guaranteed(first, after, size).first < Guaranteed(first, after, size).after
         /\ Guaranteed(first, after, size).after <= size
BY DEF Guaranteed, AtLeast, AtMost

(* So has the crop of a span of the page.                                  *)
LEMMA PixelsTypes ==
  ASSUME NEW span \in Span, NEW size \in Nat \ {0}
  PROVE  /\ to_pixels(span, size) \in [first: Nat, after: Nat]
         /\ to_pixels(span, size).first < to_pixels(span, size).after
         /\ to_pixels(span, size).after <= size
<1> DEFINE first == Round(span.start * size, PageLength)
           after == Round((span.start + span.length) * size, PageLength)
<1>1. span.start \in Nat /\ span.length \in Nat /\ PageLength \in Nat \ {0}
  BY CropGeometryAssumption DEF Span
<1>2. span.start * size \in Nat /\ (span.start + span.length) * size \in Nat
  BY <1>1
<1>3. first \in Nat /\ after \in Int
  BY <1>1, <1>2, RoundType
<1> HIDE DEF first, after
<1> QED BY <1>3, GuaranteedTypes DEF to_pixels, first, after

(* What is reported, clamped, is a coordinate of the page.                 *)
LEMMA ReportedTypes ==
  ASSUME CropTypeOK, NEW a \in Axes
  PROVE  /\ polygon[a].least \in Int /\ polygon[a].greatest \in Int
         /\ Extent(a) \in Int
         /\ Clamp(polygon[a].least, PageLength) \in 0..PageLength
         /\ Clamp(polygon[a].greatest, PageLength) \in 0..PageLength
<1>1. polygon[a] \in [least: Reported, greatest: Reported]
  BY DEF CropTypeOK
<1>2. polygon[a].least \in Int /\ polygon[a].greatest \in Int
  BY <1>1, CropGeometryAssumption
<1>3. ASSUME NEW v \in Int
      PROVE  Clamp(v, PageLength) \in 0..PageLength
  BY CropGeometryAssumption DEF Clamp, AtLeast, AtMost
<1> QED BY <1>2, <1>3 DEF Extent

(* What a state holds for an axis.                                         *)
LEMMA StateTypes ==
  ASSUME CropTypeOK, NEW a \in Axes
  PROVE  /\ raster[a] \in Nat \ {0}
         /\ box[a].start \in Int /\ box[a].length \in Int
<1>1. raster[a] \in Sizes /\ box[a] \in Span
  BY DEF CropTypeOK
<1>2. raster[a] \in Nat \ {0}
  BY <1>1, CropGeometryAssumption
<1>3. box[a].start \in Int /\ box[a].length \in Int
  BY <1>1 DEF Span
<1> QED BY <1>2, <1>3

(* Padding, as the code adds it, is a span again.                          *)
LEMMA PaddedTypes ==
  ASSUME NEW span \in Span
  PROVE  with_padding(span) \in Span
<1>1. span.start \in Nat /\ span.length \in Nat
  BY CropGeometryAssumption DEF Span
<1>2. Padding(span.length) \in Int
  BY <1>1, CropGeometryAssumption DEF Padding
<1> QED BY <1>1, <1>2, ClampedTypes DEF with_padding

(* A crop is magnified by a fraction.                                      *)
LEMMA FactorTypes ==
  ASSUME NEW wide \in Nat \ {0}
  PROVE  Factor(wide)[1] \in Nat \ {0} /\ Factor(wide)[2] \in Nat \ {0}
BY CropGeometryAssumption DEF Factor

-----------------------------------------------------------------------------
(* Every variable stays in its type.                                       *)
THEOREM CropTypeCorrect == CropSpec => []CropTypeOK
<1>1. CropInit => CropTypeOK
  BY CropGeometryAssumption DEF CropInit, CropTypeOK, NoSpan, Span
<1>2. ASSUME CropTypeOK, [CropNext]_cropVars
      PROVE  CropTypeOK'
  <2> USE <1>2, CropGeometryAssumption
  <2>1. ASSUME NEW b \in [Axes -> Span], Locates(b)
        PROVE  CropTypeOK'
    BY <2>1 DEF Locates, CropTypeOK
  <2>2. CASE from_polygon
    BY <2>1, <2>2, ReportedTypes, ClampedTypes DEF from_polygon
  <2>3. CASE to_bounding_box
    <3>1. \A a \in Axes : Clamp(Extent(a), PageLength) \in 0..PageLength
      BY ReportedTypes, CropGeometryAssumption DEF Clamp, AtLeast, AtMost
    <3> QED BY <2>1, ReportedTypes, <2>3, <3>1 DEF to_bounding_box, Span
  <2>4. CASE from_normalized_vertices
    <3>1. ASSUME NEW a \in Axes
          PROVE  Clamp(Clamp(polygon[a].greatest, PageLength) - Clamp(polygon[a].least, PageLength),
                       PageLength - Clamp(polygon[a].least, PageLength)) \in 0..PageLength
      BY ReportedTypes, CropGeometryAssumption DEF Clamp, AtLeast, AtMost
    <3> QED BY <2>1, ReportedTypes, <2>4, <3>1 DEF from_normalized_vertices, Span
  <2>5. CASE crop_region
    <3> DEFINE rebuilt == from_tuple(box)
    <3>1. \A a \in Axes : raster[a] \in Nat \ {0} /\ with_padding(rebuilt[a]) \in Span
      BY StateTypes, ClampedTypes, PaddedTypes DEF from_tuple
    <3> HIDE DEF rebuilt
    <3>2. CASE is_degenerate(rebuilt)
      BY <2>5, <3>2 DEF crop_region, rebuilt, CropTypeOK
    <3>3. CASE ~ is_degenerate(rebuilt)
      <4>1. /\ crop' = [a \in Axes |-> to_pixels(with_padding(rebuilt[a]), raster[a])]
            /\ stage' = "cropped"
            /\ UNCHANGED <<polygon, raster, box>>
        BY <2>5, <3>3 DEF crop_region, rebuilt
      <4>2. /\ crop' \in [Axes -> [first: Nat, after: Nat]]
            /\ \A a \in Axes : Pixels(crop'[a]) \in Nat \ {0}
        <5>1. ASSUME NEW a \in Axes
              PROVE  /\ crop'[a] \in [first: Nat, after: Nat]
                     /\ crop'[a].first < crop'[a].after
          <6>1. raster[a] \in Nat \ {0} /\ with_padding(rebuilt[a]) \in Span
            BY <3>1
          <6>2. crop'[a] = to_pixels(with_padding(rebuilt[a]), raster[a])
            BY <4>1
          <6> QED BY <6>1, <6>2, PixelsTypes
        <5>2. ASSUME NEW a \in Axes
              PROVE  Pixels(crop'[a]) \in Nat \ {0}
          BY <5>1 DEF Pixels
        <5> QED BY <4>1, <5>1, <5>2
      <4> DEFINE factor == Factor(Pixels(crop'[Width]))
      <4>3. factor[1] \in Nat \ {0} /\ factor[2] \in Nat \ {0}
        BY <4>2, FactorTypes
      <4>4. magnified' = [a \in Axes |->
                AtLeast(1, Round(Pixels(crop'[a]) * factor[1], factor[2]))]
        BY <2>5, <3>3 DEF crop_region, rebuilt
      <4> HIDE DEF factor
      <4>5. ASSUME NEW a \in Axes
            PROVE  AtLeast(1, Round(Pixels(crop'[a]) * factor[1], factor[2])) \in Nat
        <5>1. Pixels(crop'[a]) * factor[1] \in Int
          BY <4>2, <4>3
        <5>2. Round(Pixels(crop'[a]) * factor[1], factor[2]) \in Int
          BY <4>3, <5>1, RoundType
        <5> QED BY <5>2 DEF AtLeast
      <4> QED BY <4>1, <4>2, <4>4, <4>5 DEF CropTypeOK
    <3> QED BY <3>2, <3>3
  <2>6. CASE UNCHANGED cropVars
    BY <2>6 DEF cropVars, CropTypeOK
  <2> QED BY <2>2, <2>3, <2>4, <2>5, <2>6 DEF CropNext
<1> QED BY <1>1, <1>2, PTL DEF CropSpec
-----------------------------------------------------------------------------
(* A stored box starts where the field starts on the page, and has an area *)
(* along each axis in which the field has one there; a provider reports    *)
(* the least coordinate first.                                             *)
Stored ==
  /\ \A a \in Axes : polygon[a].least <= polygon[a].greatest
  /\ stage # "reported" =>
       \A a \in Axes :
         /\ box[a].start = Clamp(polygon[a].least, PageLength)
         /\ Clamp(polygon[a].least, PageLength) < Clamp(polygon[a].greatest, PageLength) =>
              box[a].length > 0

(* An axis along which a box has no area is one along which nothing of the *)
(* field is on the page.                                                   *)
LEMMA NothingThere ==
  ASSUME NEW least \in Int, NEW greatest \in Int, least <= greatest,
         NEW length \in 0..PageLength,
         Clamp(least, PageLength) < Clamp(greatest, PageLength) => length > 0,
         \/ length <= 0
         \/ Clamped(Clamp(least, PageLength), length).length <= 0
  PROVE  Clamp(least, PageLength) = Clamp(greatest, PageLength)
<1> DEFINE l == Clamp(least, PageLength)
           g == Clamp(greatest, PageLength)
<1>0. PageLength \in Nat \ {0}
  BY CropGeometryAssumption
<1>1. l \in 0..PageLength /\ g \in 0..PageLength /\ l <= g
  BY <1>0 DEF Clamp, AtLeast, AtMost
<1>2. Clamped(l, length).length = Clamp(length, PageLength - l)
  BY <1>1, CropGeometryAssumption DEF Clamped, Clamp, AtLeast, AtMost
<1>3. (l < g => length > 0) /\ (length <= 0 \/ Clamp(length, PageLength - l) <= 0)
  BY <1>2
<1> HIDE DEF l, g
<1>4. ~ (l < g)
  BY <1>1, <1>3, CropGeometryAssumption DEF Clamp, AtLeast, AtMost
<1> QED BY <1>1, <1>4 DEF l, g

(* Every constructor stores such a box.                                    *)
LEMMA StoredHolds == CropSpec => []Stored
<1>1. CropInit => Stored
  BY DEF CropInit, Stored
<1>2. ASSUME CropTypeOK, Stored, [CropNext]_cropVars
      PROVE  Stored'
  <2> USE <1>2
  <2>0. ASSUME NEW a \in Axes
        PROVE  /\ polygon[a].least \in Int /\ polygon[a].greatest \in Int
               /\ polygon[a].least <= polygon[a].greatest
               /\ PageLength \in Nat \ {0}
    BY ReportedTypes, CropGeometryAssumption DEF Stored
  <2>1. CASE from_polygon
    <3>1. ASSUME NEW a \in Axes
          PROVE  /\ box'[a].start = Clamp(polygon[a].least, PageLength)
                 /\ box'[a].length =
                      Clamp(Extent(a), PageLength - Clamp(polygon[a].least, PageLength))
      BY <2>1, ReportedTypes, ClampedTypes DEF from_polygon, Locates
    <3>2. ASSUME NEW a \in Axes,
                 Clamp(polygon[a].least, PageLength) < Clamp(polygon[a].greatest, PageLength)
          PROVE  Clamp(Extent(a), PageLength - Clamp(polygon[a].least, PageLength)) > 0
      BY <2>0, <3>2 DEF Extent, Clamp, AtLeast, AtMost
    <3> QED BY <2>1, <3>1, <3>2 DEF from_polygon, Locates, Stored
  <2>2. CASE to_bounding_box
    <3>1. ASSUME NEW a \in Axes,
                 Clamp(polygon[a].least, PageLength) < Clamp(polygon[a].greatest, PageLength)
          PROVE  Clamp(Extent(a), PageLength) > 0
      BY <2>0, <3>1 DEF Extent, Clamp, AtLeast, AtMost
    <3> QED BY <2>2, <3>1 DEF to_bounding_box, Locates, Stored
  <2>3. CASE from_normalized_vertices
    <3>1. ASSUME NEW a \in Axes,
                 Clamp(polygon[a].least, PageLength) < Clamp(polygon[a].greatest, PageLength)
          PROVE  Clamp(Clamp(polygon[a].greatest, PageLength) - Clamp(polygon[a].least, PageLength),
                       PageLength - Clamp(polygon[a].least, PageLength)) > 0
      BY <2>0, <3>1 DEF Clamp, AtLeast, AtMost
    <3> QED BY <2>3, <3>1 DEF from_normalized_vertices, Locates, Stored
  <2>4. CASE crop_region \/ UNCHANGED cropVars
    BY <2>4 DEF crop_region, cropVars, Stored
  <2> QED BY <2>1, <2>2, <2>3, <2>4 DEF CropNext
<1> QED BY <1>1, <1>2, CropTypeCorrect, PTL DEF CropSpec

(* A re-read of a field that shows anywhere on the page has pixels to look *)
(* at, however thin the field is and however near an edge.                 *)
THEOREM CropNeverEmptyHolds == CropSpec => []CropNeverEmpty
<1>1. CropInit => CropNeverEmpty
  BY DEF CropInit, CropNeverEmpty
<1>2. ASSUME CropTypeOK, Stored, CropTypeOK', Stored', CropNeverEmpty, [CropNext]_cropVars
      PROVE  CropNeverEmpty'
  <2> USE <1>2
  <2>1. ASSUME stage' # "reported", UNCHANGED polygon, NEW a \in Axes,
               \/ box'[a].length <= 0
               \/ from_tuple(box')[a].length <= 0
        PROVE  Clamp(polygon'[a].least, PageLength) = Clamp(polygon'[a].greatest, PageLength)
    <3>1. /\ polygon'[a].least \in Int /\ polygon'[a].greatest \in Int
          /\ polygon'[a].least <= polygon'[a].greatest
      BY <2>1, ReportedTypes DEF Stored
    <3>2. /\ box'[a].start = Clamp(polygon'[a].least, PageLength)
          /\ box'[a].length \in 0..PageLength
          /\ Clamp(polygon'[a].least, PageLength) < Clamp(polygon'[a].greatest, PageLength) =>
               box'[a].length > 0
      BY <2>1 DEF Stored, CropTypeOK, Span
    <3>3. from_tuple(box')[a] = Clamped(box'[a].start, box'[a].length)
      BY DEF from_tuple
    <3> QED BY <2>1, <3>1, <3>2, <3>3, NothingThere
  <2>2. CASE from_polygon \/ to_bounding_box \/ from_normalized_vertices
    <3>1. PICK b : Locates(b)
      BY <2>2 DEF from_polygon, to_bounding_box, from_normalized_vertices
    <3>2. CASE is_degenerate(b)
      <4>1. PICK a \in Axes : box'[a].length <= 0
        BY <3>1, <3>2 DEF Locates, is_degenerate
      <4> QED BY <2>1, <3>1, <3>2, <4>1 DEF Locates, CropNeverEmpty
    <3>3. CASE ~ is_degenerate(b)
      BY <3>1, <3>3 DEF Locates, CropNeverEmpty
    <3> QED BY <3>2, <3>3
  <2>3. CASE crop_region
    <3> DEFINE rebuilt == from_tuple(box)
    <3>0. UNCHANGED <<polygon, raster, box>> /\ stage = "located"
      BY <2>3 DEF crop_region
    <3>1. CASE is_degenerate(rebuilt)
      <4>1. PICK a \in Axes : from_tuple(box')[a].length <= 0
        BY <3>0, <3>1 DEF is_degenerate
      <4>2. stage' = "refused"
        BY <2>3, <3>1 DEF crop_region
      <4> QED BY <2>1, <3>0, <4>1, <4>2 DEF CropNeverEmpty
    <3>2. CASE ~ is_degenerate(rebuilt)
      <4>1. /\ crop' = [a \in Axes |-> to_pixels(with_padding(rebuilt[a]), raster[a])]
            /\ stage' = "cropped"
        BY <2>3, <3>2 DEF crop_region
      <4>2. ASSUME NEW a \in Axes
            PROVE  crop'[a].first < crop'[a].after /\ crop'[a].after <= raster[a]
        <5>1. raster[a] \in Nat \ {0} /\ box[a].start \in Int /\ box[a].length \in Int
          BY StateTypes
        <5>2. with_padding(rebuilt[a]) \in Span
          BY <5>1, ClampedTypes, PaddedTypes DEF from_tuple
        <5> QED BY <4>1, <5>1, <5>2, PixelsTypes
      <4> QED BY <3>0, <4>1, <4>2 DEF CropNeverEmpty
    <3> QED BY <3>1, <3>2
  <2>4. CASE UNCHANGED cropVars
    BY <2>4 DEF cropVars, CropNeverEmpty
  <2> QED BY <2>2, <2>3, <2>4 DEF CropNext
<1> QED BY <1>1, <1>2, CropTypeCorrect, StoredHolds, PTL DEF CropSpec

-----------------------------------------------------------------------------
(* A product grows with its factor.                                        *)
LEMMA Monotonic ==
  ASSUME NEW a \in Int, NEW b \in Int, a <= b, NEW c \in Nat
  PROVE  a * c <= b * c
OBVIOUS

(* Rounding is off by half a unit at most.                                 *)
LEMMA RoundNear ==
  ASSUME NEW n \in Int, NEW d \in Nat \ {0}
  PROVE  /\ Round(n, d) * d <= n + d \div 2
         /\ Round(n, d) * d >= n - d \div 2
<1> DEFINE q == n \div d
           r == n % d
           h == d \div 2
<1>1. q \in Int /\ r \in 0..(d - 1) /\ n = q * d + r
  OBVIOUS
<1>2. h \in Nat /\ 2 * h <= d /\ d <= 2 * h + 1
  OBVIOUS
<1>3. Round(n, d) = IF 2 * r < d \/ (2 * r = d /\ q % 2 = 0) THEN q ELSE q + 1
  BY DEF Round
<1>4. (q + 1) * d = q * d + d /\ q * d \in Int
  BY <1>1
<1> HIDE DEF q, r, h
<1>5. CASE Round(n, d) = q /\ 2 * r <= d
  <2>1. r <= h
    BY <1>1, <1>2, <1>5
  <2> QED BY <1>1, <1>2, <1>4, <1>5, <2>1 DEF h
<1>6. CASE Round(n, d) = q + 1 /\ 2 * r >= d
  <2>1. d - r <= h
    BY <1>1, <1>2, <1>6
  <2> QED BY <1>1, <1>2, <1>4, <1>6, <2>1 DEF h
<1>7. \/ Round(n, d) = q /\ 2 * r <= d
      \/ Round(n, d) = q + 1 /\ 2 * r >= d
  BY <1>1, <1>3
<1> QED BY <1>5, <1>6, <1>7

(* Clamping keeps whatever of a span is on the page, and so does padding,  *)
(* which moves the start back by what the end is moved on.                 *)
LEMMA PaddedCovers ==
  ASSUME NEW span \in Span, NEW greatest \in 0..PageLength,
         greatest <= span.start + span.length
  PROVE  /\ Clamped(span.start, span.length) \in Span
         /\ Clamped(span.start, span.length).start = span.start
         /\ greatest <= Clamped(span.start, span.length).start
                          + Clamped(span.start, span.length).length
         /\ with_padding(span).start <= span.start
         /\ greatest <= with_padding(span).start + with_padding(span).length
<1> DEFINE s == span.start
           n == span.length
           p == Padding(n)
<1>1. s \in 0..PageLength /\ n \in 0..PageLength /\ PageLength \in Nat \ {0}
  BY CropGeometryAssumption DEF Span
<1>2. p \in Nat
  BY <1>1, CropGeometryAssumption DEF Padding
<1>3. with_padding(span) = Clamped(s - p, n + 2 * p)
  BY DEF with_padding
<1>4. /\ Clamped(s, n) \in Span
      /\ Clamped(s, n).start = Clamp(s, PageLength)
      /\ Clamped(s, n).length = Clamp(n, PageLength - Clamp(s, PageLength))
  BY <1>1, ClampedTypes
<1>5. /\ Clamped(s - p, n + 2 * p).start = Clamp(s - p, PageLength)
      /\ Clamped(s - p, n + 2 * p).length =
           Clamp(n + 2 * p, PageLength - Clamp(s - p, PageLength))
  BY <1>1, <1>2, ClampedTypes
<1>6. greatest <= s + n
  OBVIOUS
<1> HIDE DEF s, n, p
<1>7. /\ Clamp(s, PageLength) = s
      /\ greatest <= s + Clamp(n, PageLength - s)
  BY <1>1, <1>6 DEF Clamp, AtLeast, AtMost
<1>8. /\ Clamp(s - p, PageLength) <= s
      /\ greatest <=
           Clamp(s - p, PageLength) + Clamp(n + 2 * p, PageLength - Clamp(s - p, PageLength))
  BY <1>1, <1>2, <1>6 DEF Clamp, AtLeast, AtMost
<1>9. /\ Clamped(s, n) \in Span /\ Clamped(s, n).start = s
      /\ greatest <= Clamped(s, n).start + Clamped(s, n).length
  BY <1>4, <1>7
<1>10. with_padding(span).start <= s
       /\ greatest <= with_padding(span).start + with_padding(span).length
  BY <1>3, <1>5, <1>8
<1> QED BY <1>9, <1>10 DEF s, n

(* The pixels of a span show what the span covers, up to half a pixel.     *)
LEMMA PixelsCover ==
  ASSUME NEW span \in Span, NEW size \in Nat \ {0},
         NEW least \in 0..PageLength, NEW greatest \in 0..PageLength,
         span.start <= least, greatest <= span.start + span.length
  PROVE  /\ to_pixels(span, size).first * PageLength <= least * size + PageLength \div 2
         /\ to_pixels(span, size).after * PageLength >= greatest * size - PageLength \div 2
<1> DEFINE start == span.start
           end   == span.start + span.length
           first == Round(start * size, PageLength)
           after == Round(end * size, PageLength)
           near  == PageLength \div 2
           c     == Guaranteed(first, after, size)
<1>1. start \in Nat /\ end \in Nat /\ PageLength \in Nat \ {0} /\ near \in Nat
  BY CropGeometryAssumption DEF Span
<1>2. start * size \in Int /\ end * size \in Int
  BY <1>1
<1>3. first \in Int /\ after \in Int
  BY <1>1, <1>2, RoundType
<1>4. first * PageLength <= start * size + near /\ after * PageLength >= end * size - near
  BY <1>1, <1>2, RoundNear
<1>5. start * size <= least * size /\ greatest * size <= end * size
      /\ greatest * size <= PageLength * size
  BY <1>1, Monotonic
<1>6. c.first \in Int /\ c.after \in Int /\ c.first <= first
      /\ (c.after = size \/ c.after >= after)
  BY <1>3 DEF Guaranteed, AtLeast, AtMost
<1>7. to_pixels(span, size) = c
  BY DEF to_pixels
<1> HIDE DEF start, end, first, after, near, c
<1>8. c.first * PageLength <= least * size + near
  <2>1. c.first * PageLength <= first * PageLength
    BY <1>1, <1>3, <1>6, Monotonic
  <2>2. c.first * PageLength \in Int /\ first * PageLength \in Int /\ least * size \in Int
    BY <1>1, <1>3, <1>6
  <2> QED BY <1>1, <1>2, <1>4, <1>5, <2>1, <2>2
<1>9. c.after * PageLength >= greatest * size - near
  <2>1. c.after * PageLength \in Int /\ after * PageLength \in Int /\ greatest * size \in Int
    BY <1>1, <1>3, <1>6
  <2>2. CASE c.after = size
    <3>1. c.after * PageLength = PageLength * size
      BY <1>1, <2>2
    <3> QED BY <1>1, <1>5, <2>1, <3>1
  <2>3. CASE c.after >= after
    <3>1. after * PageLength <= c.after * PageLength
      BY <1>1, <1>3, <1>6, <2>3, Monotonic
    <3> QED BY <1>1, <1>2, <1>4, <1>5, <2>1, <3>1
  <2> QED BY <1>6, <2>2, <2>3
<1> QED BY <1>7, <1>8, <1>9 DEF near

(* A stored box reaches as far as the field does on the page, and a crop   *)
(* is that of the stored box.                                              *)
Reaches ==
  /\ stage # "reported" =>
       \A a \in Axes : Clamp(polygon[a].greatest, PageLength) <= box[a].start + box[a].length
  /\ stage = "cropped" =>
       crop = [a \in Axes |-> to_pixels(with_padding(from_tuple(box)[a]), raster[a])]

(* Every constructor stores such a box, Textract's longer than it need be. *)
LEMMA ReachesHolds == CropSpec => []Reaches
<1>1. CropInit => Reaches
  BY DEF CropInit, Reaches
<1>2. ASSUME CropTypeOK, Stored, Reaches, [CropNext]_cropVars
      PROVE  Reaches'
  <2> USE <1>2
  <2>0. ASSUME NEW a \in Axes
        PROVE  /\ polygon[a].least \in Int /\ polygon[a].greatest \in Int
               /\ polygon[a].least <= polygon[a].greatest
               /\ PageLength \in Nat \ {0}
    BY ReportedTypes, CropGeometryAssumption DEF Stored
  <2>1. CASE from_polygon
    <3>1. ASSUME NEW a \in Axes
          PROVE  /\ box'[a].start = Clamp(polygon[a].least, PageLength)
                 /\ box'[a].length =
                      Clamp(Extent(a), PageLength - Clamp(polygon[a].least, PageLength))
      BY <2>1, ReportedTypes, ClampedTypes DEF from_polygon, Locates
    <3>2. ASSUME NEW a \in Axes
          PROVE  Clamp(polygon[a].greatest, PageLength) <= Clamp(polygon[a].least, PageLength)
                   + Clamp(Extent(a), PageLength - Clamp(polygon[a].least, PageLength))
      BY <2>0 DEF Extent, Clamp, AtLeast, AtMost
    <3> QED BY <2>1, <3>1, <3>2 DEF from_polygon, Locates, Reaches
  <2>2. CASE to_bounding_box
    <3>1. ASSUME NEW a \in Axes
          PROVE  Clamp(polygon[a].greatest, PageLength) <=
                   Clamp(polygon[a].least, PageLength) + Clamp(Extent(a), PageLength)
      BY <2>0 DEF Extent, Clamp, AtLeast, AtMost
    <3> QED BY <2>2, <3>1 DEF to_bounding_box, Locates, Reaches
  <2>3. CASE from_normalized_vertices
    <3>1. ASSUME NEW a \in Axes
          PROVE  Clamp(polygon[a].greatest, PageLength) <= Clamp(polygon[a].least, PageLength)
                   + Clamp(Clamp(polygon[a].greatest, PageLength) - Clamp(polygon[a].least, PageLength),
                           PageLength - Clamp(polygon[a].least, PageLength))
      BY <2>0 DEF Clamp, AtLeast, AtMost
    <3> QED BY <2>3, <3>1 DEF from_normalized_vertices, Locates, Reaches
  <2>4. CASE crop_region
    BY <2>4 DEF crop_region, Reaches
  <2>5. CASE UNCHANGED cropVars
    BY <2>5 DEF cropVars, Reaches
  <2> QED BY <2>1, <2>2, <2>3, <2>4, <2>5 DEF CropNext
<1> QED BY <1>1, <1>2, CropTypeCorrect, StoredHolds, PTL DEF CropSpec

(* What the provider saw of a field on the page is in the crop the vision  *)
(* model re-reads, whichever constructor stored the box.                   *)
THEOREM FieldInCropHolds == CropSpec => []FieldInCrop
<1>1. ASSUME CropTypeOK, Stored, Reaches
      PROVE  FieldInCrop
  <2> SUFFICES ASSUME stage = "cropped", NEW a \in Axes
               PROVE  /\ crop[a].first * PageLength <=
                           Clamp(polygon[a].least, PageLength) * raster[a] + PageLength \div 2
                      /\ crop[a].after * PageLength >=
                           Clamp(polygon[a].greatest, PageLength) * raster[a] - PageLength \div 2
    BY DEF FieldInCrop
  <2> DEFINE least    == Clamp(polygon[a].least, PageLength)
             greatest == Clamp(polygon[a].greatest, PageLength)
             rebuilt  == Clamped(box[a].start, box[a].length)
  <2> USE <1>1
  <2>1. /\ least \in 0..PageLength /\ greatest \in 0..PageLength
        /\ raster[a] \in Nat \ {0} /\ box[a] \in Span
        /\ box[a].start = least /\ greatest <= box[a].start + box[a].length
    BY ReportedTypes, StateTypes DEF Stored, Reaches, CropTypeOK
  <2>2. crop[a] = to_pixels(with_padding(rebuilt), raster[a])
    BY DEF Reaches, from_tuple
  <2> HIDE DEF least, greatest, rebuilt
  <2>3. rebuilt \in Span /\ rebuilt.start = least
        /\ greatest <= rebuilt.start + rebuilt.length
    BY <2>1, PaddedCovers DEF rebuilt
  <2>4. /\ with_padding(rebuilt) \in Span
        /\ with_padding(rebuilt).start <= least
        /\ greatest <= with_padding(rebuilt).start + with_padding(rebuilt).length
    BY <2>1, <2>3, PaddedCovers, PaddedTypes
  <2> QED BY <2>1, <2>2, <2>4, PixelsCover DEF least, greatest
<1> QED BY <1>1, CropTypeCorrect, StoredHolds, ReachesHolds, PTL
=============================================================================

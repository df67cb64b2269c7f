--------------------------- MODULE RuleTableProofs ---------------------------
(***************************************************************************)
(* Proofs about the phrase tables and the conversion of a text by them     *)
(* (module RuleTable), for any characters, phrases, texts and any number   *)
(* of rules.                                                               *)
(***************************************************************************)
EXTENDS RuleTable, SequenceLemmas

(* The order of the rules *)

\* a and b differ first at k, where a is below b.
Before(a, b, k) ==
    /\ k \in 1 .. Len(a) /\ k \in 1 .. Len(b)
    /\ a[k] < b[k]
    /\ \A i \in 1 .. k - 1 : a[i] = b[i]

Begins(b, a) == Len(b) <= Len(a) /\ \A i \in 1 .. Len(b) : a[i] = b[i]

\* a may stand before b in a sorted bucket.
Order(a, b) == (\E k \in 1 .. Len(a) : Before(a, b, k)) \/ Begins(b, a)

LEMMA PhraseTypes ==
    ASSUME NEW w \in Phrases
    PROVE  /\ w \in Seq(Chars) /\ Len(w) \in Nat
           /\ w # <<>> => Len(w) >= 1 /\ w[1] \in Chars /\ Head(w) = w[1]
<1>1. w \in Seq(Chars)
  BY PhraseAssumption
<1> QED
  BY <1>1

LEMMA FirstOf ==
    ASSUME NEW w \in Seq(Chars), NEW n \in 0 .. Len(w)
    PROVE  /\ First(w, n) \in Seq(Chars) /\ Len(First(w, n)) = n
           /\ \A i \in 1 .. n : First(w, n)[i] = w[i]
<1>1. \A i \in 1 .. n : w[i] \in Chars
  OBVIOUS
<1>2. /\ SubSeq(w, 1, n) \in Seq(Chars)
      /\ Len(SubSeq(w, 1, n)) = IF 1 <= n THEN n - 1 + 1 ELSE 0
      /\ \A i \in 1 .. n - 1 + 1 : SubSeq(w, 1, n)[i] = w[1 + i - 1]
  BY <1>1, SubSeqProperties
<1>3. \A i \in 1 .. n : i \in 1 .. n - 1 + 1 /\ 1 + i - 1 = i
  OBVIOUS
<1> QED
  BY <1>2, <1>3 DEF First

\* What memcmp tells of two texts of the same length.
LEMMA MemcmpIs ==
    ASSUME NEW a \in Seq(Chars), NEW b \in Seq(Chars), Len(a) = Len(b)
    PROVE  /\ Memcmp(a, b) \in {-1, 0, 1}
           /\ Memcmp(a, b) = 0 <=> a = b
           /\ Memcmp(a, b) < 0 => \E k \in 1 .. Len(a) : Before(a, b, k)
<1> DEFINE differ == {k \in DOMAIN a : a[k] # b[k]}
           m == Min(differ)
<1>1. DOMAIN a = 1 .. Len(a) /\ Len(a) \in Nat
  OBVIOUS
<1>2. Memcmp(a, b) = IF differ = {} THEN 0 ELSE IF a[m] < b[m] THEN -1 ELSE 1
  BY DEF Memcmp
<1>3. differ = {} <=> a = b
  <2>1. differ = {} => a = b
    <3>1. SUFFICES ASSUME differ = {} PROVE a = b
      OBVIOUS
    <3>2. \A k \in 1 .. Len(a) : a[k] = b[k]
      BY <1>1, <3>1
    <3> QED
      BY <3>2
  <2>2. a = b => differ = {}
    OBVIOUS
  <2> QED
    BY <2>1, <2>2
<1>4. ASSUME differ # {}
      PROVE  m \in 1 .. Len(a) /\ \A i \in 1 .. m - 1 : a[i] = b[i]
  <2>1. differ \in SUBSET Nat
    BY <1>1
  <2>2. m \in differ /\ \A k \in differ : m <= k
    BY <1>4, <2>1, LeastOfSome
  <2>3. m \in 1 .. Len(a)
    BY <1>1, <2>2
  <2> HIDE DEF m
  <2>4. ASSUME NEW i \in 1 .. m - 1 PROVE a[i] = b[i]
    <3>1. i \in 1 .. Len(a) /\ ~(m <= i)
      BY <1>1, <2>3
    <3> QED
      BY <1>1, <2>2, <3>1
  <2> QED
    BY <2>3, <2>4
<1> HIDE DEF differ, m
<1>5. Memcmp(a, b) < 0 => differ # {} /\ a[m] < b[m]
  BY <1>2
<1>6. Memcmp(a, b) < 0 => Before(a, b, m) /\ m \in 1 .. Len(a)
  BY <1>4, <1>5 DEF Before
<1> QED
  BY <1>2, <1>3, <1>6

\* A phrase that one comes before and one that comes before it.
LEMMA OrderTransitive ==
    ASSUME NEW a \in Seq(Chars), NEW b \in Seq(Chars), NEW c \in Seq(Chars),
           Order(a, b), Order(b, c)
    PROVE  Order(a, c)
<1>0. /\ Len(a) \in Nat /\ Len(b) \in Nat /\ Len(c) \in Nat
      /\ \A i \in 1 .. Len(a) : a[i] \in Nat
      /\ \A i \in 1 .. Len(b) : b[i] \in Nat
      /\ \A i \in 1 .. Len(c) : c[i] \in Nat
  <2>1. \A s \in Seq(Chars) : Len(s) \in Nat /\ \A i \in 1 .. Len(s) : s[i] \in Chars
    OBVIOUS
  <2> QED
    BY <2>1, CharAssumption
<1>1. ASSUME NEW k \in 1 .. Len(a), Before(a, b, k), NEW m \in 1 .. Len(b), Before(b, c, m)
      PROVE  Order(a, c)
  <2>1. CASE k <= m
    <3>1. k \in 1 .. Len(c) /\ \A i \in 1 .. k - 1 : i \in 1 .. m - 1
      BY <1>0, <1>1, <2>1 DEF Before
    <3>2. \A i \in 1 .. k - 1 : a[i] = c[i]
      BY <1>1, <3>1 DEF Before
    <3>3. a[k] < c[k]
      <4>1. k = m \/ k \in 1 .. m - 1
        BY <2>1
      <4>2. a[k] < b[k] /\ (b[k] = c[k] \/ b[k] < c[k])
        BY <1>1, <4>1 DEF Before
      <4>3. a[k] \in Nat /\ b[k] \in Nat /\ c[k] \in Nat
        BY <1>0, <1>1, <3>1 DEF Before
      <4> QED
        BY <4>2, <4>3
    <3> QED
      BY <3>1, <3>2, <3>3 DEF Order, Before
  <2>2. CASE m < k
    <3>1. m \in 1 .. Len(a) /\ m \in 1 .. Len(c) /\ m \in 1 .. k - 1 /\ \A i \in 1 .. m - 1 : i \in 1 .. k - 1
      BY <1>0, <1>1, <2>2 DEF Before
    <3>2. \A i \in 1 .. m - 1 : a[i] = c[i]
      BY <1>1, <3>1 DEF Before
    <3>3. a[m] < c[m]
      BY <1>1, <3>1 DEF Before
    <3> QED
      BY <3>1, <3>2, <3>3 DEF Order, Before
  <2> QED
    BY <1>0, <2>1, <2>2
<1>2. ASSUME NEW k \in 1 .. Len(a), Before(a, b, k), Begins(c, b)
      PROVE  Order(a, c)
  <2>1. CASE k <= Len(c)
    <3>1. k \in 1 .. Len(c) /\ \A i \in 1 .. k - 1 : i \in 1 .. Len(c)
      BY <1>0, <2>1
    <3>2. Before(a, c, k)
      BY <1>2, <3>1 DEF Before, Begins
    <3> QED
      BY <3>2 DEF Order
  <2>2. CASE Len(c) < k
    <3>1. Len(c) <= Len(a) /\ \A i \in 1 .. Len(c) : i \in 1 .. k - 1
      BY <1>0, <2>2
    <3>2. Begins(c, a)
      BY <1>2, <3>1 DEF Before, Begins
    <3> QED
      BY <3>2 DEF Order
  <2> QED
    BY <1>0, <2>1, <2>2
<1>3. ASSUME Begins(b, a), NEW m \in 1 .. Len(b), Before(b, c, m)
      PROVE  Order(a, c)
  <2>1. m \in 1 .. Len(a) /\ \A i \in 1 .. m - 1 : i \in 1 .. Len(b)
    BY <1>0, <1>3 DEF Begins
  <2>2. Before(a, c, m)
    BY <1>3, <2>1 DEF Before, Begins
  <2> QED
    BY <2>1, <2>2 DEF Order
<1>4. ASSUME Begins(b, a), Begins(c, b)
      PROVE  Order(a, c)
  <2>1. Len(c) <= Len(a) /\ \A i \in 1 .. Len(c) : i \in 1 .. Len(b)
    BY <1>0, <1>4 DEF Begins
  <2>2. Begins(c, a)
    BY <1>4, <2>1 DEF Begins
  <2> QED
    BY <2>2 DEF Order
<1> QED
  BY <1>1, <1>2, <1>3, <1>4 DEF Order

\* compare_rule finds two rules in order only if they are.
LEMMA CompareIs ==
    ASSUME NEW r1, NEW r2, r1.realcode \in Phrases, r2.realcode \in Phrases,
           compare_rule(r1, r2) <= 0
    PROVE  Order(r1.realcode, r2.realcode)
<1> DEFINE a == r1.realcode
           b == r2.realcode
           n == Min({Len(a), Len(b)})
           u == First(a, n)
           v == First(b, n)
<1>1. compare_rule(r1, r2) = IF Memcmp(u, v) # 0 THEN Memcmp(u, v) ELSE Len(b) - Len(a)
  BY DEF compare_rule, lenreal
<1>2. a \in Seq(Chars) /\ b \in Seq(Chars) /\ Len(a) \in Nat /\ Len(b) \in Nat
  BY PhraseTypes
<1> HIDE DEF a, b
<1>3. n \in 0 .. Len(a) /\ n \in 0 .. Len(b) /\ (n = Len(a) \/ n = Len(b))
  <2> DEFINE T == {Len(a), Len(b)}
  <2>1. T \in SUBSET Nat /\ T # {}
    BY <1>2
  <2>2. n \in T /\ \A k \in T : n <= k
    BY <2>1, LeastOfSome
  <2> HIDE DEF n
  <2> QED
    BY <1>2, <2>2
<1> HIDE DEF n
<1>4. /\ u \in Seq(Chars) /\ v \in Seq(Chars) /\ Len(u) = n /\ Len(v) = n
      /\ \A i \in 1 .. n : u[i] = a[i] /\ v[i] = b[i]
  BY <1>2, <1>3, FirstOf
<1> HIDE DEF u, v
<1>5. /\ Memcmp(u, v) \in {-1, 0, 1} /\ (Memcmp(u, v) = 0 <=> u = v)
      /\ Memcmp(u, v) < 0 => \E k \in 1 .. Len(u) : Before(u, v, k)
  BY <1>4, MemcmpIs
<1>6. CASE Memcmp(u, v) # 0
  <2>1. PICK k \in 1 .. n : Before(u, v, k)
    BY <1>1, <1>4, <1>5, <1>6
  <2>2. /\ k \in 1 .. Len(a) /\ k \in 1 .. Len(b) /\ \A i \in 1 .. k - 1 : i \in 1 .. n
    BY <1>2, <1>3
  <2>3. Before(a, b, k)
    BY <1>4, <2>1, <2>2 DEF Before
  <2> QED
    BY <2>2, <2>3 DEF Order, a, b
<1>7. CASE Memcmp(u, v) = 0
  <2>1. u = v /\ Len(b) <= Len(a)
    BY <1>1, <1>2, <1>5, <1>7
  <2>2. \A i \in 1 .. Len(b) : i \in 1 .. n
    BY <1>2, <1>3, <2>1
  <2>3. Begins(b, a)
    BY <1>4, <2>1, <2>2 DEF Begins
  <2> QED
    BY <2>3 DEF Order, a, b
<1> QED
  BY <1>6, <1>7

\* The rules a file of n lines may make.
Rules(n) == [realcode : Phrases, lenrep : 1 .. n]

\* In a sorted bucket each rule stands in order with each behind it.
LEMMA SortedOrder ==
    ASSUME NEW n, NEW list \in Seq(Rules(n)), NEW s \in Sorted(list)
    PROVE  /\ DOMAIN s = 1 .. Len(list) /\ \A i \in DOMAIN s : s[i] \in ToSet(list)
           /\ \A i, j \in DOMAIN s : i <= j => Order(s[i].realcode, s[j].realcode)
<1>1. /\ Len(list) \in Nat /\ DOMAIN s = 1 .. Len(list) /\ \A i \in DOMAIN s : s[i] \in ToSet(list)
      /\ \A i \in 1 .. Len(list) - 1 : compare_rule(s[i], s[i + 1]) <= 0
  BY DEF Sorted
<1>2. \A i \in DOMAIN s : s[i].realcode \in Phrases
  <2>1. ToSet(list) \subseteq Rules(n)
    BY DEF ToSet
  <2>2. \A r \in Rules(n) : r.realcode \in Phrases
    BY DEF Rules
  <2> QED
    BY <1>1, <2>1, <2>2
<1> DEFINE T == {d \in Nat : \A i, j \in DOMAIN s : j = i + d => Order(s[i].realcode, s[j].realcode)}
<1>3. 0 \in T
  <2>1. ASSUME NEW i \in DOMAIN s PROVE Order(s[i].realcode, s[i].realcode)
    <3>1. Len(s[i].realcode) \in Nat
      BY <1>2, PhraseTypes
    <3> QED
      BY <3>1 DEF Order, Begins
  <2>2. \A i, j \in DOMAIN s : j = i + 0 => j = i
    BY <1>1
  <2> QED
    BY <2>1, <2>2
<1>4. ASSUME NEW d \in T PROVE d + 1 \in T
  <2>1. d \in Nat /\ \A i, j \in DOMAIN s : j = i + d => Order(s[i].realcode, s[j].realcode)
    OBVIOUS
  <2>2. ASSUME NEW i \in DOMAIN s, NEW j \in DOMAIN s, j = i + (d + 1)
        PROVE  Order(s[i].realcode, s[j].realcode)
    <3> DEFINE k == j - 1
    <3>1. k \in DOMAIN s /\ k = i + d /\ k \in 1 .. Len(list) - 1 /\ k + 1 = j
      BY <1>1, <2>1, <2>2
    <3> HIDE DEF k
    <3>2. Order(s[i].realcode, s[k].realcode)
      BY <2>1, <3>1
    <3>3. Order(s[k].realcode, s[j].realcode)
      <4>1. compare_rule(s[k], s[j]) <= 0
        BY <1>1, <3>1
      <4> QED
        BY <1>2, <3>1, <4>1, CompareIs
    <3> QED
      BY <1>2, <3>1, <3>2, <3>3, PhraseTypes, OrderTransitive
  <2> QED
    BY <2>1, <2>2
<1>5. T \in SUBSET Nat
  OBVIOUS
<1> HIDE DEF T
<1>6. T = Nat
  BY <1>3, <1>4, <1>5, AllNumbers
<1>7. ASSUME NEW i \in DOMAIN s, NEW j \in DOMAIN s, i <= j
      PROVE  Order(s[i].realcode, s[j].realcode)
  <2>1. j - i \in Nat /\ j = i + (j - i)
    BY <1>1, <1>7
  <2> QED
    BY <1>6, <2>1 DEF T
<1> QED
  BY <1>1, <1>7

-----------------------------------------------------------------------------
(* What matchRule finds *)

\* The phrase w stands in the memory b from p on; the memory differs first from
\* w, before the end of w, where it is below w.
StandsAt(w, b, p) == \A k \in 1 .. Len(w) : b[p + k - 1] = w[k]

Below(w, b, p) == \E k \in 1 .. Len(w) : /\ b[p + k - 1] < w[k]
                                         /\ \A i \in 1 .. k - 1 : b[p + i - 1] = w[i]

LEMMA PartOfMemory ==
    ASSUME NEW b \in Seq(Chars), NEW p \in 1 .. Len(b), NEW n \in Nat, p + n - 1 <= Len(b)
    PROVE  /\ SubSeq(b, p, p + n - 1) \in Seq(Chars) /\ Len(SubSeq(b, p, p + n - 1)) = n
           /\ \A k \in 1 .. n : SubSeq(b, p, p + n - 1)[k] = b[p + k - 1]
<1> DEFINE j == p + n - 1
<1>1. j \in Int /\ j <= Len(b) /\ j - p + 1 = n /\ (p <= j <=> n # 0)
  OBVIOUS
<1>2. \A i \in p .. j : b[i] \in Chars
  BY <1>1
<1> HIDE DEF j
<1>3. /\ SubSeq(b, p, j) \in Seq(Chars)
      /\ Len(SubSeq(b, p, j)) = IF p <= j THEN j - p + 1 ELSE 0
      /\ \A k \in 1 .. j - p + 1 : SubSeq(b, p, j)[k] = b[p + k - 1]
  BY <1>1, <1>2, SubSeqProperties
<1>4. SubSeq(b, p, j) \in Seq(Chars) /\ Len(SubSeq(b, p, j)) = n
      /\ \A k \in 1 .. n : SubSeq(b, p, j)[k] = b[p + k - 1]
  BY <1>1, <1>3
<1> QED
  BY <1>4 DEF j

\* The comparison of n characters of memory with the first n of a phrase.
MemoryCompared(w, n, b, p) ==
    LET cmp == Memcmp(SubSeq(b, p, p + n - 1), First(w, n))
    IN  /\ cmp \in {-1, 0, 1}
        /\ cmp = 0 <=> \A k \in 1 .. n : b[p + k - 1] = w[k]
        /\ cmp < 0 => Below(w, b, p)

LEMMA CompareMemory ==
    ASSUME NEW b \in Seq(Chars), NEW p \in 1 .. Len(b), NEW w \in Phrases,
           NEW n \in 0 .. Len(w), p + n - 1 <= Len(b)
    PROVE  MemoryCompared(w, n, b, p)
<1> DEFINE u == First(w, n)
           a == SubSeq(b, p, p + n - 1)
<1>1. w \in Seq(Chars) /\ Len(w) \in Nat /\ n \in Nat
  BY PhraseTypes
<1>2. /\ a \in Seq(Chars) /\ Len(a) = n /\ \A k \in 1 .. n : a[k] = b[p + k - 1]
  BY <1>1, PartOfMemory
<1>3. u \in Seq(Chars) /\ Len(u) = n /\ \A k \in 1 .. n : u[k] = w[k]
  BY <1>1, FirstOf
<1> HIDE DEF u, a
<1>4. /\ Memcmp(a, u) \in {-1, 0, 1} /\ (Memcmp(a, u) = 0 <=> a = u)
      /\ Memcmp(a, u) < 0 => \E k \in 1 .. Len(a) : Before(a, u, k)
  BY <1>2, <1>3, MemcmpIs
<1>5. a = u <=> \A k \in 1 .. n : b[p + k - 1] = w[k]
  <2>1. a = u => \A k \in 1 .. n : b[p + k - 1] = w[k]
    BY <1>2, <1>3
  <2>2. (\A k \in 1 .. n : b[p + k - 1] = w[k]) => \A k \in 1 .. n : a[k] = u[k]
    BY <1>2, <1>3
  <2>3. (\A k \in 1 .. n : a[k] = u[k]) => a = u
    BY <1>2, <1>3
  <2> QED
    BY <2>1, <2>2, <2>3
<1>6. ASSUME NEW k \in 1 .. n, Before(a, u, k)
      PROVE  Below(w, b, p)
  <2>1. k \in 1 .. Len(w) /\ \A i \in 1 .. k - 1 : i \in 1 .. n
    BY <1>1
  <2>2. b[p + k - 1] < w[k] /\ \A i \in 1 .. k - 1 : b[p + i - 1] = w[i]
    BY <1>2, <1>3, <1>6, <2>1 DEF Before
  <2> QED
    BY <2>1, <2>2 DEF Below
<1>7. Memcmp(a, u) < 0 => Below(w, b, p)
  BY <1>2, <1>4, <1>6
<1> QED
  BY <1>4, <1>5, <1>7 DEF u, a, MemoryCompared

\* The bucket table as matchRule scans it, where p is a place in the memory b
\* with l characters of the text left: it stops at a rule with Breaks or with a
\* comparison that is not above.
Compared(w, b, p) == Memcmp(SubSeq(b, p, p + Len(w) - 1), w)

Breaks(w, b, p, l) == l < Len(w) /\ Memcmp(SubSeq(b, p, p + l - 1), First(w, l)) < 0

Stops(table, b, p, l) ==
    {i \in DOMAIN table : \/ Breaks(table[i].realcode, b, p, l)
                          \/ Compared(table[i].realcode, b, p) <= 0}

LEMMA MatchRuleIs ==
    LET table == rules[inbuf[pcur]]
        S     == Stops(table, inbuf, pcur, nLeft)
    IN  /\ matchRule.at = pcur /\ matchRule.exit \in {"hit", "break", "above", "end"}
        /\ matchRule.rule =
              IF /\ S # {} /\ ~Breaks(table[Min(S)].realcode, inbuf, pcur, nLeft)
                 /\ Compared(table[Min(S)].realcode, inbuf, pcur) = 0
              THEN table[Min(S)] ELSE NoRule
<1> DEFINE table == rules[inbuf[pcur]]
           S == Stops(table, inbuf, pcur, nLeft)
           B(i) == Breaks(table[i].realcode, inbuf, pcur, nLeft)
           C(i) == Compared(table[i].realcode, inbuf, pcur)
           ex == IF S = {} THEN "end" ELSE IF B(Min(S)) THEN "break"
                 ELSE IF C(Min(S)) = 0 THEN "hit" ELSE "above"
<1>1. matchRule = [at |-> pcur, exit |-> ex, rule |-> IF ex = "hit" THEN table[Min(S)] ELSE NoRule]
  BY DEF matchRule, At, lenreal, Stops, Breaks, Compared
<1> HIDE DEF table, S, B, C
<1>2. matchRule.at = pcur /\ matchRule.exit = ex /\ matchRule.rule = IF ex = "hit" THEN table[Min(S)] ELSE NoRule
  BY <1>1
<1>3. ex \in {"hit", "break", "above", "end"} /\ (ex = "hit" <=> S # {} /\ ~B(Min(S)) /\ C(Min(S)) = 0)
  OBVIOUS
<1> HIDE DEF ex
<1>4. /\ matchRule.at = pcur /\ matchRule.exit \in {"hit", "break", "above", "end"}
      /\ matchRule.rule = IF S # {} /\ ~B(Min(S)) /\ C(Min(S)) = 0 THEN table[Min(S)] ELSE NoRule
  BY <1>2, <1>3
<1> QED
  BY <1>4 DEF table, S, B, C

LEMMA ComparedIs ==
    ASSUME NEW b \in Seq(Chars), NEW p \in 1 .. Len(b), NEW w \in Phrases, p + Len(w) - 1 <= Len(b)
    PROVE  /\ Compared(w, b, p) \in {-1, 0, 1}
           /\ Compared(w, b, p) = 0 <=> StandsAt(w, b, p)
           /\ Compared(w, b, p) < 0 => Below(w, b, p)
<1> DEFINE n == Len(w)
           a == SubSeq(b, p, p + n - 1)
<1>1. w \in Seq(Chars) /\ n \in 0 .. Len(w)
  BY PhraseTypes
<1>2. First(w, n) = w
  BY <1>1, SubSeqFull DEF First
<1>3. Compared(w, b, p) = Memcmp(a, First(w, n))
  BY <1>2 DEF Compared
<1>4. MemoryCompared(w, n, b, p)
  <2>1. p + n - 1 <= Len(b)
    OBVIOUS
  <2> HIDE DEF n
  <2> QED
    BY <1>1, <2>1, CompareMemory
<1> QED
  BY <1>3, <1>4 DEF StandsAt, MemoryCompared

LEMMA BreaksIs ==
    ASSUME NEW b \in Seq(Chars), NEW p \in 1 .. Len(b), NEW w \in Phrases,
           NEW l \in Nat, p + l - 1 <= Len(b), Breaks(w, b, p, l)
    PROVE  Below(w, b, p)
<1>1. Len(w) \in Nat
  BY PhraseTypes
<1>2. l \in 0 .. Len(w) /\ Memcmp(SubSeq(b, p, p + l - 1), First(w, l)) < 0
  BY <1>1 DEF Breaks
<1>3. MemoryCompared(w, l, b, p)
  BY <1>2, CompareMemory
<1> QED
  BY <1>2, <1>3 DEF MemoryCompared

\* Where the memory is below a phrase, the phrase does not stand.
LEMMA BelowStandsNot ==
    ASSUME NEW b \in Seq(Chars), NEW p \in 1 .. Len(b), NEW w \in Phrases, p + Len(w) - 1 <= Len(b),
           Below(w, b, p)
    PROVE  ~StandsAt(w, b, p)
<1>1. w \in Seq(Chars) /\ Len(w) \in Nat
  BY PhraseTypes
<1>2. PICK k \in 1 .. Len(w) : b[p + k - 1] < w[k]
  BY DEF Below
<1>3. w[k] \in Chars
  BY <1>1
<1>4. w[k] \in Nat
  BY <1>3, CharAssumption
<1> QED
  BY <1>2, <1>4 DEF StandsAt

\* p is a place in the text, which ends at e in the memory b; as much lies behind
\* it as any phrase needs.
Room(b, p, e) ==
    /\ b \in Seq(Chars) /\ e \in 0 .. Len(b) /\ p \in 1 .. e
    /\ \A w \in Phrases : e + Len(w) <= Len(b) + 1

Hit(table, S, b, p, l) ==
    S # {} /\ ~Breaks(table[Min(S)].realcode, b, p, l) /\ Compared(table[Min(S)].realcode, b, p) = 0

\* The scan ends with the first rule that stands in the memory.  If it ends
\* without one, then none stands there before which the memory is not below a
\* rule.
LEMMA ScanFinds ==
    ASSUME NEW n \in Nat, NEW table, DOMAIN table = 1 .. n,
           \A i \in 1 .. n : table[i].realcode \in Phrases,
           NEW b, NEW p, NEW e, Room(b, p, e), NEW S, S = Stops(table, b, p, e - p + 1)
    PROVE  /\ Hit(table, S, b, p, e - p + 1) =>
                 /\ Min(S) \in 1 .. n /\ StandsAt(table[Min(S)].realcode, b, p)
                 /\ \A j \in 1 .. Min(S) - 1 : ~StandsAt(table[j].realcode, b, p)
           /\ ~Hit(table, S, b, p, e - p + 1) =>
                 \A j \in 1 .. n : StandsAt(table[j].realcode, b, p) =>
                     \E i \in 1 .. j : Below(table[i].realcode, b, p)
<1> DEFINE l == e - p + 1
           m == Min(S)
           w(i) == table[i].realcode
<1>1. /\ b \in Seq(Chars) /\ Len(b) \in Nat /\ p \in 1 .. Len(b) /\ l \in Nat /\ p + l - 1 <= Len(b)
      /\ \A v \in Phrases : p + Len(v) - 1 <= Len(b)
  <2>1. b \in Seq(Chars) /\ Len(b) \in Nat /\ e \in 0 .. Len(b) /\ p \in 1 .. e
    BY DEF Room
  <2>2. ASSUME NEW v \in Phrases PROVE p + Len(v) - 1 <= Len(b)
    <3>1. Len(v) \in Nat /\ e + Len(v) <= Len(b) + 1
      BY PhraseTypes DEF Room
    <3> QED
      BY <2>1, <3>1
  <2> QED
    BY <2>1, <2>2
<1>2. ASSUME NEW i \in 1 .. n
      PROVE  /\ w(i) \in Phrases
             /\ Compared(w(i), b, p) \in {-1, 0, 1} /\ (Compared(w(i), b, p) = 0 <=> StandsAt(w(i), b, p))
             /\ Compared(w(i), b, p) < 0 => Below(w(i), b, p)
             /\ Breaks(w(i), b, p, l) => Below(w(i), b, p)
             /\ i \in S <=> Breaks(w(i), b, p, l) \/ Compared(w(i), b, p) <= 0
  <2>1. w(i) \in Phrases /\ p + Len(w(i)) - 1 <= Len(b)
    BY <1>1
  <2>2. i \in S <=> Breaks(w(i), b, p, l) \/ Compared(w(i), b, p) <= 0
    BY DEF Stops
  <2> HIDE DEF w, l
  <2> QED
    BY <1>1, <2>1, <2>2, ComparedIs, BreaksIs
<1>3. S \in SUBSET Nat /\ S \subseteq 1 .. n
  BY DEF Stops
<1>4. S # {} => m \in S /\ m \in 1 .. n /\ \A k \in S : m <= k
  BY <1>3, LeastOfSome
<1>5. Hit(table, S, b, p, l) <=> S # {} /\ ~Breaks(w(m), b, p, l) /\ Compared(w(m), b, p) = 0
  BY DEF Hit
<1> HIDE DEF m, w, l
<1>6. ASSUME Hit(table, S, b, p, l)
      PROVE  m \in 1 .. n /\ StandsAt(w(m), b, p) /\ \A j \in 1 .. m - 1 : ~StandsAt(w(j), b, p)
  <2>1. m \in 1 .. n /\ StandsAt(w(m), b, p)
    BY <1>2, <1>4, <1>5, <1>6
  <2>2. ASSUME NEW j \in 1 .. m - 1, StandsAt(w(j), b, p) PROVE FALSE
    <3>1. j \in 1 .. n /\ ~(m <= j)
      BY <2>1
    <3>2. Compared(w(j), b, p) = 0
      BY <1>2, <2>2, <3>1
    <3>3. j \in S
      BY <1>2, <3>1, <3>2
    <3> QED
      BY <1>4, <3>1, <3>3
  <2> QED
    BY <2>1, <2>2
<1>7. ASSUME ~Hit(table, S, b, p, l), NEW j \in 1 .. n, StandsAt(w(j), b, p)
      PROVE  \E i \in 1 .. j : Below(w(i), b, p)
  <2>1. Compared(w(j), b, p) = 0
    BY <1>2, <1>7
  <2>2. j \in S
    BY <1>2, <2>1
  <2>3. m \in 1 .. n /\ m \in S /\ m <= j
    BY <1>4, <2>2
  <2>4. Breaks(w(m), b, p, l) \/ Compared(w(m), b, p) # 0
    BY <1>5, <1>7, <2>2
  <2>5. Below(w(m), b, p)
    BY <1>2, <2>3, <2>4
  <2>6. m \in 1 .. j
    BY <2>3
  <2> QED
    BY <2>5, <2>6
<1> QED
  BY <1>6, <1>7 DEF m, w, l

\* Of two phrases in order that both stand at a place the first is no shorter.
LEMMA OrderStands ==
    ASSUME NEW u \in Phrases, NEW v \in Phrases, Order(u, v), NEW b, NEW p,
           StandsAt(u, b, p), StandsAt(v, b, p)
    PROVE  Len(v) <= Len(u)
<1>1. ASSUME NEW k \in 1 .. Len(u), Before(u, v, k) PROVE FALSE
  <2>1. u[k] < v[k] /\ u[k] = v[k]
    BY <1>1 DEF Before, StandsAt
  <2>2. u \in Seq(Chars)
    BY PhraseTypes
  <2>3. u[k] \in Chars
    BY <2>2
  <2>4. u[k] \in Nat
    BY <2>3, CharAssumption
  <2> QED
    BY <2>1, <2>4
<1> QED
  BY <1>1 DEF Order, Begins

\* Where the memory is below the first of two phrases in order and the second
\* stands, the second begins the first.
LEMMA OrderBelow ==
    ASSUME NEW u \in Phrases, NEW v \in Phrases, Order(u, v), NEW b, NEW p,
           Below(u, b, p), StandsAt(v, b, p)
    PROVE  Begins(v, u)
<1>1. /\ \A i \in 1 .. Len(u) : u[i] \in Nat
      /\ \A i \in 1 .. Len(v) : v[i] \in Nat
      /\ Len(u) \in Nat /\ Len(v) \in Nat
  <2>1. u \in Seq(Chars) /\ v \in Seq(Chars)
    BY PhraseTypes
  <2>2. \A i \in 1 .. Len(u) : u[i] \in Chars
    BY <2>1
  <2>3. \A i \in 1 .. Len(v) : v[i] \in Chars
    BY <2>1
  <2>4. \A x \in Chars : x \in Nat
    BY CharAssumption
  <2>5. Len(u) \in Nat /\ Len(v) \in Nat
    BY <2>1
  <2> QED
    BY <2>2, <2>3, <2>4, <2>5
<1>2. PICK m \in 1 .. Len(u) : b[p + m - 1] < u[m] /\ \A i \in 1 .. m - 1 : b[p + i - 1] = u[i]
  BY DEF Below
<1>3. ASSUME NEW k \in 1 .. Len(u), Before(u, v, k) PROVE FALSE
  <2>1. k \in 1 .. Len(v) /\ u[k] < v[k] /\ \A i \in 1 .. k - 1 : u[i] = v[i]
    BY <1>3 DEF Before
  <2>2. CASE k < m
    <3>1. b[p + k - 1] = u[k] /\ b[p + k - 1] = v[k]
      BY <1>2, <2>1, <2>2 DEF StandsAt
    <3> QED
      BY <1>1, <2>1, <3>1
  <2>3. CASE k = m
    <3>1. b[p + k - 1] = v[k] /\ b[p + k - 1] < u[k]
      BY <1>2, <2>1, <2>3 DEF StandsAt
    <3>2. v[k] < u[k] /\ v[k] \in Nat /\ u[k] \in Nat
      BY <1>1, <2>1, <3>1
    <3> QED
      BY <2>1, <3>2
  <2>4. CASE m < k
    <3>1. m \in 1 .. k - 1 /\ m \in 1 .. Len(v)
      BY <1>1, <2>1, <2>4
    <3>2. u[m] = v[m] /\ b[p + m - 1] = v[m]
      BY <2>1, <3>1 DEF StandsAt
    <3> QED
      BY <1>1, <1>2, <3>2
  <2> QED
    BY <2>2, <2>3, <2>4
<1> QED
  BY <1>3 DEF Order

LEMMA PrefixBegins ==
    ASSUME NEW u \in Seq(Chars), NEW v \in Seq(Chars)
    PROVE  IsPrefix(v, u) <=> Begins(v, u)
<1> DEFINE n == Len(v)
<1>1. IsPrefix(v, u) <=> n <= Len(u) /\ First(v, n) = First(u, n)
  BY DEF IsPrefix, First
<1>2. SUFFICES ASSUME n <= Len(u)
               PROVE  First(v, n) = First(u, n) <=> \A i \in 1 .. n : u[i] = v[i]
  BY <1>1 DEF Begins
<1> DEFINE x == First(v, n)
           y == First(u, n)
<1>3. /\ x \in Seq(Chars) /\ y \in Seq(Chars) /\ Len(x) = n /\ Len(y) = n
      /\ \A i \in 1 .. n : x[i] = v[i] /\ y[i] = u[i]
  <2>1. n \in 0 .. Len(v) /\ n \in 0 .. Len(u)
    BY <1>2
  <2> HIDE DEF n
  <2> QED
    BY <2>1, FirstOf
<1> HIDE DEF x, y
<1>4. x = y => \A i \in 1 .. n : u[i] = v[i]
  BY <1>3
<1>5. (\A i \in 1 .. n : u[i] = v[i]) => \A i \in 1 .. n : x[i] = y[i]
  BY <1>3
<1>6. (\A i \in 1 .. n : x[i] = y[i]) => x = y
  BY <1>3
<1> QED
  BY <1>4, <1>5, <1>6 DEF x, y

\* A phrase fits the text from p to e if it stands there and ends in it.
LEMMA FitsIs ==
    ASSUME NEW w \in Phrases, NEW b \in Seq(Chars), NEW e \in 0 .. Len(b), NEW p \in 1 .. e
    PROVE  IsPrefix(w, SubSeq(b, p, e)) <=> Len(w) <= e - p + 1 /\ StandsAt(w, b, p)
<1> DEFINE t == SubSeq(b, p, e)
           n == e - p + 1
<1>1. /\ t \in Seq(Chars) /\ Len(t) = n /\ \A k \in 1 .. n : t[k] = b[p + k - 1]
  <2>1. n \in Nat /\ p + n - 1 = e /\ p \in 1 .. Len(b) /\ p + n - 1 <= Len(b)
    OBVIOUS
  <2> HIDE DEF n
  <2>2. /\ SubSeq(b, p, p + n - 1) \in Seq(Chars) /\ Len(SubSeq(b, p, p + n - 1)) = n
        /\ \A k \in 1 .. n : SubSeq(b, p, p + n - 1)[k] = b[p + k - 1]
    BY <2>1, PartOfMemory
  <2> QED
    BY <2>1, <2>2
<1>2. w \in Seq(Chars) /\ Len(w) \in Nat /\ n \in Nat
  BY PhraseTypes
<1> HIDE DEF t, n
<1>3. IsPrefix(w, t) <=> Begins(w, t)
  BY <1>1, <1>2, PrefixBegins
<1>4. Len(w) <= n => (\A i \in 1 .. Len(w) : t[i] = b[p + i - 1])
  BY <1>1, <1>2
<1>5. Begins(w, t) <=> Len(w) <= n /\ StandsAt(w, b, p)
  BY <1>1, <1>4 DEF Begins, StandsAt
<1> QED
  BY <1>3, <1>5 DEF t, n

-----------------------------------------------------------------------------
(* The invariant *)

\* The buckets hold what was added, each rule in the bucket of the character its
\* phrase begins with, and the sorted arrays hold the same.
Loaded ==
    /\ phase \in {"load", "ready", "convert"}
    /\ nrules \in 0 .. MaxRules
    /\ body \in [Chars -> Seq(Rules(nrules))]
    /\ \A c \in Chars : \A r \in ToSet(body[c]) : Empty(r) \/ r.realcode[1] = c
    /\ phase # "load" => \A c \in Chars : rules[c] \in Sorted(body[c])

Piece == [kind : {"phrase"}, of : Seq(Chars), by : Nat] \cup [kind : {"char"}, of : Seq(Chars)]

\* While a text is converted, memory lies behind it for every phrase.
Converting ==
    /\ inbuf \in Seq(Chars) /\ pend \in 0 .. Len(inbuf) /\ pcur \in 1 .. Len(inbuf) + 1
    /\ phase = "convert" => \A w \in Phrases : pend + Len(w) <= Len(inbuf) + 1
    /\ phase # "convert" => last = NoMatch
    /\ last.at \in 0 .. Len(inbuf) /\ last.rule \in AllRules \cup {NoRule}
    /\ last.exit \in {"hit", "break", "above", "end"}
    /\ out \in Seq(Piece)

Inv == Loaded /\ Converting /\ NothingSkipped /\ LongestWins /\ FoundIfNoneNests

LEMMA AllRulesTypes ==
    ASSUME Loaded, NEW r \in AllRules
    PROVE  /\ r \in Rules(nrules) /\ r.realcode \in Phrases /\ r.lenrep \in 1 .. nrules
           /\ r # NoRule
           /\ ~Empty(r) => r.realcode[1] \in Chars /\ r \in ToSet(body[r.realcode[1]])
<1>1. PICK c \in Chars : r \in ToSet(body[c])
  BY DEF AllRules
<1>2. r \in Rules(nrules)
  <2>1. body[c] \in Seq(Rules(nrules))
    BY DEF Loaded
  <2> QED
    BY <1>1, <2>1 DEF ToSet
<1>3. r.realcode \in Phrases /\ r.lenrep \in 1 .. nrules
  BY <1>2 DEF Rules
<1>4. r # NoRule
  BY <1>3 DEF NoRule
<1>5. Empty(r) \/ r.realcode[1] = c
  BY <1>1 DEF Loaded
<1> QED
  BY <1>1, <1>2, <1>3, <1>4, <1>5

\* What is known of a bucket that is ready.
LEMMA BucketTypes ==
    ASSUME Loaded, phase # "load", NEW c \in Chars
    PROVE  \E n \in Nat :
              /\ DOMAIN rules[c] = 1 .. n
              /\ \A i \in 1 .. n : rules[c][i] \in AllRules /\ rules[c][i].realcode \in Phrases
              /\ \A i, j \in 1 .. n : i <= j => Order(rules[c][i].realcode, rules[c][j].realcode)
              /\ \A r \in ToSet(body[c]) : \E i \in 1 .. n : rules[c][i] = r
<1> DEFINE s == rules[c]
           list == body[c]
           n == Len(list)
<1>1. list \in Seq(Rules(nrules)) /\ s \in Sorted(list) /\ n \in Nat
  BY DEF Loaded
<1>2. /\ DOMAIN s = 1 .. n /\ \A i \in DOMAIN s : s[i] \in ToSet(list)
      /\ \A i, j \in DOMAIN s : i <= j => Order(s[i].realcode, s[j].realcode)
  <2> HIDE DEF s, list
  <2> QED
    BY <1>1, SortedOrder
<1>3. ToSet(s) = ToSet(list)
  BY <1>1 DEF Sorted
<1>4. \A r \in ToSet(list) : \E i \in 1 .. n : s[i] = r
  BY <1>2, <1>3 DEF ToSet
<1>5. \A i \in 1 .. n : s[i] \in AllRules
  BY <1>2 DEF AllRules
<1>6. \A i \in 1 .. n : s[i].realcode \in Phrases
  BY <1>5, AllRulesTypes
<1> HIDE DEF n
<1> QED
  BY <1>1, <1>2, <1>4, <1>5, <1>6

\* matchRule finds the longest phrase that stands where it looks; if none of the
\* file begins another, it misses none.
LEMMA MatchFinds ==
    ASSUME Loaded, Converting, phase = "convert", pcur <= pend
    PROVE  /\ matchRule.at = pcur /\ matchRule.exit \in {"hit", "break", "above", "end"}
           /\ matchRule.rule \in AllRules \cup {NoRule}
           /\ matchRule.rule # NoRule =>
                 /\ StandsAt(matchRule.rule.realcode, inbuf, pcur)
                 /\ \A r \in AllRules : StandsAt(r.realcode, inbuf, pcur) =>
                        Len(r.realcode) <= Len(matchRule.rule.realcode)
           /\ matchRule.rule = NoRule /\ NoneNests =>
                 \A r \in AllRules : Empty(r) \/ ~StandsAt(r.realcode, inbuf, pcur)
<1> DEFINE c == inbuf[pcur]
           s == rules[c]
           S == Stops(s, inbuf, pcur, nLeft)
           m == Min(S)
           hit == Hit(s, S, inbuf, pcur, nLeft)
<1>1. /\ matchRule.at = pcur /\ matchRule.exit \in {"hit", "break", "above", "end"}
      /\ matchRule.rule = IF hit THEN s[m] ELSE NoRule
  BY MatchRuleIs DEF Hit
<1>2. Room(inbuf, pcur, pend) /\ inbuf \in Seq(Chars) /\ pcur \in 1 .. Len(inbuf) /\ c \in Chars
  <2>1. inbuf \in Seq(Chars) /\ pend \in 0 .. Len(inbuf) /\ pcur \in 1 .. Len(inbuf) + 1
    BY DEF Converting
  <2>2. pcur \in 1 .. pend /\ pcur \in 1 .. Len(inbuf)
    BY <2>1
  <2> QED
    BY <2>1, <2>2 DEF Converting, Room
<1> HIDE DEF c
<1>3. PICK n \in Nat :
              /\ DOMAIN s = 1 .. n
              /\ \A i \in 1 .. n : s[i] \in AllRules /\ s[i].realcode \in Phrases
              /\ \A i, j \in 1 .. n : i <= j => Order(s[i].realcode, s[j].realcode)
              /\ \A r \in ToSet(body[c]) : \E i \in 1 .. n : s[i] = r
  BY <1>2, BucketTypes
<1>4. ASSUME NEW r \in AllRules, ~Empty(r), StandsAt(r.realcode, inbuf, pcur)
      PROVE  \E j \in 1 .. n : s[j] = r
  <2>1. r.realcode[1] = c
    <3>1. r.realcode \in Phrases
      BY AllRulesTypes
    <3>2. 1 \in 1 .. Len(r.realcode) /\ pcur + 1 - 1 = pcur
      BY <1>2, <1>4, <3>1, PhraseTypes DEF Empty
    <3> QED
      BY <1>4, <3>2 DEF StandsAt, c
  <2> QED
    BY <1>3, <1>4, <2>1, AllRulesTypes
<1> HIDE DEF s
<1>5. /\ hit => /\ m \in 1 .. n /\ StandsAt(s[m].realcode, inbuf, pcur)
                /\ \A j \in 1 .. m - 1 : ~StandsAt(s[j].realcode, inbuf, pcur)
      /\ ~hit => \A j \in 1 .. n : StandsAt(s[j].realcode, inbuf, pcur) =>
                     \E i \in 1 .. j : Below(s[i].realcode, inbuf, pcur)
  <2>1. nLeft = pend - pcur + 1
    BY DEF nLeft
  <2>2. S = Stops(s, inbuf, pcur, pend - pcur + 1) /\ hit = Hit(s, S, inbuf, pcur, pend - pcur + 1)
    BY <2>1
  <2> HIDE DEF S, hit
  <2> QED
    BY <1>2, <1>3, <2>2, ScanFinds
<1> HIDE DEF S, m, hit
<1>6. matchRule.rule \in AllRules \cup {NoRule}
  BY <1>1, <1>3, <1>5
<1>7. ASSUME matchRule.rule # NoRule
      PROVE  /\ StandsAt(matchRule.rule.realcode, inbuf, pcur)
             /\ \A r \in AllRules : StandsAt(r.realcode, inbuf, pcur) =>
                    Len(r.realcode) <= Len(matchRule.rule.realcode)
  <2>1. /\ matchRule.rule = s[m] /\ m \in 1 .. n /\ StandsAt(s[m].realcode, inbuf, pcur)
        /\ \A j \in 1 .. m - 1 : ~StandsAt(s[j].realcode, inbuf, pcur)
    BY <1>1, <1>5, <1>7
  <2>2. ASSUME NEW r \in AllRules, StandsAt(r.realcode, inbuf, pcur)
        PROVE  Len(r.realcode) <= Len(s[m].realcode)
    <3>0. CASE Empty(r)
      <4>1. s[m].realcode \in Phrases
        BY <1>3, <2>1
      <4>2. Len(s[m].realcode) \in Nat /\ Len(r.realcode) = 0
        BY <3>0, <4>1, PhraseTypes DEF Empty
      <4> QED
        BY <4>2
    <3> SUFFICES ASSUME ~Empty(r) PROVE Len(r.realcode) <= Len(s[m].realcode)
      BY <3>0
    <3>1. PICK j \in 1 .. n : s[j] = r
      BY <1>4, <2>2
    <3>2. m <= j
      <4>1. j \notin 1 .. m - 1
        BY <2>1, <2>2, <3>1
      <4> QED
        BY <2>1, <4>1
    <3>3. Order(s[m].realcode, s[j].realcode)
      BY <1>3, <2>1, <3>2
    <3>4. s[m].realcode \in Phrases /\ s[j].realcode \in Phrases
      BY <1>3, <2>1
    <3> QED
      BY <2>1, <2>2, <3>1, <3>3, <3>4, OrderStands
  <2> QED
    BY <2>1, <2>2
<1>8. ASSUME matchRule.rule = NoRule, NoneNests, NEW r \in AllRules, ~Empty(r),
             StandsAt(r.realcode, inbuf, pcur)
      PROVE  FALSE
  <2>1. ~hit
    <3>1. hit => s[m] # NoRule
      BY <1>3, <1>5, AllRulesTypes
    <3> QED
      BY <1>1, <1>8, <3>1
  <2>2. PICK j \in 1 .. n : s[j] = r
    BY <1>4, <1>8
  <2>3. PICK i \in 1 .. j : Below(s[i].realcode, inbuf, pcur)
    BY <1>5, <1>8, <2>1, <2>2
  <2> DEFINE u == s[i].realcode
             v == s[j].realcode
  <2>4. i \in 1 .. n /\ i <= j
    OBVIOUS
  <2>5. u \in Phrases /\ v \in Phrases /\ Order(u, v) /\ s[i] \in AllRules /\ s[j] \in AllRules
    BY <1>3, <2>4
  <2>6. StandsAt(v, inbuf, pcur) /\ Below(u, inbuf, pcur)
    BY <1>8, <2>2, <2>3
  <2>7. Begins(v, u)
    <3> HIDE DEF u, v
    <3> QED
      BY <2>5, <2>6, OrderBelow
  <2>8. v = u
    <3>1. IsPrefix(v, u)
      <4> HIDE DEF u, v
      <4> QED
        BY <2>5, <2>7, PhraseTypes, PrefixBegins
    <3> QED
      BY <1>8, <2>2, <2>5, <3>1 DEF NoneNests
  <2>9. pcur + Len(u) - 1 <= Len(inbuf)
    <3>1. pend + Len(u) <= Len(inbuf) + 1 /\ Len(u) \in Nat /\ pend \in 0 .. Len(inbuf) /\ pcur \in 1 .. pend
      <4> HIDE DEF u, v
      <4> QED
        BY <1>2, <2>5, PhraseTypes DEF Room
    <3> HIDE DEF u
    <3> QED
      BY <1>2, <3>1
  <2> HIDE DEF u, v
  <2> QED
    BY <1>2, <2>5, <2>6, <2>8, <2>9, BelowStandsNot
<1> QED
  BY <1>1, <1>6, <1>7, <1>8

-----------------------------------------------------------------------------
(* The invariant holds *)

LEMMA NothingWritten ==
    ASSUME NEW b
    PROVE  Stands(<<>>) = SubSeq(b, 1, 1 - 1)
<1>1. Stands(<<>>) = <<>>
  BY FlattenEmpty DEF Stands
<1>2. SubSeq(b, 1, 1 - 1) = <<>>
  BY SubSeqEmpty
<1> QED
  BY <1>1, <1>2

LEMMA InitInv == Init => Inv
<1> SUFFICES ASSUME Init PROVE Inv
  OBVIOUS
<1>1. Loaded
  <2>1. <<>> \in Seq(Rules(nrules)) /\ ToSet(<<>>) = {}
    BY DEF ToSet
  <2>2. nrules \in 0 .. MaxRules
    BY RulesAssumption DEF Init
  <2> QED
    BY <2>1, <2>2 DEF Init, Loaded
<1>2. Converting
  <2>1. <<>> \in Seq(Chars) /\ <<>> \in Seq(Piece) /\ Len(<<>>) = 0
    OBVIOUS
  <2> QED
    BY <2>1 DEF Init, Converting, NoMatch
<1>3. NothingSkipped
  BY NothingWritten DEF Init, NothingSkipped, Stands
<1>4. LongestWins /\ FoundIfNoneNests
  BY DEF Init, NoMatch, LongestWins, FoundIfNoneNests
<1> QED
  BY <1>1, <1>2, <1>3, <1>4 DEF Inv

LEMMA AddRuleInv ==
    ASSUME Inv, NEW w1 \in Phrases, AddRule(w1)
    PROVE  Inv'
<1>0. PICK c \in Chars :
         /\ w1 = <<>> \/ c = w1[1]
         /\ body' = [body EXCEPT ![c] = <<[realcode |-> w1, lenrep |-> nrules + 1]>> \o body[c]]
  BY PhraseTypes DEF AddRule
<1> DEFINE e == [realcode |-> w1, lenrep |-> nrules + 1]
           R == Rules(nrules + 1)
<1>1. /\ phase = "load" /\ nrules < MaxRules /\ nrules' = nrules + 1
      /\ body' = [body EXCEPT ![c] = <<e>> \o body[c]]
      /\ UNCHANGED <<rules, phase, inbuf, pend, pcur, last, out>>
  BY <1>0 DEF AddRule, text
<1>2. /\ nrules \in 0 .. MaxRules /\ body \in [Chars -> Seq(Rules(nrules))]
      /\ \A d \in Chars : \A r \in ToSet(body[d]) : Empty(r) \/ r.realcode[1] = d
      /\ last = NoMatch
  BY <1>1 DEF Inv, Loaded, Converting
<1>3. c \in Chars /\ w1 \in Phrases
  OBVIOUS
<1>4. nrules + 1 \in 0 .. MaxRules /\ e \in R
  <2>1. nrules + 1 \in 0 .. MaxRules /\ nrules + 1 \in 1 .. nrules + 1
    BY <1>1, <1>2, RulesAssumption
  <2> QED
    BY <2>1 DEF Rules
<1>5. \A d \in Chars : body[d] \in Seq(R)
  <2>1. Rules(nrules) \subseteq R
    BY <1>2 DEF Rules
  <2>2. ASSUME NEW d \in Chars PROVE body[d] \in Seq(R)
    <3> DEFINE s == body[d]
    <3>1. s \in Seq(Rules(nrules))
      BY <1>2
    <3> HIDE DEF s, R
    <3> QED
      BY <2>1, <3>1, SeqMonotonic DEF s
  <2> QED
    BY <2>2
<1> HIDE DEF e, R
<1>6. /\ <<e>> \o body[c] \in Seq(R) /\ ToSet(<<e>> \o body[c]) = {e} \cup ToSet(body[c])
  <2> DEFINE s == body[c]
  <2>1. s \in Seq(R)
    BY <1>3, <1>5
  <2> HIDE DEF s
  <2>2. /\ <<e>> \o s \in Seq(R) /\ Len(<<e>> \o s) = 1 + Len(s) /\ Len(s) \in Nat
        /\ (<<e>> \o s)[1] = e /\ \A i \in 1 .. Len(s) : (<<e>> \o s)[i + 1] = s[i]
    BY <1>4, <2>1
  <2>3. ToSet(<<e>> \o s) = {e} \cup ToSet(s)
    <3> DEFINE t == <<e>> \o s
    <3> HIDE DEF t
    <3>1. DOMAIN t = 1 .. 1 + Len(s) /\ DOMAIN s = 1 .. Len(s)
      BY <2>1, <2>2 DEF t
    <3>2. ASSUME NEW i \in 1 .. 1 + Len(s) PROVE t[i] \in {e} \cup ToSet(s)
      <4>1. i = 1 \/ (i - 1 \in 1 .. Len(s) /\ (i - 1) + 1 = i)
        BY <2>2
      <4>2. ASSUME i - 1 \in 1 .. Len(s), (i - 1) + 1 = i PROVE t[i] = s[i - 1]
        BY <2>2, <4>2 DEF t
      <4> QED
        BY <2>2, <3>1, <4>1, <4>2 DEF ToSet, t
    <3>3. ASSUME NEW i \in 1 .. Len(s) PROVE s[i] \in ToSet(t)
      <4>1. i + 1 \in 1 .. 1 + Len(s) /\ t[i + 1] = s[i]
        BY <2>2 DEF t
      <4> QED
        BY <3>1, <4>1 DEF ToSet
    <3>4. e \in ToSet(t)
      <4>1. 1 \in 1 .. 1 + Len(s) /\ t[1] = e
        BY <2>2 DEF t
      <4> QED
        BY <3>1, <4>1 DEF ToSet
    <3>5. ToSet(t) \subseteq {e} \cup ToSet(s)
      BY <3>1, <3>2 DEF ToSet
    <3>6. ToSet(s) \subseteq ToSet(t)
      BY <3>1, <3>3 DEF ToSet
    <3> QED
      BY <3>4, <3>5, <3>6 DEF t
  <2> QED
    BY <2>2, <2>3 DEF s
<1>7. body' \in [Chars -> Seq(R)]
  BY <1>1, <1>2, <1>3, <1>5, <1>6
<1>8. \A d \in Chars : \A r \in ToSet(body'[d]) : Empty(r) \/ r.realcode[1] = d
  <2>1. \A d \in Chars : d # c => body'[d] = body[d]
    BY <1>1, <1>2
  <2>2. body'[c] = <<e>> \o body[c]
    BY <1>1, <1>2, <1>3
  <2>3. Empty(e) \/ e.realcode[1] = c
    BY <1>0 DEF e, Empty
  <2> QED
    BY <1>2, <1>3, <1>6, <2>1, <2>2, <2>3
<1>9. Loaded'
  <2>1. nrules' \in 0 .. MaxRules /\ body' \in [Chars -> Seq(Rules(nrules'))]
    BY <1>1, <1>4, <1>7 DEF R
  <2>2. phase' = "load"
    BY <1>1
  <2> QED
    BY <1>8, <2>1, <2>2 DEF Loaded, Empty
<1>10. Converting'
  <2>1. last' = NoMatch /\ phase' = "load"
    BY <1>1, <1>2
  <2> QED
    BY <1>1, <2>1 DEF Inv, Converting, NoMatch
<1>11. NothingSkipped'
  BY <1>1 DEF Inv, NothingSkipped
<1>12. (LongestWins /\ FoundIfNoneNests)'
  BY <1>1, <1>2 DEF NoMatch, LongestWins, FoundIfNoneNests
<1> QED
  BY <1>9, <1>10, <1>11, <1>12 DEF Inv

LEMMA AdjustInv == Inv /\ Adjust => Inv'
<1> SUFFICES ASSUME Inv, Adjust PROVE Inv'
  OBVIOUS
<1>1. /\ phase = "load" /\ phase' = "ready" /\ \A c \in Chars : rules'[c] \in Sorted(body[c])
      /\ UNCHANGED <<body, nrules, inbuf, pend, pcur, last, out>>
  BY DEF Adjust, text
<1>2. last = NoMatch
  BY <1>1 DEF Inv, Converting
<1>3. Loaded'
  BY <1>1 DEF Inv, Loaded
<1>4. Converting'
  BY <1>1, <1>2 DEF Inv, Converting, NoMatch
<1>5. NothingSkipped'
  BY <1>1 DEF Inv, NothingSkipped
<1>6. (LongestWins /\ FoundIfNoneNests)'
  BY <1>1, <1>2 DEF NoMatch, LongestWins, FoundIfNoneNests
<1> QED
  BY <1>3, <1>4, <1>5, <1>6 DEF Inv

LEMMA ConvertInv ==
    ASSUME Inv, NEW t \in Texts, NEW b \in Behind, Convert(t, b)
    PROVE  Inv'
<1>1. /\ phase = "ready" /\ phase' = "convert" /\ inbuf' = t \o b /\ pend' = Len(t) /\ pcur' = 1
      /\ out' = <<>> /\ last' = NoMatch /\ UNCHANGED <<body, rules, nrules>>
  BY DEF Convert
<1>2. /\ t \in Seq(Chars) /\ b \in Seq(Chars) /\ Len(t) \in Nat /\ Len(b) \in Nat
      /\ \A w \in Phrases : Len(w) <= Len(b) + 1
  BY TextAssumption, BehindAssumption
<1>3. inbuf' \in Seq(Chars) /\ Len(inbuf') = Len(t) + Len(b)
  BY <1>1, <1>2
<1>4. \A w \in Phrases : pend' + Len(w) <= Len(inbuf') + 1
  <2>1. ASSUME NEW w \in Phrases PROVE Len(t) + Len(w) <= Len(t) + Len(b) + 1
    <3>1. Len(w) \in Nat /\ Len(w) <= Len(b) + 1
      BY <1>2, PhraseTypes
    <3> QED
      BY <1>2, <3>1
  <2> QED
    BY <1>1, <1>3, <2>1
<1>5. Loaded'
  BY <1>1 DEF Inv, Loaded
<1>6. Converting'
  <2>1. pend' \in 0 .. Len(inbuf') /\ pcur' \in 1 .. Len(inbuf') + 1 /\ 0 \in 0 .. Len(inbuf')
    BY <1>1, <1>2, <1>3
  <2>2. out' \in Seq(Piece)
    BY <1>1
  <2> QED
    BY <1>1, <1>3, <1>4, <2>1, <2>2 DEF Converting, NoMatch
<1>7. NothingSkipped'
  BY <1>1, NothingWritten DEF NothingSkipped, Stands
<1>8. (LongestWins /\ FoundIfNoneNests)'
  BY <1>1 DEF NoMatch, LongestWins, FoundIfNoneNests
<1> QED
  BY <1>5, <1>6, <1>7, <1>8 DEF Inv

LEMMA FinishInv == Inv /\ Finish => Inv'
<1> SUFFICES ASSUME Inv, Finish PROVE Inv'
  OBVIOUS
<1>1. /\ phase = "convert" /\ phase' = "ready" /\ inbuf' = <<>> /\ pend' = 0 /\ pcur' = 1
      /\ out' = <<>> /\ last' = NoMatch /\ UNCHANGED <<body, rules, nrules>>
  BY DEF Finish
<1>2. Loaded'
  BY <1>1 DEF Inv, Loaded
<1>3. Converting'
  <2>1. <<>> \in Seq(Chars) /\ <<>> \in Seq(Piece) /\ Len(<<>>) = 0
    OBVIOUS
  <2> QED
    BY <1>1, <2>1 DEF Converting, NoMatch
<1>4. NothingSkipped'
  BY <1>1, NothingWritten DEF NothingSkipped, Stands
<1>5. (LongestWins /\ FoundIfNoneNests)'
  BY <1>1 DEF NoMatch, LongestWins, FoundIfNoneNests
<1> QED
  BY <1>2, <1>3, <1>4, <1>5 DEF Inv

LEMMA PieceStands ==
    ASSUME NEW o \in Seq(Piece), NEW e \in Piece
    PROVE  Stands(Append(o, e)) = Stands(o) \o e.of
<1>1. Standing(Piece, Chars)
  BY DEF Standing, Piece
<1> QED
  BY <1>1, StandsAppend

\* matchRule has been called where the conversion is, and the place is moved on.
LEMMA MatchedInv ==
    ASSUME Inv, phase = "convert", pcur <= pend, last' = matchRule,
           pcur' \in 1 .. Len(inbuf) + 1, out' \in Seq(Piece), NothingSkipped',
           UNCHANGED <<body, rules, nrules, phase, inbuf, pend>>
    PROVE  Inv'
<1>1. /\ inbuf \in Seq(Chars) /\ Len(inbuf) \in Nat /\ pend \in 0 .. Len(inbuf)
      /\ pcur \in 1 .. Len(inbuf) /\ pcur \in 1 .. pend /\ out \in Seq(Piece)
  <2>1. inbuf \in Seq(Chars) /\ pend \in 0 .. Len(inbuf) /\ pcur \in 1 .. Len(inbuf) + 1
        /\ out \in Seq(Piece)
    BY DEF Inv, Converting
  <2>2. Len(inbuf) \in Nat
    BY <2>1
  <2> QED
    BY <2>1, <2>2
<1>2. /\ matchRule.at = pcur /\ matchRule.exit \in {"hit", "break", "above", "end"}
      /\ matchRule.rule \in AllRules \cup {NoRule}
      /\ matchRule.rule # NoRule =>
            /\ StandsAt(matchRule.rule.realcode, inbuf, pcur)
            /\ \A r \in AllRules : StandsAt(r.realcode, inbuf, pcur) =>
                   Len(r.realcode) <= Len(matchRule.rule.realcode)
      /\ matchRule.rule = NoRule /\ NoneNests =>
            \A r \in AllRules : Empty(r) \/ ~StandsAt(r.realcode, inbuf, pcur)
  BY MatchFinds DEF Inv
<1>3. Loaded /\ Loaded'
  BY DEF Inv, Loaded
<1> DEFINE t == SubSeq(inbuf, pcur, pend)
           found == matchRule.rule
<1>4. AllRules' = AllRules /\ (NoneNests' <=> NoneNests) /\ Rest' = t /\ last'.rule = found
  <2>1. AllRules' = AllRules
    BY DEF AllRules
  <2>2. NoneNests' <=> NoneNests
    BY <2>1 DEF NoneNests
  <2>3. Rest' = t
    BY <1>2 DEF Rest
  <2> QED
    BY <2>1, <2>2, <2>3
<1>5. \A r \in AllRules : IsPrefix(r.realcode, t)
                             <=> Len(r.realcode) <= pend - pcur + 1 /\ StandsAt(r.realcode, inbuf, pcur)
  <2>1. ASSUME NEW r \in AllRules
        PROVE  IsPrefix(r.realcode, t)
                  <=> Len(r.realcode) <= pend - pcur + 1 /\ StandsAt(r.realcode, inbuf, pcur)
    <3>1. r.realcode \in Phrases
      BY <1>3, AllRulesTypes
    <3> QED
      BY <1>1, <3>1, FitsIs
  <2> QED
    BY <2>1
<1>6. Converting'
  <2>1. pcur' \in 1 .. Len(inbuf') + 1 /\ last'.at \in 0 .. Len(inbuf')
    BY <1>1, <1>2
  <2> QED
    BY <1>1, <1>2, <1>4, <2>1 DEF Inv, Converting
<1>8. LongestWins'
  <2>1. Len(t) = pend - pcur + 1
    <3>1. \A i \in pcur .. pend : inbuf[i] \in Chars
      BY <1>1
    <3>2. Len(t) = IF pcur <= pend THEN pend - pcur + 1 ELSE 0
      BY <1>1, <3>1, SubSeqProperties
    <3> QED
      BY <3>2
  <2> HIDE DEF t, found
  <2>2. ASSUME found # NoRule, Len(found.realcode) <= Len(t)
        PROVE  /\ IsPrefix(found.realcode, t)
               /\ \A r \in AllRules : IsPrefix(r.realcode, t) => Len(r.realcode) <= Len(found.realcode)
    <3>1. found \in AllRules /\ StandsAt(found.realcode, inbuf, pcur)
      BY <1>2, <2>2 DEF found
    <3>2. ASSUME NEW r \in AllRules, IsPrefix(r.realcode, t)
          PROVE  Len(r.realcode) <= Len(found.realcode)
      BY <1>2, <1>5, <2>2, <3>2 DEF found
    <3> QED
      BY <1>5, <2>1, <2>2, <3>1, <3>2
  <2>3. LongestWins' <=>
           (last'.rule # NoRule /\ Len(last'.rule.realcode) <= Len(Rest') =>
              /\ IsPrefix(last'.rule.realcode, Rest')
              /\ \A r \in AllRules' : IsPrefix(r.realcode, Rest')
                                          => Len(r.realcode) <= Len(last'.rule.realcode))
    BY DEF LongestWins, Fits, lenreal
  <2> QED
    BY <1>4, <2>2, <2>3
<1>9. FoundIfNoneNests'
  <2> HIDE DEF t, found
  <2>1. ASSUME found = NoRule, NoneNests, NEW r \in AllRules, ~Empty(r)
        PROVE  ~IsPrefix(r.realcode, t)
    BY <1>2, <1>5, <2>1 DEF found
  <2>2. FoundIfNoneNests' <=>
           (last'.at > 0 /\ NoneNests' =>
              \A r \in AllRules' : ~Empty(r) /\ IsPrefix(r.realcode, Rest') => last'.rule # NoRule)
    BY DEF FoundIfNoneNests, Fits, Empty
  <2> QED
    BY <1>4, <2>1, <2>2
<1> QED
  BY <1>3, <1>6, <1>8, <1>9 DEF Inv

\* n characters are passed, and a piece that stands for them is written.
LEMMA PassInv ==
    ASSUME Inv, phase = "convert", pcur <= pend, NEW n \in Nat, pcur + n - 1 <= Len(inbuf),
           NEW e \in Piece, e.of = SubSeq(inbuf, pcur, pcur + n - 1),
           out' = Append(out, e), pcur' = pcur + n, last' = matchRule,
           UNCHANGED <<body, rules, nrules, phase, inbuf, pend>>
    PROVE  Inv'
<1>1. /\ inbuf \in Seq(Chars) /\ Len(inbuf) \in Nat /\ pend \in 0 .. Len(inbuf)
      /\ pcur \in 1 .. Len(inbuf) /\ pcur \in 1 .. pend /\ out \in Seq(Piece)
  <2>1. inbuf \in Seq(Chars) /\ pend \in 0 .. Len(inbuf) /\ pcur \in 1 .. Len(inbuf) + 1
        /\ out \in Seq(Piece)
    BY DEF Inv, Converting
  <2>2. Len(inbuf) \in Nat
    BY <2>1
  <2> QED
    BY <2>1, <2>2
<1>2. NothingSkipped'
  <2>2. Stands(Append(out, e)) = Stands(out) \o e.of
    BY <1>1, PieceStands
  <2>3. Stands(out) = SubSeq(inbuf, 1, pcur - 1)
    BY DEF Inv, NothingSkipped, Stands
  <2> DEFINE k == pcur - 1
             j == pcur + n - 1
  <2>4. k \in 1 - 1 .. Len(inbuf) /\ j \in k .. Len(inbuf) /\ 1 \in 1 .. Len(inbuf) + 1 /\ k + 1 = pcur
        /\ pcur + n - 1 = j /\ (pcur + n) - 1 = j
    BY <1>1
  <2>5. SubSeq(inbuf, 1, k) \o SubSeq(inbuf, k + 1, j) = SubSeq(inbuf, 1, j)
    <3> HIDE DEF k, j
    <3> QED
      BY <1>1, <2>4, ConcatAdjacentSubSeq
  <2>6. Stands(out') = SubSeq(inbuf, 1, j)
    <3>1. e.of = SubSeq(inbuf, k + 1, j) /\ Stands(out) = SubSeq(inbuf, 1, k)
      BY <2>3, <2>4
    <3> HIDE DEF k, j
    <3> QED
      BY <2>2, <2>5, <3>1
  <2>7. SubSeq(inbuf', 1, pcur' - 1) = SubSeq(inbuf, 1, j)
    BY <2>4
  <2> HIDE DEF j
  <2> QED
    BY <2>6, <2>7 DEF NothingSkipped, Stands
<1>3. pcur' \in 1 .. Len(inbuf) + 1 /\ out' \in Seq(Piece)
  BY <1>1
<1> QED
  BY <1>2, <1>3, MatchedInv

LEMMA ReplacePhraseInv == Inv /\ ReplacePhrase => Inv'
<1> SUFFICES ASSUME Inv, ReplacePhrase PROVE Inv'
  OBVIOUS
<1> DEFINE r == matchRule.rule
           w == r.realcode
           n == Len(w)
           e == [kind |-> "phrase", of |-> w, by |-> r.lenrep]
<1>1. /\ phase = "convert" /\ pcur <= pend /\ last' = matchRule /\ r # NoRule
      /\ out' = Append(out, e) \/ (out' = out /\ w = <<>>)
      /\ pcur' = pcur + n
      /\ UNCHANGED <<body, rules, nrules, phase, inbuf, pend>>
  BY DEF ReplacePhrase, Rewrite, Write, lenreal
<1>2. r \in AllRules /\ StandsAt(w, inbuf, pcur)
  BY <1>1, MatchFinds DEF Inv
<1> HIDE DEF r
<1>3. w \in Phrases /\ r.lenrep \in 1 .. nrules /\ nrules \in Nat
  <2>1. Loaded /\ nrules \in 0 .. MaxRules
    BY DEF Inv, Loaded
  <2>2. nrules \in Nat
    BY <2>1, RulesAssumption
  <2> QED
    BY <1>2, <2>1, <2>2, AllRulesTypes
<1> HIDE DEF w
<1>4. w \in Seq(Chars) /\ n \in Nat
  BY <1>3, PhraseTypes
<1>5. /\ inbuf \in Seq(Chars) /\ Len(inbuf) \in Nat /\ pcur \in 1 .. Len(inbuf)
      /\ pcur + n - 1 <= Len(inbuf)
  <2>1. /\ inbuf \in Seq(Chars) /\ pend \in 0 .. Len(inbuf) /\ pcur \in 1 .. Len(inbuf) + 1
        /\ pend + n <= Len(inbuf) + 1
    BY <1>1, <1>3 DEF Inv, Converting
  <2>2. Len(inbuf) \in Nat
    BY <2>1
  <2> HIDE DEF n
  <2> QED
    BY <1>1, <1>4, <2>1, <2>2
<1>6. w = SubSeq(inbuf, pcur, pcur + n - 1)
  <2> DEFINE a == SubSeq(inbuf, pcur, pcur + n - 1)
  <2>1. a \in Seq(Chars) /\ Len(a) = n /\ \A k \in 1 .. n : a[k] = inbuf[pcur + k - 1]
    <3> HIDE DEF n
    <3> QED
      BY <1>4, <1>5, PartOfMemory
  <2> HIDE DEF a
  <2>2. \A k \in 1 .. n : a[k] = w[k]
    BY <1>2, <2>1 DEF StandsAt
  <2>3. a = w
    BY <1>4, <2>1, <2>2
  <2> QED
    BY <2>3 DEF a
<1>7. e \in Piece /\ e.of = w
  BY <1>3, <1>4 DEF Piece
<1>8. w = <<>> => n = 0
  BY <1>4
<1> HIDE DEF e, n
<1>9. CASE out' = out /\ w = <<>>
  <2>1. pcur' = pcur /\ pcur \in 1 .. Len(inbuf) + 1
    BY <1>1, <1>5, <1>8, <1>9
  <2>2. out' \in Seq(Piece) /\ NothingSkipped'
    BY <1>1, <1>9, <2>1 DEF Inv, Converting, NothingSkipped
  <2> QED
    BY <1>1, <2>1, <2>2, MatchedInv
<1> QED
  BY <1>1, <1>4, <1>5, <1>6, <1>7, <1>9, PassInv

LEMMA ReplaceCharInv == Inv /\ ReplaceChar => Inv'
<1> SUFFICES ASSUME Inv, ReplaceChar PROVE Inv'
  OBVIOUS
<1> DEFINE a == SubSeq(inbuf, pcur, pcur + 1 - 1)
           e == [kind |-> "char", of |-> a]
<1>1. /\ phase = "convert" /\ pcur <= pend /\ last' = matchRule
      /\ out' = Append(out, e) /\ pcur' = pcur + 1
      /\ UNCHANGED <<body, rules, nrules, phase, inbuf, pend>>
  BY DEF ReplaceChar, Write, At
<1>2. inbuf \in Seq(Chars) /\ pcur \in 1 .. Len(inbuf) /\ pcur + 1 - 1 <= Len(inbuf)
  <2>1. inbuf \in Seq(Chars) /\ pend \in 0 .. Len(inbuf) /\ pcur \in 1 .. Len(inbuf) + 1
    BY DEF Inv, Converting
  <2> QED
    BY <1>1, <2>1
<1>3. a \in Seq(Chars)
  BY <1>2, PartOfMemory
<1> HIDE DEF a
<1>4. e \in Piece /\ e.of = a
  BY <1>3 DEF Piece
<1> HIDE DEF e
<1> QED
  BY <1>1, <1>2, <1>4, PassInv DEF a

LEMMA StutterInv == Inv /\ UNCHANGED vars => Inv'
<1> SUFFICES ASSUME Inv, UNCHANGED vars PROVE Inv'
  OBVIOUS
<1>1. UNCHANGED <<body, rules, nrules, phase, inbuf, pend, pcur, last, out>>
  BY DEF vars, text
<1>2. AllRules' = AllRules /\ Rest' = Rest
  BY <1>1 DEF AllRules, Rest
<1>3. Loaded' /\ Converting'
  BY <1>1, <1>2 DEF Inv, Loaded, Converting
<1>4. NothingSkipped'
  BY <1>1 DEF Inv, NothingSkipped
<1>5. LongestWins'
  BY <1>1, <1>2 DEF Inv, LongestWins, Fits
<1>6. FoundIfNoneNests'
  BY <1>1, <1>2 DEF Inv, FoundIfNoneNests, NoneNests, Fits
<1> QED
  BY <1>3, <1>4, <1>5, <1>6 DEF Inv

LEMMA StepInv == Inv /\ [Next]_vars => Inv'
<1> SUFFICES ASSUME Inv, [Next]_vars PROVE Inv'
  OBVIOUS
<1>1. ASSUME NEW w1 \in Phrases, AddRule(w1) PROVE Inv'
  BY <1>1, AddRuleInv
<1>2. CASE Adjust
  BY <1>2, AdjustInv
<1>3. ASSUME NEW t \in Texts, NEW b \in Behind, Convert(t, b) PROVE Inv'
  BY <1>3, ConvertInv
<1>4. CASE ReplacePhrase \/ ReplaceChar \/ Finish
  BY <1>4, ReplacePhraseInv, ReplaceCharInv, FinishInv
<1>5. CASE UNCHANGED vars
  BY <1>5, StutterInv
<1> QED
  BY <1>1, <1>2, <1>3, <1>4, <1>5 DEF Next

LEMMA Invariant == Spec => []Inv
<1> QED
  BY InitInv, StepInv, PTL DEF Spec

\* Every variable keeps its type; each rule lies in the bucket of the character
\* its phrase begins with, and the sorted array of a bucket holds the rules that
\* were added to it and no others.
THEOREM Typed == Spec => []TypeOK
<1>1. Inv => TypeOK
  <2> SUFFICES ASSUME Inv PROVE TypeOK
    OBVIOUS
  <2>1. Loaded
    BY DEF Inv
  <2>2. \A r \in AllRules : r.realcode \in Phrases /\ r.lenrep \in 1 .. nrules
    BY <2>1, AllRulesTypes
  <2>3. \A c \in Chars : \A r \in ToSet(body[c]) : r.realcode = <<>> \/ Head(r.realcode) = c
    <3>1. ASSUME NEW c \in Chars, NEW r \in ToSet(body[c])
          PROVE  r.realcode = <<>> \/ Head(r.realcode) = c
      <4>1. r \in AllRules /\ (r.realcode = <<>> \/ r.realcode[1] = c)
        BY <2>1 DEF AllRules, Loaded, Empty
      <4> QED
        BY <2>2, <4>1, PhraseTypes
    <3> QED
      BY <3>1
  <2>4. phase # "load" => \A c \in Chars : ToSet(rules[c]) = ToSet(body[c])
    BY <2>1 DEF Loaded, Sorted
  <2> QED
    BY <2>1, <2>2, <2>3, <2>4 DEF Inv, Loaded, Converting, TypeOK
<1> QED
  BY <1>1, Invariant, PTL

\* The conversion of a text skips no character and replaces none twice, whatever
\* the rules, and even where a phrase reaches behind the end of the text.
THEOREM TextIsKept == Spec => []NothingSkipped
<1>1. Inv => NothingSkipped
  BY DEF Inv
<1> QED
  BY <1>1, Invariant, PTL

\* matchRule stops at the first rule that compares equal, and that is the longest
\* that stands there: qsort with compare_rule puts a phrase behind all those it
\* begins, whatever order it leaves equal rules in.
THEOREM LongestIsTaken == Spec => []LongestWins
<1>1. Inv => LongestWins
  BY DEF Inv
<1> QED
  BY <1>1, Invariant, PTL

\* In a file without a phrase that begins another, the early exits of matchRule
\* pass over no phrase.
THEOREM NoneIsMissed == Spec => []FoundIfNoneNests
<1>1. Inv => FoundIfNoneNests
  BY DEF Inv
<1> QED
  BY <1>1, Invariant, PTL
=============================================================================

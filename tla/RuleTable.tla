------------------------------ MODULE RuleTable ------------------------------
(***************************************************************************)
(* The phrase tables of the converter: convert_utils.c loads the rules of  *)
(* a dictionary file into buckets (addRule) and sorts each bucket once     *)
(* (adjust_ruletable); convert.c then walks a UTF-16 text, replacing at    *)
(* each position the phrase matchRule finds there, or else one character   *)
(* by the word table (convert_lite_memstream).                             *)
(*                                                                         *)
(* A character is a number, standing for two bytes: memcmp on big-endian   *)
(* UTF-16 orders texts as the numbers do.  A text lies in memory, and the  *)
(* code may read past its end: `inbuf' holds the text, which ends at       *)
(* `pend', and what happens to lie behind it.                              *)
(***************************************************************************)
EXTENDS Integers, Sequences, SequencesExt, FiniteSetsExt

CONSTANTS Chars,        \* the characters, numbers
          Phrases,      \* the phrases the file may have rules for; initFile
                        \* makes empty ones too, of a line of blanks, or, for
                        \* the way back, of a line without a replacement
          Texts,        \* the texts to convert
          Behind,       \* what may lie in memory behind a text
          MaxRules      \* bound on the rules in the file

ASSUME CharAssumption == Chars \subseteq Nat
ASSUME PhraseAssumption == Phrases \subseteq Seq(Chars)
ASSUME TextAssumption == Texts \subseteq Seq(Chars)
ASSUME RulesAssumption == MaxRules \in Nat

\* As much of the memory behind a text as a phrase may be compared with.
ASSUME BehindAssumption ==
    /\ Behind \subseteq Seq(Chars)
    /\ \A b \in Behind, w \in Phrases : Len(w) <= Len(b) + 1

VARIABLES
    body,               \* body[c]: the bucket of c, a list, youngest rule first
    rules,              \* rules[c]: the same rules in an array, sorted
    nrules,             \* rules added so far
    phase,              \* "load", "ready" or "convert"
    inbuf, pend, pcur,  \* the text in memory, where it ends, where we are
    last,               \* where matchRule was last called, what it found, and
                        \* the exit it took: "hit", "break", "above" or "end"
    out                 \* what was written: each piece with the text it replaces

text == <<inbuf, pend, pcur>>
vars == <<body, rules, nrules, phase, text, last, out>>

NoRule  == [lenrep |-> 0]
NoMatch == [at |-> 0, rule |-> NoRule, exit |-> "end"]

lenreal(r) == Len(r.realcode)

------------------------------------------------------------------------------
Init ==
    /\ body = [c \in Chars |-> <<>>] /\ rules = [c \in Chars |-> <<>>]
    /\ nrules = 0 /\ phase = "load"
    /\ inbuf = <<>> /\ pend = 0 /\ pcur = 1
    /\ last = NoMatch /\ out = <<>>

\* Wrong variant: the bucket is that of the phrase's last character.
AddRuleByLast(w1) ==
    /\ phase = "load" /\ nrules < MaxRules
    /\ nrules' = nrules + 1
    /\ \E c \in IF w1 = <<>> THEN Chars ELSE {Last(w1)} :
          body' = [body EXCEPT ![c] = <<[realcode |-> w1, lenrep |-> nrules + 1]>> \o @]
    /\ UNCHANGED <<rules, phase, text, last, out>>

\* One line of the file.  Its replacement is abstracted to the line's number.
\* The bucket of an empty phrase is read from memory that was never written.
AddRule(w1) ==
    /\ phase = "load" /\ nrules < MaxRules
    /\ nrules' = nrules + 1
    /\ \E c \in IF w1 = <<>> THEN Chars ELSE {w1[1]} :
          body' = [body EXCEPT ![c] = <<[realcode |-> w1, lenrep |-> nrules + 1]>> \o @]
    /\ UNCHANGED <<rules, phase, text, last, out>>

\* memcmp of two texts of the same length: -1, 0 or 1.
Memcmp(a, b) ==
    LET differ == {k \in DOMAIN a : a[k] # b[k]}
    IN  IF differ = {} THEN 0
        ELSE IF a[Min(differ)] < b[Min(differ)] THEN -1 ELSE 1

First(s, n) == SubSeq(s, 1, n)

\* Wrong variant: of two phrases one of which begins the other, the shorter
\* is sorted first.
CompareRuleShortFirst(r1, r2) ==
    LET len == Min({lenreal(r1), lenreal(r2)})
        cmp == Memcmp(First(r1.realcode, len), First(r2.realcode, len))
    IN  IF cmp # 0 THEN cmp ELSE lenreal(r1) - lenreal(r2)

\* Wrong variant: sorts from high to low.
CompareRuleDescending(r1, r2) ==
    LET len == Min({lenreal(r1), lenreal(r2)})
        cmp == Memcmp(First(r2.realcode, len), First(r1.realcode, len))
    IN  IF cmp # 0 THEN cmp ELSE lenreal(r2) - lenreal(r1)

compare_rule(r1, r2) ==
    LET len == Min({lenreal(r1), lenreal(r2)})
        cmp == Memcmp(First(r1.realcode, len), First(r2.realcode, len))
    IN  IF cmp # 0 THEN cmp ELSE lenreal(r2) - lenreal(r1)

\* qsort leaves rules that compare equal in any order.
Sorted(list) ==
    {s \in [1 .. Len(list) -> ToSet(list)] :
        /\ ToSet(s) = ToSet(list)
        /\ \A i \in 1 .. Len(list) - 1 : compare_rule(s[i], s[i + 1]) <= 0}

Adjust ==                                      \* adjust_ruletable
    /\ phase = "load"
    /\ rules' \in {f \in [Chars -> UNION {Sorted(body[c]) : c \in Chars}] :
                     \A c \in Chars : f[c] \in Sorted(body[c])}
    /\ phase' = "ready"
    /\ UNCHANGED <<body, nrules, text, last, out>>

------------------------------------------------------------------------------
\* convert_lite_memstream is called with a text.
Convert(t, behind) ==
    /\ phase = "ready"
    /\ phase' = "convert"
    /\ inbuf' = t \o behind /\ pend' = Len(t) /\ pcur' = 1
    /\ out' = <<>> /\ last' = NoMatch
    /\ UNCHANGED <<body, rules, nrules>>

\* n characters of memory from pcur on.
At(n) == SubSeq(inbuf, pcur, pcur + n - 1)

nLeft == pend - pcur + 1

\* The scan of the bucket ends at the first rule that is above the text, where
\* nothing is found, or equal to it.  When fewer characters are left than the
\* phrase has, memcmp still compares lenreal of them.
matchRule ==
    LET table == rules[inbuf[pcur]]
        Breaks(k) == /\ nLeft < lenreal(table[k])
                     /\ Memcmp(At(nLeft), First(table[k].realcode, nLeft)) < 0
        Compare(k) == Memcmp(At(lenreal(table[k])), table[k].realcode)
        ends == {k \in DOMAIN table : Breaks(k) \/ Compare(k) <= 0}
        i    == Min(ends)
        exit == IF ends = {} THEN "end"
                ELSE IF Breaks(i) THEN "break"
                ELSE IF Compare(i) = 0 THEN "hit" ELSE "above"
    IN  [at |-> pcur, exit |-> exit, rule |-> IF exit = "hit" THEN table[i] ELSE NoRule]

Write(piece) == out' = Append(out, piece)

\* Wrong variant: skips as many characters as were written.
ReplacePhraseSkipsWritten ==
    /\ phase = "convert" /\ pcur <= pend
    /\ last' = matchRule
    /\ LET r == last'.rule
       IN  /\ r # NoRule
           /\ Write([kind |-> "phrase", of |-> r.realcode, by |-> r.lenrep])
           /\ pcur' = pcur + r.lenrep
    /\ UNCHANGED <<body, rules, nrules, phase, inbuf, pend>>

\* An empty phrase is found again and again: what is written for it is kept in
\* `out' once.
Rewrite(piece) == IF piece.of = <<>> /\ out # <<>> /\ Last(out) = piece
                  THEN UNCHANGED out ELSE Write(piece)

ReplacePhrase ==
    /\ phase = "convert" /\ pcur <= pend
    /\ last' = matchRule
    /\ LET r == last'.rule
       IN  /\ r # NoRule
           /\ Rewrite([kind |-> "phrase", of |-> r.realcode, by |-> r.lenrep])
           /\ pcur' = pcur + lenreal(r)
    /\ UNCHANGED <<body, rules, nrules, phase, inbuf, pend>>

\* Wrong variant: a character with no phrase is written and not passed.
ReplaceCharStays ==
    /\ phase = "convert" /\ pcur <= pend
    /\ last' = matchRule
    /\ last'.rule = NoRule
    /\ out' = <<[kind |-> "char", of |-> At(1)]>>
    /\ UNCHANGED <<body, rules, nrules, phase, text>>

ReplaceChar ==                                 \* by wordTable, or by itself
    /\ phase = "convert" /\ pcur <= pend
    /\ last' = matchRule
    /\ last'.rule = NoRule
    /\ Write([kind |-> "char", of |-> At(1)])
    /\ pcur' = pcur + 1
    /\ UNCHANGED <<body, rules, nrules, phase, inbuf, pend>>

Finish ==
    /\ phase = "convert" /\ pcur > pend
    /\ phase' = "ready"
    /\ inbuf' = <<>> /\ pend' = 0 /\ pcur' = 1
    /\ last' = NoMatch /\ out' = <<>>
    /\ UNCHANGED <<body, rules, nrules>>

Next == \/ \E w1 \in Phrases : AddRule(w1)
        \/ Adjust
        \/ \E t \in Texts, b \in Behind : Convert(t, b)
        \/ ReplacePhrase \/ ReplaceChar \/ Finish

\* A conversion, once begun, runs on.
Spec == Init /\ [][Next]_vars /\ WF_vars(ReplacePhrase \/ ReplaceChar \/ Finish)

------------------------------------------------------------------------------
(* Properties *)

AllRules == UNION {ToSet(body[c]) : c \in Chars}

\* Every variable keeps its type, and the array of a bucket holds its list.
TypeOK ==
    /\ \A r \in AllRules : r.realcode \in Phrases /\ r.lenrep \in 1 .. nrules
    /\ \A c \in Chars : \A r \in ToSet(body[c]) : r.realcode = <<>> \/ Head(r.realcode) = c
    /\ phase # "load" => \A c \in Chars : ToSet(rules[c]) = ToSet(body[c])
    /\ nrules \in 0 .. MaxRules /\ phase \in {"load", "ready", "convert"}
    /\ inbuf \in Seq(Chars) /\ pend \in 0 .. Len(inbuf) /\ pcur \in 1 .. Len(inbuf) + 1
    /\ last.at \in 0 .. Len(inbuf) /\ last.rule \in AllRules \cup {NoRule}
    /\ last.exit \in {"hit", "break", "above", "end"}

\* The text from the place where matchRule was last called.
Rest == SubSeq(inbuf, last.at, pend)

Fits(r) == IsPrefix(r.realcode, Rest)

\* What matchRule finds inside the text is the longest phrase that stands
\* there, though it stops at the first hit: the sort puts a phrase after all
\* the phrases it begins.
LongestWins ==
    last.rule # NoRule /\ lenreal(last.rule) <= Len(Rest) =>
        /\ Fits(last.rule)
        /\ \A r \in AllRules : Fits(r) => lenreal(r) <= lenreal(last.rule)

Empty(r) == r.realcode = <<>>

\* The file has no phrase that begins another one, the empty one apart.
NoneNests == \A r, s \in AllRules :
                ~Empty(r) /\ IsPrefix(r.realcode, s.realcode) => r.realcode = s.realcode

\* Where a phrase stands in the text, a rule is found, when the file has no
\* phrase that begins another one: whatever lies behind the text, none of the
\* exits of the scan is taken too early.
FoundIfNoneNests ==
    last.at > 0 /\ NoneNests =>
        \A r \in AllRules : ~Empty(r) /\ Fits(r) => last.rule # NoRule

\* What was written stands, piece by piece, for the text that was passed: the
\* conversion skips no character and replaces none twice.
NothingSkipped ==
    FlattenSeq([k \in DOMAIN out |-> out[k].of]) = SubSeq(inbuf, 1, pcur - 1)

\* An empty phrase lies in the bucket of a character of the text: found there,
\* it takes the conversion no further.
MeetsEmpty == \E k \in 1 .. pend : \E r \in ToSet(body[inbuf[k]]) : Empty(r)

\* A conversion ends, whatever the rules, but for an empty phrase in its way.
ConversionEnds == phase = "convert" /\ ~MeetsEmpty ~> phase = "ready"

\* convert.c:2067 says of the `break' in the scan that the rules after it are
\* all larger, so that none of them needs to be looked at.
NothingAfterBreak ==
    last.exit = "break" => \A r \in AllRules : Empty(r) \/ ~Fits(r)

\* convert.c:2065 says of a rule longer than what is left of the text that it
\* does not apply; so none is returned.
OnlyWhatFits == last.rule # NoRule => lenreal(last.rule) <= Len(Rest)
==============================================================================

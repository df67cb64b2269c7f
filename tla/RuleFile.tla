------------------------------ MODULE RuleFile ------------------------------
(***************************************************************************)
(* How initFile of convert_utils.c reads a file of phrases: a phrase, a    *)
(* separator, its replacement and a line break, in one byte per character  *)
(* or in UTF-16.  A file is a sequence of bytes; the bytes the code looks  *)
(* for have names, every other byte is any value.                          *)
(***************************************************************************)
EXTENDS Integers, Sequences, SequencesExt, FiniteSetsExt

TAB == "tab"    BAR == "bar"    LF == "lf"    CR == "cr"    ZERO == "00"

NotFound == 0

\* Wrong variant: the bar separates nothing.
SpacesTabOnly(isUtf16) == {TAB}

\* The characters that stand between a phrase and its replacement, and behind.
Spaces(isUtf16) == IF isUtf16 THEN {TAB, BAR} ELSE {TAB}
LineBreaks == {LF, CR}

Is(c, p, isUtf16, marks) ==
    IF isUtf16 THEN c[p] = ZERO /\ c[p + 1] \in marks ELSE c[p] \in marks

------------------------------------------------------------------------------
pend(c) == Len(c) + 1

\* The characters of the rest of a file.  Of a UTF-16 file that ends in half a
\* character the last position is that half.
From(c, p, isUtf16) ==
    {q \in p .. Len(c) : isUtf16 => (q - p) % 2 = 0}

Half(c, p, isUtf16) == isUtf16 /\ p = Len(c)

\* skipSpace and skipLineBreak: the first character that is none of marks.
Skip(c, p, isUtf16, marks) ==
    LET stops == {q \in From(c, p, isUtf16) : Half(c, q, isUtf16) \/ ~Is(c, q, isUtf16, marks)}
    IN  IF stops = {} THEN Max({p, pend(c)})
        ELSE IF Half(c, Min(stops), isUtf16) THEN pend(c) ELSE Min(stops)

\* findSpace and findLineBreak: the first character that is one.
Find(c, p, isUtf16, marks) ==
    LET stops == {q \in From(c, p, isUtf16) : Half(c, q, isUtf16) \/ Is(c, q, isUtf16, marks)}
    IN  IF stops = {} THEN NotFound
        ELSE IF Half(c, Min(stops), isUtf16) THEN pend(c) ELSE Min(stops)

skipBom(c) == IF IsPrefix(<<"fe", "ff">>, c) THEN 3 ELSE 1

\* What one turn of the loop takes from position p: a rule and where to go on,
\* or no rule when no separator follows.
Line(c, p, isUtf16) ==
    LET w1    == Skip(c, Skip(c, p, isUtf16, Spaces(isUtf16)), isUtf16, LineBreaks)
        endW1 == Find(c, w1, isUtf16, Spaces(isUtf16))
        w2    == Skip(c, endW1, isUtf16, Spaces(isUtf16))
        break == Find(c, w2, isUtf16, LineBreaks)
        endW2 == IF break = NotFound THEN pend(c) ELSE break
    IN  IF endW1 = NotFound THEN [rules |-> {}, next |-> pend(c)]
        ELSE [rules |-> {<<SubSeq(c, w1, endW1 - 1), SubSeq(c, w2, endW2 - 1)>>},
              next  |-> Skip(c, endW2 + 2, isUtf16, LineBreaks)]

\* The rules of a file, each a phrase with its replacement: those added to
\* wordlist, and turned round those added to reverselist.
initFile(c, isUtf16) ==
    LET Rules[p \in 1 .. Len(c) + 3] ==
            IF p >= pend(c) THEN {}
            ELSE LET line == Line(c, p, isUtf16) IN line.rules \cup Rules[line.next]
    IN  Rules[skipBom(c)]
=============================================================================

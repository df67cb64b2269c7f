----------------------------- MODULE Utf8Stream -----------------------------
(***************************************************************************)
(* The conversion of a UTF-8 text by translate of convert.c, and the "%"   *)
(* codes around it in the body of a form, byte by byte.  Characters are    *)
(* converted one by one here: for the phrases see RuleTable.               *)
(***************************************************************************)
EXTENDS Integers, Sequences, SequencesExt

CONSTANT WordTable    \* UTF-16 unit -> the unit the table has for it

\* What two bytes can hold.
Units == {unit \in Nat : unit <= 65535}

ASSUME WordTableAssumption == \A unit \in DOMAIN WordTable : WordTable[unit] \in Units

\* What each element of s becomes, one behind the other.
Spread(s, Of(_)) ==
    LET Upto[i \in 0 .. Len(s)] == IF i = 0 THEN <<>> ELSE Upto[i - 1] \o Of(s[i]) IN Upto[Len(s)]

Percent == 37
LowerU  == 117

\* The unit the bytes of a character stand for.
Unit(s) ==
    CASE Len(s) = 1 -> s[1]
      [] Len(s) = 2 -> (s[1] % 32) * 64 + (s[2] % 64)
      [] Len(s) = 3 -> (s[1] % 16) * 4096 + (s[2] % 64) * 64 + (s[3] % 64)

\* UTF-8 to UTF-16: every byte from 0xE0 on, and every stray one, is taken for
\* the first of three.  A character cut off at the end is dropped with the
\* context translate keeps it in.
utf82unicode(s) ==
    LET Size(i) == CASE s[i] < 128 -> 1 [] s[i] \div 32 = 6 -> 2 [] OTHER -> 3
        From[i \in 1 .. Len(s) + 1] ==
            IF i > Len(s) \/ i + Size(i) > Len(s) + 1 THEN <<>>
            ELSE <<Unit(SubSeq(s, i, i + Size(i) - 1))>> \o From[i + Size(i)]
    IN  From[1]

\* UTF-16 to UTF-8.
unicode2utf8(units) ==
    LET Utf8Bytes(u) ==
            CASE u < 128 -> <<u>>
              [] 128 <= u /\ u < 2048 -> <<192 + (u \div 64), 128 + (u % 64)>>
              [] OTHER -> <<224 + (u \div 4096), 128 + ((u \div 64) % 64), 128 + (u % 64)>>
    IN  Spread(units, Utf8Bytes)

\* translate(0, ...) with m_iIsUTF8.
translate(s) ==
    LET units == utf82unicode(s)
    IN  unicode2utf8([i \in 1 .. Len(units) |->
            IF units[i] \in DOMAIN WordTable THEN WordTable[units[i]] ELSE units[i]])

\* g_UrlDecodeTable: 0 for what is no digit.
HexValue(b) == CASE b \in 48 .. 57 -> b - 48 [] b \in 65 .. 70 -> b - 55
                 [] b \in 97 .. 102 -> b - 87 [] OTHER -> 0
HexDigit(n) == IF n < 10 THEN 48 + n ELSE 55 + n

\* UrlDecodeHZ on a buffer that two zero bytes follow.
Decoded(s) ==
    LET At(i) == IF i <= Len(s) THEN s[i] ELSE 0
        From[i \in 1 .. Len(s) + 3] ==
            CASE i > Len(s) -> <<>>
              [] At(i) = Percent /\ At(i + 1) # LowerU ->
                   <<HexValue(At(i + 1)) * 16 + HexValue(At(i + 2))>> \o From[i + 3]
              [] OTHER -> <<At(i)>> \o From[i + 1]
    IN  From[1]

\* UrlEncodeHZ: only bytes from 128 on are coded.
PercentCode(b) == <<Percent, HexDigit(b \div 16), HexDigit(b % 16)>>
Encoded(s) == Spread(s, LAMBDA b : IF b >= 128 THEN PercentCode(b) ELSE <<b>>)

-----------------------------------------------------------------------------
\* What it should come to.  A text is a sequence of characters [code, coded]:
\* coded ones are written with "%", which a "%" itself always is.
Characters == {ch \in [code : Units, coded : BOOLEAN] : ch.coded \/ ch.code # Percent}

Utf8(code) ==
    CASE code < 128 -> <<code>>
      [] 128 <= code /\ code < 2048 -> <<192 + (code \div 64), 128 + (code % 64)>>
      [] OTHER -> <<224 + (code \div 4096), 128 + ((code % 4096) \div 64), 128 + (code % 64)>>

BytesOf(text) ==
    LET Spelled(ch) == IF ch.coded THEN Spread(Utf8(ch.code), PercentCode) ELSE Utf8(ch.code)
    IN  Spread(text, Spelled)

\* Every character converted, and written with "%" but for ASCII: what had a
\* code there has lost it.
ConvertedChar(ch) ==
    LET to == IF ch.code \in DOMAIN WordTable THEN WordTable[ch.code] ELSE ch.code
    IN  [code |-> to, coded |-> to >= 128]
ConvertedText(text) == BytesOf([i \in 1 .. Len(text) |-> ConvertedChar(text[i])])
=============================================================================

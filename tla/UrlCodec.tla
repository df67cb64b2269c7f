------------------------------ MODULE UrlCodec ------------------------------
(***************************************************************************)
(* How baseutil.c writes an address so that it survives the way through    *)
(* the browser, and how find_code_page reads it back: ChangeChinese puts   *)
(* what a browser might not send as it is into base64 blocks, ConvertUrl   *)
(* converts the characters of a query and codes them with "%".             *)
(*                                                                         *)
(* A symbol that needs coding stands for one byte; "%" and a symbol are    *)
(* that symbol's "%XX".                                                    *)
(***************************************************************************)
EXTENDS UrlPath, FiniteSetsExt

CONSTANTS Bytes,     \* symbol -> the byte it stands for in a block
          ToPage,    \* the characters the gateway converts -> what for
          LowTrail   \* those of two bytes whose second has its top bit clear

ToOrigin == AntiFunction(ToPage)
Chinese == DOMAIN ToPage \cup Range(ToPage)

\* Three bytes to a character in a directory of UTF-8, two in any other.
Width(dc) == IF dc.isUTF8 THEN [behind |-> Chinese, before |-> Chinese, late |-> {}]
             ELSE [behind |-> {}, before |-> LowTrail, late |-> Chinese]

Translated(s, map) == [i \in DOMAIN s |-> IF s[i] \in DOMAIN map THEN map[s[i]] ELSE s[i]]

\* convert() on the way to the browser, and translate() on the way back.
Convert(s)     == Translated(s, ToPage)
ConvertBack(s) == Translated(s, ToOrigin)

-----------------------------------------------------------------------------
\* Base64 with the alphabet of if_xbase64encode: "+" and "-" are its last two
\* characters, "~" fills up.
Sextet(n) == CASE n = 62 -> "+" [] n = 63 -> "-" [] OTHER -> "b" \o ToString(n)
Sextets   == [n \in 0 .. 63 |-> Sextet(n)]
pr2six    == AntiFunction(Sextets)
Symbol    == AntiFunction(Bytes)

if_xbase64encode(s) ==
    LET byte(i) == IF i <= Len(s) THEN Bytes[s[i]] ELSE 0
        six(k)  == LET i == 3 * (k \div 4) + 1
                   IN  CASE (k % 4) = 0 -> byte(i) \div 4
                         [] (k % 4) = 1 -> (byte(i) % 4) * 16 + (byte(i + 1) \div 16)
                         [] (k % 4) = 2 -> (byte(i + 1) % 16) * 4 + (byte(i + 2) \div 64)
                         [] OTHER       -> byte(i + 2) % 64
        size == 4 * ((Len(s) + 2) \div 3)
        fill == (3 - (Len(s) % 3)) % 3
    IN  [k \in 1 .. size |-> IF k > size - fill THEN "~" ELSE Sextets[six(k - 1)]]

\* Decoding stops at the first symbol that is not of the alphabet.
if_xbase64decode(s) ==
    LET n == SelectInSeq(Append(s, "~"), LAMBDA x : x \notin DOMAIN pr2six) - 1
        six(k)  == pr2six[s[k]]
        byte(i) == LET k == 4 * ((i - 1) \div 3) + 1
                   IN  CASE (i % 3) = 1 -> six(k) * 4 + (six(k + 1) \div 16)
                         [] (i % 3) = 2 -> (six(k + 1) % 16) * 16 + (six(k + 2) \div 4)
                         [] OTHER       -> (six(k + 2) % 4) * 64 + six(k + 3)
    IN  [i \in 1 .. (6 * n) \div 8 |-> Symbol[byte(i)]]

\* "-base", the length in decimal, "-" and the code.
BuildBase64Block(s) ==
    LET code == if_xbase64encode(s) IN <<"-base", ToString(Len(code)), "-">> \o code

-----------------------------------------------------------------------------
\* ChangeChinese.
Bad == {":", "=", "&", "&amp;", "%", "+", "~", "*", "(", ")", "{", "$", "<", ">",
        "\\"} \cup Blanks \cup Quotes \cup Chinese
isGoodUrlChar(x) == x \notin Bad

\* Where the path begins, 0 if the loop finds no "/": from a ":" it goes on
\* four symbols later.
PathFrom(url) ==
    LET At[i \in 1 .. Len(url) + 4] ==
            CASE i > Len(url)   -> 0
              [] i <= Len(url) /\ url[i] = ":" -> At[i + 4]
              [] i <= Len(url) /\ url[i] = "/" -> i + 1
              [] OTHER -> At[i + 1]
    IN  At[1]

BadFrom(url) ==
    LET path == PathFrom(url)
    IN  IF path = 0 THEN 0
        ELSE SelectInSubSeq(url, path, Len(url), LAMBDA x : ~isGoodUrlChar(x))
BadUpTo(url) == SelectLastInSeq(url, LAMBDA x : ~isGoodUrlChar(x))

\* From the symbol at `from' on a block is written; at level 1 it goes to the
\* end, else to the last symbol that needs it.
WithBlock(level, url, from) ==
    LET last == BadUpTo(url)
        mark == CASE level = 1 -> <<"-ifbase1">>
                  [] level = 3 -> <<"-ifbase3">>
                  [] level = 4 -> <<"-ifbase4">>
                  [] OTHER     -> <<>>
    IN  CASE from = 0 -> url
          [] from > 0 /\ level = 1 ->
               UpTo(url, from - 1) \o mark \o if_xbase64encode(From(url, from))
          [] OTHER -> UpTo(url, from - 1) \o mark
                      \o BuildBase64Block(SubSeq(url, from, last)) \o From(url, last + 1)

ChangeChinese(level, address) ==
    LET Blocked(url) == WithBlock(level, url, BadFrom(url))
    IN  IF level = 0 THEN address
        ELSE Blocked(SelectSeq(address, LAMBDA x : x \notin {"\r", "\n"}))

\* The blocks of an address decoded; NoUrl where a block is cut off.
Unblock(s) ==
    LET Rest[i \in 1 .. Len(s) + 1] ==
            LET at   == SelectInSubSeq(s, i, Len(s), LAMBDA x : x = "-base")
                dash == SelectInSubSeq(s, at + 1, Len(s), LAMBDA x : x = "-")
                len  == CHOOSE n \in 0 .. MaxUrl : ToString(n) = s[at + 1]
                code == dash + len
            IN  CASE at = 0 \/ dash = 0 -> From(s, i)
                  [] at > 0 /\ dash > 0 /\ code > Len(s) -> NoUrl
                  [] OTHER -> SubSeq(s, i, at - 1) \o if_xbase64decode(SubSeq(s, dash + 1, code))
                              \o Rest[code + 1]
    IN  Rest[1]

Marks == {"-ifbase1", "-ifbase3", "-ifbase4"}

\* A blank is sent as "%20", line ends are dropped, "&amp;" is an "&".
Tidied(s) ==
    FlattenSeq([i \in 1 .. Len(s) |->
        CASE s[i] = " " -> <<"%", " ">>
          [] s[i] \in {"\r", "\n"} -> <<>>
          [] s[i] = "&amp;" -> <<"&">>
          [] OTHER -> <<s[i]>>])

UnChangeChinese(level, url) ==
    LET mark == SelectInSeq(url, LAMBDA x : x \in Marks)
        rest == From(url, mark + 1)
        Undone(plain) == IF plain = NoUrl THEN url ELSE Tidied(UpTo(url, mark - 1) \o plain)
    IN  IF level = 0 \/ Len(url) > MaxUrl THEN url
        ELSE Undone(IF url[mark] = "-ifbase1" THEN if_xbase64decode(rest) ELSE Unblock(rest))

-----------------------------------------------------------------------------
\* Queries.

\* The "%" codes undone; what stands uncoded is replaced as Raw says.
PercentDecoded(s, Raw) ==
    LET Rest[i \in 1 .. Len(s) + 1] ==
            CASE i > Len(s) -> <<>>
              [] i < Len(s) /\ s[i] = "%" -> <<s[i + 1]>> \o Rest[i + 2]
              [] OTHER -> <<IF s[i] \in DOMAIN Raw THEN Raw[s[i]] ELSE s[i]>> \o Rest[i + 1]
    IN  Rest[1]

\* UrlDecode keeps the "=" and "&" that divide the query apart from coded ones.
Dividers     == [x \in {"=", "&", "+"} |-> CASE x = "=" -> "\\2" [] x = "&" -> "\\1" [] x = "+" -> " "]
Undivided    == AntiFunction(Dividers)
UrlDecode(s)   == PercentDecoded(s, Dividers)
UrlDecodeHZ(s) == PercentDecoded(s, <<>>)

\* What UrlEncode writes for a symbol.
IsSafe(x) == x \notin (Bad \ {":", "*"}) \cup {"?", "#", ";", ","}
UrlEncode(s) ==
    FlattenSeq([i \in 1 .. Len(s) |->
        CASE s[i] \in DOMAIN Undivided -> <<Undivided[s[i]]>>
          [] s[i] = "&amp;" -> <<"&", "amp", "%", ";">>
          [] s[i] \notin DOMAIN Undivided /\ s[i] # "&amp;" /\ IsSafe(s[i]) -> <<s[i]>>
          [] OTHER -> <<"%", s[i]>>])
UrlEncodeHZ(s) == FlattenSeq([i \in 1 .. Len(s) |->
                      IF s[i] \in Chinese THEN <<"%", s[i]>> ELSE <<s[i]>>])

\* The query of a link, converted; as it stands if nothing in it changes.
ConvertUrl(dc, url) ==
    LET ask == First(url, "?")
        Query(plain) == IF Convert(plain) = plain THEN From(url, ask + 1) ELSE UrlEncode(Convert(plain))
    IN  CASE ask = 0 -> url
          [] ask > 0 /\ dc.ignoreUrlEncode -> UpTo(url, ask) \o Convert(From(url, ask + 1))
          [] OTHER -> UpTo(url, ask) \o Query(UrlDecode(From(url, ask + 1)))

\* The address find_code_page asks for: the blocks undone, or the query
\* converted back.
AskedFor(dc, url) ==
    LET ask == First(url, "?")
    IN  CASE \E m \in Marks : Has(url, m) -> UnChangeChinese(dc.level, url)
          [] (\A m \in Marks : ~Has(url, m)) /\ ask > 0 ->
               UpTo(url, ask) \o UrlEncodeHZ(ConvertBack(UrlDecodeHZ(From(url, ask + 1))))
          [] OTHER -> url
=============================================================================

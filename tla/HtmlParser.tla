----------------------------- MODULE HtmlParser -----------------------------
(***************************************************************************)
(* ParseHtml_html of htmlparser.c: cuts a page into text, tags and scripts *)
(* and hands each piece to the converter that is meant for it.  The page   *)
(* may come in several calls; what a call cannot place yet it keeps in     *)
(* bakinfo for the next one.                                               *)
(*                                                                         *)
(* A page is a sequence of symbols: one byte each, but for "script" and    *)
(* "/script", which stand for the whole name.  "hi" is a byte with the top *)
(* bit set, "." anything for which GetToken finds no name, " " a blank, or *)
(* a digit behind "<".  A Big5 or GBK character is "hi" and a second byte. *)
(***************************************************************************)
EXTENDS Naturals, Sequences, SequencesExt, FiniteSetsExt

CONSTANTS Docs             \* the pages considered

Symbols == {"<", ">", " ", "a", ".", "hi", "script", "/script"}

ASSUME DocAssumption == Docs \subseteq Seq(Symbols)

VARIABLES
    doc, given,            \* the page, how much of it was passed in so far
    treatAsHtml,           \* pconf->m_iTreatScriptAsHtml
    bak,                   \* bakinfo, bakno symbols of it
    pc,                    \* "idle", "loop" inside ParseHtml_html, "crashed"
    inbuf, pcur,           \* the call's buffer and the place in it
    text,                  \* ptextb .. ptexte, as last set by this call
    out                    \* the pieces put out: the symbols each stands for,
                           \* and the symbols that were converted for them

vars == <<doc, given, treatAsHtml, bak, pc, inbuf, pcur, text, out>>

pend == Len(inbuf)

Init ==
    /\ doc \in Docs /\ given = 0
    /\ treatAsHtml \in BOOLEAN
    /\ bak = <<>> /\ pc = "idle"
    /\ inbuf = <<>> /\ pcur = 1 /\ text = <<>> /\ out = <<>>

\* Wrong variant: bakno is not reset.
CallKeepsBak(n) ==
    /\ pc = "idle" /\ given + n <= Len(doc)
    /\ given' = given + n
    /\ inbuf' = bak \o SubSeq(doc, given + 1, given + n)
    /\ pc' = "loop" /\ pcur' = 1 /\ text' = <<>>
    /\ UNCHANGED <<doc, treatAsHtml, bak, out>>

\* The next n symbols are passed in, behind what was kept.
Call(n) ==
    /\ pc = "idle" /\ given + n <= Len(doc)
    /\ given' = given + n
    /\ inbuf' = bak \o SubSeq(doc, given + 1, given + n) /\ bak' = <<>>
    /\ pc' = "loop" /\ pcur' = 1 /\ text' = <<>>
    /\ UNCHANGED <<doc, treatAsHtml, out>>

\* A "<" that a blank or a digit follows begins no tag.
TagStart(p) == inbuf[p] = "<" /\ inbuf[p + 1] # " "

\* Puts out the piece that ends at `last', after converting `by' for it.
PutOut(kind, last, by) ==
    out' = Append(out, [kind |-> kind, at |-> given - pend + pcur,
                        of |-> SubSeq(inbuf, pcur, last), by |-> by])

Return(keep) ==
    /\ pc' = "idle"
    /\ bak' = keep
    /\ inbuf' = <<>> /\ pcur' = 1 /\ text' = <<>>
    /\ UNCHANGED <<doc, given, treatAsHtml>>

Done ==
    /\ pc = "loop" /\ pcur > pend
    /\ Return(bak)
    /\ UNCHANGED out

KeepLast ==                    \* one symbol is left: it cannot be told what it is
    /\ pc = "loop" /\ pcur = pend
    /\ Return(<<inbuf[pcur]>>)
    /\ UNCHANGED out

-----------------------------------------------------------------------------
(* Text *)

\* Where the text scan stops: at a tag, or at pend, or, after a two-byte
\* character, just behind it.
TextStop ==
    LET stop[p \in pcur .. pend + 1] ==
            IF p >= pend \/ TagStart(p) THEN p
            ELSE stop[IF inbuf[p] = "hi" THEN p + 2 ELSE p + 1]
    IN  stop[pcur]

InText == pc = "loop" /\ pcur < pend /\ ~TagStart(pcur)

TextUpTo(last) ==
    /\ text' = SubSeq(inbuf, pcur, last)
    /\ PutOut("text", last, text')
    /\ UNCHANGED <<doc, given, treatAsHtml, pc, inbuf>>

TextBeforeTag ==
    /\ InText /\ TextStop # pend
    /\ TextUpTo(TextStop - 1)
    /\ pcur' = TextStop
    /\ UNCHANGED bak

\* Wrong variant: keeps half a character, but not a "<".
TextAtEndMissesTag ==
    /\ InText /\ TextStop = pend
    /\ IF inbuf[pend] = "hi"
       THEN TextUpTo(pend - 1) /\ bak' = <<inbuf[pend]>>
       ELSE TextUpTo(pend) /\ UNCHANGED bak
    /\ pcur' = pend + 1

TextAtEnd ==                   \* the last symbol may begin a tag or a character
    /\ InText /\ TextStop = pend
    /\ IF inbuf[pend] \in {"<", "hi"}
       THEN TextUpTo(pend - 1) /\ bak' = <<inbuf[pend]>>
       ELSE TextUpTo(pend) /\ UNCHANGED bak
    /\ pcur' = pend + 1

-----------------------------------------------------------------------------
(* Tags *)

InTag == pc = "loop" /\ pcur < pend /\ TagStart(pcur)

\* The next ">", or behind pend.
TagEnd ==
    LET stop[p \in pcur .. pend + 2] ==
            IF p > pend \/ inbuf[p] = ">" THEN p
            ELSE stop[IF inbuf[p] = "hi" THEN p + 2 ELSE p + 1]
    IN  stop[pcur]

\* The name of a tag from its second symbol to its last but one: up to a blank,
\* not empty, with no quote, comma or full stop.
GetToken(s) ==
    LET blanks == {i \in DOMAIN s : s[i] = " "}
        name == IF blanks = {} THEN s ELSE SubSeq(s, 1, Min(blanks) - 1)
    IN  IF Contains(name, ".") THEN <<>> ELSE name

Token == GetToken(SubSeq(inbuf, pcur + 1, TagEnd - 1))

IsScript == Token # <<>> /\ Head(Token) = "script" /\ ~treatAsHtml

Goto(p) == pcur' = p /\ UNCHANGED <<doc, given, treatAsHtml, pc, inbuf, text, bak>>

\* Wrong variant: pcur is not moved.
TagWithoutNameStays ==
    /\ InTag /\ TagEnd <= pend /\ Token = <<>> /\ text # <<>>
    /\ UNCHANGED vars

\* translate(ptextb .. ptexte): the text last put out, not the tag.
TagWithoutName ==
    /\ InTag /\ TagEnd <= pend /\ Token = <<>> /\ text # <<>>
    /\ PutOut("noname", TagEnd, text)
    /\ Goto(TagEnd + 1)

\* Before any text of the call both are NULL, one byte is read there, and the
\* process is gone.
TagWithoutText ==
    /\ InTag /\ TagEnd <= pend /\ Token = <<>> /\ text = <<>>
    /\ pc' = "crashed"
    /\ UNCHANGED <<doc, given, treatAsHtml, bak, inbuf, pcur, text, out>>

Tag ==                         \* ProcessTag
    /\ InTag /\ TagEnd <= pend /\ Token # <<>> /\ ~IsScript
    /\ PutOut("tag", TagEnd, SubSeq(inbuf, pcur, TagEnd))
    /\ Goto(TagEnd + 1)

\* Where the next </script> ends.  strnistr is given the number of bytes between
\* ">" and pend, and so does not find one that ends at pend itself.
ScriptEnds == {e \in TagEnd + 2 .. pend - 1 : SubSeq(inbuf, e - 2, e) = <<"<", "/script", ">">>}

Script ==                      \* ProcessScript
    /\ InTag /\ TagEnd <= pend /\ IsScript /\ ScriptEnds # {}
    /\ LET e == Min(ScriptEnds)
       IN  PutOut("script", e, SubSeq(inbuf, pcur, e)) /\ Goto(e + 1)

\* Wrong variant: keeps the tag without its "<".
KeepTagFromName ==
    /\ InTag
    /\ TagEnd <= pend => IsScript /\ ScriptEnds = {}
    /\ Return(SubSeq(inbuf, pcur + 1, pend))
    /\ UNCHANGED out

KeepTag ==                     \* the end of the tag or script is not there yet
    /\ InTag
    /\ TagEnd <= pend => IsScript /\ ScriptEnds = {}
    /\ Return(SubSeq(inbuf, pcur, pend))
    /\ UNCHANGED out

ParseHtml_html == \/ Done \/ KeepLast \/ TextBeforeTag \/ TextAtEnd
                  \/ TagWithoutName \/ TagWithoutText \/ Tag \/ Script \/ KeepTag

Next == \/ \E n \in 1 .. Len(doc) : Call(n)
        \/ ParseHtml_html

\* A call, once made, runs on.
Spec == Init /\ [][Next]_vars /\ WF_vars(ParseHtml_html)

-----------------------------------------------------------------------------
(* Properties *)

\* Every variable keeps its type.  Nothing is kept while there is still
\* something to look at.
TypeOK ==
    /\ doc \in Docs /\ given \in 0 .. Len(doc) /\ treatAsHtml \in BOOLEAN
    /\ pc \in {"idle", "loop", "crashed"} /\ inbuf \in Seq(Symbols)
    /\ pcur \in 1 .. pend + 1
    /\ bak \in Seq(Symbols) /\ Len(bak) <= given
    /\ pc # "idle" /\ bak # <<>> => pcur = pend + 1

\* Wherever the page is cut, its pieces, what is still to be looked at and what
\* is kept are together, in order, all that was passed in.
PiecesCover ==
    FlattenSeq([k \in DOMAIN out |-> out[k].of]) \o SubSeq(inbuf, pcur, pend) \o bak
        = SubSeq(doc, 1, given)

\* The text piece that comes last before piece k.
TextBefore(k, j) ==
    /\ j \in 1 .. k - 1 /\ out[j].kind = "text"
    /\ \A i \in j + 1 .. k - 1 : out[i].kind # "text"

\* A piece is converted as it stands.  A tag without a name is not converted at
\* all: the text before it is, once more.
PiecesConverted ==
    \A k \in DOMAIN out :
        IF out[k].kind = "noname"
        THEN \E j \in DOMAIN out : TextBefore(k, j) /\ out[k].by = out[j].of
        ELSE out[k].by = out[k].of

\* Wherever the page is cut, every symbol of it is in one piece, kept, or still
\* to come, and every piece but a tag without a name is what is converted there.
NothingLost == PiecesCover /\ PiecesConverted

\* Second bytes of characters, on the page d.
Second(d) == LET is[p \in 1 .. Len(d)] == p > 1 /\ d[p - 1] = "hi" /\ ~is[p - 1]
             IN  {p \in 1 .. Len(d) : is[p]}

\* A page in Big5 or GBK: no second byte is one that tags are made of.
TwoByte(d) == \A p \in Second(d) : d[p] \in {"hi", "a"}

\* Where a tag begins, where one that begins at p may end, and, for a script,
\* where it ends.
Opens(d, p) == p \notin Second(d) /\ d[p] = "<" /\ p < Len(d) /\ d[p + 1] # " "

Ends(d, p) == {q \in p + 1 .. Len(d) : d[q] = ">" /\ q \notin Second(d)}

BeginsScript(d, html, p) ==
    /\ ~html /\ d[p + 1] = "script"
    /\ GetToken(SubSeq(d, p + 1, Min(Ends(d, p)) - 1)) # <<>>

Closes(d, p) == {e \in Min(Ends(d, p)) + 3 .. Len(d) :
                    SubSeq(d, e - 2, e) = <<"<", "/script", ">">>}

\* The last symbol of the tag or script at p, Len(d) + 1 if it has no end.
LastOf(d, html, p) ==
    Min({Len(d) + 1} \cup IF Ends(d, p) # {} /\ BeginsScript(d, html, p)
                           THEN Closes(d, p) ELSE Ends(d, p))

\* The tags and scripts of a page, as <<first, last>>, from each place on, were
\* it looked at whole.
TagsFrom(d, html) ==
    LET from[p \in 1 .. Len(d) + 2] ==
            IF p > Len(d) THEN {}
            ELSE IF Opens(d, p)
                 THEN {<<p, LastOf(d, html, p)>>} \cup from[LastOf(d, html, p) + 1]
                 ELSE from[p + 1]
    IN  from

TagsOfPage == {t \in TagsFrom(doc, treatAsHtml)[1] : t[2] <= Len(doc)}

TagsPutOut == {<<out[k].at, out[k].at + Len(out[k].of) - 1>> :
                  k \in {j \in DOMAIN out : out[j].kind # "text"}}

\* Wherever the page is cut, the tags and scripts put out are those of the page
\* looked at whole, and all of them that ended before the last symbol passed
\* in.  (For pages of two-byte characters: the scan takes the bytes with the
\* top bit set in pairs, which in UTF-8 hides what follows a three-byte one.)
TagsFound ==
    /\ TagsPutOut \subseteq TagsOfPage
    /\ pc = "idle" => {t \in TagsOfPage : t[2] < given} \subseteq TagsPutOut

\* The page has a tag without a name.
HasNameless ==
    \E t \in TagsOfPage : GetToken(SubSeq(doc, t[1] + 1, Min(Ends(doc, t[1])) - 1)) = <<>>

\* Every call returns; only on a page with a nameless tag may the process die in
\* it (htmlparser.c:2329 before any text).
ParseReturns == pc = "loop" ~> (pc = "idle" \/ (pc = "crashed" /\ HasNameless))

\* htmlparser.c:1899 says of a tag in which no token is found that it is
\* actually text; so the tag itself is what is converted for it.
NoTokenIsText == \A k \in DOMAIN out : out[k].by = out[k].of

\* htmlparser.c:1883 says of a tag whose end is not found that it is actually
\* text; so at the end of the page none is held back.
NoEndIsText ==
    pc = "idle" /\ given = Len(doc) =>
        ~(Len(bak) > 1 /\ bak[1] = "<" /\ ~Contains(bak, ">"))
=============================================================================

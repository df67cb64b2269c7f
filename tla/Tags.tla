-------------------------------- MODULE Tags --------------------------------
(***************************************************************************)
(* What htmlparser.c puts out for one piece of a page (a run of text, a    *)
(* tag, a script): ReplaceHTTPAndConvert, ProcessTag, ProcessScript.       *)
(*                                                                         *)
(* The output is a sequence of parts: `from' is the text of the page a     *)
(* part stands for, `to' what is written for it.  Of kind "skipped" is     *)
(* text passed over, of kind "unset" what a variable nobody set points to. *)
(* Names of tags and attributes and "url(" are one symbol each.            *)
(***************************************************************************)
EXTENDS UrlRewrite

CONSTANT Forever   \* 0xFFFF: the counter in a textarea

Part(kind, from, to) == <<[kind |-> kind, from |-> from, to |-> to]>>
Text(s) == IF s = <<>> THEN <<>> ELSE Part("text", s, Convert(s))
Raw(s)  == IF s = <<>> THEN <<>> ELSE Part("raw", s, s)
Skipped(s) == IF s = <<>> THEN <<>> ELSE Part("skipped", s, <<>>)

\* What is put out by a call of ReplaceHTTPAndConvert, and what that same call
\* goes on with.
Call(s) == Part("call", s, s)
More(s) == Part("more", s, s)

-----------------------------------------------------------------------------
\* ReplaceHTTPAndConvert.

CssDelims == Blanks \cup Quotes \cup {";", ",", "("}
Http  == <<"http", ":", "/", "/">>
Https == <<"https", ":", "/", "/">>

\* Where "url(" begins what may be a reference, and the ")" behind it; only
\* the first "url(" is considered.
CssOpen(s)  == First(s, "url(")
CssClose(s) == SelectInSubSeq(s, CssOpen(s) + 1, Len(s), LAMBDA x : x = ")")
IsCss(s) ==
    /\ CssOpen(s) > 0 /\ CssClose(s) > 0
    /\ CssOpen(s) > 1 => s[CssOpen(s) - 1] \in CssDelims
    /\ \A i \in CssOpen(s) .. CssClose(s) : s[i] \notin Quotes

\* The reference in it without blanks and ";" around it.
CssFrom(s) == Min({i \in CssOpen(s) + 1 .. CssClose(s) :
                      i = CssClose(s) \/ s[i] \notin Blanks \cup {";"}})
CssLast(s) == Max({i \in CssOpen(s) .. CssClose(s) - 1 :
                      i <= CssFrom(s) \/ s[i] \notin Blanks \cup {";"}})

\* The first "http://", or else the first "https://".
HttpAt(s) == IF Find(s, Http) > 0 THEN Find(s, Http) ELSE Find(s, Https)

\* The end of an address that has a quote or a bracket in front of it; 0 if
\* it has none or the other one is missing.
HttpEnd(s, at) ==
    LET open  == IF at > 1 THEN s[at - 1] ELSE NoSymbol
        close == CASE open \in Quotes -> open [] open = "(" -> ")" [] OTHER -> NoSymbol
        BeforeEscape(end) ==
            IF end > 0 /\ s[end] \in Quotes /\ s[end - 1] = "\\" THEN end - 1 ELSE end
    IN  IF at = 0 THEN 0
        ELSE BeforeEscape(SelectInSubSeq(s, at, Len(s), LAMBDA x : x = close))

\* The first reference in s: from its first symbol to the one behind it.
LinkIn(s) ==
    IF IsCss(s) THEN [from |-> CssFrom(s), end |-> CssLast(s) + 1]
    ELSE [from |-> HttpAt(s), end |-> HttpEnd(s, HttpAt(s))]

\* Without a mark for its end, the beginning of an address is replaced: as the
\* map says, and as much again is passed over; or by the prefix.  UrlMapHTTP
\* answers with the length of the pair's text: for an empty one with no map.
Beginning(dc, s, at) ==
    LET map  == SelectInSeq(dc.urlMap, LAMBDA m : Len(m.from) < Len(s) /\ IsPrefix(m.from, From(s, at)))
        size == IF map = 0 THEN 0 ELSE Len(dc.urlMap[map].from)
        end  == Min({at + 2 * size, Len(s) + 1})
    IN  IF size > 0
        THEN [end |-> end, part |-> Part("mapped", SubSeq(s, at, at + size - 1), dc.urlMap[map].to)
                                    \o Skipped(SubSeq(s, at + size, end - 1))]
        ELSE [end |-> at + 4, part |-> Part("prefix", SubSeq(s, at, at + 3),
                                            IF s[at] = "http" THEN UrlPrefix ELSE SUrlPrefix)]

\* What is put out for a reference: where ChangeUrl found nothing for it, what
\* the variable holds.
InItsPlace(dc, c, ref) ==
    LET As(u) == IF u.set THEN Part("link", ref, u.url) ELSE Part("unset", ref, c.stack.text)
    IN  As(ChangeUrl(dc, c, ref))

\* What is done with the first reference of s, the link found: the part put out
\* for it, and from where to where it stands.  A text without one is put out.
NoLink(s, link) == ~IsCss(s) /\ link.from = 0
PartAt(dc, c, s, link) ==
    LET Put(part, from, end) == [part |-> part, from |-> from, end |-> end]
    IN  CASE IsCss(s) /\ link.from + 1 >= link.end -> Put(<<>>, link.from, link.from)
          [] ~IsCss(s) /\ link.end = 0 ->
               LET b == Beginning(dc, s, link.from) IN Put(b.part, link.from, b.end)
          [] OTHER -> Put(InItsPlace(dc, c, SubSeq(s, link.from, link.end - 1)), link.from, link.end)

\* What stands before the reference and behind it is treated like the whole.
Replace(dc, c, s) ==
    LET Done[t \in {x \in Seq(STRING) : Len(x) <= Len(s)}] ==
            IF NoLink(t, LinkIn(t)) THEN Text(t)
            ELSE LET p == PartAt(dc, c, t, LinkIn(t))
                 IN  Done[UpTo(t, p.from - 1)] \o p.part \o Done[From(t, p.end)]
    IN  Done[s]

OnlyConvert(dc, c) == c.counter > 0 \/ dc.notReplaceUrl \/ c.ignore
ReplaceHTTPAndConvert(dc, c, s) == IF OnlyConvert(dc, c) THEN Text(s) ELSE Replace(dc, c, s)

\* The calls made: each that only converts takes one from the counter.
Finished(dc, r) ==
    LET calls == Cardinality({i \in DOMAIN r.out : r.out[i].kind = "call"})
    IN  [out |-> FlattenSeq([i \in DOMAIN r.out |->
                     IF r.out[i].kind \in {"call", "more"}
                     THEN ReplaceHTTPAndConvert(dc, r.c, r.out[i].from) ELSE <<r.out[i]>>]),
         c   |-> IF OnlyConvert(dc, r.c) THEN [r.c EXCEPT !.counter = @ - calls] ELSE r.c]

-----------------------------------------------------------------------------
\* ProcessTag.

NameAt(s)  == SelectInSubSeq(s, 2, Len(s), LAMBDA x : x \notin Blanks)
Name(s)    == s[NameAt(s)]
EndOfTag   == Blanks \cup {">"}

\* Where a value ends that begins at b: for quoted ones at the quote, unless
\* two "+" come first.
QuoteEnd(s, b, q) ==
    LET e == SelectInSubSeq(s, b, Len(s), LAMBDA x : x = q)
    IN  IF Cardinality({i \in b .. e : s[i] = "+"}) > 1 THEN 0 ELSE e

\* A value without quotes ends at a blank, in a META also at the quote the
\* attribute itself is in.
BareEnd(s, b, attr) ==
    LET open == SelectLastInSubSeq(s, 2, attr, LAMBDA x : x \in Quotes \cup {"="})
        stop == IF Name(s) = "meta" /\ open > 0 /\ s[open] # "=" THEN {s[open]} ELSE {}
    IN  SelectInSubSeq(s, b, Len(s), LAMBDA x : x \in EndOfTag \cup stop)

NoValue == [from |-> 0, end |-> 0]

\* Where the value is that begins at b.
ValueAt(s, at, b) ==
    CASE s[b] \in Quotes -> [from |-> b + 1, end |-> QuoteEnd(s, b + 1, s[b])]
      [] s[b] = "\\" /\ s[b + 1] \in Quotes ->
           LET e == Find(From(s, b + 2), <<"\\", s[b + 1]>>)
           IN  IF s[b + 2] = s[b + 1] \/ e = 0 THEN NoValue
               ELSE [from |-> b + 2, end |-> b + 1 + e]
      [] OTHER -> [from |-> b, end |-> BareEnd(s, b, at)]

\* The value of the first attribute of that name: its first symbol, and the
\* one behind it.
Value(s, attr) ==
    LET Behind(i, marks) == SelectInSubSeq(s, i + 1, Len(s), LAMBDA x : x \notin marks)
        Checked(v) == IF v.end <= v.from THEN NoValue ELSE v
        After(at, eq, b) ==
            IF at = 0 \/ eq = 0 \/ b \in {0, Len(s)} THEN NoValue
            ELSE IF s[at - 1] \in Blanks /\ s[eq] = "=" /\ s[b + 1] # "+"
                 THEN Checked(ValueAt(s, at, b)) ELSE NoValue
        AfterEq(at, eq) == After(at, eq, Behind(eq, Blanks))
        AfterName(at)   == AfterEq(at, Behind(at, {" ", "\t"}))
    IN  AfterName(SelectInSubSeq(s, NameAt(s) + 1, Len(s), LAMBDA x : x = attr))

\* The attribute whose value is a reference.  For fjtignoreurl and textarea
\* none is set: the array holds what an earlier call left.
AttrName(dc, c, s) ==
    LET hidden == IsPrefix(<<"input", " ", "type", "=", "\"", "hidden", "\"">>, From(s, NameAt(s)))
    IN  CASE Name(s) \in {"a", "link", "area"} -> "href"
          [] Name(s) = "applet" -> "codebase"
          [] Name(s) = "meta"   -> "url"
          [] Name(s) \in {"frame", "iframe", "img", "image", "script", "xml", "embed"} -> "src"
          [] Name(s) = "form"   -> "action"
          [] Name(s) = "input"  -> IF dc.valueLevel > 0 /\ hidden THEN "value" ELSE "src"
          [] Name(s) = "param"  -> "value"
          [] Name(s) = "option" /\ dc.valueLevel > 1 -> "value"
          [] Name(s) = "fjtignoreurl" \/ (Name(s) = "textarea" /\ dc.notChangeTextboxUrl) -> c.stack.attr
          [] OTHER -> "background"

\* What a tag changes for itself and the rest of the page.
Entered(dc, c, s) ==
    CASE Name(s) = "fjtignoreurl" -> [c EXCEPT !.ignore = TRUE]
      [] Name(s) = "textarea" /\ dc.notChangeTextboxUrl -> [c EXCEPT !.counter = Forever]
      [] Name(s) = "input" /\ dc.notChangeTextboxUrl /\ AttrName(dc, c, s) = "src" ->
           [c EXCEPT !.counter = 1]
      [] Name(s) = "meta" -> [c EXCEPT !.utf8 = @ \/ (c.metas = 0 /\ Has(s, "utf-8") /\ dc.detectBOM # 4),
                                       !.metas = @ + 1]
      [] OTHER -> c

Charsets == <<"gb2312", "gbk", "big5">>

\* The name of a character set at `at' replaced.
Renamed(s, at, name) == Raw(UpTo(s, at - 1)) \o Part("charset", <<s[at]>>, name) \o Raw(From(s, at + 1))

\* <?xml encoding=...>: 0 if it names none of the three.
XmlCharset(s) ==
    LET At(x) == SelectInSubSeq(s, First(s, "encoding"), Len(s), LAMBDA y : y = x)
        known == SelectInSeq(Charsets, LAMBDA x : At(x) > 0)
    IN  IF ~Has(s, "encoding") \/ known = 0 THEN 0 ELSE At(Charsets[known])

XmlName(dc, c, name) ==
    CASE dc.forceOutputUTF8 \/ (dc.keepUTF8Encode /\ c.utf8) -> <<"utf-8">>
      [] ~(dc.forceOutputUTF8 \/ (dc.keepUTF8Encode /\ c.utf8)) /\ name = "big5" -> <<"gb2312">>
      [] OTHER -> <<"big5">>

\* <META ... charset=...>: where the name is.
MetaCharset(s) ==
    LET eq == SelectInSubSeq(s, First(s, "charset"), Len(s), LAMBDA x : x = "=")
    IN  IF ~Has(s, "charset") \/ eq = 0 THEN 0
        ELSE SelectInSubSeq(s, eq + 1, Len(s), LAMBDA x : x \notin Blanks \cup Quotes)

\* Nothing is written for it if ToEncode is none of the two.
MetaName(dc, name) ==
    CASE (dc.keepUTF8Encode /\ name = "utf-8") \/ dc.forceOutputUTF8 \/ dc.isUTF8 -> <<"utf-8">>
      [] OTHER ->
           IF dc.toEncode \notin {"gb2312", "big5"} THEN <<>>
           ELSE IF dc.unconvertOutput = (dc.toEncode = "gb2312") THEN <<"big5">> ELSE <<"gb2312">>

\* A value that is not an address: a block in its place, as long as it is
\* coded with "%" and no path.  A path that leads nowhere is dropped: here the
\* variable is set before the call, to nothing.
OtherValue(dc, c, value) ==
    LET As(u) == IF u.set THEN Part("value", value, u.url) ELSE Part("dropped", value, <<>>)
    IN  CASE Find(value, <<".", "/">>) = 0 /\ ~Has(value, "?") ->
               Part("value", value, BuildBase64Block(value))
          [] OTHER -> As(ChangeUrl(dc, c, value))

\* From the label DoModiUrlTag on, with the value found.
ModifyValue(dc, c, s, attr, v) ==
    LET value  == SubSeq(s, v.from, v.end - 1)
        coded  == dc.valueLevel > 0 /\ attr = "value"
        script == dc.scriptLevel > 0 /\ Name(s) = "script"
        Seen(ref) == IF script THEN s ELSE UpTo(s, v.from - 1) \o ref \o From(s, v.end)
        Linked(u) == IF u.ok THEN Call(UpTo(s, v.from - 1)) \o Part("link", value, u.url)
                                  \o Call(From(s, v.end))
                     ELSE Call(Seen(u.ref))
    IN  CASE ~dc.shouldChange \/ v = NoValue \/ (coded /\ ~Has(value, "%")) -> Call(s)
          [] dc.shouldChange /\ v # NoValue /\ (coded => Has(value, "%"))
                             /\ (coded \/ Name(s) = "option") ->
               Raw(UpTo(s, v.from - 1)) \o OtherValue(dc, c, value) \o Raw(From(s, v.end))
          [] OTHER -> Linked(ChangeUrl(dc, c, IF script THEN TrimRight(value) ELSE value))
DoModiUrlTag(dc, c, s, attr) == ModifyValue(dc, c, s, attr, Value(s, attr))

\* The tags that are written without a look for a reference.  That
\* </fjtignoreurl> and </textarea> would end what they began is never seen:
\* their names are looked for in as many characters as they have, and the "/"
\* is one of these.
IsClosing(s) == s[2] = "/"
WithoutReference(dc, s) ==
    \/ IsClosing(s) \/ Name(s) = "!--"
    \/ Name(s) = "body" /\ Has(s, "onload")
    \/ Name(s) = "param" /\ (Has(s, "charset") \/ ~Has(s, "movie"))

\* The value of <param name="CharSet"> is exchanged.
ParamExchanged(s) ==
    LET value == SelectInSubSeq(s, First(s, "charset"), Len(s), LAMBDA x : x = "value")
        At(x) == SelectInSubSeq(s, value, Len(s), LAMBDA y : y = x)
    IN  IF Name(s) # "param" \/ ~Has(s, "charset") \/ value = 0 THEN 0
        ELSE IF At("gb2312") > 0 THEN At("gb2312") ELSE At("big5")

\* Wrong variant: what stands behind the link is not put out.
DropsTheRest(dc, c, s) ==
    LET Linked(v) == IF v = NoValue THEN Text(s)
                     ELSE Raw(UpTo(s, v.from - 1))
                          \o Part("link", SubSeq(s, v.from, v.end - 1),
                                  ChangeUrl(dc, c, SubSeq(s, v.from, v.end - 1)).url)
    IN  [out |-> Linked(Value(s, AttrName(dc, c, s))), c |-> c]

\* A tag: what is put out for it, and the context behind it.
ProcessTag(dc, c, s) ==
    LET Put(parts, c2) == [out |-> parts, c |-> c2]
        Xml(at)  == Put(Renamed(s, at, XmlName(dc, c, s[at])), c)
        Meta(at, in) == Put(IF at = 0 THEN Raw(s) ELSE Renamed(s, at, MetaName(dc, s[at])), in)
        Other(at) == IF s[at] = "big5" THEN <<"gb2312">> ELSE <<"big5">>
        Param(at) == Put(Call(UpTo(s, at - 1)) \o Part("charset", <<s[at]>>, Other(at))
                         \o More(From(s, at + 1)), c)
        AnyTag(in) == Put(DoModiUrlTag(dc, in, s, AttrName(dc, in, s)), in)
    IN  CASE Name(s) = "?xml" /\ XmlCharset(s) > 0 -> Xml(XmlCharset(s))
          [] Name(s) = "meta" /\ Has(s, "charset") -> Meta(MetaCharset(s), Entered(dc, c, s))
          [] Name(s) = "param" /\ ParamExchanged(s) > 0 -> Param(ParamExchanged(s))
          [] ~(Name(s) = "param" /\ ParamExchanged(s) > 0) /\ WithoutReference(dc, s) ->
               Put(Call(s), c)
          [] OTHER -> AnyTag(Entered(dc, c, s))

\* The address <base href> gives the page: what stands in quotes behind the "="
\* or up to a blank (the first " ", or else the first tab, ...), or all but the
\* last symbol of the tag; with a "/" behind the host.
LinkFrom(s) ==
    LET eq == SelectInSubSeq(s, First(s, "href"), Len(s), LAMBDA x : x = "=")
    IN  SelectInSubSeq(s, eq + 1, Len(s), LAMBDA x : x \notin Blanks)
HasLink(s) ==
    /\ Has(s, "href") /\ \E i \in First(s, "href") .. Len(s) : s[i] = "="
    /\ s[LinkFrom(s)] = "\\" => s[LinkFrom(s) + 1] # "\""

LinkEnd(dc, s, from, marks) ==
    LET At(x) == strnchr(Width(dc), s, from, Len(s), x)
        found == SelectInSeq(marks, LAMBDA x : At(x) > 0)
    IN  IF found = 0 THEN Len(s) ELSE At(marks[found])

GetLink(dc, s) ==
    LET at     == LinkFrom(s)
        quoted == s[at] \in Quotes
        from   == IF quoted THEN at + 1 ELSE at
        url    == SubSeq(s, from, LinkEnd(dc, s, from, IF quoted THEN <<s[at]>> ELSE <<" ", "\t", "\n", "\r">>) - 1)
        host   == Find(url, <<":", "/", "/">>)
    IN  IF host = 0 \/ strnchr(Width(dc), url, host + 3, Len(url), "/") > 0 THEN url
        ELSE Append(url, "/")

\* A <script> element: its tag as any other, then its text.
ProcessScript(dc, c, s) ==
    LET tag == First(s, ">")
        Then(head) == [head EXCEPT !.out = @ \o Call(From(s, tag + 1))]
    IN  Then(ProcessTag(dc, c, UpTo(s, tag)))

\* A piece of the page.
Converted(dc, c, item) ==
    LET Based(s) == IF Name(s) = "base" /\ HasLink(s) THEN [c EXCEPT !.base = GetLink(dc, s)] ELSE c
    IN  Finished(dc,
            CASE item.kind = "text" ->
                   [out |-> IF dc.replaceHttpInText THEN Call(item.s) ELSE Text(item.s), c |-> c]
              [] item.kind = "script" -> ProcessScript(dc, c, item.s)
              [] OTHER -> ProcessTag(dc, Based(item.s), item.s))
=============================================================================

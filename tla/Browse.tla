------------------------------- MODULE Browse -------------------------------
(***************************************************************************)
(* Going from page to page through the gateway: a page is fetched and      *)
(* converted piece by piece, the browser follows one of the references it  *)
(* was given, httpd maps the address it asks for, find_code_page decodes   *)
(* it, and the next page is fetched from what came of it.  At the end a    *)
(* form may be sent, whose body goes through the input filter.             *)
(***************************************************************************)
EXTENDS Tags, InputFilter

CONSTANTS Scenarios,  \* [dc, start, site]: a directory's configuration, the
                      \* address gone to first, and where
          Pages,      \* the pages a site may have: sequences of [kind, s]
          Leftovers,  \* what a variable nobody set may point to
          MaxVisits   \* bound on the pages gone to

ASSUME ScenariosAssumption ==
    \A sc \in Scenarios : sc.dc.urlMap \in Seq([from : Seq(STRING), to : Seq(STRING)])
ASSUME SymbolsAssumption == {"/"} \subseteq STRING   \* as a symbol, what "\" becomes
ASSUME PagesAssumption ==
    \A sc \in Scenarios : Pages[sc.site] \subseteq Seq([kind : STRING, s : Seq(STRING)])

VARIABLES
    dc, site,   \* as in the scenario
    phase,      \* "request", "page", "shown", "left", "body", "crashed"
    visits,     \* the requests made
    address,    \* where the browser is: an address of the gateway, or another
    wanted,     \* where the reference it followed leads on the original page
    excused,    \* whether that reference is one the code is known to miss
    asked,      \* the address the page was asked for at its origin
    page, pos,  \* the page, a sequence of [kind, s], and how much is converted
    c,          \* ConvertCtx
    outs        \* outs[i]: what was put out for page[i]

pageVars == <<page, pos, c, outs>>
webVars  == <<dc, site, phase, visits, address, wanted, excused, asked, pageVars>>
browseVars == <<webVars, inVars>>

\* ConvertCtx at the beginning of a page, and the stack when nothing is read
\* from it.
Nothing == [attr |-> NoSymbol, colon |-> FALSE, text |-> NoUrl]
Context(url) == [base |-> url, counter |-> 0, ignore |-> FALSE, utf8 |-> FALSE, metas |-> 0,
                 stack |-> Nothing]

BrowseInit ==
    /\ \E sc \in Scenarios :
          /\ dc = sc.dc /\ site = sc.site /\ wanted = Plain(sc.start)
          /\ address = Prefixed(sc.dc, sc.start)
    /\ phase = "request" /\ visits = 0 /\ excused = FALSE /\ asked = NoUrl
    /\ page = <<>> /\ pos = 1 /\ outs = <<>>
    /\ c = Context(NoUrl)
    /\ InInit

-----------------------------------------------------------------------------
\* httpd: the rewrite rules put the scheme back in the place of the prefix.
Gateway == {UrlPrefix, SUrlPrefix}
AtGateway(url) == \E p \in Gateway : IsPrefix(p, url)
Mapped(url) == UpTo(url, 4) \o From(url, 7)

\* The request: what find_code_page has the page asked for is also what
\* references in it are relative to.
Request ==
    /\ phase = "request" /\ AtGateway(address) /\ visits < MaxVisits
    /\ asked' = AskedFor(dc, Mapped(address))
    /\ c' = Context(asked')
    /\ page' \in Pages[site] /\ pos' = 1 /\ outs' = <<>>
    /\ visits' = visits + 1 /\ phase' = "page"
    /\ UNCHANGED <<dc, site, address, wanted, excused, inVars>>

\* The browser goes straight to the origin.
Leave ==
    /\ phase = "request" /\ ~AtGateway(address)
    /\ asked' = address /\ phase' = "left"
    /\ UNCHANGED <<dc, site, visits, address, wanted, excused, pageVars, inVars>>

\* What earlier calls may have left on the stack, for a piece that has what it
\* takes to read it.
Left(item) ==
    LET may(cond, what, else) == IF cond THEN what ELSE {else}
        wide == \E i \in DOMAIN item.s : item.s[i] \in Width(dc).behind
    IN  [attr  : may(item.kind = "tag" /\ Name(item.s) \in {"fjtignoreurl", "textarea"},
                     {NoSymbol, "href", "src", "background"}, NoSymbol),
         colon : may(wide, BOOLEAN, FALSE),
         text  : may(Has(item.s, "url("), Leftovers, NoUrl)]

PutOut(r) ==
    /\ outs' = Append(outs, r.out) /\ c' = [r.c EXCEPT !.stack = Nothing]
    /\ pos' = pos + 1 /\ phase' = "page"

\* The pointer nobody set points nowhere.
PieceCrashes(r) ==
    /\ \E j \in DOMAIN r.out : r.out[j].kind = "unset"
    /\ phase' = "crashed" /\ UNCHANGED <<outs, c, pos>>

\* ParseHtml_html, for the next piece.
ConvertPiece ==
    /\ phase = "page" /\ pos <= Len(page)
    /\ \E left \in Left(page[pos]) :
          \E r \in {Converted(dc, [c EXCEPT !.stack = left], page[pos])} : PutOut(r) \/ PieceCrashes(r)
    /\ UNCHANGED <<dc, site, visits, address, wanted, excused, asked, page, inVars>>

PageDone ==
    /\ phase = "page" /\ pos > Len(page) /\ phase' = "shown"
    /\ UNCHANGED <<dc, site, visits, address, wanted, excused, asked, pageVars, inVars>>

-----------------------------------------------------------------------------
\* The browser: the reference in a piece of a page as it reads it, NoUrl if
\* there is none.
References == {"href", "src", "action", "codebase", "background"}
HtmlText(s) ==
    LET ask == First(s \o <<"?">>, "?")
    IN  [i \in DOMAIN s |-> CASE s[i] = "&amp;" -> "&"
                              [] s[i] = "\\" /\ i < ask -> "/"
                              [] OTHER -> s[i]]
Trimmed(s) == TrimRight(TrimLeft(s))

InCss(s) ==
    LET b == First(s, "url(")
        e == SelectInSubSeq(s, b + 1, Len(s), LAMBDA x : x = ")")
    IN  IF b = 0 \/ e = 0 THEN NoUrl
        ELSE SelectSeq(SubSeq(s, b + 1, e - 1), LAMBDA x : x \notin Quotes \cup Blanks)

InAttribute(s) ==
    LET at == SelectInSeq(s, LAMBDA x : x \in References)
        q  == s[at + 2]
        e  == SelectInSubSeq(s, at + 3, Len(s), LAMBDA x :
                  IF q \in Quotes THEN x = q ELSE x \in Blanks \cup {">"})
    IN  IF at = 0 THEN NoUrl
        ELSE Trimmed(SubSeq(s, IF q \in Quotes THEN at + 3 ELSE at + 2, e - 1))

Reference(item, s) == HtmlText(IF item.kind = "text" THEN InCss(s) ELSE InAttribute(s))
Original(i) == Reference(page[i], page[i].s)
Written(i)  == Reference(page[i], FlattenSeq([j \in DOMAIN outs[i] |-> outs[i][j].to]))

\* What references are relative to: <base href>, or the page's address.
BaseItem == SelectInSeq(page, LAMBDA item : item.kind = "tag" /\ Name(item.s) = "base")
PageBase    == IF BaseItem = 0 THEN wanted ELSE Resolve(wanted, Original(BaseItem))
BrowserBase == IF BaseItem = 0 THEN address ELSE Resolve(address, Written(BaseItem))

IsLink(i) ==
    /\ Original(i) # NoUrl /\ i # BaseItem
    /\ HasScheme(Original(i)) => Head(Original(i)) \in Schemes

\* Two addresses that name the same: a Chinese character or a blank may be
\* written as it is or with "%", and an empty path as "/".
Rooted(url) ==
    IF RootOf(PathOf(url)) = 0 THEN PathOf(url) \o <<"/">> \o From(url, Len(PathOf(url)) + 1) ELSE url
Canonical(url) ==
    LET Rest[i \in 1 .. Len(url) + 1] ==
            CASE i > Len(url) -> <<>>
              [] i < Len(url) /\ url[i] = "%" /\ url[i + 1] \in Chinese \cup {" "} ->
                   <<url[i + 1]>> \o Rest[i + 2]
              [] OTHER -> <<url[i]>> \o Rest[i + 1]
    IN  Rest[1]
Same(a, b) == Canonical(Rooted(a)) = Canonical(Rooted(b))

-----------------------------------------------------------------------------
\* The references the code is known to lead elsewhere, each with the place.

\* The loop over dots takes any name that begins with one for a directory, and
\* leaves a ".." that nothing follows in the address.
Dotted(ref) ==
    LET segs == Segments(PathOf(ref))
    IN  \E i \in 1 .. Len(segs) :
            /\ segs[i] # <<>> /\ Head(segs[i]) = "."
            /\ segs[i] \in {<<".">>, <<".", ".">>} => i = Len(segs)

\* No path between the host and the query: the "/" goes to the end.
NoPath(ref) == HasScheme(ref) /\ RootOf(ref) = 0 /\ QueryOf(ref) # <<>>

\* A reference left relative (a query alone, or one not found) is resolved by
\* the browser, below the block that hides the page's directory and query.
LeftRelative(i) ==
    /\ ~HasScheme(Written(i)) /\ NoFragment(Written(i)) # <<>>
    /\ \E m \in Marks : Has(BrowserBase, m)

\* Without blocks the query is decoded and never coded again but for Chinese.
LosesCode(ref) ==
    /\ dc.level = 0
    /\ \E i \in 1 .. Len(ref) - 1 : ref[i] = "%" /\ ref[i + 1] \notin Chinese

\* A block up to the end takes the fragment with it.
HidesFragment(i) == Has(Original(i), "#") /\ ~Has(Written(i), "#")

\* A reference ProcessTag does not find (two "+" in it) or ChangeUrl leaves is
\* text to it, and its characters are converted with the rest of the tag.
ConvertedAsText(i) == Written(i) = Convert(Original(i)) /\ Written(i) # Original(i)

\* The "/" a directory ends with is stepped over with the character behind it:
\* the page's own below a query, or one above it.
HidesSlash(ref) ==
    LET root == RootOf(c.base)
        query == First(c.base, "?")
        Misses(k) == rsfind(Width(dc), c.base, root, k, "/")
                         # SelectLastInSubSeq(c.base, root, k, LAMBDA x : x = "/")
        above == {d \in root + 1 .. Len(PathOf(c.base)) : c.base[d] = "/"}
    IN  /\ ~HasScheme(ref) /\ Head(ref) \notin {"/", "?"} /\ root > 0
        /\ \/ query > 0 /\ Misses(query)
           \/ Find(ref, <<".", ".">>) > 0 /\ \E d \in above : Misses(d - 1)

\* Below a <base href> without a scheme no reference is found.
BaseUnknown(ref) == BaseItem > 0 /\ ~HasScheme(Original(BaseItem)) /\ ~HasScheme(ref)

KnownMiss(i) ==
    \/ ConvertedAsText(i)
    \/ Dotted(Original(i)) \/ NoPath(Original(i)) \/ LeftRelative(i)
    \/ LosesCode(Original(i)) \/ HidesFragment(i)
    \/ HidesSlash(Original(i)) \/ BaseUnknown(Original(i))
    \/ MapFor(dc, Resolve(PageBase, Original(i))) > 0

\* The user follows the reference in the i-th piece.
Follow(i) ==
    /\ phase = "shown" /\ i \in DOMAIN page /\ IsLink(i) /\ visits < MaxVisits
    /\ wanted' = Resolve(PageBase, Original(i))
    /\ address' = Resolve(BrowserBase, Written(i))
    /\ excused' = (excused \/ KnownMiss(i))
    /\ phase' = "request"
    /\ UNCHANGED <<dc, site, visits, asked, pageVars, inVars>>

\* A form is sent, to a page or to the interface of a directory with m_iApi.
Send ==
    /\ phase = "shown" /\ phase' = "body" /\ Post
    /\ \E i \in DOMAIN page : page[i].kind = "tag" /\ Name(page[i].s) = "form"
    /\ UNCHANGED <<dc, site, visits, address, wanted, excused, asked, pageVars>>

Body == phase = "body" /\ BodyNext /\ UNCHANGED webVars

BrowseNext ==
    \/ Request \/ Leave \/ ConvertPiece \/ PageDone \/ Send \/ Body
    \/ \E i \in DOMAIN page : Follow(i)

\* The process goes on with what it has begun; the filters below come to an
\* end of the body or to an error.  The user need not do anything.
BrowseSpec == BrowseInit /\ [][BrowseNext]_browseVars /\ WF_browseVars(Body)

-----------------------------------------------------------------------------
(* A reference followed through the gateway leads to the page it leads to  *)
(* on the site itself: what ChangeUrl writes, the browser resolves and     *)
(* find_code_page reads back is where the reference pointed, whatever page *)
(* it stands in.  Fragments apart, and the references named above.         *)
LinksLeadWhereTheyDid ==
    phase \in {"page", "shown", "left"} /\ ~excused => Same(asked, wanted)

\* The text parts stand for, but for "\" in references, which ChangeUrl turns
\* into "/" in the page itself.
Straight(s) == [i \in DOMAIN s |-> IF s[i] = "\\" THEN "/" ELSE s[i]]
StandsFor(out) == FlattenSeq([j \in DOMAIN out |-> out[j].from])

\* Behind <fjtignoreurl> and in a textarea no reference is to be changed.
IsTag(i, name) == page[i].kind = "tag" /\ ~IsClosing(page[i].s) /\ Name(page[i].s) = name
Ends(i, name)  == page[i].kind = "tag" /\ IsClosing(page[i].s) /\ page[i].s[3] = name
Within(i, name) ==
    \E j \in 1 .. i - 1 : IsTag(j, name) /\ \A k \in j .. i - 1 : ~Ends(k, name)
LinksForbidden(i) ==
    \/ Within(i, "fjtignoreurl")
    \/ dc.notChangeTextboxUrl /\ (Within(i, "textarea") \/ IsTag(i, "input"))

Delimiters == Quotes \cup {" ", "<", ">"}

\* What may be written for the part of a page.
LooksInto(ref) == dc.shouldChange /\ ~(Len(ref) > MaxUrl) /\ Head(ref) \notin {"#", "?"}
AsItShould(part) ==
    CASE part.kind = "text"    -> part.to = Convert(part.from)
      [] part.kind = "raw"     -> part.to = part.from
      [] part.kind = "skipped" -> dc.urlMap # <<>>
      [] part.kind \in {"unset", "dropped"} -> LooksInto(part.from)
      [] OTHER -> TRUE

(* The page arrives whole, as far as the code lets it: the parts put out   *)
(* for a piece stand for all of it, in its order and once; text is written *)
(* converted and the rest of a tag as it stands; and no piece is missing   *)
(* when the page is shown.  What the code does lose is named: as much text *)
(* again as an address of the URL map has is passed over behind it, in a   *)
(* directory with such a map; and a reference for which no address is      *)
(* found leaves an empty value, or what happens to stand in memory, where  *)
(* references are changed and it is one that is looked into.               *)
PageWhole ==
    /\ \A i \in DOMAIN outs :
          /\ Straight(StandsFor(outs[i])) = Straight(page[i].s)
          /\ \A j \in DOMAIN outs[i] : AsItShould(outs[i][j])
    /\ phase = "shown" => Len(outs) = Len(page)

(* No link written in the place of a reference brings in a quote or        *)
(* bracket that was not in it, and where references are to be left alone   *)
(* none is led through the gateway.  What stands in memory is written only *)
(* for a reference without a scheme: an absolute address is always found.  *)
LinksInBounds ==
    \A i \in DOMAIN outs : \A j \in DOMAIN outs[i] :
        LET part == outs[i][j]
        IN  /\ part.kind = "link" =>
                  ToSet(part.to) \cap Delimiters \subseteq ToSet(part.from)
            /\ LinksForbidden(i) => ~AtGateway(part.to) \/ AtGateway(part.from)
            /\ part.kind = "unset" => ~HasScheme(part.from)

(* What is done to the references of a page: those followed lead where     *)
(* they did, and what is written for them stays within its bounds.         *)
LinksKept == LinksLeadWhereTheyDid /\ LinksInBounds

(* mod_proxy's handler that read to the end has the conversion of the      *)
(* whole body, every character once and in order, however the body was cut *)
(* into buckets and reads; an ASCII character sent with a code arrives     *)
(* without it.  A call that failed half way is the exception: what it had  *)
(* read is gone.  apiHandler, for which the filter is not added, has the   *)
(* body as it came.                                                        *)
BodyArrivesOnce ==
    outcome = "ok" => IF filtered THEN ~lost => taken = ConvertedText(text) ELSE taken = body

(* Whoever reads a body comes to an end, with it or with an error, as long *)
(* as the filters below deliver, end or fail: neither the loop of          *)
(* apiHandler, which reads from them itself, nor that of the input filter  *)
(* below a handler of mod_proxy goes round for ever.                       *)
HandlerEnds == phase = "body" ~> ipc = "done"
=============================================================================

------------------------------ MODULE UrlPath ------------------------------
(***************************************************************************)
(* Addresses, and two ways to make a reference found in a page absolute:   *)
(* build_absolute_path of baseutil.c, and the browser's (RFC 3986, 5.2).   *)
(*                                                                         *)
(* An address is a sequence of symbols.  "http", a host or a file name is  *)
(* one symbol; a mark such as "/" or "." is one, and a Chinese character   *)
(* is one.  The code takes a Chinese character for two bytes, the second   *)
(* of any value, and steps over two where it finds one with its top bit    *)
(* set: `wide' says which symbols that leads astray.                       *)
(***************************************************************************)
EXTENDS Integers, Sequences, SequencesExt

CONSTANTS MaxUrl,      \* 2048: a longer address is left alone
          ColonReach   \* 16: how far into a reference a ":" is looked for

NoSymbol == "NULL"
NoUrl  == <<>>         \* where the code returns a null pointer
Blanks == {" ", "\t", "\r", "\n"}
Quotes == {"'", "\""}
Schemes == {"http", "https"}

\* strchr and strrchr: 0 if it is not there.
First(s, x) == SelectInSeq(s, LAMBDA y : y = x)
Final(s, x) == SelectLastInSeq(s, LAMBDA y : y = x)
From(s, i)  == SubSeq(s, i, Len(s))
UpTo(s, i)  == SubSeq(s, 1, i)
Has(s, x)   == First(s, x) > 0

\* strnistr with a needle of several symbols: 0 if it is not there.
Find(s, t) ==
    LET at == {i \in 1 .. Len(s) - Len(t) + 1 : SubSeq(s, i, i + Len(t) - 1) = t}
    IN  IF at = {} THEN 0 ELSE CHOOSE i \in at : \A j \in at : i <= j

TrimLeft(s)  == From(s, SelectInSeq(s \o <<NoSymbol>>, LAMBDA x : x \notin Blanks))
TrimRight(s) == UpTo(s, SelectLastInSeq(s, LAMBDA x : x # " "))

\* wide is [behind, before, late], three sets of characters.  Looking forward,
\* the symbol behind one of wide.behind is stepped over with it (three bytes
\* in UTF-8); looking back, the one before one of wide.before (three bytes, or
\* two of which the second has its top bit clear), and where the byte stepped
\* over belongs to one of wide.late, so is one more.
\* A character written with "%" is none.
IsWide(s, i, set) == s[i] \in set /\ (i > 1 => s[i - 1] # "%")

strnchr(wide, s, lo, hi, x) ==
    LET At[i \in lo .. Len(s) + 2] ==
            CASE i > hi -> 0
              [] i <= hi /\ IsWide(s, i, wide.behind) -> At[i + 2]
              [] i <= hi /\ s[i] = x -> i
              [] OTHER -> At[i + 1]
    IN  At[lo]

rsfind(wide, s, lo, hi, x) ==
    LET Short(i) == SelectLastInSubSeq(s, 1, i - 1, LAMBDA y : y \notin wide.late) - 1
        At[i \in -1 .. Len(s)] ==
            CASE i < lo -> 0
              [] i >= lo /\ IsWide(s, i, wide.before) -> At[Short(i)]
              [] i >= lo /\ s[i] = x -> i
              [] OTHER -> At[i - 1]
    IN  At[hi]

\* The first x that stands in no quotes.
FindMatch(wide, s, x) ==
    LET Opened(open, q) == CASE open = NoSymbol -> q [] open = q -> NoSymbol [] OTHER -> open
        Look(st, i) ==
            IF s[i] = x /\ st.open = NoSymbol THEN [st EXCEPT !.at = i]
            ELSE IF s[i] \in Quotes THEN [st EXCEPT !.open = Opened(@, s[i])]
            ELSE [st EXCEPT !.past = IsWide(s, i, wide.behind)]
        Step(st, i) ==
            CASE st.at > 0 -> st
              [] st.at = 0 /\ st.past -> [st EXCEPT !.past = FALSE]
              [] OTHER -> Look(st, i)
    IN  FoldLeftDomain(Step, [open |-> NoSymbol, at |-> 0, past |-> FALSE], s).at

\* What follows "://", up to the next "/": getDomain.
Host(url) ==
    LET rest == From(url, Find(url, <<":", "/", "/">>) + 3)
    IN  UpTo(rest, First(rest \o <<"/">>, "/") - 1)

\* Where the "/" behind the host is, 0 if there is none or no scheme.
RootOf(url) ==
    LET colon == First(url, ":")
        host  == SelectInSubSeq(url, colon + 1, Len(url), LAMBDA x : x # "/")
    IN  IF colon = 0 \/ host = 0 THEN 0 ELSE SelectInSubSeq(url, host, Len(url), LAMBDA x : x = "/")

\* The base up to one of its directories, and what goes below; dir is 0 for a
\* null pointer.
InDirectory(base, dir, rest) == IF dir = 0 THEN NoUrl ELSE UpTo(base, dir) \o rest

\* Wrong variant: ".." goes up no directory.
NeverUp(wide, base, root, dir, ref) ==
    LET name == SelectInSeq(Append(ref, NoSymbol), LAMBDA x : x \notin {".", "/"})
    IN  InDirectory(base, dir, From(ref, SelectLastInSubSeq(ref, 1, name - 1, LAMBDA x : x = "/") + 1))

\* The loop over what starts with "." in front of a reference: for ".." one
\* directory up, never above root, and on behind the next "/".
Climb(wide, base, root, dir, ref) ==
    LET Above[d \in 0 .. Len(base), i \in 1 .. Len(ref) + 1] ==
            LET up    == i < Len(ref) /\ ref[i + 1] = "." /\ d > root
                d2    == IF up THEN rsfind(wide, base, root, d - 1, "/") ELSE d
                slash == SelectInSubSeq(ref, i, Len(ref), LAMBDA x : x = "/")
            IN  CASE i > Len(ref) \/ ref[i] # "." -> InDirectory(base, d, From(ref, i))
                  [] i <= Len(ref) /\ ref[i] = "." /\ slash = 0 -> InDirectory(base, d2, From(ref, i))
                  [] OTHER -> Above[d2, slash + 1]
    IN  Above[dir, 1]

\* The reference without the quotes around it.
Unquoted(wide, ref) ==
    LET close == FindMatch(wide, Tail(ref), Head(ref))
    IN  IF Head(ref) \notin Quotes THEN ref
        ELSE IF close = 0 THEN NoUrl ELSE UpTo(Tail(ref), close - 1)

\* What a reference without scheme and host names, below base; root is where
\* the base's path begins.
BelowRoot(wide, base, root, url) ==
    LET query == SelectInSubSeq(base, root, Len(base), LAMBDA x : x = "?")
        dir   == IF query > 0 THEN rsfind(wide, base, root, query, "/") ELSE Final(base, "/")
    IN  CASE root = 0 -> NoUrl
          [] root > 0 /\ url # <<>> /\ Head(url) = "/" -> UpTo(base, root) \o Tail(url)
          [] OTHER -> Climb(wide, base, root, dir, url)

\* A ":" near the beginning.  Behind a last character of three bytes the end of
\* the string is stepped over: then it may be found in what earlier calls left.
HasColon(wide, url, left) ==
    LET At[i \in 1 .. Len(url) + 2] ==
            CASE i > ColonReach \/ i = Len(url) + 1 -> FALSE
              [] i <= ColonReach /\ i = Len(url) + 2 -> left
              [] i <= ColonReach /\ i <= Len(url) /\ IsWide(url, i, wide.behind) -> At[i + 2]
              [] OTHER -> url[i] = ":" \/ At[i + 1]
    IN  At[1]

MadeAbsolute(wide, base, url, left) ==
    CASE url = <<>> \/ Head(url) = "#" -> NoUrl
      [] IsPrefix(<<"/", "/">>, url) /\ ~IsPrefix(<<"/", "/", "/">>, url) ->
           <<IF Head(base) = "https" THEN "https" ELSE "http", ":">> \o url
      [] Head(url) = "?" -> UpTo(base, First(base \o <<"?">>, "?") - 1) \o url
      [] OTHER ->
           IF HasColon(wide, url, left) THEN url
           ELSE IF IsPrefix(<<"/", "/", "/">>, url) /\ Has(base, ":")
                THEN UpTo(base, First(base, ":")) \o url
                ELSE BelowRoot(wide, base, RootOf(base), url)

\* The address of a reference in a page at base, NoUrl if the code finds none.
build_absolute_path(wide, base, ref, left) ==
    IF Len(ref) > MaxUrl THEN NoUrl
    ELSE MadeAbsolute(wide, base, TrimLeft(Unquoted(wide, ref)), left)

-----------------------------------------------------------------------------
\* The browser.

\* The path of an address without its query and its fragment.
Cut(s, marks) == UpTo(s, SelectInSeq(s \o <<"#">>, LAMBDA x : x \in marks) - 1)
NoFragment(url) == Cut(url, {"#"})
PathOf(url)     == Cut(url, {"?", "#"})
QueryOf(url)    == From(NoFragment(url), Len(PathOf(url)) + 1)

Segments(path) ==
    LET Rest[i \in 1 .. Len(path) + 1] ==
            LET slash == SelectInSubSeq(path, i, Len(path), LAMBDA x : x = "/")
            IN  IF slash = 0 THEN <<From(path, i)>>
                ELSE <<SubSeq(path, i, slash - 1)>> \o Rest[slash + 1]
    IN  Rest[1]

\* A path behind the root, without its "." and ".." segments.
WithoutDots(segs) ==
    LET Step(kept, i) ==
            LET dots == segs[i] = <<".", ".">>
                left == IF dots /\ kept # <<>> THEN Front(kept) ELSE kept
            IN  CASE ~dots /\ segs[i] # <<".">> -> Append(kept, segs[i])
                  [] OTHER -> IF i = Len(segs) THEN Append(left, <<>>) ELSE left
    IN  FoldLeftDomain(Step, <<>>, segs)
Joined(segs) == FlattenSeq([i \in DOMAIN segs |-> IF i = 1 THEN segs[1] ELSE <<"/">> \o segs[i]])

HasScheme(ref) == Len(ref) > 1 /\ ref[2] = ":"

\* An address in its plain form: a path that is at least "/", no dots in it.
PlainPath(path) ==
    LET root == RootOf(path)
    IN  IF root = 0 THEN path \o <<"/">>
        ELSE UpTo(path, root) \o Joined(WithoutDots(Segments(From(path, root + 1))))
Plain(url) == PlainPath(PathOf(url)) \o QueryOf(url)

\* Where a reference leads from a page at the plain address base.
Joint(base, ref) ==
    LET path == PathOf(ref)
        dir  == Final(PathOf(base), "/")
    IN  CASE HasScheme(ref) -> ref
          [] ~HasScheme(ref) /\ path = <<>> ->
               IF QueryOf(ref) = <<>> THEN base ELSE PathOf(base) \o ref
          [] ~HasScheme(ref) /\ path # <<>> /\ Head(ref) # "/" -> UpTo(base, dir) \o ref
          [] OTHER -> IF IsPrefix(<<"/", "/">>, ref) THEN <<Head(base), ":">> \o ref
                      ELSE UpTo(base, RootOf(base) - 1) \o ref
Settled(url) == IF Head(url) \in Schemes THEN Plain(url) ELSE url

\* The address a reference leads to in a page at base; fragments dropped.
Resolve(base, ref) == Settled(Joint(Plain(base), ref))
=============================================================================

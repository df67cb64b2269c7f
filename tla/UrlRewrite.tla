----------------------------- MODULE UrlRewrite -----------------------------
(***************************************************************************)
(* ChangeUrl of baseutil.c: what is written into a page in the place of a  *)
(* reference, so that following it comes back to the gateway.              *)
(*                                                                         *)
(* dc is the directory's configuration, c what the code keeps in           *)
(* ConvertCtx while it converts a page: base (m_pcCurrentUrl), counter     *)
(* (nNotChangeTextboxUrl), ignore (fjtignoreurl), utf8 and metas.  In      *)
(* c.stack is what earlier calls left in variables read before they are    *)
(* set: attr (ProcessTag's cxAtrName), colon (behind the end of            *)
(* build_absolute_path's url), text (pNewUrl and nNewUrl).                 *)
(***************************************************************************)
EXTENDS UrlCodec

UrlPrefix  == <<"http", ":", "/", "/", "gw", "/">>
SUrlPrefix == <<"https", ":", "/", "/", "gw", "/">>

\* isConvertExt asks for the extension only of an absolute reference.  The
\* end of the path is looked for from the "/" on it begins with, so that no
\* extension is ever found.
getExt(ref) ==
    LET host  == IF Find(ref, <<":", "/", "/">>) = 0 THEN 1 ELSE Find(ref, <<":", "/", "/">>) + 3
        begin == SelectInSubSeq(ref, host, Len(ref), LAMBDA x : x = "/")
        end   == SelectInSubSeq(ref, begin, Len(ref), LAMBDA x : x \in {"/", "#"})
    IN  IF begin = 0 \/ end = begin THEN NoUrl ELSE SubSeq(ref, Final(UpTo(ref, end), "."), end)

isConvertExt(dc, ref) ==
    Head(ref) \in Schemes => getExt(ref) \in dc.convertExts \cup {NoUrl}

match_domain(host, domains) == \E d \in domains : IsSuffix(d, host)

NotAsItIs(url) == \E i \in DOMAIN url : url[i] \in Chinese \cup {"%", "?"}
EndsIn(url, suffixes) == \E x \in suffixes : IsSuffix(<<".", x>>, url)

IsPicture(dc, url) ==
    ~dc.processPicture /\ ~NotAsItIs(url) /\ EndsIn(url, {"jpg", "swf", "gif", "bmp", "png", "jpeg"})
KeepUrlSuffix(dc, url) == ~NotAsItIs(url) /\ EndsIn(url, dc.keepSuffix)

\* The first pair of the map that fits, and the address with it applied.
MapFor(dc, url) == SelectInSeq(dc.urlMap, LAMBDA m : IsPrefix(m.from, url))
DoUrlMap(dc, url) ==
    LET m == dc.urlMap[MapFor(dc, url)] IN m.to \o From(url, Len(m.from) + 1)

\* A "/" is put behind the host where there is none.  It goes in front of a
\* query only if there is another "/" in the query: else it goes to the end.
WithSlash(dc, url) ==
    LET host  == First(url, ":") + 3
        slash == SelectInSubSeq(url, host, Len(url), LAMBDA x : x = "/")
        query == SelectInSubSeq(url, host, Len(url), LAMBDA x : x = "?")
    IN  CASE slash > 0 /\ ~(query > 0 /\ slash > query) -> url
          [] slash > 0 /\ query > 0 /\ slash > query ->
               UpTo(url, query - 1) \o <<"/">> \o From(url, query)
          [] OTHER -> IF dc.addSlash /\ Last(url) \notin {":", "-"} THEN Append(url, "/") ELSE url

\* The link to an absolute address: the prefix in the place of its scheme.
LinkTo(dc, url) ==
    LET rest == From(url, First(url, ":") + 3)
    IN  IF MapFor(dc, url) > 0 THEN DoUrlMap(dc, url)
        ELSE ConvertUrl(dc, (IF Head(url) = "http" THEN UrlPrefix ELSE SUrlPrefix) \o rest)
Prefixed(dc, address) == LinkTo(dc, WithSlash(dc, ChangeChinese(dc.level, address)))

\* Where the loop over a reference stops: at its query, or because it is none.
NoReference(ref, i) == ref[i] = "*" \/ (ref[i] = "{" /\ i < Len(ref) /\ ref[i + 1] = "$")
StopAt(ref) == Min({i \in 1 .. Len(ref) : ref[i] = "?" \/ NoReference(ref, i)} \cup {Len(ref) + 1})

\* The loop turns "\" into "/" in the page itself.
Slashed(ref) == [i \in DOMAIN ref |-> IF i < StopAt(ref) /\ ref[i] = "\\" THEN "/" ELSE ref[i]]

\* The references ChangeUrl returns before it looks into them.
LeftAlone(dc, c, ref) ==
    \/ Head(ref) \in {"#", "?"}
    \/ Len(ref) > MaxUrl \/ ~dc.shouldChange \/ c.counter > 0
    \/ dc.ignorePrefix /\ (Find(ref, UrlPrefix) > 0 \/ Find(ref, SUrlPrefix) > 0)
    \/ ~isConvertExt(dc, ref)

\* ok: whether the reference was changed; set: whether pNewUrl was; url: what
\* is to be written for it; ref: the reference as the page has it now.
Kept(url, ref) == [ok |-> FALSE, set |-> TRUE, url |-> url, ref |-> ref]
Link(url, ref) == [ok |-> TRUE, set |-> TRUE, url |-> url, ref |-> ref]
Unset(ref)     == [ok |-> FALSE, set |-> FALSE, url |-> NoUrl, ref |-> ref]

\* From the absolute address of a reference on.
LinkOrKeep(dc, c, seen, abs) ==
    CASE abs = NoUrl -> Unset(seen)
      [] abs # NoUrl /\ (Head(abs) \notin Schemes \/ match_domain(Host(abs), dc.exclude)) ->
           Kept(TrimRight(seen), seen)
      [] OTHER -> Link(IF KeepUrlSuffix(dc, abs) \/ IsPicture(dc, abs) \/ c.ignore
                       THEN abs ELSE Prefixed(dc, abs), seen)

ChangeUrl(dc, c, ref) ==
    LET Changed(seen, stop) ==
            IF stop <= Len(ref) /\ NoReference(ref, stop) THEN Kept(seen, seen)
            ELSE LinkOrKeep(dc, c, seen,
                            build_absolute_path(Width(dc), c.base, TrimRight(seen), c.stack.colon))
    IN  IF LeftAlone(dc, c, ref) THEN Kept(ref, ref) ELSE Changed(Slashed(ref), StopAt(ref))
=============================================================================

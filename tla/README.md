# TLA+ models of fjt_xp

fjt is a module for Apache httpd 2.4 that sits on a reverse proxy and turns simplified Chinese
pages into traditional ones (or the other way), rewriting the links of a page so that the reader
stays on the converting host.  This directory holds TLA+ models of the parts of it that keep a
state or depend on an order of events, the TLC runs that check them, and proofs for TLAPS.

Paths are relative to the repository; `file.c:n` is line n.

## 1. Inventory

How a request passes through the module:

1. `find_code_page` (fixup hook, mod_fjt.c) looks at the URL mod_rewrite made of the request,
   creates the request's session, checks the domain, asks the **cache of pictures not found**
   whether the rewritten URL is known to be missing, converts the query and sets the base URL.
2. When mod_proxy asks for the request body, `fjt_in_filter` collects it in a **memory stream** and converts it, UTF-8
   bytes and `%` codes included.  For the handler `fjtapi`, which sends the body back, the filter is not added.
3. mod_proxy fetches the page.  `fjt_out_filter` collects it, brigade by brigade, in another memory
   stream; when it is complete the **HTML tokenizer** cuts it into tags, which are rewritten, and
   text, which goes through the character converters and the **phrase tables**.  If the origin
   answered 404 and there is an older URL, that URL is what the client is sent to, and the cache
   is told.
4. The links in the page were written by **URL rewriting** and the **URL codec**: an absolute address with the
   gateway's prefix, the Chinese parts in base64 blocks.  When the browser follows one, step 1 decodes it.

Before all that the process starts: httpd reads the **directives**, the first that names a domain or a prefix
reads the **licence** (and writes it back, with the day), a virtual host is merged into the main server, and
the tables of phrases are loaded.  A request then has its sections merged.

| Component | Source | State it keeps | What is hard about it |
|---|---|---|---|
| Memory stream | memstream.c | ring of pages, two positions, two counters | growing a ring that is full and wraps inside one page; allocation failing half way |
| Cache of pictures not found | notfoundurls.c, uthash.h | one hash table for all threads of a process | every lookup that hits deletes and re-adds its entry; a mutex with three unlocks |
| Phrase tables | convert_utils.c, convert.c:2041-2218 | buckets of rules, sorted once | which of several matching phrases is found; the end of the text |
| Output filter | mod_fjt.c:226-444 | session: memory stream, `processed` | called once per brigade; metadata, errors and status changes between calls |
| HTML tokenizer | htmlparser.c:2153-2402 | `bakinfo`: what the last call could not place | a page cut anywhere; tags without an end or a name |
| Request set-up | mod_fjt.c:542-807 | session, `subprocess_env` | which URL is looked up, fetched, remembered and used as base |
| Input filter | mod_fjt.c:446-540 | none between calls | body in several reads; an end of stream seen and asked for again |
| Directory configuration | mod_fjt.c:948-1435, config_utils.c | about 100 fields, a value of its own for "unset" each | merging: what an inner section inherits; an unset flag that tests as true |
| URL codec | baseutil.c:230-322, 560-760, 1648-1996 | none | Chinese characters in a URL must survive the round trip |
| URL rewriting | baseutil.c:1007-1630, htmlparser.c:555-726 | base URL, URL maps | relative paths, `..`, what the browser resolves itself |
| Character converters | convert.c | a context per call | a character cut between two calls |
| Attribute rewriting, scripts | htmlparser.c:1124-1801 | base, counters and flags that one tag sets for those after it | where a value ends; tags whose references stay |
| API handler, exportapi.c | mod_fjt.c:131-167, exportapi.c | none | reads the body itself: `fjt_insert_filter` (mod_fjt.c:793) adds no input filter for it; what it passes on goes through the output filter |
| Licence, interfaces | license.c, ifconfigip.c | the file, a stamp in it, counters of the process | the file is emptied before it is written; checks spread over the directives |
| Stack | stack.c | bounded array | |
| Outside the build | mod_disk_cache.c, decompfile.c, decompdir.c, update.c, config.c | | not compiled in |

What makes each of the modelled components correct:

* Memory stream: bytes come out once each, in order; the counters agree with the positions; a
  stream that is filled and drained does not grow; every call returns.
* Cache: callers cannot tell it from an atomic LRU cache; the table is sound whenever the mutex is
  free; the mutex is always released; the size stays below the limit.
* Phrase tables: at each place the longest phrase is replaced; no character is skipped or converted
  twice; the conversion ends, unless a phrase is empty.
* Output filter: every chunk of the body is passed on once and in order; a response is converted
  whole or not at all; the length is not announced when it changes; the 404 fallback is a clean
  redirect; the end of stream comes last and comes.
* Request set-up: the origin server is asked for the URL requested, or for the older one when the first is
  known to be missing; a URL is remembered under the name it is looked up by.
* HTML tokenizer: wherever the page is cut, every symbol is in one piece, each piece is converted as it stands, and the tags
  are those of the page.
* Configuration: whatever pairs httpd merges, a request gets what its sections say, and converts by their phrases.
* Licence: a server that is up converts only what its licence allowed on the day it was started, whatever the order of
  directives, however often it was started; starting it does not destroy the licence nor let the clock be turned back.
* URL rewriting, codec and request set-up together: a link followed through the gateway leads to the page it
  leads to on the site itself.
* Attribute rewriting: the page comes out whole, a link keeps within its attribute, and where links are to be left alone none
  is changed.
* Input filter: who reads a body gets all of it, once, or an error, and comes to an end; mod_proxy gets it converted.

The hazards behind these properties, each at its line, are listed in PROJECT.json.

## 2. Modules

| Module | What it is |
|---|---|
| ByteQueue | abstract: a queue of bytes in which a call takes effect when it returns |
| MemStream | memstream.c, one step per loop iteration; `QueueRefinement` shows it implements ByteQueue |
| MemStreamProofs | theorems about MemStream: ranges, the ring, the queue |
| LruCache | abstract: the cache, each call at once |
| NotFoundUrls | notfoundurls.c over uthash, one step per statement; `CacheRefinement` shows it implements LruCache |
| NotFoundUrlsProofs | theorems about NotFoundUrls: the mutex, the table, the abstract cache |
| RuleTable | loading, sorting and searching the rules; the conversion loop |
| RuleTableProofs | theorems about RuleTable |
| OutputFilter | fjt_out_filter over the life of a response |
| OutputFilterProofs | theorems about OutputFilter |
| HtmlParser | ParseHtml_html over the life of a page |
| HtmlParserProofs | theorems about HtmlParser |
| Gateway | find_code_page, the origin server and the 404 fallback, for several workers over LruCache |
| GatewayProofs | theorems about what passes through the gateway: Gateway's requests, the bodies and the pages of Browse |
| RuleFile | how a file of phrases is read (initFile) |
| Directives | the fields of a directory and of a server: what is held when unset, how two are merged |
| Licence | what a licence allows on which machine: CheckLicense, CheckUrlPrefix, CheckHostName, the interfaces |
| Startup | composes the three: starts, directives, the licence file, merging, tables, requests |
| StartupProofs | theorems about Startup: the licence, the clock, the merge of sections, the tables |
| UrlPath | addresses; build_absolute_path, and the browser's resolution it is compared with |
| UrlCodec | base64 blocks and `%` codes, both ways; what find_code_page asks the origin for |
| UrlRewrite | ChangeUrl and DoUrlMap |
| Tags | what is put out for a run of text, a tag, a script |
| Utf8Stream | translate and the `%` codes of a body, byte by byte |
| InputFilter | a handler of mod_proxy on fjt_in_filter, or apiHandler without it, and the filters below |
| Browse | composes Tags and InputFilter: from page to page through the gateway |
| SequenceLemmas | induction over the numbers, concatenation of sequences, what each element of a sequence becomes, functions defined by recursion |
| MC*.tla, MC*.cfg | the small instances TLC checks |

An operator whose comment begins with "Wrong variant" is not part of the model: it is the operator
after it with one plausible mistake.  Each property is violated when the variant PROJECT.json names
for it takes the operator's place.

### MemStream

The variables are the fields of `memstream` (memstream.h): `head`/`offset` for
`m_pmbHead`/`m_iOffset`, `tail`/`left` for `m_pmbTail`/`m_iLeft`, `free` and `total` for `m_iFree`
and `m_iTotal`, the pages in `mem` and their links in `next`.  `pc` tells which loop a call is
in: `CallWrite`, then `Grow...` (the loop at memstream.c:60), then `Store...` (86); `CallRead`, then
`Load...` (112); `Foreach` and `Clear` are single steps.  `GrowFirst` is the first page of a stream,
`GrowAfterTail` every other, including the case `WrapsInOnePage` in which head and tail are the
same page, the data wraps, and the bytes before the read position are copied to the new page
(memstream.c:74-83).  `GrowFails` is apr_palloc returning NULL: the pages already linked stay.

Since the code never looks at a byte, all bytes are `Plain` but one, which is `Marked` and may be
written anywhere; what happens to it happens to any byte.  A fresh page holds `Junk`, so reading a
byte that was never written shows.

Left out: `memstream_copy` and `delete_memstream`, which nothing calls.  The counters are unbounded in
the model and 32 bits in the code.

### NotFoundUrls

`Call`, `Lock`, `Find`, `Del`, `Malloc`, `Add`, `Prune`, `Answer`, `Unlock` are the statements of the two
functions; each is a step any other thread may come between.  Of uthash the doubly linked list
(`head`, `next`, `prev`, `tail`), the count and the set of entries on a chain are kept, since
deleting the last entry, the tail, and a table of one entry are separate branches of HASH_DELETE_HH.
Which chain an entry is on is left out, and so is the bucket doubling, which changes neither order
nor membership.

### RuleTable

`AddRule` puts a rule in front of the bucket of its first character (convert_utils.c:154);
`Adjust` copies each bucket to an array sorted by `compare_rule`.  qsort leaves the order of rules
that compare equal open, and so does `Sorted`.  `matchRule` is the scan of convert.c:2041, with the
exit it took; `ReplacePhrase` and `ReplaceChar` are the two branches of the loop at convert.c:2171.
initFile makes an empty phrase of a line of blanks, or, for the way back, of a line without a replacement, and addRule
takes it.  `Phrases` may hold one: its rule lies in whichever bucket the byte that was never written names, it matches
everywhere, and the loop then goes round at one place for ever, writing the replacement each time (`Rewrite` keeps it in `out` once).
`ConversionEnds` says that this is the one way not to end (`MeetsEmpty`).
Characters are numbers because memcmp on big-endian UTF-16 orders as numbers do.  What lies in memory
behind the text is chosen freely (`Behind`), since matchRule reads it.

### OutputFilter

One response.  `SendBrigade` is the content handler, with any cut of the body into brigades, any
mix with metadata, and EOS with the last one or in a brigade of its own; `Finalize` is httpd, which
sends the EOS a handler did not.  The `Enter...` actions are the branches of fjt_out_filter before
its loop, in the code's order; `TakeData`, `SendMeta`, `EndOfBrigade`, `EndOfBody` the loop;
`ReadFails` and `SendMetaFails` its errors; `ConvertAll` and `SendEos` what follows it.  `PassOn` is
ap_pass_brigade: the headers leave with the first brigade that is passed on, as they are then.

A chunk stands for the bytes of a data bucket; what the conversion makes of them is not modelled
here.  `m_iNotConvert404` is taken as what the code tests, so its unset value -1 is TRUE.

### HtmlParser

A page is a sequence of symbols, one byte each, but for the names `script` and `/script`.  `Call(n)` passes
the next n symbols in, after what `bak` (bakinfo) holds.  `TextBeforeTag`, `TextAtEnd`, `Tag`, `Script`,
`TagWithoutName` put a piece out; `KeepLast` and `KeepTag` keep the rest for the next call.  Each
piece of `out` has the symbols it stands for (`of`) and those that were converted for it (`by`).
`TagWithoutText` is the same tag before any text of the call: htmlparser.c:2329 then hands NULL pointers to translate, which
reads a byte there, and the process is gone (`crashed`).  `ParseReturns` allows that for pages with such a tag and no others.
`NothingLost` has two parts: `PiecesCover`, that the symbols the pieces stand for, what is kept and what is still to come are the
page; and `PiecesConverted`, that each piece is converted as it stands, except a tag without a name, where it is the text before it
that is converted, once more.  The tag itself is then not in the page the reader gets (run html_no_token).

Two-byte characters are modelled as the code scans them: a byte with the top bit set takes the
next one along.  That is right for GBK and Big5.  In UTF-8, where a character has three such bytes,
the scan may pass over the `<` behind it (htmlparser.c:2241); `TagsFound` does not speak of such pages
(`TwoByte` says which pages it speaks of).  The tags of a page are those of the page looked at whole (`TagsOfPage`), and a call
may end between the two bytes of a character.  The only caller today passes a whole page in one call; `bakinfo` and its uses are the code of a parser that is fed in pieces,
and that is what the model checks.

### Gateway

One record per worker, whose fields are those of request_rec that find_code_page reads and sets.
The actions are its returns in order: `Api`, `Decline`, `OtherDomain`; the lookup (`LookupNone`,
`LookupMiss`, `LookupHit`), which saves ORIG_URL first; then one `Fetch...` for each way the URL is
changed and the base set.  `OriginAnswers` is mod_proxy and the origin server, `Fallback` the branch of
fjt_out_filter that remembers the URL.  The module INSTANCEs LruCache and takes each call of the
cache as one step, which `CacheRefinement` of NotFoundUrls justifies; everything else a worker does is its
own.  A URL is a name and a form: what the code searches its text for.  `OriginChanges` lets
files appear and vanish at any time.

Left out: the header the client gets (OutputFilter has it), and the domain of OLDURL, which the code
does not look at.

### RuleFile, Directives, Licence and Startup

`Startup` is the life of an installation: `Start`, then per section of the configuration the directives
(`SetDirective`, `use_table`, `SetSvrDirective`, `ConvertDomain`), then `FixupVirtualHost`, `LoadTables`, then
requests (`Request`, `MergeSections`, `Served`), `Stop`, `SetClock`, and `Start` again.  `DayPasses` lets a day end while the
server is up.  Nothing looks at the licence then: timeCheckPoint, which CheckLicense stores (license.c:966), is compared with the clock
only in htmlparser.c's CheckDomain (4314-4342), which nothing calls.  So `OnlyLicensed` speaks of the day of the start (`since`).  A directive that asks the
licence (`ConvertDomain`, and the prefixes and URL maps) leaves its question in `asked`; `ReadLicense` answers the
first one of a process, `WriteLicense` is the second half of reading a dated licence, in which `Killed` may come
(license.c:617: the file is emptied by fopen and filled by fwrite, text first and stamp last); `WriteFails` is a full disk, which nobody notices, and `ReadOnlyLicense`
a file that cannot be opened for writing, which ends the start (license.c:634).  `CheckDomain` and
`CheckPrefix` are the answers.  Each `exit(-1)` of the code is `Exit`.

`dir[x].f` holds the fields of a section by the names of the code; the numbers are values (0 is also NULL and the
empty string), and `Initial` is what my_create_dir_conf puts there, -1 for most flags.  `MergeField` is
my_merge_dir_conf field by field, the three lines that do not follow the pattern included: ToEncode is inherited by
the test of FromEncode (mod_fjt.c:1261), convertExts never (1348), and some fields are never mentioned.
httpd may merge the result of one walk into that of another, so `MergeSections` pairs neighbours in any order;
`SectionsCombine` says that the result is what the sections say whichever order it was.

A licence is a record of what its text states (see Licence).  The cipher is left out: a text is whole or not, and a
text that is not cannot be verified and is taken for an empty one.  `CheckLicense`, `CheckUrlPrefix` and the rest are
operators over it, with their quirks: a part of a domain's name is enough, a line may carry its own dates, the number
of domains is counted on two ways out (license.c:929 and 977).  `Interfaces` is what the kernel lists, and `Met` what is
met when that list is walked with steps of `IfreqSize` instead of its true entry size (ifconfigip.c:234).

RuleFile reads a file as a sequence of bytes of which only tab, bar, line feed, carriage return and zero are told apart,
in one or two bytes per character as the section says (mod_fjt.c:1006).  A section may name several files (`MaxFiles` bounds those
of all sections together).  A file that is missing ends the start: readFile (convert_utils.c:22-38) reads from what fopen
did not open (`TableMissing`); the `return 0` of mod_fjt.c:1014 is never taken, since initFile always returns 1
(convert_utils.c:239).  That an unset m_iUseUnicodeTable, -1, is true there is
part of the model (`IsUtf16`).

What Startup takes for granted: no day ends during a start; httpd reads the file once (it reads it twice, the first time in vain, and nothing is kept
of that but the licence's stamp); the lists of extensions a virtual host states itself are lost in the merge of servers,
as the code does it.

### UrlPath, UrlCodec, UrlRewrite and Tags

An address is a sequence of symbols: a host, a name, `http` are one each, and so is every mark the code looks for and
every character that has to be coded.  `build_absolute_path` is the code's; `Resolve`, of RFC 3986, is the reference
it is measured against and stands for the browser.  The code takes a byte with its top bit set for the first (or, looking back, the
last) of two: `strnchr`, `rsfind` and `FindMatch` step over the symbol next to a character where that leads astray.  `Width` of UrlCodec says which
symbols do: all of `Chinese` in a directory of UTF-8, with three bytes each, and in any other, looking back, those of `LowTrail`, whose second
byte has its top bit clear.  `ChangeChinese` makes the blocks, with the marks and the characters of
if_xbase64encode; `UnChangeChinese` takes them apart; both are bytes in groups of three, so a block that is cut or holds a
character twice shows.  `AskedFor` is what find_code_page does to the text of the URL.  `ChangeUrl` returns the link and what
the code leaves behind in the page (the "\" it turned into "/"), or, where no address can be built, that `pNewUrl` was not set
(`Unset`, baseutil.c:1514).

Tags has one operator per function: `ReplaceHTTPAndConvert`, `ProcessTag`, `ProcessScript`.  They return parts,
each with the text of the page it stands for (`from`) and what is written (`to`), and the changed ConvertCtx.  Three kinds of parts are
what the code loses: `skipped`, text passed over behind an address of the URL map (htmlparser.c:712 moves on twice); `unset`, a
reference in a style or script for which nothing was found, where what `pNewUrl` and `nNewUrl` hold is written (637-641 and 695-699); `dropped`,
the same in the value of an option, where they were set to nothing (1645-1657).
What is read without being set is in `c.stack`: `attr`, the attribute's name (htmlparser.c:1127), `colon`, what is behind the end
of an address (baseutil.c:1071), and `text`, what `pNewUrl` points to.

The loops and recursions of these modules are recursive functions of a position or of the text that is left, so that the proofs of
GatewayProofs reach them.

### Utf8Stream, InputFilter and Browse

InputFilter has one action per step of fjt_in_filter and of the loop of the handler.  `Post` is the request, and fjt_insert_filter, which
adds the filter unless the handler is fjtapi (`filtered`, mod_fjt.c:793).  With it, the handler is one of mod_proxy's, external
to the repository, whose loop has the form of apiHandler's: until an end of stream or an error.  Without it, the handler is apiHandler,
which reads what the filters below deliver and passes it on as it came.  `ReadBelow` delivers any
number of bytes with or without the end, `ReadFails`, `BucketFails` and `AskAgain(TRUE)` fail, `WouldWait` is a
non-blocking read without data.  `pstream` belongs to one call: what it holds when the call returns early is lost, and `lost`
records that.  Utf8Stream converts the bytes.  A form may send an ASCII character with a code; it arrives without it, as the
encoding after the conversion codes only what is above ASCII.

Browse: `Request` is httpd and find_code_page, `ConvertPiece` the output filter's work on one piece of a page (`Left` is what may stand on the
stack for it), which crashes (`PieceCrashes`) where the pointer nobody set points nowhere,
`Follow` the user and the browser, `Leave` a link that goes straight to the origin, `Send` and `Body` a form.
`wanted` is where the reference leads on the site itself, `asked` what the origin is asked for in the end.
`LinksLeadWhereTheyDid`, the first half of `LinksKept`, compares the two.  It excuses the references in `KnownMiss`, each with a place in the code:

| Excused | Why, in the code |
|---|---|
| `Dotted` | the loop of baseutil.c:1111-1129 takes any name that begins with "." for a directory and leaves a ".." at the end of the address |
| `NoPath` | no path between host and query: the "/" goes to the end (baseutil.c:1567-1573) |
| `LeftRelative` | a reference that is a query alone is left as it is (baseutil.c:1452), and the browser resolves it below a block |
| `LosesCode` | at level 0 a query is decoded and not coded again, but for Chinese |
| `HidesFragment` | a block reaches to the end of the reference and takes the fragment with it (baseutil.c:1734-1741) |
| `ConvertedAsText` | a reference with two "+" is not found (htmlparser.c:1104-1112) and converted with the tag |
| `HidesSlash` | rsfind (baseutil.c:992-995) steps over the "/" next to a character of three bytes, and the reference is given another directory or none |
| `BaseUnknown` | a `<base href>` without a scheme is taken as it is, and below it no address is found |
| URL maps | they lead elsewhere on purpose |

`LinksInBounds`, the other half, says that no link written brings in a quote or a bracket that was not in the reference, and that
where references are to be left alone none is led through the gateway, and that what stands in memory is written only for a reference without a scheme.

`PageWhole` says of each part what may be written for it: text is converted, the rest of a tag is as it was, and what is lost is
named: text skipped only in a directory with a URL map, `unset` and `dropped` only for references that are looked into.
"\" and "/" count as one symbol, since ChangeUrl turns the one into the other in the page's own buffer.

## 3. Runs

| Run | Instance | Shows |
|---|---|---|
| memstream | pages of 2 bytes, 3 pages, writes up to 5, reads up to 3 | type, `CursorsInStep`, `RingClosed`, `MemoryBound`, `QueueRefinement`, `CallReturns` |
| notfound | 2 threads, 4 URLs, 4 addresses, MAX_CACHE_SIZE 4 | type, `OnlyOwnerInside`, `TableSound`, `CacheBound`, `CacheRefinement`, `MutexReleased` |
| ruletable | 3 rules of 6 phrases, one of them empty, texts of up to 3 characters, 2 characters behind, in 2 ways | type, `LongestWins`, `FoundIfNoneNests`, `NothingSkipped`, `ConversionEnds` |
| ruletable_break | the same | `NothingAfterBreak` is violated |
| ruletable_end | the same | `OnlyWhatFits` is violated |
| output_filter | 13 requests, 3 chunks, 2 metadata buckets, brigades of 2 | type, `NothingLost`, `WholeOrNotAtAll`, `NoStaleLength`, `FallbackIsClean`, `EosEndsIt`, `EosComesOut` |
| html_parser | all pages of up to 5 symbols, 5 longer ones, every cut | type, `NothingLost`, `TagsFound`, `ParseReturns` |
| startup | 16 licences on a machine of five interfaces, up to 2 starts on days 1 to 4, days passing while it is up, kills and a full disk while the licence is written, a read-only licence, 3 nested sections and a virtual host, up to 3 phrase files of both widths | `OnlyLicensed`, `LicenceSurvives`, `SectionsCombine`, `PhrasesOfTheSection`, `ClockNotTurnedBack` |
| browse | about 40 references in links, images, forms, styles and scripts, on pages with and without a base and below directories with Chinese names, in UTF-8 and not, at the levels 0, 1, 3 and 4, two pages and a body of up to 2 characters, with the input filter and without | `LinksKept`, `PageWhole`, `BodyArrivesOnce`, `HandlerEnds` |
| gateway | 2 workers, 9 requests, cache that prunes at 3 | type, `FetchJustified`, `MissesBounded` |
| html_no_token | instance of html_parser | `NoTokenIsText` is violated |
| html_no_end | instance of html_parser | `NoEndIsText` is violated |

Why the bounds are enough:

* memstream: three pages give an empty ring, one page (both positions in it, wrapped or not), and a
  ring with pages between tail and head.  A page of two bytes has a first, a last and a full
  position.  A write of five bytes needs three pages at once, so allocation fails after none, one
  or two of them.
* notfound: a cache of three entries has a head, a middle and a tail, so all branches of the
  deletion are taken, and a fourth URL prunes.  Two threads suffice for a race under one mutex.
* ruletable: the phrases are one that begins two others, one that begins at the third level and one
  in another bucket, besides the empty one.  Three rules put a longer rule before, between and after the ones that fit.  Behind the
  text lies what completes a phrase that the text breaks off, or what does not (`MCBehind`).  47 thousand states.
* output_filter: three chunks and two metadata buckets give every order of data, metadata and EOS
  within a brigade and across brigades; the requests differ in what sends them down another branch.
* html_parser: five symbols hold a tag with text on both sides; the longer pages have what five
  symbols cannot hold: scripts that write tags, names that are none, before any text and behind some, `>` before the end.
* gateway: `MissesBounded` needs a second worker between a lookup and its insertion, and three URLs so
  that one is pruned while a request for it is on its way.  The nine requests are one for each branch.
  Workers are interchangeable, so the run uses symmetry; it has no liveness property.
* startup: a second start is enough for a clock turned back and for a file damaged by the first; three nested sections
  give a value that is set above, below, in both or in neither, and every way to pair them.  A scenario names the fields
  that are set, so that all fields of one pattern do not multiply.  Four days are before, in and after a licence's time, and
  the day of the stamp.  IfreqSize 40 against steps of 32 makes the walk meet the first and the fifth interface of five.  Days pass in the scenarios about licences only, for no
  request looks at the day.  2.0 million states.
* browse: following a link from a page that was itself reached by a rewritten one needs two pages (`MaxVisits`).  MaxUrl is
  40 symbols instead of 2048 bytes, which some addresses exceed, ColonReach 4 instead of 16.  Bytes spread over the bits, so a wrong
  bit of the base64 shows.  A body of two characters of one to three bytes is cut at every byte.  A directory with a character at its end, in the middle or with two in a row, climbed by one and by two, is what the
  steps of two bytes depend on.  What a variable nobody set points to is nothing or an address at the gateway (`Leftovers`).  150 thousand states.

Fairness.  MemStream: `WF_vars(Loop)`, a call that runs goes on (a thread is scheduled).  NotFoundUrls:
weak fairness of each thread's step; the mutex need not be fair, since `MutexReleased` is about
its holder.  RuleTable and HtmlParser: the loop goes on.  OutputFilter: the filter goes on once called and
httpd finalizes every request; the content handler owes nothing.  Browse: `WF_browseVars(Body)`: a process goes on with the body it reads, and the filters below deliver, end or
fail (a connection has a timeout); `MaxAgain` bounds how often a read without data is tried again, so `HandlerEnds`
says nothing of a client that never sends.  Gateway and Startup have safety properties only and no fairness.  No caller is ever obliged to call.

Deadlock is checked in memstream, notfound, ruletable and gateway.  In output_filter, html_parser, startup and
browse it is not: a response, a page, a start and a visit have an end, and a crashed process does nothing more.

What the violations show (quotes in PROJECT.json "findings"):

* `NothingAfterBreak`: matchRule stops at a rule that is longer than the rest of the text and larger,
  with the comment that only larger ones follow.  compare_rule puts a phrase behind the longer
  ones it begins, so the one that fits may be among those.
* `OnlyWhatFits`: when that comparison does not stop the search, the rule is compared with the
  bytes behind the text and may be returned.
* `NoTokenIsText`: for a tag without a name the text before it is put out again, and the tag is not.
* `NoEndIsText`: what stands in `bakinfo` at the end of the page is never put out.

## 4. Proofs

Each theorem below is `Spec => []P` for the property named (for a refinement, `Spec => Abstract!Spec`; for Browse, `BrowseSpec`), for every
value of the constants that meets the assumptions of its module; `BodyConverted` is about the operators of Utf8Stream alone.

| Theorem | Property | In short |
|---|---|---|
| MemStreamProofs!Ranges | `TypeOK` | counters, positions and pages keep their ranges |
| MemStreamProofs!Positions | `CursorsInStep` | positions and counters agree |
| MemStreamProofs!Bounded | `MemoryBound` | no page more than the most bytes held call for |
| MemStreamProofs!OneRing | `RingClosed` | the links are one ring through all pages |
| MemStreamProofs!IsAQueue | `QueueRefinement` | the stream implements ByteQueue |
| NotFoundUrlsProofs!MutualExclusion | `OnlyOwnerInside` | one thread at a time in the table |
| NotFoundUrlsProofs!Bounded | `CacheBound` | the size stays below the limit |
| NotFoundUrlsProofs!Typed | `TypeOK` | types |
| NotFoundUrlsProofs!SoundBetweenCalls | `TableSound` | list, chains, count and heap agree |
| NotFoundUrlsProofs!IsAnLruCache | `CacheRefinement` | the table under its mutex implements LruCache |
| RuleTableProofs!Typed | `TypeOK` | types; the sorted bucket has the rules that were added |
| RuleTableProofs!TextIsKept | `NothingSkipped` | no character skipped or replaced twice |
| RuleTableProofs!LongestIsTaken | `LongestWins` | the longest phrase that stands there is taken |
| RuleTableProofs!NoneIsMissed | `FoundIfNoneNests` | the early exits miss no phrase that is not empty when none begins another |
| OutputFilterProofs!Typed | `TypeOK` | types |
| OutputFilterProofs!AllOrNothing | `WholeOrNotAtAll` | a response is converted whole or not at all |
| OutputFilterProofs!LengthDropped | `NoStaleLength` | the original's length is not announced |
| OutputFilterProofs!FallsBackClean | `FallbackIsClean` | the 404 fallback is a clean redirect |
| OutputFilterProofs!EosComesLast | `EosEndsIt` | nothing after the end of stream |
| OutputFilterProofs!EveryChunkOnce | `NothingLost` | every chunk once and in order |
| HtmlParserProofs!Typed | `TypeOK` | types |
| HtmlParserProofs!PageIsKept | `NothingLost` | every symbol in one piece, each piece converted as it stands but for nameless tags, wherever the page is cut |
| HtmlParserProofs!TagsAreFound | `TagsFound` | the tags are those of the page, wherever it is cut |
| GatewayProofs!Typed | `TypeOK` | types |
| GatewayProofs!FetchesAreJustified | `FetchJustified` | asked for is the URL requested or, with reason, the older one |
| GatewayProofs!MissesAreBounded | `MissesBounded` | a URL is asked for in vain once a worker and a pruning |
| GatewayProofs!BodyConverted | | what the input filter makes of the bytes of any text is the conversion of its characters |
| GatewayProofs!BodyArrives | `BodyArrivesOnce` | a body arrives whole and once, however it is cut: converted for mod_proxy, as it came for apiHandler |
| GatewayProofs!PageArrivesWhole | `PageWhole` | what is put out for a page stands for all of it, part by part what it should be; what is lost is named |
| StartupProofs!LicenceOutlives | `LicenceSurvives` | only a kill or a full disk while it is written damages the licence |
| StartupProofs!DaysGoOn | `ClockNotTurnedBack` | no start on a day before the last one (an action property) |
| StartupProofs!LicensedOnly | `OnlyLicensed` | only what the licence allowed on the day of the start is converted |
| StartupProofs!PairingIsIrrelevant | `SectionsCombine` | the pairing of merges does not show |
| StartupProofs!PhrasesAreTheSections | `PhrasesOfTheSection` | the table is that of the innermost section that has one |

### What is assumed, and how each argument goes

SequenceLemmas.  The library's induction theorems take an operator for a parameter and cannot be cited.  `AllNumbers` is
induction stated of a set, got from the fact that `<` is well founded; with it the concatenation of a sequence of
sequences is reasoned about (`FlattenAppend`, `FlattenConcat`, `FlattenSingles`), and functions that are defined by recursion upwards on an
interval are shown to exist and to follow their definition (`ClimbExists`, `ScanExists`).  So the recursive functions `PageAhead`, `Age`, `TextStop`,
`TagEnd`, `Second` and `TagsFrom` are within reach of the proofs below.  `SpreadOf` is the sequence in which each element became a piece, one
behind the other; it is known by its first element and the rest (`SpreadCons`) and by its two halves (`SpreadConcat`).

MemStreamProofs.  Assumed: a page has at least one byte, the bounds are numbers, `Junk` is no byte.  `Inv`, `TypeOK /\ LoopInv /\ CursorsInStep /\
MemoryBound`, is inductive, and none of the three properties is alone: that `free` does not become negative needs that a storing
call has no more bytes left than are free; that growing keeps the positions in step needs that an empty stream stands at a
page's start; that the memory is bounded needs that a growing call's wish is within `peak`.  `LoopInv` says these.
`RingInv` adds the links: `PageAhead` goes once through all pages, and the page the data ends in (`EndPage` links from the head) is
the tail; a page linked behind the tail is a number inserted in the walk (`Inserted`), a step of the head turns it (`Turned`).
For the refinement, `ContentsAre` reads the bytes along that walk, and `Halfway` says what a call in its loops has done so far: what is
stored is a prefix of what was to be written, behind what was there.  `FilledBehind` is the heart of it: a piece stored at the tail overwrites
nothing still to be read.  Each action then amounts to a step of ByteQueue or none (`Amounts`).

NotFoundUrlsProofs.  Assumed: the limit is at least 2, Null and Nobody are none of the others, the nodes are finitely many.
`CallTypes /\ OnlyOwnerInside /\ Room` is inductive; `Room` counts, for each place in a call, how far the table is from its limit: a hit has
deleted its entry before it adds it, and only a new URL can reach the limit, immediately before pruning.  `ListInv` adds that
there is a sequence of nodes that the table holds: the links thread it both ways, the chains and the count agree (`Linked`); malloc has given out its nodes
and the loose one a call has in its hands, and no others (`Owned`); and its URLs are what the cache was when the call took the lock, as far as the
call has come since (`Doing`).  Without the last, the state in the middle of a call says nothing about the abstract cache.  Only `Unlock` shows an effect;
`KnownStep` says that it is LruCache's, and that every other step but `Call` is a stutter.

RuleTableProofs.  Assumed: characters are numbers, as much memory lies behind a text as a phrase may be compared with.
The invariant has the properties and, beneath them, `Loaded` (a bucket holds the rules that begin with its character, the array
is one of its sortings) and `Converting`.  compare_rule looks at two rules at a time and qsort leaves the order of equal ones open; `SortedOrder`
says that in the sorted array `Order` holds between any rule and any behind it, which needs that it is transitive; the empty phrase comes last, being the beginning of all.  Of two phrases in
order that both stand at a place the first is no shorter, so the first that is found is the longest.  For `NoneIsMissed`: where the scan
stops early, the memory is below the rule it stopped at, and a phrase behind that one that stands there can only be one it begins with
(`OrderBelow`).  The theorem holds whatever lies in memory behind the text.

OutputFilterProofs.  Assumed: the bounds are numbers.  `Inv` says, besides types, which responses are left aside (`Aside`), that they are
untouched, that the length is dropped before anything is put in the memory stream, how far a fallback has come, and what may
still come before the end of stream.  `NothingLost` needs `Counting`: the filter is done with the chunks 1 to t of those sent, t being a number
that no variable holds; those it is done with are passed on, in the memory stream or among the lost, the others are the brigade's rest.

HtmlParserProofs.  Assumed: a page is a sequence of symbols; and for `TagsAreFound`, stated as its hypothesis, that every page is one of `TwoByte`
characters.  `Types /\ Windows /\ PiecesCover` is inductive; `Windows` says that the buffer and `bak` are what the page ends with so far.
`Conv` adds what is converted: that a tag without a name is converted as the text before it needs that `text` is the last text piece put out.
`Tagged` relates what was put out to the page looked at whole: the tags of the page are those put out and those from `Place` on
(`Found`), and between calls none of the latter ends in what was given (`Behind`).  The scan of a buffer finds the end of a tag where it is on the page,
or none up to the buffer's end (`EndFound`), because a scan never begins at the second half of a character: `Place` is none.

GatewayProofs.  Assumed: OLDURL is another URL, the workers are finitely many, the cache's size is at least 2.  `FetchJustified` needs that what is in the cache
was once refused, and that a request under way is for its own URL or has a reason (`Honest`).  `MissesBounded` needs the count `TriesOf`: while a URL is in
the cache nobody looks it up in vain, so each vain try leaves one worker fewer that may still try; while it is not, whoever has tried has yet
to add it.

The bodies.  Assumed: the texts are sequences of the characters of Utf8Stream (`TextsAssumption`), and the word table leads from what two bytes
can hold to what two bytes can hold (`WordTableAssumption`); nothing of what it replaces by what.  `BodyConverted` follows the three loops of
fjt_in_filter: each reads from the front and steps over as much as one character takes, so its value on a text is that on the first
character and then on the rest (`DecodedFront`, `UnicodeFront`); `ReadingExists` gives such a recursion its value at every position, and the rest is
induction over the text (`DecodedText`, `UnicodeText`, `TranslatedText`, `EncodedText`).  That the bits of a character of one to three
bytes come out of its UTF-8 as they went in is `UnicodeCharacter`.
`BodyArrives` needs more than its property: `BodyInv` says that a call which keeps what it reads has the body up to `sent` in its stream and in the
bucket it has not taken out yet, that a call which does not is marked as lost, and which few forms the brigade has at each place of
the call, since the end of stream is put behind the data a second time (`back`).

The pages.  Assumed: the URL map of a scenario has pairs of addresses, the pages are sequences of pieces with a text (`ScenariosAssumption`,
`PagesAssumption`), and "/" is a string (`SymbolsAssumption`, which no prover knows).  Nothing is assumed of the addresses, the hosts, the pairs or the
configuration's flags, nor of what is on the stack.  `PageInv` says how far the page is put out (`SoFar`) and that each piece put out stands for
itself; the weight is in `ConvertedWhole`, which says so of one piece.  For text, ReplaceHTTPAndConvert calls itself on what is
before a reference and on what is behind it: `PlaceIs` shows that the place it found is within the text and both remainders are shorter,
`HalvedExists` that such a recursion has a value, `HalvedCarries` that the value stands for the whole text.  In a tag, `ValueIs` and
`CharsetPlaces` show where a value lies between what is before and behind it, and `ReferenceStays` that ChangeUrl leaves the reference in the page as
it was, "\" apart.

StartupProofs.  Assumed: `MaxDay`, the days and counts of a licence are numbers, a scenario's fields are fields, a table is no null pointer.  `Stamps` says how the day last
read, the stamp in the file, the day this process read and the day of the start (`since`) stand to each other at each place of it, `InDays`, `Admitted` and `Counted` what
is true of each domain a directive let in, at once and after the servers are merged.  For the sections, `Walking` cuts the sections a request is in into neighbouring parts, one
for each configuration still to merge, and says that each configuration is what its part comes to (`Combined`, `LastTable`); `TwoParts` is the associativity of
my_merge_dir_conf: the merge of two neighbouring parts is what both come to together.  A flag may be -1 in a section for itself and is never so
in a merged configuration, so `Combined` tells parts of one section from longer ones.
`PhrasesAreTheSections` has the hypothesis that each file of phrases is written in lines (`FilesAreInLines`), a phrase, spaces, what replaces it and line
breaks, with characters where the width of the file puts them and, since initFile steps two bytes behind a line without looking, at least two bytes of
line break between two lines; each file of the Startup run is laid out so, in one way.  `FileIsRead` proves that initFile reads such a file as its pairs: a turn
of the loop takes one line (`LineIsRead`), and `ClimbExists` gives the recursive function of initFile its value at each position.  A file
with a single line feed between lines in one byte per character is not of that form, and nothing is proved of it.

### What is only model-checked

* Liveness (`CallReturns`, `MutexReleased`, `ConversionEnds`, `EosComesOut`, `ParseReturns`, `HandlerEnds`): temporal reasoning about fairness and ENABLED is out of
  this prover's reach.
* Browse: `LinksKept`.  That links lead where they did is true of hosts, maps and pages that do not get in each other's way, as
  those of the instance, and not for all constants: a `<base>` or an address of the map with a quote in it puts the quote into the page, a
  URL map may lead into the gateway, and a name may look like a block.  What is to be assumed of a site is not in the code.
* How initFile reads a file that is not laid out as `FilesAreInLines` says; the files of the Startup run are.

## 5. Plan

Done: every component in the table of section 1 that is built, as far as PROJECT.json says; proofs of every safety property of
the runs but `LinksKept` of Browse.

Next:

* `LinksKept` under named assumptions about a site: addresses without marks of another kind, maps that lead out of the gateway.

Not modelled:

* Texts of the configuration put into a page or an address: DoUrlMapNE, DoUrlModify, NativeDomain, AddUrlPrefixToParameter,
  UrlMapJS, InsertCSS, ChangeScript at level 2, ShouldExpandJs, ParseJs.  Nothing general can be said of where they lead.
* Detours for single sites: ForcePostUTF8, SendURLsAsUTF8, MarkUTF8Url; the second decoding of "%25"; DataEncode and DataDecode.
* word_convert and the converters for GBK and Big5: the substitution of Utf8Stream on two-byte characters, without the
  phrases; utf8no, which is 0 at each call of translate.  The tables themselves are data.
* Bytes below a symbol: the memmove at
  baseutil.c:1571 may lose a terminating NUL, build_absolute_path may be called with a base that was never set (mod_fjt.c:667).
* The cipher of the licence; the functions for WIN32; httpd's first reading of the configuration.
* Code without a caller: memstream_copy and delete_memstream; the older ParseHtml and ParseHtml_last (htmlparser.c:1808,
  1957), called only from a commented-out ProcessOutput (htmlparser.c:4026-4127), and what follows htmlparser.c:2402 for
  cookies and content types; exportapi.c, which is for other programs.
* Sources outside the build: mod_disk_cache.c (a copy of Apache's), decompfile.c, decompdir.c, update.c, config.c.

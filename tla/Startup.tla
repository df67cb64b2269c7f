------------------------------ MODULE Startup ------------------------------
(***************************************************************************)
(* The start of the server and the configuration a request meets: httpd    *)
(* reads the directives, the first one that names a domain or a prefix     *)
(* reads the licence and stamps the day into its file, the virtual host is *)
(* merged into the main server, the phrase tables are loaded, and a        *)
(* request then has the sections that apply to it merged.  Days pass while *)
(* the server is up; it may be stopped and started again on another day,   *)
(* by a clock that may have been turned back, be killed while it writes    *)
(* the licence file, find it read-only or the disk full.                   *)
(* Simplified: no day ends during a start.                                 *)
(***************************************************************************)
EXTENDS Integers, Sequences, SequencesExt, FiniteSetsExt, RuleFile, Directives, Licence

CONSTANTS Scenarios,    \* [fields, svrFields, lic, domains, kinds, starts]: see MCStartup
          Files,        \* the phrase files: name -> [content, pairs, isUtf16]
          PrefixHost,   \* the host of a prefix: value -> name, NULL if it has none
          MaxDay,       \* bound on the clock
          MaxDomains,   \* bound on the ConvertDomain directives of a server
          MaxFiles      \* bound on the phrase files of all sections together

ASSUME DayAssumption == MaxDay \in Nat

\* Days and counts of a licence are numbers, domains are written in parts; a
\* field is looked at together with the one its merge depends on.
ASSUME ScenarioAssumption ==
    \A s \in Scenarios :
        /\ s.kinds \subseteq {"convert", "exclude", "friendly"}
        /\ s.lic.from \in Nat /\ s.lic.to \in Nat /\ s.lic.DomainNum \in Nat
        /\ \A line \in s.lic.domains : line.from \in Nat /\ line.to \in Nat
        /\ \A d \in s.domains : d \in Seq(STRING)
        /\ s.fields \subseteq DirFields
        /\ "m_iToEncode" \in s.fields => "m_iFromEncode" \in s.fields

\* A table of phrases, however empty, is no null pointer.
ASSUME NullAssumption ==
    \A names \in SUBSET DOMAIN Files, isUtf16 \in BOOLEAN :
        UNION {initFile(Files[n].content, isUtf16) : n \in names} # NULL

Servers   == <<"main", "vhost">>
Locations == <<"outer", "middle", "inner">>
\* The order the sections stand in the file.
Order     == Servers \o Locations

VARIABLES
    scenario,   \* what this behaviour is about
    starts,     \* how often the server was started
    today,      \* the clock
    since,      \* history: the day of the last start
    file,       \* etc/fjtlicense.lic: what is left of its text, and the stamp
    phase,      \* "down", "config", "truncated", "fixed", "up", "request", "exited"
    pos,        \* the section being read
    asked,      \* what the directive being read asks of the licence, or NULL
    process,    \* the licence as this process knows it
    svr,        \* svr[s]: domains and fields of server s
    dir,        \* dir[x]: the directory configuration of server or section x
    walk,       \* the configurations a request has still to merge
    inForce,    \* history: the server and the sections the request is in
    lastRead,   \* history: the last day a dated licence was read for a start
    cutShort    \* history: the file was not written to its end

conf == <<pos, svr, dir>>
request == <<walk, inForce>>
clock == <<today, since, file, lastRead, cutShort>>
vars == <<scenario, starts, clock, phase, asked, process, conf, request>>

Lic == scenario.lic

\* Nothing read yet.
Fresh == [init |-> FALSE, plain |-> FALSE, cmptime |-> 0, dnk |-> {}, num |-> 0]

NewDir == [f |-> [f \in scenario.fields |-> Initial(f)], files |-> {}, usetable |-> NULL]

NewSvr == [allowed |-> {}, exclude |-> {}, friendly |-> {}, nYesDomain |-> 0,
           f |-> [f \in scenario.svrFields |-> NotSet]]

Init ==
    /\ scenario \in Scenarios
    /\ starts = 0 /\ phase = "down" /\ asked = NULL
    /\ today \in (IF scenario.starts = 1 THEN {2} ELSE 1 .. MaxDay) /\ since = 0
    /\ file = [text |-> "whole", stamp |-> 0]
    /\ process = Fresh
    /\ pos = 1 /\ svr = [s \in ToSet(Servers) |-> NewSvr] /\ dir = [x \in ToSet(Order) |-> NewDir]
    /\ walk = <<>> /\ inForce = <<>>
    /\ lastRead = 0 /\ cutShort = FALSE

------------------------------------------------------------------------------
(* httpd.                                                                  *)

Start ==
    /\ phase = "down" /\ starts < scenario.starts
    /\ starts' = starts + 1 /\ phase' = "config" /\ since' = today
    /\ UNCHANGED <<scenario, today, file, lastRead, cutShort, asked, process, conf, request>>

\* The process ends, and the next one knows nothing of it.
Stop ==
    /\ phase \in {"up", "exited"} /\ starts < scenario.starts
    /\ phase' = "down"
    /\ process' = Fresh /\ asked' = NULL
    /\ pos' = 1 /\ svr' = [s \in ToSet(Servers) |-> NewSvr]
    /\ dir' = [x \in ToSet(Order) |-> NewDir]
    /\ UNCHANGED <<scenario, starts, clock, request>>

\* The clock of a machine that is down may be set to any day.
SetClock(d) ==
    /\ phase = "down" /\ starts \in 1 .. scenario.starts - 1 /\ d # today
    /\ today' = d
    /\ UNCHANGED <<scenario, starts, since, file, lastRead, cutShort, phase, asked, process, conf,
                   request>>

\* A day ends while the server is up (only in scenarios that are not about
\* sections, whose requests do not look at the day).  Nothing looks at the clock again:
\* timeCheckPoint, which CheckLicense stores, is compared with it only in
\* htmlparser.c's CheckDomain, which nothing calls.
DayPasses ==
    /\ phase = "up" /\ today < MaxDay /\ scenario.fields = {}
    /\ today' = today + 1
    /\ UNCHANGED <<scenario, starts, since, file, lastRead, cutShort, phase, asked, process, conf,
                   request>>

Reading == phase = "config" /\ asked = NULL

NextSection ==
    /\ Reading /\ pos < Len(Order)
    /\ pos' = pos + 1
    /\ UNCHANGED <<scenario, starts, clock, phase, asked, process, svr, dir, request>>

------------------------------------------------------------------------------
(* The directives.                                                         *)

Exit == phase' = "exited" /\ asked' = NULL

Values(f) ==
    IF f \in NeverInherited \cup {"m_pConvertExts"}
              \cup (InheritedIfZero \ {"m_iRedirectTipTime", "m_iChangeChineseLevel"})
    THEN {1, 2} ELSE {0, 1}

\* Fields whose directive asks the licence for the prefix it is given.
CheckedPrefix == {"m_pcUrlPrefix", "m_pcSUrlPrefix", "m_pUrlMap", "m_pUrlMapNE"}

\* A directive of a <Location>: httpd takes none of them elsewhere.
SetDirective(f, v) ==
    /\ Reading /\ pos > Len(Servers)
    /\ dir[Order[pos]].f[f] = Initial(f)
    /\ dir' = [dir EXCEPT ![Order[pos]].f[f] = v]
    /\ asked' = IF f \in CheckedPrefix /\ PrefixHost[v] # NULL
                THEN [what |-> "prefix", host |-> PrefixHost[v]] ELSE NULL
    /\ UNCHANGED <<scenario, starts, clock, phase, process, pos, svr, request>>

AllFiles == UNION {{x} \X dir[x].files : x \in ToSet(Order)}

use_table(name) ==
    /\ Reading /\ pos > Len(Servers) /\ "m_pUseTableFile" \in scenario.fields
    /\ Cardinality(AllFiles) < MaxFiles /\ name \notin dir[Order[pos]].files
    /\ dir' = [dir EXCEPT ![Order[pos]].files = @ \cup {name}]
    /\ UNCHANGED <<scenario, starts, clock, phase, asked, process, pos, svr, request>>

SetSvrDirective(f, v) ==
    /\ Reading /\ pos <= Len(Servers)
    /\ svr[Order[pos]].f[f] = NotSet
    /\ svr' = [svr EXCEPT ![Order[pos]].f[f] = v]
    /\ UNCHANGED <<scenario, starts, clock, phase, asked, process, pos, dir, request>>

\* ConvertDomain asks the licence unless the domain is to be left alone.
ConvertDomain(d, kind) ==
    /\ Reading /\ pos <= Len(Servers)
    /\ LET s == svr[Order[pos]] IN
         /\ Cardinality(s.allowed \cup s.exclude \cup s.friendly) < MaxDomains
         /\ d \notin s.allowed \cup s.exclude \cup s.friendly
         /\ svr' = CASE kind = "exclude"  -> [svr EXCEPT ![Order[pos]].exclude = @ \cup {d}]
                     [] kind = "friendly" -> [svr EXCEPT ![Order[pos]].friendly = @ \cup {d}]
                     [] kind = "convert"  -> svr
    /\ asked' = IF kind = "convert" THEN [what |-> "domain", domain |-> d] ELSE NULL
    /\ UNCHANGED <<scenario, starts, clock, phase, process, pos, dir, request>>

------------------------------------------------------------------------------
(* ReadLicense, for the first directive that asks.                         *)

timelock == Lic.kind # "plain"

\* What the process knows once the file is read.  A text that cannot be
\* verified is taken for an empty one.
Known == [init |-> TRUE, plain |-> file.text = "whole", cmptime |-> file.stamp,
          dnk |-> IF file.text = "whole" THEN make_domain_link(Lic, today) ELSE {}, num |-> 0]

\* Wrong variant: the file is opened for writing before the days are compared.
ReadLicenseOpensFirst ==
    /\ phase = "config" /\ asked # NULL /\ ~process.init
    /\ process' = Known
    /\ IF file.text = "empty" THEN Exit /\ UNCHANGED file
       ELSE IF file.text = "whole" /\ timelock
            THEN /\ phase' = IF file.stamp < today THEN "truncated" ELSE phase
                 /\ file' = [text |-> "empty", stamp |-> 0]
                 /\ UNCHANGED asked
            ELSE UNCHANGED <<phase, asked, file>>
    /\ UNCHANGED <<scenario, starts, today, since, lastRead, cutShort, conf, request>>

\* An empty file ends the start.  The file of a dated licence is opened for
\* writing, which empties it, unless its stamp is not older than today.
ReadLicense ==
    /\ phase = "config" /\ asked # NULL /\ ~process.init
    /\ process' = Known
    /\ IF file.text = "empty" THEN Exit /\ UNCHANGED file
       ELSE IF file.text = "whole" /\ timelock /\ file.stamp < today
            THEN /\ phase' = "truncated"
                 /\ file' = [text |-> "empty", stamp |-> 0]
                 /\ UNCHANGED asked
            ELSE UNCHANGED <<phase, asked, file>>
    /\ UNCHANGED <<scenario, starts, today, since, lastRead, cutShort, conf, request>>

\* The file cannot be opened for writing: the start ends, the file is as it was.
ReadOnlyLicense ==
    /\ phase = "config" /\ asked # NULL /\ ~process.init
    /\ file.text = "whole" /\ timelock /\ file.stamp < today
    /\ process' = Known
    /\ Exit
    /\ UNCHANGED <<scenario, starts, clock, conf, request>>

\* Wrong variant: the stamp is not written back after the text.
WriteLicenseNoStamp ==
    /\ phase = "truncated"
    /\ phase' = "config"
    /\ file' = [text |-> "whole", stamp |-> process.cmptime]
    /\ UNCHANGED <<scenario, starts, today, since, lastRead, cutShort, asked, process, conf, request>>

WriteLicense ==
    /\ phase = "truncated"
    /\ phase' = "config"
    /\ file' = [text |-> "whole", stamp |-> today]
    /\ UNCHANGED <<scenario, starts, today, since, lastRead, cutShort, asked, process, conf, request>>

\* The process is killed between the two: nothing, a part of the text or the
\* text without the stamp has reached the disk.
Killed(left) ==
    /\ phase = "truncated"
    /\ phase' = "exited" /\ asked' = NULL
    /\ file' = [text |-> left, stamp |-> 0]
    /\ cutShort' = TRUE
    /\ UNCHANGED <<scenario, starts, today, since, lastRead, process, conf, request>>

\* The disk is full: less has reached it, which nobody looks at, and the start
\* goes on with what was read.
WriteFails(left) ==
    /\ phase = "truncated"
    /\ phase' = "config"
    /\ file' = [text |-> left, stamp |-> 0]
    /\ cutShort' = TRUE
    /\ UNCHANGED <<scenario, starts, today, since, lastRead, asked, process, conf, request>>

Checking(what) ==
    phase = "config" /\ asked # NULL /\ asked.what = what /\ process.init

\* CheckLicense for the domain of the directive.
CheckDomain ==
    /\ Checking("domain")
    /\ LET ok == /\ process.plain /\ ~WrongLicense(Lic, process.dnk)
                 /\ CheckLicense(Lic, process.dnk, asked.domain, process.num,
                                 process.cmptime, today)
       IN  IF ok
           THEN /\ process' = [process EXCEPT !.num = @ + Counts(Lic, process.dnk)]
                /\ svr' = [svr EXCEPT ![Order[pos]].allowed = @ \cup {asked.domain},
                                      ![Order[pos]].nYesDomain = @ + 1]
                /\ asked' = NULL /\ UNCHANGED phase
           ELSE Exit /\ UNCHANGED <<process, svr>>
    /\ UNCHANGED <<scenario, starts, clock, pos, dir, request>>

\* CheckUrlPrefix for the prefix of the directive; of a licence that could not
\* be verified it finds nothing that forbids it.
CheckPrefix ==
    /\ Checking("prefix")
    /\ IF process.plain /\ ~CheckUrlPrefix(Lic, asked.host) THEN Exit
       ELSE asked' = NULL /\ UNCHANGED phase
    /\ UNCHANGED <<scenario, starts, clock, process, conf, request>>

------------------------------------------------------------------------------
(* After the directives.                                                   *)

MergeDir(base, add) ==
    [f        |-> [f \in scenario.fields |-> MergeField(base.f, add.f, f)],
     files    |-> add.files,
     usetable |-> IF add.usetable = NULL THEN base.usetable ELSE add.usetable]

MergeSvr(base, overrides) ==
    [f          |-> [f \in scenario.svrFields |-> MergeSvrField(base.f, overrides.f, f)],
     allowed    |-> IF overrides.nYesDomain = 0 THEN base.allowed ELSE overrides.allowed,
     exclude    |-> IF overrides.exclude = {} THEN base.exclude ELSE overrides.exclude,
     friendly   |-> IF overrides.friendly = {} THEN base.friendly ELSE overrides.friendly,
     nYesDomain |-> IF overrides.nYesDomain = 0 THEN base.nYesDomain ELSE overrides.nYesDomain]

\* httpd merges the virtual host into the main server; without a domain for it
\* to convert the module ends the process.
FixupVirtualHost ==
    /\ Reading /\ pos = Len(Order)
    /\ LET merged == MergeSvr(svr["main"], svr["vhost"]) IN
         /\ svr' = [svr EXCEPT !["vhost"] = merged]
         /\ dir' = [dir EXCEPT !["vhost"] = MergeDir(dir["main"], dir["vhost"])]
         /\ phase' = IF merged.nYesDomain < 1 THEN "exited" ELSE "fixed"
    /\ UNCHANGED <<scenario, starts, clock, asked, process, pos, request>>

\* Whether a section reads its files as UTF-16: m_iUseUnicodeTable is not 0,
\* which it is not where the directive is left out.
IsUtf16(x) ==
    IF "m_iUseUnicodeTable" \in scenario.fields
    THEN dir[x].f["m_iUseUnicodeTable"] # 0 ELSE Initial("m_iUseUnicodeTable") # 0

init_dir_convert_table(x) ==
    IF "default" \in dir[x].files THEN NULL
    ELSE UNION {initFile(Files[n].content, IsUtf16(x)) : n \in dir[x].files}

\* Every configuration that was created is loaded; that of the virtual host is
\* by now a merged one, which is not among them.
LoadTables ==
    /\ phase = "fixed"
    /\ phase' = "up"
    /\ dir' = [x \in DOMAIN dir |->
                 IF x = "vhost" THEN dir[x]
                 ELSE [dir[x] EXCEPT !.usetable = init_dir_convert_table(x)]]
    /\ lastRead' = IF timelock THEN today ELSE lastRead
    /\ UNCHANGED <<scenario, starts, today, since, file, cutShort, asked, process, pos, svr, request>>

\* A file of phrases is not there: readFile reads from what fopen did not open.
TableMissing ==
    /\ phase = "fixed"
    /\ \E x \in DOMAIN dir \ {"vhost"} : dir[x].files # {} /\ "default" \notin dir[x].files
    /\ phase' = "exited"
    /\ UNCHANGED <<scenario, starts, clock, asked, process, conf, request>>

------------------------------------------------------------------------------
(* A request.                                                              *)

\* It comes to a server and is in any of the sections.
Request(s, sections) ==
    /\ phase = "up" /\ scenario.fields # {}
    /\ phase' = "request"
    /\ inForce' = <<s>> \o FlattenSeq([i \in DOMAIN Locations |->
                                       IF Locations[i] \in sections THEN <<Locations[i]>> ELSE <<>>])
    /\ walk' = [i \in DOMAIN inForce' |-> dir[inForce'[i]]]
    /\ UNCHANGED <<scenario, starts, clock, asked, process, conf>>

\* httpd merges neighbours: the sections of one walk from the outermost in,
\* the result into what an earlier walk found, in the order of its caches.
MergeSections(i) ==
    /\ phase = "request" /\ i \in 1 .. Len(walk) - 1
    /\ walk' = SubSeq(walk, 1, i - 1) \o <<MergeDir(walk[i], walk[i + 1])>>
                   \o SubSeq(walk, i + 2, Len(walk))
    /\ UNCHANGED <<scenario, starts, clock, phase, asked, process, conf, inForce>>

Served ==
    /\ phase = "request" /\ Len(walk) = 1
    /\ phase' = "up" /\ walk' = <<>> /\ inForce' = <<>>
    /\ UNCHANGED <<scenario, starts, clock, asked, process, conf>>

Next ==
    \/ Start \/ Stop \/ NextSection
    \/ \E d \in 1 .. MaxDay : SetClock(d)
    \/ DayPasses
    \/ \E f \in scenario.fields \ {"m_pUseTableFile"} : \E v \in Values(f) : SetDirective(f, v)
    \/ \E n \in DOMAIN Files : use_table(n)
    \/ \E f \in scenario.svrFields, v \in {0, 1} : SetSvrDirective(f, v)
    \/ \E d \in scenario.domains, kind \in scenario.kinds : ConvertDomain(d, kind)
    \/ ReadLicense \/ ReadOnlyLicense \/ WriteLicense \/ CheckDomain \/ CheckPrefix
    \/ \E left \in {"empty", "cut", "whole"} : Killed(left) \/ WriteFails(left)
    \/ FixupVirtualHost \/ LoadTables \/ TableMissing
    \/ \E s \in ToSet(Servers), sections \in SUBSET ToSet(Locations) : Request(s, sections)
    \/ \E i \in 1 .. Len(walk) - 1 : MergeSections(i)
    \/ Served

Spec == Init /\ [][Next]_vars

------------------------------------------------------------------------------
(* Properties.                                                             *)

Serving == phase \in {"up", "request"}

\* A line of the licence that names the domain or a part of it on the day.
Listed(d, day) ==
    \E line \in Lic.domains :
        /\ IsSuffix(line.name, d)
        /\ line.from # 0 => day \in line.from .. line.to - 1

\* The sockets' list need not show every address the machine has.
Here(ip) == \E i \in DOMAIN Interfaces : Interfaces[i].ip = ip

\* Whatever the configuration file says, in whatever order, and however often
\* the server was started before and the clock was set: a server that is up
\* converts only domains its licence named for the day it was started on, on the
\* machine the licence is for, and no more of them than it is for (CheckLicense,
\* set_convert_domain and my_merge_svr_config).  A licence that runs out while the
\* server is up goes unnoticed (DayPasses).
OnlyLicensed ==
    Serving =>
        \A s \in ToSet(Servers) : \A d \in svr[s].allowed :
            /\ \/ Listed(d, since)
               \/ Lic.kind = "any"
               \/ Lic.UrlPrefix # {} /\ ~\E e \in scenario.domains : Listed(e, since)
            /\ Lic.kind # "plain" => since \in Lic.from .. Lic.to - 1
            /\ Lic.bindip # NULL => Here(Lic.bindip)
            /\ Lic.alone => Here(Resolve(d))
            /\ Lic.DomainNum > 0 =>
                 Cardinality(svr["main"].allowed \cup svr["vhost"].allowed) <= Lic.DomainNum

\* A server with a dated licence does not come up on a day before one it came
\* up on earlier, unless the stamp was once not written to its end (ReadLicense
\* and the end of CheckLicense).
ClockNotTurnedBack ==
    [][phase = "fixed" /\ phase' = "up" /\ timelock
         => cutShort \/ lastRead <= today]_vars

\* ReadLicense rewrites the file it has just read.  Outside that moment the
\* text is whole, unless the process was killed in it or the disk was full.
LicenceSurvives ==
    file.text # "whole" => cutShort \/ phase = "truncated"

\* What the sections a request is in say of field f: a flag is the innermost
\* section's, and off if that one does not set it; a table is the innermost
\* section's, an encoding to convert to that of the section that says what to
\* convert from; the rest is the last thing said.
Said(f) ==
    LET value(i) == dir[inForce[i]].f
        none == IF f \in InheritedIfZero THEN 0 ELSE -1
        by   == {i \in DOMAIN inForce :
                   IF f = "m_iToEncode" THEN value(i)["m_iFromEncode"] # -1
                                        ELSE value(i)[f] # none}
        last == value(Len(inForce))[f]
    IN  CASE f \in Own            -> IF last = -1 THEN 0 ELSE last
          [] f \in NeverInherited -> last
          [] f = "m_pConvertExts" -> 0
          [] OTHER                -> IF by = {} THEN Initial(f) ELSE value(Max(by))[f]

\* However httpd pairs the sections of its walks, a request ends with what its
\* sections say (my_merge_dir_conf).
SectionsCombine ==
    phase = "request" /\ Len(walk) = 1 /\ Len(inForce) > 1 =>
        \A f \in scenario.fields : walk[1].f[f] = Said(f)

\* A request converts by the phrases the files of its innermost section state,
\* a section that says "default" not counted, when they are written in the
\* width that section reads them in; there is a table whenever there is such
\* a section or the server is not a virtual host (use_table,
\* init_dir_convert_table, initFile and the merge).
PhrasesOfTheSection ==
    phase = "request" /\ Len(walk) = 1 =>
        LET by == {i \in DOMAIN inForce :
                     inForce[i] # "vhost" /\ "default" \notin dir[inForce[i]].files}
        IN  IF by = {} THEN walk[1].usetable = NULL
            ELSE LET x == inForce[Max(by)] IN
                 (\A n \in dir[x].files : Files[n].isUtf16 = IsUtf16(x)) =>
                     walk[1].usetable = UNION {Files[n].pairs : n \in dir[x].files}
=============================================================================

---------------------------- MODULE StartupProofs ----------------------------
(***************************************************************************)
(* Proofs about the start of the server (module Startup), for any          *)
(* licences, configuration files, days and number of starts.               *)
(***************************************************************************)
EXTENDS Startup, SequenceLemmas, SequenceTheorems, FiniteSetTheorems, TLAPS

Hosts == {"main", "vhost"}

Server == [allowed : SUBSET scenario.domains, exclude : SUBSET scenario.domains,
           friendly : SUBSET scenario.domains, nYesDomain : Nat,
           f : [scenario.svrFields -> {-1, 0, 1}]]

Process == [init : BOOLEAN, plain : BOOLEAN, cmptime : Nat,
            dnk : SUBSET {line.name : line \in Lic.domains}, num : Nat]

Types ==
    /\ scenario \in Scenarios
    /\ today \in Nat /\ since \in Nat /\ lastRead \in Nat
    /\ file \in [text : {"empty", "cut", "whole"}, stamp : Nat]
    /\ phase \in {"down", "config", "truncated", "fixed", "up", "request", "exited"}
    /\ pos \in 1 .. 5
    /\ process \in Process
    /\ svr \in [Hosts -> Server]
    /\ asked # NULL /\ asked.what = "domain" => asked.domain \in scenario.domains /\ pos \in 1 .. 2

DownIsFresh ==
    phase = "down" => process = Fresh /\ \A s \in Hosts : svr[s] = NewSvr

\* No day ends during a start.
SameDay == phase \in {"config", "truncated", "fixed"} => since = today

\* A dated licence that was not lost: how the day last read, the stamp, the
\* day the process read from the file and the day of the start stand to each other.
Stamps ==
    timelock /\ ~cutShort =>
        /\ phase = "truncated" => process.init /\ process.cmptime < since
        /\ phase # "truncated" => lastRead <= file.stamp
        /\ phase \in {"config", "fixed"} /\ process.init => since <= file.stamp
        /\ process.init /\ phase \in {"config", "truncated", "fixed"} => lastRead <= process.cmptime

\* Only a licence of the day of the start let a domain in.
InDays ==
    \A s \in Hosts :
        svr[s].nYesDomain > 0 =>
            process.init /\ (timelock => process.cmptime <= since)

Opened ==
    phase = "fixed" => \E s \in Hosts : svr[s].nYesDomain > 0

\* What is true of a domain the licence let in.
Licensed(d) ==
    /\ process.init
    /\ \/ Listed(d, since)
       \/ Lic.kind = "any"
       \/ Lic.UrlPrefix # {} /\ ~\E e \in scenario.domains : Listed(e, since)
    /\ Lic.kind # "plain" => since \in Lic.from .. Lic.to - 1
    /\ Lic.bindip # NULL => Here(Lic.bindip)
    /\ Lic.alone => Here(Resolve(d))

Admitted == \A s \in Hosts : \A d \in svr[s].allowed : Licensed(d)

ListOfTheDay == process.init /\ process.plain => process.dnk = make_domain_link(Lic, since)

Admissions == svr["main"].allowed \cup svr["vhost"].allowed

Counted ==
    /\ IsFiniteSet(Admissions)
    /\ Cardinality(Admissions) <= process.num
    /\ Lic.DomainNum > 0 => process.num <= Lic.DomainNum

Inv ==
    /\ Types /\ DownIsFresh /\ SameDay /\ LicenceSurvives /\ Stamps /\ InDays /\ Opened
    /\ Admitted /\ ListOfTheDay /\ Counted

-----------------------------------------------------------------------------
(* Constants and the shape of the state *)

LEMMA OrderFacts ==
    /\ Len(Servers) = 2 /\ Len(Order) = 5 /\ ToSet(Servers) = Hosts
    /\ Order[1] = "main" /\ Order[2] = "vhost"
    /\ \A k \in 3 .. 5 : Order[k] \notin Hosts
    /\ Hosts \subseteq ToSet(Order)
    /\ Order \in Seq(ToSet(Order)) /\ Locations \in Seq(ToSet(Order))
    /\ \A k \in 1 .. 5 : Order[k] \in ToSet(Order)
<1> DEFINE T == {"main", "vhost", "outer", "middle", "inner"}
<1>1. /\ Len(Servers) = 2 /\ Servers[1] = "main" /\ Servers[2] = "vhost" /\ DOMAIN Servers = 1 .. 2
      /\ Servers \in Seq(T)
    BY DEF Servers
<1>2. /\ Len(Locations) = 3 /\ Locations \in Seq(T)
      /\ Locations[1] = "outer" /\ Locations[2] = "middle" /\ Locations[3] = "inner"
    BY DEF Locations
<1>3. /\ Len(Order) = 5 /\ Order \in Seq(T)
      /\ Order[1] = "main" /\ Order[2] = "vhost"
      /\ Order[3] = "outer" /\ Order[4] = "middle" /\ Order[5] = "inner"
    <2> HIDE DEF T
    <2>1. /\ Len(Order) = Len(Servers) + Len(Locations) /\ Order \in Seq(T)
          /\ \A i \in 1 .. Len(Servers) + Len(Locations) :
                Order[i] = IF i <= Len(Servers) THEN Servers[i] ELSE Locations[i - Len(Servers)]
        BY <1>1, <1>2, ConcatProperties DEF Order
    <2>2. Order[1] = Servers[1] /\ Order[2] = Servers[2]
        BY <1>1, <1>2, <2>1
    <2>3. Order[3] = Locations[3 - 2] /\ Order[4] = Locations[4 - 2] /\ Order[5] = Locations[5 - 2]
        BY <1>1, <1>2, <2>1
    <2>4. QED BY <1>1, <1>2, <2>1, <2>2, <2>3
<1>4. ToSet(Servers) = Hosts
    BY <1>1 DEF ToSet, Hosts
<1>5. ToSet(Order) = T
    <2>1. DOMAIN Order = 1 .. 5
        BY <1>3
    <2>2. ToSet(Order) = {Order[k] : k \in 1 .. 5}
        BY <2>1 DEF ToSet
    <2>3. \A k \in 1 .. 5 : k = 1 \/ k = 2 \/ k = 3 \/ k = 4 \/ k = 5
        OBVIOUS
    <2>4. \A x \in T : \E k \in 1 .. 5 : x = Order[k]
        BY <1>3
    <2>5. QED BY <1>3, <2>2, <2>3, <2>4
<1>6. \A k \in 3 .. 5 : Order[k] \notin Hosts
    <2>1. \A k \in 3 .. 5 : k = 3 \/ k = 4 \/ k = 5
        OBVIOUS
    <2>2. QED BY <1>3, <2>1 DEF Hosts
<1>7. \A k \in 1 .. 5 : Order[k] \in T
    <2>1. \A k \in 1 .. 5 : k = 1 \/ k = 2 \/ k = 3 \/ k = 4 \/ k = 5
        OBVIOUS
    <2>2. QED BY <1>3, <2>1
<1>8. QED BY <1>1, <1>2, <1>3, <1>4, <1>5, <1>6, <1>7 DEF Hosts

LEMMA AskedServer ==
    ASSUME pos \in 1 .. 2
    PROVE  Order[pos] \in Hosts
BY OrderFacts DEF Hosts

LEMMA LicenceNumbers ==
    ASSUME scenario \in Scenarios
    PROVE  /\ Lic.from \in Nat /\ Lic.to \in Nat /\ Lic.DomainNum \in Nat
           /\ \A line \in Lic.domains : line.from \in Nat /\ line.to \in Nat
           /\ \A d \in scenario.domains : d \in Seq(STRING)
BY ScenarioAssumption DEF Lic

LEMMA FreshTyped ==
    Fresh \in Process /\ NewSvr \in Server
<1>1. Fresh \in Process
    BY DEF Fresh, Process
<1>2. NewSvr \in Server
    BY DEF NewSvr, Server, NotSet
<1>3. QED BY <1>1, <1>2

LEMMA KnownTyped ==
    ASSUME Types
    PROVE  /\ Known \in Process /\ Known.init /\ Known.cmptime = file.stamp /\ Known.num = 0
           /\ Known.plain => file.text = "whole" /\ Known.dnk = make_domain_link(Lic, today)
<1>1. make_domain_link(Lic, today) \subseteq {line.name : line \in Lic.domains}
    BY DEF make_domain_link
<1>2. file.stamp \in Nat
    BY DEF Types
<1>3. QED BY <1>1, <1>2 DEF Known, Process

LEMMA NextCases ==
    ASSUME [Next]_vars
    PROVE  \/ Start \/ Stop \/ NextSection
           \/ \E d \in 1 .. MaxDay : SetClock(d)
           \/ DayPasses
           \/ \E f, v : SetDirective(f, v)
           \/ \E n : use_table(n)
           \/ \E f \in scenario.svrFields, v \in {0, 1} : SetSvrDirective(f, v)
           \/ \E d \in scenario.domains, kind \in scenario.kinds : ConvertDomain(d, kind)
           \/ ReadLicense \/ ReadOnlyLicense \/ WriteLicense \/ CheckDomain \/ CheckPrefix
           \/ \E left \in {"empty", "cut", "whole"} : Killed(left) \/ WriteFails(left)
           \/ FixupVirtualHost \/ LoadTables \/ TableMissing
           \/ \E s, sections : Request(s, sections)
           \/ \E i : MergeSections(i)
           \/ Served
           \/ UNCHANGED vars
BY DEF Next

-----------------------------------------------------------------------------
(* The types *)

LEMMA TypesInit ==
    ASSUME Init
    PROVE  Types
<1>1. today \in Nat /\ since \in Nat
    BY DayAssumption DEF Init
<1>2. svr \in [Hosts -> Server]
    BY OrderFacts, FreshTyped DEF Init
<1>3. process \in Process
    BY FreshTyped DEF Init
<1>4. file \in [text : {"empty", "cut", "whole"}, stamp : Nat]
    BY DEF Init
<1>5. QED BY <1>1, <1>2, <1>3, <1>4 DEF Init, Types

\* The actions that leave the licence and the servers alone.
LEMMA QuietTyped ==
    ASSUME Types,
           \/ Start \/ NextSection
           \/ \E d \in 1 .. MaxDay : SetClock(d)
           \/ DayPasses
           \/ \E f, v : SetDirective(f, v)
           \/ \E n : use_table(n)
           \/ LoadTables \/ TableMissing
           \/ \E s, sections : Request(s, sections)
           \/ \E i : MergeSections(i)
           \/ Served
    PROVE  Types'
<1>1. /\ scenario' = scenario /\ svr' = svr /\ process' = process /\ file' = file
      /\ phase' \in {"down", "config", "truncated", "fixed", "up", "request", "exited"}
    BY DEF Types, Start, NextSection, SetClock, DayPasses, SetDirective, use_table, LoadTables,
           TableMissing, Request, MergeSections, Served, conf, clock, Reading
<1>2. today' \in Nat /\ since' \in Nat
    <2>1. CASE \E d \in 1 .. MaxDay : SetClock(d)
        BY <2>1, DayAssumption DEF SetClock, Types
    <2>2. CASE DayPasses
        BY <2>2 DEF DayPasses, Types
    <2>3. CASE today' = today /\ since' \in {since, today}
        BY <2>3 DEF Types
    <2>4. QED BY <2>1, <2>2, <2>3 DEF Start, NextSection, SetDirective, use_table, LoadTables,
                     TableMissing, Request, MergeSections, Served, clock
<1>3. lastRead' \in Nat
    BY DEF Types, Start, NextSection, SetClock, DayPasses, SetDirective, use_table,
           LoadTables, TableMissing, Request, MergeSections, Served, clock
<1>4. /\ pos' \in 1 .. 5
      /\ asked' # NULL /\ asked'.what = "domain" =>
              asked'.domain \in scenario'.domains /\ pos' \in 1 .. 2
    <2>1. CASE NextSection
        BY <2>1, OrderFacts DEF Types, NextSection, Reading
    <2>2. CASE \E f, v : SetDirective(f, v)
        BY <2>2 DEF Types, SetDirective
    <2>3. CASE \/ Start
               \/ \E d \in 1 .. MaxDay : SetClock(d)
               \/ DayPasses
               \/ \E n : use_table(n)
               \/ LoadTables \/ TableMissing
               \/ \E s, sections : Request(s, sections)
               \/ \E i : MergeSections(i)
               \/ Served
        BY <2>3, <1>1 DEF Types, Start, SetClock, DayPasses, use_table, LoadTables, TableMissing,
               Request, MergeSections, Served, conf
    <2>4. QED BY <2>1, <2>2, <2>3
<1>5. Server' = Server /\ Process' = Process
    BY <1>1 DEF Server, Process, Lic
<1>6. QED BY <1>1, <1>2, <1>3, <1>4, <1>5 DEF Types

LEMMA LicenceTyped ==
    ASSUME Types,
           ReadLicense \/ ReadOnlyLicense \/ WriteLicense \/ CheckPrefix
           \/ \E left \in {"empty", "cut", "whole"} : Killed(left) \/ WriteFails(left)
    PROVE  Types'
<1>1. /\ scenario' = scenario /\ svr' = svr /\ pos' = pos
      /\ today' = today /\ since' = since /\ lastRead' = lastRead
    BY DEF ReadLicense, ReadOnlyLicense, WriteLicense, CheckPrefix, Killed, WriteFails, conf, clock
<1>2. process' \in Process
    BY KnownTyped DEF Types, ReadLicense, ReadOnlyLicense, WriteLicense, CheckPrefix, Killed, WriteFails
<1>3. file' \in [text : {"empty", "cut", "whole"}, stamp : Nat]
    BY DEF Types, ReadLicense, ReadOnlyLicense, WriteLicense, CheckPrefix, Killed, WriteFails, clock
<1>4. /\ phase' \in {"down", "config", "truncated", "fixed", "up", "request", "exited"}
      /\ asked' # NULL => asked' = asked
    BY DEF Types, ReadLicense, ReadOnlyLicense, WriteLicense, CheckPrefix, Killed, WriteFails, Exit
<1>5. Server' = Server /\ Process' = Process
    BY <1>1 DEF Server, Process, Lic
<1>6. QED BY <1>1, <1>2, <1>3, <1>4, <1>5 DEF Types

LEMMA StopTyped ==
    ASSUME Types, Stop
    PROVE  Types'
<1>1. /\ scenario' = scenario /\ today' = today /\ since' = since
      /\ lastRead' = lastRead /\ file' = file
      /\ phase' = "down" /\ pos' = 1 /\ asked' = NULL
      /\ process' = Fresh /\ svr' = [s \in Hosts |-> NewSvr]
    BY OrderFacts DEF Stop, clock
<1>2. Server' = Server /\ Process' = Process
    BY <1>1 DEF Server, Process, Lic
<1>3. QED BY <1>1, <1>2, FreshTyped DEF Types

LEMMA SetSvrDirectiveTyped ==
    ASSUME Types, NEW f \in scenario.svrFields, NEW v \in {0, 1}, SetSvrDirective(f, v)
    PROVE  Types'
<1>1. /\ scenario' = scenario /\ today' = today /\ since' = since
      /\ lastRead' = lastRead /\ file' = file
      /\ phase' = phase /\ pos' = pos /\ asked' = asked /\ process' = process
      /\ pos \in 1 .. 2
      /\ svr' = [svr EXCEPT ![Order[pos]].f[f] = v]
    BY OrderFacts DEF SetSvrDirective, clock, Types
<1>2. Server' = Server /\ Process' = Process
    BY <1>1 DEF Server, Process, Lic
<1>3. svr' \in [Hosts -> Server]
    <2> DEFINE h == Order[pos]
    <2>1. h \in Hosts /\ svr[h] \in Server
        BY <1>1, AskedServer DEF Types
    <2>2. [svr[h].f EXCEPT ![f] = v] \in [scenario.svrFields -> {-1, 0, 1}]
        BY <2>1 DEF Server
    <2>3. [svr[h] EXCEPT !.f = [svr[h].f EXCEPT ![f] = v]] \in Server
        BY <2>1, <2>2 DEF Server
    <2>4. svr' = [svr EXCEPT ![h] = [svr[h] EXCEPT !.f = [svr[h].f EXCEPT ![f] = v]]]
        BY <1>1, <2>1 DEF Types
    <2> HIDE DEF h
    <2>5. QED BY <2>1, <2>3, <2>4 DEF Types
<1>4. QED BY <1>1, <1>2, <1>3 DEF Types

LEMMA ConvertDomainTyped ==
    ASSUME Types, NEW d \in scenario.domains, NEW kind \in scenario.kinds,
           ConvertDomain(d, kind)
    PROVE  /\ Types' /\ \A s \in Hosts : svr'[s].allowed = svr[s].allowed
                                        /\ svr'[s].nYesDomain = svr[s].nYesDomain
<1>1. /\ scenario' = scenario /\ today' = today /\ since' = since
      /\ lastRead' = lastRead /\ file' = file
      /\ phase' = phase /\ pos' = pos /\ process' = process
      /\ pos \in 1 .. 2
      /\ asked' # NULL => asked' = [what |-> "domain", domain |-> d]
    BY OrderFacts DEF ConvertDomain, clock, Types
<1>2. Server' = Server /\ Process' = Process
    BY <1>1 DEF Server, Process, Lic
<1> DEFINE h == Order[pos]
<1>3. h \in Hosts /\ svr[h] \in Server /\ svr \in [Hosts -> Server]
    BY <1>1, AskedServer DEF Types
<1>4. \/ svr' = [svr EXCEPT ![h] = [svr[h] EXCEPT !.exclude = @ \cup {d}]]
      \/ svr' = [svr EXCEPT ![h] = [svr[h] EXCEPT !.friendly = @ \cup {d}]]
      \/ svr' = svr
    <2>1. \/ svr' = [svr EXCEPT ![h].exclude = @ \cup {d}]
          \/ svr' = [svr EXCEPT ![h].friendly = @ \cup {d}]
          \/ svr' = svr
        <3>1. kind \in {"convert", "exclude", "friendly"}
            BY ScenarioAssumption DEF Types
        <3>2. QED BY <3>1 DEF ConvertDomain
    <2>2. QED BY <2>1, <1>3
<1>5. /\ [svr[h] EXCEPT !.exclude = @ \cup {d}] \in Server
      /\ [svr[h] EXCEPT !.exclude = @ \cup {d}].allowed = svr[h].allowed
      /\ [svr[h] EXCEPT !.exclude = @ \cup {d}].nYesDomain = svr[h].nYesDomain
    BY <1>3 DEF Server
<1>6. /\ [svr[h] EXCEPT !.friendly = @ \cup {d}] \in Server
      /\ [svr[h] EXCEPT !.friendly = @ \cup {d}].allowed = svr[h].allowed
      /\ [svr[h] EXCEPT !.friendly = @ \cup {d}].nYesDomain = svr[h].nYesDomain
    BY <1>3 DEF Server
<1> HIDE DEF h
<1>7. /\ svr' \in [Hosts -> Server]
      /\ \A s \in Hosts : svr'[s].allowed = svr[s].allowed /\ svr'[s].nYesDomain = svr[s].nYesDomain
    BY <1>3, <1>4, <1>5, <1>6
<1>8. Types'
    BY <1>1, <1>2, <1>7 DEF Types
<1>9. QED BY <1>7, <1>8

\* The record of a server once domain d is let in.
LetIn(s, d) ==
    [s EXCEPT !.allowed = s.allowed \cup {d}, !.nYesDomain = s.nYesDomain + 1]

LEMMA LetInFacts ==
    ASSUME NEW s \in Server, NEW d \in scenario.domains
    PROVE  /\ LetIn(s, d) \in Server
           /\ LetIn(s, d).allowed = s.allowed \cup {d}
           /\ LetIn(s, d).nYesDomain = s.nYesDomain + 1
<1>1. s.allowed \cup {d} \in SUBSET scenario.domains /\ s.nYesDomain + 1 \in Nat
    BY DEF Server
<1> DEFINE a == s.allowed \cup {d}
           n == s.nYesDomain + 1
<1>2. LetIn(s, d) = [s EXCEPT !.allowed = a, !.nYesDomain = n]
    BY DEF LetIn
<1>3. a \in SUBSET scenario.domains /\ n \in Nat
    BY <1>1
<1> HIDE DEF a, n
<1>4. LetIn(s, d) \in Server /\ LetIn(s, d).allowed = a /\ LetIn(s, d).nYesDomain = n
    BY <1>2, <1>3 DEF Server
<1>5. QED BY <1>4 DEF a, n

\* A domain that is let in: what the two records become.
LEMMA Accepted ==
    ASSUME Types, CheckDomain, phase' # "exited"
    PROVE  /\ process.init /\ process.plain /\ ~WrongLicense(Lic, process.dnk)
           /\ CheckLicense(Lic, process.dnk, asked.domain, process.num, process.cmptime, today)
           /\ process' = [process EXCEPT !.num = @ + Counts(Lic, process.dnk)]
           /\ phase' = phase /\ asked' = NULL
           /\ asked.domain \in scenario.domains /\ Order[pos] \in Hosts
           /\ svr' = [svr EXCEPT ![Order[pos]] = LetIn(svr[Order[pos]], asked.domain)]
<1>1. asked # NULL /\ asked.what = "domain" /\ process.init
    BY DEF CheckDomain, Checking
<1>2. asked.domain \in scenario.domains /\ Order[pos] \in Hosts
    BY <1>1, AskedServer DEF Types
<1> DEFINE h == Order[pos]
<1>3. /\ process.plain /\ ~WrongLicense(Lic, process.dnk)
      /\ CheckLicense(Lic, process.dnk, asked.domain, process.num, process.cmptime, today)
      /\ process' = [process EXCEPT !.num = @ + Counts(Lic, process.dnk)]
      /\ phase' = phase /\ asked' = NULL
      /\ svr' = [svr EXCEPT ![h].allowed = @ \cup {asked.domain}, ![h].nYesDomain = @ + 1]
    BY DEF CheckDomain, Exit
<1>4. svr' = [svr EXCEPT ![h] = LetIn(svr[h], asked.domain)]
    <2>1. svr \in [Hosts -> Server] /\ h \in Hosts
        BY <1>2 DEF Types
    <2> HIDE DEF h
    <2>2. QED BY <1>3, <2>1 DEF LetIn
<1>5. QED BY <1>1, <1>2, <1>3, <1>4

LEMMA Rejected ==
    ASSUME CheckDomain, phase' = "exited"
    PROVE  asked' = NULL /\ UNCHANGED <<process, svr>>
BY DEF CheckDomain, Exit, Checking

LEMMA CheckDomainTyped ==
    ASSUME Types, CheckDomain
    PROVE  Types'
<1>1. /\ scenario' = scenario /\ today' = today /\ since' = since
      /\ lastRead' = lastRead /\ file' = file
      /\ pos' = pos
    BY DEF CheckDomain, clock
<1>2. Server' = Server /\ Process' = Process
    BY <1>1 DEF Server, Process, Lic
<1>3. CASE phase' = "exited"
    BY <1>1, <1>2, <1>3, Rejected DEF Types
<1>4. CASE phase' # "exited"
    <2>1. process' \in Process
        <3>1. Counts(Lic, process.dnk) \in Nat
            BY DEF Counts
        <3>2. QED BY <1>4, <3>1, Accepted DEF Types, Process
    <2>2. svr' \in [Hosts -> Server]
        <3> DEFINE h == Order[pos]
                   new == LetIn(svr[h], asked.domain)
        <3>1. h \in Hosts /\ asked.domain \in scenario.domains /\ svr \in [Hosts -> Server]
            BY <1>4, Accepted DEF Types
        <3>2. svr[h] \in Server
            BY <3>1
        <3>3. new \in Server
            BY <3>1, <3>2, LetInFacts
        <3>4. svr' = [svr EXCEPT ![h] = new]
            BY <1>4, <3>1, Accepted
        <3> HIDE DEF h, new
        <3>5. QED BY <3>1, <3>3, <3>4
    <2>3. phase' = phase /\ asked' = NULL
        BY <1>4, Accepted
    <2>4. QED BY <1>1, <1>2, <2>1, <2>2, <2>3 DEF Types
<1>5. QED BY <1>3, <1>4

LEMMA MergeField01 ==
    ASSUME NEW b \in [scenario.svrFields -> {-1, 0, 1}],
           NEW o \in [scenario.svrFields -> {-1, 0, 1}], NEW f \in scenario.svrFields
    PROVE  MergeSvrField(b, o, f) \in {-1, 0, 1}
BY DEF MergeSvrField

\* The merge of the virtual host takes either server's domains whole.
LEMMA Merged ==
    ASSUME Types, FixupVirtualHost
    PROVE  /\ MergeSvr(svr["main"], svr["vhost"]) \in Server
           /\ svr' \in [Hosts -> Server] /\ svr'["main"] = svr["main"]
           /\ \E s \in Hosts : /\ svr'["vhost"].allowed = svr[s].allowed
                              /\ svr'["vhost"].nYesDomain = svr[s].nYesDomain
           /\ phase' = "fixed" => svr'["vhost"].nYesDomain > 0
<1> DEFINE b == svr["main"]
           o == svr["vhost"]
           m == MergeSvr(b, o)
<1>1. b \in Server /\ o \in Server /\ svr \in [Hosts -> Server]
    BY DEF Types, Hosts
<1>2. m.f \in [scenario.svrFields -> {-1, 0, 1}]
    BY <1>1, MergeField01 DEF MergeSvr, Server
<1>3. /\ m.allowed \in SUBSET scenario.domains /\ m.exclude \in SUBSET scenario.domains
      /\ m.friendly \in SUBSET scenario.domains /\ m.nYesDomain \in Nat
    BY <1>1 DEF MergeSvr, Server
<1>4. m \in Server
    <2>1. m = [f |-> m.f, allowed |-> m.allowed, exclude |-> m.exclude, friendly |-> m.friendly,
               nYesDomain |-> m.nYesDomain]
        BY DEF MergeSvr
    <2> HIDE DEF m
    <2>2. QED BY <1>2, <1>3, <2>1 DEF Server
<1>5. \E s \in Hosts : m.allowed = svr[s].allowed /\ m.nYesDomain = svr[s].nYesDomain
    BY DEF MergeSvr, Hosts
<1>6. svr' = [svr EXCEPT !["vhost"] = m] /\ (phase' = "fixed" => ~(m.nYesDomain < 1))
    BY DEF FixupVirtualHost
<1>7. m.nYesDomain \in Nat
    BY <1>3
<1> HIDE DEF m
<1>8. /\ svr' \in [Hosts -> Server] /\ svr'["main"] = svr["main"] /\ svr'["vhost"] = m
    BY <1>1, <1>4, <1>6 DEF Hosts
<1>9. QED BY <1>4, <1>5, <1>6, <1>7, <1>8 DEF m

LEMMA FixupTyped ==
    ASSUME Types, FixupVirtualHost
    PROVE  Types'
<1>1. /\ scenario' = scenario /\ today' = today /\ since' = since
      /\ lastRead' = lastRead /\ file' = file
      /\ process' = process /\ pos' = pos /\ asked' = asked
      /\ phase' \in {"exited", "fixed"}
    BY DEF FixupVirtualHost, clock
<1>2. Server' = Server /\ Process' = Process
    BY <1>1 DEF Server, Process, Lic
<1>3. QED BY <1>1, <1>2, Merged DEF Types

LEMMA TypesStep ==
    ASSUME Types, [Next]_vars
    PROVE  Types'
<1>1. CASE UNCHANGED vars
    <2>1. Server' = Server /\ Process' = Process
        BY <1>1 DEF Server, Process, Lic, vars
    <2>2. QED BY <1>1, <2>1 DEF Types, vars, clock, conf
<1>2. CASE ~UNCHANGED vars
    BY <1>2, NextCases, QuietTyped, LicenceTyped, StopTyped, SetSvrDirectiveTyped,
       ConvertDomainTyped, CheckDomainTyped, FixupTyped
<1>3. QED BY <1>1, <1>2

-----------------------------------------------------------------------------
(* The steps, by what they do to the licence and to the domains let in *)

Keeps ==
    /\ UNCHANGED <<scenario, today, since, file, lastRead, cutShort, process>>
    /\ \A s \in Hosts : svr'[s].allowed = svr[s].allowed /\ svr'[s].nYesDomain = svr[s].nYesDomain
    /\ phase' = "down" => phase = "down" /\ svr' = svr
    /\ \/ phase' = phase
       \/ phase = "fixed" /\ phase' = "exited"
       \/ phase = "config" /\ phase' = "exited"
       \/ phase = "up" /\ phase' = "request"
       \/ phase = "request" /\ phase' = "up"

\* A day ends, or the clock is set.
TimeMoves ==
    /\ UNCHANGED <<scenario, since, file, lastRead, cutShort, process, svr, phase>>
    /\ phase \in {"down", "up"}

LEMMA StepKinds ==
    ASSUME Types, [Next]_vars
    PROVE  \/ Keeps
           \/ Start \/ Stop
           \/ TimeMoves
           \/ ReadLicense \/ ReadOnlyLicense \/ WriteLicense
           \/ \E left \in {"empty", "cut", "whole"} : Killed(left) \/ WriteFails(left)
           \/ CheckDomain /\ phase' # "exited"
           \/ FixupVirtualHost \/ LoadTables
<1>1. CASE \/ NextSection
           \/ \E f, v : SetDirective(f, v)
           \/ \E n : use_table(n)
           \/ CheckPrefix \/ TableMissing
           \/ \E s, sections : Request(s, sections)
           \/ \E i : MergeSections(i)
           \/ Served
           \/ UNCHANGED vars
    <2>1. /\ UNCHANGED <<scenario, today, since, file, lastRead, cutShort, process, svr>>
        BY <1>1 DEF NextSection, SetDirective, use_table, CheckPrefix, TableMissing, Request,
               MergeSections, Served, vars, clock, conf
    <2>2. /\ phase' = "down" => phase = "down"
          /\ \/ phase' = phase
             \/ phase = "fixed" /\ phase' = "exited"
             \/ phase = "config" /\ phase' = "exited"
             \/ phase = "up" /\ phase' = "request"
             \/ phase = "request" /\ phase' = "up"
        BY <1>1 DEF NextSection, SetDirective, use_table, CheckPrefix, TableMissing, Checking, Exit,
               Request, MergeSections, Served, vars
    <2>3. QED BY <2>1, <2>2 DEF Keeps
<1>2. ASSUME NEW f \in scenario.svrFields, NEW v \in {0, 1}, SetSvrDirective(f, v)
      PROVE  Keeps
    <2>1. /\ UNCHANGED <<scenario, today, since, file, lastRead, cutShort, process, phase>>
          /\ phase = "config" /\ pos \in 1 .. 2
          /\ svr' = [svr EXCEPT ![Order[pos]].f[f] = v]
        BY <1>2, OrderFacts DEF SetSvrDirective, clock, Types, Reading
    <2> DEFINE h == Order[pos]
    <2>2. h \in Hosts /\ svr \in [Hosts -> Server]
        BY <2>1, AskedServer DEF Types
    <2>3. \A s \in Hosts : svr[s] \in Server
        BY <2>2
    <2> HIDE DEF h
    <2>4. ASSUME NEW s \in Hosts
          PROVE  svr'[s].allowed = svr[s].allowed /\ svr'[s].nYesDomain = svr[s].nYesDomain
        <3>1. svr' = [svr EXCEPT ![h].f[f] = v]
            BY <2>1 DEF h
        <3>2. CASE s # h
            BY <2>2, <3>1, <3>2
        <3>3. CASE s = h
            <4>1. svr'[s] = [svr[s] EXCEPT !.f[f] = v]
                BY <2>2, <3>1, <3>3
            <4>2. QED BY <2>3, <4>1 DEF Server
        <3>4. QED BY <3>2, <3>3
    <2>5. QED BY <2>1, <2>4 DEF Keeps
<1>3. ASSUME NEW d \in scenario.domains, NEW kind \in scenario.kinds, ConvertDomain(d, kind)
      PROVE  Keeps
    <2>1. /\ UNCHANGED <<scenario, today, since, file, lastRead, cutShort, process, phase>>
          /\ phase = "config"
        BY <1>3 DEF ConvertDomain, clock, Reading
    <2>2. QED BY <1>3, <2>1, ConvertDomainTyped DEF Keeps
<1>4. CASE CheckDomain /\ phase' = "exited"
    <2>1. /\ UNCHANGED <<scenario, today, since, file, lastRead, cutShort>>
          /\ phase = "config"
        BY <1>4 DEF CheckDomain, Checking, clock
    <2>2. QED BY <1>4, <2>1, Rejected DEF Keeps
<1>5. CASE DayPasses \/ \E d \in 1 .. MaxDay : SetClock(d)
    BY <1>5 DEF TimeMoves, DayPasses, SetClock, conf
<1>6. QED BY <1>1, <1>2, <1>3, <1>4, <1>5, NextCases

LEMMA Loaded ==
    ASSUME LoadTables
    PROVE  /\ UNCHANGED <<scenario, today, since, file, cutShort, process, svr>>
           /\ phase = "fixed" /\ phase' = "up"
           /\ lastRead' = IF timelock THEN today ELSE lastRead
BY DEF LoadTables

LEMMA Fixed ==
    ASSUME FixupVirtualHost
    PROVE  /\ UNCHANGED <<scenario, today, since, file, lastRead, cutShort, process>>
           /\ phase = "config" /\ phase' \in {"exited", "fixed"}
BY DEF FixupVirtualHost, Reading, clock

LEMMA Stopped ==
    ASSUME Stop
    PROVE  /\ UNCHANGED <<scenario, today, since, file, lastRead, cutShort>>
           /\ phase \in {"up", "exited"} /\ phase' = "down"
           /\ process' = Fresh /\ \A s \in Hosts : svr'[s] = NewSvr
<1>1. svr' = [s \in Hosts |-> NewSvr]
    BY OrderFacts DEF Stop
<1>2. QED BY <1>1 DEF Stop, clock

LEMMA Started ==
    ASSUME Start
    PROVE  /\ UNCHANGED <<scenario, today, file, lastRead, cutShort, process, svr>>
           /\ phase = "down" /\ phase' = "config" /\ since' = today
BY DEF Start, conf

LEMMA WasCut ==
    ASSUME NEW left, Killed(left) \/ WriteFails(left)
    PROVE  /\ UNCHANGED <<scenario, today, since, lastRead, process, svr>>
           /\ phase = "truncated" /\ phase' \in {"exited", "config"} /\ cutShort'
BY DEF Killed, WriteFails, conf

LEMMA Written ==
    ASSUME WriteLicense
    PROVE  /\ UNCHANGED <<scenario, today, since, lastRead, cutShort, process, svr>>
           /\ phase = "truncated" /\ phase' = "config"
           /\ file'.text = "whole" /\ file'.stamp = today
BY DEF WriteLicense, conf

LEMMA LicenceRead ==
    ASSUME ReadLicense \/ ReadOnlyLicense
    PROVE  /\ UNCHANGED <<scenario, today, since, lastRead, cutShort, svr>>
           /\ phase = "config" /\ ~process.init
           /\ process' = Known
           /\ \/ file' = file /\ phase' = "exited"
              \/ /\ file.text = "whole" /\ timelock /\ file.stamp < today
                 /\ phase' = "truncated"
              \/ /\ ~(file.text = "whole" /\ timelock /\ file.stamp < today)
                 /\ file.text # "empty"
                 /\ file' = file /\ phase' = phase
BY DEF ReadLicense, ReadOnlyLicense, clock, conf, Exit

LEMMA Accepts ==
    ASSUME Types, CheckDomain, phase' # "exited"
    PROVE  /\ UNCHANGED <<scenario, today, since, file, lastRead, cutShort, phase>>
           /\ phase = "config"
           /\ process'.init = process.init /\ process'.plain = process.plain
           /\ process'.cmptime = process.cmptime /\ process'.dnk = process.dnk
           /\ process'.num = process.num + Counts(Lic, process.dnk)
<1>1. UNCHANGED <<scenario, today, since, file, lastRead, cutShort>> /\ phase = "config"
    BY DEF CheckDomain, Checking, clock
<1>2. process' = [process EXCEPT !.num = process.num + Counts(Lic, process.dnk)] /\ phase' = phase
    BY Accepted
<1>3. process \in Process
    BY DEF Types
<1>4. /\ process'.init = process.init /\ process'.plain = process.plain
      /\ process'.cmptime = process.cmptime /\ process'.dnk = process.dnk
      /\ process'.num = process.num + Counts(Lic, process.dnk)
    BY <1>2, <1>3 DEF Process
<1>5. QED BY <1>1, <1>2, <1>4

-----------------------------------------------------------------------------
(* The invariant, part by part *)

LEMMA DownStep ==
    ASSUME Types, DownIsFresh, [Next]_vars
    PROVE  DownIsFresh'
<1>1. CASE Stop
    BY <1>1, Stopped DEF DownIsFresh, NewSvr
<1>2. CASE TimeMoves
    BY <1>2 DEF TimeMoves, DownIsFresh, NewSvr
<1>3. CASE Keeps
    BY <1>3 DEF Keeps, DownIsFresh, NewSvr
<1>4. CASE phase' # "down"
    BY <1>4 DEF DownIsFresh
<1>5. CASE CheckDomain /\ phase' # "exited"
    BY <1>4, <1>5, Accepts
<1>6. CASE ReadLicense \/ ReadOnlyLicense
    BY <1>4, <1>6, LicenceRead
<1>7. CASE WriteLicense
    BY <1>4, <1>7, Written
<1>8. CASE \E left \in {"empty", "cut", "whole"} : Killed(left) \/ WriteFails(left)
    BY <1>4, <1>8, WasCut
<1>9. CASE Start \/ FixupVirtualHost \/ LoadTables
    BY <1>4, <1>9, Started, Fixed, Loaded
<1>10. QED BY <1>1, <1>2, <1>3, <1>5, <1>6, <1>7, <1>8, <1>9, StepKinds

LEMMA SameDayStep ==
    ASSUME Types, SameDay, [Next]_vars
    PROVE  SameDay'
<1>1. CASE Keeps
    BY <1>1 DEF Keeps, SameDay
<1>2. CASE Start
    BY <1>2, Started DEF SameDay
<1>3. CASE TimeMoves
    BY <1>3 DEF TimeMoves, SameDay
<1>4. CASE ReadLicense \/ ReadOnlyLicense \/ WriteLicense
    BY <1>4, LicenceRead, Written DEF SameDay
<1>5. CASE \E left \in {"empty", "cut", "whole"} : Killed(left) \/ WriteFails(left)
    BY <1>5, WasCut DEF SameDay
<1>6. CASE CheckDomain /\ phase' # "exited"
    BY <1>6, Accepts DEF SameDay
<1>7. CASE Stop \/ FixupVirtualHost \/ LoadTables
    BY <1>7, Stopped, Fixed, Loaded DEF SameDay
<1>8. QED BY <1>1, <1>2, <1>3, <1>4, <1>5, <1>6, <1>7, StepKinds

LEMMA SurvivesStep ==
    ASSUME Types, LicenceSurvives, [Next]_vars
    PROVE  LicenceSurvives'
<1>1. CASE Keeps
    BY <1>1 DEF Keeps, LicenceSurvives
<1>2. CASE Start \/ Stop
    BY <1>2, Started, Stopped DEF LicenceSurvives
<1>3. CASE TimeMoves
    BY <1>3 DEF TimeMoves, LicenceSurvives
<1>4. CASE ReadLicense \/ ReadOnlyLicense
    BY <1>4, LicenceRead DEF LicenceSurvives
<1>5. CASE WriteLicense
    BY <1>5, Written DEF LicenceSurvives
<1>6. CASE \E left \in {"empty", "cut", "whole"} : Killed(left) \/ WriteFails(left)
    BY <1>6, WasCut DEF LicenceSurvives
<1>7. CASE CheckDomain /\ phase' # "exited"
    BY <1>7, Accepts DEF LicenceSurvives
<1>8. CASE FixupVirtualHost \/ LoadTables
    BY <1>8, Fixed, Loaded DEF LicenceSurvives
<1>9. QED BY <1>1, <1>2, <1>3, <1>4, <1>5, <1>6, <1>7, <1>8, StepKinds

LEMMA StampsStep ==
    ASSUME Types, DownIsFresh, SameDay, LicenceSurvives, Stamps, InDays, Opened, [Next]_vars
    PROVE  Stamps'
<1>1. since \in Nat /\ lastRead \in Nat /\ file.stamp \in Nat /\ process.cmptime \in Nat
    BY DEF Types, Process
<1>2. scenario' = scenario => timelock' = timelock
    BY DEF timelock, Lic
<1>3. ~Fresh.init
    BY DEF Fresh
<1>4. CASE Keeps
    BY <1>2, <1>3, <1>4 DEF Keeps, Stamps, DownIsFresh
<1>5. CASE Start \/ Stop
    BY <1>2, <1>3, <1>5, Started, Stopped DEF Stamps, DownIsFresh
<1>6. CASE TimeMoves
    BY <1>2, <1>3, <1>6 DEF TimeMoves, Stamps, DownIsFresh
<1>7. CASE ReadLicense \/ ReadOnlyLicense
    <2>1. process'.init /\ process'.cmptime = file.stamp
        BY <1>7, LicenceRead, KnownTyped
    <2>2. SUFFICES ASSUME timelock, ~cutShort
                   PROVE  Stamps'
        BY <1>2, <1>7, LicenceRead DEF Stamps
    <2>3. file.text = "whole"
        BY <1>7, <2>2, LicenceRead DEF LicenceSurvives
    <2>4. lastRead <= file.stamp /\ since = today
        BY <1>7, <2>2, LicenceRead DEF Stamps, SameDay
    <2>5. CASE file.stamp < since
        BY <1>1, <1>2, <1>7, <2>1, <2>3, <2>4, <2>5, <2>2, LicenceRead DEF Stamps
    <2>6. CASE ~(file.stamp < since)
        BY <1>1, <1>2, <1>7, <2>1, <2>3, <2>4, <2>6, <2>2, LicenceRead DEF Stamps
    <2>7. QED BY <2>5, <2>6
<1>8. CASE WriteLicense
    <2>1. SUFFICES ASSUME timelock, ~cutShort
                   PROVE  Stamps'
        BY <1>2, <1>8, Written DEF Stamps
    <2>2. process.init /\ process.cmptime < since /\ lastRead <= process.cmptime
        BY <1>8, <2>1, Written DEF Stamps
    <2>3. lastRead <= since /\ since <= since /\ since = today
        BY <1>1, <1>8, <2>2, Written DEF SameDay
    <2>4. QED BY <1>2, <1>8, <2>1, <2>2, <2>3, Written DEF Stamps
<1>9. CASE \E left \in {"empty", "cut", "whole"} : Killed(left) \/ WriteFails(left)
    BY <1>2, <1>9, WasCut DEF Stamps
<1>10. CASE CheckDomain /\ phase' # "exited"
    BY <1>2, <1>10, Accepts DEF Stamps
<1>11. CASE FixupVirtualHost
    BY <1>2, <1>11, Fixed DEF Stamps
<1>12. CASE LoadTables
    <2>1. SUFFICES ASSUME timelock, ~cutShort
                   PROVE  Stamps'
        BY <1>2, <1>12, Loaded DEF Stamps
    <2>2. process.init /\ since = today
        BY <1>12, Loaded DEF Opened, InDays, SameDay
    <2>3. QED BY <1>1, <1>2, <1>12, <2>1, <2>2, Loaded DEF Stamps
<1>13. QED BY <1>4, <1>5, <1>6, <1>7, <1>8, <1>9, <1>10, <1>11, <1>12, StepKinds

LEMMA InDaysStep ==
    ASSUME Types, DownIsFresh, SameDay, InDays, [Next]_vars
    PROVE  InDays'
<1>1. since \in Nat /\ process.cmptime \in Nat
    BY DEF Types, Process
<1>2. scenario' = scenario => timelock' = timelock
    BY DEF timelock, Lic
<1>3. NewSvr.nYesDomain = 0
    BY DEF NewSvr
<1>4. CASE Keeps
    BY <1>2, <1>4 DEF Keeps, InDays
<1>5. CASE Start \/ Stop
    BY <1>3, <1>5, Started, Stopped DEF InDays, DownIsFresh
<1>6. CASE TimeMoves
    BY <1>2, <1>6 DEF TimeMoves, InDays
<1>7. CASE ReadLicense \/ ReadOnlyLicense
    BY <1>7, LicenceRead DEF InDays
<1>8. CASE WriteLicense
    BY <1>2, <1>8, Written DEF InDays
<1>9. CASE \E left \in {"empty", "cut", "whole"} : Killed(left) \/ WriteFails(left)
    BY <1>2, <1>9, WasCut DEF InDays
<1>10. CASE CheckDomain /\ phase' # "exited"
    <2>1. process.init /\ (timelock => process.cmptime <= since)
        <3>1. since = today
            BY <1>10, Accepts DEF SameDay
        <3>2. QED BY <1>10, <3>1, Accepted DEF CheckLicense, InTime, timelock
    <2>2. QED BY <1>2, <1>10, <2>1, Accepts DEF InDays
<1>11. CASE FixupVirtualHost
    BY <1>2, <1>11, Fixed, Merged DEF InDays, Hosts
<1>12. CASE LoadTables
    BY <1>2, <1>12, Loaded DEF InDays
<1>13. QED BY <1>4, <1>5, <1>6, <1>7, <1>8, <1>9, <1>10, <1>11, <1>12, StepKinds

LEMMA OpenedStep ==
    ASSUME Types, Opened, [Next]_vars
    PROVE  Opened'
<1>1. CASE FixupVirtualHost
    BY <1>1, Merged DEF Opened, Hosts
<1>2. CASE Keeps
    BY <1>2 DEF Keeps, Opened
<1>3. CASE phase' # "fixed"
    BY <1>3 DEF Opened
<1>4. CASE TimeMoves
    BY <1>3, <1>4 DEF TimeMoves
<1>5. CASE \/ Start \/ Stop \/ ReadLicense \/ ReadOnlyLicense \/ WriteLicense \/ LoadTables
           \/ \E left \in {"empty", "cut", "whole"} : Killed(left) \/ WriteFails(left)
           \/ CheckDomain /\ phase' # "exited"
    BY <1>3, <1>5, Started, Stopped, LicenceRead, Written, Loaded, WasCut, Accepts
<1>6. QED BY <1>1, <1>2, <1>4, <1>5, StepKinds

LEMMA ListStep ==
    ASSUME Types, DownIsFresh, SameDay, ListOfTheDay, [Next]_vars
    PROVE  ListOfTheDay'
<1>1. /\ ~Fresh.init
      /\ scenario' = scenario /\ since' = since =>
            make_domain_link(Lic, since)' = make_domain_link(Lic, since)
    BY DEF Fresh, Lic
<1>2. CASE Keeps
    BY <1>1, <1>2 DEF Keeps, ListOfTheDay
<1>3. CASE Start \/ Stop
    BY <1>1, <1>3, Started, Stopped DEF DownIsFresh, ListOfTheDay
<1>4. CASE TimeMoves
    BY <1>1, <1>4 DEF TimeMoves, DownIsFresh, ListOfTheDay
<1>5. CASE ReadLicense \/ ReadOnlyLicense
    BY <1>1, <1>5, LicenceRead, KnownTyped DEF SameDay, ListOfTheDay
<1>6. CASE \/ WriteLicense \/ FixupVirtualHost \/ LoadTables
           \/ \E left \in {"empty", "cut", "whole"} : Killed(left) \/ WriteFails(left)
    BY <1>1, <1>6, Written, Fixed, Loaded, WasCut DEF ListOfTheDay
<1>7. CASE CheckDomain /\ phase' # "exited"
    BY <1>1, <1>7, Accepts DEF ListOfTheDay
<1>8. QED BY <1>2, <1>3, <1>4, <1>5, <1>6, <1>7, StepKinds

-----------------------------------------------------------------------------
(* What CheckLicense asks, and what it means *)

LEMMA ReverseFacts ==
    ASSUME NEW S, NEW s \in Seq(S)
    PROVE  /\ Reverse(s) \in Seq(S) /\ Len(Reverse(s)) = Len(s)
           /\ \A k \in 1 .. Len(s) : Reverse(s)[k] = s[Len(s) - k + 1]
<1> DEFINE n == Len(s)
           r == [k \in 1 .. n |-> s[n - k + 1]]
<1>1. n \in Nat /\ \A k \in 1 .. n : s[k] \in S
    OBVIOUS
<1> HIDE DEF n
<1>2. \A k \in 1 .. n : n - k + 1 \in 1 .. n
    BY <1>1
<1>3. r \in [1 .. n -> S] /\ \A k \in 1 .. n : r[k] = s[n - k + 1]
    BY <1>1, <1>2
<1>4. Reverse(s) = r
    BY <1>1 DEF Reverse, n
<1> HIDE DEF r
<1>5. r \in Seq(S) /\ Len(r) = n
    BY <1>1, <1>3
<1>6. QED BY <1>3, <1>4, <1>5 DEF n

\* Two sequences agree up to m: their first m elements are the same sequence.
LEMMA SameStart ==
    ASSUME NEW S, NEW s \in Seq(S), NEW t \in Seq(S), NEW m \in Nat,
           m <= Len(s), m <= Len(t), \A k \in 1 .. m : s[k] = t[k]
    PROVE  SubSeq(s, 1, m) = SubSeq(t, 1, m)
<1>1. SubSeq(s, 1, m) = [k \in 1 .. m |-> s[k]]
    OBVIOUS
<1>2. SubSeq(t, 1, m) = [k \in 1 .. m |-> t[k]]
    OBVIOUS
<1>3. QED BY <1>1, <1>2

LEMMA SuffixOf ==
    ASSUME NEW S, NEW d \in Seq(S), NEW i \in DOMAIN d
    PROVE  IsSuffix(SubSeq(d, i, Len(d)), d)
<1> DEFINE n == Len(d)
           t == SubSeq(d, i, n)
           m == Len(t)
<1>1. n \in Nat /\ i \in 1 .. n
    OBVIOUS
<1>2. t \in Seq(S) /\ m = n - i + 1 /\ \A k \in 1 .. n - i + 1 : t[k] = d[i + k - 1]
    BY <1>1, SubSeqProperties
<1> HIDE DEF t
<1>3. m \in Nat /\ m <= n
    BY <1>1, <1>2
<1>4. /\ Reverse(t) \in Seq(S) /\ Len(Reverse(t)) = m
      /\ Reverse(d) \in Seq(S) /\ Len(Reverse(d)) = n
    BY <1>2, ReverseFacts
<1>5. \A k \in 1 .. m : Reverse(t)[k] = Reverse(d)[k]
    <2>1. TAKE k \in 1 .. m
    <2> DEFINE j == m - k + 1
    <2>2. j \in 1 .. n - i + 1 /\ i + j - 1 = n - k + 1 /\ k \in 1 .. n
        BY <1>1, <1>2, <1>3
    <2>3. Reverse(t)[k] = t[j]
        BY <1>2, ReverseFacts
    <2>4. Reverse(d)[k] = d[n - k + 1]
        BY <2>2, ReverseFacts
    <2> HIDE DEF j
    <2>5. t[j] = d[i + j - 1]
        BY <1>2, <2>2
    <2>6. QED BY <2>2, <2>3, <2>4, <2>5
<1> HIDE DEF m, n
<1>6. SubSeq(Reverse(t), 1, m) = SubSeq(Reverse(d), 1, m)
    BY <1>3, <1>4, <1>5, SameStart
<1>7. QED BY <1>3, <1>4, <1>6 DEF IsSuffix, IsPrefix, m, n, t

LEMMA OnTheList ==
    ASSUME scenario \in Scenarios, NEW day \in Nat, NEW d \in scenario.domains,
           check_domain(make_domain_link(Lic, day), d)
    PROVE  Listed(d, day)
<1>1. PICK i \in DOMAIN d : SubSeq(d, i, Len(d)) \in make_domain_link(Lic, day)
    BY DEF check_domain
<1>2. PICK l \in Lic.domains : /\ CheckDomainTime(l, day)
                               /\ SubSeq(d, i, Len(d)) = l.name
    BY <1>1 DEF make_domain_link
<1>3. IsSuffix(l.name, d)
    BY <1>2, SuffixOf, LicenceNumbers
<1>4. l.from # 0 => day \in l.from .. l.to - 1
    BY <1>2, LicenceNumbers DEF CheckDomainTime
<1>5. QED BY <1>3, <1>4 DEF Listed

LEMMA NoneListed ==
    ASSUME scenario \in Scenarios, NEW day \in Nat, NEW e, Listed(e, day)
    PROVE  make_domain_link(Lic, day) # {}
<1>1. PICK l \in Lic.domains : l.from # 0 => day \in l.from .. l.to - 1
    BY DEF Listed
<1>2. CheckDomainTime(l, day)
    BY <1>1, LicenceNumbers DEF CheckDomainTime
<1>3. l.name \in make_domain_link(Lic, day)
    BY <1>2 DEF make_domain_link
<1>4. QED BY <1>3

LEMMA LocalIsHere ==
    ASSUME NEW ip, ip_is_local(ip)
    PROVE  Here(ip)
BY DEF ip_is_local, get_ifi_info, Met, Here

LEMMA AcceptedIsLicensed ==
    ASSUME Types, SameDay, ListOfTheDay, CheckDomain, phase' # "exited"
    PROVE  Licensed(asked.domain)
<1> DEFINE d == asked.domain
           dnk == process.dnk
<1>1. /\ process.init /\ process.plain /\ ~WrongLicense(Lic, dnk)
      /\ CheckLicense(Lic, dnk, d, process.num, process.cmptime, since)
      /\ d \in scenario.domains
    <2>1. since = today
        BY Accepts DEF SameDay
    <2>2. QED BY <2>1, Accepted
<1>2. scenario \in Scenarios /\ since \in Nat /\ dnk = make_domain_link(Lic, since)
    BY <1>1 DEF Types, ListOfTheDay
<1>3. \/ Listed(d, since)
      \/ Lic.kind = "any"
      \/ Lic.UrlPrefix # {} /\ ~\E e \in scenario.domains : Listed(e, since)
    <2>1. CASE Lic.kind = "any"
        BY <2>1
    <2>2. CASE Lic.kind # "any" /\ dnk = {}
        BY <1>1, <1>2, <2>2, NoneListed DEF WrongLicense
    <2>3. CASE Lic.kind # "any" /\ dnk # {}
        BY <1>1, <1>2, <2>3, OnTheList DEF CheckLicense, ByDomain
    <2>4. QED BY <2>1, <2>2, <2>3
<1>4. Lic.kind # "plain" => since \in Lic.from .. Lic.to - 1
    BY <1>1, <1>2, LicenceNumbers DEF CheckLicense, InTime
<1>5. /\ Lic.bindip # NULL => Here(Lic.bindip)
      /\ Lic.alone => Here(Resolve(d))
    BY <1>1, LocalIsHere DEF CheckLicense, RightMachine
<1>6. QED BY <1>1, <1>3, <1>4, <1>5 DEF Licensed

LEMMA LicensedKept ==
    ASSUME NEW d, Licensed(d), scenario' = scenario, since' = since, process'.init = process.init
    PROVE  Licensed(d)'
BY DEF Licensed, Listed, Here, Lic

LEMMA AdmittedStep ==
    ASSUME Types, DownIsFresh, SameDay, ListOfTheDay, Admitted, [Next]_vars
    PROVE  Admitted'
<1>1. NewSvr.allowed = {}
    BY DEF NewSvr
<1>2. CASE Keeps
    BY <1>2, LicensedKept DEF Keeps, Admitted
<1>3. CASE Start \/ Stop
    BY <1>1, <1>3, Started, Stopped DEF Admitted, DownIsFresh
<1>4. CASE TimeMoves
    BY <1>4, LicensedKept DEF TimeMoves, Admitted
<1>5. CASE ReadLicense \/ ReadOnlyLicense
    BY <1>5, LicenceRead DEF Admitted, Licensed
<1>6. CASE \/ WriteLicense \/ LoadTables
           \/ \E left \in {"empty", "cut", "whole"} : Killed(left) \/ WriteFails(left)
    BY <1>6, LicensedKept, Written, Loaded, WasCut DEF Admitted
<1>7. CASE FixupVirtualHost
    BY <1>7, LicensedKept, Fixed, Merged DEF Admitted, Hosts
<1>8. CASE CheckDomain /\ phase' # "exited"
    <2>1. /\ UNCHANGED <<scenario, since>> /\ process'.init = process.init
        BY <1>8, Accepts
    <2>2. ASSUME NEW s \in Hosts, NEW d \in svr'[s].allowed
          PROVE  Licensed(d)
        <3>1. /\ svr' = [svr EXCEPT ![Order[pos]] = LetIn(svr[Order[pos]], asked.domain)]
              /\ Order[pos] \in Hosts /\ asked.domain \in scenario.domains
              /\ svr \in [Hosts -> Server]
            BY <1>8, Accepted DEF Types
        <3> DEFINE h == Order[pos]
        <3>2. svr[h] \in Server
            BY <3>1
        <3>3. LetIn(svr[h], asked.domain).allowed = svr[h].allowed \cup {asked.domain}
            BY <3>1, <3>2, LetInFacts
        <3> HIDE DEF h
        <3>4. \/ svr'[s] = svr[s]
              \/ s = h /\ svr'[s] = LetIn(svr[h], asked.domain)
            BY <3>1 DEF h
        <3>5. d \in svr[s].allowed \/ d = asked.domain
            BY <2>2, <3>3, <3>4
        <3>6. QED BY <1>8, <3>5, AcceptedIsLicensed DEF Admitted
    <2>3. QED BY <2>1, <2>2, LicensedKept DEF Admitted
<1>9. QED BY <1>2, <1>3, <1>4, <1>5, <1>6, <1>7, <1>8, StepKinds

-----------------------------------------------------------------------------
(* The count of the domains *)

LEMMA CountedStep ==
    ASSUME Types, DownIsFresh, SameDay, ListOfTheDay, Admitted, Counted, [Next]_vars
    PROVE  Counted'
<1>1. process.num \in Nat /\ Lic.DomainNum \in Nat
    BY LicenceNumbers DEF Types, Process
<1>2. (\A s \in Hosts : svr'[s].allowed = {}) => Admissions' = {}
    BY DEF Admissions, Hosts
<1>3. IsFiniteSet({}) /\ Cardinality({}) = 0
    BY FS_EmptySet
<1>4. (\A s \in Hosts : svr'[s].allowed = svr[s].allowed) => Admissions' = Admissions
    BY DEF Admissions, Hosts
<1>5. scenario' = scenario => Lic' = Lic
    BY DEF Lic
<1>6. NewSvr.allowed = {} /\ Fresh.num = 0
    BY DEF NewSvr, Fresh
<1>7. CASE Keeps
    BY <1>4, <1>5, <1>7 DEF Keeps, Counted
<1>8. CASE Stop
    <2>1. Admissions' = {} /\ process'.num = 0 /\ Lic' = Lic
        BY <1>2, <1>5, <1>6, <1>8, Stopped
    <2>2. QED BY <1>1, <1>3, <2>1 DEF Counted
<1>9. CASE TimeMoves
    BY <1>4, <1>5, <1>9 DEF TimeMoves, Counted
<1>10. CASE ReadLicense \/ ReadOnlyLicense
    <2>1. Admissions' = {}
        <3>1. \A s \in Hosts : svr'[s].allowed = {}
            BY <1>10, LicenceRead DEF Admitted, Licensed
        <3>2. QED BY <1>2, <3>1
    <2>2. process'.num = 0 /\ Lic' = Lic
        BY <1>5, <1>10, LicenceRead, KnownTyped
    <2>3. QED BY <1>1, <1>3, <2>1, <2>2 DEF Counted
<1>11. CASE \/ WriteLicense \/ LoadTables
            \/ \E left \in {"empty", "cut", "whole"} : Killed(left) \/ WriteFails(left)
    BY <1>4, <1>5, <1>11, Written, Loaded, WasCut DEF Counted
<1>12. CASE FixupVirtualHost
    <2>1. Admissions' \subseteq Admissions
        BY <1>12, Merged DEF Admissions, Hosts
    <2>2. IsFiniteSet(Admissions') /\ Cardinality(Admissions') <= Cardinality(Admissions)
        BY <2>1, FS_Subset DEF Counted
    <2>3. Cardinality(Admissions') \in Nat /\ Cardinality(Admissions) \in Nat
        BY <2>2, FS_CardinalityType DEF Counted
    <2>4. Cardinality(Admissions') <= process.num
        BY <1>1, <2>2, <2>3 DEF Counted
    <2>5. process' = process /\ Lic' = Lic
        BY <1>5, <1>12, Fixed
    <2>6. QED BY <2>2, <2>4, <2>5 DEF Counted
<1>13. CASE CheckDomain /\ phase' # "exited"
    <2> DEFINE c == Counts(Lic, process.dnk)
    <2>1. c \in Nat /\ c >= 1
        BY DEF Counts
    <2>2. Lic.DomainNum > 0 => process.num + c - 1 + 1 <= Lic.DomainNum
        BY <1>13, Accepted DEF CheckLicense, CheckDomainNum
    <2>3. process'.num = process.num + c /\ Lic' = Lic
        BY <1>5, <1>13, Accepts
    <2>4. Admissions' \subseteq Admissions \cup {asked.domain}
        <3>1. /\ svr' = [svr EXCEPT ![Order[pos]] = LetIn(svr[Order[pos]], asked.domain)]
              /\ Order[pos] \in Hosts /\ asked.domain \in scenario.domains
              /\ svr \in [Hosts -> Server]
            BY <1>13, Accepted DEF Types
        <3> DEFINE h == Order[pos]
        <3>2. LetIn(svr[h], asked.domain).allowed = svr[h].allowed \cup {asked.domain}
            BY <3>1, LetInFacts
        <3> HIDE DEF h
        <3>3. \A s \in Hosts :
                 svr'[s] = svr[s] \/ (s = h /\ svr'[s] = LetIn(svr[h], asked.domain))
            BY <3>1 DEF h
        <3>4. \A s \in Hosts : svr'[s].allowed \subseteq svr[s].allowed \cup {asked.domain}
            BY <3>2, <3>3
        <3>5. QED BY <3>4 DEF Admissions, Hosts
    <2> HIDE DEF c
    <2> DEFINE more == Admissions \cup {asked.domain}
    <2>5. IsFiniteSet(more) /\ Cardinality(more) <= Cardinality(Admissions) + 1
        <3>1. IsFiniteSet(Admissions) /\ Cardinality(Admissions) \in Nat
            BY FS_CardinalityType DEF Counted
        <3>2. /\ IsFiniteSet(more)
              /\ \/ Cardinality(more) = Cardinality(Admissions)
                 \/ Cardinality(more) = Cardinality(Admissions) + 1
            BY <3>1, FS_AddElement, Zenon
        <3> HIDE DEF more
        <3>3. QED BY <3>1, <3>2
    <2>6. IsFiniteSet(Admissions') /\ Cardinality(Admissions') <= Cardinality(more)
        BY <2>4, <2>5, FS_Subset
    <2>7. /\ Cardinality(Admissions) \in Nat /\ Cardinality(more) \in Nat
          /\ Cardinality(Admissions') \in Nat
        BY <2>5, <2>6, FS_CardinalityType DEF Counted
    <2> HIDE DEF more
    <2>8. Cardinality(Admissions) <= process.num
        BY DEF Counted
    <2>9. Cardinality(Admissions') <= process.num + c
        BY <1>1, <2>1, <2>5, <2>6, <2>7, <2>8
    <2>10. Lic.DomainNum > 0 => process.num + c <= Lic.DomainNum
        BY <1>1, <2>1, <2>2
    <2>11. QED BY <2>3, <2>6, <2>9, <2>10 DEF Counted
<1>14. CASE Start
    BY <1>4, <1>5, <1>14, Started DEF Counted
<1>15. QED BY <1>14, <1>7, <1>8, <1>9, <1>10, <1>11, <1>12, <1>13, StepKinds

-----------------------------------------------------------------------------
(* The theorems *)

LEMMA InvInit ==
    ASSUME Init
    PROVE  Inv
<1>1. Types
    BY TypesInit
<1>2. DownIsFresh
    BY OrderFacts DEF Init, DownIsFresh
<1>3. \A s \in Hosts : svr[s].allowed = {} /\ svr[s].nYesDomain = 0
    BY OrderFacts DEF Init, NewSvr
<1>4. Admissions = {}
    BY <1>3 DEF Admissions, Hosts
<1>5. Counted
    BY <1>4, FS_EmptySet, LicenceNumbers DEF Init, Counted, Fresh
<1>6. ~process.init
    BY DEF Init, Fresh
<1>7. SameDay /\ LicenceSurvives /\ Stamps /\ Opened
    BY <1>6 DEF Init, SameDay, LicenceSurvives, Stamps, Opened
<1>8. InDays /\ Admitted /\ ListOfTheDay
    BY <1>3, <1>6 DEF InDays, Admitted, ListOfTheDay
<1>9. QED BY <1>1, <1>2, <1>5, <1>7, <1>8 DEF Inv

LEMMA InvStep ==
    ASSUME Inv, [Next]_vars
    PROVE  Inv'
BY TypesStep, DownStep, SameDayStep, SurvivesStep, StampsStep, InDaysStep, OpenedStep, ListStep,
   AdmittedStep, CountedStep DEF Inv

\* Whatever happens to the process, the licence's text is whole outside the
\* moment in which ReadLicense rewrites it, unless the process was killed then
\* or the disk was full.
THEOREM LicenceOutlives == Spec => []LicenceSurvives
<1>1. Inv => LicenceSurvives
    BY DEF Inv
<1>2. QED BY <1>1, InvInit, InvStep, PTL DEF Spec

LEMMA UpInOrder ==
    ASSUME Inv, [Next]_vars
    PROVE  phase = "fixed" /\ phase' = "up" /\ timelock => cutShort \/ lastRead <= today
<1>1. SUFFICES ASSUME phase = "fixed", timelock, ~cutShort
               PROVE  lastRead <= today
    OBVIOUS
<1>2. process.init /\ process.cmptime <= since /\ since = today
    BY <1>1 DEF Inv, Opened, InDays, SameDay
<1>3. lastRead <= process.cmptime
    BY <1>1, <1>2 DEF Inv, Stamps
<1>4. since \in Nat /\ lastRead \in Nat /\ process.cmptime \in Nat
    BY DEF Inv, Types, Process
<1>5. QED BY <1>2, <1>3, <1>4

\* With a dated licence the server comes up on no day before the one it last
\* came up on: what WriteLicense stamps the next ReadLicense reads back, and
\* CheckLicense compares it with the clock; a stamp that was once not written to
\* its end is excepted.
THEOREM DaysGoOn == Spec => ClockNotTurnedBack
<1>1. Inv /\ [Next]_vars =>
          [phase = "fixed" /\ phase' = "up" /\ timelock => cutShort \/ lastRead <= today]_vars
    BY UpInOrder
<1>2. QED BY <1>1, InvInit, InvStep, PTL DEF Spec, ClockNotTurnedBack

\* A server that is up converts only domains its licence named for the day the
\* server was started on and for this machine, and no more of them than it is
\* for, in whatever order the directives stand, however the virtual host is
\* merged and however many days have passed since.
THEOREM LicensedOnly == Spec => []OnlyLicensed
<1>1. Inv => OnlyLicensed
    <2>1. SUFFICES ASSUME Inv, NEW s \in Hosts, NEW d \in svr[s].allowed
                   PROVE  /\ Licensed(d)
                          /\ Lic.DomainNum > 0 => Cardinality(Admissions) <= Lic.DomainNum
        BY OrderFacts DEF OnlyLicensed, Licensed, Admissions
    <2>2. Licensed(d)
        BY <2>1 DEF Inv, Admitted
    <2>3. process.num \in Nat /\ Lic.DomainNum \in Nat /\ Cardinality(Admissions) \in Nat
        BY <2>1, LicenceNumbers, FS_CardinalityType DEF Inv, Types, Process, Counted
    <2>4. QED BY <2>1, <2>2, <2>3 DEF Inv, Counted
<1>2. QED BY <1>1, InvInit, InvStep, PTL DEF Spec

-----------------------------------------------------------------------------
(* The sections of a request *)

\* What each section the request is in says.
Stated == [i \in DOMAIN inForce |-> dir[inForce[i]].f]

\* The fields of which a section may say nothing and leave them to the outer ones.
Left == DirFields \ (Own \cup NeverInherited \cup {"m_pConvertExts"})

Says(vals, f, i) ==
    IF f = "m_iToEncode" THEN vals[i]["m_iFromEncode"] # -1
    ELSE vals[i][f] # IF f \in InheritedIfZero THEN 0 ELSE -1

\* v is what the sections from a to b come to.
Combined(F, vals, v, a, b) ==
    \A f \in F :
        /\ f \in Own => v[f] = IF a < b /\ vals[b][f] = -1 THEN 0 ELSE vals[b][f]
        /\ f \in NeverInherited => v[f] = vals[b][f]
        /\ f = "m_pConvertExts" /\ a < b => v[f] = 0
        /\ f \in Left => \E j \in a .. b :
                            /\ v[f] = vals[j][f] /\ (j = a \/ Says(vals, f, j))
                            /\ \A k \in j + 1 .. b : ~Says(vals, f, k)

\* The table of phrases each of them has, and t the one the sections from a to b
\* come to: the last there is.
Tables == [i \in DOMAIN inForce |-> dir[inForce[i]].usetable]

LastTable(tabs, t, a, b) ==
    \E j \in a .. b : /\ t = tabs[j] /\ (j = a \/ tabs[j] # NULL)
                     /\ \A k \in j + 1 .. b : tabs[k] = NULL

\* Each configuration of w is what some neighbouring sections come to, of n in all.
Segments(F, vals, tabs, n, w, cut) ==
    /\ cut[0] = 0 /\ cut[Len(w)] = n
    /\ \A i \in 1 .. Len(w) :
          /\ cut[i - 1] < cut[i]
          /\ Combined(F, vals, w[i].f, cut[i - 1] + 1, cut[i])
          /\ LastTable(tabs, w[i].usetable, cut[i - 1] + 1, cut[i])

Walking ==
    phase = "request" =>
        /\ Len(walk) \in Nat \ {0} /\ walk \in Seq({walk[i] : i \in DOMAIN walk})
        /\ Len(inForce) \in Nat /\ DOMAIN inForce = 1 .. Len(inForce) /\ inForce[1] \in Hosts
        /\ \A i \in DOMAIN inForce : inForce[i] \in ToSet(Order)
        /\ \E cut \in [0 .. Len(walk) -> 0 .. Len(inForce)] :
              Segments(scenario.fields, Stated, Tables, Len(inForce), walk, cut)

\* No directive of a directory is read for a server as such.
ServersSayNothing ==
    /\ dir = [x \in ToSet(Order) |-> dir[x]]
    /\ \A s \in Hosts :
          /\ DOMAIN dir[s] = {"f", "files", "usetable"}
          /\ \A f \in scenario.fields \ Own : dir[s].f[f] = Initial(f)

SectionInv == Walking /\ ServersSayNothing

\* my_merge_dir_conf knows each field once.
LEMMA FieldKinds ==
    /\ NeverInherited \cap InheritedIfZero = {}
    /\ NeverInherited \cap InheritedIfUnset = {}
    /\ InheritedIfZero \cap InheritedIfUnset = {}
    /\ "m_iToEncode" \notin NeverInherited \cup InheritedIfZero \cup InheritedIfUnset
    /\ "m_pConvertExts" \notin NeverInherited \cup InheritedIfZero \cup InheritedIfUnset
    /\ "m_iFromEncode" \in InheritedIfUnset
    /\ "m_iToEncode" \in DirFields /\ "m_iFromEncode" \in DirFields
<1>1. NeverInherited \cap InheritedIfZero = {}
    BY DEF NeverInherited, InheritedIfZero, FirstPrefixes, LatePrefixes
<1>2. NeverInherited \cap InheritedIfUnset = {}
    BY DEF NeverInherited, InheritedIfUnset, Encodes, InputFlags
<1>3. InheritedIfZero \cap InheritedIfUnset = {}
    BY DEF InheritedIfZero, InheritedIfUnset, FirstPrefixes, LatePrefixes, Encodes, InputFlags,
           UrlMaps
<1>4. "m_iToEncode" \notin NeverInherited \cup InheritedIfZero \cup InheritedIfUnset
    BY DEF NeverInherited, InheritedIfZero, InheritedIfUnset, FirstPrefixes, LatePrefixes,
           Encodes, InputFlags, UrlMaps
<1>5. "m_pConvertExts" \notin NeverInherited \cup InheritedIfZero \cup InheritedIfUnset
    BY DEF NeverInherited, InheritedIfZero, InheritedIfUnset, FirstPrefixes, LatePrefixes,
           Encodes, InputFlags, UrlMaps
<1>6. "m_iFromEncode" \in InheritedIfUnset
    BY DEF InheritedIfUnset, Encodes
<1>7. "m_iToEncode" \in DirFields /\ "m_iFromEncode" \in DirFields
    BY DEF DirFields, Encodes
<1>8. QED BY <1>1, <1>2, <1>3, <1>4, <1>5, <1>6, <1>7

LEMMA MergeKinds ==
    ASSUME NEW f \in DirFields, NEW b, NEW a
    PROVE  /\ f \in Own => MergeField(b, a, f) = IF a[f] = -1 THEN 0 ELSE a[f]
           /\ f \in NeverInherited => MergeField(b, a, f) = a[f]
           /\ f = "m_pConvertExts" => MergeField(b, a, f) = 0
           /\ f = "m_iToEncode" =>
                 MergeField(b, a, f) = IF a["m_iFromEncode"] = -1 THEN b[f] ELSE a[f]
           /\ f \in Left /\ f # "m_iToEncode" =>
                 MergeField(b, a, f) =
                     IF a[f] = (IF f \in InheritedIfZero THEN 0 ELSE -1) THEN b[f] ELSE a[f]
<1>1. f \in Own <=> f \notin NeverInherited \cup InheritedIfZero \cup InheritedIfUnset
                         /\ f # "m_iToEncode" /\ f # "m_pConvertExts"
    BY DEF Own
<1>2. CASE f \in Own
    BY <1>1, <1>2 DEF MergeField, Left
<1>3. CASE f \in NeverInherited
    BY <1>1, <1>3, FieldKinds DEF MergeField, Left
<1>4. CASE f \in InheritedIfZero
    BY <1>1, <1>4, FieldKinds DEF MergeField, Left
<1>5. CASE f \in InheritedIfUnset
    BY <1>1, <1>5, FieldKinds DEF MergeField, Left
<1>6. CASE f = "m_iToEncode"
    BY <1>1, <1>6, FieldKinds DEF MergeField, Left
<1>7. CASE f = "m_pConvertExts"
    BY <1>1, <1>7, FieldKinds DEF MergeField, Left
<1>8. QED BY <1>1, <1>2, <1>3, <1>4, <1>5, <1>6, <1>7

\* What two neighbouring parts come to, merged, is what both come to together.
LEMMA TwoParts ==
    ASSUME NEW F \in SUBSET DirFields, "m_iToEncode" \in F => "m_iFromEncode" \in F,
           NEW vals, NEW a \in Nat, NEW b \in Nat, NEW c \in Nat, a <= b, b < c,
           NEW v, Combined(F, vals, v, a, b), NEW w, Combined(F, vals, w, b + 1, c),
           NEW x, \A f \in F : x[f] = MergeField(v, w, f)
    PROVE  Combined(F, vals, x, a, c)
<1>1. ASSUME NEW f \in F, f \in Own
      PROVE  x[f] = IF a < c /\ vals[c][f] = -1 THEN 0 ELSE vals[c][f]
    <2>1. x[f] = IF w[f] = -1 THEN 0 ELSE w[f]
        BY <1>1, MergeKinds
    <2>2. w[f] = IF b + 1 < c /\ vals[c][f] = -1 THEN 0 ELSE vals[c][f]
        BY <1>1 DEF Combined
    <2>3. QED BY <2>1, <2>2
<1>2. ASSUME NEW f \in F, f \in NeverInherited
      PROVE  x[f] = vals[c][f]
    BY <1>2, MergeKinds DEF Combined
<1>3. ASSUME NEW f \in F, f = "m_pConvertExts"
      PROVE  x[f] = 0
    BY <1>3, MergeKinds
<1>4. ASSUME NEW f \in F, f \in Left
      PROVE  \E j \in a .. c : /\ x[f] = vals[j][f] /\ (j = a \/ Says(vals, f, j))
                               /\ \A k \in j + 1 .. c : ~Says(vals, f, k)
    <2>1. PICK i \in a .. b : /\ v[f] = vals[i][f] /\ (i = a \/ Says(vals, f, i))
                              /\ \A k \in i + 1 .. b : ~Says(vals, f, k)
        BY <1>4 DEF Combined
    <2>2. PICK j \in b + 1 .. c : /\ w[f] = vals[j][f] /\ (j = b + 1 \/ Says(vals, f, j))
                                  /\ \A k \in j + 1 .. c : ~Says(vals, f, k)
        BY <1>4 DEF Combined
    <2>3. i \in a .. c /\ j \in a .. c
        OBVIOUS
    \* Nothing said behind b: the outer part's value.  Else the inner part's.
    <2>4. ASSUME x[f] = v[f], ~Says(vals, f, j)
          PROVE  \A k \in i + 1 .. c : ~Says(vals, f, k)
        <3>1. j = b + 1
            BY <2>2, <2>4
        <3>2. \A k \in i + 1 .. c : k \in i + 1 .. b \/ k = j \/ k \in j + 1 .. c
            BY <3>1
        <3>3. QED BY <2>1, <2>2, <2>4, <3>2
    <2>5. CASE f # "m_iToEncode"
        <3> DEFINE none == IF f \in InheritedIfZero THEN 0 ELSE -1
        <3>1. x[f] = IF w[f] = none THEN v[f] ELSE w[f]
            BY <1>4, <2>5, MergeKinds
        <3>2. Says(vals, f, j) <=> w[f] # none
            BY <2>2, <2>5 DEF Says
        <3> HIDE DEF none
        <3>3. CASE Says(vals, f, j)
            BY <2>2, <2>3, <3>1, <3>2, <3>3
        <3>4. CASE ~Says(vals, f, j)
            BY <2>1, <2>3, <2>4, <3>1, <3>2, <3>4
        <3>5. QED BY <3>3, <3>4
    <2>6. CASE f = "m_iToEncode"
        <3> DEFINE e == "m_iFromEncode"
        <3>1. e \in F /\ e \in Left /\ e # f /\ e \notin InheritedIfZero
            BY <2>6, FieldKinds DEF Left, Own
        <3>2. x[f] = IF w[e] = -1 THEN v[f] ELSE w[f]
            BY <2>6, MergeKinds
        <3>3. \A k : Says(vals, f, k) <=> Says(vals, e, k)
            BY <2>6, <3>1 DEF Says
        <3>4. \A k : Says(vals, e, k) <=> vals[k][e] # -1
            BY <2>6, <3>1 DEF Says
        <3>5. PICK l \in b + 1 .. c : /\ w[e] = vals[l][e] /\ (l = b + 1 \/ Says(vals, e, l))
                                      /\ \A k \in l + 1 .. c : ~Says(vals, e, k)
            BY <3>1 DEF Combined
        <3>6. CASE w[e] = -1
            <4>1. l = b + 1 /\ ~Says(vals, e, l)
                BY <3>4, <3>5, <3>6
            <4>2. \A k \in b + 1 .. c : k = l \/ k \in l + 1 .. c
                BY <4>1
            <4>3. ~Says(vals, f, j)
                BY <3>3, <3>5, <4>1, <4>2
            <4>4. QED BY <2>1, <2>3, <2>4, <3>2, <3>6, <4>3
        <3>7. CASE w[e] # -1
            <4>1. Says(vals, f, l)
                BY <3>3, <3>4, <3>5, <3>7
            <4>2. Says(vals, f, j)
                <5>1. CASE j = b + 1 /\ ~Says(vals, f, j)
                    <6>1. l = j \/ l \in j + 1 .. c
                        BY <5>1
                    <6>2. QED BY <2>2, <4>1, <5>1, <6>1
                <5>2. QED BY <2>2, <5>1
            <4>3. QED BY <2>2, <2>3, <3>2, <3>7, <4>2
        <3>8. QED BY <3>6, <3>7
    <2>7. QED BY <2>5, <2>6
<1>5. QED BY <1>1, <1>2, <1>3, <1>4 DEF Combined

LEMMA TwoTables ==
    ASSUME NEW tabs, NEW a \in Nat, NEW b \in Nat, NEW c \in Nat, a <= b, b < c,
           NEW t, LastTable(tabs, t, a, b), NEW u, LastTable(tabs, u, b + 1, c)
    PROVE  LastTable(tabs, IF u = NULL THEN t ELSE u, a, c)
<1>1. PICK i \in a .. b : /\ t = tabs[i] /\ (i = a \/ tabs[i] # NULL)
                          /\ \A k \in i + 1 .. b : tabs[k] = NULL
    BY DEF LastTable
<1>2. PICK j \in b + 1 .. c : /\ u = tabs[j] /\ (j = b + 1 \/ tabs[j] # NULL)
                              /\ \A k \in j + 1 .. c : tabs[k] = NULL
    BY DEF LastTable
<1>3. i \in a .. c /\ j \in a .. c
    OBVIOUS
<1>4. CASE u = NULL
    <2>1. j = b + 1
        BY <1>2, <1>4
    <2>2. \A k \in i + 1 .. c : k \in i + 1 .. b \/ k = j \/ k \in j + 1 .. c
        BY <2>1
    <2>3. \A k \in i + 1 .. c : tabs[k] = NULL
        BY <1>1, <1>2, <1>4, <2>2
    <2>4. QED BY <1>1, <1>3, <1>4, <2>3 DEF LastTable
<1>5. CASE u # NULL
    BY <1>2, <1>3, <1>5 DEF LastTable
<1>6. QED BY <1>4, <1>5

LEMMA GreatestIs ==
    ASSUME NEW T \in SUBSET Nat, NEW j \in T, \A k \in T : k <= j
    PROVE  Max(T) = j
<1>1. \E m \in T : \A k \in T : m >= k
    BY DEF Max
<1>2. Max(T) \in T /\ \A k \in T : Max(T) >= k
    BY <1>1 DEF Max
<1>3. Max(T) \in Nat /\ j \in Nat /\ Max(T) <= j /\ Max(T) >= j
    BY <1>2
<1>4. QED BY <1>3

\* Once all is merged, the request has what its sections say.
LEMMA AllMerged ==
    ASSUME Types, SectionInv, phase = "request", Len(walk) = 1, Len(inForce) > 1,
           NEW f \in scenario.fields
    PROVE  walk[1].f[f] = Said(f)
<1> DEFINE n == Len(inForce)
           v == walk[1].f
           F == scenario.fields
           vals == Stated
<1>1. /\ n \in Nat /\ n > 1 /\ DOMAIN inForce = 1 .. n
      /\ inForce[1] \in Hosts
    BY DEF SectionInv, Walking
<1>0. \A i \in 1 .. n : vals[i] = dir[inForce[i]].f
    BY <1>1 DEF Stated
<1>11. vals[1] = dir[inForce[1]].f /\ vals[n] = dir[inForce[n]].f
    <2>1. 1 \in 1 .. n /\ n \in 1 .. n
        BY <1>1
    <2> HIDE DEF vals
    <2>2. QED BY <1>0, <2>1
<1>2. Combined(F, vals, v, 1, n)
    <2>1. PICK cut : Segments(F, vals, Tables, n, walk, cut)
        BY DEF SectionInv, Walking
    <2>2. cut[1 - 1] = 0 /\ cut[1] = n /\ Combined(F, vals, v, cut[1 - 1] + 1, cut[1])
        BY <2>1 DEF Segments
    <2>3. QED BY <2>2
<1>3. f \in DirFields /\ f \in scenario.fields
    BY ScenarioAssumption DEF Types
<1>4. vals[1][f] = Initial(f) \/ f \in Own
    BY <1>1, <1>11 DEF SectionInv, ServersSayNothing
<1>5. f \in Own => f \notin NeverInherited /\ f # "m_pConvertExts"
    BY DEF Own
<1>6. CASE f \in Own
    <2>1. v[f] = IF vals[n][f] = -1 THEN 0 ELSE vals[n][f]
        BY <1>1, <1>2, <1>6 DEF Combined
    <2>2. Said(f) = IF vals[n][f] = -1 THEN 0 ELSE vals[n][f]
        BY <1>11, <1>5, <1>6 DEF Said
    <2>3. QED BY <2>1, <2>2
<1>7. CASE f \in NeverInherited
    <2>1. v[f] = vals[n][f]
        BY <1>2, <1>7 DEF Combined
    <2>2. Said(f) = vals[n][f]
        BY <1>11, <1>5, <1>7, FieldKinds DEF Said
    <2>3. QED BY <2>1, <2>2
<1>8. CASE f = "m_pConvertExts"
    <2>1. v[f] = 0
        BY <1>1, <1>2, <1>8 DEF Combined
    <2>2. Said(f) = 0
        BY <1>5, <1>8, FieldKinds DEF Said
    <2>3. QED BY <2>1, <2>2
<1>9. CASE f \in Left
    <2> DEFINE by == {i \in 1 .. n : Says(vals, f, i)}
    <2>1. f \notin Own /\ f \notin NeverInherited /\ f # "m_pConvertExts"
        BY <1>9 DEF Left
    <2>2. Said(f) = IF by = {} THEN Initial(f) ELSE dir[inForce[Max(by)]].f[f]
        <3>1. by = {i \in DOMAIN inForce :
                       IF f = "m_iToEncode" THEN dir[inForce[i]].f["m_iFromEncode"] # -1
                       ELSE dir[inForce[i]].f[f] # IF f \in InheritedIfZero THEN 0 ELSE -1}
            BY <1>0, <1>1 DEF Says
        <3> HIDE DEF by
        <3>2. QED BY <2>1, <3>1 DEF Said
    <2>3. PICK j \in 1 .. n : /\ v[f] = vals[j][f] /\ (j = 1 \/ Says(vals, f, j))
                              /\ \A k \in j + 1 .. n : ~Says(vals, f, k)
        BY <1>2, <1>9 DEF Combined
    <2>4. \A k \in by : k <= j
        BY <1>1, <2>3
    <2>5. CASE Says(vals, f, j)
        <3>1. j \in by /\ by \in SUBSET Nat
            BY <1>1, <2>5
        <3>2. Max(by) = j
            BY <2>4, <3>1, GreatestIs
        <3>3. QED BY <1>0, <2>2, <2>3, <3>1, <3>2
    <2>6. CASE ~Says(vals, f, j)
        <3>1. j = 1
            BY <2>3, <2>6
        <3>2. \A k \in 1 .. n : k = 1 \/ k \in j + 1 .. n
            BY <1>1, <3>1
        <3>3. by = {}
            BY <2>3, <2>6, <3>1, <3>2
        <3>4. QED BY <1>4, <2>1, <2>2, <2>3, <3>1, <3>3
    <2>7. QED BY <2>5, <2>6
<1>10. QED BY <1>3, <1>6, <1>7, <1>8, <1>9 DEF Left

LEMMA MergeNothing ==
    ASSUME NEW f \in DirFields \ Own, NEW b, NEW a, b[f] = Initial(f), a[f] = Initial(f)
    PROVE  MergeField(b, a, f) = Initial(f)
<1>1. CASE f \in NeverInherited
    BY <1>1, MergeKinds
<1>2. CASE f = "m_pConvertExts"
    BY <1>2, MergeKinds DEF Initial
<1>3. CASE f \in Left
    BY <1>3, MergeKinds
<1>4. QED BY <1>1, <1>2, <1>3 DEF Left

LEMMA NewDirSaysNothing ==
    /\ DOMAIN NewDir = {"f", "files", "usetable"}
    /\ \A f \in scenario.fields : NewDir.f[f] = Initial(f)
BY DEF NewDir

LEMMA ServersStep ==
    ASSUME Types, ServersSayNothing, [Next]_vars
    PROVE  ServersSayNothing'
<1> DEFINE D == ToSet(Order)
           Nothing(r) == /\ DOMAIN r = {"f", "files", "usetable"}
                         /\ \A f \in scenario.fields \ Own : r.f[f] = Initial(f)
<1>1. dir = [x \in D |-> dir[x]] /\ \A s \in Hosts : Nothing(dir[s])
    BY DEF ServersSayNothing
<1>2. Hosts \subseteq D
    BY OrderFacts
<1>3. scenario' = scenario
    BY DEF Next, vars, Start, Stop, NextSection, SetClock, DayPasses, SetDirective, use_table,
       SetSvrDirective, ConvertDomain, ReadLicense, ReadOnlyLicense, WriteLicense, CheckDomain,
       CheckPrefix, Killed, WriteFails, TableMissing, FixupVirtualHost, LoadTables, Request, MergeSections, Served
<1>4. scenario.fields \subseteq DirFields
    BY ScenarioAssumption DEF Types
<1> HIDE DEF D, Nothing
<1>5. SUFFICES /\ dir' = [x \in D |-> dir'[x]]
               /\ \A s \in Hosts : Nothing(dir'[s])
    BY <1>3 DEF ServersSayNothing, D, Nothing
<1>6. CASE dir' = dir
    BY <1>1, <1>6
<1>7. CASE Stop
    <2>1. dir' = [x \in D |-> NewDir]
        BY <1>7 DEF Stop, D
    <2>2. Nothing(NewDir)
        BY NewDirSaysNothing DEF Nothing
    <2>3. QED BY <1>2, <2>1, <2>2
<1>9. ASSUME NEW f, NEW v, SetDirective(f, v)
      PROVE  /\ dir' = [x \in D |-> dir'[x]]
             /\ \A s \in Hosts : Nothing(dir'[s])
    <2> DEFINE h == Order[pos]
    <2>1. h \in D /\ h \notin Hosts
        BY <1>9, OrderFacts DEF SetDirective, Types, D
    <2>2. dir' = [dir EXCEPT ![h].f[f] = v]
        BY <1>9 DEF SetDirective
    <2> HIDE DEF h
    <2>3. \A s \in Hosts : dir'[s] = dir[s]
        BY <1>1, <1>2, <2>1, <2>2
    <2>4. dir' = [x \in D |-> dir'[x]]
        BY <1>1, <2>2
    <2>5. QED BY <1>1, <2>3, <2>4
<1>10. ASSUME NEW n, use_table(n)
       PROVE  /\ dir' = [x \in D |-> dir'[x]]
              /\ \A s \in Hosts : Nothing(dir'[s])
    <2> DEFINE h == Order[pos]
    <2>1. h \in D /\ h \notin Hosts
        BY <1>10, OrderFacts DEF use_table, Types, D
    <2>2. dir' = [dir EXCEPT ![h].files = @ \cup {n}]
        BY <1>10 DEF use_table
    <2> HIDE DEF h
    <2>3. \A s \in Hosts : dir'[s] = dir[s]
        BY <1>1, <1>2, <2>1, <2>2
    <2>4. dir' = [x \in D |-> dir'[x]]
        BY <1>1, <2>2
    <2>5. QED BY <1>1, <2>3, <2>4
<1>11. CASE FixupVirtualHost
    <2> DEFINE m == MergeDir(dir["main"], dir["vhost"])
    <2>1. dir' = [dir EXCEPT !["vhost"] = m]
        BY <1>11 DEF FixupVirtualHost
    <2>2. DOMAIN m = {"f", "files", "usetable"}
        BY DEF MergeDir
    <2>3. \A f \in scenario.fields : m.f[f] = MergeField(dir["main"].f, dir["vhost"].f, f)
        BY DEF MergeDir
    <2>4. Nothing(m)
        BY <1>1, <1>4, <2>2, <2>3, MergeNothing DEF Nothing, Hosts
    <2> HIDE DEF m
    <2>5. QED BY <1>1, <1>2, <2>1, <2>4 DEF Hosts
<1>12. CASE LoadTables
    <2>1. dir' = [x \in DOMAIN dir |->
                    IF x = "vhost" THEN dir[x]
                    ELSE [dir[x] EXCEPT !.usetable = init_dir_convert_table(x)]]
        BY <1>12 DEF LoadTables
    <2>2. dir' = [x \in D |-> dir'[x]]
        BY <1>1, <2>1
    <2>3. dir'["vhost"] = dir["vhost"]
          /\ dir'["main"] = [dir["main"] EXCEPT !.usetable = init_dir_convert_table("main")]
        BY <1>1, <1>2, <2>1 DEF Hosts
    <2>4. Nothing(dir'["main"])
        <3>1. Nothing(dir["main"])
            BY <1>1 DEF Hosts
        <3>2. dir'["main"].f = dir["main"].f /\ DOMAIN dir'["main"] = DOMAIN dir["main"]
            BY <2>3, <3>1 DEF Nothing
        <3>3. QED BY <3>1, <3>2 DEF Nothing
    <2>5. QED BY <1>1, <2>2, <2>3, <2>4 DEF Hosts
<1>13. \/ dir' = dir \/ Stop \/ (\E f, v : SetDirective(f, v)) \/ (\E n : use_table(n))
       \/ FixupVirtualHost \/ LoadTables
    BY DEF Next, vars, conf, Start, NextSection, SetClock, DayPasses, SetSvrDirective, ConvertDomain,
       ReadLicense, ReadOnlyLicense, WriteLicense, CheckDomain, CheckPrefix, Killed, WriteFails,
       TableMissing, Request, MergeSections, Served
<1>14. QED BY <1>6, <1>7, <1>9, <1>10, <1>11, <1>12, <1>13

LEMMA InRequest ==
    ASSUME [Next]_vars, phase' = "request"
    PROVE  \/ \E s \in Hosts : \E sections : Request(s, sections)
           \/ \E i \in 1 .. Len(walk) - 1 : MergeSections(i)
           \/ UNCHANGED <<scenario, phase, dir, walk, inForce>>
BY OrderFacts
   DEF Next, vars, conf, request, Reading, Exit, Start, Stop, NextSection, SetClock, DayPasses, SetDirective,
       use_table, SetSvrDirective, ConvertDomain, ReadLicense, ReadOnlyLicense, WriteLicense,
       CheckDomain, Checking, CheckPrefix, Killed, WriteFails, TableMissing, FixupVirtualHost, LoadTables, Served

LEMMA SeqOfItself ==
    ASSUME NEW S, NEW w \in Seq(S)
    PROVE  w \in Seq({w[k] : k \in DOMAIN w})
<1> DEFINE W == {w[k] : k \in DOMAIN w}
<1>1. Len(w) \in Nat /\ DOMAIN w = 1 .. Len(w) /\ w = [k \in 1 .. Len(w) |-> w[k]]
    OBVIOUS
<1>2. \A k \in 1 .. Len(w) : w[k] \in W
    BY <1>1
<1> HIDE DEF W
<1>3. w \in [1 .. Len(w) -> W]
    BY <1>1, <1>2
<1>4. w \in Seq(W)
    BY <1>1, <1>3
<1>5. QED BY <1>4 DEF W

\* A request begins with each section for itself.
LEMMA RequestWalks ==
    ASSUME NEW s \in Hosts, NEW sections, Request(s, sections)
    PROVE  Walking'
<1> DEFINE D == ToSet(Order)
           pieces == [i \in DOMAIN Locations |->
                         IF Locations[i] \in sections THEN <<Locations[i]>> ELSE <<>>]
           t == FlattenSeq(pieces)
           n == Len(inForce')
<1>1. pieces \in Seq(Seq(D))
    <2>1. Locations \in Seq(D)
        BY OrderFacts
    <2> HIDE DEF D
    <2>2. /\ DOMAIN Locations = 1 .. Len(Locations) /\ Len(Locations) \in Nat
          /\ \A i \in DOMAIN Locations : Locations[i] \in D
        BY <2>1
    <2>3. \A i \in DOMAIN Locations :
             (IF Locations[i] \in sections THEN <<Locations[i]>> ELSE <<>>) \in Seq(D)
        BY <2>2
    <2>4. pieces \in [1 .. Len(Locations) -> Seq(D)]
        BY <2>2, <2>3
    <2> HIDE DEF pieces
    <2>5. QED BY <2>2, <2>4
<1>2. t \in Seq(D)
    BY <1>1, FlattenType
<1>3. s \in D
    BY OrderFacts
<1>4. inForce' = <<s>> \o t /\ walk' = [i \in DOMAIN inForce' |-> dir[inForce'[i]]]
    BY DEF Request
<1> HIDE DEF t, D
<1>5. /\ <<s>> \in Seq(D) /\ Len(<<s>>) = 1 /\ <<s>>[1] = s
    BY <1>3
<1>6. /\ inForce' \in Seq(D) /\ n = 1 + Len(t) /\ Len(t) \in Nat
      /\ inForce'[1] = s
    <2>1. Len(t) \in Nat
        BY <1>2
    <2>2. 1 \in 1 .. 1 + Len(t)
        BY <2>1
    <2>3. QED BY <1>2, <1>4, <1>5, <2>1, <2>2, ConcatProperties
<1>7. n \in Nat \ {0} /\ DOMAIN inForce' = 1 .. n /\ inForce'[1] \in Hosts
    BY <1>6
<1> HIDE DEF n
<1>8. walk' = [i \in 1 .. n |-> dir[inForce'[i]]]
    BY <1>4, <1>7
<1>9. Len(walk') = n /\ walk' \in Seq({walk'[i] : i \in DOMAIN walk'})
    <2> DEFINE W == {dir[inForce'[i]] : i \in 1 .. n}
    <2>1. walk' \in [1 .. n -> W]
        BY <1>8
    <2> HIDE DEF W
    <2>2. walk' \in Seq(W) /\ Len(walk') = n
        BY <1>7, <2>1
    <2>3. QED BY <2>2, SeqOfItself
<1>10. UNCHANGED <<scenario, dir>>
    BY DEF Request, conf
<1> DEFINE cut == [k \in 0 .. n |-> k]
           vals == Stated'
           tabs == Tables'
<1>11. cut \in [0 .. n -> 0 .. n]
    BY <1>7
<1>12. \A i \in 1 .. n : walk'[i].f = vals[i] /\ walk'[i].usetable = tabs[i]
    BY <1>7, <1>8, <1>10 DEF Stated, Tables
<1> HIDE DEF vals, tabs
<1>13. Segments(scenario.fields, vals, tabs, n, walk', cut)
    <2>1. cut[0] = 0 /\ cut[Len(walk')] = n
        BY <1>7, <1>9
    <2>2. ASSUME NEW i \in 1 .. n
          PROVE  /\ cut[i - 1] < cut[i]
                 /\ Combined(scenario.fields, vals, walk'[i].f, cut[i - 1] + 1, cut[i])
                 /\ LastTable(tabs, walk'[i].usetable, cut[i - 1] + 1, cut[i])
        <3>1. cut[i - 1] = i - 1 /\ cut[i] = i /\ cut[i - 1] + 1 = i /\ i \in Nat
            BY <1>7
        <3> HIDE DEF cut
        <3>2. Combined(scenario.fields, vals, vals[i], i, i)
            BY <3>1 DEF Combined
        <3>3. LastTable(tabs, tabs[i], i, i)
            BY <3>1 DEF LastTable
        <3>4. QED BY <1>12, <3>1, <3>2, <3>3
    <2> HIDE DEF cut
    <2>3. QED BY <1>9, <2>1, <2>2 DEF Segments
<1> HIDE DEF cut
<1>15. \A i \in DOMAIN inForce' : inForce'[i] \in D
    BY <1>6
<1>14. QED BY <1>7, <1>9, <1>10, <1>11, <1>13, <1>15 DEF Walking, n, vals, tabs, D

\* x is w with m in the place of what stood at i and i + 1.
SplicedIn(S, w, i, m, x) ==
    /\ x \in Seq(S) /\ Len(x) = Len(w) - 1
    /\ \A k \in 1 .. Len(w) - 1 :
          x[k] = IF k < i THEN w[k] ELSE IF k = i THEN m ELSE w[k + 1]

LEMMA Spliced ==
    ASSUME NEW S, NEW w \in Seq(S), NEW m \in S, NEW i \in 1 .. Len(w) - 1
    PROVE  SplicedIn(S, w, i, m, SubSeq(w, 1, i - 1) \o <<m>> \o SubSeq(w, i + 2, Len(w)))
<1> DEFINE n == Len(w)
           p == SubSeq(w, 1, i - 1)
           q == SubSeq(w, i + 2, n)
           r == p \o <<m>>
           x == r \o q
<1>1. n \in Nat /\ i \in 1 .. n - 1
    OBVIOUS
<1>2. p \in Seq(S) /\ Len(p) = i - 1 /\ \A k \in 1 .. i - 1 : p[k] = w[k]
    <2>1. 1 \in 1 .. n + 1 /\ i - 1 \in 1 - 1 .. n
        BY <1>1
    <2>2. QED BY <1>1, <2>1, SubSeqProperties
<1>3. q \in Seq(S) /\ Len(q) = n - i - 1 /\ \A k \in 1 .. n - i - 1 : q[k] = w[i + 1 + k]
    <2>1. i + 2 \in 1 .. n + 1 /\ n \in (i + 2) - 1 .. n
        BY <1>1
    <2>2. /\ q \in Seq(S) /\ Len(q) = n - (i + 2) + 1
          /\ \A k \in 1 .. n - (i + 2) + 1 : q[k] = w[(i + 2) + k - 1]
        BY <1>1, <2>1, SubSeqProperties
    <2>3. n - (i + 2) + 1 = n - i - 1 /\ \A k \in Nat : (i + 2) + k - 1 = i + 1 + k
        BY <1>1
    <2>4. \A k \in 1 .. n - i - 1 : k \in Nat
        OBVIOUS
    <2> HIDE DEF q, n
    <2>5. \A k \in 1 .. n - i - 1 : q[k] = w[i + 1 + k]
        BY <2>2, <2>3, <2>4
    <2>6. QED BY <2>2, <2>3, <2>5
<1> HIDE DEF p, q, n
<1>4. <<m>> \in Seq(S) /\ Len(<<m>>) = 1 /\ <<m>>[1] = m
    OBVIOUS
<1>5. r \in Seq(S) /\ Len(r) = i
      /\ \A k \in 1 .. i : r[k] = IF k < i THEN w[k] ELSE m
    <2>1. Len(p) + Len(<<m>>) = i
        BY <1>1, <1>2, <1>4
    <2>2. /\ r \in Seq(S) /\ Len(r) = i
          /\ \A k \in 1 .. i : r[k] = IF k <= Len(p) THEN p[k] ELSE <<m>>[k - Len(p)]
        BY <1>2, <1>4, <2>1, ConcatProperties
    <2> HIDE DEF r
    <2>3. ASSUME NEW k \in 1 .. i, k < i
          PROVE  r[k] = w[k]
        BY <1>1, <1>2, <2>2, <2>3
    <2>4. i - (i - 1) = 1 /\ ~(i <= i - 1) /\ i \in 1 .. i
        BY <1>1
    <2>5. r[i] = m
        BY <1>2, <1>4, <2>2, <2>4
    <2>6. \A k \in 1 .. i : k < i \/ k = i
        BY <1>1
    <2>7. QED BY <1>1, <2>2, <2>3, <2>5, <2>6
<1> HIDE DEF r
<1>6. /\ x \in Seq(S) /\ Len(x) = n - 1
      /\ \A k \in 1 .. n - 1 : x[k] = IF k <= i THEN r[k] ELSE q[k - i]
    <2>1. Len(r) + Len(q) = n - 1
        BY <1>1, <1>3, <1>5
    <2>2. /\ x \in Seq(S) /\ Len(x) = Len(r) + Len(q)
          /\ \A k \in 1 .. Len(r) + Len(q) : x[k] = IF k <= Len(r) THEN r[k] ELSE q[k - Len(r)]
        BY <1>3, <1>5, ConcatProperties
    <2> HIDE DEF x
    <2>3. QED BY <1>5, <2>1, <2>2
<1> HIDE DEF x
<1>7. ASSUME NEW k \in 1 .. n - 1
      PROVE  x[k] = IF k < i THEN w[k] ELSE IF k = i THEN m ELSE w[k + 1]
    <2>1. CASE k <= i
        BY <1>1, <1>5, <1>6, <2>1
    <2>2. CASE k > i
        <3>1. k - i \in 1 .. n - i - 1 /\ i + 1 + (k - i) = k + 1
            BY <1>1, <2>2
        <3>2. x[k] = q[k - i] /\ q[k - i] = w[k + 1]
            BY <1>1, <1>3, <1>6, <2>2, <3>1
        <3>3. QED BY <1>1, <2>2, <3>2
    <2>3. QED BY <1>1, <2>1, <2>2
<1>8. QED BY <1>6, <1>7 DEF SplicedIn, x, r, p, q, n

\* Merging two neighbours leaves one part where there were two.
LEMMA MergedSegments ==
    ASSUME NEW F \in SUBSET DirFields, "m_iToEncode" \in F => "m_iFromEncode" \in F,
           NEW vals, NEW tabs, NEW N \in Nat, NEW w, Len(w) \in Nat, NEW i \in 1 .. Len(w) - 1, NEW m,
           \A f \in F : m.f[f] = MergeField(w[i].f, w[i + 1].f, f),
           m.usetable = IF w[i + 1].usetable = NULL THEN w[i].usetable ELSE w[i + 1].usetable,
           NEW S, NEW x, SplicedIn(S, w, i, m, x),
           NEW cut \in [0 .. Len(w) -> 0 .. N], Segments(F, vals, tabs, N, w, cut)
    PROVE  \E new \in [0 .. Len(w) - 1 -> 0 .. N] : Segments(F, vals, tabs, N, x, new)
<1> DEFINE n == Len(w)
<1>0. /\ n \in Nat /\ i \in 1 .. n - 1 /\ Len(x) = n - 1
      /\ \A k \in 1 .. n - 1 : x[k] = IF k < i THEN w[k] ELSE IF k = i THEN m ELSE w[k + 1]
      /\ cut \in [0 .. n -> 0 .. N]
    BY DEF SplicedIn
<1> DEFINE Part(y, c, k) == /\ c[k - 1] < c[k]
                            /\ Combined(F, vals, y[k].f, c[k - 1] + 1, c[k])
                            /\ LastTable(tabs, y[k].usetable, c[k - 1] + 1, c[k])
           new == [k \in 0 .. n - 1 |-> IF k < i THEN cut[k] ELSE cut[k + 1]]
<1>1. cut[0] = 0 /\ cut[n] = N /\ \A k \in 1 .. n : Part(w, cut, k)
    BY <1>0 DEF Segments
<1> HIDE DEF n
<1>2. new \in [0 .. n - 1 -> 0 .. N] /\ new[0] = 0 /\ new[n - 1] = N
    <2>1. \A k \in 0 .. n - 1 : k \in 0 .. n /\ k + 1 \in 0 .. n
        BY <1>0
    <2>2. new \in [0 .. n - 1 -> 0 .. N]
        BY <1>0, <2>1
    <2>3. /\ 0 \in 0 .. n - 1 /\ 0 < i
          /\ n - 1 \in 0 .. n - 1 /\ ~(n - 1 < i) /\ (n - 1) + 1 = n
        BY <1>0
    <2>4. new[0] = cut[0] /\ new[n - 1] = cut[(n - 1) + 1]
        BY <2>3
    <2>5. QED BY <1>1, <2>2, <2>3, <2>4
<1>3. ASSUME NEW k \in 1 .. n - 1
      PROVE  Part(x, new, k)
    <2>1. CASE k < i
        <3>1. k - 1 \in 0 .. n - 1 /\ k \in 0 .. n - 1 /\ k - 1 < i /\ k \in 1 .. n
            BY <1>0, <2>1
        <3>2. new[k - 1] = cut[k - 1] /\ new[k] = cut[k]
            BY <2>1, <3>1
        <3>3. x[k] = w[k]
            BY <1>0, <2>1
        <3>4. Part(w, cut, k)
            BY <1>1, <3>1
        <3> HIDE DEF new
        <3>5. QED BY <3>2, <3>3, <3>4
    <2>2. CASE k > i
        <3>1. /\ k - 1 \in 0 .. n - 1 /\ k \in 0 .. n - 1 /\ ~(k - 1 < i) /\ ~(k < i)
              /\ k + 1 \in 1 .. n /\ (k - 1) + 1 = k /\ (k + 1) - 1 = k
            BY <1>0, <2>2
        <3>2. new[k - 1] = cut[(k - 1) + 1] /\ new[k] = cut[k + 1]
            BY <3>1
        <3>3. x[k] = w[k + 1]
            BY <1>0, <2>2
        <3>4. Part(w, cut, k + 1)
            BY <1>1, <3>1
        <3> HIDE DEF new
        <3>5. QED BY <3>1, <3>2, <3>3, <3>4
    <2>3. CASE k = i
        <3>0. /\ i - 1 \in 0 .. n - 1 /\ i \in 0 .. n - 1 /\ i - 1 < i /\ ~(i < i)
              /\ i \in 1 .. n /\ i + 1 \in 1 .. n /\ (i + 1) - 1 = i
            <4>1. n \in Nat /\ i \in 1 .. n - 1
                BY <1>0
            <4> HIDE DEF new
            <4>2. QED BY <4>1
        <3>10. new[i - 1] = cut[i - 1] /\ new[i] = cut[i + 1] /\ x[i] = m
            BY <1>0, <3>0
        <3> HIDE DEF new
        <3>1. new[k - 1] = cut[i - 1] /\ new[k] = cut[i + 1] /\ x[k] = m
              /\ i \in 1 .. n /\ i + 1 \in 1 .. n /\ (i + 1) - 1 = i
            BY <2>3, <3>0, <3>10
        <3>2. /\ cut[i - 1] < cut[i] /\ Combined(F, vals, w[i].f, cut[i - 1] + 1, cut[i])
              /\ LastTable(tabs, w[i].usetable, cut[i - 1] + 1, cut[i])
            BY <1>1, <3>1
        <3>3. /\ cut[i] < cut[i + 1] /\ Combined(F, vals, w[i + 1].f, cut[i] + 1, cut[i + 1])
              /\ LastTable(tabs, w[i + 1].usetable, cut[i] + 1, cut[i + 1])
            BY <1>1, <3>1
        <3>4. cut[i - 1] \in Nat /\ cut[i] \in Nat /\ cut[i + 1] \in Nat
            <4>1. i - 1 \in 0 .. n /\ i \in 0 .. n /\ i + 1 \in 0 .. n
                BY <1>0
            <4>2. cut \in [0 .. n -> 0 .. N]
                BY <1>0
            <4>3. cut[i - 1] \in 0 .. N /\ cut[i] \in 0 .. N /\ cut[i + 1] \in 0 .. N
                BY <4>1, <4>2
            <4>4. QED BY <4>3
        <3>5. cut[i - 1] + 1 \in Nat /\ cut[i - 1] + 1 <= cut[i]
            BY <3>2, <3>4
        <3>6. Combined(F, vals, m.f, cut[i - 1] + 1, cut[i + 1])
            <4> DEFINE a == cut[i - 1] + 1
                       b == cut[i]
                       c == cut[i + 1]
                       u == w[i].f
                       v == w[i + 1].f
                       y == m.f
            <4>1. a \in Nat /\ b \in Nat /\ c \in Nat /\ a <= b /\ b < c
                BY <3>3, <3>4, <3>5
            <4>6. F \in SUBSET DirFields /\ ("m_iToEncode" \in F => "m_iFromEncode" \in F)
                OBVIOUS
            <4>2. Combined(F, vals, u, a, b) /\ Combined(F, vals, v, b + 1, c)
                BY <3>2, <3>3
            <4>3. \A f \in F : y[f] = MergeField(u, v, f)
                OBVIOUS
            <4> HIDE DEF a, b, c, u, v, y
            <4>4. Combined(F, vals, y, a, c)
                BY <4>1, <4>2, <4>3, <4>6, TwoParts
            <4>5. QED BY <4>4 DEF a, c, y
        <3>9. LastTable(tabs, m.usetable, cut[i - 1] + 1, cut[i + 1])
            <4> DEFINE a == cut[i - 1] + 1
                       b == cut[i]
                       c == cut[i + 1]
            <4>1. a \in Nat /\ b \in Nat /\ c \in Nat /\ a <= b /\ b < c
                BY <3>3, <3>4, <3>5
            <4>2. /\ LastTable(tabs, w[i].usetable, a, b)
                  /\ LastTable(tabs, w[i + 1].usetable, b + 1, c)
                BY <3>2, <3>3
            <4> HIDE DEF a, b, c
            <4>3. LastTable(tabs, IF w[i + 1].usetable = NULL THEN w[i].usetable
                                  ELSE w[i + 1].usetable, a, c)
                BY <4>1, <4>2, TwoTables
            <4>4. QED BY <4>3 DEF a, c
        <3>7. new[k - 1] < new[k]
            BY <3>1, <3>2, <3>3, <3>4
        <3>8. QED BY <3>1, <3>6, <3>7, <3>9
    <2>4. QED BY <1>0, <2>1, <2>2, <2>3
<1> HIDE DEF new
<1>4. Segments(F, vals, tabs, N, x, new)
    BY <1>0, <1>2, <1>3 DEF Segments
<1>5. QED BY <1>2, <1>4 DEF n

LEMMA MergeWalks ==
    ASSUME Types, Walking, NEW i \in 1 .. Len(walk) - 1, MergeSections(i)
    PROVE  Walking'
<1> DEFINE W == {walk[k] : k \in DOMAIN walk}
           n == Len(walk)
           m == MergeDir(walk[i], walk[i + 1])
           X == W \cup {m}
           F == scenario.fields
           N == Len(inForce)
<1>1. /\ phase = "request" /\ UNCHANGED <<scenario, dir, inForce, phase>>
      /\ walk' = SubSeq(walk, 1, i - 1) \o <<m>> \o SubSeq(walk, i + 2, n)
    BY DEF MergeSections, conf
<1>2. n \in Nat /\ walk \in Seq(W) /\ i \in 1 .. n - 1
    BY <1>1 DEF Walking
<1>3. /\ \A f \in F : m.f[f] = MergeField(walk[i].f, walk[i + 1].f, f)
      /\ m.usetable = IF walk[i + 1].usetable = NULL THEN walk[i].usetable
                      ELSE walk[i + 1].usetable
    BY DEF MergeDir
<1>4. F \in SUBSET DirFields /\ ("m_iToEncode" \in F => "m_iFromEncode" \in F)
    BY ScenarioAssumption DEF Types
<1>5. walk \in Seq(X) /\ m \in X
    <2>1. \A k \in 1 .. n : walk[k] \in X
        BY <1>2
    <2> HIDE DEF X
    <2>2. walk = [k \in 1 .. n |-> walk[k]]
        BY <1>2
    <2>3. walk \in [1 .. n -> X]
        BY <2>1, <2>2
    <2>4. QED BY <1>2, <2>3 DEF X
<1> HIDE DEF W, m, X
<1>6. SplicedIn(X, walk, i, m, walk')
    BY <1>1, <1>2, <1>5, Spliced
<1>13. walk' \in Seq(X) /\ Len(walk') = n - 1
    BY <1>6 DEF SplicedIn
<1>7. walk' \in Seq({walk'[k] : k \in DOMAIN walk'})
    BY <1>13, SeqOfItself
<1>8. /\ N \in Nat /\ DOMAIN inForce = 1 .. N /\ inForce[1] \in Hosts
      /\ \A k \in DOMAIN inForce : inForce[k] \in ToSet(Order)
      /\ \E cut \in [0 .. n -> 0 .. N] : Segments(F, Stated, Tables, N, walk, cut)
    BY <1>1 DEF Walking
<1> HIDE DEF n, F, N
<1>9. \E new \in [0 .. n - 1 -> 0 .. N] : Segments(F, Stated, Tables, N, walk', new)
    <2>1. PICK cut \in [0 .. n -> 0 .. N] : Segments(F, Stated, Tables, N, walk, cut)
        BY <1>8
    <2>2. \E new \in [0 .. Len(walk) - 1 -> 0 .. N] : Segments(F, Stated, Tables, N, walk', new)
        BY <1>2, <1>3, <1>4, <1>6, <1>8, <2>1, MergedSegments DEF n
    <2>3. QED BY <2>2 DEF n
<1>10. n - 1 \in Nat \ {0}
    BY <1>2
<1>11. Stated' = Stated /\ Tables' = Tables
    BY <1>1 DEF Stated, Tables
<1>12. QED BY <1>1, <1>13, <1>7, <1>8, <1>9, <1>10, <1>11 DEF Walking, F, N

LEMMA WalkingStep ==
    ASSUME Types, Walking, [Next]_vars
    PROVE  Walking'
<1>1. CASE phase' # "request"
    BY <1>1 DEF Walking
<1>2. CASE UNCHANGED <<scenario, phase, dir, walk, inForce>>
    BY <1>2 DEF Walking, Stated, Tables
<1>3. QED BY <1>1, <1>2, InRequest, RequestWalks, MergeWalks

LEMMA SectionInit ==
    ASSUME Init
    PROVE  Types /\ SectionInv
<1>1. Walking
    BY DEF Init, Walking
<1>2. dir = [x \in ToSet(Order) |-> NewDir]
    BY DEF Init
<1>3. ServersSayNothing
    BY <1>2, OrderFacts, NewDirSaysNothing DEF ServersSayNothing
<1>4. QED BY <1>1, <1>3, TypesInit DEF SectionInv

\* However httpd pairs the sections of its walks, a request ends with what its
\* sections say: my_merge_dir_conf is associative on what can occur, the fields
\* that depend on one another and the flags it resets included.
THEOREM PairingIsIrrelevant == Spec => []SectionsCombine
<1>1. Init => Types /\ SectionInv
    BY SectionInit
<1>2. Types /\ SectionInv /\ [Next]_vars => (Types /\ SectionInv)'
    BY TypesStep, WalkingStep, ServersStep DEF SectionInv
<1>3. Types /\ SectionInv => SectionsCombine
    BY AllMerged DEF SectionsCombine
<1>4. QED BY <1>1, <1>2, <1>3, PTL DEF Spec

-----------------------------------------------------------------------------
(* How a file of phrases is read *)

\* Whether a character may begin at x.
Starts(x, wide) == wide => x % 2 = 1

\* Each character from lo to before hi is one of marks; none of them is.
AllAre(c, lo, hi, wide, marks) ==
    \A q \in lo .. hi - 1 : Starts(q, wide) => Is(c, q, wide, marks)

NoneIs(c, lo, hi, wide, marks) ==
    \A q \in lo .. hi - 1 : Starts(q, wide) => ~Is(c, q, wide, marks)

\* From x.w1 to x.e1 stands a phrase, then spaces, from x.w2 to x.e2 what
\* replaces it, then line breaks up to the next phrase or the end.  The code
\* steps two bytes behind a line without looking at them (convert_utils.c), so
\* there are as many between two lines.
IsLine(c, wide, x, next) ==
    /\ {x.w1, x.e1, x.w2, x.e2, next} \subseteq 1 .. pend(c)
    /\ \A p \in {x.w1, x.e1, x.w2, x.e2, next} : Starts(p, wide)
    /\ x.w1 < x.e1 /\ x.e1 < x.w2 /\ x.w2 <= x.e2 /\ x.e2 <= next
    /\ NoneIs(c, x.w1, x.e1, wide, Spaces(wide)) /\ ~Is(c, x.w1, wide, LineBreaks)
    /\ AllAre(c, x.e1, x.w2, wide, Spaces(wide))
    /\ x.w2 < pend(c) => ~Is(c, x.w2, wide, Spaces(wide))
    /\ NoneIs(c, x.w2, x.e2, wide, LineBreaks)
    /\ AllAre(c, x.e2, next, wide, LineBreaks)
    /\ next < pend(c) => x.e2 + 2 <= next

\* The file consists of n such lines behind its mark of order.
InLines(c, wide, n, l) ==
    /\ Len(c) \in Nat /\ Starts(pend(c), wide)
    /\ l[1].w1 = skipBom(c) /\ l[n + 1].w1 = pend(c)
    /\ \A i \in 1 .. n : IsLine(c, wide, l[i], l[i + 1].w1)

PairOf(c, x) == <<SubSeq(c, x.w1, x.e1 - 1), SubSeq(c, x.w2, x.e2 - 1)>>

\* The end of the file is no half of a character that begins where one may.
LEMMA NoHalves ==
    ASSUME NEW c, Len(c) \in Nat, NEW wide, Starts(pend(c), wide), NEW q \in Nat, Starts(q, wide)
    PROVE  ~Half(c, q, wide)
BY DEF Starts, Half, pend

LEMMA FromIs ==
    ASSUME NEW c, Len(c) \in Nat, NEW wide, NEW p \in Nat, Starts(p, wide)
    PROVE  From(c, p, wide) = {q \in p .. Len(c) : Starts(q, wide)}
<1>1. ASSUME NEW q \in p .. Len(c), wide
      PROVE  (q - p) % 2 = 0 <=> q % 2 = 1
    BY <1>1 DEF Starts
<1>2. QED BY <1>1 DEF From, Starts

LEMMA SkipsTo ==
    ASSUME NEW c, Len(c) \in Nat, NEW wide, Starts(pend(c), wide), NEW marks,
           NEW p \in 1 .. pend(c), NEW q \in p .. pend(c), Starts(p, wide), Starts(q, wide),
           AllAre(c, p, q, wide, marks), q < pend(c) => ~Is(c, q, wide, marks)
    PROVE  Skip(c, p, wide, marks) = q
<1> DEFINE stops == {x \in From(c, p, wide) : Half(c, x, wide) \/ ~Is(c, x, wide, marks)}
<1>1. pend(c) = Len(c) + 1 /\ p \in Nat /\ q \in Nat /\ p <= q /\ q <= pend(c)
    BY DEF pend
<1>2. stops = {x \in p .. Len(c) : Starts(x, wide) /\ ~Is(c, x, wide, marks)}
    <2>1. \A x \in p .. Len(c) : x \in Nat /\ (Starts(x, wide) => ~Half(c, x, wide))
        BY <1>1, NoHalves
    <2>2. QED BY <1>1, <2>1, FromIs
<1>3. \A x \in stops : q <= x
    <2>1. ASSUME NEW x \in stops, x < q
          PROVE  FALSE
        <3>1. x \in p .. q - 1 /\ Starts(x, wide) /\ ~Is(c, x, wide, marks)
            BY <1>1, <1>2, <2>1
        <3>2. QED BY <3>1 DEF AllAre
    <2>2. stops \subseteq Nat
        BY <1>1, <1>2
    <2> HIDE DEF stops
    <2>3. QED BY <1>1, <2>1, <2>2
<1>4. stops \in SUBSET Nat
    BY <1>1, <1>2
<1>5. CASE q < pend(c)
    <2>1. q \in stops
        BY <1>1, <1>2, <1>5
    <2>2. ~Half(c, q, wide)
        BY <1>1, NoHalves
    <2> HIDE DEF stops
    <2>3. Min(stops) = q
        BY <1>3, <1>4, <2>1, LeastIs
    <2>4. QED BY <2>1, <2>2, <2>3 DEF Skip, stops
<1>6. CASE q = pend(c)
    <2>1. stops = {}
        <3>1. \A x \in stops : x <= Len(c) /\ x \in Nat
            BY <1>1, <1>2
        <3> HIDE DEF stops
        <3>2. QED BY <1>1, <1>3, <1>6, <3>1
    <2>2. Max({p, pend(c)}) = pend(c)
        <3>1. {p, pend(c)} \in SUBSET Nat /\ \A k \in {p, pend(c)} : k <= pend(c)
            BY <1>1
        <3>2. QED BY <3>1, GreatestIs
    <2>3. QED BY <1>6, <2>1, <2>2 DEF Skip
<1>7. QED BY <1>1, <1>5, <1>6

LEMMA FindsAt ==
    ASSUME NEW c, Len(c) \in Nat, NEW wide, Starts(pend(c), wide), NEW marks,
           NEW p \in 1 .. pend(c), NEW q \in p .. pend(c), Starts(p, wide), Starts(q, wide),
           NoneIs(c, p, q, wide, marks), q < pend(c) => Is(c, q, wide, marks)
    PROVE  Find(c, p, wide, marks) = IF q < pend(c) THEN q ELSE NotFound
<1> DEFINE stops == {x \in From(c, p, wide) : Half(c, x, wide) \/ Is(c, x, wide, marks)}
<1>1. pend(c) = Len(c) + 1 /\ p \in Nat /\ q \in Nat /\ p <= q /\ q <= pend(c)
    BY DEF pend
<1>2. stops = {x \in p .. Len(c) : Starts(x, wide) /\ Is(c, x, wide, marks)}
    <2>1. \A x \in p .. Len(c) : x \in Nat /\ (Starts(x, wide) => ~Half(c, x, wide))
        BY <1>1, NoHalves
    <2>2. QED BY <1>1, <2>1, FromIs
<1>3. \A x \in stops : q <= x
    <2>1. ASSUME NEW x \in stops, x < q
          PROVE  FALSE
        <3>1. x \in p .. q - 1 /\ Starts(x, wide) /\ Is(c, x, wide, marks)
            BY <1>1, <1>2, <2>1
        <3>2. QED BY <3>1 DEF NoneIs
    <2>2. stops \subseteq Nat
        BY <1>1, <1>2
    <2> HIDE DEF stops
    <2>3. QED BY <1>1, <2>1, <2>2
<1>4. stops \in SUBSET Nat
    BY <1>1, <1>2
<1>5. CASE q < pend(c)
    <2>1. q \in stops
        BY <1>1, <1>2, <1>5
    <2>2. ~Half(c, q, wide)
        BY <1>1, NoHalves
    <2> HIDE DEF stops
    <2>3. Min(stops) = q
        BY <1>3, <1>4, <2>1, LeastIs
    <2>4. QED BY <1>5, <2>1, <2>2, <2>3 DEF Find, stops
<1>6. CASE q = pend(c)
    <2>1. stops = {}
        <3>1. \A x \in stops : x <= Len(c) /\ x \in Nat
            BY <1>1, <1>2
        <3> HIDE DEF stops
        <3>2. QED BY <1>1, <1>3, <1>6, <3>1
    <2>2. QED BY <1>1, <1>6, <2>1 DEF Find
<1>7. QED BY <1>1, <1>5, <1>6

\* Wherever a line begins and whatever stands in it, the next one begins behind it.
LEMMA SkipGoesOn ==
    ASSUME NEW c, Len(c) \in Nat, NEW wide, NEW marks, NEW p \in Nat
    PROVE  /\ Skip(c, p, wide, marks) \in Nat /\ Skip(c, p, wide, marks) >= p
           /\ p <= pend(c) => Skip(c, p, wide, marks) <= pend(c)
           /\ p >= pend(c) => Skip(c, p, wide, marks) = p
<1> DEFINE stops == {x \in From(c, p, wide) : Half(c, x, wide) \/ ~Is(c, x, wide, marks)}
<1>1. pend(c) = Len(c) + 1 /\ pend(c) \in Nat
    BY DEF pend
<1>2. stops \in SUBSET Nat /\ \A x \in stops : p <= x /\ x <= Len(c)
    BY DEF From
<1> HIDE DEF stops
<1>3. CASE stops = {}
    <2>1. Max({p, pend(c)}) = IF p >= pend(c) THEN p ELSE pend(c)
        <3>1. CASE p >= pend(c)
            <4>1. {p, pend(c)} \in SUBSET Nat /\ \A k \in {p, pend(c)} : k <= p
                BY <1>1, <3>1
            <4>2. QED BY <3>1, <4>1, GreatestIs
        <3>2. CASE ~(p >= pend(c))
            <4>1. {p, pend(c)} \in SUBSET Nat /\ \A k \in {p, pend(c)} : k <= pend(c)
                BY <1>1, <3>2
            <4>2. QED BY <3>2, <4>1, GreatestIs
        <3>3. QED BY <3>1, <3>2
    <2>2. Skip(c, p, wide, marks) = Max({p, pend(c)})
        BY <1>3 DEF Skip, stops
    <2>3. QED BY <1>1, <2>1, <2>2
<1>4. CASE stops # {}
    <2>1. Min(stops) \in stops
        BY <1>2, <1>4, LeastOfSome
    <2>2. Skip(c, p, wide, marks) = IF Half(c, Min(stops), wide) THEN pend(c) ELSE Min(stops)
        BY <1>4 DEF Skip, stops
    <2>3. Min(stops) \in Nat /\ p <= Min(stops) /\ Min(stops) <= Len(c)
        BY <1>2, <2>1
    <2>4. QED BY <1>1, <2>2, <2>3
<1>5. QED BY <1>3, <1>4

LEMMA FindGoesOn ==
    ASSUME NEW c, Len(c) \in Nat, NEW wide, NEW marks, NEW p \in Nat \ {0}
    PROVE  \/ Find(c, p, wide, marks) = NotFound
           \/ Find(c, p, wide, marks) \in p .. pend(c)
<1> DEFINE stops == {x \in From(c, p, wide) : Half(c, x, wide) \/ Is(c, x, wide, marks)}
<1>1. pend(c) = Len(c) + 1 /\ pend(c) \in Nat
    BY DEF pend
<1>2. stops \in SUBSET Nat /\ \A x \in stops : p <= x /\ x <= Len(c)
    BY DEF From
<1> HIDE DEF stops
<1>3. CASE stops = {}
    BY <1>3 DEF Find, stops
<1>4. CASE stops # {}
    <2>1. Min(stops) \in stops
        BY <1>2, <1>4, LeastOfSome
    <2>2. Find(c, p, wide, marks) = IF Half(c, Min(stops), wide) THEN pend(c) ELSE Min(stops)
        BY <1>4 DEF Find, stops
    <2>3. Min(stops) \in Nat /\ p <= Min(stops) /\ Min(stops) <= Len(c)
        BY <1>2, <2>1
    <2>4. QED BY <1>1, <2>2, <2>3
<1>5. QED BY <1>3, <1>4

LEMMA LineGoesOn ==
    ASSUME NEW c, Len(c) \in Nat, NEW wide, NEW p \in 1 .. Len(c)
    PROVE  Line(c, p, wide).next \in p + 1 .. Len(c) + 3
<1> DEFINE w0 == Skip(c, p, wide, Spaces(wide))
           w1 == Skip(c, w0, wide, LineBreaks)
           e1 == Find(c, w1, wide, Spaces(wide))
           w2 == Skip(c, e1, wide, Spaces(wide))
           break == Find(c, w2, wide, LineBreaks)
           e2 == IF break = NotFound THEN pend(c) ELSE break
           next == Skip(c, e2 + 2, wide, LineBreaks)
<1>0. pend(c) = Len(c) + 1 /\ pend(c) \in Nat /\ p \in Nat \ {0} /\ p < pend(c)
    BY DEF pend
<1>1. w0 \in Nat /\ p <= w0 /\ w0 <= pend(c)
    BY <1>0, SkipGoesOn
<1> HIDE DEF w0
<1>2. w1 \in Nat /\ p <= w1 /\ w1 <= pend(c)
    BY <1>0, <1>1, SkipGoesOn
<1> HIDE DEF w1
<1>3. w1 \in Nat \ {0}
    BY <1>0, <1>2
<1>4. e1 = NotFound \/ e1 \in w1 .. pend(c)
    BY <1>3, FindGoesOn
<1>5. Line(c, p, wide).next = IF e1 = NotFound THEN pend(c) ELSE next
    BY DEF Line, w0, w1
<1> HIDE DEF e1
<1>6. CASE e1 = NotFound
    BY <1>0, <1>5, <1>6
<1>7. CASE e1 \in w1 .. pend(c)
    <2>1. e1 \in Nat /\ p <= e1 /\ e1 <= pend(c)
        BY <1>2, <1>7
    <2>2. w2 \in Nat /\ e1 <= w2 /\ w2 <= pend(c)
        BY <2>1, SkipGoesOn
    <2> HIDE DEF w2
    <2>3. w2 \in Nat \ {0}
        BY <1>0, <2>1, <2>2
    <2>4. break = NotFound \/ break \in w2 .. pend(c)
        BY <2>3, FindGoesOn
    <2> HIDE DEF break
    <2>5. e2 \in Nat /\ p <= e2 /\ e2 <= pend(c)
        BY <1>0, <2>1, <2>2, <2>4
    <2> HIDE DEF e2
    <2>6. e2 + 2 \in Nat
        BY <2>5
    <2>7. /\ next \in Nat /\ next >= e2 + 2
          /\ e2 + 2 <= pend(c) => next <= pend(c)
          /\ e2 + 2 >= pend(c) => next = e2 + 2
        BY <2>6, SkipGoesOn
    <2> HIDE DEF next
    <2>8. next \in p + 1 .. Len(c) + 3
        BY <1>0, <2>5, <2>7
    <2>9. e1 # NotFound
        BY <1>0, <2>1 DEF NotFound
    <2>10. QED BY <1>5, <2>8, <2>9
<1>8. QED BY <1>4, <1>6, <1>7

\* A turn of the loop of initFile takes one line.
LEMMA LineIsRead ==
    ASSUME NEW c, Len(c) \in Nat, NEW wide, Starts(pend(c), wide), NEW x, NEW next,
           IsLine(c, wide, x, next), next < pend(c) => ~Is(c, next, wide, LineBreaks)
    PROVE  /\ x.w1 \in 1 .. Len(c)
           /\ Line(c, x.w1, wide).rules = {PairOf(c, x)}
           /\ IF next < pend(c) THEN Line(c, x.w1, wide).next = next
              ELSE Line(c, x.w1, wide).next >= pend(c)
<1> DEFINE w1 == x.w1
           e1 == x.e1
           w2 == x.w2
           e2 == x.e2
<1>0. pend(c) = Len(c) + 1 /\ pend(c) \in Nat
    BY DEF pend
<1>1. /\ w1 \in 1 .. pend(c) /\ e1 \in 1 .. pend(c) /\ w2 \in 1 .. pend(c) /\ e2 \in 1 .. pend(c)
      /\ next \in 1 .. pend(c)
      /\ Starts(w1, wide) /\ Starts(e1, wide) /\ Starts(w2, wide) /\ Starts(e2, wide)
      /\ Starts(next, wide)
    BY DEF IsLine
<1>2. /\ w1 < e1 /\ e1 < w2 /\ w2 <= e2 /\ e2 <= next
      /\ NoneIs(c, w1, e1, wide, Spaces(wide)) /\ ~Is(c, w1, wide, LineBreaks)
      /\ AllAre(c, e1, w2, wide, Spaces(wide))
      /\ w2 < pend(c) => ~Is(c, w2, wide, Spaces(wide))
      /\ NoneIs(c, w2, e2, wide, LineBreaks)
      /\ AllAre(c, e2, next, wide, LineBreaks)
      /\ next < pend(c) => e2 + 2 <= next
    BY DEF IsLine
<1>10. PairOf(c, x) = <<SubSeq(c, w1, e1 - 1), SubSeq(c, w2, e2 - 1)>>
    BY DEF PairOf
<1> HIDE DEF w1, e1, w2, e2
<1>3. Skip(c, w1, wide, Spaces(wide)) = w1
    <2>1. w1 \in w1 .. pend(c) /\ w1 \in w1 .. e1 - 1
        BY <1>0, <1>1, <1>2
    <2>2. ~Is(c, w1, wide, Spaces(wide))
        BY <1>1, <1>2, <2>1 DEF NoneIs
    <2>3. AllAre(c, w1, w1, wide, Spaces(wide))
        BY <1>1 DEF AllAre
    <2>4. QED BY <1>1, <2>1, <2>2, <2>3, SkipsTo
<1>4. Skip(c, w1, wide, LineBreaks) = w1
    <2>1. w1 \in w1 .. pend(c)
        BY <1>0, <1>1
    <2>2. AllAre(c, w1, w1, wide, LineBreaks)
        BY <1>1 DEF AllAre
    <2>3. QED BY <1>1, <1>2, <2>1, <2>2, SkipsTo
<1>5. Find(c, w1, wide, Spaces(wide)) = e1
    <2>1. e1 \in w1 .. pend(c) /\ e1 < pend(c) /\ e1 \in e1 .. w2 - 1
        BY <1>0, <1>1, <1>2
    <2>2. Is(c, e1, wide, Spaces(wide))
        BY <1>1, <1>2, <2>1 DEF AllAre
    <2>3. Find(c, w1, wide, Spaces(wide)) = IF e1 < pend(c) THEN e1 ELSE NotFound
        BY <1>1, <1>2, <2>1, <2>2, FindsAt
    <2>4. QED BY <2>1, <2>3
<1>6. Skip(c, e1, wide, Spaces(wide)) = w2
    <2>1. w2 \in e1 .. pend(c)
        BY <1>0, <1>1, <1>2
    <2>2. QED BY <1>1, <1>2, <2>1, SkipsTo
<1>7. Find(c, w2, wide, LineBreaks) = IF e2 < pend(c) THEN e2 ELSE NotFound
    <2>1. e2 \in w2 .. pend(c)
        BY <1>0, <1>1, <1>2
    <2>2. ASSUME e2 < pend(c)
          PROVE  Is(c, e2, wide, LineBreaks)
        <3>1. e2 \in e2 .. next - 1
            BY <1>0, <1>1, <1>2, <2>2
        <3>2. QED BY <1>1, <1>2, <3>1 DEF AllAre
    <2>3. QED BY <1>1, <1>2, <2>1, <2>2, FindsAt
<1>8. /\ next < pend(c) => Skip(c, e2 + 2, wide, LineBreaks) = next
      /\ ~(next < pend(c)) => Skip(c, e2 + 2, wide, LineBreaks) >= pend(c)
    <2> DEFINE p == e2 + 2
    <2>1. p \in Nat /\ p \in 1 .. pend(c) + 2 /\ Starts(p, wide)
        BY <1>0, <1>1 DEF Starts
    <2>2. ASSUME NEW q \in e2 .. next - 1, p <= q
          PROVE  q \in p .. next - 1
        BY <1>1, <2>1, <2>2
    <2>3. CASE p <= next
        <3>1. p \in 1 .. pend(c) /\ next \in p .. pend(c)
            BY <1>0, <1>1, <2>1, <2>3
        <3>2. AllAre(c, p, next, wide, LineBreaks)
            <4>1. \A q \in p .. next - 1 : q \in e2 .. next - 1
                BY <1>0, <1>1
            <4> HIDE DEF p
            <4>2. QED BY <1>2, <4>1 DEF AllAre
        <3> HIDE DEF p
        <3>3. Skip(c, p, wide, LineBreaks) = next
            BY <1>1, <2>1, <3>1, <3>2, SkipsTo
        <3>4. QED BY <1>0, <1>1, <3>3 DEF p
    <2>4. CASE ~(p <= next)
        <3>1. next = pend(c) /\ p >= pend(c)
            BY <1>0, <1>1, <1>2, <2>1, <2>4
        <3> HIDE DEF p
        <3>2. Skip(c, p, wide, LineBreaks) = p
            BY <2>1, <3>1, SkipGoesOn
        <3>3. QED BY <1>0, <3>1, <3>2 DEF p
    <2>5. QED BY <2>3, <2>4
<1>9. e1 # NotFound /\ e2 # NotFound
    BY <1>0, <1>1 DEF NotFound
<1> DEFINE end == IF (IF e2 < pend(c) THEN e2 ELSE NotFound) = NotFound THEN pend(c)
                  ELSE IF e2 < pend(c) THEN e2 ELSE NotFound
<1>11. end = e2
    BY <1>0, <1>1, <1>9
<1>12. Line(c, w1, wide) = [rules |-> {<<SubSeq(c, w1, e1 - 1), SubSeq(c, w2, end - 1)>>},
                            next  |-> Skip(c, end + 2, wide, LineBreaks)]
    BY <1>3, <1>4, <1>5, <1>6, <1>7, <1>9 DEF Line
<1> HIDE DEF end
<1>13. /\ Line(c, w1, wide).rules = {PairOf(c, x)}
       /\ Line(c, w1, wide).next = Skip(c, e2 + 2, wide, LineBreaks)
    BY <1>10, <1>11, <1>12
<1>14. w1 \in 1 .. Len(c)
    BY <1>0, <1>1, <1>2
<1>15. QED BY <1>8, <1>13, <1>14 DEF w1

\* What initFile makes of the file from each place on.
IsReading(f, c, wide) ==
    f = [p \in 1 .. Len(c) + 3 |->
            IF p >= pend(c) THEN {}
            ELSE LET line == Line(c, p, wide) IN line.rules \cup f[line.next]]

LEMMA ReadingExists ==
    ASSUME NEW c, Len(c) \in Nat, NEW wide
    PROVE  \E f : IsReading(f, c, wide)
<1> DEFINE hi == Len(c) + 3
           V == SUBSET UNION {Line(c, p, wide).rules : p \in 1 .. hi}
           halt == {p \in 1 .. hi : p >= pend(c)}
           base == [p \in 1 .. hi |-> {}]
           next == [p \in 1 .. hi |-> Line(c, p, wide).next]
           G == [pv \in (1 .. hi) \X V |-> Line(c, pv[1], wide).rules \cup pv[2]]
<1>0. hi \in Int /\ 1 \in Int /\ pend(c) = Len(c) + 1
    BY DEF pend
<1>1. \A p \in 1 .. hi : p \in halt => base[p] \in V
    OBVIOUS
<1>2. ASSUME NEW p \in 1 .. hi, p \notin halt
      PROVE  next[p] \in p + 1 .. hi
    <2>1. p \in 1 .. Len(c)
        BY <1>0, <1>2
    <2>2. Line(c, p, wide).next \in p + 1 .. Len(c) + 3
        BY <2>1, LineGoesOn
    <2>3. QED BY <2>2
<1>3. ASSUME NEW p \in 1 .. hi, NEW v \in V
      PROVE  G[<<p, v>>] = Line(c, p, wide).rules \cup v /\ G[<<p, v>>] \in V
    <2>1. Line(c, p, wide).rules \in V
        OBVIOUS
    <2>2. <<p, v>> \in (1 .. hi) \X V
        OBVIOUS
    <2>3. G[<<p, v>>] = Line(c, p, wide).rules \cup v
        BY <2>2
    <2> HIDE DEF G
    <2>4. QED BY <2>1, <2>3
<1>4. \A p \in 1 .. hi : base[p] = {} /\ next[p] = Line(c, p, wide).next
    OBVIOUS
<1> HIDE DEF base, next, G, V, hi
<1>5. PICK f \in [1 .. hi -> V] : Climbs(f, 1, hi, halt, base, next, G)
    <2> HIDE DEF halt
    <2>1. QED BY <1>0, <1>1, <1>2, <1>3, ClimbExists
<1>6. ASSUME NEW p \in 1 .. hi
      PROVE  f[p] = IF p >= pend(c) THEN {}
                    ELSE Line(c, p, wide).rules \cup f[Line(c, p, wide).next]
    <2>1. f[p] = IF p \in halt THEN base[p] ELSE G[<<p, f[next[p]]>>]
        BY <1>5 DEF Climbs
    <2>2. CASE p >= pend(c)
        BY <1>4, <2>1, <2>2
    <2>3. CASE ~(p >= pend(c))
        <3>1. p \notin halt
            BY <2>3
        <3> HIDE DEF halt
        <3>2. next[p] \in p + 1 .. hi
            BY <1>2, <3>1
        <3>3. next[p] \in 1 .. hi
            BY <1>0, <3>2
        <3>4. f[next[p]] \in V
            BY <1>5, <3>3
        <3>5. QED BY <1>3, <1>4, <2>1, <2>3, <3>1, <3>4
    <2>4. QED BY <2>2, <2>3
<1>7. f = [p \in 1 .. hi |-> IF p >= pend(c) THEN {}
                             ELSE Line(c, p, wide).rules \cup f[Line(c, p, wide).next]]
    BY <1>5, <1>6
<1>8. QED BY <1>7 DEF IsReading, hi

\* initFile reads a file in lines as its pairs.
LEMMA FileIsRead ==
    ASSUME NEW c, NEW wide, NEW n \in Nat, NEW l, InLines(c, wide, n, l)
    PROVE  initFile(c, wide) = {PairOf(c, l[i]) : i \in 1 .. n}
<1> DEFINE R == CHOOSE f : IsReading(f, c, wide)
           Pairs(i) == {PairOf(c, l[j]) : j \in i .. n}
           T == {i \in 1 .. n + 1 : R[l[i].w1] = Pairs(i)}
<1>0. /\ Len(c) \in Nat /\ Starts(pend(c), wide) /\ pend(c) = Len(c) + 1
      /\ l[1].w1 = skipBom(c) /\ l[n + 1].w1 = pend(c)
      /\ \A i \in 1 .. n : IsLine(c, wide, l[i], l[i + 1].w1)
    BY DEF InLines, pend
<1>1. IsReading(R, c, wide)
    BY <1>0, ReadingExists
<1>2. initFile(c, wide) = R[skipBom(c)]
    BY DEF initFile, IsReading
<1> HIDE DEF R
<1>3. \A p \in 1 .. Len(c) + 3 :
         R[p] = IF p >= pend(c) THEN {} ELSE Line(c, p, wide).rules \cup R[Line(c, p, wide).next]
    BY <1>1 DEF IsReading
<1>4. n + 1 \in T
    <2>1. pend(c) \in 1 .. Len(c) + 3 /\ n + 1 \in 1 .. n + 1 /\ n + 1 .. n = {}
        BY <1>0
    <2>2. pend(c) \in Int /\ pend(c) >= pend(c)
        BY <1>0
    <2>3. R[pend(c)] = {}
        BY <1>3, <2>1, <2>2
    <2>4. R[l[n + 1].w1] = {}
        BY <1>0, <2>3
    <2>5. QED BY <2>1, <2>4
<1>5. ASSUME NEW i \in 1 .. n, i + 1 \in T
      PROVE  i \in T
    <2> DEFINE x == l[i]
               next == l[i + 1].w1
    <2>1. IsLine(c, wide, x, next)
        BY <1>0
    <2>2. next < pend(c) => i + 1 \in 1 .. n
        BY <1>0
    <2>3. next < pend(c) => ~Is(c, next, wide, LineBreaks)
        <3>1. SUFFICES ASSUME next < pend(c) PROVE ~Is(c, next, wide, LineBreaks)
            OBVIOUS
        <3>2. IsLine(c, wide, l[i + 1], l[(i + 1) + 1].w1)
            BY <1>0, <2>2, <3>1
        <3>3. QED BY <3>2 DEF IsLine
    <2>4. next \in 1 .. pend(c)
        BY <2>1 DEF IsLine
    <2>5. R[next] = Pairs(i + 1)
        BY <1>5
    <2> HIDE DEF x, next, T, Pairs
    <2>6. /\ x.w1 \in 1 .. Len(c)
          /\ Line(c, x.w1, wide).rules = {PairOf(c, x)}
          /\ IF next < pend(c) THEN Line(c, x.w1, wide).next = next
             ELSE Line(c, x.w1, wide).next >= pend(c)
        BY <1>0, <2>1, <2>3, LineIsRead
    <2>7. R[x.w1] = {PairOf(c, x)} \cup R[Line(c, x.w1, wide).next]
        <3>1. x.w1 \in 1 .. Len(c) + 3 /\ ~(x.w1 >= pend(c))
            BY <1>0, <2>6
        <3>2. QED BY <1>3, <2>6, <3>1
    <2>8. R[Line(c, x.w1, wide).next] = R[next]
        <3>1. CASE next < pend(c)
            BY <2>6, <3>1
        <3>2. CASE ~(next < pend(c))
            <4> DEFINE q == Line(c, x.w1, wide).next
            <4>1. q \in x.w1 + 1 .. Len(c) + 3
                BY <1>0, <2>6, LineGoesOn
            <4>2. q >= pend(c)
                BY <2>6, <3>2
            <4> HIDE DEF q
            <4>3. q \in 1 .. Len(c) + 3 /\ next \in 1 .. Len(c) + 3 /\ next >= pend(c)
                BY <1>0, <2>4, <2>6, <3>2, <4>1
            <4>4. R[q] = {} /\ R[next] = {}
                BY <1>3, <4>2, <4>3
            <4>5. QED BY <4>4 DEF q
        <3>3. QED BY <3>1, <3>2
    <2>9. Pairs(i) = {PairOf(c, x)} \cup Pairs(i + 1)
        <3>1. \A j : j \in i .. n <=> j = i \/ j \in i + 1 .. n
            OBVIOUS
        <3>2. QED BY <3>1 DEF Pairs, x
    <2>10. R[x.w1] = Pairs(i)
        BY <2>5, <2>7, <2>8, <2>9
    <2>11. i \in 1 .. n + 1
        OBVIOUS
    <2>12. QED BY <2>10, <2>11 DEF T, x
<1>6. 1 .. n + 1 \subseteq T
    <2>1. \A p \in 1 .. n + 1 : (\A q \in p + 1 .. n + 1 : q \in T) => p \in T
        <3>1. SUFFICES ASSUME NEW p \in 1 .. n + 1, \A q \in p + 1 .. n + 1 : q \in T
                       PROVE  p \in T
            OBVIOUS
        <3> HIDE DEF T
        <3>2. CASE p = n + 1
            BY <1>4, <3>2
        <3>3. CASE p # n + 1
            <4>1. p \in 1 .. n /\ p + 1 \in p + 1 .. n + 1
                BY <3>3
            <4>2. QED BY <1>5, <3>1, <4>1
        <3>4. QED BY <3>2, <3>3
    <2> HIDE DEF T
    <2>2. 1 \in Int /\ n + 1 \in Int
        OBVIOUS
    <2>3. QED BY <2>1, <2>2, FromAbove
<1>7. 1 \in T
    <2> HIDE DEF T
    <2>1. QED BY <1>6
<1>8. R[l[1].w1] = {PairOf(c, l[j]) : j \in 1 .. n}
    BY <1>7
<1>9. QED BY <1>0, <1>2, <1>8

\* Each file of phrases is written in lines, in the width it says, and states
\* the pairs that stand in them.
FilesAreInLines ==
    \A k \in DOMAIN Files :
        \E n \in Nat : \E l :
            /\ InLines(Files[k].content, Files[k].isUtf16, n, l)
            /\ Files[k].pairs = {PairOf(Files[k].content, l[i]) : i \in 1 .. n}

-----------------------------------------------------------------------------
(* The table of phrases of a request *)

\* What a configuration holds besides its fields: the names of files there are,
\* and the table made of them, once the server is up and if it is not the
\* virtual host's.
Holds(r) == DOMAIN r = {"f", "files", "usetable"} /\ r.files \subseteq DOMAIN Files

HasTable(x) == Serving /\ x # "vhost"

TablesLoaded ==
    /\ dir = [x \in ToSet(Order) |-> dir[x]]
    /\ \A x \in ToSet(Order) :
          /\ Holds(dir[x])
          /\ dir[x].usetable = IF HasTable(x) THEN init_dir_convert_table(x) ELSE NULL

LEMMA NewDirHolds == Holds(NewDir) /\ NewDir.usetable = NULL
BY DEF NewDir, Holds

\* While the directives are read no configuration has a table.
LEMMA LoadedLater ==
    ASSUME ~Serving', dir' = [x \in ToSet(Order) |-> dir'[x]],
           \A x \in ToSet(Order) : Holds(dir'[x]) /\ dir'[x].usetable = NULL
    PROVE  TablesLoaded'
BY DEF TablesLoaded, HasTable

LEMMA LoadedStep ==
    ASSUME Types, TablesLoaded, [Next]_vars
    PROVE  TablesLoaded'
<1> DEFINE D == ToSet(Order)
<1>1. dir = [x \in D |-> dir[x]] /\ \A x \in D : Holds(dir[x])
    BY DEF TablesLoaded
<1>2. ~Serving => \A x \in D : dir[x].usetable = NULL
    BY DEF TablesLoaded, HasTable
<1>3. "vhost" \in D /\ "main" \in D
    BY OrderFacts DEF Hosts
<1> HIDE DEF D
<1>4. CASE dir' = dir /\ scenario' = scenario /\ (Serving' <=> Serving)
    BY <1>4 DEF TablesLoaded, HasTable, init_dir_convert_table, IsUtf16
<1>5. CASE Stop
    <2>1. dir' = [x \in D |-> NewDir] /\ ~Serving'
        BY <1>5 DEF Stop, Serving, D
    <2>2. QED BY <2>1, NewDirHolds, LoadedLater DEF D
<1>6. ASSUME NEW f, NEW v, SetDirective(f, v)
      PROVE  TablesLoaded'
    <2> DEFINE h == Order[pos]
    <2>1. h \in D /\ ~Serving /\ ~Serving'
        BY <1>6, OrderFacts DEF SetDirective, Reading, Serving, Types, D
    <2>2. dir' = [dir EXCEPT ![h].f[f] = v]
        BY <1>6 DEF SetDirective
    <2> HIDE DEF h
    <2>3. ASSUME NEW x \in D
          PROVE  /\ DOMAIN dir'[x] = DOMAIN dir[x] /\ dir'[x].files = dir[x].files
                 /\ dir'[x].usetable = dir[x].usetable
        BY <1>1, <2>1, <2>2 DEF Holds
    <2>4. dir' = [x \in D |-> dir'[x]]
        BY <1>1, <2>2
    <2>5. \A x \in D : Holds(dir'[x]) /\ dir'[x].usetable = NULL
        BY <1>1, <1>2, <2>1, <2>3 DEF Holds
    <2>6. QED BY <2>1, <2>4, <2>5, LoadedLater DEF D
<1>7. ASSUME NEW n \in DOMAIN Files, use_table(n)
      PROVE  TablesLoaded'
    <2> DEFINE h == Order[pos]
    <2>1. h \in D /\ ~Serving /\ ~Serving'
        BY <1>7, OrderFacts DEF use_table, Reading, Serving, Types, D
    <2>2. dir' = [dir EXCEPT ![h].files = @ \cup {n}]
        BY <1>7 DEF use_table
    <2> HIDE DEF h
    <2>3. ASSUME NEW x \in D
          PROVE  /\ DOMAIN dir'[x] = DOMAIN dir[x] /\ dir'[x].files \subseteq DOMAIN Files
                 /\ dir'[x].usetable = dir[x].usetable
        BY <1>1, <2>1, <2>2 DEF Holds
    <2>4. dir' = [x \in D |-> dir'[x]]
        BY <1>1, <2>2
    <2>5. \A x \in D : Holds(dir'[x]) /\ dir'[x].usetable = NULL
        BY <1>1, <1>2, <2>1, <2>3 DEF Holds
    <2>6. QED BY <2>1, <2>4, <2>5, LoadedLater DEF D
<1>8. CASE FixupVirtualHost
    <2> DEFINE m == MergeDir(dir["main"], dir["vhost"])
    <2>1. dir' = [dir EXCEPT !["vhost"] = m] /\ ~Serving /\ ~Serving'
        BY <1>8 DEF FixupVirtualHost, Reading, Serving
    <2>2. Holds(m) /\ m.usetable = NULL
        BY <1>1, <1>2, <1>3, <2>1 DEF MergeDir, Holds
    <2> HIDE DEF m
    <2>3. dir' = [x \in D |-> dir'[x]]
        BY <1>1, <2>1
    <2>4. \A x \in D : Holds(dir'[x]) /\ dir'[x].usetable = NULL
        BY <1>1, <1>2, <1>3, <2>1, <2>2
    <2>5. QED BY <2>1, <2>3, <2>4, LoadedLater DEF D
<1>9. CASE LoadTables
    <2>1. /\ dir' = [x \in D |->
                       IF x = "vhost" THEN dir[x]
                       ELSE [dir[x] EXCEPT !.usetable = init_dir_convert_table(x)]]
          /\ ~Serving /\ Serving' /\ scenario' = scenario
        BY <1>1, <1>9 DEF LoadTables, Serving
    <2>2. dir' = [x \in D |-> dir'[x]]
        BY <2>1
    <2>3. ASSUME NEW x \in D
          PROVE  /\ DOMAIN dir'[x] = DOMAIN dir[x]
                 /\ dir'[x].files = dir[x].files /\ dir'[x].f = dir[x].f
                 /\ dir'[x].usetable = IF x = "vhost" THEN NULL ELSE init_dir_convert_table(x)
        BY <1>1, <1>2, <2>1 DEF Holds
    <2>4. \A x \in D : init_dir_convert_table(x)' = init_dir_convert_table(x)
        BY <2>1, <2>3 DEF init_dir_convert_table, IsUtf16
    <2>5. \A x \in D : HasTable(x)' <=> x # "vhost"
        BY <2>1 DEF HasTable
    <2>6. \A x \in D : /\ Holds(dir'[x])
                       /\ dir'[x].usetable = IF HasTable(x)' THEN init_dir_convert_table(x)' ELSE NULL
        BY <1>1, <2>3, <2>4, <2>5 DEF Holds
    <2>7. QED BY <2>2, <2>6 DEF TablesLoaded, D
<1>10. \/ dir' = dir /\ scenario' = scenario /\ (Serving' <=> Serving)
       \/ Stop \/ (\E f, v : SetDirective(f, v)) \/ (\E n \in DOMAIN Files : use_table(n))
       \/ FixupVirtualHost \/ LoadTables
    BY DEF Next, vars, conf, Serving, Reading, Exit, Checking, Start, NextSection, SetClock, DayPasses,
       SetSvrDirective, ConvertDomain, ReadLicense, ReadOnlyLicense, WriteLicense, CheckDomain,
       CheckPrefix, Killed, WriteFails, TableMissing, Request, MergeSections, Served
<1>11. QED BY <1>4, <1>5, <1>6, <1>7, <1>8, <1>9, <1>10

LEMMA FilesAreRead ==
    ASSUME FilesAreInLines
    PROVE  \A k \in DOMAIN Files : initFile(Files[k].content, Files[k].isUtf16) = Files[k].pairs
<1>1. SUFFICES ASSUME NEW k \in DOMAIN Files
               PROVE  initFile(Files[k].content, Files[k].isUtf16) = Files[k].pairs
    OBVIOUS
<1>2. PICK n \in Nat : \E l :
          /\ InLines(Files[k].content, Files[k].isUtf16, n, l)
          /\ Files[k].pairs = {PairOf(Files[k].content, l[i]) : i \in 1 .. n}
    BY DEF FilesAreInLines
<1>3. PICK l : /\ InLines(Files[k].content, Files[k].isUtf16, n, l)
               /\ Files[k].pairs = {PairOf(Files[k].content, l[i]) : i \in 1 .. n}
    BY <1>2
<1>4. QED BY <1>3, FileIsRead

LEMMA OneTable ==
    ASSUME Types, SectionInv, TablesLoaded, FilesAreInLines, phase = "request", Len(walk) = 1
    PROVE  PhrasesOfTheSection
<1> DEFINE N == Len(inForce)
           t == walk[1].usetable
           by == {i \in DOMAIN inForce :
                    inForce[i] # "vhost" /\ "default" \notin dir[inForce[i]].files}
<1>1. /\ N \in Nat /\ DOMAIN inForce = 1 .. N /\ \A i \in 1 .. N : inForce[i] \in ToSet(Order)
    BY DEF SectionInv, Walking
<1>2. LastTable(Tables, t, 1, N)
    <2>1. PICK cut : Segments(scenario.fields, Stated, Tables, N, walk, cut)
        BY DEF SectionInv, Walking
    <2>2. cut[1 - 1] = 0 /\ cut[1] = N /\ LastTable(Tables, t, cut[1 - 1] + 1, cut[1])
        BY <2>1 DEF Segments
    <2>3. QED BY <2>2
<1>3. ASSUME NEW i \in 1 .. N
      PROVE  /\ Tables[i] = IF i \in by
                            THEN UNION {initFile(Files[n].content, IsUtf16(inForce[i])) :
                                            n \in dir[inForce[i]].files}
                            ELSE NULL
             /\ Tables[i] = NULL <=> i \notin by
    <2> DEFINE x == inForce[i]
    <2>1. Tables[i] = dir[x].usetable /\ x \in ToSet(Order)
        BY <1>1 DEF Tables
    <2>2. i \in by <=> x # "vhost" /\ "default" \notin dir[x].files
        BY <1>1
    <2> HIDE DEF x, by
    <2>3. Holds(dir[x]) /\ dir[x].usetable = IF x # "vhost" THEN init_dir_convert_table(x) ELSE NULL
        BY <2>1 DEF TablesLoaded, HasTable, Serving
    <2>4. IsUtf16(x) \in BOOLEAN
        BY DEF IsUtf16
    <2>5. UNION {initFile(Files[n].content, IsUtf16(x)) : n \in dir[x].files} # NULL
        BY <2>3, <2>4, NullAssumption DEF Holds
    <2>6. QED BY <2>1, <2>2, <2>3, <2>5 DEF init_dir_convert_table, x
<1>4. PICK j \in 1 .. N : /\ t = Tables[j] /\ (j = 1 \/ Tables[j] # NULL)
                          /\ \A k \in j + 1 .. N : Tables[k] = NULL
    BY <1>2 DEF LastTable
<1>5. by \subseteq 1 .. N
    BY <1>1
<1> HIDE DEF by, N, t
<1>6. CASE j \in by
    <2>1. ASSUME NEW k \in by
          PROVE  k <= j
        <3>1. k \in 1 .. N
            BY <1>5
        <3>2. Tables[k] # NULL
            BY <1>3, <3>1
        <3>3. k \notin j + 1 .. N
            BY <1>4, <3>2
        <3>4. QED BY <1>1, <3>1, <3>3
    <2>2. Max(by) = j /\ by # {}
        BY <1>1, <1>5, <1>6, <2>1, GreatestIs
    <2>3. ASSUME \A n \in dir[inForce[j]].files : Files[n].isUtf16 = IsUtf16(inForce[j])
          PROVE  t = UNION {Files[n].pairs : n \in dir[inForce[j]].files}
        <3> DEFINE x == inForce[j]
        <3>1. dir[x].files \subseteq DOMAIN Files
            BY <1>1 DEF TablesLoaded, Holds
        <3>2. t = UNION {initFile(Files[n].content, IsUtf16(x)) : n \in dir[x].files}
            BY <1>3, <1>4, <1>6
        <3>3. \A n \in dir[x].files : initFile(Files[n].content, IsUtf16(x)) = Files[n].pairs
            BY <2>3, <3>1, FilesAreRead
        <3> HIDE DEF x
        <3>4. {initFile(Files[n].content, IsUtf16(x)) : n \in dir[x].files}
                  = {Files[n].pairs : n \in dir[x].files}
            BY <3>3
        <3>5. QED BY <3>2, <3>4 DEF x
    <2>4. QED BY <2>2, <2>3 DEF PhrasesOfTheSection, by, t
<1>7. CASE j \notin by
    <2>1. j = 1
        BY <1>3, <1>4, <1>7
    <2>2. \A k \in 1 .. N : k = 1 \/ k \in j + 1 .. N
        BY <1>1, <2>1
    <2>3. by = {}
        BY <1>3, <1>4, <1>5, <1>7, <2>1, <2>2
    <2>4. t = NULL
        BY <1>3, <1>4, <1>7
    <2>5. QED BY <2>3, <2>4 DEF PhrasesOfTheSection, by, t
<1>8. QED BY <1>6, <1>7

\* Whatever the sections, the servers and the order they are merged in, a
\* request converts by the table of its innermost section that has one, made of
\* that section's files and of no other, and that has the pairs the files state
\* line by line (use_table, initFile, init_dir_convert_table and the merge of
\* usetable).
THEOREM PhrasesAreTheSections ==
    ASSUME FilesAreInLines
    PROVE  Spec => []PhrasesOfTheSection
<1>1. Init => Types /\ SectionInv /\ TablesLoaded
    <2>1. SUFFICES ASSUME Init PROVE Types /\ SectionInv /\ TablesLoaded
        OBVIOUS
    <2>2. Types /\ SectionInv
        BY <2>1, SectionInit
    <2>3. dir = [x \in ToSet(Order) |-> NewDir] /\ ~Serving
        BY <2>1 DEF Init, Serving
    <2>4. TablesLoaded
        BY <2>3, NewDirHolds DEF TablesLoaded, HasTable
    <2>5. QED BY <2>2, <2>4
<1>2. Types /\ SectionInv /\ TablesLoaded /\ [Next]_vars => (Types /\ SectionInv /\ TablesLoaded)'
    BY TypesStep, WalkingStep, ServersStep, LoadedStep DEF SectionInv
<1>3. Types /\ SectionInv /\ TablesLoaded => PhrasesOfTheSection
    BY OneTable DEF PhrasesOfTheSection
<1>4. QED BY <1>1, <1>2, <1>3, PTL DEF Spec
=============================================================================

----------------------------- MODULE MCStartup -----------------------------
EXTENDS Startup

\* The kernel lists the loopback first.  With entries of 40 bytes the code meets
\* only the first and the fifth.
MCInterfaces ==
    <<[name |-> "lo",   ip |-> <<"ip", 0, 1>>, mac |-> "none", up |-> TRUE],
      [name |-> "eth0", ip |-> <<"ip", 1, 5>>, mac |-> "m0",   up |-> TRUE],
      [name |-> "eth0", ip |-> <<"ip", 1, 6>>, mac |-> "m0",   up |-> TRUE],
      [name |-> "eth1", ip |-> <<"ip", 2, 1>>, mac |-> "m1",   up |-> FALSE],
      [name |-> "eth2", ip |-> <<"ip", 2, 12>>, mac |-> "m2",  up |-> TRUE]>>

Org     == <<"a", ".org">>
SubOrg  == <<"b", ".a", ".org">>
DotOrg  == <<".org">>
Host    == <<"a">>
Star    == <<"*">>
Gate    == <<"gate">>

MCResolve(name) ==
    CASE name = Org -> <<"ip", 1, 5>> [] name = SubOrg -> <<"ip", 9, 9>> [] name = Gate -> <<"ip", 2, 12>>
      [] OTHER -> NULL

Plain ==
    [kind |-> "plain", from |-> 0, to |-> 0, domainTag |-> TRUE, licenseTag |-> TRUE,
     domains |-> {[name |-> Org, from |-> 0, to |-> 0]},
     mac |-> NULL, bindip |-> NULL, iprange |-> NULL, alone |-> FALSE,
     UrlPrefix |-> {}, HostName |-> {}, DomainNum |-> 0]

Both == [Plain EXCEPT !.kind = "both", !.from = 1, !.to = 4]
ForPrefix == [Plain EXCEPT !.domains = {}, !.UrlPrefix = {Gate}]

MCLicences ==
    {Plain,
     [Plain EXCEPT !.domains = {[name |-> DotOrg, from |-> 2, to |-> 3]}],
     [Plain EXCEPT !.domains = {[name |-> Org, from |-> 0, to |-> 0],
                                [name |-> SubOrg, from |-> 1, to |-> 2]}, !.DomainNum = 1],
     [Plain EXCEPT !.licenseTag = FALSE],
     [Plain EXCEPT !.mac = "m1", !.bindip = <<"ip", 2, 12>>],
     [Plain EXCEPT !.mac = "m4"],
     [Plain EXCEPT !.bindip = <<"ip", 1, 6>>],
     [Plain EXCEPT !.iprange = <<<<"ip", 1, 2>>, <<"ip", 1, 9>>>>],
     [Plain EXCEPT !.iprange = <<<<"ip", 1, 6>>, <<"ip", 1, 9>>>>],
     [Plain EXCEPT !.alone = TRUE, !.domains = {[name |-> DotOrg, from |-> 0, to |-> 0]}],
     Both,
     [Both EXCEPT !.kind = "any", !.from = 2, !.DomainNum = 2],
     [Both EXCEPT !.domains = {}],
     ForPrefix,
     [ForPrefix EXCEPT !.kind = "both", !.from = 1, !.to = 4, !.DomainNum = 3],
     [ForPrefix EXCEPT !.HostName = {<<"ip", 2, 12>>}, !.DomainNum = 1]}

\* Starts on several days, with the domains of the file in any order.
LicenceScenarios ==
    {[fields |-> {}, svrFields |-> {}, lic |-> l, starts |-> IF l.kind = "plain" THEN 1 ELSE 2,
      domains |-> {Org, SubOrg, Host, Star},
      kinds |-> IF l = Plain THEN {"convert", "exclude", "friendly"} ELSE {"convert"}] : l \in MCLicences}

\* Prefixes, asked of licences that name some, all or none.
PrefixScenarios ==
    {[fields |-> {"m_pcUrlPrefix"}, svrFields |-> {}, lic |-> l, starts |-> 1,
      domains |-> {Org}, kinds |-> {"convert"}] :
        l \in {Plain, ForPrefix, [ForPrefix EXCEPT !.UrlPrefix = {Org}],
               [Plain EXCEPT !.HostName = {<<"ip", 2, 12>>}]}}

\* The fields that are combined with others, and every other by itself.
Slices ==
    {{"m_iFromEncode", "m_iToEncode"}, {"m_pUseTableFile", "m_iUseUnicodeTable"}}
    \cup {{f} : f \in DirFields \ {"m_iFromEncode", "m_iToEncode", "m_pUseTableFile",
                                   "m_iUseUnicodeTable", "m_pcUrlPrefix"}}

SectionScenarios ==
    {[fields |-> fs, svrFields |-> {}, lic |-> Plain, starts |-> 1,
      domains |-> {Org}, kinds |-> {"convert"}] : fs \in Slices}
    \cup {[fields |-> {}, svrFields |-> {f}, lic |-> Plain, starts |-> 1,
      domains |-> {Org}, kinds |-> {"convert"}] : f \in SvrFields}

MCScenarios == LicenceScenarios \cup PrefixScenarios \cup SectionScenarios

\* Files as they are written: the pairs one to a line.
Pairs == {<<<<"11", "12">>, <<"13", "14">>>>, <<<<"15", "16">>, <<"17", "18", "19", "1a">>>>}
OnePair == {<<<<"21", "22">>, <<"23", "24">>>>}

Lines(pairs, space, end) ==
    FoldLeft(LAMBDA s, pair : s \o pair[1] \o space \o pair[2] \o end, <<>>, SetToSeq(pairs))

MCFiles ==
    [narrow  |-> [isUtf16 |-> FALSE, pairs |-> Pairs, content |-> Lines(Pairs, <<TAB>>, <<CR, LF>>)],
     wide    |-> [isUtf16 |-> TRUE, pairs |-> Pairs,
                  content |-> <<"fe", "ff">> \o Lines(Pairs, <<ZERO, TAB, ZERO, TAB>>, <<ZERO, LF>>)],
     bars    |-> [isUtf16 |-> TRUE, pairs |-> OnePair,
                  content |-> Lines(OnePair, <<ZERO, BAR>>, <<>>)],
     default |-> [isUtf16 |-> TRUE, pairs |-> {}, content |-> <<>>]]

MCPrefixHost == <<Gate, NULL>>
=============================================================================

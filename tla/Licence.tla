------------------------------ MODULE Licence ------------------------------
(***************************************************************************)
(* The licence: which machine it is for, which domains and prefixes it     *)
(* names, and for how long (license.c, ifconfigip.c).                      *)
(*                                                                         *)
(* The plain text of a licence is a record:                                *)
(*   kind                "both", "any" or "plain", by the text's beginning *)
(*   from, to            the days of a "both" or "any" licence             *)
(*   domainTag, licenseTag   whether <domain> and <license> are in it      *)
(*   domains             its lines: [name, from, to], from = 0 if undated  *)
(*   mac, bindip         what it is bound to, or NULL                      *)
(*   iprange             <<lowest, highest>> address, or NULL              *)
(*   alone               whether <alone> is in it                          *)
(*   UrlPrefix, HostName the sets it lists of either                       *)
(*   DomainNum           how many domains it is for, 0 if it does not say  *)
(* A domain is a sequence: what stands before the first dot, then each     *)
(* part with the dot before it.  An address is <<"ip", x, y>>.  Days are *)
(* numbers; day 0 is no day.                                               *)
(***************************************************************************)
EXTENDS Integers, Sequences, SequencesExt, FiniteSetsExt

CONSTANTS Interfaces,   \* what the kernel lists: [name, ip, mac, up]
          IfreqSize,    \* bytes of a struct ifreq: 32, or 40 in a 64-bit build
          Resolve(_),   \* the address of a name, or NULL
          NULL

------------------------------------------------------------------------------
(* ifconfigip.c                                                            *)

\* The code steps through the list by 32 bytes, whatever an entry takes: it
\* meets the entries that begin at such a step.
Met == {i \in DOMAIN Interfaces : ((i - 1) * IfreqSize) % 32 = 0}

IsAlias(i) ==
    LET before == {j \in Met : j < i}
    IN  before # {} /\ Interfaces[Max(before)].name = Interfaces[i].name

get_ifi_info == {i \in Met : Interfaces[i].up /\ ~IsAlias(i)}

\* The address of eth0 overwrites what was in the buffer.
getlocalip(buffer) ==
    LET eth0 == {i \in get_ifi_info : Interfaces[i].name = "eth0"}
    IN  IF eth0 = {} THEN buffer ELSE Interfaces[Min(eth0)].ip

ip_is_local(ip) == \E i \in get_ifi_info : Interfaces[i].ip = ip

\* The kernel is asked for eth0, eth1, ... by name until one has no address.
Eth == <<"eth0", "eth1", "eth2">>
change_MAC(n) == {i.mac : i \in {j \in ToSet(Interfaces) : j.name = Eth[n]}}

MACaddressOK(mac) ==
    \E n \in DOMAIN Eth :
        mac \in change_MAC(n) /\ \A m \in 1 .. n - 1 : change_MAC(m) # {}

------------------------------------------------------------------------------
(* license.c                                                               *)

\* Padding each part to three digits orders addresses as their parts do.
formatip(ip) == ip[2] * 1000 + ip[3]

\* The buffer for this machine's address still holds the lower end.
InRange(iprange) ==
    LET this == formatip(getlocalip(iprange[1]))
    IN  formatip(iprange[1]) <= this /\ this <= formatip(iprange[2])

\* The machine is one the licence is for, and hosts the domain itself if the
\* licence is for a machine that stands alone.
RightMachine(lic, domain) ==
    /\ lic.mac = NULL \/ MACaddressOK(lic.mac)
    /\ lic.bindip = NULL \/ ip_is_local(lic.bindip)
    /\ lic.iprange = NULL \/ InRange(lic.iprange)
    /\ lic.alone => Resolve(domain) # NULL /\ ip_is_local(Resolve(domain))

CheckDomainTime(line, today) ==
    line.from # 0 => line.from <= today /\ today < line.to

\* The domains whose time it is when the licence is read.
make_domain_link(lic, today) ==
    {line.name : line \in {l \in lic.domains : CheckDomainTime(l, today)}}

\* Wrong variant: the domain need only be the beginning of a name on the list.
check_domainBegins(dnk, domain) ==
    \E i \in DOMAIN domain : \E name \in dnk : IsPrefix(SubSeq(domain, i, Len(domain)), name)

\* The domain, or what follows one of its dots, is on the list.
check_domain(dnk, domain) ==
    \E i \in DOMAIN domain : SubSeq(domain, i, Len(domain)) \in dnk

\* num domains were counted before this one.
CheckDomainNum(lic, domain, num) ==
    /\ lic.UrlPrefix # {} => domain # <<"*">>
    /\ lic.DomainNum > 0 => num + 1 <= lic.DomainNum

\* How often CheckLicense calls it for one domain.
Counts(lic, dnk) == IF lic.kind = "both" /\ dnk = {} THEN 2 ELSE 1

\* Without a list of domains the licence must be one for prefixes.
WrongLicense(lic, dnk) ==
    \/ lic.domainTag /\ ~lic.licenseTag
    \/ lic.kind # "any" /\ dnk = {} /\ lic.UrlPrefix = {}

ByDomain(lic, dnk, domain, num) ==
    lic.kind # "any" =>
        IF dnk = {} THEN CheckDomainNum(lic, domain, num) ELSE check_domain(dnk, domain)

\* cmptime is the day of the stamp, 0 if the file had none.
InTime(lic, cmptime, today) ==
    lic.kind # "plain" => lic.from <= today /\ today < lic.to /\ cmptime <= today

\* CheckLicense, for a licence that is not wrong.
CheckLicense(lic, dnk, domain, num, cmptime, today) ==
    /\ RightMachine(lic, domain)
    /\ ByDomain(lic, dnk, domain, num)
    /\ InTime(lic, cmptime, today)
    /\ CheckDomainNum(lic, domain, num + Counts(lic, dnk) - 1)

\* A list names a host, by itself or by its address; an empty one names any.
Names(list, host) ==
    list # {} => host \in list \/ Resolve(host) \in list

CheckHostName(lic, host) == Names(lic.HostName, host)

CheckUrlPrefix(lic, host) == CheckHostName(lic, host) /\ Names(lic.UrlPrefix, host)
=============================================================================

------------------------------ MODULE MCRfc3263 ------------------------------
(***************************************************************************)
(* Small URIs, proxy configurations and DNS contents for Rfc3263.          *)
(***************************************************************************)
EXTENDS Rfc3263

Uri(schemes, hosts, ports, transports) ==
    [scheme: schemes, host: hosts, port: ports, transport: transports]

Conf(naptr, srv, force, transports, ips) ==
    [use_dns |-> TRUE, use_dns_cache |-> TRUE, use_naptr |-> naptr, use_srv |-> srv,
     force |-> force, transports |-> transports, ips |-> ips]

Zone(naptrs, udp, tcp, tls, addr) ==
    {[naptr |-> n, srv |-> [udp |-> u, tcp |-> c, tls |-> s], addr |-> a] :
       n \in naptrs, u \in udp, c \in tcp, s \in tls, a \in addr}

Addr(domains, ones, twos) ==
    {[domain |-> d, h1 |-> x, h2 |-> y] : d \in domains, x \in ones, y \in twos}

Srv(host, priority, weight) == [host |-> host, priority |-> priority, weight |-> weight]
Naptr(transport, order, preference) ==
    [transport |-> transport, order |-> order, preference |-> preference]

Both == {"ipv4", "ipv6"}
All == <<"tls", "tcp", "udp">>

OneRecord == <<Srv("h1", 0, 1)>>
TwoPriorities == <<Srv("h2", 2, 0), Srv("h1", 1, 5)>>
TwoWeights == <<Srv("h1", 1, 1), Srv("h2", 1, 2)>>
NoWeight == <<Srv("h1", 1, 1), Srv("h2", 1, 0)>>

\* Every kind of URI; the configurations use NAPTR, SRV or addresses only.
SomeUris == Uri({"sip", "sips"}, {"domain"}, {"none", "uri"}, Transport \cup {"none"})
              \cup Uri({"sip", "sips"}, Both, {"none"}, {"none", "tcp", "tls"})
PlainUris == Uri({"sip", "sips"}, {"domain"}, {"none"}, {"none"})
TransportUris == Uri({"sip"}, {"domain"}, {"none"}, {"udp", "tls"})

SomeConfs ==
    {Conf(TRUE, TRUE, FALSE, All, <<"ipv4", "ipv6">>),
     Conf(TRUE, TRUE, TRUE, All, <<"ipv6", "ipv4">>),
     Conf(FALSE, TRUE, FALSE, <<"udp", "tls">>, <<"ipv6">>),
     Conf(FALSE, FALSE, FALSE, <<"tcp">>, <<"ipv4", "ipv6">>),
     [Conf(FALSE, TRUE, FALSE, All, <<"ipv4">>) EXCEPT !.use_dns = FALSE]}
TlsOnlyConfs == {Conf(FALSE, FALSE, FALSE, <<"tls">>, <<"ipv4">>)}

Naptrs == {<<>>, <<Naptr("tls", 1, 1)>>,
           <<Naptr("udp", 1, 1), Naptr("tls", 2, 1)>>,
           <<Naptr("udp", 2, 1), Naptr("tcp", 1, 1), Naptr("tls", 1, 2)>>}

\* SRV records of different priorities.
SomeZones ==
    Zone({<<>>}, {<<>>, OneRecord, TwoPriorities}, {<<>>, OneRecord}, {<<>>, TwoPriorities},
         Addr({{}, Both}, {{"ipv4"}, Both}, {{}, {"ipv6"}}))
      \cup Zone(Naptrs, {OneRecord, TwoPriorities}, {OneRecord}, {TwoPriorities},
                Addr({{}, Both}, {Both}, {{}, {"ipv6"}}))

\* SRV records of the same priority.
WeightZones ==
    Zone(Naptrs, {OneRecord, TwoWeights}, {OneRecord, TwoPriorities}, {TwoWeights},
         Addr({Both}, {{"ipv4"}, Both}, {Both}))

NoWeightZones == Zone({<<>>}, {NoWeight}, {<<>>}, {<<>>}, Addr({Both}, {Both}, {Both}))

\* NAPTR records whose SRV names lead nowhere.
LostZones == Zone(Naptrs, {<<>>}, {<<>>}, {<<>>}, Addr({Both}, {Both}, {Both}))

Product(uris, confs, zones) == [uri: uris, conf: confs, zone: zones]

\* All kinds of URIs and configurations against names of different priorities;
\* those without port against weights and lost names.
MCCases ==
    Product(SomeUris, SomeConfs, SomeZones)
      \cup Product(PlainUris \cup TransportUris, SomeConfs \cup TlsOnlyConfs,
                   WeightZones \cup NoWeightZones \cup LostZones)
=============================================================================

------------------------------- MODULE Rfc3263 -------------------------------
(***************************************************************************)
(* From a SIP URI to the targets of a request: the DNS procedures of       *)
(* RFC3263::Query (lib/oversip/sip/rfc3263.rb), and the part of Client     *)
(* that caches the result and walks over its targets (client.rb).          *)
(*                                                                         *)
(* What the DNS holds is chosen at the start (zone).  A query runs in one  *)
(* fiber and shares nothing but the cache with others, so that a           *)
(* resolution is one step.  A domain has one SRV name per transport,       *)
(* reached directly or through a NAPTR record; an empty list of records    *)
(* stands for a query that fails.  rand is a free choice.                  *)
(***************************************************************************)
EXTENDS Integers, Sequences, FiniteSets, SequencesExt

CONSTANTS
    Cases,      \* what to resolve, how and against what: [uri, conf, zone] with
                \* uri   [scheme, host, port, transport]
                \* conf  [use_dns, use_dns_cache, use_naptr, use_srv, force,
                \*        transports, ips], the last two in order of preference
                \* zone  [naptr, srv, addr], the contents of the DNS
    MaxRoutes   \* bound on the requests routed to the same URI

Transport == {"udp", "tcp", "tls"}
IpType == {"ipv4", "ipv6"}

ASSUME Rfc3263Constants ==
    /\ \A c \in Cases :
         /\ c.uri \in [scheme: {"sip", "sips"}, host: IpType \cup {"domain"},
                       port: {"none", "uri"}, transport: Transport \cup {"none"}]
         /\ c.conf.use_naptr => c.conf.use_srv
         /\ ToSet(c.conf.transports) \subseteq Transport
         /\ ToSet(c.conf.ips) \subseteq IpType /\ c.conf.ips # <<>>
    /\ MaxRoutes \in Nat \ {0}

VARIABLES
    uri, conf, zone,
    phase,      \* "route", "waiting" for DNS, "trying", "done" or "raised"
    callbacks,  \* callbacks the query has still to call
    failed,     \* rfc3263_failed was called
    cache,      \* the URI's entry in the DNS cache: a callback, or none
    stops,      \* @targets from @num_target on
    tried,      \* history: the targets tried
    routes      \* requests routed

vars == <<uri, conf, zone, phase, callbacks, failed, cache, stops, tried, routes>>
input == <<uri, conf, zone>>

-----------------------------------------------------------------------------
(* Values.  A Target is a record; a weighted SRV entry has a list of       *)
(* targets; a group holds the entries of one priority.  The elements of    *)
(* MultiTargets are SrvTargets, or single targets in the same clothes.     *)

Target(transport, host, type, port) ==
    [transport |-> transport, host |-> host, type |-> type, port |-> port]

Lone(t) == [srv |-> FALSE, groups |-> <<<<[weight |-> 0, targets |-> <<t>>]>>>>]

Result(kind, entries) == [kind |-> kind, entries |-> entries]

Multi(targets) == Result("multi", [i \in 1..Len(targets) |-> Lone(targets[i])])

Nil == Result("nil", <<>>)

\* The client is given the only element of a result instead of the result.  The
\* only element of SrvTargets is a plain Array.
Unwrapped(r) ==
    CASE r.kind = "multi" /\ Len(r.entries) = 1 ->
           Result(IF r.entries[1].srv THEN "srv" ELSE "target", r.entries)
      [] r.kind = "srv" /\ Len(r.entries[1].groups) = 1 -> Result("array", r.entries)
      [] OTHER -> r

Success(r) == [ok |-> TRUE, result |-> r]
Error == [ok |-> FALSE, result |-> Nil]

-----------------------------------------------------------------------------
(* The queries.                                                            *)

Has(transport) == transport \in ToSet(conf.transports)

DefaultPort(transport) == IF transport = "tls" THEN "5061" ELSE "5060"

\* resolve_A_AAAA.
ResolveAddresses(transport, host, port) ==
    LET types == SelectSeq(conf.ips, LAMBDA t : t \in zone.addr[host])
    IN [i \in 1..Len(types) |-> Target(transport, host, types[i], port)]

\* The entries of one priority whose host has an address.
Group(transport, priority) ==
    LET records == SelectSeq(zone.srv[transport], LAMBDA r :
                     /\ r.priority = priority
                     /\ ResolveAddresses(transport, r.host, "srv") # <<>>)
    IN [i \in 1..Len(records) |->
          [weight |-> records[i].weight,
           targets |-> ResolveAddresses(transport, records[i].host, "srv")]]

\* Faulty variant: the last priority first.
GroupsDescending(transport) ==
    LET priorities == SetToSortSeq({r.priority : r \in ToSet(zone.srv[transport])}, >)
    IN SelectSeq([i \in 1..Len(priorities) |-> Group(transport, priorities[i])],
                 LAMBDA g : g # <<>>)

\* All the groups, the lowest priority first.
Groups(transport) ==
    LET priorities == SetToSortSeq({r.priority : r \in ToSet(zone.srv[transport])}, <)
    IN SelectSeq([i \in 1..Len(priorities) |-> Group(transport, priorities[i])],
                 LAMBDA g : g # <<>>)

\* resolve_SRV.
ResolveSrv(transport) ==
    LET groups == Groups(transport)
    IN CASE groups = <<>> -> Nil
         [] Len(groups) = 1 /\ Len(groups[1]) = 1 -> Multi(groups[1][1].targets)
         [] OTHER -> Result("srv", <<[srv |-> TRUE, groups |-> groups]>>)

\* The addresses of the domain itself.
ResolveDomain(transport, port) ==
    LET targets == ResolveAddresses(transport, "domain", port)
    IN IF targets = <<>> THEN Error ELSE Success(Unwrapped(Multi(targets)))

\* The transport for a URI that names none, "nil" if there is none.
DefaultTransport ==
    CASE uri.scheme = "sips" -> "tls"
      [] uri.scheme = "sip" /\ Has("udp") -> "udp"
      [] uri.scheme = "sip" /\ ~Has("udp") /\ Has("tcp") -> "tcp"
      [] OTHER -> "nil"

\* The targets of SRV names, in the order of their transports.
ResolveAll(transports) ==
    Result("multi", FlattenSeq([i \in 1..Len(transports) |-> ResolveSrv(transports[i]).entries]))

\* Faulty variant: the search ends with the first transport that has records.
ContinueWithFirstSrv ==
    LET transports == SelectSeq(conf.transports, LAMBDA t :
                        (uri.scheme = "sip" \/ t = "tls") /\ ResolveSrv(t) # Nil)
    IN CASE transports # <<>> -> Success(Unwrapped(ResolveSrv(transports[1])))
         [] transports = <<>> /\ DefaultTransport = "nil" -> Error
         [] OTHER -> ResolveDomain(DefaultTransport, DefaultPort(DefaultTransport))

\* continue_with_SRV.
ContinueWithSrv ==
    LET transports == SelectSeq(conf.transports, LAMBDA t : uri.scheme = "sip" \/ t = "tls")
        found == ResolveAll(transports)
    IN CASE found.entries # <<>> -> Success(Unwrapped(found))
         [] found.entries = <<>> /\ DefaultTransport = "nil" -> Error
         [] OTHER -> ResolveDomain(DefaultTransport, DefaultPort(DefaultTransport))

\* The NAPTR records OverSIP can use.
UsableNaptrs ==
    SelectSeq(zone.naptr, LAMBDA n :
        Has(n.transport) /\ (n.transport = "tls" \/ uri.scheme = "sip"))

\* The orders in which the usable NAPTR records can be taken.
NaptrOrders ==
    IF conf.force
    THEN {FlattenSeq([i \in 1..Len(conf.transports) |->
            SelectSeq(UsableNaptrs, LAMBDA n : n.transport = conf.transports[i])])}
    ELSE {s \in SetToSeqs(ToSet(UsableNaptrs)) :
            \A i, j \in 1..Len(s) : i < j =>
              \/ s[i].order < s[j].order
              \/ s[i].order = s[j].order /\ s[i].preference >= s[j].preference}

\* A domain without port or transport: NAPTR, SRV or A/AAAA.
ResolvePlain ==
    CASE ~conf.use_naptr /\ conf.use_srv -> {<<ContinueWithSrv>>}
      [] ~conf.use_naptr /\ ~conf.use_srv /\ DefaultTransport # "nil" ->
           {<<ResolveDomain(DefaultTransport, DefaultPort(DefaultTransport))>>}
      [] ~conf.use_naptr /\ ~conf.use_srv /\ DefaultTransport = "nil" ->
           {<<Error, ResolveDomain("nil", "nil")>>}
      [] conf.use_naptr /\ UsableNaptrs = <<>> -> {<<ContinueWithSrv>>}
      [] OTHER ->
           {<<Success(Unwrapped(ResolveAll([i \in 1..Len(s) |-> s[i].transport])))>> :
              s \in NaptrOrders}

\* A domain with ;transport and without port: SRV, or A/AAAA if there is none.
ResolveTransport(transport) ==
    LET found == ResolveSrv(transport)
    IN CASE ~conf.use_srv \/ zone.srv[transport] = <<>> ->
              ResolveDomain(transport, DefaultPort(transport))
         [] conf.use_srv /\ zone.srv[transport] # <<>> /\ found = Nil -> Error
         [] OTHER -> Success(Unwrapped(found))

\* The transport the URI asks for, or has to have; "nil" is an error.
UriTransport ==
    CASE uri.transport = "none" -> DefaultTransport
      [] uri.transport = "tcp" /\ uri.scheme = "sips" /\ Has("tls") -> "tls"
      [] uri.transport \in {"udp", "tcp"} /\ uri.scheme = "sip" /\ Has(uri.transport) -> uri.transport
      [] uri.transport = "tls" /\ Has("tls") -> "tls"
      [] OTHER -> "nil"

\* The port of the URI, or that of the transport.
UriPort(transport) == IF uri.port = "none" THEN DefaultPort(transport) ELSE uri.port

Plain == uri.host = "domain" /\ uri.port = "none" /\ uri.transport = "none"

\* What OverSIP cannot or must not reach.
Unsupported ==
    \/ ~conf.use_dns /\ uri.host = "domain"
    \/ uri.scheme = "sips" /\ ~Has("tls")
    \/ ~Plain /\ UriTransport = "nil"
    \/ uri.host \in IpType /\ uri.host \notin ToSet(conf.ips)

\* resolve: the callbacks, one after the other, that a query can end with.
Resolve ==
    CASE Unsupported -> {<<Error>>}
      [] ~Unsupported /\ uri.host \in IpType ->
           {<<Success(Unwrapped(Multi(
                <<Target(UriTransport, uri.host, uri.host, UriPort(UriTransport))>>)))>>}
      [] ~Unsupported /\ uri.host = "domain" /\ uri.port # "none" ->
           {<<ResolveDomain(UriTransport, uri.port)>>}
      [] ~Unsupported /\ uri.host = "domain" /\ uri.port = "none" /\ ~Plain ->
           {<<ResolveTransport(UriTransport)>>}
      [] OTHER -> ResolvePlain

-----------------------------------------------------------------------------
(* The order of the targets.                                               *)

\* What the client takes for a target: one, or a list of them.
Stop(targets, nested) == [targets |-> targets, nested |-> nested]

Single(targets) == [i \in 1..Len(targets) |-> Stop(<<targets[i]>>, FALSE)]

\* randomize for one group: the entries with a weight in some order, and then
\* those without, each of which adds its list of targets as it is.
GroupOrders(group) ==
    LET weighted == {i \in 1..Len(group) : group[i].weight > 0}
        weightless == (1..Len(group)) \ weighted
    IN IF Len(group) = 1 THEN {Single(group[1].targets)}
       ELSE {FlattenSeq([k \in 1..Len(w) |-> Single(group[w[k]].targets)])
               \o [k \in 1..Len(z) |-> Stop(group[z[k]].targets, TRUE)] :
               w \in SetToSeqs(weighted), z \in SetToSeqs(weightless)}

\* randomize and flatten for a whole result.
StopOrders(r) ==
    LET groups == FlattenSeq([i \in 1..Len(r.entries) |-> r.entries[i].groups])
    IN IF r.kind = "array" THEN {<<>>}
       ELSE FoldLeft(LAMBDA orders, g : {o \o n : o \in orders, n \in GroupOrders(g)},
                     {<<>>}, groups)

-----------------------------------------------------------------------------
(* The client.                                                             *)

None == <<>>

Init ==
    /\ \E c \in Cases : uri = c.uri /\ conf = c.conf /\ zone = c.zone
    /\ phase = "route"
    /\ callbacks = <<>> /\ failed = FALSE
    /\ cache = None
    /\ stops = <<>> /\ tried = <<>>
    /\ routes = 0

\* check_dns_cache and do_dns.
Route ==
    /\ phase = "route"
    /\ phase' = "waiting"
    /\ IF cache # None THEN callbacks' = cache
       ELSE \E c \in Resolve : callbacks' = c
    /\ UNCHANGED <<input, failed, cache, stops, tried, routes>>

\* The result of a query is kept for the next request.
Remember == cache' = IF uri.host = "domain" /\ conf.use_dns_cache THEN <<Head(callbacks)>> ELSE cache

\* rfc3263_succeeded.
Rfc3263Succeeded ==
    /\ phase = "waiting" /\ callbacks # <<>> /\ Head(callbacks).ok
    /\ Remember
    /\ stops' \in StopOrders(Head(callbacks).result)
    /\ callbacks' = Tail(callbacks)
    /\ phase' = "trying"
    /\ UNCHANGED <<input, failed, tried, routes>>

\* rfc3263_failed.
Rfc3263Failed ==
    /\ phase = "waiting" /\ callbacks # <<>> /\ ~Head(callbacks).ok
    /\ Remember
    /\ callbacks' = Tail(callbacks)
    /\ failed' = TRUE
    /\ phase' = IF Len(callbacks) = 1 THEN "done" ELSE "waiting"
    /\ UNCHANGED <<input, stops, tried, routes>>

\* try_next_target: the target before failed.  A list has no transport, and a
\* client transaction for none raises.
TryNextTarget ==
    /\ phase = "trying" /\ stops # <<>>
    /\ stops' = Tail(stops)
    /\ IF Head(stops).nested \/ Head(stops).targets[1].transport = "nil"
       THEN phase' = "raised" /\ UNCHANGED tried
       ELSE tried' = Append(tried, Head(stops).targets[1]) /\ UNCHANGED phase
    /\ UNCHANGED <<input, callbacks, failed, cache, routes>>

\* no_more_targets.  When nothing was tried there is no status either, and the
\* reply of a Proxy raises.
NoMoreTargets ==
    /\ phase = "trying" /\ stops = <<>>
    /\ phase' = IF tried = <<>> THEN "raised" ELSE "done"
    /\ UNCHANGED <<input, callbacks, failed, cache, stops, tried, routes>>

\* Another request to the same URI, before the cache entry expires or after.
RouteAgain(expired) ==
    /\ phase \in {"done", "raised"} /\ routes + 1 < MaxRoutes
    /\ phase' = "route"
    /\ failed' = FALSE
    /\ stops' = <<>> /\ tried' = <<>>
    /\ cache' = IF expired THEN None ELSE cache
    /\ routes' = routes + 1
    /\ UNCHANGED <<input, callbacks>>

Next ==
    \/ Route \/ Rfc3263Succeeded \/ Rfc3263Failed
    \/ TryNextTarget \/ NoMoreTargets
    \/ \E expired \in BOOLEAN : RouteAgain(expired)

Spec == Init /\ [][Next]_vars

-----------------------------------------------------------------------------
(* What the DNS says, record by record.                                    *)

\* The targets behind the SRV name of a transport.
Behind(transport) ==
    {t \in {Target(transport, r.host, type, "srv") :
              r \in ToSet(zone.srv[transport]), type \in ToSet(conf.ips)} :
       t.type \in zone.addr[t.host]}

\* The targets at the domain's own addresses.
AtDomain(transport, port) ==
    {Target(transport, "domain", type, port) : type \in zone.addr["domain"] \cap ToSet(conf.ips)}

\* The SRV names that a URI without transport leads to.
Names ==
    LET proper == {t \in ToSet(conf.transports) : uri.scheme = "sips" => t = "tls"}
        chosen == {n.transport : n \in ToSet(zone.naptr)} \cap proper
    IN IF conf.use_naptr /\ chosen # {} THEN chosen ELSE proper

\* All the targets of a URI.
Wanted ==
    LET behind == UNION {Behind(t) : t \in Names}
        named == \E n \in ToSet(zone.naptr) : conf.use_naptr /\ n.transport \in Names
        domain == AtDomain(DefaultTransport, DefaultPort(DefaultTransport))
    IN CASE Unsupported -> {}
         [] ~Unsupported /\ uri.host # "domain" ->
              {Target(UriTransport, uri.host, uri.host, UriPort(UriTransport))}
         [] ~Unsupported /\ uri.host = "domain" /\ ~Plain ->
              IF uri.port = "none" /\ conf.use_srv /\ zone.srv[UriTransport] # <<>>
              THEN Behind(UriTransport)
              ELSE AtDomain(UriTransport, UriPort(UriTransport))
         [] OTHER ->
              IF conf.use_srv /\ (behind # {} \/ named) THEN behind
              ELSE IF DefaultTransport = "nil" THEN {} ELSE domain

-----------------------------------------------------------------------------
(* Properties.                                                             *)

TypeOK ==
    /\ [uri |-> uri, conf |-> conf, zone |-> zone] \in Cases
    /\ phase \in {"route", "waiting", "trying", "done", "raised"}
    /\ \A c \in ToSet(callbacks) \cup ToSet(cache) :
         c.ok \in BOOLEAN /\ c.result.kind \in {"nil", "target", "srv", "multi", "array"}
    /\ failed \in BOOLEAN
    /\ Len(cache) <= 1
    /\ \A t \in ToSet(tried) :
         t.transport \in Transport /\ t.type \in IpType /\ t.port \in {"5060", "5061", "uri", "srv"}
    /\ routes \in 0..(MaxRoutes - 1)

(* Four cases in which the code is known to raise, so that the request is  *)
(* not tried at the targets left and nobody is told.                       *)

\* The SRV names a request looks for.
SrvNames ==
    IF Unsupported \/ uri.host # "domain" \/ uri.port # "none" \/ ~conf.use_srv THEN {}
    ELSE IF Plain THEN Names ELSE {UriTransport}

\* The SRV records of a name that lead to an address.
Reachable(transport) ==
    {r \in ToSet(zone.srv[transport]) : zone.addr[r.host] \cap ToSet(conf.ips) # {}}

\* For a URI with ;transport the client gets the only element of SrvTargets
\* instead of the SrvTargets (rfc3263.rb:275), an Array it can do nothing with.
OnePriority ==
    \E t \in SrvNames :
      /\ ~Plain
      /\ Cardinality(Reachable(t)) > 1
      /\ \A r, s \in Reachable(t) : r.priority = s.priority

\* Usable NAPTR records whose SRV names all lead nowhere are a success without
\* targets (rfc3263.rb:403).
LostNaptrs == ~Unsupported /\ Plain /\ conf.use_naptr /\ UsableNaptrs # <<>> /\ Wanted = {}

\* A record of weight 0 beside others of its priority adds its list of targets
\* as if it were one target (rfc3263.rb:29).
Weightless ==
    \E t \in SrvNames : \E r, s \in Reachable(t) :
      r # s /\ r.priority = s.priority /\ r.weight = 0

\* Without SRV, UDP and TCP the query goes on after its error, with no transport
\* (rfc3263.rb:327), and its second result takes the place of the error in the
\* cache.
NoTransport == ~Unsupported /\ Plain /\ ~conf.use_srv /\ DefaultTransport = "nil"

\* A request that nobody answers is tried at every target the DNS holds for its
\* URI and at no other, also when the result comes from the cache; it is
\* answered with the error for it if there is none, and only then.  Only in the
\* four cases above does something raise before that, and even then the request
\* went to no target that is not its own.
EveryTargetTried ==
    /\ phase = "done" => /\ ToSet(tried) = Wanted
                         /\ failed <=> Wanted = {}
    /\ phase = "raised" => /\ ToSet(tried) \subseteq Wanted
                           /\ OnePriority \/ LostNaptrs \/ Weightless \/ NoTransport

\* Among the SRV records of one name those with the lower priority value come
\* first, and no target comes twice.
PriorityOrder ==
    \A i, j \in 1..Len(tried) : i < j =>
      /\ tried[i] # tried[j]
      /\ (tried[i].port = "srv" /\ tried[j].port = "srv" /\ tried[i].transport = tried[j].transport)
           => \A r, s \in ToSet(zone.srv[tried[i].transport]) :
                (r.host = tried[i].host /\ s.host = tried[j].host) => r.priority <= s.priority

\* "Transport preference is taken from NAPTR records (when present)", unless
\* the proxy forces its own: by order, and within an order by preference.  The
\* code puts the HIGHER preference value first (rfc3263.rb:369), where RFC 3403
\* says the lower one; this states the direction of the code.
TransportOrder ==
    LET rank(t) == CHOOSE k \in 1..Len(conf.transports) : conf.transports[k] = t
        own == conf.force \/ UsableNaptrs = <<>> \/ ~conf.use_naptr
    IN \A i, j \in 1..Len(tried) :
         (i < j /\ Plain /\ tried[i].transport # tried[j].transport) =>
           IF own THEN rank(tried[i].transport) < rank(tried[j].transport)
           ELSE \E n, m \in ToSet(zone.naptr) :
                  /\ n.transport = tried[i].transport /\ m.transport = tried[j].transport
                  /\ \/ n.order < m.order
                     \/ n.order = m.order /\ n.preference >= m.preference

\* The targets are tried in the order the DNS and the configuration of the
\* proxy give: by transport, then by priority, none of them twice.  (The order
\* of NAPTR records that differ in their preference only is the reverse of
\* RFC 3403's.)
TriedInOrder == PriorityOrder /\ TransportOrder
=============================================================================

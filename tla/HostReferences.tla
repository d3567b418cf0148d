--------------------------- MODULE HostReferences ---------------------------
(***************************************************************************)
(* The IPv6 references "[...]" inside the table-driven parsers,             *)
(* sip_message_parser.c, sip_uri_parser.c and ws_http_parser.c. Ragel has   *)
(* copied the machine of the reference to each of the 38 places of the      *)
(* grammars where a host may stand: these are the rows of the tables that   *)
(* read it, from behind the "[" up to the state behind the "]".             *)
(*                                                                          *)
(* The copies differ in their state numbers, in what else a text may still  *)
(* be at that point (a Contact value need not be a list of addresses at     *)
(* all) and, in the URI parser, in the condition on allow_name_addr under   *)
(* which their characters lead anywhere (`allow`).                          *)
(***************************************************************************)
EXTENDS AddressBlocks

\* The number of the k-th state of a copy: the state behind "]" may lie
\* among them.
At(first, exit, k) == first + k + (IF exit = first + 38 /\ k >= 38 THEN 1 ELSE 0)

LOCAL Close(exit) == To({"]"}, exit)

\* The six groups before the last 32 bits, each of which may be the one
\* before the "::".
ReferenceGroups(first, exit) ==
    GroupBefore(first, At(first, exit, 136), {})
    @@ GroupBefore(first + 5, At(first, exit, 122), {})
    @@ GroupBefore(first + 10, At(first, exit, 108), {})
    @@ GroupBefore(first + 15, At(first, exit, 94), {})
    @@ GroupBefore(first + 20, At(first, exit, 80), {})
    @@ GroupBefore(first + 25, At(first, exit, 66), {})

\* The last 32 bits: two groups, an IPv4 address, or "::" and up to one group.
ReferenceLast32(first, exit) ==
    LET n(k) == At(first, exit, k)
        Colon == To({":"}, n(53))
    IN n(30) :> (GroupFirst(n(31), n(57), n(65), {}) @@ To({":"}, n(64)))
       @@ GroupHex(n(31), n(50), n(32), Colon, {})
       @@ GroupOctet(n(57), n(65), n(50), n(32), Colon, {})
       @@ Octet(n(32), n(33), n(46), To({"."}, n(34)), {})
       @@ Octet(n(34), n(35), n(42), To({"."}, n(36)), {})
       @@ Octet(n(36), n(37), n(38), Close(exit), {})
       @@ n(53) :> (To(Hex, n(54)) @@ To({":"}, n(37)))
       @@ n(64) :> (To(Hex, n(54)) @@ Close(exit))
       @@ HexRun(<<n(54), n(55), n(56), n(37)>>, Close(exit), {})

\* After "::": states k to k + 13, where every group may be the last one;
\* Next is how a colon goes on to the states with one group less to come.
LOCAL After(first, exit, k, Next) ==
    LET n(i) == At(first, exit, k + i)
        Exit == To({":"}, n(5)) @@ Close(exit)
        dot == At(first, exit, 32)
    IN n(0) :> (GroupFirst(n(1), n(6), n(13), {}) @@ Close(exit))
       @@ n(5) :> Next
       @@ GroupHex(n(1), n(2), dot, Exit, {})
       @@ GroupOctet(n(6), n(13), n(2), dot, Exit, {})

LOCAL Fewer(first, exit, k) ==
    LET n(i) == At(first, exit, k + i) IN GroupFirst(n(1), n(6), n(13), {})

\* Two to four groups may still come.
ReferenceAfter234(first, exit) ==
    After(first, exit, 66, To(Hex, At(first, exit, 54)))
    @@ After(first, exit, 80, Fewer(first, exit, 66))
    @@ After(first, exit, 94, Fewer(first, exit, 80))

\* Five to seven; seven after a text that begins with "::".
ReferenceAfter567(first, exit) ==
    After(first, exit, 108, Fewer(first, exit, 94))
    @@ After(first, exit, 122, Fewer(first, exit, 108))
    @@ At(first, exit, 136) :> To({":"}, At(first, exit, 137))
    @@ After(first, exit, 137, Fewer(first, exit, 122))

Reference(first, exit) ==
    ReferenceGroups(first, exit) @@ ReferenceLast32(first, exit)
    @@ ReferenceAfter234(first, exit) @@ ReferenceAfter567(first, exit)

----------------------------------------------------------------------------
(* sip_message_parser.c.                                                    *)

\* The Request-URI: scheme:[..., scheme://[..., sip:[...
RuriAbsolute == Reference(6797, 6835)
RuriAuthority == Reference(7007, 7045)
RuriSip == Reference(7280, 7318)

\* The sent-by of Via, and the value of one of its parameters.
ViaSentBy == Reference(1163, 1201)
ViaParam == Reference(738, 736)

\* From: the URI within "<" and ">", the URI without them, a parameter.
FromAbsolute == Reference(3495, 3533)
FromAuthority == Reference(3705, 3743)
FromSip == Reference(3978, 4016)
FromBareAbsolute == Reference(4351, 4389)
FromBareAuthority == Reference(4564, 4602)
FromBareSip == Reference(4775, 4813)
FromParam == Reference(173, 171)

\* To, in the same way.
ToAbsolute == Reference(1364, 1402)
ToAuthority == Reference(1574, 1612)
ToSip == Reference(1847, 1885)
ToBareAbsolute == Reference(2220, 2258)
ToBareAuthority == Reference(2433, 2471)
ToBareSip == Reference(2644, 2682)
ToParam == Reference(505, 503)

\* Route, which has no URI but SIP URIs within "<" and ">".
RouteSip == Reference(3179, 3217)
RouteParam == Reference(2942, 2892)

\* Contact, once the text can only be a list of addresses: behind a display
\* name that no free text contains, or in an address after such a one.
ContactQuotedSip == Reference(5568, 5606)
ContactNextSip == Reference(5289, 5327)
ContactQuotedParam == Reference(5100, 5098)

\* Contact as long as the text may also be free text: what does not continue
\* the reference continues the free text (state 24) or ends the line (30). Of
\* the characters of free text only those of Chars are looked at.
Generic == To(Chars \ {"\r", "\n"}, 24) @@ Do({"\r"}, 30, {"store_hdr_value"})
OrGeneric(table) == [s \in DOMAIN table |-> table[s] @@ Generic]

ContactSipGroups == OrGeneric(ReferenceGroups(6351, 6389))
ContactSipLast32 == OrGeneric(ReferenceLast32(6351, 6389))
ContactSipAfter234 == OrGeneric(ReferenceAfter234(6351, 6389))
ContactSipAfter567 == OrGeneric(ReferenceAfter567(6351, 6389))

ContactBareSipGroups == OrGeneric(ReferenceGroups(6072, 6110))
ContactBareSipLast32 == OrGeneric(ReferenceLast32(6072, 6110))
ContactBareSipAfter234 == OrGeneric(ReferenceAfter234(6072, 6110))
ContactBareSipAfter567 == OrGeneric(ReferenceAfter567(6072, 6110))

ContactParamGroups == OrGeneric(ReferenceGroups(5885, 5883))
ContactParamLast32 == OrGeneric(ReferenceLast32(5885, 5883))
ContactParamAfter234 == OrGeneric(ReferenceAfter234(5885, 5883))
ContactParamAfter567 == OrGeneric(ReferenceAfter567(5885, 5883))

----------------------------------------------------------------------------
(* sip_uri_parser.c. The characters of a bare URI lead on only if           *)
(* allow_name_addr is 0, those of an address only if it is 1.               *)

When(condition, table) == IF condition THEN table ELSE [s \in DOMAIN table |-> Nowhere]

UriAbsoluteGroups(allow) == When(allow = 0, ReferenceGroups(1103, 1141))
UriAbsoluteLast32(allow) == When(allow = 0, ReferenceLast32(1103, 1141))
UriAbsoluteAfter234(allow) == When(allow = 0, ReferenceAfter234(1103, 1141))
UriAbsoluteAfter567(allow) == When(allow = 0, ReferenceAfter567(1103, 1141))

UriAuthorityGroups(allow) == When(allow = 0, ReferenceGroups(1313, 1351))
UriAuthorityLast32(allow) == When(allow = 0, ReferenceLast32(1313, 1351))
UriAuthorityAfter234(allow) == When(allow = 0, ReferenceAfter234(1313, 1351))
UriAuthorityAfter567(allow) == When(allow = 0, ReferenceAfter567(1313, 1351))

UriSipGroups(allow) == When(allow = 0, ReferenceGroups(1586, 1624))
UriSipLast32(allow) == When(allow = 0, ReferenceLast32(1586, 1624))
UriSipAfter234(allow) == When(allow = 0, ReferenceAfter234(1586, 1624))
UriSipAfter567(allow) == When(allow = 0, ReferenceAfter567(1586, 1624))

AddrAbsoluteGroups(allow) == When(allow = 1, ReferenceGroups(245, 283))
AddrAbsoluteLast32(allow) == When(allow = 1, ReferenceLast32(245, 283))
AddrAbsoluteAfter234(allow) == When(allow = 1, ReferenceAfter234(245, 283))
AddrAbsoluteAfter567(allow) == When(allow = 1, ReferenceAfter567(245, 283))

AddrAuthorityGroups(allow) == When(allow = 1, ReferenceGroups(455, 493))
AddrAuthorityLast32(allow) == When(allow = 1, ReferenceLast32(455, 493))
AddrAuthorityAfter234(allow) == When(allow = 1, ReferenceAfter234(455, 493))
AddrAuthorityAfter567(allow) == When(allow = 1, ReferenceAfter567(455, 493))

AddrSipGroups(allow) == When(allow = 1, ReferenceGroups(728, 766))
AddrSipLast32(allow) == When(allow = 1, ReferenceLast32(728, 766))
AddrSipAfter234(allow) == When(allow = 1, ReferenceAfter234(728, 766))
AddrSipAfter567(allow) == When(allow = 1, ReferenceAfter567(728, 766))

AddrBareAbsoluteGroups(allow) == When(allow = 1, ReferenceGroups(1943, 1981))
AddrBareAbsoluteLast32(allow) == When(allow = 1, ReferenceLast32(1943, 1981))
AddrBareAbsoluteAfter234(allow) == When(allow = 1, ReferenceAfter234(1943, 1981))
AddrBareAbsoluteAfter567(allow) == When(allow = 1, ReferenceAfter567(1943, 1981))

AddrBareAuthorityGroups(allow) == When(allow = 1, ReferenceGroups(2156, 2194))
AddrBareAuthorityLast32(allow) == When(allow = 1, ReferenceLast32(2156, 2194))
AddrBareAuthorityAfter234(allow) == When(allow = 1, ReferenceAfter234(2156, 2194))
AddrBareAuthorityAfter567(allow) == When(allow = 1, ReferenceAfter567(2156, 2194))

AddrBareSipGroups(allow) == When(allow = 1, ReferenceGroups(2367, 2405))
AddrBareSipLast32(allow) == When(allow = 1, ReferenceLast32(2367, 2405))
AddrBareSipAfter234(allow) == When(allow = 1, ReferenceAfter234(2367, 2405))
AddrBareSipAfter567(allow) == When(allow = 1, ReferenceAfter567(2367, 2405))

AddrParamGroups(allow) == When(allow = 1, ReferenceGroups(61, 59))
AddrParamLast32(allow) == When(allow = 1, ReferenceLast32(61, 59))
AddrParamAfter234(allow) == When(allow = 1, ReferenceAfter234(61, 59))
AddrParamAfter567(allow) == When(allow = 1, ReferenceAfter567(61, 59))

----------------------------------------------------------------------------
\* ws_http_parser.c: the Host of the request that opens a WebSocket.
HttpHost == Reference(100, 138)

----------------------------------------------------------------------------
\* Every copy: its rows, and the states it begins and ends in.
MessageReferences ==
    [ruri_absolute |-> RuriAbsolute,
     ruri_authority |-> RuriAuthority,
     ruri_sip |-> RuriSip,
     http_host |-> HttpHost,
     via_sent_by |-> ViaSentBy,
     via_param |-> ViaParam,
     from_absolute |-> FromAbsolute,
     from_authority |-> FromAuthority,
     from_sip |-> FromSip,
     from_bare_absolute |-> FromBareAbsolute,
     from_bare_authority |-> FromBareAuthority,
     from_bare_sip |-> FromBareSip,
     from_param |-> FromParam,
     to_absolute |-> ToAbsolute,
     to_authority |-> ToAuthority,
     to_sip |-> ToSip,
     to_bare_absolute |-> ToBareAbsolute,
     to_bare_authority |-> ToBareAuthority,
     to_bare_sip |-> ToBareSip,
     to_param |-> ToParam,
     route_sip |-> RouteSip,
     route_param |-> RouteParam,
     contact_quoted_sip |-> ContactQuotedSip,
     contact_next_sip |-> ContactNextSip,
     contact_quoted_param |-> ContactQuotedParam,
     contact_sip |-> ContactSipGroups @@ ContactSipLast32
        @@ ContactSipAfter234 @@ ContactSipAfter567,
     contact_bare_sip |-> ContactBareSipGroups @@ ContactBareSipLast32
        @@ ContactBareSipAfter234 @@ ContactBareSipAfter567,
     contact_param |-> ContactParamGroups @@ ContactParamLast32
        @@ ContactParamAfter234 @@ ContactParamAfter567]

UriReferences(allow) ==
    [uri_absolute |-> UriAbsoluteGroups(allow) @@ UriAbsoluteLast32(allow)
        @@ UriAbsoluteAfter234(allow) @@ UriAbsoluteAfter567(allow),
     uri_authority |-> UriAuthorityGroups(allow) @@ UriAuthorityLast32(allow)
        @@ UriAuthorityAfter234(allow) @@ UriAuthorityAfter567(allow),
     uri_sip |-> UriSipGroups(allow) @@ UriSipLast32(allow)
        @@ UriSipAfter234(allow) @@ UriSipAfter567(allow),
     addr_absolute |-> AddrAbsoluteGroups(allow) @@ AddrAbsoluteLast32(allow)
        @@ AddrAbsoluteAfter234(allow) @@ AddrAbsoluteAfter567(allow),
     addr_authority |-> AddrAuthorityGroups(allow) @@ AddrAuthorityLast32(allow)
        @@ AddrAuthorityAfter234(allow) @@ AddrAuthorityAfter567(allow),
     addr_sip |-> AddrSipGroups(allow) @@ AddrSipLast32(allow)
        @@ AddrSipAfter234(allow) @@ AddrSipAfter567(allow),
     addr_bare_absolute |-> AddrBareAbsoluteGroups(allow) @@ AddrBareAbsoluteLast32(allow)
        @@ AddrBareAbsoluteAfter234(allow) @@ AddrBareAbsoluteAfter567(allow),
     addr_bare_authority |-> AddrBareAuthorityGroups(allow) @@ AddrBareAuthorityLast32(allow)
        @@ AddrBareAuthorityAfter234(allow) @@ AddrBareAuthorityAfter567(allow),
     addr_bare_sip |-> AddrBareSipGroups(allow) @@ AddrBareSipLast32(allow)
        @@ AddrBareSipAfter234(allow) @@ AddrBareSipAfter567(allow),
     addr_param |-> AddrParamGroups(allow) @@ AddrParamLast32(allow)
        @@ AddrParamAfter234(allow) @@ AddrParamAfter567(allow)]

LOCAL Place(start, end) == [first |-> start, final |-> {end}]

MessagePlaces ==
    [ruri_absolute |-> Place(6797, 6835),
     ruri_authority |-> Place(7007, 7045),
     ruri_sip |-> Place(7280, 7318),
     http_host |-> Place(100, 138),
     via_sent_by |-> Place(1163, 1201),
     via_param |-> Place(738, 736),
     from_absolute |-> Place(3495, 3533),
     from_authority |-> Place(3705, 3743),
     from_sip |-> Place(3978, 4016),
     from_bare_absolute |-> Place(4351, 4389),
     from_bare_authority |-> Place(4564, 4602),
     from_bare_sip |-> Place(4775, 4813),
     from_param |-> Place(173, 171),
     to_absolute |-> Place(1364, 1402),
     to_authority |-> Place(1574, 1612),
     to_sip |-> Place(1847, 1885),
     to_bare_absolute |-> Place(2220, 2258),
     to_bare_authority |-> Place(2433, 2471),
     to_bare_sip |-> Place(2644, 2682),
     to_param |-> Place(505, 503),
     route_sip |-> Place(3179, 3217),
     route_param |-> Place(2942, 2892),
     contact_quoted_sip |-> Place(5568, 5606),
     contact_next_sip |-> Place(5289, 5327),
     contact_quoted_param |-> Place(5100, 5098),
     contact_sip |-> Place(6351, 6389),
     contact_bare_sip |-> Place(6072, 6110),
     contact_param |-> Place(5885, 5883)]

UriPlaces ==
    [uri_absolute |-> Place(1103, 1141),
     uri_authority |-> Place(1313, 1351),
     uri_sip |-> Place(1586, 1624),
     addr_absolute |-> Place(245, 283),
     addr_authority |-> Place(455, 493),
     addr_sip |-> Place(728, 766),
     addr_bare_absolute |-> Place(1943, 1981),
     addr_bare_authority |-> Place(2156, 2194),
     addr_bare_sip |-> Place(2367, 2405),
     addr_param |-> Place(61, 59)]
=============================================================================

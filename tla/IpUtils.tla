------------------------------- MODULE IpUtils -------------------------------
(***************************************************************************)
(* The machine of utils_ip_parser_execute (ip_utils.c): an IPv4 address, an *)
(* IPv6 address or an IPv6 reference "[...]". The type is set by every      *)
(* character that completes an address (the Ragel operator @), so entering  *)
(* a final state sets it.                                                   *)
(***************************************************************************)
EXTENDS AddressBlocks

LOCAL V4 == {"is_ipv4"}
LOCAL V6 == {"is_ipv6"}
LOCAL Bracket == Do({"]"}, 237, {"is_ipv6_reference"})

\* utils_ip_parser_first_final: 237 .. 327 are final.
IpFinal == 237..327

\* The first character; after "0" the text may be of any of the three kinds.
IpStart == 1 :> (GroupFirst(2, 76, 85, {}) @@ To({":"}, 83) @@ To({"["}, 86))

\* An IPv4 address: the first three octets and the last.
IpOctet1 == Octet(3, 4, 12, To({"."}, 5), {})
IpOctet2 == Octet(5, 6, 8, To({"."}, 7), {})
IpOctet4 == Octet(7, 237, 238, Nowhere, V4)

\* The first group of an IPv6 address, which may also be an IPv4 address.
IpGroup1 == GroupHex(2, 16, 3, To({":"}, 19), {})
IpGroup1Octet == GroupOctet(76, 85, 16, 3, To({":"}, 19), {})

\* Groups 2 to 6, each of which a "::" may precede.
IpGroups23 == GroupBefore(19, 302, V6) @@ GroupBefore(24, 289, V6)
IpGroups45 == GroupBefore(29, 276, V6) @@ GroupBefore(34, 263, V6)
IpGroup6 == GroupBefore(39, 250, V6)

\* With six groups read: the last 32 bits, or "::" and at most one group.
IpLast32 == 44 :> (GroupFirst(45, 63, 70, {}) @@ Do({":"}, 249, V6))
            @@ GroupHex(45, 59, 46, To({":"}, 62), {})
IpLast32Octet == GroupOctet(63, 70, 59, 46, To({":"}, 62), {})
            @@ 249 :> Do(Hex, 246, V6)
IpGroup8 == 62 :> (Do(Hex, 246, V6) @@ Do({":"}, 237, V6))
            @@ HexRun(<<246, 247, 248, 237>>, Nowhere, V6)
IpTailOctet12 == Octet(46, 47, 55, To({"."}, 48), {}) @@ Octet(48, 49, 51, To({"."}, 50), {})
IpTailOctet4 == Octet(50, 237, 242, Nowhere, V6)

\* After "::" with room for n more groups: every group may be the last one.
LOCAL After(start, zero, one, letter, colon) ==
    start :> GroupFirst(zero, one, letter, V6)
    @@ GroupHex(zero, zero + 1, 46, To({":"}, colon), V6)
LOCAL AfterOctet(one, run, colon) ==
    GroupOctet(one, one + 7, run, 46, To({":"}, colon), V6)

IpAfter2 == After(250, 251, 255, 262, 71) @@ 71 :> Do(Hex, 246, V6)
IpAfter2Octet == AfterOctet(255, 252, 71)
IpAfter3 == After(263, 264, 268, 275, 72) @@ 72 :> GroupFirst(251, 255, 262, V6)
IpAfter3Octet == AfterOctet(268, 265, 72)
IpAfter4 == After(276, 277, 281, 288, 73) @@ 73 :> GroupFirst(264, 268, 275, V6)
IpAfter4Octet == AfterOctet(281, 278, 73)
IpAfter5 == After(289, 290, 294, 301, 74) @@ 74 :> GroupFirst(277, 281, 288, V6)
IpAfter5Octet == AfterOctet(294, 291, 74)
IpAfter6 == After(302, 303, 307, 314, 75) @@ 75 :> GroupFirst(290, 294, 301, V6)
IpAfter6Octet == AfterOctet(307, 304, 75)
IpAfter7 == 83 :> Do({":"}, 315, V6)
            @@ After(315, 316, 320, 327, 84) @@ 84 :> GroupFirst(303, 307, 314, V6)
IpAfter7Octet == AfterOctet(320, 317, 84)

----------------------------------------------------------------------------
(* The same address between brackets: "]" completes it.                     *)

IpRef123 == 86 :> (To(Hex, 87) @@ To({":"}, 222))
            @@ HexRun(<<87, 88, 89, 90>>, To({":"}, 91), {})
            @@ GroupBefore(91, 208, {})
IpRefGroups34 == GroupBefore(96, 194, {}) @@ GroupBefore(101, 180, {})
IpRefGroups56 == GroupBefore(106, 166, {}) @@ GroupBefore(111, 152, {})
IpRefLast32 == 116 :> (GroupFirst(117, 143, 151, {}) @@ To({":"}, 150))
            @@ 150 :> (To(Hex, 140) @@ Bracket)
            @@ GroupHex(117, 136, 118, To({":"}, 139), {})
IpRefLast32Octet == GroupOctet(143, 151, 136, 118, To({":"}, 139), {})
IpRefGroup8 == 139 :> (To(Hex, 140) @@ To({":"}, 123))
            @@ HexRun(<<140, 141, 142, 123>>, Bracket, {})
IpRefOctets == Octet(118, 119, 132, To({"."}, 120), {})
            @@ Octet(120, 121, 128, To({"."}, 122), {})
            @@ Octet(122, 123, 124, Bracket, {})

LOCAL RefAfter(start) ==
    start :> (GroupFirst(start + 1, start + 6, start + 13, {}) @@ Bracket)
    @@ GroupHex(start + 1, start + 2, 118, To({":"}, start + 5) @@ Bracket, {})
LOCAL RefAfterOctet(start) ==
    GroupOctet(start + 6, start + 13, start + 2, 118, To({":"}, start + 5) @@ Bracket, {})
LOCAL RefNext(start) == GroupFirst(start + 1, start + 6, start + 13, {})

IpRefAfter2 == RefAfter(152) @@ 157 :> To(Hex, 140)
IpRefAfter2Octet == RefAfterOctet(152)
IpRefAfter3 == RefAfter(166) @@ 171 :> RefNext(152)
IpRefAfter3Octet == RefAfterOctet(166)
IpRefAfter4 == RefAfter(180) @@ 185 :> RefNext(166)
IpRefAfter4Octet == RefAfterOctet(180)
IpRefAfter5 == RefAfter(194) @@ 199 :> RefNext(180)
IpRefAfter5Octet == RefAfterOctet(194)
IpRefAfter6 == RefAfter(208) @@ 213 :> RefNext(194)
IpRefAfter6Octet == RefAfterOctet(208)
IpRefAfter7 == 222 :> To({":"}, 223) @@ RefAfter(223) @@ 228 :> RefNext(208)
IpRefAfter7Octet == RefAfterOctet(223)

\* The whole machine.
IpTable ==
    IpStart @@ IpOctet1 @@ IpOctet2 @@ IpOctet4 @@ IpGroup1 @@ IpGroup1Octet
    @@ IpGroups23 @@ IpGroups45 @@ IpGroup6 @@ IpLast32 @@ IpLast32Octet
    @@ IpGroup8 @@ IpTailOctet12 @@ IpTailOctet4
    @@ IpAfter2 @@ IpAfter2Octet @@ IpAfter3 @@ IpAfter3Octet @@ IpAfter4
    @@ IpAfter4Octet @@ IpAfter5 @@ IpAfter5Octet @@ IpAfter6 @@ IpAfter6Octet
    @@ IpAfter7 @@ IpAfter7Octet
    @@ IpRef123 @@ IpRefGroups34 @@ IpRefGroups56 @@ IpRefLast32
    @@ IpRefLast32Octet @@ IpRefGroup8 @@ IpRefOctets
    @@ IpRefAfter2 @@ IpRefAfter2Octet @@ IpRefAfter3 @@ IpRefAfter3Octet
    @@ IpRefAfter4 @@ IpRefAfter4Octet @@ IpRefAfter5 @@ IpRefAfter5Octet
    @@ IpRefAfter6 @@ IpRefAfter6Octet @@ IpRefAfter7 @@ IpRefAfter7Octet
=============================================================================

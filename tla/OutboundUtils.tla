---------------------------- MODULE OutboundUtils ----------------------------
(***************************************************************************)
(* The machine of outbound_udp_flow_token_parser_execute                    *)
(* (outbound_utils.c): the address and the port of an Outbound flow token,  *)
(* "IP_port". The type and the end of the address are set when "_" leaves   *)
(* it (the Ragel operator %), the end of the port and `finished` by every   *)
(* digit that completes a port (@).                                         *)
(***************************************************************************)
EXTENDS AddressBlocks

LOCAL Exit4 == Do({"_"}, 9, {"is_ipv4", "end_ip"})
LOCAL Exit6 == Do({"_"}, 9, {"is_ipv6", "end_ip"})

\* utils_outbound_udp_flow_token_parser_first_final
ObFinal == 182..190

ObStart == 1 :> (GroupFirst(2, 159, 181, {"start_ip"}) @@ Do({":"}, 166, {"start_ip"}))

\* An IPv4 address.
ObOctets12 == Octet(3, 4, 21, To({"."}, 5), {}) @@ Octet(5, 6, 17, To({"."}, 7), {})
ObOctet4 == Octet(7, 8, 13, Exit4, {})

\* The port, after "_".
ObPort == Port(9, 10, <<182, 183, 184, 186>>, 185, 187, Nowhere,
               {"start_port"}, {"end_port"})

\* The first group of an IPv6 address, which may also be an IPv4 address.
ObGroup1 == GroupHex(2, 25, 3, To({":"}, 28), {})
ObGroup1Octet == GroupOctet(159, 181, 25, 3, To({":"}, 28), {})

\* Groups 2 to 6, each of which a "::" may precede.
ObGroups23 == GroupBefore(28, 145, {}) @@ GroupBefore(33, 131, {})
ObGroups45 == GroupBefore(38, 117, {}) @@ GroupBefore(43, 103, {})
ObGroup6 == GroupBefore(48, 89, {})

\* With six groups read: the last 32 bits, or "::" and at most one group.
ObLast32 == 53 :> (GroupFirst(54, 80, 88, {}) @@ To({":"}, 87))
            @@ 87 :> (To(Hex, 77) @@ Exit6)
            @@ GroupHex(54, 73, 55, To({":"}, 76), {})
ObLast32Octet == GroupOctet(80, 88, 73, 55, To({":"}, 76), {})
ObGroup8 == 76 :> (To(Hex, 77) @@ To({":"}, 60))
            @@ HexRun(<<77, 78, 79, 60>>, Exit6, {})
ObTailOctets == Octet(55, 56, 69, To({"."}, 57), {})
            @@ Octet(57, 58, 65, To({"."}, 59), {})
            @@ Octet(59, 60, 61, Exit6, {})

\* After "::" with room for n more groups: every group may be the last one.
LOCAL After(start) ==
    start :> (GroupFirst(start + 1, start + 6, start + 13, {}) @@ Exit6)
    @@ GroupHex(start + 1, start + 2, 55, To({":"}, start + 5) @@ Exit6, {})
LOCAL AfterOctet(start) ==
    GroupOctet(start + 6, start + 13, start + 2, 55, To({":"}, start + 5) @@ Exit6, {})
LOCAL Next(start) == GroupFirst(start + 1, start + 6, start + 13, {})

ObAfter2 == After(89) @@ 94 :> To(Hex, 77)
ObAfter2Octet == AfterOctet(89)
ObAfter3 == After(103) @@ 108 :> Next(89)
ObAfter3Octet == AfterOctet(103)
ObAfter4 == After(117) @@ 122 :> Next(103)
ObAfter4Octet == AfterOctet(117)
ObAfter5 == After(131) @@ 136 :> Next(117)
ObAfter5Octet == AfterOctet(131)
ObAfter6 == After(145) @@ 150 :> Next(131)
ObAfter6Octet == AfterOctet(145)
ObAfter7 == 166 :> To({":"}, 167) @@ After(167) @@ 172 :> Next(145)
ObAfter7Octet == AfterOctet(167)

\* The whole machine.
ObTable ==
    ObStart @@ ObOctets12 @@ ObOctet4 @@ ObPort @@ ObGroup1 @@ ObGroup1Octet
    @@ ObGroups23 @@ ObGroups45 @@ ObGroup6 @@ ObLast32 @@ ObLast32Octet
    @@ ObGroup8 @@ ObTailOctets @@ ObAfter2 @@ ObAfter2Octet @@ ObAfter3
    @@ ObAfter3Octet @@ ObAfter4 @@ ObAfter4Octet @@ ObAfter5 @@ ObAfter5Octet
    @@ ObAfter6 @@ ObAfter6Octet @@ ObAfter7 @@ ObAfter7Octet
=============================================================================

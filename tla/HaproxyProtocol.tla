--------------------------- MODULE HaproxyProtocol ---------------------------
(***************************************************************************)
(* The machine of struct_haproxy_protocol_parser_execute                    *)
(* (haproxy_protocol.c): the line "PROXY TCP4 source destination sport      *)
(* dport\r\n" that a TLS tunnel sends before the traffic it forwards. Only  *)
(* the source address and port are kept; both addresses are read by a copy  *)
(* of the same machine.                                                     *)
(***************************************************************************)
EXTENDS AddressBlocks

LOCAL Exit4 == Do({" "}, 20, {"is_ipv4", "end_ip"})
LOCAL Exit6 == Do({" "}, 20, {"is_ipv6", "end_ip"})
LOCAL ExitDst == To({" "}, 28)

\* utils_haproxy_protocol_parser_first_final
HaFinal == {375}

\* "PROXY TCP", "4" or "6", a space.
HaWord == LET word == <<"P", "R", "O", "X", "Y", " ", "T", "C", "P">>
          IN [s \in 1..9 |-> To({word[s]}, s + 1)]
             @@ 10 :> To({"4", "6"}, 11) @@ 11 :> To({" "}, 12)
HaStart == 12 :> (GroupFirst(13, 352, 374, {"start_ip"}) @@ Do({":"}, 359, {"start_ip"}))

\* The source: an IPv4 address.
HaSrcOctets == Octet(14, 15, 214, To({"."}, 16), {}) @@ Octet(16, 17, 210, To({"."}, 18), {})
               @@ Octet(18, 19, 206, Exit4, {})

\* The destination's first character; its last 32 bits may also be all of it.
HaDstStart == 20 :> (GroupFirst(21, 183, 205, {}) @@ To({":"}, 190))
HaDstOctets == Octet(22, 23, 63, To({"."}, 24), {}) @@ Octet(24, 25, 59, To({"."}, 26), {})
               @@ Octet(26, 27, 55, ExitDst, {})

\* The source's port, kept, and the destination's, which CRLF ends.
HaSrcPort == Port(28, 29, <<32, 47, 48, 50>>, 49, 51, To({" "}, 33),
                  {"start_port"}, {"end_port"})
HaDstPort == Port(33, 34, <<37, 39, 40, 42>>, 41, 43, To({"\r"}, 38), {}, {})
             @@ 38 :> Do({"\n"}, 375, {"done"}) @@ 375 :> Nowhere

----------------------------------------------------------------------------
(* The destination as an IPv6 address.                                      *)

HaDstGroup1 == GroupHex(21, 67, 22, To({":"}, 70), {})
HaDstGroup1Octet == GroupOctet(183, 205, 67, 22, To({":"}, 70), {})
HaDstGroups23 == GroupBefore(70, 169, {}) @@ GroupBefore(75, 155, {})
HaDstGroups45 == GroupBefore(80, 141, {}) @@ GroupBefore(85, 127, {})
HaDstGroup6 == GroupBefore(90, 113, {})
HaDstLast32 == 95 :> (GroupFirst(96, 104, 112, {}) @@ To({":"}, 111))
               @@ 111 :> (To(Hex, 101) @@ ExitDst)
               @@ GroupHex(96, 97, 22, To({":"}, 100), {})
HaDstLast32Octet == GroupOctet(104, 112, 97, 22, To({":"}, 100), {})
HaDstGroup8 == 100 :> (To(Hex, 101) @@ To({":"}, 27))
               @@ HexRun(<<101, 102, 103, 27>>, ExitDst, {})

\* After "::" with room for n more groups: every group may be the last one.
LOCAL After(start, dot, Exit) ==
    start :> (GroupFirst(start + 1, start + 6, start + 13, {}) @@ Exit)
    @@ GroupHex(start + 1, start + 2, dot, To({":"}, start + 5) @@ Exit, {})
LOCAL AfterOctet(start, dot, Exit) ==
    GroupOctet(start + 6, start + 13, start + 2, dot, To({":"}, start + 5) @@ Exit, {})
LOCAL Next(start) == GroupFirst(start + 1, start + 6, start + 13, {})

HaDstAfter2 == After(113, 22, ExitDst) @@ 118 :> To(Hex, 101)
HaDstAfter2Octet == AfterOctet(113, 22, ExitDst)
HaDstAfter3 == After(127, 22, ExitDst) @@ 132 :> Next(113)
HaDstAfter3Octet == AfterOctet(127, 22, ExitDst)
HaDstAfter4 == After(141, 22, ExitDst) @@ 146 :> Next(127)
HaDstAfter4Octet == AfterOctet(141, 22, ExitDst)
HaDstAfter5 == After(155, 22, ExitDst) @@ 160 :> Next(141)
HaDstAfter5Octet == AfterOctet(155, 22, ExitDst)
HaDstAfter6 == After(169, 22, ExitDst) @@ 174 :> Next(155)
HaDstAfter6Octet == AfterOctet(169, 22, ExitDst)
HaDstAfter7 == 190 :> To({":"}, 191) @@ After(191, 22, ExitDst) @@ 196 :> Next(169)
HaDstAfter7Octet == AfterOctet(191, 22, ExitDst)

----------------------------------------------------------------------------
(* The source as an IPv6 address.                                           *)

HaSrcGroup1 == GroupHex(13, 218, 14, To({":"}, 221), {})
HaSrcGroup1Octet == GroupOctet(352, 374, 218, 14, To({":"}, 221), {})
HaSrcGroups23 == GroupBefore(221, 338, {}) @@ GroupBefore(226, 324, {})
HaSrcGroups45 == GroupBefore(231, 310, {}) @@ GroupBefore(236, 296, {})
HaSrcGroup6 == GroupBefore(241, 282, {})
HaSrcLast32 == 246 :> (GroupFirst(247, 273, 281, {}) @@ To({":"}, 280))
               @@ 280 :> (To(Hex, 270) @@ Exit6)
               @@ GroupHex(247, 266, 248, To({":"}, 269), {})
HaSrcLast32Octet == GroupOctet(273, 281, 266, 248, To({":"}, 269), {})
HaSrcGroup8 == 269 :> (To(Hex, 270) @@ To({":"}, 253))
               @@ HexRun(<<270, 271, 272, 253>>, Exit6, {})
HaSrcTailOctets == Octet(248, 249, 262, To({"."}, 250), {})
               @@ Octet(250, 251, 258, To({"."}, 252), {})
               @@ Octet(252, 253, 254, Exit6, {})

HaSrcAfter2 == After(282, 248, Exit6) @@ 287 :> To(Hex, 270)
HaSrcAfter2Octet == AfterOctet(282, 248, Exit6)
HaSrcAfter3 == After(296, 248, Exit6) @@ 301 :> Next(282)
HaSrcAfter3Octet == AfterOctet(296, 248, Exit6)
HaSrcAfter4 == After(310, 248, Exit6) @@ 315 :> Next(296)
HaSrcAfter4Octet == AfterOctet(310, 248, Exit6)
HaSrcAfter5 == After(324, 248, Exit6) @@ 329 :> Next(310)
HaSrcAfter5Octet == AfterOctet(324, 248, Exit6)
HaSrcAfter6 == After(338, 248, Exit6) @@ 343 :> Next(324)
HaSrcAfter6Octet == AfterOctet(338, 248, Exit6)
HaSrcAfter7 == 359 :> To({":"}, 360) @@ After(360, 248, Exit6) @@ 365 :> Next(338)
HaSrcAfter7Octet == AfterOctet(360, 248, Exit6)

\* The whole machine.
HaTable ==
    HaWord @@ HaStart @@ HaSrcOctets @@ HaDstStart @@ HaDstOctets @@ HaSrcPort @@ HaDstPort
    @@ HaDstGroup1 @@ HaDstGroup1Octet @@ HaDstGroups23 @@ HaDstGroups45
    @@ HaDstGroup6 @@ HaDstLast32 @@ HaDstLast32Octet @@ HaDstGroup8
    @@ HaDstAfter2 @@ HaDstAfter2Octet @@ HaDstAfter3 @@ HaDstAfter3Octet
    @@ HaDstAfter4 @@ HaDstAfter4Octet @@ HaDstAfter5 @@ HaDstAfter5Octet
    @@ HaDstAfter6 @@ HaDstAfter6Octet @@ HaDstAfter7 @@ HaDstAfter7Octet
    @@ HaSrcGroup1 @@ HaSrcGroup1Octet @@ HaSrcGroups23 @@ HaSrcGroups45
    @@ HaSrcGroup6 @@ HaSrcLast32 @@ HaSrcLast32Octet @@ HaSrcGroup8 @@ HaSrcTailOctets
    @@ HaSrcAfter2 @@ HaSrcAfter2Octet @@ HaSrcAfter3 @@ HaSrcAfter3Octet
    @@ HaSrcAfter4 @@ HaSrcAfter4Octet @@ HaSrcAfter5 @@ HaSrcAfter5Octet
    @@ HaSrcAfter6 @@ HaSrcAfter6Octet @@ HaSrcAfter7 @@ HaSrcAfter7Octet
=============================================================================

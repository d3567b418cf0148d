---------------------------- MODULE SipUriParser ----------------------------
(***************************************************************************)
(* The parser of a URI or an address on its own (sip_uri_parser.c), which   *)
(* Uri.parse and NameAddr.parse use. Its actions are those of the message   *)
(* parser that concern a URI, without the question whether it is wanted.    *)
(***************************************************************************)
EXTENDS SipMessageParser

\* The static struct, and a new object.
UriParserWith(quoted) ==
    [mark |-> Nil, uri_start |-> Nil, uri_param_key_start |-> Nil, uri_param_key_len |-> Nil,
     uri_param_value_start |-> Nil, uri_param_value_len |-> Nil, uri_scheme |-> Nil,
     uri_display_name_quoted |-> quoted, parsed |-> NewUri]

\* Faulty variant: the flag of an earlier text is left over.
UriParserStale == UriParserWith(TRUE)

\* sip_uri_parser_reset.
UriParser == UriParserWith(FALSE)

UriPerform(s, a, text) ==
    CASE a \in Pointers -> SetPointer(s, a, text)
      [] a \in UriActions -> [s EXCEPT !.parsed = SetUri(@, s, a, text)]
      [] a = "write_uri" -> [s EXCEPT !.parsed.uri = Span(s.uri_start, text)]

sip_uri_parser_execute(actions) ==
    LET after[i \in 0..Len(actions)] ==
          IF i = 0 THEN UriParser
          ELSE UriPerform(after[i - 1], actions[i][1], actions[i][2])
    IN after[Len(actions)].parsed

\* parse_uri: without allow_name_addr the text must be a URI and nothing else;
\* with it, the parameters behind a URI without brackets are not the URI's.
parse_uri(v, allow_name_addr) ==
    IF ~allow_name_addr /\ (v.brackets \/ v.display # Nil \/ v.params # <<>>) THEN FALSE
    ELSE sip_uri_parser_execute(NameAddr(v))
=============================================================================

# OverSIP: TLA+ specifications, model checking and proofs

OverSIP is an asynchronous SIP proxy and SIP-over-WebSocket server written in
Ruby on top of EventMachine, with its parsers in C. One process runs one reactor; everything happens in
callbacks of that reactor and in fibers that a callback may start and that may
be suspended (during DNS queries and while the user's script waits for
something). There are no threads, but there are many interleavings: timers,
packets, connection events, DNS answers and script fibers come in any order.

This directory models the parts of OverSIP that keep state across such events,
and the parsers, which keep state from one piece of a text to the next.
Paths such as `sip/proxy.rb` are relative to `src/lib/oversip/`, paths of C files
to `src/ext/`.

- `PROJECT.json` lists components, runs, the correspondence of every definition
  with its source lines (`map`), mutations of the code that each property must
  detect (`mutants`), hazards and theorems.
- `tlc -config X.cfg M` checks a run, `tlapm M.tla` a proof module.

## 1. Inventory

| component | state it keeps | operations | interacts with |
|---|---|---|---|
| Server transactions (`sip/server_transaction.rb`) | state, timers, last response, entry in the table of the transport | create, reply 1xx/2xx/[3456]xx, retransmission, ACK, CANCEL, timers C2 G H I L / INT1 INT2 J | message processor (retransmissions, ACK, CANCEL), proxy and script (replies) |
| Client transactions (`sip/client_transaction.rb`) | state, timers, pending CANCEL, connection, entry in the table | send, responses, cancel, connection failed, timers A B C D M, E F (CANCEL) / E F K | core (`Proxy`, `Uac`), transport manager |
| Proxy and Client (`sip/proxy.rb`, `sip/client.rb`) | targets, current target, current client transaction, `@canceled`, `@drop_response`, DNS cache, blacklist | route, DNS result, responses, timeouts, failover, CANCEL, abort | both kinds of transaction, DNS, script callbacks |
| DNS (`sip/rfc3263.rb`) | none between queries, but for the client's cache | NAPTR, SRV and A/AAAA procedures, randomisation by priority and weight | udns resolver (external), fiber pool |
| Fiber pool (`fiber_pool.rb`) | idle and busy fibers, queue | spawn, end or death of a block | DNS |
| Transport manager, outgoing connections (`sip/transport_manager.rb`, `sip/listeners/tcp_client.rb`, `tls_client.rb`) | connection tables, pending transactions, held messages | get_connection, connect, TLS handshake, script callback, unbind | client transactions, accepted connections |
| TCP, TLS and tunnel connections (`sip/listeners/tcp_connection.rb`, ...) | buffer, parser, `@state`, `@msg` | receive_data, parsing rounds, TLS callback, close, unbind | message processor, script |
| UDP socket (`sip/listeners/udp_connection.rb`) | one buffer and one `@msg` for all peers | receive_data, STUN, keepalives | message processor |
| WebSocket framing (`websocket/ws_framing.rb`, `ws_sip_app.rb`) | frame and message under construction, UTF-8 validator | frames of each opcode, close | SIP message processing |
| WebSocket server (`websocket/listeners/*.rb`) | phase of the connection, who closed it | TLS, HTTP upgrade, script callbacks, unbind | framing, script |
| Message processor (`sip/message_processor.rb`) | none of its own | match a message with a transaction, run the script | all of the above |
| Core logic, UAC, modules (`sip/core.rb`, `sip/uac.rb`, `modules/`) | headers of the request | loose routing, Max-Forwards, Outbound mangling, assertions | script |
| SIP message and URI parsers (`sip_parser/`) | current state, pointers, lengths and flags of one struct, the Ruby object under construction | reset, execute, `post_parsing`, questions about missing and repeated headers | connections, script (`Uri.parse`, `NameAddr.parse`) |
| HTTP request parser (`websocket_http_parser/`) | the same, kept between the pieces of a request | reset, execute | WebSocket server |
| Address, Outbound token and HAProxy line parsers (`utils/`) | current state and a struct, during one call | execute | DNS, message processor, transport manager, tunnel servers |
| STUN (`stun/stun_ruby.c`) | none | `parse_request` | UDP socket |
| Configuration, launcher, logging | start-up only | | |

What is hard in it:

- *timers against packets*: about twenty timers, each of which must be started
  and cancelled in the right states and in no other;
- *two transactions and a core*: late responses, failover, blacklist, CANCEL and
  timer C decide together what the caller hears;
- *suspended fibers*: the connection goes on, or goes away, while a callback of
  the script is suspended;
- *shared connections*: several requests wait for one connection attempt, and
  the peer may connect from the same address;
- *segmentation*: every stream protocol may be cut anywhere;
- *parsers with leftovers*: one struct serves all headers of a message and all
  messages of a socket, a value is written when the next begins, and the same
  grammar was compiled into several machines that must agree;
- *exceptions*: one that ends a reactor callback goes to `EM.error_handler`, and
  OverSIP carries on with the state the callback left behind.

What makes it correct, in short: every request gets one final answer or runs
into its deadline; transactions always end; no target is tried for nobody;
messages are processed whole, once, in order and not before the script lets the
peer in; each part of a message is taken from where it stands, whatever came
before; no waiting request is forgotten when a connection or a fiber dies.

## 2. Modules

`EMTimers` holds the reactor's timers: a component's timers are a function from
names to ticks left, or `Off`. Time advances only when no timer is due, and a
packet may still come before a due timer.

| module | models | state and actions |
|---|---|---|
| `InviteServerTransaction` | INVITE server transaction | `state`, `tm`, `last_response`; one action per kind of reply, per message of the peer and per timer. History: `finals` sent, `age` |
| `ServerTransactionContract` | what the peer is promised | `answers`, `open`; `Answer`, `Close` |
| `InviteClientTransaction` | INVITE client transaction | `state`, `tm`, `link` (the connection), `cancel`; responses, `DoCancel`, connection events, timers. History: `cancels`, `told` (calls of the core) |
| `InviteBranch` | what the core sees of it | state without durations |
| `InviteProxy` | `Proxy`/`Client` routing an INVITE, one `InviteBranch` per target, server transaction reduced to its state | `num`, `ct`, `canceled`, `drop`, `blacklist`; DNS results, branch events together with the core's reaction, CANCEL |
| `NonInviteServerTransaction`, `NonInviteClientTransaction` | the other two transactions | as above |
| `NonInviteProxy` | composes these two with the routing of a request other than INVITE | failover with the timers of both sides |
| `Rfc3263` (`MCRfc3263`) | DNS procedures as operators, cache and walk over targets as actions | `Resolve` is what a query can answer; `Wanted` is what the DNS holds, stated record by record |
| `FiberPool` | fiber pool | `fiber`, `dead`, `queue`; `Spawn`, `Finish`, `Raise` |
| `TransportManager` | connections to one address | `table`, `conn`, `pending`, `messages`; requests, connection events, `Accept` |
| `TcpConnection` (`MCTcpConnection`) | stream connections | rounds of `process_received_data` as actions |
| `ParserText` | what the Ragel parsers share | texts with marks for what a conversion changes; the sequence of actions a text executes |
| `SipGrammar` | the grammar compiled into `sip_message_parser.c` and `sip_uri_parser.c` | for each kind of start line, header line and URI, the actions it executes, in order |
| `SipMessageParser`, `SipUriParser` | the actions and the callbacks of `sip_parser_ruby.c` | one operator per action, on the record of the parser's fields; `parsed` is the Ruby object |
| `Stun` | `Stun.parse_request` | an operator on octets |
| `UdpConnection` | the UDP socket with the message parser and STUN | rounds of `receive_data`; what a datagram says is chosen line by line while it is read |
| `SipMeaning` | the properties of these: what a text means, read off the text | |
| `AddressBlocks`, `IpUtils`, `OutboundUtils`, `HaproxyProtocol`, `HostReferences` | the generated address machines | state numbers to rows of characters, composed of the blocks that come back in them |
| `AddressParsers` | the functions that run them, and a reader of addresses that counts groups and digits | any character at any time |
| `MCParsers` | instance of all the parsers | |
| `HttpRequestParser` | `ws_http_parser.c` and its callbacks | as the SIP parser |
| `WsFraming` (`MCWsFraming`) | frames of an established WebSocket | rounds of `receive_data`; `Legal` states RFC 6455 for a client, independently of the code |
| `WsServer` (`MCWsServer`) | life of a WebSocket connection, over `HttpRequestParser` | phases, pieces of the request, checks and replies, callbacks, closing |
| `Totals` | sums over frames and messages | defined by counting, for `WsFraming` and `TcpConnection` |
| `InviteServerTransactionProofs`, `InviteClientTransactionProofs`, `InviteProxyProofs`, `NonInviteProxyProofs`, `TcpConnectionProofs`, `WsFramingProofs`, `WsServerProofs` | theorems about the module they are named after | |
| `OutgoingProofs` | theorems about `TransportManager` and `FiberPool`, the two things an outgoing request waits for | |

Conventions. Where the code runs a handler to its end the action is the whole
handler, including what it calls; the receiving loops, which cannot be
interrupted either, are cut into rounds with a variable (`busy`, `running`) that
keeps everything else out until the loop ends. A script's callback that cannot
be suspended in a way that matters chooses its effect freely inside the
handler; one that can be is two actions. `Faulty variant` operators are the
mutations of `PROJECT.json`; no specification uses them. Each module's `TypeOK`
gives the types of its variables.

What was abstracted: outside the parsers, the contents of messages are reduced
to their kind and size; addresses to targets with a number or a name; logging
and wording are left out. EventMachine, udns and OpenSSL are external: the
modules know what the code makes of their answers.

The parsers are modelled at two levels. The address machines are small enough to
be modelled as they are, state by state and character by character (characters
that no row tells apart are one). The SIP and HTTP machines have tens of thousands
of transitions, most of which only walk through a token; what they do to the
parser is in the actions they execute. Their grammar is therefore given as the
sequence of actions that a text executes, a text being the record of what it
spells, and the actions and callbacks are modelled in full. A token's characters
matter only to conversions (lower case, display names, numbers, `headerize`), for
which tokens have marks and numbers have digits. What is no text of the grammar
is an error, which may come at any place. The host of a URI, the one part where
the generated tables have a structure of their own, is again modelled by its
rows (`HostReferences`).

The models of generated code were compared with it: every row of the three
address machines and every transition of the 38 copies in the large tables with
the C source, and the order of the actions of each kind of line with a build of
the C parsers that traces them.

## 3. Runs

| run | states | what it shows |
|---|---|---|
| `invite_server` | 2 176 | no mixed finals, a scheduled timer that ends each state, a bounded lifetime, and the contract, whose liveness part says that the transaction ends |
| `invite_client` | 1 677 | nothing waits or retransmits without a timer that stops it; a CANCEL is sent once and only with reason; the core is told once; `InviteBranch` is implemented; the transaction ends and the core is told |
| `non_invite_proxy` | 12 988 | no final answer after the RFC 4320 deadline; the requester is answered or has met its deadline when nothing is outstanding, unless a DNS result without a usable target made the code raise; both sides end |
| `invite_proxy` | 63 492 | one target at a time; the caller is not forgotten, with the same exception; no target after the answer; the call ends; the branches behave as `InviteBranch` says |
| `invite_proxy_cancel` | - | *violated*: a CANCEL does not always reach the branch (section 7) |
| `transport` | 155 526 | no dead connection handed out, no second one beside a usable one, nobody told of a failure whose request then leaves, every request resolved |
| `tcp_connection` | 331 930 | order, no message stuck unless the one before it raised, nothing processed after a refused message or before the script's approval |
| `parsers` | 866 568 | headers stored whole and in order; each part of a message from its own place; message and URI parser agree; no datagram changes what another gets; a STUN answer has the right transaction, lengths and attribute, and the address and port of the client where they are not XORed (XORed, its IPv6 address only); the address machines accept what the grammar says and take the right parts of it |
| `ws_framing` | 123 983 | messages intact and none after the end, legal clients not refused |
| `ws_server` | 197 136 | approval first, no upgrade of a client that has gone, `on_disconnection` paired and truthful; requests are upgraded exactly if they pass the checks that OverSIP makes (`CheckedHandshake`, which asks for less than RFC 6455), with repeated headers and in pieces |
| `dns` | 172 138 | every target and no other, by priority and transport, errors only if there is nothing; an exception in four named cases (section 7) and in no other |
| `fiber_pool` | 8 072 | no block lost or run twice, waiting only if full, every block runs if none raises |

Composition by refinement: `invite_client` checks that the detailed transaction
implements `InviteBranch`, and `invite_proxy` that the proxy's branches only take
`InviteBranch` steps; both are also proved (section 4). The proxy's properties
therefore hold over the detailed transaction as far as `InviteBranch` describes it.

### Bounds

- *Durations* are small numbers in the order of the default configuration
  (`sip/timers.rb`, `etc/proxies.conf`): retransmission intervals below `T2`,
  `T2` below the time-outs, a pending connection (2 s to connect and 4 s for
  TLS) ends before timers B and F, timer B comes before timer C. Every pair of
  timers that can run together can fire in every order the defaults allow. In
  `non_invite_proxy` two targets take longer than `INT1 + INT2`, so that an answer
  can be late. The invariants of the four transactions are proved for all durations.
  `LINK`, the longest time a connection is pending, leaves out that
  `on_server_tls_handshake` may be suspended for longer. `NonInviteProxy` follows the
  present target only: if timer F is shorter than `LINK`, the end of an earlier
  target's connection, of which the code would tell the core, is not seen there.
- *Targets*: three for an INVITE (fail, fail over, blacklist one in between), two
  with timers. *Transactions*: two on three connections, so that an attempt can
  be shared, replaced, and raced by an accepted connection. A third transaction
  (2.0 million states) gives the same result, and the proofs cover any number of both.
- *Streams*: three messages (one unfinished, one complete, one after it), in
  units of which headers take one to three and bodies up to two, and a header
  limit of two; one kind is a request without a branch, behind which there is room for
  data that do and that do not reach beyond what the parser has read. Frames: two of every kind, or four of those
  that make up fragmented messages.
- *Datagrams*: any number, one after the other. The first is a start line and up to
  three blocks of header lines (`MaxBlocks`, at most seven lines, `MaxLines`): one
  block holds the core headers, the others a header or two that touch the same fields
  as another, so that each pair meets in either order. Later ones have one block
  (`MaxBlocksLater`), which is enough to meet what the first left; at most one octet
  of body (`MaxBody`: too long, too short, right) and two datagrams in the buffer
  (`MaxBuffer`), the second of which arrives after an exception.
- *Addresses*: all texts, since the machines and the reader are finite.
- *HTTP requests*: one with all headers; those that lack one; each of these with
  one of ten other headers behind, and the full one with it in front; other
  methods, HTTP/1.0, a broken and a too long request; whole or cut in two between its
  headers; two frames after it (`MaxFrames`), each a message, a close frame or one
  that is refused.
- *Pool*: three fibers and five blocks, so that the queue holds two while fibers
  die; proved for any number.
- *DNS*: two SRV hosts, up to three NAPTR records, two requests so that the
  second may use the cache, also after the first has raised.

`CHECK_DEADLOCK FALSE` stands where the system may come to rest: a call that has
ended, a stream that has been read, a pool without work.

### Fairness

Weak fairness is assumed of what the reactor and the system guarantee: due timers
are run and time passes; a receiving loop runs to its end; a DNS query comes
back, if only by udns's own time-out; a connection attempt is completed or
fails; a TLS handshake completes or its timer fires; data sent are delivered
while the connection lasts; a connection that OverSIP closes is unbound. For
properties about callbacks of the script, that a callback returns. Nothing is
assumed of peers, which may stay silent, nor of the script's decisions.

## 4. What is proved

Every proof module has the same plan. The component's module ends with an inductive
invariant `IInv`, a conjunction of named parts; TLC has checked it on the
component's run. The proofs show `Init => IInv` and `IInv /\ [Next]_vars => IInv'`
with one step per action, and derive the properties from it (`Invariance`, then one
theorem per property). An action property and the step part of a refinement are
proved from `IInv` for one step. `TypeCorrect` is the type invariant.

`InviteServerTransactionProofs` (all durations `>= 1` with `TIMER_G <= T2`, all
sets of responses and connections; assumptions `Durations` and `Responses`):

- `EndingTimer` alone is not inductive: to know that the next state's timer is
  scheduled one must know that timers of other states are not
  (`TimersMatchState`); `NoMixedFinals` needs to know which answers each state has
  sent (`AnswersMatchState`); `LifetimeBound` needs the time left on each timer
  (`AgeMatchesTimers`).
- `NeverMixed`, `RepeatsFinal`, `NoLeak` (`EndingTimer` and
  `RetransmissionStops`), `BoundedLifetime`; `Refinement` of the contract, whose
  fairness is left to TLC.

`InviteClientTransactionProofs` (all durations `>= 1` in any order; assumption `Durations`):

- `Invariance`, `TypeCorrect`, `OneCancel` and `Refinement` of `InviteBranch` hold whatever
  the order of the timers and of a pending connection.
- `OneEnd` (`EndToldOnce`) has the hypothesis `OrderedTimers`, the order that the default
  configuration has: a pending connection is decided before timer B, and timer B comes
  before timer C. `NoLeak` (`EndingTimer`) has it too, and `ShortCancel`: timer F of a
  CANCEL is not longer than timers D and M (all are 32 seconds by default, but
  `etc/proxies.conf` lets timer F be 2 to 64). Without its hypotheses each is
  false, see section 7.
- The invariant says which timers run in which state (`TimersMatchState`), that timer F,
  if it is the shorter one, is due before D and M, which keeps the CANCEL from being
  retransmitted for ever (`CancelStopsInTime`), that the two places that send the CANCEL share one flag
  (`CancelMatchesState`), and, under `OrderedTimers`, what is still to come while the
  state is `calling`.

`InviteProxyProofs` (any number of targets):

- `NobodyForgotten` (`CallerNotForgotten`) and `Conformance` (`BranchesConform`) hold
  for any order of the timers. `CallerLookedAfter` is the strengthening: while the
  caller waits and nothing has raised some timer C is running, and the drop flag is set only by a timer C
  that has answered the caller, so it cannot swallow the answer of another target.
- `NoForking` (`OneWaitingBranch`) and `NoLateTarget` (`NoTargetAfterAnswer`) have the
  hypothesis `Ordered`, the same default order as seen by `InviteBranch`.
- With `Refinement` of the client transaction, `Conformance` composes the two modules.

`NonInviteProxyProofs` (all durations of both transactions, with `TIMER_E <= T2`, and any number of
targets):

- First each transaction alone (`ServerMoves`, `ClientMoves`), then what the core does with
  them. INT1 and INT2 are never scheduled together, and what is left on the one
  that is bounds the age (`ServerTimers`).
- `NeverLate` (`NoLateFinal`, RFC 4320), `NotForgotten` (`RequesterNotForgotten`, which
  like `CallerNotForgotten` excepts a DNS result that makes the code raise),
  `NoLeak`, and `Refinement`: the server transaction implements
  `ServerTransactionContract` with nothing that may be repeated.

`OutgoingProofs`, on `TransportManager` (any finite set of transactions, any number of
connections):

- `NeverDead` (`NoDeadConnection`), `FailuresAreTrue` (`NoFalseFailure`),
  `OneConnection` (`NoDuplicateConnection`).
- That nobody is told twice needs the lists of a connection to hold only its own
  transactions, none of which was told anything (`ListsMatchTransactions`); that no
  second connection is opened, that the one that has not ended is in the table
  (`OnlyInTable`).

`TcpConnectionProofs` (every set of streams, every header limit):

- `HandledInOrder` (`InOrder`) and `NeverStuck` (`NothingStuck`). `HandledUpToHere`
  ties the last message handled to the position in the stream, and says that a message
  is met again only if its processing raised; `AtMessage` says how much of the message
  has been taken in each state, which is what `NothingStuck` is about, and that a parser
  that has finished is met again only after an exception, which `NothingStuck` excepts; `Unapproved`
  that nothing is touched while a TLS client is not let in.
- That the units of a stream are a natural number (`StreamUnits`) follows from the
  theorems on finite sets, since `Totals` defines a sum as the number of pairs it counts.

`WsFramingProofs` (any set of sequences of frames, all limits; assumption: the frames
have the fields of a frame):

- `MessagesIntact` (`DeliveredIntact`) and `LegalAccepted` (`LegalNotRefused`) compare
  the loop with what RFC 6455 says of the frames, which looks back over all of them:
  the opener of a frame's message, the payloads since then, whether the message before
  is unfinished. The invariant ties the few variables of the code to that.
- `InStep`: the parts that have not arrived, those in the buffer and those the state
  says have been read of this frame add up to the parts of this frame and the ones behind
  it, so the loop never takes one frame's part for another's.
- `Collected`: the open message has the payloads from its first frame on, in order,
  and `size` is their volume; no frame up to here was a close frame. `Validated`: the
  validator is within a character exactly if the last payload ends in one. `FrameFits`:
  a frame that has been checked fits the state of the message until it is processed.
  `OpenAsSent`: with a legal client a message is open in the code exactly when it is
  unfinished on the wire; this is what `check_frame` needs to refuse no legal frame.
- The three parts about the message hold while the connection is open and no processing
  has raised. The properties exclude the latter too: after an exception the code goes
  on with the old message (section 7).
- The lemmas are about the operators: `OpenerIs`, `UnfinishedNext` (only the last data
  frame decides), `AppendStored`, `LastStored`, `TotalFacts` (a total grows by what is
  added). `DataFrame` and `LegalFrame` then say what a data frame does to the message.

`WsServerProofs` (any requests, any number of frames; the HTTP parser stays
unexpanded):

- `ApprovedFirst` (`NotBeforeApproval`) and `TrueGoodbye` (`Goodbye`). The latter needs
  that `@ws_established` and the upgrade differ only within a round of the loop
  (`Established`), that the flags name who was first, and that the loop never runs again
  once OverSIP has closed (`Endings`): otherwise a close frame read
  late would make the client the one who ended the connection. A close frame that is
  refused counts as OverSIP's end, as in the code.

`OutgoingProofs`, on `FiberPool` (any sets of fibers and blocks; assumption: `Idle` is no
block):

- `PoolInvariance`: `PoolInv` = `PoolTypeOK` and `NothingLost` and `OnceOnly`. `NothingLost`
  needs `OnceOnly`: when a fiber takes the head of the queue, the block must not
  occur in the tail or in another fiber.
- `NoBlockLost`, and `FullBeforeWaiting` for the action property.

Only model-checked:

- all liveness properties and the fairness of the contracts (`ImplementsContract`,
  `EndsAndTells`, `ProxyEnds`, `CallEnds`, `Resolved`, `EveryBlockRuns`): fairness and
  ENABLED are out of the prover's reach;
- the parsers' properties and `UpgradeAsAsked`, which say what a fold over a
  text computes: induction over data. `Stun` also uses `Bitwise`, and with it
  `UdpConnection` and `SipMeaning`;
- `AddressesExact`, a comparison of two finite machines, which TLC does completely;
- `Rfc3263`, whose properties are about what recursive functions make of lists of
  records (`FlattenSeq`, `SelectSeq`, `FoldLeft`): induction over data.

## 5. What is not modelled

- Routing headers (Record-Route, Path, Route, Outbound flow tokens), loose
  routing, the UAC and the two modules: planned, see section 6.
- Matching of requests and responses with transactions, loop detection, and
  `on_request` as a fiber of its own; an ACK that is forwarded without state.
- The characters of SIP and HTTP tokens, and with them folded lines and white
  space; the bytes of WebSocket masking and the accept key.
- The parsing of SIP over TCP and WebSocket: `TcpConnection` and `WsFraming` take a
  message as parsed, incomplete or wrong. The parser is the same.
- The probability that SRV weights give a target: only which orders are possible.
- The `unless $!` behind the `unbind` handlers (`ws_server.rb:97`, `tcp_client.rb:68`):
  while the reactor runs, an exception is being handled in none of its callbacks.
- The WebSocket keepalive timer. Start-up, configuration parsing, logging.
- Blacklist durations: an entry may expire at any time.
- `drop_response` called by the script outside the callbacks in which a response is
  about to be forwarded (the flag would then outlive the callback), the 199 that
  `drop_response` may send, and `add_target_to_blacklist` called by the script.

## 6. Plan

Done: the modules above. Next, in this order:

1. `RequestHandling`: message processor and script: matching, retransmission
   while `on_request` is suspended and no transaction exists yet, the 500 after an
   exception, CANCEL and ACK; composed with the server transactions.
2. `RoutingHeaders`: what `add_routing_headers` and the client transactions insert
   and remove for each target, over failover (`sip/client.rb`,
   `client_transaction.rb`), and loose routing in `sip/core.rb`.
3. `Blacklist` with durations, over several requests; `Outbound` flow tokens in
   the transport manager; the UAC.
4. Proofs: lemmas on the parsers' actions (which fields an action leaves alone); the
   cache of `Rfc3263`, once its lists are sets with an order.

## 7. Deviations met while modelling

Places where the code does not do what its own comments or the configuration
file say, or where a combination of events was not foreseen. The models follow
the code. Where a property is stated for the rest only, it says so itself.

The first is shown by the run `invite_proxy_cancel`:

- A CANCEL cancels only the present client transaction. While DNS is pending
  there is none, and the call on nil raises; after a failover the next target is
  tried without one (`sip/proxy.rb:162`, "cancelling pending client transaction").

Transactions and routing:

- With `timer_C` shorter than `timer_B`, which `etc/proxies.conf` allows, timer C
  cancels timer B and nothing is left that ends an unanswered INVITE client
  transaction (`client_transaction.rb:154`).
- With `timer_F` longer than timers D and M, which `etc/proxies.conf:99` allows too, timer
  F of a CANCEL finds its transaction terminated and leaves timer E retransmitting the
  CANCEL for ever (`:359`). `NoLeak` is proved under `ShortCancel`; with `TIMER_F = 6` in
  `InviteClientTransaction.cfg` TLC finds the state that violates `EndingTimer`.
- A DNS result without a usable target (see below) is no error to the client: nothing
  is tried, `no_more_targets` has no status, and replying `nil` raises (`client.rb:349`,
  `proxy.rb:302`, `server_transaction.rb:116`, `:238`). So does a target that is none
  (`client.rb:374`), whether it is the first or the next after a failure. The caller
  hears nothing until timer C2 or INT2 (`raised` in `InviteProxy` and `NonInviteProxy`;
  `CallerNotForgotten` and `RequesterNotForgotten` except it).
- When the next target raises within `connection_failed`, the loop in `unbind` ends there,
  and the other transactions that wait for the connection are not told
  (`tcp_client.rb:64`). They are left to their timers. Not in `TransportManager`.
- A connection that fails after timer B has ended the transaction is reported to
  the core again, which then has two targets at a time (`:261`). With the default
  values the connection always fails first.

Connections:

- A tunnel connection is registered in the table of the TLS server class and
  deleted from that of its own, so that it is handed out when it is gone
  (`tls_tunnel_server.rb:43`). `NoDeadConnection` and `Resolved` leave it out.
- Accepted and outgoing connections share a key, and the end of either deletes
  the entry of both (`tcp_client.rb:49`). `NoDuplicateConnection` is stated for the
  case without accepted ones.
- Whether `on_server_tls_handshake` is called is an attribute of the connection,
  which the last transaction to join overwrites (`transport_manager.rb:50`).
- `@connected` is set before that callback returns, so that requests that come
  while it is suspended leave at once (`tls_client.rb:62`).
- The 500 after an exception in `on_request` answers `@msg`, which may be a later
  message when the fiber was suspended (`message_processor.rb:110`).
- `Connection#close` does not change `@state`: data that arrive before unbind are
  processed (`sip/listeners/connection.rb:50`).
- A HAProxy line in two segments is taken for a wrong one
  (`tls_tunnel_connection.rb:78`).
- After an exception in the processing of a message `@state` stays `:finished`; the
  message is processed again with the next data, and on UDP the next datagram is
  then left in the buffer and spoils the one after it (`udp_connection.rb:17`).
  `EachOnItsOwn` is stated without exceptions.
- A request without a branch from another host, or with `rport`, has its Via
  parameters appended to nil, which raises (`message_processor.rb:39`). On UDP the
  state stays `:message` with a parser that has finished, and the datagrams that
  follow are lost until one fails (`ExecuteAgain` in `UdpConnection`). On TCP it raises
  before `check_via_branch` would have closed the connection (`tcp_connection.rb:131`):
  the state stays `:headers`, and complete messages behind it wait until the buffer is
  longer than what the parser has read, when the connection is closed (`ViaRaises` and
  `ExecuteAgain` in `TcpConnection`; `NothingStuck` excepts it).

WebSocket:

- A continuation frame that exceeds `max_ws_message_size` ends the round, but the
  connection stays open and the message goes on growing (`ws_framing.rb:286`).
- A text message that ends within a character is accepted if its last frame has
  no payload (`:271`).
- After an exception in the processing of a message the opcode of the finished
  message stays set, and the next message is refused (`:241`).
- The rescue of `on_connection` also covers the processing of frames, so that an
  exception there sends an HTTP 500 over the WebSocket (`ws_server.rb:259`).
- The opening handshake is checked in part only: a request without Host, of HTTP/1.0 or
  with a key of any length is upgraded, against RFC 6455, 4.2.1 (`ws_server.rb:178`).
- A close frame whose reason is no UTF-8 is answered with 1007 before `client_closed` is
  set, so that `on_disconnection` is told that OverSIP ended the connection
  (`ws_framing.rb:309`; `RefuseFrame` in `WsServer`).

Parsers and STUN:

- A Contact that ceases to be a SIP address behind a quoted name, such as
  `Contact: "x" <tel:1>`, leaves `uri_display_name_quoted` set: the next display name without quotes loses its first and last
  character (`sip_message_parser.c:29501`; `Mutilated` in `SipMeaning`).
- What follows a Contact address and is no parameter is not noticed, and the
  address is kept, against "We just parse Contact if it's a single header with a
  single Name Addr within it" (`sip_parser_ruby.c:1140`).
- `strtol` with base 0 reads a CSeq or Content-Length with a leading zero as octal
  (`sip_parser_ruby.c:389`, `:409`, and the HTTP parser likewise).
- The tags of From and To are stored for every such header, not only for the first
  (such messages are refused later, as are others with repeated core headers).
- `utils_ip_parser_execute` returns the type of the longest address the text began
  with when the text ends within a group, as in `::1:` (`ip_utils.c:5948`).
- On a little-endian host the XORed port and IPv4 address of a STUN answer have
  their octets in the wrong order, and two of the four are lost
  (`stun_ruby.c:279`, `:290`).
- `id_is_unknown_method` of the HTTP parser lacks its `@`, so that `unknown_method?` is
  never true, against the comment at `ws_http_parser_ruby.c:88` (`:608`).
- A second Host without a port keeps the port of the first.

DNS and fibers:

- For a URI with `;transport`, SRV records that all have the same priority come as
  an Array that the client does not recognise, and no target is tried
  (`rfc3263.rb:275`; `OnePriority` in `Rfc3263`).
- An SRV record of weight 0 beside others adds a list where a target is expected,
  and the client raises: that target and the ones behind it are not tried (`:29`;
  `Weightless`).
- A proxy with TLS only, without SRV, gets an error and then goes on with a nil
  transport, which raises; the second result takes the place of the error in the
  cache, so that the next request is not answered (`:327`; `NoTransport`).
- NAPTR records that lead to no SRV target are a success without targets
  (`:403`; `LostNaptrs`).
- NAPTR records of the same order are sorted with the higher preference value first
  (`:369`), against RFC 3403, where the lower value is preferred, and with it against
  `etc/proxies.conf:62`, "transport preference is taken from NAPTR records". `TriedInOrder`
  states the order of the code.
- A block that raises kills its fiber without a look at the queue; the next spawn
  replaces the fiber, but runs its own block. What waits may wait for ever
  (`fiber_pool.rb:20`; `EveryBlockRuns` is stated for pools where none dies).

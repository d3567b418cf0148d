---------------------------- MODULE AddressBlocks ----------------------------
(***************************************************************************)
(* The building blocks of the three address machines that Ragel generated  *)
(* from grammar_ip.rl: ip_utils.c, outbound_utils.c, haproxy_protocol.c.    *)
(* Each file is one goto machine; the same few shapes come back in it at    *)
(* other state numbers: an octet, a run of hexadecimal digits, a group that *)
(* may still become an octet, a port.                                       *)
(*                                                                          *)
(* A block maps state numbers to rows; a row maps the characters that do    *)
(* not lead to the error state st0 to the next state and the set of the     *)
(* actions executed on the way.                                             *)
(***************************************************************************)
EXTENDS Naturals, Sequences, TLC

\* "7" stands for 7, 8 and 9; "a" for the letters A to F in either case but
\* for the "C", which also belongs to a keyword; "?" for every character that
\* no machine mentions.
DigitValue == [d \in {"0", "1", "2", "3", "4", "5", "6", "7"} |->
                 CHOOSE n \in 0..7 : ToString(n) = d]
Digit == DOMAIN DigitValue
Letter == {"a", "C"}
Hex == Digit \cup Letter
Chars == Hex \cup {".", ":", "[", "]", "_", " ", "P", "R", "O", "X", "Y", "T",
                   "\r", "\n", "?"}

Digits(lo, hi) == {d \in Digit : DigitValue[d] \in lo..hi}

\* On every character of C go to the state, executing the actions.
Do(C, next, acts) == [c \in C |-> [to |-> next, do |-> acts]]
To(C, next) == Do(C, next, {})
Nowhere == To({}, 0)

----------------------------------------------------------------------------
(* A decimal octet, 0 to 255 without leading zeros: `first` expects its     *)
(* first digit, `full` no further one; one .. one + 3 stand after "1",      *)
(* after two digits, after "2" and after "25". Exit is what may follow a    *)
(* complete octet, acts what every digit executes.                          *)
Octet(first, full, one, Exit, acts) ==
    first :> (Do({"0"}, full, acts) @@ Do({"1"}, one, acts)
               @@ Do({"2"}, one + 2, acts) @@ Do(Digits(3, 7), one + 1, acts))
    @@ full :> Exit
    @@ one :> (Do(Digit, one + 1, acts) @@ Exit)
    @@ (one + 1) :> (Do(Digit, full, acts) @@ Exit)
    @@ (one + 2) :> (Do(Digits(0, 4), one + 1, acts) @@ Do({"5"}, one + 3, acts)
                      @@ Do(Digits(6, 7), full, acts) @@ Exit)
    @@ (one + 3) :> (Do(Digits(0, 5), full, acts) @@ Exit)

(* Up to Len(run) further hexadecimal digits of a group, one state each;    *)
(* Exit is what may follow the group after any of them.                     *)
HexRun(run, Exit, acts) ==
    [s \in {run[i] : i \in DOMAIN run} |->
        LET i == CHOOSE k \in DOMAIN run : run[k] = s
        IN (IF i < Len(run) THEN Do(Hex, run[i + 1], acts) ELSE Nowhere) @@ Exit]

(* A separator state s between two groups that precede a "::": a digit      *)
(* opens the four states s + 1 .. s + 4, a second colon goes to gap.        *)
GroupBefore(s, gap, gapActs) ==
    s :> (To(Hex, s + 1) @@ Do({":"}, gap, gapActs))
    @@ HexRun(<<s + 1, s + 2, s + 3, s + 4>>, To({":"}, s + 5), {})

(* The first character of a group that may become an octet: `zero` follows  *)
(* "0", one .. one + 6 the other digits, letter a hexadecimal letter.       *)
GroupFirst(zero, one, letter, acts) ==
    Do({"0"}, zero, acts) @@ Do({"1"}, one, acts) @@ Do({"2"}, one + 3, acts)
    @@ Do(Digits(3, 7), one + 6, acts) @@ Do(Letter, letter, acts)

(* That group read as hexadecimal only: after "0" a dot still makes it an   *)
(* octet; in the three states of the run, one per further digit, not.       *)
GroupHex(zero, run, dot, Exit, acts) ==
    zero :> (Do(Hex, run, acts) @@ To({"."}, dot) @@ Exit)
    @@ HexRun(<<run, run + 1, run + 2>>, Exit, acts)

(* That group while it is still at most 255: one .. one + 6 stand after     *)
(* "1", 1D, three digits, "2", "25", two digits above 25 and one above 2.   *)
(* A letter, or a digit too many, joins the hexadecimal run, as does the    *)
(* group that began with a letter.                                          *)
GroupOctet(one, letter, run, dot, Exit, acts) ==
    LET Leave == To({"."}, dot) @@ Exit
    IN one :> (Do(Digit, one + 1, acts) @@ Do(Letter, run, acts) @@ Leave)
       @@ (one + 1) :> (Do(Digit, one + 2, acts) @@ Do(Letter, run + 1, acts) @@ Leave)
       @@ (one + 2) :> (Do(Hex, run + 2, acts) @@ Leave)
       @@ (one + 3) :> (Do(Digits(0, 4), one + 1, acts) @@ Do({"5"}, one + 4, acts)
                         @@ Do(Digits(6, 7), one + 5, acts)
                         @@ Do(Letter, run, acts) @@ Leave)
       @@ (one + 4) :> (Do(Digits(0, 5), one + 2, acts)
                         @@ Do(Digits(6, 7) \cup Letter, run + 1, acts) @@ Leave)
       @@ (one + 5) :> (Do(Hex, run + 1, acts) @@ Leave)
       @@ (one + 6) :> (Do(Digit, one + 5, acts) @@ Do(Letter, run, acts) @@ Leave)
       @@ letter :> (Do(Hex, run, acts) @@ Exit)

(* A port, 1 to 65535: `first` expects its first digit; zero .. zero + 2    *)
(* stand after leading zeros; full, one to go, two to go and three to go    *)
(* are left[1] .. left[4]; five is reached by 1 to 5, six .. six + 3 by "6",*)
(* "65", "655" and "6553". Start is executed on the first digit, End on     *)
(* every digit that completes a port.                                       *)
Port(first, zero, left, five, six, Exit, Start, End) ==
    first :> (Do({"0"}, zero, Start) @@ Do(Digits(1, 5), five, Start \cup End)
               @@ Do({"6"}, six, Start \cup End) @@ Do({"7"}, left[4], Start \cup End))
    @@ zero :> (To({"0"}, zero + 1) @@ Do(Digits(1, 7), left[3], End))
    @@ (zero + 1) :> (To({"0"}, zero + 2) @@ Do(Digits(1, 7), left[2], End))
    @@ (zero + 2) :> Do(Digits(1, 7), left[1], End)
    @@ left[1] :> Exit
    @@ left[2] :> (Do(Digit, left[1], End) @@ Exit)
    @@ left[3] :> (Do(Digit, left[2], End) @@ Exit)
    @@ left[4] :> (Do(Digit, left[3], End) @@ Exit)
    @@ five :> (Do(Digit, left[4], End) @@ Exit)
    @@ six :> (Do(Digits(0, 4), left[4], End) @@ Do({"5"}, six + 1, End)
                @@ Do(Digits(6, 7), left[3], End) @@ Exit)
    @@ (six + 1) :> (Do(Digits(0, 4), left[3], End) @@ Do({"5"}, six + 2, End)
                      @@ Do(Digits(6, 7), left[2], End) @@ Exit)
    @@ (six + 2) :> (Do(Digits(0, 2), left[2], End) @@ Do({"3"}, six + 3, End)
                      @@ Do(Digits(4, 7), left[1], End) @@ Exit)
    @@ (six + 3) :> (Do(Digits(0, 5), left[1], End) @@ Exit)
=============================================================================

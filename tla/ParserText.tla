----------------------------- MODULE ParserText -----------------------------
(***************************************************************************)
(* What the Ragel parsers of OverSIP have in common: texts, the actions     *)
(* they execute, and the conversions of ext/common.                         *)
(*                                                                          *)
(* A piece of text that a parser converts has marks for what the            *)
(* conversion is about: capitals, a final dot, quotes, separators.          *)
(***************************************************************************)
EXTENDS Integers, Sequences, SequencesExt, TLC

CONSTANT Nil    \* no text, nil, a null pointer

Act(action) == <<<<action, Nil>>>>
On(action, text) == <<<<action, text>>>>

\* An action on a text whose beginning was marked.
Marked(text, action) == On("mark", text) \o On(action, text)

Optional(text, actions) == IF text = Nil THEN <<>> ELSE actions

\* The actions of the elements of a list, one after the other.
Each(list, Actions(_)) == FlattenSeq([i \in DOMAIN list |-> Actions(list[i])])

----------------------------------------------------------------------------
\* The text from a pointer to the character that is read, where `end` ends.
Span(start, end) == IF start = end THEN end ELSE [garbled |-> start]

Without(text, marks) == [text EXCEPT !.marks = @ \ marks]

my_rb_str_downcase(text) == Without(text, {"upper"})

Numeral(digits, base) ==
    LET value[i \in 0..Len(digits)] == IF i = 0 THEN 0 ELSE base * value[i - 1] + digits[i]
    IN value[Len(digits)]

str_to_int(n) == Numeral(n.digits, 10)

\* strtol with base 0: a number that begins with 0 is octal, and ends at the
\* first digit that is not.
strtol(n) ==
    IF n.digits[1] # 0 THEN str_to_int(n)
    ELSE LET octal == SelectInSeq(n.digits, LAMBDA d : d > 7)
             prefix == IF octal = 0 THEN n.digits ELSE SubSeq(n.digits, 1, octal - 1)
         IN Numeral(prefix, 8)
=============================================================================

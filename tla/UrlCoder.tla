----------------------------- MODULE UrlCoder -----------------------------
(***************************************************************************)
(* URL encoding (urlcoder.c): single strings, and argument lists           *)
(* "name=value&name=value" built by repeated calls and taken apart into a  *)
(* list of pairs.                                                          *)
(*                                                                         *)
(* A string is a sequence of one-character strings; the terminator the C   *)
(* string has is the end of the sequence.                                  *)
(***************************************************************************)
EXTENDS Naturals, Sequences, SequencesExt, FiniteSetsExt

CONSTANTS
    ArgNames,   \* names of arguments, which are not encoded
    ArgValues,  \* values of arguments
    MaxPairs    \* bound: arguments of a list

VARIABLES pairs, args       \* what was put in, and the encoded list; <<>> for NULL

uvars == <<pairs, args>>

Hex == <<"0", "1", "2", "3", "4", "5", "6", "7", "8", "9", "a", "b", "c", "d", "e", "f">>

\* The characters outside [alnum-_.~] in play, and the codes of all that a
\* pair of digits may stand for here.
Ascii == [c \in {" ", "%", "&", "+", "=", "a", "b", "n", "v"} |->
            CASE c = " " -> 32 [] c = "%" -> 37 [] c = "&" -> 38 [] c = "+" -> 43 [] c = "=" -> 61
              [] c = "a" -> 97 [] c = "b" -> 98 [] c = "n" -> 110 [] c = "v" -> 118]
Unreserved == {"a", "b", "n", "v"}

url_to_hex(code) == Hex[(code % 16) + 1]
url_from_hex(ch) == CHOOSE i \in 0..15 : Hex[i + 1] = ch

url_encode(str) ==
    FlattenSeq([i \in DOMAIN str |->
        IF str[i] \in Unreserved THEN <<str[i]>>
        ELSE IF str[i] = " " THEN <<"+">>
        ELSE <<"%", url_to_hex(Ascii[str[i]] \div 16), url_to_hex(Ascii[str[i]])>>])

\* url_decode: a % that has no two characters behind it is left out.
url_decode(str) ==
    LET turn(s, c) ==
            IF s.skip > 0 THEN [s EXCEPT !.skip = @ - 1, !.at = @ + 1]
            ELSE IF c = "+" THEN [s EXCEPT !.out = Append(@, " "), !.at = @ + 1]
            ELSE IF c # "%" THEN [s EXCEPT !.out = Append(@, c), !.at = @ + 1]
            ELSE IF s.at + 2 > Len(str) THEN [s EXCEPT !.at = @ + 1]
            ELSE LET code == 16 * url_from_hex(str[s.at + 1]) + url_from_hex(str[s.at + 2])
                 IN [at |-> s.at + 1, skip |-> 2,
                     out |-> Append(s.out, CHOOSE x \in DOMAIN Ascii : Ascii[x] = code)]
    IN FoldLeft(turn, [at |-> 1, skip |-> 0, out |-> <<>>], str).out

\* Faulty: the value is put in as it is.
url_encode_arguments_Raw(list, name, val) ==
    IF list = <<>> THEN name \o <<"=">> \o val ELSE list \o <<"&">> \o name \o <<"=">> \o val

\* url_encode_arguments: one more pair.
url_encode_arguments(list, name, val) ==
    LET encval == url_encode(val)
    IN IF list = <<>> THEN name \o <<"=">> \o encval
       ELSE list \o <<"&">> \o name \o <<"=">> \o encval

----------------------------------------------------------------------------
(* Taking a list apart.  The scanner is at a character, in state 0 (a name) *)
(* or 1 (a value), with two buffers and the list so far.                   *)

add_name_value(s) ==
    [s EXCEPT !.list = Append(@, <<s.name, url_decode(s.value)>>),
              !.name = <<>>, !.value = <<>>, !.state = 0]

\* One turn of the loop.  The character behind a "=" is stored without being
\* looked at, and a value ends where an "&" is or where the last character is
\* next.  Behind the terminator the string is read on (over).
Turn(s, urlargs) ==
    LET c == urlargs[s.at]
        last == s.at = Len(urlargs)
    IN IF s.state = 0 /\ c = "="
       THEN IF last THEN [s EXCEPT !.over = TRUE]
            ELSE [s EXCEPT !.state = 1, !.value = Append(@, urlargs[s.at + 1]), !.at = @ + 2]
       ELSE IF s.state = 0 THEN [s EXCEPT !.name = Append(@, c), !.at = @ + 1]
       ELSE IF last THEN [add_name_value([s EXCEPT !.value = Append(@, c)]) EXCEPT !.at = @ + 1]
       ELSE IF c = "&" THEN [add_name_value(s) EXCEPT !.at = @ + 1]
       ELSE [s EXCEPT !.value = Append(@, c), !.at = @ + 1]

url_decode_arguments(urlargs) ==
    FoldLeft(LAMBDA s, c : IF s.over \/ s.at > Len(urlargs) THEN s ELSE Turn(s, urlargs),
             [at |-> 1, state |-> 0, name |-> <<>>, value |-> <<>>, list |-> <<>>, over |-> FALSE],
             urlargs)

\* url_get_arg_value: the first pair of the name, by match_arg_name.
match_arg_name(name, pair) == pair[1] = name

url_get_arg_value(list, name) ==
    IF \E i \in DOMAIN list : match_arg_name(name, list[i])
    THEN SelectSeq(list, LAMBDA q : match_arg_name(name, q))[1][2] ELSE "NULL"

----------------------------------------------------------------------------

AddArgument(name, val) ==
    /\ Len(pairs) < MaxPairs
    /\ pairs' = Append(pairs, <<name, val>>)
    /\ args' = url_encode_arguments(args, name, val)

UrlInit == pairs = <<>> /\ args = <<>>
UrlNext == \E name \in ArgNames, val \in ArgValues : AddArgument(name, val)
UrlSpec == UrlInit /\ [][UrlNext]_uvars

----------------------------------------------------------------------------
\* When a list comes back whole.  An empty value anywhere takes the "&" and the
\* argument behind it with it, or the reader behind the end; and a last value
\* that is one character when encoded is dropped.
Survives == /\ \A i \in DOMAIN pairs : pairs[i][2] # <<>>
            /\ Len(url_encode(Last(pairs)[2])) > 1

\* A string survives encoding and decoding whatever is in it, and so does a
\* list of arguments that Survives has: each name then gives the first value it
\* was put in with.  The scanner leaves its string only when the last value is
\* empty.
UrlInv ==
    /\ \A i \in DOMAIN pairs : url_decode(url_encode(pairs[i][2])) = pairs[i][2]
    /\ pairs # <<>> =>
          LET got == url_decode_arguments(args)
          IN /\ Survives =>
                   /\ got.list = pairs
                   /\ \A i \in DOMAIN pairs :
                         url_get_arg_value(got.list, pairs[i][1]) =
                             pairs[Min({j \in DOMAIN pairs : pairs[j][1] = pairs[i][1]})][2]
             /\ got.over => Last(pairs)[2] = <<>>

\* "Take a URL encoded argument list and decode its parts" (urlcoder.c:206), of
\* every list.  Violated: a list with an empty value, or whose last value is
\* one character, comes back different.
PairsComeBack == pairs # <<>> => url_decode_arguments(args).list = pairs
=============================================================================

--------------------------- MODULE SensitiveJson ---------------------------
(***************************************************************************)
(* The JSON parser that leaves no copies behind (sensitive_json.rs).  A     *)
(* document is a sequence of tokens: brackets, signs, blanks ("sp"),        *)
(* strings, and other scalars, which stand for themselves.  A string's      *)
(* inside is a sequence of characters, of which a group of four hex digits  *)
(* is one: a high surrogate, a low one, or another code unit.  A parse is   *)
(* the set of its results: none for a text that is refused.  A loop is a    *)
(* function of its rounds, which goes no further once the loop is over.     *)
(***************************************************************************)
EXTENDS Naturals, SequencesExt

CONSTANTS
    Strings,   \* the tokens that are whole strings
    Scalars,   \* those that are numbers and literals
    MaxDepth   \* 128

At(s, i) == IF i <= Len(s) THEN s[i] ELSE "end"

\* whitespace: where the next token is.
Skip(s, i) == CHOOSE j \in i .. Len(s) + 1:
                  At(s, j) # "sp" /\ \A k \in i .. j - 1: s[k] = "sp"

Result(value, next) == {[value |-> value, next |-> next]}

\* Mutant: a repeated key replaces the earlier one, as serde_json's would.
FreshOrNot(key, members) == TRUE

Fresh(key, members) == \A m \in ToSet(members): m[1] # key

Closes == [object |-> "rbrace", array |-> "rbracket"]

\* One more item of an object or array read so far, if a comma or the bracket follows it.
OneMore(s, kind, items, sofar) ==
    IF sofar.closed THEN {sofar} ELSE
    LET after(v) == Skip(s, v.next)
        taken == {v \in items[sofar.next]:
                      /\ kind = "object" => Fresh(v.value[1], sofar.value)
                      /\ At(s, after(v)) \in {"comma", Closes[kind]}}
    IN  {[value |-> Append(sofar.value, v.value), next |-> after(v) + 1,
          closed |-> At(s, after(v)) = Closes[kind]]: v \in taken}

\* The object or array whose opening bracket ends before i; items[k] is what stands at k.
List(s, i, kind, items) ==
    LET first == Skip(s, i)
        upto[n \in 0 .. Len(s)] ==
            IF n = 0 THEN {[value |-> <<>>, next |-> first, closed |-> FALSE]}
            ELSE UNION {OneMore(s, kind, items, sofar): sofar \in upto[n - 1]}
    IN  IF At(s, first) = Closes[kind] THEN Result(<<kind, <<>>>>, first + 1)
        ELSE {[value |-> <<kind, l.value>>, next |-> l.next]: l \in {m \in upto[Len(s)]: m.closed}}

\* A key, a colon and a value, which the level below reads.
Member(s, inner, i) ==
    LET key   == Skip(s, i)
        colon == Skip(s, key + 1)
    IN  IF At(s, key) \notin Strings \/ At(s, colon) # "colon" THEN {}
        ELSE {[value |-> <<s[key], v.value>>, next |-> v.next]: v \in inner[colon + 1]}

Members(s, inner) == [i \in DOMAIN inner |-> Member(s, inner, i)]

Value(s, inner, i) ==
    LET j == Skip(s, i)
    IN  CASE At(s, j) = "lbrace" -> List(s, j + 1, "object", Members(s, inner))
          [] At(s, j) = "lbracket" -> List(s, j + 1, "array", inner)
          [] At(s, j) \in Strings \cup Scalars -> Result(<<"scalar", s[j]>>, j + 1)
          [] OTHER -> {}

\* What stands at each place with so many levels left: no value at all with none.
Levels(s, levels) ==
    LET level[n \in 0 .. levels] ==
            [i \in 1 .. Len(s) + 1 |-> IF n = 0 THEN {} ELSE Value(s, level[n - 1], i)]
    IN  level[levels]

\* parse: the value, and nothing but blanks after it.
Parse(s) ==
    {v.value: v \in {w \in Levels(s, MaxDepth + 1)[1]: Skip(s, w.next) = Len(s) + 1}}

-----------------------------------------------------------------------------
(* string *)

Escapes == [quote |-> "quote", slash |-> "slash", n |-> "newline"]

\* How far the search for the closing quote goes on.
Steps(c) == IF c = "slash" THEN 2 ELSE 1

\* Where that search ends.
End(s) ==
    LET at[n \in 0 .. Len(s)] ==
            IF n = 0 THEN 1
            ELSE IF At(s, at[n - 1]) \in {"quote", "end"} THEN at[n - 1]
            ELSE at[n - 1] + Steps(s[at[n - 1]])
    IN  at[Len(s)]

\* Mutant: the second half of a pair is any group of digits.
UnicodeAnyPair(raw, i) ==
    CASE At(raw, i) = "unit" -> Result("unit", i + 1)
      [] /\ At(raw, i) = "high" /\ At(raw, i + 1) = "slash" /\ At(raw, i + 2) = "u"
         /\ At(raw, i + 3) \in {"high", "low", "unit"} -> Result("pair", i + 4)
      [] OTHER -> {}

\* The code point of \u at i, and where the text goes on; a surrogate needs its other half.
Unicode(raw, i) ==
    CASE At(raw, i) = "unit" -> Result("unit", i + 1)
      [] /\ At(raw, i) = "high" /\ At(raw, i + 1) = "slash" /\ At(raw, i + 2) = "u"
         /\ At(raw, i + 3) = "low" -> Result("pair", i + 4)
      [] OTHER -> {}

\* The character or escape at i: what it stands for, and where the text goes on.
Character(raw, i) ==
    LET c == At(raw, i)
        e == At(raw, i + 1)
    IN  CASE c = "control" -> {}
          [] c \notin {"control", "slash"} -> Result(c, i + 1)
          [] c = "slash" /\ e \in DOMAIN Escapes -> Result(Escapes[e], i + 2)
          [] c = "slash" /\ e = "u" -> Unicode(raw, i + 2)
          [] OTHER -> {}

Decoded(raw, sofar) ==
    IF sofar.next > Len(raw) THEN {sofar}
    ELSE {[value |-> Append(sofar.value, c.value), next |-> c.next]:
          c \in Character(raw, sofar.next)}

Decode(raw) ==
    LET upto[n \in 0 .. Len(raw)] ==
            IF n = 0 THEN Result(<<>>, 1)
            ELSE UNION {Decoded(raw, sofar): sofar \in upto[n - 1]}
    IN  {r.value: r \in upto[Len(raw)]}

\* A string whose opening quote is read: its value and what follows the closing quote.  Bytes
\* that are no UTF-8 are refused once it is decoded.
String(s) ==
    LET end == End(s) IN
    IF At(s, end) # "quote" THEN {} ELSE
    UNION {Result(v, end + 1): v \in {w \in Decode(SubSeq(s, 1, end - 1)): "bad" \notin ToSet(w)}}
=============================================================================

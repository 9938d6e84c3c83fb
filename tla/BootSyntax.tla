----------------------------- MODULE BootSyntax ------------------------------
(***************************************************************************)
(* Linux's boot configuration as text (src/src/boot_config): a parser that *)
(* reads one character after the other, the canonical text of a set of     *)
(* values, and what a plan makes of an inherited configuration             *)
(* (src/src/pipeline/boot_config.rs): it is decoded, some keys are         *)
(* replaced or removed, and the result is encoded to be decoded again by   *)
(* the next stage, and by Linux.                                           *)
(*                                                                         *)
(* A text, a key and a value are sequences of characters.                  *)
(***************************************************************************)
EXTENDS Naturals, Sequences, FiniteSets, TLC, SequencesExt

CONSTANTS
  Chars,      \* the characters texts are made of; "?" is one that is not printable ASCII
  Starts,     \* texts to start from
  MaxText,    \* bound: characters added
  MaxNodes,   \* BootConfig::MAX_NODES
  MaxDepth,   \* words of a key
  Keys, Lists,\* what a plan gives: keys, and lists of values
  MaxEdits    \* bound: keys a plan changes

VARIABLES text, p, phase, values, edits
vars == <<text, p, phase, values, edits>>

Letters == {"a", "b", "c", "x"}
Space == {" ", "\t", "\n"}
Ends == {",", ";", "\n", "#", "}"}
Quotes == {"'", "\""}

Empty == [k \in {} |-> <<>>]
\* Parser: where it is, the groups it is in, the key at hand, the array and the value it reads.
Begin ==
  [mode |-> "scope", groups |-> <<>>, key |-> <<>>, op |-> "", list |-> <<>>, buf |-> <<>>, quote |-> "",
   back |-> "scope", values |-> Empty, keys |-> {}, allocated |-> 0, err |-> FALSE]

Bad(s) == [s EXCEPT !.err = TRUE]

--------------------------------------------------------------------------
(* Keys *)

Dots(key) == {i \in DOMAIN key : key[i] = "."}
\* plan::Key::new
IsKey(key) ==
  /\ key # <<>> /\ Cardinality(Dots(key)) < MaxDepth
  /\ \A i \in Dots(key) : i > 1 /\ i < Len(key) /\ key[i + 1] # "."
\* A key and the keys above it.
Nodes(key) == {key} \cup {SubSeq(key, 1, i - 1) : i \in Dots(key)}
WithinLimit(s) == Cardinality(s.keys) + s.allocated <= MaxNodes
Full(s) == IF s.groups = <<>> THEN s.key ELSE Last(s.groups) \o <<".">> \o s.key

\* Parser::scope, when a key is complete: it and those above it are nodes from now on.
EndKey(s) ==
  LET s1 == [s EXCEPT !.key = Full(s), !.keys = @ \cup Nodes(Full(s)), !.mode = "op"]
  IN  IF ~IsKey(s1.key) \/ ~WithinLimit(s1) THEN Bad(s1) ELSE s1

--------------------------------------------------------------------------
(* Values *)

\* Without the blanks at its end.
Trim(v) == SubSeq(v, 1, Max({0} \cup {i \in DOMAIN v : v[i] \notin Space}))
IsValue(v) == \A i \in DOMAIN v : v[i] # "?"

EndValue(s, v) == IF IsValue(v) THEN [s EXCEPT !.list = Append(@, v), !.buf = <<>>, !.mode = "after"] ELSE Bad(s)

\* Mutant: appended values are not counted.
AssignUncounted(s) ==
  LET old == s.values[s.key]
      s1 == [s EXCEPT !.values[s.key] = IF s.op = "+" THEN old \o s.list ELSE s.list, !.list = <<>>, !.mode = "scope",
                      !.allocated = IF s.op = "+" THEN @ ELSE @ + Len(s.list)]
  IN  IF (s.op = "=" /\ old # <<>>) \/ ~WithinLimit(s1) THEN Bad(s1) ELSE s1

\* "=" needs a key without values; ":=" gives only the first old node back, as Linux does.
Assign(s) ==
  LET old == s.values[s.key]
      new == IF s.op = "+" THEN old \o s.list ELSE s.list
      reused == IF s.op # "+" /\ old # <<>> THEN 1 ELSE 0
      s1 == [s EXCEPT !.values[s.key] = new, !.list = <<>>, !.mode = "scope", !.allocated = @ + Len(s.list) - reused]
  IN  IF (s.op = "=" /\ old # <<>>) \/ ~WithinLimit(s1) THEN Bad(s1) ELSE s1

--------------------------------------------------------------------------
(* The parser, one character at a time: what a mode does not consume, the next one looks at. *)

ScopeChar(s, c) ==
  IF c \in Space \cup {";"} THEN s
  ELSE IF c = "#" THEN [s EXCEPT !.mode = "comment", !.back = "scope"]
  ELSE IF c = "}" /\ s.groups # <<>> THEN [s EXCEPT !.groups = Front(@)]
  ELSE IF c \in Letters \cup {"."} THEN [s EXCEPT !.mode = "key", !.key = <<c>>]
  ELSE Bad(s)

OpChar(s, c) ==
  LET s1 == [s EXCEPT !.values = IF s.key \in DOMAIN @ THEN @ ELSE (s.key :> <<>>) @@ @]
  IN  IF c \in Space \ {"\n"} THEN s
      ELSE IF c = "{" THEN [s1 EXCEPT !.groups = Append(@, s.key), !.mode = "scope"]
      ELSE IF c = "=" THEN [s1 EXCEPT !.op = "=", !.mode = "value"]
      ELSE IF c \in {":", "+"} THEN [s1 EXCEPT !.op = c, !.mode = "eq"]
      ELSE IF c \in {";", "\n"} THEN [s1 EXCEPT !.mode = "scope"]
      ELSE IF c \in {"#", "}"} THEN ScopeChar([s1 EXCEPT !.mode = "scope"], c)
      ELSE Bad(s)

AfterChar(s, c) == IF c = "," THEN [s EXCEPT !.mode = "next"] ELSE LET s1 == Assign(s) IN IF s1.err THEN s1 ELSE ScopeChar(s1, c)
Over(s, c) == IF s.err THEN s ELSE AfterChar(s, c)

PlainChar(s, c) == IF c \in Ends THEN Over(EndValue(s, Trim(s.buf)), c) ELSE [s EXCEPT !.mode = "plain", !.buf = Append(@, c)]
ValueChar(s, c) ==
  IF c \in Space \ {"\n"} THEN s
  ELSE IF c \in Quotes THEN [s EXCEPT !.mode = "quoted", !.quote = c] ELSE PlainChar(s, c)
NextChar(s, c) ==
  IF c \in Space THEN s
  ELSE IF c = "#" THEN [s EXCEPT !.mode = "comment", !.back = "next"] ELSE ValueChar([s EXCEPT !.mode = "value"], c)

Step(s, c) ==
  CASE s.err -> s
    [] s.mode = "scope" -> ScopeChar(s, c)
    [] s.mode = "comment" -> IF c = "\n" THEN [s EXCEPT !.mode = s.back] ELSE s
    [] s.mode = "key" ->
         IF c \in Letters \cup {"."} THEN [s EXCEPT !.key = Append(@, c)]
         ELSE LET s1 == EndKey(s) IN IF s1.err THEN s1 ELSE OpChar(s1, c)
    [] s.mode = "op" -> OpChar(s, c)
    [] s.mode = "eq" -> IF c = "=" THEN [s EXCEPT !.mode = "value"] ELSE Bad(s)
    [] s.mode = "value" -> ValueChar(s, c)
    [] s.mode = "next" -> NextChar(s, c)
    [] s.mode = "plain" -> PlainChar(s, c)
    [] s.mode = "quoted" -> IF c = s.quote THEN [s EXCEPT !.mode = "closed"] ELSE [s EXCEPT !.buf = Append(@, c)]
    [] s.mode = "closed" -> IF c \in Space \ {"\n"} THEN s ELSE IF c \in Ends THEN Over(EndValue(s, s.buf), c) ELSE Bad(s)

\* The end of the text: what is still open must be a value or nothing.
Parsed(s, nonempty) ==
  LET reading == s.mode \in {"value", "plain", "closed", "next"} \/ (s.mode = "comment" /\ s.back = "next")
      s1 == IF reading /\ ~s.err THEN EndValue(s, s.buf) ELSE s
      s2 == IF reading /\ ~s1.err THEN Assign(s1) ELSE s1
      open == s2.groups # <<>> \/ s2.mode \in {"key", "op", "eq", "quoted"}
  IN  IF s2.err \/ open \/ (nonempty /\ s2.values = Empty) THEN [ok |-> FALSE, values |-> Empty]
      ELSE [ok |-> TRUE, values |-> s2.values]
Parse(t) == Parsed(FoldLeft(Step, Begin, t), t # <<>>)

--------------------------------------------------------------------------
(* The canonical text *)

Plainly(v) == ~(\E i \in DOMAIN v : v[i] \in Ends) /\ Head(v) \notin Space \cup Quotes /\ Last(v) \notin Space

\* BootConfig::encode: <<>> stands for a value that cannot be written.
Quote(v) ==
  IF ~IsValue(v) THEN <<>>
  ELSE IF ~Contains(v, "\"") THEN <<"\"">> \o v \o <<"\"">>
  ELSE IF ~Contains(v, "'") THEN <<"'">> \o v \o <<"'">>
  ELSE IF Plainly(v) THEN v ELSE <<>>

\* A bare key with keys below it is implied by them.
Retained(vs) == [k \in {x \in DOMAIN vs : vs[x] # <<>> \/ \A y \in DOMAIN vs \ {x} : x \notin Nodes(y)} |-> vs[k]]

AllNodes(vs) == UNION {Nodes(k) : k \in DOMAIN vs}
Total(vs) == FoldLeft(LAMBDA n, k : n + Len(vs[k]), 0, SetToSeq(DOMAIN vs))

Line(vs, k) ==
  LET Item(i) == (IF i = 1 THEN <<" ", "=", " ">> ELSE <<",", " ">>) \o Quote(vs[k][i])
  IN  k \o FlattenSeq([i \in DOMAIN vs[k] |-> Item(i)]) \o <<";", "\n">>

\* TryFrom for BootConfig, and Display.
Native(vs) ==
  LET kept == Retained(vs)
      ok == /\ \A k \in DOMAIN vs : IsKey(k)
            /\ Total(vs) + Cardinality(AllNodes(vs)) <= MaxNodes
            /\ \A k \in DOMAIN kept : \A i \in DOMAIN kept[k] : Quote(kept[k][i]) # <<>>
  IN  [ok |-> ok, values |-> kept,
       text |-> IF ok THEN FlattenSeq([i \in 1..Cardinality(DOMAIN kept) |-> Line(kept, SetToSeq(DOMAIN kept)[i])]) ELSE <<>>]

\* BootConfig::decode
Decode(t) == LET r == Parse(t) IN IF r.ok THEN Native(r.values) ELSE [ok |-> FALSE, values |-> Empty, text |-> <<>>]

--------------------------------------------------------------------------
Init == \E t \in Starts : text = t /\ p = FoldLeft(Step, Begin, t) /\ phase = "text" /\ values = Empty /\ edits = 0

\* The text goes on.
Type(c) ==
  /\ phase = "text" /\ edits < MaxText /\ ~p.err
  /\ text' = Append(text, c) /\ p' = Step(p, c) /\ edits' = edits + 1
  /\ UNCHANGED <<phase, values>>

\* BootConfig::overlay decodes what is inherited;
Inherit ==
  /\ phase = "text" /\ LET r == Parsed(p, text # <<>>) IN r.ok /\ Native(r.values).ok /\ values' = Native(r.values).values
  /\ phase' = "overlay" /\ edits' = 0 /\ text' = <<>> /\ p' = Begin

\* a plan replaces a key, or removes it.
Put == /\ phase = "overlay" /\ edits < MaxEdits /\ edits' = edits + 1
       /\ \E k \in Keys, l \in Lists : values' = (k :> l) @@ values
       /\ UNCHANGED <<text, p, phase>>
Drop == /\ phase = "overlay" /\ edits < MaxEdits /\ edits' = edits + 1
        /\ \E k \in Keys : values' = [x \in DOMAIN values \ {k} |-> values[x]]
        /\ UNCHANGED <<text, p, phase>>

Next == (\E c \in Chars : Type(c)) \/ Inherit \/ Put \/ Drop
Spec == Init /\ [][Next]_vars

--------------------------------------------------------------------------
\* The parser's state stays well formed: open groups and the keys at hand are nodes it
\* counted, and the values never need more nodes than it allocated (Parser::check_nodes).
TypeOK ==
  /\ phase \in {"text", "overlay"} /\ edits \in Nat
  /\ ~p.err => /\ \A i \in DOMAIN p.groups : p.groups[i] \in p.keys /\ IsKey(p.groups[i])
               /\ AllNodes(p.values) \subseteq p.keys
               /\ WithinLimit(p)

\* A text is accepted only if Linux's arena holds it: the nodes the parser counted cover what
\* it returns, however often lists were replaced and appended to, so the canonical text fits
\* too (parser.rs: "Linux's bounded parser arena").
ArenaSuffices ==
  phase = "text" => LET r == Parsed(p, text # <<>>) IN r.ok => Total(r.values) + Cardinality(AllNodes(r.values)) <= MaxNodes

\* What was read, or made by a plan, is what the next stage reads again: the canonical text
\* of every configuration parses, to the same values and the same text (decode after encode).
RoundTrip ==
  LET vs == IF phase = "overlay" THEN values ELSE Parsed(p, text # <<>>).values
      config == Native(vs)
  IN  config.ok => Decode(config.text) = config

\* Whatever the parser accepts can be written, but for a value without quotes that Linux
\* ends with the blanks at the end of the text (FromStr: parse, then try_into).
ParsedCanBeWritten ==
  phase = "text" =>
    LET r == Parsed(p, text # <<>>)
    IN  r.ok => Native(r.values).ok \/ (p.mode = "plain" /\ Last(p.buf) \in Space)

\* A value is refused only if no quotation before a delimiter gives it (encode).
RefusesTheUnwritable ==
  phase = "overlay" =>
    \A k \in DOMAIN values : \A i \in DOMAIN values[k] :
      Quote(values[k][i]) = <<>> =>
        \A q \in {<<>>, <<"'">>, <<"\"">>} :
          LET r == Parse(<<"a", "=">> \o q \o values[k][i] \o q \o <<";">>)
          IN  ~(r.ok /\ r.values = (<<"a">> :> <<values[k][i]>>))

\* Texts and values go both ways, within what Linux holds and what it can quote
\* (BootConfig::from_str, BootConfig::encode).
SyntaxIsSound ==
  TypeOK /\ ArenaSuffices /\ RoundTrip /\ ParsedCanBeWritten /\ RefusesTheUnwritable
=============================================================================

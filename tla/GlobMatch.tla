------------------------------ MODULE GlobMatch ------------------------------
(***************************************************************************)
(* A filename pattern of COPY (src/src/copy/pattern.rs): it is parsed      *)
(* character by character into tokens, and matched against the bytes of a  *)
(* name by moving a set of reachable offsets over the tokens.  A scanner   *)
(* of its own (src/src/copy/source.rs) decides which parts of a path are   *)
(* patterns and which are literal names.                                   *)
(*                                                                         *)
(* Characters are code points.  A name is a sequence of runes; Invalid     *)
(* stands for a byte that is not UTF-8.                                    *)
(***************************************************************************)
EXTENDS Naturals, Sequences, SequencesExt

CONSTANTS
  Alphabet,     \* characters of the patterns
  MaxPattern,   \* bound: characters of a pattern
  Runes,        \* runes of the names
  MaxName       \* bound: runes of a name

VARIABLES
  pattern,      \* the characters of the pattern
  pos,          \* the next character
  phase,        \* "parse", "class", "error", "match", "done"
  negated, ranges,  \* the class being parsed
  tokens,       \* parsed so far
  name,         \* the name to match
  next,         \* the next token to match
  reachable     \* offsets of the name where it may start

vars == <<pattern, pos, phase, negated, ranges, tokens, name, next, reachable>>

Slash == 47
Star == 42
Question == 63
Open == 91
Close == 93
Caret == 94
Dash == 45
Escape == 92
Invalid == 65533

Width(rune) == IF rune < 128 \/ rune = Invalid THEN 1 ELSE IF rune < 2048 THEN 2 ELSE 3

\* The bytes of a name, each with the rune it belongs to and its place there.
Bytes(n) == FlattenSeq([i \in 1..Len(n) |-> [k \in 1..Width(n[i]) |-> [rune |-> n[i], at |-> k]]])

\* Mutant: a rune is a byte.
DecodedByte(bytes, offset) == [value |-> bytes[offset + 1].rune, width |-> 1]

\* Rune::decode at an offset: the rune that starts there, or one bad byte.
Decoded(bytes, offset) ==
  LET byte == bytes[offset + 1]
  IN  IF byte.at = 1 THEN [value |-> byte.rune, width |-> Width(byte.rune)]
                     ELSE [value |-> Invalid, width |-> 1]

Literal(char) == [is |-> "literal", char |-> char]
StarToken == [is |-> "star"]
AnyToken  == [is |-> "any"]
Class(neg, rs) == [is |-> "class", negated |-> neg, ranges |-> rs]

Init ==
  /\ pattern \in UNION {[1..n -> Alphabet] : n \in 1..MaxPattern}
  /\ pos = 1 /\ phase = "parse" /\ negated = FALSE /\ ranges = <<>> /\ tokens = <<>>
  /\ name = <<>> /\ next = 1 /\ reachable = {}

--------------------------------------------------------------------------
(* The parser. *)

Has(p) == p <= Len(pattern)
Token(token, length) ==
  /\ tokens' = Append(tokens, token) /\ pos' = pos + length /\ phase' = "parse"
  /\ UNCHANGED <<pattern, negated, ranges, name, next, reachable>>
\* Mutant: an error of the parser is dropped.
RejectsQuietly == UNCHANGED vars

Rejects == phase' = "error" /\ UNCHANGED <<pattern, pos, negated, ranges, tokens, name, next, reachable>>

Parse ==
  /\ phase = "parse" /\ Has(pos)
  /\ CASE pattern[pos] = Star     -> Token(StarToken, 1)
       [] pattern[pos] = Question -> Token(AnyToken, 1)
       [] pattern[pos] = Escape   -> IF Has(pos + 1) THEN Token(Literal(pattern[pos + 1]), 2) ELSE Rejects
       [] pattern[pos] = Open     ->
            /\ negated' = (Has(pos + 1) /\ pattern[pos + 1] = Caret)
            /\ pos' = pos + 1 + (IF negated' THEN 1 ELSE 0)
            /\ ranges' = <<>> /\ phase' = "class"
            /\ UNCHANGED <<pattern, tokens, name, next, reachable>>
       [] OTHER -> Token(Literal(pattern[pos]), 1)

\* The length of the class character at p, 0 where there is none.
ClassLength(p) ==
  IF ~Has(p) \/ pattern[p] \in {Close, Dash} THEN 0
  ELSE IF pattern[p] # Escape THEN 1
  ELSE IF Has(p + 1) THEN 2 ELSE 0
ClassCharacter(p) == pattern[p + ClassLength(p) - 1]

\* A closing bracket ends a class that is not empty; anything else is a range.
ParseClass ==
  /\ phase = "class"
  /\ IF ranges # <<>> /\ Has(pos) /\ pattern[pos] = Close
     THEN Token(Class(negated, ranges), 1)
     ELSE LET low  == ClassLength(pos)
              dash == pos + low
              isRange == Has(dash) /\ pattern[dash] = Dash
              high == IF isRange THEN ClassLength(dash + 1) ELSE low
          IN  IF low = 0 \/ high = 0 THEN Rejects
              ELSE /\ ranges' = Append(ranges, <<ClassCharacter(pos),
                                   ClassCharacter(IF isRange THEN dash + 1 ELSE pos)>>)
                   /\ pos' = IF isRange THEN dash + 1 + high ELSE dash
                   /\ UNCHANGED <<pattern, phase, negated, tokens, name, next, reachable>>

\* SourceTree::wildcard: an unescaped opening character anywhere.
Escaped(p) == LET run == {k \in 1..(p - 1) : \A j \in k..(p - 1) : pattern[j] = Escape}
              IN  \E k \in run : (p - k) % 2 = 1 /\ \A j \in run : k <= j
Wildcard == \E p \in 1..Len(pattern) : pattern[p] \in {Star, Question, Open} /\ ~Escaped(p)

--------------------------------------------------------------------------
(* The matcher. *)

Start ==
  /\ phase = "parse" /\ ~Has(pos)
  /\ name' \in UNION {[1..n -> Runes] : n \in 0..MaxName}
  /\ phase' = "match" /\ next' = 1 /\ reachable' = {0}
  /\ UNCHANGED <<pattern, pos, negated, ranges, tokens>>

InRanges(rs, value) == \E i \in 1..Len(rs) : rs[i][1] <= value /\ value <= rs[i][2]

\* The offsets after a token, from those before it.
After(token, offsets, bytes) ==
  CASE token.is = "star" ->
         {o \in 0..Len(bytes) : \E from \in offsets :
            from <= o /\ \A k \in (from + 1)..o : bytes[k].rune # Slash}
    [] token.is = "literal" ->
         {o + Width(token.char) : o \in {o \in offsets :
            o < Len(bytes) /\ bytes[o + 1] = [rune |-> token.char, at |-> 1]}}
    [] token.is = "any" ->
         {o + Decoded(bytes, o).width : o \in {o \in offsets :
            o < Len(bytes) /\ bytes[o + 1].rune # Slash}}
    [] token.is = "class" ->
         {o + Decoded(bytes, o).width : o \in {o \in offsets :
            o < Len(bytes) /\ InRanges(token.ranges, Decoded(bytes, o).value) # token.negated}}

Match ==
  /\ phase = "match" /\ next <= Len(tokens)
  /\ reachable' = After(tokens[next], reachable, Bytes(name))
  /\ next' = next + 1
  /\ UNCHANGED <<pattern, pos, phase, negated, ranges, tokens, name>>

Finish ==
  /\ phase = "match" /\ next > Len(tokens)
  /\ phase' = "done"
  /\ UNCHANGED <<pattern, pos, negated, ranges, tokens, name, next, reachable>>

Matches == Len(Bytes(name)) \in reachable

Next == Parse \/ ParseClass \/ Start \/ Match \/ Finish
Spec == Init /\ [][Next]_vars /\ WF_vars(Next)

--------------------------------------------------------------------------
(* The references: backtracking over the tokens, from an offset of the name's bytes *)
(* as Go's filepath.Match does it, and by whole runes as the test of the code does. *)

\* A byte that is no rune is a rune of its own.
Accepts(ts, bytes) ==
  LET Starts(o, rune) == o < Len(bytes) /\ bytes[o + 1] = [rune |-> rune, at |-> 1]
      First(o) == Decoded(bytes, o)
      accepts[i \in 1..(Len(ts) + 1), o \in 0..Len(bytes)] ==
        IF i > Len(ts) THEN o = Len(bytes)
        ELSE LET token == ts[i] IN
          CASE token.is = "star" ->
                 \E to \in o..Len(bytes) : (\A k \in (o + 1)..to : bytes[k].rune # Slash) /\ accepts[i + 1, to]
            [] token.is = "literal" -> Starts(o, token.char) /\ accepts[i + 1, o + Width(token.char)]
            [] token.is = "any" ->
                 o < Len(bytes) /\ bytes[o + 1].rune # Slash /\ accepts[i + 1, o + First(o).width]
            [] token.is = "class" ->
                 /\ o < Len(bytes) /\ InRanges(token.ranges, First(o).value) # token.negated
                 /\ accepts[i + 1, o + First(o).width]
  IN  accepts[1, 0]

AcceptsRunes(ts, rs) ==
  LET accepts[i \in 1..(Len(ts) + 1), r \in 1..(Len(rs) + 1)] ==
        IF i > Len(ts) THEN r > Len(rs)
        ELSE LET token == ts[i] IN
          CASE token.is = "star" ->
                 \E to \in r..(Len(rs) + 1) : (\A k \in r..(to - 1) : rs[k] # Slash) /\ accepts[i + 1, to]
            [] token.is = "literal" -> r <= Len(rs) /\ token.char = rs[r] /\ accepts[i + 1, r + 1]
            [] token.is = "any" -> r <= Len(rs) /\ rs[r] # Slash /\ accepts[i + 1, r + 1]
            [] token.is = "class" ->
                 r <= Len(rs) /\ InRanges(token.ranges, rs[r]) # token.negated /\ accepts[i + 1, r + 1]
  IN  accepts[1, 1]

\* The parser stays inside the pattern, a class has a range, and the reachable
\* offsets are offsets of the name.
TypeOK ==
  /\ phase \in {"parse", "class", "error", "match", "done"}
  /\ pos \in 1..(Len(pattern) + 1)
  /\ \A i \in DOMAIN tokens : tokens[i].is = "class" => tokens[i].ranges # <<>>
  /\ reachable \subseteq 0..Len(Bytes(name))

\* The matcher accepts what Go's filepath.Match accepts (the module's comment): a
\* star may stop inside a rune, and what follows reads the bytes that are left.
AgreesWithGo == phase = "done" => (Matches <=> Accepts(tokens, Bytes(name)))

\* Every rune, and every byte that is none, is consumed by exactly one "?" or class
\* (the comment of the test short_globs_agree_with_independent_rune_sequence_definition),
\* as long as a rune has two bytes at most and no class takes a byte that is none.
AgreesWithRunes ==
  phase = "done" /\ (\A i \in DOMAIN name : Width(name[i]) <= 2)
    /\ (\A i \in DOMAIN tokens : tokens[i].is = "class" => InRanges(tokens[i].ranges, Invalid) = tokens[i].negated) =>
    (Matches <=> AcceptsRunes(tokens, name))

\* A path part that the scanner of the source walk takes for a name is one the
\* parser finds no operator in, so that joining it unparsed skips no pattern.
WildcardAgrees ==
  phase = "match" => (Wildcard <=> \E i \in DOMAIN tokens : tokens[i].is # "literal")

\* What the parser and the matcher answer is what the pattern means.
MatchesAsDefined == TypeOK /\ AgreesWithGo /\ AgreesWithRunes /\ WildcardAgrees

\* The parser and the matcher end on every pattern and name.
MatchEnds == <>(phase \in {"error", "done"})
=============================================================================

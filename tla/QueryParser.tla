----------------------------- MODULE QueryParser -----------------------------
(***************************************************************************)
(* The query language: the lexer (dse::query::lex) and the recursive       *)
(* descent parser (dse::query::parse).                                     *)
(*                                                                         *)
(* A text is a sequence of units: a delimiter, a backslash, or a run of    *)
(* other bytes that stands for one (a keyword in either case, a number, a  *)
(* name), so that a word is a sequence of units and its length in bytes    *)
(* the number of them.  A lexeme is [kind, text, position]; a query is the *)
(* record that QueryPlanner describes, with the words of the text in it.   *)
(* Positions of query nodes, which only messages use, are left out; those  *)
(* of errors are kept.                                                     *)
(***************************************************************************)
EXTENDS Integers, SequencesExt

CONSTANTS
  Keyword,        \* the units that are keywords, and the operator that each is
  Boosts,         \* the units that are positive finite numbers
  MaxQueryBytes, MaxLexemes, MaxLexemeBytes, MaxNesting  \* QueryLimits

\* lex refuses limits that are zero.
ASSUME LimitsAssumption ==
  {MaxQueryBytes, MaxLexemes, MaxLexemeBytes, MaxNesting} \subseteq Nat \ {0}

----------------------------------------------------------------------------
(* lex *)

Space == " "
FormFeed == "\f"   \* and the vertical tab: white space to isspace alone
Spaces == {Space, FormFeed}
Quote == "\""
Backslash == "\\"
Punctuation == {"(", ")", ":", "^", "[", "]", "*"}
Delimiters == Punctuation \cup Spaces \cup {Quote}

Error(code, position) == [failed |-> TRUE, code |-> code, position |-> position]

\* A word is an operator when it is the keyword and nothing else.
ClassifyWord(word) ==
  IF Len(word) = 1 /\ word[1] \in DOMAIN Keyword THEN Keyword[word[1]] ELSE "word"

\* The first delimiter at or after a position.
RECURSIVE WordEnd(_, _)
WordEnd(input, at) ==
  IF at > Len(input) \/ input[at] \in Delimiters THEN at ELSE WordEnd(input, at + 1)

\* A mutated form: the backslash is kept in the place of what it escapes.
RECURSIVE ScanKeepingEscapes(_, _, _, _)
ScanKeepingEscapes(input, start, at, text) ==
  IF at > Len(input) THEN Error("unterminated_phrase", start)
  ELSE IF input[at] = Quote THEN [failed |-> FALSE, text |-> text, next |-> at + 1]
  ELSE IF input[at] # Backslash
  THEN ScanKeepingEscapes(input, start, at + 1, Append(text, input[at]))
  ELSE IF at = Len(input) \/ input[at + 1] \notin {Quote, Backslash}
  THEN Error("unexpected_character", at)
  ELSE ScanKeepingEscapes(input, start, at + 2, Append(text, Backslash))

\* The text of a phrase from a position inside of it.
RECURSIVE ScanPhrase(_, _, _, _)
ScanPhrase(input, start, at, text) ==
  IF at > Len(input) THEN Error("unterminated_phrase", start)
  ELSE IF input[at] = Quote THEN [failed |-> FALSE, text |-> text, next |-> at + 1]
  ELSE IF input[at] # Backslash THEN ScanPhrase(input, start, at + 1, Append(text, input[at]))
  ELSE IF at = Len(input) \/ input[at + 1] \notin {Quote, Backslash}
  THEN Error("unexpected_character", at)
  ELSE ScanPhrase(input, start, at + 2, Append(text, input[at + 1]))

\* The lexeme that begins at a position, and where the next one may begin.
ScanLexeme(input, at) ==
  IF input[at] \in Punctuation
  THEN [failed |-> FALSE, kind |-> input[at], text |-> <<input[at]>>, next |-> at + 1]
  ELSE IF input[at] = Quote
  THEN LET phrase == ScanPhrase(input, at, at + 1, <<>>)
       IN IF phrase.failed THEN phrase
          ELSE [failed |-> FALSE, kind |-> "phrase", text |-> phrase.text,
                next |-> phrase.next]
  ELSE LET next == WordEnd(input, at)
           word == SubSeq(input, at, next - 1)
       IN [failed |-> FALSE, kind |-> ClassifyWord(word), text |-> word, next |-> next]

End(position) == [kind |-> "end", text |-> <<>>, position |-> position]

RECURSIVE LexFrom(_, _, _)
LexFrom(input, at, lexemes) ==
  IF at > Len(input) THEN [failed |-> FALSE, lexemes |-> Append(lexemes, End(at))]
  ELSE IF input[at] \in Spaces THEN LexFrom(input, at + 1, lexemes)
  ELSE LET scanned == ScanLexeme(input, at)
       IN IF scanned.failed THEN scanned
          ELSE IF Len(scanned.text) > MaxLexemeBytes \/ Len(lexemes) >= MaxLexemes
          THEN Error("resource_limit", at)
          ELSE LexFrom(input, scanned.next,
                       Append(lexemes, [kind |-> scanned.kind, text |-> scanned.text,
                                        position |-> at]))

Lex(input) ==
  IF Len(input) > MaxQueryBytes THEN Error("resource_limit", MaxQueryBytes + 1)
  ELSE LexFrom(input, 1, <<>>)

----------------------------------------------------------------------------
(* The parser: what a parsing function returns is an error or a query and  *)
(* the lexeme after it                                                     *)

Parsed(query, at) == [failed |-> FALSE, query |-> query, at |-> at]
Fail(code, lexeme) == Error(code, lexeme.position)

\* Whatever made the operand, or its error.
Wrapped(operand, Wrap(_)) ==
  IF operand.failed THEN operand ELSE [operand EXCEPT !.query = Wrap(@)]

BeginsPrimary(lexeme) == lexeme.kind \in {"word", "phrase", "(", "*"}

\* A phrase without text, as the parser sees it: it does not know form feeds.
Blank(text) == \A n \in DOMAIN text : text[n] = Space
IsBoost(lexeme) == Len(lexeme.text) = 1 /\ lexeme.text[1] \in Boosts

And(left, right) == [kind |-> "and", left |-> left, right |-> right]
Or(left, right) == [kind |-> "or", left |-> left, right |-> right]
Not(operand) == [kind |-> "not", operand |-> operand]
Boost(query, lexeme) == [kind |-> "boost", boost |-> lexeme.text, query |-> query]
Field(lexeme, query) == [kind |-> "field", field |-> lexeme.text, query |-> query]
Term(lexeme) == [kind |-> "term", text |-> lexeme.text]
Phrase(lexeme) == [kind |-> "phrase", text |-> lexeme.text]
All == [kind |-> "all"]
RangeOf(field, lower, upper) ==
  [kind |-> "range", field |-> field.text, lower |-> lower.text, upper |-> upper.text,
   includeLower |-> TRUE, includeUpper |-> TRUE]

\* parse_range, from the bracket after "field:".
IsBound(lexeme) == lexeme.kind \in {"word", "*"}

ParseRange(t, at) ==
  IF ~IsBound(t[at + 1]) THEN Fail("expected_range_bound", t[at + 1])
  ELSE IF t[at + 2].kind # "to" THEN Fail("expected_range_bound", t[at + 2])
  ELSE IF ~IsBound(t[at + 3]) THEN Fail("expected_range_bound", t[at + 3])
  ELSE IF t[at + 4].kind # "]" THEN Fail("unexpected_token", t[at + 4])
  ELSE Parsed(RangeOf(t[at - 2], t[at + 1], t[at + 3]), at + 5)

RECURSIVE ParseOr(_, _, _)
RECURSIVE ParseFieldOperand(_, _, _)

ParsePrimary(t, at, depth) ==
  CASE t[at].kind = "word" /\ t[at + 1].kind # ":" -> Parsed(Term(t[at]), at + 1)
    [] t[at].kind = "word" /\ t[at + 1].kind = ":" ->
         IF t[at + 2].kind = "[" THEN ParseRange(t, at + 2)
         ELSE IF ~BeginsPrimary(t[at + 2]) /\ t[at + 2].kind # "not"
         THEN Fail("expected_expression", t[at + 2])
         ELSE Wrapped(ParseFieldOperand(t, at + 2, depth), LAMBDA q : Field(t[at], q))
    [] t[at].kind = "phrase" ->
         IF Blank(t[at].text) THEN Fail("expected_expression", t[at])
         ELSE Parsed(Phrase(t[at]), at + 1)
    [] t[at].kind = "*" -> Parsed(All, at + 1)
    [] t[at].kind = "(" ->
         IF depth >= MaxNesting THEN Fail("nesting_too_deep", t[at])
         ELSE LET inner == ParseOr(t, at + 1, depth + 1)
              IN IF inner.failed THEN inner
                 ELSE IF t[inner.at].kind # ")" THEN Fail("unexpected_token", t[inner.at])
                 ELSE [inner EXCEPT !.at = @ + 1]
    [] OTHER -> Fail("expected_expression", t[at])

\* Without postfix boosts, so that field:value^2 boosts the field query.
ParseFieldOperand(t, at, depth) ==
  IF t[at].kind = "not" THEN Wrapped(ParseFieldOperand(t, at + 1, depth), Not)
  ELSE ParsePrimary(t, at, depth)

RECURSIVE Boosted(_, _)
Boosted(t, parsed) ==
  IF parsed.failed \/ t[parsed.at].kind # "^" THEN parsed
  ELSE IF t[parsed.at + 1].kind # "word" \/ ~IsBoost(t[parsed.at + 1])
  THEN Fail("invalid_boost", t[parsed.at + 1])
  ELSE Boosted(t, Parsed(Boost(parsed.query, t[parsed.at + 1]), parsed.at + 2))

ParsePostfix(t, at, depth) == Boosted(t, ParsePrimary(t, at, depth))

RECURSIVE ParseUnary(_, _, _)
ParseUnary(t, at, depth) ==
  IF t[at].kind = "not" THEN Wrapped(ParseUnary(t, at + 1, depth), Not)
  ELSE ParsePostfix(t, at, depth)

RECURSIVE AndRest(_, _, _)
AndRest(t, left, depth) ==
  IF left.failed \/ t[left.at].kind # "and" THEN left
  ELSE AndRest(t, Wrapped(ParseUnary(t, left.at + 1, depth),
                          LAMBDA right : And(left.query, right)), depth)

ParseAnd(t, at, depth) == AndRest(t, ParseUnary(t, at, depth), depth)

\* A mutated form: the right operand takes all the rest of the disjunction.
OrOfRest(t, left, depth) ==
  IF left.failed \/ ~(t[left.at].kind = "or" \/ BeginsPrimary(t[left.at])) THEN left
  ELSE Wrapped(ParseOr(t, IF t[left.at].kind = "or" THEN left.at + 1 ELSE left.at, depth),
               LAMBDA right : Or(left.query, right))

RECURSIVE OrRest(_, _, _)
OrRest(t, left, depth) ==
  IF left.failed \/ ~(t[left.at].kind = "or" \/ BeginsPrimary(t[left.at])) THEN left
  ELSE OrRest(t, Wrapped(ParseAnd(t, IF t[left.at].kind = "or" THEN left.at + 1 ELSE left.at,
                                  depth),
                         LAMBDA right : Or(left.query, right)), depth)

ParseOr(t, at, depth) == OrRest(t, ParseAnd(t, at, depth), depth)

Run(t) ==
  IF t[1].kind = "end" THEN Fail("empty_query", t[1])
  ELSE LET parsed == ParseOr(t, 1, 0)
       IN IF parsed.failed \/ t[parsed.at].kind = "end" THEN parsed
          ELSE Fail("unexpected_token", t[parsed.at])

Parse(input) ==
  LET lexed == Lex(input) IN IF lexed.failed THEN lexed ELSE Run(lexed.lexemes)

----------------------------------------------------------------------------
(* The reference: the grammar of docs/query_language.md, as the sets of the *)
(* trees of the lexemes from i up to and without j, with g parentheses that *)
(* may still be opened.  The documented rules give title:x^2 two trees; a   *)
(* boost is taken to be that of the field query, as a comment in            *)
(* parse_primary says.                                                      *)

TermTrees(t, i, j) == IF j = i + 1 /\ t[i].kind = "word" THEN {Term(t[i])} ELSE {}
AllTrees(t, i, j) == IF j = i + 1 /\ t[i].kind = "*" THEN {All} ELSE {}
PhraseTrees(t, i, j) ==
  IF j = i + 1 /\ t[i].kind = "phrase" /\ ~Blank(t[i].text) THEN {Phrase(t[i])} ELSE {}

RangeTrees(t, i, j) ==
  IF /\ j = i + 7
     /\ t[i].kind = "word" /\ t[i + 1].kind = ":" /\ t[i + 2].kind = "["
     /\ IsBound(t[i + 3]) /\ t[i + 4].kind = "to" /\ IsBound(t[i + 5])
     /\ t[i + 6].kind = "]"
  THEN {RangeOf(t[i], t[i + 3], t[i + 5])} ELSE {}

RECURSIVE OrTrees(_, _, _, _)
RECURSIVE OperandTrees(_, _, _, _)

PrimaryTrees(t, i, j, g) ==
  TermTrees(t, i, j) \cup AllTrees(t, i, j) \cup PhraseTrees(t, i, j) \cup RangeTrees(t, i, j)
    \cup (IF j > i + 2 /\ t[i].kind = "(" /\ t[j - 1].kind = ")" /\ g > 0
          THEN OrTrees(t, i + 1, j - 1, g - 1) ELSE {})
    \cup (IF j > i + 2 /\ t[i].kind = "word" /\ t[i + 1].kind = ":"
          THEN {Field(t[i], q) : q \in OperandTrees(t, i + 2, j, g)} ELSE {})

OperandTrees(t, i, j, g) ==
  PrimaryTrees(t, i, j, g)
    \cup (IF j > i + 1 /\ t[i].kind = "not"
          THEN {Not(q) : q \in OperandTrees(t, i + 1, j, g)} ELSE {})

RECURSIVE PostfixTrees(_, _, _, _)
PostfixTrees(t, i, j, g) ==
  PrimaryTrees(t, i, j, g)
    \cup (IF j > i + 2 /\ t[j - 2].kind = "^" /\ t[j - 1].kind = "word" /\ IsBoost(t[j - 1])
          THEN {Boost(q, t[j - 1]) : q \in PostfixTrees(t, i, j - 2, g)} ELSE {})

RECURSIVE UnaryTrees(_, _, _, _)
UnaryTrees(t, i, j, g) ==
  PostfixTrees(t, i, j, g)
    \cup (IF j > i + 1 /\ t[i].kind = "not"
          THEN {Not(q) : q \in UnaryTrees(t, i + 1, j, g)} ELSE {})

\* The trees of two parts and an operator between them; the right part first,
\* because there is seldom one.
Combined(Left(_), rights, Operator(_, _)) ==
  IF rights = {} THEN {} ELSE {Operator(l, r) : l \in Left(0), r \in rights}

RECURSIVE AndTrees(_, _, _, _)
AndTrees(t, i, j, g) ==
  UnaryTrees(t, i, j, g)
    \cup UNION {Combined(LAMBDA x : AndTrees(t, i, k, g),
                         UnaryTrees(t, k + 1, j, g), And) :
                  k \in {k \in (i + 1)..(j - 2) : t[k].kind = "and"}}

\* Adjacent expressions are a disjunction, whatever the second begins with.
OrTrees(t, i, j, g) ==
  AndTrees(t, i, j, g)
    \cup UNION {Combined(LAMBDA x : OrTrees(t, i, k, g),
                         AndTrees(t, IF t[k].kind = "or" THEN k + 1 ELSE k, j, g), Or) :
                  k \in {k \in (i + 1)..(j - 1) : t[k].kind \in {"or", "word", "phrase", "*", "(", "not"}}}

\* The trees of lexemes that are not yet followed by the end.
Trees(t) == OrTrees(t, 1, Len(t) + 1, MaxNesting)
=============================================================================

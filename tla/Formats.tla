------------------------------- MODULE Formats -------------------------------
(***************************************************************************)
(* The query language and the posting codec against their references, on   *)
(* every input up to a bound.  An input grows by one element at a time:    *)
(*   text      units of a query's text, for the lexer                      *)
(*   lexemes   lexemes of a query, for the parser                          *)
(*   numbers   values, for the deltas of the codec                         *)
(*   postings  postings of a term in any order, for the segment's encoding *)
(*   bytes     what the decoders may find in a file                        *)
(***************************************************************************)
EXTENDS QueryParser, CodecInput

----------------------------------------------------------------------------
(* The parser on lexemes: the position of each is its number *)

Placed(lexemes) ==
  [n \in DOMAIN lexemes |-> [kind |-> lexemes[n].kind, text |-> lexemes[n].text,
                             position |-> n]]

Parsing(lexemes) == Run(Append(Placed(lexemes), End(Len(lexemes) + 1)))

\* The error is at a lexeme: no more of the input is read.
Rejected(lexemes) ==
  /\ Parsing(lexemes).failed
  /\ Parsing(lexemes).position <= Len(lexemes)

----------------------------------------------------------------------------
\* There is one more element, unless the parser has stopped before it.
FormatsNext ==
  \E element \in Elements[subject] :
    /\ subject = "lexemes" => ~Rejected(given)
    /\ Extend(element)

----------------------------------------------------------------------------
(* Properties *)

\* How a lexeme is written.
Escaped(unit) == IF unit \in {Quote, Backslash} THEN <<Backslash, unit>> ELSE <<unit>>

Spelling(lexeme) ==
  IF lexeme.kind = "phrase"
  THEN <<Quote>> \o FoldLeft(LAMBDA text, unit : text \o Escaped(unit), <<>>, lexeme.text)
                 \o <<Quote>>
  ELSE lexeme.text

\* The white space of a text in front of a position; anything else is lost.
Gap(text, from, position) ==
  SelectSeq(SubSeq(text, from, position - 1), LAMBDA unit : unit \in Spaces)

\* The lexemes, each written where it begins, with nothing but the text's
\* white space before, between and after them.
Rewritten(input, lexemes) ==
  FoldLeft(LAMBDA text, lexeme :
             text \o Gap(input, Len(text) + 1, lexeme.position) \o Spelling(lexeme),
           <<>>, lexemes)

\* The lexer loses, invents and moves nothing: its lexemes written down again
\* are the text, escapes included; a word ends only where a delimiter begins,
\* and a keyword is one only as a whole word; the limits on the text, the
\* lexemes and their size hold.
LexerFaithful ==
  LET lexed == Lex(given)
      t == lexed.lexemes
  IN subject = "text" /\ ~lexed.failed =>
       /\ Rewritten(given, t) = given
       /\ Len(given) <= MaxQueryBytes /\ Len(t) <= MaxLexemes + 1
       /\ \A n \in 1..(Len(t) - 1) :
            /\ Len(t[n].text) <= MaxLexemeBytes
            /\ t[n].kind \in {"word"} \cup Range(Keyword) =>
                 /\ ToSet(t[n].text) \cap Delimiters = {}
                 /\ t[n + 1].kind \in {"word"} \cup Range(Keyword) =>
                      t[n].position + Len(t[n].text) < t[n + 1].position

\* Ways to go on with a query that is not complete: an operand, what is left
\* of a range, and closing parentheses.
Completions ==
  LET operand == [kind |-> "word", text |-> <<CHOOSE unit \in Boosts : TRUE>>]
      to == [kind |-> "to", text |-> <<>>]
      bracket == [kind |-> "]", text |-> <<>>]
      closing == [kind |-> ")", text |-> <<>>]
      range == <<operand, to, operand, bracket>>
  IN {part \o [n \in 1..depth |-> closing] :
        part \in {<<>>, <<operand>>} \cup {SubSeq(range, n, 4) : n \in 1..4},
        depth \in 0..MaxNesting}

\* A NOT that directly follows an expression.  The documented grammar has an
\* implicit OR in front of it, begins_primary does not allow for it: the
\* parser refuses the query.
AdjacentNot(lexemes) ==
  \E n \in 2..Len(lexemes) :
    lexemes[n].kind = "not" /\ lexemes[n - 1].kind \in {"word", "phrase", "*", ")", "]"}

\* The parser accepts the language of docs/query_language.md but for an
\* adjacent NOT, of which nothing is said here: it returns the one tree that
\* the grammar and its precedences give to the lexemes, an error when they
\* give none, also in longer queries that begin in this way; and it reports
\* an error at the first lexeme that no query can have there, at the end only
\* when the text could go on.
ParserFaithful ==
  subject = "lexemes" /\ ~AdjacentNot(given) =>
    /\ \A completion \in Completions :
         LET lexemes == given \o completion
         IN Trees(Placed(lexemes)) =
              IF Parsing(lexemes).failed THEN {} ELSE {Parsing(lexemes).query}
    /\ Rejected(given) =
         (\A completion \in Completions : Trees(Placed(given \o completion)) = {})
=============================================================================

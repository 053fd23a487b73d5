---------------------------- MODULE QueryPlanner ----------------------------
(***************************************************************************)
(* Query planning (dse::query::QueryPlanner): a parsed query becomes a     *)
(* normalised, typed plan over the index's fields.                         *)
(*                                                                         *)
(* A query, as the parser builds it, is a record with a kind:              *)
(*   term, phrase [text], and, or [left, right], not [operand],            *)
(*   field [field, query], boost [boost, query], all,                      *)
(*   range [field, lower, upper, includeLower, includeUpper]               *)
(* and a plan node likewise, with the number of matches estimated for it   *)
(* and the number of nodes made for it, duplicates that were dropped too:  *)
(*   term [field, term, boost], phrase [field, tokens, boost],             *)
(*   and, or [children], not [operand], range (as above), all.             *)
(* A text is the sequence of the tokens [term, at] that analysis gives; a  *)
(* stop word leaves a gap in the positions.  A bound of a range is the set *)
(* of its value, empty for *.  Boosts and scores are natural numbers.  The *)
(* indexed fields are text fields, the others typed ones: ranges are for   *)
(* the latter.                                                             *)
(*                                                                         *)
(* Planner and executor see an index through a SearchIndexView: here       *)
(* [local, global], the index that has the documents and the postings and  *)
(* the one that the live count, the document frequencies and the field     *)
(* statistics are taken from.  An InMemoryIndex is both.                   *)
(***************************************************************************)
EXTENDS InMemoryIndex, TopK, SequencesExt

CONSTANTS
  DefaultFields,     \* default_fields: a sequence of [name, boost]
  FieldBoost,        \* the schema's boost of each indexed field
  MaxNodes, MaxTokens, MaxPhraseTokens, MaxDepth  \* PlannerLimits

\* QueryPlanner::plan refuses every other combination of options.
ASSUME PlannerAssumption ==
  /\ DefaultFields # <<>>
  /\ {MaxNodes, MaxTokens, MaxDepth} \subseteq Nat \ {0}
  /\ MaxPhraseTokens \in Nat

----------------------------------------------------------------------------
(* Validation *)

\* The fields that a term or a phrase is looked up in, inside of field:(...)
\* or outside of it (the empty sequence), with the boost for each.
Targets(scope) == IF scope = <<>> THEN DefaultFields ELSE scope

Subqueries(q) ==
  CASE q.kind \in {"and", "or"} -> <<q.left, q.right>>
    [] q.kind = "not" -> <<q.operand>>
    [] q.kind \in {"field", "boost"} -> <<q.query>>
    [] OTHER -> <<>>

ScopeBelow(q, scope) ==
  IF q.kind = "field" THEN <<[name |-> q.field, boost |-> 1]>> ELSE scope

\* Every node of a query in the order in which build visits it, with the
\* scope and the depth at which it does.
RECURSIVE Visited(_, _, _)
Visited(q, scope, depth) ==
  FoldLeft(LAMBDA seen, sub : seen \o Visited(sub, ScopeBelow(q, scope), depth + 1),
           <<[query |-> q, scope |-> scope, depth |-> depth]>>, Subqueries(q))

NodeInvalid(node) ==
  LET q == node.query
  IN CASE q.kind \in {"term", "phrase"} ->
            \E n \in DOMAIN Targets(node.scope) :
              Targets(node.scope)[n].name \notin IndexedFields
       [] q.kind = "field" -> q.field \notin IndexedFields \cup StoredFields
       [] q.kind = "range" -> \/ q.field \notin StoredFields \ IndexedFields
                              \/ ~(q.lower \cup q.upper \subseteq Nat)
       [] q.kind = "boost" -> q.boost <= 0
       [] OTHER -> FALSE

\* How many tokens a node adds to the budget.
TokensOf(node) ==
  IF node.query.kind \in {"term", "phrase"}
  THEN Len(Targets(node.scope)) * Len(node.query.text)
  ELSE 0

QueryRefused(q) ==
  LET nodes == Visited(q, <<>>, 0)
  IN \/ Len(nodes) > MaxNodes
     \/ \E n \in DOMAIN nodes :
          \/ NodeInvalid(nodes[n])
          \/ nodes[n].depth > MaxDepth
          \/ nodes[n].query.kind = "phrase" /\ Len(nodes[n].query.text) > MaxPhraseTokens
     \/ FoldLeft(LAMBDA sum, node : sum + TokensOf(node), 0, nodes) > MaxTokens

----------------------------------------------------------------------------
(* Canonical form *)

\* One part for an open bound, two for a value, so that no two differ only
\* in where a part ends.
BoundKey(bound) == IF bound = {} THEN <<0>> ELSE <<1, CHOOSE v \in bound : TRUE>>
FlagKey(flag) == IF flag THEN <<1>> ELSE <<0>>

\* canonical(): the text of a plan, as the sequence of its parts; the first
\* is the letter that stands for the kind.
RECURSIVE Canonical(_)
Canonical(plan) ==
  CASE plan.kind = "and" ->
         FoldLeft(LAMBDA text, child : text \o Canonical(child), <<1>>, plan.children) \o <<0>>
    [] plan.kind = "all" -> <<2>>
    [] plan.kind = "not" -> <<3>> \o Canonical(plan.operand) \o <<0>>
    [] plan.kind = "or" ->
         FoldLeft(LAMBDA text, child : text \o Canonical(child), <<4>>, plan.children) \o <<0>>
    [] plan.kind = "phrase" ->
         FoldLeft(LAMBDA text, token : text \o <<RankOf(token.term), token.at>>,
                  <<5, RankOf(plan.field), plan.boost>>, plan.tokens) \o <<0>>
    [] plan.kind = "range" ->
         <<6, RankOf(plan.field)>> \o BoundKey(plan.lower) \o BoundKey(plan.upper)
            \o FlagKey(plan.includeLower) \o FlagKey(plan.includeUpper)
    [] plan.kind = "term" -> <<7, RankOf(plan.field), RankOf(plan.term), plan.boost>>

\* The order of two canonical texts.
TextBefore(s, t) ==
  \E n \in 0..Len(s) :
    /\ n < Len(t)
    /\ \A i \in 1..n : s[i] = t[i]
    /\ n < Len(s) => s[n + 1] < t[n + 1]

----------------------------------------------------------------------------
(* Normalisation *)

\* The children without those whose text an earlier one has.
Distinct(children) ==
  FoldLeft(LAMBDA kept, child :
             IF \E i \in DOMAIN kept : Canonical(kept[i]) = Canonical(child)
             THEN kept ELSE Append(kept, child),
           <<>>, children)

\* A mutated form: the order of the clauses is the order of the query's text.
AsWritten(kind, children) == children

\* The rarest child of a conjunction first; then, and in a disjunction, in
\* the order of the texts.
Ordered(kind, children) ==
  SortSeq(children,
          LAMBDA a, b :
            IF kind = "and" /\ a.estimate # b.estimate THEN a.estimate < b.estimate
            ELSE TextBefore(Canonical(a), Canonical(b)))

ViewOf(index) == [local |-> index, global |-> index]

Lookup(view, field, term) == ListAt(view.local.fields, <<field, term>>)
LiveCount(view) == Cardinality(LiveIds(view.global))
AtMost(m, n) == IF m < n THEN m ELSE n

EstimateOf(view, kind, children) ==
  FoldLeft(LAMBDA sum, child :
             IF kind = "and" THEN AtMost(sum, child.estimate)
                             ELSE AtMost(LiveCount(view), sum + child.estimate),
           IF kind = "and" THEN LiveCount(view) ELSE 0, children)

NormalizeBoolean(view, kind, children) ==
  LET kept == Distinct(children)
      made == FoldLeft(LAMBDA sum, child : sum + child.made, 0, children)
  IN IF Len(kept) = 1 THEN [kept[1] EXCEPT !.made = made]
     ELSE [kind |-> kind, children |-> Ordered(kind, kept), made |-> made + 1,
           estimate |-> IF kept = <<>> THEN 0 ELSE EstimateOf(view, kind, kept)]

----------------------------------------------------------------------------
(* Building *)

PlannedTerm(view, field, term, boost) ==
  [kind |-> "term", field |-> field, term |-> term, boost |-> boost,
   made |-> 1, estimate |-> Len(Lookup(view, field, term))]

Map(sequence, Op(_)) == [i \in DOMAIN sequence |-> Op(sequence[i])]

\* term_for_field: one clause for each distinct token.
TermForField(view, field, text, boost) ==
  NormalizeBoolean(view, "or",
    Distinct(Map(text, LAMBDA token :
                         PlannedTerm(view, field, token.term, boost * FieldBoost[field]))))

PhraseForField(view, field, text, boost) ==
  [kind |-> "phrase", field |-> field, tokens |-> text, boost |-> boost * FieldBoost[field],
   made |-> 1,
   estimate |-> FoldLeft(LAMBDA least, token :
                           AtMost(least, Len(Lookup(view, field, token.term))),
                         LiveCount(view), text)]

\* A term or a phrase: for the field of its scope itself, and otherwise the
\* disjunction over the default fields.
Expand(view, scope, boost, ForField(_, _)) ==
  IF scope # <<>> THEN ForField(scope[1].name, boost)
  ELSE NormalizeBoolean(view, "or",
         Map(DefaultFields, LAMBDA target : ForField(target.name, boost * target.boost)))

RECURSIVE Build(_, _, _, _)
Build(view, q, scope, boost) ==
  CASE q.kind = "term" ->
         Expand(view, scope, boost, LAMBDA field, b : TermForField(view, field, q.text, b))
    [] q.kind = "phrase" ->
         Expand(view, scope, boost, LAMBDA field, b : PhraseForField(view, field, q.text, b))
    [] q.kind \in {"and", "or"} ->
         NormalizeBoolean(view, q.kind, <<Build(view, q.left, scope, boost),
                                          Build(view, q.right, scope, boost)>>)
    [] q.kind = "not" ->
         LET operand == Build(view, q.operand, scope, boost)
         IN [kind |-> "not", operand |-> operand, made |-> operand.made + 1,
             estimate |-> LiveCount(view)]
    [] q.kind = "field" -> Build(view, q.query, ScopeBelow(q, scope), boost)
    [] q.kind = "boost" -> Build(view, q.query, scope, boost * q.boost)
    [] q.kind = "range" -> [kind |-> "range", field |-> q.field,
                            lower |-> q.lower, upper |-> q.upper,
                            includeLower |-> q.includeLower, includeUpper |-> q.includeUpper,
                            made |-> 1, estimate |-> LiveCount(view)]
    [] q.kind = "all" -> [kind |-> "all", made |-> 1, estimate |-> LiveCount(view)]

PlanFor(view, q) == Build(view, q, <<>>, 1)

\* QueryPlanner::plan returns an error.
PlanningFails(view, q) == QueryRefused(q) \/ PlanFor(view, q).made > MaxNodes
=============================================================================

----------------------------- MODULE QuerySearch -----------------------------
(***************************************************************************)
(* Query execution (dse::query::QueryExecutor) over a SearchIndexView: a   *)
(* plan is evaluated by merging posting lists that are sorted by internal  *)
(* ID, and a bounded heap keeps the best documents.  explain gives the     *)
(* contributions to the score of one document.                             *)
(***************************************************************************)
EXTENDS QueryPlanner

CONSTANT
  Weight(_, _, _, _, _)  \* BM25: of the documents with the field, the documents
                       \* with the term, the term's frequency in the document,
                       \* the document's length and the total length

FailedAnswer == [failed |-> TRUE, hits |-> <<>>, total |-> 0]

FieldStatistics(view, field) == StatisticAt(view.global.statistics, field)
DocumentFrequency(view, field, term) == Len(ListAt(view.global.fields, <<field, term>>))

----------------------------------------------------------------------------
(* The merges of the Boolean operators *)

RECURSIVE Intersect(_, _)
Intersect(left, right) ==
  IF left = <<>> \/ right = <<>> THEN <<>>
  ELSE LET a == Head(left) b == Head(right)
       IN CASE a.doc < b.doc -> Intersect(Tail(left), right)
            [] b.doc < a.doc -> Intersect(left, Tail(right))
            [] OTHER -> <<[doc |-> a.doc, score |-> a.score + b.score]>>
                          \o Intersect(Tail(left), Tail(right))

RECURSIVE Unite(_, _)
Unite(left, right) ==
  IF left = <<>> THEN right
  ELSE IF right = <<>> THEN left
  ELSE LET a == Head(left) b == Head(right)
       IN CASE a.doc < b.doc -> <<a>> \o Unite(Tail(left), right)
            [] b.doc < a.doc -> <<b>> \o Unite(left, Tail(right))
            [] OTHER -> <<[doc |-> a.doc, score |-> a.score + b.score]>>
                          \o Unite(Tail(left), Tail(right))

RECURSIVE Exclude(_, _)
Exclude(all, excluded) ==
  IF all = <<>> \/ excluded = <<>> THEN all
  ELSE LET a == Head(all) b == Head(excluded)
       IN CASE b.doc < a.doc -> Exclude(all, Tail(excluded))
            [] a.doc < b.doc -> <<a>> \o Exclude(Tail(all), excluded)
            [] OTHER -> Exclude(Tail(all), excluded)

----------------------------------------------------------------------------
(* Scoring; an evaluation either fails or gives a list of candidates *)

Failure == [failed |-> TRUE, list |-> <<>>]
Success(list) == [failed |-> FALSE, list |-> list]

\* score_posting's errors and those of BM25Scorer::score.
ScoreFails(view, field, term, posting) ==
  LET index == view.local
      stats == FieldStatistics(view, field)
      frequency == Cardinality(posting.positions)
  IN \/ posting.doc \notin DOMAIN index.externalIds
     \/ ~Known(index, index.externalIds[posting.doc])
     \/ field \notin DOMAIN RecordAt(index, posting.doc).analyzed
     \/ DocumentFrequency(view, field, term) > stats.count
     \/ frequency > 0 /\ \/ DocumentFrequency(view, field, term) = 0
                         \/ stats.total = 0
                         \/ frequency > Len(RecordAt(index, posting.doc).analyzed[field])

ScoreOf(view, field, term, posting, boost) ==
  LET stats == FieldStatistics(view, field)
  IN boost * Weight(stats.count, DocumentFrequency(view, field, term),
                    Cardinality(posting.positions),
                    Len(RecordAt(view.local, posting.doc).analyzed[field]), stats.total)

ScoreTerm(view, field, term, boost) ==
  LET postings == Lookup(view, field, term)
  IN IF \E p \in DOMAIN postings : ScoreFails(view, field, term, postings[p])
     THEN Failure
     ELSE Success(Map(postings, LAMBDA posting :
                        [doc |-> posting.doc,
                         score |-> ScoreOf(view, field, term, posting, boost)]))

----------------------------------------------------------------------------
(* Phrases *)

\* A mutated form: positions have to be adjacent, whatever stop words were
\* between the terms of the phrase.
PositionsAdjacent(found, tokens) ==
  \E base \in found[1].positions :
    \A i \in DOMAIN tokens : base + (i - 1) \in found[i].positions

PositionsMatch(found, tokens) ==
  \E base \in found[1].positions :
    \A i \in DOMAIN tokens : base + (tokens[i].at - tokens[1].at) \in found[i].positions

\* The first of the shortest lists.
Anchor(lists) ==
  CHOOSE a \in DOMAIN lists :
    \A i \in DOMAIN lists : \/ Len(lists[a]) < Len(lists[i])
                            \/ Len(lists[a]) = Len(lists[i]) /\ a <= i

HasPosting(postings, doc) == \E p \in DOMAIN postings : postings[p].doc = doc
PostingFor(postings, doc) == postings[CHOOSE p \in DOMAIN postings : postings[p].doc = doc]

EvaluatePhrase(view, plan) ==
  LET tokens == plan.tokens
      lists == Map(tokens, LAMBDA token : Lookup(view, plan.field, token.term))
      found(doc) == Map(lists, LAMBDA postings : PostingFor(postings, doc))
      matches(doc) == /\ \A i \in DOMAIN lists : HasPosting(lists[i], doc)
                      /\ PositionsMatch(found(doc), tokens)
      matching == SortSeq(SelectSeq(lists[Anchor(lists)],
                                    LAMBDA posting : matches(posting.doc)),
                          LAMBDA p, q : p.doc < q.doc)
      score(doc) ==
        FoldLeft(LAMBDA sum, i :
                   sum + ScoreOf(view, plan.field, tokens[i].term, found(doc)[i], plan.boost),
                 0, [i \in DOMAIN tokens |-> i])
  IN IF tokens = <<>> THEN Success(<<>>)
     ELSE IF \E m \in DOMAIN matching : \E i \in DOMAIN tokens :
               ScoreFails(view, plan.field, tokens[i].term, found(matching[m].doc)[i])
     THEN Failure
     ELSE Success(Map(matching, LAMBDA posting :
                        [doc |-> posting.doc, score |-> score(posting.doc)]))

----------------------------------------------------------------------------
(* Evaluation of a plan *)

\* live_document_ids, in the order of the internal IDs.
Universe(view) ==
  Map(SetToSortSeq({view.local.documents[id].internal : id \in LiveIds(view.local)}, <),
      LAMBDA internal : [doc |-> internal, score |-> 0])

RangeMatches(plan, value) ==
  /\ \A bound \in plan.lower : IF plan.includeLower THEN value >= bound ELSE value > bound
  /\ \A bound \in plan.upper : IF plan.includeUpper THEN value <= bound ELSE value < bound

\* field_value looks in the indexed fields first; those that have a range and
\* are indexed are keywords, which the model leaves out: a typed field has no
\* analyzer, so its values are stored metadata.
EvaluateRange(view, plan) ==
  Success(SelectSeq(Universe(view), LAMBDA candidate :
    LET metadata == RecordAt(view.local, candidate.doc).doc.metadata
    IN plan.field \in DOMAIN metadata /\ RangeMatches(plan, metadata[plan.field])))

RECURSIVE Evaluate(_, _)
Evaluate(view, plan) ==
  CASE plan.kind = "term" -> ScoreTerm(view, plan.field, plan.term, plan.boost)
    [] plan.kind = "phrase" -> EvaluatePhrase(view, plan)
    [] plan.kind = "and" ->
         IF plan.children = <<>> THEN Success(<<>>)
         ELSE FoldLeft(LAMBDA result, i :
                IF result.failed \/ (i > 2 /\ result.list = <<>>) THEN result
                ELSE LET child == Evaluate(view, plan.children[i])
                     IN IF child.failed THEN child
                        ELSE Success(Intersect(result.list, child.list)),
                Evaluate(view, plan.children[1]), [n \in 1..(Len(plan.children) - 1) |-> n + 1])
    [] plan.kind = "or" ->
         FoldLeft(LAMBDA result, child :
                IF result.failed THEN result
                ELSE LET evaluated == Evaluate(view, child)
                     IN IF evaluated.failed THEN evaluated
                        ELSE Success(Unite(result.list, evaluated.list)),
                Success(<<>>), plan.children)
    [] plan.kind = "not" ->
         LET operand == Evaluate(view, plan.operand)
         IN IF operand.failed THEN operand
            ELSE Success(Exclude(Universe(view), operand.list))
    [] plan.kind = "range" -> EvaluateRange(view, plan)
    [] plan.kind = "all" -> Success(Universe(view))

----------------------------------------------------------------------------
(* The best documents *)

SearchPlan(view, plan, capacity) ==
  LET evaluated == Evaluate(view, plan)
      ids == view.local.externalIds
      unknown == \E c \in DOMAIN evaluated.list : evaluated.list[c].doc \notin DOMAIN ids
      candidates == Map(evaluated.list, LAMBDA candidate :
                          [id |-> ids[candidate.doc], score |-> candidate.score])
  IN IF evaluated.failed \/ unknown THEN FailedAnswer
     ELSE [failed |-> FALSE, hits |-> Results(Collected({}, candidates, capacity)),
           total |-> Len(evaluated.list)]

\* Planned and executed at once.
SearchQuery(view, q, capacity) ==
  IF PlanningFails(view, q) THEN FailedAnswer
  ELSE SearchPlan(view, PlanFor(view, q), capacity)

----------------------------------------------------------------------------
(* explain: what every node of a plan contributes for one document *)

\* A mutated form: the terms of a phrase are explained without its boost.
ExplainedUnboosted(plan) ==
  CASE plan.kind \in {"and", "or"} -> plan.children
    [] plan.kind = "not" -> <<plan.operand>>
    [] plan.kind = "phrase" -> Map(plan.tokens, LAMBDA token :
         [kind |-> "term", field |-> plan.field, term |-> token.term, boost |-> 1])
    [] OTHER -> <<>>

\* The nodes explained below a node; the terms of a phrase are made for it.
ExplainedChildren(plan) ==
  CASE plan.kind \in {"and", "or"} -> plan.children
    [] plan.kind = "not" -> <<plan.operand>>
    [] plan.kind = "phrase" -> Map(plan.tokens, LAMBDA token :
         [kind |-> "term", field |-> plan.field, term |-> token.term, boost |-> plan.boost])
    [] OTHER -> <<>>

RECURSIVE Explain(_, _, _)
Explain(view, plan, internal) ==
  LET evaluated == Evaluate(view, plan)
      children == Map(ExplainedChildren(plan), LAMBDA child : Explain(view, child, internal))
      matched == HasPosting(evaluated.list, internal)
  IN [kind |-> plan.kind, matched |-> matched,
      score |-> IF matched THEN PostingFor(evaluated.list, internal).score ELSE 0,
      children |-> children,
      failed |-> evaluated.failed \/ \E i \in DOMAIN children : children[i].failed]

\* There is nothing to explain for a document that the index does not know.
ExplainDocument(view, plan, id) ==
  IF Known(view.local, id)
  THEN Explain(view, plan, view.local.documents[id].internal)
  ELSE [failed |-> TRUE]

----------------------------------------------------------------------------
(* What a query means, document by document and without postings *)

TextOf(index, id, field) ==
  IF field \in DOMAIN index.documents[id].doc.text
  THEN index.documents[id].doc.text[field] ELSE <<>>

HasToken(text, token) == \E p \in DOMAIN text : text[p] = token.term

HasPhrase(text, tokens) ==
  /\ tokens # <<>>
  /\ \E shift \in (-Len(text))..Len(text) :
       \A i \in DOMAIN tokens : /\ tokens[i].at + shift \in DOMAIN text
                               /\ text[tokens[i].at + shift] = tokens[i].term

InRange(index, q, id) ==
  /\ q.field \in DOMAIN index.documents[id].doc.metadata
  /\ RangeMatches(q, index.documents[id].doc.metadata[q.field])

RECURSIVE Meant(_, _, _, _)
Meant(index, q, scope, id) ==
  CASE q.kind = "term" ->
         \E n \in DOMAIN Targets(scope) : \E i \in DOMAIN q.text :
           HasToken(TextOf(index, id, Targets(scope)[n].name), q.text[i])
    [] q.kind = "phrase" ->
         \E n \in DOMAIN Targets(scope) :
           HasPhrase(TextOf(index, id, Targets(scope)[n].name), q.text)
    [] q.kind = "and" -> Meant(index, q.left, scope, id) /\ Meant(index, q.right, scope, id)
    [] q.kind = "or" -> Meant(index, q.left, scope, id) \/ Meant(index, q.right, scope, id)
    [] q.kind = "not" -> ~Meant(index, q.operand, scope, id)
    [] q.kind \in {"field", "boost"} -> Meant(index, q.query, ScopeBelow(q, scope), id)
    [] q.kind = "range" -> InRange(index, q, id)
    [] q.kind = "all" -> TRUE

Matches(index, q) == {id \in LiveIds(index) : Meant(index, q, <<>>, id)}

\* The score of a document under a plan, from the texts alone.
ExpectedWeight(index, id, field, term) ==
  LET text(d) == TextOf(index, d, field)
      frequency(d) == Cardinality({p \in DOMAIN text(d) : text(d)[p] = term})
      stats == ExpectedStatistics(index)[field]
  IN IF frequency(id) = 0 THEN 0
     ELSE Weight(stats.count, Cardinality({d \in LiveIds(index) : frequency(d) > 0}),
                 frequency(id), Len(text(id)), stats.total)

RECURSIVE PlanMatches(_, _, _)
PlanMatches(index, plan, id) ==
  CASE plan.kind = "term" -> HasToken(TextOf(index, id, plan.field), plan)
    [] plan.kind = "phrase" -> HasPhrase(TextOf(index, id, plan.field), plan.tokens)
    [] plan.kind = "and" ->
         /\ plan.children # <<>>
         /\ \A i \in DOMAIN plan.children : PlanMatches(index, plan.children[i], id)
    [] plan.kind = "or" ->
         \E i \in DOMAIN plan.children : PlanMatches(index, plan.children[i], id)
    [] plan.kind = "not" -> ~PlanMatches(index, plan.operand, id)
    [] plan.kind = "range" -> InRange(index, plan, id)
    [] plan.kind = "all" -> TRUE

RECURSIVE ExpectedScore(_, _, _)
ExpectedScore(index, plan, id) ==
  IF ~PlanMatches(index, plan, id) THEN 0
  ELSE CASE plan.kind = "term" -> plan.boost * ExpectedWeight(index, id, plan.field, plan.term)
         [] plan.kind = "phrase" ->
              FoldLeft(LAMBDA sum, token :
                         sum + plan.boost * ExpectedWeight(index, id, plan.field, token.term),
                       0, plan.tokens)
         [] plan.kind \in {"and", "or"} ->
              FoldLeft(LAMBDA sum, child : sum + ExpectedScore(index, child, id), 0, plan.children)
         [] OTHER -> 0

\* The same query with the operands of its Boolean nodes swapped.
RECURSIVE Swapped(_)
Swapped(q) ==
  CASE q.kind \in {"and", "or"} -> [q EXCEPT !.left = Swapped(q.right), !.right = Swapped(q.left)]
    [] q.kind = "not" -> [q EXCEPT !.operand = Swapped(q.operand)]
    [] q.kind \in {"field", "boost"} -> [q EXCEPT !.query = Swapped(q.query)]
    [] OTHER -> q
=============================================================================

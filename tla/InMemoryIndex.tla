---------------------------- MODULE InMemoryIndex ----------------------------
(***************************************************************************)
(* The mutable inverted index (dse::index::InMemoryIndex): documents by    *)
(* ID, segment-local internal IDs, one posting list per field and term,    *)
(* and the accumulated field statistics that ranking divides by.           *)
(*                                                                         *)
(* The class has no lock: its owners serialise the calls, so that an index *)
(* is a value here and its owner's module holds it.  What is hard is that  *)
(* put updates five structures incrementally, undoing what the previous    *)
(* version of the document contributed.  It works on copies and swaps them *)
(* in at the end: a call that fails changes nothing.                       *)
(*                                                                         *)
(*   index    [documents, externalIds, fields, statistics, nextId]: ID ->  *)
(*            record; internal ID -> ID; <<field, term>> -> sequence of    *)
(*            postings; field -> [count, total]; the counter               *)
(*   document [id, version, deleted, text, metadata]: text gives the       *)
(*            analysed tokens of each field that the document has,         *)
(*            metadata the values of its stored fields: natural numbers,   *)
(*            anything else is a value that is not of the field's type     *)
(*   record   [internal, doc, analyzed]: analyzed stands for field_lengths *)
(*            and indexed_terms, both read off the same tokens             *)
(*   posting  [doc, positions]: an internal ID and the positions, as a     *)
(*            set, whose size is the term frequency; the length of a list  *)
(*            is the document frequency                                    *)
(***************************************************************************)
EXTENDS Integers, Sequences, Lists

CONSTANTS
  IndexedFields,  \* the schema's indexed fields
  StoredFields,   \* and its stored ones
  IdWidth,        \* internal IDs are unsigned integers of this width
  MaxInternalId   \* maximum_internal_id_

\* (The provers take the range of the power from here.)
ASSUME WidthAssumption ==
  /\ IdWidth \in Nat \ {0} /\ 2^IdWidth \in Nat \ {0, 1}
  /\ MaxInternalId \in Nat /\ MaxInternalId < 2^IdWidth

NoText == [f \in {} |-> <<>>]
NoMetadata == [f \in {} |-> 0]

EmptyIndex ==
  [documents |-> [id \in {} |-> NoText], externalIds |-> [i \in {} |-> ""],
   fields |-> [key \in {} |-> <<>>],
   statistics |-> [f \in {} |-> [count |-> 0, total |-> 0]], nextId |-> 1]

----------------------------------------------------------------------------
(* put: validation *)

Known(index, id) == id \in DOMAIN index.documents

Stale(index, id, version) ==
  Known(index, id) /\ version <= index.documents[id].doc.version

SchemaAccepts(doc) ==
  /\ DOMAIN doc.text \subseteq IndexedFields
  /\ DOMAIN doc.metadata \subseteq StoredFields
  /\ \A f \in DOMAIN doc.metadata : doc.metadata[f] \in Nat

Exhausted(index) == index.nextId = 0 \/ index.nextId > MaxInternalId

PutFails(index, doc) ==
  \/ doc.id = ""
  \/ Stale(index, doc.id, doc.version)
  \/ ~SchemaAccepts(doc)
  \/ ~Known(index, doc.id) /\ Exhausted(index)

----------------------------------------------------------------------------
(* put: what one document contributes *)

TermsOf(analyzed) ==
  UNION {{<<f, analyzed[f][p]>> : p \in DOMAIN analyzed[f]} : f \in DOMAIN analyzed}

PostingOf(internal, analyzed, key) ==
  [doc |-> internal,
   positions |-> {p \in DOMAIN analyzed[key[1]] : analyzed[key[1]][p] = key[2]}]

\* What the current version of the document has put in the index: nothing
\* for a new document or a tombstone.
PreviousText(index, id) ==
  IF Known(index, id) /\ ~index.documents[id].doc.deleted
  THEN index.documents[id].analyzed ELSE NoText

Without(postings, internal) ==
  Picked(postings, {p \in DOMAIN postings : postings[p].doc # internal})

\* A mutated form: a list left empty stays in the dictionary.
RemoveKeepingEmpty(dictionary, internal, analyzed) ==
  [key \in DOMAIN dictionary |->
     IF key \in TermsOf(analyzed) THEN Without(dictionary[key], internal)
                                  ELSE dictionary[key]]

\* The lists of the previous version's terms lose the document; a list left
\* empty is dropped.
RemovePostings(dictionary, internal, analyzed) ==
  LET left == [key \in DOMAIN dictionary |->
                 IF key \in TermsOf(analyzed) THEN Without(dictionary[key], internal)
                                              ELSE dictionary[key]]
  IN Restrict(left, {key \in DOMAIN left : left[key] # <<>>})

ListAt(dictionary, key) ==
  IF key \in DOMAIN dictionary THEN dictionary[key] ELSE <<>>

\* Pushed at the back, then sorted by internal ID.
AddPosting(postings, posting) ==
  LET all == Append(postings, posting)
  IN Sorted(all, [p \in DOMAIN all |-> all[p].doc])

InsertPostings(dictionary, internal, analyzed) ==
  [key \in DOMAIN dictionary \cup TermsOf(analyzed) |->
     IF key \in TermsOf(analyzed)
     THEN AddPosting(ListAt(dictionary, key), PostingOf(internal, analyzed, key))
     ELSE dictionary[key]]

SubtractStatistics(stats, analyzed) ==
  LET left == [f \in DOMAIN stats |->
                 IF f \in DOMAIN analyzed
                 THEN [count |-> stats[f].count - 1,
                       total |-> stats[f].total - Len(analyzed[f])]
                 ELSE stats[f]]
  IN Restrict(left, {f \in DOMAIN left : f \in DOMAIN analyzed => left[f].count # 0})

StatisticAt(stats, f) ==
  IF f \in DOMAIN stats THEN stats[f] ELSE [count |-> 0, total |-> 0]

AddStatistics(stats, analyzed) ==
  [f \in DOMAIN stats \cup DOMAIN analyzed |->
     IF f \in DOMAIN analyzed
     THEN [count |-> StatisticAt(stats, f).count + 1,
           total |-> StatisticAt(stats, f).total + Len(analyzed[f])]
     ELSE stats[f]]

----------------------------------------------------------------------------
(* put and erase *)

\* A replacement keeps the internal ID of the document, dead or alive.
InternalIdFor(index, id) ==
  IF Known(index, id) THEN index.documents[id].internal ELSE index.nextId

\* The index after a put that succeeds.
Updated(index, doc) ==
  LET internal == InternalIdFor(index, doc.id)
      before == PreviousText(index, doc.id)
      after == IF doc.deleted THEN NoText ELSE doc.text
      record == [internal |-> internal, doc |-> doc, analyzed |-> after]
  IN [documents |-> With(index.documents, doc.id, record),
      externalIds |-> With(index.externalIds, internal, doc.id),
      fields |-> InsertPostings(RemovePostings(index.fields, internal, before),
                                internal, after),
      statistics |-> AddStatistics(SubtractStatistics(index.statistics, before), after),
      nextId |-> IF Known(index, doc.id) THEN index.nextId
                 ELSE (index.nextId + 1) % 2^IdWidth]

\* The index after put, whatever put returned.
AfterPut(index, doc) == IF PutFails(index, doc) THEN index ELSE Updated(index, doc)

\* The tombstone that erase puts.
Tombstone(id, version) ==
  [id |-> id, version |-> version, deleted |-> TRUE, text |-> NoText,
   metadata |-> NoMetadata]

----------------------------------------------------------------------------
(* validate_invariants, the check that the tests and the tools run *)

RecordAt(index, internal) == index.documents[index.externalIds[internal]]

EntryValid(index, key) ==
  LET postings == index.fields[key]
  IN /\ \A p, q \in DOMAIN postings : p < q => postings[p].doc <= postings[q].doc
     /\ \A p \in DOMAIN postings :
          /\ postings[p].doc \in DOMAIN index.externalIds
          /\ Known(index, index.externalIds[postings[p].doc])
          /\ ~RecordAt(index, postings[p].doc).doc.deleted
          /\ key[1] \in DOMAIN RecordAt(index, postings[p].doc).analyzed
          /\ key[2] # ""

DocumentValid(index, id) ==
  LET record == index.documents[id]
  IN /\ record.doc.id = id
     /\ record.internal \in DOMAIN index.externalIds
     /\ index.externalIds[record.internal] = id
     /\ record.doc.deleted => record.analyzed = NoText
     /\ ~record.doc.deleted =>
          /\ record.analyzed = record.doc.text
          /\ \A key \in TermsOf(record.analyzed) :
               /\ key \in DOMAIN index.fields
               /\ \E p \in DOMAIN index.fields[key] :
                    index.fields[key][p].doc = record.internal

\* The fields of the live documents, each counted and added up anew.
LiveIds(index) == {id \in DOMAIN index.documents : ~index.documents[id].doc.deleted}
LiveWith(index, f) == {id \in LiveIds(index) : f \in DOMAIN index.documents[id].doc.text}

ExpectedStatistics(index) ==
  [f \in UNION {DOMAIN index.documents[id].doc.text : id \in LiveIds(index)} |->
     [count |-> Cardinality(LiveWith(index, f)),
      total |-> SumFunction([id \in LiveWith(index, f) |->
                               Len(index.documents[id].doc.text[f])])]]

ValidateInvariants(index) ==
  /\ \A key \in DOMAIN index.fields : EntryValid(index, key)
  /\ \A id \in DOMAIN index.documents : DocumentValid(index, id)
  /\ Cardinality(DOMAIN index.externalIds) = Cardinality(DOMAIN index.documents)
  /\ index.statistics = ExpectedStatistics(index)

----------------------------------------------------------------------------
(* What the index has to be: the reference of the properties *)

\* What the live documents that hold a term contribute to it.
ReferencePostings(index, key) ==
  {PostingOf(index.documents[id].internal, index.documents[id].doc.text, key) :
     id \in {d \in LiveIds(index) : key \in TermsOf(index.documents[d].doc.text)}}

\* The list that an index built from nothing would have for a term.
ReferenceList(index, key) ==
  Ascending([posting \in ReferencePostings(index, key) |-> posting.doc])

\* The postings are those of the live documents, in the order of their IDs.
Exact(index) ==
  /\ DOMAIN index.fields =
       UNION {TermsOf(index.documents[id].doc.text) : id \in LiveIds(index)}
  /\ \A key \in DOMAIN index.fields : index.fields[key] = ReferenceList(index, key)
=============================================================================

------------------------------ MODULE JsonRows ------------------------------
(***************************************************************************)
(* The rows of a JSON answer, and what a field's selector reads in one.    *)
(* Keys, indexes and texts are names; a value is one of                    *)
(*   Null, Scalar(text), Object(members), Array(items).                    *)
(* A selector is a sequence of tokens as a definition writes them:         *)
(*   Up            the dots before a selector that starts with "..";       *)
(*   Key(k)        a key, or Index(i) an index in brackets;                *)
(*   Filter(name)  ":name(", up to the parenthesis it opens;               *)
(*   Said(text)    the text ":contains(" is given;                         *)
(*   Close         ")".                                                    *)
(***************************************************************************)
EXTENDS Integers, Sequences, SequencesExt, FiniteSets

CONSTANTS
  Documents,    \* what trackers answer with
  KeyOrder,     \* the keys, in the order of their bytes
  RowSpecs,     \* rows blocks: [path, filters, attribute, isMultiple, missingIsNone]
  FieldTrees    \* field selectors, as a definition's author means them

VARIABLES document, rowSpec, fieldTree, rowsFound, valuesRead

jsonVars == <<document, rowSpec, fieldTree, rowsFound, valuesRead>>

NoParent        == [kind |-> "none"]
Null            == [kind |-> "null"]
Scalar(text)    == [kind |-> "scalar", text |-> text]
Object(members) == [kind |-> "object", members |-> members]
Array(items)    == [kind |-> "array", items |-> items]

Up         == [token |-> "up"]
Key(k)     == [token |-> "key", key |-> k]
Index(i)   == [token |-> "index", index |-> i]
Filter(n)  == [token |-> "filter", name |-> n]
Said(text) == [token |-> "said", text |-> text]
Close      == [token |-> "close"]

Unfound    == [isFound |-> FALSE, value |-> Null]
Holding(v)   == [isFound |-> TRUE, value |-> v]

NoValue   == [row |-> 0, isFound |-> FALSE, value |-> Null]
NotRead   == [isRead |-> FALSE, isError |-> FALSE, rows |-> <<>>]
RowError  == [isRead |-> TRUE, isError |-> TRUE, rows |-> <<>>]
RowsAre(s) == [isRead |-> TRUE, isError |-> FALSE, rows |-> s]

-----------------------------------------------------------------------------
(***************************************************************************)
(* Selecting, as the code reads a selector.                                *)
(***************************************************************************)

\* One step of jsonLookup; an index of an array counts from 0.
Stepped(found, step) ==
  IF ~found.isFound THEN Unfound
  ELSE IF step.token = "key"
       THEN IF found.value.kind = "object" /\ step.key \in DOMAIN found.value.members
            THEN Holding(found.value.members[step.key]) ELSE Unfound
       ELSE IF found.value.kind = "array" /\ step.index \in 0 .. Len(found.value.items) - 1
            THEN Holding(found.value.items[step.index + 1]) ELSE Unfound

\* jsonLookup
Lookup(value, path) == FoldLeft(Stepped, Holding(value), path)

RECURSIVE TextsIn(_)

\* jsonText, as the texts ":contains" may find in it.
TextsIn(value) ==
  CASE value.kind = "null"   -> {}
    [] value.kind = "scalar" -> {value.text}
    [] value.kind = "object" -> DOMAIN value.members
                                  \union UNION {TextsIn(value.members[k]) : k \in DOMAIN value.members}
    [] value.kind = "array"  -> UNION {TextsIn(value.items[i]) : i \in DOMAIN value.items}

\* Variant: the first ")" of all.
FilterEndFirst(s) == SelectInSeq(s, LAMBDA t : t = Close)

\* filterEnd: the first ")" that ends the selector or comes before a filter, or 0.
FilterEnd(s) ==
  LET ends == {j \in DOMAIN s : s[j] = Close /\ (j = Len(s) \/ s[j + 1].token = "filter")}
  IN IF ends = {} THEN 0 ELSE CHOOSE j \in ends : \A k \in ends : j <= k

\* Where a selector's filters begin, and its path ends.
PathLength(s) == IF \E i \in DOMAIN s : s[i].token = "filter"
                 THEN SelectInSeq(s, LAMBDA t : t.token = "filter") - 1 ELSE Len(s)

RECURSIVE JSONSelected(_, _), Satisfied(_, _)

\* jsonFilters, and whether a value satisfies each: an unknown filter always is,
\* and what is not closed is not read.
Satisfied(value, s) ==
  LET end == FilterEnd(s)
      arg == SubSeq(s, 2, end - 1)
  IN IF s = <<>> \/ s[1].token # "filter" \/ end = 0 THEN TRUE
     ELSE /\ CASE s[1].name = "has"      -> JSONSelected(value, arg).isFound
               [] s[1].name = "not"      -> ~JSONSelected(value, arg).isFound
               [] s[1].name = "contains" -> \A i \in DOMAIN arg : arg[i].token = "said" => arg[i].text \in TextsIn(value)
               [] OTHER                  -> TRUE
          /\ Satisfied(value, SubSeq(s, end + 1, Len(s)))

\* jsonSelect
JSONSelected(value, s) ==
  LET n      == PathLength(s)
      target == Lookup(value, SubSeq(s, 1, n))
  IN IF target.isFound /\ Satisfied(target.value, SubSeq(s, n + 1, Len(s))) THEN target ELSE Unfound

\* jsonRow.resolve; a row that a field narrowed has no parent.
Resolved(row, s) ==
  IF s # <<>> /\ s[1] = Up
  THEN JSONSelected(IF row.parent = NoParent THEN row.value ELSE row.parent, Tail(s))
  ELSE JSONSelected(row.value, s)

-----------------------------------------------------------------------------
(***************************************************************************)
(* The rows.                                                               *)
(***************************************************************************)

\* The keys of an object in order.
SortedKeys(members) == SelectSeq(KeyOrder, LAMBDA k : k \in DOMAIN members)

Entries(value) ==
  CASE value.kind = "array"  -> value.items
    [] value.kind = "object" -> LET keys == SortedKeys(value.members)
                                IN [i \in DOMAIN keys |-> value.members[keys[i]]]
    [] OTHER                 -> <<>>

\* splitJSONRow
Split(item, spec) ==
  LET selected == Lookup(item, spec.attribute)
      objects  == SelectSeq(Entries(selected.value), LAMBDA e : e.kind = "object")
  IN IF spec.attribute # <<>> /\ (~selected.isFound \/ selected.value = Null) THEN <<>>
     ELSE IF ~spec.isMultiple THEN <<[parent |-> item, value |-> selected.value]>>
     ELSE [i \in DOMAIN objects |-> [parent |-> item, value |-> objects[i]]]

\* jsonRows
JSONRows(doc, spec) ==
  LET target == Lookup(doc, spec.path)
      items  == CASE target.value.kind = "array" -> target.value.items
                  [] target.value.kind = "object" -> <<target.value>>
                  [] OTHER -> <<>>
      kept   == SelectSeq(items, LAMBDA item : spec.filters = <<>> \/ JSONSelected(item, spec.filters).isFound)
  IN IF ~target.isFound THEN IF spec.missingIsNone THEN RowsAre(<<>>) ELSE RowError
     ELSE RowsAre(FlattenSeq([i \in DOMAIN kept |-> Split(kept[i], spec)]))

-----------------------------------------------------------------------------
(***************************************************************************)
(* A tree of a selector's author, how it is written, and what it means.    *)
(* A filter's argument is a tree, or the text of ":contains(".             *)
(***************************************************************************)

RECURSIVE Written(_), IsMeant(_, _)

WrittenFilter(filter) ==
  <<Filter(filter.name)>>
    \o (IF filter.name = "contains" THEN <<Said(filter.text)>> ELSE Written(filter.tree))
    \o <<Close>>

Written(tree) ==
  (IF tree.isUp THEN <<Up>> ELSE <<>>) \o tree.path
    \o FlattenSeq([i \in DOMAIN tree.filters |-> WrittenFilter(tree.filters[i])])

\* The places a document has, each a path from its root.
RECURSIVE Places(_)
Places(value) ==
  {<<>>} \union
  CASE value.kind = "object" ->
         UNION {{<<Key(k)>> \o p : p \in Places(value.members[k])} : k \in DOMAIN value.members}
    [] value.kind = "array" ->
         UNION {{<<Index(i - 1)>> \o p : p \in Places(value.items[i])} : i \in DOMAIN value.items}
    [] OTHER -> {}

\* The tree selects something from the value.
IsMeant(value, tree) ==
  /\ tree.path \in Places(value)
  /\ LET target == Lookup(value, tree.path).value
     IN \A i \in DOMAIN tree.filters :
          LET f == tree.filters[i]
          IN /\ f.name = "has" => IsMeant(target, f.tree)
             /\ f.name = "not" => ~IsMeant(target, f.tree)
             /\ f.name = "contains" =>
                  \E p \in Places(target) :
                    \/ Lookup(target, p).value = Scalar(f.text)
                    \/ p # <<>> /\ Last(p) = Key(f.text)

-----------------------------------------------------------------------------
JSONInit ==
  /\ document = Null /\ rowSpec \in RowSpecs /\ fieldTree \in FieldTrees
  /\ rowsFound = NotRead /\ valuesRead = NoValue

ReadRows ==
  /\ ~rowsFound.isRead
  /\ \E doc \in Documents :
       /\ document' = doc
       /\ rowsFound' = JSONRows(doc, [rowSpec EXCEPT !.filters = Written(rowSpec.filters)])
  /\ UNCHANGED <<rowSpec, fieldTree, valuesRead>>

\* A field reads its selector in a row; narrowing to it first, without a parent.
SelectField ==
  /\ valuesRead = NoValue
  /\ \E i \in DOMAIN rowsFound.rows : \E isNarrowed \in BOOLEAN :
       LET row   == rowsFound.rows[i]
           found == Resolved(IF isNarrowed THEN [row EXCEPT !.parent = NoParent] ELSE row, Written(fieldTree))
       IN valuesRead' = [row |-> IF isNarrowed THEN -i ELSE i, isFound |-> found.isFound, value |-> found.value]
  /\ UNCHANGED <<document, rowSpec, fieldTree, rowsFound>>

JSONNext == ReadRows \/ SelectField

-----------------------------------------------------------------------------
(***************************************************************************)
(* Properties.                                                             *)
(***************************************************************************)

\* The elements the row selector addresses, as their author means it.
Elements ==
  LET target == Lookup(document, rowSpec.path).value
      items  == CASE target.kind = "array"  -> target.items
                  [] target.kind = "object" -> <<target>>
                  [] OTHER                  -> <<>>
  IN SelectSeq(items, LAMBDA item : IsMeant(item, rowSpec.filters))

\* The places, below an element, of the rows it becomes.
RowPlaces(item) ==
  LET under == {p \in Places(item) : IsPrefix(rowSpec.attribute, p)
                                     /\ Lookup(item, p).value.kind = "object"
                                     /\ Len(p) = Len(rowSpec.attribute) + 1}
      whole == {rowSpec.attribute} \intersect {p \in Places(item) : Lookup(item, p).value # Null \/ p = <<>>}
  IN IF rowSpec.isMultiple THEN under ELSE whole

RECURSIVE HasOneFilter(_)

\* At most one filter, in whose argument there is at most one again.
HasOneFilter(tree) ==
  /\ Len(tree.filters) <= 1
  /\ \A i \in DOMAIN tree.filters :
       tree.filters[i].name # "contains" => HasOneFilter(tree.filters[i].tree)

\* No argument has two filters in a row.  Where one has, the ")" of the first comes
\* before a ":", and filterEnd takes it for the end of the argument: in
\* ":has(a:has(b):not(c))" the argument is "a:has(b", and ":not(c)" is the row's.
EndsWhereMeant(tree) ==
  \A i \in DOMAIN tree.filters :
    tree.filters[i].name # "contains" => HasOneFilter(tree.filters[i].tree)

\* Every row comes from an element the row selector's filters hold for, in the
\* answer's order, an element becoming as many rows as the rows block makes of it
\* and an answer without the rows' key an error unless that means no results; and
\* a field selects from its row, or with ".." from the element it came from, what
\* its selector says, read with its filters nested as its author wrote them: of
\* selectors no argument of which has two filters in a row.
ReadAsMeant ==
  rowsFound.isRead =>
    /\ rowsFound.isError <=> rowSpec.path \notin Places(document) /\ ~rowSpec.missingIsNone
    /\ EndsWhereMeant(rowSpec.filters) =>
       LET made == FlattenSeq([i \in DOMAIN Elements |-> [n \in 1 .. Cardinality(RowPlaces(Elements[i])) |-> Elements[i]]])
       IN Len(rowsFound.rows) = Len(made)
          /\ \A i \in DOMAIN made :
               /\ rowsFound.rows[i].parent = made[i]
               /\ \E p \in RowPlaces(made[i]) : rowsFound.rows[i].value = Lookup(made[i], p).value
    /\ valuesRead # NoValue /\ EndsWhereMeant(fieldTree) =>
         LET isNarrowed == valuesRead.row < 0
             row   == rowsFound.rows[IF isNarrowed THEN -valuesRead.row ELSE valuesRead.row]
             scope == IF fieldTree.isUp /\ ~isNarrowed THEN row.parent ELSE row.value
         IN /\ valuesRead.isFound <=> IsMeant(scope, fieldTree)
            /\ valuesRead.isFound => valuesRead.value = Lookup(scope, fieldTree.path).value

=============================================================================

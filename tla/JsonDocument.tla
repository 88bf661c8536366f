---------------------------- MODULE JsonDocument ----------------------------
(***************************************************************************)
(* What the Json classes promise their user: a document, read and changed  *)
(* through a cursor that operator[] moves down and that a conversion or an *)
(* assignment sets back to the document's top.                             *)
(*                                                                         *)
(* A value is a pair of its kind and its content.  The content of an       *)
(* object and of an array is a function from keys to values; an index is a *)
(* key of the form Index(i).  Any other value is a leaf.                   *)
(***************************************************************************)
EXTENDS Integers, Sequences

VARIABLES doc,     \* the document, or NoDocument
          at       \* the keys that lead from its top to the cursor

document == <<doc, at>>

NoDocument == <<"none", <<>>>>
NewValue == <<"null", <<>>>>
Index(i) == <<"index", i>>

IsLeaf(v) == v[1] \notin {"object", "array"}
Has(v, k) == ~IsLeaf(v) /\ k \in DOMAIN v[2]

\* The value that path leads to.
ValueAt(v, path) ==
    LET value[n \in 0 .. Len(path)] ==
          IF n = 0 THEN v
          ELSE LET above == value[n - 1]
               IN  IF Has(above, path[n]) THEN above[2][path[n]] ELSE NoDocument
    IN  value[Len(path)]

\* v with another value where path leads, its last key being new or not; a new
\* value becomes the kind of container that path asks for.
Replaced(v, path, new) ==
    LET value[n \in 0 .. Len(path)] ==
          IF n = 0 THEN v
          ELSE LET above == value[n - 1]
               IN  IF Has(above, path[n]) THEN above[2][path[n]] ELSE NewValue
        kind(u, k) == IF u # NewValue THEN u[1] ELSE IF k[1] = "index" THEN "array" ELSE "object"
        result[n \in 0 .. Len(path)] ==
          LET u == value[n]
              k == path[n + 1]
          IN  CASE n = Len(path) -> new
                [] n < Len(path) /\ IsLeaf(u) /\ u # NewValue -> NoDocument
                [] OTHER -> <<kind(u, k), [j \in DOMAIN u[2] \cup {k} |-> IF j # k THEN u[2][j] ELSE result[n + 1]]>>
    IN  result[0]

Init == doc \in {NoDocument, NewValue} /\ at = <<>>

\* parse begins, or the program came to its end: there is no document.
Begin == doc' = NoDocument /\ at' = <<>>

\* parse ends with some document.
Load == doc = NoDocument /\ at' = <<>>

\* A conversion changes nothing and sets the cursor back.
Read == doc' = doc /\ at' = <<>>

\* operator[] goes down one level; what is not there becomes a new value, and
\* nothing else changes.
Descend ==
    /\ at' # <<>>
    /\ SubSeq(at', 1, Len(at') - 1) = at
    /\ doc' = IF Has(ValueAt(doc, at), at'[Len(at')]) THEN doc ELSE Replaced(doc, at', NewValue)

\* operator= makes the value at the cursor a leaf, and nothing else changes.
Assign ==
    /\ doc # NoDocument
    /\ at' = <<>>
    /\ IsLeaf(ValueAt(doc', at))
    /\ doc' = Replaced(doc, at, ValueAt(doc', at))

\* An index that is not there was asked of a new value, and refused.
Refuse ==
    /\ ValueAt(doc, at) = NewValue
    /\ at' = <<>>
    /\ doc' = Replaced(doc, at, <<"array", <<>>>>)

Next == Begin \/ Load \/ Read \/ Descend \/ Assign \/ Refuse

Spec == Init /\ [][Next]_document
=============================================================================

---------------------------- MODULE JsonWriting -----------------------------
(***************************************************************************)
(* Documents, as the user writes them: the content of an object is a       *)
(* sequence of key and value, in which a key may come twice.  Their texts, *)
(* and what they mean.                                                     *)
(***************************************************************************)
EXTENDS JsonText

Obj(fields) == <<"object", fields>>
Arr(items) == <<"array", items>>
Num(chars) == <<"int", chars>>
Dbl(chars) == <<"double", chars>>
Str(chars) == <<"string", chars>>
Bool(c) == <<"bool", c>>

\* Where the blanks of a text are.
Gaps == {"first", "key", "colon", "value", "scalar", "container", "item"}
Gap(g, gaps) == IF g \in gaps THEN <<" ">> ELSE <<>>

RECURSIVE Written(_, _), Meaning(_), IsSimple(_)

\* The text of document d with blanks in gaps.
Written(d, gaps) ==
    LET After(v) == Gap(IF v[1] \in {"object", "array"} THEN "container" ELSE "scalar", gaps)
        Field(f) == Gap("key", gaps) \o <<"q">> \o f[1] \o <<"q">> \o Gap("colon", gaps) \o <<":">>
                        \o Gap("value", gaps) \o Written(f[2], gaps) \o After(f[2])
        Item(v) == Gap("item", gaps) \o Written(v, gaps) \o After(v)
        Listed(parts) == FoldLeft(LAMBDA s, i : s \o (IF i = 1 THEN <<>> ELSE <<",">>) \o parts[i],
                                  <<>>, [i \in DOMAIN parts |-> i])
    IN  CASE d[1] = "object" -> <<"{">> \o Gap("first", gaps)
                                  \o Listed([i \in DOMAIN d[2] |-> Field(d[2][i])]) \o <<"}">>
          [] d[1] = "array" -> <<"[">> \o Listed([i \in DOMAIN d[2] |-> Item(d[2][i])]) \o <<"]">>
          [] d[1] = "string" -> <<"q">> \o d[2] \o <<"q">>
          [] d[1] \in {"int", "double"} -> d[2]
          [] d[1] = "bool" -> <<d[2]>>
          [] OTHER -> <<"n">>

\* The value d stands for: of two fields with one key the later one counts.
Meaning(d) ==
    CASE d[1] = "object" ->
           <<"object", [k \in {d[2][i][1] : i \in DOMAIN d[2]} |->
               Meaning(d[2][Max({i \in DOMAIN d[2] : d[2][i][1] = k})][2])]>>
      [] d[1] = "array" ->
           <<"array", [k \in {<<"index", i - 1>> : i \in DOMAIN d[2]} |-> Meaning(d[2][k[2] + 1])]>>
      [] d[1] = "int" -> <<"int", AToI(d[2])>>
      [] d[1] = "double" -> <<"double", AToF(d[2])>>
      [] OTHER -> d

\* No key and no string of d holds a character that structures a text.
IsSimple(d) ==
    LET Plain(s) == ToSet(s) \cap {":", ",", "]", "}"} = {}
    IN  CASE d[1] = "object" -> \A i \in DOMAIN d[2] : Plain(d[2][i][1]) /\ IsSimple(d[2][i][2])
          [] d[1] = "array" -> \A i \in DOMAIN d[2] : IsSimple(d[2][i])
          [] d[1] = "string" -> Plain(d[2])
          [] OTHER -> TRUE

Text(d, gaps) == TextOf(Written(d, gaps), Meaning(d), gaps, IsSimple(d), TRUE)
Cut(t, n) == [t EXCEPT !.chars = SubSeq(@, 1, n), !.whole = FALSE]
=============================================================================

----------------------------- MODULE MCLibrary ------------------------------
(***************************************************************************)
(* Library for TLC: small values for the constants of its parts.           *)
(***************************************************************************)
EXTENDS Library, JsonWriting

-----------------------------------------------------------------------------
(***************************************************************************)
(* The texts for the two parsers: documents with nested objects and        *)
(* arrays, a key twice, signs and separators within strings, written       *)
(* tightly, with blanks in various places, and cut short; and texts that   *)
(* begin with no container, end a value wrongly, go on behind the end, or  *)
(* have a container where an object's first key should be.                 *)
(***************************************************************************)

a == <<"a">>
b == <<"b">>
Documents ==
    {Obj(<<>>), Arr(<<>>),
     Obj(<< <<a, Num(<<"1","2">>)>>, <<b, Str(<<"a", ",", "b">>)>> >>),
     Obj(<< <<a, Num(<<"1">>)>>, <<b, Bool("t")>>, <<a, Obj(<< <<b, Num(<<"2">>)>> >>)>> >>),
     Obj(<< <<a, Obj(<< <<a, Arr(<<Num(<<"-", "1">>), Obj(<<>>)>>)>> >>)>>, <<b, Null>> >>),
     Arr(<< Arr(<<Bool("f"), Dbl(<<"1", ".", "2">>)>>), Obj(<< <<a, Num(<<"0">>)>> >>), Arr(<<>>) >>),
     Obj(<< <<a, Arr(<< Str(<<"a", ":">>), Num(<<"2">>) >>)>>, <<b, Arr(<<Obj(<< <<a, Num(<<"1">>)>> >>)>>)>> >>)}
Blanks == {{}, {"first", "key", "colon", "value", "scalar"}, {"container"}, {"item"}}
Bad == { <<"1">>, <<"[", "[", "1">>, <<"[", "1", "}">>, <<"{", "}", "1", "1">>,
         <<"{", "[", "]", "}">>, <<"{", "[", "]", ",", "{", "}", "}">>,
         <<"{", "[", "]", ",", "q", "a", "b", "q", ":", "1", "}">> }
MCTexts ==
    {Text(d, g) : d \in Documents, g \in Blanks}
        \cup {Cut(Text(d, {}), Len(Written(d, {})) - 1) : d \in Documents}
        \cup {[Cut(Text(Null, {}), 0) EXCEPT !.chars = t] : t \in Bad}
MCNames == {a, b}
MCIndices == {-1, 0, 1}
MCLeaves == {<<"int", 2>>, <<"string", <<"b">>>>, <<"string", [i \in 1 .. 17 |-> "b"]>>}

\* Two keys in one bucket, the third in the other.
MCKeys == {"a", "b", "c"}
MCHash == [k \in MCKeys |-> IF k = "c" THEN 1 ELSE 0]
=============================================================================

------------------------------ MODULE JsonText ------------------------------
(***************************************************************************)
(* The texts given to the parsers.  A text is a sequence of characters;    *)
(* "q" stands for the quotation mark, " " for a space, and a literal (t,   *)
(* f, n for true, false, null) for its characters, which the parsers       *)
(* compare at once.  How documents are written as texts is JsonWriting.    *)
(***************************************************************************)
EXTENDS Integers, Sequences, FiniteSetsExt, SequencesExt

Digits == {"0", "1", "2"}

\* The first position from p on whose character is (or is not) one of S, else
\* the one behind the text.
NextIn(t, p, S) == Min({i \in p .. Len(t) : t[i] \in S} \cup {Len(t) + 1})
NextNotIn(t, p, S) == Min({i \in p .. Len(t) : t[i] \notin S} \cup {Len(t) + 1})

\* The last position in p .. e whose character is no blank, else p - 1.
LastSolid(t, p, e) == Max({i \in p .. e : t[i] # " "} \cup {p - 1})

\* The function f with the value v at x, where f may have none.
With(f, x, v) == [y \in DOMAIN f \cup {x} |-> IF y = x THEN v ELSE f[y]]

\* The character at p; behind the text is the terminator of the C string.
At(t, p) == IF p \in 1 .. Len(t) THEN t[p] ELSE "end"

\* atoi and atof of the characters s: a number, or its whole and its decimals.
DigitValue == [c \in Digits |-> CASE c = "0" -> 0 [] c = "1" -> 1 [] c = "2" -> 2]
Whole(s) == FoldLeft(LAMBDA n, c : 10 * n + DigitValue[c], 0, s)
AToI(s) == IF At(s, 1) = "-" THEN -Whole(Tail(s)) ELSE Whole(s)
AToF(s) == LET dot == NextIn(s, 1, {"."})
           IN  <<AToI(SubSeq(s, 1, dot - 1)), SubSeq(s, dot + 1, Len(s))>>

\* The value null of a document.
Null == <<"null", <<>>>>

\* What parse gets: a text, what it means, where it has blanks, whether no key
\* and no string of it holds a character that structures a text, and whether it
\* is all there.
TextOf(t, meaning, gaps, simple, whole) ==
    [chars |-> t, meaning |-> meaning, gaps |-> gaps, simple |-> simple, whole |-> whole]
NoText == TextOf(<<>>, <<"none", <<>>>>, {}, FALSE, FALSE)
=============================================================================

--------------------------- MODULE MCMaskPipeline ---------------------------
(***************************************************************************)
(* A text of twelve places with a blank line in it and a full stop at its  *)
(* end.  Up to three candidates in its first half are resolved and         *)
(* spliced; one or two over the whole text are decided on in every wording *)
(* of one public and at most one private keyword.  There is a detector for *)
(* each type.  Surrogates are shorter and longer than what they replace;   *)
(* this consumer does not mask phones.                                     *)
(***************************************************************************)
EXTENDS MaskPipeline

MCAtoms == 1..199

MCText == <<1, 2, 3, 4, 5, 6, 7, 8, 9, 10, 11, 12>>

At(place, type, conf, known) ==
    [start |-> place[1], end |-> place[2], type |-> type, conf |-> conf, known |-> known]

Places == {<<a, b>> \in (0..4) \X (1..5) : a < b /\ b <= a + 2}

Spliced3 ==
    UNION {{At(p, "FULL_NAME", 1, FALSE), At(p, "FULL_NAME", 2, FALSE), At(p, "FULL_NAME", 2, TRUE),
            At(p, "PIN", 2, FALSE), At(p, "PHONE", 2, FALSE), At(p, "CARD_NUMBER", 1, FALSE)}
           : p \in Places}

Weighed2 ==
    UNION {{At(p, "FULL_NAME", 1, FALSE), At(p, "FULL_NAME", 1, TRUE), At(p, "ADDRESS", 1, FALSE),
            At(p, "PHONE", 1, FALSE)}
           : p \in {<<0, 1>>, <<4, 6>>, <<8, 9>>}}

InContext == {{c, d} : c, d \in Weighed2}

ByDetector(f) == {{c \in f : c.type = t} : t \in {c.type : c \in f}}

MCReports == {ByDetector(f) : f \in {{c, d, e} : c, d, e \in Spliced3} \cup InContext}

\* Keywords of one place, alone, with a short or a long ending, beginning a longer word
\* or inside one; the word may run into a candidate or begin in front of one.
Keywords(lists) ==
    {k \in [start : {0, 1, 4, 5, 6, 8}, end : {1, 2, 5, 6, 7, 9}, from : {0, 1, 4, 6, 8},
            to : {1, 2, 5, 8, 9, 10}, list : lists] :
        /\ k.end = k.start + 1 /\ k.from <= k.start /\ k.end <= k.to
        /\ <<k.from, k.to>> \in {<<0, 1>>, <<1, 2>>, <<4, 5>>, <<4, 8>>, <<4, 10>>, <<6, 8>>, <<6, 9>>, <<8, 9>>}}

MCWordings(f) ==
    LET public == Keywords({"public", "organization"}) IN
    IF f \in InContext
    THEN {{k} : k \in public} \cup {{k, l} : k \in public, l \in Keywords({"private", "home"})}
    ELSE {{}}

\* A PIN grows to three characters, a card number to two; a name shrinks to one.
MCSurrogate(c) ==
    [k \in 1..(CASE c.type = "PIN" -> 3 [] c.type = "FULL_NAME" -> 1 [] OTHER -> 2)
        |-> 20 * (c.start + 1) + k]
=============================================================================

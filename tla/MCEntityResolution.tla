------------------------- MODULE MCEntityResolution -------------------------
(***************************************************************************)
(* Documents of up to four decisions: two people named Ivan Petrov with    *)
(* different patronymics, an Igor who shares their initial, a woman, runs  *)
(* whose words the dictionary labels alike, initials before the name is    *)
(* known, and a phone number.                                              *)
(***************************************************************************)
EXTENDS EntityResolution

MCWords == {"petrov", "ivan", "igor", "lvovich", "olegovich"}

MCLetterOf(w) ==
    CASE w \in {"ivan", "igor"} -> "i" [] w = "petrov" -> "p" [] w = "lvovich" -> "l" [] OTHER -> "o"

MCMentions ==
    {RunMention(<<"surname", "first">>, <<"petrov", f>>, "masc") : f \in {"ivan", "igor"}}
    \cup {RunMention(<<"first", "patronymic", "surname">>, <<"ivan", p, "petrov">>, "masc") :
            p \in {"lvovich", "olegovich"}}
    \cup {RunMention(<<"surname", "first", "patronymic">>, <<"petrov", "igor", "lvovich">>, "masc"),
          RunMention(<<"surname", "patronymic">>, <<"petrov", "lvovich">>, "masc"),
          RunMention(<<"first", "first">>, <<"ivan", "petrov">>, "femn"),
          RunMention(<<"patronymic", "patronymic">>, <<"lvovich", "ivan">>, "masc"),
          InitialsMention("petrov", <<"i">>, "masc"),
          InitialsMention("petrov", <<"i", "l">>, "masc"),
          InitialsMention("petrov", <<"i", "o">>, "masc")}

MCDecisions == MCMentions \cup {[type |-> "PHONE", value |-> 7], [type |-> "EMAIL", value |-> 7]}

MCDecided == UNION {[1..n -> MCDecisions] : n \in 0..4}
=============================================================================

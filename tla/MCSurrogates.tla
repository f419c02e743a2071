---------------------------- MODULE MCSurrogates ----------------------------
(***************************************************************************)
(* Two grammatical cases, four men and a woman to draw from, who share     *)
(* first names and surnames, and two countries.  The genitive of the       *)
(* surname Petrov is the nominative of Petrova.  The source texts keep a   *)
(* public figure, once in the nominative and once in the genitive, and     *)
(* one holds tokens.                                                       *)
(***************************************************************************)
EXTENDS ValueSurrogates

MCCases == <<"nomn", "gent">>

Genitive ==
    [Petrov |-> "Petrova", Orlov |-> "Orlova", Petrova |-> "Petrovoj",
     Ivan |-> "Ivana", Lev |-> "Lva", Anna |-> "Anny",
     Ilich |-> "Ilicha", Lvovich |-> "Lvovicha", Lvovna |-> "Lvovny",
     Serov |-> "Serova", Pavel |-> "Pavla", Markovich |-> "Markovicha",
     Bunina |-> "Buninoj", Vera |-> "Very"]

MCInflect(word, case) ==
    IF case = "gent" /\ word \in DOMAIN Genitive THEN Genitive[word] ELSE word

Initials ==
    [Petrov |-> "P.", Orlov |-> "O.", Petrova |-> "P.", Ivan |-> "I.", Lev |-> "L.",
     Anna |-> "A.", Ilich |-> "I.", Lvovich |-> "L.", Lvovna |-> "L.",
     Serov |-> "S.", Pavel |-> "P.", Markovich |-> "M.", Bunina |-> "B.", Vera |-> "V."]

MCInitial(word) == Initials[word]

MCToken(e) == <<"<1>", "<2>", "<3>">>[e]

Name(s, f, p) == [surname |-> s, first |-> f, patronymic |-> p]

MCIdentities(gender) ==
    IF gender = "femn" THEN {Name("Petrova", "Anna", "Lvovna")}
    ELSE {Name("Petrov", "Lev", "Lvovich"), Name("Petrov", "Lev", "Ilich"),
          Name("Petrov", "Ivan", "Ilich"), Name("Orlov", "Ivan", "Ilich")}

MCPool(type) ==
    IF type = "CITIZENSHIP" THEN {"Georgia", "Armenia"} ELSE {"UMVD of Kazan", "UMVD of Samara"}

Human(gender, parts) == [kind |-> "person", gender |-> gender, parts |-> parts]

Cardholder(words) == [kind |-> "cardholder", gender |-> "masc", words |-> words]

Country == [kind |-> "value", type |-> "CITIZENSHIP"]

Issuer == [kind |-> "value", type |-> "PASSPORT_ISSUER"]

Named(e, shape, case, text) == [entity |-> e, shape |-> shape, case |-> case, text |-> text]

Other(e, text) == [entity |-> e, text |-> text]

OnCard(e, case, text) == [entity |-> e, case |-> case, text |-> text]

Kept(text) == [entity |-> 0, text |-> text]

Serov == Human("masc", Name("Serov", "Pavel", None))
Serova == Human("masc", Name("Serov", "Pavel", "Markovich"))
Bunina == Human("femn", Name("Bunina", "Vera", None))
OnlySurname == Human("masc", Name("Serov", None, None))

\* Two men by first name and surname, in two cases.
TwoMen ==
    [entities |-> <<Serov, Human("masc", Name("Orlov", "Pavel", None))>>,
     items |-> <<Named(1, <<"F", "S">>, "nomn", <<"Pavel", "Serov">>),
                 Named(2, <<"F", "S">>, "gent", <<"Pavla", "Orlova">>)>>]

\* A full name and a later short one, next to the public figure Lev Lvovich and to a man
\* of whom an initial is given.
NextToPublic ==
    [entities |-> <<Serova>>,
     items |-> <<Kept(<<"Lva", "Lvovicha", "Tolstogo">>),
                 Named(1, <<"S", "F", "P">>, "nomn", <<"Serov", "Pavel", "Markovich">>),
                 Named(1, <<"S", "f", "p">>, "gent", <<"Serova", "P.", "M.">>),
                 Kept(<<"Lev", "Tolstoj">>), Kept(<<"L.", "Petrov">>)>>]

\* A man of whom only the surname is known, a woman and the holder of a card.
ThreeNames ==
    [entities |-> <<OnlySurname, Bunina, Cardholder(<<"PAVEL", "SEROV">>)>>,
     items |-> <<Named(1, <<"f", "S">>, "nomn", <<"P.", "Serov">>),
                 Named(2, <<"S", "F">>, "gent", <<"Buninoj", "Very">>),
                 OnCard(3, "nomn", <<"PAVEL", "SEROV">>)>>]

\* More countries than the pool has, one of them kept in the text.
Countries ==
    [entities |-> <<Country, Country, Country>>,
     items |-> <<Other(1, <<"Serbia">>), Other(2, <<"Georgia">>), Other(3, <<"Chile">>),
                 Kept(<<"from", "Georgia">>)>>]

\* The name drawn may be the name in the text.
SameName ==
    [entities |-> <<Human("masc", Name("Orlov", "Ivan", None)), Country>>,
     items |-> <<Named(1, <<"f", "S">>, "nomn", <<"I.", "Orlov">>), Other(2, <<"Chile">>)>>]

\* Texts that somebody has masked before: a token in a kept text, and one in the name of
\* an authority, which goes up to the next comma.
TokensInside ==
    [entities |-> <<Issuer, Cardholder(<<"SEROVA", "PAVLA">>)>>,
     items |-> <<Other(1, <<"UMVD", "of", "<2>">>), OnCard(2, "gent", <<"SEROVA", "PAVLA">>),
                 Kept(<<"see", "<1>">>)>>]

MCDocuments == {TwoMen, NextToPublic, ThreeNames, Countries, SameName, TokensInside}

MCTwoMen == {TwoMen}

MCTokensInside == {TokensInside}

\* Numbers that are drawn again now and then: digits in a row, and the draws are all
\* arithmetic progressions.
Row(first, n) == [k \in 1..n |-> (first + k - 1) % 10]

MCDigitDraws(n) == {[k \in 1..n |-> (a + b * k) % 10] : a, b \in 0..9}

Number(type, value) == [type |-> type, value |-> value]

MCValues ==
    {Number("PHONE", <<Plus>> \o Row(7, 1) \o <<Space, Open>> \o Row(8, 3) \o <<Close, Space>>
                     \o Row(1, 3) \o <<Hyphen>> \o Row(4, 2) \o <<Hyphen>> \o Row(6, 2)),
     Number("PHONE", Row(8, 11)),
     Number("PASSPORT", Row(4, 4) \o <<Space>> \o Row(8, 6)),
     Number("PASSPORT", Row(4, 2) \o <<Space>> \o Row(6, 2) \o <<Space>> \o Row(8, 6)),
     Number("PASSPORT", <<Letter, Space>> \o Row(4, 4) \o <<Space, Numero, Space>> \o Row(8, 6)),
     Number("DRIVER_LICENSE", Row(9, 10)),
     Number("DEPARTMENT_CODE", Row(7, 3) \o <<Hyphen>> \o Row(0, 3)),
     Number("CVV", Row(1, 3)), Number("CVV", Row(1, 4)), Number("PIN", Row(1, 4)),
     Number("INN", <<7, 7, 0, 7, 0, 8, 3, 8, 9, 3>>),
     Number("INN", <<5, 0, 0, 1, 0, 0, 7, 3, 2, 2, 5, 9>>)}
    \cup {Number("CARD_NUMBER", card) :
            card \in {<<4, 1, 1, 1, 1, 1, 1, 1, 1, 1, 1, 1, 1, 1, 1, 1>>,
                      Grouped(<<4, 1, 1, 1, 1, 1, 1, 1, 1, 1, 1, 1, 1, 1, 1, 1>>, Space),
                      Grouped(<<4, 1, 1, 1, 1, 1, 1, 1, 1, 1, 1, 1, 1, 1, 1, 1>>, Hyphen),
                      [k \in 1..31 |-> IF k = 1 THEN 4 ELSE IF k % 2 = 1 THEN 1 ELSE Space],
                      [k \in 1..30 |-> IF k = 1 THEN 4 ELSE IF k % 2 = 0 THEN 1 ELSE Space],
                      <<4, 2, 2, 2, 2, 2, 2, 2, 2, 2, 2, 2, 2>>}}
=============================================================================

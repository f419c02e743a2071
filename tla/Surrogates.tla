----------------------------- MODULE Surrogates -----------------------------
(***************************************************************************)
(* Surrogates and the way back: _build_mapping draws one per entity of the *)
(* document, build_transform_result puts them into the text, and           *)
(* ModeDemasker finds them again in a text that somebody has reworded.     *)
(*                                                                         *)
(* A text is a sequence of words; an inflected word, an initial, a token   *)
(* and a value are one word each.  Its pieces, the mentions and what is    *)
(* kept, are set apart by a separator.  Needles are matched at word        *)
(* boundaries and their length is counted in words: needles that overlap   *)
(* within a piece are nested, so that words and characters order them      *)
(* alike.  Compact initials differ from spaced ones in layout only.        *)
(***************************************************************************)
EXTENDS Integers, Sequences, FiniteSets, SequencesExt

CONSTANTS
    Documents,      \* [entities, items], see Entity and Item
    Identities(_),  \* the persons SyntheticGenerator draws, per gender
    Pool(_),        \* the values it draws, per type
    Cases,          \* CASES, the nominative first
    Inflect(_, _),  \* inflect_word: word, case
    Initial(_),     \* the first letter of a word, with its dot
    Token(_),       \* token_for
    Separator,
    MaxRetries,     \* _MAX_COLLISION_RETRIES
    MaxReply,       \* pieces of a reworded text
    None

Nominative == Cases[1]

CaseSet == {Cases[c] : c \in DOMAIN Cases}

ASSUME DocumentsAssumption ==
    /\ 1 \in DOMAIN Cases
    /\ \A d \in Documents :
        /\ d.entities \in Seq(Range(d.entities))
        /\ \A e \in DOMAIN d.entities : d.entities[e].kind \in {"person", "cardholder", "value"}
        /\ d.items \in Seq(Range(d.items))
        /\ \A k \in DOMAIN d.items : d.items[k].text \in Seq(Range(d.items[k].text))

VARIABLES
    mode,           \* TOKEN or SYNTHETIC
    doc,            \* the document; never changes
    phase,          \* draw, mask, reply, demask, done
    attempt,        \* of the entity whose surrogate is drawn
    maps,           \* the EntityMappings, by entity
    used,           \* the surrogates given out
    out,            \* the items masked so far
    reply,          \* what comes back, piece by piece
    result          \* the demasked text

vars == <<mode, doc, phase, attempt, maps, used, out, reply, result>>

Init ==
    /\ mode \in {"TOKEN", "SYNTHETIC"}
    /\ doc \in Documents
    /\ phase = "draw" /\ attempt = 0
    /\ maps = <<>> /\ used = {} /\ out = <<>>
    /\ reply = <<>> /\ result = <<>>

-----------------------------------------------------------------------------
(* Texts *)

Joined(pieces) == FoldLeft(LAMBDA text, p : text \o p \o <<Separator>>, <<>>, pieces)

SourceText == Joined([k \in DOMAIN doc.items |-> doc.items[k].text])

\* _find_all_spans: where the needle starts, counting from 0.
Places(needle, text) ==
    {k \in 0..(Len(text) - Len(needle)) : SubSeq(text, k + 1, k + Len(needle)) = needle}

Occurs(needle, text) == Places(needle, text) # {}

\* Shapes of a name: words in upper case, initials in lower case.
RoleBySymbol == [S |-> "surname", F |-> "first", P |-> "patronymic",
                 f |-> "first", p |-> "patronymic"]

WordShapes == <<<<"S", "F", "P">>, <<"F", "P", "S">>, <<"F", "S">>, <<"S", "F">>, <<"F", "P">>>>

InitialShapes == <<<<"f", "p", "S">>, <<"S", "f", "p">>, <<"f", "S">>>>

Shapes == WordShapes \o InitialShapes

\* _render_shape and render_like_mention: initials are not inflected.
Render(shape, parts, case) ==
    [k \in DOMAIN shape |->
        LET word == parts[RoleBySymbol[shape[k]]] IN
        IF shape[k] \in {"f", "p"} THEN Initial(word) ELSE Inflect(word, case)]

\* _render_original_like: a part the original lacks is dropped.
RenderOriginalLike(shape, parts, case) ==
    Render(SelectSeq(shape, LAMBDA s : parts[RoleBySymbol[s]] # None), parts, case)

\* No name of gender h, in any shape and case, looks like another full name of gender g.
FullNamesTell(g, h) ==
    \A a \in Identities(g), b \in Identities(h) :
        \A s \in {<<"S", "F", "P">>, <<"F", "P", "S">>}, k \in DOMAIN Shapes, c, d \in CaseSet :
            Render(s, a, c) = Render(Shapes[k], b, d) => a = b

\* An inflected full name, in either order, tells whose it is (MALE_FIRST and the other
\* lists: the stem tells the name, and the ending of a patronymic the gender).
ASSUME NamesAssumption ==
    \A d \in Documents : \A e, f \in DOMAIN d.entities :
        d.entities[e].kind # "value" /\ d.entities[f].kind # "value"
            => FullNamesTell(d.entities[e].gender, d.entities[f].gender)

\* Tokens are in angle brackets, which no value of a pool is, and numbered.
ASSUME TokensAssumption ==
    \A d \in Documents : \A e, f \in DOMAIN d.entities :
        /\ Token(e) = Token(f) => e = f
        /\ d.entities[f].kind = "value" => Token(e) \notin Pool(d.entities[f].type)

-----------------------------------------------------------------------------
(* _build_mapping *)

Current == doc.entities[Len(maps) + 1]

IsName(entity) == entity.kind \in {"person", "cardholder"}

\* The nominal form of a draw.
Nominal(entity, draw) ==
    IF IsName(entity) THEN Render(<<"S", "F", "P">>, draw, Nominative) ELSE <<draw>>

Draws(entity) == IF IsName(entity) THEN Identities(entity.gender) ELSE Pool(entity.type)

\* What sets pieces apart is no word of a surrogate.
ASSUME SeparatorAssumption ==
    \A d \in Documents : \A e \in DOMAIN d.entities :
        /\ Token(e) # Separator
        /\ d.entities[e].kind = "value" => Separator \notin Pool(d.entities[e].type)
        /\ d.entities[e].kind # "value" =>
            \A draw \in Identities(d.entities[e].gender), s \in DOMAIN Shapes, c \in CaseSet :
                Separator \notin Range(Render(Shapes[s], draw, c))

\* Seeded fault: only the nominative is looked for.
AliasShapeCollidesNominative(entity, draw) ==
    IsName(entity) /\ \E shape \in {<<"F", "P">>, <<"F", "S">>, <<"S", "F">>} :
        Occurs(Render(shape, draw, Nominative), SourceText)

\* _alias_shape_collides
AliasShapeCollides(entity, draw) ==
    IsName(entity) /\ \E shape \in {<<"F", "P">>, <<"F", "S">>, <<"S", "F">>}, case \in CaseSet :
        Occurs(Render(shape, draw, case), SourceText)

\* Seeded fault: what other entities were given is not looked at.
AcceptableAlone(entity, draw) ==
    /\ ~Occurs(Nominal(entity, draw), SourceText)
    /\ ~AliasShapeCollides(entity, draw)

Acceptable(entity, draw) ==
    /\ Nominal(entity, draw) \notin used
    /\ ~Occurs(Nominal(entity, draw), SourceText)
    /\ ~AliasShapeCollides(entity, draw)

\* The surface of the entity's first mention.
FirstSurface(e) ==
    doc.items[CHOOSE k \in DOMAIN doc.items :
                /\ doc.items[k].entity = e
                /\ \A j \in 1..(k - 1) : doc.items[j].entity # e].text

\* The mapping of the entity, and the next one's turn.  synthetic = None stands for
\* the entity's token.
Add(draw) ==
    /\ maps' = Append(maps, [synthetic |-> draw, fallback |-> draw = None])
    /\ used' = used \cup {IF draw = None THEN <<Token(Len(maps) + 1)>> ELSE Nominal(Current, draw)}
    /\ attempt' = 0
    /\ UNCHANGED <<mode, doc, phase, out, reply, result>>

Drawing == phase = "draw" /\ Len(maps) < Len(doc.entities)

Take(draw) == Drawing /\ attempt < MaxRetries /\ Acceptable(Current, draw) /\ Add(draw)

Retry(draw) ==
    /\ Drawing /\ attempt < MaxRetries /\ ~Acceptable(Current, draw)
    /\ attempt' = attempt + 1
    /\ UNCHANGED <<mode, doc, phase, maps, used, out, reply, result>>

\* The retry budget is spent.
FallBack == Drawing /\ attempt = MaxRetries /\ Add(None)

DrawingEnds ==
    /\ phase = "draw" /\ Len(maps) = Len(doc.entities)
    /\ phase' = "mask"
    /\ UNCHANGED <<mode, doc, attempt, maps, used, out, reply, result>>

-----------------------------------------------------------------------------
(* build_transform_result *)

\* _synthetic_replacement: the mention in its own shape and case.
SyntheticReplacement(item) ==
    LET entity == doc.entities[item.entity]
        mapping == maps[item.entity] IN
    CASE mapping.fallback -> <<Token(item.entity)>>
      [] ~mapping.fallback /\ entity.kind = "person" ->
            Render(item.shape, mapping.synthetic, item.case)
      [] OTHER -> Nominal(entity, mapping.synthetic)

\* _occurrence_replacement: never the original itself.
OccurrenceReplacement(item) ==
    IF mode = "TOKEN" \/ SyntheticReplacement(item) = item.text
    THEN <<Token(item.entity)>> ELSE SyntheticReplacement(item)

Item == doc.items[Len(out) + 1]

Masking == phase = "mask" /\ Len(out) < Len(doc.items)

Keep ==
    /\ Masking /\ Item.entity = 0
    /\ out' = Append(out, Item.text)
    /\ UNCHANGED <<mode, doc, phase, attempt, maps, used, reply, result>>

Mask ==
    /\ Masking /\ Item.entity # 0
    /\ out' = Append(out, OccurrenceReplacement(Item))
    /\ UNCHANGED <<mode, doc, phase, attempt, maps, used, reply, result>>

\* The morphology raises: from here on the entity is a token.
MaskRaises ==
    /\ Masking /\ Item.entity # 0 /\ mode = "SYNTHETIC"
    /\ ~maps[Item.entity].fallback /\ IsName(doc.entities[Item.entity])
    /\ maps' = [maps EXCEPT ![Item.entity].fallback = TRUE]
    /\ out' = Append(out, <<Token(Item.entity)>>)
    /\ UNCHANGED <<mode, doc, phase, attempt, used, reply, result>>

MaskingEnds ==
    /\ phase = "mask" /\ Len(out) = Len(doc.items)
    /\ phase' = "reply"
    /\ UNCHANGED <<mode, doc, attempt, maps, used, out, reply, result>>

-----------------------------------------------------------------------------
(* ModeDemasker *)

Needle(text, new, rank) == [text |-> text, new |-> new, rank |-> rank]

\* The rank of a needle in the list: by mapping, then case, then shape.
Rank(e, c, s) == (e * (Len(Cases) + 1) + c) * (Len(Shapes) + 1) + s

\* _alias_shape_pairs: every shape in every case, of which some part is known.
AliasShapePairs(e) ==
    LET Pair(s, c) ==
            Needle(Render(Shapes[s], maps[e].synthetic, Cases[c]),
                   RenderOriginalLike(Shapes[s], doc.entities[e].parts, Cases[c]), Rank(e, c, s)) IN
    {n \in {Pair(s, c) : s \in DOMAIN Shapes, c \in DOMAIN Cases} : n.new # <<>>}

\* _legacy_name_pairs: the full name only.
LegacyNamePairs(e) ==
    {Needle(Render(<<"S", "F", "P">>, maps[e].synthetic, Cases[c]),
            [k \in DOMAIN doc.entities[e].words |-> Inflect(doc.entities[e].words[k], Cases[c])],
            Rank(e, c, 1)) : c \in DOMAIN Cases}

\* What is searched for on behalf of one mapping.
Needles(e) ==
    {Needle(<<Token(e)>>, FirstSurface(e), Rank(e, 0, 0))} \cup
    IF mode = "TOKEN" \/ maps[e].synthetic = None THEN {}
    ELSE CASE doc.entities[e].kind = "person" -> AliasShapePairs(e)
           [] doc.entities[e].kind = "cardholder" -> LegacyNamePairs(e)
           [] doc.entities[e].kind = "value" ->
                {Needle(<<maps[e].synthetic>>, FirstSurface(e), Rank(e, 1, 1))}

FoundSpans(text) ==
    UNION {{[from |-> k, to |-> k + Len(n.text), new |-> n.new, rank |-> n.rank] :
                k \in Places(n.text, text)} : n \in UNION {Needles(e) : e \in DOMAIN maps}}

\* Longest first, then leftmost, then the order of the needles.
Before(s, t) ==
    \/ s.to - s.from > t.to - t.from
    \/ s.to - s.from = t.to - t.from /\ s.from < t.from
    \/ s.to - s.from = t.to - t.from /\ s.from = t.from /\ s.rank < t.rank

\* _resolve_and_apply, first half: the first of the spans that no chosen one overlaps,
\* as often as there is one.
ChosenSpans(spans) ==
    LET Round(chosen, round) ==
            LET free == {s \in spans : \A t \in chosen : s.to <= t.from \/ t.to <= s.from} IN
            IF free = {} THEN chosen
            ELSE chosen \cup {CHOOSE s \in free : \A t \in free \ {s} : Before(s, t)} IN
    FoldLeft(Round, {}, [round \in 1..Cardinality(spans) |-> round])

\* The text with the chosen span that starts here replaced.
SplicedAt(text, chosen, from) ==
    IF \E s \in chosen : s.from = from
    THEN LET s == CHOOSE s \in chosen : s.from = from IN
         SubSeq(text, 1, s.from) \o s.new \o SubSeq(text, s.to + 1, Len(text))
    ELSE text

\* Seeded fault: from left to right, with offsets of the text as it was.
AppliedForward(text, chosen) ==
    FoldLeft(LAMBDA spliced, from : SplicedAt(spliced, chosen, from), text,
             [k \in 1..Len(text) |-> k - 1])

\* _resolve_and_apply, second half: from right to left.
Applied(text, chosen) ==
    FoldLeft(LAMBDA spliced, from : SplicedAt(spliced, chosen, from), text,
             [k \in 1..Len(text) |-> Len(text) - k])

DemaskText(text) == Applied(text, ChosenSpans(FoundSpans(text)))

\* A piece of a reworded text: what it says and of whom.
Piece(e, shape, text) == [entity |-> e, shape |-> shape, text |-> text]

\* The LLM keeps words of the source and repeats surrogates, also in another case or
\* in another shape than it was given.
Echoes ==
    {Piece(0, <<>>, doc.items[k].text) : k \in {j \in DOMAIN doc.items : doc.items[j].entity = 0}}
    \cup {Piece(e, <<>>, <<Token(e)>>) : e \in DOMAIN maps}
    \cup UNION {LET entity == doc.entities[e] IN
                IF mode = "TOKEN" \/ maps[e].synthetic = None THEN {}
                ELSE CASE entity.kind = "person" ->
                            {Piece(e, Shapes[s], Render(Shapes[s], maps[e].synthetic, case)) :
                                s \in DOMAIN Shapes, case \in CaseSet}
                       [] OTHER -> {Piece(e, <<>>, Nominal(entity, maps[e].synthetic))}
                : e \in DOMAIN maps}

Reply(pieces) ==
    /\ phase = "reply"
    /\ reply' = pieces
    /\ phase' = "demask"
    /\ UNCHANGED <<mode, doc, attempt, maps, used, out, result>>

Demask ==
    /\ phase = "demask"
    /\ result' = DemaskText(Joined([k \in DOMAIN reply |-> reply[k].text]))
    /\ phase' = "done"
    /\ UNCHANGED <<mode, doc, attempt, maps, used, out, reply>>

Next ==
    \/ \E draw \in IF Drawing THEN Draws(Current) ELSE {} : Take(draw) \/ Retry(draw)
    \/ FallBack \/ DrawingEnds
    \/ Keep \/ Mask \/ MaskRaises \/ MaskingEnds
    \/ \E n \in 1..MaxReply : \E pieces \in [1..n -> IF phase = "reply" THEN Echoes ELSE {}] :
        Reply(pieces)
    \/ Demask

Spec == Init /\ [][Next]_vars

-----------------------------------------------------------------------------
(* Properties *)

\* What the piece should turn into; a surface that several cases share may return in
\* any of them, and a surrogate of which the original has no part stays.
Meant(p) ==
    CASE p.entity = 0 -> {p.text}
      [] p.entity # 0 /\ p.shape = <<>> ->
            {FirstSurface(p.entity)}
      [] OTHER ->
            LET orig == doc.entities[p.entity].parts
                cases == {c \in CaseSet : Render(p.shape, maps[p.entity].synthetic, c) = p.text}
                texts == {RenderOriginalLike(p.shape, orig, c) : c \in cases} IN
            IF <<>> \in texts THEN {p.text} ELSE texts

\* Another entity's surrogate has this surface too.
Shared(p) == \E e \in DOMAIN maps \ {p.entity} : \E n \in Needles(e) : n.text = p.text

AsMeant ==
    \E f \in [DOMAIN reply -> UNION {Meant(reply[k]) : k \in DOMAIN reply}] :
        /\ \A k \in DOMAIN reply : f[k] \in Meant(reply[k])
        /\ result = Joined(f)

\* Surrogates, however they are cut, inflected and arranged, come back as the words of
\* their own entity, if no two entities share that surface (ModeDemasker: "Restores
\* original values from token/synthetic surrogates found anywhere in arbitrary text").
SurrogatesReturn ==
    phase = "done" /\ (\A k \in DOMAIN reply : reply[k].entity # 0 /\ ~Shared(reply[k])) => AsMeant

\* Full names, values and tokens are never shared (_build_mapping: "until the value is
\* unique within this document").
FullFormsUnshared ==
    phase = "reply" => \A p \in Echoes : p.entity # 0 /\ Len(p.shape) \in {0, 3} /\
        "f" \notin {p.shape[k] : k \in DOMAIN p.shape} => ~Shared(p)

\* No token is in the text, and no drawn name with initials.
Plain(text) ==
    \A e \in DOMAIN maps :
        /\ ~Occurs(<<Token(e)>>, text)
        /\ maps[e].synthetic # None /\ IsName(doc.entities[e]) =>
            \A s \in DOMAIN InitialShapes, case \in CaseSet :
                ~Occurs(Render(InitialShapes[s], maps[e].synthetic, case), text)

\* Words kept from the source text, tokens and names with initials apart, are not rewritten
\* (_alias_shape_collides: a surface "already present in the document ... would be
\* falsely rewritten at demask time").
KeptTextStays ==
    phase = "done" /\ (\A k \in DOMAIN reply : reply[k].entity = 0 /\ Plain(reply[k].text)) => AsMeant

\* The piece is an occurrence as it was masked.
Occurrence(p) ==
    \E k \in DOMAIN out : doc.items[k].entity = p.entity /\ out[k] = p.text

\* The occurrences of the masked text come back as the words of their own entity
\* (_build_mapping: a unique value "removes the ambiguity for as long as the pool has
\* room").
OccurrencesReturn ==
    phase = "done" /\ (\A k \in DOMAIN reply : reply[k].entity # 0 /\ Occurrence(reply[k])) => AsMeant
=============================================================================

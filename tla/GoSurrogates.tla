---------------------------- MODULE GoSurrogates ----------------------------
(***************************************************************************)
(* The Go service's surrogates: BuildTransform, which gives every entity   *)
(* one synthetic text and every mention in the nominative that text, and   *)
(* FuzzyDemask, which replaces mapping after mapping in what the previous  *)
(* one left.  Texts, documents and draws are those of Surrogates; phases   *)
(* and modes have names of their own, so that one run checks both.         *)
(***************************************************************************)
EXTENDS Surrogates

GoInit ==
    /\ mode \in {"GO_TOKEN", "GO_SYNTHETIC"}
    /\ doc \in Documents
    /\ phase = "goDraw" /\ attempt = 0
    /\ maps = <<>> /\ used = {} /\ out = <<>>
    /\ reply = <<>> /\ result = <<>>

-----------------------------------------------------------------------------
(* BuildTransform *)

Type(entity) == IF IsName(entity) THEN entity.kind ELSE entity.type

\* syntheticFor: as many words as the first mention has.
SyntheticFor(e, draw) ==
    LET shape == CASE Len(FirstSurface(e)) = 1 -> <<"S">>
                   [] Len(FirstSurface(e)) = 2 -> <<"F", "S">>
                   [] OTHER -> <<"S", "F", "P">> IN
    IF IsName(doc.entities[e]) THEN Render(shape, draw, Nominative) ELSE <<draw>>

\* A draw is given up for another one if its type's other entities have it or if it is
\* the original, but the last draw is kept whatever it is.
GoDraw(draw) ==
    LET e == Len(maps) + 1
        text == SyntheticFor(e, draw)
        taken == <<Type(Current), text>> \in used \/ text = FirstSurface(e) IN
    /\ phase = "goDraw" /\ e <= Len(doc.entities)
    /\ IF taken /\ attempt + 1 < MaxRetries
       THEN attempt' = attempt + 1 /\ UNCHANGED <<maps, used>>
       ELSE /\ maps' = Append(maps, [synthetic |-> text])
            /\ used' = used \cup {<<Type(Current), text>>}
            /\ attempt' = 0
    /\ UNCHANGED <<mode, doc, phase, out, reply, result>>

GoDrawingEnds ==
    /\ phase = "goDraw" /\ Len(maps) = Len(doc.entities)
    /\ phase' = "goMask"
    /\ UNCHANGED <<mode, doc, attempt, maps, used, out, reply, result>>

\* isNominativeMention: names only, those on cards included; the case is what the
\* endings look like.
IsNominativeMention(item) == ~IsName(doc.entities[item.entity]) \/ item.case = Nominative

GoMask ==
    /\ phase = "goMask" /\ Len(out) < Len(doc.items)
    /\ out' = Append(out, CASE Item.entity = 0 -> Item.text
                            [] Item.entity # 0 /\ mode = "GO_SYNTHETIC" /\ IsNominativeMention(Item) ->
                                maps[Item.entity].synthetic
                            [] OTHER -> <<Token(Item.entity)>>)
    /\ UNCHANGED <<mode, doc, phase, attempt, maps, used, reply, result>>

-----------------------------------------------------------------------------
(* FuzzyDemask *)

\* Seeded fault: only the first match is replaced.
ReplaceWordBoundedOnce(text, needle, new) ==
    IF Places(needle, text) = {} THEN text
    ELSE LET k == CHOOSE k \in Places(needle, text) : \A j \in Places(needle, text) : k <= j IN
         SubSeq(text, 1, k) \o new \o SubSeq(text, k + Len(needle) + 1, Len(text))

\* replaceWordBounded: match after match from the left; the replacement is not searched.
ReplaceWordBounded(text, needle, new) ==
    LET Step(done, k) ==
            CASE k < done.idx -> done
              [] k >= done.idx /\ k \in Places(needle, text) ->
                    [text |-> done.text \o new, idx |-> k + Len(needle)]
              [] OTHER -> [text |-> Append(done.text, text[k + 1]), idx |-> k + 1] IN
    FoldLeft(Step, [text |-> <<>>, idx |-> 0], [k \in 1..Len(text) |-> k - 1]).text

\* What is replaced by what, in this order: token after token, then synthetic after
\* synthetic.
Passes ==
    LET Pass(e, needle) == [entity |-> e, needle |-> needle, original |-> FirstSurface(e)] IN
    [e \in DOMAIN maps |-> Pass(e, <<Token(e)>>)] \o
    IF mode = "GO_TOKEN" THEN <<>> ELSE [e \in DOMAIN maps |-> Pass(e, maps[e].synthetic)]

\* Each pass works on what the previous one left.  ReplaceAll is used for tokens, which
\* are words of their own.
FuzzyDemask(text) ==
    FoldLeft(LAMBDA t, p : ReplaceWordBounded(t, p.needle, p.original), text, Passes)

GoEchoes ==
    {Piece(0, <<>>, doc.items[k].text) : k \in {j \in DOMAIN doc.items : doc.items[j].entity = 0}}
    \cup {Piece(e, <<>>, <<Token(e)>>) : e \in DOMAIN maps}
    \cup IF mode = "GO_TOKEN" THEN {} ELSE {Piece(e, <<>>, maps[e].synthetic) : e \in DOMAIN maps}

GoReply(pieces) ==
    /\ phase = "goMask" /\ Len(out) = Len(doc.items)
    /\ reply' = pieces
    /\ phase' = "goDemask"
    /\ UNCHANGED <<mode, doc, attempt, maps, used, out, result>>

GoDemask ==
    /\ phase = "goDemask"
    /\ result' = FuzzyDemask(Joined([k \in DOMAIN reply |-> reply[k].text]))
    /\ phase' = "goDone"
    /\ UNCHANGED <<mode, doc, attempt, maps, used, out, reply>>

GoNext ==
    \/ \E draw \in IF phase = "goDraw" /\ Len(maps) < Len(doc.entities)
                   THEN Draws(Current) ELSE {} : GoDraw(draw)
    \/ GoDrawingEnds \/ GoMask
    \/ \E n \in 1..MaxReply : \E pieces \in [1..n -> IF phase = "goMask" THEN GoEchoes ELSE {}] :
        GoReply(pieces)
    \/ GoDemask

-----------------------------------------------------------------------------
(* Properties *)

\* No pass disturbs the piece: none finds anything in a kept text, none before its own
\* in a surrogate, and none after its own in the original put back.
Undisturbed(p) ==
    IF p.entity = 0 THEN \A k \in DOMAIN Passes : ~Occurs(Passes[k].needle, p.text)
    ELSE \E k \in DOMAIN Passes :
            /\ Passes[k].entity = p.entity /\ Passes[k].needle = p.text
            /\ \A j \in 1..(k - 1) : ~Occurs(Passes[j].needle, p.text)
            /\ \A j \in (k + 1)..Len(Passes) : ~Occurs(Passes[j].needle, Passes[k].original)

\* A text made of pieces that no pass disturbs comes back piece by piece, every surrogate
\* as its own entity's words and kept words as they are.  What it takes is asked of the
\* pieces only: the document's other synthetics may be entangled (BuildTransform compares
\* whole texts of one type, and keeps its last draw), its kept texts may hold tokens,
\* and an original may look like the surrogate of an earlier pass.
GoSurrogatesReturn ==
    phase = "goDone" /\ (\A k \in DOMAIN reply : Undisturbed(reply[k])) => AsMeant

\* The piece is a surrogate, and in it is no other entity's.
Alone(p) ==
    /\ p.entity # 0
    /\ \A k \in DOMAIN Passes : Occurs(Passes[k].needle, p.text) => Passes[k].entity = p.entity

\* An original that was put back is not searched again (ARCH.md on tokens: restored
\* originals that contain token-like substrings are not substituted a second time; the
\* Go README counts the fuzzy demask among what is "ported 1:1").  FuzzyDemask hands the
\* text with the original in it to the next pass.
GoRestoredOnce ==
    phase = "goDone" /\ (\A k \in DOMAIN reply : Alone(reply[k])) => AsMeant
=============================================================================

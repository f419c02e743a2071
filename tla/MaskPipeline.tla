---------------------------- MODULE MaskPipeline ----------------------------
(***************************************************************************)
(* The masking of one text: PiiPipeline.process up to the TransformResult, *)
(* loop by loop, and the re-splicing of texts from the stored occurrences. *)
(* The Go service is a port of it that resolves overlaps, ends words and   *)
(* relates PINs to cards in ways of its own, and has no consumers and no   *)
(* list of well-known surnames; in the rest the two are alike.             *)
(*                                                                         *)
(* What the detectors find is the input, and so is where the keywords of   *)
(* the context rules stand.  The text is a sequence of distinct atoms, so  *)
(* that equal texts mean that every character is back in its place.  Spans *)
(* are half-open and count from 0, as in the code.  A place of the text is *)
(* a character in Python and a byte in Go.                                 *)
(***************************************************************************)
EXTENDS Integers, FiniteSets, Sequences, SequencesExt

CONSTANTS
    Atoms,          \* characters
    Text,           \* the payload
    Reports,        \* what the detectors find: a set of candidates per detector
    MaskTypes,      \* the types should_mask_type accepts for the consumer
    Breaks,         \* where a blank line, two characters, starts in the text
    Stops,          \* where a sentence ends: the places of . ! ? and line breaks
    Wordings(_),    \* the sets of keywords the text may hold around the candidates
    Radius,         \* context_window_chars
    Window,         \* window_chars of the PIN rule
    Surrogate(_)    \* the replacement of an occurrence, per candidate

\* detect_all: what those detectors find that do not raise.
DetectAll(report) == {UNION heard : heard \in SUBSET report}

Findings == UNION {DetectAll(r) : r \in Reports}

Candidates == UNION Findings

ASSUME TextAssumption ==
    /\ Text \in Seq(Atoms)
    /\ \A c \in Candidates : Surrogate(c) \in Seq(Atoms) \ {<<>>}

\* Atoms stand for places: no two places of the text hold the same one, and none of them
\* occurs in a replacement.
ASSUME AtomsAssumption ==
    /\ \A i, j \in DOMAIN Text : Text[i] = Text[j] => i = j
    /\ \A c \in Candidates : \A i \in DOMAIN Text, j \in DOMAIN Surrogate(c) :
            Text[i] # Surrogate(c)[j]

ASSUME CandidatesAssumption ==
    \A c \in Candidates :
        /\ {c.start, c.end, c.conf} \subseteq Nat
        /\ c.start < c.end /\ c.end <= Len(Text)

\* A text has finitely many candidates and sentence ends; a keyword is a piece of the
\* text with no sentence end inside.
ASSUME WordsAssumption ==
    /\ Radius \in Nat /\ Stops \subseteq 0..(Len(Text) - 1)
    /\ \A f \in Findings :
        /\ IsFiniteSet(f)
        /\ \A ks \in Wordings(f) : \A k \in ks :
            /\ {k.start, k.end, k.from, k.to} \subseteq Nat
            /\ k.start < k.end /\ k.end <= Len(Text)
            /\ Stops \cap k.start..(k.end - 1) = {}

VARIABLES
    port,           \* "python" or "go": which service this is; never changes
    cands,          \* what detect_all returned
    words,          \* keywords in the text: their span, their list, and from where to where
                    \* the word goes in which they stand, as the port delimits words
    phase,          \* resolve, decide, splice, done
    todo, chosen,   \* resolve_overlaps: candidates still to visit, and taken
    spans,          \* decided MASK and not yet spliced
    cursor, offset, \* of _splice_spans
    masked,         \* the transformed text so far
    occurrences

vars == <<port, cands, words, phase, todo, chosen, spans, cursor, offset, masked, occurrences>>

Init ==
    /\ port \in {"python", "go"}
    /\ cands \in IF port = "go" THEN {UNION r : r \in Reports} ELSE Findings
    /\ words \in Wordings(cands)
    /\ phase = "resolve"
    /\ todo = cands /\ chosen = {} /\ spans = {}
    /\ cursor = 0 /\ offset = 0
    /\ masked = <<>> /\ occurrences = {}

-----------------------------------------------------------------------------
(* resolve_overlaps *)

Size(c) == c.end - c.start

\* The sort key: confidence, then length, then earliest start.
Before(c, d) ==
    \/ c.conf > d.conf
    \/ c.conf = d.conf /\ Size(c) > Size(d)
    \/ c.conf = d.conf /\ Size(c) = Size(d) /\ c.start < d.start

\* sortCandidates of the Go service: earliest start, then length.
GoBefore(c, d) == c.start < d.start \/ (c.start = d.start /\ Size(c) > Size(d))

Ahead(c, d) == IF port = "go" THEN GoBefore(c, d) ELSE Before(c, d)

Overlap(c, d) == c.start < d.end /\ d.start < c.end

\* Something taken is in the way; the Go service compares the end of the last span it
\* took with the start of the next.
Taken(c) ==
    IF port = "go" THEN \E d \in chosen : c.start < d.end ELSE \E d \in chosen : Overlap(c, d)

\* Seeded fault: a span is refused only if its first character is already taken.
VisitChecksStart(c) ==
    /\ phase = "resolve" /\ c \in todo
    /\ \A d \in todo : ~Ahead(d, c)
    /\ todo' = todo \ {c}
    /\ chosen' = IF \E d \in chosen : d.start <= c.start /\ c.start < d.end
                 THEN chosen ELSE chosen \cup {c}
    /\ UNCHANGED <<port, cands, words, phase, spans, cursor, offset, masked, occurrences>>

\* Seeded fault: the candidates are not sorted first.
VisitUnsorted(c) ==
    /\ phase = "resolve" /\ c \in todo
    /\ todo' = todo \ {c}
    /\ chosen' = IF Taken(c) THEN chosen ELSE chosen \cup {c}
    /\ UNCHANGED <<port, cands, words, phase, spans, cursor, offset, masked, occurrences>>

\* One round of the loop; candidates with equal keys are met in detector order.
Visit(c) ==
    /\ phase = "resolve" /\ c \in todo
    /\ \A d \in todo : ~Ahead(d, c)
    /\ todo' = todo \ {c}
    /\ chosen' = IF Taken(c) THEN chosen ELSE chosen \cup {c}
    /\ UNCHANGED <<port, cands, words, phase, spans, cursor, offset, masked, occurrences>>

Resolved ==
    /\ phase = "resolve" /\ todo = {}
    /\ phase' = "decide"
    /\ UNCHANGED <<port, cands, words, todo, chosen, spans, cursor, offset, masked, occurrences>>

-----------------------------------------------------------------------------
(* ContextualPrivacyEngine and PolicyEngine *)

\* Seeded fault: the sentence is not looked for, only the radius counts.
SentenceBoundsRadius(c) == <<Max({0, c.start - Radius}), Min({Len(Text), c.end + Radius})>>

\* sentence_bounds: the sentence of the span, within the radius.
SentenceBounds(c) ==
    <<Max({0, c.start - Radius} \cup {s + 1 : s \in {t \in Stops : t < c.start}}),
      Min({Len(Text), c.end + Radius} \cup {s + 1 : s \in {t \in Stops : t >= c.end}})>>

\* attributed_window: the sentence, clipped at the neighbouring candidates.
AttributedWindow(c) ==
    LET b == SentenceBounds(c)
        others == chosen \ {c} IN
    <<Max({b[1]} \cup {d.end : d \in {o \in others : o.end <= c.start}}),
      Min({b[2]} \cup {d.start : d \in {o \in others : o.start >= c.end}})>>

\* How much longer than a keyword its word may be: two characters, in Go four bytes,
\* which are two letters in Cyrillic and four in ASCII.
MaxTail == IF port = "go" THEN 4 ELSE 2

\* _keyword_hit: at the start of a word or of the window, and at most max_tail more
\* before the word or the window ends.
KeywordHit(k, w) ==
    /\ w[1] <= k.start /\ k.end <= w[2]
    /\ k.start = k.from \/ k.start = w[1]
    /\ Min({k.to, w[2]}) - k.end <= MaxTail

\* count_hits over the text from w[1] to w[2]
Hits(w, list) == \E k \in words : k.list = list /\ KeywordHit(k, w)

WellKnown(c) == c.known /\ port = "python"

\* Python also counts in the address alone, where its first word always begins.
Organizational(c, w) ==
    Hits(w, "organization") \/ (port = "python" /\ Hits(<<c.start, c.end>>, "organization"))

\* Seeded fault: a public marker is believed before the private ones are counted.
PersonalPublicFirst(c) ==
    LET w == AttributedWindow(c) IN
    CASE c.type = "FULL_NAME" -> ~(Hits(w, "public") \/ WellKnown(c))
      [] c.type = "ADDRESS" -> ~Organizational(c, w)
      [] OTHER -> TRUE

\* _decide_full_name and _decide_address: any private keyword masks, else a public one
\* (or a well-known surname) keeps, and without a signal both are masked.  All other
\* types are personal as found.
Personal(c) ==
    LET w == AttributedWindow(c) IN
    CASE c.type = "FULL_NAME" -> Hits(w, "private") \/ ~(Hits(w, "public") \/ WellKnown(c))
      [] c.type = "ADDRESS" -> Hits(w, "home") \/ ~Organizational(c, w)
      [] OTHER -> TRUE

\* is_nearby: at most Window characters between them, and no blank line.
Nearby(c, d) ==
    LET left == IF c.end <= d.end THEN c.end ELSE d.end
        right == IF c.start >= d.start THEN c.start ELSE d.start IN
    /\ right - left <= Window
    /\ ~\E b \in Breaks : left <= b /\ b + 2 <= right

\* applyRelationshipRules of the Go service measures from the start of the first to the
\* end of the second.
GoNearby(pin, card) ==
    LET lo == IF pin.start < card.start THEN pin.start ELSE card.start
        hi == IF pin.start < card.start THEN card.end ELSE pin.end IN
    /\ hi - lo <= Window
    /\ ~\E b \in Breaks : lo <= b /\ b + 2 <= hi

\* Relationship rule: a PIN without a card number nearby is not card data.
Related(c) ==
    c.type = "PIN" => \E d \in chosen :
        /\ d # c /\ d.type = "CARD_NUMBER"
        /\ IF port = "go" THEN GoNearby(c, d) ELSE Nearby(c, d)

ToMask == {c \in chosen : Personal(c) /\ Related(c) /\ (c.type \in MaskTypes \/ port = "go")}

Decide ==
    /\ phase = "decide"
    /\ spans' = ToMask
    /\ phase' = "splice"
    /\ UNCHANGED <<port, cands, words, todo, chosen, cursor, offset, masked, occurrences>>

-----------------------------------------------------------------------------
(* _splice_spans *)

\* text[from:to]
Slice(s, from, to) == SubSeq(s, from + 1, to)

\* Seeded fault: the offset forgets the characters an occurrence replaces.
SpliceDrifts(c) ==
    LET r == Surrogate(c) IN
    /\ phase = "splice" /\ c \in spans
    /\ \A d \in spans : c.start <= d.start
    /\ masked' = masked \o Slice(Text, cursor, c.start) \o r
    /\ occurrences' = occurrences \cup
          {[start |-> c.start, end |-> c.end, original |-> Slice(Text, c.start, c.end),
            mstart |-> c.start + offset, mend |-> c.start + offset + Len(r), masked |-> r]}
    /\ offset' = offset + Len(r)
    /\ cursor' = c.end
    /\ spans' = spans \ {c}
    /\ UNCHANGED <<port, cands, words, phase, todo, chosen>>

\* Seeded fault: the spans are not sorted by their start first.
SpliceUnsorted(c) ==
    LET r == Surrogate(c) IN
    /\ phase = "splice" /\ c \in spans
    /\ masked' = masked \o Slice(Text, cursor, c.start) \o r
    /\ occurrences' = occurrences \cup
          {[start |-> c.start, end |-> c.end, original |-> Slice(Text, c.start, c.end),
            mstart |-> c.start + offset, mend |-> c.start + offset + Len(r), masked |-> r]}
    /\ offset' = offset + Len(r) - (c.end - c.start)
    /\ cursor' = c.end
    /\ spans' = spans \ {c}
    /\ UNCHANGED <<port, cands, words, phase, todo, chosen>>

\* One round of the loop, left to right: both coordinates of the occurrence.
Splice(c) ==
    LET r == Surrogate(c) IN
    /\ phase = "splice" /\ c \in spans
    /\ \A d \in spans : c.start <= d.start
    /\ masked' = masked \o Slice(Text, cursor, c.start) \o r
    /\ occurrences' = occurrences \cup
          {[start |-> c.start, end |-> c.end, original |-> Slice(Text, c.start, c.end),
            mstart |-> c.start + offset, mend |-> c.start + offset + Len(r), masked |-> r]}
    /\ offset' = offset + Len(r) - (c.end - c.start)
    /\ cursor' = c.end
    /\ spans' = spans \ {c}
    /\ UNCHANGED <<port, cands, words, phase, todo, chosen>>

\* Seeded fault: the text behind the last span is not copied.
SplicedWithoutTail ==
    /\ phase = "splice" /\ spans = {}
    /\ phase' = "done"
    /\ UNCHANGED <<port, cands, words, todo, chosen, spans, cursor, offset, masked, occurrences>>

Spliced ==
    /\ phase = "splice" /\ spans = {}
    /\ masked' = masked \o Slice(Text, cursor, Len(Text))
    /\ phase' = "done"
    /\ UNCHANGED <<port, cands, words, todo, chosen, spans, cursor, offset, occurrences>>

Next ==
    \/ \E c \in todo : Visit(c)
    \/ Resolved \/ Decide
    \/ \E c \in spans : Splice(c)
    \/ Spliced

Spec == Init /\ [][Next]_vars

-----------------------------------------------------------------------------
(* process_service._splice over the stored occurrences *)

\* One edit: the payload up to its span, then its new text in place of the span.
SpliceRound(payload, e, acc) ==
    [text |-> acc.text \o Slice(payload, acc.cursor, e.from) \o e.new, cursor |-> e.to]

LastEdit(edits) == CHOOSE e \in edits : \A d \in edits : d.from <= e.from

\* The edits from left to right: the last one is added to what the others built.
Rebuilt(payload, edits) ==
    MapThenFoldSet(LAMBDA e, acc : SpliceRound(payload, e, acc), [text |-> <<>>, cursor |-> 0],
                   LAMBDA e : e, LastEdit, edits)

\* The payload with the span [from, to) of each edit replaced by its new text.
Resplice(payload, edits) ==
    LET end == Rebuilt(payload, edits)
    IN end.text \o Slice(payload, end.cursor, Len(payload))

ApplyMask(payload) ==
    Resplice(payload, {[from |-> o.start, to |-> o.end, new |-> o.masked] : o \in occurrences})

ApplyDemask(payload) ==
    Resplice(payload, {[from |-> o.mstart, to |-> o.mend, new |-> o.original] : o \in occurrences})

-----------------------------------------------------------------------------
(* Properties *)

\* Every variable stays within its type.
TypeOK ==
    /\ port \in {"python", "go"} /\ cands \in Findings /\ words \in Wordings(cands)
    /\ phase \in {"resolve", "decide", "splice", "done"}
    /\ todo \subseteq cands /\ chosen \subseteq cands /\ spans \subseteq chosen
    /\ cursor \in 0..Len(Text) /\ offset \in Int
    /\ masked \in Seq(Atoms)

\* No two taken spans overlap, so no replacement tears another one.
Disjoint == \A c, d \in chosen : Overlap(c, d) => c = d

\* A candidate is given up only for a taken one that covers part of it and does not
\* rank below it (resolve_overlaps: "highest confidence wins, ties broken by the longer
\* (more specific) span, then by earliest start"; in Go "sort by (start, -len), greedy
\* keep non-overlapping").
Covered ==
    \A c \in cands \ todo : c \in chosen \/ \E d \in chosen : Overlap(c, d) /\ ~Ahead(c, d)

\* Nothing but the same sentence lies between a keyword and the candidate: no stop,
\* no other candidate, and no more than the radius.
Attributable(c, k) ==
    LET gap == IF k.end <= c.start THEN k.end..(c.start - 1) ELSE c.end..(k.start - 1) IN
    /\ gap \cap Stops = {}
    /\ \A d \in chosen \ {c} : d.end <= Min({c.start, k.start}) \/ d.start >= Max({c.end, k.end})
    /\ k.start >= c.start - Radius /\ k.end <= c.end + Radius

Weighed == {c \in chosen : c.type \in {"FULL_NAME", "ADDRESS"} \cap MaskTypes}

\* The text says something public of the candidate.
PublicContext(c) ==
    \E k \in words : /\ k.list = (IF c.type = "ADDRESS" THEN "organization" ELSE "public")
                     /\ Attributable(c, k)

\* An address, or a name that is not on the list of well-known surnames, stays in the
\* clear only for a public keyword of its own sentence that belongs to no other candidate
\* (attributed_window: otherwise a word about Ivanov "would ... leak into" the context of
\* Pushkin).
KeptForCause ==
    phase = "splice" => \A c \in Weighed \ ToMask : WellKnown(c) \/ PublicContext(c)

\* A well-known surname does not keep a name by itself (_PUBLIC_FIGURE_SURNAMES: "One
\* signal among several ... never sufficient on its own to KEEP").  _decide_full_name
\* gives it two points and keeps a name with any.
SurnameNotEnough ==
    phase = "splice" => \A c \in Weighed \ ToMask : WellKnown(c) => PublicContext(c)

\* A private keyword in one of its inflected forms masks the name or address it is
\* about, whatever else is said of it (_decide_full_name: "Strong private context always
\* overrides a public-figure hint").
PrivateWins ==
    phase = "splice" =>
        \A c \in Weighed, k \in words :
            /\ k.list = (IF c.type = "ADDRESS" THEN "home" ELSE "private")
            /\ k.start = k.from /\ k.to <= k.end + MaxTail
            /\ Attributable(c, k)
            => c \in ToMask

\* While splicing, the text built so far ends where the offset says it does, and the
\* spans still to come lie behind the cursor.
OffsetExact ==
    phase = "splice" =>
        /\ Len(masked) = cursor + offset
        /\ \A c \in spans : cursor <= c.start

\* An exact retry and an exact demask rebuild the texts from the record's occurrences
\* alone (Occurrence: "an exact retry re-splices replacements into the original payload
\* ...; an exact demask re-splices originals into the masked payload").
RoundTrip ==
    phase = "done" => ApplyMask(Text) = masked /\ ApplyDemask(masked) = Text

\* A masked span leaves none of its characters in the answer, and nothing else is lost.
OnlyMaskedGone ==
    phase = "done" =>
        \A k \in 1..Len(Text) :
            (\E n \in 1..Len(masked) : masked[n] = Text[k])
            <=> ~\E c \in ToMask : c.start < k /\ k <= c.end
=============================================================================

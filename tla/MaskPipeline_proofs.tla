------------------------- MODULE MaskPipeline_proofs -------------------------
(* Proofs about overlap resolution, attribution of keywords, splicing and    *)
(* re-splicing, for every text, every set of candidates, every wording and   *)
(* every replacement.                                                        *)
EXTENDS MaskPipeline, FoldTheorems, SequenceTheorems

\* A candidate that was visited does not rank below one still to be visited.
VisitOrder == \A c \in cands \ todo, d \in todo : ~Ahead(d, c)

\* Nothing is built before the splicing starts.
NotStarted ==
    phase \in {"resolve", "decide"} => cursor = 0 /\ offset = 0 /\ masked = <<>> /\ spans = {}

PipelineInv ==
    /\ TypeOK /\ NotStarted
    /\ chosen \cap todo = {} /\ VisitOrder /\ Disjoint /\ Covered
    /\ OffsetExact

LEMMA CandidateType ==
    ASSUME TypeOK, NEW c \in cands
    PROVE  /\ c \in Candidates
           /\ c.start \in Nat /\ c.end \in Nat /\ c.conf \in Nat
           /\ c.start < c.end /\ c.end <= Len(Text)
  <1>1. c \in Candidates
    BY DEF TypeOK, Candidates
  <1>. QED  BY <1>1, CandidatesAssumption

LEMMA SliceType ==
    ASSUME NEW s \in Seq(Atoms), NEW a \in Nat, NEW b \in Nat, a <= b, b <= Len(s)
    PROVE  Slice(s, a, b) \in Seq(Atoms) /\ Len(Slice(s, a, b)) = b - a
  BY DEF Slice

LEMMA ConcatLength ==
    ASSUME NEW s \in Seq(Atoms), NEW t \in Seq(Atoms), NEW u \in Seq(Atoms)
    PROVE  s \o t \o u \in Seq(Atoms) /\ Len(s \o t \o u) = Len(s) + Len(t) + Len(u)
  <1>1. s \o t \in Seq(Atoms) /\ Len(s \o t) = Len(s) + Len(t)
    OBVIOUS
  <1>. QED  BY <1>1

LEMMA PipelineInit == Init => PipelineInv
  <1>. SUFFICES ASSUME Init PROVE PipelineInv
    OBVIOUS
  <1>1. 0 \in 0..Len(Text)
    BY TextAssumption
  <1>2. cands \in Findings
    <2>1. ASSUME NEW r \in Reports PROVE UNION r \in DetectAll(r)
      BY DEF DetectAll
    <2>2. {UNION r : r \in Reports} \subseteq Findings
      BY <2>1 DEF Findings
    <2>. QED  BY <2>2 DEF Init
  <1>3. TypeOK
    BY <1>1, <1>2 DEF Init, TypeOK
  <1>. QED
    BY <1>3 DEF Init, PipelineInv, NotStarted, VisitOrder, Disjoint, Covered, OffsetExact

\* The Go service's comparison with one end is a test for overlaps, because the spans
\* are visited from the left.
LEMMA TakenOverlaps ==
    ASSUME TypeOK, NEW c \in cands, \A d \in chosen : ~Ahead(c, d)
    PROVE  Taken(c) <=> \E d \in chosen : Overlap(c, d)
  <1>1. CASE port # "go"
    BY <1>1 DEF Taken
  <1>2. CASE port = "go"
    <2>1. ASSUME NEW d \in chosen
          PROVE  c.start < d.end <=> Overlap(c, d)
      <3>1. ~GoBefore(c, d)
        BY <1>2 DEF Ahead
      <3>2. /\ c.start \in Nat /\ c.end \in Nat /\ c.start < c.end
            /\ d.start \in Nat /\ d.end \in Nat /\ d.start < d.end
        BY CandidateType DEF TypeOK
      <3>. QED  BY <3>1, <3>2 DEF GoBefore, Overlap
    <2>. QED  BY <1>2, <2>1 DEF Taken
  <1>. QED  BY <1>1, <1>2

LEMMA VisitStep ==
    ASSUME PipelineInv, NEW c \in todo, Visit(c)
    PROVE  PipelineInv'
  <1>1. /\ phase = "resolve" /\ todo' = todo \ {c}
        /\ UNCHANGED <<port, cands, words, phase, spans, cursor, offset, masked, occurrences>>
        /\ c \in cands /\ chosen \subseteq cands /\ todo \subseteq cands
    BY DEF Visit, PipelineInv, TypeOK
  <1>2. TypeOK' /\ NotStarted' /\ OffsetExact'
    BY <1>1 DEF Visit, PipelineInv, TypeOK, NotStarted, OffsetExact
  <1>3. (chosen \cap todo = {})'
    BY <1>1 DEF Visit, PipelineInv
  <1>4. VisitOrder'
    BY <1>1 DEF Visit, PipelineInv, VisitOrder, Ahead
  <1>5. \A d \in chosen : ~Ahead(c, d)
    BY <1>1 DEF PipelineInv, VisitOrder
  <1>6. Taken(c) <=> \E d \in chosen : Overlap(c, d)
    BY <1>1, <1>5, TakenOverlaps DEF PipelineInv
  <1>7. CASE \E d \in chosen : Overlap(c, d)
    <2>1. chosen' = chosen
      BY <1>6, <1>7 DEF Visit
    <2>2. Covered'
      BY <1>1, <1>5, <1>7, <2>1 DEF PipelineInv, Covered, Ahead
    <2>3. Disjoint'
      BY <2>1 DEF PipelineInv, Disjoint
    <2>. QED  BY <1>2, <1>3, <1>4, <2>2, <2>3 DEF PipelineInv
  <1>8. CASE ~\E d \in chosen : Overlap(c, d)
    <2>1. chosen' = chosen \cup {c}
      BY <1>6, <1>8 DEF Visit
    <2>2. Covered'
      BY <1>1, <2>1 DEF PipelineInv, Covered, Ahead
    <2>3. \A d \in chosen : ~Overlap(d, c)
      BY <1>8 DEF Overlap
    <2>4. Disjoint'
      BY <1>8, <2>1, <2>3 DEF PipelineInv, Disjoint
    <2>. QED  BY <1>2, <1>3, <1>4, <2>2, <2>4 DEF PipelineInv
  <1>. QED  BY <1>7, <1>8

\* Because the spans are disjoint, what is left lies behind the end of the leftmost one,
\* and the offset is the growth of the text so far.
LEMMA SpliceStep ==
    ASSUME PipelineInv, NEW c \in spans, Splice(c)
    PROVE  PipelineInv'
  <1>. DEFINE r == Surrogate(c)
  <1>1. /\ phase = "splice" /\ c \in chosen /\ c \in cands
        /\ offset' = offset + Len(r) - (c.end - c.start)
        /\ cursor' = c.end /\ spans' = spans \ {c}
        /\ masked' = masked \o Slice(Text, cursor, c.start) \o r
        /\ UNCHANGED <<port, cands, words, phase, todo, chosen>>
    BY DEF Splice, PipelineInv, TypeOK
  <1>2. /\ c.start \in Nat /\ c.end \in Nat /\ c.start < c.end /\ c.end <= Len(Text)
        /\ r \in Seq(Atoms)
    BY <1>1, CandidateType, TextAssumption DEF PipelineInv
  <1>3. /\ cursor \in Nat /\ offset \in Int /\ masked \in Seq(Atoms) /\ Len(Text) \in Nat
        /\ cursor <= c.start /\ Len(masked) = cursor + offset
    BY <1>1, TextAssumption DEF PipelineInv, TypeOK, OffsetExact
  <1>4. /\ Slice(Text, cursor, c.start) \in Seq(Atoms)
        /\ Len(Slice(Text, cursor, c.start)) = c.start - cursor
    <2>1. Text \in Seq(Atoms) /\ c.start <= Len(Text)
      BY <1>2, <1>3, TextAssumption
    <2>. QED  BY <1>2, <1>3, <2>1, SliceType
  <1>. HIDE DEF r
  <1>5. /\ masked' \in Seq(Atoms)
        /\ Len(masked') = Len(masked) + (c.start - cursor) + Len(r)
    <2>. DEFINE gap == Slice(Text, cursor, c.start)
    <2>1. masked' = masked \o gap \o r /\ gap \in Seq(Atoms) /\ Len(gap) = c.start - cursor
      BY <1>1, <1>4
    <2>. HIDE DEF gap
    <2>2. /\ masked \o gap \o r \in Seq(Atoms)
          /\ Len(masked \o gap \o r) = Len(masked) + Len(gap) + Len(r)
      BY <1>2, <1>3, <2>1, ConcatLength
    <2>. QED  BY <2>1, <2>2
  <1>6. Len(masked') = cursor' + offset'
    <2>1. Len(r) \in Nat
      BY <1>2
    <2>2. cursor' = c.end /\ offset' = offset + Len(r) - (c.end - c.start)
      BY <1>1
    <2>3. \A a, b, i, e, l \in Int : (a + b) + (i - a) + l = e + (b + l - (e - i))
      OBVIOUS
    <2>4. (cursor + offset) + (c.start - cursor) + Len(r)
              = c.end + (offset + Len(r) - (c.end - c.start))
      BY <1>2, <1>3, <2>1, <2>3
    <2>. QED  BY <1>3, <1>5, <2>2, <2>4, Zenon
  <1>7. \A d \in spans' : cursor' <= d.start
    <2>1. ASSUME NEW d \in spans, d # c
          PROVE  c.end <= d.start
      <3>1. d \in chosen /\ d \in cands /\ c.start <= d.start
        BY DEF Splice, PipelineInv, TypeOK
      <3>2. ~Overlap(c, d)
        BY <1>1, <2>1, <3>1 DEF PipelineInv, Disjoint
      <3>3. d.start \in Nat /\ d.end \in Nat /\ d.start < d.end
        BY <3>1, CandidateType DEF PipelineInv
      <3>. QED  BY <1>2, <3>1, <3>2, <3>3 DEF Overlap
    <2>. QED  BY <1>1, <2>1
  <1>8. TypeOK'
    <2>1. cursor' \in 0..Len(Text) /\ offset' \in Int
      BY <1>1, <1>2, <1>3
    <2>. QED  BY <1>1, <1>5, <2>1 DEF PipelineInv, TypeOK
  <1>9. OffsetExact'
    BY <1>6, <1>7 DEF OffsetExact
  <1>10. NotStarted' /\ (chosen \cap todo = {})' /\ VisitOrder' /\ Disjoint' /\ Covered'
    BY <1>1 DEF PipelineInv, NotStarted, VisitOrder, Disjoint, Covered, Ahead
  <1>. QED  BY <1>8, <1>9, <1>10 DEF PipelineInv

LEMMA DecideStep ==
    ASSUME PipelineInv, Decide
    PROVE  PipelineInv'
  <1>1. /\ spans' \subseteq chosen /\ phase' = "splice"
        /\ cursor = 0 /\ offset = 0 /\ masked = <<>>
        /\ UNCHANGED <<port, cands, words, todo, chosen, cursor, offset, masked, occurrences>>
    BY DEF Decide, ToMask, PipelineInv, NotStarted
  <1>2. \A c \in spans' : 0 <= c.start
    BY <1>1, CandidateType DEF PipelineInv, TypeOK
  <1>3. OffsetExact'
    BY <1>1, <1>2 DEF OffsetExact
  <1>4. TypeOK'
    BY <1>1 DEF PipelineInv, TypeOK
  <1>. QED
    BY <1>1, <1>3, <1>4 DEF PipelineInv, NotStarted, VisitOrder, Disjoint, Covered, Ahead

LEMMA PipelineStep == PipelineInv /\ [Next]_vars => PipelineInv'
  <1>. SUFFICES ASSUME PipelineInv, [Next]_vars
                PROVE  PipelineInv'
    OBVIOUS
  <1>1. CASE Resolved
    BY <1>1 DEF Resolved, PipelineInv, TypeOK, NotStarted, VisitOrder, Disjoint, Covered, Ahead, OffsetExact
  <1>2. CASE Spliced
    <2>1. /\ masked \in Seq(Atoms) /\ cursor \in Nat /\ cursor <= Len(Text) /\ Len(Text) \in Nat
          /\ Text \in Seq(Atoms)
      BY TextAssumption DEF PipelineInv, TypeOK
    <2>2. Slice(Text, cursor, Len(Text)) \in Seq(Atoms)
      BY <2>1, SliceType
    <2>3. masked' \in Seq(Atoms)
      BY <1>2, <2>1, <2>2 DEF Spliced
    <2>4. TypeOK'
      BY <1>2, <2>3 DEF Spliced, PipelineInv, TypeOK
    <2>. QED  BY <1>2, <2>4
         DEF Spliced, PipelineInv, NotStarted, VisitOrder, Disjoint, Covered, Ahead, OffsetExact
  <1>3. CASE UNCHANGED vars
    BY <1>3 DEF vars, PipelineInv, TypeOK, NotStarted, VisitOrder, Disjoint, Covered, Ahead, OffsetExact
  <1>. QED  BY <1>1, <1>2, <1>3, VisitStep, SpliceStep, DecideStep DEF Next

\* resolve_overlaps never takes two overlapping spans.
THEOREM ResolutionDisjoint == Spec => []Disjoint
  <1>1. PipelineInv => Disjoint
    BY DEF PipelineInv
  <1>. QED  BY <1>1, PipelineInit, PipelineStep, PTL DEF Spec

\* resolve_overlaps gives up a candidate only for an overlapping one that ranks no lower.
THEOREM ResolutionCovers == Spec => []Covered
  <1>1. PipelineInv => Covered
    BY DEF PipelineInv
  <1>. QED  BY <1>1, PipelineInit, PipelineStep, PTL DEF Spec

\* _splice_spans stores the coordinates its output really has.
THEOREM SpliceOffsets == Spec => []OffsetExact
  <1>1. PipelineInv => OffsetExact
    BY DEF PipelineInv
  <1>. QED  BY <1>1, PipelineInit, PipelineStep, PTL DEF Spec

-----------------------------------------------------------------------------
(* Context *)

LEMMA PairFinite ==
    ASSUME NEW a, NEW b
    PROVE  IsFiniteSet({a, b})
  <1>1. {a, b} = {a} \cup {b} /\ IsFiniteSet({a}) /\ IsFiniteSet({b})
    BY FS_Singleton
  <1>. QED  BY <1>1, FS_Union

\* Where the window of a candidate begins: behind the last stop and the last neighbour
\* in front of it, and within the radius.
LEMMA LeftEdge ==
    ASSUME PipelineInv, NEW c \in chosen
    PROVE  /\ AttributedWindow(c)[1] \in Int
           /\ \A x \in Int : AttributedWindow(c)[1] <= x <=>
                /\ 0 <= x /\ c.start - Radius <= x
                /\ \A s \in Stops : s < c.start => s + 1 <= x
                /\ \A d \in chosen \ {c} : d.end <= c.start => d.end <= x
  <1>. DEFINE A == {t \in Stops : t < c.start}
              B == {0, c.start - Radius} \cup {s + 1 : s \in A}
              D == {o \in chosen \ {c} : o.end <= c.start}
              E == {Max(B)} \cup {d.end : d \in D}
  <1>1. /\ c.start \in Nat /\ Radius \in Nat /\ Stops \subseteq Nat
        /\ \A d \in chosen : d.end \in Nat
    BY CandidateType, WordsAssumption, TextAssumption DEF PipelineInv, TypeOK
  <1>2. IsFiniteSet(A) /\ IsFiniteSet(D)
    <2>1. IsFiniteSet(0..(Len(Text) - 1)) /\ IsFiniteSet(cands)
      BY FS_Interval, WordsAssumption, TextAssumption DEF PipelineInv, TypeOK
    <2>2. A \subseteq 0..(Len(Text) - 1) /\ D \subseteq cands
      BY WordsAssumption DEF PipelineInv, TypeOK
    <2>. QED  BY <2>1, <2>2, FS_Subset
  <1>3. IsFiniteSet({s + 1 : s \in A}) /\ IsFiniteSet({d.end : d \in D})
    <2>. DEFINE f == [s \in A |-> s + 1]
                g == [d \in D |-> d.end]
    <2>1. {s + 1 : s \in A} = {f[s] : s \in A} /\ {d.end : d \in D} = {g[d] : d \in D}
      OBVIOUS
    <2>. HIDE DEF f, g, A, D
    <2>2. IsFiniteSet({f[s] : s \in A}) /\ IsFiniteSet({g[d] : d \in D})
      BY <1>2, ImageFinite
    <2>. QED  BY <2>1, <2>2
  <1>4. B \in SUBSET Int /\ IsFiniteSet(B) /\ B # {}
    <2>1. B \in SUBSET Int /\ B # {}
      BY <1>1
    <2>2. IsFiniteSet({0, c.start - Radius})
      BY PairFinite
    <2>. QED  BY <1>3, <2>1, <2>2, FS_Union
  <1>5. Max(B) \in Int /\ \A x \in Int : Max(B) <= x <=> \A y \in B : y <= x
    <2>. HIDE DEF B
    <2>. QED  BY <1>4, MaxBelow
  <1>6. E \in SUBSET Int /\ IsFiniteSet(E) /\ E # {}
    <2>. HIDE DEF B
    <2>1. E \in SUBSET Int /\ E # {}
      BY <1>1, <1>5
    <2>. QED  BY <1>3, <2>1, FS_Singleton, FS_Union
  <1>7. Max(E) \in Int /\ \A x \in Int : Max(E) <= x <=> \A y \in E : y <= x
    <2>. HIDE DEF E
    <2>. QED  BY <1>6, MaxBelow
  <1>8. AttributedWindow(c)[1] = Max(E)
    BY DEF AttributedWindow, SentenceBounds
  <1>9. ASSUME NEW x \in Int
        PROVE  Max(E) <= x <=>
                /\ 0 <= x /\ c.start - Radius <= x
                /\ \A s \in Stops : s < c.start => s + 1 <= x
                /\ \A d \in chosen \ {c} : d.end <= c.start => d.end <= x
    <2>1. Max(E) <= x <=> Max(B) <= x /\ \A d \in D : d.end <= x
      <3>. HIDE DEF B, D
      <3>1. (\A y \in E : y <= x) <=> Max(B) <= x /\ \A d \in D : d.end <= x
        OBVIOUS
      <3>. QED  BY <1>7, <3>1
    <2>2. Max(B) <= x <=> 0 <= x /\ c.start - Radius <= x /\ \A s \in A : s + 1 <= x
      <3>1. (\A y \in B : y <= x) <=> 0 <= x /\ c.start - Radius <= x /\ \A s \in A : s + 1 <= x
        <4>. HIDE DEF A
        <4>. QED  OBVIOUS
      <3>. QED  BY <1>5, <3>1
    <2>. QED  BY <2>1, <2>2
  <1>. QED  BY <1>7, <1>8, <1>9

\* Where it ends: with the first stop or before the first neighbour behind it.
LEMMA RightEdge ==
    ASSUME PipelineInv, NEW c \in chosen
    PROVE  /\ AttributedWindow(c)[2] \in Int
           /\ \A x \in Int : x <= AttributedWindow(c)[2] <=>
                /\ x <= Len(Text) /\ x <= c.end + Radius
                /\ \A s \in Stops : s >= c.end => x <= s + 1
                /\ \A d \in chosen \ {c} : d.start >= c.end => x <= d.start
  <1>. DEFINE A == {t \in Stops : t >= c.end}
              B == {Len(Text), c.end + Radius} \cup {s + 1 : s \in A}
              D == {o \in chosen \ {c} : o.start >= c.end}
              E == {Min(B)} \cup {d.start : d \in D}
  <1>1. /\ c.end \in Nat /\ Radius \in Nat /\ Stops \subseteq Nat /\ Len(Text) \in Nat
        /\ \A d \in chosen : d.start \in Nat
    BY CandidateType, WordsAssumption, TextAssumption DEF PipelineInv, TypeOK
  <1>2. IsFiniteSet(A) /\ IsFiniteSet(D)
    <2>1. IsFiniteSet(0..(Len(Text) - 1)) /\ IsFiniteSet(cands)
      BY FS_Interval, WordsAssumption, TextAssumption DEF PipelineInv, TypeOK
    <2>2. A \subseteq 0..(Len(Text) - 1) /\ D \subseteq cands
      BY WordsAssumption DEF PipelineInv, TypeOK
    <2>. QED  BY <2>1, <2>2, FS_Subset
  <1>3. IsFiniteSet({s + 1 : s \in A}) /\ IsFiniteSet({d.start : d \in D})
    <2>. DEFINE f == [s \in A |-> s + 1]
                g == [d \in D |-> d.start]
    <2>1. {s + 1 : s \in A} = {f[s] : s \in A} /\ {d.start : d \in D} = {g[d] : d \in D}
      OBVIOUS
    <2>. HIDE DEF f, g, A, D
    <2>2. IsFiniteSet({f[s] : s \in A}) /\ IsFiniteSet({g[d] : d \in D})
      BY <1>2, ImageFinite
    <2>. QED  BY <2>1, <2>2
  <1>4. B \in SUBSET Int /\ IsFiniteSet(B) /\ B # {}
    <2>1. B \in SUBSET Int /\ B # {}
      BY <1>1
    <2>2. IsFiniteSet({Len(Text), c.end + Radius})
      BY PairFinite
    <2>. QED  BY <1>3, <2>1, <2>2, FS_Union
  <1>5. Min(B) \in Int /\ \A x \in Int : x <= Min(B) <=> \A y \in B : x <= y
    <2>. HIDE DEF B
    <2>. QED  BY <1>4, MinAbove
  <1>6. E \in SUBSET Int /\ IsFiniteSet(E) /\ E # {}
    <2>. HIDE DEF B
    <2>1. E \in SUBSET Int /\ E # {}
      BY <1>1, <1>5
    <2>. QED  BY <1>3, <2>1, FS_Singleton, FS_Union
  <1>7. Min(E) \in Int /\ \A x \in Int : x <= Min(E) <=> \A y \in E : x <= y
    <2>. HIDE DEF E
    <2>. QED  BY <1>6, MinAbove
  <1>8. AttributedWindow(c)[2] = Min(E)
    BY DEF AttributedWindow, SentenceBounds
  <1>9. ASSUME NEW x \in Int
        PROVE  x <= Min(E) <=>
                /\ x <= Len(Text) /\ x <= c.end + Radius
                /\ \A s \in Stops : s >= c.end => x <= s + 1
                /\ \A d \in chosen \ {c} : d.start >= c.end => x <= d.start
    <2>1. x <= Min(E) <=> x <= Min(B) /\ \A d \in D : x <= d.start
      <3>. HIDE DEF B, D
      <3>1. (\A y \in E : x <= y) <=> x <= Min(B) /\ \A d \in D : x <= d.start
        OBVIOUS
      <3>. QED  BY <1>7, <3>1
    <2>2. x <= Min(B) <=> x <= Len(Text) /\ x <= c.end + Radius /\ \A s \in A : x <= s + 1
      <3>1. (\A y \in B : x <= y) <=> x <= Len(Text) /\ x <= c.end + Radius /\ \A s \in A : x <= s + 1
        <4>. HIDE DEF A
        <4>. QED  OBVIOUS
      <3>. QED  BY <1>5, <3>1
    <2>. QED  BY <2>1, <2>2
  <1>. QED  BY <1>7, <1>8, <1>9

LEMMA KeywordType ==
    ASSUME PipelineInv, NEW k \in words
    PROVE  /\ k.start \in Nat /\ k.end \in Nat /\ k.from \in Nat /\ k.to \in Nat
           /\ k.start < k.end /\ k.end <= Len(Text)
           /\ \A s \in Stops : s < k.start \/ s >= k.end
  <1>1. words \in Wordings(cands) /\ cands \in Findings
    BY DEF PipelineInv, TypeOK
  <1>2. /\ {k.start, k.end, k.from, k.to} \subseteq Nat
        /\ k.start < k.end /\ k.end <= Len(Text)
        /\ Stops \cap k.start..(k.end - 1) = {}
    BY <1>1, WordsAssumption
  <1>3. Stops \subseteq Int
    BY WordsAssumption, TextAssumption
  <1>. QED  BY <1>2, <1>3

\* The two ends of an unordered pair.
LEMMA PairEnds ==
    ASSUME NEW a \in Int, NEW b \in Int
    PROVE  /\ Min({a, b}) = IF a <= b THEN a ELSE b
           /\ Max({a, b}) = IF a >= b THEN a ELSE b
  <1>1. {a, b} \in SUBSET Int /\ {a, b} # {} /\ IsFiniteSet({a, b})
    BY PairFinite
  <1>2. Min({a, b}) \in {a, b} /\ \A y \in {a, b} : Min({a, b}) <= y
    BY <1>1, MinOf
  <1>3. Max({a, b}) \in {a, b} /\ \A y \in {a, b} : Max({a, b}) >= y
    BY <1>1, MaxOf
  <1>. QED  BY <1>2, <1>3

\* Taken candidates lie on one side of each other.
LEMMA Apart ==
    ASSUME PipelineInv, NEW c \in chosen, NEW d \in chosen \ {c}
    PROVE  d.end <= c.start \/ d.start >= c.end
  <1>1. /\ c.start \in Nat /\ c.end \in Nat /\ c.start < c.end
        /\ d.start \in Nat /\ d.end \in Nat /\ d.start < d.end
    BY CandidateType DEF PipelineInv, TypeOK
  <1>. QED  BY <1>1 DEF PipelineInv, Disjoint, Overlap

\* A keyword lies in the window exactly if it is attributable to the candidate.
LEMMA WindowIsAttributable ==
    ASSUME PipelineInv, NEW c \in chosen, NEW k \in words
    PROVE  (AttributedWindow(c)[1] <= k.start /\ k.end <= AttributedWindow(c)[2])
               <=> Attributable(c, k)
  <1>1. /\ c.start \in Nat /\ c.end \in Nat /\ c.start < c.end /\ Radius \in Nat
        /\ Stops \subseteq Int /\ Len(Text) \in Nat
    BY CandidateType, WordsAssumption, TextAssumption DEF PipelineInv, TypeOK
  <1>2. \A d \in chosen : d.start \in Nat /\ d.end \in Nat /\ d.start < d.end
    BY CandidateType DEF PipelineInv, TypeOK
  <1>3. /\ k.start \in Nat /\ k.end \in Nat /\ k.start < k.end /\ k.end <= Len(Text)
        /\ \A s \in Stops : s < k.start \/ s >= k.end
    BY KeywordType
  <1>. DEFINE gap == IF k.end <= c.start THEN k.end..(c.start - 1) ELSE c.end..(k.start - 1)
  <1>4. /\ Min({c.start, k.start}) = IF c.start <= k.start THEN c.start ELSE k.start
        /\ Max({c.end, k.end}) = IF c.end >= k.end THEN c.end ELSE k.end
    <2>1. c.start \in Int /\ c.end \in Int /\ k.start \in Int /\ k.end \in Int
      BY <1>1, <1>3
    <2>2. Min({c.start, k.start}) = IF c.start <= k.start THEN c.start ELSE k.start
      BY <2>1, PairEnds
    <2>3. Max({c.end, k.end}) = IF c.end >= k.end THEN c.end ELSE k.end
      BY <2>1, PairEnds
    <2>. QED  BY <2>2, <2>3
  <1>5. Attributable(c, k) <=>
          /\ \A s \in Stops : s \notin gap
          /\ \A d \in chosen \ {c} : \/ d.end <= c.start /\ d.end <= k.start
                                     \/ d.start >= c.end /\ d.start >= k.end
          /\ k.start >= c.start - Radius /\ k.end <= c.end + Radius
    <2>1. ASSUME NEW d \in chosen
          PROVE  /\ d.end <= Min({c.start, k.start}) <=> d.end <= c.start /\ d.end <= k.start
                 /\ d.start >= Max({c.end, k.end}) <=> d.start >= c.end /\ d.start >= k.end
      BY <1>1, <1>2, <1>3, <1>4
    <2>. QED  BY <2>1 DEF Attributable
  <1>6. (\A s \in Stops : s \notin gap) <=>
          \A s \in Stops : (s < c.start => s + 1 <= k.start) /\ (s >= c.end => k.end <= s + 1)
    <2>1. ASSUME NEW s \in Stops
          PROVE  s \notin gap <=>
                    (s < c.start => s + 1 <= k.start) /\ (s >= c.end => k.end <= s + 1)
      <3>1. s \in Int /\ (s < k.start \/ s >= k.end)
        BY <1>1, <1>3
      <3>2. CASE k.end <= c.start
        BY <1>1, <1>3, <3>1, <3>2
      <3>3. CASE ~(k.end <= c.start)
        BY <1>1, <1>3, <3>1, <3>3
      <3>. QED  BY <3>2, <3>3
    <2>. HIDE DEF gap
    <2>. QED  BY <2>1
  <1>7. (\A d \in chosen \ {c} : \/ d.end <= c.start /\ d.end <= k.start
                                 \/ d.start >= c.end /\ d.start >= k.end) <=>
          \A d \in chosen \ {c} : /\ d.end <= c.start => d.end <= k.start
                                  /\ d.start >= c.end => k.end <= d.start
    BY <1>1, <1>2, <1>3, Apart
  <1>8. AttributedWindow(c)[1] <= k.start <=>
                /\ 0 <= k.start /\ c.start - Radius <= k.start
                /\ \A s \in Stops : s < c.start => s + 1 <= k.start
                /\ \A d \in chosen \ {c} : d.end <= c.start => d.end <= k.start
    BY <1>3, LeftEdge
  <1>9. k.end <= AttributedWindow(c)[2] <=>
                /\ k.end <= Len(Text) /\ k.end <= c.end + Radius
                /\ \A s \in Stops : s >= c.end => k.end <= s + 1
                /\ \A d \in chosen \ {c} : d.start >= c.end => k.end <= d.start
    BY <1>3, RightEdge
  <1>. HIDE DEF gap
  <1>. QED  BY <1>1, <1>3, <1>5, <1>6, <1>7, <1>8, <1>9

\* A keyword inside a candidate is attributable to it.
LEMMA OwnWords ==
    ASSUME PipelineInv, NEW c \in chosen, NEW k \in words, c.start <= k.start, k.end <= c.end
    PROVE  Attributable(c, k)
  <1>1. /\ c.start \in Nat /\ c.end \in Nat /\ c.start < c.end /\ Radius \in Nat
        /\ k.start \in Nat /\ k.end \in Nat /\ k.start < k.end
    BY CandidateType, KeywordType, WordsAssumption DEF PipelineInv, TypeOK
  <1>2. Min({c.start, k.start}) = c.start /\ Max({c.end, k.end}) = c.end
    <2>1. c.start \in Int /\ c.end \in Int /\ k.start \in Int /\ k.end \in Int
      BY <1>1
    <2>2. Min({c.start, k.start}) = c.start
      BY <2>1, PairEnds
    <2>3. Max({c.end, k.end}) = c.end
      BY <2>1, PairEnds
    <2>. QED  BY <2>2, <2>3
  <1>3. ~(k.end <= c.start) /\ c.end..(k.start - 1) = {}
    BY <1>1
  <1>4. k.start >= c.start - Radius /\ k.end <= c.end + Radius
    BY <1>1
  <1>5. \A d \in chosen \ {c} : d.end <= c.start \/ d.start >= c.end
    BY Apart
  <1>6. \A d \in chosen \ {c} : \/ d.end <= Min({c.start, k.start})
                                \/ d.start >= Max({c.end, k.end})
    BY <1>2, <1>5
  <1>. QED  BY <1>3, <1>4, <1>6 DEF Attributable

\* In every text and for every set of candidates, an address, or a name without a
\* well-known surname, is left in the clear only for a public keyword that its own
\* sentence says of it and of no other candidate.
THEOREM ClearOnlyForCause == Spec => []KeptForCause
  <1>1. PipelineInv => KeptForCause
    <2>. SUFFICES ASSUME PipelineInv, NEW c \in Weighed \ ToMask, ~WellKnown(c)
                  PROVE  PublicContext(c)
      BY DEF KeptForCause
    <2>1. c \in chosen /\ c.type \in {"FULL_NAME", "ADDRESS"} /\ c.type \in MaskTypes
      BY DEF Weighed
    <2>2. ~Personal(c)
      BY <2>1 DEF ToMask, Related
    <2>. DEFINE w == AttributedWindow(c)
    <2>3. CASE c.type = "FULL_NAME"
      <3>1. Hits(w, "public")
        BY <2>2, <2>3 DEF Personal
      <3>2. PICK k \in words : k.list = "public" /\ w[1] <= k.start /\ k.end <= w[2]
        BY <3>1 DEF Hits, KeywordHit
      <3>3. Attributable(c, k)
        BY <2>1, <3>2, WindowIsAttributable
      <3>. QED  BY <2>3, <3>2, <3>3 DEF PublicContext
    <2>4. CASE c.type = "ADDRESS"
      <3>1. Hits(w, "organization") \/ Hits(<<c.start, c.end>>, "organization")
        BY <2>2, <2>4 DEF Personal, Organizational
      <3>2. PICK k \in words : /\ k.list = "organization"
                              /\ \/ w[1] <= k.start /\ k.end <= w[2]
                                 \/ c.start <= k.start /\ k.end <= c.end
        BY <3>1 DEF Hits, KeywordHit
      <3>3. Attributable(c, k)
        BY <2>1, <3>2, WindowIsAttributable, OwnWords
      <3>. QED  BY <2>4, <3>2, <3>3 DEF PublicContext
    <2>. QED  BY <2>1, <2>3, <2>4
  <1>. QED  BY <1>1, PipelineInit, PipelineStep, PTL DEF Spec

\* In every text, a private keyword that belongs to a name or an address masks it,
\* whatever public keywords belong to it too.
THEOREM PrivateAlwaysWins == Spec => []PrivateWins
  <1>1. PipelineInv => PrivateWins
    <2>. SUFFICES ASSUME PipelineInv, NEW c \in Weighed, NEW k \in words,
                         k.list = (IF c.type = "ADDRESS" THEN "home" ELSE "private"),
                         k.start = k.from, k.to <= k.end + MaxTail, Attributable(c, k)
                  PROVE  c \in ToMask
      BY DEF PrivateWins
    <2>1. c \in chosen /\ c.type \in {"FULL_NAME", "ADDRESS"} /\ c.type \in MaskTypes
      BY DEF Weighed
    <2>. DEFINE w == AttributedWindow(c)
    <2>2. w[1] <= k.start /\ k.end <= w[2]
      BY <2>1, WindowIsAttributable
    <2>3. Min({k.to, w[2]}) - k.end <= MaxTail
      <3>1. w[2] \in Int /\ k.to \in Nat /\ k.end \in Nat /\ MaxTail \in Nat
        BY <2>1, RightEdge, KeywordType DEF MaxTail
      <3>. HIDE DEF w
      <3>2. Min({k.to, w[2]}) = IF k.to <= w[2] THEN k.to ELSE w[2]
        BY <3>1, PairEnds
      <3>. QED  BY <3>1, <3>2
    <2>4. Hits(w, k.list)
      BY <2>2, <2>3 DEF Hits, KeywordHit
    <2>5. Personal(c) /\ Related(c)
      BY <2>1, <2>4 DEF Personal, Related
    <2>. QED  BY <2>1, <2>5 DEF ToMask
  <1>. QED  BY <1>1, PipelineInit, PipelineStep, PTL DEF Spec

-----------------------------------------------------------------------------
(* What is left of the text *)

Hidden(k) == \E c \in ToMask : c.start < k /\ k <= c.end

\* While splicing, the text up to the cursor is there but for the masked spans, which
\* all lie on one side of the cursor.
VisibleInv ==
    /\ phase \in {"splice", "done"} =>
        /\ spans \subseteq ToMask
        /\ \A c \in ToMask \ spans : c.end <= cursor
    /\ phase = "splice" =>
        \A k \in 1..Len(Text) : Text[k] \in Range(masked) <=> k <= cursor /\ ~Hidden(k)
    /\ phase = "done" =>
        \A k \in 1..Len(Text) : Text[k] \in Range(masked) <=> ~Hidden(k)

LEMMA RangeOfSlice ==
    ASSUME NEW a \in Nat, NEW b \in Nat, a <= b, b <= Len(Text), NEW k \in 1..Len(Text)
    PROVE  Text[k] \in Range(Slice(Text, a, b)) <=> a < k /\ k <= b
  <1>. DEFINE t == Slice(Text, a, b)
  <1>1. Text \in Seq(Atoms) /\ DOMAIN Text = 1..Len(Text) /\ Len(Text) \in Nat
    BY TextAssumption
  <1>2. t \in Seq(Atoms) /\ Len(t) = b - a
    BY <1>1, SliceType
  <1>3. \A i \in 1..(b - a) : t[i] = Text[a + i]
    BY <1>1 DEF Slice
  <1>4. Range(t) = {t[i] : i \in 1..(b - a)}
    BY <1>2, RangeEquality
  <1>. HIDE DEF t
  <1>5. ASSUME Text[k] \in Range(t) PROVE a < k /\ k <= b
    <2>1. PICK i \in 1..(b - a) : Text[k] = Text[a + i]
      BY <1>3, <1>4, <1>5
    <2>2. a + i \in DOMAIN Text /\ k \in DOMAIN Text
      BY <1>1
    <2>3. k = a + i
      BY <2>1, <2>2, AtomsAssumption
    <2>. QED  BY <2>3
  <1>6. ASSUME a < k, k <= b PROVE Text[k] \in Range(t)
    <2>1. k - a \in 1..(b - a) /\ a + (k - a) = k
      BY <1>6
    <2>2. t[k - a] = Text[k]
      BY <1>3, <2>1
    <2>. QED  BY <1>4, <2>1, <2>2
  <1>. QED  BY <1>5, <1>6 DEF t

\* A replacement holds no atom of the text.
LEMMA RangeOfSurrogate ==
    ASSUME NEW c \in Candidates, NEW k \in 1..Len(Text)
    PROVE  Text[k] \notin Range(Surrogate(c))
  <1>1. k \in DOMAIN Text
    BY TextAssumption
  <1>. QED  BY <1>1, AtomsAssumption DEF Range

LEMMA ToMaskFrame ==
    ASSUME UNCHANGED <<port, words, chosen>>
    PROVE  ToMask' = ToMask /\ \A k : Hidden(k)' <=> Hidden(k)
  <1>1. ToMask' = ToMask
    BY DEF ToMask, Personal, Organizational, Related, Hits, AttributedWindow, WellKnown,
           SentenceBounds, KeywordHit, MaxTail, Nearby, GoNearby
  <1>. QED  BY <1>1 DEF Hidden

LEMMA VisibleSplice ==
    ASSUME PipelineInv, VisibleInv, NEW c \in spans, Splice(c)
    PROVE  VisibleInv'
  <1>. DEFINE r == Surrogate(c)
              gap == Slice(Text, cursor, c.start)
  <1>1. /\ phase = "splice" /\ phase' = "splice" /\ c \in cands /\ cursor' = c.end
        /\ spans' = spans \ {c} /\ masked' = masked \o gap \o r
        /\ UNCHANGED <<port, words, chosen>> /\ \A d \in spans : c.start <= d.start
    BY DEF Splice, PipelineInv, TypeOK
  <1>2. ToMask' = ToMask /\ \A k : Hidden(k)' <=> Hidden(k)
    BY <1>1, ToMaskFrame
  <1>3. /\ c \in Candidates /\ c.start \in Nat /\ c.end \in Nat /\ c.start < c.end
        /\ c.end <= Len(Text) /\ r \in Seq(Atoms) /\ cursor \in Nat /\ cursor <= c.start
        /\ masked \in Seq(Atoms) /\ Len(Text) \in Nat /\ Text \in Seq(Atoms)
    BY <1>1, CandidateType, TextAssumption DEF PipelineInv, TypeOK, OffsetExact
  <1>4. \A d \in ToMask : d.start \in Nat /\ d.end \in Nat
    BY CandidateType DEF ToMask, PipelineInv, TypeOK
  <1>5. spans' \subseteq ToMask /\ \A d \in ToMask \ spans' : d.end <= cursor'
    <2>1. \A d \in ToMask \ spans : d.end <= c.end
      BY <1>1, <1>3, <1>4 DEF VisibleInv
    <2>. QED  BY <1>1, <1>3, <2>1 DEF VisibleInv
  <1>6. Range(masked') = Range(masked) \cup Range(gap) \cup Range(r)
    <2>1. gap \in Seq(Atoms)
      <3>1. c.start <= Len(Text)
        BY <1>3
      <3>. QED  BY <1>3, <3>1, SliceType
    <2>. DEFINE mg == masked \o gap
    <2>. HIDE DEF gap, r
    <2>2. mg \in Seq(Atoms) /\ Range(mg) = Range(masked) \cup Range(gap)
      BY <1>3, <2>1, RangeConcatenation
    <2>. HIDE DEF mg
    <2>3. r \in Seq(Atoms)
      BY <1>3
    <2>4. Range(mg \o r) = Range(mg) \cup Range(r)
      BY <2>2, <2>3, RangeConcatenation
    <2>5. masked' = mg \o r
      BY <1>1 DEF mg
    <2>. QED  BY <2>2, <2>4, <2>5
  <1>7. ASSUME NEW k \in 1..Len(Text)
        PROVE  Text[k] \in Range(masked') <=> k <= c.end /\ ~Hidden(k)
    <2>1. Text[k] \in Range(masked) <=> k <= cursor /\ ~Hidden(k)
      BY <1>1 DEF VisibleInv
    <2>2. Text[k] \in Range(gap) <=> cursor < k /\ k <= c.start
      <3>1. c.start <= Len(Text)
        BY <1>3
      <3>. QED  BY <1>3, <3>1, RangeOfSlice
    <2>3. Text[k] \notin Range(r)
      BY <1>3, RangeOfSurrogate
    <2>4. k \in Nat
      BY <1>3
    <2>5. cursor < k /\ k <= c.start => ~Hidden(k)
      <3>. SUFFICES ASSUME cursor < k, k <= c.start, NEW d \in ToMask, d.start < k, k <= d.end
                    PROVE  FALSE
        BY DEF Hidden
      <3>1. CASE d \in spans
        BY <1>1, <1>3, <1>4, <2>4, <3>1
      <3>2. CASE d \notin spans
        BY <1>1, <1>3, <1>4, <2>4, <3>2 DEF VisibleInv
      <3>. QED  BY <3>1, <3>2
    <2>6. c.start < k /\ k <= c.end => Hidden(k)
      BY <1>1 DEF Hidden, VisibleInv
    <2>. QED  BY <1>3, <1>6, <2>1, <2>2, <2>3, <2>4, <2>5, <2>6
  <1>. QED  BY <1>1, <1>2, <1>5, <1>7 DEF VisibleInv

LEMMA VisibleSpliced ==
    ASSUME PipelineInv, VisibleInv, Spliced
    PROVE  VisibleInv'
  <1>. DEFINE tail == Slice(Text, cursor, Len(Text))
  <1>1. /\ phase = "splice" /\ phase' = "done" /\ spans = {} /\ masked' = masked \o tail
        /\ UNCHANGED <<port, words, chosen>> /\ UNCHANGED <<spans, cursor>>
    BY DEF Spliced
  <1>2. ToMask' = ToMask /\ \A k : Hidden(k)' <=> Hidden(k)
    BY <1>1, ToMaskFrame
  <1>3. /\ cursor \in Nat /\ cursor <= Len(Text) /\ masked \in Seq(Atoms)
        /\ Len(Text) \in Nat /\ Text \in Seq(Atoms)
    BY TextAssumption DEF PipelineInv, TypeOK
  <1>4. \A d \in ToMask : d.start \in Nat /\ d.end \in Nat /\ d.end <= cursor
    BY <1>1, CandidateType DEF ToMask, PipelineInv, TypeOK, VisibleInv
  <1>5. Range(masked') = Range(masked) \cup Range(tail)
    <2>1. tail \in Seq(Atoms)
      BY <1>3, SliceType
    <2>. HIDE DEF tail
    <2>. QED  BY <1>1, <1>3, <2>1, RangeConcatenation
  <1>6. ASSUME NEW k \in 1..Len(Text)
        PROVE  Text[k] \in Range(masked') <=> ~Hidden(k)
    <2>1. Text[k] \in Range(masked) <=> k <= cursor /\ ~Hidden(k)
      BY <1>1 DEF VisibleInv
    <2>2. Text[k] \in Range(tail) <=> cursor < k
      BY <1>3, RangeOfSlice
    <2>3. cursor < k => ~Hidden(k)
      BY <1>3, <1>4 DEF Hidden
    <2>. QED  BY <1>3, <1>5, <2>1, <2>2, <2>3
  <1>. QED  BY <1>1, <1>2, <1>4, <1>6 DEF VisibleInv

LEMMA VisibleDecide ==
    ASSUME PipelineInv, Decide
    PROVE  VisibleInv'
  <1>1. /\ spans' = ToMask /\ phase' = "splice" /\ cursor' = 0 /\ masked' = <<>>
        /\ UNCHANGED <<port, words, chosen>>
    BY DEF Decide, PipelineInv, NotStarted
  <1>2. ToMask' = ToMask
    BY <1>1, ToMaskFrame
  <1>3. Range(masked') = {}
    BY <1>1 DEF Range
  <1>4. \A k \in 1..Len(Text) : ~(k <= 0)
    BY TextAssumption
  <1>. QED  BY <1>1, <1>2, <1>3, <1>4 DEF VisibleInv

\* No character of a masked span is in the answer, and no other is missing from it.
THEOREM OnlyMaskedDisappears == Spec => []OnlyMaskedGone
  <1>1. Init => VisibleInv
    BY DEF Init, VisibleInv
  <1>2. PipelineInv /\ VisibleInv /\ [Next]_vars => VisibleInv'
    <2>. SUFFICES ASSUME PipelineInv, VisibleInv, [Next]_vars
                  PROVE  VisibleInv'
      OBVIOUS
    <2>1. ASSUME NEW c \in todo, Visit(c) PROVE VisibleInv'
      BY <2>1 DEF Visit, VisibleInv
    <2>2. CASE Resolved
      BY <2>2 DEF Resolved, VisibleInv
    <2>3. CASE UNCHANGED vars
      <3>1. UNCHANGED <<port, words, chosen>> /\ UNCHANGED <<phase, spans, cursor, masked>>
        BY <2>3 DEF vars
      <3>2. ToMask' = ToMask /\ \A k : Hidden(k)' <=> Hidden(k)
        BY <3>1, ToMaskFrame
      <3>. QED  BY <3>1, <3>2 DEF VisibleInv
    <2>. QED  BY <2>1, <2>2, <2>3, VisibleSplice, VisibleSpliced, VisibleDecide DEF Next
  <1>3. PipelineInv /\ VisibleInv => OnlyMaskedGone
    <2>. SUFFICES ASSUME PipelineInv, VisibleInv, phase = "done", NEW k \in 1..Len(Text)
                  PROVE  (\E n \in 1..Len(masked) : masked[n] = Text[k]) <=> ~Hidden(k)
      BY DEF OnlyMaskedGone, Hidden
    <2>1. Range(masked) = {masked[n] : n \in 1..Len(masked)}
      BY RangeEquality DEF PipelineInv, TypeOK
    <2>. QED  BY <2>1 DEF VisibleInv
  <1>. QED  BY <1>1, <1>2, <1>3, PipelineInit, PipelineStep, PTL DEF Spec

-----------------------------------------------------------------------------
(* Re-splicing from the stored occurrences *)

Edits == [from : Nat, to : Nat, new : Seq(Atoms)]

Start == [text |-> <<>>, cursor |-> 0]

\* g[s] is what the edits of s build, for every set of edits s.
Rounds(g, payload, edits) == \A s \in SUBSET edits :
    g[s] = IF s = {} THEN Start
           ELSE SpliceRound(payload, LastEdit(s), g[s \ {LastEdit(s)}])

LEMMA LastEditIn ==
    ASSUME NEW E \in SUBSET Edits, IsFiniteSet(E), E # {}
    PROVE  LastEdit(E) \in E /\ \A d \in E : d.from <= LastEdit(E).from
  <1>. DEFINE f == [e \in E |-> e.from]
              P == {f[e] : e \in E}
  <1>1. P \in SUBSET Int /\ P # {}
    <2>1. PICK e \in E : TRUE
      OBVIOUS
    <2>2. f[e] \in P
      BY <2>1
    <2>3. \A d \in E : f[d] \in Int
      BY DEF Edits
    <2>. QED  BY <2>2, <2>3
  <1>2. IsFiniteSet(P)
    BY ImageFinite
  <1>3. PICK m \in P : \A y \in P : m >= y
    <2>. HIDE DEF P
    <2>. QED  BY <1>1, <1>2, MaxOf
  <1>4. PICK e \in E : m = e.from
    OBVIOUS
  <1>5. \A d \in E : d.from \in P /\ d.from \in Int
    BY DEF Edits
  <1>6. \A d \in E : d.from <= e.from
    BY <1>3, <1>4, <1>5
  <1>. QED  BY <1>6 DEF LastEdit

LEMMA RoundsExist ==
    ASSUME NEW payload \in Seq(Atoms), NEW E \in SUBSET Edits, IsFiniteSet(E)
    PROVE  \E g : Rounds(g, payload, E) /\ Rebuilt(payload, E) = g[E]
  <1>. DEFINE A == Atoms \cup {payload[k] : k \in Int}
              V == [text : Seq(A), cursor : Nat]
              pick == [s \in SUBSET E |-> LastEdit(s)]
              step == [p \in E \X V |-> SpliceRound(payload, p[1], p[2])]
  <1>1. \A s \in SUBSET E : pick[s] = LastEdit(s)
    OBVIOUS
  <1>2. \A x \in E, v \in V : step[<<x, v>>] = SpliceRound(payload, x, v)
    OBVIOUS
  <1>3. ASSUME NEW x \in E, NEW v \in V
        PROVE  SpliceRound(payload, x, v) \in V
    <2>. DEFINE t == Slice(payload, v.cursor, x.from)
    <2>1. v.cursor \in Nat /\ x.from \in Nat /\ x.to \in Nat /\ x.new \in Seq(A) /\ v.text \in Seq(A)
      BY SeqMonotonic DEF Edits
    <2>2. t \in Seq(A)
      <3>1. \A i \in (v.cursor + 1)..x.from : payload[i] \in A
        BY <2>1
      <3>. HIDE DEF A, V
      <3>. QED  BY <2>1, <3>1, SubSeqProperties DEF Slice
    <2>. HIDE DEF t, A
    <2>3. v.text \o t \o x.new \in Seq(A)
      <3>1. v.text \o t \in Seq(A)
        BY <2>1, <2>2
      <3>. QED  BY <2>1, <3>1
    <2>. QED  BY <2>1, <2>3 DEF SpliceRound, t
  <1>4. \A s \in SUBSET E : s # {} => pick[s] \in s
    BY <1>1, LastEditIn, FS_Subset
  <1>5. Start \in V
    BY DEF Start
  <1>. HIDE DEF pick, step, V
  <1>6. Foldable(E, V, Start, pick, step)
    BY <1>2, <1>3, <1>4, <1>5 DEF Foldable
  <1>7. PICK g \in [SUBSET E -> V] : Accumulates(g, E, Start, pick, step)
    BY <1>6, FoldExists
  <1>8. ASSUME NEW s \in SUBSET E
        PROVE  g[s] = IF s = {} THEN Start
                      ELSE SpliceRound(payload, LastEdit(s), g[s \ {LastEdit(s)}])
    <2>1. CASE s = {}
      BY <1>7, <2>1 DEF Accumulates
    <2>2. CASE s # {}
      <3>1. pick[s] \in E /\ g[s \ {pick[s]}] \in V
        BY <1>4, <2>2
      <3>2. g[s] = step[<<pick[s], g[s \ {pick[s]}]>>]
        BY <1>7, <2>2 DEF Accumulates
      <3>. QED  BY <1>1, <1>2, <2>2, <3>1, <3>2
    <2>. QED  BY <2>1, <2>2
  <1>. DEFINE Eqn(h) == h = [s \in SUBSET E |-> IF s = {} THEN [text |-> <<>>, cursor |-> 0]
                               ELSE SpliceRound(payload, LastEdit(s), h[s \ {LastEdit(s)}])]
              iter == CHOOSE h : Eqn(h)
  <1>9. Rebuilt(payload, E) = iter[E]
    BY DEF Rebuilt, MapThenFoldSet
  <1>10. Eqn(g)
    BY <1>8 DEF Start
  <1>11. Eqn(iter)
    <2>. HIDE DEF Eqn
    <2>. QED  BY <1>10
  <1>. HIDE DEF iter
  <1>12. Rounds(iter, payload, E)
    <2>1. \A s \in SUBSET E : iter[s] = IF s = {} THEN [text |-> <<>>, cursor |-> 0]
                               ELSE SpliceRound(payload, LastEdit(s), iter[s \ {LastEdit(s)}])
      BY <1>11
    <2>. QED  BY <2>1 DEF Rounds, Start
  <1>. QED  BY <1>9, <1>12

LEMMA RoundsUnique ==
    ASSUME NEW payload, NEW E \in SUBSET Edits, IsFiniteSet(E),
           NEW g, NEW h, Rounds(g, payload, E), Rounds(h, payload, E)
    PROVE  h[E] = g[E]
  <1>. DEFINE F == {X \in SUBSET E : h[X] # g[X]}
  <1>1. SUFFICES ASSUME F # {} PROVE FALSE
    OBVIOUS
  <1>2. \A X \in F : IsFiniteSet(X)
    BY FS_Subset
  <1>3. PICK X \in F : \A Y \in F : Y \subseteq X => Y = X
    <2>. HIDE DEF F
    <2>. QED  BY <1>1, <1>2, MinimalFamily
  <1>4. X # {}
    BY <1>3 DEF Rounds
  <1>. DEFINE c == LastEdit(X)
  <1>5. c \in X
    BY <1>2, <1>3, <1>4, LastEditIn
  <1>6. /\ g[X] = SpliceRound(payload, c, g[X \ {c}])
        /\ h[X] = SpliceRound(payload, c, h[X \ {c}])
    BY <1>3, <1>4 DEF Rounds
  <1>. HIDE DEF c
  <1>7. X \ {c} \in SUBSET E /\ X \ {c} # X /\ X \ {c} \notin F
    BY <1>3, <1>5
  <1>. QED  BY <1>3, <1>6, <1>7

LEMMA RebuiltNone ==
    ASSUME NEW payload \in Seq(Atoms)
    PROVE  Rebuilt(payload, {}) = Start
  <1>1. PICK g : Rounds(g, payload, {}) /\ Rebuilt(payload, {}) = g[{}]
    BY RoundsExist, FS_EmptySet
  <1>. QED  BY <1>1 DEF Rounds

\* The loop over the sorted occurrences: the rightmost one is spliced in last.
LEMMA RebuiltAdd ==
    ASSUME NEW payload \in Seq(Atoms), NEW E \in SUBSET Edits, IsFiniteSet(E),
           NEW e \in Edits, \A d \in E : d.from < e.from
    PROVE  Rebuilt(payload, E \cup {e}) = SpliceRound(payload, e, Rebuilt(payload, E))
  <1>. DEFINE X == E \cup {e}
  <1>1. X \in SUBSET Edits /\ IsFiniteSet(X) /\ X # {} /\ X \ {e} = E
    <2>1. e.from \in Nat
      BY DEF Edits
    <2>2. e \notin E
      BY <2>1
    <2>3. IsFiniteSet(X)
      BY FS_AddElement
    <2>. QED  BY <2>2, <2>3
  <1>2. LastEdit(X) = e
    <2>1. LastEdit(X) \in X /\ \A d \in X : d.from <= LastEdit(X).from
      <3>. HIDE DEF X
      <3>. QED  BY <1>1, LastEditIn
    <2>. DEFINE l == LastEdit(X)
    <2>2. l \in E \cup {e} /\ e.from <= l.from
      BY <2>1
    <2>. HIDE DEF l
    <2>3. ASSUME l \in E PROVE FALSE
      <3>1. l.from < e.from /\ l.from \in Nat /\ e.from \in Nat
        BY <2>3 DEF Edits
      <3>. QED  BY <2>2, <3>1
    <2>. QED  BY <2>2, <2>3 DEF l
  <1>. HIDE DEF X
  <1>3. PICK g : Rounds(g, payload, X) /\ Rebuilt(payload, X) = g[X]
    BY <1>1, RoundsExist
  <1>4. PICK h : Rounds(h, payload, E) /\ Rebuilt(payload, E) = h[E]
    BY RoundsExist
  <1>5. Rounds(g, payload, E)
    BY <1>1, <1>3 DEF Rounds
  <1>6. g[E] = h[E]
    BY <1>4, <1>5, RoundsUnique
  <1>7. g[X] = SpliceRound(payload, e, g[E])
    <2>1. X \in SUBSET X
      OBVIOUS
    <2>. QED  BY <1>1, <1>2, <1>3, <2>1 DEF Rounds
  <1>. QED  BY <1>3, <1>4, <1>6, <1>7 DEF X

MaskEdits(occs) == {[from |-> o.start, to |-> o.end, new |-> o.masked] : o \in occs}
DemaskEdits(occs) == {[from |-> o.mstart, to |-> o.mend, new |-> o.original] : o \in occs}

\* What is stored of the spans up to the cursor rebuilds the masked text from the
\* original and, whatever follows, the original from the masked text.
BuiltFrom(built, at, occs) ==
    /\ IsFiniteSet(occs)
    /\ \A o \in occs :
        /\ {o.start, o.end, o.mstart, o.mend} \subseteq Nat
        /\ o.original \in Seq(Atoms) /\ o.masked \in Seq(Atoms)
        /\ o.start < at /\ o.mstart < Len(built)
    /\ Rebuilt(Text, MaskEdits(occs)) = [text |-> built, cursor |-> at]
    /\ \A rest \in Seq(Atoms) :
        Rebuilt(built \o rest, DemaskEdits(occs)) = [text |-> Slice(Text, 0, at), cursor |-> Len(built)]

LEMMA SliceJoin ==
    ASSUME NEW a \in Nat, NEW b \in Nat, NEW c \in Nat, a <= b, b <= c, c <= Len(Text)
    PROVE  Slice(Text, a, b) \o Slice(Text, b, c) = Slice(Text, a, c)
  <1>1. /\ Text \in Seq(Atoms) /\ a + 1 \in 1..(Len(Text) + 1) /\ b \in (a + 1) - 1..Len(Text)
        /\ c \in b..Len(Text)
    BY TextAssumption
  <1>. QED  BY <1>1, ConcatAdjacentSubSeq DEF Slice

\* The slice between two pieces is the piece between them.
LEMMA SliceMiddle ==
    ASSUME NEW s \in Seq(Atoms), NEW t \in Seq(Atoms), NEW u \in Seq(Atoms)
    PROVE  Slice(s \o (t \o u), Len(s), Len(s) + Len(t)) = t
  <1>. DEFINE p == s \o (t \o u)
              q == Slice(p, Len(s), Len(s) + Len(t))
  <1>1. t \o u \in Seq(Atoms) /\ Len(t \o u) = Len(t) + Len(u)
    OBVIOUS
  <1>2. p \in Seq(Atoms) /\ Len(p) = Len(s) + Len(t) + Len(u)
    BY <1>1
  <1>3. q \in Seq(Atoms) /\ Len(q) = Len(t)
    <2>1. /\ Len(s) \in Nat /\ Len(s) + Len(t) \in Nat /\ Len(s) <= Len(s) + Len(t)
          /\ Len(s) + Len(t) <= Len(p) /\ (Len(s) + Len(t)) - Len(s) = Len(t)
      BY <1>2
    <2>. HIDE DEF p
    <2>. QED  BY <1>2, <2>1, SliceType
  <1>4. ASSUME NEW i \in 1..Len(t)
        PROVE  q[i] = t[i]
    <2>1. q[i] = p[Len(s) + i]
      <3>. HIDE DEF p
      <3>. QED  BY <1>2 DEF Slice
    <2>2. p[Len(s) + i] = (t \o u)[i]
      BY <1>1
    <2>3. (t \o u)[i] = t[i]
      OBVIOUS
    <2>. QED  BY <2>1, <2>2, <2>3
  <1>. HIDE DEF q
  <1>5. q = t
    BY <1>3, <1>4, SeqEqual
  <1>. QED  BY <1>5 DEF q

Joined(s, t) == s \o t

LEMMA JoinedRegroups ==
    ASSUME NEW s \in Seq(Atoms), NEW t \in Seq(Atoms), NEW u \in Seq(Atoms)
    PROVE  /\ Joined(s, t) \in Seq(Atoms)
           /\ Joined(Joined(s, t), u) = Joined(s, Joined(t, u))
  BY ConcatAssociative DEF Joined

Regroups(s, t, u, v) == ((s \o t) \o u) \o v = s \o (t \o (u \o v))

LEMMA ConcatRegroups ==
    ASSUME NEW s \in Seq(Atoms), NEW t \in Seq(Atoms), NEW u \in Seq(Atoms), NEW v \in Seq(Atoms)
    PROVE  Regroups(s, t, u, v)
  <1>1. Joined(s, t) \in Seq(Atoms) /\ Joined(u, v) \in Seq(Atoms)
    BY JoinedRegroups, Zenon
  <1>2. Joined(Joined(Joined(s, t), u), v) = Joined(Joined(s, t), Joined(u, v))
    BY <1>1, JoinedRegroups, SMT
  <1>3. Joined(Joined(s, t), Joined(u, v)) = Joined(s, Joined(t, Joined(u, v)))
    BY <1>1, JoinedRegroups, SMT
  <1>. QED  BY <1>2, <1>3, Zenon DEF Joined, Regroups

LEMMA EditsType ==
    ASSUME NEW built, NEW at, NEW occs, BuiltFrom(built, at, occs)
    PROVE  /\ MaskEdits(occs) \in SUBSET Edits /\ IsFiniteSet(MaskEdits(occs))
           /\ DemaskEdits(occs) \in SUBSET Edits /\ IsFiniteSet(DemaskEdits(occs))
  <1>. DEFINE f == [o \in occs |-> [from |-> o.start, to |-> o.end, new |-> o.masked]]
              g == [o \in occs |-> [from |-> o.mstart, to |-> o.mend, new |-> o.original]]
  <1>1. MaskEdits(occs) = {f[o] : o \in occs} /\ DemaskEdits(occs) = {g[o] : o \in occs}
    BY DEF MaskEdits, DemaskEdits
  <1>2. \A o \in occs : f[o] \in Edits /\ g[o] \in Edits
    BY DEF BuiltFrom, Edits
  <1>3. IsFiniteSet(occs)
    BY DEF BuiltFrom
  <1>. HIDE DEF f, g
  <1>4. IsFiniteSet({f[o] : o \in occs}) /\ IsFiniteSet({g[o] : o \in occs})
    BY <1>3, ImageFinite
  <1>. QED  BY <1>1, <1>2, <1>4

\* One more span, behind the cursor, with a replacement that is not empty.
LEMMA BuiltAdd ==
    ASSUME NEW built \in Seq(Atoms), NEW at \in Nat, NEW occs, BuiltFrom(built, at, occs),
           NEW from \in Nat, NEW to \in Nat, at <= from, from < to, to <= Len(Text),
           NEW r \in Seq(Atoms), r # <<>>,
           NEW o, o = [start |-> from, end |-> to, original |-> Slice(Text, from, to),
                       mstart |-> Len(built) + (from - at),
                       mend |-> Len(built) + (from - at) + Len(r), masked |-> r]
    PROVE  BuiltFrom(built \o Slice(Text, at, from) \o r, to, occs \cup {o})
  <1>. DEFINE gap == Slice(Text, at, from)
              more == built \o gap \o r
              old == Slice(Text, from, to)
  <1>1. /\ Text \in Seq(Atoms) /\ Len(Text) \in Nat /\ from <= Len(Text) /\ Len(built) \in Nat
        /\ from <= to /\ at <= to /\ at <= Len(Text) /\ 0 \in Nat /\ 0 <= at /\ 0 <= from
        /\ r \in Seq(Atoms) /\ Len(r) \in Nat /\ Len(r) > 0
    <2>1. Len(r) \in Nat \ {0}
      BY EmptySeq
    <2>. QED  BY <2>1, TextAssumption
  <1>2. gap \in Seq(Atoms) /\ Len(gap) = from - at
    BY <1>1, SliceType
  <1>3. old \in Seq(Atoms) /\ Len(old) = to - from
    BY <1>1, SliceType
  <1>. HIDE DEF gap, old
  <1>4. more \in Seq(Atoms) /\ Len(more) = Len(built) + (from - at) + Len(r)
    <2>1. more \in Seq(Atoms) /\ Len(more) = Len(built) + Len(gap) + Len(r)
      BY <1>2, ConcatLength
    <2>. HIDE DEF more
    <2>. QED  BY <1>2, <2>1
  <1>5. /\ o.start = from /\ o.end = to /\ o.original = old /\ o.masked = r
        /\ o.mstart = Len(built) + (from - at) /\ o.mend = Len(more)
    BY <1>4 DEF old
  <1>6. IsFiniteSet(occs \cup {o})
    BY FS_AddElement DEF BuiltFrom
  <1>7. ASSUME NEW x \in occs \cup {o}
        PROVE  /\ {x.start, x.end, x.mstart, x.mend} \subseteq Nat
               /\ x.original \in Seq(Atoms) /\ x.masked \in Seq(Atoms)
               /\ x.start < to /\ x.mstart < Len(more)
    <2>1. CASE x = o
      <3>1. /\ o.start \in Nat /\ o.end \in Nat /\ o.mstart \in Nat /\ o.mend \in Nat
            /\ o.start < to /\ o.mstart < Len(more)
        BY <1>1, <1>4, <1>5
      <3>. QED  BY <1>1, <1>3, <1>5, <2>1, <3>1
    <2>2. CASE x \in occs
      <3>1. /\ {x.start, x.end, x.mstart, x.mend} \subseteq Nat
            /\ x.original \in Seq(Atoms) /\ x.masked \in Seq(Atoms)
            /\ x.start < at /\ x.mstart < Len(built)
        BY <2>2 DEF BuiltFrom
      <3>2. x.start < to /\ x.mstart < Len(more)
        BY <1>1, <1>4, <3>1
      <3>. QED  BY <3>1, <3>2
    <2>. QED  BY <2>1, <2>2
  <1>8. /\ MaskEdits(occs) \in SUBSET Edits /\ IsFiniteSet(MaskEdits(occs))
        /\ DemaskEdits(occs) \in SUBSET Edits /\ IsFiniteSet(DemaskEdits(occs))
    BY EditsType
  <1>9. Rebuilt(Text, MaskEdits(occs \cup {o})) = [text |-> more, cursor |-> to]
    <2>. DEFINE e == [from |-> from, to |-> to, new |-> r]
    <2>1. e \in Edits /\ e.from = from /\ e.to = to /\ e.new = r
      BY <1>1 DEF Edits
    <2>2. MaskEdits(occs \cup {o}) = MaskEdits(occs) \cup {e}
      BY <1>5 DEF MaskEdits
    <2>. HIDE DEF e
    <2>3. \A d \in MaskEdits(occs) : d.from < e.from
      <3>. SUFFICES ASSUME NEW x \in occs PROVE x.start < from
        BY <2>1 DEF MaskEdits
      <3>1. x.start \in Nat /\ x.start < at
        BY DEF BuiltFrom
      <3>. QED  BY <3>1
    <2>4. Rebuilt(Text, MaskEdits(occs) \cup {e}) = SpliceRound(Text, e, Rebuilt(Text, MaskEdits(occs)))
      BY <1>1, <1>8, <2>1, <2>3, RebuiltAdd
    <2>5. Rebuilt(Text, MaskEdits(occs)) = [text |-> built, cursor |-> at]
      BY DEF BuiltFrom
    <2>6. SpliceRound(Text, e, [text |-> built, cursor |-> at])
              = [text |-> built \o Slice(Text, at, from) \o r, cursor |-> to]
      BY <2>1 DEF SpliceRound
    <2>. QED  BY <2>2, <2>4, <2>5, <2>6 DEF gap
  <1>10. ASSUME NEW rest \in Seq(Atoms)
         PROVE  Rebuilt(more \o rest, DemaskEdits(occs \cup {o}))
                    = [text |-> Slice(Text, 0, to), cursor |-> Len(more)]
    <2>. DEFINE e == [from |-> Len(built) + (from - at), to |-> Len(more), new |-> old]
                p == more \o rest
                tail == r \o rest
    <2>1. /\ e \in Edits /\ e.from = Len(built) + (from - at) /\ e.to = Len(more) /\ e.new = old
          /\ e.from = Len(built) + Len(gap)
      BY <1>1, <1>2, <1>3, <1>4 DEF Edits
    <2>2. DemaskEdits(occs \cup {o}) = DemaskEdits(occs) \cup {e}
      BY <1>5 DEF DemaskEdits
    <2>. HIDE DEF e
    <2>3. \A d \in DemaskEdits(occs) : d.from < e.from
      <3>. SUFFICES ASSUME NEW x \in occs PROVE x.mstart < e.from
        BY <2>1 DEF DemaskEdits
      <3>1. x.mstart \in Nat /\ x.mstart < Len(built)
        BY DEF BuiltFrom
      <3>. QED  BY <1>1, <2>1, <3>1
    <2>4. tail \in Seq(Atoms) /\ gap \o tail \in Seq(Atoms) /\ p \in Seq(Atoms)
      BY <1>1, <1>2, <1>4
    <2>5. p = built \o (gap \o tail)
      <3>1. ((built \o gap) \o r) \o rest = built \o (gap \o (r \o rest))
        <4>1. Regroups(built, gap, r, rest)
          BY <1>2, ConcatRegroups
        <4>. QED  BY <4>1 DEF Regroups
      <3>. QED  BY <3>1
    <2>. HIDE DEF p, tail, more
    <2>6. Rebuilt(p, DemaskEdits(occs) \cup {e}) = SpliceRound(p, e, Rebuilt(p, DemaskEdits(occs)))
      BY <1>8, <2>1, <2>3, <2>4, RebuiltAdd
    <2>7. Rebuilt(p, DemaskEdits(occs)) = [text |-> Slice(Text, 0, at), cursor |-> Len(built)]
      BY <2>4, <2>5 DEF BuiltFrom
    <2>8. Slice(p, Len(built), e.from) = gap
      <3>1. Slice(built \o (gap \o tail), Len(built), Len(built) + Len(gap)) = gap
        BY <1>2, <2>4, SliceMiddle
      <3>. QED  BY <2>1, <2>5, <3>1
    <2>9. Slice(Text, 0, at) \o gap \o old = Slice(Text, 0, to)
      <3>1. Slice(Text, 0, at) \o gap = Slice(Text, 0, from)
        BY <1>1, SliceJoin DEF gap
      <3>2. Slice(Text, 0, from) \o old = Slice(Text, 0, to)
        BY <1>1, SliceJoin DEF old
      <3>. QED  BY <3>1, <3>2
    <2>10. SpliceRound(p, e, [text |-> Slice(Text, 0, at), cursor |-> Len(built)])
              = [text |-> Slice(Text, 0, at) \o gap \o old, cursor |-> Len(more)]
      BY <2>1, <2>8 DEF SpliceRound
    <2>. QED  BY <2>2, <2>6, <2>7, <2>9, <2>10 DEF p
  <1>. HIDE DEF more
  <1>11. BuiltFrom(more, to, occs \cup {o})
    BY <1>6, <1>7, <1>9, <1>10 DEF BuiltFrom
  <1>. QED  BY <1>11 DEF more, gap

LEMMA SliceEnd ==
    ASSUME NEW s \in Seq(Atoms), NEW t \in Seq(Atoms), NEW p, p = s \o t
    PROVE  Slice(p, Len(s), Len(p)) = t
  <1>. DEFINE q == Slice(p, Len(s), Len(p))
  <1>1. p \in Seq(Atoms) /\ Len(p) = Len(s) + Len(t)
    OBVIOUS
  <1>2. q \in Seq(Atoms) /\ Len(q) = Len(t)
    <2>1. /\ Len(s) \in Nat /\ Len(p) \in Nat /\ Len(s) <= Len(p) /\ Len(p) <= Len(p)
          /\ Len(p) - Len(s) = Len(t)
      BY <1>1
    <2>. QED  BY <1>1, <2>1, SliceType
  <1>3. ASSUME NEW i \in 1..Len(t)
        PROVE  q[i] = t[i]
    <2>1. q[i] = p[Len(s) + i]
      <3>1. Len(s) \in Nat /\ Len(t) \in Nat /\ Len(p) \in Int /\ i \in 1..(Len(p) - Len(s))
        BY <1>1
      <3>. QED  BY <3>1 DEF Slice
    <2>2. p[Len(s) + i] = t[i]
      OBVIOUS
    <2>. QED  BY <2>1, <2>2
  <1>. HIDE DEF q
  <1>4. q = t
    BY <1>2, <1>3, SeqEqual
  <1>. QED  BY <1>4 DEF q

LEMMA BuiltDone ==
    ASSUME NEW built \in Seq(Atoms), NEW at \in Nat, at <= Len(Text),
           NEW occs, BuiltFrom(built, at, occs),
           NEW tail, tail = Slice(Text, at, Len(Text))
    PROVE  /\ Resplice(Text, MaskEdits(occs)) = built \o tail
           /\ Resplice(built \o tail, DemaskEdits(occs)) = Text
  <1>1. Text \in Seq(Atoms) /\ Len(Text) \in Nat
    BY TextAssumption
  <1>2. tail \in Seq(Atoms)
    BY <1>1, SliceType
  <1>3. Resplice(Text, MaskEdits(occs)) = built \o tail
    <2>1. Rebuilt(Text, MaskEdits(occs)) = [text |-> built, cursor |-> at]
      BY DEF BuiltFrom
    <2>. QED  BY <2>1 DEF Resplice
  <1>4. Resplice(built \o tail, DemaskEdits(occs)) = Text
    <2>. DEFINE p == built \o tail
    <2>1. Rebuilt(p, DemaskEdits(occs)) = [text |-> Slice(Text, 0, at), cursor |-> Len(built)]
      BY <1>2 DEF BuiltFrom
    <2>2. Slice(p, Len(built), Len(p)) = tail
      <3>1. p = built \o tail
        OBVIOUS
      <3>. HIDE DEF p
      <3>. QED  BY <1>2, <3>1, SliceEnd
    <2>. HIDE DEF p
    <2>3. Resplice(p, DemaskEdits(occs)) = Slice(Text, 0, at) \o tail
      BY <2>1, <2>2 DEF Resplice
    <2>4. Slice(Text, 0, at) \o Slice(Text, at, Len(Text)) = Slice(Text, 0, Len(Text))
      <3>1. 0 \in Nat /\ 0 <= at /\ Len(Text) <= Len(Text)
        BY <1>1
      <3>. QED  BY <1>1, <3>1, SliceJoin
    <2>5. Slice(Text, 0, Len(Text)) = Text
      BY <1>1 DEF Slice
    <2>. QED  BY <2>3, <2>4, <2>5 DEF p
  <1>. QED  BY <1>3, <1>4

LEMMA BuiltNothing == BuiltFrom(<<>>, 0, {})
  <1>1. Text \in Seq(Atoms) /\ Slice(Text, 0, 0) = <<>>
    BY TextAssumption DEF Slice
  <1>2. MaskEdits({}) = {} /\ DemaskEdits({}) = {}
    BY DEF MaskEdits, DemaskEdits
  <1>3. Rebuilt(Text, {}) = Start
    BY <1>1, RebuiltNone
  <1>4. ASSUME NEW rest \in Seq(Atoms)
        PROVE  Rebuilt(<<>> \o rest, {}) = Start
    <2>1. <<>> \o rest \in Seq(Atoms)
      OBVIOUS
    <2>. QED  BY <2>1, RebuiltNone
  <1>. QED  BY <1>1, <1>2, <1>3, <1>4, FS_EmptySet DEF BuiltFrom, Start

Reversible ==
    /\ phase \in {"resolve", "decide"} => occurrences = {}
    /\ phase = "splice" => BuiltFrom(masked, cursor, occurrences)
    /\ phase = "done" => /\ Resplice(Text, MaskEdits(occurrences)) = masked
                         /\ Resplice(masked, DemaskEdits(occurrences)) = Text

LEMMA ReversibleSplice ==
    ASSUME PipelineInv, Reversible, NEW c \in spans, Splice(c)
    PROVE  Reversible'
  <1>. DEFINE r == Surrogate(c)
              o == [start |-> c.start, end |-> c.end, original |-> Slice(Text, c.start, c.end),
                    mstart |-> c.start + offset, mend |-> c.start + offset + Len(r), masked |-> r]
  <1>1. /\ phase = "splice" /\ phase' = "splice" /\ c \in cands /\ cursor' = c.end
        /\ masked' = masked \o Slice(Text, cursor, c.start) \o r
        /\ occurrences' = occurrences \cup {o}
    BY DEF Splice, PipelineInv, TypeOK
  <1>2. /\ c \in Candidates /\ c.start \in Nat /\ c.end \in Nat /\ c.start < c.end
        /\ c.end <= Len(Text) /\ cursor \in Nat /\ cursor <= c.start
        /\ masked \in Seq(Atoms) /\ Len(masked) = cursor + offset /\ offset \in Int
        /\ r \in Seq(Atoms) /\ r # <<>>
    BY <1>1, CandidateType, TextAssumption DEF PipelineInv, TypeOK, OffsetExact
  <1>3. c.start + offset = Len(masked) + (c.start - cursor)
    BY <1>2
  <1>. HIDE DEF r
  <1>4. o = [start |-> c.start, end |-> c.end, original |-> Slice(Text, c.start, c.end),
             mstart |-> Len(masked) + (c.start - cursor),
             mend |-> Len(masked) + (c.start - cursor) + Len(r), masked |-> r]
    BY <1>3
  <1>. HIDE DEF o
  <1>5. BuiltFrom(masked, cursor, occurrences)
    BY <1>1 DEF Reversible
  <1>6. BuiltFrom(masked \o Slice(Text, cursor, c.start) \o r, c.end, occurrences \cup {o})
    BY <1>2, <1>4, <1>5, BuiltAdd
  <1>. QED  BY <1>1, <1>6 DEF Reversible

\* From the stored occurrences alone, an exact retry rebuilds the masked text and an
\* exact demask the original one, for every text, every set of spans and every
\* replacement, shorter or longer than what it replaces.
THEOREM OccurrencesRoundTrip == Spec => []RoundTrip
  <1>1. Init => Reversible
    BY DEF Init, Reversible
  <1>2. PipelineInv /\ Reversible /\ [Next]_vars => Reversible'
    <2>. SUFFICES ASSUME PipelineInv, Reversible, [Next]_vars
                  PROVE  Reversible'
      OBVIOUS
    <2>1. ASSUME NEW c \in todo, Visit(c) PROVE Reversible'
      BY <2>1 DEF Visit, Reversible
    <2>2. CASE Resolved
      BY <2>2 DEF Resolved, Reversible
    <2>3. CASE Decide
      <3>1. masked' = <<>> /\ cursor' = 0 /\ occurrences' = {} /\ phase' = "splice"
        BY <2>3 DEF Decide, PipelineInv, NotStarted, Reversible
      <3>. QED  BY <3>1, BuiltNothing DEF Reversible
    <2>4. CASE Spliced
      <3>. DEFINE tail == Slice(Text, cursor, Len(Text))
      <3>1. /\ phase = "splice" /\ phase' = "done" /\ masked' = masked \o tail
            /\ occurrences' = occurrences /\ masked \in Seq(Atoms) /\ cursor \in Nat
            /\ cursor <= Len(Text)
        BY <2>4, TextAssumption DEF Spliced, PipelineInv, TypeOK
      <3>2. BuiltFrom(masked, cursor, occurrences)
        BY <3>1 DEF Reversible
      <3>3. /\ Resplice(Text, MaskEdits(occurrences)) = masked \o tail
            /\ Resplice(masked \o tail, DemaskEdits(occurrences)) = Text
        BY <3>1, <3>2, BuiltDone
      <3>. QED  BY <3>1, <3>3 DEF Reversible
    <2>5. CASE UNCHANGED vars
      BY <2>5 DEF vars, Reversible
    <2>. QED  BY <2>1, <2>2, <2>3, <2>4, <2>5, ReversibleSplice DEF Next
  <1>3. Reversible => RoundTrip
    BY DEF Reversible, RoundTrip, ApplyMask, ApplyDemask, MaskEdits, DemaskEdits
  <1>. QED  BY <1>1, <1>2, <1>3, PipelineInit, PipelineStep, PTL DEF Spec
=============================================================================

------------------------- MODULE Surrogates_proofs -------------------------
(***************************************************************************)
(* What surrogates promise for every document, pool, morphology and number *)
(* of retries: redrawn numbers never repeat the original, the full forms   *)
(* of two entities are never alike, and what was left as it was comes back *)
(* untouched; numbers that are made up are ones the detectors find, and    *)
(* partial masks leave a trace.                                            *)
(***************************************************************************)
EXTENDS ValueSurrogates, FoldTheorems, SequenceTheorems

-----------------------------------------------------------------------------
(* Numbers *)

\* Digits are counted from one to their number.
LEMMA NthRange ==
    ASSUME NEW value \in Seq(Nat), NEW k \in DigitsAt(value)
    PROVE  Nth(value, k) \in 1..DigitCount(value)
  <1>. DEFINE S == DigitsAt(value)
              T == {j \in S : j <= k}
  <1>1. IsFiniteSet(S) /\ S \subseteq Nat
    <2>1. IsFiniteSet(DOMAIN value)
      BY FS_Interval
    <2>. QED  BY <2>1, FS_Subset DEF DigitsAt
  <1>2. T \subseteq S /\ k \in T
    BY <1>1
  <1>3. IsFiniteSet(T) /\ Cardinality(T) \in Nat /\ Cardinality(T) <= Cardinality(S)
    BY <1>1, <1>2, FS_Subset, FS_CardinalityType
  <1>4. Cardinality(T) # 0
    BY <1>2, <1>3, FS_EmptySet
  <1>5. Cardinality(S) \in Nat
    BY <1>1, FS_CardinalityType
  <1>. QED  BY <1>3, <1>4, <1>5 DEF Nth, DigitCount

\* New digits for old ones.
LEMMA RedrawnShape ==
    ASSUME NEW value \in Seq(Nat), NEW keep,
           NEW draw \in [1..DigitCount(value) -> 0..9]
    PROVE  Shape(Redrawn(value, keep, draw)) = Shape(value)
  <1>. DEFINE new == Redrawn(value, keep, draw)
  <1>1. DOMAIN new = DOMAIN value
    BY DEF Redrawn
  <1>2. ASSUME NEW k \in DOMAIN value
        PROVE  (IF IsDigit(new[k]) THEN 0 ELSE new[k]) = (IF IsDigit(value[k]) THEN 0 ELSE value[k])
    <2>1. CASE k \in DigitsAt(value) /\ Nth(value, k) > keep
      <3>1. new[k] = draw[Nth(value, k)] /\ IsDigit(value[k])
        BY <2>1 DEF Redrawn, DigitsAt
      <3>2. new[k] \in 0..9
        BY <2>1, <3>1, NthRange
      <3>. QED  BY <3>1, <3>2 DEF IsDigit
    <2>2. CASE ~(k \in DigitsAt(value) /\ Nth(value, k) > keep)
      BY <2>2 DEF Redrawn
    <2>. QED  BY <2>1, <2>2
  <1>. HIDE DEF new
  <1>3. Shape(new) = Shape(value)
    BY <1>1, <1>2 DEF Shape
  <1>. QED  BY <1>3 DEF new

\* digits_like: the last digit is moved on when nothing else has changed.
LEMMA DigitsLikeChanges ==
    ASSUME NEW value \in Seq(Nat), DigitsAt(value) # {}, NEW keep,
           NEW draw \in [1..DigitCount(value) -> 0..9]
    PROVE  /\ DigitsLike(value, keep, draw) # value
           /\ Shape(DigitsLike(value, keep, draw)) = Shape(value)
  <1>. DEFINE redrawn == Redrawn(value, keep, draw)
              last == Max(DigitsAt(value))
              moved == [value EXCEPT ![last] = (@ + 1) % 10]
  <1>1. last \in DigitsAt(value)
    <2>1. DigitsAt(value) \in SUBSET Int /\ IsFiniteSet(DigitsAt(value))
      <3>1. IsFiniteSet(DOMAIN value)
        BY FS_Interval
      <3>. QED  BY <3>1, FS_Subset DEF DigitsAt
    <2>. QED  BY <2>1, MaxOf
  <1>. HIDE DEF last
  <1>2. last \in DOMAIN value /\ value[last] \in 0..9
    BY <1>1 DEF DigitsAt, IsDigit
  <1>3. /\ DOMAIN moved = DOMAIN value /\ moved[last] = (value[last] + 1) % 10
        /\ \A k \in DOMAIN value : k # last => moved[k] = value[k]
    BY <1>2
  <1>4. moved[last] \in 0..9 /\ moved[last] # value[last]
    <2>1. \A d \in 0..9 : (d + 1) % 10 \in 0..9 /\ (d + 1) % 10 # d
      OBVIOUS
    <2>. QED  BY <1>2, <1>3, <2>1
  <1>. HIDE DEF moved
  <1>5. Shape(moved) = Shape(value)
    BY <1>2, <1>3, <1>4 DEF Shape, IsDigit
  <1>6. moved # value
    BY <1>4
  <1>7. Shape(redrawn) = Shape(value)
    BY RedrawnShape
  <1>8. DigitsLike(value, keep, draw) = IF redrawn # value THEN redrawn ELSE moved
    BY DEF DigitsLike, moved, last
  <1>. QED  BY <1>5, <1>6, <1>7, <1>8

ValueInv == (phase = "value" => doc \in Values) /\ DigitsLikeDiffers

\* The steps that work on texts never meet a value.
LEMMA TextSteps ==
    ASSUME Next \/ GoNext
    PROVE  phase' \notin {"value", "valueDone"}
  <1>1. CASE \E draw \in IF Drawing THEN Draws(Current) ELSE {} : Take(draw) \/ Retry(draw)
    BY <1>1 DEF Take, Retry, Drawing, Add
  <1>2. CASE FallBack \/ DrawingEnds
    BY <1>2 DEF FallBack, DrawingEnds, Drawing, Add
  <1>3. CASE Keep \/ Mask \/ MaskRaises \/ MaskingEnds
    BY <1>3 DEF Keep, Mask, MaskRaises, MaskingEnds, Masking
  <1>4. CASE \/ Demask
             \/ \E n \in 1..MaxReply :
                    \E pieces \in [1..n -> IF phase = "reply" THEN Echoes ELSE {}] : Reply(pieces)
    BY <1>4 DEF Demask, Reply
  <1>5. CASE GoNext
    <2>1. CASE \E draw \in IF phase = "goDraw" /\ Len(maps) < Len(doc.entities)
                           THEN Draws(Current) ELSE {} : GoDraw(draw)
      BY <2>1 DEF GoDraw
    <2>2. CASE GoDrawingEnds \/ GoMask \/ GoDemask
      BY <2>2 DEF GoDrawingEnds, GoMask, GoDemask
    <2>3. CASE \E n \in 1..MaxReply :
                    \E pieces \in [1..n -> IF phase = "goMask" THEN GoEchoes ELSE {}] : GoReply(pieces)
      BY <2>3 DEF GoReply
    <2>. QED  BY <1>5, <2>1, <2>2, <2>3 DEF GoNext
  <1>. QED  BY <1>1, <1>2, <1>3, <1>4, <1>5 DEF Next

LEMMA ValueStep == ValueInv /\ [Next \/ GoNext \/ ValueNext]_vars => ValueInv'
  <1>. SUFFICES ASSUME ValueInv, [Next \/ GoNext \/ ValueNext]_vars PROVE ValueInv'
    OBVIOUS
  <1>. DEFINE value == doc.value
  <1>1. CASE Next \/ GoNext
    BY <1>1, TextSteps DEF ValueInv, DigitsLikeDiffers, Made
  <1>2. CASE MaskValue
    <2>1. phase' = "valueDone" /\ mode' = mode /\ mode \notin {"VALUE", "GO_VALUE"}
      BY <1>2 DEF MaskValue
    <2>. QED  BY <2>1 DEF ValueInv, DigitsLikeDiffers, Made
  <1>3. ASSUME phase = "value", doc.type # "CARD_NUMBER",
               NEW draw \in DigitDraws(DigitCount(value))
        PROVE  /\ value \in Seq(Nat) /\ DigitsAt(value) # {}
               /\ draw \in [1..DigitCount(value) -> 0..9]
    BY <1>3, ValuesAssumption DEF ValueInv
  <1>4. ASSUME NEW draw \in (IF phase = "value"
                             THEN DigitDraws(IF doc.type = "CARD_NUMBER" THEN 15 ELSE DigitCount(value))
                             ELSE {}),
               DrawValue(draw)
        PROVE  ValueInv'
    <2>1. doc' = doc /\ phase = "value" /\ doc \in Values /\ mode' = mode
      BY <1>4 DEF DrawValue, ValueInv
    <2>2. CASE doc.type \in {"PHONE", "PASSPORT", "DRIVER_LICENSE"}
      <3>1. PICK keep : result' = DigitsLike(value, keep, draw)
        BY <1>4, <2>2 DEF DrawValue, Generic
      <3>2. result' # value /\ Shape(result') = Shape(value)
        <4>1. draw \in DigitDraws(DigitCount(value)) /\ doc.type # "CARD_NUMBER"
          BY <1>4, <2>1, <2>2
        <4>. QED  BY <1>3, <2>1, <3>1, <4>1, DigitsLikeChanges
      <3>. QED  BY <2>1, <3>2 DEF ValueInv, DigitsLikeDiffers, Shape
    <2>3. CASE doc.type \notin {"PHONE", "PASSPORT", "DRIVER_LICENSE"}
      BY <2>1, <2>3 DEF ValueInv, DigitsLikeDiffers
    <2>. QED  BY <2>2, <2>3
  <1>5. ASSUME NEW draw \in (IF phase = "value"
                             THEN DigitDraws(IF doc.type = "CARD_NUMBER" THEN 15 ELSE DigitCount(value))
                             ELSE {}),
               GoDrawValue(draw)
        PROVE  ValueInv'
    <2>1. doc' = doc /\ phase = "value" /\ doc \in Values /\ mode' = mode
      BY <1>5 DEF GoDrawValue, ValueInv
    <2>2. CASE /\ doc.type \in {"PHONE", "PASSPORT", "DRIVER_LICENSE"}
               /\ GoNumber(doc.type, value, draw) # value
      <3>1. PICK keep : GoNumber(doc.type, value, draw) = Redrawn(value, keep, draw)
        BY <2>2 DEF GoNumber
      <3>2. result' = Redrawn(value, keep, draw) /\ result' # value
        BY <1>5, <2>2, <3>1 DEF GoDrawValue
      <3>3. Shape(result') = Shape(value)
        <4>1. draw \in DigitDraws(DigitCount(value)) /\ doc.type # "CARD_NUMBER"
          BY <1>5, <2>1, <2>2
        <4>. QED  BY <1>3, <2>1, <3>2, <4>1, RedrawnShape
      <3>. QED  BY <2>1, <3>2, <3>3 DEF ValueInv, DigitsLikeDiffers, Shape
    <2>3. CASE /\ doc.type \in {"PHONE", "PASSPORT", "DRIVER_LICENSE"}
               /\ GoNumber(doc.type, value, draw) = value
      <3>1. phase' = phase
        BY <1>5, <2>3 DEF GoDrawValue
      <3>. QED  BY <2>1, <3>1 DEF ValueInv, DigitsLikeDiffers, Made
    <2>4. CASE doc.type \notin {"PHONE", "PASSPORT", "DRIVER_LICENSE"}
      BY <2>1, <2>4 DEF ValueInv, DigitsLikeDiffers
    <2>. QED  BY <2>2, <2>3, <2>4
  <1>6. CASE UNCHANGED vars
    BY <1>6 DEF vars, ValueInv, DigitsLikeDiffers, Made, Shape
  <1>. QED  BY <1>1, <1>2, <1>4, <1>5, <1>6 DEF ValueNext

\* For every number a detector may find and every draw, in both services: digits_like
\* and synDigitsLike return another number in the same format.
THEOREM NumbersDiffer == AllSpec => []DigitsLikeDiffers
  <1>1. Init \/ GoInit \/ ValueInit => ValueInv
    BY DEF Init, GoInit, ValueInit, ValueInv, DigitsLikeDiffers, Made
  <1>2. ValueInv => DigitsLikeDiffers
    BY DEF ValueInv
  <1>. QED  BY <1>1, <1>2, ValueStep, PTL DEF AllSpec

-----------------------------------------------------------------------------
(* Full forms *)

FullShapes == {<<"S", "F", "P">>, <<"F", "P", "S">>}

\* The nominal form of what was drawn for the entity.
Drawn(e) == Nominal(doc.entities[e], maps[e].synthetic)

Drawable == {None} \cup UNION {UNION {Draws(d.entities[e]) : e \in DOMAIN d.entities} : d \in Documents}

\* While the document is masked, what was drawn is in used, and nothing was drawn twice.
DrawInv ==
    phase \in {"draw", "mask", "reply"} =>
        /\ doc \in Documents
        /\ maps \in Seq([synthetic : Drawable, fallback : BOOLEAN])
        /\ Len(maps) <= Len(doc.entities)
        /\ \A e \in DOMAIN maps : maps[e].synthetic # None =>
            maps[e].synthetic \in Draws(doc.entities[e]) /\ Drawn(e) \in used
        /\ \A e, f \in DOMAIN maps :
            e # f /\ maps[e].synthetic # None /\ maps[f].synthetic # None => Drawn(e) # Drawn(f)

LEMMA EntityCount ==
    ASSUME NEW d \in Documents
    PROVE  Len(d.entities) \in Nat /\ DOMAIN d.entities = 1..Len(d.entities)
  BY DocumentsAssumption

\* The mapping of one more entity: a token, or a draw that is not in used.
LEMMA AddKeeps ==
    ASSUME DrawInv, Drawing, NEW draw, Add(draw),
           draw = None \/ (draw \in Draws(Current) /\ Nominal(Current, draw) \notin used)
    PROVE  DrawInv'
  <1>0. PICK n : n = Len(maps) + 1
    OBVIOUS
  <1>. DEFINE new == [synthetic |-> draw, fallback |-> draw = None]
              MapType == [synthetic : Drawable, fallback : BOOLEAN]
  <1>1. /\ doc \in Documents /\ maps \in Seq(MapType) /\ phase = "draw"
        /\ doc' = doc /\ phase' = phase /\ maps' = Append(maps, new)
        /\ used' = used \cup {IF draw = None THEN <<Token(n)>> ELSE Nominal(Current, draw)}
        /\ Len(maps) < Len(doc.entities)
    BY <1>0 DEF DrawInv, Drawing, Add
  <1>2. n \in DOMAIN doc.entities /\ Current = doc.entities[n]
    BY <1>0, <1>1, EntityCount DEF Current
  <1>3. draw \in Drawable
    BY <1>1, <1>2 DEF Drawable
  <1>4. new \in MapType
    BY <1>3
  <1>5. new.synthetic = draw
    OBVIOUS
  <1>. HIDE DEF new, MapType
  <1>6. /\ maps' \in Seq(MapType) /\ Len(maps') = n /\ DOMAIN maps' = DOMAIN maps \cup {n}
        /\ n \notin DOMAIN maps /\ maps'[n] = new
        /\ \A e \in DOMAIN maps : maps'[e] = maps[e]
    BY <1>0, <1>1, <1>4
  <1>7. \A e \in DOMAIN maps : Drawn(e)' = Drawn(e)
    BY <1>1, <1>6 DEF Drawn, Nominal, IsName, Render, Nominative, RoleBySymbol
  <1>8. Drawn(n)' = Nominal(Current, draw)
    BY <1>1, <1>2, <1>5, <1>6 DEF Drawn, Nominal, IsName, Render, Nominative, RoleBySymbol
  <1>9. /\ \A e \in DOMAIN maps : maps[e].synthetic # None =>
            maps[e].synthetic \in Draws(doc.entities[e]) /\ Drawn(e) \in used
        /\ \A e, f \in DOMAIN maps :
            e # f /\ maps[e].synthetic # None /\ maps[f].synthetic # None => Drawn(e) # Drawn(f)
    BY <1>1 DEF DrawInv
  <1>10. Len(maps') <= Len(doc.entities)
    BY <1>1, <1>2, <1>6, EntityCount
  <1>11. ASSUME NEW e \in DOMAIN maps', maps'[e].synthetic # None
         PROVE  maps'[e].synthetic \in Draws(doc.entities[e]) /\ Drawn(e)' \in used'
    <2>1. CASE e \in DOMAIN maps
      BY <1>1, <1>6, <1>7, <1>9, <1>11, <2>1
    <2>2. CASE e = n
      BY <1>1, <1>2, <1>5, <1>6, <1>8, <1>11, <2>2
    <2>. QED  BY <1>6, <2>1, <2>2
  <1>12. ASSUME NEW e \in DOMAIN maps', NEW f \in DOMAIN maps', e # f,
                maps'[e].synthetic # None, maps'[f].synthetic # None
         PROVE  Drawn(e)' # Drawn(f)'
    <2>1. CASE e \in DOMAIN maps /\ f \in DOMAIN maps
      BY <1>6, <1>7, <1>9, <1>12, <2>1
    <2>2. CASE e = n /\ f \in DOMAIN maps
      BY <1>5, <1>6, <1>7, <1>8, <1>9, <1>12, <2>2
    <2>3. CASE e \in DOMAIN maps /\ f = n
      BY <1>5, <1>6, <1>7, <1>8, <1>9, <1>12, <2>3
    <2>. QED  BY <1>6, <1>12, <2>1, <2>2, <2>3
  <1>13. \A e \in DOMAIN maps' : Draws(doc.entities[e])' = Draws(doc.entities[e])
    BY <1>1 DEF Draws, IsName
  <1>. QED  BY <1>1, <1>6, <1>10, <1>11, <1>12, <1>13 DEF DrawInv, MapType, Draws, IsName

\* Steps that leave the draws alone.
LEMMA DrawsStay ==
    ASSUME DrawInv, doc' = doc, used' = used, phase \in {"draw", "mask", "reply"},
           DOMAIN maps' = DOMAIN maps, Len(maps') = Len(maps),
           maps' \in Seq([synthetic : Drawable, fallback : BOOLEAN]),
           \A e \in DOMAIN maps : maps'[e].synthetic = maps[e].synthetic
    PROVE  DrawInv'
  <1>1. \A e \in DOMAIN maps : Drawn(e)' = Drawn(e)
    BY DEF Drawn, Nominal, IsName, Render, Nominative, RoleBySymbol
  <1>2. \A e \in DOMAIN maps : Draws(doc.entities[e])' = Draws(doc.entities[e])
    BY DEF Draws, IsName
  <1>. QED  BY <1>1, <1>2 DEF DrawInv

\* The steps of the Go service and those that work on values.
LEMMA OtherSteps ==
    ASSUME GoNext \/ ValueNext
    PROVE  phase' \notin {"draw", "mask", "reply", "demask", "done"}
  <1>1. CASE GoNext
    <2>1. CASE \E draw \in IF phase = "goDraw" /\ Len(maps) < Len(doc.entities)
                           THEN Draws(Current) ELSE {} : GoDraw(draw)
      BY <2>1 DEF GoDraw
    <2>2. CASE GoDrawingEnds \/ GoMask \/ GoDemask
      BY <2>2 DEF GoDrawingEnds, GoMask, GoDemask
    <2>3. CASE \E n \in 1..MaxReply :
                \E pieces \in [1..n -> IF phase = "goMask" THEN GoEchoes ELSE {}] : GoReply(pieces)
      BY <2>3 DEF GoReply
    <2>. QED  BY <1>1, <2>1, <2>2, <2>3 DEF GoNext
  <1>2. CASE ValueNext
    BY <1>2 DEF ValueNext, MaskValue, DrawValue, GoDrawValue
  <1>. QED  BY <1>1, <1>2

LEMMA DrawInit == Init \/ GoInit \/ ValueInit => DrawInv
  <1>1. ASSUME Init PROVE DrawInv
    <2>1. doc \in Documents /\ maps = <<>> /\ Len(doc.entities) \in Nat
      BY <1>1, EntityCount DEF Init
    <2>. QED  BY <2>1 DEF DrawInv
  <1>2. GoInit \/ ValueInit => DrawInv
    BY DEF GoInit, ValueInit, DrawInv
  <1>. QED  BY <1>1, <1>2

LEMMA DrawStep == DrawInv /\ [Next \/ GoNext \/ ValueNext]_vars => DrawInv'
  <1>. SUFFICES ASSUME DrawInv, [Next \/ GoNext \/ ValueNext]_vars PROVE DrawInv'
    OBVIOUS
  <1>1. ASSUME NEW draw \in (IF Drawing THEN Draws(Current) ELSE {}), Take(draw) PROVE DrawInv'
    <2>1. Drawing /\ Add(draw) /\ draw \in Draws(Current) /\ Nominal(Current, draw) \notin used
      BY <1>1 DEF Take, Acceptable
    <2>. QED  BY <2>1, AddKeeps
  <1>2. CASE FallBack
    <2>1. PICK draw : draw = None
      OBVIOUS
    <2>2. Drawing /\ Add(draw)
      BY <1>2, <2>1 DEF FallBack
    <2>. QED  BY <2>1, <2>2, AddKeeps
  <1>3. CASE \/ \E draw \in IF Drawing THEN Draws(Current) ELSE {} : Retry(draw)
             \/ DrawingEnds \/ Keep \/ Mask \/ MaskingEnds
    <2>1. phase \in {"draw", "mask"} /\ doc' = doc /\ maps' = maps /\ used' = used
      BY <1>3 DEF Retry, DrawingEnds, Keep, Mask, MaskingEnds, Drawing, Masking
    <2>2. maps' \in Seq([synthetic : Drawable, fallback : BOOLEAN])
      BY <2>1 DEF DrawInv
    <2>. QED  BY <2>1, <2>2, DrawsStay
  <1>4. CASE MaskRaises
    <2>. DEFINE e == Item.entity
                MapType == [synthetic : Drawable, fallback : BOOLEAN]
    <2>1. /\ phase = "mask" /\ doc' = doc /\ used' = used /\ maps \in Seq(MapType)
          /\ maps' = [maps EXCEPT ![e].fallback = TRUE]
      BY <1>4 DEF MaskRaises, Masking, DrawInv
    <2>. HIDE DEF e, MapType
    <2>2. \A f \in DOMAIN maps : maps[f] \in MapType
      BY <2>1
    <2>3. DOMAIN maps' = DOMAIN maps
      BY <2>1
    <2>4. \A f \in DOMAIN maps :
            maps'[f] = IF f = e THEN [maps[f] EXCEPT !.fallback = TRUE] ELSE maps[f]
      BY <2>1
    <2>5. \A f \in DOMAIN maps : maps'[f] \in MapType /\ maps'[f].synthetic = maps[f].synthetic
      BY <2>2, <2>4 DEF MapType
    <2>6. maps' \in Seq(MapType) /\ Len(maps') = Len(maps)
      <3>1. DOMAIN maps = 1..Len(maps) /\ Len(maps) \in Nat
        BY <2>1
      <3>2. maps' = [f \in DOMAIN maps |-> maps'[f]]
        BY <2>1, <2>3
      <3>3. maps' \in [1..Len(maps) -> MapType]
        BY <2>5, <3>1, <3>2
      <3>. QED  BY <3>1, <3>3
    <2>. QED  BY <2>1, <2>3, <2>5, <2>6, DrawsStay DEF MapType
  <1>5. CASE \/ Demask \/ GoNext \/ ValueNext
             \/ \E n \in 1..MaxReply :
                    \E pieces \in [1..n -> IF phase = "reply" THEN Echoes ELSE {}] : Reply(pieces)
    <2>1. phase' \notin {"draw", "mask", "reply"}
      <3>1. CASE Demask
        BY <3>1 DEF Demask
      <3>2. CASE \E n \in 1..MaxReply :
                    \E pieces \in [1..n -> IF phase = "reply" THEN Echoes ELSE {}] : Reply(pieces)
        BY <3>2 DEF Reply
      <3>. QED  BY <1>5, <3>1, <3>2, OtherSteps
    <2>. QED  BY <2>1 DEF DrawInv
  <1>6. CASE UNCHANGED vars
    <2>1. CASE phase \in {"draw", "mask", "reply"}
      <3>1. maps' = maps /\ doc' = doc /\ used' = used
        BY <1>6 DEF vars
      <3>2. maps' \in Seq([synthetic : Drawable, fallback : BOOLEAN])
        BY <2>1, <3>1 DEF DrawInv
      <3>. QED  BY <2>1, <3>1, <3>2, DrawsStay
    <2>2. CASE phase \notin {"draw", "mask", "reply"}
      BY <1>6, <2>2 DEF vars, DrawInv
    <2>. QED  BY <2>1, <2>2
  <1>. QED  BY <1>1, <1>2, <1>3, <1>4, <1>5, <1>6 DEF Next

\* What the shapes are.
LEMMA ShapesAre ==
    ASSUME NEW s \in DOMAIN Shapes
    PROVE  \/ Shapes[s] \in FullShapes
           \/ Shapes[s] \in {<<"f", "p", "S">>, <<"S", "f", "p">>}
           \/ Shapes[s] \in {<<"F", "S">>, <<"S", "F">>, <<"F", "P">>, <<"f", "S">>}
  <1>1. ASSUME NEW a, NEW b, NEW c, NEW d, NEW e, NEW f, NEW g, NEW h,
               NEW k \in DOMAIN (<<a, b, c, d, e>> \o <<f, g, h>>)
        PROVE  (<<a, b, c, d, e>> \o <<f, g, h>>)[k] \in {a, b, c, d, e, f, g, h}
    <2>. DEFINE S == {a, b, c, d, e, f, g, h}
    <2>1. <<a, b, c, d, e>> \in Seq(S) /\ <<f, g, h>> \in Seq(S)
      OBVIOUS
    <2>. HIDE DEF S
    <2>2. <<a, b, c, d, e>> \o <<f, g, h>> \in Seq(S)
      BY <2>1
    <2>3. (<<a, b, c, d, e>> \o <<f, g, h>>)[k] \in S
      BY <1>1, <2>2, ElementOfSeq
    <2>. QED  BY <2>3 DEF S
  <1>2. PICK a, b, c, d, e, f, g, h :
            /\ WordShapes = <<a, b, c, d, e>> /\ InitialShapes = <<f, g, h>>
            /\ a = <<"S", "F", "P">> /\ b = <<"F", "P", "S">> /\ c = <<"F", "S">>
            /\ d = <<"S", "F">> /\ e = <<"F", "P">> /\ f = <<"f", "p", "S">>
            /\ g = <<"S", "f", "p">> /\ h = <<"f", "S">>
    BY Zenon DEF WordShapes, InitialShapes
  <1>3. Shapes[s] \in {a, b, c, d, e, f, g, h}
    BY <1>1, <1>2 DEF Shapes
  <1>. QED  BY <1>2, <1>3, Zenon DEF FullShapes

\* A shape of two words is no text of one or three, and a rendered name is no single word.
LEMMA RenderedLength ==
    ASSUME NEW shape, NEW parts, NEW case
    PROVE  /\ DOMAIN Render(shape, parts, case) = DOMAIN shape
           /\ \A x : 2 \in DOMAIN shape => Render(shape, parts, case) # <<x>>
  <1>1. DOMAIN Render(shape, parts, case) = DOMAIN shape
    BY DEF Render
  <1>2. \A x : DOMAIN <<x>> = {1}
    OBVIOUS
  <1>. QED  BY <1>1, <1>2

LEMMA ShapeLength ==
    ASSUME NEW s \in DOMAIN Shapes
    PROVE  2 \in DOMAIN Shapes[s]
  BY ShapesAre DEF FullShapes

\* The text is a rendering, in one of the shapes, of the name drawn for the entity.
NameForm(e, shapes, text) ==
    /\ maps[e].synthetic # None /\ doc.entities[e].kind # "value"
    /\ \E shape \in shapes, case \in CaseSet : text = Render(shape, maps[e].synthetic, case)

\* The text is the value drawn for the entity.
ValueForm(e, text) ==
    /\ maps[e].synthetic # None /\ doc.entities[e].kind = "value"
    /\ text = <<maps[e].synthetic>>

AllShapes == {Shapes[s] : s \in DOMAIN Shapes}

LEMMA FullNameShape == <<"S", "F", "P">> \in AllShapes /\ <<"S", "F", "P">> \in FullShapes
  <1>1. \A a, b, c, d, e, f, g, h :
            LET t == <<a, b, c, d, e>> \o <<f, g, h>> IN 1 \in DOMAIN t /\ t[1] = a
    OBVIOUS
  <1>2. PICK a, b, c, d, e, f, g, h :
            /\ WordShapes = <<a, b, c, d, e>> /\ InitialShapes = <<f, g, h>>
            /\ a = <<"S", "F", "P">>
    BY Zenon DEF WordShapes, InitialShapes
  <1>3. 1 \in DOMAIN Shapes /\ Shapes[1] = a
    BY <1>1, <1>2 DEF Shapes
  <1>. QED  BY <1>2, <1>3, Zenon DEF AllShapes, FullShapes

\* What is searched for on behalf of an entity.
LEMMA NeedleForms ==
    ASSUME doc \in Documents, NEW e \in DOMAIN doc.entities, NEW n \in Needles(e)
    PROVE  n.text = <<Token(e)>> \/ NameForm(e, AllShapes, n.text) \/ ValueForm(e, n.text)
  <1>1. doc.entities[e].kind \in {"person", "cardholder", "value"}
    BY DocumentsAssumption
  <1>2. CASE n = Needle(<<Token(e)>>, FirstSurface(e), Rank(e, 0, 0))
    BY <1>2 DEF Needle
  <1>3. CASE n # Needle(<<Token(e)>>, FirstSurface(e), Rank(e, 0, 0))
    <2>1. maps[e].synthetic # None
      BY <1>3 DEF Needles
    <2>2. CASE doc.entities[e].kind = "person"
      <3>1. n \in AliasShapePairs(e)
        BY <1>3, <2>2 DEF Needles
      <3>2. PICK s \in DOMAIN Shapes, c \in DOMAIN Cases :
                n.text = Render(Shapes[s], maps[e].synthetic, Cases[c])
        BY <3>1 DEF AliasShapePairs, Needle
      <3>. QED  BY <2>1, <2>2, <3>2 DEF NameForm, AllShapes, CaseSet
    <2>3. CASE doc.entities[e].kind = "cardholder"
      <3>1. n \in LegacyNamePairs(e)
        BY <1>3, <2>3 DEF Needles
      <3>2. PICK c \in DOMAIN Cases :
                n.text = Render(<<"S", "F", "P">>, maps[e].synthetic, Cases[c])
        BY <3>1 DEF LegacyNamePairs, Needle
      <3>. QED  BY <2>1, <2>3, <3>2, FullNameShape DEF NameForm, CaseSet
    <2>4. CASE doc.entities[e].kind = "value"
      BY <1>3, <2>1, <2>4 DEF Needles, Needle, ValueForm
    <2>. QED  BY <1>1, <2>2, <2>3, <2>4
  <1>. QED  BY <1>2, <1>3

\* The full forms a text may repeat.
LEMMA EchoForms ==
    ASSUME DrawInv, phase = "reply", NEW p \in Echoes, p.entity # 0, Len(p.shape) \in {0, 3},
           "f" \notin {p.shape[k] : k \in DOMAIN p.shape}
    PROVE  /\ p.entity \in DOMAIN maps
           /\ \/ p.text = <<Token(p.entity)>>
              \/ NameForm(p.entity, FullShapes, p.text)
              \/ ValueForm(p.entity, p.text)
  <1>. DEFINE Forms(e) ==
                LET entity == doc.entities[e] IN
                IF mode = "TOKEN" \/ maps[e].synthetic = None THEN {}
                ELSE CASE entity.kind = "person" ->
                            {Piece(e, Shapes[s], Render(Shapes[s], maps[e].synthetic, case)) :
                                s \in DOMAIN Shapes, case \in CaseSet}
                       [] OTHER -> {Piece(e, <<>>, Nominal(entity, maps[e].synthetic))}
  <1>1. CASE p \in {Piece(0, <<>>, doc.items[k].text) :
                        k \in {j \in DOMAIN doc.items : doc.items[j].entity = 0}}
    BY <1>1 DEF Piece
  <1>2. CASE p \in {Piece(e, <<>>, <<Token(e)>>) : e \in DOMAIN maps}
    BY <1>2 DEF Piece
  <1>3. CASE p \in UNION {Forms(e) : e \in DOMAIN maps}
    <2>1. PICK e \in DOMAIN maps : p \in Forms(e)
      BY <1>3
    <2>2. maps[e].synthetic # None
      BY <2>1
    <2>3. doc \in Documents /\ e \in DOMAIN doc.entities
      BY EntityCount DEF DrawInv
    <2>4. CASE doc.entities[e].kind = "person"
      <3>1. PICK s \in DOMAIN Shapes, case \in CaseSet :
                p = Piece(e, Shapes[s], Render(Shapes[s], maps[e].synthetic, case))
        BY <2>1, <2>4
      <3>2. p.entity = e /\ p.shape = Shapes[s] /\ p.text = Render(Shapes[s], maps[e].synthetic, case)
        BY <3>1 DEF Piece
      <3>3. Shapes[s] \in FullShapes
        <4>1. Shapes[s] \notin {<<"F", "S">>, <<"S", "F">>, <<"F", "P">>, <<"f", "S">>}
          <5>1. \A x, y : Len(<<x, y>>) = 2
            OBVIOUS
          <5>2. Len(Shapes[s]) \in {0, 3}
            BY <3>2, Zenon
          <5>3. Len(Shapes[s]) # 2
            BY <5>2
          <5>. QED  BY <5>1, <5>3, Zenon
        <4>2. Shapes[s] # <<"f", "p", "S">>
          <5>1. <<"f", "p", "S">>[1] = "f" /\ 1 \in DOMAIN <<"f", "p", "S">>
            OBVIOUS
          <5>. QED  BY <3>2, <5>1
        <4>3. Shapes[s] # <<"S", "f", "p">>
          <5>1. <<"S", "f", "p">>[2] = "f" /\ 2 \in DOMAIN <<"S", "f", "p">>
            OBVIOUS
          <5>. QED  BY <3>2, <5>1
        <4>. QED  BY <4>1, <4>2, <4>3, ShapesAre, Zenon
      <3>. QED  BY <2>2, <2>4, <3>2, <3>3 DEF NameForm
    <2>5. CASE doc.entities[e].kind # "person"
      <3>1. p = Piece(e, <<>>, Nominal(doc.entities[e], maps[e].synthetic))
        BY <2>1, <2>5
      <3>2. p.entity = e /\ p.text = Nominal(doc.entities[e], maps[e].synthetic)
        BY <3>1 DEF Piece
      <3>3. CASE doc.entities[e].kind = "value"
        BY <2>2, <3>2, <3>3 DEF Nominal, IsName, ValueForm
      <3>4. CASE doc.entities[e].kind = "cardholder"
        <4>1. p.text = Render(<<"S", "F", "P">>, maps[e].synthetic, Nominative) /\ Nominative \in CaseSet
          BY <3>2, <3>4, DocumentsAssumption DEF Nominal, IsName, Nominative, CaseSet
        <4>. QED  BY <2>2, <3>2, <3>4, <4>1, FullNameShape DEF NameForm
      <3>. QED  BY <2>3, <2>5, <3>3, <3>4, DocumentsAssumption
    <2>. QED  BY <2>4, <2>5
  <1>. QED  BY <1>1, <1>2, <1>3 DEF Echoes

\* Forms of two entities are never alike: draws are kept apart, and forms tell draws.
LEMMA FormsApart ==
    ASSUME DrawInv, phase = "reply", NEW e \in DOMAIN maps, NEW f \in DOMAIN maps, e # f, NEW text,
           text = <<Token(e)>> \/ NameForm(e, FullShapes, text) \/ ValueForm(e, text),
           text = <<Token(f)>> \/ NameForm(f, AllShapes, text) \/ ValueForm(f, text)
    PROVE  FALSE
  <1>1. /\ doc \in Documents /\ e \in DOMAIN doc.entities /\ f \in DOMAIN doc.entities
    BY EntityCount DEF DrawInv
  <1>2. \A x, y : <<x>> = <<y>> => x = y
    OBVIOUS
  <1>3. \A g \in {e, f}, shapes \in {FullShapes, AllShapes} :
            NameForm(g, shapes, text) => \A x : text # <<x>>
    <2>. SUFFICES ASSUME NEW g \in {e, f}, NEW shapes \in {FullShapes, AllShapes},
                         NameForm(g, shapes, text)
                  PROVE  \A x : text # <<x>>
      OBVIOUS
    <2>1. PICK shape \in shapes, case \in CaseSet : text = Render(shape, maps[g].synthetic, case)
      BY DEF NameForm
    <2>2. 2 \in DOMAIN shape
      <3>1. CASE shape \in FullShapes
        BY <3>1 DEF FullShapes
      <3>2. CASE shape \in AllShapes
        BY <3>2, ShapeLength DEF AllShapes
      <3>. QED  BY <2>1, <3>1, <3>2
    <2>. QED  BY <2>1, <2>2, RenderedLength
  <1>4. \A g \in {e, f} : ValueForm(g, text) => maps[g].synthetic \in Pool(doc.entities[g].type)
    BY DEF ValueForm, DrawInv, Draws, IsName
  <1>5. \A g, h \in {e, f} : <<Token(g)>> = text /\ ValueForm(h, text) => FALSE
    <2>1. \A g, h \in {e, f} : doc.entities[h].kind = "value" => Token(g) \notin Pool(doc.entities[h].type)
      BY <1>1, TokensAssumption
    <2>. QED  BY <1>2, <1>4, <2>1 DEF ValueForm
  <1>6. ~(text = <<Token(e)>> /\ text = <<Token(f)>>)
    BY <1>1, <1>2, TokensAssumption
  <1>7. ~(ValueForm(e, text) /\ ValueForm(f, text))
    BY DEF ValueForm, DrawInv, Drawn, Nominal, IsName
  <1>8. ~(NameForm(e, FullShapes, text) /\ NameForm(f, AllShapes, text))
    <2>. SUFFICES ASSUME NameForm(e, FullShapes, text), NameForm(f, AllShapes, text) PROVE FALSE
      OBVIOUS
    <2>1. PICK s \in FullShapes, c \in CaseSet : text = Render(s, maps[e].synthetic, c)
      BY DEF NameForm
    <2>2. PICK t \in AllShapes, g \in CaseSet : text = Render(t, maps[f].synthetic, g)
      BY DEF NameForm
    <2>3. /\ maps[e].synthetic # None /\ maps[f].synthetic # None
          /\ doc.entities[e].kind # "value" /\ doc.entities[f].kind # "value"
          /\ IsName(doc.entities[e]) /\ IsName(doc.entities[f])
      BY <1>1, DocumentsAssumption DEF NameForm, IsName
    <2>4. /\ maps[e].synthetic \in Identities(doc.entities[e].gender)
          /\ maps[f].synthetic \in Identities(doc.entities[f].gender)
      BY <2>3 DEF DrawInv, Draws
    <2>5. maps[e].synthetic = maps[f].synthetic
      <3>1. PICK k \in DOMAIN Shapes : t = Shapes[k]
        BY <2>2 DEF AllShapes
      <3>2. Render(s, maps[e].synthetic, c) = Render(Shapes[k], maps[f].synthetic, g)
        BY <2>1, <2>2, <3>1
      <3>3. FullNamesTell(doc.entities[e].gender, doc.entities[f].gender)
        BY <1>1, <2>3, NamesAssumption, Zenon
      <3>. QED  BY <2>1, <2>2, <2>4, <3>1, <3>2, <3>3, Zenon DEF FullNamesTell, FullShapes
    <2>6. Drawn(e) = Drawn(f)
      BY <2>3, <2>5 DEF Drawn, Nominal
    <2>. QED  BY <2>3, <2>6 DEF DrawInv
  <1>9. \A g \in {e, f}, shapes \in {FullShapes, AllShapes} :
            ~(NameForm(g, shapes, text) /\ \E x : text = <<x>>)
    BY <1>3, Zenon
  <1>10. \A g \in {e, f} : ValueForm(g, text) => \E x : text = <<x>>
    BY DEF ValueForm
  <1>11. CASE text = <<Token(e)>>
    BY <1>5, <1>6, <1>9, <1>11, Zenon
  <1>12. CASE ValueForm(e, text)
    BY <1>5, <1>7, <1>9, <1>10, <1>12, Zenon
  <1>13. CASE NameForm(e, FullShapes, text)
    BY <1>8, <1>9, <1>10, <1>13, Zenon
  <1>. QED  BY <1>11, <1>12, <1>13

\* In every document, with any pools and any number of retries: a full name in any case,
\* a value and a token stand for one entity only, so that value-based demasking knows
\* whose they are (_build_mapping).
THEOREM FullFormsTell == AllSpec => []FullFormsUnshared
  <1>1. DrawInv => FullFormsUnshared
    <2>. SUFFICES ASSUME DrawInv, phase = "reply", NEW p \in Echoes, p.entity # 0,
                         Len(p.shape) \in {0, 3}, "f" \notin {p.shape[k] : k \in DOMAIN p.shape},
                         NEW f \in DOMAIN maps \ {p.entity}, NEW n \in Needles(f), n.text = p.text
                  PROVE  FALSE
      BY DEF FullFormsUnshared, Shared
    <2>1. /\ p.entity \in DOMAIN maps
          /\ \/ p.text = <<Token(p.entity)>>
             \/ NameForm(p.entity, FullShapes, p.text)
             \/ ValueForm(p.entity, p.text)
      BY EchoForms
    <2>2. p.text = <<Token(f)>> \/ NameForm(f, AllShapes, p.text) \/ ValueForm(f, p.text)
      <3>1. doc \in Documents /\ f \in DOMAIN doc.entities
        BY EntityCount DEF DrawInv
      <3>. QED  BY <3>1, NeedleForms
    <2>. QED  BY <2>1, <2>2, FormsApart
  <1>. QED  BY <1>1, DrawInit, DrawStep, PTL DEF AllSpec

-----------------------------------------------------------------------------
(* Kept text *)

\* The text, piece after piece: the first n of them are in g[1..n].
Runs(g, pieces, n) ==
    /\ g[1..0] = <<>> /\ Joined(pieces) = g[1..n]
    /\ \A k \in 1..n : g[1..k] = g[1..(k - 1)] \o pieces[k] \o <<Separator>>

LEMMA JoinedRuns ==
    ASSUME NEW W, Separator \in W, NEW n \in Nat, NEW pieces \in [1..n -> Seq(W)]
    PROVE  \E g : Runs(g, pieces, n)
  <1>. DEFINE S == 1..n
              pick == [s \in SUBSET S |-> Max(s)]
              step == [p \in S \X Seq(W) |-> p[2] \o pieces[p[1]] \o <<Separator>>]
              Eqn(h) == h = [s \in SUBSET S |-> IF s = {} THEN <<>> ELSE
                                h[s \ {Max(s)}] \o pieces[Max(s)] \o <<Separator>>]
              iter == CHOOSE h : Eqn(h)
  <1>1. IsFiniteSet(S) /\ S \subseteq Int
    BY FS_Interval
  <1>2. \A s \in SUBSET S : s # {} => Max(s) \in s
    <2>. SUFFICES ASSUME NEW s \in SUBSET S, s # {} PROVE Max(s) \in s
      OBVIOUS
    <2>1. IsFiniteSet(s) /\ s \in SUBSET Int
      BY <1>1, FS_Subset
    <2>. QED  BY <2>1, MaxOf
  <1>3. \A s \in SUBSET S : pick[s] = Max(s)
    OBVIOUS
  <1>4. \A x \in S, v \in Seq(W) : step[<<x, v>>] = v \o pieces[x] \o <<Separator>>
    OBVIOUS
  <1>5. \A x \in S, v \in Seq(W) : v \o pieces[x] \o <<Separator>> \in Seq(W)
    <2>1. \A x \in S : pieces[x] \in Seq(W)
      OBVIOUS
    <2>2. <<Separator>> \in Seq(W)
      OBVIOUS
    <2>. HIDE DEF S
    <2>3. ASSUME NEW x \in S, NEW v \in Seq(W)
          PROVE  v \o pieces[x] \o <<Separator>> \in Seq(W)
      <3>1. PICK p \in Seq(W), q \in Seq(W) : p = pieces[x] /\ q = <<Separator>>
        BY <2>1, <2>2, <2>3, Zenon
      <3>2. (v \o p) \o q \in Seq(W)
        BY <2>3
      <3>. QED  BY <3>1, <3>2, Zenon
    <2>. QED  BY <2>3
  <1>6. PICK g \in [SUBSET S -> Seq(W)] : Accumulates(g, S, <<>>, pick, step)
    <2>1. Foldable(S, Seq(W), <<>>, pick, step)
      <3>. HIDE DEF S, pick, step
      <3>1. <<>> \in Seq(W)
        OBVIOUS
      <3>2. \A s \in SUBSET S : s # {} => pick[s] \in s
        BY <1>2, <1>3
      <3>3. \A x \in S, v \in Seq(W) : step[<<x, v>>] \in Seq(W)
        BY <1>4, <1>5, Zenon
      <3>. QED  BY <1>1, <3>1, <3>2, <3>3, Zenon DEF Foldable
    <2>. HIDE DEF S, pick, step
    <2>. QED  BY <2>1, FoldExists
  <1>7. Joined(pieces) = iter[S]
    BY DEF Joined, FoldLeft, MapThenFoldSet
  <1>. HIDE DEF pick, step
  <1>8. Eqn(g)
    <2>1. ASSUME NEW s \in SUBSET S
          PROVE  g[s] = IF s = {} THEN <<>> ELSE
                            g[s \ {Max(s)}] \o pieces[Max(s)] \o <<Separator>>
      <3>1. CASE s = {}
        BY <1>6, <3>1 DEF Accumulates
      <3>2. CASE s # {}
        <4>1. Max(s) \in S /\ s \ {Max(s)} \in SUBSET S /\ pick[s] = Max(s)
          BY <1>2, <1>3, <3>2
        <4>2. g[s] = step[<<Max(s), g[s \ {Max(s)}]>>]
          BY <1>6, <3>2, <4>1 DEF Accumulates
        <4>3. g[s \ {Max(s)}] \in Seq(W)
          BY <4>1
        <4>. QED  BY <1>4, <3>2, <4>1, <4>2, <4>3
      <3>. QED  BY <3>1, <3>2
    <2>. QED  BY <2>1
  <1>9. Eqn(iter)
    <2>. HIDE DEF Eqn
    <2>. QED  BY <1>8
  <1>. HIDE DEF iter
  <1>10. \A s \in SUBSET S : iter[s] = IF s = {} THEN <<>> ELSE
                            iter[s \ {Max(s)}] \o pieces[Max(s)] \o <<Separator>>
    BY <1>9
  <1>11. iter[1..0] = <<>>
    <2>1. 1..0 = {} /\ {} \in SUBSET S
      OBVIOUS
    <2>2. iter[{}] = <<>>
      BY <1>10, <2>1
    <2>. QED  BY <2>1, <2>2
  <1>12. ASSUME NEW k \in 1..n
         PROVE  iter[1..k] = iter[1..(k - 1)] \o pieces[k] \o <<Separator>>
    <2>1. 1..k \in SUBSET S /\ k \in 1..k /\ 1..k \in SUBSET Int
      OBVIOUS
    <2>3. (1..k) \ {k} = 1..(k - 1)
      OBVIOUS
    <2>4. 1..k # {}
      BY <2>1
    <2>2. Max(1..k) = k
      <3>1. k \in Int /\ 1 \in Int
        OBVIOUS
      <3>2. IsFiniteSet(1..k)
        BY <3>1, FS_Interval
      <3>3. Max(1..k) \in 1..k /\ \A y \in 1..k : Max(1..k) >= y
        BY <2>1, <2>4, <3>2, MaxOf
      <3>. QED  BY <2>1, <3>1, <3>3
    <2>. HIDE DEF S
    <2>5. iter[1..k] = iter[(1..k) \ {Max(1..k)}] \o pieces[Max(1..k)] \o <<Separator>>
      BY <1>10, <2>1, <2>4
    <2>. QED  BY <2>2, <2>3, <2>5
  <1>. HIDE DEF Eqn
  <1>. QED  BY <1>7, <1>11, <1>12 DEF Runs

\* The words of the needle follow each other in the text from a on.
Lies(needle, length, text, a) == \A i \in 1..length : text[a + i] = needle[i]

\* Every piece is somewhere in the text, and so is in a piece what no separator is in.
Cut(text, pieces, n, W) ==
    /\ text \in Seq(W)
    /\ Len(text) > 0 => text[Len(text)] = Separator
    /\ \A k \in 1..n : \E a \in Nat :
        /\ a + Len(pieces[k]) <= Len(text)
        /\ Lies(pieces[k], Len(pieces[k]), text, a)
    /\ \A a \in Nat, m \in Nat \ {0} :
        a + m <= Len(text) /\ (\A i \in 1..m : text[a + i] # Separator) =>
            \E k \in 1..n, b \in Nat :
                /\ b + m <= Len(pieces[k])
                /\ \A i \in 1..m : text[a + i] = pieces[k][b + i]

LEMMA OneMore ==
    ASSUME NEW W, NEW text \in Seq(W), NEW x \in W
    PROVE  /\ text \o <<x>> \in Seq(W) /\ Len(text \o <<x>>) = Len(text) + 1
           /\ \A i \in 1..Len(text) : (text \o <<x>>)[i] = text[i]
           /\ (text \o <<x>>)[Len(text) + 1] = x
  <1>1. /\ Append(text, x) \in Seq(W) /\ Len(Append(text, x)) = Len(text) + 1
        /\ \A i \in 1..Len(text) : Append(text, x)[i] = text[i]
        /\ Append(text, x)[Len(text) + 1] = x
    OBVIOUS
  <1>2. Append(text, x) = text \o <<x>>
    BY AppendIsConcat
  <1>. QED  BY <1>1, <1>2, Zenon

LEMMA CutMore ==
    ASSUME NEW W, Separator \in W, NEW n \in Nat, NEW k \in 1..n, NEW pieces \in [1..n -> Seq(W)],
           NEW text, Cut(text, pieces, k - 1, W)
    PROVE  Cut(text \o pieces[k] \o <<Separator>>, pieces, k, W)
  <1>. DEFINE more == text \o pieces[k] \o <<Separator>>
              p == pieces[k]
              m == Len(text)
  <1>1. p \in Seq(W) /\ text \in Seq(W) /\ <<Separator>> \in Seq(W) /\ Len(p) \in Nat /\ m \in Nat
    BY DEF Cut
  <1>2. /\ more \in Seq(W) /\ Len(more) = m + Len(p) + 1
        /\ \A i \in 1..m : more[i] = text[i]
        /\ \A i \in 1..Len(p) : more[m + i] = p[i]
        /\ more[m + Len(p) + 1] = Separator
    <2>1. text \o p \in Seq(W) /\ Len(text \o p) = m + Len(p)
      <3>. HIDE DEF p
      <3>. QED  BY <1>1
    <2>2. PICK t \in Seq(W) : t = text \o p
      BY <2>1
    <2>3. more = t \o <<Separator>>
      BY <2>2
    <2>. HIDE DEF p, more
    <2>4. /\ more \in Seq(W) /\ Len(more) = Len(t) + 1 /\ more[Len(t) + 1] = Separator
          /\ \A i \in 1..Len(t) : more[i] = t[i]
      <3>1. /\ t \o <<Separator>> \in Seq(W) /\ Len(t \o <<Separator>>) = Len(t) + 1
            /\ \A i \in 1..Len(t) : (t \o <<Separator>>)[i] = t[i]
            /\ (t \o <<Separator>>)[Len(t) + 1] = Separator
        BY OneMore, Zenon
      <3>. QED  BY <2>3, <3>1, Zenon
    <2>6. \A i \in 1..m : i \in 1..(m + Len(p)) /\ (text \o p)[i] = text[i]
      BY <1>1
    <2>7. \A i \in 1..Len(p) : m + i \in 1..(m + Len(p)) /\ (text \o p)[m + i] = p[i]
      BY <1>1
    <2>8. /\ more \in Seq(W) /\ Len(more) = (m + Len(p)) + 1
          /\ \A i \in 1..(m + Len(p)) : more[i] = (text \o p)[i]
          /\ more[(m + Len(p)) + 1] = Separator
      BY <2>1, <2>2, <2>4
    <2>. QED  BY <2>6, <2>7, <2>8
  <1>. HIDE DEF more, p, m
  <1>3. \A j \in 1..k : j \in 1..(k - 1) \/ j = k
    OBVIOUS
  <1>4. ASSUME NEW j \in 1..k
        PROVE  \E a \in Nat : a + Len(pieces[j]) <= Len(more) /\ Lies(pieces[j], Len(pieces[j]), more, a)
    <2>1. CASE j = k
      <3>1. m + Len(p) <= Len(more) /\ Lies(p, Len(p), more, m)
        BY <1>1, <1>2 DEF Lies
      <3>. QED  BY <1>1, <2>1, <3>1 DEF p
    <2>2. CASE j \in 1..(k - 1)
      <3>1. PICK a \in Nat : a + Len(pieces[j]) <= m /\ Lies(pieces[j], Len(pieces[j]), text, a)
        BY <2>2 DEF Cut, m
      <3>2. Len(pieces[j]) \in Nat
        <4>1. pieces[j] \in Seq(W)
          BY <2>2
        <4>. QED  BY <4>1
      <3>3. \A i \in 1..Len(pieces[j]) : a + i \in 1..m
        BY <1>1, <3>1, <3>2
      <3>4. Lies(pieces[j], Len(pieces[j]), more, a)
        BY <1>2, <3>1, <3>3 DEF Lies
      <3>5. a + Len(pieces[j]) <= Len(more)
        BY <1>1, <1>2, <3>1, <3>2
      <3>. QED  BY <3>4, <3>5
    <2>. QED  BY <1>3, <2>1, <2>2
  <1>5. ASSUME NEW a \in Nat, NEW l \in Nat \ {0}, a + l <= Len(more),
               \A i \in 1..l : more[a + i] # Separator
        PROVE  \E j \in 1..k, b \in Nat :
                   b + l <= Len(pieces[j]) /\ \A i \in 1..l : more[a + i] = pieces[j][b + i]
    <2>1. CASE a + l <= m
      <3>1. \A i \in 1..l : a + i \in 1..m
        BY <1>1, <2>1
      <3>2. \A i \in 1..l : more[a + i] = text[a + i]
        BY <1>2, <3>1
      <3>4. \A i \in 1..l : text[a + i] # Separator
        BY <1>5, <3>2
      <3>3. PICK j \in 1..(k - 1), b \in Nat :
                b + l <= Len(pieces[j]) /\ \A i \in 1..l : text[a + i] = pieces[j][b + i]
        BY <2>1, <3>4 DEF Cut, m
      <3>5. j \in 1..k
        OBVIOUS
      <3>6. \A i \in 1..l : more[a + i] = pieces[j][b + i]
        BY <3>2, <3>3
      <3>. QED  BY <3>3, <3>5, <3>6
    <2>2. CASE a < m /\ m < a + l
      <3>1. m - a \in 1..l /\ a + (m - a) = m /\ m \in 1..m /\ m > 0
        BY <1>1, <2>2
      <3>2. more[m] # Separator
        BY <1>5, <3>1
      <3>. QED  BY <1>2, <3>1, <3>2 DEF Cut, m
    <2>3. CASE m <= a
      <3>1. a - m \in Nat
        BY <1>1, <2>3
      <3>2. a + l # m + Len(p) + 1
        <4>1. l \in 1..l /\ more[a + l] # Separator
          BY <1>5
        <4>. QED  BY <1>2, <4>1
      <3>3. (a - m) + l <= Len(p)
        <4>1. a + l <= m + Len(p)
          <5>1. PICK c \in Nat : c = m + Len(p)
            BY <1>1
          <5>2. a + l <= c + 1 /\ a + l # c + 1 /\ a + l \in Nat
            BY <1>2, <1>5, <3>2, <5>1
          <5>. QED  BY <5>1, <5>2
        <4>. QED  BY <1>1, <3>1, <4>1
      <3>4. \A i \in 1..l : (a - m) + i \in 1..Len(p) /\ m + ((a - m) + i) = a + i
        BY <1>1, <3>1, <3>3
      <3>5. \A i \in 1..l : more[a + i] = p[(a - m) + i]
        BY <1>2, <3>4
      <3>6. k \in 1..k
        OBVIOUS
      <3>. QED  BY <3>1, <3>3, <3>5, <3>6 DEF p
    <2>. QED  BY <1>1, <2>1, <2>2, <2>3
  <1>6. Len(more) > 0 => more[Len(more)] = Separator
    BY <1>2
  <1>7. Cut(more, pieces, k, W)
    BY <1>2, <1>4, <1>5, <1>6 DEF Cut
  <1>. QED  BY <1>7 DEF more

LEMMA JoinedCut ==
    ASSUME NEW W, Separator \in W, NEW n \in Nat, NEW pieces \in [1..n -> Seq(W)]
    PROVE  Cut(Joined(pieces), pieces, n, W)
  <1>1. PICK g : Runs(g, pieces, n)
    BY JoinedRuns
  <1>. DEFINE T == {k \in Nat : k <= n => Cut(g[1..k], pieces, k, W)}
  <1>2. 0 \in T
    <2>1. g[1..0] = <<>> /\ <<>> \in Seq(W) /\ Len(<<>>) = 0
      BY <1>1 DEF Runs
    <2>2. Cut(g[1..0], pieces, 0, W)
      BY <2>1 DEF Cut
    <2>. QED  BY <2>2
  <1>3. ASSUME NEW k \in Nat, k \in T PROVE k + 1 \in T
    <2>1. CASE k + 1 <= n
      <3>1. k + 1 \in 1..n /\ (k + 1) - 1 = k /\ Cut(g[1..k], pieces, k, W)
        BY <1>3, <2>1
      <3>2. g[1..(k + 1)] = g[1..k] \o pieces[k + 1] \o <<Separator>>
        BY <1>1, <3>1 DEF Runs
      <3>3. Cut(g[1..k] \o pieces[k + 1] \o <<Separator>>, pieces, k + 1, W)
        BY <3>1, CutMore
      <3>4. Cut(g[1..(k + 1)], pieces, k + 1, W)
        BY <3>2, <3>3
      <3>. QED  BY <3>4
    <2>2. CASE ~(k + 1 <= n)
      BY <2>2
    <2>. QED  BY <2>1, <2>2
  <1>4. n \in T
    <2>. HIDE DEF T
    <2>. QED  BY <1>2, <1>3, NatSetInduction
  <1>5. Cut(g[1..n], pieces, n, W)
    BY <1>4
  <1>. QED  BY <1>1, <1>5 DEF Runs

\* Where a needle is found.
LEMMA OccursAt ==
    ASSUME NEW W, NEW m \in Nat, NEW needle, DOMAIN needle = 1..m, needle \in Seq(Range(needle)),
           NEW text \in Seq(W)
    PROVE  Occurs(needle, text) <=>
               \E a \in Nat : a + m <= Len(text) /\ Lies(needle, m, text, a)
  <1>1. Len(needle) = m
    OBVIOUS
  <1>2. ASSUME NEW a \in Nat, a + m <= Len(text)
        PROVE  SubSeq(text, a + 1, a + m) = needle <=> Lies(needle, m, text, a)
    <2>1. /\ SubSeq(text, a + 1, a + m) \in Seq(W) /\ Len(SubSeq(text, a + 1, a + m)) = m
          /\ \A i \in 1..m : SubSeq(text, a + 1, a + m)[i] = text[a + i]
      BY <1>2
    <2>. DEFINE sub == SubSeq(text, a + 1, a + m)
    <2>. HIDE DEF sub
    <2>2. DOMAIN sub = 1..m /\ sub \in Seq(W)
      BY <2>1 DEF sub
    <2>3. sub = needle <=> \A i \in 1..m : sub[i] = needle[i]
      BY <1>1, <2>2
    <2>. QED  BY <2>1, <2>3 DEF sub, Lies
  <1>3. \A a \in Nat : a + m <= Len(text) <=> a \in 0..(Len(text) - m)
    OBVIOUS
  <1>4. \A a \in 0..(Len(text) - m) : a \in Nat
    OBVIOUS
  <1>. QED  BY <1>1, <1>2, <1>3, <1>4 DEF Occurs, Places

Texts(pieces) == \E W : Separator \in W /\ \E n \in Nat : pieces \in [1..n -> Seq(W)]

\* A non-empty sequence of words.
Wordy(text) ==
    /\ \E m \in Nat \ {0} : DOMAIN text = 1..m
    /\ text \in Seq(Range(text)) /\ Separator \notin Range(text)

\* A needle without separators that is in the text is in a piece.
LEMMA FoundInPiece ==
    ASSUME NEW pieces, Texts(pieces), NEW needle, Wordy(needle), Occurs(needle, Joined(pieces))
    PROVE  \E k \in DOMAIN pieces : Occurs(needle, pieces[k])
  <1>0. PICK m \in Nat \ {0} : DOMAIN needle = 1..m
    BY DEF Wordy
  <1>10. needle \in Seq(Range(needle)) /\ Separator \notin Range(needle)
    BY DEF Wordy
  <1>11. PICK W : Separator \in W /\ \E n \in Nat : pieces \in [1..n -> Seq(W)]
    BY DEF Texts
  <1>12. PICK n \in Nat : pieces \in [1..n -> Seq(W)]
    BY <1>11
  <1>. DEFINE text == Joined(pieces)
  <1>1. Cut(text, pieces, n, W)
    BY <1>11, <1>12, JoinedCut
  <1>. HIDE DEF text
  <1>2. text \in Seq(W)
    BY <1>1 DEF Cut
  <1>3. PICK a \in Nat : a + m <= Len(text) /\ Lies(needle, m, text, a)
    BY <1>0, <1>2, <1>10, OccursAt DEF text
  <1>4. \A i \in 1..m : text[a + i] # Separator
    BY <1>0, <1>3, <1>10 DEF Lies, Range
  <1>5. PICK k \in 1..n, b \in Nat :
            b + m <= Len(pieces[k]) /\ \A i \in 1..m : text[a + i] = pieces[k][b + i]
    BY <1>1, <1>3, <1>4 DEF Cut
  <1>6. Lies(needle, m, pieces[k], b)
    BY <1>3, <1>5 DEF Lies
  <1>7. pieces[k] \in Seq(W) /\ k \in DOMAIN pieces
    BY <1>12
  <1>8. Occurs(needle, pieces[k])
    BY <1>0, <1>5, <1>6, <1>7, <1>10, OccursAt
  <1>. QED  BY <1>7, <1>8

Begins(start, needle) ==
    \E l \in Nat : \E m \in 0..l :
        /\ DOMAIN needle = 1..l /\ needle \in Seq(Range(needle))
        /\ DOMAIN start = 1..m /\ start \in Seq(Range(start))
        /\ \A i \in 1..m : start[i] = needle[i]

\* What is in a piece is in the text, and so is its beginning.
LEMMA PieceInText ==
    ASSUME NEW pieces, Texts(pieces), NEW k \in DOMAIN pieces,
           NEW needle, NEW start, Begins(start, needle), Occurs(needle, pieces[k])
    PROVE  Occurs(start, Joined(pieces))
  <1>9. PICK W : Separator \in W /\ \E n \in Nat : pieces \in [1..n -> Seq(W)]
    BY DEF Texts
  <1>10. PICK n \in Nat : pieces \in [1..n -> Seq(W)]
    BY <1>9
  <1>11. PICK l \in Nat : \E m \in 0..l :
            /\ DOMAIN needle = 1..l /\ needle \in Seq(Range(needle))
            /\ DOMAIN start = 1..m /\ start \in Seq(Range(start))
            /\ \A i \in 1..m : start[i] = needle[i]
    BY DEF Begins
  <1>12. PICK m \in 0..l :
            /\ DOMAIN needle = 1..l /\ needle \in Seq(Range(needle))
            /\ DOMAIN start = 1..m /\ start \in Seq(Range(start))
            /\ \A i \in 1..m : start[i] = needle[i]
    BY <1>11
  <1>. DEFINE text == Joined(pieces)
              p == pieces[k]
  <1>1. Cut(text, pieces, n, W) /\ p \in Seq(W) /\ k \in 1..n
    BY <1>9, <1>10, JoinedCut
  <1>. HIDE DEF text, p
  <1>2. text \in Seq(W) /\ Len(text) \in Nat /\ Len(p) \in Nat
    BY <1>1 DEF Cut
  <1>3. PICK a \in Nat : a + Len(p) <= Len(text) /\ Lies(p, Len(p), text, a)
    BY <1>1 DEF Cut, p
  <1>4. PICK b \in Nat : b + l <= Len(p) /\ Lies(needle, l, p, b)
    <2>1. Occurs(needle, p)
      BY DEF p
    <2>. QED  BY <1>1, <1>12, <2>1, OccursAt
  <1>5. m \in Nat /\ a + b \in Nat /\ (a + b) + m <= Len(text)
    BY <1>2, <1>3, <1>4
  <1>6. ASSUME NEW i \in 1..m PROVE text[(a + b) + i] = start[i]
    <2>1. i \in 1..l /\ b + i \in 1..Len(p) /\ a + (b + i) = (a + b) + i
      BY <1>2, <1>4
    <2>2. text[a + (b + i)] = p[b + i] /\ p[b + i] = needle[i]
      BY <1>3, <1>4, <2>1 DEF Lies
    <2>. QED  BY <1>12, <2>1, <2>2
  <1>7. Lies(start, m, text, a + b)
    BY <1>6 DEF Lies
  <1>8. Occurs(start, text)
    BY <1>2, <1>5, <1>7, <1>12, OccursAt
  <1>. QED  BY <1>8 DEF text

\* Nothing is spliced where no span was chosen.
LEMMA NothingApplied ==
    ASSUME NEW text, Len(text) \in Nat
    PROVE  Applied(text, ChosenSpans({})) = text
  <1>1. ChosenSpans({}) = {}
    <2>. DEFINE Round(chosen, round) ==
                    LET free == {s \in {} : \A t \in chosen : s.to <= t.from \/ t.to <= s.from} IN
                    IF free = {} THEN chosen
                    ELSE chosen \cup {CHOOSE s \in free : \A t \in free \ {s} : Before(s, t)}
                rounds == [round \in 1..Cardinality({}) |-> round]
                Eqn(h) == h = [s \in SUBSET DOMAIN rounds |-> IF s = {} THEN {} ELSE
                                  Round(h[s \ {Max(s)}], rounds[Max(s)])]
                iter == CHOOSE h : Eqn(h)
    <2>1. DOMAIN rounds = {}
      BY FS_EmptySet
    <2>2. ChosenSpans({}) = iter[DOMAIN rounds]
      BY DEF ChosenSpans, FoldLeft, MapThenFoldSet
    <2>. DEFINE g == [s \in SUBSET DOMAIN rounds |-> {}]
    <2>. HIDE DEF rounds
    <2>3. \A s \in SUBSET DOMAIN rounds : s = {}
      BY <2>1
    <2>4. Eqn(g)
      BY <2>3
    <2>5. Eqn(iter)
      <3>. HIDE DEF Eqn
      <3>. QED  BY <2>4
    <2>. HIDE DEF iter
    <2>6. iter[{}] = {}
      <3>1. {} \in SUBSET DOMAIN rounds
        OBVIOUS
      <3>. QED  BY <2>5, <3>1
    <2>. QED  BY <2>1, <2>2, <2>6
  <1>2. Applied(text, {}) = text
    <2>. DEFINE froms == [k \in 1..Len(text) |-> Len(text) - k]
                Eqn(h) == h = [s \in SUBSET DOMAIN froms |-> IF s = {} THEN text ELSE
                                  SplicedAt(h[s \ {Max(s)}], {}, froms[Max(s)])]
                iter == CHOOSE h : Eqn(h)
                S == DOMAIN froms
    <2>1. Applied(text, {}) = iter[S]
      BY DEF Applied, FoldLeft, MapThenFoldSet
    <2>2. \A t, from : SplicedAt(t, {}, from) = t
      BY DEF SplicedAt
    <2>3. IsFiniteSet(S) /\ S \subseteq Int
      <3>1. S = 1..Len(text) /\ 1 \in Int /\ Len(text) \in Int
        OBVIOUS
      <3>. HIDE DEF S
      <3>. QED  BY <3>1, FS_Interval
    <2>. DEFINE g == [s \in SUBSET DOMAIN froms |-> text]
    <2>. HIDE DEF froms
    <2>4. \A s \in SUBSET DOMAIN froms : s \ {Max(s)} \in SUBSET DOMAIN froms
      OBVIOUS
    <2>5. Eqn(g)
      BY <2>2, <2>4
    <2>6. Eqn(iter)
      <3>. HIDE DEF Eqn
      <3>. QED  BY <2>5
    <2>. HIDE DEF iter
    <2>7. \A s \in SUBSET S : iter[s] = IF s = {} THEN text ELSE iter[s \ {Max(s)}]
      BY <2>2, <2>6
    <2>. DEFINE F == {X \in SUBSET S : iter[X] # text}
    <2>. HIDE DEF S
    <2>8. F = {}
      <3>. SUFFICES ASSUME F # {} PROVE FALSE
        OBVIOUS
      <3>1. \A X \in F : IsFiniteSet(X)
        BY <2>3, FS_Subset
      <3>2. PICK X \in F : \A Y \in F : Y \subseteq X => Y = X
        <4>. HIDE DEF F
        <4>. QED  BY <3>1, MinimalFamily
      <3>3. X # {} /\ X \in SUBSET S /\ iter[X] # text
        BY <2>7, <3>2
      <3>4. Max(X) \in X
        <4>1. X \in SUBSET Int /\ IsFiniteSet(X)
          BY <2>3, <3>1, <3>2
        <4>. QED  BY <3>3, <4>1, MaxOf
      <3>5. X \ {Max(X)} \in SUBSET S /\ X \ {Max(X)} # X /\ iter[X] = iter[X \ {Max(X)}]
        BY <2>7, <3>3, <3>4
      <3>6. X \ {Max(X)} \in F
        BY <3>3, <3>5
      <3>. QED  BY <3>2, <3>5, <3>6
    <2>9. S \in SUBSET S
      OBVIOUS
    <2>10. iter[S] = text
      BY <2>8, <2>9
    <2>. QED  BY <2>1, <2>10 DEF S
  <1>. QED  BY <1>1, <1>2

TwoWords == {<<"F", "P">>, <<"F", "S">>, <<"S", "F">>}

Source(d) == Joined([k \in DOMAIN d.items |-> d.items[k].text])

\* The draw is not in the source text, neither in full nor in two words.
Absent(d, entity, draw) ==
    /\ ~Occurs(Nominal(entity, draw), Source(d))
    /\ IsName(entity) =>
        \A shape \in TwoWords, case \in CaseSet : ~Occurs(Render(shape, draw, case), Source(d))

Clean(d, m) ==
    /\ d \in Documents /\ DOMAIN m \subseteq DOMAIN d.entities
    /\ \A e \in DOMAIN m : m[e].synthetic # None =>
        m[e].synthetic \in Draws(d.entities[e]) /\ Absent(d, d.entities[e], m[e].synthetic)

LEMMA ItemTexts ==
    ASSUME NEW d \in Documents
    PROVE  \E W : /\ Separator \in W
                  /\ \A k \in DOMAIN d.items : d.items[k].text \in Seq(W)
  <1>. DEFINE W == {Separator} \cup UNION {Range(d.items[k].text) : k \in DOMAIN d.items}
  <1>2. ASSUME NEW k \in DOMAIN d.items PROVE d.items[k].text \in Seq(W)
    <2>1. d.items[k].text \in Seq(Range(d.items[k].text))
      BY DocumentsAssumption
    <2>2. Range(d.items[k].text) \subseteq W
      OBVIOUS
    <2>. HIDE DEF W
    <2>3. \A S, T, t : S \subseteq T /\ t \in Seq(S) => t \in Seq(T)
      OBVIOUS
    <2>. QED  BY <2>1, <2>2, <2>3, Zenon
  <1>3. Separator \in W
    OBVIOUS
  <1>. HIDE DEF W
  <1>. QED  BY <1>2, <1>3

\* What an item begins to say, the source text says.
LEMMA ItemInSource ==
    ASSUME NEW d \in Documents, NEW k \in DOMAIN d.items,
           NEW needle, NEW start, Begins(start, needle), Occurs(needle, d.items[k].text)
    PROVE  Occurs(start, Source(d))
  <1>1. PICK W : Separator \in W /\ \A j \in DOMAIN d.items : d.items[j].text \in Seq(W)
    BY ItemTexts
  <1>2. PICK n \in Nat : DOMAIN d.items = 1..n
    BY DocumentsAssumption
  <1>3. PICK pieces : pieces = [j \in DOMAIN d.items |-> d.items[j].text]
    OBVIOUS
  <1>4. pieces \in [1..n -> Seq(W)] /\ k \in DOMAIN pieces /\ pieces[k] = d.items[k].text
    BY <1>1, <1>2, <1>3
  <1>5. Texts(pieces)
    BY <1>1, <1>4 DEF Texts
  <1>6. Occurs(start, Joined(pieces))
    BY <1>4, <1>5, PieceInText
  <1>. QED  BY <1>3, <1>6 DEF Source

\* A rendered shape is a sequence of words.
LEMMA RenderedWords ==
    ASSUME NEW m \in Nat, NEW shape, DOMAIN shape = 1..m, NEW parts, NEW case
    PROVE  /\ DOMAIN Render(shape, parts, case) = 1..m
           /\ Render(shape, parts, case) \in Seq(Range(Render(shape, parts, case)))
  <1>. DEFINE text == Render(shape, parts, case)
  <1>1. text = [k \in 1..m |-> text[k]]
    BY DEF Render
  <1>. HIDE DEF text
  <1>2. text \in [1..m -> Range(text)]
    BY <1>1 DEF Range
  <1>3. text \in Seq(Range(text)) /\ DOMAIN text = 1..m
    BY <1>2
  <1>. QED  BY <1>3 DEF text

LEMMA ShapeDomain ==
    ASSUME NEW s \in DOMAIN Shapes
    PROVE  \E m \in {2, 3} : DOMAIN Shapes[s] = 1..m
  <1>1. \A x, y : DOMAIN <<x, y>> = 1..2
    OBVIOUS
  <1>2. \A x, y, z : DOMAIN <<x, y, z>> = 1..3
    OBVIOUS
  <1>3. \A u \in FullShapes : DOMAIN u = 1..3
    BY <1>2 DEF FullShapes
  <1>4. \A u \in {<<"f", "p", "S">>, <<"S", "f", "p">>} : DOMAIN u = 1..3
    BY <1>2
  <1>5. \A u \in {<<"F", "S">>, <<"S", "F">>, <<"F", "P">>, <<"f", "S">>} : DOMAIN u = 1..2
    BY <1>1
  <1>. QED  BY <1>3, <1>4, <1>5, ShapesAre, Zenon

\* A shape begins with two words, or has initials.
LEMMA ShapeBegins ==
    ASSUME NEW s \in DOMAIN Shapes
    PROVE  \/ \E two \in TwoWords : \A i \in 1..2 : two[i] = Shapes[s][i]
           \/ \E t \in DOMAIN InitialShapes : Shapes[s] = InitialShapes[t]
  <1>1. \A x, y, z : \A i \in 1..2 : <<x, y>>[i] = <<x, y, z>>[i]
    OBVIOUS
  <1>2. <<"F", "P">> \in TwoWords /\ <<"F", "S">> \in TwoWords /\ <<"S", "F">> \in TwoWords
    BY DEF TwoWords
  <1>3. \A x, y, z : \A u \in {x, y, z} : \E t \in DOMAIN <<x, y, z>> : u = <<x, y, z>>[t]
    <2>1. \A x, y, z : /\ DOMAIN <<x, y, z>> = {1, 2, 3}
                       /\ <<x, y, z>>[1] = x /\ <<x, y, z>>[2] = y /\ <<x, y, z>>[3] = z
      OBVIOUS
    <2>. QED  BY <2>1
  <1>4. \A u \in {<<"f", "p", "S">>, <<"S", "f", "p">>, <<"f", "S">>} :
            \E t \in DOMAIN InitialShapes : u = InitialShapes[t]
    <2>1. PICK x, y, z : /\ x = <<"f", "p", "S">> /\ y = <<"S", "f", "p">> /\ z = <<"f", "S">>
                         /\ InitialShapes = <<x, y, z>>
      BY Zenon DEF InitialShapes
    <2>2. \A u \in {x, y, z} : \E t \in DOMAIN <<x, y, z>> : u = <<x, y, z>>[t]
      BY <1>3
    <2>4. InitialShapes = <<x, y, z>>
      BY <2>1
    <2>3. \A u \in {x, y, z} : \E t \in DOMAIN InitialShapes : u = InitialShapes[t]
      BY <2>2, <2>4
    <2>. QED  BY <2>1, <2>3, Zenon
  <1>5. CASE Shapes[s] \in FullShapes \cup TwoWords
    <2>1. PICK shape : shape = Shapes[s]
      OBVIOUS
    <2>2. CASE shape \in TwoWords
      BY <2>1, <2>2
    <2>3. CASE shape = <<"S", "F", "P">>
      <3>1. PICK two : two = <<"S", "F">>
        OBVIOUS
      <3>2. \A i \in 1..2 : two[i] = shape[i]
        BY <1>1, <2>3, <3>1
      <3>. QED  BY <1>2, <2>1, <3>1, <3>2
    <2>4. CASE shape = <<"F", "P", "S">>
      <3>1. PICK two : two = <<"F", "P">>
        OBVIOUS
      <3>2. \A i \in 1..2 : two[i] = shape[i]
        BY <1>1, <2>4, <3>1
      <3>. QED  BY <1>2, <2>1, <3>1, <3>2
    <2>. QED  BY <1>5, <2>1, <2>2, <2>3, <2>4, Zenon DEF FullShapes
  <1>6. CASE Shapes[s] \in {<<"f", "p", "S">>, <<"S", "f", "p">>, <<"f", "S">>}
    BY <1>4, <1>6, Zenon
  <1>7. Shapes[s] \in FullShapes \cup TwoWords \/ Shapes[s] \in {<<"f", "p", "S">>, <<"S", "f", "p">>, <<"f", "S">>}
    BY ShapesAre, Zenon DEF TwoWords
  <1>. QED  BY <1>5, <1>6, <1>7

\* No needle of a text whose draws are absent from it is in a plain item.
LEMMA NeedleElsewhere ==
    ASSUME Clean(doc, maps), NEW e \in DOMAIN maps, NEW n \in Needles(e)
    PROVE  /\ Wordy(n.text)
           /\ \A k \in DOMAIN doc.items : Plain(doc.items[k].text) => ~Occurs(n.text, doc.items[k].text)
  <1>1. doc \in Documents /\ e \in DOMAIN doc.entities
    BY DEF Clean
  <1>2. \A x : DOMAIN <<x>> = 1..1 /\ <<x>> \in Seq(Range(<<x>>)) /\ Range(<<x>>) = {x}
    <2>. SUFFICES ASSUME NEW x PROVE DOMAIN <<x>> = 1..1 /\ <<x>> \in Seq(Range(<<x>>)) /\ Range(<<x>>) = {x}
      OBVIOUS
    <2>1. DOMAIN <<x>> = 1..1 /\ <<x>>[1] = x
      OBVIOUS
    <2>2. Range(<<x>>) = {x}
      BY <2>1 DEF Range
    <2>. QED  BY <2>1, <2>2
  <1>3. CASE n.text = <<Token(e)>>
    <2>1. Token(e) # Separator
      BY <1>1, SeparatorAssumption
    <2>2. Wordy(n.text)
      BY <1>2, <1>3, <2>1 DEF Wordy
    <2>3. \A text : Plain(text) => ~Occurs(n.text, text)
      BY <1>3 DEF Plain
    <2>. QED  BY <2>2, <2>3
  <1>4. CASE ValueForm(e, n.text)
    <2>1. PICK draw : draw = maps[e].synthetic
      OBVIOUS
    <2>2. /\ draw \in Pool(doc.entities[e].type) /\ n.text = <<draw>>
          /\ Nominal(doc.entities[e], draw) = <<draw>> /\ Absent(doc, doc.entities[e], draw)
      BY <1>4, <2>1 DEF Clean, ValueForm, Draws, IsName, Nominal
    <2>3. draw # Separator
      BY <1>1, <1>4, <2>2, SeparatorAssumption DEF ValueForm
    <2>4. Wordy(n.text)
      BY <1>2, <2>2, <2>3 DEF Wordy
    <2>5. ASSUME NEW k \in DOMAIN doc.items, Occurs(n.text, doc.items[k].text) PROVE FALSE
      <3>1. DOMAIN n.text = 1..1 /\ n.text \in Seq(Range(n.text))
        BY <1>2, <2>2
      <3>2. Begins(n.text, n.text)
        <4>1. 1 \in Nat /\ 1 \in 0..1
          OBVIOUS
        <4>. QED  BY <3>1, <4>1 DEF Begins
      <3>3. Occurs(n.text, Source(doc))
        BY <1>1, <2>5, <3>2, ItemInSource
      <3>. QED  BY <2>2, <3>3 DEF Absent
    <2>. QED  BY <2>4, <2>5
  <1>5. CASE NameForm(e, AllShapes, n.text)
    <2>1. PICK s \in DOMAIN Shapes, case \in CaseSet :
              n.text = Render(Shapes[s], maps[e].synthetic, case)
      BY <1>5 DEF NameForm, AllShapes
    <2>2. PICK draw : draw = maps[e].synthetic
      OBVIOUS
    <2>3. PICK shape : shape = Shapes[s]
      OBVIOUS
    <2>4. /\ draw # None /\ IsName(doc.entities[e]) /\ Absent(doc, doc.entities[e], draw)
          /\ draw \in Identities(doc.entities[e].gender) /\ doc.entities[e].kind # "value"
      <3>1. draw # None /\ doc.entities[e].kind # "value"
        BY <1>5, <2>2 DEF NameForm
      <3>2. IsName(doc.entities[e])
        BY <1>1, <3>1, DocumentsAssumption DEF IsName
      <3>3. draw \in Draws(doc.entities[e]) /\ Absent(doc, doc.entities[e], draw)
        BY <2>2, <3>1 DEF Clean
      <3>. QED  BY <3>1, <3>2, <3>3 DEF Draws
    <2>5. n.text = Render(shape, draw, case)
      BY <2>1, <2>2, <2>3
    <2>6. Separator \notin Range(n.text)
      BY <1>1, <2>1, <2>2, <2>4, SeparatorAssumption
    <2>7. PICK m \in {2, 3} : DOMAIN shape = 1..m
      BY <2>3, ShapeDomain
    <2>8. DOMAIN n.text = 1..m /\ n.text \in Seq(Range(n.text))
      BY <2>5, <2>7, RenderedWords
    <2>9. Wordy(n.text)
      BY <2>6, <2>7, <2>8 DEF Wordy
    <2>10. ASSUME NEW k \in DOMAIN doc.items, Plain(doc.items[k].text),
                  Occurs(n.text, doc.items[k].text)
           PROVE  FALSE
      <3>1. ASSUME NEW two \in TwoWords, \A i \in 1..2 : two[i] = shape[i]
            PROVE  FALSE
        <4>1. DOMAIN two = 1..2
          BY <3>1 DEF TwoWords
        <4>2. PICK start : start = Render(two, draw, case)
          OBVIOUS
        <4>3. DOMAIN start = 1..2 /\ start \in Seq(Range(start))
          BY <4>1, <4>2, RenderedWords
        <4>4. \A i \in 1..2 : start[i] = n.text[i]
          BY <2>5, <2>7, <3>1, <4>1, <4>2 DEF Render
        <4>5. Occurs(start, Source(doc))
          <5>1. m \in Nat /\ 2 \in 0..m
            BY <2>7
          <5>2. Begins(start, n.text)
            BY <2>8, <4>3, <4>4, <5>1 DEF Begins
          <5>. QED  BY <1>1, <2>10, <5>2, ItemInSource
        <4>. QED  BY <2>4, <4>2, <4>5 DEF Absent
      <3>2. CASE \E two \in TwoWords : \A i \in 1..2 : two[i] = shape[i]
        BY <3>1, <3>2
      <3>3. CASE \E t \in DOMAIN InitialShapes : shape = InitialShapes[t]
        <4>1. PICK t \in DOMAIN InitialShapes : shape = InitialShapes[t]
          BY <3>3
        <4>2. ~Occurs(Render(InitialShapes[t], draw, case), doc.items[k].text)
          BY <2>2, <2>4, <2>10 DEF Plain
        <4>. QED  BY <2>5, <2>10, <4>1, <4>2
      <3>. QED  BY <2>3, <3>2, <3>3, ShapeBegins
    <2>. QED  BY <2>9, <2>10
  <1>. QED  BY <1>1, <1>3, <1>4, <1>5, NeedleForms

\* A reply, and which of its pieces are words of the source text.
Said(r) == Joined([k \in DOMAIN r |-> r[k].text])

FromItems(d, r) ==
    /\ \E n \in Nat : DOMAIN r = 1..n
    /\ \A k \in DOMAIN r : r[k].entity = 0 => \E j \in DOMAIN d.items : r[k].text = d.items[j].text

PlainIn(d, m, text) ==
    \A e \in DOMAIN m :
        /\ ~Occurs(<<Token(e)>>, text)
        /\ m[e].synthetic # None /\ IsName(d.entities[e]) =>
            \A s \in DOMAIN InitialShapes, case \in CaseSet :
                ~Occurs(Render(InitialShapes[s], m[e].synthetic, case), text)

KeptOnly(d, m, r) == \A k \in DOMAIN r : r[k].entity = 0 /\ PlainIn(d, m, r[k].text)

\* No needle is in a text of plain pieces that were kept, so that it comes back as it is.
LEMMA KeptUntouched ==
    ASSUME Clean(doc, maps), FromItems(doc, reply), KeptOnly(doc, maps, reply)
    PROVE  DemaskText(Said(reply)) = Said(reply)
  <1>1. PICK W : Separator \in W /\ \A j \in DOMAIN doc.items : doc.items[j].text \in Seq(W)
    BY ItemTexts DEF Clean
  <1>2. PICK n \in Nat : DOMAIN reply = 1..n
    BY DEF FromItems
  <1>3. PICK pieces : pieces = [k \in DOMAIN reply |-> reply[k].text]
    OBVIOUS
  <1>4. \A k \in DOMAIN reply : /\ pieces[k] = reply[k].text /\ Plain(pieces[k])
                                 /\ \E j \in DOMAIN doc.items : pieces[k] = doc.items[j].text
    BY <1>3 DEF KeptOnly, FromItems, PlainIn, Plain
  <1>5. DOMAIN pieces = DOMAIN reply /\ pieces \in [1..n -> Seq(W)]
    BY <1>1, <1>2, <1>3, <1>4
  <1>6. Texts(pieces)
    BY <1>1, <1>5 DEF Texts
  <1>7. PICK text : text = Joined(pieces)
    OBVIOUS
  <1>8. Len(text) \in Nat
    <2>1. text \in Seq(W)
      BY <1>1, <1>5, <1>7, JoinedCut DEF Cut
    <2>. QED  BY <2>1
  <1>9. ASSUME NEW e \in DOMAIN maps, NEW needle \in Needles(e)
        PROVE  Places(needle.text, text) = {}
    <2>. SUFFICES ASSUME Occurs(needle.text, text) PROVE FALSE
      BY DEF Occurs
    <2>1. Wordy(needle.text)
      BY <1>9, NeedleElsewhere
    <2>2. PICK k \in DOMAIN pieces : Occurs(needle.text, pieces[k])
      BY <1>6, <1>7, <2>1, FoundInPiece
    <2>3. PICK j \in DOMAIN doc.items : pieces[k] = doc.items[j].text /\ Plain(doc.items[j].text)
      BY <1>4, <1>5
    <2>4. ~Occurs(needle.text, doc.items[j].text)
      BY <1>9, <2>3, NeedleElsewhere
    <2>. QED  BY <2>2, <2>3, <2>4
  <1>10. FoundSpans(text) = {}
    BY <1>9 DEF FoundSpans
  <1>11. DemaskText(text) = text
    BY <1>8, <1>10, NothingApplied DEF DemaskText
  <1>. QED  BY <1>3, <1>7, <1>11 DEF Said

\* While a text is masked and demasked, no draw is in the source text; and kept text that
\* is demasked is as it was.
KeptInv ==
    /\ phase \in {"draw", "mask", "reply", "demask", "done"} => Clean(doc, maps)
    /\ phase \in {"demask", "done"} => FromItems(doc, reply)
    /\ phase = "done" /\ KeptOnly(doc, maps, reply) => result = Said(reply)

LEMMA KeptEchoes ==
    ASSUME doc \in Documents, NEW p \in Echoes, p.entity = 0, DOMAIN maps \subseteq DOMAIN doc.entities
    PROVE  \E j \in DOMAIN doc.items : p.text = doc.items[j].text
  <1>. DEFINE Forms(e) ==
                LET entity == doc.entities[e] IN
                IF mode = "TOKEN" \/ maps[e].synthetic = None THEN {}
                ELSE CASE entity.kind = "person" ->
                            {Piece(e, Shapes[s], Render(Shapes[s], maps[e].synthetic, case)) :
                                s \in DOMAIN Shapes, case \in CaseSet}
                       [] OTHER -> {Piece(e, <<>>, Nominal(entity, maps[e].synthetic))}
  <1>1. 0 \notin DOMAIN maps
    BY EntityCount
  <1>2. CASE p \in {Piece(0, <<>>, doc.items[k].text) :
                        k \in {j \in DOMAIN doc.items : doc.items[j].entity = 0}}
    BY <1>2 DEF Piece
  <1>3. CASE p \in {Piece(e, <<>>, <<Token(e)>>) : e \in DOMAIN maps}
    BY <1>1, <1>3 DEF Piece
  <1>4. CASE p \in UNION {Forms(e) : e \in DOMAIN maps}
    <2>1. PICK e \in DOMAIN maps : p \in Forms(e)
      BY <1>4
    <2>2. \E shape, text : p = Piece(e, shape, text)
      BY <2>1
    <2>. QED  BY <1>1, <2>2 DEF Piece
  <1>. QED  BY <1>2, <1>3, <1>4 DEF Echoes

LEMMA KeptStep == DrawInv /\ KeptInv /\ [Next \/ GoNext \/ ValueNext]_vars => KeptInv'
  <1>. SUFFICES ASSUME DrawInv, KeptInv, [Next \/ GoNext \/ ValueNext]_vars PROVE KeptInv'
    OBVIOUS
  <1>1. ASSUME Drawing, NEW draw, Add(draw),
               draw = None \/ (draw \in Draws(Current) /\ Absent(doc, Current, draw))
        PROVE  KeptInv'
    <2>1. PICK n : n = Len(maps) + 1
      OBVIOUS
    <2>2. PICK new : new = [synthetic |-> draw, fallback |-> draw = None]
      OBVIOUS
    <2>3. /\ doc \in Documents /\ maps \in Seq([synthetic : Drawable, fallback : BOOLEAN])
          /\ phase' = "draw" /\ doc' = doc /\ maps' = Append(maps, new)
          /\ Len(maps) < Len(doc.entities) /\ Clean(doc, maps)
      BY <1>1, <2>2 DEF DrawInv, KeptInv, Drawing, Add
    <2>4. n \in DOMAIN doc.entities /\ Current = doc.entities[n]
      BY <2>1, <2>3, EntityCount DEF Current
    <2>5. /\ DOMAIN maps' = DOMAIN maps \cup {n} /\ maps'[n] = new
          /\ \A e \in DOMAIN maps : maps'[e] = maps[e]
      BY <2>1, <2>3
    <2>6. new.synthetic = draw
      BY <2>2
    <2>7. PICK m : m = maps'
      OBVIOUS
    <2>8. Clean(doc, m)
      BY <1>1, <2>3, <2>4, <2>5, <2>6, <2>7 DEF Clean
    <2>9. Clean(doc, maps)'
      BY <2>3, <2>7, <2>8
    <2>. QED  BY <2>3, <2>9 DEF KeptInv
  <1>2. ASSUME NEW draw \in (IF Drawing THEN Draws(Current) ELSE {}), Take(draw) PROVE KeptInv'
    <2>1. Drawing /\ Add(draw) /\ draw \in Draws(Current) /\ Acceptable(Current, draw)
      BY <1>2 DEF Take
    <2>2. SourceText = Source(doc)
      BY DEF SourceText, Source
    <2>3. Absent(doc, Current, draw)
      BY <2>1, <2>2 DEF Acceptable, AliasShapeCollides, Absent, TwoWords
    <2>. QED  BY <1>1, <2>1, <2>3
  <1>3. CASE FallBack
    <2>1. PICK draw : draw = None
      OBVIOUS
    <2>2. Drawing /\ Add(draw)
      BY <1>3, <2>1 DEF FallBack
    <2>. QED  BY <1>1, <2>1, <2>2
  <1>4. CASE \/ \E draw \in IF Drawing THEN Draws(Current) ELSE {} : Retry(draw)
             \/ DrawingEnds \/ Keep \/ Mask \/ MaskingEnds
    <2>1. /\ phase \in {"draw", "mask"} /\ phase' \in {"draw", "mask", "reply"}
          /\ doc' = doc /\ maps' = maps
      BY <1>4 DEF Retry, DrawingEnds, Keep, Mask, MaskingEnds, Drawing, Masking
    <2>. QED  BY <2>1 DEF KeptInv
  <1>5. CASE MaskRaises
    <2>. DEFINE e == Item.entity
                MapType == [synthetic : Drawable, fallback : BOOLEAN]
    <2>1. /\ phase = "mask" /\ phase' = "mask" /\ doc' = doc /\ maps \in Seq(MapType)
          /\ maps' = [maps EXCEPT ![e].fallback = TRUE] /\ Clean(doc, maps)
      BY <1>5 DEF MaskRaises, Masking, DrawInv, KeptInv
    <2>. HIDE DEF e, MapType
    <2>2. DOMAIN maps' = DOMAIN maps
      BY <2>1
    <2>3. \A f \in DOMAIN maps :
            maps'[f] = IF f = e THEN [maps[f] EXCEPT !.fallback = TRUE] ELSE maps[f]
      BY <2>1
    <2>4. \A f \in DOMAIN maps : maps[f] \in MapType
      BY <2>1
    <2>5. \A f \in DOMAIN maps : maps'[f].synthetic = maps[f].synthetic
      BY <2>3, <2>4 DEF MapType
    <2>6. PICK m : m = maps'
      OBVIOUS
    <2>7. Clean(doc, m)
      BY <2>1, <2>2, <2>5, <2>6 DEF Clean
    <2>8. Clean(doc, maps)'
      BY <2>1, <2>6, <2>7
    <2>. QED  BY <2>1, <2>8 DEF KeptInv
  <1>6. ASSUME NEW n \in 1..MaxReply,
               NEW pieces \in [1..n -> IF phase = "reply" THEN Echoes ELSE {}], Reply(pieces)
        PROVE  KeptInv'
    <2>1. /\ phase = "reply" /\ phase' = "demask" /\ doc' = doc /\ maps' = maps
          /\ reply' = pieces
      BY <1>6 DEF Reply
    <2>2. n \in Nat /\ DOMAIN pieces = 1..n /\ \A k \in 1..n : pieces[k] \in Echoes
      BY <1>6, <2>1
    <2>3. \A p \in Echoes : p.entity = 0 => \E j \in DOMAIN doc.items : p.text = doc.items[j].text
      <3>1. doc \in Documents /\ DOMAIN maps \subseteq DOMAIN doc.entities
        BY <2>1 DEF KeptInv, Clean
      <3>. QED  BY <3>1, KeptEchoes
    <2>4. FromItems(doc, pieces)
      BY <2>2, <2>3 DEF FromItems
    <2>5. FromItems(doc, reply)'
      BY <2>1, <2>4
    <2>. QED  BY <2>1, <2>5 DEF KeptInv
  <1>7. CASE Demask
    <2>1. /\ phase = "demask" /\ phase' = "done" /\ doc' = doc /\ maps' = maps /\ reply' = reply
          /\ result' = DemaskText(Said(reply)) /\ Clean(doc, maps) /\ FromItems(doc, reply)
      BY <1>7 DEF Demask, Said, KeptInv
    <2>2. KeptOnly(doc, maps, reply) => result' = Said(reply)
      BY <2>1, KeptUntouched
    <2>3. KeptOnly(doc, maps, reply)' => result' = Said(reply)'
      BY <2>1, <2>2
    <2>. QED  BY <2>1, <2>3 DEF KeptInv
  <1>8. CASE GoNext \/ ValueNext
    <2>1. phase' \notin {"draw", "mask", "reply", "demask", "done"}
      BY <1>8, OtherSteps
    <2>. QED  BY <2>1 DEF KeptInv
  <1>9. CASE UNCHANGED vars
    BY <1>9 DEF vars, KeptInv
  <1>. QED  BY <1>2, <1>3, <1>4, <1>5, <1>6, <1>7, <1>8, <1>9 DEF Next

\* In every document, with any pools, morphology and number of retries: of a text made of
\* what was kept from the source, demasking changes nothing, apart from tokens and names
\* with initials (_alias_shape_collides).
THEOREM KeptTextIsKept == AllSpec => []KeptTextStays
  <1>1. Init \/ GoInit \/ ValueInit => KeptInv
    <2>1. Init => KeptInv
      <3>. SUFFICES ASSUME Init PROVE KeptInv
        OBVIOUS
      <3>1. DOMAIN maps = {} /\ doc \in Documents /\ phase = "draw"
        BY DEF Init
      <3>2. Clean(doc, maps)
        BY <3>1 DEF Clean
      <3>. QED  BY <3>1, <3>2 DEF KeptInv
    <2>2. GoInit \/ ValueInit => KeptInv
      BY DEF GoInit, ValueInit, KeptInv
    <2>. QED  BY <2>1, <2>2
  <1>2. KeptInv => KeptTextStays
    <2>. SUFFICES ASSUME KeptInv, phase = "done",
                         \A k \in DOMAIN reply : reply[k].entity = 0 /\ Plain(reply[k].text)
                  PROVE  AsMeant
      BY DEF KeptTextStays
    <2>1. KeptOnly(doc, maps, reply)
      BY DEF KeptOnly, PlainIn, Plain
    <2>2. PICK f : f = [k \in DOMAIN reply |-> reply[k].text]
      OBVIOUS
    <2>3. result = Joined(f)
      BY <2>1, <2>2 DEF KeptInv, Said
    <2>4. \A k \in DOMAIN reply : f[k] \in Meant(reply[k])
      BY <2>2 DEF Meant
    <2>5. f \in [DOMAIN reply -> UNION {Meant(reply[k]) : k \in DOMAIN reply}]
      BY <2>2, <2>4
    <2>. QED  BY <2>3, <2>4, <2>5 DEF AsMeant
  <1>. QED  BY <1>1, <1>2, DrawInit, DrawStep, KeptStep, PTL DEF AllSpec

-----------------------------------------------------------------------------
(* Checksums *)

\* The sum, number after number.
Summed(g, f, n) ==
    /\ g[1..0] = 0 /\ Total(f) = g[1..n]
    /\ \A k \in 1..n : g[1..k] = g[1..(k - 1)] + f[k]

\* The last of the first k numbers.
LEMMA MaxUpto ==
    ASSUME NEW k \in Nat, k > 0
    PROVE  Max(1..k) = k /\ 1..k # {} /\ (1..k) \ {k} = 1..(k - 1)
  <1>1. k \in Int /\ 1 \in Int /\ k \in 1..k /\ 1..k \in SUBSET Int
    OBVIOUS
  <1>2. 1..k # {}
    BY <1>1
  <1>3. IsFiniteSet(1..k)
    BY <1>1, FS_Interval
  <1>4. Max(1..k) \in 1..k /\ \A y \in 1..k : Max(1..k) >= y
    BY <1>1, <1>2, <1>3, MaxOf
  <1>5. Max(1..k) = k
    BY <1>1, <1>4
  <1>6. (1..k) \ {k} = 1..(k - 1)
    OBVIOUS
  <1>. QED  BY <1>2, <1>5, <1>6

LEMMA TotalRuns ==
    ASSUME NEW n \in Nat, NEW f \in [1..n -> Nat]
    PROVE  \E g : Summed(g, f, n)
  <1>. DEFINE S == 1..n
              pick == [s \in SUBSET S |-> Max(s)]
              step == [p \in S \X Nat |-> p[2] + f[p[1]]]
              Eqn(h) == h = [s \in SUBSET S |-> IF s = {} THEN 0 ELSE h[s \ {Max(s)}] + f[Max(s)]]
              iter == CHOOSE h : Eqn(h)
  <1>1. IsFiniteSet(S) /\ S \subseteq Int
    BY FS_Interval
  <1>2. \A s \in SUBSET S : s # {} => Max(s) \in s
    <2>. SUFFICES ASSUME NEW s \in SUBSET S, s # {} PROVE Max(s) \in s
      OBVIOUS
    <2>1. IsFiniteSet(s) /\ s \in SUBSET Int
      BY <1>1, FS_Subset
    <2>. QED  BY <2>1, MaxOf
  <1>3. \A s \in SUBSET S : pick[s] = Max(s)
    OBVIOUS
  <1>4. \A x \in S, v \in Nat : step[<<x, v>>] = v + f[x]
    OBVIOUS
  <1>5. PICK g \in [SUBSET S -> Nat] : Accumulates(g, S, 0, pick, step)
    <2>1. Foldable(S, Nat, 0, pick, step)
      <3>1. \A s \in SUBSET S : s # {} => pick[s] \in s
        BY <1>2, <1>3
      <3>2. \A x \in S, v \in Nat : step[<<x, v>>] \in Nat
        <4>1. \A x \in S : f[x] \in Nat
          OBVIOUS
        <4>. HIDE DEF S, step
        <4>2. ASSUME NEW x \in S, NEW v \in Nat PROVE step[<<x, v>>] \in Nat
          <5>1. step[<<x, v>>] = v + f[x] /\ f[x] \in Nat
            BY <1>4, <4>1
          <5>. QED  BY <5>1
        <4>. QED  BY <4>2
      <3>. HIDE DEF S, pick, step
      <3>. QED  BY <1>1, <3>1, <3>2 DEF Foldable
    <2>. HIDE DEF S, pick, step
    <2>. QED  BY <2>1, FoldExists
  <1>6. Total(f) = iter[S]
    BY DEF Total, FoldLeft, MapThenFoldSet
  <1>. HIDE DEF pick, step
  <1>7. Eqn(g)
    <2>1. ASSUME NEW s \in SUBSET S
          PROVE  g[s] = IF s = {} THEN 0 ELSE g[s \ {Max(s)}] + f[Max(s)]
      <3>1. CASE s = {}
        BY <1>5, <3>1 DEF Accumulates
      <3>2. CASE s # {}
        <4>1. Max(s) \in S /\ s \ {Max(s)} \in SUBSET S /\ pick[s] = Max(s)
          BY <1>2, <1>3, <3>2
        <4>2. g[s] = step[<<Max(s), g[s \ {Max(s)}]>>]
          BY <1>5, <3>2, <4>1 DEF Accumulates
        <4>3. g[s \ {Max(s)}] \in Nat
          BY <4>1
        <4>. QED  BY <1>4, <3>2, <4>1, <4>2, <4>3
      <3>. QED  BY <3>1, <3>2
    <2>. QED  BY <2>1
  <1>8. Eqn(iter)
    <2>. HIDE DEF Eqn
    <2>. QED  BY <1>7
  <1>. HIDE DEF iter
  <1>9. \A s \in SUBSET S : iter[s] = IF s = {} THEN 0 ELSE iter[s \ {Max(s)}] + f[Max(s)]
    BY <1>8
  <1>10. iter[1..0] = 0
    <2>1. 1..0 = {} /\ {} \in SUBSET S
      OBVIOUS
    <2>2. iter[{}] = 0
      BY <1>9, <2>1
    <2>. QED  BY <2>1, <2>2
  <1>11. ASSUME NEW k \in 1..n
         PROVE  iter[1..k] = iter[1..(k - 1)] + f[k]
    <2>1. 1..k \in SUBSET S /\ k \in Nat /\ k > 0
      OBVIOUS
    <2>2. Max(1..k) = k /\ 1..k # {} /\ (1..k) \ {k} = 1..(k - 1)
      BY <2>1, MaxUpto
    <2>. HIDE DEF S
    <2>3. iter[1..k] = iter[(1..k) \ {Max(1..k)}] + f[Max(1..k)]
      BY <1>9, <2>1, <2>2
    <2>. QED  BY <2>2, <2>3
  <1>. HIDE DEF Eqn
  <1>. QED  BY <1>6, <1>10, <1>11 DEF Summed

\* A sum of natural numbers is one.
LEMMA TotalNat ==
    ASSUME NEW n \in Nat, NEW f \in [1..n -> Nat]
    PROVE  Total(f) \in Nat
  <1>1. PICK g : Summed(g, f, n)
    BY TotalRuns
  <1>. DEFINE T == {k \in Nat : k <= n => g[1..k] \in Nat}
  <1>2. 0 \in T
    BY <1>1 DEF Summed
  <1>3. ASSUME NEW k \in Nat, k \in T PROVE k + 1 \in T
    <2>1. CASE k + 1 <= n
      <3>1. k + 1 \in 1..n /\ (k + 1) - 1 = k /\ g[1..k] \in Nat
        BY <1>3, <2>1
      <3>2. g[1..(k + 1)] = g[1..k] + f[k + 1]
        BY <1>1, <3>1 DEF Summed
      <3>3. g[1..(k + 1)] \in Nat
        BY <3>1, <3>2
      <3>. QED  BY <3>3
    <2>2. CASE ~(k + 1 <= n)
      BY <2>2
    <2>. QED  BY <2>1, <2>2
  <1>4. n \in T
    <2>. HIDE DEF T
    <2>. QED  BY <1>2, <1>3, NatSetInduction
  <1>. QED  BY <1>1, <1>4 DEF Summed

\* Sums that differ in the last number only, differ by it.
LEMMA TotalLast ==
    ASSUME NEW n \in Nat, n > 0, NEW f \in [1..n -> Nat], NEW h \in [1..n -> Nat],
           \A k \in 1..(n - 1) : h[k] = f[k]
    PROVE  \E rest \in Nat : Total(f) = rest + f[n] /\ Total(h) = rest + h[n]
  <1>1. PICK g : Summed(g, f, n)
    BY TotalRuns
  <1>2. PICK i : Summed(i, h, n)
    BY TotalRuns
  <1>. DEFINE T == {k \in Nat : k < n => g[1..k] \in Nat /\ i[1..k] = g[1..k]}
  <1>3. 0 \in T
    BY <1>1, <1>2 DEF Summed
  <1>4. ASSUME NEW k \in Nat, k \in T PROVE k + 1 \in T
    <2>1. CASE k + 1 < n
      <3>1. /\ k + 1 \in 1..n /\ (k + 1) - 1 = k /\ k + 1 \in 1..(n - 1)
            /\ g[1..k] \in Nat /\ i[1..k] = g[1..k]
        BY <1>4, <2>1
      <3>2. g[1..(k + 1)] = g[1..k] + f[k + 1] /\ i[1..(k + 1)] = i[1..k] + h[k + 1]
        BY <1>1, <1>2, <3>1 DEF Summed
      <3>3. g[1..(k + 1)] \in Nat /\ i[1..(k + 1)] = g[1..(k + 1)]
        BY <3>1, <3>2
      <3>. QED  BY <3>3
    <2>2. CASE ~(k + 1 < n)
      BY <2>2
    <2>. QED  BY <2>1, <2>2
  <1>5. n - 1 \in T /\ n - 1 \in Nat /\ n - 1 < n
    <2>. HIDE DEF T
    <2>1. n - 1 \in Nat /\ n - 1 < n
      OBVIOUS
    <2>. QED  BY <1>3, <1>4, <2>1, NatSetInduction
  <1>6. g[1..(n - 1)] \in Nat /\ i[1..(n - 1)] = g[1..(n - 1)]
    BY <1>5
  <1>7. Total(f) = g[1..(n - 1)] + f[n] /\ Total(h) = i[1..(n - 1)] + h[n]
    <2>1. n \in 1..n
      OBVIOUS
    <2>. QED  BY <1>1, <1>2, <2>1 DEF Summed
  <1>. QED  BY <1>6, <1>7

\* What a digit counts in the checksum of a card.
Counted(digits, n, k) ==
    LET d == IF (k - 1) % 2 = n % 2 THEN 2 * digits[k] ELSE digits[k] IN
    IF d > 9 THEN d - 9 ELSE d

\* _luhn_check_digit makes the sum of an even number of digits a multiple of ten.
LEMMA CheckDigitFits ==
    ASSUME NEW n \in Nat, n % 2 = 1, NEW body \in [1..n -> 0..9]
    PROVE  /\ LuhnCheckDigit(body) \in 0..9
           /\ LuhnValid(Append(body, LuhnCheckDigit(body)))
  <1>. DEFINE Sum(digits) == [k \in DOMAIN digits |-> Counted(digits, Len(digits), k)]
              m == n + 1
              Fits(digits, c) ==
                /\ Len(digits) = m /\ DOMAIN digits = 1..m /\ digits[m] = c
                /\ \A k \in 1..n : digits[k] = body[k]
                /\ Luhn(digits) = Total(Sum(digits))
                /\ Sum(digits) \in [1..m -> Nat] /\ Sum(digits)[m] = c
  <1>1. m \in Nat /\ m > 0 /\ m % 2 = 0 /\ (m - 1) % 2 = 1
    OBVIOUS
  <1>2. ASSUME NEW c \in 0..9 PROVE Fits(Append(body, c), c)
    <2>0. PICK digits : digits = Append(body, c)
      OBVIOUS
    <2>1. /\ Len(digits) = m /\ DOMAIN digits = 1..m /\ digits[m] = c
          /\ \A k \in 1..n : digits[k] = body[k]
      <3>1. body \in Seq(0..9) /\ Len(body) = n
        OBVIOUS
      <3>. QED  BY <2>0, <3>1
    <2>2. Luhn(digits) = Total(Sum(digits))
      BY DEF Luhn, Counted
    <2>3. \A k \in 1..m : digits[k] \in 0..9
      <3>1. \A k \in 1..m : k = m \/ k \in 1..n
        OBVIOUS
      <3>2. \A k \in 1..n : body[k] \in 0..9
        OBVIOUS
      <3>. HIDE DEF m
      <3>. QED  BY <1>2, <2>1, <3>1, <3>2
    <2>. HIDE DEF m
    <2>4. \A k \in 1..m : Counted(digits, m, k) \in Nat
      BY <2>3 DEF Counted
    <2>5. Counted(digits, m, m) = c
      BY <1>1, <1>2, <2>1 DEF Counted
    <2>6. m \in 1..m
      BY <1>1
    <2>7. Fits(digits, c)
      BY <2>1, <2>2, <2>4, <2>5, <2>6
    <2>. QED  BY <2>0, <2>7
  <1>. HIDE DEF Sum, m, Fits
  <1>0. PICK zero : zero = Append(body, 0)
    OBVIOUS
  <1>3. /\ Luhn(zero) = Total(Sum(zero)) /\ Sum(zero) \in [1..m -> Nat] /\ Sum(zero)[m] = 0
        /\ Len(zero) = m /\ DOMAIN zero = 1..m /\ \A k \in 1..n : zero[k] = body[k]
    <2>1. 0 \in 0..9
      OBVIOUS
    <2>2. Fits(zero, 0)
      BY <1>0, <1>2, <2>1
    <2>. QED  BY <2>2 DEF Fits
  <1>4. PICK x : x = Luhn(zero)
    OBVIOUS
  <1>5. PICK c : c = (-x) % 10
    OBVIOUS
  <1>6. LuhnCheckDigit(body) = c
    BY <1>0, <1>4, <1>5 DEF LuhnCheckDigit
  <1>7. x \in Nat
    BY <1>1, <1>3, <1>4, TotalNat
  <1>8. c \in 0..9 /\ (x + c) % 10 = 0
    BY <1>5, <1>7
  <1>9. PICK digits : digits = Append(body, c)
    OBVIOUS
  <1>10. /\ Luhn(digits) = Total(Sum(digits)) /\ Sum(digits) \in [1..m -> Nat] /\ Sum(digits)[m] = c
         /\ Len(digits) = m /\ DOMAIN digits = 1..m /\ \A k \in 1..n : digits[k] = body[k]
    <2>1. Fits(digits, c)
      BY <1>2, <1>8, <1>9
    <2>. QED  BY <2>1 DEF Fits
  <1>11. \A k \in 1..(m - 1) : Sum(digits)[k] = Sum(zero)[k]
    <2>1. \A k \in 1..(m - 1) : k \in 1..m /\ k \in 1..n
      BY <1>1 DEF m
    <2>. QED  BY <1>3, <1>10, <2>1 DEF Sum, Counted
  <1>12. PICK rest \in Nat : /\ Total(Sum(zero)) = rest + Sum(zero)[m]
                             /\ Total(Sum(digits)) = rest + Sum(digits)[m]
    <2>. QED  BY <1>1, <1>3, <1>10, <1>11, TotalLast
  <1>13. Luhn(digits) = x + c
    BY <1>3, <1>4, <1>7, <1>8, <1>10, <1>12
  <1>. QED  BY <1>6, <1>8, <1>9, <1>13 DEF LuhnValid

\* Weights, and the check digit of a number they are applied to.
Weights(weights) == \E n \in Nat : weights \in [1..n -> Nat]

LEMMA InnCheckDigit ==
    ASSUME NEW weights, Weights(weights), NEW digits, \A k \in DOMAIN weights : digits[k] \in 0..9,
           NEW others, \A k \in DOMAIN weights : others[k] = digits[k]
    PROVE  InnCheck(digits, weights) \in 0..9 /\ InnCheck(others, weights) = InnCheck(digits, weights)
  <1>1. PICK n \in Nat : weights \in [1..n -> Nat]
    BY DEF Weights
  <1>. DEFINE f == [k \in DOMAIN weights |-> digits[k] * weights[k]]
  <1>2. f = [k \in DOMAIN weights |-> others[k] * weights[k]]
    OBVIOUS
  <1>3. f \in [1..n -> Nat]
    <2>0. \A a \in 0..9, b \in Nat : a * b \in Nat
      OBVIOUS
    <2>1. \A k \in 1..n : digits[k] * weights[k] \in Nat
      BY <1>1, <2>0
    <2>. QED  BY <1>1, <2>1
  <1>4. InnCheck(digits, weights) = (Total(f) % 11) % 10
    BY DEF InnCheck
  <1>5. InnCheck(others, weights) = (Total(f) % 11) % 10
    BY <1>2 DEF InnCheck
  <1>. HIDE DEF f
  <1>6. PICK x \in Nat : x = Total(f)
    BY <1>3, TotalNat
  <1>7. (x % 11) % 10 \in 0..9
    OBVIOUS
  <1>. QED  BY <1>4, <1>5, <1>6, <1>7

\* The weights of the three check digits.
LEMMA WeightsAre ==
    /\ Weights(W10) /\ DOMAIN W10 = 1..9
    /\ Weights(W11) /\ DOMAIN W11 = 1..10
    /\ Weights(W12) /\ DOMAIN W12 = 1..11
  <1>1. W10 \in Seq(Nat) /\ Len(W10) = 9
    BY DEF W10
  <1>2. \A x \in Nat : \A w \in Seq(Nat) : <<x>> \o w \in Seq(Nat) /\ Len(<<x>> \o w) = Len(w) + 1
    <2>. SUFFICES ASSUME NEW x \in Nat, NEW w \in Seq(Nat)
                  PROVE  <<x>> \o w \in Seq(Nat) /\ Len(<<x>> \o w) = Len(w) + 1
      OBVIOUS
    <2>0. <<x>> \in Seq(Nat) /\ Len(<<x>>) = 1
      OBVIOUS
    <2>1. PICK q : q = <<x>> /\ q \in Seq(Nat) /\ Len(q) = 1
      BY <2>0, Zenon
    <2>2. q \in Seq(Nat) /\ Len(q) = 1
      BY <2>1, Zenon
    <2>4. Len(w) \in Nat
      OBVIOUS
    <2>3. q \o w \in Seq(Nat) /\ Len(q \o w) = Len(w) + 1
      <3>1. q \o w \in Seq(Nat) /\ Len(q \o w) = Len(q) + Len(w)
        BY <2>2, ConcatProperties, Zenon
      <3>. QED  BY <2>2, <2>4, <3>1
    <2>. QED  BY <2>1, <2>3, Zenon
  <1>3. W11 \in Seq(Nat) /\ Len(W11) = 10
    <2>1. 7 \in Nat
      OBVIOUS
    <2>2. <<7>> \o W10 \in Seq(Nat) /\ Len(<<7>> \o W10) = Len(W10) + 1
      BY <1>1, <1>2, <2>1, Zenon
    <2>. QED  BY <1>1, <2>2 DEF W11
  <1>4. W12 \in Seq(Nat) /\ Len(W12) = 11
    <2>1. 3 \in Nat
      OBVIOUS
    <2>2. <<3>> \o W11 \in Seq(Nat) /\ Len(<<3>> \o W11) = Len(W11) + 1
      BY <1>2, <1>3, <2>1, Zenon
    <2>. QED  BY <1>3, <2>2 DEF W12
  <1>5. \A w \in Seq(Nat) : w \in [1..Len(w) -> Nat] /\ Len(w) \in Nat
    OBVIOUS
  <1>. QED  BY <1>1, <1>3, <1>4, <1>5 DEF Weights

-----------------------------------------------------------------------------
(* Numbers that detectors find *)

\* h lists the digits of the value from left to right.
Lists(h, n, value) ==
    /\ h \in [1..n -> Nat] /\ DigitsAt(value) = {h[i] : i \in 1..n}
    /\ \A i, j \in 1..n : i < j => h[i] < h[j]

\* How many digits there are, and which.
LEMMA DigitsListed ==
    ASSUME NEW value, NEW n \in Nat, NEW h, Lists(h, n, value)
    PROVE  DigitCount(value) = n /\ DigitsOf(value) = [i \in 1..n |-> value[h[i]]]
  <1>1. ASSUME NEW m \in 0..n
        PROVE  Cardinality({h[i] : i \in 1..m}) = m
    <2>. DEFINE T == {h[i] : i \in 1..m}
                b == [i \in 1..m |-> h[i]]
    <2>1. m \in Int /\ 1 \in Int /\ \A i \in 1..m : i \in 1..n
      OBVIOUS
    <2>2. IsFiniteSet(1..m) /\ Cardinality(1..m) = m
      BY <2>1, FS_Interval
    <2>3. \A i, j \in 1..m : i # j => b[i] # b[j]
      <3>1. \A i, j \in 1..m : i < j => h[i] < h[j]
        BY <2>1 DEF Lists
      <3>2. \A i \in 1..m : h[i] \in Nat
        BY <2>1 DEF Lists
      <3>3. \A i, j \in 1..m : i # j => i < j \/ j < i
        OBVIOUS
      <3>. QED  BY <3>1, <3>2, <3>3
    <2>4. b \in [1..m -> T] /\ \A t \in T : \E i \in 1..m : b[i] = t
      OBVIOUS
    <2>. HIDE DEF b, T
    <2>5. b \in Bijection(1..m, T)
      BY <2>3, <2>4 DEF Bijection, Injection, Surjection, IsInjective
    <2>6. Cardinality(T) = m
      BY <2>2, <2>5, FS_Bijection DEF ExistsBijection
    <2>. QED  BY <2>6 DEF T
  <1>2. DigitCount(value) = n
    <2>1. n \in 0..n
      OBVIOUS
    <2>. QED  BY <1>1, <2>1 DEF DigitCount, Lists
  <1>3. ASSUME NEW i \in 1..n PROVE Nth(value, h[i]) = i
    <2>1. \A j \in 1..n : h[j] <= h[i] <=> j \in 1..i
      <3>1. ASSUME NEW j \in 1..n PROVE h[j] <= h[i] <=> j \in 1..i
        <4>1. h[j] \in Nat /\ h[i] \in Nat
          BY DEF Lists
        <4>2. (i < j => h[i] < h[j]) /\ (j < i => h[j] < h[i])
          BY DEF Lists
        <4>3. i = j => h[i] = h[j]
          OBVIOUS
        <4>. QED  BY <4>1, <4>2, <4>3
      <3>. QED  BY <3>1
    <2>2. {k \in DigitsAt(value) : k <= h[i]} = {h[j] : j \in 1..i}
      <3>1. \A j \in 1..i : j \in 1..n
        OBVIOUS
      <3>. QED  BY <2>1, <3>1 DEF Lists
    <2>3. i \in 0..n
      OBVIOUS
    <2>. QED  BY <1>1, <2>2, <2>3 DEF Nth
  <1>4. ASSUME NEW i \in 1..n PROVE (CHOOSE k \in DigitsAt(value) : Nth(value, k) = i) = h[i]
    <2>1. h[i] \in DigitsAt(value)
      BY DEF Lists
    <2>2. \A k \in DigitsAt(value) : Nth(value, k) = i => k = h[i]
      BY <1>3 DEF Lists
    <2>. QED  BY <1>3, <2>1, <2>2
  <1>. DEFINE At(i) == CHOOSE k \in DigitsAt(value) : Nth(value, k) = i
  <1>5. DigitsOf(value) = [i \in 1..DigitCount(value) |-> value[At(i)]]
    BY DEF DigitsOf
  <1>6. \A i \in 1..n : At(i) = h[i]
    BY <1>4
  <1>. HIDE DEF At
  <1>. QED  BY <1>2, <1>5, <1>6

\* A value of digits only.
LEMMA AllDigits ==
    ASSUME NEW n \in Nat, NEW value, DOMAIN value = 1..n, \A k \in 1..n : value[k] \in 0..9
    PROVE  /\ DigitsAt(value) = 1..n /\ DigitCount(value) = n
           /\ DigitsOf(value) = [k \in 1..n |-> value[k]] /\ Shape(value) \in D(n)
  <1>1. DigitsAt(value) = 1..n
    BY DEF DigitsAt, IsDigit
  <1>2. PICK h : h = [i \in 1..n |-> i]
    OBVIOUS
  <1>3. \A i \in 1..n : h[i] = i /\ i \in Nat
    BY <1>2
  <1>4. Lists(h, n, value)
    <2>1. h \in [1..n -> Nat]
      BY <1>2
    <2>2. DigitsAt(value) = {h[i] : i \in 1..n}
      BY <1>1, <1>3
    <2>. QED  BY <1>3, <2>1, <2>2 DEF Lists
  <1>5. DigitCount(value) = n /\ DigitsOf(value) = [i \in 1..n |-> value[h[i]]]
    BY <1>4, DigitsListed
  <1>6. Shape(value) = [k \in 1..n |-> 0]
    BY DEF Shape, IsDigit
  <1>. QED  BY <1>1, <1>3, <1>5, <1>6 DEF D

\* A value whose shape has digits only.
LEMMA DigitShape ==
    ASSUME NEW n \in Nat, NEW value, Shape(value) \in D(n)
    PROVE  /\ DOMAIN value = 1..n /\ \A k \in 1..n : value[k] \in 0..9
           /\ DigitCount(value) = n
  <1>1. Shape(value) = [k \in 1..n |-> 0]
    BY DEF D
  <1>2. DOMAIN value = 1..n
    <2>1. DOMAIN Shape(value) = DOMAIN value /\ DOMAIN [k \in 1..n |-> 0] = 1..n
      BY DEF Shape
    <2>. QED  BY <1>1, <2>1
  <1>3. ASSUME NEW k \in 1..n PROVE value[k] \in 0..9
    <2>1. (IF IsDigit(value[k]) THEN 0 ELSE value[k]) = 0
      <3>1. Shape(value)[k] = IF IsDigit(value[k]) THEN 0 ELSE value[k]
        BY <1>2 DEF Shape
      <3>2. Shape(value)[k] = 0
        BY <1>1
      <3>. QED  BY <3>1, <3>2
    <2>. QED  BY <2>1 DEF IsDigit
  <1>. QED  BY <1>2, <1>3, AllDigits

\* Sixteen digits with a right checksum.
LEMMA CardPlain ==
    ASSUME NEW digits \in [1..16 -> 0..9], LuhnValid(digits)
    PROVE  IsCard(digits)
  <1>1. 16 \in Nat /\ DOMAIN digits = 1..16 /\ \A k \in 1..16 : digits[k] \in 0..9
    OBVIOUS
  <1>2. DigitsOf(digits) = [k \in 1..16 |-> digits[k]]
    BY <1>1, AllDigits
  <1>3. DigitsOf(digits) = digits /\ Len(digits) = 16
    BY <1>2
  <1>. QED  BY <1>1, <1>3 DEF IsCard, IsDigit

\* Digits in groups of four.
LEMMA CardGrouped ==
    ASSUME NEW digits \in [1..16 -> 0..9], LuhnValid(digits), NEW separator \in {Space, Hyphen}
    PROVE  IsCard(Grouped(digits, separator))
  <1>. DEFINE value == Grouped(digits, separator)
              At(i) == i + (i - 1) \div 4
  <1>1. Len(digits) = 16
    OBVIOUS
  <1>2. /\ DOMAIN value = 1..19
        /\ \A k \in 1..19 : value[k] = IF k % 5 = 0 THEN separator ELSE digits[k - k \div 5]
    BY <1>1 DEF Grouped
  <1>. HIDE DEF value
  <1>3. \A k \in 1..19 : k % 5 # 0 => k - k \div 5 \in 1..16 /\ At(k - k \div 5) = k
    OBVIOUS
  <1>4. \A i \in 1..16 : At(i) \in 1..19 /\ At(i) % 5 # 0 /\ At(i) - At(i) \div 5 = i
    OBVIOUS
  <1>5. separator \in Nat /\ ~IsDigit(separator)
    BY DEF Space, Hyphen, IsDigit
  <1>6. \A k \in 1..19 : IsDigit(value[k]) <=> k % 5 # 0
    BY <1>2, <1>3, <1>5 DEF IsDigit
  <1>7. PICK h : h = [i \in 1..16 |-> At(i)]
    OBVIOUS
  <1>8. Lists(h, 16, value)
    <2>1. \A i \in 1..16 : h[i] = At(i)
      BY <1>7
    <2>2. h \in [1..16 -> Nat]
      BY <1>4, <1>7
    <2>3. \A i, j \in 1..16 : i < j => At(i) < At(j)
      OBVIOUS
    <2>. HIDE DEF At
    <2>4. DigitsAt(value) = {h[i] : i \in 1..16}
      BY <1>2, <1>3, <1>4, <1>6, <2>1 DEF DigitsAt
    <2>. QED  BY <2>1, <2>2, <2>3, <2>4 DEF Lists
  <1>9. DigitsOf(value) = [i \in 1..16 |-> value[h[i]]]
    BY <1>8, DigitsListed
  <1>10. \A i \in 1..16 : value[h[i]] = digits[i]
    <2>1. \A i \in 1..16 : h[i] = At(i)
      BY <1>7
    <2>. HIDE DEF At
    <2>. QED  BY <1>2, <1>4, <2>1
  <1>11. DigitsOf(value) = digits
    BY <1>9, <1>10
  <1>12. ASSUME NEW k \in DOMAIN value, ~IsDigit(value[k])
         PROVE  value[k] \in {Space, Hyphen} /\ IsDigit(value[k - 1]) /\ IsDigit(value[k + 1])
    <2>1. k \in 1..19 /\ k % 5 = 0
      BY <1>2, <1>6, <1>12
    <2>2. \A l \in 1..19 : l % 5 = 0 => l - 1 \in 1..19 /\ (l - 1) % 5 # 0 /\ l + 1 \in 1..19 /\ (l + 1) % 5 # 0
      OBVIOUS
    <2>3. value[k] = separator
      BY <1>2, <2>1
    <2>. QED  BY <1>6, <2>1, <2>2, <2>3
  <1>13. IsCard(value)
    BY <1>1, <1>11, <1>12 DEF IsCard
  <1>. QED  BY <1>13 DEF value

\* Rows of a fixed length.
RowOf(s, n, W) ==
    /\ s \in [1..n -> W] /\ s \in Seq(W) /\ Len(s) = n /\ DOMAIN s = 1..n
    /\ \A k \in 1..n : s[k] \in W

\* r is s with x behind it.
Longer(r, s, n, x, W) ==
    RowOf(r, n + 1, W) /\ r[n + 1] = x /\ \A k \in 1..n : r[k] = s[k]

\* r is s with t behind it.
Joins(r, s, n, t, m, W) ==
    RowOf(r, n + m, W) /\ (\A k \in 1..n : r[k] = s[k]) /\ \A k \in 1..m : r[n + k] = t[k]

\* r is what stands in s behind the first m.
Slice(r, s, m, l, W) == RowOf(r, l, W) /\ \A k \in 1..l : r[k] = s[m + k]

Decimal == 0..9

\* How rows are cut and put together.
LEMMA RowIsSeq ==
    ASSUME NEW W, NEW n \in Nat, NEW s \in [1..n -> W]
    PROVE  RowOf(s, n, W)
  BY DEF RowOf

LEMMA SeqIsRow ==
    ASSUME NEW W, NEW s \in Seq(W)
    PROVE  RowOf(s, Len(s), W)
  BY DEF RowOf

LEMMA RowsJoined ==
    ASSUME NEW W, NEW n \in Nat, NEW m \in Nat, NEW s, NEW t, RowOf(s, n, W), RowOf(t, m, W)
    PROVE  Joins(s \o t, s, n, t, m, W)
  <1>1. s \in Seq(W) /\ t \in Seq(W) /\ Len(s) = n /\ Len(t) = m
    BY DEF RowOf
  <1>2. s \o t \in Seq(W) /\ Len(s \o t) = n + m
    BY <1>1
  <1>3. RowOf(s \o t, n + m, W)
    BY <1>2, SeqIsRow
  <1>4. (\A k \in 1..n : (s \o t)[k] = s[k]) /\ (\A k \in 1..m : (s \o t)[n + k] = t[k])
    BY <1>1
  <1>. QED  BY <1>3, <1>4 DEF Joins

LEMMA RowAppended ==
    ASSUME NEW W, NEW n \in Nat, NEW s, NEW x \in W, RowOf(s, n, W)
    PROVE  Longer(Append(s, x), s, n, x, W) /\ Longer(s \o <<x>>, s, n, x, W)
  <1>1. s \in Seq(W) /\ Len(s) = n
    BY DEF RowOf
  <1>2. Append(s, x) \in Seq(W) /\ Len(Append(s, x)) = n + 1
    BY <1>1
  <1>3. RowOf(Append(s, x), n + 1, W)
    BY <1>2, SeqIsRow
  <1>4. Longer(Append(s, x), s, n, x, W)
    BY <1>1, <1>3 DEF Longer
  <1>5. s \o <<x>> = Append(s, x)
    BY <1>1, AppendIsConcat, Zenon
  <1>. QED  BY <1>4, <1>5, Zenon

LEMMA RowCut ==
    ASSUME NEW W, NEW n \in Nat, NEW s, NEW m \in Nat, NEW l \in Nat, m + l <= n, RowOf(s, n, W)
    PROVE  Slice(SubSeq(s, m + 1, m + l), s, m, l, W)
  <1>1. s \in Seq(W) /\ Len(s) = n /\ \A k \in 1..n : s[k] \in W
    BY DEF RowOf
  <1>2. SubSeq(s, m + 1, m + l) = [k \in 1..l |-> s[m + k]]
    BY <1>1
  <1>3. [k \in 1..l |-> s[m + k]] \in [1..l -> W]
    BY <1>1
  <1>4. RowOf([k \in 1..l |-> s[m + k]], l, W)
    BY <1>3, RowIsSeq
  <1>. QED  BY <1>2, <1>4 DEF Slice

\* A card number that was made up.
LEMMA CardMade ==
    ASSUME NEW draw \in [1..15 -> 0..9], NEW first \in {4, 5, 2}, NEW digits,
           digits = Append(<<first>> \o SubSeq(draw, 2, 15), LuhnCheckDigit(<<first>> \o SubSeq(draw, 2, 15)))
    PROVE  digits \in [1..16 -> 0..9] /\ LuhnValid(digits)
  <1>1. /\ 15 \in Nat /\ 1 \in Nat /\ 14 \in Nat /\ 1 + 14 <= 15 /\ 1 + 14 = 15 /\ 1 + 1 = 2
        /\ 15 % 2 = 1 /\ 15 + 1 = 16
    OBVIOUS
  <1>2. draw \in [1..15 -> Decimal] /\ first \in Decimal
    BY DEF Decimal
  <1>3. RowOf(SubSeq(draw, 2, 15), 14, Decimal)
    <2>1. RowOf(draw, 15, Decimal)
      BY <1>1, <1>2, RowIsSeq, Zenon
    <2>2. Slice(SubSeq(draw, 1 + 1, 1 + 14), draw, 1, 14, Decimal)
      BY <1>1, <2>1, RowCut, Zenon
    <2>. QED  BY <1>1, <2>2 DEF Slice
  <1>4. RowOf(<<first>>, 1, Decimal)
    <2>1. <<first>> \in [1..1 -> Decimal]
      BY <1>2
    <2>. QED  BY <1>1, <2>1, RowIsSeq, Zenon
  <1>5. PICK body : body = <<first>> \o SubSeq(draw, 2, 15)
    OBVIOUS
  <1>6. RowOf(body, 15, Decimal)
    <2>1. Joins(body, <<first>>, 1, SubSeq(draw, 2, 15), 14, Decimal)
      BY <1>1, <1>3, <1>4, <1>5, RowsJoined, Zenon
    <2>2. RowOf(body, 1 + 14, Decimal)
      BY <2>1, Zenon DEF Joins
    <2>. QED  BY <1>1, <2>2
  <1>7. body \in [1..15 -> 0..9]
    BY <1>6 DEF RowOf, Decimal
  <1>8. LuhnCheckDigit(body) \in 0..9 /\ LuhnValid(Append(body, LuhnCheckDigit(body)))
    BY <1>1, <1>7, CheckDigitFits
  <1>9. PICK c : c = LuhnCheckDigit(body)
    OBVIOUS
  <1>10. c \in Decimal /\ digits = Append(body, c) /\ LuhnValid(digits)
    BY <1>5, <1>8, <1>9 DEF Decimal
  <1>11. Longer(Append(body, c), body, 15, c, Decimal)
    BY <1>1, <1>6, <1>10, RowAppended, Zenon
  <1>12. RowOf(digits, 16, Decimal)
    <2>1. RowOf(digits, 15 + 1, Decimal)
      BY <1>10, <1>11, Zenon DEF Longer
    <2>. QED  BY <1>1, <2>1
  <1>. QED  BY <1>10, <1>12 DEF RowOf, Decimal

\* Cards of either service are found.
LEMMA CardDetected ==
    ASSUME NEW draw \in [1..15 -> 0..9], NEW value
    PROVE  IsCard(CardNumber(value, draw)) /\ IsCard(GoCard(draw))
  <1>1. \A first \in {4, 5, 2} :
            LET body == <<first>> \o SubSeq(draw, 2, 15)
                digits == Append(body, LuhnCheckDigit(body)) IN
            digits \in [1..16 -> 0..9] /\ LuhnValid(digits)
    BY CardMade, Zenon
  <1>2. PICK first : first = <<4, 5, 2>>[(draw[1] % 3) + 1]
    OBVIOUS
  <1>3. first \in {4, 5, 2}
    <2>1. draw[1] \in 0..9
      OBVIOUS
    <2>2. (draw[1] % 3) + 1 \in 1..3
      BY <2>1
    <2>3. \A k \in 1..3 : <<4, 5, 2>>[k] \in {4, 5, 2}
      OBVIOUS
    <2>. QED  BY <1>2, <2>2, <2>3
  <1>4. PICK digits : LET body == <<first>> \o SubSeq(draw, 2, 15) IN
                      digits = Append(body, LuhnCheckDigit(body))
    OBVIOUS
  <1>5. digits \in [1..16 -> 0..9] /\ LuhnValid(digits)
    BY <1>1, <1>3, <1>4, Zenon
  <1>6. CardNumber(value, draw) \in {digits, Grouped(digits, Hyphen), Grouped(digits, Space)}
    <2>1. CardNumber(value, draw) =
            CASE Contains(value, Hyphen) -> Grouped(digits, Hyphen)
              [] ~Contains(value, Hyphen) /\ Contains(value, Space) -> Grouped(digits, Space)
              [] OTHER -> digits
      BY <1>2, <1>4 DEF CardNumber
    <2>. QED  BY <2>1
  <1>7. IsCard(digits) /\ IsCard(Grouped(digits, Hyphen)) /\ IsCard(Grouped(digits, Space))
    BY <1>5, CardPlain, CardGrouped
  <1>8. IsCard(GoCard(draw))
    <2>1. PICK made : made = GoCard(draw)
      OBVIOUS
    <2>2. made \in [1..16 -> 0..9] /\ LuhnValid(made)
      <3>1. 4 \in {4, 5, 2}
        OBVIOUS
      <3>. QED  BY <1>1, <2>1, <3>1, Zenon DEF GoCard
    <2>. QED  BY <2>1, <2>2, CardPlain
  <1>. QED  BY <1>6, <1>7, <1>8

\* A taxpayer number that was made up.
LEMMA InnMade ==
    ASSUME NEW length \in {10, 12}, NEW draw \in [1..length -> 0..9]
    PROVE  IsInn(Inn(length, draw))
  <1>1. /\ 0 \in Nat /\ 9 \in Nat /\ 10 \in Nat /\ 11 \in Nat /\ 12 \in Nat
        /\ 0 + 9 <= 10 /\ 0 + 10 <= 12 /\ 0 + 1 = 1 /\ 0 + 9 = 9 /\ 0 + 10 = 10
        /\ 9 + 1 = 10 /\ 10 + 1 = 11 /\ 11 + 1 = 12
    OBVIOUS
  <1>2. CASE length = 10
    <2>1. RowOf(draw, 10, Decimal)
      <3>1. draw \in [1..10 -> Decimal]
        BY <1>2 DEF Decimal
      <3>. QED  BY <1>1, <3>1, RowIsSeq, Zenon
    <2>2. PICK c : c = InnCheck(draw, W10)
      OBVIOUS
    <2>3. c \in Decimal
      <3>1. \A k \in DOMAIN W10 : draw[k] \in 0..9
        BY <1>2, WeightsAre
      <3>. QED  BY <2>2, <3>1, WeightsAre, InnCheckDigit DEF Decimal
    <2>4. PICK body : body = SubSeq(draw, 1, 9)
      OBVIOUS
    <2>5. RowOf(body, 9, Decimal) /\ \A k \in 1..9 : body[k] = draw[k]
      <3>1. Slice(SubSeq(draw, 0 + 1, 0 + 9), draw, 0, 9, Decimal)
        BY <1>1, <2>1, RowCut, Zenon
      <3>2. Slice(SubSeq(draw, 1, 9), draw, 0, 9, Decimal)
        BY <1>1, <3>1
      <3>3. \A k \in 1..9 : 0 + k = k
        OBVIOUS
      <3>. QED  BY <2>4, <3>2, <3>3 DEF Slice
    <2>6. PICK made : made = Inn(length, draw)
      OBVIOUS
    <2>7. made = body \o <<c>>
      BY <1>2, <2>2, <2>4, <2>6 DEF Inn
    <2>8. Longer(made, body, 9, c, Decimal)
      BY <1>1, <2>3, <2>5, <2>7, RowAppended, Zenon
    <2>9. /\ Len(made) = 10 /\ DOMAIN made = 1..10 /\ made[10] = c
          /\ \A k \in 1..10 : made[k] \in 0..9
          /\ \A k \in 1..9 : made[k] = draw[k]
      BY <2>5, <2>8 DEF Longer, RowOf, Decimal
    <2>10. InnCheck(made, W10) = c
      <3>1. \A k \in DOMAIN W10 : draw[k] \in 0..9 /\ made[k] = draw[k]
        BY <1>2, <2>9, WeightsAre
      <3>. QED  BY <2>2, <3>1, WeightsAre, InnCheckDigit
    <2>11. Shape(made) \in D(10)
      BY <1>1, <2>9, AllDigits
    <2>. QED  BY <2>6, <2>9, <2>10, <2>11 DEF IsInn, InnValid
  <1>3. CASE length = 12
    <2>1. RowOf(draw, 12, Decimal)
      <3>1. draw \in [1..12 -> Decimal]
        BY <1>3 DEF Decimal
      <3>. QED  BY <1>1, <3>1, RowIsSeq, Zenon
    <2>2. PICK c : c = InnCheck(draw, W11)
      OBVIOUS
    <2>3. c \in Decimal
      <3>1. \A k \in DOMAIN W11 : draw[k] \in 0..9
        BY <1>3, WeightsAre
      <3>. QED  BY <2>2, <3>1, WeightsAre, InnCheckDigit DEF Decimal
    <2>4. PICK ten : ten = SubSeq(draw, 1, 10)
      OBVIOUS
    <2>5. RowOf(ten, 10, Decimal) /\ \A k \in 1..10 : ten[k] = draw[k]
      <3>1. Slice(SubSeq(draw, 0 + 1, 0 + 10), draw, 0, 10, Decimal)
        BY <1>1, <2>1, RowCut, Zenon
      <3>2. Slice(SubSeq(draw, 1, 10), draw, 0, 10, Decimal)
        BY <1>1, <3>1
      <3>3. \A k \in 1..10 : 0 + k = k
        OBVIOUS
      <3>. QED  BY <2>4, <3>2, <3>3 DEF Slice
    <2>6. PICK body : body = ten \o <<c>>
      OBVIOUS
    <2>7. Longer(body, ten, 10, c, Decimal)
      BY <1>1, <2>3, <2>5, <2>6, RowAppended, Zenon
    <2>8. /\ RowOf(body, 11, Decimal) /\ body[11] = c /\ \A k \in 1..11 : body[k] \in 0..9
          /\ \A k \in 1..10 : body[k] = draw[k]
      <3>1. RowOf(body, 10 + 1, Decimal)
        BY <2>7, Zenon DEF Longer
      <3>2. RowOf(body, 11, Decimal)
        BY <1>1, <3>1
      <3>. QED  BY <2>5, <2>7, <3>2 DEF Longer, RowOf, Decimal
    <2>9. PICK e : e = InnCheck(body, W12)
      OBVIOUS
    <2>10. e \in Decimal
      <3>1. \A k \in DOMAIN W12 : body[k] \in 0..9
        BY <2>8, WeightsAre
      <3>. QED  BY <2>9, <3>1, WeightsAre, InnCheckDigit DEF Decimal
    <2>11. PICK made : made = Inn(length, draw)
      OBVIOUS
    <2>12. made = Append(body, e)
      BY <1>3, <2>2, <2>4, <2>6, <2>9, <2>11 DEF Inn
    <2>13. Longer(made, body, 11, e, Decimal)
      BY <1>1, <2>8, <2>10, <2>12, RowAppended, Zenon
    <2>14. /\ Len(made) = 12 /\ DOMAIN made = 1..12 /\ made[12] = e
           /\ \A k \in 1..12 : made[k] \in 0..9
           /\ \A k \in 1..11 : made[k] = body[k]
      BY <2>13 DEF Longer, RowOf, Decimal
    <2>15. InnCheck(made, W12) = e
      <3>1. \A k \in DOMAIN W12 : body[k] \in 0..9 /\ made[k] = body[k]
        BY <2>8, <2>14, WeightsAre
      <3>. QED  BY <2>9, <3>1, WeightsAre, InnCheckDigit
    <2>16. InnCheck(made, W11) = c
      <3>1. \A k \in 1..10 : k \in 1..11
        OBVIOUS
      <3>2. \A k \in DOMAIN W11 : draw[k] \in 0..9 /\ made[k] = draw[k]
        BY <1>3, <2>8, <2>14, <3>1, WeightsAre
      <3>. QED  BY <2>2, <3>2, WeightsAre, InnCheckDigit
    <2>17. Shape(made) \in D(12)
      BY <1>1, <2>14, AllDigits
    <2>18. made[11] = c
      BY <2>8, <2>14
    <2>. QED  BY <2>11, <2>14, <2>15, <2>16, <2>17, <2>18 DEF IsInn, InnValid
  <1>. QED  BY <1>2, <1>3

\* A department code that was made up.
LEMMA DepartmentMade ==
    ASSUME NEW draw \in [1..6 -> 0..9]
    PROVE  Shape(DepartmentCode(draw)) \in DepartmentFormats
  <1>1. /\ 0 \in Nat /\ 3 \in Nat /\ 4 \in Nat /\ 6 \in Nat /\ 0 + 3 <= 6 /\ 3 + 3 <= 6
        /\ 0 + 1 = 1 /\ 0 + 3 = 3 /\ 3 + 1 = 4 /\ 3 + 3 = 6
    OBVIOUS
  <1>2. RowOf(draw, 6, Nat) /\ Hyphen \in Nat
    <2>1. draw \in [1..6 -> Nat] /\ Hyphen \in Nat
      BY DEF Hyphen
    <2>. QED  BY <1>1, <2>1, RowIsSeq, Zenon
  <1>3. PICK left, right : left = SubSeq(draw, 1, 3) /\ right = SubSeq(draw, 4, 6)
    OBVIOUS
  <1>4. RowOf(left, 3, Nat) /\ \A k \in 1..3 : left[k] \in 0..9
    <2>1. Slice(SubSeq(draw, 0 + 1, 0 + 3), draw, 0, 3, Nat)
      BY <1>1, <1>2, RowCut, Zenon
    <2>2. Slice(SubSeq(draw, 1, 3), draw, 0, 3, Nat)
      BY <1>1, <2>1
    <2>3. \A k \in 1..3 : draw[0 + k] \in 0..9
      OBVIOUS
    <2>. QED  BY <1>3, <2>2, <2>3 DEF Slice
  <1>5. RowOf(right, 3, Nat) /\ \A k \in 1..3 : right[k] \in 0..9
    <2>1. Slice(SubSeq(draw, 3 + 1, 3 + 3), draw, 3, 3, Nat)
      BY <1>1, <1>2, RowCut, Zenon
    <2>2. Slice(SubSeq(draw, 4, 6), draw, 3, 3, Nat)
      BY <1>1, <2>1
    <2>3. \A k \in 1..3 : draw[3 + k] \in 0..9
      OBVIOUS
    <2>. QED  BY <1>3, <2>2, <2>3 DEF Slice
  <1>6. PICK begin : begin = left \o <<Hyphen>>
    OBVIOUS
  <1>7. Longer(begin, left, 3, Hyphen, Nat)
    BY <1>1, <1>2, <1>4, <1>6, RowAppended, Zenon
  <1>8. /\ RowOf(begin, 4, Nat) /\ begin[4] = Hyphen /\ \A k \in 1..3 : begin[k] \in 0..9
    <2>1. RowOf(begin, 3 + 1, Nat)
      BY <1>7, Zenon DEF Longer
    <2>2. RowOf(begin, 4, Nat)
      BY <1>1, <2>1
    <2>. QED  BY <1>4, <1>7, <2>2 DEF Longer
  <1>9. PICK made : made = begin \o right
    OBVIOUS
  <1>10. Joins(made, begin, 4, right, 3, Nat)
    BY <1>1, <1>5, <1>8, <1>9, RowsJoined, Zenon
  <1>11. DOMAIN made = 1..7 /\ made[4] = Hyphen /\ \A k \in 1..7 : k # 4 => made[k] \in 0..9
    <2>1. DOMAIN made = 1..7
      BY <1>10 DEF Joins, RowOf
    <2>2. (\A k \in 1..4 : made[k] = begin[k]) /\ \A k \in 1..3 : made[4 + k] = right[k]
      BY <1>10, Zenon DEF Joins
    <2>3. \A k \in 1..7 : k = 4 \/ k \in 1..3 \/ (k - 4 \in 1..3 /\ 4 + (k - 4) = k)
      OBVIOUS
    <2>4. \A k \in 1..3 : k \in 1..4
      OBVIOUS
    <2>5. 4 \in 1..4
      OBVIOUS
    <2>. QED  BY <1>5, <1>8, <2>1, <2>2, <2>3, <2>4, <2>5
  <1>12. Shape(made) = [k \in 1..7 |-> IF k = 4 THEN Hyphen ELSE 0]
    BY <1>11 DEF Shape, IsDigit, Hyphen
  <1>13. made = DepartmentCode(draw)
    BY <1>3, <1>6, <1>9 DEF DepartmentCode
  <1>. QED  BY <1>12, <1>13 DEF DepartmentFormats

-----------------------------------------------------------------------------
(* Formats *)

Followed(A, B) == {a \o b : a \in A, b \in B}

\* The texts of a chain of formats, part after part.
Chained(g, f, n) ==
    /\ g[1..0] = {<<>>} /\ Chain(f) = g[1..n]
    /\ \A k \in 1..n : g[1..k] = Followed(g[1..(k - 1)], f[k])
    /\ \A k \in 0..n : g[1..k] \subseteq Seq(Nat)

Parts(f, n) == n \in Nat /\ f \in [1..n -> SUBSET Seq(Nat)]

LEMMA ChainRuns ==
    ASSUME NEW n, NEW f, Parts(f, n)
    PROVE  \E g : Chained(g, f, n)
  <1>0. n \in Nat /\ f \in [1..n -> SUBSET Seq(Nat)]
    BY DEF Parts
  <1>. DEFINE S == 1..n
              V == SUBSET Seq(Nat)
              pick == [s \in SUBSET S |-> Max(s)]
              step == [p \in S \X V |-> Followed(p[2], f[p[1]])]
              Eqn(h) == h = [s \in SUBSET S |-> IF s = {} THEN {<<>>}
                                                ELSE Followed(h[s \ {Max(s)}], f[Max(s)])]
              iter == CHOOSE h : Eqn(h)
  <1>1. IsFiniteSet(S) /\ S \subseteq Int
    BY <1>0, FS_Interval
  <1>2. \A s \in SUBSET S : s # {} => Max(s) \in s
    <2>. SUFFICES ASSUME NEW s \in SUBSET S, s # {} PROVE Max(s) \in s
      OBVIOUS
    <2>1. IsFiniteSet(s) /\ s \in SUBSET Int
      BY <1>1, FS_Subset
    <2>. QED  BY <2>1, MaxOf
  <1>3. \A s \in SUBSET S : pick[s] = Max(s)
    OBVIOUS
  <1>4. \A x \in S, v \in V : step[<<x, v>>] = Followed(v, f[x])
    <2>. HIDE DEF S, V
    <2>. QED  BY DEF step
  <1>5. \A A \in V, B \in V : Followed(A, B) \in V
    <2>. SUFFICES ASSUME NEW A \in V, NEW B \in V PROVE Followed(A, B) \subseteq Seq(Nat)
      OBVIOUS
    <2>1. ASSUME NEW t \in Followed(A, B) PROVE t \in Seq(Nat)
      <3>1. PICK a \in A, b \in B : t = a \o b
        BY DEF Followed
      <3>2. a \in Seq(Nat) /\ b \in Seq(Nat)
        BY <3>1
      <3>. QED  BY <3>1, <3>2
    <2>. QED  BY <2>1
  <1>6. {<<>>} \in V
    OBVIOUS
  <1>7. \A x \in S : f[x] \in V
    BY <1>0
  <1>8. PICK g \in [SUBSET S -> V] : Accumulates(g, S, {<<>>}, pick, step)
    <2>1. Foldable(S, V, {<<>>}, pick, step)
      <3>1. \A s \in SUBSET S : s # {} => pick[s] \in s
        BY <1>2, <1>3
      <3>2. \A x \in S, v \in V : step[<<x, v>>] \in V
        <4>. HIDE DEF S, V, step
        <4>. QED  BY <1>4, <1>5, <1>7
      <3>. HIDE DEF S, V, pick, step
      <3>. QED  BY <1>1, <1>6, <3>1, <3>2 DEF Foldable
    <2>. HIDE DEF S, V, pick, step
    <2>. QED  BY <2>1, FoldExists
  <1>9. Chain(f) = iter[S]
    <2>1. DOMAIN f = S
      BY <1>0
    <2>. QED  BY <2>1 DEF Chain, FoldLeft, MapThenFoldSet, Followed
  <1>. HIDE DEF V, pick, step
  <1>10. Eqn(g)
    <2>1. ASSUME NEW s \in SUBSET S
          PROVE  g[s] = IF s = {} THEN {<<>>} ELSE Followed(g[s \ {Max(s)}], f[Max(s)])
      <3>1. CASE s = {}
        BY <1>8, <3>1 DEF Accumulates
      <3>2. CASE s # {}
        <4>1. Max(s) \in S /\ s \ {Max(s)} \in SUBSET S /\ pick[s] = Max(s)
          BY <1>2, <1>3, <3>2
        <4>2. g[s] = step[<<Max(s), g[s \ {Max(s)}]>>]
          BY <1>8, <3>2, <4>1 DEF Accumulates
        <4>3. g[s \ {Max(s)}] \in V
          BY <4>1
        <4>4. g[s] = Followed(g[s \ {Max(s)}], f[Max(s)])
          BY <1>4, <4>1, <4>2, <4>3
        <4>. QED  BY <3>2, <4>4
      <3>. QED  BY <3>1, <3>2
    <2>. QED  BY <2>1
  <1>11. Eqn(iter)
    <2>. HIDE DEF Eqn
    <2>. QED  BY <1>10
  <1>. HIDE DEF iter
  <1>12. \A s \in SUBSET S : iter[s] = IF s = {} THEN {<<>>} ELSE Followed(iter[s \ {Max(s)}], f[Max(s)])
    BY <1>11
  <1>. HIDE DEF Eqn
  <1>13. iter[1..0] = {<<>>}
    <2>1. 1..0 = {} /\ {} \in SUBSET S
      OBVIOUS
    <2>2. iter[{}] = {<<>>}
      BY <1>12, <2>1
    <2>. QED  BY <2>1, <2>2
  <1>14. ASSUME NEW k \in 1..n
         PROVE  iter[1..k] = Followed(iter[1..(k - 1)], f[k])
    <2>1. 1..k \in SUBSET S /\ k \in Nat /\ k > 0
      BY <1>0
    <2>2. Max(1..k) = k /\ 1..k # {} /\ (1..k) \ {k} = 1..(k - 1)
      BY <2>1, MaxUpto
    <2>. HIDE DEF S
    <2>3. iter[1..k] = Followed(iter[(1..k) \ {Max(1..k)}], f[Max(1..k)])
      BY <1>12, <2>1, <2>2
    <2>. QED  BY <2>2, <2>3
  <1>15. \A k \in 0..n : iter[1..k] \in V
    <2>. DEFINE T == {k \in Nat : k <= n => iter[1..k] \in V}
    <2>1. 0 \in T
      BY <1>6, <1>13
    <2>2. ASSUME NEW k \in Nat, k \in T PROVE k + 1 \in T
      <3>1. SUFFICES ASSUME k + 1 <= n PROVE iter[1..(k + 1)] \in V
        OBVIOUS
      <3>2. k + 1 \in 1..n /\ (k + 1) - 1 = k /\ k <= n
        BY <1>0, <3>1
      <3>3. iter[1..(k + 1)] = Followed(iter[1..k], f[k + 1]) /\ iter[1..k] \in V /\ f[k + 1] \in V
        BY <1>7, <1>14, <2>2, <3>2
      <3>. QED  BY <1>5, <3>3
    <2>. HIDE DEF T
    <2>3. Nat \subseteq T
      BY <2>1, <2>2, NatSetInduction
    <2>. QED  BY <1>0, <2>3 DEF T
  <1>16. Chained(iter, f, n)
    BY <1>0, <1>9, <1>13, <1>14, <1>15 DEF Chained, V
  <1>. QED  BY <1>16

\* Some m digits in a row, in a shape and in a value.
Block(t, m) == \E p \in Nat : p + m <= Len(t) /\ \A i \in 1..m : t[p + i] = 0

\* A part of digits at the end is a block, and what follows a block does not undo it.
LEMMA BlockEnds ==
    ASSUME NEW A \in SUBSET Seq(Nat), NEW m \in Nat, NEW t \in Followed(A, D(m))
    PROVE  Block(t, m)
  <1>1. PICK a \in A, b \in D(m) : t = a \o b
    BY DEF Followed
  <1>2. b = [k \in 1..m |-> 0]
    BY <1>1 DEF D
  <1>3. b \in Seq(Nat) /\ Len(b) = m /\ \A i \in 1..m : b[i] = 0
    BY <1>2
  <1>4. a \in Seq(Nat) /\ Len(a) \in Nat
    BY <1>1
  <1>. HIDE <1>2
  <1>5. PICK p \in Nat : p = Len(a)
    BY <1>4
  <1>6. RowOf(a, p, Nat) /\ RowOf(b, m, Nat)
    BY <1>3, <1>4, <1>5, SeqIsRow
  <1>7. Joins(t, a, p, b, m, Nat)
    BY <1>1, <1>5, <1>6, RowsJoined, Zenon
  <1>8. Len(t) = p + m /\ \A i \in 1..m : t[p + i] = b[i]
    BY <1>7 DEF Joins, RowOf
  <1>9. p + m <= Len(t) /\ \A i \in 1..m : t[p + i] = 0
    BY <1>3, <1>5, <1>8
  <1>. QED  BY <1>5, <1>9 DEF Block

LEMMA BlockStays ==
    ASSUME NEW A \in SUBSET Seq(Nat), NEW B \in SUBSET Seq(Nat), NEW m \in Nat,
           \A a \in A : Block(a, m), NEW t \in Followed(A, B)
    PROVE  Block(t, m)
  <1>1. PICK a \in A, b \in B : t = a \o b
    BY DEF Followed
  <1>2. PICK p \in Nat : p + m <= Len(a) /\ \A i \in 1..m : a[p + i] = 0
    BY <1>1 DEF Block
  <1>3. a \in Seq(Nat) /\ b \in Seq(Nat) /\ Len(a) \in Nat /\ Len(b) \in Nat
    BY <1>1
  <1>4. Len(t) = Len(a) + Len(b) /\ \A k \in 1..Len(a) : t[k] = a[k]
    BY <1>1, <1>3
  <1>5. \A i \in 1..m : p + i \in 1..Len(a)
    BY <1>2, <1>3
  <1>6. p + m <= Len(t)
    BY <1>2, <1>3, <1>4
  <1>7. \A i \in 1..m : t[p + i] = 0
    BY <1>2, <1>4, <1>5, Zenon
  <1>. QED  BY <1>2, <1>6, <1>7 DEF Block

\* A part of m digits is a block of every text of the chain.
LEMMA ChainBlock ==
    ASSUME NEW n, NEW f, Parts(f, n), NEW j \in 1..n, NEW m \in Nat, f[j] = D(m)
    PROVE  \A t \in Chain(f) : Block(t, m)
  <1>1. PICK g : Chained(g, f, n)
    BY ChainRuns
  <1>2. n \in Nat /\ \A k \in 1..n : f[k] \in SUBSET Seq(Nat)
    BY DEF Parts
  <1>. DEFINE T == {k \in Nat : j + k <= n => \A t \in g[1..(j + k)] : Block(t, m)}
  <1>3. 0 \in T
    <2>1. g[1..j] = Followed(g[1..(j - 1)], D(m)) /\ g[1..(j - 1)] \in SUBSET Seq(Nat)
      <3>1. j - 1 \in 0..n
        BY <1>2
      <3>. QED  BY <1>1, <3>1 DEF Chained
    <2>2. j + 0 = j
      BY <1>2
    <2>. QED  BY <2>1, <2>2, BlockEnds
  <1>4. ASSUME NEW k \in Nat, k \in T PROVE k + 1 \in T
    <2>1. SUFFICES ASSUME j + (k + 1) <= n PROVE \A t \in g[1..(j + (k + 1))] : Block(t, m)
      OBVIOUS
    <2>2. PICK l : l = j + k
      OBVIOUS
    <2>3. l \in 0..n /\ l + 1 \in 1..n /\ j + (k + 1) = l + 1 /\ (l + 1) - 1 = l /\ j + k <= n
      BY <1>2, <2>1, <2>2
    <2>4. g[1..(l + 1)] = Followed(g[1..l], f[l + 1]) /\ g[1..l] \in SUBSET Seq(Nat)
      BY <1>1, <2>3 DEF Chained
    <2>5. \A t \in g[1..l] : Block(t, m)
      BY <1>4, <2>2, <2>3
    <2>6. \A t \in g[1..(l + 1)] : Block(t, m)
      BY <1>2, <2>3, <2>4, <2>5, BlockStays
    <2>. QED  BY <2>3, <2>6
  <1>. HIDE DEF T
  <1>5. n - j \in T
    <2>1. Nat \subseteq T
      BY <1>3, <1>4, NatSetInduction
    <2>2. n - j \in Nat
      BY <1>2
    <2>. QED  BY <2>1, <2>2
  <1>6. j + (n - j) = n /\ n <= n
    BY <1>2
  <1>7. \A t \in g[1..n] : Block(t, m)
    BY <1>5, <1>6 DEF T
  <1>8. Chain(f) = g[1..n]
    BY <1>1 DEF Chained
  <1>. QED  BY <1>7, <1>8


\* The parts of formats are texts.
LEMMA PartTexts ==
    /\ \A n \in Nat : D(n) \in SUBSET Seq(Nat)
    /\ \A S \in SUBSET Nat : Opt(S) \in SUBSET Seq(Nat)
    /\ \A c \in Nat : {<<c>>} \in SUBSET Seq(Nat)
  <1>1. ASSUME NEW n \in Nat PROVE [k \in 1..n |-> 0] \in Seq(Nat)
    OBVIOUS
  <1>2. \A c \in Nat : <<c>> \in Seq(Nat)
    OBVIOUS
  <1>3. <<>> \in Seq(Nat)
    OBVIOUS
  <1>. QED  BY <1>1, <1>2, <1>3 DEF D, Opt

LEMMA Characters ==
    /\ {Space, Hyphen} \in SUBSET Nat /\ {Plus} \in SUBSET Nat /\ {Open} \in SUBSET Nat
    /\ {Close} \in SUBSET Nat /\ {Space} \in SUBSET Nat /\ {Numero} \in SUBSET Nat
    /\ {Space, Hyphen, Open} \in SUBSET Nat /\ {Space, Hyphen, Close} \in SUBSET Nat
    /\ Space \in Nat /\ Numero \in Nat /\ Letter \in Nat
  BY DEF Space, Hyphen, Plus, Open, Close, Numero, Letter

\* The texts of a chain are texts.
LEMMA ChainTexts ==
    ASSUME NEW n, NEW f, Parts(f, n)
    PROVE  Chain(f) \in SUBSET Seq(Nat)
  <1>1. PICK g : Chained(g, f, n)
    BY ChainRuns
  <1>2. n \in 0..n
    BY DEF Parts
  <1>. QED  BY <1>1, <1>2 DEF Chained

\* A phone number has three digits in a row.
LEMMA PhoneBlocks == \A t \in PhoneFormats \cup GoPhoneFormats : Block(t, 3)
  <1>. DEFINE V == SUBSET Seq(Nat)
  <1>1. D(1) \in V /\ D(2) \in V /\ D(3) \in V
    BY PartTexts
  <1>2. Sep \in V /\ Opt({Plus}) \in V /\ Opt({Open}) \in V /\ Opt({Close}) \in V
    BY PartTexts, Characters, Zenon DEF Sep
  <1>3. ASSUME NEW S \in SUBSET Nat PROVE Chain(<<Opt(S), Opt(S)>>) \in V
    <2>1. PICK o : o = Opt(S)
      OBVIOUS
    <2>2. o \in V
      BY <2>1, PartTexts, Zenon
    <2>. HIDE DEF V
    <2>3. <<o, o>> \in [1..2 -> V] /\ 2 \in Nat
      BY <2>2
    <2>4. Parts(<<o, o>>, 2)
      BY <2>3, Zenon DEF Parts, V
    <2>. QED  BY <2>1, <2>4, ChainTexts, Zenon DEF V
  <1>4. ASSUME NEW a \in V, NEW b \in V, NEW c \in V, NEW d \in V, NEW e \in V, NEW x \in V, NEW y \in V
        PROVE  \A t \in Chain(<<a, b, c, d, D(3), x, c, D(3), c, e, c, e>>) : Block(t, 3)
    <2>1. PICK three \in V : three = D(3)
      BY <1>1
    <2>2. PICK f : f = <<a, b, c, d, three, x, c, three, c, e, c, e>>
      OBVIOUS
    <2>. HIDE DEF V
    <2>3. f \in [1..12 -> V] /\ f[5] = three /\ 12 \in Nat /\ 5 \in 1..12 /\ 3 \in Nat
      BY <2>2
    <2>4. Parts(f, 12) /\ f[5] = D(3)
      BY <2>1, <2>3 DEF Parts, V
    <2>5. \A t \in Chain(f) : Block(t, 3)
      BY <2>3, <2>4, ChainBlock, Zenon
    <2>. QED  BY <2>1, <2>2, <2>5, Zenon
  <1>5. ASSUME NEW a \in V, NEW b \in V, NEW c \in V, NEW d \in V, NEW e \in V, NEW x \in V
        PROVE  \A t \in Chain(<<a, b, c, D(3), d, D(3), e, x, e, x>>) : Block(t, 3)
    <2>1. PICK three \in V : three = D(3)
      BY <1>1
    <2>2. PICK f : f = <<a, b, c, three, d, three, e, x, e, x>>
      OBVIOUS
    <2>. HIDE DEF V
    <2>3. f \in [1..10 -> V] /\ f[4] = three /\ 10 \in Nat /\ 4 \in 1..10 /\ 3 \in Nat
      BY <2>2
    <2>4. Parts(f, 10) /\ f[4] = D(3)
      BY <2>1, <2>3 DEF Parts, V
    <2>5. \A t \in Chain(f) : Block(t, 3)
      BY <2>3, <2>4, ChainBlock, Zenon
    <2>. QED  BY <2>1, <2>2, <2>5, Zenon
  <1>6. /\ Chain(<<Opt({Space, Hyphen, Open}), Opt({Space, Hyphen, Open})>>) \in V
        /\ Chain(<<Opt({Space, Hyphen, Close}), Opt({Space, Hyphen, Close})>>) \in V
    BY <1>3, Characters, Zenon
  <1>. HIDE DEF V
  <1>7. \A t \in PhoneFormats : Block(t, 3)
    BY <1>1, <1>2, <1>4, Zenon DEF PhoneFormats
  <1>8. \A t \in GoPhoneFormats : Block(t, 3)
    BY <1>1, <1>2, <1>5, <1>6, Zenon DEF GoPhoneFormats
  <1>. QED  BY <1>7, <1>8

\* Passports and licences have six.
LEMMA SixBlocks ==
    /\ \A t \in BareFormats \cup PassportFormats \cup GoPassportFormats \cup LicenseFormats : Block(t, 6)
    /\ \A n \in Nat : n >= 6 => \A t \in D(n) : Block(t, 6)
  <1>. DEFINE V == SUBSET Seq(Nat)
  <1>1. D(2) \in V /\ D(4) \in V /\ D(6) \in V
    BY PartTexts
  <1>2. /\ Opt({Space}) \in V /\ Opt({Numero}) \in V /\ {<<Space>>} \in V /\ {<<Numero>>} \in V
        /\ {<<Letter>>} \in V
    BY PartTexts, Characters, Zenon
  <1>3. ASSUME NEW f, NEW n \in Nat, n > 0, f \in [1..n -> V], f[n] = D(6)
        PROVE  \A t \in Chain(f) : Block(t, 6)
    <2>1. Parts(f, n) /\ n \in 1..n /\ 6 \in Nat
      BY <1>3 DEF Parts
    <2>. QED  BY <1>3, <2>1, ChainBlock
  <1>. HIDE DEF V
  <1>4. ASSUME NEW a \in V, NEW b \in V
        PROVE  \A t \in Chain(<<a, b, D(6)>>) : Block(t, 6)
    <2>1. PICK six \in V : six = D(6)
      BY <1>1
    <2>2. PICK f : f = <<a, b, six>>
      OBVIOUS
    <2>3. f \in [1..3 -> V] /\ f[3] = six /\ 3 \in Nat /\ 3 > 0
      BY <2>2
    <2>4. \A t \in Chain(f) : Block(t, 6)
      BY <1>3, <2>1, <2>3
    <2>. QED  BY <2>1, <2>2, <2>4, Zenon
  <1>5. ASSUME NEW a \in V, NEW b \in V, NEW c \in V, NEW d \in V
        PROVE  \A t \in Chain(<<a, b, c, d, D(6)>>) : Block(t, 6)
    <2>1. PICK six \in V : six = D(6)
      BY <1>1
    <2>2. PICK f : f = <<a, b, c, d, six>>
      OBVIOUS
    <2>3. f \in [1..5 -> V] /\ f[5] = six /\ 5 \in Nat /\ 5 > 0
      BY <2>2
    <2>4. \A t \in Chain(f) : Block(t, 6)
      BY <1>3, <2>1, <2>3
    <2>. QED  BY <2>1, <2>2, <2>4, Zenon
  <1>6. ASSUME NEW a \in V, NEW b \in V, NEW c \in V, NEW d \in V, NEW e \in V, NEW x \in V
        PROVE  \A t \in Chain(<<a, b, c, d, e, x, D(6)>>) : Block(t, 6)
    <2>1. PICK six \in V : six = D(6)
      BY <1>1
    <2>2. PICK f : f = <<a, b, c, d, e, x, six>>
      OBVIOUS
    <2>3. f \in [1..7 -> V] /\ f[7] = six /\ 7 \in Nat /\ 7 > 0
      BY <2>2
    <2>4. \A t \in Chain(f) : Block(t, 6)
      BY <1>3, <2>1, <2>3
    <2>. QED  BY <2>1, <2>2, <2>4, Zenon
  <1>7. ASSUME NEW a \in V, NEW b \in V, NEW c \in V, NEW d \in V, NEW e \in V, NEW x \in V
        PROVE  \A t \in Chain(<<a, b, c, d, c, b, e, x, D(6)>>) : Block(t, 6)
    <2>1. PICK six \in V : six = D(6)
      BY <1>1
    <2>2. PICK f : f = <<a, b, c, d, c, b, e, x, six>>
      OBVIOUS
    <2>3. f \in [1..9 -> V] /\ f[9] = six /\ 9 \in Nat /\ 9 > 0
      BY <2>2
    <2>4. \A t \in Chain(f) : Block(t, 6)
      BY <1>3, <2>1, <2>3
    <2>. QED  BY <2>1, <2>2, <2>4, Zenon
  <1>8. \A t \in BareFormats : Block(t, 6)
    BY <1>1, <1>2, <1>4, <1>5, Zenon DEF BareFormats
  <1>9. \A t \in PassportFormats : Block(t, 6)
    BY <1>1, <1>2, <1>5, <1>6, <1>8, Zenon DEF PassportFormats
  <1>10. \A t \in GoPassportFormats : Block(t, 6)
    BY <1>1, <1>2, <1>5, <1>7, <1>8, Zenon DEF GoPassportFormats
  <1>11. ASSUME NEW n \in Nat, n >= 6, NEW t \in D(n) PROVE Block(t, 6)
    <2>1. t = [k \in 1..n |-> 0]
      BY <1>11 DEF D
    <2>2. 0 \in Nat /\ 0 + 6 <= Len(t) /\ \A i \in 1..6 : t[0 + i] = 0
      BY <1>11, <2>1
    <2>. QED  BY <2>2 DEF Block
  <1>12. \A t \in LicenseFormats : Block(t, 6)
    <2>1. 10 \in Nat /\ 10 >= 6
      OBVIOUS
    <2>2. \A t \in D(10) : Block(t, 6)
      BY <1>11, <2>1
    <2>. QED  BY <1>8, <2>2 DEF LicenseFormats
  <1>. QED  BY <1>8, <1>9, <1>10, <1>11, <1>12

\* Digits before and behind a place.
LEMMA NthBetween ==
    ASSUME NEW value \in Seq(Nat), NEW k \in DigitsAt(value), NEW a \in Nat, NEW b \in Nat,
           NEW before \in SUBSET {j \in DigitsAt(value) : j <= k}, Cardinality(before) = a,
           NEW behind \in SUBSET {j \in DigitsAt(value) : j > k}, Cardinality(behind) = b
    PROVE  /\ Nth(value, k) \in Nat /\ DigitCount(value) \in Nat
           /\ a <= Nth(value, k) /\ Nth(value, k) + b <= DigitCount(value)
  <1>. DEFINE S == DigitsAt(value)
              T == {j \in S : j <= k}
              U == {j \in S : j > k}
  <1>1. IsFiniteSet(S) /\ S \subseteq Nat
    <2>1. IsFiniteSet(DOMAIN value)
      BY FS_Interval
    <2>. QED  BY <2>1, FS_Subset DEF DigitsAt
  <1>2. T \subseteq S /\ U \subseteq S /\ S = T \cup U /\ T \cap U = {}
    BY <1>1
  <1>3. Nth(value, k) = Cardinality(T) /\ DigitCount(value) = Cardinality(S)
    BY DEF Nth, DigitCount
  <1>. HIDE DEF S, T, U
  <1>4. IsFiniteSet(T) /\ IsFiniteSet(U)
    BY <1>1, <1>2, FS_Subset
  <1>5. Cardinality(T) \in Nat /\ Cardinality(U) \in Nat /\ Cardinality(S) \in Nat
    BY <1>1, <1>4, FS_CardinalityType
  <1>6. Cardinality(S) = Cardinality(T) + Cardinality(U)
    <2>1. Cardinality(T \cup U) = Cardinality(T) + Cardinality(U) - Cardinality(T \cap U)
      BY <1>4, FS_Union
    <2>2. Cardinality(T \cap U) = 0
      BY <1>2, FS_EmptySet
    <2>. QED  BY <1>2, <1>5, <2>1, <2>2
  <1>7. Cardinality(before) <= Cardinality(T)
    <2>1. before \in SUBSET T
      BY DEF T, S
    <2>. QED  BY <1>4, <2>1, FS_Subset
  <1>8. Cardinality(behind) <= Cardinality(U)
    <2>1. behind \in SUBSET U
      BY DEF U, S
    <2>. QED  BY <1>4, <2>1, FS_Subset
  <1>. QED  BY <1>3, <1>5, <1>6, <1>7, <1>8

\* A block of a shape is one of digits.
Digital(value, p, m) == p \in Nat /\ m \in Nat /\ \A i \in 1..m : p + i \in DigitsAt(value)

LEMMA ShapeBlock ==
    ASSUME NEW value \in Seq(Nat), NEW m \in Nat, Block(Shape(value), m)
    PROVE  \E p : Digital(value, p, m)
  <1>1. DOMAIN Shape(value) = 1..Len(value) /\ Len(value) \in Nat
    BY DEF Shape
  <1>2. Len(Shape(value)) = Len(value)
    BY <1>1
  <1>3. PICK p \in Nat : p + m <= Len(value) /\ \A i \in 1..m : Shape(value)[p + i] = 0
    BY <1>2 DEF Block
  <1>4. ASSUME NEW i \in 1..m PROVE p + i \in DigitsAt(value)
    <2>0. p + i \in 1..Len(value) /\ DOMAIN value = 1..Len(value)
      BY <1>1, <1>3
    <2>1. p + i \in DOMAIN value /\ Shape(value)[p + i] = 0
      BY <1>3, <2>0
    <2>2. Shape(value)[p + i] = IF IsDigit(value[p + i]) THEN 0 ELSE value[p + i]
      BY <2>1 DEF Shape
    <2>3. IsDigit(value[p + i])
      BY <2>1, <2>2 DEF IsDigit
    <2>. QED  BY <2>1, <2>3 DEF DigitsAt
  <1>. QED  BY <1>3, <1>4 DEF Digital

\* Where the digits of a block are counted.
LEMMA PlaceOfBlock ==
    ASSUME NEW value \in Seq(Nat), NEW p, NEW m, Digital(value, p, m), NEW i \in 1..m
    PROVE  /\ p + i \in DigitsAt(value) /\ Nth(value, p + i) \in Nat /\ DigitCount(value) \in Nat
           /\ i <= Nth(value, p + i) /\ Nth(value, p + i) + (m - i) <= DigitCount(value)
  <1>1. p \in Nat /\ m \in Nat /\ \A j \in 1..m : p + j \in DigitsAt(value)
    BY DEF Digital
  <1>2. PICK before, behind : before = (p + 1)..(p + i) /\ behind = (p + i + 1)..(p + m)
    OBVIOUS
  <1>3. Cardinality(before) = i /\ Cardinality(behind) = m - i
    <2>1. p + 1 \in Int /\ p + i \in Int /\ p + i + 1 \in Int /\ p + m \in Int
      BY <1>1
    <2>2. Cardinality((p + 1)..(p + i)) = IF p + 1 > p + i THEN 0 ELSE (p + i) - (p + 1) + 1
      BY <2>1, FS_Interval
    <2>3. Cardinality((p + i + 1)..(p + m)) = IF p + i + 1 > p + m THEN 0 ELSE (p + m) - (p + i + 1) + 1
      BY <2>1, FS_Interval
    <2>. QED  BY <1>1, <1>2, <2>2, <2>3
  <1>4. \A k \in (p + 1)..(p + m) : k \in DigitsAt(value)
    <2>1. \A k \in (p + 1)..(p + m) : k - p \in 1..m /\ p + (k - p) = k
      BY <1>1
    <2>. QED  BY <1>1, <2>1
  <1>5. /\ before \in SUBSET {j \in DigitsAt(value) : j <= p + i}
        /\ behind \in SUBSET {j \in DigitsAt(value) : j > p + i}
    BY <1>1, <1>2, <1>4
  <1>6. i \in Nat /\ m - i \in Nat
    BY <1>1
  <1>7. p + i \in DigitsAt(value)
    BY <1>1
  <1>. QED  BY <1>3, <1>5, <1>6, <1>7, NthBetween

\* A phone number has more than one digit.
LEMMA PhoneDigits ==
    ASSUME NEW value \in Seq(Nat), Shape(value) \in PhoneFormats \cup GoPhoneFormats
    PROVE  DigitCount(value) > 1
  <1>1. Block(Shape(value), 3) /\ 3 \in Nat /\ 1 \in 1..3
    BY PhoneBlocks
  <1>2. PICK p : Digital(value, p, 3)
    BY <1>1, ShapeBlock
  <1>3. /\ Nth(value, p + 1) \in Nat /\ DigitCount(value) \in Nat
        /\ 1 <= Nth(value, p + 1) /\ Nth(value, p + 1) + (3 - 1) <= DigitCount(value)
    BY <1>1, <1>2, PlaceOfBlock
  <1>. QED  BY <1>3

-----------------------------------------------------------------------------
(* Numbers that are made up *)

\* A department code has six digits.
LEMMA DepartmentDigits ==
    ASSUME NEW value, Shape(value) \in DepartmentFormats
    PROVE  DigitCount(value) = 6
  <1>1. Shape(value) = [k \in 1..7 |-> IF k = 4 THEN Hyphen ELSE 0]
    BY DEF DepartmentFormats
  <1>2. DOMAIN value = 1..7
    <2>1. DOMAIN Shape(value) = DOMAIN value
      BY DEF Shape
    <2>. QED  BY <1>1, <2>1
  <1>3. \A k \in 1..7 : IsDigit(value[k]) <=> k # 4
    <2>1. \A k \in 1..7 : Shape(value)[k] = IF IsDigit(value[k]) THEN 0 ELSE value[k]
      BY <1>2 DEF Shape
    <2>2. \A k \in 1..7 : Shape(value)[k] = IF k = 4 THEN Hyphen ELSE 0
      BY <1>1
    <2>. QED  BY <2>1, <2>2 DEF IsDigit, Hyphen
  <1>4. PICK h : h = [i \in 1..6 |-> IF i < 4 THEN i ELSE i + 1]
    OBVIOUS
  <1>5. Lists(h, 6, value)
    <2>1. h \in [1..6 -> Nat] /\ \A i, j \in 1..6 : i < j => h[i] < h[j]
      BY <1>4
    <2>2. \A k \in 1..7 : k # 4 => \E i \in 1..6 : k = h[i]
      <3>1. ASSUME NEW k \in 1..7, k # 4 PROVE \E i \in 1..6 : k = h[i]
        <4>1. CASE k < 4
          <5>1. k \in 1..6 /\ h[k] = k
            BY <1>4, <4>1
          <5>. QED  BY <5>1
        <4>2. CASE k > 4
          <5>1. k - 1 \in 1..6 /\ h[k - 1] = k
            BY <1>4, <4>2
          <5>. QED  BY <5>1
        <4>. QED  BY <3>1, <4>1, <4>2
      <3>. QED  BY <3>1
    <2>3. \A i \in 1..6 : h[i] \in 1..7 /\ h[i] # 4
      BY <1>4
    <2>4. DigitsAt(value) = {k \in 1..7 : k # 4}
      BY <1>2, <1>3 DEF DigitsAt
    <2>5. {k \in 1..7 : k # 4} = {h[i] : i \in 1..6}
      BY <2>2, <2>3
    <2>. QED  BY <2>1, <2>4, <2>5 DEF Lists
  <1>6. 6 \in Nat
    OBVIOUS
  <1>. QED  BY <1>5, <1>6, DigitsListed

\* What is no digit stays, and so does the first of several digits.
LEMMA FirstStays ==
    ASSUME NEW value \in Seq(Nat), DigitCount(value) > 1, NEW k \in DOMAIN value,
           \A j \in DigitsAt(value) : k <= j, NEW draw
    PROVE  DigitsLike(value, 1, draw)[k] = value[k] /\ Redrawn(value, 1, draw)[k] = value[k]
  <1>1. IsFiniteSet(DigitsAt(value)) /\ DigitsAt(value) \in SUBSET Int
    <2>1. IsFiniteSet(DOMAIN value)
      BY FS_Interval
    <2>. QED  BY <2>1, FS_Subset DEF DigitsAt
  <1>2. k \in DigitsAt(value) => Nth(value, k) = 1
    <2>1. SUFFICES ASSUME k \in DigitsAt(value) PROVE Nth(value, k) = 1
      OBVIOUS
    <2>2. {j \in DigitsAt(value) : j <= k} = {k}
      BY <1>1, <2>1
    <2>. QED  BY <2>2, FS_Singleton DEF Nth
  <1>3. DigitsAt(value) # {} /\ DigitsAt(value) # {k}
    <2>1. Cardinality({}) = 0 /\ Cardinality({k}) = 1
      BY FS_EmptySet, FS_Singleton
    <2>2. DigitCount(value) = Cardinality(DigitsAt(value))
      BY DEF DigitCount
    <2>3. DigitCount(value) # 0 /\ DigitCount(value) # 1
      OBVIOUS
    <2>. QED  BY <2>1, <2>2, <2>3, Zenon
  <1>4. PICK last : last = Max(DigitsAt(value))
    OBVIOUS
  <1>5. last \in DigitsAt(value) /\ \A j \in DigitsAt(value) : last >= j
    BY <1>1, <1>3, <1>4, MaxOf
  <1>6. last # k
    <2>1. SUFFICES ASSUME last = k PROVE DigitsAt(value) = {k}
      BY <1>3
    <2>2. \A j \in DigitsAt(value) : j = k
      BY <1>1, <1>5, <2>1
    <2>. QED  BY <1>5, <2>1, <2>2
  <1>7. Redrawn(value, 1, draw)[k] = value[k]
    BY <1>2 DEF Redrawn
  <1>8. [value EXCEPT ![last] = (@ + 1) % 10][k] = value[k]
    BY <1>6
  <1>9. DigitsLike(value, 1, draw) \in {Redrawn(value, 1, draw), [value EXCEPT ![last] = (@ + 1) % 10]}
    BY <1>4 DEF DigitsLike
  <1>. QED  BY <1>7, <1>8, <1>9

\* A phone number with new digits is one.
LEMMA PhoneMade ==
    ASSUME NEW value \in Seq(Nat), DigitCount(value) > 1, NEW formats, IsPhone(value, formats),
           NEW draw \in [1..DigitCount(value) -> 0..9]
    PROVE  IsPhone(DigitsLike(value, 1, draw), formats) /\ IsPhone(Redrawn(value, 1, draw), formats)
  <1>1. DigitsAt(value) \subseteq DOMAIN value /\ DOMAIN value = 1..Len(value) /\ Len(value) \in Nat
    BY DEF DigitsAt
  <1>2. PICK j \in DigitsAt(value) : TRUE
    <2>1. DigitCount(value) # 0 /\ DigitCount(value) = Cardinality(DigitsAt(value))
      BY DEF DigitCount
    <2>2. Cardinality({}) = 0
      BY FS_EmptySet
    <2>3. DigitsAt(value) # {}
      BY <2>1, <2>2, Zenon
    <2>. QED  BY <2>3
  <1>3. 1 \in DOMAIN value
    BY <1>1, <1>2
  <1>4. \A i \in DigitsAt(value) : i >= 1
    BY <1>1
  <1>5. DigitsLike(value, 1, draw)[1] = value[1] /\ Redrawn(value, 1, draw)[1] = value[1]
    BY <1>3, <1>4, FirstStays
  <1>6. ASSUME value[1] = Plus
        PROVE  DigitsLike(value, 1, draw)[2] = value[2] /\ Redrawn(value, 1, draw)[2] = value[2]
    <2>1. 1 \notin DigitsAt(value)
      BY <1>6 DEF DigitsAt, IsDigit, Plus
    <2>2. \A i \in DigitsAt(value) : i >= 2
      BY <1>1, <2>1
    <2>3. 2 \in DOMAIN value
      BY <1>1, <1>2, <2>2
    <2>. QED  BY <2>2, <2>3, FirstStays
  <1>7. Shape(DigitsLike(value, 1, draw)) = Shape(value) /\ Shape(Redrawn(value, 1, draw)) = Shape(value)
    BY <1>2, DigitsLikeChanges, RedrawnShape
  <1>. QED  BY <1>5, <1>6, <1>7 DEF IsPhone

\* A number as a detector may find it, and a draw of digits for it.
Number(type, value) == type \in NumberTypes /\ value \in Seq(Nat) /\ DigitsAt(value) # {}

DigitsDrawn(type, value, draw) ==
    draw \in [1..(IF type = "CARD_NUMBER" THEN 15 ELSE DigitCount(value)) -> 0..9]

\* A taxpayer number has ten or twelve digits and nothing else.
LEMMA InnLength ==
    ASSUME NEW value \in Seq(Nat), IsInn(value)
    PROVE  Len(value) \in {10, 12} /\ DigitCount(value) = Len(value)
  <1>1. ASSUME NEW n \in Nat, Shape(value) \in D(n)
        PROVE  Len(value) = n /\ DigitCount(value) = n
    <2>1. DOMAIN value = 1..n /\ DigitCount(value) = n
      BY <1>1, DigitShape
    <2>2. Len(value) \in Nat /\ DOMAIN value = 1..Len(value)
      OBVIOUS
    <2>. QED  BY <2>1, <2>2
  <1>2. 10 \in Nat /\ 12 \in Nat
    OBVIOUS
  <1>3. Shape(value) \in D(10) \/ Shape(value) \in D(12)
    BY DEF IsInn
  <1>. QED  BY <1>1, <1>2, <1>3

\* What generic makes up is found again.
LEMMA PyMade ==
    ASSUME NEW type, NEW value, Number(type, value), PyDetected(type, value),
           NEW draw, DigitsDrawn(type, value, draw)
    PROVE  PyDetected(type, Generic(type, value, draw))
  <1>1. value \in Seq(Nat) /\ DigitsAt(value) # {} /\ type \in NumberTypes
    BY DEF Number
  <1>2. CASE type = "CARD_NUMBER"
    <2>1. draw \in [1..15 -> 0..9]
      BY <1>2 DEF DigitsDrawn
    <2>. QED  BY <1>2, <2>1, CardDetected DEF Generic, PyDetected
  <1>3. ASSUME type # "CARD_NUMBER" PROVE draw \in [1..DigitCount(value) -> 0..9]
    BY <1>3 DEF DigitsDrawn
  <1>4. CASE type = "PHONE"
    <2>1. IsPhone(value, PhoneFormats)
      BY <1>4 DEF PyDetected
    <2>2. DigitCount(value) > 1 /\ draw \in [1..DigitCount(value) -> 0..9]
      BY <1>1, <1>3, <1>4, <2>1, PhoneDigits DEF IsPhone
    <2>3. IsPhone(DigitsLike(value, 1, draw), PhoneFormats)
      BY <1>1, <2>1, <2>2, PhoneMade
    <2>. QED  BY <1>4, <2>3 DEF Generic, PyDetected
  <1>5. CASE type \in {"PASSPORT", "DRIVER_LICENSE"}
    <2>1. Shape(DigitsLike(value, 0, draw)) = Shape(value)
      BY <1>1, <1>3, <1>5, DigitsLikeChanges
    <2>2. Generic(type, value, draw) = DigitsLike(value, 0, draw)
      BY <1>5 DEF Generic
    <2>. QED  BY <1>5, <2>1, <2>2 DEF PyDetected
  <1>6. CASE type = "INN"
    <2>1. Len(value) \in {10, 12} /\ DigitCount(value) = Len(value)
      BY <1>1, <1>6, InnLength DEF PyDetected
    <2>2. draw \in [1..Len(value) -> 0..9]
      BY <1>3, <1>6, <2>1
    <2>3. IsInn(Inn(Len(value), draw))
      BY <2>1, <2>2, InnMade
    <2>. QED  BY <1>6, <2>3 DEF Generic, PyDetected
  <1>7. CASE type = "DEPARTMENT_CODE"
    <2>1. DigitCount(value) = 6
      BY <1>7, DepartmentDigits DEF PyDetected
    <2>2. draw \in [1..6 -> 0..9]
      BY <1>3, <1>7, <2>1
    <2>. QED  BY <1>7, <2>2, DepartmentMade DEF Generic, PyDetected
  <1>8. CASE type \in {"CVV", "PIN"}
    <2>1. PICK n \in Nat : CodeFormats[type] = D(n)
      <3>1. 3 \in Nat /\ 4 \in Nat /\ CodeFormats.CVV = D(3) /\ CodeFormats.PIN = D(4)
        BY DEF CodeFormats
      <3>. QED  BY <1>8, <3>1
    <2>2. DigitCount(value) = n
      BY <1>8, <2>1, DigitShape DEF PyDetected
    <2>3. draw \in [1..n -> 0..9]
      BY <1>3, <1>8, <2>2
    <2>4. Shape(draw) \in D(n)
      BY <2>3, AllDigits
    <2>5. Generic(type, value, draw) = draw
      BY <1>8 DEF Generic
    <2>. QED  BY <1>8, <2>1, <2>4, <2>5 DEF PyDetected
  <1>. QED  BY <1>1, <1>2, <1>4, <1>5, <1>6, <1>7, <1>8 DEF NumberTypes

\* And what syntheticFor makes up, but for the second draw of a phone.
LEMMA GoMade ==
    ASSUME NEW type, NEW value, Number(type, value), GoDetected(type, value),
           NEW draw, DigitsDrawn(type, value, draw), type = "PHONE" => attempt = 0
    PROVE  GoDetected(type, GoNumber(type, value, draw))
  <1>1. value \in Seq(Nat) /\ DigitsAt(value) # {} /\ type \in NumberTypes
    BY DEF Number
  <1>2. CASE type = "CARD_NUMBER"
    <2>1. draw \in [1..15 -> 0..9]
      BY <1>2 DEF DigitsDrawn
    <2>2. IsCard(GoCard(draw))
      BY <2>1, CardDetected
    <2>. QED  BY <1>2, <2>2 DEF GoNumber, GoDetected, PyDetected
  <1>3. ASSUME type # "CARD_NUMBER" PROVE draw \in [1..DigitCount(value) -> 0..9]
    BY <1>3 DEF DigitsDrawn
  <1>4. CASE type = "PHONE"
    <2>1. IsPhone(value, GoPhoneFormats)
      BY <1>4 DEF GoDetected
    <2>2. DigitCount(value) > 1 /\ draw \in [1..DigitCount(value) -> 0..9]
      BY <1>1, <1>3, <1>4, <2>1, PhoneDigits DEF IsPhone
    <2>3. IsPhone(Redrawn(value, 1, draw), GoPhoneFormats)
      BY <1>1, <2>1, <2>2, PhoneMade
    <2>4. GoNumber(type, value, draw) = Redrawn(value, 1, draw)
      BY <1>4 DEF GoNumber
    <2>. QED  BY <1>4, <2>3, <2>4 DEF GoDetected
  <1>5. CASE type \in {"PASSPORT", "DRIVER_LICENSE", "CVV", "PIN"}
    <2>1. Shape(Redrawn(value, 0, draw)) = Shape(value)
      BY <1>1, <1>3, <1>5, RedrawnShape
    <2>2. GoNumber(type, value, draw) = Redrawn(value, 0, draw)
      BY <1>5 DEF GoNumber
    <2>. QED  BY <1>5, <2>1, <2>2 DEF GoDetected, PyDetected
  <1>6. CASE type = "INN"
    <2>0. IsInn(value)
      BY <1>6 DEF GoDetected, PyDetected
    <2>1. Len(value) \in {10, 12} /\ DigitCount(value) = Len(value)
      BY <1>1, <2>0, InnLength
    <2>2. draw \in [1..Len(value) -> 0..9]
      BY <1>3, <1>6, <2>1
    <2>3. IsInn(Inn(Len(value), draw))
      BY <2>1, <2>2, InnMade
    <2>4. GoInn(Len(value), draw) = Inn(Len(value), draw)
      BY <2>1 DEF GoInn
    <2>. QED  BY <1>6, <2>3, <2>4 DEF GoNumber, GoDetected, PyDetected
  <1>7. CASE type = "DEPARTMENT_CODE"
    <2>1. DigitCount(value) = 6
      BY <1>7, DepartmentDigits DEF GoDetected, PyDetected
    <2>2. draw \in [1..6 -> 0..9]
      BY <1>3, <1>7, <2>1
    <2>. QED  BY <1>7, <2>2, DepartmentMade DEF GoNumber, GoDetected, PyDetected
  <1>. QED  BY <1>1, <1>2, <1>4, <1>5, <1>6, <1>7 DEF NumberTypes

\* Until a value is replaced it is one the detector has found, and the first draw of the
\* Go service is known by its number.
FoundInv ==
    /\ phase = "value" => doc \in Values /\ Detected(doc.type, doc.value) /\ attempt \in Nat
    /\ SyntheticDetected

\* Every step keeps that.
LEMMA FoundStep == FoundInv /\ [Next \/ GoNext \/ ValueNext]_vars => FoundInv'
  <1>. SUFFICES ASSUME FoundInv, [Next \/ GoNext \/ ValueNext]_vars PROVE FoundInv'
    OBVIOUS
  <1>1. CASE Next \/ GoNext
    BY <1>1, TextSteps DEF FoundInv, SyntheticDetected, Made
  <1>2. CASE MaskValue
    <2>1. phase' = "valueDone" /\ mode' = mode /\ mode \notin {"VALUE", "GO_VALUE"}
      BY <1>2 DEF MaskValue
    <2>. QED  BY <2>1 DEF FoundInv, SyntheticDetected, Made
  <1>3. ASSUME phase = "value",
               NEW draw \in DigitDraws(IF doc.type = "CARD_NUMBER" THEN 15 ELSE DigitCount(doc.value))
        PROVE  Number(doc.type, doc.value) /\ DigitsDrawn(doc.type, doc.value, draw)
    <2>1. doc \in Values
      BY <1>3 DEF FoundInv
    <2>2. Number(doc.type, doc.value)
      BY <2>1, ValuesAssumption DEF Number
    <2>3. PICK n : n = IF doc.type = "CARD_NUMBER" THEN 15 ELSE DigitCount(doc.value)
      OBVIOUS
    <2>4. draw \in [1..n -> 0..9]
      BY <1>3, <2>1, <2>3, ValuesAssumption
    <2>. QED  BY <2>2, <2>3, <2>4 DEF DigitsDrawn
  <1>4. ASSUME NEW draw \in (IF phase = "value"
                             THEN DigitDraws(IF doc.type = "CARD_NUMBER" THEN 15 ELSE DigitCount(doc.value))
                             ELSE {}),
               DrawValue(draw)
        PROVE  FoundInv'
    <2>1. doc' = doc /\ mode' = mode /\ phase = "value" /\ ~Go /\ ~Go'
      BY <1>4 DEF DrawValue, Go
    <2>2. Number(doc.type, doc.value) /\ DigitsDrawn(doc.type, doc.value, draw)
      BY <1>3, <1>4, <2>1
    <2>3. PyDetected(doc.type, doc.value) /\ attempt \in Nat /\ doc \in Values
      BY <2>1 DEF FoundInv, Detected
    <2>4. PICK new : new = Generic(doc.type, doc.value, draw)
      OBVIOUS
    <2>5. PyDetected(doc.type, new)
      BY <2>2, <2>3, <2>4, PyMade
    <2>6. \/ phase' = "valueDone" /\ result' = new
          \/ phase' = "value" /\ attempt' = attempt + 1
      BY <1>4, <2>1, <2>4 DEF DrawValue
    <2>7. CASE phase' = "valueDone" /\ result' = new
      <3>1. Detected(doc.type, result)'
        BY <2>1, <2>5, <2>7 DEF Detected
      <3>. QED  BY <2>7, <3>1 DEF FoundInv, SyntheticDetected
    <2>8. CASE phase' = "value" /\ attempt' = attempt + 1
      <3>1. Detected(doc.type, doc.value)'
        BY <2>1, <2>3 DEF Detected
      <3>. QED  BY <2>1, <2>3, <2>8, <3>1 DEF FoundInv, SyntheticDetected, Made
    <2>. QED  BY <2>6, <2>7, <2>8
  <1>5. ASSUME NEW draw \in (IF phase = "value"
                             THEN DigitDraws(IF doc.type = "CARD_NUMBER" THEN 15 ELSE DigitCount(doc.value))
                             ELSE {}),
               GoDrawValue(draw)
        PROVE  FoundInv'
    <2>1. doc' = doc /\ mode' = mode /\ phase = "value" /\ Go /\ Go'
      BY <1>5 DEF GoDrawValue, Go
    <2>2. Number(doc.type, doc.value) /\ DigitsDrawn(doc.type, doc.value, draw)
      BY <1>3, <1>5, <2>1
    <2>3. GoDetected(doc.type, doc.value) /\ attempt \in Nat /\ doc \in Values
      BY <2>1 DEF FoundInv, Detected
    <2>4. PICK new : new = GoNumber(doc.type, doc.value, draw)
      OBVIOUS
    <2>5. \/ phase' = "valueDone" /\ result' = new /\ attempt' = attempt
          \/ phase' = "value" /\ attempt' = 1
      BY <1>5, <2>1, <2>4 DEF GoDrawValue
    <2>6. CASE phase' = "valueDone" /\ result' = new /\ attempt' = attempt
      <3>1. CASE doc.type = "PHONE" /\ attempt > 0
        BY <2>1, <2>6, <3>1 DEF FoundInv, SyntheticDetected
      <3>2. CASE ~(doc.type = "PHONE" /\ attempt > 0)
        <4>1. doc.type = "PHONE" => attempt = 0
          BY <2>3, <3>2
        <4>2. GoDetected(doc.type, new)
          BY <2>2, <2>3, <2>4, <4>1, GoMade
        <4>3. Detected(doc.type, result)'
          BY <2>1, <2>6, <4>2 DEF Detected
        <4>. QED  BY <2>6, <4>3 DEF FoundInv, SyntheticDetected
      <3>. QED  BY <3>1, <3>2
    <2>7. CASE phase' = "value" /\ attempt' = 1
      <3>1. Detected(doc.type, doc.value)'
        BY <2>1, <2>3 DEF Detected
      <3>. QED  BY <2>1, <2>3, <2>7, <3>1 DEF FoundInv, SyntheticDetected, Made
    <2>. QED  BY <2>5, <2>6, <2>7
  <1>6. CASE UNCHANGED vars
    <2>1. /\ phase' = phase /\ doc' = doc /\ attempt' = attempt /\ mode' = mode /\ result' = result
      BY <1>6 DEF vars
    <2>2. Detected(doc.type, doc.value)' = Detected(doc.type, doc.value)
      BY <2>1 DEF Detected, Go
    <2>3. SyntheticDetected' = SyntheticDetected
      BY <2>1 DEF SyntheticDetected, Detected, Go, Made
    <2>. QED  BY <2>1, <2>2, <2>3 DEF FoundInv
  <1>. QED  BY <1>1, <1>2, <1>4, <1>5, <1>6 DEF ValueNext

\* For every number the detector of its type has found and every draw: the number made up
\* for it by generic or syntheticFor has a right checksum and one of the type's formats.
THEOREM NumbersAreFound == AllSpec => []SyntheticDetected
  <1>1. Init \/ GoInit \/ ValueInit => FoundInv
    BY DEF Init, GoInit, ValueInit, FoundInv, SyntheticDetected, Made
  <1>2. FoundInv => SyntheticDetected
    BY DEF FoundInv
  <1>. QED  BY <1>1, <1>2, FoundStep, PTL DEF AllSpec

-----------------------------------------------------------------------------
(* Masks that leave a trace *)

\* Two stars in a row.
Trace(r) == \E k \in 2..Len(r) : r[k - 1] = Star /\ r[k] = Star

\* Two neighbouring digits that are hidden leave a trace.
LEMMA HiddenTrace ==
    ASSUME NEW value \in Seq(Nat), NEW keep, NEW k,
           k \in DigitsAt(value) \ keep, k - 1 \in DigitsAt(value) \ keep
    PROVE  Trace(Hide(value, keep)) /\ Trace(MaskAlnum(value))
  <1>1. /\ k \in DOMAIN value /\ k - 1 \in DOMAIN value /\ IsDigit(value[k]) /\ IsDigit(value[k - 1])
        /\ DOMAIN value = 1..Len(value) /\ Len(value) \in Nat
    BY DEF DigitsAt
  <1>2. k \in 2..Len(value)
    BY <1>1
  <1>3. PICK r : r = Hide(value, keep)
    OBVIOUS
  <1>4. DOMAIN r = 1..Len(value) /\ r[k] = Star /\ r[k - 1] = Star
    BY <1>1, <1>3 DEF Hide
  <1>5. PICK q : q = MaskAlnum(value)
    OBVIOUS
  <1>6. DOMAIN q = 1..Len(value) /\ q[k] = Star /\ q[k - 1] = Star
    BY <1>1, <1>5 DEF MaskAlnum
  <1>7. Len(r) = Len(value) /\ Len(q) = Len(value)
    BY <1>1, <1>4, <1>6
  <1>. QED  BY <1>2, <1>3, <1>4, <1>5, <1>6, <1>7 DEF Trace

\* Six digits in a row are not all among the first two and the last two.
LEMMA SixHidden ==
    ASSUME NEW value \in Seq(Nat), Block(Shape(value), 6)
    PROVE  Trace(Hide(value, Ends(value, 2, 2))) /\ Trace(MaskNumeric(value, 2, 2))
  <1>1. 6 \in Nat /\ 3 \in 1..6 /\ 4 \in 1..6
    OBVIOUS
  <1>2. PICK p : Digital(value, p, 6)
    BY <1>1, ShapeBlock
  <1>3. p \in Nat /\ (p + 4) - 1 = p + 3
    BY <1>2 DEF Digital
  <1>4. ASSUME NEW i \in {3, 4} PROVE p + i \in DigitsAt(value) \ Ends(value, 2, 2)
    <2>1. i \in 1..6
      OBVIOUS
    <2>2. /\ p + i \in DigitsAt(value) /\ Nth(value, p + i) \in Nat /\ DigitCount(value) \in Nat
          /\ i <= Nth(value, p + i) /\ Nth(value, p + i) + (6 - i) <= DigitCount(value)
      BY <1>2, <2>1, PlaceOfBlock
    <2>3. ~(Nth(value, p + i) <= 2) /\ ~(Nth(value, p + i) > DigitCount(value) - 2)
      BY <2>2
    <2>. QED  BY <2>2, <2>3 DEF Ends
  <1>5. p + 4 \in DigitsAt(value) \ Ends(value, 2, 2) /\ (p + 4) - 1 \in DigitsAt(value) \ Ends(value, 2, 2)
    BY <1>3, <1>4
  <1>6. p + 4 \in DigitsAt(value) \ {} /\ (p + 4) - 1 \in DigitsAt(value) \ {}
    BY <1>5
  <1>7. Trace(Hide(value, Ends(value, 2, 2))) /\ Trace(Hide(value, {}))
    BY <1>5, <1>6, HiddenTrace
  <1>8. MaskNumeric(value, 2, 2) \in {Hide(value, Ends(value, 2, 2)), Hide(value, {})}
    BY DEF MaskNumeric
  <1>. QED  BY <1>7, <1>8

\* Nor are three digits in a row the first one.
LEMMA ThreeHidden ==
    ASSUME NEW value \in Seq(Nat), Block(Shape(value), 3)
    PROVE  Trace(Hide(value, Ends(value, 1, 0)))
  <1>1. 3 \in Nat
    OBVIOUS
  <1>2. PICK p : Digital(value, p, 3)
    BY <1>1, ShapeBlock
  <1>3. p \in Nat /\ (p + 3) - 1 = p + 2
    BY <1>2 DEF Digital
  <1>4. ASSUME NEW i \in {2, 3} PROVE p + i \in DigitsAt(value) \ Ends(value, 1, 0)
    <2>1. i \in 1..3
      OBVIOUS
    <2>2. /\ p + i \in DigitsAt(value) /\ Nth(value, p + i) \in Nat /\ DigitCount(value) \in Nat
          /\ i <= Nth(value, p + i) /\ Nth(value, p + i) + (3 - i) <= DigitCount(value)
      BY <1>2, <2>1, PlaceOfBlock
    <2>3. ~(Nth(value, p + i) <= 1) /\ ~(Nth(value, p + i) > DigitCount(value) - 0)
      BY <2>2
    <2>. QED  BY <2>2, <2>3 DEF Ends
  <1>5. p + 3 \in DigitsAt(value) \ Ends(value, 1, 0) /\ (p + 3) - 1 \in DigitsAt(value) \ Ends(value, 1, 0)
    BY <1>3, <1>4
  <1>. QED  BY <1>5, HiddenTrace

\* A card with two neighbouring digits to hide.
Groups(type, value) ==
    type = "CARD_NUMBER" =>
        \E k \in 2..Len(value) : {k - 1, k} \subseteq DigitsAt(value) \ Ends(value, 4, 4)

\* Codes are hidden as a whole.
LEMMA CodeHidden ==
    ASSUME NEW value \in Seq(Nat),
           \/ Shape(value) \in D(3) \/ Shape(value) \in D(4) \/ Shape(value) \in DepartmentFormats
    PROVE  Trace(MaskAlnum(value))
  <1>1. Shape(value)[1] = 0 /\ Shape(value)[2] = 0 /\ {1, 2} \subseteq DOMAIN Shape(value)
    BY DEF D, DepartmentFormats
  <1>2. \A k \in {1, 2} : k \in DigitsAt(value) \ {}
    <2>1. DOMAIN Shape(value) = DOMAIN value
      BY DEF Shape
    <2>2. \A k \in {1, 2} : (IF IsDigit(value[k]) THEN 0 ELSE value[k]) = 0
      BY <1>1, <2>1 DEF Shape
    <2>. QED  BY <1>1, <2>1, <2>2 DEF DigitsAt, IsDigit
  <1>3. 2 - 1 = 1 /\ 2 \in DigitsAt(value) \ {} /\ 2 - 1 \in DigitsAt(value) \ {}
    BY <1>2
  <1>. QED  BY <1>3, HiddenTrace

\* The masks of all types.
LEMMA MaskMade ==
    ASSUME NEW type, NEW value, Number(type, value), Groups(type, value)
    PROVE  /\ PyDetected(type, value) => Trace(PartialMask(type, value))
           /\ GoDetected(type, value) => Trace(GoPartialMask(type, value))
  <1>1. value \in Seq(Nat) /\ type \in NumberTypes
    BY DEF Number
  <1>2. CASE type = "CARD_NUMBER"
    <2>1. PICK k \in 2..Len(value) : {k - 1, k} \subseteq DigitsAt(value) \ Ends(value, 4, 4)
      BY <1>2 DEF Groups
    <2>2. /\ k \in DigitsAt(value) \ Ends(value, 4, 4) /\ k - 1 \in DigitsAt(value) \ Ends(value, 4, 4)
          /\ k \in DigitsAt(value) \ {} /\ k - 1 \in DigitsAt(value) \ {}
      BY <2>1
    <2>3. Trace(Hide(value, Ends(value, 4, 4))) /\ Trace(Hide(value, {}))
      BY <1>1, <2>2, HiddenTrace
    <2>4. MaskNumeric(value, 4, 4) \in {Hide(value, Ends(value, 4, 4)), Hide(value, {})}
      BY DEF MaskNumeric
    <2>. QED  BY <1>2, <2>3, <2>4 DEF PartialMask, GoPartialMask
  <1>3. CASE type = "PHONE"
    <2>1. PyDetected(type, value) \/ GoDetected(type, value) => Block(Shape(value), 3)
      BY <1>3, PhoneBlocks DEF PyDetected, GoDetected, IsPhone
    <2>2. Block(Shape(value), 3) => Trace(Hide(value, Ends(value, 1, 0)))
      BY <1>1, ThreeHidden
    <2>. QED  BY <1>3, <2>1, <2>2 DEF PartialMask, GoPartialMask
  <1>4. CASE type \in {"PASSPORT", "DRIVER_LICENSE", "INN"}
    <2>1. PyDetected(type, value) \/ GoDetected(type, value) => Block(Shape(value), 6)
      <3>1. 10 \in Nat /\ 12 \in Nat /\ 10 >= 6 /\ 12 >= 6
        OBVIOUS
      <3>2. \A t \in D(10) \cup D(12) : Block(t, 6)
        BY <3>1, SixBlocks
      <3>. QED  BY <1>4, <3>2, SixBlocks DEF PyDetected, GoDetected, IsInn
    <2>2. Block(Shape(value), 6) =>
            Trace(Hide(value, Ends(value, 2, 2))) /\ Trace(MaskNumeric(value, 2, 2))
      BY <1>1, SixHidden
    <2>. QED  BY <1>4, <2>1, <2>2 DEF PartialMask, GoPartialMask
  <1>5. CASE type \in {"DEPARTMENT_CODE", "CVV", "PIN"}
    <2>1. PyDetected(type, value) \/ GoDetected(type, value) =>
            \/ Shape(value) \in D(3) \/ Shape(value) \in D(4) \/ Shape(value) \in DepartmentFormats
      <3>1. CodeFormats["CVV"] = D(3) /\ CodeFormats["PIN"] = D(4)
        BY DEF CodeFormats
      <3>2. CASE type = "DEPARTMENT_CODE"
        BY <3>2 DEF PyDetected, GoDetected
      <3>3. CASE type = "CVV"
        BY <3>1, <3>3 DEF PyDetected, GoDetected
      <3>4. CASE type = "PIN"
        BY <3>1, <3>4 DEF PyDetected, GoDetected
      <3>. QED  BY <1>5, <3>2, <3>3, <3>4
    <2>2. PartialMask(type, value) = MaskAlnum(value) /\ GoPartialMask(type, value) = MaskAlnum(value)
      BY <1>5 DEF PartialMask, GoPartialMask
    <2>. QED  BY <1>1, <2>1, <2>2, CodeHidden
  <1>. QED  BY <1>1, <1>2, <1>3, <1>4, <1>5 DEF NumberTypes

\* Every step keeps the traces.
LEMMA TraceStep == FoundInv /\ MaskTraced /\ [Next \/ GoNext \/ ValueNext]_vars => MaskTraced'
  <1>. SUFFICES ASSUME FoundInv, MaskTraced, [Next \/ GoNext \/ ValueNext]_vars PROVE MaskTraced'
    OBVIOUS
  <1>1. CASE Next \/ GoNext
    BY <1>1, TextSteps DEF MaskTraced
  <1>2. CASE MaskValue
    <2>1. phase = "value" /\ doc' = doc /\ mode' = mode
      BY <1>2 DEF MaskValue
    <2>2. Number(doc.type, doc.value) /\ Detected(doc.type, doc.value)
      BY <2>1, ValuesAssumption DEF FoundInv, Number
    <2>3. SUFFICES ASSUME Groups(doc.type, doc.value) PROVE Trace(result')
      BY <2>1 DEF MaskTraced, Groups, Trace
    <2>4. result' = IF Go THEN GoPartialMask(doc.type, doc.value) ELSE PartialMask(doc.type, doc.value)
      BY <1>2 DEF MaskValue
    <2>. QED  BY <2>2, <2>3, <2>4, MaskMade DEF Detected
  <1>3. ASSUME NEW draw, DrawValue(draw) \/ GoDrawValue(draw) PROVE MaskTraced'
    <2>1. mode' \in {"VALUE", "GO_VALUE"}
      BY <1>3 DEF DrawValue, GoDrawValue
    <2>. QED  BY <2>1 DEF MaskTraced
  <1>4. CASE UNCHANGED vars
    BY <1>4 DEF vars, MaskTraced
  <1>. QED  BY <1>1, <1>2, <1>3, <1>4 DEF ValueNext

\* For every number the detector of its type has found: its partial mask has a run of
\* stars in both services, a card without neighbouring digits to hide apart.
THEOREM MasksLeaveATrace == AllSpec => []MaskTraced
  <1>1. Init \/ GoInit \/ ValueInit => FoundInv /\ MaskTraced
    BY DEF Init, GoInit, ValueInit, FoundInv, SyntheticDetected, Made, MaskTraced
  <1>. QED  BY <1>1, FoundStep, TraceStep, PTL DEF AllSpec
=============================================================================

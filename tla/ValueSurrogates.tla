--------------------------- MODULE ValueSurrogates ---------------------------
(***************************************************************************)
(* What replaces a number: the partial masks, the numbers                  *)
(* SyntheticGenerator and the Go service make up, and the formats and      *)
(* checksums by which the detectors know them.  A character is a natural   *)
(* number; digits stand for themselves.  A word around the number is one   *)
(* letter, and the keywords a detector wants nearby are there.  The doc of *)
(* this part is one value the detector has found.                          *)
(***************************************************************************)
EXTENDS GoSurrogates

CONSTANTS
    Values,         \* [type, value]: numbers in a text
    DigitDraws(_),  \* what randint may give in so many calls
    MaxDraws        \* of department_code and short_code

Space == 10
Hyphen == 11
Plus == 12
Open == 13
Close == 14
Numero == 15
Letter == 20
Star == 21

IsDigit(c) == c \in 0..9

DigitsAt(value) == {k \in DOMAIN value : IsDigit(value[k])}

DigitCount(value) == Cardinality(DigitsAt(value))

\* Which of its digits the value has at k.
Nth(value, k) == Cardinality({j \in DigitsAt(value) : j <= k})

NumberTypes == {"PHONE", "PASSPORT", "DRIVER_LICENSE", "DEPARTMENT_CODE", "CVV", "PIN", "INN", "CARD_NUMBER"}

\* Every format of every detector has a digit in it.
ASSUME ValuesAssumption ==
    \A v \in Values :
        /\ v.type \in NumberTypes /\ v.value \in Seq(Nat) /\ DigitsAt(v.value) # {}
        /\ \A n \in {DigitCount(v.value), 15} : DigitDraws(n) \subseteq [1..n -> 0..9]

Go == mode \in {"GO_PARTIAL", "GO_VALUE"}

-----------------------------------------------------------------------------
(* Checksums *)

Total(numbers) == FoldLeft(LAMBDA a, b : a + b, 0, numbers)

\* The sum behind luhn_valid and _luhn_check_digit.
Luhn(digits) ==
    Total([k \in DOMAIN digits |->
            LET d == IF (k - 1) % 2 = Len(digits) % 2 THEN 2 * digits[k] ELSE digits[k] IN
            IF d > 9 THEN d - 9 ELSE d])

LuhnValid(digits) == Luhn(digits) % 10 = 0

\* Seeded fault: the place of the check digit is not counted.
LuhnCheckDigitShort(prefix) == (-Luhn(prefix)) % 10

LuhnCheckDigit(prefix) == (-Luhn(Append(prefix, 0))) % 10

\* A weighted sum over as many digits as there are weights.
InnCheck(digits, weights) ==
    (Total([k \in DOMAIN weights |-> digits[k] * weights[k]]) % 11) % 10

W10 == <<2, 4, 10, 3, 5, 9, 4, 6, 8>>
W11 == <<7>> \o W10
W12 == <<3>> \o W11

InnValid(digits) ==
    \/ Len(digits) = 10 /\ digits[10] = InnCheck(digits, W10)
    \/ Len(digits) = 12 /\ digits[11] = InnCheck(digits, W11) /\ digits[12] = InnCheck(digits, W12)

-----------------------------------------------------------------------------
(* Formats: a digit is written 0, a regular expression is a set of shapes *)

Shape(value) == [k \in DOMAIN value |-> IF IsDigit(value[k]) THEN 0 ELSE value[k]]

DigitsOf(value) ==
    [n \in 1..DigitCount(value) |-> value[CHOOSE k \in DigitsAt(value) : Nth(value, k) = n]]

D(n) == {[k \in 1..n |-> 0]}

Opt(chars) == {<<>>} \cup {<<c>> : c \in chars}

Sep == Opt({Space, Hyphen})

Chain(parts) == FoldLeft(LAMBDA A, B : {a \o b : a \in A, b \in B}, {<<>>}, parts)

\* _RU_PHONE_RE; international numbers are left out.
PhoneFormats ==
    Chain(<<Opt({Plus}), D(1), Sep, Opt({Open}), D(3), Opt({Close}), Sep, D(3), Sep, D(2), Sep, D(2)>>)

GoPhoneFormats ==
    LET Two(chars) == Chain(<<Opt(chars), Opt(chars)>>) IN
    Chain(<<Opt({Plus}), D(1), Two({Space, Hyphen, Open}), D(3), Two({Space, Hyphen, Close}),
            D(3), Sep, D(2), Sep, D(2)>>)

IsPhone(value, formats) ==
    /\ Shape(value) \in formats
    /\ IF value[1] = Plus THEN value[2] = 7 ELSE value[1] = 8

BareFormats == Chain(<<D(4), {<<Space>>}, D(6)>>) \cup Chain(<<D(2), {<<Space>>}, D(2), {<<Space>>}, D(6)>>)

\* With the word for series, with a number sign, or bare next to a keyword; at most one
\* space stands where any number may.
PassportFormats ==
    BareFormats
    \cup Chain(<<D(4), Opt({Space}), {<<Numero>>}, Opt({Space}), D(6)>>)
    \cup Chain(<<{<<Letter>>}, Opt({Space}), D(4), Opt({Space}), Opt({Numero}), Opt({Space}), D(6)>>)

GoPassportFormats ==
    BareFormats
    \cup Chain(<<D(4), Opt({Space}), {<<Numero>>}, Opt({Space}), D(6)>>)
    \cup Chain(<<{<<Letter>>}, {<<Space>>}, D(2), Opt({Space}), D(2), {<<Space>>}, {<<Numero>>},
                 Opt({Space}), D(6)>>)

LicenseFormats == BareFormats \cup D(10)

DepartmentFormats == {[k \in 1..7 |-> IF k = 4 THEN Hyphen ELSE 0]}

\* _CARD_RE: single separators between digits.
IsCard(value) ==
    /\ \A k \in DOMAIN value : ~IsDigit(value[k]) =>
        value[k] \in {Space, Hyphen} /\ IsDigit(value[k - 1]) /\ IsDigit(value[k + 1])
    /\ Len(DigitsOf(value)) \in 13..19
    /\ LuhnValid(DigitsOf(value))

IsInn(value) == Shape(value) \in D(10) \cup D(12) /\ InnValid(value)

CodeFormats == [CVV |-> D(3), PIN |-> D(4)]

\* Whether the detector of the type finds the value.
PyDetected(type, value) ==
    CASE type = "PHONE" -> IsPhone(value, PhoneFormats)
      [] type = "PASSPORT" -> Shape(value) \in PassportFormats
      [] type = "DRIVER_LICENSE" -> Shape(value) \in LicenseFormats
      [] type = "DEPARTMENT_CODE" -> Shape(value) \in DepartmentFormats
      [] type \in {"CVV", "PIN"} -> Shape(value) \in CodeFormats[type]
      [] type = "INN" -> IsInn(value)
      [] type = "CARD_NUMBER" -> IsCard(value)

\* The Go service takes four digits for a CVV as well.
GoDetected(type, value) ==
    CASE type = "PHONE" -> IsPhone(value, GoPhoneFormats)
      [] type = "PASSPORT" -> Shape(value) \in GoPassportFormats
      [] type = "CVV" -> Shape(value) \in D(3) \cup D(4)
      [] OTHER -> PyDetected(type, value)

Detected(type, value) == IF Go THEN GoDetected(type, value) ELSE PyDetected(type, value)

ValueInit ==
    /\ mode \in {"PARTIAL", "VALUE", "GO_PARTIAL", "GO_VALUE"}
    /\ doc \in Values /\ Detected(doc.type, doc.value)
    /\ phase = "value" /\ attempt = 0
    /\ maps = <<>> /\ used = {} /\ out = <<>>
    /\ reply = <<>> /\ result = <<>>

-----------------------------------------------------------------------------
(* Partial masks *)

Ends(value, first, last) ==
    {k \in DigitsAt(value) : Nth(value, k) <= first \/ Nth(value, k) > DigitCount(value) - last}

Hide(value, keep) ==
    [k \in DOMAIN value |-> IF IsDigit(value[k]) /\ k \notin keep THEN Star ELSE value[k]]

MaskAlnum(value) == [k \in DOMAIN value |-> IF IsDigit(value[k]) \/ value[k] = Letter THEN Star ELSE value[k]]

MaskNumeric(value, first, last) ==
    Hide(value, IF DigitCount(value) > first + last THEN Ends(value, first, last) ELSE {})

\* Seeded fault: short codes show their first and last digit, as long numbers do.
PartialMaskShort(type, value) ==
    CASE type = "PHONE" -> Hide(value, Ends(value, 1, 0))
      [] type = "CARD_NUMBER" -> Hide(value, Ends(value, 4, 4))
      [] type \in {"PASSPORT", "DRIVER_LICENSE", "INN"} -> MaskNumeric(value, 2, 2)
      [] OTHER -> MaskNumeric(value, 1, 1)

PartialMask(type, value) ==
    CASE type = "PHONE" -> Hide(value, Ends(value, 1, 0))
      [] type = "PASSPORT" -> Hide(value, Ends(value, 2, 2))
      [] type = "CARD_NUMBER" -> Hide(value, Ends(value, 4, 4))
      [] type \in {"DRIVER_LICENSE", "INN"} -> MaskNumeric(value, 2, 2)
      [] OTHER -> MaskAlnum(value)

GoPartialMask(type, value) ==
    CASE type = "PHONE" -> Hide(value, Ends(value, 1, 0))
      [] type = "CARD_NUMBER" -> MaskNumeric(value, 4, 4)
      [] type \in {"PASSPORT", "DRIVER_LICENSE", "INN"} -> MaskNumeric(value, 2, 2)
      [] OTHER -> MaskAlnum(value)

MaskValue ==
    /\ phase = "value" /\ mode \in {"PARTIAL", "GO_PARTIAL"}
    /\ result' = IF Go THEN GoPartialMask(doc.type, doc.value) ELSE PartialMask(doc.type, doc.value)
    /\ phase' = "valueDone"
    /\ UNCHANGED <<mode, doc, attempt, maps, used, out, reply>>

-----------------------------------------------------------------------------
(* Synthetic numbers *)

\* New digits in the place of all but the first keep.
Redrawn(value, keep, draw) ==
    [k \in DOMAIN value |->
        IF k \in DigitsAt(value) /\ Nth(value, k) > keep THEN draw[Nth(value, k)] ELSE value[k]]

\* Seeded fault: a draw that repeats the value is returned.
DigitsLikeOnce(value, keep, draw) == Redrawn(value, keep, draw)

\* digits_like: if the draw repeats the value, the last digit is moved on.
DigitsLike(value, keep, draw) ==
    LET new == Redrawn(value, keep, draw) IN
    IF new # value THEN new ELSE [value EXCEPT ![Max(DigitsAt(value))] = (@ + 1) % 10]

Inn(length, draw) ==
    LET body == SubSeq(draw, 1, length - 2) \o <<InnCheck(draw, W11)>> IN
    IF length = 10 THEN SubSeq(draw, 1, 9) \o <<InnCheck(draw, W10)>>
    ELSE Append(body, InnCheck(body, W12))

\* Four groups, with the separator of the original.
Grouped(digits, separator) ==
    [k \in 1..(Len(digits) + (Len(digits) - 1) \div 4) |->
        IF k % 5 = 0 THEN separator ELSE digits[k - k \div 5]]

CardNumber(value, draw) ==
    LET body == <<<<4, 5, 2>>[(draw[1] % 3) + 1]>> \o SubSeq(draw, 2, 15)
        digits == Append(body, LuhnCheckDigit(body)) IN
    CASE Contains(value, Hyphen) -> Grouped(digits, Hyphen)
      [] ~Contains(value, Hyphen) /\ Contains(value, Space) -> Grouped(digits, Space)
      [] OTHER -> digits

DepartmentCode(draw) == SubSeq(draw, 1, 3) \o <<Hyphen>> \o SubSeq(draw, 4, 6)

Generic(type, value, draw) ==
    CASE type \in {"PASSPORT", "DRIVER_LICENSE"} -> DigitsLike(value, 0, draw)
      [] type = "PHONE" -> DigitsLike(value, 1, draw)
      [] type = "INN" -> Inn(Len(value), draw)
      [] type = "CARD_NUMBER" -> CardNumber(value, draw)
      [] type = "DEPARTMENT_CODE" -> DepartmentCode(draw)
      [] type \in {"CVV", "PIN"} -> draw

\* A short code that repeats the original is drawn again, a bounded number of times.
DrawValue(draw) ==
    LET new == Generic(doc.type, doc.value, draw) IN
    /\ phase = "value" /\ mode = "VALUE"
    /\ IF /\ doc.type \in {"DEPARTMENT_CODE", "CVV", "PIN"}
          /\ new = doc.value /\ attempt + 1 < MaxDraws
       THEN attempt' = attempt + 1 /\ UNCHANGED <<phase, result>>
       ELSE result' = new /\ phase' = "valueDone" /\ UNCHANGED attempt
    /\ UNCHANGED <<mode, doc, maps, used, out, reply>>

GoCard(draw) ==
    LET body == <<4>> \o SubSeq(draw, 2, 15) IN Append(body, LuhnCheckDigit(body))

GoInn(length, draw) == Inn(IF length = 12 THEN 12 ELSE 10, draw)

\* syntheticFor of numbers.  synDigitsLike keeps the first digit of a phone in the first
\* draw only.
GoNumber(type, value, draw) ==
    CASE type = "PHONE" -> Redrawn(value, IF attempt = 0 THEN 1 ELSE 0, draw)
      [] type = "INN" -> GoInn(Len(value), draw)
      [] type = "CARD_NUMBER" -> GoCard(draw)
      [] type = "DEPARTMENT_CODE" -> DepartmentCode(draw)
      [] OTHER -> Redrawn(value, 0, draw)

\* A draw that repeats the value is followed by another one; all later draws are alike.
GoDrawValue(draw) ==
    LET new == GoNumber(doc.type, doc.value, draw) IN
    /\ phase = "value" /\ mode = "GO_VALUE"
    /\ IF /\ doc.type \in {"PHONE", "PASSPORT", "DRIVER_LICENSE", "CVV", "PIN"}
          /\ new = doc.value
       THEN attempt' = 1 /\ UNCHANGED <<phase, result>>
       ELSE result' = new /\ phase' = "valueDone" /\ UNCHANGED attempt
    /\ UNCHANGED <<mode, doc, maps, used, out, reply>>

ValueNext ==
    \/ MaskValue
    \/ \E draw \in IF phase = "value"
                   THEN DigitDraws(IF doc.type = "CARD_NUMBER" THEN 15 ELSE DigitCount(doc.value))
                   ELSE {} :
        DrawValue(draw) \/ GoDrawValue(draw)

\* Texts of either service, and values.
AllSpec == (Init \/ GoInit \/ ValueInit) /\ [][Next \/ GoNext \/ ValueNext]_vars

-----------------------------------------------------------------------------
(* Properties *)

Made == phase = "valueDone" /\ mode \in {"VALUE", "GO_VALUE"}

\* A number made up by generic or syntheticFor is one the detector of its type finds: its
\* checksum is right and its format is one of the type's.  _answer_without_storage counts
\* on it when it takes a text full of synthetic numbers for one with personal data.  Left
\* out is the Go phone number whose first draw repeated the original: its first digit is
\* drawn as well, and then need not be a 7 or an 8.
SyntheticDetected ==
    Made /\ ~(Go /\ doc.type = "PHONE" /\ attempt > 0) => Detected(doc.type, result)

\* digits_like and synDigitsLike never give back the number they replace, whatever is
\* drawn, and change digits only, so that the text around them still fits.
DigitsLikeDiffers ==
    Made /\ doc.type \in {"PHONE", "PASSPORT", "DRIVER_LICENSE"}
        => result # doc.value /\ Shape(result) = Shape(doc.value)

\* Every partial mask of a number has a run of stars, by which _answer_without_storage
\* and answerWithoutStorage know a masked text when no storage is there to ask.  Left out
\* is a card without two neighbouring digits between its first and last four, as one that
\* is written digit by digit: its mask has stars but no two in a row.
MaskTraced ==
    /\ phase = "valueDone" /\ mode \in {"PARTIAL", "GO_PARTIAL"}
    /\ doc.type = "CARD_NUMBER" =>
        \E k \in 2..Len(doc.value) : {k - 1, k} \subseteq DigitsAt(doc.value) \ Ends(doc.value, 4, 4)
    => \E k \in 2..Len(result) : result[k - 1] = Star /\ result[k] = Star
=============================================================================

-------------------------- MODULE EntityResolution --------------------------
(***************************************************************************)
(* Who is who in one document: resolve_person_entities links the mentions  *)
(* of a person, in the order of the text, and group_personal_decisions     *)
(* gives every person and every other value its entity_id.                 *)
(*                                                                         *)
(* A word of a name is its normalized (nominative) form; all that is known *)
(* of a word is its role, its value and its first letter.  Surfaces, alias *)
(* types and offsets inside a mention only matter to rendering.            *)
(***************************************************************************)
EXTENDS Integers, Sequences, FiniteSets

CONSTANTS
    Words,          \* normalized words of names
    Letters,
    LetterOf(_),    \* the first letter of a word
    Genders,
    OtherValues, OtherTypes,  \* of what is not a person
    Decided,        \* the documents: personal decisions, by position
    Absent          \* Python's None

Roles == {"surname", "first", "patronymic"}

\* The roles initials stand for, in this order.
Expected == <<"first", "patronymic">>

\* Initials come with a surname only, and there are at most two.
Mention ==
    {m \in [type : {"FULL_NAME"}, words : [Roles -> Words \cup {Absent}],
            initials : Seq(Letters), gender : Genders \cup {Absent}] :
        m.initials # <<>> =>
            /\ Len(m.initials) <= Len(Expected)
            /\ m.words["first"] = Absent /\ m.words["patronymic"] = Absent}

Value == [type : OtherTypes, value : OtherValues]

ASSUME DecisionsAssumption ==
    /\ Decided \subseteq Seq(Mention \cup Value)
    /\ "FULL_NAME" \notin OtherTypes

ASSUME WordsAssumption == Absent \notin Words /\ Absent \notin Genders

VARIABLES
    decisions,  \* the decisions of the document; never changes
    stage,      \* resolve, group, done
    next,       \* the position the loop has reached
    entities,   \* the ResolvedPersons, by ordinal
    groups      \* the EntityGroups, in order

resolveVars == <<decisions, stage, next, entities, groups>>

ResolveInit ==
    /\ decisions \in Decided
    /\ stage = "resolve" /\ next = 1
    /\ entities = <<>> /\ groups = <<>>

-----------------------------------------------------------------------------
(* Mentions as the name detector builds them *)

\* assign_roles: labels the dictionary gives apart are kept; two alike are told apart
\* by the usual orders of a Russian name.  A run has two or three words, each labelled.
AssignRoles(labels) ==
    CASE \A j, k \in DOMAIN labels : labels[j] = labels[k] => j = k -> labels
      [] OTHER ->
            IF Len(labels) = 3
            THEN IF labels[1] # "patronymic" /\ labels[2] = "patronymic"
                 THEN <<"first", "patronymic", "surname">>
                 ELSE <<"surname", "first", "patronymic">>
            ELSE IF labels[1] = "patronymic" THEN <<"patronymic", "first">>
                                             ELSE <<"first", "surname">>

\* The mention made of a run of words with these labels.
RunMention(labels, words, gender) ==
    LET roles == AssignRoles(labels)
        At(r) == {k \in DOMAIN roles : roles[k] = r} IN
    [type |-> "FULL_NAME", gender |-> gender, initials |-> <<>>,
     words |-> [r \in Roles |-> IF At(r) = {} THEN Absent ELSE words[CHOOSE k \in At(r) : TRUE]]]

\* A surname before or after one or two initials.
InitialsMention(surname, initials, gender) ==
    [type |-> "FULL_NAME", gender |-> gender, initials |-> initials,
     words |-> [r \in Roles |-> IF r = "surname" THEN surname ELSE Absent]]

-----------------------------------------------------------------------------
(* resolve_person_entities *)

GenderConflict(g, h) == g # Absent /\ h # Absent /\ g # h

\* _match_words: the roles in which the mention repeats what is known of the entity.
Matched(e, m) == {r \in Roles : m.words[r] # Absent /\ m.words[r] = e.parts[r]}

\* A word in a known role must be the known word.
Contradicts(e, m) ==
    \E r \in Roles : m.words[r] # Absent /\ e.parts[r] # Absent /\ m.words[r] # e.parts[r]

\* _match_initials: every initial is the first letter of a known part.
InitialsVerified(e, m) ==
    \A k \in DOMAIN m.initials :
        /\ k <= Len(Expected)
        /\ e.parts[Expected[k]] # Absent
        /\ LetterOf(e.parts[Expected[k]]) = m.initials[k]

\* Seeded fault: the surname is enough for a mention without initials.
CompatibleBySurname(e, m) ==
    /\ ~GenderConflict(e.gender, m.gender)
    /\ ~Contradicts(e, m)
    /\ "surname" \in Matched(e, m)
    /\ m.initials # <<>> => InitialsVerified(e, m)

\* A surname match plus the first name, the patronymic or verified initials.
Compatible(e, m) ==
    /\ ~GenderConflict(e.gender, m.gender)
    /\ ~Contradicts(e, m)
    /\ "surname" \in Matched(e, m)
    /\ IF m.initials # <<>> THEN InitialsVerified(e, m)
       ELSE Matched(e, m) \cap {"first", "patronymic"} # {}

\* Seeded fault: only the mention that introduces a person is learnt from.
AbsorbOnce(e, k) ==
    LET m == decisions[k] IN
    [parts |-> IF e.members = {} THEN m.words ELSE e.parts,
     gender |-> IF e.gender = Absent THEN m.gender ELSE e.gender,
     members |-> e.members \cup {k}]

\* _absorb: the mention joins, and what it is the first to say is learnt.
Absorb(e, k) ==
    LET m == decisions[k] IN
    [parts |-> [r \in Roles |-> IF e.parts[r] = Absent THEN m.words[r] ELSE e.parts[r]],
     gender |-> IF e.gender = Absent THEN m.gender ELSE e.gender,
     members |-> e.members \cup {k}]

NewPerson(gender) ==
    [parts |-> [r \in Roles |-> Absent], gender |-> gender, members |-> {}]

Matches == {n \in DOMAIN entities : Compatible(entities[n], decisions[next])}

AtMention == stage = "resolve" /\ next <= Len(decisions) /\ decisions[next].type = "FULL_NAME"

\* Exactly one entity is compatible.
Link(n) ==
    /\ AtMention /\ Matches = {n}
    /\ entities' = [entities EXCEPT ![n] = Absorb(entities[n], next)]
    /\ next' = next + 1
    /\ UNCHANGED <<decisions, stage, groups>>

\* None is, or several are: a new person rather than a guess.
Introduce ==
    /\ AtMention /\ ~\E n \in DOMAIN entities : Matches = {n}
    /\ entities' = Append(entities, Absorb(NewPerson(decisions[next].gender), next))
    /\ next' = next + 1
    /\ UNCHANGED <<decisions, stage, groups>>

\* Only FULL_NAME decisions are resolved.
Skip ==
    /\ stage = "resolve" /\ next <= Len(decisions) /\ decisions[next].type # "FULL_NAME"
    /\ next' = next + 1
    /\ UNCHANGED <<decisions, stage, entities, groups>>

ResolutionEnds ==
    /\ stage = "resolve" /\ next > Len(decisions)
    /\ stage' = "group" /\ next' = 1
    /\ UNCHANGED <<decisions, entities, groups>>

-----------------------------------------------------------------------------
(* group_personal_decisions *)

PersonOf(k) == CHOOSE n \in DOMAIN entities : k \in entities[n].members

\* Seeded fault: the key of a person is made of the name alone.
KeyByName(k) ==
    IF decisions[k].type = "FULL_NAME" THEN <<"person", entities[PersonOf(k)].parts, 0>>
                                 ELSE <<decisions[k].type, decisions[k].value>>

\* ResolvedPerson.identity_key holds the ordinal, identity_key_for the type and value.
Key(k) ==
    IF decisions[k].type = "FULL_NAME" THEN <<"person", entities[PersonOf(k)].parts, PersonOf(k)>>
                                 ELSE <<decisions[k].type, decisions[k].value>>

Known == {g \in DOMAIN groups : groups[g].key = Key(next)}

\* The counter of the type's prefix.
Counter(t) == Cardinality({g \in DOMAIN groups : groups[g].type = t})

AtDecision == stage = "group" /\ next <= Len(decisions)

JoinGroup(g) ==
    /\ AtDecision /\ g \in Known
    /\ groups' = [groups EXCEPT ![g].members = @ \cup {next}]
    /\ next' = next + 1
    /\ UNCHANGED <<decisions, stage, entities>>

OpenGroup ==
    /\ AtDecision /\ Known = {}
    /\ groups' = Append(groups, [type |-> decisions[next].type,
                                 number |-> Counter(decisions[next].type) + 1,
                                 key |-> Key(next), members |-> {next}])
    /\ next' = next + 1
    /\ UNCHANGED <<decisions, stage, entities>>

GroupingEnds ==
    /\ stage = "group" /\ next > Len(decisions)
    /\ stage' = "done"
    /\ UNCHANGED <<decisions, next, entities, groups>>

ResolveNext ==
    \/ \E n \in DOMAIN entities : Link(n)
    \/ Introduce \/ Skip \/ ResolutionEnds
    \/ \E g \in DOMAIN groups : JoinGroup(g)
    \/ OpenGroup \/ GroupingEnds

ResolveSpec == ResolveInit /\ [][ResolveNext]_resolveVars

-----------------------------------------------------------------------------
(* Properties *)

ResolvedPerson == [parts : [Roles -> Words \cup {Absent}], gender : Genders \cup {Absent},
           members : SUBSET Nat]

\* Every variable stays within its type.
TypeOK ==
    /\ decisions \in Decided
    /\ stage \in {"resolve", "group", "done"} /\ next \in Nat \ {0}
    /\ entities \in Seq(ResolvedPerson)

\* Nothing two mentions say contradicts the other: words, genders or initials.
Agree(m, n) ==
    /\ ~GenderConflict(m.gender, n.gender)
    /\ \A r \in Roles : m.words[r] # Absent /\ n.words[r] # Absent => m.words[r] = n.words[r]
    /\ \A k \in DOMAIN m.initials :
        /\ n.words[Expected[k]] # Absent => LetterOf(n.words[Expected[k]]) = m.initials[k]
        /\ k \in DOMAIN n.initials => n.initials[k] = m.initials[k]

\* No two mentions linked to one person contradict each other, although each was only
\* compared with what the entity had learnt so far (resolver.py: "a false merge leaks
\* one person's data under another person's identity").
NoFalseMerge ==
    \A n \in DOMAIN entities : \A j, k \in entities[n].members : Agree(decisions[j], decisions[k])

\* Mention k repeats, as a word or as an initial, the name mention j gives in this role.
Repeats(k, j, r) ==
    /\ decisions[j].words[r] # Absent
    /\ \/ decisions[k].words[r] = decisions[j].words[r]
       \/ \E i \in DOMAIN decisions[k].initials :
            Expected[i] = r /\ decisions[k].initials[i] = LetterOf(decisions[j].words[r])

\* Whoever joins a person repeats the surname and a first name or patronymic that
\* earlier mentions of the same person gave (resolver.py: "a bare surname is never
\* enough").
MergeEvidence ==
    \A n \in DOMAIN entities : \A k \in entities[n].members :
        \/ \A j \in entities[n].members : k <= j
        \/ /\ \E j \in entities[n].members : j < k /\ Repeats(k, j, "surname")
           /\ \E j \in entities[n].members, r \in {"first", "patronymic"} :
                j < k /\ Repeats(k, j, r)

\* The two decisions are the same person, or the same value of the same type.
SameIdentity(j, k) ==
    IF decisions[j].type = "FULL_NAME"
    THEN \E n \in DOMAIN entities : {j, k} \subseteq entities[n].members
    ELSE decisions[j] = decisions[k]

\* Two decisions share an entity_id exactly when they share an identity, and the n-th
\* person named gets the number n (identity.py: "One entity_id per logical identity,
\* in first-appearance order").
EntityIds ==
    stage = "done" =>
        /\ \A j, k \in DOMAIN decisions :
            (\E g, h \in DOMAIN groups :
                /\ j \in groups[g].members /\ k \in groups[h].members
                /\ groups[g].type = groups[h].type /\ groups[g].number = groups[h].number)
            <=> SameIdentity(j, k)
        /\ \A g \in DOMAIN groups : groups[g].type = "FULL_NAME" =>
            groups[g].members = entities[groups[g].number].members
=============================================================================

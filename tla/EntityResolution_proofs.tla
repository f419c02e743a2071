---------------------- MODULE EntityResolution_proofs ----------------------
(***************************************************************************)
(* No false merge, no merge without evidence, and entity_ids that follow   *)
(* the identities, for every document.                                     *)
(*                                                                         *)
(* A mention is compared with what the entity has learnt, not with the     *)
(* other mentions.  The invariant says what the learnt parts are: exactly  *)
(* what the members said (Learnt, Sourced).  An entity introduced by       *)
(* initials knows no first name, and therefore never gets a second member  *)
(* (the second disjunct of InitialsKnown): without that, a later mention   *)
(* could contradict initials that were never verified.                     *)
(***************************************************************************)
EXTENDS EntityResolution, FoldTheorems, SequenceTheorems, TLAPS

\* The initials of member k were verified, or m is all the entity has.
InitialsKnown(e, k) ==
    \/ \A i \in DOMAIN decisions[k].initials :
        /\ e.parts[Expected[i]] # Absent
        /\ LetterOf(e.parts[Expected[i]]) = decisions[k].initials[i]
    \/ /\ e.members = {k}
       /\ e.parts["first"] = Absent /\ e.parts["patronymic"] = Absent

\* The entity knows what its member said.
Learnt(e, k) ==
    /\ \A r \in Roles : decisions[k].words[r] # Absent => e.parts[r] = decisions[k].words[r]
    /\ decisions[k].gender # Absent => e.gender = decisions[k].gender
    /\ InitialsKnown(e, k)

\* What the entity knows was said by a member.
Sourced(e) ==
    \A r \in Roles : e.parts[r] # Absent => \E j \in e.members : decisions[j].words[r] = e.parts[r]

Evidence(e, k) ==
    \/ \A j \in e.members : k <= j
    \/ /\ \E j \in e.members : j < k /\ Repeats(k, j, "surname")
       /\ \E j \in e.members, r \in {"first", "patronymic"} : j < k /\ Repeats(k, j, r)

PersonOK(e) ==
    /\ e \in ResolvedPerson
    /\ Sourced(e)
    /\ \A k \in e.members : /\ decisions[k] \in Mention
                            /\ Learnt(e, k) /\ Evidence(e, k)
                            /\ k \in DOMAIN decisions

ResolutionInv ==
    /\ decisions \in Decided /\ next \in Nat \ {0}
    /\ entities \in Seq(ResolvedPerson)
    /\ \A n \in DOMAIN entities : PersonOK(entities[n])
    /\ stage = "resolve" => \A n \in DOMAIN entities : \A k \in entities[n].members : k < next

\* A decision of type FULL_NAME is a mention.
LEMMA AtMentionType ==
    ASSUME decisions \in Decided, next \in Nat \ {0}, AtMention
    PROVE  decisions[next] \in Mention /\ next \in DOMAIN decisions
<1>1. decisions \in Seq(Mention \cup Value) /\ next \in DOMAIN decisions
    BY DecisionsAssumption DEF AtMention
<1>2. decisions[next] \in Mention \cup Value
    BY <1>1
<1>3. \A v \in Value : v.type # "FULL_NAME"
    BY DecisionsAssumption DEF Value
<1> QED BY <1>1, <1>2, <1>3 DEF AtMention

\* What the fields of a mention are.
LEMMA MentionType ==
    ASSUME NEW m \in Mention
    PROVE  /\ m.words \in [Roles -> Words \cup {Absent}]
           /\ m.initials \in Seq(Letters)
           /\ m.gender \in Genders \cup {Absent}
           /\ \A i \in DOMAIN m.initials : i \in {1, 2} /\ Expected[i] \in {"first", "patronymic"}
           /\ DOMAIN m.initials # {} => m.words["first"] = Absent /\ m.words["patronymic"] = Absent
           /\ m.initials # <<>> => 1 \in DOMAIN m.initials
<1>1. /\ m.words \in [Roles -> Words \cup {Absent}]
      /\ m.initials \in Seq(Letters)
      /\ m.gender \in Genders \cup {Absent}
      /\ m.initials # <<>> => /\ Len(m.initials) <= Len(Expected)
                              /\ m.words["first"] = Absent /\ m.words["patronymic"] = Absent
    BY DEF Mention
<1>2. Len(Expected) = 2 /\ Expected[1] = "first" /\ Expected[2] = "patronymic"
    BY DEF Expected
<1>3. CASE m.initials = <<>>
    BY <1>1, <1>3
<1>4. CASE m.initials # <<>>
    <2>1. Len(m.initials) \in Nat \ {0} /\ DOMAIN m.initials = 1..Len(m.initials)
        <3>1. \A s \in Seq(Letters) : s # <<>> => Len(s) \in Nat \ {0}
            BY EmptySeq
        <3> QED BY <1>1, <1>4, <3>1
    <2>2. Len(m.initials) <= 2
        BY <1>1, <1>2, <1>4
    <2> QED BY <1>1, <1>2, <1>4, <2>1, <2>2
<1> QED BY <1>3, <1>4

\* Members that agree with what was learnt agree with each other.
LEMMA LearntAgree ==
    ASSUME NEW e, PersonOK(e), NEW j \in e.members, NEW k \in e.members
    PROVE  Agree(decisions[j], decisions[k])
<1> DEFINE m == decisions[j]
           n == decisions[k]
<1>1. /\ m \in Mention /\ n \in Mention /\ Learnt(e, j) /\ Learnt(e, k)
      /\ e.parts \in [Roles -> Words \cup {Absent}]
    BY DEF PersonOK, ResolvedPerson
<1>2. ~GenderConflict(m.gender, n.gender)
    BY <1>1 DEF Learnt, GenderConflict
<1>3. \A r \in Roles : m.words[r] # Absent /\ n.words[r] # Absent => m.words[r] = n.words[r]
    BY <1>1 DEF Learnt
<1>4. ASSUME NEW i \in DOMAIN m.initials
      PROVE  /\ n.words[Expected[i]] # Absent => LetterOf(n.words[Expected[i]]) = m.initials[i]
             /\ i \in DOMAIN n.initials => n.initials[i] = m.initials[i]
    <2>1. Expected[i] \in Roles
        BY <1>1, MentionType DEF Roles
    <2>2. CASE j = k
        BY <1>1, <2>2, MentionType
    <2>3. CASE j # k
        <3>1. /\ e.parts[Expected[i]] # Absent
              /\ LetterOf(e.parts[Expected[i]]) = m.initials[i]
            BY <1>1, <2>3 DEF Learnt, InitialsKnown
        <3>2. i \in DOMAIN n.initials => LetterOf(e.parts[Expected[i]]) = n.initials[i]
            BY <1>1, <2>3 DEF Learnt, InitialsKnown
        <3> QED BY <1>1, <2>1, <3>1, <3>2 DEF Learnt
    <2> QED BY <2>2, <2>3
<1> QED BY <1>2, <1>3, <1>4 DEF Agree

LEMMA ResolutionInit == ResolveInit => ResolutionInv
BY DEF ResolveInit, ResolutionInv

\* The first mention of a person: everything known comes from it.
LEMMA FirstMember ==
    ASSUME decisions \in Decided, next \in Nat \ {0}, AtMention
    PROVE  PersonOK(Absorb(NewPerson(decisions[next].gender), next))
<1> DEFINE m == decisions[next]
           e == Absorb(NewPerson(m.gender), next)
<1>1. m \in Mention /\ next \in DOMAIN decisions
    BY AtMentionType
<1>2. /\ m.words \in [Roles -> Words \cup {Absent}] /\ m.gender \in Genders \cup {Absent}
      /\ DOMAIN m.initials # {} => m.words["first"] = Absent /\ m.words["patronymic"] = Absent
    BY <1>1, MentionType
<1>3. /\ e.parts = [r \in Roles |-> m.words[r]] /\ e.gender = m.gender /\ e.members = {next}
      /\ e = [parts |-> e.parts, gender |-> e.gender, members |-> e.members]
    BY DEF Absorb, NewPerson
<1>4. e \in ResolvedPerson
    BY <1>2, <1>3 DEF ResolvedPerson
<1>5. Sourced(e)
    BY <1>3 DEF Sourced
<1>6. InitialsKnown(e, next)
    <2>1. CASE DOMAIN m.initials = {}
        BY <2>1 DEF InitialsKnown
    <2>2. CASE DOMAIN m.initials # {}
        BY <1>2, <1>3, <2>2 DEF InitialsKnown, Roles
    <2> QED BY <2>1, <2>2
<1>7. Learnt(e, next)
    BY <1>2, <1>3, <1>6 DEF Learnt
<1>8. Evidence(e, next)
    BY <1>3 DEF Evidence
<1> HIDE DEF e
<1>9. PersonOK(e)
    BY <1>1, <1>3, <1>4, <1>5, <1>7, <1>8 DEF PersonOK
<1> QED BY <1>9 DEF e

\* A later one: it was verified against the parts, and the parts come from members.
LEMMA NextMember ==
    ASSUME decisions \in Decided, next \in Nat \ {0}, AtMention,
           NEW e, PersonOK(e), Compatible(e, decisions[next]), \A k \in e.members : k < next
    PROVE  PersonOK(Absorb(e, next))
<1> DEFINE m == decisions[next]
           f == Absorb(e, next)
<1>1. m \in Mention /\ next \in DOMAIN decisions
    BY AtMentionType
<1>2. /\ m.words \in [Roles -> Words \cup {Absent}] /\ m.gender \in Genders \cup {Absent}
      /\ \A i \in DOMAIN m.initials : Expected[i] \in {"first", "patronymic"}
      /\ m.initials # <<>> => 1 \in DOMAIN m.initials
    BY <1>1, MentionType
<1>3. /\ e.parts \in [Roles -> Words \cup {Absent}] /\ e.gender \in Genders \cup {Absent}
      /\ e.members \in SUBSET Nat
    BY DEF PersonOK, ResolvedPerson
<1>4. /\ f.parts = [r \in Roles |-> IF e.parts[r] = Absent THEN m.words[r] ELSE e.parts[r]]
      /\ f.gender = (IF e.gender = Absent THEN m.gender ELSE e.gender)
      /\ f.members = e.members \cup {next}
    BY DEF Absorb
<1>5. f \in ResolvedPerson
    BY <1>2, <1>3 DEF Absorb, ResolvedPerson
<1>6. \A r \in Roles : e.parts[r] # Absent => f.parts[r] = e.parts[r]
    BY <1>4
<1>7. \A r \in Roles : m.words[r] # Absent => f.parts[r] = m.words[r]
    BY <1>4 DEF Compatible, Contradicts
<1>8. m.gender # Absent => f.gender = m.gender
    BY <1>4 DEF Compatible, GenderConflict
<1>9. \E r \in {"first", "patronymic"} : e.parts[r] # Absent
    <2>1. CASE m.initials # <<>>
        BY <1>2, <2>1 DEF Compatible, InitialsVerified
    <2>2. CASE m.initials = <<>>
        BY <2>2 DEF Compatible, Matched
    <2> QED BY <2>1, <2>2
<1>10. Sourced(f)
    <2> SUFFICES ASSUME NEW r \in Roles, f.parts[r] # Absent
                 PROVE  \E j \in f.members : decisions[j].words[r] = f.parts[r]
        BY DEF Sourced
    <2>1. CASE e.parts[r] = Absent
        BY <1>4, <2>1
    <2>2. CASE e.parts[r] # Absent
        BY <1>4, <1>6, <2>2 DEF PersonOK, Sourced
    <2> QED BY <2>1, <2>2
<1>11. InitialsKnown(f, next)
    <2>1. \A i \in DOMAIN m.initials :
            /\ e.parts[Expected[i]] # Absent /\ LetterOf(e.parts[Expected[i]]) = m.initials[i]
        BY DEF Compatible, InitialsVerified
    <2>2. \A i \in DOMAIN m.initials : Expected[i] \in Roles
        BY <1>2 DEF Roles
    <2> QED BY <1>6, <2>1, <2>2 DEF InitialsKnown
<1>12. Learnt(f, next)
    BY <1>7, <1>8, <1>11 DEF Learnt
<1>13. ASSUME NEW k \in e.members PROVE Learnt(f, k)
    <2>1. decisions[k] \in Mention /\ Learnt(e, k)
        BY DEF PersonOK
    <2>2. \A r \in Roles : decisions[k].words[r] # Absent => f.parts[r] = decisions[k].words[r]
        BY <1>6, <2>1 DEF Learnt
    <2>3. decisions[k].gender # Absent => f.gender = decisions[k].gender
        BY <1>4, <2>1 DEF Learnt
    <2>4. \A i \in DOMAIN decisions[k].initials :
            /\ e.parts[Expected[i]] # Absent
            /\ LetterOf(e.parts[Expected[i]]) = decisions[k].initials[i]
        BY <1>9, <2>1 DEF Learnt, InitialsKnown
    <2>5. \A i \in DOMAIN decisions[k].initials : Expected[i] \in Roles
        BY <2>1, MentionType DEF Roles
    <2>6. InitialsKnown(f, k)
        BY <1>6, <2>4, <2>5 DEF InitialsKnown
    <2> QED BY <2>2, <2>3, <2>6 DEF Learnt
<1>14. \E j \in f.members : j < next /\ Repeats(next, j, "surname")
    <2>1. m.words["surname"] # Absent /\ m.words["surname"] = e.parts["surname"]
        BY DEF Compatible, Matched
    <2>2. PICK j \in e.members : decisions[j].words["surname"] = e.parts["surname"]
        BY <2>1 DEF PersonOK, Sourced, Roles
    <2> QED BY <1>4, <2>1, <2>2 DEF Repeats
<1>15. \E j \in f.members, r \in {"first", "patronymic"} : j < next /\ Repeats(next, j, r)
    <2>1. CASE m.initials # <<>>
        <3>1. /\ 1 \in DOMAIN m.initials /\ e.parts[Expected[1]] # Absent
              /\ LetterOf(e.parts[Expected[1]]) = m.initials[1]
              /\ Expected[1] \in {"first", "patronymic"}
            BY <1>2, <2>1 DEF Compatible, InitialsVerified
        <3>2. PICK j \in e.members : decisions[j].words[Expected[1]] = e.parts[Expected[1]]
            BY <3>1 DEF PersonOK, Sourced, Roles
        <3>3. Repeats(next, j, Expected[1])
            BY <3>1, <3>2 DEF Repeats
        <3> QED BY <1>4, <3>1, <3>2, <3>3
    <2>2. CASE m.initials = <<>>
        <3>1. PICK r \in {"first", "patronymic"} : m.words[r] # Absent /\ m.words[r] = e.parts[r]
            BY <2>2 DEF Compatible, Matched
        <3>2. PICK j \in e.members : decisions[j].words[r] = e.parts[r]
            BY <3>1 DEF PersonOK, Sourced, Roles
        <3>3. Repeats(next, j, r)
            BY <3>1, <3>2 DEF Repeats
        <3> QED BY <1>4, <3>1, <3>2, <3>3
    <2> QED BY <2>1, <2>2
<1>16. Evidence(f, next)
    BY <1>14, <1>15 DEF Evidence
<1>17. ASSUME NEW k \in e.members PROVE Evidence(f, k)
    <2>1. Evidence(e, k)
        BY DEF PersonOK
    <2>2. CASE \A j \in e.members : k <= j
        BY <1>3, <1>4, <2>2 DEF Evidence
    <2>3. CASE /\ \E j \in e.members : j < k /\ Repeats(k, j, "surname")
               /\ \E j \in e.members, r \in {"first", "patronymic"} : j < k /\ Repeats(k, j, r)
        BY <1>4, <2>3 DEF Evidence
    <2> QED BY <2>1, <2>2, <2>3 DEF Evidence
<1>18. \A k \in e.members : decisions[k] \in Mention /\ k \in DOMAIN decisions
    BY DEF PersonOK
<1> HIDE DEF f
<1>19. PersonOK(f)
    BY <1>1, <1>4, <1>5, <1>10, <1>12, <1>13, <1>16, <1>17, <1>18 DEF PersonOK
<1> QED BY <1>19 DEF f

\* Every step of both loops keeps the invariant.
LEMMA ResolutionStep == ResolutionInv /\ [ResolveNext]_resolveVars => ResolutionInv'
<1> SUFFICES ASSUME ResolutionInv, [ResolveNext]_resolveVars PROVE ResolutionInv'
    OBVIOUS
<1> USE DEF ResolutionInv
<1>0. ASSUME UNCHANGED decisions, NEW e, PersonOK(e) PROVE PersonOK(e)'
    BY <1>0 DEF PersonOK, Sourced, Learnt, InitialsKnown, Evidence, Repeats
<1>1. ASSUME NEW n \in DOMAIN entities, Link(n) PROVE ResolutionInv'
    <2>1. /\ AtMention /\ decisions' = decisions /\ next' = next + 1 /\ stage' = stage
          /\ entities' = [entities EXCEPT ![n] = Absorb(entities[n], next)]
          /\ Compatible(entities[n], decisions[next])
        BY <1>1 DEF Link, Matches
    <2>2. PersonOK(Absorb(entities[n], next))
        BY <2>1, NextMember DEF AtMention
    <2>3. /\ entities' \in Seq(ResolvedPerson) /\ DOMAIN entities' = DOMAIN entities
          /\ entities'[n] = Absorb(entities[n], next)
          /\ \A k \in DOMAIN entities : k # n => entities'[k] = entities[k]
        BY <2>1, <2>2 DEF PersonOK
    <2>4. \A k \in DOMAIN entities' : PersonOK(entities[k])'
        BY <1>0, <2>1, <2>2, <2>3
    <2>5. \A k \in DOMAIN entities' : \A j \in entities'[k].members : j < next'
        BY <2>1, <2>3 DEF AtMention, Absorb, PersonOK, ResolvedPerson
    <2> QED BY <2>1, <2>3, <2>4, <2>5
<1>2. CASE Introduce
    <2>1. /\ AtMention /\ decisions' = decisions /\ next' = next + 1 /\ stage' = stage
          /\ entities' = Append(entities, Absorb(NewPerson(decisions[next].gender), next))
        BY <1>2 DEF Introduce
    <2>2. PersonOK(Absorb(NewPerson(decisions[next].gender), next))
        BY <2>1, FirstMember
    <2>3. /\ entities' \in Seq(ResolvedPerson) /\ DOMAIN entities' = 1..(Len(entities) + 1)
          /\ entities'[Len(entities) + 1] = Absorb(NewPerson(decisions[next].gender), next)
          /\ \A k \in DOMAIN entities : entities'[k] = entities[k]
          /\ \A k \in DOMAIN entities' : k = Len(entities) + 1 \/ k \in DOMAIN entities
        BY <2>1, <2>2 DEF PersonOK
    <2>4. \A k \in DOMAIN entities' : PersonOK(entities[k])'
        BY <1>0, <2>1, <2>2, <2>3
    <2>5. \A k \in DOMAIN entities' : \A j \in entities'[k].members : j < next'
        BY <2>1, <2>3 DEF AtMention, Absorb, NewPerson, PersonOK, ResolvedPerson
    <2> QED BY <2>1, <2>3, <2>4, <2>5
<1>3. CASE Skip
    <2>1. \A k \in DOMAIN entities : PersonOK(entities[k])'
        BY <1>0, <1>3 DEF Skip
    <2>2. \A k \in DOMAIN entities : \A j \in entities[k].members : j \in Nat /\ j < next + 1
        BY <1>3 DEF Skip, PersonOK, ResolvedPerson
    <2> QED BY <1>3, <2>1, <2>2 DEF Skip
<1>4. CASE ResolutionEnds
    <2>1. \A k \in DOMAIN entities : PersonOK(entities[k])'
        BY <1>0, <1>4 DEF ResolutionEnds
    <2> QED BY <1>4, <2>1 DEF ResolutionEnds
<1>5. CASE \/ \E g \in DOMAIN groups : JoinGroup(g)
           \/ OpenGroup \/ GroupingEnds \/ UNCHANGED resolveVars
    <2>1. /\ decisions' = decisions /\ entities' = entities /\ next' \in Nat \ {0}
          /\ stage' = "resolve" => stage = "resolve" /\ next' = next
        BY <1>5 DEF JoinGroup, OpenGroup, GroupingEnds, AtDecision, resolveVars
    <2>2. \A k \in DOMAIN entities : PersonOK(entities[k])'
        BY <1>0, <2>1
    <2> QED BY <2>1, <2>2
<1> QED BY <1>1, <1>2, <1>3, <1>4, <1>5 DEF ResolveNext

\* No two mentions linked to one person contradict each other, in any document
\* (resolve_person_entities).
THEOREM MergesAgree == ResolveSpec => []NoFalseMerge
<1>1. ResolutionInv => NoFalseMerge
    BY LearntAgree DEF ResolutionInv, NoFalseMerge
<1> QED BY <1>1, ResolutionInit, ResolutionStep, PTL DEF ResolveSpec

\* Nobody is linked on the strength of a surname alone, in any document (_compatible).
THEOREM MergesHaveEvidence == ResolveSpec => []MergeEvidence
<1>1. ResolutionInv => MergeEvidence
    BY DEF ResolutionInv, MergeEvidence, PersonOK, Evidence
<1> QED BY <1>1, ResolutionInit, ResolutionStep, PTL DEF ResolveSpec
-----------------------------------------------------------------------------
(***************************************************************************)
(* The entity_ids.  A person's ordinal and the number of the FULL_NAME     *)
(* counter are given in two separate loops; they agree because a person is *)
(* introduced before, and therefore grouped before, whoever has a greater  *)
(* ordinal (InOrder).                                                      *)
(***************************************************************************)

\* The first mention of m comes before every mention of n.
Before(m, n) == \E j \in entities[m].members : \A k \in entities[n].members : j < k

\* The persons partition the mentions resolved so far, in order of first appearance.
Partition ==
    /\ \A n \in DOMAIN entities : entities[n].members # {}
    /\ \A m, n \in DOMAIN entities : m # n => entities[m].members \cap entities[n].members = {}
    /\ \A k \in DOMAIN decisions : decisions[k].type = "FULL_NAME" /\ (stage = "resolve" => k < next) =>
        \E n \in DOMAIN entities : k \in entities[n].members

InOrder == \A m, n \in DOMAIN entities : m < n => Before(m, n)

GroupKey ==
    ({"person"} \X [Roles -> Words \cup {Absent}] \X Nat) \cup (OtherTypes \X OtherValues)

Group == [type : OtherTypes \cup {"FULL_NAME"}, number : Nat, key : GroupKey, members : SUBSET Nat]

\* The decisions that the second loop has passed.
Grouped == {k \in DOMAIN decisions : stage = "group" => k < next}

\* A group holds decisions of one identity, the number of a person being the ordinal.
GroupOK(g) ==
    /\ groups[g].members # {}
    /\ \A k \in groups[g].members :
        /\ k \in Grouped
        /\ Key(k) = groups[g].key
        /\ decisions[k].type = groups[g].type
        /\ decisions[k].type = "FULL_NAME" => PersonOf(k) = groups[g].number

Numbered ==
    /\ \A g \in DOMAIN groups : groups[g].number \in 1..Counter(groups[g].type)
    /\ \A g, h \in DOMAIN groups :
        g < h /\ groups[g].type = groups[h].type => groups[g].number < groups[h].number
    /\ \A c \in 1..Counter("FULL_NAME") :
        \E g \in DOMAIN groups : groups[g].type = "FULL_NAME" /\ groups[g].number = c

GroupsOK ==
    /\ \A k \in Grouped : \E g \in DOMAIN groups : k \in groups[g].members
    /\ \A g \in DOMAIN groups : GroupOK(g)
    /\ \A g, h \in DOMAIN groups : groups[g].key = groups[h].key => g = h
    /\ Numbered

IdInv ==
    /\ ResolutionInv /\ Partition /\ InOrder
    /\ groups \in Seq(Group)
    /\ stage \in {"resolve", "group", "done"}
    /\ IF stage = "resolve" THEN groups = <<>> ELSE GroupsOK

\* A mention belongs to one person.
LEMMA PersonIs ==
    ASSUME Partition, NEW n \in DOMAIN entities, NEW k \in entities[n].members
    PROVE  PersonOf(k) = n
<1>1. \A m \in DOMAIN entities : k \in entities[m].members => m = n
    BY DEF Partition
<1> QED BY <1>1 DEF PersonOf

\* Every mention has its person once the first loop is over.
LEMMA PersonExists ==
    ASSUME Partition, stage # "resolve", NEW k \in DOMAIN decisions, decisions[k].type = "FULL_NAME"
    PROVE  PersonOf(k) \in DOMAIN entities /\ k \in entities[PersonOf(k)].members
<1>1. PICK n \in DOMAIN entities : k \in entities[n].members
    BY DEF Partition
<1> QED BY <1>1, PersonIs

\* What a decision is.
LEMMA DecisionType ==
    ASSUME decisions \in Decided, NEW k \in DOMAIN decisions
    PROVE  /\ k \in Nat
           /\ decisions[k].type = "FULL_NAME" => decisions[k] \in Mention
           /\ decisions[k].type # "FULL_NAME" => /\ decisions[k].type \in OtherTypes /\ decisions[k].value \in OtherValues
                                           /\ decisions[k] \in Value
<1>1. decisions \in Seq(Mention \cup Value)
    BY DecisionsAssumption
<1>2. decisions[k] \in Mention \cup Value /\ k \in Nat
    BY <1>1
<1>3. \A m \in Mention : m.type = "FULL_NAME"
    BY DEF Mention
<1>4. \A v \in Value : v.type \in OtherTypes /\ v.value \in OtherValues /\ v.type # "FULL_NAME"
    BY DecisionsAssumption DEF Value
<1> QED BY <1>2, <1>3, <1>4

\* A key tells the type, and of a person the ordinal.
LEMMA KeyTells ==
    ASSUME NEW j, NEW k, Key(j) = Key(k)
    PROVE  /\ decisions[j].type = "FULL_NAME" <=> decisions[k].type = "FULL_NAME"
           /\ decisions[j].type = "FULL_NAME" => PersonOf(j) = PersonOf(k)
           /\ decisions[j].type # "FULL_NAME" => decisions[j].type = decisions[k].type /\ decisions[j].value = decisions[k].value
<1>1. \A a, b, c, d, e : <<a, b, c>> # <<d, e>>
    <2>1. \A a, b, c, d, e : Len(<<a, b, c>>) = 3 /\ Len(<<d, e>>) = 2
        OBVIOUS
    <2> QED BY <2>1
<1>2. \A a, b, c, d, e, f : <<a, b, c>> = <<d, e, f>> => c = f
    OBVIOUS
<1>3. \A a, b, c, d : <<a, b>> = <<c, d>> => a = c /\ b = d
    OBVIOUS
<1>4. decisions[j].type = "FULL_NAME" <=> decisions[k].type = "FULL_NAME"
    BY <1>1 DEF Key
<1>5. CASE decisions[j].type = "FULL_NAME"
    BY <1>2, <1>4, <1>5 DEF Key
<1>6. CASE decisions[j].type # "FULL_NAME"
    BY <1>3, <1>4, <1>6 DEF Key
<1> QED BY <1>4, <1>5, <1>6

\* Mentions of one person, and equal values, have one key.
LEMMA KeySame ==
    ASSUME NEW j, NEW k, decisions[j].type = decisions[k].type,
           decisions[j].type = "FULL_NAME" => PersonOf(j) = PersonOf(k),
           decisions[j].type # "FULL_NAME" => decisions[j].value = decisions[k].value
    PROVE  Key(j) = Key(k)
BY DEF Key

LEMMA KeyType ==
    ASSUME ResolutionInv, Partition, stage # "resolve", NEW k \in DOMAIN decisions
    PROVE  Key(k) \in GroupKey
<1>1. CASE decisions[k].type = "FULL_NAME"
    <2>1. PersonOf(k) \in DOMAIN entities /\ PersonOf(k) \in Nat
        BY <1>1, PersonExists DEF ResolutionInv
    <2>2. entities[PersonOf(k)].parts \in [Roles -> Words \cup {Absent}]
        <3>1. entities[PersonOf(k)] \in ResolvedPerson
            BY <2>1 DEF ResolutionInv, PersonOK
        <3> QED BY <3>1 DEF ResolvedPerson
    <2> QED BY <1>1, <2>1, <2>2 DEF Key, GroupKey
<1>2. CASE decisions[k].type # "FULL_NAME"
    <2>1. decisions[k].type \in OtherTypes /\ decisions[k].value \in OtherValues
        BY <1>2, DecisionType DEF ResolutionInv
    <2> QED BY <1>2, <2>1 DEF Key, GroupKey
<1> QED BY <1>1, <1>2

\* The persons are the mentions resolved so far, in order of first appearance.
LEMMA PersonsStep ==
    ASSUME ResolutionInv, Partition, InOrder, [ResolveNext]_resolveVars
    PROVE  Partition' /\ InOrder'
<1> USE DEF ResolutionInv
<1>0. \A n \in DOMAIN entities : entities[n].members \in SUBSET Nat
    BY DEF PersonOK, ResolvedPerson
<1>1. ASSUME NEW n \in DOMAIN entities, Link(n) PROVE Partition' /\ InOrder'
    <2>1. /\ AtMention /\ decisions' = decisions /\ next' = next + 1 /\ stage' = "resolve" /\ stage = "resolve"
          /\ entities' = [entities EXCEPT ![n] = Absorb(entities[n], next)]
        BY <1>1 DEF Link, AtMention
    <2>2. /\ DOMAIN entities' = DOMAIN entities
          /\ entities'[n].members = entities[n].members \cup {next}
          /\ \A m \in DOMAIN entities : m # n => entities'[m] = entities[m]
        BY <2>1 DEF Absorb
    <2>3. \A m \in DOMAIN entities : \A j \in entities[m].members : j \in Nat /\ j < next
        BY <1>0, <2>1
    <2>4. next \in DOMAIN decisions /\ decisions \in Seq(Mention \cup Value)
        BY <2>1, AtMentionType, DecisionsAssumption
    <2>5. \A m \in DOMAIN entities' : entities'[m].members # {}
        BY <2>2 DEF Partition
    <2>6. \A m, k \in DOMAIN entities' : m # k => entities'[m].members \cap entities'[k].members = {}
        BY <2>2, <2>3 DEF Partition
    <2>7. \A k \in DOMAIN decisions : decisions[k].type = "FULL_NAME" /\ k < next + 1 =>
            \E m \in DOMAIN entities' : k \in entities'[m].members
        <3> SUFFICES ASSUME NEW k \in DOMAIN decisions, decisions[k].type = "FULL_NAME", k < next + 1
                     PROVE  \E m \in DOMAIN entities' : k \in entities'[m].members
            OBVIOUS
        <3>1. CASE k = next
            BY <2>2, <3>1
        <3>2. CASE k # next
            <4>1. k < next
                BY <2>4, <3>2
            <4>2. PICK m \in DOMAIN entities : k \in entities[m].members
                BY <4>1 DEF Partition
            <4> QED BY <2>2, <4>2
        <3> QED BY <3>1, <3>2
    <2>8. ASSUME NEW m \in DOMAIN entities, NEW k \in DOMAIN entities, m < k PROVE Before(m, k)'
        <3>1. PICK j \in entities[m].members : \A i \in entities[k].members : j < i
            BY <2>8 DEF InOrder, Before
        <3>2. j \in entities'[m].members /\ \A i \in entities'[k].members : j < i
            BY <2>2, <2>3, <3>1
        <3> QED BY <3>2 DEF Before
    <2> QED BY <2>1, <2>2, <2>5, <2>6, <2>7, <2>8 DEF Partition, InOrder
<1>2. CASE Introduce
    <2> DEFINE e == Absorb(NewPerson(decisions[next].gender), next)
               n == Len(entities) + 1
    <2>1. /\ AtMention /\ decisions' = decisions /\ next' = next + 1 /\ stage' = "resolve" /\ stage = "resolve"
          /\ entities' = Append(entities, e)
        BY <1>2 DEF Introduce, AtMention
    <2>2. e.members = {next} /\ e \in ResolvedPerson
        <3>1. PersonOK(e)
            BY <2>1, FirstMember
        <3> QED BY <3>1 DEF Absorb, NewPerson, PersonOK
    <2> HIDE DEF e
    <2>3. /\ DOMAIN entities' = DOMAIN entities \cup {n} /\ n \notin DOMAIN entities
          /\ entities'[n].members = {next}
          /\ \A m \in DOMAIN entities : entities'[m] = entities[m] /\ m < n /\ m \in Nat
        BY <2>1, <2>2
    <2> HIDE DEF n
    <2>4. \A m \in DOMAIN entities : \A j \in entities[m].members : j \in Nat /\ j < next
        BY <1>0, <2>1
    <2>5. next \in DOMAIN decisions /\ decisions \in Seq(Mention \cup Value)
        BY <2>1, AtMentionType, DecisionsAssumption
    <2>6. \A m \in DOMAIN entities' : entities'[m].members # {}
        BY <2>3 DEF Partition
    <2>7. \A m, k \in DOMAIN entities' : m # k => entities'[m].members \cap entities'[k].members = {}
        BY <2>3, <2>4 DEF Partition
    <2>8. \A k \in DOMAIN decisions : decisions[k].type = "FULL_NAME" /\ k < next + 1 =>
            \E m \in DOMAIN entities' : k \in entities'[m].members
        <3> SUFFICES ASSUME NEW k \in DOMAIN decisions, decisions[k].type = "FULL_NAME", k < next + 1
                     PROVE  \E m \in DOMAIN entities' : k \in entities'[m].members
            OBVIOUS
        <3>1. CASE k = next
            BY <2>3, <3>1
        <3>2. CASE k # next
            <4>1. k < next
                BY <2>5, <3>2
            <4>2. PICK m \in DOMAIN entities : k \in entities[m].members
                BY <4>1 DEF Partition
            <4> QED BY <2>3, <4>2
        <3> QED BY <3>1, <3>2
    <2>9. ASSUME NEW m \in DOMAIN entities', NEW k \in DOMAIN entities', m < k PROVE Before(m, k)'
        <3>0. n \in Nat
            BY DEF n
        <3>1. CASE k \in DOMAIN entities
            <4>1. m \in DOMAIN entities
                BY <2>3, <2>9, <3>0, <3>1
            <4>2. PICK j \in entities[m].members : \A i \in entities[k].members : j < i
                BY <2>9, <3>1, <4>1 DEF InOrder, Before
            <4> QED BY <2>3, <3>1, <4>1, <4>2 DEF Before
        <3>2. CASE k = n
            <4>1. m \in DOMAIN entities
                BY <2>3, <2>9, <3>0, <3>2
            <4>2. PICK j \in entities[m].members : TRUE
                BY <4>1 DEF Partition
            <4> QED BY <2>3, <2>4, <3>2, <4>1, <4>2 DEF Before
        <3> QED BY <2>3, <3>1, <3>2
    <2> QED BY <2>1, <2>6, <2>7, <2>8, <2>9 DEF Partition, InOrder
<1>3. CASE Skip
    <2>1. /\ decisions' = decisions /\ entities' = entities /\ stage' = "resolve" /\ stage = "resolve"
          /\ next' = next + 1 /\ decisions[next].type # "FULL_NAME"
        BY <1>3 DEF Skip
    <2>2. decisions \in Seq(Mention \cup Value)
        BY DecisionsAssumption
    <2>3. \A k \in DOMAIN decisions : decisions[k].type = "FULL_NAME" /\ k < next + 1 => k < next
        BY <2>1, <2>2
    <2> QED BY <2>1, <2>3 DEF Partition, InOrder, Before
<1>4. CASE ResolutionEnds
    <2>1. /\ decisions' = decisions /\ entities' = entities /\ stage' = "group" /\ stage = "resolve"
          /\ next > Len(decisions)
        BY <1>4 DEF ResolutionEnds
    <2>2. decisions \in Seq(Mention \cup Value)
        BY DecisionsAssumption
    <2>3. \A k \in DOMAIN decisions : k < next
        BY <2>1, <2>2
    <2> QED BY <2>1, <2>3 DEF Partition, InOrder, Before
<1>5. CASE \/ \E g \in DOMAIN groups : JoinGroup(g)
           \/ OpenGroup \/ GroupingEnds \/ UNCHANGED resolveVars
    <2>1. /\ decisions' = decisions /\ entities' = entities
          /\ stage = "resolve" => stage' = "resolve" /\ next' = next
          /\ stage' = "resolve" => stage = "resolve"
        BY <1>5 DEF JoinGroup, OpenGroup, GroupingEnds, AtDecision, resolveVars
    <2> QED BY <2>1 DEF Partition, InOrder, Before
<1> QED BY <1>1, <1>2, <1>3, <1>4, <1>5 DEF ResolveNext

\* A decision without a group belongs to the next person in line: everyone before has
\* been grouped, and nobody twice.
LEMMA NextPerson ==
    ASSUME IdInv, AtDecision, Known = {}, decisions[next].type = "FULL_NAME",
           Counter("FULL_NAME") \in Nat
    PROVE  PersonOf(next) = Counter("FULL_NAME") + 1
<1> DEFINE n == PersonOf(next)
           c == Counter("FULL_NAME")
<1>1. /\ GroupsOK /\ Partition /\ InOrder /\ ResolutionInv
      /\ stage = "group" /\ next <= Len(decisions)
    BY DEF IdInv, AtDecision
<1>2. next \in DOMAIN decisions /\ \A k \in DOMAIN decisions : k \in Nat
    BY <1>1, DecisionsAssumption DEF ResolutionInv
<1>3. n \in DOMAIN entities /\ next \in entities[n].members
    BY <1>1, <1>2, PersonExists
<1>4. DOMAIN entities = 1..Len(entities) /\ Len(entities) \in Nat
    BY <1>1 DEF ResolutionInv
<1>5. ~(n \in 1..c)
    <2> SUFFICES ASSUME n \in 1..c PROVE FALSE
        OBVIOUS
    <2>1. PICK g \in DOMAIN groups : groups[g].type = "FULL_NAME" /\ groups[g].number = n
        BY <1>1 DEF GroupsOK, Numbered
    <2>2. PICK k \in groups[g].members : TRUE
        BY <1>1 DEF GroupsOK, GroupOK
    <2>3. Key(k) = groups[g].key /\ decisions[k].type = "FULL_NAME" /\ PersonOf(k) = n
        BY <1>1, <2>1, <2>2 DEF GroupsOK, GroupOK
    <2>4. Key(k) = Key(next)
        BY <2>3, KeySame
    <2> QED BY <2>3, <2>4 DEF Known
<1>6. ~(c + 1 < n)
    <2> SUFFICES ASSUME c + 1 < n PROVE FALSE
        OBVIOUS
    <2>1. c + 1 \in DOMAIN entities
        BY <1>3, <1>4
    <2>2. PICK j \in entities[c + 1].members : j < next
        BY <1>1, <1>3, <2>1 DEF InOrder, Before
    <2>3. j \in DOMAIN decisions /\ decisions[j].type = "FULL_NAME" /\ PersonOf(j) = c + 1
        <3>1. j \in DOMAIN decisions /\ decisions[j] \in Mention
            BY <1>1, <2>1, <2>2 DEF ResolutionInv, PersonOK
        <3>2. PersonOf(j) = c + 1
            BY <1>1, <2>1, <2>2, PersonIs
        <3> QED BY <3>1, <3>2 DEF Mention
    <2>4. PICK g \in DOMAIN groups : j \in groups[g].members
        BY <1>1, <2>2, <2>3 DEF GroupsOK, Grouped
    <2>5. groups[g].type = "FULL_NAME" /\ groups[g].number = c + 1
        BY <1>1, <2>3, <2>4 DEF GroupsOK, GroupOK
    <2>6. groups[g].number \in 1..c
        BY <1>1, <2>5 DEF GroupsOK, Numbered
    <2> QED BY <2>5, <2>6
<1>7. n \in Nat /\ n >= 1
    BY <1>3, <1>4
<1> HIDE DEF n, c
<1>8. c \in Nat
    BY DEF c
<1>9. n = c + 1
    BY <1>5, <1>6, <1>7, <1>8
<1> QED BY <1>9 DEF n, c

\* The counter of a type counts its groups.
LEMMA CounterNat ==
    ASSUME groups \in Seq(Group), NEW t
    PROVE  Counter(t) \in Nat /\ IsFiniteSet({g \in DOMAIN groups : groups[g].type = t})
<1>1. IsFiniteSet(DOMAIN groups)
    BY FS_Interval
<1>2. IsFiniteSet({g \in DOMAIN groups : groups[g].type = t})
    BY <1>1, FS_Subset
<1> QED BY <1>2, FS_CardinalityType DEF Counter

\* A decision joins the group of its key.
LEMMA JoinStep ==
    ASSUME IdInv, NEW g \in DOMAIN groups, JoinGroup(g)
    PROVE  GroupsOK' /\ groups' \in Seq(Group)
<1>1. /\ GroupsOK /\ Partition /\ InOrder /\ ResolutionInv /\ groups \in Seq(Group)
      /\ stage = "group" /\ next <= Len(decisions) /\ g \in Known
      /\ decisions' = decisions /\ entities' = entities /\ stage' = "group" /\ next' = next + 1
      /\ groups' = [groups EXCEPT ![g].members = @ \cup {next}]
    BY DEF IdInv, AtDecision, JoinGroup
<1>2. next \in DOMAIN decisions /\ next \in Nat /\ \A k \in DOMAIN decisions : k \in Nat
    BY <1>1, DecisionsAssumption DEF ResolutionInv
<1>3. groups[g] \in Group /\ groups[g].members \cup {next} \in SUBSET Nat
    <2>1. groups[g] \in Group
        BY <1>1
    <2> QED BY <1>2, <2>1 DEF Group
<1>4. /\ DOMAIN groups' = DOMAIN groups
      /\ \A h \in DOMAIN groups : h # g => groups'[h] = groups[h]
      /\ groups'[g] = [groups[g] EXCEPT !.members = @ \cup {next}]
    BY <1>1
<1>5. /\ groups'[g].members = groups[g].members \cup {next}
      /\ groups'[g].key = groups[g].key /\ groups'[g].type = groups[g].type
      /\ groups'[g].number = groups[g].number
      /\ groups'[g] \in Group
    BY <1>3, <1>4 DEF Group
<1>6. groups' \in Seq(Group)
    BY <1>1, <1>5
<1>7. Grouped' = Grouped \cup {next}
    BY <1>1, <1>2 DEF Grouped
<1>8. \A h \in DOMAIN groups : /\ groups'[h].key = groups[h].key /\ groups'[h].type = groups[h].type
                               /\ groups'[h].number = groups[h].number
                               /\ groups[h].members \subseteq groups'[h].members
    BY <1>4, <1>5
<1>9. \A k : PersonOf(k)' = PersonOf(k) /\ Key(k)' = Key(k)
    BY <1>1 DEF PersonOf, Key
<1>10. \A t : Counter(t)' = Counter(t)
    BY <1>4, <1>8 DEF Counter
<1>11. \A k \in Grouped' : \E h \in DOMAIN groups' : k \in groups'[h].members
    BY <1>1, <1>4, <1>5, <1>7, <1>8 DEF GroupsOK
<1>12. ASSUME NEW h \in DOMAIN groups PROVE GroupOK(h)'
    <2>1. GroupOK(h)
        BY <1>1 DEF GroupsOK
    <2>2. CASE h # g
        BY <1>1, <1>4, <1>7, <1>9, <2>1, <2>2 DEF GroupOK
    <2>3. CASE h = g
        <3>1. PICK k \in groups[g].members : TRUE
            BY <2>1, <2>3 DEF GroupOK
        <3>2. Key(k) = groups[g].key /\ Key(next) = groups[g].key
            BY <1>1, <2>1, <2>3, <3>1 DEF GroupOK, Known
        <3>3. /\ decisions[k].type = groups[g].type
              /\ decisions[k].type = "FULL_NAME" => PersonOf(k) = groups[g].number
            BY <2>1, <2>3, <3>1 DEF GroupOK
        <3>4. /\ decisions[k].type = "FULL_NAME" <=> decisions[next].type = "FULL_NAME"
              /\ decisions[k].type = "FULL_NAME" => PersonOf(k) = PersonOf(next)
              /\ decisions[k].type # "FULL_NAME" => decisions[k].type = decisions[next].type
            BY <3>2, KeyTells
        <3>5. /\ decisions[next].type = groups[g].type
              /\ decisions[next].type = "FULL_NAME" => PersonOf(next) = groups[g].number
            BY <3>3, <3>4
        <3> QED BY <1>1, <1>5, <1>7, <1>9, <2>1, <2>3, <3>2, <3>5 DEF GroupOK
    <2> QED BY <2>2, <2>3
<1>13. \A h, i \in DOMAIN groups' : groups'[h].key = groups'[i].key => h = i
    BY <1>1, <1>4, <1>8 DEF GroupsOK
<1>14. Numbered'
    <2>1. Numbered
        BY <1>1 DEF GroupsOK
    <2>2. \A h \in DOMAIN groups' : groups'[h].number \in 1..Counter(groups[h].type)'
        BY <1>4, <1>8, <1>10, <2>1 DEF Numbered
    <2>3. \A h, i \in DOMAIN groups' :
            h < i /\ groups'[h].type = groups'[i].type => groups'[h].number < groups'[i].number
        BY <1>4, <1>8, <2>1 DEF Numbered
    <2>4. \A c \in 1..Counter("FULL_NAME")' :
            \E h \in DOMAIN groups' : groups'[h].type = "FULL_NAME" /\ groups'[h].number = c
        BY <1>4, <1>8, <1>10, <2>1 DEF Numbered
    <2> QED BY <2>2, <2>3, <2>4 DEF Numbered
<1> QED BY <1>4, <1>6, <1>11, <1>12, <1>13, <1>14 DEF GroupsOK

\* A decision whose key is new opens a group with the next number of its type.
LEMMA OpenStep ==
    ASSUME IdInv, OpenGroup
    PROVE  GroupsOK' /\ groups' \in Seq(Group)
<1>0. PICK t : t = decisions[next].type
    OBVIOUS
<1> DEFINE n == Counter(t) + 1
           new == [type |-> t, number |-> n, key |-> Key(next), members |-> {next}]
           z == Len(groups) + 1
<1>1. /\ GroupsOK /\ Partition /\ InOrder /\ ResolutionInv /\ groups \in Seq(Group)
      /\ AtDecision /\ stage = "group" /\ next <= Len(decisions) /\ Known = {}
      /\ decisions' = decisions /\ entities' = entities /\ stage' = "group" /\ next' = next + 1
      /\ groups' = Append(groups, new)
    BY <1>0 DEF IdInv, AtDecision, OpenGroup
<1>2. next \in DOMAIN decisions /\ next \in Nat /\ \A k \in DOMAIN decisions : k \in Nat
    BY <1>1, DecisionsAssumption DEF ResolutionInv
<1>3. \A u : Counter(u) \in Nat
    BY <1>1, CounterNat
<1>4. t \in OtherTypes \cup {"FULL_NAME"} /\ Key(next) \in GroupKey
    <2>1. Key(next) \in GroupKey
        BY <1>1, <1>2, KeyType
    <2>2. t = "FULL_NAME" \/ t \in OtherTypes
        BY <1>0, <1>1, <1>2, DecisionType DEF ResolutionInv
    <2> QED BY <2>1, <2>2
<1>5. /\ new \in Group /\ new.type = t /\ new.number = n /\ new.key = Key(next)
      /\ new.members = {next}
    BY <1>2, <1>3, <1>4 DEF Group
<1> HIDE DEF new
<1>6. /\ groups' \in Seq(Group) /\ groups'[z] = new /\ z \notin DOMAIN groups
      /\ DOMAIN groups' = DOMAIN groups \cup {z}
      /\ \A g \in DOMAIN groups : groups'[g] = groups[g] /\ g < z /\ g \in Nat
      /\ z \in Nat
    BY <1>1, <1>5
<1> HIDE DEF z
<1>7. Grouped' = Grouped \cup {next}
    BY <1>1, <1>2 DEF Grouped
<1>8. \A k : PersonOf(k)' = PersonOf(k) /\ Key(k)' = Key(k)
    BY <1>1 DEF PersonOf, Key
<1>9. Counter(t)' = Counter(t) + 1
    <2> DEFINE S == {g \in DOMAIN groups : groups[g].type = t}
               S1 == {g \in DOMAIN groups' : groups'[g].type = t}
    <2>1. S1 = S \cup {z} /\ z \notin S
        BY <1>5, <1>6
    <2>2. IsFiniteSet(S)
        BY <1>1, CounterNat
    <2> HIDE DEF S, S1
    <2>3. Cardinality(S1) = Cardinality(S) + 1
        BY <2>1, <2>2, FS_AddElement
    <2>4. Counter(t) = Cardinality(S)
        BY DEF S, Counter
    <2>5. Counter(t)' = Cardinality(S1)
        BY <1>1 DEF S1, Counter
    <2> QED BY <2>3, <2>4, <2>5
<1>10. \A u : u # t => Counter(u)' = Counter(u)
    <2> SUFFICES ASSUME NEW u, u # t PROVE Counter(u)' = Counter(u)
        OBVIOUS
    <2>1. {g \in DOMAIN groups' : groups'[g].type = u} = {g \in DOMAIN groups : groups[g].type = u}
        BY <1>5, <1>6
    <2> QED BY <2>1 DEF Counter
<1>11. t = "FULL_NAME" => PersonOf(next) = n
    BY <1>0, <1>1, <1>3, NextPerson
<1>12. \A k \in Grouped' : \E g \in DOMAIN groups' : k \in groups'[g].members
    BY <1>1, <1>5, <1>6, <1>7 DEF GroupsOK
<1>13. ASSUME NEW g \in DOMAIN groups' PROVE GroupOK(g)'
    <2>1. CASE g \in DOMAIN groups
        <3>1. GroupOK(g)
            BY <1>1, <2>1 DEF GroupsOK
        <3> QED BY <1>1, <1>6, <1>7, <1>8, <2>1, <3>1 DEF GroupOK
    <2>2. CASE g = z
        BY <1>0, <1>1, <1>5, <1>6, <1>7, <1>8, <1>11, <2>2 DEF GroupOK
    <2> QED BY <1>6, <2>1, <2>2
<1>14. \A g, h \in DOMAIN groups' : groups'[g].key = groups'[h].key => g = h
    <2>1. \A g \in DOMAIN groups : groups[g].key # Key(next)
        BY <1>1 DEF Known
    <2>2. \A g, h \in DOMAIN groups : groups[g].key = groups[h].key => g = h
        BY <1>1 DEF GroupsOK
    <2> QED BY <1>5, <1>6, <2>1, <2>2
<1>15. Numbered'
    <2>1. Numbered
        BY <1>1 DEF GroupsOK
    <2>2. ASSUME NEW g \in DOMAIN groups' PROVE groups'[g].number \in 1..Counter(groups[g].type)'
        <3>1. PICK u : u = groups'[g].type
            OBVIOUS
        <3>2. Counter(groups[g].type)' = Counter(u)'
            BY <3>1 DEF Counter
        <3>3. Counter(u)' \in Nat /\ Counter(u) \in Nat /\ Counter(u)' >= Counter(u)
            BY <1>3, <1>9, <1>10
        <3>4. CASE g \in DOMAIN groups
            <4>1. groups'[g].number \in 1..Counter(u)
                BY <1>6, <2>1, <3>1, <3>4 DEF Numbered
            <4> QED BY <3>2, <3>3, <4>1
        <3>5. CASE g = z
            <4>1. groups'[g].number = n /\ u = t
                BY <1>5, <1>6, <3>1, <3>5
            <4> QED BY <1>3, <1>9, <3>2, <4>1
        <3> QED BY <1>6, <3>4, <3>5
    <2>3. ASSUME NEW g \in DOMAIN groups', NEW h \in DOMAIN groups', g < h,
                 groups'[g].type = groups'[h].type
          PROVE  groups'[g].number < groups'[h].number
        <3>1. g \in DOMAIN groups
            BY <1>6, <2>3
        <3>2. CASE h \in DOMAIN groups
            BY <1>6, <2>1, <2>3, <3>1, <3>2 DEF Numbered
        <3>3. CASE h = z
            <4>1. groups[g].type = t
                BY <1>5, <1>6, <2>3, <3>1, <3>3
            <4>2. groups[g].number \in 1..Counter(t)
                BY <2>1, <3>1, <4>1 DEF Numbered
            <4>3. groups[g].number < n
                BY <1>3, <4>2
            <4> QED BY <1>5, <1>6, <3>1, <3>3, <4>3
        <3> QED BY <1>6, <3>2, <3>3
    <2>4. ASSUME NEW c \in 1..Counter("FULL_NAME")'
          PROVE  \E g \in DOMAIN groups' : groups'[g].type = "FULL_NAME" /\ groups'[g].number = c
        <3>1. CASE c \in 1..Counter("FULL_NAME")
            BY <1>6, <2>1, <3>1 DEF Numbered
        <3>2. CASE ~(c \in 1..Counter("FULL_NAME"))
            <4>1. t = "FULL_NAME"
                BY <1>10, <2>4, <3>2
            <4>2. c = n
                <5>1. Counter(t) \in Nat /\ c \in 1..(Counter(t) + 1) /\ ~(c \in 1..Counter(t))
                    BY <1>3, <1>9, <2>4, <3>2, <4>1
                <5> QED BY <5>1
            <4> QED BY <1>5, <1>6, <4>1, <4>2
        <3> QED BY <3>1, <3>2
    <2> QED BY <2>2, <2>3, <2>4 DEF Numbered
<1> QED BY <1>6, <1>12, <1>13, <1>14, <1>15 DEF GroupsOK

LEMMA IdInit == ResolveInit => IdInv
<1> SUFFICES ASSUME ResolveInit PROVE IdInv
    OBVIOUS
<1>1. ResolutionInv
    BY ResolutionInit
<1>2. Partition /\ InOrder
    <2>1. decisions \in Seq(Mention \cup Value) /\ entities = <<>> /\ next = 1 /\ stage = "resolve"
        BY DecisionsAssumption DEF ResolveInit
    <2>2. \A k \in DOMAIN decisions : ~(k < next)
        BY <2>1
    <2> QED BY <2>1, <2>2 DEF Partition, InOrder
<1> QED BY <1>1, <1>2 DEF ResolveInit, IdInv

LEMMA IdStep == IdInv /\ [ResolveNext]_resolveVars => IdInv'
<1> SUFFICES ASSUME IdInv, [ResolveNext]_resolveVars PROVE IdInv'
    OBVIOUS
<1>1. ResolutionInv' /\ Partition' /\ InOrder'
    BY ResolutionStep, PersonsStep DEF IdInv
<1>2. CASE (\E n \in DOMAIN entities : Link(n)) \/ Introduce \/ Skip
    BY <1>1, <1>2 DEF Link, Introduce, Skip, AtMention, IdInv
<1>3. CASE ResolutionEnds
    <2>1. groups' = <<>> /\ next' = 1 /\ stage' = "group" /\ decisions' = decisions
        BY <1>3 DEF ResolutionEnds, IdInv
    <2>2. Grouped' = {}
        <3>1. decisions \in Seq(Mention \cup Value)
            BY DecisionsAssumption DEF IdInv, ResolutionInv
        <3> QED BY <2>1, <3>1 DEF Grouped
    <2>3. Counter("FULL_NAME")' = 0
        <3>1. {g \in DOMAIN groups' : groups'[g].type = "FULL_NAME"} = {}
            BY <2>1
        <3> QED BY <3>1, FS_EmptySet DEF Counter
    <2>4. DOMAIN groups' = {} /\ 1..Counter("FULL_NAME")' = {}
        BY <2>1, <2>3
    <2>5. Numbered'
        BY <2>4 DEF Numbered
    <2>6. GroupsOK'
        BY <2>2, <2>4, <2>5 DEF GroupsOK
    <2> QED BY <1>1, <2>1, <2>6 DEF IdInv
<1>4. ASSUME NEW g \in DOMAIN groups, JoinGroup(g) PROVE IdInv'
    BY <1>1, <1>4, JoinStep DEF IdInv, JoinGroup, AtDecision
<1>5. CASE OpenGroup
    BY <1>1, <1>5, OpenStep DEF IdInv, OpenGroup, AtDecision
<1>6. CASE GroupingEnds
    <2>1. /\ stage = "group" /\ stage' = "done" /\ groups' = groups /\ decisions' = decisions /\ next' = next
          /\ entities' = entities /\ next > Len(decisions) /\ next \in Nat
        BY <1>6 DEF GroupingEnds, IdInv, ResolutionInv
    <2>2. Grouped' = Grouped
        <3>1. decisions \in Seq(Mention \cup Value)
            BY DecisionsAssumption DEF IdInv, ResolutionInv
        <3> QED BY <2>1, <3>1 DEF Grouped
    <2>3. GroupsOK
        BY <2>1 DEF IdInv
    <2>4. GroupsOK'
        <3>1. \A k : Key(k)' = Key(k) /\ PersonOf(k)' = PersonOf(k)
            BY <2>1 DEF Key, PersonOf
        <3>2. \A g \in DOMAIN groups : GroupOK(g)'
            BY <2>1, <2>2, <2>3, <3>1 DEF GroupsOK, GroupOK
        <3>3. Numbered'
            <4>1. Numbered /\ groups' = groups
                BY <2>1, <2>3 DEF GroupsOK
            <4>2. \A t : Counter(t)' = Counter(t)
                BY <4>1 DEF Counter
            <4> QED BY <4>1, <4>2 DEF Numbered
        <3> QED BY <2>1, <2>2, <2>3, <3>2, <3>3 DEF GroupsOK
    <2> QED BY <1>1, <2>1, <2>4 DEF IdInv
<1>7. CASE UNCHANGED resolveVars
    <2>1. UNCHANGED <<decisions, stage, next, entities, groups>>
        BY <1>7 DEF resolveVars
    <2>2. ASSUME GroupsOK PROVE GroupsOK'
        <3>1. \A k : Key(k)' = Key(k) /\ PersonOf(k)' = PersonOf(k)
            BY <2>1 DEF Key, PersonOf
        <3>2. Grouped' = Grouped
            BY <2>1 DEF Grouped
        <3>3. \A g \in DOMAIN groups : GroupOK(g)'
            BY <2>1, <2>2, <3>1, <3>2 DEF GroupsOK, GroupOK
        <3>4. Numbered'
            BY <2>1, <2>2 DEF GroupsOK, Numbered, Counter
        <3> QED BY <2>1, <2>2, <3>2, <3>3, <3>4 DEF GroupsOK
    <2> QED BY <1>1, <2>1, <2>2 DEF IdInv
<1> QED BY <1>2, <1>3, <1>4, <1>5, <1>6, <1>7 DEF ResolveNext

\* Groups with one type and number are one group.
LEMMA NumberTells ==
    ASSUME GroupsOK, groups \in Seq(Group), NEW g \in DOMAIN groups, NEW h \in DOMAIN groups,
           groups[g].type = groups[h].type, groups[g].number = groups[h].number
    PROVE  g = h
<1>1. g \in Nat /\ h \in Nat /\ groups[g].number \in Nat /\ groups[h].number \in Nat
    <2>1. g \in Nat /\ h \in Nat /\ groups[g] \in Group /\ groups[h] \in Group
        OBVIOUS
    <2> QED BY <2>1 DEF Group
<1>2. ~(g < h)
    BY <1>1 DEF GroupsOK, Numbered
<1>3. ~(h < g)
    BY <1>1 DEF GroupsOK, Numbered
<1> QED BY <1>1, <1>2, <1>3

\* A FULL_NAME group is a person: the one whose ordinal is its number.
LEMMA GroupIsPerson ==
    ASSUME IdInv, stage = "done", NEW g \in DOMAIN groups, groups[g].type = "FULL_NAME"
    PROVE  groups[g].members = entities[groups[g].number].members
<1> DEFINE n == groups[g].number
<1>1. GroupsOK /\ Partition /\ ResolutionInv /\ Grouped = DOMAIN decisions
    BY DEF IdInv, Grouped
<1>2. \A k \in groups[g].members : /\ k \in DOMAIN decisions /\ decisions[k].type = "FULL_NAME"
                                   /\ PersonOf(k) = n /\ Key(k) = groups[g].key
    BY <1>1 DEF GroupsOK, GroupOK
<1>3. \A k \in groups[g].members : n \in DOMAIN entities /\ k \in entities[n].members
    BY <1>1, <1>2, PersonExists
<1>4. PICK k \in groups[g].members : TRUE
    BY <1>1 DEF GroupsOK, GroupOK
<1>5. ASSUME NEW j \in entities[n].members PROVE j \in groups[g].members
    <2>1. PersonOf(j) = n
        BY <1>1, <1>3, <1>4, PersonIs
    <2>2. j \in DOMAIN decisions /\ decisions[j] \in Mention
        BY <1>1, <1>3, <1>4 DEF ResolutionInv, PersonOK
    <2>3. decisions[j].type = "FULL_NAME"
        BY <2>2 DEF Mention
    <2>4. Key(j) = Key(k)
        BY <1>2, <1>4, <2>1, <2>3, KeySame
    <2>5. PICK h \in DOMAIN groups : j \in groups[h].members
        BY <1>1, <2>2 DEF GroupsOK
    <2>6. groups[h].key = groups[g].key
        BY <1>1, <1>2, <1>4, <2>4, <2>5 DEF GroupsOK, GroupOK
    <2> QED BY <1>1, <2>5, <2>6 DEF GroupsOK
<1> QED BY <1>3, <1>5

\* Two decisions are in groups of one name exactly when they have one identity.
LEMMA IdsTell ==
    ASSUME IdInv, stage = "done", NEW j \in DOMAIN decisions, NEW k \in DOMAIN decisions
    PROVE  (\E g, h \in DOMAIN groups :
                /\ j \in groups[g].members /\ k \in groups[h].members
                /\ groups[g].type = groups[h].type /\ groups[g].number = groups[h].number)
           <=> SameIdentity(j, k)
<1>1. /\ GroupsOK /\ Partition /\ ResolutionInv /\ Grouped = DOMAIN decisions /\ groups \in Seq(Group)
      /\ decisions \in Decided
    BY DEF IdInv, Grouped, ResolutionInv
<1>2. ASSUME NEW g \in DOMAIN groups, NEW h \in DOMAIN groups,
             j \in groups[g].members, k \in groups[h].members,
             groups[g].type = groups[h].type, groups[g].number = groups[h].number
      PROVE  SameIdentity(j, k)
    <2>1. g = h
        BY <1>1, <1>2, NumberTells
    <2>2. Key(j) = Key(k) /\ decisions[j].type = decisions[k].type
        BY <1>1, <1>2, <2>1 DEF GroupsOK, GroupOK
    <2>3. CASE decisions[j].type = "FULL_NAME"
        <3>1. PersonOf(j) = PersonOf(k)
            BY <2>2, <2>3, KeyTells
        <3>2. /\ PersonOf(j) \in DOMAIN entities /\ j \in entities[PersonOf(j)].members
              /\ k \in entities[PersonOf(j)].members
            BY <1>1, <2>2, <2>3, <3>1, PersonExists
        <3> QED BY <2>3, <3>2 DEF SameIdentity
    <2>4. CASE decisions[j].type # "FULL_NAME"
        <3>1. decisions[j] \in Value /\ decisions[k] \in Value
            BY <1>1, <2>2, <2>4, DecisionType
        <3>2. decisions[j].value = decisions[k].value
            BY <2>2, <2>4, KeyTells
        <3>3. decisions[j] = decisions[k]
            BY <2>2, <3>1, <3>2 DEF Value
        <3> QED BY <2>4, <3>3 DEF SameIdentity
    <2> QED BY <2>3, <2>4
<1>3. ASSUME SameIdentity(j, k)
      PROVE  \E g, h \in DOMAIN groups :
                /\ j \in groups[g].members /\ k \in groups[h].members
                /\ groups[g].type = groups[h].type /\ groups[g].number = groups[h].number
    <2>1. Key(j) = Key(k)
        <3>1. CASE decisions[j].type = "FULL_NAME"
            <4>1. PICK n \in DOMAIN entities : j \in entities[n].members /\ k \in entities[n].members
                BY <1>3, <3>1 DEF SameIdentity
            <4>2. PersonOf(j) = n /\ PersonOf(k) = n
                BY <1>1, <4>1, PersonIs
            <4>3. decisions[k] \in Mention
                BY <1>1, <4>1 DEF ResolutionInv, PersonOK
            <4>4. decisions[k].type = "FULL_NAME"
                BY <4>3 DEF Mention
            <4> QED BY <3>1, <4>2, <4>4, KeySame
        <3>2. CASE decisions[j].type # "FULL_NAME"
            <4>1. decisions[j] = decisions[k]
                BY <1>3, <3>2 DEF SameIdentity
            <4> QED BY <3>2, <4>1, KeySame
        <3> QED BY <3>1, <3>2
    <2>2. PICK g \in DOMAIN groups : j \in groups[g].members
        BY <1>1 DEF GroupsOK
    <2>3. PICK h \in DOMAIN groups : k \in groups[h].members
        BY <1>1 DEF GroupsOK
    <2>4. groups[g].key = groups[h].key
        BY <1>1, <2>1, <2>2, <2>3 DEF GroupsOK, GroupOK
    <2>5. g = h
        BY <1>1, <2>4 DEF GroupsOK
    <2> QED BY <2>2, <2>3, <2>5
<1> QED BY <1>2, <1>3

\* In any document two decisions share an entity_id exactly when they share an identity,
\* and the n-th person to appear has the number n, although the ordinals and the numbers
\* are given by two different loops (group_personal_decisions).
THEOREM IdsFollowIdentity == ResolveSpec => []EntityIds
<1>1. IdInv => EntityIds
    <2> SUFFICES ASSUME IdInv, stage = "done" PROVE EntityIds
        BY DEF EntityIds
    <2> QED BY IdsTell, GroupIsPerson DEF EntityIds
<1> QED BY <1>1, IdInit, IdStep, PTL DEF ResolveSpec
=============================================================================

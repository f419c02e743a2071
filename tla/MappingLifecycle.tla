-------------------------- MODULE MappingLifecycle --------------------------
(***************************************************************************)
(* What the mapping store promises for each payload_id, without requests,  *)
(* caches, batches or failures (ARCH.md, section 1: ACTIVE ->              *)
(* DEMASKED_GRACE -> purge).  An id is a lease-bound write-once register:  *)
(* while its lease runs nobody can store other content; the only change    *)
(* is the move into grace; only an expired mapping is replaced or purged.  *)
(***************************************************************************)
EXTENDS Integers

CONSTANTS
    Ids, Cores,     \* payload_ids and the content a mapping can have
    Lease, Window,  \* ttl of a new mapping and of a demasked one
    Nothing         \* the id is free

VARIABLES now, slot

Mapping == [core : Cores, state : {"ACTIVE", "DEMASKED_GRACE"}, exp : Nat]

Init ==
    /\ now = 0
    /\ slot = [i \in Ids |-> Nothing]

Dead(i) == slot[i] = Nothing \/ slot[i].exp <= now

\* The first writer of a free or expired id wins; the lease was computed by the
\* writer, at the latest now.
Store(i) ==
    /\ Dead(i)
    /\ slot'[i] \in Mapping
    /\ slot'[i].state = "ACTIVE" /\ slot'[i].exp <= now + Lease
    /\ slot' = [slot EXCEPT ![i] = slot'[i]]
    /\ UNCHANGED now

\* A bulk write moves mappings into grace and changes nothing else about them.
EnterGrace(moved) ==
    /\ \A i \in moved : slot[i] # Nothing
    /\ \E e \in 0..(now + Window) :
        slot' = [i \in Ids |->
                    IF i \in moved
                    THEN [core |-> slot[i].core, state |-> "DEMASKED_GRACE", exp |-> e]
                    ELSE slot[i]]
    /\ UNCHANGED now

Purge(i) ==
    /\ Dead(i)
    /\ slot' = [slot EXCEPT ![i] = Nothing]
    /\ UNCHANGED now

Pass == now' = now + 1 /\ UNCHANGED slot

Next ==
    \/ \E i \in Ids : Store(i) \/ Purge(i)
    \/ \E moved \in SUBSET Ids : EnterGrace(moved)
    \/ Pass

Spec == Init /\ [][Next]_<<now, slot>>
=============================================================================

----------------------------- MODULE GoService -----------------------------
(***************************************************************************)
(* The Go port of the /process protocol: Service.Process over one of the   *)
(* stores main wires up: a ResilientStore of MongoStore with RedisStore as *)
(* its cache ("mongo"), a ResilientStore of RedisStore alone ("redis"), or *)
(* MemoryStore ("memory").  Requests are goroutines;                       *)
(* every step is one backend call, and any call may fail (an error, a      *)
(* timeout, a cancelled context, an open breaker), a failed write possibly *)
(* after it was applied.  There are no consumers and no grace batches here *)
(* and nothing of a request outlives it, so a restart of the service is    *)
(* only the loss of its requests; a MemoryStore ends with its process, so  *)
(* it has none.                                                            *)
(***************************************************************************)
EXTENDS Integers

CONSTANTS
    Ids, Payloads, Inputs,
    Reqs,               \* goroutines: each serves one request after another
    BuildTransform(_, _), \* the masked text, per id and payload
    HasPii(_),          \* the transform has mappings
    Trace,              \* texts with a token or "**" in them
    FuzzyDemask(_, _, _), \* id, payload, original
    TTL, Grace, BackfillTTL,
    MaxClock, MaxRequests,
    None                \* Go's nil

States == {"ACTIVE", "DEMASKED_GRACE"}
Record == [orig : Payloads, state : States]
Doc == [orig : Payloads, state : States, exp : Nat]
Arg == [id : Ids, payload : Inputs]
Answers == [kind : {"mask", "retry_mask", "demask", "mask_degraded", "503"},
            out : Payloads \cup {None}]

\* Without mappings there is nothing to replace.
ASSUME GoAssumption ==
    /\ Inputs \subseteq Payloads /\ Trace \subseteq Payloads
    /\ {TTL, Grace, BackfillTTL, MaxClock, MaxRequests} \subseteq Nat
    /\ \A i \in Ids, x, y \in Payloads :
        /\ HasPii(x) \in BOOLEAN
        /\ BuildTransform(i, x) \in Payloads /\ FuzzyDemask(i, y, x) \in Payloads
        /\ ~HasPii(x) => BuildTransform(i, x) = x

ASSUME NoneAssumption ==
    None \notin Record \cup Doc \cup Arg \cup Answers \cup Payloads
              \cup [core : Payloads, state : States, exp : Nat]

VARIABLES
    kind,               \* which store main wired up; never changes
    clock, asked,
    auth, cache,        \* the authority's entries and the cache's keys
    pc, arg, doc, rec,  \* where each request is, its body, the document it saves, its record
    cacheOK, ans,
    stored              \* history: the originals the authority ever held, by id

store == <<auth, cache, stored>>
request == <<pc, arg, doc, rec, cacheOK, ans>>
vars == <<kind, clock, asked, auth, cache, pc, arg, doc, rec, cacheOK, ans, stored>>

Init ==
    /\ kind \in {"mongo", "redis", "memory"}
    /\ clock = 0 /\ asked = 0
    /\ auth = [i \in Ids |-> None] /\ cache = [i \in Ids |-> None]
    /\ pc = [r \in Reqs |-> "idle"]
    /\ arg = [r \in Reqs |-> None] /\ doc = [r \in Reqs |-> None] /\ rec = [r \in Reqs |-> None]
    /\ cacheOK = [r \in Reqs |-> FALSE]
    /\ ans = [r \in Reqs |-> None]
    /\ stored = [i \in Ids |-> {}]

-----------------------------------------------------------------------------
Goto(r, label) == pc' = [pc EXCEPT ![r] = label]

Key(c) == IF c # None THEN [orig |-> c.orig, state |-> c.state] ELSE None

\* MongoStore and MemoryStore hide an entry only after its expiry, not at it; a Redis
\* key is gone by itself.
Live(d) == IF d # None /\ clock <= d.exp THEN Key(d) ELSE None

\* The result and the error of Process, and the end of the handler's own state.
Return(r, result, out) ==
    /\ ans' = [ans EXCEPT ![r] = [kind |-> result, out |-> out]]
    /\ Goto(r, "answered")
    /\ doc' = [doc EXCEPT ![r] = None] /\ rec' = [rec EXCEPT ![r] = None]
    /\ cacheOK' = [cacheOK EXCEPT ![r] = FALSE]
    /\ UNCHANGED arg

\* The keys after a Redis SET that may be lost; its error only counts for the breaker.
AfterSet(keys, i, record, ttl) ==
    {keys, [keys EXCEPT ![i] = [orig |-> record.orig, state |-> record.state, exp |-> clock + ttl]]}

\* Seeded fault: the transform is not consulted, only the traces of a mask.
AnswerWithoutStorageUnchecked(r) ==
    LET x == arg[r].payload IN
    IF x \in Trace THEN Return(r, "503", None) ELSE Return(r, "mask_degraded", x)

AnswerWithoutStorage(r) ==
    LET x == arg[r].payload IN
    IF x \in Trace \/ HasPii(x) THEN Return(r, "503", None) ELSE Return(r, "mask_degraded", x)

-----------------------------------------------------------------------------
(* Process: ResilientStore.Get *)

Request(r) ==
    /\ pc[r] = "idle"
    /\ asked < MaxRequests /\ asked' = asked + 1
    /\ \E i \in Ids, x \in Inputs : arg' = [arg EXCEPT ![r] = [id |-> i, payload |-> x]]
    /\ Goto(r, IF kind = "mongo" THEN "getCache" ELSE "getAuth")
    /\ UNCHANGED <<kind, clock, doc, rec, cacheOK, ans, store>>

GetCache(r) ==
    LET hit == Key(cache[arg[r].id]) IN
    /\ pc[r] = "getCache"
    /\ \/ /\ hit # None
          /\ rec' = [rec EXCEPT ![r] = hit]
          /\ Goto(r, "decide") /\ UNCHANGED cacheOK
       \/ /\ hit = None
          /\ cacheOK' = [cacheOK EXCEPT ![r] = TRUE]
          /\ Goto(r, "getAuth") /\ UNCHANGED rec
       \/ Goto(r, "getAuth") /\ UNCHANGED <<rec, cacheOK>>
    /\ UNCHANGED <<kind, clock, asked, arg, doc, ans, store>>

\* MemoryStore.Get also deletes what it finds expired.
GetAuth(r) ==
    LET found == Live(auth[arg[r].id]) IN
    /\ pc[r] = "getAuth"
    /\ rec' = [rec EXCEPT ![r] = found]
    /\ Goto(r, IF found # None /\ cacheOK[r] THEN "backfill" ELSE "decide")
    /\ auth' = IF kind = "memory" /\ found = None THEN [auth EXCEPT ![arg[r].id] = None] ELSE auth
    /\ UNCHANGED <<kind, clock, asked, cache, stored, arg, doc, cacheOK, ans>>

GetAuthFails(r) ==
    /\ kind # "memory" /\ pc[r] = "getAuth"
    /\ AnswerWithoutStorage(r)
    /\ UNCHANGED <<kind, clock, asked, store>>

Backfill(r) ==
    /\ pc[r] = "backfill"
    /\ cache' \in AfterSet(cache, arg[r].id, rec[r], BackfillTTL)
    /\ Goto(r, "decide")
    /\ UNCHANGED <<kind, clock, asked, auth, stored, arg, doc, rec, cacheOK, ans>>

-----------------------------------------------------------------------------
(* Process: the fingerprints decide *)

\* firstRequest up to the document SaveIfAbsent inserts.
FirstRequest(r) ==
    /\ pc[r] = "decide" /\ rec[r] = None
    /\ doc' = [doc EXCEPT ![r] = [orig |-> arg[r].payload, state |-> "ACTIVE", exp |-> clock + TTL]]
    /\ Goto(r, "insert")
    /\ UNCHANGED <<kind, clock, asked, arg, rec, cacheOK, ans, store>>

RetryMask(r) ==
    LET a == arg[r] IN
    /\ pc[r] = "decide" /\ rec[r] # None /\ a.payload = rec[r].orig
    /\ Return(r, "retry_mask", BuildTransform(a.id, a.payload))
    /\ UNCHANGED <<kind, clock, asked, store>>

Restored(a, record) ==
    IF a.payload = BuildTransform(a.id, record.orig) THEN record.orig
    ELSE FuzzyDemask(a.id, a.payload, record.orig)

\* The exact splice or FuzzyDemask, and MarkDemasked unless the record is in grace.
Demask(r) ==
    LET a == arg[r] IN
    /\ pc[r] = "decide" /\ rec[r] # None /\ a.payload # rec[r].orig
    /\ IF rec[r].state = "DEMASKED_GRACE"
       THEN Return(r, "demask", Restored(a, rec[r]))
       ELSE /\ ans' = [ans EXCEPT ![r] = [kind |-> "demask", out |-> Restored(a, rec[r])]]
            /\ Goto(r, IF kind = "redis" THEN "markGet" ELSE "markAuth")
            /\ UNCHANGED <<arg, doc, rec, cacheOK>>
    /\ UNCHANGED <<kind, clock, asked, store>>

-----------------------------------------------------------------------------
(* ResilientStore.SaveIfAbsent and what firstRequest makes of it *)

\* The expiry is in the document MongoDB gets; the other stores count the ttl from the write.
Write(r) ==
    /\ auth' = [auth EXCEPT ![arg[r].id] =
                    IF kind = "mongo" THEN doc[r] ELSE [doc[r] EXCEPT !.exp = clock + TTL]]
    /\ stored' = [stored EXCEPT ![arg[r].id] = @ \cup {doc[r].orig}]

\* firstRequest answers with its own transform, whatever `created` said.
AnswerMask(r) == Return(r, "mask", BuildTransform(arg[r].id, arg[r].payload))

\* An error out of SaveIfAbsent.
SaveFailed(r) ==
    IF HasPii(arg[r].payload) THEN Return(r, "503", None)
    ELSE Return(r, "mask_degraded", BuildTransform(arg[r].id, arg[r].payload))

Insert(r) ==
    /\ kind = "mongo" /\ pc[r] = "insert" /\ auth[arg[r].id] = None
    /\ Write(r)
    /\ Goto(r, "cacheSave")
    /\ UNCHANGED <<kind, clock, asked, cache, arg, doc, rec, cacheOK, ans>>

InsertDuplicate(r) ==
    /\ kind = "mongo" /\ pc[r] = "insert" /\ auth[arg[r].id] # None
    /\ Goto(r, "reclaim")
    /\ UNCHANGED <<kind, clock, asked, arg, doc, rec, cacheOK, ans, store>>

InsertFails(r) ==
    /\ kind # "memory" /\ pc[r] = "insert"
    /\ \/ auth[arg[r].id] = None /\ Write(r)
       \/ UNCHANGED <<auth, stored>>
    /\ SaveFailed(r)
    /\ UNCHANGED <<kind, clock, asked, cache>>

\* Seeded fault: SET in place of SETNX.
SaveNXOverwrites(r) ==
    /\ kind # "mongo" /\ pc[r] = "insert"
    /\ Write(r)
    /\ AnswerMask(r)
    /\ UNCHANGED <<kind, clock, asked, cache>>

\* RedisStore's SETNX, and MemoryStore's check and write under its mutex: there is no
\* cache to fill after it.
SaveNX(r) ==
    LET d == auth[arg[r].id] IN
    /\ kind # "mongo" /\ pc[r] = "insert"
    /\ IF d = None \/ (kind = "memory" /\ d.exp <= clock) THEN Write(r) ELSE UNCHANGED <<auth, stored>>
    /\ AnswerMask(r)
    /\ UNCHANGED <<kind, clock, asked, cache>>

\* Seeded fault: ReplaceOne by _id alone.
ReclaimableAny(d) == d # None

\* ReplaceOne's filter on expires_at.
Reclaimable(d) == d # None /\ d.exp <= clock

Reclaim(r) ==
    /\ pc[r] = "reclaim" /\ Reclaimable(auth[arg[r].id])
    /\ Write(r)
    /\ Goto(r, "cacheSave")
    /\ UNCHANGED <<kind, clock, asked, cache, arg, doc, rec, cacheOK, ans>>

\* created = false: the race is lost.
ReclaimLost(r) ==
    /\ pc[r] = "reclaim" /\ ~Reclaimable(auth[arg[r].id])
    /\ AnswerMask(r)
    /\ UNCHANGED <<kind, clock, asked, store>>

ReclaimFails(r) ==
    /\ pc[r] = "reclaim"
    /\ \/ Reclaimable(auth[arg[r].id]) /\ Write(r)
       \/ UNCHANGED <<auth, stored>>
    /\ SaveFailed(r)
    /\ UNCHANGED <<kind, clock, asked, cache>>

CacheSave(r) ==
    /\ pc[r] = "cacheSave"
    /\ cache' \in AfterSet(cache, arg[r].id, doc[r], TTL)
    /\ AnswerMask(r)
    /\ UNCHANGED <<kind, clock, asked, auth, stored>>

-----------------------------------------------------------------------------
(* ResilientStore.MarkDemasked: UpdateOne, then the cache's own read and write; *)
(* with Redis as the authority, that read and write alone                      *)

MarkAuth(r) ==
    /\ pc[r] = "markAuth"
    /\ \/ auth' = [auth EXCEPT ![arg[r].id] =
                    IF @ = None THEN None
                    ELSE [@ EXCEPT !.state = "DEMASKED_GRACE", !.exp = clock + Grace]]
       \/ kind = "mongo" /\ UNCHANGED auth
    /\ IF kind = "mongo" THEN Goto(r, "markGet") /\ UNCHANGED <<arg, doc, rec, cacheOK, ans>>
                         ELSE Return(r, ans[r].kind, ans[r].out)
    /\ UNCHANGED <<kind, clock, asked, cache, stored>>

MarkGet(r) ==
    LET hit == Key(IF kind = "redis" THEN auth[arg[r].id] ELSE cache[arg[r].id]) IN
    /\ pc[r] = "markGet"
    /\ \/ /\ hit # None
          /\ rec' = [rec EXCEPT ![r] = [hit EXCEPT !.state = "DEMASKED_GRACE"]]
          /\ Goto(r, "markSet")
          /\ UNCHANGED <<arg, doc, cacheOK, ans>>
       \/ Return(r, ans[r].kind, ans[r].out)
    /\ UNCHANGED <<kind, clock, asked, store>>

MarkSet(r) ==
    /\ pc[r] = "markSet"
    /\ IF kind = "redis" THEN auth' \in AfterSet(auth, arg[r].id, rec[r], Grace) /\ UNCHANGED cache
                         ELSE cache' \in AfterSet(cache, arg[r].id, rec[r], Grace) /\ UNCHANGED auth
    /\ Return(r, ans[r].kind, ans[r].out)
    /\ UNCHANGED <<kind, clock, asked, stored>>

\* The handler writes the response, or the process dies.
Respond(r) ==
    /\ pc[r] = "answered"
    /\ Goto(r, "idle")
    /\ arg' = [arg EXCEPT ![r] = None] /\ ans' = [ans EXCEPT ![r] = None]
    /\ UNCHANGED <<kind, clock, asked, doc, rec, cacheOK, store>>

Restart ==
    /\ kind # "memory" /\ \E r \in Reqs : pc[r] # "idle"
    /\ pc' = [r \in Reqs |-> "idle"]
    /\ arg' = [r \in Reqs |-> None] /\ ans' = [r \in Reqs |-> None]
    /\ doc' = [r \in Reqs |-> None] /\ rec' = [r \in Reqs |-> None]
    /\ cacheOK' = [r \in Reqs |-> FALSE]
    /\ UNCHANGED <<kind, clock, asked, store>>

Unexpired(keys) == [i \in Ids |-> IF keys[i] # None /\ keys[i].exp <= clock + 1 THEN None ELSE keys[i]]

Tick ==
    /\ clock < MaxClock /\ clock' = clock + 1
    /\ cache' = Unexpired(cache)
    /\ auth' = IF kind = "redis" THEN Unexpired(auth) ELSE auth
    /\ UNCHANGED <<kind, asked, stored, request>>

\* The TTL index of ensureIndexesLazy.
Purge(i) ==
    /\ kind = "mongo" /\ Reclaimable(auth[i])
    /\ auth' = [auth EXCEPT ![i] = None]
    /\ UNCHANGED <<kind, clock, asked, cache, stored, request>>

Process(r) ==
    \/ GetCache(r) \/ GetAuth(r) \/ GetAuthFails(r) \/ Backfill(r)
    \/ FirstRequest(r) \/ RetryMask(r) \/ Demask(r)
    \/ Insert(r) \/ InsertDuplicate(r) \/ InsertFails(r) \/ SaveNX(r)
    \/ Reclaim(r) \/ ReclaimLost(r) \/ ReclaimFails(r) \/ CacheSave(r)
    \/ MarkAuth(r) \/ MarkGet(r) \/ MarkSet(r) \/ Respond(r)

Next ==
    \/ \E r \in Reqs : Request(r) \/ Process(r)
    \/ \E i \in Ids : Purge(i)
    \/ Tick \/ Restart

Spec == Init /\ [][Next]_vars

-----------------------------------------------------------------------------
(* Properties *)

Justified(a, n) ==
    CASE n.kind = "retry_mask" ->
            a.payload \in stored[a.id] /\ n.out = BuildTransform(a.id, a.payload)
      [] n.kind = "demask" ->
            \E x \in stored[a.id] \ {a.payload} : n.out = Restored(a, [orig |-> x])
      [] n.kind = "mask_degraded" -> ~HasPii(a.payload) /\ n.out = a.payload
      [] n.kind = "mask" -> stored[a.id] # {}
      [] OTHER -> n.out = None

\* A retry and a demask follow from a record the authority stored for the id, and
\* without storage only a text without PII is answered (Service: "idempotent retries,
\* fail-closed on storage loss for reversible mappings").
GoAnswersJustified == \A r \in Reqs : ans[r] # None => Justified(arg[r], ans[r])

\* A masked text with PII is answered only if this text's mapping was stored (ARCH.md:
\* the loser of a race answers with the winner's result, never from unpersisted state).
GoMaskPersisted ==
    \A r \in Reqs : ans[r] # None /\ ans[r].kind = "mask" /\ HasPii(arg[r].payload) =>
        arg[r].payload \in stored[arg[r].id]

Slot(d) == IF d = None THEN None ELSE [core |-> d.orig, state |-> d.state, exp |-> d.exp]

Lifecycle == INSTANCE MappingLifecycle
    WITH Cores <- Payloads, Lease <- TTL, Window <- Grace, Nothing <- None,
         now <- clock, slot <- [i \in Ids |-> IF kind = "redis" THEN None ELSE Slot(auth[i])]

\* The Go stores with an atomic grace transition implement the same abstract lifecycle
\* as the Python one (ResilientStore: "same failure semantics as the Python
\* ResilientMappingStore").  Redis alone does not: see GoRedisKeeps.
GoImplementsLifecycle == Lifecycle!Spec

\* Redis as the only store marks a demask by a read and a write of the whole record.  A
\* mapping whose lease still runs is lost in one case only: a demask of an earlier
\* mapping of the id, read before that one expired, is written over it.
GoRedisKeeps ==
    [][\A i \in Ids :
        /\ kind = "redis" /\ auth[i] # None /\ auth[i].exp > clock'
        /\ auth'[i] = None \/ auth'[i].orig # auth[i].orig
        => /\ auth'[i] # None /\ auth'[i].state = "DEMASKED_GRACE" /\ stored' = stored
           /\ \E r \in Reqs : /\ arg[r] # None /\ arg[r].id = i
                             /\ pc[r] = "markSet" /\ rec[r].orig = auth'[i].orig]_vars
=============================================================================

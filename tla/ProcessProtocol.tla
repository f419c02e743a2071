-------------------------- MODULE ProcessProtocol --------------------------
(***************************************************************************)
(* The /process protocol: ProcessService running in several worker        *)
(* processes over a ResilientMappingStore whose authority is MongoDB and   *)
(* whose hot cache is Redis.                                               *)
(*                                                                         *)
(* Every step of a request is one backend call, because the code holds no  *)
(* lock across two calls: requests of all workers interleave between them. *)
(* A call fails when its backend is down, when it times out, or when the   *)
(* worker's circuit breaker refuses it; a failed write may nevertheless    *)
(* have been applied (the acknowledgement was lost).  Texts, the masking   *)
(* pipeline and the content-based demasker are parameters: this module is  *)
(* about who may answer what, from which record, and for how long.         *)
(***************************************************************************)
EXTENDS Integers, FiniteSets

CONSTANTS
    Ids,                \* payload_id values
    Payloads,           \* texts; equal fingerprints mean equal texts
    Inputs,             \* the payloads clients send
    Consumers,          \* consumers, each with its own masking policy
    Enabled,            \* the consumers the registry resolves and has enabled
    Demasking,          \* the consumers whose demask flag is set
    Workers,            \* uvicorn worker processes
    Reqs,               \* request slots: a slot serves one request after another
    WorkerOf,           \* the worker a slot belongs to
    Pipeline(_, _, _),  \* the masked text of a payload, per id and consumer
    HasPii(_, _),       \* the pipeline produced at least one mapping
    Trace,              \* payloads with a mask token or a star run in them
    Fuzzy(_, _, _, _),  \* content-based demasking: id, payload, original, consumer
    TTL,                \* mapping_ttl_seconds, also the backfill ttl
    Grace,              \* demask_retry_grace_seconds
    BatchLimit,         \* grace_pending is flushed at this size (500)
    MaxClock,           \* bound on the clock
    MaxRequests,        \* bound on the number of requests submitted
    None                \* Python's None

Core == [orig : Payloads, con : Consumers, born : Nat]
Record == [core : Core, state : {"ACTIVE", "DEMASKED_GRACE"}]
Doc == [rec : Record, exp : Nat]
Batch == [ids : SUBSET Ids, exp : Nat]
Arg == [id : Ids, payload : Payloads, con : Consumers]
Kinds == {"MASK", "RETRY_MASK", "DEMASK", "409", "503", "403"}
Answers == [kind : Kinds, out : Payloads \cup {None}]
Flushers == Workers \cup Reqs
Control == {"idle", "getCache", "getAuth", "backfill", "decide", "insert", "reclaim",
            "cacheSave", "markAuth", "takeBatch", "flush", "markGet", "markPut", "answered"}

ASSUME PipelineAssumption ==
    \A i \in Ids, x \in Payloads, c \in Consumers :
        /\ Pipeline(i, x, c) \in Payloads
        /\ HasPii(x, c) \in BOOLEAN
        /\ ~HasPii(x, c) => Pipeline(i, x, c) = x
        /\ \A y \in Payloads : Fuzzy(i, y, x, c) \in Payloads

ASSUME ConstantsAssumption ==
    /\ Enabled \subseteq Consumers /\ Demasking \subseteq Consumers
    /\ Inputs \subseteq Payloads /\ Trace \subseteq Payloads
    /\ WorkerOf \in [Reqs -> Workers]
    /\ Workers \cap Reqs = {}
    /\ TTL \in Nat /\ Grace \in Nat /\ MaxClock \in Nat /\ MaxRequests \in Nat /\ BatchLimit \in Nat

ASSUME NoneAssumption ==
    None \notin Doc \cup Record \cup Batch \cup Answers \cup Nat
              \cup [core : Core, state : {"ACTIVE", "DEMASKED_GRACE"}, exp : Nat]

VARIABLES
    clock,      \* seconds, shared by all workers
    asked,      \* how many requests were submitted
    auth,       \* the Mongo collection, one document per id
    cache,      \* Redis, one key per id
    pending,    \* _grace_pending of each worker
    batch,      \* the bulk_write a flusher has built and not yet finished
    pc, arg,    \* where each request is, and what it was asked
    own,        \* the document its _first_request has built
    seen,       \* the record its last read returned
    cacheOk,    \* cache_ok of the store.get in progress
    ans,        \* the answer of the slot's request, once it is decided
    persisted,  \* history: every record core the authority ever held, by id
    graceEnd    \* history: when the grace of the first demask of an id ends

store == <<auth, cache, persisted>>
batching == <<pending, batch, graceEnd>>
request == <<pc, arg, own, seen, cacheOk, ans>>
vars == <<clock, asked, auth, cache, pending, batch, pc, arg, own, seen, cacheOk, ans,
          persisted, graceEnd>>

Init ==
    /\ clock = 0 /\ asked = 0
    /\ auth = [i \in Ids |-> None]
    /\ cache = [i \in Ids |-> None]
    /\ pending = [w \in Workers |-> {}]
    /\ batch = [f \in Flushers |-> None]
    /\ pc = [r \in Reqs |-> "idle"]
    /\ arg = [r \in Reqs |-> None]
    /\ own = [r \in Reqs |-> None]
    /\ seen = [r \in Reqs |-> None]
    /\ cacheOk = [r \in Reqs |-> FALSE]
    /\ ans = [r \in Reqs |-> None]
    /\ persisted = [i \in Ids |-> {}]
    /\ graceEnd = [i \in Ids |-> None]

-----------------------------------------------------------------------------
(* Helpers *)

Goto(r, label) == pc' = [pc EXCEPT ![r] = label]

\* Seeded fault: the read returns the whole document, envelope included.
FoundWholeDoc(d) == IF d # None /\ d.exp > clock THEN d ELSE None

\* An expired document still occupies its _id; every read treats it as absent.
Found(d) == IF d # None /\ d.exp > clock THEN d.rec ELSE None

BuildRecord(x, c) == [core |-> [orig |-> x, con |-> c, born |-> clock], state |-> "ACTIVE"]

Transformed(i, rec) == Pipeline(i, rec.core.orig, rec.core.con)

InGrace(rec) == [rec EXCEPT !.state = "DEMASKED_GRACE"]

\* A cache write either takes effect or not; the caller cannot tell and does not ask.
CachePut(i, rec, ttl) ==
    \E applied \in BOOLEAN :
        cache' = IF applied THEN [cache EXCEPT ![i] = [rec |-> rec, exp |-> clock + ttl]]
                            ELSE cache

\* The request has decided its answer and has nothing left to do.
Answer(r, kind, out) ==
    /\ ans' = [ans EXCEPT ![r] = [kind |-> kind, out |-> out]]
    /\ Goto(r, "answered")
    /\ own' = [own EXCEPT ![r] = None]
    /\ seen' = [seen EXCEPT ![r] = None]
    /\ cacheOk' = [cacheOk EXCEPT ![r] = FALSE]
    /\ UNCHANGED arg

\* The same for a request whose answer was decided before it marked the record.
AnswerMarked(r) == Answer(r, ans[r].kind, ans[r].out)

\* StorageUnavailableError out of save_if_absent: only a text without PII is answered.
SaveFailed(r) ==
    LET a == arg[r] IN
    IF HasPii(a.payload, a.con) THEN Answer(r, "503", None)
                                ELSE Answer(r, "MASK", Pipeline(a.id, a.payload, a.con))

\* _answer_without_storage: neither a trace of a mask nor PII may be in the text.
AnswerWithoutStorage(r) ==
    LET a == arg[r] IN
    IF a.payload \in Trace \/ HasPii(a.payload, a.con)
    THEN Answer(r, "503", None)
    ELSE Answer(r, "MASK", a.payload)

-----------------------------------------------------------------------------
(* process(): the consumer check and the two reads of store.get *)

Submit(r) ==
    /\ pc[r] = "idle"
    /\ asked < MaxRequests /\ asked' = asked + 1
    /\ \E i \in Ids, x \in Inputs, c \in Consumers :
        /\ arg' = [arg EXCEPT ![r] = [id |-> i, payload |-> x, con |-> c]]
        /\ IF c \in Enabled
           THEN Goto(r, "getCache") /\ ans' = [ans EXCEPT ![r] = None]
           ELSE Goto(r, "answered") /\ ans' = [ans EXCEPT ![r] = [kind |-> "403", out |-> None]]
    /\ UNCHANGED <<clock, own, seen, cacheOk, store, batching>>

\* The cache read of store.get: a hit ends the get, a miss or a failure goes on.
GetCache(r) ==
    LET hit == Found(cache[arg[r].id]) IN
    /\ pc[r] = "getCache"
    /\ \/ /\ hit # None
          /\ seen' = [seen EXCEPT ![r] = hit]
          /\ Goto(r, "decide")
          /\ UNCHANGED cacheOk
       \/ /\ hit = None
          /\ cacheOk' = [cacheOk EXCEPT ![r] = TRUE]
          /\ Goto(r, "getAuth")
          /\ UNCHANGED seen
       \/ /\ cacheOk' = [cacheOk EXCEPT ![r] = FALSE]
          /\ Goto(r, "getAuth")
          /\ UNCHANGED seen
    /\ UNCHANGED <<clock, asked, arg, own, ans, store, batching>>

\* The authority read of store.get; the cache is backfilled only after a genuine miss.
GetAuth(r) ==
    LET rec == Found(auth[arg[r].id]) IN
    /\ pc[r] = "getAuth"
    /\ seen' = [seen EXCEPT ![r] = rec]
    /\ Goto(r, IF rec # None /\ cacheOk[r] THEN "backfill" ELSE "decide")
    /\ cacheOk' = [cacheOk EXCEPT ![r] = FALSE]
    /\ UNCHANGED <<clock, asked, arg, own, ans, store, batching>>

\* Seeded fault: a failed read is retried for as long as it fails.
GetAuthFailsRetries(r) ==
    /\ pc[r] = "getAuth"
    /\ Goto(r, "getCache")
    /\ UNCHANGED <<clock, asked, arg, own, seen, cacheOk, ans, store, batching>>

\* The authority cannot be read: the first get of a request goes on without
\* storage, the read of the race winner fails the request.
GetAuthFails(r) ==
    /\ pc[r] = "getAuth"
    /\ IF own[r] = None THEN AnswerWithoutStorage(r) ELSE Answer(r, "503", None)
    /\ UNCHANGED <<clock, asked, store, batching>>

Backfill(r) ==
    /\ pc[r] = "backfill"
    /\ CachePut(arg[r].id, seen[r], TTL)
    /\ Goto(r, "decide")
    /\ UNCHANGED <<clock, asked, arg, own, seen, cacheOk, ans, auth, persisted, batching>>

-----------------------------------------------------------------------------
(* process(): what the record found says about the payload *)

\* No record: run the pipeline and try to be the one who stores its result.
FirstRequest(r) ==
    LET a == arg[r] IN
    /\ pc[r] = "decide" /\ own[r] = None /\ seen[r] = None
    /\ own' = [own EXCEPT ![r] = [rec |-> BuildRecord(a.payload, a.con), exp |-> clock + TTL]]
    /\ Goto(r, "insert")
    /\ UNCHANGED <<clock, asked, arg, seen, cacheOk, ans, store, batching>>

RetryMask(r) ==
    /\ pc[r] = "decide" /\ own[r] = None /\ seen[r] # None
    /\ arg[r].payload = seen[r].core.orig
    /\ Answer(r, "RETRY_MASK", Transformed(arg[r].id, seen[r]))
    /\ UNCHANGED <<clock, asked, store, batching>>

\* Demasking is off for the record's consumer or for this one: the text comes back as is.
DemaskDisabled(r) ==
    /\ pc[r] = "decide" /\ own[r] = None /\ seen[r] # None
    /\ arg[r].payload # seen[r].core.orig
    /\ seen[r].core.con \notin Demasking \/ arg[r].con \notin Demasking
    /\ Answer(r, "DEMASK", arg[r].payload)
    /\ UNCHANGED <<clock, asked, store, batching>>

DemaskResult(a, rec) ==
    IF a.payload = Transformed(a.id, rec)
    THEN rec.core.orig
    ELSE Fuzzy(a.id, a.payload, rec.core.orig, rec.core.con)

\* Exact or content-based demasking, then _transition_to_grace unless already there.
Demask(r) ==
    LET a == arg[r] IN
    /\ pc[r] = "decide" /\ own[r] = None /\ seen[r] # None
    /\ a.payload # seen[r].core.orig
    /\ seen[r].core.con \in Demasking /\ a.con \in Demasking
    /\ IF seen[r].state = "DEMASKED_GRACE"
       THEN Answer(r, "DEMASK", DemaskResult(a, seen[r]))
       ELSE /\ ans' = [ans EXCEPT ![r] = [kind |-> "DEMASK", out |-> DemaskResult(a, seen[r])]]
            /\ Goto(r, "markAuth")
            /\ UNCHANGED <<arg, own, seen, cacheOk>>
    /\ UNCHANGED <<clock, asked, store, batching>>

-----------------------------------------------------------------------------
(* _first_request: save_if_absent, and the loser's read of the winner *)

Persist(i, doc) ==
    /\ auth' = [auth EXCEPT ![i] = doc]
    /\ persisted' = [persisted EXCEPT ![i] = @ \cup {doc.rec.core}]

\* Seeded fault: an upsert, which replaces whatever document has the _id.
InsertUpserts(r) ==
    /\ pc[r] = "insert"
    /\ Persist(arg[r].id, own[r])
    /\ Goto(r, "cacheSave")
    /\ UNCHANGED <<clock, asked, cache, arg, own, seen, cacheOk, ans, batching>>

\* insert_one succeeds when no document has the _id.
Insert(r) ==
    /\ pc[r] = "insert" /\ auth[arg[r].id] = None
    /\ Persist(arg[r].id, own[r])
    /\ Goto(r, "cacheSave")
    /\ UNCHANGED <<clock, asked, cache, arg, own, seen, cacheOk, ans, batching>>

\* DuplicateKeyError: an expired document may still be claimed.
InsertDuplicate(r) ==
    /\ pc[r] = "insert" /\ auth[arg[r].id] # None
    /\ Goto(r, "reclaim")
    /\ UNCHANGED <<clock, asked, arg, own, seen, cacheOk, ans, store, batching>>

\* insert_one fails; the document may have been stored all the same.
InsertFails(r) ==
    /\ pc[r] = "insert"
    /\ \/ auth[arg[r].id] = None /\ Persist(arg[r].id, own[r])
       \/ UNCHANGED <<auth, persisted>>
    /\ SaveFailed(r)
    /\ UNCHANGED <<clock, asked, cache, batching>>

Expired(d) == d # None /\ d.exp <= clock

\* Seeded fault: replace_one without the expires_at filter.
ReclaimUnfiltered(r) ==
    /\ pc[r] = "reclaim" /\ auth[arg[r].id] # None
    /\ Persist(arg[r].id, own[r])
    /\ Goto(r, "cacheSave")
    /\ UNCHANGED <<clock, asked, cache, arg, own, seen, cacheOk, ans, batching>>

\* replace_one filtered on expires_at <= now claims an expired document.
Reclaim(r) ==
    /\ pc[r] = "reclaim" /\ Expired(auth[arg[r].id])
    /\ Persist(arg[r].id, own[r])
    /\ Goto(r, "cacheSave")
    /\ UNCHANGED <<clock, asked, cache, arg, own, seen, cacheOk, ans, batching>>

\* The filter matched nothing (live, or purged meanwhile): the race is lost and
\* the winner is read through store.get.
ReclaimLost(r) ==
    /\ pc[r] = "reclaim" /\ ~Expired(auth[arg[r].id])
    /\ Goto(r, "getCache")
    /\ UNCHANGED <<clock, asked, arg, own, seen, cacheOk, ans, store, batching>>

ReclaimFails(r) ==
    /\ pc[r] = "reclaim"
    /\ \/ Expired(auth[arg[r].id]) /\ Persist(arg[r].id, own[r])
       \/ UNCHANGED <<auth, persisted>>
    /\ SaveFailed(r)
    /\ UNCHANGED <<clock, asked, cache, batching>>

\* save_if_absent's cache.update after a creation, then the MASK answer.
CacheSave(r) ==
    LET a == arg[r] IN
    /\ pc[r] = "cacheSave"
    /\ CachePut(a.id, own[r].rec, TTL)
    /\ Answer(r, "MASK", Pipeline(a.id, a.payload, a.con))
    /\ UNCHANGED <<clock, asked, auth, persisted, batching>>

\* Seeded fault: the loser of the race answers with its own, unpersisted, transform.
VerifyWinnerIgnoresRace(r) ==
    LET a == arg[r] IN
    /\ pc[r] = "decide" /\ own[r] # None
    /\ Answer(r, "MASK", Pipeline(a.id, a.payload, a.con))
    /\ UNCHANGED <<clock, asked, store, batching>>

\* The loser answers from the winner's record, or not at all.
VerifyWinner(r) ==
    LET a == arg[r] IN
    /\ pc[r] = "decide" /\ own[r] # None
    /\ IF seen[r] = None THEN Answer(r, "503", None)
       ELSE IF seen[r].core.orig # a.payload THEN Answer(r, "409", None)
       ELSE Answer(r, "RETRY_MASK", Transformed(a.id, seen[r]))
    /\ UNCHANGED <<clock, asked, store, batching>>

-----------------------------------------------------------------------------
(* mark_demasked and the grace batches *)

\* The authority's part only enqueues the id for the next bulk write.
Enqueue(r) ==
    LET w == WorkerOf[r]
        i == arg[r].id
        p == pending[w] \cup {i} IN
    /\ pc[r] = "markAuth"
    /\ pending' = [pending EXCEPT ![w] = p]
    /\ graceEnd' = [graceEnd EXCEPT ![i] = IF @ = None THEN clock + Grace ELSE @]
    /\ Goto(r, IF Cardinality(p) >= BatchLimit THEN "takeBatch" ELSE "markGet")
    /\ UNCHANGED <<clock, asked, batch, arg, own, seen, cacheOk, ans, store>>

\* The breaker of the authority is open: the transition is lost, the demask is not.
EnqueueRefused(r) ==
    /\ pc[r] = "markAuth"
    /\ Goto(r, "markGet")
    /\ UNCHANGED <<clock, asked, arg, own, seen, cacheOk, ans, store, batching>>

\* Seeded fault: the dict is copied for the bulk write and never emptied.
SwapPendingCopies(f, w) ==
    /\ pending[w] # {}
    /\ batch' = [batch EXCEPT ![f] = [ids |-> pending[w], exp |-> clock + Grace]]
    /\ UNCHANGED pending

\* flush_grace_now, first half: swap the pending dict and stamp the updates.
SwapPending(f, w) ==
    /\ pending[w] # {}
    /\ batch' = [batch EXCEPT ![f] = [ids |-> pending[w], exp |-> clock + Grace]]
    /\ pending' = [pending EXCEPT ![w] = {}]

\* flush_grace_now, second half: the unordered bulk_write sets state and expiry by
\* _id alone; a failing one has updated any part of the batch, and the rest is lost.
BulkWrite(f) ==
    /\ batch[f] # None
    /\ \E applied \in SUBSET batch[f].ids :
        auth' = [i \in Ids |->
                    IF i \in applied /\ auth[i] # None
                    THEN [rec |-> InGrace(auth[i].rec), exp |-> batch[f].exp]
                    ELSE auth[i]]
    /\ batch' = [batch EXCEPT ![f] = None]

FlushLoopTake(w) ==
    /\ batch[w] = None
    /\ SwapPending(w, w)
    /\ UNCHANGED <<clock, asked, graceEnd, store, request>>

FlushLoopWrite(w) ==
    /\ BulkWrite(w)
    /\ UNCHANGED <<clock, asked, cache, persisted, pending, graceEnd, request>>

\* A request that filled the batch flushes it itself, unless the loop was faster.
RequestTake(r) ==
    LET w == WorkerOf[r] IN
    /\ pc[r] = "takeBatch"
    /\ \/ SwapPending(r, w) /\ Goto(r, "flush")
       \/ pending[w] = {} /\ Goto(r, "markGet") /\ UNCHANGED <<pending, batch>>
    /\ UNCHANGED <<clock, asked, arg, own, seen, cacheOk, ans, graceEnd, store>>

RequestFlush(r) ==
    /\ pc[r] = "flush"
    /\ BulkWrite(r)
    /\ Goto(r, "markGet")
    /\ UNCHANGED <<clock, asked, cache, persisted, pending, graceEnd, arg, own, seen, cacheOk, ans>>

\* mark_demasked refreshes the cache from its own copy.
MarkGet(r) ==
    LET hit == Found(cache[arg[r].id]) IN
    /\ pc[r] = "markGet"
    /\ \/ /\ hit # None
          /\ seen' = [seen EXCEPT ![r] = hit]
          /\ Goto(r, "markPut")
          /\ UNCHANGED <<arg, own, cacheOk, ans>>
       \/ AnswerMarked(r)
    /\ UNCHANGED <<clock, asked, store, batching>>

MarkPut(r) ==
    /\ pc[r] = "markPut"
    /\ CachePut(arg[r].id, InGrace(seen[r]), Grace)
    /\ AnswerMarked(r)
    /\ UNCHANGED <<clock, asked, auth, persisted, batching>>

\* The route turns the outcome or the error into the response and the slot is free.
Respond(r) ==
    /\ pc[r] = "answered"
    /\ Goto(r, "idle")
    /\ arg' = [arg EXCEPT ![r] = None]
    /\ ans' = [ans EXCEPT ![r] = None]
    /\ UNCHANGED <<clock, asked, own, seen, cacheOk, store, batching>>

-----------------------------------------------------------------------------
(* The environment *)

\* Redis drops a key exactly when its ttl is over.
Tick ==
    /\ clock < MaxClock
    /\ clock' = clock + 1
    /\ cache' = [i \in Ids |-> IF cache[i] # None /\ cache[i].exp <= clock + 1
                               THEN None ELSE cache[i]]
    /\ UNCHANGED <<asked, auth, persisted, batching, request>>

\* Mongo's TTL monitor deletes an expired document some time after its expiry.
Purge(i) ==
    /\ Expired(auth[i])
    /\ auth' = [auth EXCEPT ![i] = None]
    /\ UNCHANGED <<clock, asked, cache, persisted, batching, request>>

\* Redis restarts empty.
Evict(i) ==
    /\ cache[i] # None
    /\ cache' = [cache EXCEPT ![i] = None]
    /\ UNCHANGED <<clock, asked, auth, persisted, batching, request>>

\* A worker process dies: its requests, its pending dict and its batches are gone.
Crash(w) ==
    LET mine == {r \in Reqs : WorkerOf[r] = w /\ pc[r] # "idle"} IN
    /\ mine # {} \/ pending[w] # {} \/ batch[w] # None
    /\ pending' = [pending EXCEPT ![w] = {}]
    /\ batch' = [f \in Flushers |-> IF f = w \/ f \in mine THEN None ELSE batch[f]]
    /\ pc' = [r \in Reqs |-> IF r \in mine THEN "idle" ELSE pc[r]]
    /\ arg' = [r \in Reqs |-> IF r \in mine THEN None ELSE arg[r]]
    /\ own' = [r \in Reqs |-> IF r \in mine THEN None ELSE own[r]]
    /\ seen' = [r \in Reqs |-> IF r \in mine THEN None ELSE seen[r]]
    /\ cacheOk' = [r \in Reqs |-> IF r \in mine THEN FALSE ELSE cacheOk[r]]
    /\ ans' = [r \in Reqs |-> IF r \in mine THEN None ELSE ans[r]]
    /\ UNCHANGED <<clock, asked, graceEnd, store>>

-----------------------------------------------------------------------------
\* What a request does on its own once it is submitted.
Advance(r) ==
    \/ GetCache(r) \/ GetAuth(r) \/ GetAuthFails(r) \/ Backfill(r)
    \/ FirstRequest(r) \/ RetryMask(r) \/ DemaskDisabled(r) \/ Demask(r)
    \/ Insert(r) \/ InsertDuplicate(r) \/ InsertFails(r)
    \/ Reclaim(r) \/ ReclaimLost(r) \/ ReclaimFails(r)
    \/ CacheSave(r) \/ VerifyWinner(r)
    \/ Enqueue(r) \/ EnqueueRefused(r) \/ RequestTake(r) \/ RequestFlush(r)
    \/ MarkGet(r) \/ MarkPut(r) \/ Respond(r)

FlushLoop(w) == FlushLoopTake(w) \/ FlushLoopWrite(w)

Environment ==
    \/ Tick
    \/ \E i \in Ids : Purge(i) \/ Evict(i)
    \/ \E w \in Workers : Crash(w)

Next ==
    \/ \E r \in Reqs : Submit(r) \/ Advance(r)
    \/ \E w \in Workers : FlushLoop(w)
    \/ Environment

Spec == Init /\ [][Next]_vars

\* A thread of the pool runs until its handler returns; the flush loop never ends.
Fairness ==
    /\ \A r \in Reqs : WF_vars(Advance(r))
    /\ \A w \in Workers : WF_vars(FlushLoop(w))

FairSpec == Spec /\ Fairness

-----------------------------------------------------------------------------
(* Properties *)

\* Every variable stays within its type.
TypeOK ==
    /\ clock \in Nat /\ asked \in Nat
    /\ auth \in [Ids -> Doc \cup {None}]
    /\ cache \in [Ids -> Doc \cup {None}]
    /\ pending \in [Workers -> SUBSET Ids]
    /\ batch \in [Flushers -> Batch \cup {None}]
    /\ pc \in [Reqs -> Control]
    /\ arg \in [Reqs -> Arg \cup {None}]
    /\ own \in [Reqs -> Doc \cup {None}]
    /\ seen \in [Reqs -> Record \cup {None}]
    /\ cacheOk \in [Reqs -> BOOLEAN]
    /\ ans \in [Reqs -> Answers \cup {None}]
    /\ persisted \in [Ids -> SUBSET Core]
    /\ graceEnd \in [Ids -> Nat \cup {None}]

\* What a request holds at each point of its way: the inductive companion of TypeOK.
LocalOK(r) ==
    /\ pc[r] # "idle" => arg[r] \in Arg
    /\ pc[r] \in {"insert", "reclaim", "cacheSave"} => own[r] # None
    /\ pc[r] \in {"backfill", "markPut"} => seen[r] # None
    /\ pc[r] \in {"markAuth", "takeBatch", "flush", "markGet", "markPut"} => ans[r] # None
    /\ pc[r] \in {"idle", "answered"} => own[r] = None /\ seen[r] = None
    /\ pc[r] = "idle" => ans[r] = None

ControlOK == \A r \in Reqs : LocalOK(r)

\* A masked text is the persisted mapping's own transform of exactly this payload;
\* only a text without PII is ever answered without a record.
MaskJustified(a, out) ==
    \/ \E k \in persisted[a.id] : k.orig = a.payload /\ out = Pipeline(a.id, k.orig, k.con)
    \/ ~HasPii(a.payload, a.con) /\ out = a.payload

\* A demasked text comes from a record of this id that was made for another text,
\* and originals are inserted only when both consumers may demask.
DemaskJustified(a, out) ==
    \E k \in persisted[a.id] :
        /\ k.orig # a.payload
        /\ \/ out = a.payload /\ (k.con \notin Demasking \/ a.con \notin Demasking)
           \/ /\ {k.con, a.con} \subseteq Demasking
              /\ out = IF a.payload = Pipeline(a.id, k.orig, k.con) THEN k.orig
                       ELSE Fuzzy(a.id, a.payload, k.orig, k.con)

\* What each kind of answer owes to the authority's history.
Justified(a, n) ==
    CASE n.kind \in {"MASK", "RETRY_MASK"} -> MaskJustified(a, n.out)
      [] n.kind = "DEMASK" -> DemaskJustified(a, n.out)
      [] n.kind = "409" -> \E k \in persisted[a.id] : k.orig # a.payload
      [] OTHER -> n.out = None

\* Fail closed (ARCH.md section 1 point 4, process_service.py _first_request): whatever
\* the races, failures, lost acknowledgements and crashes, an answer follows from a
\* record the authority really stored for this id; a conflict is reported only when
\* another text was stored under it.
AnswersJustified == \A r \in Reqs : ans[r] # None => Justified(arg[r], ans[r])

\* The authority holds a live document made from core k.
Holds(i, k) == auth[i] # None /\ auth[i].rec.core = k

\* A stored mapping can be demasked later (process_service.py _first_request: "never
\* hand out a masked text we cannot demask later"): until its ttl is over, or the
\* grace window of the first demask of its id is, the authority holds it unchanged.
Durable ==
    \A i \in Ids : \A k \in persisted[i] :
        \/ Holds(i, k) /\ auth[i].exp > clock
        \/ clock >= k.born + TTL
        \/ graceEnd[i] # None /\ clock >= graceEnd[i]

\* The authority as the abstract lifecycle sees it.
Slot(d) == IF d = None THEN None
           ELSE [core |-> d.rec.core, state |-> d.rec.state, exp |-> d.exp]

Lifecycle == INSTANCE MappingLifecycle
    WITH Cores <- Core, Lease <- TTL, Window <- Grace, Nothing <- None,
         now <- clock, slot <- [i \in Ids |-> Slot(auth[i])]

\* ResilientMappingStore over MongoMappingRepository implements the abstract
\* lifecycle: races, lost acknowledgements, the two-step reclaim of an expired
\* document and late bulk writes never replace the content of a live mapping.
ImplementsLifecycle == Lifecycle!Spec

\* A mapping in grace is not given more time (process_service.py
\* _transition_to_grace: "already in grace; do not extend it on every retry").
GraceNotExtended ==
    [][\A i \in Ids :
        (/\ auth[i] # None /\ auth'[i] # None
         /\ auth[i].rec.state = "DEMASKED_GRACE" /\ auth'[i].rec = auth[i].rec)
        => auth'[i].exp <= auth[i].exp]_vars

\* Every submitted request is answered, however calls fail (ProcessService.process).
EveryRequestAnswered == \A r \in Reqs : pc[r] # "idle" ~> pc[r] = "idle"

\* A demasked id does not stay in the pending batch (_grace_flush_loop).
PendingDrains == \A w \in Workers, i \in Ids : i \in pending[w] ~> i \notin pending[w]
=============================================================================

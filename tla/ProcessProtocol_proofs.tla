----------------------- MODULE ProcessProtocol_proofs -----------------------
(***************************************************************************)
(* Proofs about ProcessProtocol for every number of workers, requests, ids *)
(* and payloads, every pipeline and every ttl.                             *)
(***************************************************************************)
EXTENDS ProcessProtocol, TLAPS

TypeInv == TypeOK /\ ControlOK

-----------------------------------------------------------------------------
(* Types *)

LEMMA TypeInit == Init => TypeInv
  BY ConstantsAssumption DEF Init, TypeInv, TypeOK, ControlOK, LocalOK, Control, Flushers

LEMMA FoundType ==
    ASSUME TypeOK, NEW i \in Ids
    PROVE  /\ Found(auth[i]) \in Record \cup {None}
           /\ Found(cache[i]) \in Record \cup {None}
  BY DEF TypeOK, Found, Doc

\* A cache write stores a document.
LEMMA CachePutType ==
    ASSUME TypeOK, NEW i \in Ids, NEW rec \in Record, NEW ttl \in Nat, CachePut(i, rec, ttl)
    PROVE  cache' \in [Ids -> Doc \cup {None}]
  BY DEF TypeOK, CachePut, Doc

\* Answering keeps the types of the request's variables.
LEMMA TypeAnswer ==
    ASSUME TypeInv, NEW r \in Reqs, NEW kind \in Kinds, NEW out \in Payloads \cup {None},
           pc[r] # "idle", Answer(r, kind, out)
    PROVE  /\ pc' \in [Reqs -> Control]
           /\ arg' \in [Reqs -> Arg \cup {None}]
           /\ own' \in [Reqs -> Doc \cup {None}]
           /\ seen' \in [Reqs -> Record \cup {None}]
           /\ cacheOk' \in [Reqs -> BOOLEAN]
           /\ ans' \in [Reqs -> Answers \cup {None}]
           /\ ControlOK'
  <1>1. [kind |-> kind, out |-> out] \in Answers
    BY DEF Answers
  <1>2. [kind |-> kind, out |-> out] # None
    BY <1>1, NoneAssumption
  <1>. QED  BY <1>1, <1>2 DEF Answer, Goto, TypeInv, TypeOK, ControlOK, LocalOK, Control

LEMMA TypeRead ==
    ASSUME TypeInv, NEW r \in Reqs,
           Submit(r) \/ GetCache(r) \/ GetAuth(r) \/ GetAuthFails(r) \/ Backfill(r)
    PROVE  TypeInv'
  <1>. USE DEF TypeInv, TypeOK, ControlOK, LocalOK, Control, store, batching, Goto
  <1>1. CASE Submit(r)
    BY <1>1, ConstantsAssumption DEF Submit, Arg, Answers, Kinds
  <1>2. CASE GetCache(r)
    <2>. DEFINE hit == Found(cache[arg[r].id])
    <2>1. arg[r].id \in Ids /\ hit \in Record \cup {None}
      BY <1>2, FoundType DEF GetCache, Arg
    <2>. HIDE DEF hit
    <2>2. cacheOk' \in [Reqs -> BOOLEAN]
      BY <1>2 DEF GetCache
    <2>3. seen' \in [Reqs -> Record \cup {None}]
      BY <1>2, <2>1 DEF GetCache, hit
    <2>4. /\ pc' \in [Reqs -> Control]
          /\ ControlOK'
      BY <1>2, <2>1 DEF GetCache, hit
    <2>. QED  BY <1>2, <2>2, <2>3, <2>4 DEF GetCache
  <1>3. CASE GetAuth(r)
    BY <1>3 DEF GetAuth, Found, Doc, Arg
  <1>4. CASE GetAuthFails(r)
    <2>1. PICK kind \in Kinds, out \in Payloads \cup {None} : Answer(r, kind, out)
      BY <1>4 DEF GetAuthFails, AnswerWithoutStorage, Kinds, Arg
    <2>. QED  BY <1>4, <2>1, TypeAnswer DEF GetAuthFails
  <1>5. CASE Backfill(r)
    BY <1>5, ConstantsAssumption DEF Backfill, CachePut, Doc, Arg
  <1>. QED  BY <1>1, <1>2, <1>3, <1>4, <1>5

\* The branches of process() on the record found, and the loser's verification.
LEMMA TypeDecide ==
    ASSUME TypeInv, NEW r \in Reqs,
           \/ FirstRequest(r) \/ RetryMask(r) \/ DemaskDisabled(r) \/ Demask(r)
           \/ VerifyWinner(r)
    PROVE  TypeInv'
  <1>0. pc[r] = "decide" /\ arg[r] \in Arg
    BY DEF FirstRequest, RetryMask, DemaskDisabled, Demask, VerifyWinner, TypeInv,
           ControlOK, LocalOK
  <1>a. arg[r].id \in Ids /\ arg[r].payload \in Payloads /\ arg[r].con \in Consumers
    BY <1>0 DEF Arg
  <1>b. ASSUME seen[r] # None
        PROVE  /\ seen[r].core.orig \in Payloads
               /\ Transformed(arg[r].id, seen[r]) \in Payloads
               /\ DemaskResult(arg[r], seen[r]) \in Payloads
    BY <1>a, <1>b, PipelineAssumption
       DEF TypeInv, TypeOK, Record, Core, Transformed, DemaskResult
  <1>1. CASE FirstRequest(r)
    <2>. DEFINE doc == [rec |-> BuildRecord(arg[r].payload, arg[r].con), exp |-> clock + TTL]
    <2>1. doc \in Doc
      BY <1>a, ConstantsAssumption DEF BuildRecord, Doc, Record, Core, TypeInv, TypeOK
    <2>2. doc # None
      BY <2>1, NoneAssumption
    <2>. HIDE DEF doc
    <2>3. own' = [own EXCEPT ![r] = doc]
      BY <1>1 DEF FirstRequest, doc
    <2>. QED  BY <1>0, <1>1, <2>1, <2>2, <2>3
      DEF FirstRequest, TypeInv, TypeOK, ControlOK, LocalOK, Control, store, batching, Goto
  <1>2. CASE RetryMask(r)
    BY <1>0, <1>2, <1>b, TypeAnswer DEF RetryMask, Kinds, TypeInv, TypeOK, store, batching
  <1>3. CASE DemaskDisabled(r)
    BY <1>0, <1>3, <1>a, TypeAnswer DEF DemaskDisabled, Kinds, TypeInv, TypeOK, store, batching
  <1>4. CASE Demask(r)
    <2>. DEFINE a == [kind |-> "DEMASK", out |-> DemaskResult(arg[r], seen[r])]
    <2>1. a \in Answers
      BY <1>4, <1>b DEF Demask, Answers, Kinds
    <2>2. a # None
      BY <2>1, NoneAssumption
    <2>3. CASE Answer(r, "DEMASK", DemaskResult(arg[r], seen[r]))
      BY <1>0, <1>4, <1>b, <2>3, TypeAnswer
         DEF Demask, Kinds, TypeInv, TypeOK, store, batching
    <2>. HIDE DEF a
    <2>4. CASE /\ ans' = [ans EXCEPT ![r] = a]
               /\ Goto(r, "markAuth")
               /\ UNCHANGED <<arg, own, seen, cacheOk>>
      BY <1>0, <1>4, <2>1, <2>2, <2>4
         DEF Demask, TypeInv, TypeOK, ControlOK, LocalOK, Control, store, batching, Goto
    <2>. QED  BY <1>4, <2>3, <2>4 DEF Demask, a
  <1>5. CASE VerifyWinner(r)
    <2>1. PICK kind \in Kinds, out \in Payloads \cup {None} : Answer(r, kind, out)
      BY <1>5, <1>b DEF VerifyWinner, Kinds
    <2>. QED  BY <1>0, <1>5, <2>1, TypeAnswer DEF VerifyWinner, TypeInv, TypeOK, store, batching
  <1>. QED  BY <1>1, <1>2, <1>3, <1>4, <1>5

\* A failed save answers without PII or fails the request.
LEMMA SaveFailedAnswers ==
    ASSUME NEW r \in Reqs, arg[r] \in Arg, SaveFailed(r)
    PROVE  \E kind \in Kinds, out \in Payloads \cup {None} : Answer(r, kind, out)
  BY PipelineAssumption DEF SaveFailed, Kinds, Arg

LEMMA PersistType ==
    ASSUME TypeOK, NEW i \in Ids, NEW doc \in Doc, Persist(i, doc)
    PROVE  auth' \in [Ids -> Doc \cup {None}] /\ persisted' \in [Ids -> SUBSET Core]
  BY DEF TypeOK, Persist, Doc, Record

LEMMA TypeSave ==
    ASSUME TypeInv, NEW r \in Reqs,
           \/ Insert(r) \/ InsertDuplicate(r) \/ InsertFails(r)
           \/ Reclaim(r) \/ ReclaimLost(r) \/ ReclaimFails(r) \/ CacheSave(r)
    PROVE  TypeInv'
  <1>0. /\ pc[r] \in {"insert", "reclaim", "cacheSave"}
        /\ arg[r] \in Arg /\ arg[r].id \in Ids /\ own[r] \in Doc
        /\ TypeOK
    BY DEF Insert, InsertDuplicate, InsertFails, Reclaim, ReclaimLost, ReclaimFails,
           CacheSave, TypeInv, TypeOK, ControlOK, LocalOK, Arg
  <1>1. CASE Insert(r) \/ Reclaim(r)
    BY <1>0, <1>1, PersistType
       DEF Insert, Reclaim, TypeInv, TypeOK, ControlOK, LocalOK, Control, batching, Goto
  <1>2. CASE InsertDuplicate(r) \/ ReclaimLost(r)
    BY <1>0, <1>2
       DEF InsertDuplicate, ReclaimLost, TypeInv, TypeOK, ControlOK, LocalOK, Control,
           store, batching, Goto
  <1>3. CASE InsertFails(r) \/ ReclaimFails(r)
    <2>1. PICK kind \in Kinds, out \in Payloads \cup {None} : Answer(r, kind, out)
      BY <1>0, <1>3, SaveFailedAnswers DEF InsertFails, ReclaimFails
    <2>2. auth' \in [Ids -> Doc \cup {None}] /\ persisted' \in [Ids -> SUBSET Core]
      BY <1>0, <1>3, PersistType DEF InsertFails, ReclaimFails, TypeOK
    <2>. QED  BY <1>0, <1>3, <2>1, <2>2, TypeAnswer
         DEF InsertFails, ReclaimFails, TypeInv, TypeOK, batching
  <1>4. CASE CacheSave(r)
    <2>1. Pipeline(arg[r].id, arg[r].payload, arg[r].con) \in Payloads
      BY <1>0, PipelineAssumption DEF Arg
    <2>2. cache' \in [Ids -> Doc \cup {None}]
      BY <1>0, <1>4, CachePutType, ConstantsAssumption DEF CacheSave, Doc
    <2>. QED  BY <1>0, <1>4, <2>1, <2>2, TypeAnswer
         DEF CacheSave, Kinds, TypeInv, TypeOK, batching
  <1>. QED  BY <1>1, <1>2, <1>3, <1>4

LEMMA SwapType ==
    ASSUME TypeOK, NEW f \in Flushers, NEW w \in Workers, SwapPending(f, w)
    PROVE  pending' \in [Workers -> SUBSET Ids] /\ batch' \in [Flushers -> Batch \cup {None}]
  BY ConstantsAssumption DEF TypeOK, SwapPending, Batch

LEMMA BulkType ==
    ASSUME TypeOK, NEW f \in Flushers, BulkWrite(f)
    PROVE  auth' \in [Ids -> Doc \cup {None}] /\ batch' \in [Flushers -> Batch \cup {None}]
  <1>1. PICK applied \in SUBSET batch[f].ids :
            auth' = [i \in Ids |->
                        IF i \in applied /\ auth[i] # None
                        THEN [rec |-> InGrace(auth[i].rec), exp |-> batch[f].exp]
                        ELSE auth[i]]
    BY DEF BulkWrite
  <1>2. batch[f].exp \in Nat
    BY DEF BulkWrite, TypeOK, Batch
  <1>3. \A d \in Doc : [rec |-> InGrace(d.rec), exp |-> batch[f].exp] \in Doc
    BY <1>2 DEF Doc, Record, InGrace
  <1>4. auth' \in [Ids -> Doc \cup {None}]
    BY <1>1, <1>3 DEF TypeOK
  <1>. QED  BY <1>4 DEF BulkWrite, TypeOK

LEMMA TypeMark ==
    ASSUME TypeInv, NEW r \in Reqs,
           \/ Enqueue(r) \/ EnqueueRefused(r) \/ RequestTake(r) \/ RequestFlush(r)
           \/ MarkGet(r) \/ MarkPut(r) \/ Respond(r)
    PROVE  TypeInv'
  <1>0. /\ pc[r] \in {"markAuth", "takeBatch", "flush", "markGet", "markPut", "answered"}
        /\ arg[r] \in Arg /\ arg[r].id \in Ids
        /\ WorkerOf[r] \in Workers /\ r \in Flushers
        /\ TypeOK
    BY ConstantsAssumption
       DEF Enqueue, EnqueueRefused, RequestTake, RequestFlush, MarkGet, MarkPut, Respond,
           TypeInv, ControlOK, LocalOK, Arg, Flushers
  <1>a. ASSUME AnswerMarked(r), pc[r] \in {"markGet", "markPut"}
        PROVE  \E kind \in Kinds, out \in Payloads \cup {None} : Answer(r, kind, out)
    <2>1. ans[r] \in Answers
      BY <1>a DEF TypeInv, TypeOK, ControlOK, LocalOK
    <2>. QED  BY <1>a, <2>1 DEF AnswerMarked, Answers
  <1>1. CASE Enqueue(r)
    <2>1. pending' \in [Workers -> SUBSET Ids]
      BY <1>0, <1>1 DEF Enqueue, TypeOK
    <2>2. graceEnd' \in [Ids -> Nat \cup {None}]
      BY <1>0, <1>1, ConstantsAssumption DEF Enqueue, TypeOK
    <2>3. pc' = [pc EXCEPT ![r] = "takeBatch"] \/ pc' = [pc EXCEPT ![r] = "markGet"]
      BY <1>1 DEF Enqueue, Goto
    <2>4. pc[r] = "markAuth"
      BY <1>1 DEF Enqueue
    <2>. QED  BY <1>0, <1>1, <2>1, <2>2, <2>3, <2>4
         DEF Enqueue, TypeInv, TypeOK, ControlOK, LocalOK, Control, store
  <1>2. CASE EnqueueRefused(r)
    BY <1>0, <1>2
       DEF EnqueueRefused, TypeInv, TypeOK, ControlOK, LocalOK, Control, store, batching, Goto
  <1>3. CASE RequestTake(r)
    <2>1. pending' \in [Workers -> SUBSET Ids] /\ batch' \in [Flushers -> Batch \cup {None}]
      BY <1>0, <1>3, SwapType DEF RequestTake, TypeOK
    <2>. QED  BY <1>0, <1>3, <2>1
         DEF RequestTake, TypeInv, TypeOK, ControlOK, LocalOK, Control, store, Goto
  <1>4. CASE RequestFlush(r)
    <2>1. auth' \in [Ids -> Doc \cup {None}] /\ batch' \in [Flushers -> Batch \cup {None}]
      BY <1>0, <1>4, BulkType DEF RequestFlush
    <2>. QED  BY <1>0, <1>4, <2>1
         DEF RequestFlush, TypeInv, TypeOK, ControlOK, LocalOK, Control, Goto
  <1>5. CASE MarkGet(r)
    <2>1. CASE AnswerMarked(r)
      BY <1>0, <1>5, <1>a, <2>1, TypeAnswer DEF MarkGet, TypeInv, TypeOK, store, batching
    <2>2. CASE ~AnswerMarked(r)
      <3>. DEFINE hit == Found(cache[arg[r].id])
      <3>1. hit \in Record \cup {None}
        BY <1>0, FoundType
      <3>. HIDE DEF hit
      <3>2. /\ hit # None /\ seen' = [seen EXCEPT ![r] = hit] /\ Goto(r, "markPut")
            /\ UNCHANGED <<clock, asked, arg, own, cacheOk, ans, store, batching>>
            /\ pc[r] = "markGet"
        BY <1>5, <2>2 DEF MarkGet, hit
      <3>. QED  BY <1>0, <3>1, <3>2
           DEF TypeInv, TypeOK, ControlOK, LocalOK, Control, store, batching, Goto
    <2>. QED  BY <2>1, <2>2
  <1>6. CASE MarkPut(r)
    <2>1. InGrace(seen[r]) \in Record
      BY <1>6 DEF MarkPut, TypeInv, TypeOK, ControlOK, LocalOK, InGrace, Record
    <2>2. cache' \in [Ids -> Doc \cup {None}]
      BY <1>0, <1>6, <2>1, CachePutType, ConstantsAssumption DEF MarkPut
    <2>. QED  BY <1>0, <1>6, <1>a, <2>2, TypeAnswer
         DEF MarkPut, TypeInv, TypeOK, batching
  <1>7. CASE Respond(r)
    <2>1. own[r] = None /\ seen[r] = None
      BY <1>7 DEF Respond, TypeInv, ControlOK, LocalOK
    <2>. QED  BY <1>0, <1>7, <2>1
      DEF Respond, TypeInv, TypeOK, ControlOK, LocalOK, Control, store, batching, Goto
  <1>. QED  BY <1>1, <1>2, <1>3, <1>4, <1>5, <1>6, <1>7

LEMMA TypeBackground ==
    ASSUME TypeInv, (\E w \in Workers : FlushLoop(w)) \/ Environment
    PROVE  TypeInv'
  <1>0. TypeOK
    BY DEF TypeInv
  <1>1. ASSUME NEW w \in Workers, FlushLoopTake(w)
        PROVE  TypeInv'
    <2>1. w \in Flushers
      BY DEF Flushers
    <2>. QED  BY <1>0, <1>1, <2>1, SwapType
         DEF FlushLoopTake, TypeInv, TypeOK, ControlOK, LocalOK, store, request
  <1>2. ASSUME NEW w \in Workers, FlushLoopWrite(w)
        PROVE  TypeInv'
    <2>1. w \in Flushers
      BY DEF Flushers
    <2>. QED  BY <1>0, <1>2, <2>1, BulkType
         DEF FlushLoopWrite, TypeInv, TypeOK, ControlOK, LocalOK, request
  <1>3. ASSUME Tick
        PROVE  TypeInv'
    BY <1>0, <1>3 DEF Tick, TypeInv, TypeOK, ControlOK, LocalOK, batching, request
  <1>4. ASSUME NEW i \in Ids, Purge(i) \/ Evict(i)
        PROVE  TypeInv'
    BY <1>0, <1>4 DEF Purge, Evict, TypeInv, TypeOK, ControlOK, LocalOK, batching, request
  <1>5. ASSUME NEW w \in Workers, Crash(w)
        PROVE  TypeInv'
    BY <1>0, <1>5 DEF Crash, TypeInv, TypeOK, ControlOK, LocalOK, Control, store
  <1>. QED  BY <1>1, <1>2, <1>3, <1>4, <1>5 DEF FlushLoop, Environment

LEMMA TypeStep == TypeInv /\ [Next]_vars => TypeInv'
  <1>1. ASSUME TypeInv, UNCHANGED vars
        PROVE  TypeInv'
    BY <1>1 DEF TypeInv, TypeOK, ControlOK, LocalOK, vars
  <1>2. ASSUME TypeInv, Next
        PROVE  TypeInv'
    BY <1>2, TypeRead, TypeDecide, TypeSave, TypeMark, TypeBackground DEF Next, Advance
  <1>. QED  BY <1>1, <1>2

\* Every state of the protocol is well typed (ProcessService over its stores).
THEOREM TypeCorrect == Spec => []TypeOK
  <1>1. TypeInv => TypeOK
    BY DEF TypeInv
  <1>. QED  BY TypeInit, TypeStep, <1>1, PTL DEF Spec

-----------------------------------------------------------------------------
(* Provenance: every record a request can see was stored by the authority *)

Provenance ==
    /\ \A i \in Ids : auth[i] # None => auth[i].rec.core \in persisted[i]
    /\ \A i \in Ids : cache[i] # None => cache[i].rec.core \in persisted[i]
    /\ \A r \in Reqs : seen[r] # None => seen[r].core \in persisted[arg[r].id]
    /\ \A r \in Reqs : pc[r] = "cacheSave" => own[r].rec.core \in persisted[arg[r].id]
    /\ \A r \in Reqs : own[r] # None =>
          /\ own[r].rec.core.orig = arg[r].payload
          /\ own[r].rec.core.con = arg[r].con

LEMMA FoundPersisted ==
    ASSUME Provenance, NEW i \in Ids
    PROVE  /\ Found(auth[i]) # None => Found(auth[i]).core \in persisted[i]
           /\ Found(cache[i]) # None => Found(cache[i]).core \in persisted[i]
  BY DEF Provenance, Found

\* The record cached is one the authority has held.
LEMMA CachePutPersisted ==
    ASSUME TypeOK, Provenance, NEW i \in Ids, NEW rec \in Record, NEW ttl,
           rec.core \in persisted[i], CachePut(i, rec, ttl)
    PROVE  \A j \in Ids : cache'[j] # None => cache'[j].rec.core \in persisted[j]
  BY DEF TypeOK, Provenance, CachePut

LEMMA AnswerProvenance ==
    ASSUME TypeInv, Provenance, NEW r \in Reqs, NEW kind, NEW out, Answer(r, kind, out)
    PROVE  /\ \A q \in Reqs : seen'[q] # None => seen'[q] = seen[q]
           /\ \A q \in Reqs : own'[q] # None => own'[q] = own[q]
           /\ \A q \in Reqs : pc'[q] = "cacheSave" => pc[q] = "cacheSave" /\ own'[q] = own[q]
           /\ arg' = arg
  BY DEF Answer, Goto, TypeInv, TypeOK

LEMMA ProvenanceRead ==
    ASSUME TypeInv, Provenance, NEW r \in Reqs,
           Submit(r) \/ GetCache(r) \/ GetAuth(r) \/ GetAuthFails(r) \/ Backfill(r)
    PROVE  Provenance'
  <1>0. TypeOK
    BY DEF TypeInv
  <1>1. CASE Submit(r)
    BY <1>1 DEF Submit, Provenance, TypeInv, TypeOK, ControlOK, LocalOK, Goto, store
  <1>2. CASE GetCache(r)
    <2>. DEFINE hit == Found(cache[arg[r].id])
    <2>1. hit # None => hit.core \in persisted[arg[r].id]
      BY <1>2, FoundPersisted DEF GetCache, TypeInv, ControlOK, LocalOK, Arg
    <2>. HIDE DEF hit
    <2>2. /\ pc' \in {[pc EXCEPT ![r] = "decide"], [pc EXCEPT ![r] = "getAuth"]}
          /\ seen' = seen \/ (seen' = [seen EXCEPT ![r] = hit] /\ hit # None)
          /\ UNCHANGED <<arg, own, store>>
      BY <1>2 DEF GetCache, Goto, hit
    <2>. QED  BY <2>1, <2>2 DEF Provenance, TypeInv, TypeOK, store
  <1>3. CASE GetAuth(r)
    <2>. DEFINE rec == Found(auth[arg[r].id])
    <2>1. rec # None => rec.core \in persisted[arg[r].id]
      BY <1>3, FoundPersisted DEF GetAuth, TypeInv, ControlOK, LocalOK, Arg
    <2>. HIDE DEF rec
    <2>2. /\ pc' \in {[pc EXCEPT ![r] = "decide"], [pc EXCEPT ![r] = "backfill"]}
          /\ seen' = [seen EXCEPT ![r] = rec]
          /\ UNCHANGED <<arg, own, store>>
      BY <1>3 DEF GetAuth, Goto, rec
    <2>. QED  BY <2>1, <2>2 DEF Provenance, TypeInv, TypeOK, store
  <1>4. CASE GetAuthFails(r)
    <2>1. PICK kind, out : Answer(r, kind, out)
      BY <1>4 DEF GetAuthFails, AnswerWithoutStorage
    <2>. QED  BY <1>4, <2>1, AnswerProvenance DEF GetAuthFails, Provenance, store
  <1>5. CASE Backfill(r)
    <2>1. arg[r].id \in Ids /\ seen[r] \in Record /\ seen[r].core \in persisted[arg[r].id]
      BY <1>5 DEF Backfill, Provenance, TypeInv, TypeOK, ControlOK, LocalOK, Arg
    <2>2. \A j \in Ids : cache'[j] # None => cache'[j].rec.core \in persisted[j]
      BY <1>0, <1>5, <2>1, CachePutPersisted DEF Backfill
    <2>. QED  BY <1>5, <2>2 DEF Backfill, Provenance, TypeInv, TypeOK, Goto
  <1>. QED  BY <1>1, <1>2, <1>3, <1>4, <1>5

LEMMA ProvenanceDecide ==
    ASSUME TypeInv, Provenance, NEW r \in Reqs,
           \/ FirstRequest(r) \/ RetryMask(r) \/ DemaskDisabled(r) \/ Demask(r)
           \/ VerifyWinner(r)
    PROVE  Provenance'
  <1>1. CASE FirstRequest(r)
    BY <1>1 DEF FirstRequest, BuildRecord, Provenance, TypeInv, TypeOK, Goto, store
  <1>2. CASE \E kind, out : Answer(r, kind, out)
    BY <1>2, AnswerProvenance
       DEF FirstRequest, RetryMask, DemaskDisabled, Demask, VerifyWinner, Provenance, store
  <1>3. CASE Demask(r) /\ Goto(r, "markAuth") /\ UNCHANGED <<arg, own, seen>>
    BY <1>3 DEF Demask, Provenance, TypeInv, TypeOK, Goto, store
  <1>. QED  BY <1>1, <1>2, <1>3
       DEF RetryMask, DemaskDisabled, Demask, VerifyWinner

\* Storing a document keeps what was persisted and adds its core.
LEMMA PersistEffect ==
    ASSUME TypeOK, Provenance, NEW i \in Ids, NEW doc \in Doc, Persist(i, doc)
    PROVE  /\ \A j \in Ids : auth'[j] # None => auth'[j].rec.core \in persisted'[j]
           /\ \A j \in Ids : persisted[j] \subseteq persisted'[j]
           /\ doc.rec.core \in persisted'[i]
  BY DEF TypeOK, Provenance, Persist

LEMMA ProvenanceSave ==
    ASSUME TypeInv, Provenance, NEW r \in Reqs,
           \/ Insert(r) \/ InsertDuplicate(r) \/ InsertFails(r)
           \/ Reclaim(r) \/ ReclaimLost(r) \/ ReclaimFails(r) \/ CacheSave(r)
    PROVE  Provenance'
  <1>0. /\ pc[r] \in {"insert", "reclaim", "cacheSave"}
        /\ arg[r] \in Arg /\ arg[r].id \in Ids /\ own[r] \in Doc
        /\ TypeOK
    BY DEF Insert, InsertDuplicate, InsertFails, Reclaim, ReclaimLost, ReclaimFails,
           CacheSave, TypeInv, TypeOK, ControlOK, LocalOK, Arg
  <1>a. \A q \in Reqs : seen[q] # None \/ pc[q] = "cacheSave" => arg[q].id \in Ids
    BY DEF TypeInv, ControlOK, LocalOK, Arg
  <1>1. CASE Insert(r) \/ Reclaim(r)
    <2>1. Persist(arg[r].id, own[r]) /\ Goto(r, "cacheSave") /\ UNCHANGED <<cache, arg, own, seen>>
      BY <1>1 DEF Insert, Reclaim
    <2>. QED  BY <1>0, <1>a, <2>1, PersistEffect DEF Provenance, TypeOK, Goto
  <1>2. CASE InsertDuplicate(r) \/ ReclaimLost(r)
    BY <1>2 DEF InsertDuplicate, ReclaimLost, Provenance, TypeInv, TypeOK, Goto, store
  <1>3. CASE InsertFails(r) \/ ReclaimFails(r)
    <2>1. PICK kind, out : Answer(r, kind, out)
      BY <1>3 DEF InsertFails, ReclaimFails, SaveFailed
    <2>2. Persist(arg[r].id, own[r]) \/ UNCHANGED <<auth, persisted>>
      BY <1>3 DEF InsertFails, ReclaimFails
    <2>3. /\ \A j \in Ids : auth'[j] # None => auth'[j].rec.core \in persisted'[j]
          /\ \A j \in Ids : persisted[j] \subseteq persisted'[j]
      BY <1>0, <2>2, PersistEffect DEF Provenance
    <2>. QED  BY <1>a, <1>3, <2>1, <2>3, AnswerProvenance
         DEF InsertFails, ReclaimFails, Provenance
  <1>4. CASE CacheSave(r)
    <2>1. own[r].rec \in Record /\ own[r].rec.core \in persisted[arg[r].id]
      BY <1>0, <1>4 DEF CacheSave, Provenance, Doc
    <2>2. \A j \in Ids : cache'[j] # None => cache'[j].rec.core \in persisted[j]
      BY <1>0, <1>4, <2>1, CachePutPersisted DEF CacheSave
    <2>. QED  BY <1>4, <2>2, AnswerProvenance DEF CacheSave, Provenance
  <1>. QED  BY <1>1, <1>2, <1>3, <1>4

\* A bulk write changes state and expiry, never the content.
LEMMA BulkKeepsCore ==
    ASSUME TypeOK, NEW f \in Flushers, BulkWrite(f), NEW i \in Ids
    PROVE  /\ auth'[i] # None => auth[i] # None /\ auth'[i].rec.core = auth[i].rec.core
           /\ auth[i] # None => auth'[i] # None
  <1>1. PICK applied \in SUBSET batch[f].ids :
            auth' = [j \in Ids |->
                        IF j \in applied /\ auth[j] # None
                        THEN [rec |-> InGrace(auth[j].rec), exp |-> batch[f].exp]
                        ELSE auth[j]]
    BY DEF BulkWrite
  <1>2. ASSUME auth[i] # None
        PROVE  /\ [rec |-> InGrace(auth[i].rec), exp |-> batch[f].exp] \in Doc
               /\ InGrace(auth[i].rec).core = auth[i].rec.core
    BY <1>2 DEF BulkWrite, TypeOK, Doc, Record, Batch, InGrace
  <1>. QED  BY <1>1, <1>2, NoneAssumption

LEMMA ProvenanceMark ==
    ASSUME TypeInv, Provenance, NEW r \in Reqs,
           \/ Enqueue(r) \/ EnqueueRefused(r) \/ RequestTake(r) \/ RequestFlush(r)
           \/ MarkGet(r) \/ MarkPut(r) \/ Respond(r)
    PROVE  Provenance'
  <1>0. arg[r] \in Arg /\ arg[r].id \in Ids /\ TypeOK /\ r \in Flushers
    BY DEF Enqueue, EnqueueRefused, RequestTake, RequestFlush, MarkGet, MarkPut, Respond,
           TypeInv, ControlOK, LocalOK, Arg, Flushers
  <1>1. CASE Enqueue(r) \/ EnqueueRefused(r) \/ RequestTake(r)
    <2>1. /\ pc' \in {[pc EXCEPT ![r] = "takeBatch"], [pc EXCEPT ![r] = "markGet"],
                      [pc EXCEPT ![r] = "flush"]}
          /\ UNCHANGED <<arg, own, seen, store>>
      BY <1>1 DEF Enqueue, EnqueueRefused, RequestTake, Goto
    <2>. QED  BY <2>1 DEF Provenance, TypeInv, TypeOK, store
  <1>2. CASE RequestFlush(r)
    <2>1. \A i \in Ids : auth'[i] # None => auth[i] # None /\ auth'[i].rec.core = auth[i].rec.core
      BY <1>0, <1>2, BulkKeepsCore DEF RequestFlush
    <2>. QED  BY <1>2, <2>1 DEF RequestFlush, Provenance, TypeInv, TypeOK, Goto
  <1>3. CASE MarkGet(r)
    <2>1. CASE AnswerMarked(r)
      BY <1>3, <2>1, AnswerProvenance DEF MarkGet, AnswerMarked, Provenance, store
    <2>2. CASE ~AnswerMarked(r)
      <3>. DEFINE hit == Found(cache[arg[r].id])
      <3>1. hit # None => hit.core \in persisted[arg[r].id]
        BY <1>0, FoundPersisted
      <3>. HIDE DEF hit
      <3>2. /\ hit # None /\ seen' = [seen EXCEPT ![r] = hit]
            /\ pc' = [pc EXCEPT ![r] = "markPut"]
            /\ UNCHANGED <<arg, own, store>>
        BY <1>3, <2>2 DEF MarkGet, Goto, hit
      <3>. QED  BY <3>1, <3>2 DEF Provenance, TypeInv, TypeOK, store
    <2>. QED  BY <2>1, <2>2
  <1>4. CASE MarkPut(r)
    <2>1. /\ InGrace(seen[r]) \in Record
          /\ InGrace(seen[r]).core \in persisted[arg[r].id]
      BY <1>4 DEF MarkPut, Provenance, TypeInv, TypeOK, ControlOK, LocalOK, InGrace, Record
    <2>2. \A j \in Ids : cache'[j] # None => cache'[j].rec.core \in persisted[j]
      BY <1>0, <1>4, <2>1, CachePutPersisted DEF MarkPut
    <2>. QED  BY <1>4, <2>2, AnswerProvenance DEF MarkPut, AnswerMarked, Provenance
  <1>5. CASE Respond(r)
    BY <1>5 DEF Respond, Provenance, TypeInv, TypeOK, ControlOK, LocalOK, Goto, store
  <1>. QED  BY <1>1, <1>2, <1>3, <1>4, <1>5

LEMMA ProvenanceBackground ==
    ASSUME TypeInv, Provenance, (\E w \in Workers : FlushLoop(w)) \/ Environment
    PROVE  Provenance'
  <1>0. TypeOK
    BY DEF TypeInv
  <1>1. ASSUME NEW w \in Workers, FlushLoopTake(w)
        PROVE  Provenance'
    BY <1>1 DEF FlushLoopTake, Provenance, store, request
  <1>2. ASSUME NEW w \in Workers, FlushLoopWrite(w)
        PROVE  Provenance'
    <2>1. \A i \in Ids : auth'[i] # None => auth[i] # None /\ auth'[i].rec.core = auth[i].rec.core
      BY <1>0, <1>2, BulkKeepsCore DEF FlushLoopWrite, Flushers
    <2>. QED  BY <1>2, <2>1 DEF FlushLoopWrite, Provenance, request
  <1>3. ASSUME Tick
        PROVE  Provenance'
    BY <1>0, <1>3 DEF Tick, Provenance, TypeOK, batching, request
  <1>4. ASSUME NEW i \in Ids, Purge(i) \/ Evict(i)
        PROVE  Provenance'
    BY <1>0, <1>4 DEF Purge, Evict, Provenance, TypeOK, batching, request
  <1>5. ASSUME NEW w \in Workers, Crash(w)
        PROVE  Provenance'
    BY <1>0, <1>5 DEF Crash, Provenance, TypeOK, store
  <1>. QED  BY <1>1, <1>2, <1>3, <1>4, <1>5 DEF FlushLoop, Environment

LEMMA ProvenanceStep == TypeInv /\ Provenance /\ [Next]_vars => Provenance'
  <1>1. ASSUME Provenance, UNCHANGED vars
        PROVE  Provenance'
    BY <1>1 DEF Provenance, vars
  <1>2. ASSUME TypeInv, Provenance, Next
        PROVE  Provenance'
    BY <1>2, ProvenanceRead, ProvenanceDecide, ProvenanceSave, ProvenanceMark,
       ProvenanceBackground DEF Next, Advance
  <1>. QED  BY <1>1, <1>2

-----------------------------------------------------------------------------
(* Fail closed: every answer follows from what the authority has stored *)

PersistedGrows == \A i \in Ids : persisted[i] \subseteq persisted'[i]

\* An answer once justified stays so: history only grows.
LEMMA JustifiedKept ==
    ASSUME PersistedGrows, NEW a \in Arg, NEW n, Justified(a, n),
           NEW q \in Reqs, arg'[q] = a, ans'[q] = n
    PROVE  Justified(arg[q], ans[q])'
  <1>1. a.id \in Ids
    BY DEF Arg
  <1>. QED  BY <1>1 DEF PersistedGrows, Justified, MaskJustified, DemaskJustified

LEMMA AnswersFrame ==
    ASSUME TypeInv, AnswersJustified, PersistedGrows,
           \A q \in Reqs : ans'[q] # None => ans'[q] = ans[q] /\ arg'[q] = arg[q]
    PROVE  AnswersJustified'
  <1>1. ASSUME NEW q \in Reqs, ans'[q] # None
        PROVE  Justified(arg[q], ans[q])'
    <2>1. ans[q] # None /\ ans'[q] = ans[q] /\ arg'[q] = arg[q]
      BY <1>1
    <2>2. arg[q] \in Arg
      BY <2>1 DEF TypeInv, ControlOK, LocalOK
    <2>. QED  BY <2>1, <2>2, JustifiedKept DEF AnswersJustified
  <1>. QED  BY <1>1 DEF AnswersJustified

LEMMA AnswerStep ==
    ASSUME TypeInv, AnswersJustified, PersistedGrows, NEW r \in Reqs, NEW kind, NEW out,
           arg[r] \in Arg, Answer(r, kind, out),
           Justified(arg[r], [kind |-> kind, out |-> out])
    PROVE  AnswersJustified'
  <1>. DEFINE n == [kind |-> kind, out |-> out]
  <1>0. Justified(arg[r], n)
    OBVIOUS
  <1>. HIDE DEF n
  <1>1. ans' = [ans EXCEPT ![r] = n] /\ arg' = arg
    BY DEF Answer, n
  <1>2. ASSUME NEW q \in Reqs, ans'[q] # None
        PROVE  Justified(arg[q], ans[q])'
    <2>1. CASE q = r
      BY <1>0, <1>1, <2>1, JustifiedKept DEF TypeInv, TypeOK
    <2>2. CASE q # r
      <3>1. ans'[q] = ans[q] /\ arg'[q] = arg[q]
        BY <1>1, <2>2 DEF TypeInv, TypeOK
      <3>2. arg[q] \in Arg
        BY <1>2, <3>1 DEF TypeInv, ControlOK, LocalOK
      <3>. QED  BY <1>2, <3>1, <3>2, JustifiedKept DEF AnswersJustified
    <2>. QED  BY <2>1, <2>2
  <1>. QED  BY <1>2 DEF AnswersJustified

LEMMA GrowsUnchanged == UNCHANGED persisted => PersistedGrows
  BY DEF PersistedGrows

LEMMA GrowsPersist ==
    ASSUME TypeOK, NEW i \in Ids, NEW doc, Persist(i, doc) \/ UNCHANGED persisted
    PROVE  PersistedGrows
  BY DEF PersistedGrows, Persist, TypeOK

\* An error carries no text.
LEMMA ErrorJustified ==
    ASSUME NEW a, NEW kind \in {"503", "403"}
    PROVE  Justified(a, [kind |-> kind, out |-> None])
  BY DEF Justified

\* Reads and their failures answer only a text without PII.
LEMMA AnswersRead ==
    ASSUME TypeInv, AnswersJustified, NEW r \in Reqs,
           Submit(r) \/ GetCache(r) \/ GetAuth(r) \/ GetAuthFails(r) \/ Backfill(r)
    PROVE  AnswersJustified'
  <1>0. PersistedGrows
    BY GrowsUnchanged DEF Submit, GetCache, GetAuth, GetAuthFails, Backfill, store
  <1>1. CASE Submit(r)
    <2>1. PICK i \in Ids, x \in Payloads, c \in Consumers :
              /\ arg' = [arg EXCEPT ![r] = [id |-> i, payload |-> x, con |-> c]]
              /\ \/ ans' = [ans EXCEPT ![r] = None]
                 \/ ans' = [ans EXCEPT ![r] = [kind |-> "403", out |-> None]]
      BY <1>1, ConstantsAssumption DEF Submit
    <2>2. ASSUME NEW q \in Reqs, ans'[q] # None
          PROVE  Justified(arg[q], ans[q])'
      <3>1. CASE q = r
        BY <2>1, <2>2, <3>1 DEF Justified, TypeInv, TypeOK
      <3>2. CASE q # r
        <4>1. ans'[q] = ans[q] /\ arg'[q] = arg[q]
          BY <2>1, <3>2 DEF TypeInv, TypeOK
        <4>2. arg[q] \in Arg
          BY <2>2, <4>1 DEF TypeInv, ControlOK, LocalOK
        <4>. QED  BY <1>0, <2>2, <4>1, <4>2, JustifiedKept DEF AnswersJustified
      <3>. QED  BY <3>1, <3>2
    <2>. QED  BY <2>2 DEF AnswersJustified
  <1>2. CASE GetCache(r) \/ GetAuth(r) \/ Backfill(r)
    BY <1>0, <1>2, AnswersFrame DEF GetCache, GetAuth, Backfill
  <1>3. CASE GetAuthFails(r)
    <2>1. arg[r] \in Arg
      BY <1>3 DEF GetAuthFails, TypeInv, ControlOK, LocalOK
    <2>2. CASE Answer(r, "503", None)
      BY <1>0, <2>1, <2>2, AnswerStep, ErrorJustified
    <2>3. CASE ~HasPii(arg[r].payload, arg[r].con) /\ Answer(r, "MASK", arg[r].payload)
      <3>1. Justified(arg[r], [kind |-> "MASK", out |-> arg[r].payload])
        BY <2>3 DEF Justified, MaskJustified
      <3>. QED  BY <1>0, <2>1, <2>3, <3>1, AnswerStep
    <2>. QED  BY <1>3, <2>2, <2>3 DEF GetAuthFails, AnswerWithoutStorage
  <1>. QED  BY <1>1, <1>2, <1>3

\* The record a request decides on was stored for its id.
LEMMA AnswersDecide ==
    ASSUME TypeInv, Provenance, AnswersJustified, NEW r \in Reqs,
           \/ FirstRequest(r) \/ RetryMask(r) \/ DemaskDisabled(r) \/ Demask(r)
           \/ VerifyWinner(r)
    PROVE  AnswersJustified'
  <1>0. PersistedGrows
    BY GrowsUnchanged DEF FirstRequest, RetryMask, DemaskDisabled, Demask, VerifyWinner, store
  <1>a. arg[r] \in Arg
    BY DEF FirstRequest, RetryMask, DemaskDisabled, Demask, VerifyWinner, TypeInv,
           ControlOK, LocalOK
  <1>b. seen[r] # None => seen[r].core \in persisted[arg[r].id]
    BY DEF Provenance
  <1>c. ASSUME seen[r] # None, arg[r].payload = seen[r].core.orig
        PROVE  Justified(arg[r], [kind |-> "RETRY_MASK", out |-> Transformed(arg[r].id, seen[r])])
    BY <1>b, <1>c DEF Justified, MaskJustified, Transformed
  <1>1. CASE FirstRequest(r)
    BY <1>0, <1>1, AnswersFrame DEF FirstRequest
  <1>2. CASE RetryMask(r)
    BY <1>0, <1>a, <1>c, <1>2, AnswerStep DEF RetryMask
  <1>3. CASE DemaskDisabled(r)
    <2>1. Justified(arg[r], [kind |-> "DEMASK", out |-> arg[r].payload])
      BY <1>b, <1>3 DEF DemaskDisabled, Justified, DemaskJustified
    <2>. QED  BY <1>0, <1>a, <1>3, <2>1, AnswerStep DEF DemaskDisabled
  <1>4. CASE Demask(r)
    <2>. DEFINE n == [kind |-> "DEMASK", out |-> DemaskResult(arg[r], seen[r])]
    <2>1. Justified(arg[r], n)
      BY <1>b, <1>4 DEF Demask, Justified, DemaskJustified, DemaskResult, Transformed
    <2>2. CASE Answer(r, "DEMASK", DemaskResult(arg[r], seen[r]))
      BY <1>0, <1>a, <2>1, <2>2, AnswerStep
    <2>3. CASE ans' = [ans EXCEPT ![r] = n] /\ UNCHANGED arg
      <3>. HIDE DEF n
      <3>1. ASSUME NEW q \in Reqs, ans'[q] # None
            PROVE  Justified(arg[q], ans[q])'
        <4>1. CASE q = r
          BY <1>0, <1>a, <2>1, <2>3, <4>1, JustifiedKept DEF TypeInv, TypeOK
        <4>2. CASE q # r
          <5>1. ans'[q] = ans[q] /\ arg'[q] = arg[q]
            BY <2>3, <4>2 DEF TypeInv, TypeOK
          <5>2. arg[q] \in Arg
            BY <3>1, <5>1 DEF TypeInv, ControlOK, LocalOK
          <5>. QED  BY <1>0, <3>1, <5>1, <5>2, JustifiedKept DEF AnswersJustified
        <4>. QED  BY <4>1, <4>2
      <3>. QED  BY <3>1 DEF AnswersJustified
    <2>. QED  BY <1>4, <2>2, <2>3 DEF Demask
  <1>5. CASE VerifyWinner(r)
    <2>1. CASE Answer(r, "503", None)
      BY <1>0, <1>a, <2>1, AnswerStep, ErrorJustified
    <2>2. CASE seen[r] # None /\ seen[r].core.orig # arg[r].payload /\ Answer(r, "409", None)
      <3>1. Justified(arg[r], [kind |-> "409", out |-> None])
        BY <1>b, <2>2 DEF Justified
      <3>. QED  BY <1>0, <1>a, <2>2, <3>1, AnswerStep
    <2>3. CASE /\ seen[r] # None /\ seen[r].core.orig = arg[r].payload
               /\ Answer(r, "RETRY_MASK", Transformed(arg[r].id, seen[r]))
      BY <1>0, <1>a, <1>c, <2>3, AnswerStep
    <2>. QED  BY <1>5, <2>1, <2>2, <2>3 DEF VerifyWinner
  <1>. QED  BY <1>1, <1>2, <1>3, <1>4, <1>5

\* The creator answers from its own record, which the authority has stored; a failed
\* save answers only a text without PII.
LEMMA AnswersSave ==
    ASSUME TypeInv, Provenance, AnswersJustified, NEW r \in Reqs,
           \/ Insert(r) \/ InsertDuplicate(r) \/ InsertFails(r)
           \/ Reclaim(r) \/ ReclaimLost(r) \/ ReclaimFails(r) \/ CacheSave(r)
    PROVE  AnswersJustified'
  <1>0. /\ arg[r] \in Arg /\ arg[r].id \in Ids /\ own[r] # None
        /\ TypeOK
    BY DEF Insert, InsertDuplicate, InsertFails, Reclaim, ReclaimLost, ReclaimFails,
           CacheSave, TypeInv, ControlOK, LocalOK, Arg
  <1>a. PersistedGrows
    BY <1>0, GrowsPersist
       DEF Insert, InsertDuplicate, InsertFails, Reclaim, ReclaimLost, ReclaimFails,
           CacheSave, store
  <1>1. CASE Insert(r) \/ Reclaim(r) \/ InsertDuplicate(r) \/ ReclaimLost(r)
    BY <1>a, <1>1, AnswersFrame DEF Insert, Reclaim, InsertDuplicate, ReclaimLost
  <1>2. CASE InsertFails(r) \/ ReclaimFails(r)
    <2>1. CASE Answer(r, "503", None)
      BY <1>0, <1>a, <2>1, AnswerStep, ErrorJustified
    <2>2. CASE /\ ~HasPii(arg[r].payload, arg[r].con)
               /\ Answer(r, "MASK", Pipeline(arg[r].id, arg[r].payload, arg[r].con))
      <3>1. Pipeline(arg[r].id, arg[r].payload, arg[r].con) = arg[r].payload
        BY <1>0, <2>2, PipelineAssumption DEF Arg
      <3>2. Justified(arg[r], [kind |-> "MASK", out |-> arg[r].payload])
        BY <2>2 DEF Justified, MaskJustified
      <3>. QED  BY <1>0, <1>a, <2>2, <3>1, <3>2, AnswerStep
    <2>. QED  BY <1>2, <2>1, <2>2 DEF InsertFails, ReclaimFails, SaveFailed
  <1>3. CASE CacheSave(r)
    <2>1. /\ own[r].rec.core \in persisted[arg[r].id]
          /\ own[r].rec.core.orig = arg[r].payload
          /\ own[r].rec.core.con = arg[r].con
      BY <1>0, <1>3 DEF CacheSave, Provenance
    <2>2. Justified(arg[r], [kind |-> "MASK",
                             out |-> Pipeline(arg[r].id, arg[r].payload, arg[r].con)])
      BY <2>1 DEF Justified, MaskJustified
    <2>. QED  BY <1>0, <1>a, <1>3, <2>2, AnswerStep DEF CacheSave
  <1>. QED  BY <1>1, <1>2, <1>3

LEMMA AnswersMark ==
    ASSUME TypeInv, AnswersJustified, NEW r \in Reqs,
           \/ Enqueue(r) \/ EnqueueRefused(r) \/ RequestTake(r) \/ RequestFlush(r)
           \/ MarkGet(r) \/ MarkPut(r) \/ Respond(r)
    PROVE  AnswersJustified'
  <1>0. PersistedGrows
    BY GrowsUnchanged
       DEF Enqueue, EnqueueRefused, RequestTake, RequestFlush, MarkGet, MarkPut, Respond, store
  <1>1. CASE Enqueue(r) \/ EnqueueRefused(r) \/ RequestTake(r) \/ RequestFlush(r)
    BY <1>0, <1>1, AnswersFrame DEF Enqueue, EnqueueRefused, RequestTake, RequestFlush
  <1>2. CASE (MarkGet(r) \/ MarkPut(r)) /\ AnswerMarked(r)
    <2>1. ans[r] \in Answers /\ arg[r] \in Arg
      BY <1>2 DEF MarkGet, MarkPut, TypeInv, TypeOK, ControlOK, LocalOK
    <2>2. ans' = [ans EXCEPT ![r] = ans[r]] /\ arg' = arg
      BY <1>2, <2>1 DEF AnswerMarked, Answer, Answers
    <2>. QED  BY <1>0, <2>2, AnswersFrame DEF TypeInv, TypeOK
  <1>3. CASE MarkGet(r) /\ ~AnswerMarked(r)
    BY <1>0, <1>3, AnswersFrame DEF MarkGet
  <1>4. CASE Respond(r)
    BY <1>0, <1>4, AnswersFrame DEF Respond, TypeInv, TypeOK
  <1>. QED  BY <1>1, <1>2, <1>3, <1>4 DEF MarkPut

LEMMA AnswersBackground ==
    ASSUME TypeInv, AnswersJustified, (\E w \in Workers : FlushLoop(w)) \/ Environment
    PROVE  AnswersJustified'
  <1>1. PersistedGrows
    BY GrowsUnchanged
       DEF FlushLoop, FlushLoopTake, FlushLoopWrite, Environment, Tick, Purge, Evict, Crash, store
  <1>2. \A q \in Reqs : ans'[q] # None => ans'[q] = ans[q] /\ arg'[q] = arg[q]
    BY DEF FlushLoop, FlushLoopTake, FlushLoopWrite, Environment, Tick, Purge, Evict, Crash,
           request
  <1>. QED  BY <1>1, <1>2, AnswersFrame

LEMMA AnswersStep == TypeInv /\ Provenance /\ AnswersJustified /\ [Next]_vars => AnswersJustified'
  <1>1. ASSUME TypeInv, AnswersJustified, UNCHANGED vars
        PROVE  AnswersJustified'
    BY <1>1 DEF AnswersJustified, Justified, MaskJustified, DemaskJustified, vars
  <1>2. ASSUME TypeInv, Provenance, AnswersJustified, Next
        PROVE  AnswersJustified'
    BY <1>2, AnswersRead, AnswersDecide, AnswersSave, AnswersMark, AnswersBackground
       DEF Next, Advance
  <1>. QED  BY <1>1, <1>2

\* Fail closed: under any interleaving of requests, failed and half-failed calls,
\* crashes and expiries, no answer of ProcessService.process is based on anything
\* but a mapping the authority has stored for its payload_id, except for a text
\* without PII, which comes back unchanged.
THEOREM FailClosed == Spec => []AnswersJustified
  <1>1. Init => Provenance /\ AnswersJustified
    BY DEF Init, Provenance, AnswersJustified
  <1>. QED  BY <1>1, TypeInit, TypeStep, ProvenanceStep, AnswersStep, PTL DEF Spec

-----------------------------------------------------------------------------
(***************************************************************************)
(* How long the authority keeps a mapping, and that it implements the      *)
(* abstract lifecycle.                                                     *)
(***************************************************************************)

\* A document outlives its ttl or the grace window of its id, whichever ends first.
AuthLease ==
    \A i \in Ids : auth[i] # None =>
        \/ auth[i].exp >= auth[i].rec.core.born + TTL
        \/ graceEnd[i] # None /\ auth[i].exp >= graceEnd[i]

\* A document about to be stored carries the lease of the moment it was built.
OwnLease ==
    \A r \in Reqs : own[r] # None =>
        /\ own[r].exp = own[r].rec.core.born + TTL
        /\ own[r].exp <= clock + TTL
        /\ own[r].rec.state = "ACTIVE"

\* Whatever waits to be flushed was demasked, and its stamp is no earlier than the
\* first demask of the id.
PendingLease ==
    /\ \A w \in Workers : \A i \in pending[w] :
          graceEnd[i] # None /\ graceEnd[i] <= clock + Grace
    /\ \A f \in Flushers : batch[f] # None =>
          /\ batch[f].exp <= clock + Grace
          /\ \A i \in batch[f].ids : graceEnd[i] # None /\ graceEnd[i] <= batch[f].exp

\* The grace window of an id started at some demask in the past.
GraceFirst == \A i \in Ids : graceEnd[i] # None => graceEnd[i] <= clock + Grace

Over(i, k) == clock >= k.born + TTL \/ (graceEnd[i] # None /\ clock >= graceEnd[i])

\* A stored mapping is replaced or purged only once its time is over.
Kept == \A i \in Ids : \A k \in persisted[i] : Holds(i, k) \/ Over(i, k)

LeaseInv == AuthLease /\ OwnLease /\ PendingLease /\ GraceFirst /\ Kept

LEMMA LeaseInit == Init => LeaseInv
  BY DEF Init, LeaseInv, AuthLease, OwnLease, PendingLease, GraceFirst, Kept

LEMMA LeaseDurable == TypeInv /\ LeaseInv => Durable
  BY ConstantsAssumption
     DEF TypeInv, TypeOK, LeaseInv, AuthLease, Kept, Durable, Holds, Over, Doc, Record, Core

\* Steps that touch no document, batch or clock: at most own changes.
LEMMA LeaseFrame ==
    ASSUME TypeInv, LeaseInv, UNCHANGED <<clock, auth, persisted, pending, batch, graceEnd>>,
           \A q \in Reqs : own'[q] # None =>
               \/ own'[q] = own[q]
               \/ /\ own'[q].exp = own'[q].rec.core.born + TTL
                  /\ own'[q].exp <= clock + TTL
                  /\ own'[q].rec.state = "ACTIVE"
    PROVE  LeaseInv'
  BY DEF LeaseInv, AuthLease, OwnLease, PendingLease, GraceFirst, Kept, Holds, Over

LEMMA AnswerFrame ==
    ASSUME TypeInv, NEW r \in Reqs, NEW kind, NEW out, Answer(r, kind, out)
    PROVE  \A q \in Reqs : own'[q] # None => own'[q] = own[q]
  BY DEF Answer, TypeInv, TypeOK

LEMMA LeaseQuiet ==
    ASSUME TypeInv, LeaseInv, NEW r \in Reqs,
           \/ Submit(r) \/ GetCache(r) \/ GetAuth(r) \/ GetAuthFails(r) \/ Backfill(r)
           \/ FirstRequest(r) \/ RetryMask(r) \/ DemaskDisabled(r) \/ Demask(r)
           \/ VerifyWinner(r) \/ InsertDuplicate(r) \/ ReclaimLost(r) \/ CacheSave(r)
           \/ EnqueueRefused(r) \/ MarkGet(r) \/ MarkPut(r) \/ Respond(r)
    PROVE  LeaseInv'
  <1>1. UNCHANGED <<clock, auth, persisted, pending, batch, graceEnd>>
    BY DEF Submit, GetCache, GetAuth, GetAuthFails, Backfill, FirstRequest, RetryMask,
           DemaskDisabled, Demask, VerifyWinner, InsertDuplicate, ReclaimLost, CacheSave,
           EnqueueRefused, MarkGet, MarkPut, Respond, store, batching
  <1>2. CASE FirstRequest(r)
    <2>. DEFINE doc == [rec |-> BuildRecord(arg[r].payload, arg[r].con), exp |-> clock + TTL]
    <2>1. /\ doc.exp = doc.rec.core.born + TTL
          /\ doc.exp <= clock + TTL
          /\ doc.rec.state = "ACTIVE"
      BY ConstantsAssumption DEF BuildRecord, TypeInv, TypeOK
    <2>. HIDE DEF doc
    <2>2. own' = [own EXCEPT ![r] = doc]
      BY <1>2 DEF FirstRequest, doc
    <2>. QED  BY <1>1, <2>1, <2>2, LeaseFrame DEF TypeInv, TypeOK
  <1>3. CASE UNCHANGED own
    BY <1>1, <1>3, LeaseFrame
  <1>4. CASE \E kind, out : Answer(r, kind, out)
    BY <1>1, <1>4, AnswerFrame, LeaseFrame
  <1>. QED  BY <1>2, <1>3, <1>4
       DEF Submit, GetCache, GetAuth, GetAuthFails, AnswerWithoutStorage, Backfill, RetryMask,
           DemaskDisabled, Demask, VerifyWinner, InsertDuplicate, ReclaimLost, CacheSave,
           EnqueueRefused, MarkGet, MarkPut, AnswerMarked, Respond

\* Only a free or expired document is overwritten.
LEMMA LeaseSave ==
    ASSUME TypeInv, LeaseInv, NEW r \in Reqs,
           Insert(r) \/ InsertFails(r) \/ Reclaim(r) \/ ReclaimFails(r)
    PROVE  LeaseInv'
  <1>. DEFINE i == arg[r].id
  <1>0. /\ i \in Ids /\ own[r] \in Doc /\ own[r] # None
        /\ UNCHANGED <<clock, pending, batch, graceEnd>>
        /\ \A q \in Reqs : own'[q] # None => own'[q] = own[q]
    BY AnswerFrame
       DEF Insert, InsertFails, Reclaim, ReclaimFails, SaveFailed, TypeInv, TypeOK, ControlOK,
           LocalOK, Arg, batching
  <1>1. CASE UNCHANGED <<auth, persisted>>
    BY <1>0, <1>1, LeaseFrame
  <1>2. CASE Persist(i, own[r]) /\ (auth[i] = None \/ auth[i].exp <= clock)
    <2>1. auth' = [auth EXCEPT ![i] = own[r]]
          /\ persisted' = [persisted EXCEPT ![i] = @ \cup {own[r].rec.core}]
      BY <1>2 DEF Persist
    <2>2. own[r].exp = own[r].rec.core.born + TTL
      BY <1>0 DEF LeaseInv, OwnLease
    <2>3. AuthLease'
      BY <1>0, <2>1, <2>2, ConstantsAssumption
         DEF LeaseInv, AuthLease, TypeInv, TypeOK, Doc, Record, Core
    <2>4. OwnLease' /\ PendingLease' /\ GraceFirst'
      BY <1>0 DEF LeaseInv, OwnLease, PendingLease, GraceFirst
    <2>5. ASSUME NEW k \in persisted[i]
          PROVE  Over(i, k)
      <3>1. CASE Holds(i, k)
        BY <1>0, <1>2, <3>1, ConstantsAssumption
           DEF LeaseInv, AuthLease, Holds, Over, TypeInv, TypeOK, Doc, Record, Core
      <3>2. CASE ~Holds(i, k)
        BY <1>0, <3>2 DEF LeaseInv, Kept
      <3>. QED  BY <3>1, <3>2
    <2>6. Kept'
      <3>1. ASSUME NEW j \in Ids, NEW k \in persisted'[j]
            PROVE  (Holds(j, k) \/ Over(j, k))'
        <4>1. CASE j = i
          BY <1>0, <2>1, <2>5, <4>1, <3>1, NoneAssumption DEF Holds, Over, TypeInv, TypeOK
        <4>2. CASE j # i
          BY <1>0, <2>1, <4>2, <3>1 DEF Holds, Over, LeaseInv, Kept, TypeInv, TypeOK
        <4>. QED  BY <4>1, <4>2
      <3>. QED  BY <3>1 DEF Kept
    <2>. QED  BY <2>3, <2>4, <2>6 DEF LeaseInv
  <1>. QED  BY <1>1, <1>2 DEF Insert, InsertFails, Reclaim, ReclaimFails, Expired

\* The first demask of an id starts its grace window.
LEMMA LeaseEnqueue ==
    ASSUME TypeInv, LeaseInv, NEW r \in Reqs, Enqueue(r)
    PROVE  LeaseInv'
  <1>. DEFINE i == arg[r].id
              w == WorkerOf[r]
  <1>0. i \in Ids /\ w \in Workers /\ UNCHANGED <<clock, auth, persisted, batch, own>>
    BY ConstantsAssumption DEF Enqueue, TypeInv, ControlOK, LocalOK, Arg, store
  <1>1. /\ pending' = [pending EXCEPT ![w] = @ \cup {i}]
        /\ graceEnd' = [graceEnd EXCEPT ![i] = IF @ = None THEN clock + Grace ELSE @]
    BY DEF Enqueue
  <1>. HIDE DEF i, w
  <1>2. \A j \in Ids : /\ graceEnd[j] # None => graceEnd'[j] = graceEnd[j]
                       /\ graceEnd'[j] # None => graceEnd'[j] \in Nat
    BY <1>0, <1>1, ConstantsAssumption DEF TypeInv, TypeOK
  <1>3. graceEnd[i] = None => graceEnd'[i] = clock + Grace
    BY <1>0, <1>1 DEF TypeInv, TypeOK
  <1>4. graceEnd'[i] # None
    BY <1>0, <1>2, <1>3, NoneAssumption, ConstantsAssumption DEF TypeInv, TypeOK
  <1>5. AuthLease' /\ OwnLease'
    BY <1>0, <1>2 DEF LeaseInv, AuthLease, OwnLease
  <1>6. PendingLease'
    <2>1. ASSUME NEW v \in Workers, NEW j \in pending'[v]
          PROVE  graceEnd'[j] # None /\ graceEnd'[j] <= clock' + Grace
      <3>1. CASE j \in pending[v]
        BY <1>0, <1>2, <3>1 DEF LeaseInv, PendingLease, TypeInv, TypeOK
      <3>2. CASE j = i /\ graceEnd[i] = None
        BY <1>0, <1>3, <1>4, <3>2, ConstantsAssumption DEF TypeInv, TypeOK
      <3>3. CASE j = i /\ graceEnd[i] # None
        BY <1>0, <1>2, <3>3 DEF LeaseInv, GraceFirst
      <3>. QED  BY <1>0, <1>1, <3>1, <3>2, <3>3 DEF TypeInv, TypeOK
    <2>2. \A f \in Flushers : batch[f] # None => \A j \in batch[f].ids : j \in Ids
      BY DEF TypeInv, TypeOK, Batch
    <2>. QED  BY <1>0, <1>2, <2>1, <2>2 DEF LeaseInv, PendingLease
  <1>7. GraceFirst'
    BY <1>0, <1>1, <1>2, <1>3, ConstantsAssumption DEF LeaseInv, GraceFirst, TypeInv, TypeOK
  <1>8. Kept'
    BY <1>0, <1>2 DEF LeaseInv, Kept, Holds, Over
  <1>. QED  BY <1>5, <1>6, <1>7, <1>8 DEF LeaseInv

LEMMA LeaseSwap ==
    ASSUME TypeInv, LeaseInv, NEW f \in Flushers, NEW w \in Workers, SwapPending(f, w),
           UNCHANGED <<clock, auth, persisted, graceEnd, own>>
    PROVE  LeaseInv'
  <1>1. PendingLease'
    <2>1. \A v \in Workers : pending'[v] \subseteq pending[v]
      BY DEF SwapPending, TypeInv, TypeOK
    <2>2. \A g \in Flushers : batch'[g] = batch[g]
                              \/ batch'[g] = [ids |-> pending[w], exp |-> clock + Grace]
      BY DEF SwapPending, TypeInv, TypeOK
    <2>3. clock + Grace <= clock + Grace
      BY ConstantsAssumption DEF TypeInv, TypeOK
    <2>. QED  BY <2>1, <2>2, <2>3 DEF LeaseInv, PendingLease
  <1>. QED  BY <1>1 DEF LeaseInv, AuthLease, OwnLease, GraceFirst, Kept, Holds, Over

\* A bulk write extends or shortens leases, but never below the grace window.
LEMMA LeaseBulk ==
    ASSUME TypeInv, LeaseInv, NEW f \in Flushers, BulkWrite(f),
           UNCHANGED <<clock, persisted, pending, graceEnd, own>>
    PROVE  LeaseInv'
  <1>0. TypeOK
    BY DEF TypeInv
  <1>1. PICK applied \in SUBSET batch[f].ids :
            auth' = [i \in Ids |->
                        IF i \in applied /\ auth[i] # None
                        THEN [rec |-> InGrace(auth[i].rec), exp |-> batch[f].exp]
                        ELSE auth[i]]
    BY DEF BulkWrite
  <1>2. AuthLease'
    <2>1. ASSUME NEW i \in Ids, auth'[i] # None
          PROVE  \/ auth'[i].exp >= auth'[i].rec.core.born + TTL
                 \/ graceEnd'[i] # None /\ auth'[i].exp >= graceEnd'[i]
      <3>1. CASE i \in applied /\ auth[i] # None
        <4>1. auth'[i].exp = batch[f].exp
          BY <1>1, <3>1
        <4>2. graceEnd[i] # None /\ graceEnd[i] <= batch[f].exp
          BY <3>1 DEF BulkWrite, LeaseInv, PendingLease
        <4>3. batch[f].exp \in Nat /\ graceEnd[i] \in Nat
          BY <1>0, <4>2 DEF BulkWrite, TypeOK, Batch
        <4>. QED  BY <4>1, <4>2, <4>3
      <3>2. CASE ~(i \in applied /\ auth[i] # None)
        BY <1>1, <2>1, <3>2 DEF LeaseInv, AuthLease
      <3>. QED  BY <3>1, <3>2
    <2>. QED  BY <2>1 DEF AuthLease
  <1>3. PendingLease'
    <2>1. \A g \in Flushers : batch'[g] # None => batch'[g] = batch[g]
      BY <1>0 DEF BulkWrite, TypeOK
    <2>. QED  BY <2>1 DEF LeaseInv, PendingLease
  <1>4. Kept'
    <2>1. \A i \in Ids : auth[i] # None =>
              auth'[i] # None /\ auth'[i].rec.core = auth[i].rec.core
      BY <1>0, BulkKeepsCore
    <2>. QED  BY <2>1 DEF LeaseInv, Kept, Holds, Over
  <1>. QED  BY <1>2, <1>3, <1>4 DEF LeaseInv, OwnLease, GraceFirst

LEMMA LeaseFlush ==
    ASSUME TypeInv, LeaseInv,
           \/ \E r \in Reqs : RequestTake(r) \/ RequestFlush(r)
           \/ \E w \in Workers : FlushLoop(w)
    PROVE  LeaseInv'
  <1>1. ASSUME NEW r \in Reqs, RequestTake(r)
        PROVE  LeaseInv'
    <2>1. /\ r \in Flushers /\ WorkerOf[r] \in Workers
          /\ UNCHANGED <<clock, auth, persisted, graceEnd, own>>
      BY <1>1, ConstantsAssumption DEF RequestTake, Flushers, store
    <2>2. CASE SwapPending(r, WorkerOf[r])
      BY <2>1, <2>2, LeaseSwap
    <2>3. CASE UNCHANGED <<pending, batch>>
      BY <2>1, <2>3, LeaseFrame
    <2>. QED  BY <1>1, <2>2, <2>3 DEF RequestTake
  <1>2. ASSUME NEW r \in Reqs, RequestFlush(r)
        PROVE  LeaseInv'
    BY <1>2, LeaseBulk DEF RequestFlush, Flushers
  <1>3. ASSUME NEW w \in Workers, FlushLoop(w)
        PROVE  LeaseInv'
    <2>1. w \in Flushers
      BY DEF Flushers
    <2>2. CASE FlushLoopTake(w)
      BY <2>1, <2>2, LeaseSwap DEF FlushLoopTake, store, request
    <2>3. CASE FlushLoopWrite(w)
      BY <2>1, <2>3, LeaseBulk DEF FlushLoopWrite, request
    <2>. QED  BY <1>3, <2>2, <2>3 DEF FlushLoop
  <1>. QED  BY <1>1, <1>2, <1>3

LEMMA LeaseEnvironment ==
    ASSUME TypeInv, LeaseInv, Environment
    PROVE  LeaseInv'
  <1>1. CASE Tick
    <2>1. /\ clock \in Nat /\ clock' = clock + 1
          /\ UNCHANGED <<auth, persisted, pending, batch, graceEnd, own>>
      BY <1>1 DEF Tick, batching, request, TypeInv, TypeOK
    <2>2. PendingLease'
      <3>1. \A f \in Flushers : batch[f] # None => batch[f].exp \in Nat
        BY DEF TypeInv, TypeOK, Batch
      <3>2. \A w \in Workers : \A i \in pending[w] : graceEnd[i] \in Nat \cup {None}
        BY DEF TypeInv, TypeOK
      <3>. QED  BY <2>1, <3>1, <3>2, ConstantsAssumption DEF LeaseInv, PendingLease
    <2>3. OwnLease' /\ GraceFirst'
      BY <2>1, ConstantsAssumption
         DEF LeaseInv, OwnLease, GraceFirst, TypeInv, TypeOK, Doc
    <2>4. AuthLease'
      BY <2>1 DEF LeaseInv, AuthLease
    <2>5. Kept'
      BY <2>1, ConstantsAssumption DEF LeaseInv, Kept, Holds, Over, TypeInv, TypeOK, Core
    <2>. QED  BY <2>2, <2>3, <2>4, <2>5 DEF LeaseInv
  <1>2. ASSUME NEW i \in Ids, Purge(i)
        PROVE  LeaseInv'
    <2>1. /\ auth[i] # None /\ auth[i].exp <= clock /\ auth' = [auth EXCEPT ![i] = None]
          /\ UNCHANGED <<clock, persisted, pending, batch, graceEnd, own>>
      BY <1>2 DEF Purge, Expired, batching, request
    <2>2. \A k \in persisted[i] : Over(i, k)
      BY <2>1, ConstantsAssumption
         DEF LeaseInv, AuthLease, Kept, Holds, Over, TypeInv, TypeOK, Doc, Record, Core
    <2>3. AuthLease'
      BY <2>1 DEF LeaseInv, AuthLease, TypeInv, TypeOK
    <2>4. Kept'
      BY <2>1, <2>2 DEF LeaseInv, Kept, Holds, Over, TypeInv, TypeOK
    <2>. QED  BY <2>1, <2>3, <2>4 DEF LeaseInv, OwnLease, PendingLease, GraceFirst
  <1>3. ASSUME NEW i \in Ids, Evict(i)
        PROVE  LeaseInv'
    BY <1>3, LeaseFrame DEF Evict, batching, request
  <1>4. ASSUME NEW w \in Workers, Crash(w)
        PROVE  LeaseInv'
    <2>1. /\ UNCHANGED <<clock, auth, persisted, graceEnd>>
          /\ \A v \in Workers : pending'[v] \subseteq pending[v]
          /\ \A f \in Flushers : batch'[f] # None => batch'[f] = batch[f]
          /\ \A r \in Reqs : own'[r] # None => own'[r] = own[r]
      BY <1>4 DEF Crash, store, TypeInv, TypeOK
    <2>. QED  BY <2>1
         DEF LeaseInv, AuthLease, OwnLease, PendingLease, GraceFirst, Kept, Holds, Over
  <1>. QED  BY <1>1, <1>2, <1>3, <1>4 DEF Environment

LEMMA LeaseStep == TypeInv /\ LeaseInv /\ [Next]_vars => LeaseInv'
  <1>1. ASSUME TypeInv, LeaseInv, UNCHANGED vars
        PROVE  LeaseInv'
    BY <1>1, LeaseFrame DEF vars
  <1>2. ASSUME TypeInv, LeaseInv, Next
        PROVE  LeaseInv'
    BY <1>2, LeaseQuiet, LeaseSave, LeaseEnqueue, LeaseFlush, LeaseEnvironment DEF Next, Advance
  <1>. QED  BY <1>1, <1>2

\* A masked text can be demasked later: the authority holds every mapping it has
\* stored, unchanged, until its ttl or the grace window of its id is over.
THEOREM MappingsDurable == Spec => []Durable
  BY TypeInit, TypeStep, LeaseInit, LeaseStep, LeaseDurable, PTL DEF Spec

-----------------------------------------------------------------------------
(* The abstract lifecycle *)

slots == [i \in Ids |-> Slot(auth[i])]

LEMMA SlotType ==
    ASSUME NEW d \in Doc
    PROVE  /\ Slot(d) = [core |-> d.rec.core, state |-> d.rec.state, exp |-> d.exp]
           /\ Slot(d) \in Lifecycle!Mapping
  BY NoneAssumption DEF Slot, Doc, Record, Lifecycle!Mapping

\* Storing over a free or expired document is the abstract Store.
LEMMA RefineSave ==
    ASSUME TypeInv, LeaseInv, NEW r \in Reqs,
           Insert(r) \/ InsertFails(r) \/ Reclaim(r) \/ ReclaimFails(r)
    PROVE  UNCHANGED <<clock, slots>> \/ \E i \in Ids : Lifecycle!Store(i)
  <1>. DEFINE i == arg[r].id
  <1>0. i \in Ids /\ own[r] \in Doc /\ own[r] # None /\ UNCHANGED clock
    BY DEF Insert, InsertFails, Reclaim, ReclaimFails, TypeInv, TypeOK, ControlOK, LocalOK, Arg
  <1>. HIDE DEF i
  <1>1. CASE UNCHANGED <<auth, persisted>>
    BY <1>0, <1>1 DEF slots, Slot
  <1>2. CASE Persist(i, own[r]) /\ (auth[i] = None \/ auth[i].exp <= clock)
    <2>1. auth' = [auth EXCEPT ![i] = own[r]]
      BY <1>2 DEF Persist
    <2>2. slots'[i] = Slot(own[r])
      BY <1>0, <2>1 DEF slots, Slot, TypeInv, TypeOK
    <2>3. slots' = [slots EXCEPT ![i] = slots'[i]]
      BY <1>0, <2>1 DEF slots, Slot, TypeInv, TypeOK
    <2>4. slots'[i] \in Lifecycle!Mapping
      BY <1>0, <2>2, SlotType
    <2>5. slots'[i].state = "ACTIVE" /\ slots'[i].exp <= clock + TTL
      BY <1>0, <2>2, SlotType DEF LeaseInv, OwnLease
    <2>6. Lifecycle!Dead(i)
      BY <1>0, <1>2, SlotType DEF Lifecycle!Dead, Slot, TypeInv, TypeOK
    <2>. QED  BY <1>0, <2>3, <2>4, <2>5, <2>6 DEF Lifecycle!Store, slots
  <1>. QED  BY <1>1, <1>2 DEF Insert, InsertFails, Reclaim, ReclaimFails, Expired, i

\* A bulk write is the abstract EnterGrace of the documents it reached.
LEMMA RefineBulk ==
    ASSUME TypeInv, LeaseInv, NEW f \in Flushers, BulkWrite(f), UNCHANGED clock
    PROVE  \E moved \in SUBSET Ids : Lifecycle!EnterGrace(moved)
  <1>1. PICK applied \in SUBSET batch[f].ids :
            auth' = [i \in Ids |->
                        IF i \in applied /\ auth[i] # None
                        THEN [rec |-> InGrace(auth[i].rec), exp |-> batch[f].exp]
                        ELSE auth[i]]
    BY DEF BulkWrite
  <1>. DEFINE moved == {i \in Ids : i \in applied /\ auth[i] # None}
              e == batch[f].exp
  <1>2. e \in Nat /\ e <= clock + Grace
    BY DEF BulkWrite, TypeInv, TypeOK, Batch, LeaseInv, PendingLease
  <1>3. e \in 0..(clock + Grace)
    BY <1>2, ConstantsAssumption DEF TypeInv, TypeOK
  <1>4. \A i \in moved : slots[i] # None
    <2>1. ASSUME NEW i \in moved
          PROVE  slots[i] # None
      <3>1. auth[i] \in Doc /\ slots[i] = Slot(auth[i])
        BY DEF TypeInv, TypeOK, slots
      <3>2. Slot(auth[i]) \in Lifecycle!Mapping
        BY <3>1, SlotType
      <3>3. Slot(auth[i]) # None
        BY <3>2, NoneAssumption DEF Lifecycle!Mapping
      <3>. QED  BY <3>1, <3>3
    <2>. QED  BY <2>1
  <1>5. ASSUME NEW i \in Ids
        PROVE  slots'[i] = IF i \in moved
                           THEN [core |-> slots[i].core, state |-> "DEMASKED_GRACE", exp |-> e]
                           ELSE slots[i]
    <2>1. CASE i \in moved
      <3>1. auth[i] \in Doc
        BY <2>1 DEF TypeInv, TypeOK
      <3>2. auth'[i] = [rec |-> InGrace(auth[i].rec), exp |-> e]
        BY <1>1, <2>1
      <3>3. /\ auth'[i] \in Doc
            /\ auth'[i].rec.core = auth[i].rec.core
            /\ auth'[i].rec.state = "DEMASKED_GRACE"
            /\ auth'[i].exp = e
        BY <1>2, <3>1, <3>2 DEF Doc, Record, InGrace
      <3>4. slots'[i] = Slot(auth'[i]) /\ slots[i] = Slot(auth[i])
        BY DEF slots, Slot
      <3>. QED  BY <2>1, <3>1, <3>3, <3>4, SlotType
    <2>2. CASE i \notin moved
      BY <1>1, <2>2 DEF slots, Slot
    <2>. QED  BY <2>1, <2>2
  <1>6. slots' = [i \in Ids |->
                     IF i \in moved
                     THEN [core |-> slots[i].core, state |-> "DEMASKED_GRACE", exp |-> e]
                     ELSE slots[i]]
    BY <1>5 DEF slots
  <1>. HIDE DEF moved, e
  <1>7. Lifecycle!EnterGrace(moved)
    BY <1>3, <1>4, <1>6 DEF Lifecycle!EnterGrace, slots
  <1>. QED  BY <1>7 DEF moved

\* Every step of the protocol is a step of the lifecycle, or does not touch it.
LEMMA RefineStep ==
    ASSUME TypeInv, LeaseInv, [Next]_vars
    PROVE  [Lifecycle!Next]_<<clock, slots>>
  <1>1. CASE UNCHANGED <<clock, auth>>
    BY <1>1 DEF slots, Slot
  <1>2. ASSUME NEW r \in Reqs, Submit(r) \/ Advance(r)
        PROVE  [Lifecycle!Next]_<<clock, slots>>
    <2>1. CASE Insert(r) \/ InsertFails(r) \/ Reclaim(r) \/ ReclaimFails(r)
      BY <2>1, RefineSave DEF Lifecycle!Next
    <2>2. CASE RequestFlush(r)
      <3>1. r \in Flushers /\ BulkWrite(r) /\ UNCHANGED clock
        BY <2>2 DEF RequestFlush, Flushers
      <3>. QED  BY <3>1, RefineBulk DEF Lifecycle!Next
    <2>3. CASE ~(Insert(r) \/ InsertFails(r) \/ Reclaim(r) \/ ReclaimFails(r) \/ RequestFlush(r))
      <3>1. UNCHANGED <<clock, auth>>
        BY <1>2, <2>3
           DEF Submit, Advance, GetCache, GetAuth, GetAuthFails, Backfill, FirstRequest,
               RetryMask, DemaskDisabled, Demask, InsertDuplicate, ReclaimLost, CacheSave,
               VerifyWinner, Enqueue, EnqueueRefused, RequestTake, MarkGet, MarkPut,
               Respond, store
      <3>. QED  BY <1>1, <3>1
    <2>. QED  BY <2>1, <2>2, <2>3
  <1>3. ASSUME NEW w \in Workers, FlushLoop(w)
        PROVE  [Lifecycle!Next]_<<clock, slots>>
    <2>1. CASE FlushLoopTake(w)
      BY <1>1, <2>1 DEF FlushLoopTake, store
    <2>2. CASE FlushLoopWrite(w)
      <3>1. w \in Flushers /\ BulkWrite(w) /\ UNCHANGED clock
        BY <2>2 DEF FlushLoopWrite, Flushers
      <3>. QED  BY <3>1, RefineBulk DEF Lifecycle!Next
    <2>. QED  BY <1>3, <2>1, <2>2 DEF FlushLoop
  <1>4. CASE Tick
    BY <1>4 DEF Tick, slots, Slot, Lifecycle!Next, Lifecycle!Pass
  <1>5. ASSUME NEW i \in Ids, Purge(i)
        PROVE  [Lifecycle!Next]_<<clock, slots>>
    <2>1. auth[i] \in Doc /\ auth[i].exp <= clock
      BY <1>5 DEF Purge, Expired, TypeInv, TypeOK
    <2>2. Lifecycle!Dead(i)
      BY <2>1, SlotType DEF Lifecycle!Dead
    <2>3. slots' = [slots EXCEPT ![i] = None] /\ UNCHANGED clock
      BY <1>5 DEF Purge, slots, Slot, TypeInv, TypeOK
    <2>. QED  BY <2>2, <2>3 DEF Lifecycle!Next, Lifecycle!Purge, slots
  <1>6. ASSUME NEW i \in Ids, Evict(i)
        PROVE  UNCHANGED <<clock, auth>>
    BY <1>6 DEF Evict
  <1>7. ASSUME NEW w \in Workers, Crash(w)
        PROVE  UNCHANGED <<clock, auth>>
    BY <1>7 DEF Crash, store
  <1>8. CASE UNCHANGED vars
    BY <1>1, <1>8 DEF vars
  <1>. QED  BY <1>1, <1>2, <1>3, <1>4, <1>5, <1>6, <1>7, <1>8 DEF Next, Environment

\* The store implements the abstract lifecycle for every number of workers, requests,
\* ids and texts: a live mapping is never replaced and only ever moves into grace.
THEOREM StoreRefinesLifecycle == Spec => ImplementsLifecycle
  <1>1. Init => Lifecycle!Init
    BY DEF Init, Lifecycle!Init, Slot
  <1>2. TypeInv /\ LeaseInv /\ [Next]_vars
        => [Lifecycle!Next]_<<clock, [i \in Ids |-> Slot(auth[i])]>>
    BY RefineStep DEF slots
  <1>. QED
    BY <1>1, <1>2, TypeInit, TypeStep, LeaseInit, LeaseStep, PTL
       DEF Spec, ImplementsLifecycle, Lifecycle!Spec
=============================================================================

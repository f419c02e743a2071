-------------------------- MODULE GoService_proofs --------------------------
(***************************************************************************)
(* Proofs about the Go service over each of its stores, for every number   *)
(* of goroutines, ids and texts, every transform and every ttl.            *)
(***************************************************************************)
EXTENDS GoService, TLAPS

Control == {"idle", "getCache", "getAuth", "backfill", "decide", "insert", "reclaim",
            "cacheSave", "markAuth", "markGet", "markSet", "answered"}
Saving == {"insert", "reclaim", "cacheSave"}
Marking == {"markAuth", "markGet", "markSet"}

StoreType ==
    /\ kind \in {"mongo", "redis", "memory"} /\ clock \in Nat
    /\ auth \in [Ids -> Doc \cup {None}] /\ cache \in [Ids -> Doc \cup {None}]
    /\ stored \in [Ids -> SUBSET Payloads]

RequestType ==
    /\ pc \in [Reqs -> Control]
    /\ arg \in [Reqs -> Arg \cup {None}]
    /\ doc \in [Reqs -> Doc \cup {None}]
    /\ rec \in [Reqs -> Record \cup {None}]
    /\ cacheOK \in [Reqs -> BOOLEAN]
    /\ ans \in [Reqs -> Answers \cup {None}]

\* Whatever the authority or the cache holds for an id was stored for it.
StoreProvenance ==
    \A i \in Ids : /\ auth[i] # None => auth[i].orig \in stored[i]
                   /\ cache[i] # None => cache[i].orig \in stored[i]

\* What a request holds at each of its labels, and which labels a store has.
LocalOK(r) ==
    /\ arg[r] = None <=> pc[r] = "idle"
    /\ doc[r] # None <=> pc[r] \in Saving
    /\ rec[r] # None => pc[r] \in {"backfill", "decide"} \cup Marking
    /\ pc[r] \in {"backfill", "markSet"} => rec[r] # None
    /\ ans[r] # None => pc[r] \in Marking \cup {"answered"}
    /\ pc[r] \in Marking => ans[r] # None /\ ans[r].kind = "demask"
    /\ pc[r] \in {"reclaim", "cacheSave"} => kind = "mongo"
    /\ pc[r] = "markAuth" => kind # "redis"

\* The record a request works from was stored; so was its own document once it goes to
\* the cache, and some document once its insert met one.
Sourced(r) ==
    /\ rec[r] # None => rec[r].orig \in stored[arg[r].id]
    /\ pc[r] = "reclaim" => stored[arg[r].id] # {}
    /\ pc[r] = "cacheSave" => arg[r].payload \in stored[arg[r].id]

\* The document a request is about to save, and the record it writes back as demasked.
Intends(r) ==
    /\ doc[r] # None => /\ doc[r].orig = arg[r].payload /\ doc[r].state = "ACTIVE"
                        /\ doc[r].exp <= clock + TTL
    /\ pc[r] = "markSet" => rec[r].state = "DEMASKED_GRACE"

RequestOK(r) ==
    /\ LocalOK(r) /\ Sourced(r) /\ Intends(r)
    /\ ans[r] # None => Justified(arg[r], ans[r])

GoInv ==
    /\ StoreType /\ RequestType /\ StoreProvenance
    /\ \A r \in Reqs : RequestOK(r)

-----------------------------------------------------------------------------
(* Frames: a step is a step of one request over a store that only ever     *)
(* remembers more                                                          *)

Grown == \A i \in Ids : stored[i] \subseteq stored'[i]

Untouched(q) ==
    /\ pc'[q] = pc[q] /\ arg'[q] = arg[q] /\ doc'[q] = doc[q]
    /\ rec'[q] = rec[q] /\ ans'[q] = ans[q]

LEMMA GoInit == Init => GoInv
  BY DEF Init, GoInv, StoreType, RequestType, StoreProvenance, RequestOK, LocalOK, Sourced,
         Intends, Control, Saving, Marking

\* An answer that was justified stays so.
LEMMA JustifiedGrows ==
    ASSUME StoreType, NEW a \in Arg, NEW n \in Answers, Justified(a, n), Grown
    PROVE  Justified(a, n)'
  <1>1. a.id \in Ids /\ stored[a.id] \subseteq stored'[a.id]
    BY DEF Arg, Grown
  <1>. QED  BY <1>1 DEF Justified, Restored

\* A request that takes no step is not disturbed by those that do.
LEMMA OtherRequest ==
    ASSUME GoInv, NEW q \in Reqs, Untouched(q), Grown, UNCHANGED kind,
           clock' \in Nat, clock <= clock'
    PROVE  RequestOK(q)'
  <1>1. RequestOK(q) /\ clock \in Nat /\ TTL \in Nat
    BY GoAssumption DEF GoInv, StoreType
  <1>2. arg[q] # None => arg[q] \in Arg /\ arg[q].id \in Ids
    BY DEF GoInv, RequestType, Arg
  <1>3. LocalOK(q)'
    BY <1>1 DEF RequestOK, LocalOK, Untouched
  <1>4. Sourced(q)'
    <2>1. rec[q] # None \/ pc[q] \in {"reclaim", "cacheSave"} => arg[q] # None
      BY <1>1 DEF RequestOK, LocalOK, Marking
    <2>. QED  BY <1>1, <1>2, <2>1 DEF RequestOK, Sourced, Untouched, Grown
  <1>5. Intends(q)'
    <2>1. doc[q] # None => doc[q].exp \in Nat
      BY DEF GoInv, RequestType, Doc
    <2>. QED  BY <1>1, <2>1 DEF RequestOK, Intends, Untouched
  <1>6. ans'[q] # None => Justified(arg[q], ans[q])'
    <2>. SUFFICES ASSUME ans[q] # None PROVE Justified(arg[q], ans[q])'
      BY DEF Untouched
    <2>1. arg[q] # None
      BY <1>1 DEF RequestOK, LocalOK, Marking
    <2>2. arg[q] \in Arg /\ ans[q] \in Answers
      BY <1>2, <2>1 DEF GoInv, RequestType
    <2>3. Justified(arg[q], ans[q])
      BY <1>1 DEF RequestOK
    <2>4. \A a \in Arg, n \in Answers : Justified(a, n) => Justified(a, n)'
      BY JustifiedGrows DEF GoInv
    <2>. QED  BY <2>2, <2>3, <2>4 DEF Untouched, Justified, Restored
  <1>. QED  BY <1>3, <1>4, <1>5, <1>6 DEF RequestOK

LEMMA OneRequest ==
    ASSUME GoInv, NEW r \in Reqs, \A q \in Reqs \ {r} : Untouched(q), Grown,
           UNCHANGED kind, UNCHANGED clock, StoreType', RequestType', StoreProvenance',
           RequestOK(r)'
    PROVE  GoInv'
  <1>1. clock' \in Nat /\ clock <= clock'
    BY DEF GoInv, StoreType
  <1>2. \A q \in Reqs \ {r} : RequestOK(q)'
    BY <1>1, OtherRequest
  <1>. QED  BY <1>2 DEF GoInv

\* A step of a request that leaves the store alone.
LEMMA StoreFrame ==
    ASSUME GoInv, UNCHANGED <<kind, clock>>, UNCHANGED store
    PROVE  StoreType' /\ StoreProvenance' /\ Grown
  BY DEF GoInv, StoreType, StoreProvenance, Grown, store

\* Returning from Process ends the request's own state.
LEMMA Returned ==
    ASSUME GoInv, NEW r \in Reqs, NEW result, NEW out, Return(r, result, out),
           [kind |-> result, out |-> out] \in Answers, pc[r] # "idle"
    PROVE  /\ RequestType'
           /\ \A q \in Reqs \ {r} : Untouched(q)
           /\ LocalOK(r)' /\ Sourced(r)' /\ Intends(r)'
           /\ ans'[r] = [kind |-> result, out |-> out] /\ arg'[r] = arg[r]
  <1>. DEFINE n == [kind |-> result, out |-> out]
  <1>1. n \in Answers /\ n # None
    BY NoneAssumption
  <1>2. ans' = [ans EXCEPT ![r] = n]
    BY DEF Return
  <1>. HIDE DEF n
  <1>3. RequestType'
    BY <1>1, <1>2 DEF Return, Goto, GoInv, RequestType, Control
  <1>4. pc'[r] = "answered" /\ doc'[r] = None /\ rec'[r] = None /\ arg'[r] = arg[r] /\ ans'[r] = n
    BY <1>2 DEF Return, Goto, GoInv, RequestType
  <1>5. arg[r] # None
    BY DEF GoInv, RequestOK, LocalOK
  <1>6. LocalOK(r)' /\ Sourced(r)' /\ Intends(r)'
    BY <1>1, <1>4, <1>5 DEF LocalOK, Sourced, Intends, Saving, Marking
  <1>7. \A q \in Reqs \ {r} : Untouched(q)
    BY <1>2 DEF Return, Goto, GoInv, RequestType, Untouched
  <1>. QED  BY <1>3, <1>4, <1>6, <1>7 DEF n

\* So an answer keeps the invariant as soon as it is justified by the store it left.
LEMMA InvReturn ==
    ASSUME GoInv, NEW r \in Reqs, NEW result, NEW out, Return(r, result, out),
           [kind |-> result, out |-> out] \in Answers, pc[r] # "idle",
           UNCHANGED kind, UNCHANGED clock, StoreType', StoreProvenance', Grown,
           Justified(arg[r], ans[r])'
    PROVE  GoInv'
  BY Returned, OneRequest DEF RequestOK

LEMMA ArgType ==
    ASSUME GoInv, NEW r \in Reqs, pc[r] # "idle"
    PROVE  /\ arg[r] \in Arg /\ arg[r] # None
           /\ arg[r].id \in Ids /\ arg[r].payload \in Inputs /\ arg[r].payload \in Payloads
  <1>1. arg[r] # None /\ arg[r] \in Arg
    BY DEF GoInv, RequestOK, LocalOK, RequestType
  <1>. QED  BY <1>1, GoAssumption DEF Arg

\* A refusal is always justified.
LEMMA Refused ==
    ASSUME GoInv, NEW r \in Reqs, pc[r] # "idle", Return(r, "503", None),
           UNCHANGED kind, UNCHANGED clock, StoreType', StoreProvenance', Grown
    PROVE  GoInv'
  <1>1. [kind |-> "503", out |-> None] \in Answers
    BY DEF Answers
  <1>2. ans'[r] = [kind |-> "503", out |-> None]
    BY <1>1, Returned
  <1>3. Justified(arg[r], ans[r])'
    BY <1>2 DEF Justified
  <1>. QED  BY <1>1, <1>3, InvReturn

\* Without storage only a text without PII is answered, and with itself.
LEMMA Degraded ==
    ASSUME GoInv, NEW r \in Reqs, pc[r] # "idle", ~HasPii(arg[r].payload),
           NEW out, out = arg[r].payload, Return(r, "mask_degraded", out),
           UNCHANGED kind, UNCHANGED clock, StoreType', StoreProvenance', Grown
    PROVE  GoInv'
  <1>1. [kind |-> "mask_degraded", out |-> out] \in Answers
    BY ArgType DEF Answers
  <1>2. ans'[r] = [kind |-> "mask_degraded", out |-> out] /\ arg'[r] = arg[r]
    BY <1>1, Returned
  <1>3. Justified(arg[r], ans[r])'
    BY <1>2 DEF Justified
  <1>. QED  BY <1>1, <1>3, InvReturn

\* firstRequest answers from its own transform once something is stored for the id.
LEMMA Masked ==
    ASSUME GoInv, NEW r \in Reqs, pc[r] # "idle", AnswerMask(r), stored'[arg[r].id] # {},
           UNCHANGED kind, UNCHANGED clock, StoreType', StoreProvenance', Grown
    PROVE  GoInv'
  <1>. DEFINE out == BuildTransform(arg[r].id, arg[r].payload)
  <1>1. out \in Payloads
    BY ArgType, GoAssumption
  <1>2. Return(r, "mask", out)
    BY DEF AnswerMask
  <1>. HIDE DEF out
  <1>3. [kind |-> "mask", out |-> out] \in Answers
    BY <1>1 DEF Answers
  <1>4. ans'[r] = [kind |-> "mask", out |-> out] /\ arg'[r] = arg[r]
    BY <1>2, <1>3, Returned
  <1>5. Justified(arg[r], ans[r])'
    BY <1>4 DEF Justified
  <1>. QED  BY <1>2, <1>3, <1>5, InvReturn

\* An error out of SaveIfAbsent, whether or not the write was applied.
LEMMA Failed ==
    ASSUME GoInv, NEW r \in Reqs, pc[r] # "idle", SaveFailed(r),
           UNCHANGED kind, UNCHANGED clock, StoreType', StoreProvenance', Grown
    PROVE  GoInv'
  <1>1. CASE HasPii(arg[r].payload)
    BY <1>1, Refused DEF SaveFailed
  <1>2. CASE ~HasPii(arg[r].payload)
    <2>. DEFINE out == BuildTransform(arg[r].id, arg[r].payload)
    <2>1. out = arg[r].payload
      BY <1>2, ArgType, GoAssumption
    <2>2. Return(r, "mask_degraded", out)
      BY <1>2 DEF SaveFailed
    <2>. HIDE DEF out
    <2>. QED  BY <1>2, <2>1, <2>2, Degraded
  <1>. QED  BY <1>1, <1>2

\* What a Redis SET leaves, lost or not.
LEMMA SetType ==
    ASSUME GoInv, NEW i \in Ids, NEW record, record.orig \in stored[i], record.state \in States,
           NEW ttl \in Nat, NEW keys \in [Ids -> Doc \cup {None}],
           NEW after \in AfterSet(keys, i, record, ttl)
    PROVE  /\ after \in [Ids -> Doc \cup {None}]
           /\ \A j \in Ids : after[j] = keys[j] \/ (j = i /\ after[j].orig = record.orig)
           /\ after = keys \/ (after[i] # None /\ after[i].state = record.state)
  <1>. DEFINE d == [orig |-> record.orig, state |-> record.state, exp |-> clock + ttl]
  <1>1. d \in Doc /\ d.orig = record.orig /\ d.state = record.state
    BY DEF GoInv, StoreType, Doc
  <1>2. d # None
    BY <1>1, NoneAssumption
  <1>3. after = keys \/ after = [keys EXCEPT ![i] = d]
    BY DEF AfterSet
  <1>. HIDE DEF d
  <1>. QED  BY <1>1, <1>2, <1>3

-----------------------------------------------------------------------------
(* The steps of a request *)

\* A step between labels where a request has no answer yet.
LEMMA InvMove ==
    ASSUME GoInv, NEW r \in Reqs, NEW label \in Control, Goto(r, label),
           UNCHANGED <<kind, clock, arg, ans>>, ans[r] = None, RequestType',
           \A q \in Reqs \ {r} : doc'[q] = doc[q] /\ rec'[q] = rec[q],
           StoreType', StoreProvenance', Grown,
           LocalOK(r)', Sourced(r)', Intends(r)'
    PROVE  GoInv'
  <1>1. \A q \in Reqs \ {r} : Untouched(q)
    BY DEF Goto, Untouched, GoInv, RequestType
  <1>2. RequestOK(r)'
    BY DEF RequestOK
  <1>. QED  BY <1>1, <1>2, OneRequest

LEMMA InvRequest ==
    ASSUME GoInv, NEW r \in Reqs, Request(r)
    PROVE  GoInv'
  <1>1. PICK i \in Ids, x \in Inputs : arg' = [arg EXCEPT ![r] = [id |-> i, payload |-> x]]
    BY DEF Request
  <1>. DEFINE a == [id |-> i, payload |-> x]
  <1>2. a \in Arg /\ a # None
    BY NoneAssumption DEF Arg
  <1>. HIDE DEF a
  <1>3. arg' = [arg EXCEPT ![r] = a]
    BY <1>1 DEF a
  <1>4. doc[r] = None /\ rec[r] = None /\ ans[r] = None /\ pc[r] = "idle"
    BY DEF Request, GoInv, RequestOK, LocalOK, Saving, Marking
  <1>5. RequestType' /\ \A q \in Reqs \ {r} : Untouched(q)
    BY <1>2, <1>3 DEF Request, Goto, GoInv, RequestType, Control, Untouched
  <1>6. RequestOK(r)'
    <2>1. /\ pc'[r] \in {"getCache", "getAuth"} /\ arg'[r] = a
          /\ UNCHANGED <<kind, doc, rec, ans>>
      BY <1>3 DEF Request, Goto, GoInv, RequestType
    <2>. QED  BY <1>2, <1>4, <2>1
         DEF RequestOK, LocalOK, Sourced, Intends, Saving, Marking
  <1>7. UNCHANGED <<kind, clock>> /\ UNCHANGED store
    BY DEF Request
  <1>. QED  BY <1>5, <1>6, <1>7, OneRequest, StoreFrame

\* What a read returns was stored.
LEMMA KeyType ==
    ASSUME NEW d \in Doc
    PROVE  /\ Key(d) = [orig |-> d.orig, state |-> d.state]
           /\ Key(d) \in Record /\ Key(d) # None
           /\ Key(d).orig = d.orig
  <1>1. d # None
    BY NoneAssumption
  <1>2. Key(d) = [orig |-> d.orig, state |-> d.state]
    BY <1>1 DEF Key
  <1>3. Key(d) \in Record /\ Key(d).orig = d.orig
    BY <1>2 DEF Doc, Record
  <1>. QED  BY <1>2, <1>3, NoneAssumption

LEMMA InvGetCache ==
    ASSUME GoInv, NEW r \in Reqs, GetCache(r)
    PROVE  GoInv'
  <1>. DEFINE i == arg[r].id
              hit == Key(cache[i])
  <1>1. /\ pc[r] = "getCache" /\ i \in Ids /\ arg[r] # None
        /\ doc[r] = None /\ rec[r] = None /\ ans[r] = None
    BY ArgType DEF GetCache, GoInv, RequestOK, LocalOK, Saving, Marking
  <1>2. hit # None => hit \in Record /\ hit.orig \in stored[i]
    <2>1. CASE cache[i] = None
      BY <2>1 DEF Key
    <2>2. CASE cache[i] # None
      <3>1. cache[i] \in Doc
        BY <1>1, <2>2 DEF GoInv, StoreType
      <3>2. cache[i].orig \in stored[i]
        BY <1>1, <2>2 DEF GoInv, StoreProvenance
      <3>. QED  BY <3>1, <3>2, KeyType
    <2>. QED  BY <2>1, <2>2
  <1>3. /\ UNCHANGED <<kind, clock, arg, ans>> /\ UNCHANGED store /\ UNCHANGED doc
    BY DEF GetCache
  <1>4. CASE hit # None /\ rec' = [rec EXCEPT ![r] = hit] /\ Goto(r, "decide") /\ UNCHANGED cacheOK
    <2>. HIDE DEF hit
    <2>1. RequestType' /\ \A q \in Reqs \ {r} : doc'[q] = doc[q] /\ rec'[q] = rec[q]
      BY <1>2, <1>3, <1>4 DEF Goto, GoInv, RequestType, Control
    <2>2. pc'[r] = "decide" /\ rec'[r] = hit
      BY <1>4 DEF Goto, GoInv, RequestType
    <2>3. LocalOK(r)' /\ Sourced(r)' /\ Intends(r)'
      BY <1>1, <1>2, <1>3, <2>2
         DEF LocalOK, Sourced, Intends, Saving, Marking, store, i
    <2>. QED  BY <1>1, <1>3, <1>4, <2>1, <2>3, InvMove, StoreFrame DEF Control
  <1>5. CASE Goto(r, "getAuth") /\ UNCHANGED rec /\ cacheOK' \in [Reqs -> BOOLEAN]
    <2>1. RequestType' /\ \A q \in Reqs \ {r} : doc'[q] = doc[q] /\ rec'[q] = rec[q]
      BY <1>3, <1>5 DEF Goto, GoInv, RequestType, Control
    <2>2. pc'[r] = "getAuth"
      BY <1>5 DEF Goto, GoInv, RequestType
    <2>3. LocalOK(r)' /\ Sourced(r)' /\ Intends(r)'
      BY <1>1, <1>3, <1>5, <2>2 DEF LocalOK, Sourced, Intends, Saving, Marking
    <2>. QED  BY <1>1, <1>3, <1>5, <2>1, <2>3, InvMove, StoreFrame DEF Control
  <1>6. cacheOK' = [cacheOK EXCEPT ![r] = TRUE] \/ UNCHANGED cacheOK
        => cacheOK' \in [Reqs -> BOOLEAN]
    BY DEF GoInv, RequestType
  <1>. QED  BY <1>4, <1>5, <1>6 DEF GetCache

LEMMA InvGetAuth ==
    ASSUME GoInv, NEW r \in Reqs, GetAuth(r)
    PROVE  GoInv'
  <1>. DEFINE i == arg[r].id
              found == Live(auth[i])
              label == IF found # None /\ cacheOK[r] THEN "backfill" ELSE "decide"
  <1>1. /\ pc[r] = "getAuth" /\ i \in Ids /\ arg[r] # None
        /\ doc[r] = None /\ ans[r] = None
    BY ArgType DEF GetAuth, GoInv, RequestOK, LocalOK, Saving, Marking
  <1>2. found # None => found \in Record /\ found.orig \in stored[i]
    <2>1. CASE auth[i] = None
      BY <2>1 DEF Live
    <2>2. CASE auth[i] # None
      <3>1. auth[i] \in Doc
        BY <1>1, <2>2 DEF GoInv, StoreType
      <3>2. auth[i].orig \in stored[i]
        BY <1>1, <2>2 DEF GoInv, StoreProvenance
      <3>. QED  BY <3>1, <3>2, KeyType DEF Live
    <2>. QED  BY <2>1, <2>2
  <1>3. /\ UNCHANGED <<kind, clock, arg, ans, stored, cache, doc, cacheOK>>
        /\ rec' = [rec EXCEPT ![r] = found] /\ Goto(r, label)
    BY DEF GetAuth
  <1>4. auth' = auth \/ auth' = [auth EXCEPT ![i] = None]
    BY DEF GetAuth
  <1>. HIDE DEF found
  <1>5. StoreType' /\ StoreProvenance' /\ Grown
    BY <1>1, <1>3, <1>4 DEF GoInv, StoreType, StoreProvenance, Grown
  <1>6. RequestType' /\ \A q \in Reqs \ {r} : doc'[q] = doc[q] /\ rec'[q] = rec[q]
    BY <1>2, <1>3 DEF Goto, GoInv, RequestType, Control
  <1>7. pc'[r] = label /\ rec'[r] = found
    BY <1>3 DEF Goto, GoInv, RequestType
  <1>8. LocalOK(r)' /\ Sourced(r)' /\ Intends(r)'
    BY <1>1, <1>2, <1>3, <1>7 DEF LocalOK, Sourced, Intends, Saving, Marking
  <1>9. label \in Control
    BY DEF Control
  <1>. HIDE DEF label
  <1>. QED  BY <1>1, <1>3, <1>5, <1>6, <1>8, <1>9, InvMove

LEMMA InvGetAuthFails ==
    ASSUME GoInv, NEW r \in Reqs, GetAuthFails(r)
    PROVE  GoInv'
  <1>1. pc[r] # "idle" /\ UNCHANGED <<kind, clock>> /\ UNCHANGED store
    BY DEF GetAuthFails
  <1>2. StoreType' /\ StoreProvenance' /\ Grown
    BY <1>1, StoreFrame
  <1>3. CASE arg[r].payload \in Trace \/ HasPii(arg[r].payload)
    BY <1>1, <1>2, <1>3, Refused DEF GetAuthFails, AnswerWithoutStorage
  <1>4. CASE ~(arg[r].payload \in Trace \/ HasPii(arg[r].payload))
    BY <1>1, <1>2, <1>4, Degraded DEF GetAuthFails, AnswerWithoutStorage
  <1>. QED  BY <1>3, <1>4

LEMMA InvBackfill ==
    ASSUME GoInv, NEW r \in Reqs, Backfill(r)
    PROVE  GoInv'
  <1>. DEFINE i == arg[r].id
  <1>1. /\ pc[r] = "backfill" /\ i \in Ids /\ arg[r] # None
        /\ doc[r] = None /\ ans[r] = None /\ rec[r] # None
        /\ rec[r].orig \in stored[i]
    BY ArgType DEF Backfill, GoInv, RequestOK, LocalOK, Sourced, Saving, Marking
  <1>2. rec[r] \in Record /\ rec[r].state \in States
    BY <1>1 DEF GoInv, RequestType, Record
  <1>3. /\ UNCHANGED <<kind, clock, arg, ans, stored, auth, doc, rec, cacheOK>>
        /\ Goto(r, "decide") /\ cache' \in AfterSet(cache, i, rec[r], BackfillTTL)
    BY DEF Backfill
  <1>4. /\ cache' \in [Ids -> Doc \cup {None}]
        /\ \A j \in Ids : cache'[j] = cache[j] \/ (j = i /\ cache'[j].orig = rec[r].orig)
    BY <1>1, <1>2, <1>3, SetType, GoAssumption DEF GoInv, StoreType
  <1>5. StoreType' /\ StoreProvenance' /\ Grown
    BY <1>1, <1>3, <1>4 DEF GoInv, StoreType, StoreProvenance, Grown
  <1>6. RequestType' /\ \A q \in Reqs \ {r} : doc'[q] = doc[q] /\ rec'[q] = rec[q]
    BY <1>3 DEF Goto, GoInv, RequestType, Control
  <1>7. pc'[r] = "decide"
    BY <1>3 DEF Goto, GoInv, RequestType
  <1>8. LocalOK(r)' /\ Sourced(r)' /\ Intends(r)'
    BY <1>1, <1>3, <1>7 DEF LocalOK, Sourced, Intends, Saving, Marking
  <1>. QED  BY <1>1, <1>3, <1>5, <1>6, <1>8, InvMove DEF Control

LEMMA InvFirstRequest ==
    ASSUME GoInv, NEW r \in Reqs, FirstRequest(r)
    PROVE  GoInv'
  <1>. DEFINE d == [orig |-> arg[r].payload, state |-> "ACTIVE", exp |-> clock + TTL]
  <1>1. /\ pc[r] = "decide" /\ rec[r] = None /\ arg[r] # None /\ ans[r] = None
        /\ arg[r].payload \in Payloads
    BY ArgType DEF FirstRequest, GoInv, RequestOK, LocalOK, Marking
  <1>2. /\ d \in Doc /\ d.orig = arg[r].payload /\ d.state = "ACTIVE" /\ d.exp <= clock + TTL
    BY <1>1, GoAssumption DEF Doc, States, GoInv, StoreType
  <1>3. d # None
    BY <1>2, NoneAssumption
  <1>4. /\ UNCHANGED <<kind, clock, arg, ans, rec, cacheOK>> /\ UNCHANGED store
        /\ Goto(r, "insert") /\ doc' = [doc EXCEPT ![r] = d]
    BY DEF FirstRequest
  <1>. HIDE DEF d
  <1>5. RequestType' /\ \A q \in Reqs \ {r} : doc'[q] = doc[q] /\ rec'[q] = rec[q]
    BY <1>2, <1>4 DEF Goto, GoInv, RequestType, Control
  <1>6. pc'[r] = "insert" /\ doc'[r] = d
    BY <1>4 DEF Goto, GoInv, RequestType
  <1>7. LocalOK(r)' /\ Sourced(r)' /\ Intends(r)'
    BY <1>1, <1>2, <1>3, <1>4, <1>6 DEF LocalOK, Sourced, Intends, Saving, Marking
  <1>. QED  BY <1>1, <1>4, <1>5, <1>7, InvMove, StoreFrame DEF Control

LEMMA InvRetryMask ==
    ASSUME GoInv, NEW r \in Reqs, RetryMask(r)
    PROVE  GoInv'
  <1>. DEFINE out == BuildTransform(arg[r].id, arg[r].payload)
  <1>1. /\ pc[r] # "idle" /\ rec[r] # None /\ arg[r].payload = rec[r].orig
        /\ UNCHANGED <<kind, clock>> /\ UNCHANGED store /\ Return(r, "retry_mask", out)
    BY DEF RetryMask
  <1>2. arg[r].payload \in stored[arg[r].id]
    BY <1>1 DEF GoInv, RequestOK, Sourced
  <1>3. out \in Payloads
    BY <1>1, ArgType, GoAssumption
  <1>4. out = BuildTransform(arg[r].id, arg[r].payload)
    OBVIOUS
  <1>. HIDE DEF out
  <1>5. [kind |-> "retry_mask", out |-> out] \in Answers
    BY <1>3 DEF Answers
  <1>6. ans'[r] = [kind |-> "retry_mask", out |-> out] /\ arg'[r] = arg[r]
    BY <1>1, <1>5, Returned
  <1>7. Justified(arg[r], ans[r])'
    BY <1>1, <1>2, <1>4, <1>6 DEF Justified, store
  <1>. QED  BY <1>1, <1>5, <1>7, InvReturn, StoreFrame

LEMMA RestoredType ==
    ASSUME NEW a \in Arg, NEW record, record.orig \in Payloads
    PROVE  Restored(a, record) \in Payloads /\ Restored(a, record) = Restored(a, [orig |-> record.orig])
  BY GoAssumption DEF Restored, Arg

LEMMA InvDemask ==
    ASSUME GoInv, NEW r \in Reqs, Demask(r)
    PROVE  GoInv'
  <1>. DEFINE a == arg[r]
              out == Restored(a, rec[r])
              n == [kind |-> "demask", out |-> out]
  <1>1. /\ pc[r] = "decide" /\ rec[r] # None /\ a.payload # rec[r].orig
        /\ UNCHANGED <<kind, clock>> /\ UNCHANGED store
    BY DEF Demask
  <1>2. a \in Arg /\ a # None /\ rec[r].orig \in stored[a.id] /\ rec[r].orig \in Payloads
    BY <1>1, ArgType DEF GoInv, RequestOK, Sourced, RequestType, Record
  <1>3. out \in Payloads /\ out = Restored(a, [orig |-> rec[r].orig])
    BY <1>2, RestoredType
  <1>4. n \in Answers
    BY <1>3 DEF Answers
  <1>5. n # None
    BY <1>4, NoneAssumption
  <1>6. ASSUME ans'[r] = n, arg'[r] = arg[r]
        PROVE  Justified(arg[r], ans[r])'
    <2>1. rec[r].orig \in stored'[a.id] \ {a.payload}
      BY <1>1, <1>2 DEF store
    <2>2. n.kind = "demask" /\ n.out = Restored(a, [orig |-> rec[r].orig])
      BY <1>3
    <2>. HIDE DEF n
    <2>. QED  BY <1>6, <2>1, <2>2 DEF Justified, Restored
  <1>7. CASE rec[r].state = "DEMASKED_GRACE"
    <2>1. Return(r, "demask", out)
      BY <1>7 DEF Demask
    <2>2. ans'[r] = n /\ arg'[r] = arg[r]
      BY <1>1, <1>4, <2>1, Returned
    <2>3. Justified(arg[r], ans[r])'
      BY <1>6, <2>2
    <2>. HIDE DEF out
    <2>. QED  BY <1>1, <1>4, <2>1, <2>3, InvReturn, StoreFrame
  <1>8. CASE rec[r].state # "DEMASKED_GRACE"
    <2>. DEFINE label == IF kind = "redis" THEN "markGet" ELSE "markAuth"
    <2>1. /\ ans' = [ans EXCEPT ![r] = n] /\ Goto(r, label) /\ UNCHANGED <<arg, doc, rec, cacheOK>>
      BY <1>8 DEF Demask
    <2>. HIDE DEF n
    <2>2. RequestType' /\ \A q \in Reqs \ {r} : Untouched(q)
      BY <1>4, <2>1 DEF Goto, GoInv, RequestType, Control, Untouched
    <2>3. pc'[r] = label /\ ans'[r] = n /\ arg'[r] = arg[r]
      BY <2>1 DEF Goto, GoInv, RequestType
    <2>4. doc[r] = None /\ n.kind = "demask"
      BY <1>1 DEF GoInv, RequestOK, LocalOK, Saving, n
    <2>5. LocalOK(r)' /\ Sourced(r)' /\ Intends(r)'
      BY <1>1, <1>2, <1>5, <2>1, <2>3, <2>4 DEF LocalOK, Sourced, Intends, Saving, Marking, store
    <2>6. RequestOK(r)'
      BY <1>6, <2>3, <2>5 DEF RequestOK
    <2>. QED  BY <1>1, <2>2, <2>6, OneRequest, StoreFrame
  <1>. QED  BY <1>7, <1>8

\* The document a write leaves in the authority.
Written(r) == IF kind = "mongo" THEN doc[r] ELSE [doc[r] EXCEPT !.exp = clock + TTL]

LEMMA WriteType ==
    ASSUME GoInv, NEW r \in Reqs, pc[r] \in Saving, Write(r), UNCHANGED <<kind, clock, cache>>
    PROVE  /\ StoreType' /\ StoreProvenance' /\ Grown /\ arg[r].payload \in stored'[arg[r].id]
           /\ auth' = [auth EXCEPT ![arg[r].id] = Written(r)]
           /\ Written(r) \in Doc /\ Written(r) # None
           /\ Written(r).state = "ACTIVE" /\ Written(r).exp <= clock + TTL
  <1>. DEFINE i == arg[r].id
              d == Written(r)
  <1>1. i \in Ids /\ doc[r] # None /\ doc[r] \in Doc /\ doc[r].state = "ACTIVE"
        /\ doc[r].orig = arg[r].payload
        /\ doc[r].exp <= clock + TTL /\ clock + TTL \in Nat /\ clock + TTL <= clock + TTL
    BY ArgType, GoAssumption
       DEF GoInv, RequestOK, LocalOK, RequestType, StoreType, Intends, Saving
  <1>2. d \in Doc /\ d.orig = doc[r].orig /\ d.state = "ACTIVE" /\ d.exp <= clock + TTL
    BY <1>1 DEF Written, Doc
  <1>3. d # None
    BY <1>2, NoneAssumption
  <1>4. auth' = [auth EXCEPT ![i] = d] /\ stored' = [stored EXCEPT ![i] = @ \cup {d.orig}]
    BY <1>2 DEF Write, Written
  <1>. HIDE DEF d
  <1>5. d.orig \in Payloads
    BY <1>2 DEF Doc
  <1>6. StoreType' /\ Grown /\ d.orig \in stored'[i]
    BY <1>1, <1>2, <1>4, <1>5 DEF GoInv, StoreType, Grown
  <1>7. StoreProvenance'
    <2>1. ASSUME NEW j \in Ids
          PROVE  /\ auth'[j] # None => auth'[j].orig \in stored'[j]
                 /\ cache'[j] # None => cache'[j].orig \in stored'[j]
      <3>1. CASE j = i
        BY <1>1, <1>4, <3>1 DEF GoInv, StoreType, StoreProvenance
      <3>2. CASE j # i
        BY <1>1, <1>4, <3>2 DEF GoInv, StoreType, StoreProvenance
      <3>. QED  BY <3>1, <3>2
    <2>. QED  BY <2>1 DEF StoreProvenance
  <1>. QED  BY <1>1, <1>2, <1>3, <1>4, <1>6, <1>7 DEF d

\* A saved document goes on to the cache, one that met another to the reclaim.
LEMMA InvSaveMoves ==
    ASSUME GoInv, NEW r \in Reqs, Insert(r) \/ InsertDuplicate(r) \/ Reclaim(r)
    PROVE  GoInv'
  <1>. DEFINE i == arg[r].id
  <1>1. /\ pc[r] \in {"insert", "reclaim"} /\ i \in Ids /\ arg[r] # None /\ kind = "mongo"
        /\ doc[r] # None /\ ans[r] = None /\ rec[r] = None
    BY ArgType
       DEF Insert, InsertDuplicate, Reclaim, GoInv, RequestOK, LocalOK, Saving, Marking
  <1>2. UNCHANGED <<kind, clock, cache, arg, doc, rec, cacheOK, ans>>
    BY DEF Insert, InsertDuplicate, Reclaim, store
  <1>3. PICK label \in {"cacheSave", "reclaim"} :
            /\ Goto(r, label) /\ StoreType' /\ StoreProvenance' /\ Grown
            /\ label = "cacheSave" => arg[r].payload \in stored'[i]
            /\ label = "reclaim" => stored'[i] # {}
    <2>1. CASE Insert(r) \/ Reclaim(r)
      <3>1. Goto(r, "cacheSave") /\ Write(r)
        BY <2>1 DEF Insert, Reclaim
      <3>. QED  BY <1>1, <1>2, <3>1, WriteType DEF Saving
    <2>2. CASE InsertDuplicate(r)
      <3>1. Goto(r, "reclaim") /\ auth[i] # None /\ UNCHANGED <<kind, clock>> /\ UNCHANGED store
        BY <2>2 DEF InsertDuplicate
      <3>2. stored[i] # {}
        BY <1>1, <3>1 DEF GoInv, StoreProvenance
      <3>. QED  BY <3>1, <3>2, StoreFrame DEF store
    <2>. QED  BY <2>1, <2>2
  <1>5. RequestType' /\ \A q \in Reqs \ {r} : doc'[q] = doc[q] /\ rec'[q] = rec[q]
    BY <1>2, <1>3 DEF Goto, GoInv, RequestType, Control
  <1>6. pc'[r] = label
    BY <1>3 DEF Goto, GoInv, RequestType
  <1>7. LocalOK(r)' /\ Sourced(r)'
    BY <1>1, <1>2, <1>3, <1>6 DEF LocalOK, Sourced, Saving, Marking
  <1>8. Intends(r)'
    BY <1>1, <1>2, <1>6 DEF GoInv, RequestOK, Intends
  <1>9. label \in Control
    BY DEF Control
  <1>. QED  BY <1>1, <1>2, <1>3, <1>5, <1>7, <1>8, <1>9, InvMove

\* A call that failed, before or after it was applied.
LEMMA InvSaveFails ==
    ASSUME GoInv, NEW r \in Reqs, InsertFails(r) \/ ReclaimFails(r)
    PROVE  GoInv'
  <1>1. pc[r] \in Saving /\ pc[r] # "idle" /\ UNCHANGED <<kind, clock, cache>> /\ SaveFailed(r)
    BY DEF InsertFails, ReclaimFails, Saving
  <1>2. StoreType' /\ StoreProvenance' /\ Grown
    <2>1. CASE Write(r)
      BY <1>1, <2>1, WriteType
    <2>2. CASE UNCHANGED <<auth, stored>>
      BY <1>1, <2>2, StoreFrame DEF store
    <2>. QED  BY <2>1, <2>2 DEF InsertFails, ReclaimFails
  <1>. QED  BY <1>1, <1>2, Failed

LEMMA InvSaveAnswers ==
    ASSUME GoInv, NEW r \in Reqs, SaveNX(r) \/ ReclaimLost(r) \/ CacheSave(r)
    PROVE  GoInv'
  <1>. DEFINE i == arg[r].id
  <1>1. /\ pc[r] \in Saving /\ pc[r] # "idle" /\ i \in Ids
        /\ UNCHANGED <<kind, clock>> /\ AnswerMask(r)
    BY ArgType DEF SaveNX, ReclaimLost, CacheSave, Saving
  <1>2. StoreType' /\ StoreProvenance' /\ Grown /\ stored'[i] # {}
    <2>1. CASE Write(r) /\ UNCHANGED cache
      BY <1>1, <2>1, WriteType
    <2>2. CASE UNCHANGED store /\ stored[i] # {}
      BY <1>1, <2>2, StoreFrame DEF store
    <2>3. CASE CacheSave(r)
      <3>1. /\ pc[r] = "cacheSave" /\ UNCHANGED <<auth, stored>>
            /\ cache' \in AfterSet(cache, i, doc[r], TTL)
        BY <2>3 DEF CacheSave
      <3>2. doc[r].orig \in stored[i] /\ doc[r].state = "ACTIVE"
        BY <3>1 DEF GoInv, RequestOK, LocalOK, Sourced, Intends, Saving
      <3>3. /\ cache' \in [Ids -> Doc \cup {None}]
            /\ \A j \in Ids : cache'[j] = cache[j] \/ (j = i /\ cache'[j].orig = doc[r].orig)
        BY <1>1, <3>1, <3>2, SetType, GoAssumption DEF GoInv, StoreType, States
      <3>. QED  BY <1>1, <3>1, <3>2, <3>3 DEF GoInv, StoreType, StoreProvenance, Grown
    <2>4. ASSUME SaveNX(r), ~Write(r)
          PROVE  UNCHANGED store /\ stored[i] # {}
      <3>1. auth[i] # None /\ UNCHANGED store
        BY <2>4 DEF SaveNX, store
      <3>. QED  BY <1>1, <3>1 DEF GoInv, StoreProvenance
    <2>5. ASSUME ReclaimLost(r)
          PROVE  UNCHANGED store /\ stored[i] # {}
      BY <2>5 DEF ReclaimLost, GoInv, RequestOK, Sourced
    <2>. QED  BY <2>1, <2>2, <2>3, <2>4, <2>5 DEF SaveNX
  <1>. QED  BY <1>1, <1>2, Masked

\* The demask was answered for when the request decided; marking only repeats it.
LEMMA Remarked ==
    ASSUME GoInv, NEW r \in Reqs, pc[r] \in Marking, Return(r, ans[r].kind, ans[r].out),
           UNCHANGED kind, UNCHANGED clock, StoreType', StoreProvenance', Grown
    PROVE  GoInv'
  <1>1. pc[r] # "idle" /\ ans[r] # None /\ ans[r] \in Answers /\ Justified(arg[r], ans[r])
    BY DEF GoInv, RequestOK, LocalOK, RequestType, Marking
  <1>2. [kind |-> ans[r].kind, out |-> ans[r].out] = ans[r]
    BY <1>1 DEF Answers
  <1>3. arg[r] \in Arg
    BY <1>1, ArgType
  <1>4. ans'[r] = ans[r] /\ arg'[r] = arg[r]
    BY <1>1, <1>2, Returned
  <1>5. \A a \in Arg, n \in Answers : Justified(a, n) => Justified(a, n)'
    BY JustifiedGrows DEF GoInv
  <1>6. Justified(arg[r], ans[r])'
    BY <1>1, <1>3, <1>4, <1>5 DEF Justified, Restored
  <1>. QED  BY <1>1, <1>2, <1>6, InvReturn

\* The grace transition keeps the content of a document.
LEMMA GraceType ==
    ASSUME NEW d \in Doc, NEW e \in Nat
    PROVE  LET g == [d EXCEPT !.state = "DEMASKED_GRACE", !.exp = e] IN
           g \in Doc /\ g # None /\ g.orig = d.orig /\ g.state = "DEMASKED_GRACE" /\ g.exp = e
  <1>. DEFINE g == [d EXCEPT !.state = "DEMASKED_GRACE", !.exp = e]
  <1>1. g \in Doc /\ g.orig = d.orig /\ g.state = "DEMASKED_GRACE" /\ g.exp = e
    BY DEF Doc, States
  <1>2. g # None
    BY <1>1, NoneAssumption
  <1>. QED  BY <1>1, <1>2

LEMMA InvMarkAuth ==
    ASSUME GoInv, NEW r \in Reqs, MarkAuth(r)
    PROVE  GoInv'
  <1>. DEFINE i == arg[r].id
  <1>1. /\ pc[r] = "markAuth" /\ i \in Ids /\ arg[r] # None /\ kind # "redis"
        /\ doc[r] = None /\ ans[r] # None /\ ans[r].kind = "demask"
        /\ UNCHANGED <<kind, clock, cache, stored>>
    BY ArgType DEF MarkAuth, GoInv, RequestOK, LocalOK, Saving, Marking
  <1>2. /\ auth' \in [Ids -> Doc \cup {None}]
        /\ \A j \in Ids : auth'[j] # None => auth[j] # None /\ auth'[j].orig = auth[j].orig
    <2>. DEFINE g == [auth[i] EXCEPT !.state = "DEMASKED_GRACE", !.exp = clock + Grace]
    <2>1. auth' = auth \/ auth' = [auth EXCEPT ![i] = IF auth[i] = None THEN None ELSE g]
      BY DEF MarkAuth
    <2>2. clock + Grace \in Nat
      BY GoAssumption DEF GoInv, StoreType
    <2>3. auth[i] # None => g \in Doc /\ g.orig = auth[i].orig
      BY <1>1, <2>2, GraceType DEF GoInv, StoreType
    <2>. HIDE DEF g
    <2>. QED  BY <1>1, <2>1, <2>3 DEF GoInv, StoreType
  <1>3. StoreType' /\ StoreProvenance' /\ Grown
    BY <1>1, <1>2 DEF GoInv, StoreType, StoreProvenance, Grown
  <1>4. CASE kind = "mongo"
    <2>1. Goto(r, "markGet") /\ UNCHANGED <<arg, doc, rec, cacheOK, ans>>
      BY <1>4 DEF MarkAuth
    <2>2. RequestType' /\ \A q \in Reqs \ {r} : Untouched(q)
      BY <2>1 DEF Goto, GoInv, RequestType, Control, Untouched
    <2>3. pc'[r] = "markGet"
      BY <2>1 DEF Goto, GoInv, RequestType
    <2>4. LocalOK(r)' /\ Intends(r)'
      BY <1>1, <2>1, <2>3 DEF LocalOK, Intends, Saving, Marking
    <2>5. Sourced(r)' /\ Justified(arg[r], ans[r])'
      BY <1>1, <2>1, <2>3 DEF GoInv, RequestOK, Sourced, Justified, Restored
    <2>. QED  BY <1>1, <1>3, <2>2, <2>4, <2>5, OneRequest DEF RequestOK
  <1>5. CASE kind # "mongo"
    <2>1. Return(r, ans[r].kind, ans[r].out)
      BY <1>5 DEF MarkAuth
    <2>. QED  BY <1>1, <1>3, <2>1, Remarked DEF Marking
  <1>. QED  BY <1>4, <1>5

LEMMA InvMarkGet ==
    ASSUME GoInv, NEW r \in Reqs, MarkGet(r)
    PROVE  GoInv'
  <1>. DEFINE i == arg[r].id
              d == IF kind = "redis" THEN auth[i] ELSE cache[i]
              g == [Key(d) EXCEPT !.state = "DEMASKED_GRACE"]
  <1>1. /\ pc[r] = "markGet" /\ i \in Ids /\ arg[r] # None
        /\ doc[r] = None /\ ans[r] # None /\ ans[r].kind = "demask"
        /\ UNCHANGED <<kind, clock>> /\ UNCHANGED store
    BY ArgType DEF MarkGet, GoInv, RequestOK, LocalOK, Saving, Marking
  <1>2. CASE Return(r, ans[r].kind, ans[r].out)
    BY <1>1, <1>2, Remarked, StoreFrame DEF Marking
  <1>3. CASE /\ Key(d) # None /\ rec' = [rec EXCEPT ![r] = g] /\ Goto(r, "markSet")
             /\ UNCHANGED <<arg, doc, cacheOK, ans>>
    <2>1. d # None
      BY <1>3 DEF Key
    <2>2. d \in Doc /\ d.orig \in stored[i]
      BY <1>1, <2>1 DEF GoInv, StoreType, StoreProvenance
    <2>3. Key(d) \in Record /\ Key(d).orig = d.orig
      BY <2>2, KeyType
    <2>4. g \in Record /\ g.orig = d.orig /\ g.state = "DEMASKED_GRACE"
      BY <2>3 DEF Record, States
    <2>5. g # None
      BY <2>4, NoneAssumption
    <2>. HIDE DEF g, d
    <2>6. RequestType' /\ \A q \in Reqs \ {r} : Untouched(q)
      BY <1>3, <2>4 DEF Goto, GoInv, RequestType, Control, Untouched
    <2>7. pc'[r] = "markSet" /\ rec'[r] = g
      BY <1>3 DEF Goto, GoInv, RequestType
    <2>8. LocalOK(r)' /\ Sourced(r)' /\ Intends(r)'
      BY <1>1, <1>3, <2>2, <2>4, <2>5, <2>7 DEF LocalOK, Sourced, Intends, Saving, Marking, store
    <2>9. Justified(arg[r], ans[r])'
      BY <1>1, <1>3 DEF GoInv, RequestOK, Justified, Restored, store
    <2>. QED  BY <1>1, <2>6, <2>8, <2>9, OneRequest, StoreFrame DEF RequestOK
  <1>. QED  BY <1>2, <1>3 DEF MarkGet

LEMMA InvMarkSet ==
    ASSUME GoInv, NEW r \in Reqs, MarkSet(r)
    PROVE  GoInv'
  <1>. DEFINE i == arg[r].id
  <1>1. /\ pc[r] = "markSet" /\ i \in Ids /\ rec[r] # None
        /\ UNCHANGED <<kind, clock, stored>> /\ Return(r, ans[r].kind, ans[r].out)
    BY ArgType DEF MarkSet, GoInv, RequestOK, LocalOK
  <1>2. rec[r].orig \in stored[i] /\ rec[r].state \in States /\ Grace \in Nat
    BY <1>1, GoAssumption DEF GoInv, RequestOK, Sourced, RequestType, Record
  <1>3. ASSUME NEW keys \in [Ids -> Doc \cup {None}], NEW after \in AfterSet(keys, i, rec[r], Grace)
        PROVE  /\ after \in [Ids -> Doc \cup {None}]
               /\ \A j \in Ids : after[j] = keys[j] \/ (j = i /\ after[j].orig = rec[r].orig)
    BY <1>1, <1>2, SetType
  <1>4. StoreType' /\ StoreProvenance' /\ Grown
    <2>1. CASE kind = "redis"
      BY <1>1, <1>2, <1>3, <2>1 DEF MarkSet, GoInv, StoreType, StoreProvenance, Grown
    <2>2. CASE kind # "redis"
      BY <1>1, <1>2, <1>3, <2>2 DEF MarkSet, GoInv, StoreType, StoreProvenance, Grown
    <2>. QED  BY <2>1, <2>2
  <1>. QED  BY <1>1, <1>4, Remarked DEF Marking

LEMMA InvRespond ==
    ASSUME GoInv, NEW r \in Reqs, Respond(r)
    PROVE  GoInv'
  <1>1. /\ pc[r] = "answered" /\ doc[r] = None /\ rec[r] = None
        /\ UNCHANGED <<kind, clock, doc, rec, cacheOK>> /\ UNCHANGED store
    BY DEF Respond, GoInv, RequestOK, LocalOK, Saving, Marking
  <1>2. RequestType' /\ \A q \in Reqs \ {r} : Untouched(q)
    BY <1>1 DEF Respond, Goto, GoInv, RequestType, Control, Untouched
  <1>3. pc'[r] = "idle" /\ arg'[r] = None /\ ans'[r] = None
    BY DEF Respond, Goto, GoInv, RequestType
  <1>4. RequestOK(r)'
    BY <1>1, <1>3 DEF RequestOK, LocalOK, Sourced, Intends, Saving, Marking
  <1>. QED  BY <1>1, <1>2, <1>4, OneRequest, StoreFrame

-----------------------------------------------------------------------------
(* The environment *)

LEMMA InvRestart ==
    ASSUME GoInv, Restart
    PROVE  GoInv'
  <1>1. UNCHANGED <<kind, clock>> /\ UNCHANGED store
    BY DEF Restart
  <1>2. RequestType'
    BY DEF Restart, RequestType, Control
  <1>3. \A r \in Reqs : RequestOK(r)'
    BY DEF Restart, RequestOK, LocalOK, Sourced, Intends, Saving, Marking
  <1>. QED  BY <1>1, <1>2, <1>3, StoreFrame DEF GoInv

LEMMA UnexpiredType ==
    ASSUME NEW keys \in [Ids -> Doc \cup {None}]
    PROVE  /\ Unexpired(keys) \in [Ids -> Doc \cup {None}]
           /\ \A i \in Ids : Unexpired(keys)[i] # None => Unexpired(keys)[i] = keys[i]
  BY DEF Unexpired

\* Time passes, keys expire, the TTL index purges.
LEMMA InvTick ==
    ASSUME GoInv, Tick \/ \E i \in Ids : Purge(i)
    PROVE  GoInv'
  <1>1. /\ UNCHANGED <<kind, stored>> /\ UNCHANGED request
        /\ clock' \in Nat /\ clock <= clock'
    BY DEF Tick, Purge, GoInv, StoreType
  <1>2. /\ auth' \in [Ids -> Doc \cup {None}] /\ cache' \in [Ids -> Doc \cup {None}]
        /\ \A i \in Ids : /\ auth'[i] # None => auth'[i] = auth[i]
                          /\ cache'[i] # None => cache'[i] = cache[i]
    <2>1. CASE Tick
      <3>1. cache' = Unexpired(cache) /\ (auth' = Unexpired(auth) \/ auth' = auth)
        BY <2>1 DEF Tick
      <3>. QED  BY <3>1, UnexpiredType DEF GoInv, StoreType
    <2>2. CASE ~Tick
      <3>1. PICK i \in Ids : auth' = [auth EXCEPT ![i] = None] /\ UNCHANGED cache
        BY <2>2 DEF Purge
      <3>. QED  BY <3>1 DEF GoInv, StoreType
    <2>. QED  BY <2>1, <2>2
  <1>3. StoreType' /\ StoreProvenance' /\ Grown
    BY <1>1, <1>2 DEF GoInv, StoreType, StoreProvenance, Grown
  <1>4. RequestType' /\ \A q \in Reqs : Untouched(q)
    BY <1>1 DEF GoInv, RequestType, Untouched, request
  <1>5. \A q \in Reqs : RequestOK(q)'
    BY <1>1, <1>3, <1>4, OtherRequest
  <1>. QED  BY <1>3, <1>4, <1>5 DEF GoInv

LEMMA GoStep == GoInv /\ [Next]_vars => GoInv'
  <1>. SUFFICES ASSUME GoInv, [Next]_vars
                PROVE  GoInv'
    OBVIOUS
  <1>1. ASSUME NEW r \in Reqs, Process(r)
        PROVE  GoInv'
    BY <1>1, InvGetCache, InvGetAuth, InvGetAuthFails, InvBackfill, InvFirstRequest,
       InvRetryMask, InvDemask, InvSaveMoves, InvSaveFails, InvSaveAnswers, InvMarkAuth,
       InvMarkGet, InvMarkSet, InvRespond
       DEF Process
  <1>2. CASE UNCHANGED vars
    <2>1. UNCHANGED <<kind, clock>> /\ UNCHANGED store
      BY <1>2 DEF vars, store
    <2>2. RequestType' /\ \A q \in Reqs : Untouched(q)
      BY <1>2 DEF vars, GoInv, RequestType, Untouched
    <2>3. clock' \in Nat /\ clock <= clock'
      BY <2>1 DEF GoInv, StoreType
    <2>. QED  BY <2>1, <2>2, <2>3, OtherRequest, StoreFrame DEF GoInv
  <1>. QED  BY <1>1, <1>2, InvRequest, InvRestart, InvTick DEF Next

\* However goroutines interleave, calls fail and the service restarts, over any of the
\* three stores a retry and a demask follow from a record that was stored for the id,
\* and without storage only a text without PII is answered.
THEOREM GoAnswersFollow == Spec => []GoAnswersJustified
  <1>1. GoInv => GoAnswersJustified
    BY DEF GoInv, RequestOK, GoAnswersJustified
  <1>. QED  BY <1>1, GoInit, GoStep, PTL DEF Spec

-----------------------------------------------------------------------------
(* Redis as the only store *)

\* Where a step changes what the authority holds.
LEMMA AuthSteps ==
    ASSUME GoInv, [Next]_vars
    PROVE  \/ UNCHANGED <<clock, auth>>
           \/ \E r \in Reqs : /\ pc[r] \in Saving /\ Write(r) /\ UNCHANGED <<kind, clock>>
                              /\ \/ auth[arg[r].id] = None
                                 \/ kind # "redis" /\ auth[arg[r].id].exp <= clock
           \/ \E r \in Reqs : GetAuth(r) \/ MarkAuth(r) \/ MarkSet(r)
           \/ \E i \in Ids : Purge(i)
           \/ Tick
  <1>1. ASSUME NEW r \in Reqs, Request(r)
        PROVE  UNCHANGED <<clock, auth>>
    BY <1>1 DEF Request, store
  <1>2. ASSUME NEW r \in Reqs,
               \/ GetCache(r) \/ GetAuthFails(r) \/ Backfill(r) \/ FirstRequest(r)
               \/ RetryMask(r) \/ Demask(r) \/ InsertDuplicate(r) \/ ReclaimLost(r)
               \/ CacheSave(r) \/ MarkGet(r) \/ Respond(r)
        PROVE  UNCHANGED <<clock, auth>>
    BY <1>2 DEF GetCache, GetAuthFails, Backfill, FirstRequest, RetryMask, Demask,
                InsertDuplicate, ReclaimLost, CacheSave, MarkGet, Respond, store
  <1>3. ASSUME NEW r \in Reqs,
               Insert(r) \/ InsertFails(r) \/ SaveNX(r) \/ Reclaim(r) \/ ReclaimFails(r)
        PROVE  \/ UNCHANGED <<clock, auth>>
               \/ /\ pc[r] \in Saving /\ Write(r) /\ UNCHANGED <<kind, clock>>
                  /\ \/ auth[arg[r].id] = None
                     \/ kind # "redis" /\ auth[arg[r].id].exp <= clock
    <2>1. pc[r] = "reclaim" => kind = "mongo"
      BY DEF GoInv, RequestOK, LocalOK
    <2>. QED  BY <1>3, <2>1
         DEF Insert, InsertFails, SaveNX, Reclaim, ReclaimFails, Reclaimable, Saving
  <1>4. CASE Restart
    BY <1>4 DEF Restart, store
  <1>5. CASE UNCHANGED vars
    BY <1>5 DEF vars
  <1>. QED  BY <1>1, <1>2, <1>3, <1>4, <1>5 DEF Next, Process

\* With Redis alone a mapping whose lease runs is lost only to the late write of a demask
\* of an earlier mapping of the id, for every number of goroutines and every ttl.
THEOREM GoRedisLosesOnlyToLateDemask == Spec => GoRedisKeeps
  <1>1. ASSUME GoInv, [Next]_vars, NEW i \in Ids,
               kind = "redis", auth[i] # None, auth[i].exp > clock',
               auth'[i] = None \/ auth'[i].orig # auth[i].orig
        PROVE  /\ auth'[i] # None /\ auth'[i].state = "DEMASKED_GRACE" /\ stored' = stored
               /\ \E r \in Reqs : /\ arg[r] # None /\ arg[r].id = i
                                 /\ pc[r] = "markSet" /\ rec[r].orig = auth'[i].orig
    <2>1. auth'[i] # auth[i]
      BY <1>1
    <2>2. ASSUME NEW r \in Reqs, Write(r), pc[r] \in Saving, auth[arg[r].id] = None
          PROVE  FALSE
      BY <1>1, <2>1, <2>2 DEF Write, GoInv, StoreType
    <2>3. ~\E r \in Reqs : MarkAuth(r)
      BY <1>1 DEF MarkAuth, GoInv, RequestOK, LocalOK
    <2>4. ~\E r \in Reqs : GetAuth(r)
      BY <1>1, <2>1 DEF GetAuth
    <2>5. ~\E j \in Ids : Purge(j)
      BY <1>1 DEF Purge
    <2>6. ~Tick
      <3>1. ASSUME Tick PROVE FALSE
        <4>1. auth'[i] = IF auth[i] # None /\ auth[i].exp <= clock + 1 THEN None ELSE auth[i]
          BY <1>1, <3>1 DEF Tick, Unexpired
        <4>2. clock' = clock + 1 /\ clock \in Nat /\ auth[i].exp \in Nat
          BY <1>1, <3>1 DEF Tick, GoInv, StoreType, Doc
        <4>. QED  BY <1>1, <2>1, <4>1, <4>2
      <3>. QED  BY <3>1
    <2>7. PICK r \in Reqs : MarkSet(r)
      BY <1>1, <2>1, <2>2, <2>3, <2>4, <2>5, <2>6, AuthSteps
    <2>8. /\ pc[r] = "markSet" /\ arg[r] # None /\ arg[r].id \in Ids /\ rec[r] # None
          /\ stored' = stored /\ auth' \in AfterSet(auth, arg[r].id, rec[r], Grace)
      BY <1>1, <2>7, ArgType DEF MarkSet, GoInv, RequestOK, LocalOK
    <2>9. /\ rec[r].orig \in stored[arg[r].id] /\ rec[r].state = "DEMASKED_GRACE"
      BY <1>1, <2>8 DEF GoInv, RequestOK, Sourced, Intends
    <2>10. /\ \A j \in Ids : auth'[j] = auth[j] \/ (j = arg[r].id /\ auth'[j].orig = rec[r].orig)
           /\ auth' = auth
              \/ (auth'[arg[r].id] # None /\ auth'[arg[r].id].state = "DEMASKED_GRACE")
      BY <1>1, <2>8, <2>9, SetType, GoAssumption DEF GoInv, StoreType, States
    <2>. QED  BY <2>1, <2>8, <2>9, <2>10
  <1>. DEFINE Keeps ==
                \A i \in Ids :
                    /\ kind = "redis" /\ auth[i] # None /\ auth[i].exp > clock'
                    /\ auth'[i] = None \/ auth'[i].orig # auth[i].orig
                    => /\ auth'[i] # None /\ auth'[i].state = "DEMASKED_GRACE" /\ stored' = stored
                       /\ \E r \in Reqs : /\ arg[r] # None /\ arg[r].id = i
                                         /\ pc[r] = "markSet" /\ rec[r].orig = auth'[i].orig
  <1>2. GoInv /\ [Next]_vars => [Keeps]_vars
    BY <1>1
  <1>. HIDE DEF Keeps
  <1>3. Spec => [][Keeps]_vars
    BY <1>2, GoInit, GoStep, PTL DEF Spec
  <1>. QED  BY <1>3 DEF GoRedisKeeps, Keeps

-----------------------------------------------------------------------------
(* The abstract lifecycle *)

slots == [i \in Ids |-> IF kind = "redis" THEN None ELSE Slot(auth[i])]

LEMMA SlotType ==
    ASSUME NEW d \in Doc
    PROVE  /\ Slot(d) = [core |-> d.orig, state |-> d.state, exp |-> d.exp]
           /\ Slot(d) \in Lifecycle!Mapping /\ Slot(d) # None
           /\ Slot(d).core = d.orig /\ Slot(d).state = d.state /\ Slot(d).exp = d.exp
  <1>1. d # None
    BY NoneAssumption
  <1>2. Slot(d) = [core |-> d.orig, state |-> d.state, exp |-> d.exp]
    BY <1>1 DEF Slot
  <1>3. Slot(d) \in [core : Payloads, state : States, exp : Nat]
    BY <1>2 DEF Doc
  <1>. QED  BY <1>2, <1>3, NoneAssumption DEF Lifecycle!Mapping, States

\* A write over a free or expired document is the abstract Store.
LEMMA RefineWrite ==
    ASSUME GoInv, NEW r \in Reqs, pc[r] \in Saving, Write(r), UNCHANGED <<kind, clock>>,
           kind # "redis",
           auth[arg[r].id] = None \/ auth[arg[r].id].exp <= clock
    PROVE  \E i \in Ids : Lifecycle!Store(i)
  <1>. DEFINE i == arg[r].id
  <1>1. i \in Ids
    BY ArgType DEF Saving
  <1>2. /\ auth' = [auth EXCEPT ![i] = Written(r)] /\ Written(r) \in Doc
        /\ Written(r).state = "ACTIVE" /\ Written(r).exp <= clock + TTL
    <2>1. doc[r] # None /\ doc[r] \in Doc /\ Intends(r)
      BY DEF GoInv, RequestOK, LocalOK, RequestType
    <2>2. clock + TTL \in Nat /\ clock + TTL <= clock + TTL
      BY GoAssumption DEF GoInv, StoreType
    <2>. QED  BY <2>1, <2>2 DEF Write, Written, Intends, Doc
  <1>. HIDE DEF i
  <1>3. slots'[i] = Slot(Written(r))
    BY <1>1, <1>2 DEF slots, Slot, GoInv, StoreType
  <1>4. slots' = [slots EXCEPT ![i] = slots'[i]]
    BY <1>1, <1>2 DEF slots, Slot, GoInv, StoreType
  <1>5. /\ slots'[i] \in Lifecycle!Mapping
        /\ slots'[i].state = "ACTIVE" /\ slots'[i].exp <= clock + TTL
    BY <1>2, <1>3, SlotType
  <1>6. Lifecycle!Dead(i)
    BY <1>1, SlotType DEF Lifecycle!Dead, Slot, GoInv, StoreType, i
  <1>. QED  BY <1>1, <1>4, <1>5, <1>6 DEF Lifecycle!Store, slots

\* Deleting an expired document is the abstract Purge.
LEMMA RefineDelete ==
    ASSUME GoInv, NEW i \in Ids, auth' = [auth EXCEPT ![i] = None], UNCHANGED <<kind, clock>>,
           auth[i] = None \/ auth[i].exp <= clock, kind # "redis"
    PROVE  Lifecycle!Purge(i)
  <1>1. Lifecycle!Dead(i)
    BY SlotType DEF Lifecycle!Dead, Slot, GoInv, StoreType
  <1>2. slots' = [slots EXCEPT ![i] = None]
    BY DEF slots, Slot, GoInv, StoreType
  <1>. QED  BY <1>1, <1>2 DEF Lifecycle!Purge, slots

\* UpdateOne of a document, and MemoryStore's under its mutex, is the abstract EnterGrace.
LEMMA RefineMark ==
    ASSUME GoInv, NEW r \in Reqs, MarkAuth(r)
    PROVE  UNCHANGED <<clock, slots>> \/ \E moved \in SUBSET Ids : Lifecycle!EnterGrace(moved)
  <1>. DEFINE i == arg[r].id
              e == clock + Grace
              g == [auth[i] EXCEPT !.state = "DEMASKED_GRACE", !.exp = e]
  <1>1. i \in Ids /\ kind # "redis" /\ UNCHANGED <<kind, clock>> /\ e \in Nat /\ e \in 0..(clock + Grace)
    BY ArgType, GoAssumption DEF MarkAuth, GoInv, RequestOK, LocalOK, StoreType
  <1>2. auth' = auth \/ auth' = [auth EXCEPT ![i] = IF auth[i] = None THEN None ELSE g]
    BY DEF MarkAuth
  <1>3. CASE auth' = auth
    BY <1>1, <1>3 DEF slots, Slot
  <1>4. CASE auth[i] = None
    <2>1. auth' = auth
      BY <1>1, <1>2, <1>4 DEF GoInv, StoreType
    <2>. QED  BY <1>3, <2>1
  <1>5. CASE auth[i] # None /\ auth' = [auth EXCEPT ![i] = g]
    <2>1. auth[i] \in Doc
      BY <1>1, <1>5 DEF GoInv, StoreType
    <2>2. g \in Doc /\ g.orig = auth[i].orig /\ g.state = "DEMASKED_GRACE" /\ g.exp = e
      BY <1>1, <2>1, GraceType
    <2>. HIDE DEF i, g, e
    <2>3. slots[i] = Slot(auth[i]) /\ slots'[i] = Slot(g)
      BY <1>1, <1>5 DEF slots, Slot, GoInv, StoreType
    <2>4. slots[i] # None
      BY <2>1, <2>3, SlotType
    <2>5. slots'[i] = [core |-> slots[i].core, state |-> "DEMASKED_GRACE", exp |-> e]
      BY <2>1, <2>2, <2>3, SlotType
    <2>6. \A j \in Ids : j # i => slots'[j] = slots[j]
      BY <1>1, <1>5 DEF slots, Slot, GoInv, StoreType
    <2>7. slots' = [j \in Ids |->
                       IF j \in {i}
                       THEN [core |-> slots[j].core, state |-> "DEMASKED_GRACE", exp |-> e]
                       ELSE slots[j]]
      BY <2>5, <2>6 DEF slots
    <2>8. e \in 0..(clock + Grace) /\ UNCHANGED clock /\ \A j \in {i} : slots[j] # None
      BY <1>1, <2>4 DEF e
    <2>9. Lifecycle!EnterGrace({i})
      BY <2>7, <2>8 DEF Lifecycle!EnterGrace, slots
    <2>. QED  BY <1>1, <2>9
  <1>. QED  BY <1>2, <1>3, <1>4, <1>5

LEMMA GoRefineStep ==
    ASSUME GoInv, [Next]_vars
    PROVE  [Lifecycle!Next]_<<clock, slots>>
  <1>0. UNCHANGED kind
    BY DEF Next, vars, Request, Process, GetCache, GetAuth, GetAuthFails, Backfill,
           FirstRequest, RetryMask, Demask, Insert, InsertDuplicate, InsertFails, SaveNX,
           Reclaim, ReclaimLost, ReclaimFails, CacheSave, MarkAuth, MarkGet, MarkSet,
           Respond, Purge, Tick, Restart
  <1>1. CASE UNCHANGED <<clock, auth>>
    BY <1>0, <1>1 DEF slots, Slot
  <1>2. CASE UNCHANGED clock /\ kind = "redis"
    BY <1>0, <1>2 DEF slots
  <1>3. ASSUME NEW r \in Reqs, pc[r] \in Saving, Write(r), UNCHANGED <<kind, clock>>,
               auth[arg[r].id] = None \/ auth[arg[r].id].exp <= clock
        PROVE  [Lifecycle!Next]_<<clock, slots>>
    BY <1>2, <1>3, RefineWrite DEF Lifecycle!Next
  <1>4. ASSUME NEW r \in Reqs, GetAuth(r)
        PROVE  [Lifecycle!Next]_<<clock, slots>>
    <2>1. arg[r].id \in Ids /\ UNCHANGED <<kind, clock>>
      BY <1>4, ArgType DEF GetAuth
    <2>2. CASE UNCHANGED auth
      BY <1>1, <2>1, <2>2
    <2>3. CASE ~UNCHANGED auth
      <3>1. /\ auth' = [auth EXCEPT ![arg[r].id] = None] /\ kind = "memory"
            /\ Live(auth[arg[r].id]) = None
        BY <1>4, <2>3 DEF GetAuth
      <3>2. auth[arg[r].id] = None \/ auth[arg[r].id].exp <= clock
        <4>1. CASE auth[arg[r].id] # None
          <5>1. auth[arg[r].id] \in Doc /\ clock \in Nat
            BY <2>1, <4>1 DEF GoInv, StoreType
          <5>2. ~(clock <= auth[arg[r].id].exp)
            BY <3>1, <4>1, <5>1, KeyType DEF Live
          <5>. QED  BY <5>1, <5>2 DEF Doc
        <4>. QED  BY <4>1
      <3>. QED  BY <2>1, <3>1, <3>2, RefineDelete DEF Lifecycle!Next
    <2>. QED  BY <2>2, <2>3
  <1>5. ASSUME NEW r \in Reqs, MarkAuth(r)
        PROVE  [Lifecycle!Next]_<<clock, slots>>
    BY <1>5, RefineMark DEF Lifecycle!Next
  <1>6. ASSUME NEW r \in Reqs, MarkSet(r)
        PROVE  [Lifecycle!Next]_<<clock, slots>>
    BY <1>1, <1>2, <1>6 DEF MarkSet
  <1>7. ASSUME NEW i \in Ids, Purge(i)
        PROVE  [Lifecycle!Next]_<<clock, slots>>
    BY <1>7, RefineDelete DEF Purge, Reclaimable, Lifecycle!Next
  <1>8. CASE Tick
    <2>1. clock' = clock + 1 /\ UNCHANGED slots
      BY <1>0, <1>8 DEF Tick, slots, Slot
    <2>. QED  BY <2>1 DEF Lifecycle!Next, Lifecycle!Pass, slots
  <1>. QED  BY <1>1, <1>3, <1>4, <1>5, <1>6, <1>7, <1>8, AuthSteps

\* Over MongoDB and over its own memory the Go service implements the abstract lifecycle
\* of the Python one: a live mapping is never replaced and only ever moves into grace.
THEOREM GoRefinesLifecycle == Spec => GoImplementsLifecycle
  <1>1. Init => Lifecycle!Init
    BY DEF Init, Lifecycle!Init, Slot
  <1>2. GoInv /\ [Next]_vars
        => [Lifecycle!Next]_<<clock, [i \in Ids |-> IF kind = "redis" THEN None ELSE Slot(auth[i])]>>
    BY GoRefineStep DEF slots
  <1>. QED
    BY <1>1, <1>2, GoInit, GoStep, PTL
       DEF Spec, GoImplementsLifecycle, Lifecycle!Spec
=============================================================================

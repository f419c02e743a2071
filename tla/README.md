# Verification of the PII masking service

TLA+ models, TLC runs and TLAPS proofs for the masking service in `src/`: a FastAPI
application (`src/app`) that masks personal data in Russian texts before they go to an
LLM and restores it in the answer, and a Go port of it (`src/go-service`).

## 1. The system

A client posts `{payload, payload_id}` to `/process`. The first text under an id is
masked and a mapping is stored for it; the same text again is a retry of the mask; any
other text under the id is a demask. There is no other session state, so what a
request does depends on the record the store shows it.

| Component | State | Operations | Interacts with |
|---|---|---|---|
| Request protocol, `core/process_service.py`, `api/routes.py` | none of its own; the record it has read, the record it has built | `process`, `_first_request`, `_answer_without_storage`, `_transition_to_grace` | pipeline, mapping store, demasker |
| Resilient store, `storage/resilient_store.py` | two circuit breakers per worker | `save_if_absent`, `get` with backfill, `mark_demasked` | MongoDB and Redis, through the breakers |
| MongoDB repository, `storage/mongo_store.py` | documents with `expires_at`; a dict of ids waiting for their grace update | insert or claim an expired document, read, enqueue, bulk flush, TTL purge | a background flush loop per worker |
| Redis cache, `storage/redis_store.py` | keys with a ttl | get, set | the resilient store |
| Admission control, `admission/` | requests in flight, outstanding work, EWMA rates, a cached memory reading | `try_acquire`, `release`, load state, Retry-After | ASGI middleware, breaker states |
| Masking pipeline, `core/pipeline.py`, `context/`, `policies/`, `replacement/engine.py` | none across requests | overlap resolution, contextual decision, relationship rule, policy, splice | detectors |
| Entity resolution, `entity_resolution/`, `replacement/identity.py` | what is known of each person while a document is read | link a mention or introduce a person, number the groups | name detector |
| Surrogates, `replacement/engine.py`, `synthetic_values.py` | surrogates given out in the document | draw, retry on collision, fall back to a token, render | morphology |
| Demasker, `demasking/demasker.py` | none | needles of every mapping, longest-first resolution, splice | the stored mappings |
| Detectors, `detectors/` | none | regular expressions, checksums, dictionary lookups | pipeline |
| Consumers and settings, `config/` | read at start | resolve the consumer of a key | protocol, policy |
| Go service, `go-service/` | the same as the Python service, without consumers and without batches; breakers of two atomics | `Process`, `firstRequest`, `answerWithoutStorage`, a gate, stores and text processing of its own | MongoDB with Redis, Redis alone, or memory |

What is hard here: requests of all workers interleave between any two backend calls and
no lock spans two of them; a write that failed may have been applied; documents expire
under requests; the cache, the authority and the pending batches of the workers disagree
for a while; breakers are moved by calls that began in another state; a stored offset or
a shared surrogate gives one person's data to another. `PROJECT.json` lists these as
`hazards`, each at its line and with the properties that would notice it going wrong.

## 2. Modules

| Module | Models | Proofs |
|---|---|---|
| `MappingLifecycle` | abstract: what the store promises for an id | |
| `ProcessProtocol` | request protocol, resilient store, MongoDB repository, Redis cache, several workers | `ProcessProtocol_proofs` |
| `CircuitBreaker` | one breaker, of either service, and the threads that call through it | `CircuitBreaker_proofs` |
| `Admission` | admission controller and its middleware, and the gate of the Go service | `Admission_proofs` |
| `MaskPipeline` | overlap resolution, context and relationship rules, splicing, re-splicing from stored occurrences, for both services | `MaskPipeline_proofs` |
| `EntityResolution` | merging of mentions, numbering of entities | `EntityResolution_proofs` |
| `Surrogates` | drawing, masking and value-based demasking | `Surrogates_proofs` |
| `GoSurrogates` | the same of the Go service (extends `Surrogates`) | |
| `ValueSurrogates` | partial masks and synthetic numbers of both services against the detectors' formats and checksums (extends `GoSurrogates`) | `Surrogates_proofs` |
| `GoService` | the protocol and the stores of the Go port | `GoService_proofs` |
| `FoldTheorems` | nothing: lemmas on minimal elements, maxima, folds and sums that the proofs share | |

The `MC...` modules give the constants their small values. `MCGuards` puts the breaker and
the gate side by side in one run, `MCReplacement` entity resolution and surrogates: each
behaviour is one of either part while the other part rests, so nothing is said about
their interaction. For the gate that is enough because `Admission` lets the circuits be
in any state at any time, for surrogates because their documents come with entities of
any kind. `ProcessProtocol` and
`GoService` compose with `MappingLifecycle` by refinement: both are shown to implement
it. Texts, the pipeline and the demasker are parameters of the protocol modules;
`MaskPipeline`, `EntityResolution` and `Surrogates` model them.

Operators marked *Seeded fault* are plausible wrong versions of a definition. No
specification uses them; with one in the place of the definition it varies, the
property named in `PROJECT.json` ("mutants") fails.

### ProcessProtocol

One step is one backend call of one request, because that is where the code can be
interrupted. `pc[r]` is where a request is in `process`: `getCache`, `getAuth` and
`backfill` are `ResilientMappingStore.get`; `decide` compares fingerprints; `insert`,
`reclaim` and `cacheSave` are `save_if_absent`, with the two calls that claim an expired
document apart; `markAuth`, `takeBatch`, `flush`, `markGet` and `markPut` are
`mark_demasked`, whose authority half only puts the id into `pending[w]` and, at the
batch limit, swaps the dict and writes the batch itself. `FlushLoop` is the background
thread. Every call can fail; a failed write may have been applied. A breaker that
refuses a call looks to the caller like a failure, so the breakers are not part of this
module. `Crash` loses everything a worker holds in memory, `Evict` a Redis key, `Purge`
is MongoDB's TTL monitor. `persisted` and `graceEnd` are history variables.

### CircuitBreaker

Threads ask `allow`, call without the lock and record the outcome. The counter and the
ages stop counting at the threshold and the cooldown, beyond which no comparison
changes. `enqueue` is `mark_demasked` of the authority, which does not leave the
process.

The Go store has the same fields as two atomics: `allow` loads one and then the other
(`GoAsk`, `GoPeek`), `success` and `failure` store them one after the other (`GoSuccess`,
`GoClear`; `GoFailure`, `GoStamp`), and other goroutines run in between. A failed
backfill or cache write is recorded, a successful one is not (`GoFollow`). The counter at
the threshold with no stamp lets every call through; `OutageNoticed` shows that this
state does not last while the backend is down.

### Admission

A request is one step up to the `await` of the application and one after it. EWMA rates
and the latency are any of a set of values at every step, since they depend on real
time. Retry-After is computed in tenths of a second, ties in its rounding go up, and the
header has whole seconds. `port` chooses the service: the Go gate has no memory reading
and no storage modifier. A body without a declared length counts as 0 bytes in Python
and as -1 in Go, and passes the size limit in both.

### MaskPipeline

A character is a distinct atom, so equal texts mean that every character is in its
place; a place is a character in Python and a byte in Go. What each detector finds is
the input (`Reports`); in Python a detector that raises is skipped, so the candidates
come from any subset of the detectors (`DetectAll`, `Findings`). Where the keywords
stand and how long the words are that they begin is input too. The window of a candidate
is its sentence (`SentenceBounds`), cut at its neighbours (`AttributedWindow`); a
keyword in it counts at the start of a word and with at most `MaxTail` more places of
that word (`KeywordHit`): two characters in Python, four bytes in Go. What makes a
word is input, so the Go rule that every byte from 0x80 on belongs to one is a choice of
keywords. The public words of an address are counted in its window and, in Python, once
more in the value alone (`Organizational`). Overlaps are resolved, decided on and spliced loop by loop;
`ApplyMask` and `ApplyDemask` are the re-splicing of an exact retry and an exact demask.
`port` chooses the service: Go sorts by start instead of confidence (`GoBefore`),
measures the distance of a PIN from its card over their outer ends (`GoNearby`), has no
consumers and no list of well-known surnames.

### EntityResolution

A mention has at most one word per role, normalized, and possibly initials; the name
detector gives every word a role (`AssignRoles`). Mentions are visited in text order and
compared with what each entity has learnt so far; then all decisions are grouped by
identity key.

### Surrogates

A text is a sequence of words in pieces that a separator keeps apart. A draw may be any
member of the pool, which covers every seed. Inflection is a parameter. The reply is
any arrangement of kept words, tokens and surrogates in any form and case the demasker
knows; what each piece was meant to say is kept beside it, and the demasker sees only
the words.

`GoSurrogates` reuses texts, documents and draws. The Go service gives an entity one
synthetic text, uses it for mentions in the nominative (names and cardholders alike) and
a token for the others, keeps its last draw whatever it is, and restores pass by pass
(`Passes`): the tokens, mapping after mapping, then the synthetic texts in the same
order, each pass over the output of the one before. One of the documents has a token in a kept
text and another one in an original.

`ValueSurrogates` looks into the numbers that are one word elsewhere. A format is the
set of shapes a detector's regular expression matches, a digit is a number, and the
draws are arithmetic progressions, which include the numbers themselves: this is how a
draw comes to repeat the original. Phases and modes have names of their own, so that the
three modules share variables and one run.

### GoService

The same kind of model as `ProcessProtocol` for the Go code: `MarkDemasked` writes to
MongoDB at once and then reads and writes the Redis key, a document is readable at the
instant it expires, and `firstRequest` ignores whether its insert won. `kind` is the
store that `main.go` has chosen. With Redis alone the insert is SETNX and
`MarkDemasked` a read and a write of the whole record; in memory each is under a mutex.

## 3. Runs

| Run | Instance | Shows |
|---|---|---|
| `protocol` | one worker with two slots, one id, three submissions, texts with and without PII, one consumer that may demask, one that may not, one disabled; clock to 2, ttl 2, grace 1 | `TypeOK`; `AnswersJustified`: an answer follows from a record the authority stored for the id, or from a text without PII; `Durable`: a stored mapping is held until its ttl, or the grace window of its id's first demask, is over; `ImplementsLifecycle` |
| `protocol_liveness` | two workers, a batch limit of 1, two submissions | every request is answered, pending ids drain |
| `grace_retry` | one worker, prompt calls, violation | a demask retry extends a running grace window |
| `guards` | a breaker or a gate. Breaker: three threads, threshold 3, cooldown 2, any of the four. Gate: three connections for two places, bodies of 0, 3, 9 and undeclared bytes against a limit of 5, either service | `OpenedByStreak`, `FailFast`, `Recovers`, `OutageNoticed`; `WithinLimits`, `WorkAccounted`, `IdleAdmits`, `RetryClamped`, `RetryGrows` and `CriticalClears`, the recovery from CRITICAL |
| `breaker_enqueue` | one thread, violation | an enqueue closes the circuit of a dead MongoDB |
| `mask_pipeline` | a text of twelve places with a blank line and a full stop: all sets of up to three candidates of six kinds in its first half, and pairs over the whole of it in every wording of a public and a private keyword, which may run into a candidate; either service | disjoint spans; `KeptForCause`: an address, or a name that is not on the list of well-known surnames, is kept only for a public word of its own; `PrivateWins`: a private word about it masks it; exact offsets, both round trips, nothing masked remains and nothing else is lost |
| `well_known_surname` | the same, violation | a surname on the list is enough to keep a name |
| `replacement` | all documents of up to four decisions out of thirteen; six documents, all draws, all replies of up to two pieces, either service; eighteen numbers of eight types, a hundred draws each | `NoFalseMerge`, `MergeEvidence`, `EntityIds`; `SurrogatesReturn`, `FullFormsUnshared`, `KeptTextStays`; `GoSurrogatesReturn`: a piece that the other passes leave alone is restored; `SyntheticDetected`: a synthetic number is one the detectors find; `DigitsLikeDiffers`; `MaskTraced`: a partial mask has a run of stars |
| `alias_ambiguity` | one of these six documents, violation | two identities with one first name and surname |
| `go_redemask` | the document with tokens of its own, violation | a piece of a reply that no other pass looks for is rewritten after it was restored |
| `go_service` | two goroutines, one id, three submissions, two texts with PII, each kind of store | `GoAnswersJustified`, `GoImplementsLifecycle` (MongoDB and memory), `GoRedisKeeps`: over Redis alone a live mapping is lost only to a demask of an earlier one |
| `go_race` | the same, violation | the loser of a first-request race answers its own mask |

Why the bounds are enough to be interesting. Ids do not interact except in a batch, so
one id with two requests gives every race on a document; three submissions let a third
one meet what two have left behind. A ttl of 2 and a grace of 1 let a mapping expire
before, in and after a request, and let grace shorten a lease. Three threads are needed
for a late failure and a late success around an opening circuit. Three candidates are
enough for a chain in which the outer two do not overlap, two for one in the window of
the other; keywords stand alone, with an ending that either service accepts, with one
that only Go does, with one too long for both, and inside a word. Four mentions are enough for two entities and a mention that fits both. Two
pieces are enough for a splice to shift what follows it.

`CHECK_DEADLOCK FALSE` stands where behaviours end by design: the protocol runs stop
when the submissions are spent, the algorithm runs when the algorithm is done. Slots of
one worker, and goroutines, are interchangeable, which the symmetry sets of `protocol`,
`go_service` and `go_race` use; the runs with liveness use none.

### Fairness

`ProcessProtocol`: a request that has started is a thread of the pool and runs until
its handler returns, every backend call has a timeout, and the flush loop of a worker
never ends; hence weak fairness of `Advance(r)` and `FlushLoop(w)`. Submissions, the
clock, crashes and purges need not happen, and no call need succeed. `CircuitBreaker`:
time passes, threads finish and requests keep arriving; the last is needed because only
a call can close a circuit. `Admission`: handlers end, a second passes, and requests
keep arriving, since only requests and `/health` refresh the memory reading.

### Findings

Six runs refute what the repository says of itself; `PROJECT.json` quotes the lines.

* `grace_retry`. Whether a mapping is in grace is decided from the copy a request has
  read. When the cache update of the first demask was lost, a retry still reads ACTIVE
  and the bulk write moves `expires_at` again. The run excludes crashes and evictions
  and lets the clock move only when nothing is in progress, so slow calls are not needed
  for it.
* `breaker_enqueue`. With grace batching, `mark_demasked` of the authority is a dict
  update, but `_auth_call` counts it as a successful call: after the cooldown the first
  demask closes the circuit of a MongoDB that is still down.
* `alias_ambiguity`. Only full nominal names are kept apart within a document. Two
  synthetic identities that share first name and surname share the two-word form, and
  value-based demasking restores the first person's name for the second's mention.
* `well_known_surname`. `_decide_full_name` gives a surname of the list two public
  points and keeps a name with any public point and no private one (`engine.py:62` and
  `89`), so «Пушкин» without any keyword stays in the clear. The comment on the list
  (`fio.py:36`) says it is never sufficient on its own to keep.
* `go_redemask`. `fuzzyDemask` replaces mapping after mapping in its own output, and a
  later pass finds its token or synthetic text in an original that an earlier one has
  just put back. `ARCH.md` says of tokens that restored originals are not substituted
  again, and the README of the port counts the demask among what is ported 1:1.
* `go_race`. `firstRequest` answers its own transform after losing the insert, so a
  masked text is handed out that nobody can demask; the Python service answers from the
  winner's record or with 409.

### Observations

Behaviour met while modelling that no document contradicts, or that a property leaves
out and says so.

* Traces of a mask (`process_service.py:219`). The initials of a partially masked name,
  and the mask of a card without two neighbouring digits between its first and last four
  (written digit by digit, or `41 1 1 1 ...`), have no run of stars. While the storage is
  down such a text is answered as one without personal data.
* The window of a name contains the name. A first name that is a keyword (a novel, in
  Russian, is a «роман») keeps a private person's name in the clear.
* A detector that raises is skipped, so what it would have found stays in the text,
  while every failure of the storage is fail-closed.
* `synDigitsLike` redraws with a prefix of 0, so a phone number whose first draw repeats
  the original may lose its leading 7 or 8.
* Keywords in Go are matched in bytes. Every byte of « » and — is a byte of a word, so a
  keyword in such quotes or right after a dash is not counted; and an ASCII ending may
  have four letters where the Python rule allows two.
* A kept text in which a token of the document stands is rewritten by both demaskers;
  neither masker looks for tokens in the source text.
* The Go relationship rule measures outer ends, the Python one the gap, with the same
  limit.
* Over Redis alone a slow `MarkDemasked` may write an expired record over the mapping
  another text has stored since.

## 4. Proofs

TLAPS proves the following for every value of the constants.

| Theorem | States |
|---|---|
| `TypeCorrect` | `Spec => []TypeOK` of the protocol |
| `FailClosed` | `Spec => []AnswersJustified` |
| `MappingsDurable` | `Spec => []Durable` |
| `StoreRefinesLifecycle` | `Spec => ImplementsLifecycle` |
| `GoAnswersFollow` | `Spec => []GoAnswersJustified`, over each of the three stores |
| `GoRefinesLifecycle` | `Spec => GoImplementsLifecycle` (MongoDB and memory) |
| `GoRedisLosesOnlyToLateDemask` | `Spec => GoRedisKeeps`: over Redis alone, what removes a live mapping is the late write of a demask |
| `BreakerConsistent`, `BreakerFailsFast` | `OpenedByStreak`, `FailFast` |
| `GateWithinLimits`, `GateCountsWork`, `GateIdleAdmits` | `WithinLimits`, `WorkAccounted`, `IdleAdmits` |
| `RetryWithinRange`, `RetryNeverShrinks` | `RetryClamped`, `RetryGrows` |
| `ResolutionDisjoint`, `ResolutionCovers` | `Disjoint`, `Covered` |
| `ClearOnlyForCause`, `PrivateAlwaysWins` | `KeptForCause`, `PrivateWins` |
| `SpliceOffsets`, `OnlyMaskedDisappears`, `OccurrencesRoundTrip` | `OffsetExact`, `OnlyMaskedGone`, `RoundTrip` |
| `MergesAgree`, `MergesHaveEvidence`, `IdsFollowIdentity` | `NoFalseMerge`, `MergeEvidence`, `EntityIds` |
| `FullFormsTell`, `KeptTextIsKept` | `FullFormsUnshared`, `KeptTextStays` |
| `NumbersDiffer`, `NumbersAreFound`, `MasksLeaveATrace` | `DigitsLikeDiffers`, `SyntheticDetected`, `MaskTraced` |

### Assumptions

Each is an `ASSUME` of the module that declares the constants, so every run evaluates it
on its instance.

* Protocol: `ConstantsAssumption`, `PipelineAssumption`, `NoneAssumption`: sets are
  included in each other as their names say, times are natural numbers, a text without
  mappings is left as it is, and `None` is no value. Nothing is assumed about ttl, grace,
  batch limit, or the number of workers, requests and ids. `GoAssumption` and
  `NoneAssumption` of `GoService` say the same of the Go service.
* `BreakerAssumption`: threshold and cooldown are positive.
* `AdmissionAssumption`: sizes and costs are natural numbers. `SettingsAssumption`: no
  accepted body outweighs the backlog, a byte costs no more than a request, and the
  clamps are in order and whole seconds. It holds of the default settings;
  `RetryWithinRange`, `RetryNeverShrinks` and `GateIdleAdmits` need it.
* Pipeline: `CandidatesAssumption`, `WordsAssumption`: candidates are non-empty spans of
  the text, a detector finds finitely many, and no keyword contains the end of a
  sentence. `TextAssumption`: no replacement is empty. Two adjacent empty ones
  would have the same masked offset, by which the demask puts them in order. `AtomsAssumption` is the modelling of characters by
  places (`OnlyMaskedGone` can then say which character is gone).
* Entities: `DecisionsAssumption`, `WordsAssumption`: decisions are mentions or values.
* Surrogates: `DocumentsAssumption`: an entity is a person, a cardholder or a value, and
  a text is a sequence of items, each a sequence of words. `SeparatorAssumption`: what
  joins the pieces of a text is no word of a name, a value or a token.
  `TokensAssumption`: tokens are numbered and no value of a pool is one.
  `NamesAssumption`: no identity of the pools has, in any shape and case, the words of
  another one's full name. It is a fact about `MALE_FIRST` and the other lists of
  `synthetic_values.py`, whose names have different stems and whose patronymics tell the
  gender; a list with two patronymics alike in one case would break it, and with it
  `FullFormsUnshared`. `ValuesAssumption`: a number is of one of eight types and has a
  digit, and a draw is as many digits as are asked for. What else a number looks like
  follows from the detector having found it.

### The invariants

* `FailClosed` needs `TypeInv` (`TypeOK` and, at each program point, what a request
  holds) and `Provenance`: every record anywhere, in a document, in the cache, read or
  about to be cached by a request, was persisted by the authority for that id. Without
  it nothing is known of what a cache hit returns. `persisted` only grows, so an answer
  once justified stays so.
* `MappingsDurable` needs `LeaseInv`: a document outlives its ttl or the first grace
  window of its id, whichever ends first (`AuthLease`); a document about to be inserted
  carries the lease of the moment it was built (`OwnLease`); what waits in a pending
  dict or a built batch is stamped no earlier than the first demask of the id
  (`PendingLease`, `GraceFirst`); and what was persisted is held, or its time is over
  (`Kept`). `Durable` alone is not inductive: it does not say why a late batch or a late
  insert cannot shorten a lease.
* `StoreRefinesLifecycle` maps the document of an id to the register. A successful or a
  lost insert and a claim are `Store`, a bulk write is `EnterGrace`, the TTL monitor is
  `Purge`, the clock is `Pass`, and all other steps leave the register alone.
* `GoInv` is the counterpart for the Go service: types, what a request holds at each
  label (`LocalOK`), that everything in the authority, in the cache and in a request was
  stored for its id (`StoreProvenance`, `Sourced`), and what a request is about to write
  (`Intends`). `Sourced` must say of the document on its way into the cache that it is
  the one the authority took: `firstRequest` ignores who won the insert, but `SaveIfAbsent`
  caches only what was inserted. Two frame lemmas cut the work: a step is a step of one
  request, over a store that only remembers more. `GoRedisKeeps` follows from `Intends`,
  since a write over a live key can only be that of `markSet`.
* `BreakerInv` is `TypeOK` with `OpenedByStreak`, which is inductive; `FailFast` follows
  step by step, since a thread that starts has seen a state other than open. Both are
  about the breaker with a lock; of the Go breaker, whose fields disagree for a while,
  the type is proved and the rest is model-checked.
* `GateInv` is `AdmissionTypeOK`, `WithinLimits` and that finitely many tickets are out, which
  the cardinality in `WithinLimits` needs.
* `WorkAccounted` is inductive with `GateInv`, given what a sum over a finite set does
  when one element is added or removed (`SumRemove`).
* `RetryNeverShrinks` is a chain of monotone steps: rounded division, products, maxima
  and the clamps each keep the order (`RetryOrdered`).
* `RetryWithinRange` needs the range of every computed wait (`RetryInRange`): both clamps
  lie in it, and so does their rounding up to seconds because the limits are whole
  seconds. `GateInv` supplies that work and rates are natural numbers.
* `PipelineInv` adds that candidates are visited in rank order and that spans not yet
  spliced lie behind the cursor; disjointness of the taken spans is what keeps the
  cursor from passing them.
* `ClearOnlyForCause` and `PrivateAlwaysWins` rest on one lemma about windows: a keyword
  is inside the window of a candidate exactly when it stands in its sentence, within the
  radius and on its side of every neighbour (`WindowIsAttributable`), and one that counts
  in the value of an address alone lies in that window too (`OwnWords`). The window is
  computed with maxima and minima of sets of offsets; the property says it with
  quantifiers.
* `VisibleInv` says which characters are in the text built so far: those up to the
  cursor but for the masked spans. `OnlyMaskedGone` alone speaks of the end only.
* `Reversible` says that the text built so far, whatever is appended to it, is rebuilt
  from the occurrences stored so far, in both directions (`BuiltFrom`). That the rest is
  arbitrary makes it inductive: re-splicing goes from left to right, so the occurrence
  stored last is applied last, to what the others have rebuilt (`RebuiltAdd`).
* `ResolutionInv` says what an entity knows and why: every part was said by a member
  (`Sourced`), and it knows what each member said (`Learnt`), so members agree with each
  other because they agree with what is known. Initials were verified against known
  parts, or the entity was introduced by initials, knows no first name and has no other
  member (`InitialsKnown`); without the second case a later mention could contradict
  initials that were never verified.
* `IdInv` adds what `EntityIds` needs: the persons partition the mentions
  (`Partition`), in order of first appearance (`InOrder`); a group holds all decisions
  passed so far with its key, keys are distinct, and numbers within a type grow with
  the groups and leave out none (`GroupsOK`). `InOrder` is what makes the n-th person
  to appear the n-th group, although the two loops number independently.
* `DrawInv` says that what a mapping holds was drawn for its entity, that its nominal
  form was put into `used`, and that no two mappings have the same one. `FullFormsTell`
  then goes from forms to draws: a full form that two entities share would, by
  `NamesAssumption`, be of one identity, whose nominal form both would have. Two-word
  forms have no such argument, and `alias_ambiguity` shows them shared.
* `NumbersDiffer` needs that a redrawn number has its digits where the original has
  them, so that the last digit, raised by one, is a digit that was there (`NthRange`,
  `MaxOf`).
* `KeptTextIsKept` needs `DrawInv` and `KeptInv`: nothing drawn occurs in the source text
  in its nominal form nor, in any case, in two of its words (`Clean`, which the collision
  check establishes and the fallback to a token keeps), and the kept pieces of a reply
  are items of the document (`FromItems`). A find of the demasker in a reply of such
  pieces (`KeptOnly`) would lie inside one kept piece, because the separator is in no needle
  (`FoundInPiece`), hence in the source (`PieceInText`), where no needle but a token or a
  name with initials can be: a full name in another case begins with two of its
  words (`NeedleElsewhere`). Nothing is found, so nothing is replaced
  (`NothingApplied`). The initials had to be excluded by hypothesis, and so had the
  tokens: the code compares neither with the source text.
* `NumbersAreFound` needs `FoundInv`: until a number is replaced it is one the detector
  has found, which fixes how many digits are drawn. A sum whose last summand is the check
  digit is that digit plus the rest (`TotalLast`, `CheckDigitFits`); the check digit of a
  taxpayer number depends on the digits before it only (`InnCheckDigit`), so the second
  one does not disturb the first; the digits of a grouped card are the digits it was made
  of (`CardGrouped`, `DigitsListed`); and `digits_like` keeps the first of several digits
  even when it moves the last one on (`FirstStays`).
* `MasksLeaveATrace` takes the formats apart: a chain of parts is unrolled part by part
  (`ChainRuns`), so that a part of m digits stands in every text of the chain
  (`ChainBlock`): three in a phone number, six in a passport or licence. Three digits in
  a row are not all the first digit, and six in a row not all among the first and last
  two (`ThreeHidden`, `SixHidden`).

The installed provers cannot instantiate an induction theorem over a predicate.
`FoldTheorems` states induction over sets instead: a non-empty set of counterexamples
has a least one (`LeastElement`, `MinimalFamily`). From it come what `Max`, `Min`, sums
and folds over sets return, and a fold is replaced by the sequence of its rounds.

### Only model-checked

* Liveness (`EveryRequestAnswered`, `PendingDrains`, `Recovers`, `OutageNoticed`,
  `CriticalClears`) is outside the prover's reach.
* `SurrogatesReturn` speaks of a choice among overlapping finds of many forms in a text
  of many pieces; it holds only of pools and morphologies with few coincidences, which no
  short assumption captures.
* `GoSurrogatesReturn` needs an induction over the passes and, within a pass, over the
  scan of `replaceWordBounded`; it is not proved.
* The six violations are counterexamples on the instances of their runs.
* The atomics of the Go breaker: only its type is proved.

## 5. Not modelled

* Detectors other than those of numbers (names by their words, in `EntityResolution`,
  excepted), word lists and settings parsing: what they find and decide is the input of
  the models. Dates, addresses, e-mails and the initials of a partially masked name are
  texts put together from parts; no property tells their characters apart.
* The Python service over Redis alone or over the in-memory store; the Go service is
  modelled over both. `update` and `delete`, which the application does not call, and
  UNCERTAIN decisions, which it does not switch on.
* HTTP parsing, UI, metrics and logging, which hold no protocol state. The kinds of
  answers stand for the responses.
* The Go name detector and its identity keys.
* Known limits of the properties: `KeptTextStays` leaves out kept texts in which a token
  or a drawn name with initials stands, which the collision check does not look at; `SurrogatesReturn` leaves out
  surfaces two entities share (see `alias_ambiguity`), `GoSurrogatesReturn` pieces
  that another pass disturbs (see `go_redemask`); forms of a mention that
  the demasker does not search for stay masked in a reworded text.

## 6. Plan

Done, in this order: protocol and lifecycle, breaker, admission, pipeline, entity
resolution, Go service, surrogates and demasker; then the context rules, the breaker,
gate, pipeline, surrogates and other stores of the Go service, and the numbers; then
the proofs of what is not liveness, up to kept texts, made-up numbers and traces. Next:

1. Proofs: that splicing from right to left replaces exactly the chosen spans of
   `Surrogates` (half of `SurrogatesReturn`), along the lines of `OccurrencesRoundTrip`;
   `GoSurrogatesReturn`, by a least pass that disturbs a piece; how far the fields of the Go breaker may disagree.
2. A property of a late batch that meets a newer mapping of its id.
3. The Python service over Redis alone.

------------------------- MODULE MCProcessProtocol -------------------------
(***************************************************************************)
(* Small instances of ProcessProtocol.  "a" carries PII, "n" does not;     *)
(* "a1" and "a2" are "a" masked under the policies of c1 and c2.  c2 may   *)
(* not demask and c3 is disabled.                                          *)
(***************************************************************************)
EXTENDS ProcessProtocol, TLC

CONSTANTS c1, c2, c3, r1, r2, w1, w2

MCPipeline(i, x, c) ==
    IF x # "a" THEN x ELSE IF c = c1 THEN "a1" ELSE "a2"

MCHasPii(x, c) == x = "a"

MCTrace == {"a1", "a2"}

\* Every token of the text is replaced by the original, if the record has mappings.
MCFuzzy(i, y, x, c) == IF y \in MCTrace /\ MCHasPii(x, c) THEN x ELSE y

TwoWorkers == (r1 :> w1) @@ (r2 :> w2)
OneWorker == [r \in Reqs |-> w1]

\* Slots of one worker are interchangeable.
ReqSymmetry == Permutations(Reqs)

\* No worker dies, Redis keeps its keys, and calls and flushes take no time that
\* matters: the clock moves only when no request and no batch is in progress.
Quiet ==
    /\ \A r \in Reqs : pc[r] = "idle"
    /\ \A w \in Workers : pending[w] = {} /\ batch[w] = None
PromptNext ==
    \/ \E r \in Reqs : Submit(r) \/ Advance(r)
    \/ \E w \in Workers : FlushLoop(w)
    \/ Quiet /\ Tick
PromptSpec == Init /\ [][PromptNext]_vars
=============================================================================

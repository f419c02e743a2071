---------------------------- MODULE MCGoService ----------------------------
(* "a" and "b" carry PII, "n" does not; "a1" and "b1" are their masked forms. *)
EXTENDS GoService, TLC

MCBuildTransform(i, x) == CASE x = "a" -> "a1" [] x = "b" -> "b1" [] OTHER -> x

MCHasPii(x) == x \in {"a", "b"}

MCTrace == {"a1", "b1"}

MCFuzzyDemask(i, y, x) == IF y \in MCTrace /\ MCHasPii(x) THEN x ELSE y

ReqSymmetry == Permutations(Reqs)
=============================================================================

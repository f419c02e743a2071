--------------------------- MODULE MCReplacement ---------------------------
(***************************************************************************)
(* Who is who in a document, and what stands in for whom: the two halves   *)
(* of replacement.  Surrogates takes the entities of a document as given,  *)
(* of whatever number and kind, so a behaviour is one of either half, and  *)
(* the other one rests.                                                    *)
(***************************************************************************)
EXTENDS MCSurrogates, MCEntityResolution

SurrogatesRest ==
    /\ phase = "rest" /\ mode = "TOKEN" /\ doc = <<>> /\ attempt = 0
    /\ maps = <<>> /\ used = {} /\ out = <<>> /\ reply = <<>> /\ result = <<>>

ResolutionRest ==
    /\ stage = "rest" /\ decisions = <<>> /\ next = 1 /\ entities = <<>> /\ groups = <<>>

ReplacementInit ==
    \/ ResolveInit /\ SurrogatesRest
    \/ (Init \/ GoInit \/ ValueInit) /\ ResolutionRest

ReplacementNext ==
    \/ ResolveNext /\ UNCHANGED vars
    \/ (Next \/ GoNext \/ ValueNext) /\ UNCHANGED resolveVars

ReplacementSpec == ReplacementInit /\ [][ReplacementNext]_<<vars, resolveVars>>
=============================================================================

---------------------------- MODULE AtomicRestore ----------------------------
(***************************************************************************)
(* What an offline restore promises: a bundle of files is put in place as  *)
(* a whole or not at all, none of them changes while the outcome is open,  *)
(* and the workspace is reopened only once there is an outcome.            *)
(***************************************************************************)
EXTENDS FiniteSets

CONSTANTS Target, Image

VARIABLES
    workspace,  \* bytes of each target, as the application sees them
    phase,      \* "open", "pending" (no outcome yet) or "decided"
    bundle      \* the files being replaced, with their new bytes

vars == <<workspace, phase, bundle>>

NoBundle == << >>
Bundles == UNION {[files -> Image] : files \in (SUBSET Target) \ {{}}}

Init ==
    /\ workspace \in [Target -> Image]
    /\ phase = "open" /\ bundle = NoBundle

\* A file outside the bundle changes.
Write(t) ==
    /\ t \notin DOMAIN bundle
    /\ \E image \in Image : workspace' = [workspace EXCEPT ![t] = image]
    /\ UNCHANGED <<phase, bundle>>

Begin ==
    /\ phase = "open" /\ phase' = "pending"
    /\ bundle' \in Bundles
    /\ UNCHANGED workspace

Commit ==
    /\ phase = "pending" /\ phase' = "decided"
    /\ workspace' = [t \in Target |->
                       IF t \in DOMAIN bundle THEN bundle[t] ELSE workspace[t]]
    /\ UNCHANGED bundle

Abandon ==
    /\ phase = "pending" /\ phase' = "decided"
    /\ UNCHANGED <<workspace, bundle>>

Reopen ==
    /\ phase = "decided" /\ phase' = "open"
    /\ bundle' = NoBundle
    /\ UNCHANGED workspace

Next == (\E t \in Target : Write(t)) \/ Begin \/ Commit \/ Abandon \/ Reopen

Spec == Init /\ [][Next]_vars
=============================================================================

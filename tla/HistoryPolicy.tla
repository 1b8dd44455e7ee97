---------------------------- MODULE HistoryPolicy ----------------------------
(***************************************************************************)
(* What an offline restore promises about recorded history, in one line    *)
(* each.  RestoreRecovery relies on it at every admission; RestoreHistory  *)
(* models the row-by-row inspection that keeps the promise.  Both databases *)
(* are summarised as                                                       *)
(*   claims     the provider mutations whose attempt is recorded           *)
(*   authority  credentials, sessions and other state that may not revive  *)
(*   cleanup    whether a provider cleanup is still owed                   *)
(***************************************************************************)

\* Mutant of HistoryPreserved: a backup may lack a recorded attempt.
HistoryWithoutClaims(current, candidate) ==
    /\ ~current.cleanup /\ ~candidate.cleanup
    /\ current.authority = candidate.authority

\* Recorded attempts are kept, authority is exactly the current one, and no
\* provider cleanup is forgotten or revived.
HistoryPreserved(current, candidate) ==
    /\ ~current.cleanup /\ ~candidate.cleanup
    /\ current.claims \subseteq candidate.claims
    /\ current.authority = candidate.authority
=============================================================================

---------------------------- MODULE UploadOutcome ----------------------------
(***************************************************************************)
(* What an upload session promises its client: the outcome of an upload is *)
(* decided at most once, and a decided outcome is final. One step may      *)
(* decide several uploads, as the expiry of a batch of sessions does.      *)
(***************************************************************************)
CONSTANT Uploads

VARIABLE outcome

Outcomes == {"undecided", "stored", "discarded"}

Init == outcome = [u \in Uploads |-> "undecided"]

Decide(decided) ==
    /\ decided # {}
    /\ \A u \in decided : outcome[u] = "undecided"
    /\ outcome' \in [Uploads -> Outcomes]
    /\ \A u \in Uploads : outcome'[u] = outcome[u] <=> u \notin decided

Next == \E decided \in SUBSET Uploads : Decide(decided)

Spec == Init /\ [][Next]_outcome
==============================================================================

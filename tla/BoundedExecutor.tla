--------------------------- MODULE BoundedExecutor ---------------------------
(***************************************************************************)
(* What the download queue promises: a file is run from a waiting line, at *)
(* most limit files at a time, and once for every time it was submitted;   *)
(* only a file that failed is submitted again. Lowering the limit stops    *)
(* nothing, but nothing is started above it.                               *)
(***************************************************************************)
EXTENDS Naturals, FiniteSets

CONSTANTS Files, MaxLimit

VARIABLES state, limit

States == {"absent", "waiting", "running", "failed", "done"}

\* The states a file can reach from a state within one step.
After == [absent  |-> {"absent", "waiting", "running", "done"},
          waiting |-> {"waiting", "running", "done"},
          running |-> {"running", "failed", "done"},
          failed  |-> {"failed", "waiting", "running"},
          done    |-> {"done"}]

Running(s) == {f \in Files : s[f] = "running"}

Init == state = [f \in Files |-> "absent"] /\ limit \in 1..MaxLimit

Next ==
    /\ state' \in [Files -> States]
    /\ limit' \in 1..MaxLimit
    /\ \A f \in Files : state'[f] \in After[state[f]]
    /\ Running(state') \subseteq Running(state) \/ Cardinality(Running(state')) <= limit'

Spec == Init /\ [][Next]_<< state, limit >>
==============================================================================

----------------------------- MODULE MCPipeline -----------------------------
(***************************************************************************)
(* Instances of Pipeline for model checking.                               *)
(***************************************************************************)
EXTENDS Pipeline, TLC

\* Alerts, catalogs, task slots, dispatchers and notifier runs are interchangeable.
Symmetry ==
    Permutations(Alerts) \cup Permutations(Catalogs) \cup
    Permutations(Tasks) \cup Permutations(Dispatchers) \cup Permutations(Notifiers)
=============================================================================

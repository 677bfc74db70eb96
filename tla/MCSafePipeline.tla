--------------------------- MODULE MCSafePipeline ---------------------------
(***************************************************************************)
(* Instances of SafePipeline for model checking.                           *)
(***************************************************************************)
EXTENDS SafePipeline, TLC

\* Alerts, catalogs, task slots, dispatchers and notifier runs are interchangeable.
Symmetry ==
    Permutations(Alerts) \cup Permutations(Catalogs) \cup
    Permutations(Tasks) \cup Permutations(Dispatchers) \cup Permutations(Notifiers)
=============================================================================

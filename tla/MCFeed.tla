------------------------------- MODULE MCFeed -------------------------------
(* Feed on small instances: ids are numbers because a query answers in id   *)
(* order, the slots are interchangeable model values.                       *)
EXTENDS Feed, TLC

Slots == Permutations(Loads) \cup Permutations(Uploads) \cup Permutations(Taps)
=============================================================================

------------------------------- MODULE MCChat -------------------------------
(* Chat on small instances: messages are numbers because dateTime orders    *)
(* them; the devices of a run are interchangeable, and so are their slots.  *)
EXTENDS Chat, TLC

Symmetries == Permutations(Devices) \cup Permutations(Slots)
=============================================================================

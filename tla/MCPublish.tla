----------------------------- MODULE MCPublish ------------------------------
(* Publish on small instances: files and slots are interchangeable.         *)
EXTENDS Publish, TLC

Symmetries == Permutations(Files) \cup Permutations(Posts)
=============================================================================

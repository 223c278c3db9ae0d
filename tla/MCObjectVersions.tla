-------------------------- MODULE MCObjectVersions --------------------------
(* Instances of ObjectVersions for TLC.                                    *)
EXTENDS ObjectVersions, TLC

\* requests and object ids are interchangeable
Symmetry == Permutations(Objs) \cup Permutations(Reqs)
=============================================================================

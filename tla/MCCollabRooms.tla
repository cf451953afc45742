--------------------------- MODULE MCCollabRooms ---------------------------
(* Connections may reach any pod, so pods and writers are interchangeable.  *)
EXTENDS CollabRooms, TLC

Symmetry == Permutations(Pods) \cup Permutations(Writers)
============================================================================

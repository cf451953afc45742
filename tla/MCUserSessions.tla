--------------------------- MODULE MCUserSessions ---------------------------
(* Model values of UserSessions for TLC. *)
EXTENDS UserSessions, TLC

Symmetry == Permutations(Users) \cup Permutations(Requests)

=============================================================================

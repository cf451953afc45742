------------------------- MODULE MCShadowMigration -------------------------
(* Model values of ShadowMigration for TLC. *)
EXTENDS ShadowMigration, TLC

Symmetry ==
  Permutations(Models) \cup Permutations(Admins) \cup Permutations(Embedders)
    \cup Permutations(Pages)

=============================================================================

------------------------ MODULE MCPageWriteAdmission ------------------------
(* Small instances of PageWriteAdmission for TLC. *)
EXTENDS PageWriteAdmission, TLC

Symmetry == Permutations(Runtimes) \cup Permutations(Intents) \cup Permutations(Pages)

=============================================================================

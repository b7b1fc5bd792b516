------------------------ MODULE MCLedgerCommands ------------------------
(* Instances of LedgerCommands for TLC. *)
EXTENDS LedgerCommands, TLC

Symmetry == Permutations(Keys) \cup Permutations(Accounts)
=============================================================================

------------------------------- MODULE MCLsp -------------------------------
(* Lsp for TLC: a server that must hear of every text to keep its document.   *)
EXTENDS Lsp, TLC

MCKinds == {[opens |-> TRUE, change |-> "incremental"]}

LspSymmetry == Permutations(Call) \cup Permutations(Texts)
=============================================================================

---------------------------- MODULE MCPromptForms ----------------------------
(* PromptForms for TLC: what agents ask for, and symmetry.                  *)
EXTENDS PromptForms, TLC

(* Two fields; the first of them alone, and the second.                     *)
OneAsk == {<<1, 2>>}
AllAsks == {<<1, 2>>, <<1>>, <<2>>}

Symmetry == Permutations(Agents) \cup Permutations(Humans)
=============================================================================

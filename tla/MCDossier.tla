------------------------------ MODULE MCDossier ------------------------------
(* Files of cards, split or photocopied, and of pages nothing recognised.  *)
EXTENDS Dossier

MCMaxPages == [kept \in BOOLEAN |-> IF kept THEN 2 ELSE 3]

MCFilePageTypes == {"INE_FRONT", "INE_BACK", "UNKNOWN"}
=============================================================================

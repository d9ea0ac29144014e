------------------------- MODULE MCTemplateValidator -------------------------
(* TemplateValidator on a small instance; the callers are interchangeable. *)
EXTENDS TemplateValidator, TLC

CallerSymmetry == Permutations(Callers)
=============================================================================

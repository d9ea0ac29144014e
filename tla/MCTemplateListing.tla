-------------------------- MODULE MCTemplateListing --------------------------
(* TemplateListing on a small instance. *)
EXTENDS TemplateListing
=============================================================================

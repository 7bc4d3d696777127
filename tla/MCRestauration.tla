---------------------------- MODULE MCRestauration ----------------------------
(* Two threads.                                                            *)
EXTENDS Restauration

MCFils == {"f1", "f2"}
=============================================================================

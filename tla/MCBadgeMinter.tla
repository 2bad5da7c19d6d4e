---------------------------- MODULE MCBadgeMinter ----------------------------
(* Model values for checking BadgeMinter. *)
EXTENDS BadgeMinter
==============================================================================

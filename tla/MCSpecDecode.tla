---------------------------- MODULE MCSpecDecode ----------------------------
(* SpecDecode on small instances: drafts of two tokens, a page of four       *)
(* positions and blocks of two, a ring of three.                             *)
EXTENDS SpecDecode
=============================================================================

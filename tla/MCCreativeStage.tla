-------------------------- MODULE MCCreativeStage --------------------------
(* Instance of CreativeStage for TLC: every selection of up to three distinct *)
(* personas out of three known ones and one the catalog does not know.        *)
EXTENDS CreativeStage
=============================================================================

-------------------------- MODULE MCCapableLearner --------------------------
(* The live lesson with its learner, over the catalogues of MCCatalog.     *)
EXTENDS CapableLearner, MCCatalog
=============================================================================

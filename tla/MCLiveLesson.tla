---------------------------- MODULE MCLiveLesson ----------------------------
(* The live lesson over the catalogues of MCCatalog.                       *)
EXTENDS LiveLesson, MCCatalog
=============================================================================

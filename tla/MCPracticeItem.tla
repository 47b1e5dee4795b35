--------------------------- MODULE MCPracticeItem ---------------------------
(* Every lesson with content.                                              *)
EXTENDS PracticeItem

AllLessons == Lessons
=============================================================================

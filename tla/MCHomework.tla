------------------------------- MODULE MCHomework ------------------------------
(* One homework run of two items.                                          *)
EXTENDS Homework
================================================================================

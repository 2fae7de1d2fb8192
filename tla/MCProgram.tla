----------------------------- MODULE MCProgram -----------------------------
(***************************************************************************)
(* Program for TLC: two names, one page with hooks, and entries of the log *)
(* for main and for one of them.                                           *)
(***************************************************************************)
EXTENDS Program

MCPage == {"page"}
=============================================================================

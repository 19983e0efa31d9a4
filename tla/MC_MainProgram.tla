---------------------------- MODULE MC_MainProgram ----------------------------
(* Model-checking instance of MainProgram: --symbols strings of up to four *)
(* characters over one letter and ','.                                     *)
EXTENDS MainProgram

MC_Alphabet == {"A"}
=============================================================================

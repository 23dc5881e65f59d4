------------------------------- MODULE Absent -------------------------------
(***************************************************************************)
(* What an Option holds when it holds nothing, for every module that uses  *)
(* one.                                                                    *)
(***************************************************************************)
CONSTANT None
=============================================================================

------------------------------ MODULE MCTraps ------------------------------
(***************************************************************************)
(* Traps for TLC: bytes of two values, so that every field of a gate and   *)
(* of the TSS descriptor holds a part of the address; the timer and a      *)
(* masked line; exceptions with and without an error code, and with and    *)
(* without a stack of their own.                                           *)
(***************************************************************************)
EXTENDS Traps

MCLines == {0, 1}
MCFaults == {0, 11, 14}

=============================================================================

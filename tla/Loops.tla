------------------------------- MODULE Loops --------------------------------
(***************************************************************************)
(* A loop of n rounds, written as a recursive function so that it can be   *)
(* reasoned about (module LoopProofs).                                     *)
(***************************************************************************)
EXTENDS Naturals

\* Op applied n times, first to a.
Iterate(Op(_), n, a) ==
    LET f[i \in 0..n] == IF i = 0 THEN a ELSE Op(f[i - 1]) IN f[n]
=============================================================================

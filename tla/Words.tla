------------------------------- MODULE Words --------------------------------
(***************************************************************************)
(* The machine word of src/hellfireos/lib/libc/libc.c: W bits (32 in the  *)
(* build), held as its unsigned bit pattern 0 .. WordMod - 1.  Shared by  *)
(* the whole-routine models of LibArith and the step-by-step loop models. *)
(***************************************************************************)
EXTENDS Integers

CONSTANT W   \* bits of a word: 32 in the build

ASSUME WAssumption == W \in Nat /\ W >= 2 /\ W % 2 = 0

WordMod == 2^W
Word == 0 .. WordMod - 1

(* An arithmetic fact the provers cannot derive (they do not reason about *)
(* ^ with a symbolic exponent); TLC evaluates it on every run.             *)
ASSUME WordModPositive == WordMod \in Nat \ {0}

=============================================================================

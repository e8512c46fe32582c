------------------------------- MODULE SafeVals -------------------------------
(***************************************************************************)
(* The counters of hub/safevals.go: unsigned words, which wrap around.  A  *)
(* call is one atomic addition, so each operation is one step of whoever   *)
(* calls it; sub adds the complement, for lack of an atomic subtraction.   *)
(***************************************************************************)
EXTENDS Integers

CONSTANT Modulus   \* how many words there are: 2^32 for a uint32

ASSUME WordAssumption == Modulus \in Nat /\ Modulus > 1

Word == 0..Modulus - 1

Complement(x) == Modulus - 1 - x

Add(i, x) == (i + x) % Modulus
Sub(i, x) == Add(i, Complement((x - 1) % Modulus))
Inc(i) == Add(i, 1)
Dec(i) == Sub(i, 1)

===============================================================================

------------------------------ MODULE Indexing ------------------------------
(***************************************************************************)
(* The continuous-indexing arithmetic of keeper/math.go.  A present amount *)
(* is what the bank module sees, a principal amount is what accrues: one   *)
(* unit of principal is worth index / Scale units of $USDN.                *)
(*                                                                         *)
(* Scale is the literal 1e12 of the code.  The arithmetic only ever uses   *)
(* ratios of an index to it, so small values of Scale exercise every       *)
(* rounding case.                                                          *)
(***************************************************************************)
EXTENDS Integers

CONSTANT Scale

ASSUME ScaleAssumption == Scale \in Nat \ {0}

(***************************************************************************)
(* math.Int.Quo divides towards zero, unlike \div which rounds down.  The  *)
(* two differ on negative principals, which the module can produce.        *)
(***************************************************************************)
Quo(a, b) == IF a >= 0 THEN a \div b ELSE -((-a) \div b)

GetPrincipalAmountRoundedUp(presentAmount, index) ==
    Quo(presentAmount * Scale + index - 1, index)

GetPrincipalAmountRoundedDown(presentAmount, index) ==
    Quo(presentAmount * Scale, index)

GetPresentAmount(principalAmount, index) ==
    Quo(principalAmount * index, Scale)

=============================================================================

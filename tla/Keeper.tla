------------------------------- MODULE Keeper --------------------------------
(***************************************************************************)
(* What the handlers of the vaults and of external yield have in common:   *)
(* the accounts that act, the unit of decimals, and the outcome of a call. *)
(***************************************************************************)
EXTENDS Token, SequencesExt

CONSTANTS
    User,           \* accounts that lock and unlock, or send $USDN to other chains
    Precision       \* 10^18: the unit of LegacyDec

\* A call returns whether it succeeded and what it has written until then: an
\* error does not undo it, only the caller's transaction does.
Ok(s)   == [ok |-> TRUE, store |-> s]
Fail(s) == [ok |-> FALSE, store |-> s]

=============================================================================

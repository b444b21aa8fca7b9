------------------------------ MODULE MCToken -------------------------------
(***************************************************************************)
(* Token for TLC.  Issuance makes the supply unbounded, and splitting and  *)
(* merging transfers moves principal between two accounts without bound,   *)
(* so the steps are cut off at the three bounds below.                     *)
(***************************************************************************)
EXTENDS Token

CONSTANTS
    MaxSupply,      \* bound on the supply
    MaxPrincipal,   \* bound on the magnitude of an account's principal
    MaxBurns        \* bound on the burns between two index updates

WithinBounds ==
    /\ ledger.supply <= MaxSupply
    /\ \A a \in Account : ledger.principal[a] \in -MaxPrincipal .. MaxPrincipal
    /\ burns <= MaxBurns

MCNext == Next /\ WithinBounds'

MCSpec == Init /\ [][MCNext]_vars

=============================================================================

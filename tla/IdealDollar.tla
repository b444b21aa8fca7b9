----------------------------- MODULE IdealDollar -----------------------------
(***************************************************************************)
(* What $USDN promises, without principals, roundings, peers or bank       *)
(* modules.  Holders have balances.  Coins come into being in two ways     *)
(* only: for a deposit message, each of which counts once, and as yield,   *)
(* when the index rises.  They disappear in one way only, against a        *)
(* message that carries them to another chain.  A balance that its holder  *)
(* does not touch never shrinks.                                           *)
(*                                                                         *)
(* Portal implements this specification.                                   *)
(***************************************************************************)
EXTENDS Integers, Sequences, Functions

CONSTANTS
    Holder,     \* accounts that hold coins
    Pot,        \* the holder that keeps the unclaimed yield
    Sink,       \* holders that are paid their yield without asking
    Message,    \* the messages of other chains
    Credit      \* message -> holder -> the coins it deposits

VARIABLES
    balance,    \* holder -> coins
    yield,      \* the yield accrued so far
    index,
    accepted,   \* the messages that were accepted
    outbox      \* the coins that left, with the index they left at

idealVars == <<balance, yield, index, accepted, outbox>>

Init ==
    /\ balance = [h \in Holder |-> 0]
    /\ yield = 0
    /\ index > 0
    /\ accepted = {}
    /\ outbox = <<>>

\* Coins change hands.
Move(from, to, amount) ==
    /\ amount <= balance[from]
    /\ balance' = [h \in Holder |-> balance[h]
                       - (IF h = from THEN amount ELSE 0)
                       + (IF h = to THEN amount ELSE 0)]
    /\ UNCHANGED <<yield, index, accepted, outbox>>

\* What a message deposits arrives, and nobody else's balance changes.
Deposit(message) ==
    /\ balance' = [h \in Holder |-> balance[h] + Credit[message][h]]
    /\ UNCHANGED <<yield, index>>

\* The same with a higher index.  The yield goes to the pot, from which sinks
\* may be paid at once; no coin but deposits and yield is new.
DepositAndAccrue(message) ==
    /\ index' > index
    /\ yield' >= yield
    /\ \A h \in Holder \ (Sink \cup {Pot}) : balance'[h] = balance[h] + Credit[message][h]
    /\ \A h \in Sink : balance'[h] >= balance[h] + Credit[message][h]
    /\ SumFunction(balance') = SumFunction(balance) + SumFunction(Credit[message])
                               + (yield' - yield)

Accept(message) ==
    /\ message \notin accepted
    /\ accepted' = accepted \cup {message}
    /\ Deposit(message) \/ DepositAndAccrue(message)
    /\ UNCHANGED outbox

\* Coins leave for another chain.
Redeem(holder, amount) ==
    /\ amount <= balance[holder]
    /\ balance' = [balance EXCEPT ![holder] = @ - amount]
    /\ outbox' = Append(outbox, [amount |-> amount, index |-> index])
    /\ UNCHANGED <<yield, index, accepted>>

Next ==
    \/ \E message \in Message : Accept(message)
    \/ \E from \in Holder, to \in Holder \ {Pot} :
           \E amount \in 1 .. balance[from] : Move(from, to, amount)
    \/ \E holder \in Holder \ {Pot} :
           \E amount \in 1 .. balance[holder] : Redeem(holder, amount)

Spec == Init /\ [][Next]_idealVars

=============================================================================

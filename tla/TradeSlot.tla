------------------------------ MODULE TradeSlot ------------------------------
(***************************************************************************)
(* What the trade panel promises an account that trades a token: one trade *)
(* at a time.  A trade first takes the account's slot, then asks the       *)
(* wallet for one transaction, and the slot is not given back while the    *)
(* fate of that transaction is open.  The user may waive the promise       *)
(* ("Abandoning recovery can cause a duplicate trade"), after which it is  *)
(* void for that account.                                                  *)
(***************************************************************************)
CONSTANTS Accounts, Trades

VARIABLES
    slot,       \* per account: "free", "held" or "waived"
    open        \* per account: the trades whose transaction may still be mined

slotVars == <<slot, open>>

SlotTypeOK ==
    /\ slot \in [Accounts -> {"free", "held", "waived"}]
    /\ open \in [Accounts -> SUBSET Trades]

SlotInit ==
    /\ slot = [a \in Accounts |-> "free"]
    /\ open = [a \in Accounts |-> {}]

Take(a) ==
    /\ slot[a] = "free"
    /\ slot' = [slot EXCEPT ![a] = "held"]
    /\ UNCHANGED open

Ask(a) ==
    /\ slot[a] = "held" /\ open[a] = {}
    /\ \E r \in Trades : open' = [open EXCEPT ![a] = {r}]
    /\ UNCHANGED slot

\* The transaction was mined, reverted or replaced, or never left the wallet.
Settle(a) ==
    /\ slot[a] # "waived" /\ open[a] # {}
    /\ open' = [open EXCEPT ![a] = {}]
    /\ UNCHANGED slot

\* The client learns that nothing is open, or finds out as it gives up.
Release(a) ==
    /\ slot[a] = "held"
    /\ open' = [open EXCEPT ![a] = {}]
    /\ slot' = [slot EXCEPT ![a] = "free"]

\* From here on anything may happen to this account.
Waive(a) ==
    /\ \E S \in SUBSET Trades : open' = [open EXCEPT ![a] = S]
    /\ slot' = [slot EXCEPT ![a] = "waived"]

SlotNext == \E a \in Accounts : Take(a) \/ Ask(a) \/ Settle(a) \/ Release(a) \/ Waive(a)

SlotSpec == SlotInit /\ [][SlotNext]_slotVars

OneOpenTrade ==
    \A a \in Accounts :
      slot[a] # "waived" =>
        /\ \A r, s \in open[a] : r = s
        /\ slot[a] = "free" => open[a] = {}
=============================================================================

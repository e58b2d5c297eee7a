---------------------------- MODULE MCTradePanel ----------------------------
(* Instances of TradePanel for TLC. *)
EXTENDS TradePanel, TLC

CONSTANTS a1, a2, t1

PanelSymmetry == Permutations(Accounts)
\* A second trade that is a sale is begun before anything is disturbed, and disturbed
\* only after its allowance is read; a second purchase is disturbed at any time.
SecondSaleFirst ==
    \A j \in jobs' : j.op = 2 /\ j.stage = "allowance" => disturbances' = 0
=============================================================================

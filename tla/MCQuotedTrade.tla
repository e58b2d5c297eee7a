---------------------------- MODULE MCQuotedTrade ----------------------------
(***************************************************************************)
(* Instances of QuotedTrade for TLC: the deployed curve scaled down.  The  *)
(* virtual token reserve is 4/3 of the curve allocation, rounded up, and   *)
(* the graduation reserve three times the virtual native reserve, as in    *)
(* EndpointConstantsV3; the fee is one part in four so that it is seen to  *)
(* round on small amounts.  A quote lives half as long as its deadline.    *)
(***************************************************************************)
EXTENDS QuotedTrade

CONSTANTS t1, t2

MCTraders == {t1, t2}
MCGrossInputs == {13}
MCPayments == {0, 1, 2, 7, 13, 25}
MCTokenInputs == {21}
MCTransferAmounts == {21}
MCMinOuts == {0}
MCStrayTokens == {21}
MCStrayNative == {6}
MCTolerances == {1, 3}

(* A quote is made in time for its deadline to pass before the clock ends. *)
DeadlineInSight == ticket'.stage # "idle" => ticket'.deadline < MaxTime
=============================================================================

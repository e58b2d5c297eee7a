----------------------------- MODULE CooketCurve -----------------------------
(***************************************************************************)
(* One CooketCurveV3 with the ERC-20 balances of its token and the native  *)
(* balances of everyone it pays.  buy and sell are atomic transactions; a  *)
(* call that reverts leaves no trace and is a step not taken.  What the    *)
(* model adds to the contract is its environment: token holders who move   *)
(* tokens by plain ERC-20 transfers, to each other or to the curve itself, *)
(* and native value forced into the curve past its reverting receive().    *)
(*                                                                         *)
(* The block deadline of buy and sell only rules transactions out, so it   *)
(* is left out; the slippage bound is kept.                                *)
(*                                                                         *)
(* Definitions marked "Variant" are faulty forms of the one that follows   *)
(* them, not part of the specification; the README says which property     *)
(* each of them breaks.                                                    *)
(***************************************************************************)
EXTENDS CurveMath, FiniteSets

CONSTANTS
    Traders,
    Curve, FeeManager, GraduationManager,   \* the contracts' accounts
    InitialNative,      \* native USDC each trader starts with
    GrossInputs,        \* msg.value of a buy
    TokenInputs,        \* tokensIn of a sell
    TransferAmounts,    \* amounts of an ERC-20 transfer between holders
    MinOuts,            \* slippage bounds
    StrayTokens,        \* amounts of token transferred to the curve itself
    Payments,           \* amounts the properties ask quotes for
    StrayNative         \* amounts of native value forced into the curve

Accounts == Traders \union {Curve, FeeManager, GraduationManager}

ASSUME AccountsDistinct ==
    /\ Curve \notin Traders /\ FeeManager \notin Traders
    /\ GraduationManager \notin Traders
    /\ Curve # FeeManager /\ Curve # GraduationManager
    /\ FeeManager # GraduationManager

ASSUME InputsType ==
    /\ InitialNative \in Nat
    /\ GrossInputs \subseteq Nat /\ TokenInputs \subseteq Nat
    /\ TransferAmounts \subseteq Nat
    /\ MinOuts \subseteq Nat /\ Payments \subseteq Nat
    /\ StrayTokens \subseteq Nat /\ StrayNative \subseteq Nat

VARIABLES
    soldSupply,
    activeReserve,      \* activeNativeUsdcReserve
    terminalReserve,    \* terminalGraduationReserve
    forwarded,          \* graduationNativeUsdcForwarded
    graduated,
    tokens,             \* balanceOf of the launch token
    native              \* native-USDC balances

books == <<soldSupply, activeReserve, terminalReserve, forwarded, graduated>>
vars == <<books, tokens, native>>

TypeOK ==
    /\ soldSupply \in 0..CurveAllocation
    /\ activeReserve \in 0..GraduationReserve
    /\ terminalReserve \in {0, GraduationReserve}
    /\ forwarded \in {0, GraduationReserve}
    /\ graduated \in BOOLEAN
    /\ tokens \in [Accounts -> Nat]
    /\ native \in [Accounts -> Nat]

Init ==
    /\ soldSupply = 0
    /\ activeReserve = 0
    /\ terminalReserve = 0
    /\ forwarded = 0
    /\ graduated = FALSE
    /\ tokens = [a \in Accounts |-> IF a = Curve THEN TotalSupply ELSE 0]
    /\ native = [a \in Accounts |-> IF a \in Traders THEN InitialNative ELSE 0]

-----------------------------------------------------------------------------
(* Views *)

\* The coordinate prices are quoted from: the active reserve, and after
\* graduation the reserve that has been forwarded.
reserveCoordinate == IF graduated THEN terminalReserve ELSE activeReserve

virtualTokenReserve == VirtualTokenReserve - soldSupply
virtualNativeReserve == VirtualNativeReserve + reserveCoordinate

-----------------------------------------------------------------------------
\* buy below the endpoint: tokens to the buyer, the fee to the fee manager,
\* the net input kept as reserve (the refund is zero).
BuyBelowEndpoint(t, q) ==
    /\ ~q.reaches
    /\ soldSupply' = soldSupply + q.tokensOut
    /\ activeReserve' = activeReserve + q.net
    /\ tokens' = [tokens EXCEPT ![Curve] = @ - q.tokensOut, ![t] = @ + q.tokensOut]
    /\ native' = [native EXCEPT ![t] = @ - q.accepted,
                                ![Curve] = @ + q.net,
                                ![FeeManager] = @ + q.fee]
    /\ UNCHANGED <<terminalReserve, forwarded, graduated>>

\* Variant: the forwarded reserve is still counted as redeemable.
BuyToGraduationKeepsReserve(t, q) ==
    /\ q.reaches
    /\ tokens[Curve] - q.tokensOut = LPAllocation
    /\ soldSupply' = soldSupply + q.tokensOut
    /\ graduated' = TRUE
    /\ terminalReserve' = activeReserve + q.net
    /\ forwarded' = activeReserve + q.net
    /\ activeReserve' = activeReserve + q.net
    /\ tokens' = [tokens EXCEPT ![Curve] = 0,
                                ![GraduationManager] = @ + LPAllocation,
                                ![t] = @ + q.tokensOut]
    /\ native' = [native EXCEPT ![t] = @ - q.accepted,
                                ![Curve] = @ - activeReserve,
                                ![FeeManager] = @ + q.fee,
                                ![GraduationManager] = @ + activeReserve + q.net]

\* The buy that reaches the endpoint graduates in the same transaction:
\* _graduate forwards the whole reserve and the LP allocation.
BuyToGraduation(t, q) ==
    /\ q.reaches
    /\ tokens[Curve] - q.tokensOut = LPAllocation
    /\ soldSupply' = soldSupply + q.tokensOut
    /\ graduated' = TRUE
    /\ terminalReserve' = activeReserve + q.net
    /\ forwarded' = activeReserve + q.net
    /\ activeReserve' = 0
    /\ tokens' = [tokens EXCEPT ![Curve] = 0,
                                ![GraduationManager] = @ + LPAllocation,
                                ![t] = @ + q.tokensOut]
    /\ native' = [native EXCEPT ![t] = @ - q.accepted,
                                ![Curve] = @ - activeReserve,
                                ![FeeManager] = @ + q.fee,
                                ![GraduationManager] = @ + activeReserve + q.net]

buy(t, gross, minTokensOut) ==
    LET q == QuoteBuy(soldSupply, activeReserve, gross)
    IN  /\ ~graduated
        /\ native[t] >= gross
        /\ BuyQuoteOK(soldSupply, activeReserve, gross, q)
        /\ q.tokensOut >= minTokensOut
        /\ BuyBelowEndpoint(t, q) \/ BuyToGraduation(t, q)

\* Variant: the reserve shrinks by what the seller gets, not by what leaves.
sellForgetsFee(t, tokensIn, minNativeOut) ==
    LET q == QuoteSell(soldSupply, activeReserve, tokensIn)
    IN  /\ ~graduated
        /\ tokens[t] >= tokensIn
        /\ SellQuoteOK(soldSupply, activeReserve, tokensIn, q)
        /\ q.netOut >= minNativeOut
        /\ soldSupply' = soldSupply - tokensIn
        /\ activeReserve' = activeReserve - q.netOut
        /\ tokens' = [tokens EXCEPT ![t] = @ - tokensIn, ![Curve] = @ + tokensIn]
        /\ native' = [native EXCEPT ![Curve] = @ - q.grossOut,
                                    ![FeeManager] = @ + q.fee,
                                    ![t] = @ + q.netOut]
        /\ UNCHANGED <<terminalReserve, forwarded, graduated>>

sell(t, tokensIn, minNativeOut) ==
    LET q == QuoteSell(soldSupply, activeReserve, tokensIn)
    IN  /\ ~graduated
        /\ tokens[t] >= tokensIn
        /\ SellQuoteOK(soldSupply, activeReserve, tokensIn, q)
        /\ q.netOut >= minNativeOut
        /\ soldSupply' = soldSupply - tokensIn
        /\ activeReserve' = activeReserve - q.grossOut
        /\ tokens' = [tokens EXCEPT ![t] = @ - tokensIn, ![Curve] = @ + tokensIn]
        /\ native' = [native EXCEPT ![Curve] = @ - q.grossOut,
                                    ![FeeManager] = @ + q.fee,
                                    ![t] = @ + q.netOut]
        /\ UNCHANGED <<terminalReserve, forwarded, graduated>>

-----------------------------------------------------------------------------
(* The environment *)

\* ERC-20 transfer between holders.
transfer(from, to, amount) ==
    /\ from # to
    /\ amount > 0 /\ tokens[from] >= amount
    /\ tokens' = [tokens EXCEPT ![from] = @ - amount, ![to] = @ + amount]
    /\ UNCHANGED <<books, native>>

\* Native value that reaches the curve without a call (receive() reverts).
ForceNative(t, amount) ==
    /\ amount > 0 /\ native[t] >= amount
    /\ native' = [native EXCEPT ![t] = @ - amount, ![Curve] = @ + amount]
    /\ UNCHANGED <<books, tokens>>

\* Everything an account may do to the curve without the web client.
Move(t) ==
    \/ \E gross \in GrossInputs, m \in MinOuts : buy(t, gross, m)
    \/ \E n \in TokenInputs, m \in MinOuts : sell(t, n, m)
    \/ \E to \in Traders, n \in TransferAmounts : transfer(t, to, n)
    \/ \E n \in StrayTokens : transfer(t, Curve, n)
    \/ \E n \in StrayNative : ForceNative(t, n)

Next == \E t \in Traders : Move(t)

Spec == Init /\ [][Next]_vars

-----------------------------------------------------------------------------
(* Properties *)

\* The reserve is a function of the supply sold, whatever trades led here: the
\* smallest reserve that keeps the virtual product at or above K.  Rounding
\* neither favours a trader nor piles up over a sequence of dust trades.
ReserveFollowsSupply == virtualNativeReserve = CeilDiv(K, virtualTokenReserve)

\* Graduation happens exactly at the endpoint: an open curve is strictly below
\* it in both coordinates, a graduated one has sold everything, holds no
\* principal and has forwarded exactly the graduation reserve.
GraduationIsExact ==
    IF graduated
    THEN /\ soldSupply = CurveAllocation
         /\ activeReserve = 0
         /\ terminalReserve = GraduationReserve
         /\ forwarded = GraduationReserve
    ELSE /\ soldSupply < CurveAllocation
         /\ activeReserve < GraduationReserve
         /\ terminalReserve = 0
         /\ forwarded = 0

\* What the curve owes is in its accounts whatever is sent to it: the redeemable
\* reserve in native USDC and, until graduation, the unsold inventory and the LP
\* allocation in tokens.
CurveIsBacked ==
    /\ native[Curve] >= activeReserve
    /\ ~graduated => tokens[Curve] >= TotalSupply - soldSupply

\* On an open curve no buy or sell of a legal amount fails for a reason of the
\* curve's own arithmetic (underflow, InsufficientReserve, insufficient
\* inventory, GraduationAccountingMismatch): only dust is refused.
QuotesNeverBreak ==
    ~graduated =>
        /\ \A gross \in Payments \ {0} :
             LET q == QuoteBuy(soldSupply, activeReserve, gross)
             IN  /\ q.refund >= 0
                 /\ activeReserve + q.net <= GraduationReserve
                 /\ 0 <= q.tokensOut
                 /\ q.tokensOut <= CurveAllocation - soldSupply
        /\ \A n \in 1..soldSupply :
             LET q == QuoteSell(soldSupply, activeReserve, n)
             IN  0 <= q.grossOut /\ q.grossOut <= activeReserve

\* Buying and selling straight back never returns more than the net input, even
\* before the fees of the sale.
NoRoundTripProfit ==
    ~graduated =>
        \A gross \in Payments :
            LET b == QuoteBuy(soldSupply, activeReserve, gross)
                s == QuoteSell(soldSupply + b.tokensOut, activeReserve + b.net,
                               b.tokensOut)
            IN  BuyQuoteOK(soldSupply, activeReserve, gross, b) /\ ~b.reaches
                    => s.grossOut <= b.net
=============================================================================

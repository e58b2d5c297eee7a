------------------------------ MODULE CurveMath ------------------------------
(***************************************************************************)
(* The arithmetic of one Cooket V3 bonding curve: the shifted constant     *)
(* product, the trading fee and the two quotes                             *)
(* (contracts/src/v3/CooketCurveV3.sol, libraries/EndpointConstantsV3.sol).*)
(* A quote is a function of the curve's two coordinates, the tokens sold   *)
(* and the native-USDC reserve.  A quote that would revert in Solidity is  *)
(* a record for which BuyQuoteOK or SellQuoteOK is false; the fields keep  *)
(* the values the code computed up to there, so that a subtraction that    *)
(* would underflow shows as a negative field.                              *)
(*                                                                         *)
(* Definitions marked "Variant" are faulty forms of the one that follows.  *)
(***************************************************************************)
EXTENDS Integers

CONSTANTS
    CurveAllocation,        \* CURVE_ALLOCATION: tokens the curve may sell
    LPAllocation,           \* LP_ALLOCATION: tokens kept for the V3 position
    VirtualTokenReserve,    \* VIRTUAL_TOKEN_RESERVE
    VirtualNativeReserve,   \* VIRTUAL_NATIVE_USDC_RESERVE
    GraduationReserve,      \* GRADUATION_NATIVE_USDC_RESERVE
    TotalFeeBps,            \* TOTAL_FEE_BPS
    FeeDenominator          \* FEE_DENOMINATOR

TotalSupply == CurveAllocation + LPAllocation

K == VirtualTokenReserve * VirtualNativeReserve

\* Solidity's _ceilDiv
CeilDiv(numerator, denominator) ==
    IF numerator = 0 THEN 0 ELSE (numerator - 1) \div denominator + 1

\* NET_GROSS_ADJUSTMENT_DENOMINATOR
NetGrossAdjustment == (FeeDenominator - TotalFeeBps) \div TotalFeeBps

ASSUME CurveConstantsType ==
    /\ CurveAllocation \in Nat \ {0}
    /\ LPAllocation \in Nat
    /\ VirtualTokenReserve \in Nat
    /\ VirtualTokenReserve > CurveAllocation
    /\ VirtualNativeReserve \in Nat \ {0}
    /\ GraduationReserve \in Nat \ {0}

\* The fee is one part in FeeDenominator \div TotalFeeBps (1% in the code),
\* a whole number of at least two: NET_GROSS_ADJUSTMENT_DENOMINATOR is exact.
ASSUME FeeConstantsType ==
    /\ TotalFeeBps \in Nat \ {0}
    /\ FeeDenominator \in Nat
    /\ FeeDenominator % TotalFeeBps = 0
    /\ FeeDenominator >= 2 * TotalFeeBps

\* The endpoint the constants are tuned for: the curve price at the graduation
\* reserve leaves exactly the curve allocation sold, and one unit of reserve
\* earlier it does not.  The deployed constants satisfy it.
ASSUME EndpointConstants ==
    /\ VirtualTokenReserve - CeilDiv(K, VirtualNativeReserve + GraduationReserve)
         = CurveAllocation
    /\ VirtualTokenReserve - CeilDiv(K, VirtualNativeReserve + GraduationReserve - 1)
         < CurveAllocation

\* Tokens are divided finer than their price: at every point of the curve one
\* unit of token costs less than one unit of native USDC (the deployed price
\* runs from 2.3e-6 to 3.6e-5).
ASSUME FinePrice ==
    VirtualTokenReserve - CurveAllocation >= VirtualNativeReserve + GraduationReserve

-----------------------------------------------------------------------------
(* Fees *)

\* splitFee(gross).totalFee
TotalFee(gross) == (gross * TotalFeeBps) \div FeeDenominator

NetOf(gross) == gross - TotalFee(gross)

\* Variant: the fee is charged on one unit too much.
GrossOffByOne(net) == net + net \div NetGrossAdjustment + 1

\* The inverse of NetOf the code computes in O(1).
GrossRequiredForNet(net) ==
    IF net = 0 THEN 0 ELSE net + (net - 1) \div NetGrossAdjustment

-----------------------------------------------------------------------------
(* Quotes *)

\* quoteBuy(gross) on a curve that has sold `sold' tokens and holds `reserve'.
QuoteBuy(sold, reserve, gross) ==
    LET netNeeded == GraduationReserve - reserve
        accepted  == IF NetOf(gross) >= netNeeded
                     THEN GrossRequiredForNet(netNeeded) ELSE gross
        post      == reserve + NetOf(accepted)
        reaches   == post = GraduationReserve
    IN  [ accepted  |-> accepted,
          fee       |-> TotalFee(accepted),
          net       |-> NetOf(accepted),
          refund    |-> gross - accepted,
          reaches   |-> reaches,
          tokensOut |-> IF reaches
                        THEN CurveAllocation - sold
                        ELSE VirtualTokenReserve - sold
                               - CeilDiv(K, VirtualNativeReserve + post) ]

\* No revert in quoteBuy: DustTrade, GraduationAccountingMismatch,
\* InsufficientCurveInventory and the underflow checks.
BuyQuoteOK(sold, reserve, gross, q) ==
    /\ gross > 0
    /\ q.refund >= 0
    /\ reserve + q.net <= GraduationReserve
    /\ q.tokensOut > 0
    /\ q.tokensOut <= CurveAllocation - sold

\* Variant: the virtual reserve is rounded down.
QuoteSellFloor(sold, reserve, tokensIn) ==
    LET grossOut == VirtualNativeReserve + reserve
                      - K \div (VirtualTokenReserve - (sold - tokensIn))
    IN  [ grossOut |-> grossOut,
          fee      |-> TotalFee(grossOut),
          netOut   |-> NetOf(grossOut) ]

\* quoteSell(tokensIn).  grossOut is the decrease of the virtual reserve.
QuoteSell(sold, reserve, tokensIn) ==
    LET grossOut == VirtualNativeReserve + reserve
                      - CeilDiv(K, VirtualTokenReserve - (sold - tokensIn))
    IN  [ grossOut |-> grossOut,
          fee      |-> TotalFee(grossOut),
          netOut   |-> NetOf(grossOut) ]

\* No revert in quoteSell: InvalidAmount, DustTrade, InsufficientReserve.
SellQuoteOK(sold, reserve, tokensIn, q) ==
    /\ 0 < tokensIn /\ tokensIn <= sold
    /\ q.grossOut > 0
    /\ q.grossOut <= reserve
=============================================================================

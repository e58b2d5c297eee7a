----------------------------- MODULE QuotedTrade -----------------------------
(***************************************************************************)
(* One user trading through the token page against a curve that others     *)
(* trade on at the same time: the quote read from the curve                *)
(* (lib/contracts.ts), its life in the panel (token-trade-panel.tsx,       *)
(* token-trading.tsx), the reads, checks and approvals of submitBuy and    *)
(* submitSell, and the transactions CooketCurve then executes.  TradePanel *)
(* models the same handlers for what becomes of an unresolved trade; here  *)
(* it is amounts and time that matter, so one wallet, one tab, and an      *)
(* outcome that is known as soon as it is final.                           *)
(*                                                                         *)
(* Every stage of `ticket' is an await; the curve moves and time passes    *)
(* between them.  A poll answers at once, as one that answers late is one  *)
(* that was made earlier, and a quote is read when it is asked for, as one *)
(* that is read late and kept could have been asked for late.              *)
(***************************************************************************)
EXTENDS CooketCurve, Sequences

CONSTANTS
    User,               \* the trader on the page
    Tolerances,         \* slippage the user may type, in parts of BpsScale
    BpsScale,           \* BPS_SCALE
    QuoteLife,          \* QUOTE_TTL_MS
    DeadlineAfter,      \* what transactionDeadline adds to the clock
    MaxTime,            \* bound on the clock
    MaxMoves,           \* bound on what happens on the curve besides the page
    MaxPool             \* bound on the user's transactions not mined yet

ASSUME TicketConstants ==
    /\ User \in Traders
    /\ BpsScale \in Nat \ {0} /\ Tolerances \subseteq Nat
    /\ {QuoteLife, DeadlineAfter} \subseteq Nat \ {0}
    /\ {MaxTime, MaxMoves, MaxPool} \subseteq Nat

VARIABLES
    now,
    shown,      \* the CurveTradeState last polled
    ticket,     \* the quote and the execution under way
    allowance,  \* of the curve for the user's tokens
    pool,       \* the user's transactions, in the order of their nonces
    moves       \* counted, see MaxMoves

page == <<shown, ticket>>
quotedVars == <<vars, now, page, allowance, pool, moves>>

\* readTradeState: the curve and the balances of the user; the allowance is shown
\* but decides nothing before submission.
ReadTradeState == [sold |-> soldSupply, reserve |-> activeReserve, graduated |-> graduated,
                   native |-> native[User], tokens |-> tokens[User]]

\* tradeStateFingerprint: the curve and the balance the side spends.
Balance(state, side) == IF side = "buy" THEN state.native ELSE state.tokens
Fingerprint(state, side) ==
    <<state.sold, state.reserve, state.graduated, Balance(state, side)>>

Blank == [stage |-> "idle", side |-> "buy", amount |-> 0, tol |-> 0,
          print |-> <<>>, out |-> 0, created |-> 0, deadline |-> 0]

QuotedInit ==
    /\ Init
    /\ now = 0
    /\ shown = ReadTradeState /\ ticket = Blank
    /\ allowance = 0 /\ pool = <<>> /\ moves = 0

-----------------------------------------------------------------------------
(* Quotes *)

\* What parsePositiveAmount lets through and the curve's lifecycle allows.
Amounts(side) == (IF side = "buy" THEN GrossInputs ELSE TokenInputs) \ {0}
SideAllowed == ~shown.graduated

\* What parseSlippageBps and validateSlippage let through: 0% to 50%.
Slippages == Tolerances \cap 0 .. BpsScale \div 2

transactionDeadline == now + DeadlineAfter

\* The first of the panel's own minute and the deadline.
quoteExpiresAt(t) ==
    IF t.deadline < t.created + QuoteLife THEN t.deadline ELSE t.created + QuoteLife

\* Variant: the tolerance is what is kept, not what is given up.
minOutputOfTolerance(amount, tol) == (amount * tol) \div BpsScale

\* minOutputWithSlippage
minOutput(amount, tol) == (amount * (BpsScale - tol)) \div BpsScale

\* The panel asks: amount and tolerance are the user's.
Asked(side, amount, tol, out) ==
    /\ ticket.stage \in {"idle", "ready"} /\ SideAllowed
    /\ ticket' = [Blank EXCEPT !.stage = "asked", !.side = side, !.amount = amount,
                               !.tol = tol, !.out = out,
                               !.print = Fingerprint(shown, side)]
    /\ UNCHANGED <<vars, now, shown, allowance, pool, moves>>

\* The views of the curve; they revert as buy and sell do.
readBuyQuote(budget) == QuoteBuy(soldSupply, activeReserve, budget)
readSellQuote(amount) == QuoteSell(soldSupply, activeReserve, amount)

\* The curve answers for the whole budget.
QuoteBuyByBudget ==
    \E budget \in Amounts("buy"), tol \in Slippages :
      LET q == readBuyQuote(budget)
      IN  /\ ~graduated /\ BuyQuoteOK(soldSupply, activeReserve, budget, q)
          /\ Asked("buy", budget, tol, q.tokensOut)

QuoteSellAmount ==
    \E amount \in Amounts("sell"), tol \in Slippages :
      LET q == readSellQuote(amount)
      IN  /\ ~graduated /\ SellQuoteOK(soldSupply, activeReserve, amount, q)
          /\ Asked("sell", amount, tol, q.netOut)

\* The answer is dropped if the page has seen another state since it asked.
Answer ==
    /\ ticket.stage = "asked"
    /\ ticket' = IF Fingerprint(shown, ticket.side) = ticket.print
                 THEN [ticket EXCEPT !.stage = "ready", !.created = now,
                                     !.deadline = transactionDeadline]
                 ELSE Blank
    /\ UNCHANGED <<vars, now, shown, allowance, pool, moves>>

\* The user edits, or the quote is seen to be outdated (submit, or before it).
Discard ==
    /\ ticket.stage \in {"asked", "ready"}
    /\ ticket' = Blank
    /\ UNCHANGED <<vars, now, shown, allowance, pool, moves>>

-----------------------------------------------------------------------------
(* Submission *)

\* assertBuyQuoteFresh, assertSellDeadline
BeforeDeadline == now < ticket.deadline

\* assertSubmissionReady
SubmissionReady ==
    now < quoteExpiresAt(ticket) /\ ticket.print = Fingerprint(shown, ticket.side)

Step(from, to) ==
    /\ ticket.stage = from
    /\ ticket' = [ticket EXCEPT !.stage = to]
    /\ UNCHANGED <<vars, now, shown, allowance, moves>>

\* submit, and the start of execute; submitBuy and submitSell look the curve up.
Submit ==
    /\ SubmissionReady /\ SideAllowed
    /\ ticket.amount <= Balance(shown, ticket.side)
    /\ Step("ready", "prepare") /\ UNCHANGED pool

\* The transaction as it would be executed now.
Terms == [kind |-> ticket.side, amount |-> ticket.amount,
          min |-> minOutput(ticket.out, ticket.tol), deadline |-> ticket.deadline,
          out |-> ticket.out, tol |-> ticket.tol]      \* the last two are history

BuyPasses(x) ==
    LET q == QuoteBuy(soldSupply, activeReserve, x.amount)
    IN  /\ now <= x.deadline /\ ~graduated /\ native[User] >= x.amount
        /\ BuyQuoteOK(soldSupply, activeReserve, x.amount, q)
        /\ q.tokensOut >= x.min
        /\ q.reaches => tokens[Curve] - q.tokensOut = LPAllocation

SellPasses(x) ==
    LET q == QuoteSell(soldSupply, activeReserve, x.amount)
    IN  /\ now <= x.deadline /\ ~graduated
        /\ allowance >= x.amount /\ tokens[User] >= x.amount
        /\ SellQuoteOK(soldSupply, activeReserve, x.amount, q)
        /\ q.netOut >= x.min

\* submitBuy: checks, simulation, checks again; then the wallet is asked.
PrepareBuy ==
    /\ ticket.side = "buy" /\ BeforeDeadline /\ SubmissionReady
    /\ Step("prepare", "simulate") /\ UNCHANGED pool

SimulateBuy ==
    /\ ticket.side = "buy" /\ BuyPasses(Terms)
    /\ Step("simulate", "funds") /\ UNCHANGED pool

CheckFunds ==
    /\ native[User] >= ticket.amount /\ BeforeDeadline /\ SubmissionReady
    /\ Step("funds", "prompt") /\ UNCHANGED pool

\* submitSell: the balance and the allowance are read; an approval is asked for
\* exactly the amount if the allowance does not suffice.
PrepareSell ==
    /\ ticket.side = "sell" /\ BeforeDeadline /\ SubmissionReady
    /\ Step("prepare", "holdings") /\ UNCHANGED pool

ReadHoldings ==
    /\ tokens[User] >= ticket.amount /\ BeforeDeadline /\ SubmissionReady
    /\ Step("holdings", IF allowance < ticket.amount THEN "approve" ELSE "simulate")
    /\ UNCHANGED pool

Approve ==
    /\ Len(pool) < MaxPool
    /\ pool' = Append(pool, [kind |-> "approve", amount |-> ticket.amount])
    /\ Step("approve", "approving")

\* The receipt is there and the allowance shows; both are read again.
Approved ==
    /\ ~\E i \in DOMAIN pool : pool[i].kind = "approve"
    /\ allowance >= ticket.amount /\ tokens[User] >= ticket.amount
    /\ BeforeDeadline /\ SubmissionReady
    /\ Step("approving", "simulate") /\ UNCHANGED pool

SimulateSell ==
    /\ ticket.side = "sell" /\ SellPasses(Terms) /\ BeforeDeadline /\ SubmissionReady
    /\ Step("simulate", "prompt") /\ UNCHANGED pool

\* However long the wallet shows its prompt.
Sign ==
    /\ Len(pool) < MaxPool
    /\ pool' = Append(pool, Terms)
    /\ Step("prompt", "sent")

\* A check, a read, the wallet or the user says no; or, once sent, the user
\* abandons recovery.
GiveUp ==
    /\ ticket.stage \notin {"idle", "asked", "ready"}
    /\ ticket' = Blank
    /\ UNCHANGED <<vars, now, shown, allowance, pool, moves>>

-----------------------------------------------------------------------------
(* The chain *)

Executes(x) ==
    \/ /\ x.kind = "approve" /\ allowance' = x.amount /\ UNCHANGED vars
    \/ /\ x.kind = "buy" /\ BuyPasses(x)
       /\ buy(User, x.amount, x.min) /\ UNCHANGED allowance
    \/ /\ x.kind = "sell" /\ SellPasses(x)
       /\ sell(User, x.amount, x.min) /\ allowance' = allowance - x.amount

Reverts(x) ==
    /\ x.kind = "buy" => ~BuyPasses(x)
    /\ x.kind = "sell" => ~SellPasses(x)
    /\ x.kind # "approve"
    /\ UNCHANGED <<vars, allowance>>

\* The panel learns the outcome of the trade it waits for, always the newest.
Mine ==
    /\ pool # <<>>
    /\ Executes(Head(pool)) \/ Reverts(Head(pool))
    /\ pool' = Tail(pool)
    /\ ticket' = IF ticket.stage = "sent" /\ Len(pool) = 1 THEN Blank ELSE ticket
    /\ UNCHANGED <<now, shown, moves>>

\* External: the user cancels the transaction in the wallet.
Cancel ==
    /\ pool # <<>>
    /\ pool' = Tail(pool)
    /\ ticket' = IF ticket.stage = "sent" /\ Len(pool) = 1 THEN Blank ELSE ticket
    /\ UNCHANGED <<vars, now, shown, allowance, moves>>

\* Everyone else trades, and the user too moves tokens and money elsewhere.
Outside ==
    /\ moves < MaxMoves /\ moves' = moves + 1
    /\ \/ \E t \in Traders \ {User} : Move(t)
       \/ \E t \in Traders, n \in TransferAmounts : transfer(User, t, n)
    /\ UNCHANGED <<now, page, allowance, pool>>

\* refetchInterval, and the invalidation after a confirmation.
Poll ==
    /\ shown' = ReadTradeState
    /\ UNCHANGED <<vars, now, ticket, allowance, pool, moves>>

Tick ==
    /\ now < MaxTime /\ now' = now + 1
    /\ UNCHANGED <<vars, page, allowance, pool, moves>>

QuotedNext ==
    \/ QuoteBuyByBudget \/ QuoteSellAmount \/ Answer \/ Discard
    \/ Submit \/ PrepareBuy \/ SimulateBuy \/ CheckFunds
    \/ PrepareSell \/ ReadHoldings \/ Approve \/ Approved \/ SimulateSell
    \/ Sign \/ GiveUp
    \/ Mine \/ Cancel \/ Outside \/ Poll \/ Tick

QuotedSpec == QuotedInit /\ [][QuotedNext]_quotedVars

-----------------------------------------------------------------------------
(* Properties *)

\* A trade executes on the terms the user reviewed or not at all, whatever the
\* curve, the clock and the user's other transactions did since the quote was
\* read: a buy never costs more than the budget, a sale takes exactly the tokens
\* entered, the other side of the trade falls short of the quote by no more than
\* the tolerance (and a rounding), and never after the deadline, also when the
\* trade is the one that graduates the curve (submitBuy, submitSell, buy, sell).
ReviewedTermsHold ==
    [][ pool # <<>> /\ pool' = Tail(pool) /\ soldSupply' # soldSupply =>
          LET x      == Head(pool)
              earned == IF x.kind = "buy" THEN tokens'[User] - tokens[User]
                                          ELSE native'[User] - native[User]
              paid   == IF x.kind = "buy" THEN native[User] - native'[User]
                                          ELSE tokens[User] - tokens'[User]
          IN  /\ (earned + 1) * BpsScale > x.out * (BpsScale - x.tol)
              /\ IF x.kind = "buy" THEN paid <= x.amount ELSE paid = x.amount
              /\ now <= x.deadline ]_quotedVars
=============================================================================

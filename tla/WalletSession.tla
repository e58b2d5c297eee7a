---------------------------- MODULE WalletSession ----------------------------
(***************************************************************************)
(* The browser's connection to the user's external wallet.  The wallet has  *)
(* an active account and a chain of its own; the page knows them from wagmi, *)
(* which learns of a change later, and asks for signatures with a client    *)
(* that is built later still.  The page shows one status for all of it, lets *)
(* the user connect, switch the chain and disconnect, and has transactions  *)
(* signed.                                                                  *)
(*                                                                          *)
(* Definitions marked "Variant" are faulty forms of the one that follows    *)
(* them; no specification uses them.                                        *)
(***************************************************************************)
EXTENDS Integers, Sequences, FiniteSets

CONSTANTS
  Addresses,      \* accounts of the wallet
  Arc, Other,     \* selectedCooketChainId, and another chain
  ConfiguredChain,      \* NEXT_PUBLIC_COOKET_CHAIN_ID, or None
  ExecutionFlag,        \* NEXT_PUBLIC_ARC_TESTNET_FINANCIAL_EXECUTION_ENABLED
  None,
  MaxMoves        \* bound of the changes the user makes in the wallet

Chains == {Arc, Other}

ASSUME WalletAssumption ==
  /\ Addresses # {} /\ None \notin Addresses \cup Chains
  /\ Arc # Other /\ MaxMoves \in Nat
  /\ ConfiguredChain \in Chains \cup {None} /\ ExecutionFlag \in BOOLEAN

VARIABLES
  wallet,         \* the wallet: its active account, its chain, the chains it knows
  account,        \* useAccount(): status, address and chain
  client,         \* useWalletClient(): its account and chain, or None
  clientError,    \* and its error
  disconnecting,  \* useDisconnect(): isPending
  switching,      \* switchExternalWalletToArc(): the request that is open, or "idle"
  actionError,    \* is the error of an action shown?
  menu,           \* is the account menu open?
  form,           \* a transaction: its phase, the account shown when it was started,
                  \* the client it was started with
  requests,       \* history: what the wallet was asked to sign
  moves

session == <<account, client, clientError, disconnecting>>
ui == <<switching, actionError, menu>>
vars == <<wallet, session, ui, form, requests, moves>>

-----------------------------------------------------------------------------
(* What the page makes of it.                                              *)

\* Variant: the error of an action counts as one of the client.
StatusWithActionErrors ==
  IF disconnecting THEN "disconnecting"
  ELSE IF clientError \/ actionError THEN "initialization_error"
  ELSE IF account.status \in {"connecting", "reconnecting"} THEN "sdk_not_ready"
  ELSE IF account.status = "disconnected" THEN "disconnected"
  ELSE IF account.chain # Arc THEN "wrong_network"
  ELSE IF client = None THEN "wallet_loading"
  ELSE IF client.address # account.address \/ client.chain # account.chain
       THEN "signer_mismatch"
  ELSE "wallet_ready"

\* deriveActiveWalletStatus(); its conditions are tried in order.
status ==
  IF disconnecting THEN "disconnecting"
  ELSE IF clientError THEN "initialization_error"
  ELSE IF account.status \in {"connecting", "reconnecting"} THEN "sdk_not_ready"
  ELSE IF account.status = "disconnected" THEN "disconnected"
  ELSE IF account.chain # Arc THEN "wrong_network"
  ELSE IF client = None THEN "wallet_loading"
  ELSE IF client.address # account.address \/ client.chain # account.chain
       THEN "signer_mismatch"
  ELSE "wallet_ready"

canTransact == status = "wallet_ready"

\* isArcTestnetFinancialExecutionEnabled()
FinancialExecutionEnabled == ExecutionFlag /\ ConfiguredChain \in {Arc, None}

-----------------------------------------------------------------------------
(* The wallet, in the hands of its user.                                   *)

\* Another account, another chain, or no account at all.
Move ==
  /\ moves < MaxMoves
  /\ moves' = moves + 1
  /\ \/ \E a \in Addresses \cup {None} : wallet' = [wallet EXCEPT !.active = a]
     \/ \E c \in wallet.knows : wallet' = [wallet EXCEPT !.chain = c]
  /\ wallet' # wallet
  /\ UNCHANGED <<session, ui, form, requests>>

-----------------------------------------------------------------------------
(* wagmi.                                                                  *)

Disconnected == [status |-> "disconnected", address |-> None, chain |-> None]
Connected(w) == [status |-> "connected", address |-> w.active, chain |-> w.chain]

\* The connection of an earlier visit is restored, or there is none.
Restored ==
  /\ account.status \in {"connecting", "reconnecting"}
  /\ account' = IF wallet.active = None THEN Disconnected ELSE Connected(wallet)
  /\ UNCHANGED <<wallet, client, clientError, disconnecting, ui, form, requests, moves>>

\* accountsChanged: the client of the account before stays until it is built again.
NoticeAccount ==
  /\ account.status = "connected" /\ account.address # wallet.active
  /\ IF wallet.active = None
     THEN account' = Disconnected /\ client' = None
     ELSE account' = [account EXCEPT !.address = wallet.active] /\ UNCHANGED client
  /\ clientError' = FALSE
  /\ UNCHANGED <<wallet, disconnecting, ui, form, requests, moves>>

\* chainChanged: the client is one of another query.
NoticeChain ==
  /\ account.status = "connected" /\ account.chain # wallet.chain
  /\ account' = [account EXCEPT !.chain = wallet.chain]
  /\ client' = None /\ clientError' = FALSE
  /\ UNCHANGED <<wallet, disconnecting, ui, form, requests, moves>>

\* The client is built for the account that wagmi knows; the wallet must be on the
\* chain that wagmi believes it is on.
BuildClient ==
  /\ account.status = "connected"
  /\ LET built == [address |-> account.address, chain |-> account.chain]
     IN  /\ client # built
         /\ IF wallet.chain = account.chain
            THEN client' = built /\ clientError' = FALSE
            ELSE clientError' = TRUE /\ ~clientError /\ UNCHANGED client
  /\ UNCHANGED <<wallet, account, disconnecting, ui, form, requests, moves>>

-----------------------------------------------------------------------------
(* The controls: WalletStatus and AccountMenu.                             *)

\* Is there an account whose menu can be opened?
HasMenu == status \notin {"sdk_not_ready", "initialization_error", "disconnected",
                          "disconnecting"}

ToggleMenu ==
  /\ HasMenu
  /\ menu' = ~menu
  /\ UNCHANGED <<wallet, session, switching, actionError, form, requests, moves>>

\* A click outside, Escape, or the browser's back button.
CloseMenu ==
  /\ menu /\ menu' = FALSE
  /\ UNCHANGED <<wallet, session, switching, actionError, form, requests, moves>>

\* connectWallet(): the selector opens, from the button or from the menu, and the
\* user chooses an account or does not; or it does not open.
connectWallet(a) ==
  /\ status = "disconnected" \/ (HasMenu /\ menu)
  /\ menu' = FALSE
  /\ \/ /\ a # None
        /\ wallet' = [wallet EXCEPT !.active = a]
        /\ account' = Connected(wallet')
        /\ actionError' = FALSE
        /\ UNCHANGED <<client, clientError, disconnecting>>
     \/ /\ a = None
        /\ actionError' \in BOOLEAN
        /\ UNCHANGED <<wallet, session>>
  /\ UNCHANGED <<switching, form, requests, moves>>

\* switchToSelectedChain() and the first request of switchExternalWalletToArc().
StartSwitch ==
  /\ HasMenu /\ menu /\ status = "wrong_network" /\ switching = "idle"
  /\ switching' = "switch" /\ actionError' = FALSE
  /\ UNCHANGED <<wallet, session, menu, form, requests, moves>>

\* perform(): the menu closes when the action has succeeded.
SwitchDone == switching' = "idle" /\ menu' = FALSE /\ UNCHANGED actionError
SwitchFailed == switching' = "idle" /\ actionError' = TRUE /\ UNCHANGED menu

\* The wallet does as it is asked.
SwitchAccepted ==
  /\ switching \in {"switch", "again"} /\ Arc \in wallet.knows
  /\ wallet' = [wallet EXCEPT !.chain = Arc]
  /\ SwitchDone
  /\ UNCHANGED <<session, form, requests, moves>>

\* 4902: the wallet does not know the chain, and is asked to add it; the second
\* time the error is final.
SwitchUnknown ==
  /\ switching \in {"switch", "again"} /\ Arc \notin wallet.knows
  /\ IF switching = "switch"
     THEN switching' = "add" /\ UNCHANGED <<actionError, menu>>
     ELSE SwitchFailed
  /\ UNCHANGED <<wallet, session, form, requests, moves>>

\* Variant: a wallet that has added the chain is taken to be on it.
AddIsEnough ==
  /\ switching = "add"
  /\ wallet' = [wallet EXCEPT !.knows = @ \cup {Arc}]
  /\ SwitchDone
  /\ UNCHANGED <<session, form, requests, moves>>

\* wallet_addEthereumChain; some wallets go there at once.
AddAccepted ==
  /\ switching = "add"
  /\ \E c \in {wallet.chain, Arc} :
       wallet' = [wallet EXCEPT !.knows = @ \cup {Arc}, !.chain = c]
  /\ switching' = "again"
  /\ UNCHANGED <<session, actionError, menu, form, requests, moves>>

\* The user refuses, or the wallet fails.
SwitchRefused ==
  /\ switching # "idle"
  /\ SwitchFailed
  /\ UNCHANGED <<wallet, session, form, requests, moves>>

\* disconnectWallet()
StartDisconnect ==
  /\ HasMenu /\ menu
  /\ disconnecting' = TRUE /\ actionError' = FALSE
  /\ UNCHANGED <<wallet, account, client, clientError, switching, menu, form, requests,
                 moves>>

\* Its answer: the page is disconnected, or an error is shown.
EndDisconnect ==
  /\ disconnecting
  /\ disconnecting' = FALSE
  /\ \/ /\ account' = Disconnected /\ client' = None /\ clientError' = FALSE
        /\ menu' = FALSE /\ UNCHANGED actionError
     \/ actionError' = TRUE /\ UNCHANGED <<account, client, clientError, menu>>
  /\ UNCHANGED <<wallet, switching, form, requests, moves>>

-----------------------------------------------------------------------------
(* A transaction: the launch of a token, as any other.                     *)

NoForm == [phase |-> "idle", shown |-> None, client |-> None, found |-> None]

\* The click; the account and the client are those of the render.
Submit ==
  /\ form.phase = "idle"
  /\ canTransact /\ FinancialExecutionEnabled
  /\ form' = [NoForm EXCEPT !.phase = "simulating", !.shown = account.address,
                            !.client = client]
  /\ UNCHANGED <<wallet, session, ui, requests, moves>>

\* Variant: the client is compared, the wallet is not asked.
TrustTheClient ==
  form.client.address = form.shown /\ form.client.chain = Arc

\* assertActiveWalletClient()
assertActiveWalletClient ==
  /\ form.client.address = form.shown
  /\ wallet.chain = Arc
  /\ wallet.active = form.shown

\* submitCreateToken(): after the simulation the signer is checked.
Check ==
  /\ form.phase = "simulating"
  /\ form' = IF assertActiveWalletClient
             THEN [form EXCEPT !.phase = "checked", !.found = wallet.active] ELSE NoForm
  /\ UNCHANGED <<wallet, session, ui, requests, moves>>

\* writeContract(): the library checks the chain once more, and asks.
Request ==
  /\ form.phase = "checked"
  /\ IF wallet.chain = form.client.chain
     THEN requests' = requests \cup
            {[shown |-> form.shown, found |-> form.found, signer |-> form.client.address,
              chain |-> wallet.chain]}
     ELSE UNCHANGED requests
  /\ form' = NoForm
  /\ UNCHANGED <<wallet, session, ui, moves>>

-----------------------------------------------------------------------------
Init ==
  /\ wallet \in [active : Addresses \cup {None}, chain : Chains, knows : SUBSET Chains]
  /\ wallet.chain \in wallet.knows
  /\ account = [status |-> "reconnecting", address |-> None, chain |-> None]
  /\ client = None /\ clientError = FALSE /\ disconnecting = FALSE
  /\ switching = "idle" /\ actionError = FALSE /\ menu = FALSE
  /\ form = NoForm /\ requests = {} /\ moves = 0

Controls ==
  \/ ToggleMenu \/ CloseMenu \/ (\E a \in Addresses \cup {None} : connectWallet(a))
  \/ StartSwitch \/ SwitchAccepted \/ SwitchUnknown \/ AddAccepted \/ SwitchRefused
  \/ StartDisconnect \/ EndDisconnect

Next ==
  \/ Move \/ Controls
  \/ Restored \/ NoticeAccount \/ NoticeChain \/ BuildClient
  \/ Submit \/ Check \/ Request

\* wagmi hears of every change and builds its client; a disconnection ends.
Fairness ==
  /\ WF_vars(Restored) /\ WF_vars(NoticeAccount) /\ WF_vars(NoticeChain)
  /\ WF_vars(BuildClient) /\ WF_vars(EndDisconnect)

Spec == Init /\ [][Next]_vars /\ Fairness

-----------------------------------------------------------------------------
\* assertActiveWalletClient(): whatever the user does in the wallet meanwhile, it is
\* asked to sign only for the account that was shown at the click, on Arc, and that
\* the wallet still had when it was asked for its accounts.
SignsForWhoWasShown ==
  \A r \in requests : r.signer = r.shown /\ r.found = r.shown /\ r.chain = Arc

\* switchExternalWalletToArc(): a switch that is reported done has been made, also by
\* a wallet that had to be told of the chain first.
SwitchEndsOnArc ==
  [][ switching # "idle" /\ switching' = "idle" /\ ~actionError' => wallet'.chain = Arc ]_vars

\* deriveActiveWalletStatus(): once the wallet stays connected on Arc, whatever failed
\* before, the page becomes ready.
ReadyInTheEnd ==
  <>[](/\ account.status = "connected" /\ wallet.active # None /\ wallet.chain = Arc
       /\ ~disconnecting)
    => <>canTransact
=============================================================================

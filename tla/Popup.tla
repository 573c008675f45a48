------------------------------- MODULE Popup -------------------------------
(***************************************************************************)
(* The popup of the browser extension: a store (popup_store.ts), a router  *)
(* over a stack of routes and a send wizard (popup_controller.ts), and the *)
(* screens that say which elements a user can reach (popup_screens.ts).    *)
(*                                                                         *)
(* Every handler runs to completion on the one JavaScript thread, so a     *)
(* handler is one action.  Its guard is that some rendered screen holds    *)
(* the element it is bound to: a mask covers the layers below it for the   *)
(* pointer only, their buttons keep the keyboard focus order, so a button  *)
(* of any rendered layer can be pressed; list items take no focus and need *)
(* an uncovered base.  The texts of the draft are abstracted to whether    *)
(* validateSendDraft accepts them; the search keyword, which only filters  *)
(* the list inside the search overlay, is left out.                        *)
(***************************************************************************)
EXTENDS Naturals, Sequences, FiniteSets, FiniteSetsExt

CONSTANTS Tokens, Activities, Wallets,   \* ids of tokenItems, activityItems, wallets
          FirstToken, FirstWallet,       \* the ones the initial state selects
          MaxStack,                      \* bound: routes on the stack
          MaxPanels                      \* bound: panels on the stack

ASSUME PopupAssumption == /\ FirstToken \in Tokens
                          /\ FirstWallet \in Wallets
                          /\ MaxStack \in Nat \ {0}
                          /\ MaxPanels \in Nat

VARIABLES
    stack,           \* the routes, the root first
    activeTab, activeWalletId, isLocked,
    sendDraft,       \* [tokenId, to, amount, memo]: the last three are validity
    sendDraftErrors, \* the fields an error is shown for
    sendFeedback,    \* "none", "invalid", "sending" or "sent"
    sendSubmitting,
    timers           \* submissions whose 760 ms timer has not fired

send == <<sendDraft, sendDraftErrors, sendFeedback, sendSubmitting, timers>>
rest == <<activeTab, activeWalletId, isLocked>>
vars == <<stack, rest, send>>
-----------------------------------------------------------------------------
Tabs == {"tokens", "collectibles", "activity"}
Details == {"TokenDetail", "ActivityDetail", "CollectiblesDetail"}
Panels == {"WalletDrawer", "AvatarPopover", "Settings", "Receive"}
SendSteps == <<"SendToken", "SendAddress", "SendAmount", "SendConfirm">>
SendScreens == {SendSteps[i] : i \in 1..4}
NoItem == "none"
Fields == {"to", "amount", "memo"}

(* How a route is presented and, for the screens that say so, that closing *)
(* it drops every route above the base and not only its own.               *)
Screens == {"Tabs", "Search"} \cup Details \cup Panels \cup SendScreens
presentation == [id \in Screens |-> IF id \in {"Tabs"} \cup Details THEN "push"
                                    ELSE IF id = "Search" THEN "transparentModal" ELSE "modal"]
closeBehavior(id) == IF id = "SendToken" THEN "reset"
                     ELSE IF id \in SendScreens THEN "pop-root-twice" ELSE "none"

Route(id) == [id |-> id, item |-> NoItem]
rootRoute == Route("Tabs")
-----------------------------------------------------------------------------
(* The stack as the renderer reads it.                                     *)
BaseIndex(s) == Max({1} \cup {i \in 1..Len(s) : presentation[s[i].id] = "push"})
LastOverlay(s, p) ==
    LET over == {i \in BaseIndex(s) + 1 .. Len(s) : presentation[s[i].id] = p}
    IN IF over = {} THEN {} ELSE {s[Max(over)].id}
modalShown == LastOverlay(stack, "modal")
searchShown == LastOverlay(stack, "transparentModal")
baseShown == IF isLocked THEN "Unlock" ELSE stack[BaseIndex(stack)].id
renderAppShell == {baseShown} \cup modalShown \cup searchShown
Covered == modalShown \cup searchShown # {}

(* The detail screens look up the item of the route on top of the stack.   *)
shownItem == stack[Len(stack)].item

(* The controls of each screen, by their data-action or data-field.        *)
renderLockedScreen == {"unlock"}
renderTabsScreen == {"tab", "avatar", "wallet-drawer", "settings", "open-send", "open-receive"}
renderDetailScreens == {"back"}
renderWalletDrawer == {"close", "select-wallet"}
renderAvatarPopover == {"close", "lock", "open-settings"}
renderSettings == {"close", "lock"}
renderReceive == {"close", "copy-address"}
renderSendTokenScreen == {"close", "select-send-token", "close-send", "send-next"}
renderSendAddressScreen == {"send-prev", "send-to", "send-next"}
renderSendAmountScreen == {"send-prev", "send-amount", "send-memo", "send-next"}
renderSendConfirmScreen == {"send-prev", "send-submit"}
renderTransparentModal == {"close"}

Controls == [id \in {"Unlock"} \cup Screens |->
    CASE id = "Unlock" -> renderLockedScreen
      [] id = "Tabs" -> renderTabsScreen
      [] id \in Details -> renderDetailScreens
      [] id = "WalletDrawer" -> renderWalletDrawer
      [] id = "AvatarPopover" -> renderAvatarPopover
      [] id = "Settings" -> renderSettings
      [] id = "Receive" -> renderReceive
      [] id = "SendToken" -> renderSendTokenScreen
      [] id = "SendAddress" -> renderSendAddressScreen
      [] id = "SendAmount" -> renderSendAmountScreen
      [] id = "SendConfirm" -> renderSendConfirmScreen
      [] id = "Search" -> renderTransparentModal]
Offered(control) == \E id \in renderAppShell : control \in Controls[id]

(* The list of the active tab: the route a click on an item pushes.        *)
renderItemList == CASE activeTab = "tokens" -> [id : {"TokenDetail"}, item : Tokens]
                    [] activeTab = "activity" -> [id : {"ActivityDetail"}, item : Activities]
                    [] activeTab = "collectibles" -> [id : {"CollectiblesDetail"}, item : {NoItem}]

validateSendDraft == {f \in Fields : ~sendDraft[f]}
-----------------------------------------------------------------------------
(* popupActions, as the stack they leave.                                  *)
pop(s) == IF Len(s) <= 1 THEN s ELSE SubSeq(s, 1, Len(s) - 1)
popToRoot(s) == <<s[1]>>
popToBase(s) == SubSeq(s, 1, BaseIndex(s))
closeByBehavior(s, behavior) == IF behavior = "go-back" THEN pop(s) ELSE popToBase(s)
(* Faulty variant: the close behaviour of the route is not consulted.      *)
closeTopPlain(s) == pop(s)
closeTop(s) == IF Len(s) <= 1 THEN s
               ELSE IF closeBehavior(s[Len(s)].id) # "none"
                    THEN closeByBehavior(s, closeBehavior(s[Len(s)].id))
                    ELSE pop(s)
push(s, r) == /\ Len(s) < MaxStack
              /\ stack' = Append(s, r)

PanelsOn(s) == Len(SelectSeq(s, LAMBDA r : r.id \in Panels))

(* Faulty variant: starting over also forgets the pending submission.      *)
resetSendAll == /\ sendDraftErrors' = {}
                /\ sendFeedback' = "none"
                /\ sendSubmitting' = FALSE
                /\ UNCHANGED <<sendDraft, timers>>
resetSendFeedback == /\ sendDraftErrors' = {}
                     /\ sendFeedback' = "none"
                     /\ UNCHANGED <<sendDraft, sendSubmitting, timers>>

Init == /\ stack = <<rootRoute>>
        /\ activeTab = "tokens"
        /\ activeWalletId = FirstWallet
        /\ isLocked = FALSE
        /\ sendDraft = [tokenId |-> FirstToken, to |-> FALSE, amount |-> FALSE, memo |-> TRUE]
        /\ sendDraftErrors = {}
        /\ sendFeedback = "none"
        /\ sendSubmitting = FALSE
        /\ timers = 0
-----------------------------------------------------------------------------
(* Navigation.                                                             *)
SetActiveTab(t) == /\ Offered("tab")
                   /\ activeTab' = t
                   /\ UNCHANGED <<stack, activeWalletId, isLocked, send>>

OpenDetail(r) == /\ baseShown = "Tabs" /\ ~Covered
                 /\ push(stack, r)
                 /\ UNCHANGED <<rest, send>>

Back == /\ Offered("back")
        /\ stack' = pop(stack)
        /\ UNCHANGED <<rest, send>>

(* A close button, a click on the mask of the topmost layer, Escape: all   *)
(* close the route on top of the stack.                                    *)
CloseButton == /\ Offered("close")
               /\ stack' = closeTop(stack)
               /\ UNCHANGED <<rest, send>>

MaskClick == /\ Covered
             /\ stack' = closeTop(stack)
             /\ UNCHANGED <<rest, send>>

Escape == /\ \/ searchShown # {}
             \/ \E i \in 1..Len(stack) : presentation[stack[i].id] = "modal"
          /\ stack' = closeTop(stack)
          /\ UNCHANGED <<rest, send>>

OpenPanel(control, id) == /\ Offered(control)
                          /\ PanelsOn(stack) < MaxPanels
                          /\ push(stack, Route(id))
                          /\ UNCHANGED <<rest, send>>

OpenSettings == /\ Offered("open-settings")
                /\ PanelsOn(closeTop(stack)) < MaxPanels
                /\ push(closeTop(stack), Route("Settings"))
                /\ UNCHANGED <<rest, send>>

(* Faulty variant: only the route on top is compared with the search.      *)
openSearchTop == /\ stack[Len(stack)].id # "Search"
                 /\ push(stack, Route("Search"))
                 /\ UNCHANGED <<rest, send>>
openSearch == /\ searchShown # {"Search"}
              /\ push(stack, Route("Search"))
              /\ UNCHANGED <<rest, send>>

SelectWallet(w) == /\ Offered("select-wallet")
                   /\ activeWalletId' = w
                   /\ stack' = closeTop(stack)
                   /\ UNCHANGED <<activeTab, isLocked, send>>

(* Faulty variant: locking leaves the overlays open.                       *)
LockOnly == /\ Offered("lock")
            /\ isLocked' = TRUE
            /\ UNCHANGED <<stack, activeTab, activeWalletId, send>>
Lock == /\ Offered("lock")
        /\ isLocked' = TRUE
        /\ stack' = popToRoot(stack)
        /\ UNCHANGED <<activeTab, activeWalletId, send>>

Unlock == /\ Offered("unlock")
          /\ isLocked' = FALSE
          /\ UNCHANGED <<stack, activeTab, activeWalletId, send>>
-----------------------------------------------------------------------------
(* The send wizard.                                                        *)
openSend == /\ Offered("open-send")
            /\ resetSendFeedback
            /\ push(stack, Route("SendToken"))
            /\ UNCHANGED rest

UpdateSendDraft(control, field, value) ==
    /\ Offered(control)
    /\ sendDraft' = [sendDraft EXCEPT ![field] = value]
    /\ UNCHANGED <<stack, rest, sendDraftErrors, sendFeedback, sendSubmitting, timers>>

SendPrev == /\ Offered("send-prev")
            /\ resetSendFeedback
            /\ stack' = pop(stack)
            /\ UNCHANGED rest

CloseSend == /\ Offered("close-send")
             /\ stack' = closeByBehavior(stack, "reset")
             /\ UNCHANGED <<rest, send>>

(* The step a screen leads to, and the fields that must be valid to enter  *)
(* it: entering SendAmount shows an error only if the address is invalid.  *)
goSendNext ==
    \E i \in 1..3 :
       LET next == SendSteps[i + 1]
           errors == validateSendDraft
           blocking == CASE next = "SendAddress" -> {}
                         [] next = "SendAmount" -> errors \cap {"to"}
                         [] next = "SendConfirm" -> errors
       IN /\ modalShown = {SendSteps[i]}
          /\ IF blocking = {}
             THEN /\ sendDraftErrors' =
                        IF next = "SendAmount" THEN sendDraftErrors \ {"to"} ELSE {}
                  /\ sendFeedback' = "none"
                  /\ push(stack, Route(next))
             ELSE /\ sendDraftErrors' = errors
                  /\ sendFeedback' = "invalid"
                  /\ UNCHANGED stack
          /\ UNCHANGED <<rest, sendDraft, sendSubmitting, timers>>

submitSend ==
    /\ Offered("send-submit") /\ ~sendSubmitting    \* the button is disabled meanwhile
    /\ IF validateSendDraft # {}
       THEN /\ sendDraftErrors' = validateSendDraft
            /\ sendFeedback' = "invalid"
            /\ UNCHANGED <<sendSubmitting, timers>>
       ELSE /\ sendSubmitting' = TRUE
            /\ sendFeedback' = "sending"
            /\ timers' = timers + 1
            /\ UNCHANGED sendDraftErrors
    /\ UNCHANGED <<stack, rest, sendDraft>>

SubmitTimer == /\ timers > 0
               /\ timers' = timers - 1
               /\ sendSubmitting' = FALSE
               /\ sendFeedback' = "sent"
               /\ UNCHANGED <<stack, rest, sendDraft, sendDraftErrors>>
-----------------------------------------------------------------------------
Next == \/ \E t \in Tabs : SetActiveTab(t)
        \/ \E r \in renderItemList : OpenDetail(r)
        \/ Back \/ CloseButton \/ MaskClick \/ Escape
        \/ OpenPanel("settings", "Settings")
        \/ OpenPanel("wallet-drawer", "WalletDrawer")
        \/ OpenPanel("avatar", "AvatarPopover")
        \/ OpenPanel("open-receive", "Receive")
        \/ OpenSettings
        \/ openSearch
        \/ \E w \in Wallets : SelectWallet(w)
        \/ Lock \/ Unlock
        \/ openSend
        \/ \E t \in Tokens : UpdateSendDraft("select-send-token", "tokenId", t)
        \/ \E v \in BOOLEAN : \/ UpdateSendDraft("send-to", "to", v)
                              \/ UpdateSendDraft("send-amount", "amount", v)
                              \/ UpdateSendDraft("send-memo", "memo", v)
        \/ SendPrev \/ CloseSend \/ goSendNext \/ submitSend
        \/ SubmitTimer

Spec == Init /\ [][Next]_vars
-----------------------------------------------------------------------------
PopupTypeOK ==
    /\ stack \in Seq([id : Screens,
                      item : {NoItem} \cup Tokens \cup Activities])
    /\ Len(stack) \in 1..MaxStack
    /\ activeTab \in Tabs
    /\ activeWalletId \in Wallets
    /\ isLocked \in BOOLEAN /\ sendSubmitting \in BOOLEAN
    /\ sendDraft \in [tokenId : Tokens, to : BOOLEAN, amount : BOOLEAN, memo : BOOLEAN]
    /\ sendDraftErrors \subseteq Fields
    /\ sendFeedback \in {"none", "invalid", "sending", "sent"}
    /\ timers \in Nat

(* A transfer is never broadcast twice at a time: however the wizard is    *)
(* left, reopened or locked meanwhile, the submit button stays disabled    *)
(* until the one pending timer has fired, and "sending" is shown only then. *)
OneSubmission == /\ timers = (IF sendSubmitting THEN 1 ELSE 0)
                 /\ sendFeedback = "sending" => sendSubmitting
                 /\ sendFeedback = "sent" => ~sendSubmitting

(* Whenever the confirmation is what the user sees, the draft it shows is  *)
(* valid: the wizard can be reopened above it and the draft spoilt there,  *)
(* but no way of closing leads back to the old confirmation.  The second   *)
(* validation, in submitSend, therefore never fails.                       *)
ConfirmShownIsValid == modalShown = {"SendConfirm"} =>
                          /\ validateSendDraft = {}
                          /\ sendDraftErrors = {}

(* The stack is the root, at most one detail screen, then overlays, among  *)
(* them at most one search; every step of the wizard lies above the step   *)
(* that leads to it.                                                       *)
StackShape ==
    /\ stack[1] = rootRoute
    /\ \A i \in 2..Len(stack) : /\ stack[i].id # "Tabs"
                                /\ stack[i].id \in Details => i = 2
    /\ \A i, j \in 1..Len(stack) : stack[i].id = "Search" /\ stack[j].id = "Search" => i = j
    /\ \A i \in 1..Len(stack) : \A k \in 2..4 :
          stack[i].id = SendSteps[k] =>
             \E j \in 1..i-1 : /\ stack[j].id = SendSteps[k - 1]
                               /\ \A m \in j+1..i-1 : stack[m].id \notin SendScreens

(* The detail screens read the item of the route on TOP of the stack: they *)
(* show the item that was opened whenever nothing covers them (under the   *)
(* search they fall back to the first item of the list).                   *)
DetailShowsOpened ==
    (baseShown \in {"TokenDetail", "ActivityDetail"} /\ ~Covered) =>
        /\ shownItem = stack[2].item
        /\ shownItem \in (IF baseShown = "TokenDetail" THEN Tokens ELSE Activities)

(* What is on the stack, and what is shown of it, is consistent.           *)
ScreensConsistent == PopupTypeOK /\ StackShape /\ DetailShowsOpened

(* While the popup is locked nothing but the search and the timer acts on  *)
(* it: no wallet, tab, draft or panel can be reached until it is unlocked. *)
LockedIsInert == isLocked /\ isLocked' =>
                   /\ UNCHANGED <<activeTab, activeWalletId, sendDraft, sendDraftErrors>>
                   /\ \A i \in 2..Len(stack') : stack'[i].id = "Search"

(* The base screen is left only when nothing lies over it, or by locking:  *)
(* closing overlays, by whatever key or button, never loses the context.   *)
BaseLeftAlone == BaseIndex(stack') < BaseIndex(stack) =>
                   BaseIndex(stack) = Len(stack) \/ isLocked'

(* No step reaches past what covers the screen: not past the lock, and not *)
(* past an overlay.                                                        *)
CoversHold == [][LockedIsInert /\ BaseLeftAlone]_vars
=============================================================================

---------------------------- MODULE TransferFlow ----------------------------
(***************************************************************************)
(* Sending coins from the Flutter wallet: the transaction store            *)
(* (wallet-app-flutter/lib/state/transaction_store.dart), the button that  *)
(* starts it (pages/transaction_flow_page.dart), the retrying API client   *)
(* (api/chain_api_client.dart), and the API server with its challenges.    *)
(*                                                                         *)
(* The store is single-threaded and interleaves where it awaits.  A POST   *)
(* that the client has given up on may still be served, at any time.       *)
(***************************************************************************)
EXTENDS SignatureChallenge

CONSTANTS
    Transfers,     \* presses of the button
    Wallet,        \* WalletRuntimeConfig.walletAddress
    MaxRetries,    \* maxRetries of the client
    MaxRefreshes,  \* bound: refreshes, the one at start-up included
    MaxInFlight    \* bound: requests that the server has not served

ASSUME TransferBounds ==
    MaxRetries \in Nat /\ MaxRefreshes \in Nat \ {0} /\ MaxInFlight \in Nat
ASSUME WalletAssumption == Wallet \in Accounts

VARIABLES
    loading,     \* value.loading
    history,     \* the transfers listed in value.history, with their status
    result,      \* the transfer of value.broadcastResult, with its status: one or none
    transfers,   \* by transfer: the state of submitTransfer
    refreshing,  \* the number of _refreshFromRemote in progress
    refreshes,   \* how many there have been
    inFlight,    \* requests that the server has not served
    executed     \* history: by transfer, how often the chain took it

storeVars == <<loading, history, result, refreshing, refreshes>>
transferVars == <<storeVars, transfers, inFlight, executed, challengeVars>>

\* The POSTs of submitTransfer, in their order.
Steps == <<"challenge", "confirm", "broadcast">>
Posts == {Steps[i] : i \in DOMAIN Steps}

Outcomes == {"done", "unconfirmed", "failed", "thrown"}

Progress == [at : {"idle", "state"} \cup Outcomes \cup Posts,
             attempt : 0 .. MaxRetries,
             id : Nat,                 \* requestId, 0 before it is known
             answer : {"none", "ok", "declined", "refused", "busy", "garbled"},
             answerId : Nat]           \* the requestId in the answer

Request == [transfer : Transfers, step : Posts, attempt : 0 .. MaxRetries, id : Nat]

\* A transfer as it is shown: confirmed, or broadcast and awaiting confirmation.
Shown == [transfer : Transfers, status : {"confirmed", "pending"}]

InProgress(t) == transfers[t].at \in Posts \cup {"state"}

\* submitTransfer is left with an outcome.
End(t, outcome) ==
    transfers' = [transfers EXCEPT ![t].at = outcome, ![t].attempt = 0,
                                   ![t].answer = "none", ![t].answerId = 0]

\* The transfer t makes a request, as the attempt-th try.
Ask(t, step, attempt, id) ==
    /\ Cardinality(inFlight) < MaxInFlight
    /\ transfers' = [transfers EXCEPT ![t] = [at |-> step, attempt |-> attempt, id |-> id,
                                              answer |-> "none", answerId |-> 0]]
    /\ inFlight' = inFlight \cup {[transfer |-> t, step |-> step, attempt |-> attempt, id |-> id]}

\* runTransferFlow; the page offers the button only while nothing is loading.
Start(t) ==
    /\ ~loading
    /\ transfers[t].at = "idle"
    /\ loading' = TRUE /\ result' = {}
    /\ transfers' = [transfers EXCEPT ![t].at = "state"]
    /\ UNCHANGED <<history, refreshing, refreshes, inFlight, executed, challengeVars>>

\* submitTransfer has read the indexer's state.
StateRead(t) ==
    /\ transfers[t].at = "state"
    /\ Ask(t, "challenge", 0, 0)
    /\ UNCHANGED <<storeVars, executed, challengeVars>>

(***************************************************************************)
(* The server.                                                             *)
(***************************************************************************)
\* The answer reaches the client if it still waits for this very request.
Answer(q, kind, id) ==
    /\ inFlight' = inFlight \ {q}
    /\ transfers' =
         LET p == transfers[q.transfer]
         IN  IF p.at = q.step /\ p.attempt = q.attempt /\ p.answer = "none"
             THEN [transfers EXCEPT ![q.transfer].answer = kind, ![q.transfer].answerId = id]
             ELSE transfers
    /\ UNCHANGED storeVars

ServeChallenge(q) ==
    /\ q.step = "challenge"
    /\ \E id \in 0 .. MaxIssued : Issue(Wallet, id) /\ Answer(q, "ok", id)
    /\ UNCHANGED executed

ServeConfirm(q) ==
    /\ q.step = "confirm"
    /\ Confirm(Wallet, q.id) /\ Answer(q, Verdict(Wallet, q.id), 0)
    /\ UNCHANGED executed

\* handleChainTxBroadcast: the chain takes the transaction, is out of reach, or
\* refuses it: with an error status or, as a node does whose check of the
\* transaction fails, with a tx_response of another code than 0 ("declined"),
\* which the server passes on as a success.  A node's success has a tx_response.
ServeBroadcast(q) ==
    /\ q.step = "broadcast"
    /\ \/ /\ \E kind \in {"ok", "busy", "garbled"} : Answer(q, kind, 0)
          /\ executed' = [executed EXCEPT ![q.transfer] = @ + 1]
       \/ /\ \E kind \in {"busy", "refused", "declined"} : Answer(q, kind, 0)
          /\ UNCHANGED executed
    /\ UNCHANGED challengeVars

\* Another wallet asks for a challenge.
OtherWallet(account) ==
    /\ account # Wallet
    /\ \A i \in DOMAIN issued : issued[i].account # account
    /\ \E id \in 0 .. MaxIssued : Issue(account, id)
    /\ UNCHANGED <<storeVars, transfers, inFlight, executed>>

TimePasses == Expire /\ UNCHANGED <<storeVars, transfers, inFlight, executed>>

(***************************************************************************)
(* The client's side of a request.                                         *)
(***************************************************************************)
\* Faulty variant: loading is reset by a success alone.
Fail_KeepsLoading(t) ==
    /\ End(t, "failed")
    /\ UNCHANGED <<storeVars, inFlight, executed, challengeVars>>

\* An ApiClientException ends the flow.
Fail(t) ==
    /\ End(t, "failed")
    /\ loading' = FALSE
    /\ UNCHANGED <<history, result, refreshing, refreshes, inFlight, executed, challengeVars>>

\* _executeWithRetry after a failure that is worth another try.
RetryOrFail(t) ==
    IF transfers[t].attempt < MaxRetries
    THEN /\ Ask(t, transfers[t].at, transfers[t].attempt + 1, transfers[t].id)
         /\ UNCHANGED <<storeVars, executed, challengeVars>>
    ELSE Fail(t)

\* No answer in time, or the connection breaks.
Timeout(t) ==
    transfers[t].at \in Posts /\ transfers[t].answer = "none" /\ RetryOrFail(t)

Busy(t) == transfers[t].answer = "busy" /\ RetryOrFail(t)

\* No attempt to read the indexer's state has succeeded.
StateUnread(t) == transfers[t].at = "state" /\ Fail(t)

Refused(t) == transfers[t].answer = "refused" /\ Fail(t)

\* The body is no JSON object: a FormatException, which runTransferFlow does
\* not catch.
Garbled(t) ==
    /\ transfers[t].answer = "garbled"
    /\ End(t, "thrown")
    /\ UNCHANGED <<storeVars, inFlight, executed, challengeVars>>

\* submitTransfer goes on with its next request.
Continue(t) ==
    /\ transfers[t].answer = "ok" /\ transfers[t].at # "broadcast"
    /\ LET step == CHOOSE i \in DOMAIN Steps : Steps[i] = transfers[t].at
           id   == IF transfers[t].at = "challenge" THEN transfers[t].answerId ELSE transfers[t].id
       IN  Ask(t, Steps[step + 1], 0, id)
    /\ UNCHANGED <<storeVars, executed, challengeVars>>

\* Faulty variant: the code of tx_response is not looked at.
Finish_CodeIgnored(t) ==
    /\ transfers[t].at = "broadcast" /\ transfers[t].answer \in {"ok", "declined"}
    /\ LET shown == [transfer |-> t, status |-> "confirmed"]
       IN  /\ End(t, "done")
           /\ result' = {shown} /\ history' = history \cup {shown}
    /\ loading' = FALSE
    /\ UNCHANGED <<refreshing, refreshes, inFlight, executed, challengeVars>>

\* The end of runTransferFlow.  Whatever the code, the transfer is listed: with
\* code 0 as confirmed, with any other as broadcast and awaiting confirmation.
Finish(t) ==
    /\ transfers[t].at = "broadcast" /\ transfers[t].answer \in {"ok", "declined"}
    /\ LET confirmed == transfers[t].answer = "ok"
           shown == [transfer |-> t, status |-> IF confirmed THEN "confirmed" ELSE "pending"]
       IN  /\ End(t, IF confirmed THEN "done" ELSE "unconfirmed")
           /\ result' = {shown} /\ history' = history \cup {shown}
    /\ loading' = FALSE
    /\ UNCHANGED <<refreshing, refreshes, inFlight, executed, challengeVars>>

(***************************************************************************)
(* Refreshing, from the dashboard at any time.                             *)
(***************************************************************************)
RefreshAssetQuote ==
    /\ refreshes < MaxRefreshes
    /\ loading' = TRUE /\ refreshing' = refreshing + 1 /\ refreshes' = refreshes + 1
    /\ UNCHANGED <<history, result, transfers, inFlight, executed, challengeVars>>

\* The history is replaced by the indexer's events, which know no transfers.
RefreshDone(ok) ==
    /\ refreshing > 0
    /\ loading' = FALSE /\ refreshing' = refreshing - 1
    /\ history' = IF ok THEN {} ELSE history
    /\ UNCHANGED <<result, refreshes, transfers, inFlight, executed, challengeVars>>

\* The store's constructor starts a refresh.
Init ==
    /\ ChallengeInit
    /\ loading = TRUE /\ refreshing = 1 /\ refreshes = 1
    /\ history = {} /\ result = {}
    /\ transfers = [t \in Transfers |-> [at |-> "idle", attempt |-> 0, id |-> 0,
                                         answer |-> "none", answerId |-> 0]]
    /\ inFlight = {} /\ executed = [t \in Transfers |-> 0]

Next ==
    \/ \E t \in Transfers : \/ Start(t) \/ StateRead(t) \/ StateUnread(t) \/ Timeout(t)
                            \/ Busy(t) \/ Refused(t) \/ Garbled(t) \/ Continue(t) \/ Finish(t)
    \/ \E q \in inFlight : ServeChallenge(q) \/ ServeConfirm(q) \/ ServeBroadcast(q)
    \/ \E account \in Accounts : OtherWallet(account)
    \/ TimePasses
    \/ RefreshAssetQuote
    \/ \E ok \in BOOLEAN : RefreshDone(ok)

Spec == Init /\ [][Next]_transferVars

(***************************************************************************)
(* Properties.                                                             *)
(***************************************************************************)
\* Type invariant; no request is tried more than MaxRetries + 1 times.
TransferTypeOK ==
    /\ ChallengeTypeOK
    /\ loading \in BOOLEAN
    /\ history \in SUBSET Shown
    /\ result \in SUBSET Shown
    /\ transfers \in [Transfers -> Progress]
    /\ refreshing \in 0 .. MaxRefreshes /\ refreshes \in 0 .. MaxRefreshes
    /\ inFlight \in SUBSET Request
    /\ executed \in [Transfers -> Nat]

\* The chain gets a transfer only after the server has accepted a confirmation
\* that no other transfer can have used, and not more often than the client
\* may try: all broadcasts together are covered by accepted confirmations.
CoveredByConfirmations ==
    LET broadcast == {t \in Transfers : executed[t] > 0}
    IN  /\ Cardinality(broadcast) <= Len(accepted)
        /\ \A t \in broadcast : /\ executed[t] <= MaxRetries + 1
                                /\ \E i \in DOMAIN accepted :
                                       accepted[i] = [id |-> transfers[t].id, account |-> Wallet]

\* What the wallet shows of a transfer, in the list or as the result, is how it
\* went: the chain took one that is shown as confirmed, and refused one that is
\* shown as pending at least once, so that the chain has it, if at all, from
\* another try, whose answer was lost.
ShownAsItWent ==
    \A shown \in history \cup result :
        CASE shown.status = "confirmed" -> executed[shown.transfer] > 0
          [] shown.status = "pending"   -> executed[shown.transfer] <= MaxRetries

\* From the challenge to the history: each challenge authorises once, the chain
\* gets only what was authorised, and a transfer is shown as it went.
TransfersAuthorised ==
    TransferTypeOK /\ SingleUse /\ CoveredByConfirmations /\ ShownAsItWent

\* The button comes back: loading is set only while a refresh or a transfer is
\* in progress, unless a FormatException has gone past runTransferFlow's catch,
\* after which loading stays set until the next refresh ends.
LoadingExplained ==
    loading => \/ refreshing > 0
               \/ \E t \in Transfers : InProgress(t) \/ transfers[t].at = "thrown"
=============================================================================

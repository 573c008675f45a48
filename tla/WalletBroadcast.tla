-------------------------- MODULE WalletBroadcast --------------------------
(***************************************************************************)
(* The transaction services of the wallet SDK (services/*.ts) on top of    *)
(* broadcastWithRetry (broadcast.ts), with the chain they talk to: calls   *)
(* for one account run concurrently, every attempt asks for the account's  *)
(* sequence and signs anew, an answer may be lost before or after the      *)
(* transaction reached the chain, and a transaction whose answer was lost  *)
(* may still be executed while the next attempt is under way.              *)
(*                                                                         *)
(* The chain and the signing client are external: a transaction runs when  *)
(* its sequence is the account's, and then uses the sequence up.  A log is *)
(* abstracted to the groups of keywords it contains.                       *)
(***************************************************************************)
EXTENDS NonceManager, WalletSigner, FiniteSets

CONSTANTS Calls, maxAttempts,
          MaxOther    \* bound: the sequence other wallets may bring it to

ASSUME BroadcastAssumption == maxAttempts \in Nat \ {0}

VARIABLES
    call,  \* per call: [pc, confirm, valid, attempt, signed, err]
    tx,    \* per call and attempt: [state, seq]
    lost   \* per call: the attempts whose outcome the client did not learn

sdkVars == <<sequence, nonceVars, signerVars, call, tx, lost>>
chainSide == <<nonceVars, signerVars>>
-----------------------------------------------------------------------------
(* What each service validates, in order, before it broadcasts.  A bad     *)
(* network prefix surfaces when the first address is compared with it; the *)
(* transfer and authorization services leave their input to the chain.     *)
validateDelegatorAddress == <<"PREFIX", "DELEGATOR">>
validateVoterAddress == <<"PREFIX", "VOTER">>
delegateToValidator == validateDelegatorAddress \o <<"VALIDATOR", "AMOUNT">>
undelegateFromValidator == validateDelegatorAddress \o <<"VALIDATOR", "AMOUNT">>
withdrawValidatorRewards == validateDelegatorAddress \o <<"VALIDATOR">>
(* Faulty variant: one of the two validators is not looked at.             *)
redelegateSourceOnly == validateDelegatorAddress \o <<"SOURCE", "AMOUNT">>
redelegateToValidator == validateDelegatorAddress \o <<"SOURCE", "DESTINATION", "AMOUNT">>
voteProposal == validateVoterAddress \o <<"PROPOSAL_ID">>
sendNativeToken == <<>>
transferIBC == <<>>
grantGenericAuthorization == <<>>
executeAuthorizedMessages == <<>>
revokeAuthorization == <<>>

Checks == [delegate |-> delegateToValidator, undelegate |-> undelegateFromValidator,
           withdraw |-> withdrawValidatorRewards, redelegate |-> redelegateToValidator,
           vote |-> voteProposal, send |-> sendNativeToken, sendAndConfirm |-> sendNativeToken,
           ibc |-> transferIBC, grant |-> grantGenericAuthorization,
           exec |-> executeAuthorizedMessages, revoke |-> revokeAuthorization]
Services == DOMAIN Checks

(* The parts of each input that have a format, besides the network prefix. *)
InputParts == [svc \in Services |->
    CASE svc \in {"delegate", "undelegate"} -> {"DELEGATOR", "VALIDATOR", "AMOUNT"}
      [] svc = "withdraw" -> {"DELEGATOR", "VALIDATOR"}
      [] svc = "redelegate" -> {"DELEGATOR", "SOURCE", "DESTINATION", "AMOUNT"}
      [] svc = "vote" -> {"VOTER", "PROPOSAL_ID"}
      [] OTHER -> {}]
-----------------------------------------------------------------------------
(* The first keyword group, in the code's order, that the text contains;   *)
(* the gas group's Chinese keywords contain the funds group's own, so a    *)
(* text with "gasZh" has both.                                             *)
Named(order, kw) == SelectSeq(order, LAMBDA g : g \in kw)
CodeOf(group) == CASE group = "funds" -> "INSUFFICIENT_FUNDS"
                   [] group = "gas" -> "OUT_OF_GAS"
                   [] group = "sequence" -> "INVALID_SEQUENCE"
                   [] group = "invalid" -> "INVALID_ARGUMENT"
                   [] group = "unauthorized" -> "UNAUTHORIZED"
                   [] group = "node" -> "NODE_UNAVAILABLE"
mapTxError(code, kw) ==
    LET named == Named(<<"funds", "gas", "sequence", "invalid", "unauthorized">>, kw)
    IN CASE named # <<>> -> CodeOf(named[1])
         [] named = <<>> /\ code = 4 -> CodeOf("funds")
         [] named = <<>> /\ code = 11 -> CodeOf("gas")
         [] named = <<>> /\ code = 32 -> CodeOf("sequence")
         [] named = <<>> /\ code \in {2, 3} -> CodeOf("invalid")
         [] named = <<>> /\ code = 13 -> CodeOf("unauthorized")
         [] OTHER -> "TX_REJECTED"
mapBroadcastError(kw) ==
    LET named == Named(<<"node", "sequence", "gas", "funds", "invalid">>, kw)
    IN IF named = <<>> THEN "TX_REJECTED" ELSE CodeOf(named[1])

defaultRetriableCodes == {11, 32}
defaultRetriableErrorCodes == {"NODE_UNAVAILABLE", "INVALID_SEQUENCE"}
-----------------------------------------------------------------------------
Idle == [pc |-> "idle", confirm |-> FALSE, valid |-> TRUE,
         attempt |-> 0, signed |-> 0, err |-> "none"]
NoTx == [state |-> "none", seq |-> 0]

SdkInit == /\ sequence = 0
           /\ NonceInit /\ SignerInit
           /\ call = [c \in Calls |-> Idle]
           /\ tx = [c \in Calls |-> [a \in 1..maxAttempts |-> NoTx]]
           /\ lost = [c \in Calls |-> {}]

Ended(c, pc) == [call[c] EXCEPT !.pc = pc, !.confirm = FALSE, !.signed = 0]
Fail(c, code) == [Ended(c, "failed") EXCEPT !.err = code]

(* The end of an attempt that did not succeed: the next one after a delay, *)
(* or the mapped error.                                                    *)
EndAttempt(c, code, retriable) ==
    call' = [call EXCEPT ![c] = IF retriable /\ @.attempt < maxAttempts
                                THEN [@ EXCEPT !.pc = "sleeping", !.signed = 0]
                                ELSE Fail(c, code)]
(* Faulty variant: an error that may not be retried is swallowed.          *)
ThrownSilently(c, kw) ==
    IF mapBroadcastError(kw) \in defaultRetriableErrorCodes /\ call[c].attempt < maxAttempts
    THEN call' = [call EXCEPT ![c].pc = "sleeping", ![c].signed = 0]
    ELSE call' = [call EXCEPT ![c] = Ended(c, "done")]
Thrown(c, kw) == EndAttempt(c, mapBroadcastError(kw),
                            mapBroadcastError(kw) \in defaultRetriableErrorCodes)

(* A service is called: its input is validated, then the first attempt     *)
(* starts.  bad is the set of checks the input fails.                      *)
CallService(c, svc, bad) ==
    LET failed == FirstBad(Checks[svc], bad)
    IN /\ signer = Client
       /\ call[c].pc = "idle"
       /\ call' = [call EXCEPT ![c] =
             [@ EXCEPT !.confirm = (svc = "sendAndConfirm"), !.valid = (bad = {}),
                       !.pc = IF failed = <<>> THEN "attempt" ELSE "failed",
                       !.err = IF failed = <<>> THEN "none" ELSE failed[1],
                       !.attempt = IF failed = <<>> THEN 1 ELSE 0]]
       /\ UNCHANGED <<sequence, chainSide, tx, lost>>

(* signAndBroadcast: simulate and ask for the sequence ...                 *)
Sign(c) == /\ call[c].pc = "attempt"
           /\ call' = [call EXCEPT ![c].pc = "signed", ![c].signed = sequence]
           /\ UNCHANGED <<sequence, chainSide, tx, lost>>

SignFails(c) == /\ call[c].pc = "attempt"
                /\ \E kw \in {{"node"}, {"gas"}, {"funds"}, {}} : Thrown(c, kw)
                /\ UNCHANGED <<sequence, chainSide, tx, lost>>

(* ... then send: accepted, or refused for its sequence, at once when the  *)
(* node already holds one with that sequence.                              *)
Pending(s) == \E c \in Calls, a \in 1..maxAttempts : tx[c][a] = [state |-> "pending", seq |-> s]

Send(c) == /\ call[c].pc = "signed"
           /\ call[c].signed = sequence
           /\ tx' = [tx EXCEPT ![c][call[c].attempt] = [state |-> "pending", seq |-> sequence]]
           /\ call' = [call EXCEPT ![c].pc = "sent"]
           /\ UNCHANGED <<sequence, chainSide, lost>>

SendRefused(c) == /\ call[c].pc = "signed"
                  /\ call[c].signed < sequence \/ Pending(call[c].signed)
                  /\ Thrown(c, {"sequence"})
                  /\ UNCHANGED <<sequence, chainSide, tx, lost>>

SendFails(c) == /\ call[c].pc = "signed"
                /\ Thrown(c, {"node"})
                /\ lost' = [lost EXCEPT ![c] = @ \cup {call[c].attempt}]
                /\ UNCHANGED <<sequence, chainSide, tx>>

(* The chain executes a transaction, or finds its sequence used.           *)
Execute(c, a) == /\ tx[c][a].state = "pending"
                 /\ tx[c][a].seq = sequence
                 /\ sequence' = sequence + 1
                 /\ \E outcome \in {"ok", "gas", "rejected"} :
                       tx' = [tx EXCEPT ![c][a] = [state |-> outcome, seq |-> 0]]
                 /\ UNCHANGED <<chainSide, call, lost>>

Drop(c, a) == /\ tx[c][a].state = "pending"
              /\ tx[c][a].seq < sequence
              /\ tx' = [tx EXCEPT ![c][a] = [state |-> "dropped", seq |-> 0]]
              /\ UNCHANGED <<sequence, chainSide, call, lost>>

(* The result of an executed transaction: its code and what its log names. *)
Results(state) == CASE state = "gas" -> {<<11, {"gas"}>>, <<11, {"gas", "funds"}>>}
                    [] state = "rejected" -> {<<4, {}>>, <<4, {"sequence", "unauthorized"}>>, <<5, {"funds"}>>}
                    [] state = "dropped" -> {<<32, {"sequence"}>>}
Succeeded(c) == IF call[c].confirm THEN [call[c] EXCEPT !.pc = "confirming", !.signed = 0]
                                   ELSE Ended(c, "done")
(* Faulty variant: the result is not examined before the retry.            *)
AnswerUnread(c) ==
    /\ call[c].pc = "sent"
    /\ tx[c][call[c].attempt].state \in {"ok", "gas", "rejected", "dropped"}
    /\ call' = [call EXCEPT ![c] = IF @.attempt < maxAttempts THEN [@ EXCEPT !.pc = "sleeping"]
                                                              ELSE Succeeded(c)]
    /\ UNCHANGED <<sequence, chainSide, tx, lost>>
Answer(c) ==
    LET state == tx[c][call[c].attempt].state
    IN /\ call[c].pc = "sent"
       /\ \/ /\ state = "ok"
             /\ call' = [call EXCEPT ![c] = Succeeded(c)]
          \/ /\ state \in {"gas", "rejected", "dropped"}
             /\ \E r \in Results(state) :
                   EndAttempt(c, mapTxError(r[1], r[2]), r[1] \in defaultRetriableCodes)
       /\ UNCHANGED <<sequence, chainSide, tx, lost>>

(* The answer is lost, or the client stops waiting for the block.          *)
AnswerLost(c) == /\ call[c].pc = "sent"
                 /\ \E kw \in {{"node"}, {}} : Thrown(c, kw)
                 /\ lost' = [lost EXCEPT ![c] = @ \cup {call[c].attempt}]
                 /\ UNCHANGED <<sequence, chainSide, tx>>

(* Faulty variant: the attempt is not counted.                             *)
WakeUncounted(c) == /\ call[c].pc = "sleeping"
                    /\ call' = [call EXCEPT ![c].pc = "attempt"]
                    /\ UNCHANGED <<sequence, chainSide, tx, lost>>
Wake(c) == /\ call[c].pc = "sleeping"
           /\ call' = [call EXCEPT ![c].pc = "attempt", ![c].attempt = @ + 1]
           /\ UNCHANGED <<sequence, chainSide, tx, lost>>

(* waitForTx polls until it finds the transaction or its time is over; an  *)
(* error of the query is not caught.                                       *)
waitForTx(c) == /\ call[c].pc = "confirming"
                /\ \/ call' = [call EXCEPT ![c] = Ended(c, "done")]   \* confirmed, or timed out
                   \/ call' = [call EXCEPT ![c] = Fail(c, "QUERY")]
                /\ UNCHANGED <<sequence, chainSide, tx, lost>>
-----------------------------------------------------------------------------
Progress(c) == \/ Sign(c) \/ SignFails(c) \/ Send(c) \/ SendRefused(c) \/ SendFails(c)
               \/ Answer(c) \/ AnswerLost(c) \/ Wake(c) \/ waitForTx(c)

(* A valid input, or one with a wrong part; a configured prefix may be bad. *)
Inputs(svc) == {{}} \cup {{part} : part \in InputParts[svc]}
                   \cup (IF InputParts[svc] = {} THEN {} ELSE {{"PREFIX"}})

(* Another wallet with the same account sends a transaction.               *)
OtherTx == /\ sequence < MaxOther
           /\ sequence' = sequence + 1
           /\ UNCHANGED <<chainSide, call, tx, lost>>

(* No service uses the nonce manager: the two share only the account's     *)
(* sequence, which OtherTx moves as the calls do.  They are not explored   *)
(* together: the manager is used before a signer is made, or not at all.   *)
NonceUnused == nonceVars = <<Unset, [r \in Reservers |-> IdleReserver], FALSE>> /\ sequence = 0
SdkNext ==
    \/ \E c \in Calls, svc \in Services : \E bad \in Inputs(svc) : CallService(c, svc, bad)
    \/ \E c \in Calls : Progress(c)
    \/ \E c \in Calls, a \in 1..maxAttempts : Execute(c, a) \/ Drop(c, a)
    \/ /\ signerVars = <<NoSigner, <<>>>>
       /\ \/ NonceNext /\ UNCHANGED <<sequence, signerVars, call, tx, lost>>
          \/ OtherTx
    \/ NonceUnused /\ SignerNext /\ UNCHANGED <<sequence, nonceVars, call, tx, lost>>

(* A promise the signing client or the node returned is settled and a due  *)
(* timer fires; nothing obliges the chain to execute a transaction.        *)
SdkSpec == /\ SdkInit /\ [][SdkNext]_sdkVars
           /\ \A c \in Calls : WF_sdkVars(Progress(c))
-----------------------------------------------------------------------------
SdkTypeOK ==
    /\ sequence \in Nat
    /\ nextNonce \in Nat \cup {Unset}
    /\ \A r \in Reservers : /\ reserver[r].pc \in {"idle", "reserving", "syncing", "synced", "done"}
                            /\ reserver[r].nonce \in Nat \cup {None}
    /\ \A c \in Calls :
          /\ call[c].pc \in {"idle", "attempt", "signed", "sent", "sleeping",
                             "confirming", "done", "failed"}
          /\ call[c].attempt \in 0..maxAttempts
          /\ call[c].signed <= sequence
          /\ lost[c] \subseteq 1..call[c].attempt
          /\ \A a \in 1..maxAttempts : tx[c][a].state # "none" => a <= call[c].attempt

(* An input with a part its service should refuse never reaches the chain, *)
(* whatever else of the input is wrong.                                    *)
InvalidNeverSent ==
    \A c \in Calls, a \in 1..maxAttempts : tx[c][a].state # "none" => call[c].valid

(* Inputs are taken as they were meant: what a check refuses goes nowhere, *)
(* and a signer is the one that was asked for.                             *)
InputsHonoured == SdkTypeOK /\ InvalidNeverSent /\ SignerPathHonoured

(* A transaction that was executed is sent again only when the answer to   *)
(* it was lost: the retry never repeats what it knows to have succeeded,   *)
(* but a lost answer can make the same transfer run twice, since every     *)
(* attempt signs with a new sequence.                                      *)
RepeatOnlyIfLost ==
    \A c \in Calls, a \in 1..maxAttempts :
        (tx[c][a].state = "ok" /\ a < call[c].attempt) => a \in lost[c]

(* What a call reports is what happened: success means its last attempt    *)
(* was executed; a failure means nothing was, unless an answer was lost    *)
(* or the confirmation query failed after the success.                     *)
OutcomeHonest ==
    \A c \in Calls :
        /\ call[c].pc \in {"confirming", "done"} => tx[c][call[c].attempt].state = "ok"
        /\ call[c].pc = "failed" =>
              \A a \in 1..maxAttempts :
                 tx[c][a].state = "ok" => a \in lost[c] \/ call[c].err = "QUERY"

(* Every call is settled: the attempts are bounded and each one ends.      *)
CallSettles ==
    \A c \in Calls : (call[c].pc = "attempt") ~> (call[c].pc \in {"done", "failed"})
=============================================================================

----------------------------- MODULE SdkProofs -----------------------------
(***************************************************************************)
(* Proofs about the nonce manager and the broadcasts of the wallet SDK,    *)
(* for every number of callers, calls and attempts.                        *)
(***************************************************************************)
EXTENDS WalletBroadcast, SequenceTheorems, TLAPS

(***************************************************************************)
(* The nonce manager.                                                      *)
(***************************************************************************)
Reserver == [pc : {"idle", "reserving", "syncing", "synced", "done"}, since : Nat,
             nonce : Nat \cup {None}]

NonceType ==
    /\ sequence \in Nat
    /\ nextNonce \in Nat \cup {Unset}
    /\ reserver \in [Reservers -> Reserver]
    /\ overwritten \in BOOLEAN

\* As long as no answer set the counter back and no reset forgot it, it is set
\* once an answer has arrived, and is past every nonce that was taken.
CounterAhead ==
    \A r \in Reservers :
        /\ reserver[r].pc = "synced" => nextNonce # Unset
        /\ reserver[r].nonce # None => nextNonce # Unset /\ reserver[r].nonce < nextNonce
NoncesDistinct ==
    \A r, q \in Reservers : r # q /\ reserver[r].nonce # None =>
                                reserver[r].nonce # reserver[q].nonce

NonceInv == NonceType /\ (overwritten = FALSE => CounterAhead /\ NoncesDistinct)

\* Taking the value of the counter, whichever path of reserve leads there.
LEMMA TakeKeeps ==
    ASSUME NonceInv, UNCHANGED sequence, NEW r \in Reservers, NEW STATE from,
           from \in Nat, Take(r, from), overwritten = FALSE => from = nextNonce
    PROVE  NonceInv'
<1>1. /\ reserver' = [reserver EXCEPT ![r] = [@ EXCEPT !.pc = "done", !.nonce = from]]
      /\ nextNonce' = from + 1 /\ overwritten' = overwritten
  BY DEF Take, NonceInv, NonceType, Reserver
<1>2. NonceType'
  <2>1. [reserver[r] EXCEPT !.pc = "done", !.nonce = from] \in Reserver
    BY DEF NonceInv, NonceType, Reserver
  <2>2. reserver' \in [Reservers -> Reserver] /\ from + 1 \in Nat
    BY <1>1, <2>1 DEF NonceInv, NonceType
  <2> QED BY <1>1, <2>2 DEF NonceInv, NonceType
<1>3. ASSUME overwritten = FALSE PROVE CounterAhead' /\ NoncesDistinct'
  <2>1. from = nextNonce /\ CounterAhead /\ NoncesDistinct
    BY <1>3 DEF NonceInv
  <2>2. /\ reserver'[r].nonce = from
        /\ \A q \in Reservers \ {r} : reserver'[q] = reserver[q]
    BY <1>1 DEF NonceInv, NonceType, Reserver
  <2>3. \A q \in Reservers : reserver[q].nonce \in Nat \cup {None}
    BY DEF NonceInv, NonceType, Reserver
  <2>4. CounterAhead'
    BY <1>1, <2>1, <2>2, <2>3 DEF CounterAhead, Unset, None, NonceInv, NonceType
  <2>5. NoncesDistinct'
    BY <1>1, <2>1, <2>2, <2>3 DEF NoncesDistinct, CounterAhead, None
  <2> QED BY <2>4, <2>5
<1> QED BY <1>1, <1>2, <1>3 DEF NonceInv

\* A caller that moves on without a nonce.
LEMMA MoveKeeps ==
    ASSUME NonceInv, UNCHANGED sequence, NEW r \in Reservers,
           NEW pc \in {"reserving", "syncing", "done"}, NEW STATE since, since \in Nat,
           reserver' = [reserver EXCEPT ![r] = [@ EXCEPT !.pc = pc, !.since = since]],
           UNCHANGED <<nextNonce, overwritten>>
    PROVE  NonceInv'
<1>1. NonceType'
  BY DEF NonceInv, NonceType, Reserver
<1>2. \A q \in Reservers : /\ reserver'[q].nonce = reserver[q].nonce
                           /\ reserver'[q].pc = "synced" => reserver[q].pc = "synced"
  BY DEF NonceInv, NonceType, Reserver
<1> QED BY <1>1, <1>2 DEF NonceInv, CounterAhead, NoncesDistinct

\* One step of the manager keeps the invariant.
LEMMA NonceStep ==
    ASSUME NonceInv, NonceNext, UNCHANGED sequence
    PROVE  NonceInv'
<1>1. ASSUME NEW r \in Reservers, reserve(r) PROVE NonceInv'
  <2>1. CASE nextNonce = Unset
    <3>1. reserver' = [reserver EXCEPT ![r] = [@ EXCEPT !.pc = "reserving", !.since = sequence]]
      BY <1>1, <2>1 DEF reserve, NonceInv, NonceType, Reserver
    <3> QED BY <1>1, <2>1, <3>1, MoveKeeps DEF reserve, NonceInv, NonceType
  <2>2. CASE nextNonce # Unset
    BY <1>1, <2>2, TakeKeeps DEF reserve, NonceInv, NonceType
  <2> QED BY <2>1, <2>2
<1>2. ASSUME NEW r \in Reservers, sync(r) PROVE NonceInv'
  <2>1. reserver' = [reserver EXCEPT ![r] = [@ EXCEPT !.pc = "syncing", !.since = sequence]]
    BY <1>2 DEF sync, NonceInv, NonceType, Reserver
  <2> QED BY <1>2, <2>1, MoveKeeps DEF sync, NonceInv, NonceType
<1>3. ASSUME NEW r \in Reservers, SequenceAnswer(r) PROVE NonceInv'
  <2>1. PICK s \in reserver[r].since .. sequence :
            /\ nextNonce' = s
            /\ overwritten' = (overwritten \/ (nextNonce # Unset /\ s < nextNonce))
    BY <1>3 DEF SequenceAnswer
  <2>2. s \in Nat /\ overwritten' \in BOOLEAN
    BY <2>1 DEF NonceInv, NonceType, Reserver
  <2>3. /\ reserver' \in [Reservers -> Reserver]
        /\ \A q \in Reservers : reserver'[q].nonce = reserver[q].nonce
    BY <1>3 DEF SequenceAnswer, NonceInv, NonceType, Reserver
  <2>4. NonceType'
    BY <2>1, <2>2, <2>3 DEF NonceInv, NonceType
  <2>5. ASSUME overwritten' = FALSE PROVE CounterAhead' /\ NoncesDistinct'
    <3>0. overwritten = FALSE /\ ~(nextNonce # Unset /\ s < nextNonce)
      <4>1. overwritten \in BOOLEAN
        BY DEF NonceInv, NonceType
      <4> QED BY <2>1, <2>5, <4>1, Zenon
    <3>1. overwritten = FALSE /\ (nextNonce # Unset => nextNonce <= s)
      BY <2>2, <3>0 DEF NonceInv, NonceType, Unset
    <3>2. CounterAhead /\ NoncesDistinct
      BY <3>1 DEF NonceInv
    <3>3. \A q \in Reservers : reserver[q].nonce \in Nat \cup {None}
      BY DEF NonceInv, NonceType, Reserver
    <3>4. nextNonce' # Unset /\ nextNonce' = s
      BY <2>1, <2>2 DEF Unset
    <3>5. CounterAhead'
      BY <2>2, <2>3, <3>1, <3>2, <3>3, <3>4 DEF CounterAhead, None, Unset, NonceInv, NonceType
    <3> QED BY <2>3, <3>2, <3>5 DEF NoncesDistinct
  <2> QED BY <2>4, <2>5 DEF NonceInv
<1>4. ASSUME NEW r \in Reservers, SequenceFails(r) PROVE NonceInv'
  <2>1. /\ reserver[r].since \in Nat
        /\ reserver' = [reserver EXCEPT ![r] = [@ EXCEPT !.pc = "done", !.since = reserver[r].since]]
    BY <1>4 DEF SequenceFails, NonceInv, NonceType, Reserver
  <2> QED BY <1>4, <2>1, MoveKeeps DEF SequenceFails
<1>5. ASSUME NEW r \in Reservers, ReserveResumes(r) PROVE NonceInv'
  <2> DEFINE from == IF nextNonce = Unset THEN 0 ELSE nextNonce
  <2>1. from \in Nat /\ Take(r, from) /\ (overwritten = FALSE => from = nextNonce)
    BY <1>5 DEF ReserveResumes, NonceInv, NonceType, CounterAhead
  <2> HIDE DEF from
  <2> QED BY <2>1, TakeKeeps
<1>6. CASE reset
  <2>1. nextNonce' = Unset /\ reserver' = reserver /\ overwritten' = (overwritten \/ nextNonce # Unset)
    BY <1>6 DEF reset
  <2>2. NonceType' /\ (overwritten' = FALSE => overwritten = FALSE /\ nextNonce = Unset)
    BY <2>1 DEF NonceInv, NonceType
  <2> QED BY <2>1, <2>2 DEF NonceInv, CounterAhead, NoncesDistinct
<1> QED BY <1>1, <1>2, <1>3, <1>4, <1>5, <1>6 DEF NonceNext

\* Whatever else happens, the manager moves by its own steps only.
LEMMA SdkNonceStep ==
    ASSUME NonceInv, [SdkNext]_sdkVars
    PROVE  NonceInv'
<1>1. CASE NonceNext /\ UNCHANGED sequence
  BY <1>1, NonceStep
<1>2. CASE UNCHANGED nonceVars /\ sequence' \in {sequence, sequence + 1}
  <2>1. sequence' \in Nat
    BY <1>2 DEF NonceInv, NonceType
  <2> QED BY <1>2, <2>1 DEF nonceVars, NonceInv, NonceType, CounterAhead, NoncesDistinct
<1>3. ASSUME NEW c \in Calls, NEW svc \in Services, NEW bad \in Inputs(svc), CallService(c, svc, bad)
      PROVE  UNCHANGED <<sequence, nonceVars>>
  BY <1>3 DEF CallService, chainSide
<1>4. ASSUME NEW c \in Calls, Progress(c) PROVE UNCHANGED <<sequence, nonceVars>>
  BY <1>4 DEF Progress, Sign, SignFails, Send, SendRefused, SendFails, Answer, AnswerLost, Wake,
              waitForTx, chainSide
<1>5. ASSUME NEW c \in Calls, NEW a \in 1..maxAttempts, Execute(c, a) \/ Drop(c, a)
      PROVE  UNCHANGED nonceVars /\ sequence' \in {sequence, sequence + 1}
  BY <1>5 DEF Execute, Drop, chainSide
<1>6. OtherTx => UNCHANGED nonceVars /\ sequence' \in {sequence, sequence + 1}
  BY DEF OtherTx, chainSide
<1>7. UNCHANGED sdkVars => UNCHANGED <<sequence, nonceVars>>
  BY DEF sdkVars
<1> QED BY <1>1, <1>2, <1>3, <1>4, <1>5, <1>6, <1>7 DEF SdkNext

\* No nonce has been taken at the start.
LEMMA SdkStartsNonce == SdkInit => NonceInv
<1> SUFFICES ASSUME SdkInit PROVE NonceInv
  OBVIOUS
<1>1. /\ sequence = 0 /\ nextNonce = Unset /\ overwritten = FALSE
      /\ reserver = [r \in Reservers |-> [pc |-> "idle", since |-> 0, nonce |-> None]]
  BY DEF SdkInit, NonceInit, IdleReserver
<1>2. reserver \in [Reservers -> Reserver]
  BY <1>1 DEF Reserver, None
<1>3. \A r \in Reservers : reserver[r].pc = "idle" /\ reserver[r].nonce = None
  BY <1>1
<1> QED BY <1>1, <1>2, <1>3 DEF NonceInv, NonceType, CounterAhead, NoncesDistinct

\* Two callers of reserve get the same nonce only after an answer of the node
\* set the counter back or a reset forgot it.
THEOREM NoncesCorrect == SdkSpec => []NonceDuplicatesExplained
<1>1. NonceInv => NonceDuplicatesExplained
  BY DEF NonceInv, NonceType, NoncesDistinct, NonceDuplicatesExplained
<1> QED BY <1>1, SdkStartsNonce, SdkNonceStep, PTL DEF SdkSpec

(***************************************************************************)
(* The broadcasts.                                                         *)
(***************************************************************************)
\* The codes a call may report, whatever the mappings make of them.
Keywords == SUBSET {"node", "gas", "funds", "sequence", "unauthorized"}
ErrorCodes == {"none", "QUERY"}
    \cup {mapBroadcastError(kw) : kw \in Keywords}
    \cup {mapTxError(code, kw) : code \in Nat, kw \in Keywords}
    \cup {FirstBad(Checks[svc], bad)[1] : svc \in Services, bad \in UNION {Inputs(s) : s \in Services}}

Places == {"idle", "attempt", "signed", "sent", "sleeping", "confirming", "done", "failed"}
CallRecord == [pc : Places, confirm : BOOLEAN, valid : BOOLEAN,
               attempt : 0..maxAttempts, signed : Nat, err : ErrorCodes]
States == {"none", "pending", "ok", "gas", "rejected", "dropped"}
TxRecord == [state : States, seq : Nat]

BroadcastType ==
    /\ sequence \in Nat
    /\ call \in [Calls -> CallRecord]
    /\ tx \in [Calls -> [1..maxAttempts -> TxRecord]]
    /\ lost \in [Calls -> SUBSET (1..maxAttempts)]

\* A transaction that may count: it was executed, or may still be.
MayCount(c, a) == tx[c][a].state \in {"pending", "ok"}

\* A transaction belongs to an attempt that was sent.
SentBefore(c) ==
    /\ call[c].pc = "idle" => call[c].attempt = 0
    /\ call[c].pc \notin {"idle", "failed"} => call[c].attempt \in 1..maxAttempts
    /\ call[c].pc = "sleeping" => call[c].attempt < maxAttempts
    /\ \A a \in 1..maxAttempts :
          tx[c][a].state # "none" =>
              /\ a <= call[c].attempt
              /\ call[c].pc \in {"attempt", "signed"} => a < call[c].attempt

\* An attempt was left behind only if it cannot count or its answer was lost.
LeftBehind(c) ==
    \A a \in 1..maxAttempts : MayCount(c, a) =>
        /\ a < call[c].attempt => a \in lost[c]
        /\ call[c].pc = "sleeping" \/ (call[c].pc = "failed" /\ call[c].err # "QUERY") => a \in lost[c]

SuccessExecuted(c) ==
    call[c].pc \in {"confirming", "done"} => tx[c][call[c].attempt].state = "ok"

CallInv(c) == SentBefore(c) /\ LeftBehind(c) /\ SuccessExecuted(c)
BroadcastInv == BroadcastType /\ \A c \in Calls : CallInv(c)

\* A step of call c leaves the other calls as they are.
LEMMA OthersKept ==
    ASSUME BroadcastInv, NEW c \in Calls, BroadcastType', CallInv(c)',
           \A d \in Calls \ {c} : call'[d] = call[d] /\ tx'[d] = tx[d] /\ lost'[d] = lost[d]
    PROVE  BroadcastInv'
<1>1. ASSUME NEW d \in Calls \ {c} PROVE CallInv(d)'
  <2>1. CallInv(d) /\ call'[d] = call[d] /\ tx'[d] = tx[d] /\ lost'[d] = lost[d]
    BY <1>1 DEF BroadcastInv
  <2> QED BY <2>1 DEF CallInv, SentBefore, LeftBehind, SuccessExecuted, MayCount
<1> QED BY <1>1 DEF BroadcastInv

\* An attempt ends without success: it may not count, or its answer is lost.
LEMMA EndKeeps ==
    ASSUME BroadcastInv, NEW c \in Calls, NEW code \in ErrorCodes, NEW retriable,
           call[c].pc \in {"attempt", "signed", "sent"},
           EndAttempt(c, code, retriable), UNCHANGED <<sequence, tx>>,
           \/ ~MayCount(c, call[c].attempt) /\ lost' = lost
           \/ lost' = [lost EXCEPT ![c] = @ \cup {call[c].attempt}]
    PROVE  BroadcastInv'
<1> DEFINE k == call[c].attempt
<1>1. /\ call[c] \in CallRecord /\ k \in 1..maxAttempts /\ CallInv(c)
      /\ lost[c] \subseteq 1..maxAttempts
  BY DEF BroadcastInv, BroadcastType, CallInv, SentBefore
<1>2. PICK after \in CallRecord :
          /\ call' = [call EXCEPT ![c] = after]
          /\ after.attempt = k /\ after.pc \in {"sleeping", "failed"}
          /\ after.pc = "sleeping" => k < maxAttempts
  <2> DEFINE asleep == [call[c] EXCEPT !.pc = "sleeping", !.signed = 0]
             failed == [call[c] EXCEPT !.pc = "failed", !.confirm = FALSE, !.signed = 0, !.err = code]
  <2>1. asleep \in CallRecord /\ asleep.attempt = k /\ asleep.pc = "sleeping"
    BY <1>1 DEF CallRecord, Places
  <2>2. failed \in CallRecord /\ failed.attempt = k /\ failed.pc = "failed"
    BY <1>1 DEF CallRecord, Places
  <2>3. Fail(c, code) = failed
    BY <1>1 DEF Fail, Ended, CallRecord
  <2>4. \/ call' = [call EXCEPT ![c] = asleep] /\ k < maxAttempts
        \/ call' = [call EXCEPT ![c] = failed]
    BY <2>3 DEF EndAttempt, BroadcastInv, BroadcastType
  <2> HIDE DEF asleep, failed
  <2> QED BY <2>1, <2>2, <2>4
<1>3. /\ lost'[c] \subseteq 1..maxAttempts /\ lost[c] \subseteq lost'[c]
      /\ MayCount(c, k) => k \in lost'[c]
      /\ lost' \in [Calls -> SUBSET (1..maxAttempts)]
      /\ \A d \in Calls \ {c} : lost'[d] = lost[d]
  BY <1>1 DEF BroadcastInv, BroadcastType
<1>4. call'[c] = after /\ \A d \in Calls \ {c} : call'[d] = call[d]
  BY <1>2 DEF BroadcastInv, BroadcastType
<1>5. BroadcastType'
  BY <1>2, <1>3 DEF BroadcastInv, BroadcastType
<1>6. CallInv(c)'
  <2>1. SentBefore(c)'
    BY <1>1, <1>2, <1>4 DEF CallInv, SentBefore
  <2>2. LeftBehind(c)'
    <3> SUFFICES ASSUME NEW a \in 1..maxAttempts, MayCount(c, a) PROVE a \in lost'[c]
      BY DEF LeftBehind, MayCount
    <3>1. a <= k
      BY <1>1 DEF CallInv, SentBefore, MayCount
    <3>2. a < k => a \in lost[c]
      BY <1>1 DEF CallInv, LeftBehind
    <3> QED BY <1>1, <1>3, <3>1, <3>2
  <2>3. SuccessExecuted(c)'
    BY <1>2, <1>4 DEF SuccessExecuted
  <2> QED BY <2>1, <2>2, <2>3 DEF CallInv
<1> QED BY <1>3, <1>4, <1>5, <1>6, OthersKept

\* A call moves on with its attempt, its transactions and its losses kept, and
\* what the new place asks for holds.
LEMMA MoveOn ==
    ASSUME BroadcastInv, NEW c \in Calls, NEW STATE after, after \in CallRecord,
           call' = [call EXCEPT ![c] = after], UNCHANGED <<sequence, tx, lost>>,
           call[c].pc \in {"attempt", "sent", "confirming"},
           after.attempt = call[c].attempt,
           \/ call[c].pc = "attempt" /\ after.pc = "signed"
           \/ tx[c][call[c].attempt].state = "ok" /\ after.pc \in {"confirming", "done"}
           \/ call[c].pc = "confirming" /\ after.pc = "failed" /\ after.err = "QUERY"
    PROVE  BroadcastInv'
<1>1. CallInv(c) /\ call[c] \in CallRecord
  BY DEF BroadcastInv, BroadcastType
<1>2. call'[c] = after /\ \A d \in Calls \ {c} : call'[d] = call[d]
  BY DEF BroadcastInv, BroadcastType
<1>3. BroadcastType'
  BY DEF BroadcastInv, BroadcastType
<1>4. SentBefore(c)' /\ LeftBehind(c)' /\ SuccessExecuted(c)'
  BY <1>1, <1>2 DEF CallInv, SentBefore, LeftBehind, SuccessExecuted, MayCount
<1> QED BY <1>2, <1>3, <1>4, OthersKept DEF CallInv

\* The code of an attempt that threw is one of the codes.
LEMMA ThrownKeeps ==
    ASSUME BroadcastInv, NEW c \in Calls, NEW kw \in Keywords,
           call[c].pc \in {"attempt", "signed", "sent"},
           Thrown(c, kw), UNCHANGED <<sequence, tx>>,
           \/ ~MayCount(c, call[c].attempt) /\ lost' = lost
           \/ lost' = [lost EXCEPT ![c] = @ \cup {call[c].attempt}]
    PROVE  BroadcastInv'
<1>1. mapBroadcastError(kw) \in ErrorCodes
  BY DEF ErrorCodes
<1> QED BY <1>1, EndKeeps DEF Thrown

\* Before it is sent, an attempt has no transaction.
LEMMA NothingSent ==
    ASSUME BroadcastInv, NEW c \in Calls, call[c].pc \in {"attempt", "signed"}
    PROVE  /\ call[c].attempt \in 1..maxAttempts
           /\ tx[c][call[c].attempt].state = "none" /\ ~MayCount(c, call[c].attempt)
<1>1. CallInv(c) /\ call[c].attempt \in 1..maxAttempts
  BY DEF BroadcastInv, CallInv, SentBefore
<1>2. tx[c][call[c].attempt].state = "none"
  <2>1. ~(call[c].attempt < call[c].attempt)
    BY <1>1
  <2> QED BY <1>1, <2>1 DEF CallInv, SentBefore
<1> QED BY <1>1, <1>2 DEF MayCount

\* A service is called: its first attempt has no transaction yet.
LEMMA CallServiceKeeps ==
    ASSUME BroadcastInv, NEW c \in Calls, NEW svc \in Services, NEW bad \in Inputs(svc),
           CallService(c, svc, bad)
    PROVE  BroadcastInv'
<1> DEFINE failed == FirstBad(Checks[svc], bad)
           err == IF failed = <<>> THEN "none" ELSE failed[1]
<1>1. err \in ErrorCodes
  BY DEF ErrorCodes
<1>2. call[c] \in CallRecord /\ call[c].pc = "idle" /\ CallInv(c) /\ maxAttempts \in Nat \ {0}
  BY BroadcastAssumption DEF CallService, BroadcastInv, BroadcastType
<1>3. PICK after \in CallRecord :
          /\ call' = [call EXCEPT ![c] = after]
          /\ \/ after.pc = "attempt" /\ after.attempt = 1
             \/ after.pc = "failed" /\ after.attempt = 0
  <2> DEFINE x == [call[c] EXCEPT !.confirm = (svc = "sendAndConfirm"), !.valid = (bad = {}),
                       !.pc = IF failed = <<>> THEN "attempt" ELSE "failed",
                       !.err = err, !.attempt = IF failed = <<>> THEN 1 ELSE 0]
  <2>1. call' = [call EXCEPT ![c] = x]
    BY DEF CallService
  <2>2. x \in CallRecord
    <3> DEFINE pc == IF failed = <<>> THEN "attempt" ELSE "failed"
               attempt == IF failed = <<>> THEN 1 ELSE 0
               confirm == (svc = "sendAndConfirm")
               valid == (bad = {})
    <3>1. pc \in Places /\ attempt \in 0..maxAttempts
      BY <1>2 DEF Places
    <3>2. confirm \in BOOLEAN /\ valid \in BOOLEAN
      OBVIOUS
    <3> HIDE DEF failed, err, pc, attempt, confirm, valid
    <3>3. [call[c] EXCEPT !.confirm = confirm, !.valid = valid, !.pc = pc,
                          !.err = err, !.attempt = attempt] \in CallRecord
      BY <1>1, <1>2, <3>1, <3>2 DEF CallRecord
    <3> QED BY <3>3 DEF pc, attempt, confirm, valid
  <2>3. \/ x.pc = "attempt" /\ x.attempt = 1
        \/ x.pc = "failed" /\ x.attempt = 0
    <3> HIDE DEF failed, err
    <3> QED BY <1>2 DEF CallRecord
  <2> HIDE DEF x
  <2> QED BY <2>1, <2>2, <2>3
<1>4. /\ call'[c] = after /\ UNCHANGED <<sequence, tx, lost>>
      /\ \A d \in Calls \ {c} : call'[d] = call[d]
  BY <1>3 DEF CallService, BroadcastInv, BroadcastType
<1>5. BroadcastType'
  BY <1>3, <1>4 DEF BroadcastInv, BroadcastType
<1>6. \A a \in 1..maxAttempts : tx[c][a].state = "none"
  BY <1>2 DEF CallInv, SentBefore
<1>7. CallInv(c)'
  BY <1>2, <1>3, <1>4, <1>6 DEF CallInv, SentBefore, LeftBehind, SuccessExecuted, MayCount
<1> QED BY <1>4, <1>5, <1>7, OthersKept

\* The node takes a transaction: it belongs to the attempt under way.
LEMMA SendKeeps ==
    ASSUME BroadcastInv, NEW c \in Calls, Send(c)
    PROVE  BroadcastInv'
<1> DEFINE k == call[c].attempt
           pending == [state |-> "pending", seq |-> sequence]
<1>1. /\ call[c] \in CallRecord /\ k \in 1..maxAttempts /\ CallInv(c) /\ call[c].pc = "signed"
      /\ tx[c] \in [1..maxAttempts -> TxRecord]
  BY NothingSent DEF Send, BroadcastInv, BroadcastType
<1>2. pending \in TxRecord
  BY DEF BroadcastInv, BroadcastType, TxRecord, States
<1>3. /\ tx' = [tx EXCEPT ![c] = [@ EXCEPT ![k] = pending]]
      /\ call' = [call EXCEPT ![c] = [@ EXCEPT !.pc = "sent"]]
      /\ UNCHANGED <<sequence, lost>>
  BY DEF Send
<1> HIDE DEF pending
<1>4. /\ tx'[c] = [tx[c] EXCEPT ![k] = pending] /\ call'[c] = [call[c] EXCEPT !.pc = "sent"]
      /\ \A d \in Calls \ {c} : call'[d] = call[d] /\ tx'[d] = tx[d]
  BY <1>3 DEF BroadcastInv, BroadcastType
<1>5. call'[c] \in CallRecord /\ call'[c].attempt = k /\ call'[c].pc = "sent"
  BY <1>1, <1>4 DEF CallRecord, Places
<1>6. BroadcastType'
  <2>1. call' \in [Calls -> CallRecord]
    BY <1>3, <1>4, <1>5 DEF BroadcastInv, BroadcastType
  <2>2. tx' \in [Calls -> [1..maxAttempts -> TxRecord]]
    BY <1>1, <1>2, <1>3 DEF BroadcastInv, BroadcastType
  <2> QED BY <1>3, <2>1, <2>2 DEF BroadcastInv, BroadcastType
<1>7. \A a \in 1..maxAttempts : a # k => tx'[c][a] = tx[c][a]
  BY <1>1, <1>4
<1>8. SentBefore(c)'
  BY <1>1, <1>5, <1>7 DEF CallInv, SentBefore
<1>9. LeftBehind(c)' /\ SuccessExecuted(c)'
  BY <1>1, <1>3, <1>5, <1>7 DEF CallInv, LeftBehind, SuccessExecuted, MayCount
<1> QED BY <1>3, <1>4, <1>6, <1>8, <1>9, OthersKept DEF CallInv

\* The next attempt begins, and the one before it was left behind.
LEMMA WakeKeeps ==
    ASSUME BroadcastInv, NEW c \in Calls, Wake(c)
    PROVE  BroadcastInv'
<1>1. call[c] \in CallRecord /\ CallInv(c) /\ call[c].pc = "sleeping" /\ maxAttempts \in Nat
  BY BroadcastAssumption DEF Wake, BroadcastInv, BroadcastType
<1>2. /\ call' = [call EXCEPT ![c] = [@ EXCEPT !.pc = "attempt", !.attempt = call[c].attempt + 1]]
      /\ UNCHANGED <<sequence, tx, lost>>
  BY DEF Wake, BroadcastInv, BroadcastType, CallRecord
<1> DEFINE k == call[c].attempt
           after == [call[c] EXCEPT !.pc = "attempt", !.attempt = k + 1]
<1>3. k + 1 \in 1..maxAttempts /\ k \in Nat
  BY <1>1 DEF CallInv, SentBefore, CallRecord
<1>4. after \in CallRecord /\ after.pc = "attempt" /\ after.attempt = k + 1
  <2>1. k + 1 \in 0..maxAttempts
    BY <1>1, <1>3
  <2> HIDE DEF k
  <2> QED BY <1>1, <2>1 DEF CallRecord, Places
<1>5. call'[c] = after /\ \A d \in Calls \ {c} : call'[d] = call[d]
  BY <1>2 DEF BroadcastInv, BroadcastType
<1> HIDE DEF after
<1>6. /\ call'[c] \in CallRecord /\ call'[c].pc = "attempt"
      /\ call'[c].attempt = call[c].attempt + 1
      /\ \A d \in Calls \ {c} : call'[d] = call[d]
  BY <1>4, <1>5
<1>7. BroadcastType'
  BY <1>2, <1>6 DEF BroadcastInv, BroadcastType
<1>8. SentBefore(c)'
  BY <1>1, <1>2, <1>6 DEF CallInv, SentBefore, CallRecord
<1>9. LeftBehind(c)' /\ SuccessExecuted(c)'
  BY <1>1, <1>2, <1>6 DEF CallInv, LeftBehind, SuccessExecuted, MayCount, CallRecord
<1> QED BY <1>2, <1>6, <1>7, <1>8, <1>9, OthersKept DEF CallInv

\* The answer to an attempt is read.
LEMMA AnswerKeeps ==
    ASSUME BroadcastInv, NEW c \in Calls, Answer(c)
    PROVE  BroadcastInv'
<1> DEFINE state == tx[c][call[c].attempt].state
<1>1. /\ call[c] \in CallRecord /\ call[c].pc = "sent" /\ UNCHANGED <<sequence, tx, lost>>
  BY DEF Answer, BroadcastInv, BroadcastType
<1>2. CASE state = "ok" /\ call' = [call EXCEPT ![c] = Succeeded(c)]
  <2>1. /\ Succeeded(c) \in CallRecord /\ Succeeded(c).attempt = call[c].attempt
        /\ Succeeded(c).pc \in {"confirming", "done"}
    BY <1>1 DEF Succeeded, Ended, CallRecord, Places
  <2> QED BY <1>1, <1>2, <2>1, MoveOn
<1>3. CASE /\ state \in {"gas", "rejected", "dropped"}
           /\ \E r \in Results(state) :
                 EndAttempt(c, mapTxError(r[1], r[2]), r[1] \in defaultRetriableCodes)
  <2>1. PICK r \in Results(state) :
            EndAttempt(c, mapTxError(r[1], r[2]), r[1] \in defaultRetriableCodes)
    BY <1>3
  <2>2. r[1] \in Nat /\ r[2] \in Keywords
    BY <1>3, <2>1 DEF Results, Keywords
  <2>3. mapTxError(r[1], r[2]) \in ErrorCodes
    BY <2>2 DEF ErrorCodes
  <2>4. ~MayCount(c, call[c].attempt)
    BY <1>3 DEF MayCount
  <2> QED BY <1>1, <2>1, <2>3, <2>4, EndKeeps
<1> QED BY <1>2, <1>3 DEF Answer

\* The chain's steps: what was pending becomes something else.
LEMMA ChainKeeps ==
    ASSUME BroadcastInv, NEW c \in Calls, NEW a \in 1..maxAttempts, Execute(c, a) \/ Drop(c, a)
    PROVE  BroadcastInv'
<1>1. PICK outcome \in {"ok", "gas", "rejected", "dropped"} :
          tx' = [tx EXCEPT ![c][a] = [state |-> outcome, seq |-> 0]]
  BY DEF Execute, Drop
<1>2. /\ tx[c][a].state = "pending" /\ UNCHANGED <<call, lost>> /\ sequence' \in Nat
      /\ tx[c] \in [1..maxAttempts -> TxRecord] /\ CallInv(c)
  BY DEF Execute, Drop, BroadcastInv, BroadcastType
<1>3. [state |-> outcome, seq |-> 0] \in TxRecord
  BY DEF TxRecord, States
<1>4. /\ tx' \in [Calls -> [1..maxAttempts -> TxRecord]]
      /\ tx'[c][a].state = outcome
      /\ \A b \in 1..maxAttempts : b # a => tx'[c][b] = tx[c][b]
      /\ \A d \in Calls \ {c} : tx'[d] = tx[d]
  BY <1>1, <1>2, <1>3 DEF BroadcastInv, BroadcastType
<1>5. BroadcastType'
  BY <1>2, <1>4 DEF BroadcastInv, BroadcastType
<1>6. \A b \in 1..maxAttempts : /\ tx'[c][b].state # "none" => tx[c][b].state # "none"
                                /\ MayCount(c, b)' => MayCount(c, b)
  BY <1>2, <1>4 DEF MayCount
<1>7. SentBefore(c)' /\ LeftBehind(c)'
  BY <1>2, <1>6 DEF CallInv, SentBefore, LeftBehind
<1>8. SuccessExecuted(c)'
  BY <1>2, <1>4 DEF CallInv, SuccessExecuted, SentBefore
<1> QED BY <1>2, <1>4, <1>5, <1>7, <1>8, OthersKept DEF CallInv

\* Every step of a call keeps the invariant.
LEMMA ProgressKeeps ==
    ASSUME BroadcastInv, NEW c \in Calls, Progress(c)
    PROVE  BroadcastInv'
<1>0. call[c] \in CallRecord /\ sequence \in Nat
  BY DEF BroadcastInv, BroadcastType
<1>1. CASE Sign(c)
  <2> DEFINE after == [call[c] EXCEPT !.pc = "signed", !.signed = sequence]
  <2>1. /\ call[c].pc = "attempt" /\ call' = [call EXCEPT ![c] = after]
        /\ UNCHANGED <<sequence, tx, lost>>
    BY <1>1 DEF Sign, BroadcastInv, BroadcastType
  <2>2. after \in CallRecord /\ after.pc = "signed" /\ after.attempt = call[c].attempt
    BY <1>0 DEF CallRecord, Places
  <2> HIDE DEF after
  <2> QED BY <2>1, <2>2, MoveOn
<1>2. CASE SignFails(c)
  <2>1. PICK kw \in {{"node"}, {"gas"}, {"funds"}, {}} : Thrown(c, kw)
    BY <1>2 DEF SignFails
  <2>2. kw \in Keywords
    BY DEF Keywords
  <2> QED BY <1>2, <2>1, <2>2, NothingSent, ThrownKeeps DEF SignFails
<1>3. CASE Send(c)
  BY <1>3, SendKeeps
<1>4. CASE SendRefused(c)
  <2>1. {"sequence"} \in Keywords
    BY DEF Keywords
  <2> QED BY <1>4, <2>1, NothingSent, ThrownKeeps DEF SendRefused
<1>5. CASE SendFails(c)
  <2>1. {"node"} \in Keywords
    BY DEF Keywords
  <2> QED BY <1>5, <2>1, ThrownKeeps DEF SendFails
<1>6. CASE Answer(c)
  BY <1>6, AnswerKeeps
<1>7. CASE AnswerLost(c)
  <2>1. PICK kw \in {{"node"}, {}} : Thrown(c, kw)
    BY <1>7 DEF AnswerLost
  <2>2. kw \in Keywords
    BY DEF Keywords
  <2> QED BY <1>7, <2>1, <2>2, ThrownKeeps DEF AnswerLost
<1>8. CASE Wake(c)
  BY <1>8, WakeKeeps
<1>9. CASE waitForTx(c)
  <2>1. call[c].pc = "confirming" /\ tx[c][call[c].attempt].state = "ok"
    BY <1>9 DEF waitForTx, BroadcastInv, CallInv, SuccessExecuted
  <2>2. /\ Ended(c, "done") \in CallRecord /\ Ended(c, "done").pc = "done"
        /\ Ended(c, "done").attempt = call[c].attempt
    BY <1>0 DEF Ended, CallRecord, Places
  <2>3. /\ Fail(c, "QUERY") \in CallRecord /\ Fail(c, "QUERY").pc = "failed"
        /\ Fail(c, "QUERY").attempt = call[c].attempt /\ Fail(c, "QUERY").err = "QUERY"
    <3>1. "QUERY" \in ErrorCodes
      BY DEF ErrorCodes
    <3> QED BY <1>0, <3>1 DEF Fail, Ended, CallRecord, Places
  <2> QED BY <1>9, <2>1, <2>2, <2>3, MoveOn DEF waitForTx
<1> QED BY <1>1, <1>2, <1>3, <1>4, <1>5, <1>6, <1>7, <1>8, <1>9 DEF Progress

\* Every step of the SDK and of the chain keeps the invariant.
LEMMA SdkStep ==
    ASSUME BroadcastInv, [SdkNext]_sdkVars
    PROVE  BroadcastInv'
<1>1. CASE UNCHANGED <<call, tx, lost>> /\ sequence' \in {sequence, sequence + 1}
  <2>1. BroadcastType'
    BY <1>1 DEF BroadcastInv, BroadcastType
  <2> QED BY <1>1, <2>1 DEF BroadcastInv, CallInv, SentBefore, LeftBehind, SuccessExecuted, MayCount
<1>2. OtherTx => UNCHANGED <<call, tx, lost>> /\ sequence' \in {sequence, sequence + 1}
  BY DEF OtherTx
<1>3. UNCHANGED sdkVars => UNCHANGED <<call, tx, lost, sequence>>
  BY DEF sdkVars
<1> QED BY <1>1, <1>2, <1>3, CallServiceKeeps, ProgressKeeps, ChainKeeps DEF SdkNext

\* The invariant holds at the start.
LEMMA SdkInitially == SdkInit => BroadcastInv
<1> SUFFICES ASSUME SdkInit PROVE BroadcastInv
  OBVIOUS
<1>1. Idle \in CallRecord /\ Idle.pc = "idle" /\ Idle.attempt = 0
  BY BroadcastAssumption DEF Idle, CallRecord, Places, ErrorCodes
<1>2. NoTx \in TxRecord /\ NoTx.state = "none"
  BY DEF NoTx, TxRecord, States
<1>3. BroadcastType
  BY <1>1, <1>2 DEF SdkInit, BroadcastType
<1>4. \A c \in Calls : /\ call[c] = Idle
                       /\ \A a \in 1..maxAttempts : tx[c][a] = NoTx
  BY DEF SdkInit
<1>5. \A c \in Calls : CallInv(c)
  BY <1>1, <1>2, <1>4 DEF CallInv, SentBefore, LeftBehind, SuccessExecuted, MayCount
<1> QED BY <1>3, <1>5 DEF BroadcastInv

\* The inductive invariant of the broadcasts.
LEMMA BroadcastCorrect == SdkSpec => []BroadcastInv
BY SdkInitially, SdkStep, PTL DEF SdkSpec

\* broadcastWithRetry never sends again what it knows to have succeeded: an
\* executed transaction is followed by another attempt only if its answer was
\* lost.
THEOREM RetriesCorrect == SdkSpec => []RepeatOnlyIfLost
<1>1. BroadcastInv => RepeatOnlyIfLost
  BY DEF BroadcastInv, CallInv, LeftBehind, MayCount, RepeatOnlyIfLost
<1> QED BY <1>1, BroadcastCorrect, PTL

\* What a service reports is what happened, but for lost answers and a
\* confirmation query that fails.
THEOREM OutcomesCorrect == SdkSpec => []OutcomeHonest
<1>1. BroadcastInv => OutcomeHonest
  BY DEF BroadcastInv, CallInv, LeftBehind, SuccessExecuted, MayCount, OutcomeHonest
<1> QED BY <1>1, BroadcastCorrect, PTL

(***************************************************************************)
(* The inputs: what the services validate, and the signer's path.          *)
(***************************************************************************)
\* A check of the service's list that the input fails is reported.
LEMMA FailureFound ==
    ASSUME NEW checks, NEW bad, NEW i \in 1..Len(checks), checks[i] \in bad
    PROVE  FirstBad(checks, bad) # <<>>
<1>1. {j \in 1..Len(checks) : checks[j] \in bad} # {}
  OBVIOUS
<1> QED BY <1>1 DEF FirstBad

\* The checks of a list followed by others are the checks of both.
LEMMA JoinedChecks ==
    ASSUME NEW T, NEW s \in Seq(T), NEW t \in Seq(T), NEW bad, FirstBad(s \o t, bad) = <<>>
    PROVE  /\ \A i \in 1..Len(s) : s[i] \notin bad
           /\ \A i \in 1..Len(t) : t[i] \notin bad
<1> DEFINE st == s \o t
<1>1. /\ Len(st) = Len(s) + Len(t) /\ Len(s) \in Nat /\ Len(t) \in Nat
      /\ \A i \in 1..Len(s) : st[i] = s[i]
      /\ \A i \in 1..Len(t) : st[Len(s) + i] = t[i]
  BY ConcatProperties
<1>2. \A i \in 1..Len(st) : st[i] \notin bad
  BY FailureFound
<1> HIDE DEF st
<1>3. ASSUME NEW i \in 1..Len(s) PROVE s[i] \notin bad
  <2>1. i \in 1..Len(st)
    BY <1>1
  <2> QED BY <1>1, <1>2, <2>1
<1>4. ASSUME NEW i \in 1..Len(t) PROVE t[i] \notin bad
  <2>1. Len(s) + i \in 1..Len(st)
    BY <1>1
  <2> QED BY <1>1, <1>2, <2>1
<1> QED BY <1>3, <1>4

\* Every part of an input that has a format is looked at by its service: an
\* input that passes has no bad part.
LEMMA PassedIsValid ==
    ASSUME NEW svc \in Services, NEW bad \in Inputs(svc), FirstBad(Checks[svc], bad) = <<>>
    PROVE  bad = {}
<1> SUFFICES ASSUME bad # {} PROVE FALSE
  OBVIOUS
<1>1. PICK part : bad = {part} /\ part \in InputParts[svc] \cup {"PREFIX"} /\ InputParts[svc] # {}
  BY DEF Inputs
<1> DEFINE Parts == {"PREFIX", "DELEGATOR", "VALIDATOR", "AMOUNT", "SOURCE", "DESTINATION",
                     "VOTER", "PROPOSAL_ID"}
<1>2. ASSUME NEW s \in Seq(Parts), NEW t \in Seq(Parts), Checks[svc] = s \o t
      PROVE  /\ \A i \in 1..Len(s) : s[i] # part
             /\ \A i \in 1..Len(t) : t[i] # part
  BY <1>1, <1>2, JoinedChecks
<1>3. CASE svc \in {"delegate", "undelegate"}
  <2> DEFINE s == <<"PREFIX", "DELEGATOR">>
             t == <<"VALIDATOR", "AMOUNT">>
  <2>1. s \in Seq(Parts) /\ t \in Seq(Parts)
    OBVIOUS
  <2>2. Checks[svc] = s \o t
    BY <1>3 DEF Checks, delegateToValidator, undelegateFromValidator, validateDelegatorAddress
  <2>3. InputParts[svc] = {"DELEGATOR", "VALIDATOR", "AMOUNT"}
    BY <1>3 DEF InputParts
  <2>4. /\ \A i \in 1..Len(s) : s[i] # part
        /\ \A i \in 1..Len(t) : t[i] # part
    <3> HIDE DEF s, t
    <3> QED BY <1>2, <2>1, <2>2
  <2> QED BY <1>1, <2>3, <2>4
<1>4. CASE svc = "withdraw"
  <2> DEFINE s == <<"PREFIX", "DELEGATOR">>
             t == <<"VALIDATOR">>
  <2>1. s \in Seq(Parts) /\ t \in Seq(Parts)
    OBVIOUS
  <2>2. Checks[svc] = s \o t
    BY <1>4 DEF Checks, withdrawValidatorRewards, validateDelegatorAddress
  <2>3. InputParts[svc] = {"DELEGATOR", "VALIDATOR"}
    BY <1>4 DEF InputParts
  <2>4. /\ \A i \in 1..Len(s) : s[i] # part
        /\ \A i \in 1..Len(t) : t[i] # part
    <3> HIDE DEF s, t
    <3> QED BY <1>2, <2>1, <2>2
  <2> QED BY <1>1, <2>3, <2>4
<1>5. CASE svc = "redelegate"
  <2> DEFINE s == <<"PREFIX", "DELEGATOR">>
             t == <<"SOURCE", "DESTINATION", "AMOUNT">>
  <2>1. s \in Seq(Parts) /\ t \in Seq(Parts)
    OBVIOUS
  <2>2. Checks[svc] = s \o t
    BY <1>5 DEF Checks, redelegateToValidator, validateDelegatorAddress
  <2>3. InputParts[svc] = {"DELEGATOR", "SOURCE", "DESTINATION", "AMOUNT"}
    BY <1>5 DEF InputParts
  <2>4. /\ \A i \in 1..Len(s) : s[i] # part
        /\ \A i \in 1..Len(t) : t[i] # part
    <3> HIDE DEF s, t
    <3> QED BY <1>2, <2>1, <2>2
  <2> QED BY <1>1, <2>3, <2>4
<1>6. CASE svc = "vote"
  <2> DEFINE s == <<"PREFIX", "VOTER">>
             t == <<"PROPOSAL_ID">>
  <2>1. s \in Seq(Parts) /\ t \in Seq(Parts)
    OBVIOUS
  <2>2. Checks[svc] = s \o t
    BY <1>6 DEF Checks, voteProposal, validateVoterAddress
  <2>3. InputParts[svc] = {"VOTER", "PROPOSAL_ID"}
    BY <1>6 DEF InputParts
  <2>4. /\ \A i \in 1..Len(s) : s[i] # part
        /\ \A i \in 1..Len(t) : t[i] # part
    <3> HIDE DEF s, t
    <3> QED BY <1>2, <2>1, <2>2
  <2> QED BY <1>1, <2>3, <2>4
<1>7. CASE svc \notin {"delegate", "undelegate", "withdraw", "redelegate", "vote"}
  <2>1. InputParts[svc] = {}
    BY <1>7 DEF InputParts
  <2> QED BY <1>1, <2>1
<1> QED BY <1>3, <1>4, <1>5, <1>6, <1>7

\* What is valid or never left the client, and what an attempt remembers.
Remembers(c) ==
    /\ call[c].signed <= sequence
    /\ lost[c] \subseteq 1..call[c].attempt
ValidOrUnsent(c) ==
    call[c].valid \/ ( /\ call[c].pc \in {"idle", "failed"}
                       /\ \A a \in 1..maxAttempts : tx[c][a].state = "none" )
InputInv ==
    /\ \A c \in Calls : Remembers(c) /\ ValidOrUnsent(c)
    /\ SignerPathHonoured

\* What a step of call c may do to its record and its transactions.
Moves(c) ==
    /\ call[c].pc \notin {"idle", "failed"}
    /\ call'[c].valid = call[c].valid
    /\ call'[c].signed \in {0, call[c].signed, sequence}
    /\ call'[c].attempt \in {call[c].attempt, call[c].attempt + 1}
    /\ lost'[c] \subseteq lost[c] \cup {call[c].attempt}
    /\ \A d \in Calls \ {c} : call'[d] = call[d] /\ tx'[d] = tx[d] /\ lost'[d] = lost[d]
    /\ UNCHANGED <<sequence, signerVars>>

\* The end of an attempt that did not succeed keeps what was validated.
LEMMA EndMoves ==
    ASSUME BroadcastInv, NEW c \in Calls, NEW code, NEW retriable,
           call[c].pc \notin {"idle", "failed"}, EndAttempt(c, code, retriable),
           UNCHANGED <<sequence, tx, signerVars>>,
           lost' = lost \/ lost' = [lost EXCEPT ![c] = @ \cup {call[c].attempt}]
    PROVE  Moves(c)
<1> DEFINE asleep == [call[c] EXCEPT !.pc = "sleeping", !.signed = 0]
           failed == [call[c] EXCEPT !.pc = "failed", !.confirm = FALSE, !.signed = 0, !.err = code]
<1>1. call[c] \in CallRecord /\ call \in [Calls -> CallRecord] /\ lost \in [Calls -> SUBSET (1..maxAttempts)]
  BY DEF BroadcastInv, BroadcastType
<1>2. Fail(c, code) = failed
  BY <1>1 DEF Fail, Ended, CallRecord
<1>3. call' = [call EXCEPT ![c] = asleep] \/ call' = [call EXCEPT ![c] = failed]
  BY <1>2 DEF EndAttempt, BroadcastInv, BroadcastType
<1>4. /\ asleep.valid = call[c].valid /\ asleep.signed = 0 /\ asleep.attempt = call[c].attempt
      /\ failed.valid = call[c].valid /\ failed.signed = 0 /\ failed.attempt = call[c].attempt
  BY <1>1 DEF CallRecord
<1> HIDE DEF asleep, failed
<1>5. /\ call'[c] \in {asleep, failed} /\ \A d \in Calls \ {c} : call'[d] = call[d]
  BY <1>1, <1>3
<1>6. /\ lost'[c] \subseteq lost[c] \cup {call[c].attempt}
      /\ \A d \in Calls \ {c} : lost'[d] = lost[d]
  BY <1>1
<1>7. call'[c].valid = call[c].valid /\ call'[c].signed = 0 /\ call'[c].attempt = call[c].attempt
  BY <1>4, <1>5, Zenon
<1> QED BY <1>5, <1>6, <1>7, Zenon DEF Moves

\* The record of c is replaced by one that keeps what Moves asks for.
LEMMA RecordMoves ==
    ASSUME BroadcastInv, NEW c \in Calls, NEW STATE after,
           call[c].pc \notin {"idle", "failed"}, call' = [call EXCEPT ![c] = after],
           after.valid = call[c].valid, after.signed \in {0, call[c].signed, sequence},
           after.attempt \in {call[c].attempt, call[c].attempt + 1},
           UNCHANGED <<sequence, lost, signerVars>>,
           \A d \in Calls \ {c} : tx'[d] = tx[d]
    PROVE  Moves(c)
<1>1. call'[c] = after /\ \A d \in Calls \ {c} : call'[d] = call[d]
  BY DEF BroadcastInv, BroadcastType
<1> QED BY <1>1, Zenon DEF Moves

\* Every step of a call keeps what was validated.
LEMMA ProgressMoves ==
    ASSUME BroadcastInv, NEW c \in Calls, Progress(c)
    PROVE  Moves(c)
<1>0. call[c] \in CallRecord /\ sequence \in Nat
  BY DEF BroadcastInv, BroadcastType
<1>1. CASE Sign(c)
  <2> DEFINE after == [call[c] EXCEPT !.pc = "signed", !.signed = sequence]
  <2>1. /\ call[c].pc = "attempt" /\ call' = [call EXCEPT ![c] = after]
        /\ UNCHANGED <<sequence, tx, lost, signerVars>>
    BY <1>1 DEF Sign, BroadcastInv, BroadcastType, chainSide
  <2>2. after.valid = call[c].valid /\ after.signed = sequence /\ after.attempt = call[c].attempt
    BY <1>0 DEF CallRecord
  <2> HIDE DEF after
  <2> QED BY <2>1, <2>2, RecordMoves
<1>2. CASE SignFails(c) \/ SendRefused(c) \/ SendFails(c) \/ AnswerLost(c)
  <2>1. PICK kw : Thrown(c, kw)
    BY <1>2 DEF SignFails, SendRefused, SendFails, AnswerLost
  <2>2. /\ UNCHANGED <<sequence, tx, signerVars>> /\ call[c].pc \notin {"idle", "failed"}
        /\ lost' = lost \/ lost' = [lost EXCEPT ![c] = @ \cup {call[c].attempt}]
    BY <1>2 DEF SignFails, SendRefused, SendFails, AnswerLost, chainSide
  <2> QED BY <2>1, <2>2, EndMoves DEF Thrown
<1>3. CASE Send(c)
  <2> DEFINE after == [call[c] EXCEPT !.pc = "sent"]
  <2>1. /\ call[c].pc = "signed" /\ call' = [call EXCEPT ![c] = after]
        /\ UNCHANGED <<sequence, lost, signerVars>> /\ \A d \in Calls \ {c} : tx'[d] = tx[d]
    BY <1>3 DEF Send, BroadcastInv, BroadcastType, chainSide
  <2>2. /\ after.valid = call[c].valid /\ after.signed = call[c].signed
        /\ after.attempt = call[c].attempt
    BY <1>0 DEF CallRecord
  <2> HIDE DEF after
  <2> QED BY <2>1, <2>2, RecordMoves
<1>4. CASE Answer(c)
  <2>1. call[c].pc = "sent" /\ UNCHANGED <<sequence, tx, lost, signerVars>>
    BY <1>4 DEF Answer, chainSide
  <2>2. CASE call' = [call EXCEPT ![c] = Succeeded(c)]
    <3>1. /\ Succeeded(c).valid = call[c].valid /\ Succeeded(c).signed = 0
          /\ Succeeded(c).attempt = call[c].attempt
      BY <1>0 DEF Succeeded, Ended, CallRecord
    <3> QED BY <2>1, <2>2, <3>1, RecordMoves
  <2>3. CASE \E code, retriable : EndAttempt(c, code, retriable)
    BY <2>1, <2>3, EndMoves
  <2> QED BY <1>4, <2>2, <2>3 DEF Answer
<1>5. CASE Wake(c)
  <2> DEFINE after == [call[c] EXCEPT !.pc = "attempt", !.attempt = call[c].attempt + 1]
  <2>1. /\ call[c].pc = "sleeping" /\ call' = [call EXCEPT ![c] = after]
        /\ UNCHANGED <<sequence, tx, lost, signerVars>>
    BY <1>5 DEF Wake, BroadcastInv, BroadcastType, CallRecord, chainSide
  <2>2. /\ after.valid = call[c].valid /\ after.signed = call[c].signed
        /\ after.attempt = call[c].attempt + 1
    BY <1>0 DEF CallRecord
  <2> HIDE DEF after
  <2> QED BY <2>1, <2>2, RecordMoves
<1>6. CASE waitForTx(c)
  <2>1. call[c].pc = "confirming" /\ UNCHANGED <<sequence, tx, lost, signerVars>>
    BY <1>6 DEF waitForTx, chainSide
  <2>2. /\ Ended(c, "done").valid = call[c].valid /\ Ended(c, "done").signed = 0
        /\ Ended(c, "done").attempt = call[c].attempt
    BY <1>0 DEF Ended, CallRecord
  <2>3. /\ Fail(c, "QUERY").valid = call[c].valid /\ Fail(c, "QUERY").signed = 0
        /\ Fail(c, "QUERY").attempt = call[c].attempt
    BY <1>0 DEF Fail, Ended, CallRecord
  <2> QED BY <1>6, <2>1, <2>2, <2>3, RecordMoves DEF waitForTx
<1> QED BY <1>1, <1>2, <1>3, <1>4, <1>5, <1>6 DEF Progress

\* A step of one call keeps the inputs of all calls honoured.
LEMMA MovesHonour ==
    ASSUME BroadcastInv, BroadcastInv', InputInv, NEW c \in Calls, Moves(c)
    PROVE  InputInv'
<1>1. /\ call[c] \in CallRecord /\ call'[c] \in CallRecord /\ sequence \in Nat
      /\ CallInv(c) /\ Remembers(c) /\ ValidOrUnsent(c)
  BY DEF BroadcastInv, BroadcastType, InputInv
<1>2. Remembers(c)'
  <2>1. /\ call[c].attempt \in Nat /\ call[c].signed \in Nat /\ call[c].attempt >= 1
        /\ maxAttempts \in Nat
    <3>1. call[c].attempt \in 1..maxAttempts /\ call[c].signed \in Nat
      BY <1>1 DEF CallInv, SentBefore, Moves, CallRecord
    <3> QED BY <3>1, BroadcastAssumption
  <2>2. call'[c].signed <= sequence
    BY <1>1, <2>1 DEF Moves, Remembers
  <2>3. lost'[c] \subseteq 1..call'[c].attempt
    BY <1>1, <2>1 DEF Moves, Remembers
  <2>4. sequence' = sequence
    BY DEF Moves
  <2> QED BY <2>2, <2>3, <2>4 DEF Remembers
<1>3. ValidOrUnsent(c)'
  <2>1. call[c].valid /\ call'[c].valid = call[c].valid
    BY <1>1, Zenon DEF Moves, ValidOrUnsent
  <2> QED BY <2>1, Zenon DEF ValidOrUnsent
<1>4. ASSUME NEW d \in Calls \ {c} PROVE Remembers(d)' /\ ValidOrUnsent(d)'
  <2>1. /\ Remembers(d) /\ ValidOrUnsent(d) /\ sequence' = sequence
        /\ call'[d] = call[d] /\ tx'[d] = tx[d] /\ lost'[d] = lost[d]
    BY <1>4 DEF InputInv, Moves
  <2>2. Remembers(d)'
    BY <2>1, Zenon DEF Remembers
  <2>3. ValidOrUnsent(d)'
    BY <2>1, Zenon DEF ValidOrUnsent
  <2> QED BY <2>2, <2>3
<1>5. SignerPathHonoured'
  BY Zenon DEF Moves, InputInv, SignerPathHonoured, signerVars
<1> QED BY <1>2, <1>3, <1>4, <1>5 DEF InputInv

\* A service that is called takes only a valid input to its first attempt.
LEMMA CallHonours ==
    ASSUME BroadcastInv, InputInv, NEW c \in Calls, NEW svc \in Services, NEW bad \in Inputs(svc),
           CallService(c, svc, bad)
    PROVE  InputInv'
<1> DEFINE failed == FirstBad(Checks[svc], bad)
           pc == IF failed = <<>> THEN "attempt" ELSE "failed"
           err == IF failed = <<>> THEN "none" ELSE failed[1]
           attempt == IF failed = <<>> THEN 1 ELSE 0
           valid == (bad = {})
           confirm == (svc = "sendAndConfirm")
           after == [call[c] EXCEPT !.confirm = confirm, !.valid = valid, !.pc = pc,
                                    !.err = err, !.attempt = attempt]
<1>1. /\ call[c] \in CallRecord /\ call[c].pc = "idle" /\ call[c].attempt = 0
      /\ CallInv(c) /\ Remembers(c) /\ call \in [Calls -> CallRecord]
  BY DEF CallService, BroadcastInv, BroadcastType, InputInv, CallInv, SentBefore
<1>2. /\ call' = [call EXCEPT ![c] = after]
      /\ UNCHANGED <<sequence, signerVars, tx, lost>>
  BY DEF CallService, chainSide
<1>3. pc = "attempt" => valid
  BY PassedIsValid
<1>4. pc \in {"attempt", "failed"} /\ attempt \in {0, 1}
  OBVIOUS
<1> HIDE DEF failed, pc, err, attempt, valid, confirm
<1>5. after.signed = call[c].signed /\ after.pc = pc /\ after.attempt = attempt /\ after.valid = valid
  BY <1>1 DEF CallRecord
<1> HIDE DEF after
<1>6. call'[c] = after /\ \A d \in Calls \ {c} : call'[d] = call[d]
  BY <1>1, <1>2
<1>7. Remembers(c)'
  <2>1. lost[c] = {}
    BY <1>1 DEF Remembers
  <2>2. call'[c].signed <= sequence'
    BY <1>1, <1>2, <1>5, <1>6, Zenon DEF Remembers
  <2> QED BY <1>2, <2>1, <2>2, Zenon DEF Remembers
<1>8. ValidOrUnsent(c)'
  <2>1. \A a \in 1..maxAttempts : tx[c][a].state = "none"
    BY <1>1 DEF CallInv, SentBefore
  <2>2. CASE pc = "attempt"
    BY <1>3, <1>5, <1>6, <2>2, Zenon DEF ValidOrUnsent
  <2>3. CASE pc = "failed"
    <3>1. call'[c].pc \in {"idle", "failed"} /\ \A a \in 1..maxAttempts : tx'[c][a].state = "none"
      BY <1>2, <1>5, <1>6, <2>1, <2>3
    <3> QED BY <3>1, Zenon DEF ValidOrUnsent
  <2> QED BY <1>4, <2>2, <2>3
<1>9. ASSUME NEW d \in Calls \ {c} PROVE Remembers(d)' /\ ValidOrUnsent(d)'
  <2>1. /\ Remembers(d) /\ ValidOrUnsent(d) /\ sequence' = sequence
        /\ call'[d] = call[d] /\ tx' = tx /\ lost' = lost
    BY <1>2, <1>6, <1>9 DEF InputInv
  <2>2. Remembers(d)'
    BY <2>1, Zenon DEF Remembers
  <2>3. ValidOrUnsent(d)'
    BY <2>1, Zenon DEF ValidOrUnsent
  <2> QED BY <2>2, <2>3
<1>10. SignerPathHonoured'
  BY <1>2, Zenon DEF InputInv, SignerPathHonoured, signerVars
<1> QED BY <1>7, <1>8, <1>9, <1>10 DEF InputInv

\* The chain's steps and those of other wallets only move the sequence up and
\* settle what was sent.
LEMMA ChainHonours ==
    ASSUME BroadcastInv, InputInv, UNCHANGED <<call, lost, signerVars>>,
           sequence' \in {sequence, sequence + 1},
           \A c \in Calls, a \in 1..maxAttempts : tx[c][a].state = "none" => tx'[c][a] = tx[c][a]
    PROVE  InputInv'
<1>1. ASSUME NEW c \in Calls PROVE Remembers(c)' /\ ValidOrUnsent(c)'
  <2>1. /\ Remembers(c) /\ ValidOrUnsent(c) /\ sequence \in Nat /\ call[c].signed \in Nat
    BY DEF InputInv, BroadcastInv, BroadcastType, CallRecord
  <2>2. call[c].signed <= sequence'
    BY <2>1 DEF Remembers
  <2>3. Remembers(c)'
    BY <2>1, <2>2, Zenon DEF Remembers
  <2>4. ValidOrUnsent(c)'
    BY <2>1, Zenon DEF ValidOrUnsent
  <2> QED BY <2>3, <2>4
<1>2. SignerPathHonoured'
  BY Zenon DEF InputInv, SignerPathHonoured, signerVars
<1> QED BY <1>1, <1>2 DEF InputInv

\* Making a signer puts it on the path that was asked for.
LEMMA SignerHonours ==
    ASSUME SignerPathHonoured, SignerNext
    PROVE  SignerPathHonoured'
<1>1. ASSUME NEW wallet, NEW bad, NEW given, Accept(wallet, bad, given), wallet.path.given = given
      PROVE  SignerPathHonoured'
  <2> DEFINE made == [state |-> "ready", path |-> wallet.path, asked |-> given]
  <2>1. signer' = made \/ signer' = signer
    BY <1>1 DEF Accept
  <2>2. made.path.given = made.asked
    BY <1>1
  <2> HIDE DEF made
  <2> QED BY <2>1, <2>2, Zenon DEF SignerPathHonoured
<1>2. CASE signer' = signer
  BY <1>2, Zenon DEF SignerPathHonoured
<1>3. ASSUME NEW hasCoinType \in BOOLEAN, NEW given \in SUBSET Indexes, NEW bad,
             createSignerFromMnemonic(hasCoinType, given, bad)
      PROVE  SignerPathHonoured'
  <2>1. CASE ~hasCoinType /\ given # {}
    BY <1>2, <1>3, <2>1 DEF createSignerFromMnemonic
  <2>2. CASE hasCoinType
    <3>1. Accept(createWalletFromMnemonicWithPath(given), bad, given)
      BY <1>3, <2>2 DEF createSignerFromMnemonic
    <3>2. createWalletFromMnemonicWithPath(given).path.given = given
      BY DEF createWalletFromMnemonicWithPath
    <3> QED BY <1>1, <3>1, <3>2
  <2>3. CASE ~hasCoinType /\ given = {}
    <3>1. Accept(createWalletFromMnemonic, bad, given)
      BY <1>3, <2>3 DEF createSignerFromMnemonic
    <3>2. createWalletFromMnemonic.path.given = given
      BY <2>3 DEF createWalletFromMnemonic, DefaultPath
    <3> QED BY <1>1, <3>1, <3>2
  <2> QED BY <2>1, <2>2, <2>3
<1>4. ASSUME NEW bad, createRandomSigner(bad) PROVE SignerPathHonoured'
  <2> DEFINE wallet == [checks |-> <<"prefix">>, path |-> DefaultPath]
  <2>1. Accept(wallet, bad, {})
    BY <1>4 DEF createRandomSigner
  <2>2. wallet.path.given = {}
    BY DEF DefaultPath
  <2> HIDE DEF wallet
  <2> QED BY <1>1, <2>1, <2>2
<1>5. CASE createSigningClient
  <2>1. signer' = Client /\ Client.state = "client"
    BY <1>5 DEF createSigningClient, Client, NoSigner
  <2> QED BY <2>1 DEF SignerPathHonoured
<1> QED BY <1>3, <1>4, <1>5 DEF SignerNext

\* Every step keeps the inputs honoured.
LEMMA InputStep ==
    ASSUME BroadcastInv, BroadcastInv', InputInv, [SdkNext]_sdkVars
    PROVE  InputInv'
<1>1. ASSUME NEW c \in Calls, NEW a \in 1..maxAttempts, Execute(c, a) \/ Drop(c, a)
      PROVE  InputInv'
  <2>1. /\ UNCHANGED <<call, lost, signerVars>> /\ sequence' \in {sequence, sequence + 1}
        /\ tx[c][a].state = "pending"
    BY <1>1 DEF Execute, Drop, chainSide
  <2>2. PICK outcome : tx' = [tx EXCEPT ![c][a] = [state |-> outcome, seq |-> 0]]
    BY <1>1 DEF Execute, Drop
  <2>3. \A d \in Calls, b \in 1..maxAttempts : tx[d][b].state = "none" => tx'[d][b] = tx[d][b]
    BY <2>1, <2>2 DEF BroadcastInv, BroadcastType
  <2> QED BY <2>1, <2>3, ChainHonours
<1>2. CASE UNCHANGED <<call, tx, lost, signerVars>> /\ sequence' \in {sequence, sequence + 1}
  BY <1>2, ChainHonours
<1>3. OtherTx => UNCHANGED <<call, tx, lost, signerVars>> /\ sequence' \in {sequence, sequence + 1}
  BY DEF OtherTx, chainSide
<1>4. UNCHANGED sdkVars => UNCHANGED <<call, tx, lost, signerVars, sequence>>
  BY DEF sdkVars
<1>5. CASE SignerNext /\ UNCHANGED <<sequence, nonceVars, call, tx, lost>>
  <2>1. SignerPathHonoured'
    BY <1>5, SignerHonours DEF InputInv
  <2>2. ASSUME NEW c \in Calls PROVE Remembers(c)' /\ ValidOrUnsent(c)'
    BY <1>5, <2>2, Zenon DEF InputInv, Remembers, ValidOrUnsent
  <2> QED BY <2>1, <2>2 DEF InputInv
<1>6. ASSUME NEW c \in Calls, Progress(c) PROVE InputInv'
  BY <1>6, ProgressMoves, MovesHonour
<1> QED BY <1>1, <1>2, <1>3, <1>4, <1>5, <1>6, CallHonours DEF SdkNext

\* Inputs are taken as they were meant: what a service's checks refuse never
\* reaches the chain, and a signer sits on the path that was asked for.
THEOREM InputsCorrect == SdkSpec => []InputsHonoured
<1>1. ASSUME SdkInit PROVE InputInv
  <2>1. \A c \in Calls : call[c] = Idle /\ lost[c] = {} /\ sequence = 0
    BY <1>1 DEF SdkInit
  <2>2. Idle.signed = 0 /\ Idle.valid = TRUE
    BY DEF Idle
  <2>3. \A c \in Calls : Remembers(c)
    BY <2>1, <2>2 DEF Remembers
  <2>4. \A c \in Calls : ValidOrUnsent(c)
    BY <2>1, <2>2, Zenon DEF ValidOrUnsent
  <2>5. SignerPathHonoured
    BY <1>1 DEF SdkInit, SignerInit, NoSigner, SignerPathHonoured
  <2> QED BY <2>3, <2>4, <2>5 DEF InputInv
<1>2. ASSUME NonceInv, BroadcastInv, InputInv PROVE InputsHonoured
  <2>1. SdkTypeOK
    <3>1. /\ sequence \in Nat /\ nextNonce \in Nat \cup {Unset}
          /\ \A r \in Reservers :
                /\ reserver[r].pc \in {"idle", "reserving", "syncing", "synced", "done"}
                /\ reserver[r].nonce \in Nat \cup {None}
      BY <1>2 DEF NonceInv, NonceType, Reserver
    <3>2. ASSUME NEW c \in Calls
          PROVE  /\ call[c].pc \in Places /\ call[c].attempt \in 0..maxAttempts
                 /\ call[c].signed <= sequence /\ lost[c] \subseteq 1..call[c].attempt
                 /\ \A a \in 1..maxAttempts : tx[c][a].state # "none" => a <= call[c].attempt
      <4>1. call[c] \in CallRecord /\ CallInv(c) /\ Remembers(c)
        BY <1>2 DEF BroadcastInv, BroadcastType, InputInv
      <4>2. call[c].pc \in Places /\ call[c].attempt \in 0..maxAttempts
        BY <4>1 DEF CallRecord
      <4> QED BY <4>1, <4>2, Zenon DEF CallInv, SentBefore, Remembers
    <3> QED BY <3>1, <3>2 DEF SdkTypeOK, Places
  <2>2. InvalidNeverSent
    BY <1>2, Zenon DEF InputInv, ValidOrUnsent, InvalidNeverSent
  <2> QED BY <1>2, <2>1, <2>2 DEF InputsHonoured, InputInv
<1>3. SdkSpec => []NonceInv
  BY SdkStartsNonce, SdkNonceStep, PTL DEF SdkSpec
<1>4. InputInv /\ [SdkNext]_sdkVars /\ BroadcastInv /\ BroadcastInv' => InputInv'
  BY InputStep
<1> QED BY <1>1, <1>2, <1>3, <1>4, BroadcastCorrect, PTL DEF SdkSpec
=============================================================================

--------------------------- MODULE BrowserProofs ---------------------------
(***************************************************************************)
(* Proofs about what runs in the browser: the web wallet's session and     *)
(* requests (WebSession), its event pages (EventDetail, EventsPage) and    *)
(* the extension's popup (Popup), for every value of their constants.      *)
(*                                                                         *)
(* Each part states an inductive invariant, shows that every action keeps  *)
(* it and that it implies what the runs check.                             *)
(***************************************************************************)
EXTENDS WebSession, EventDetail, EventsPage, Popup,
        FiniteSetTheorems, SequenceTheorems, WellFoundedInduction, TLAPS

\* A non-empty set of naturals has a least element.
LEMMA LeastNatural ==
    ASSUME NEW T, T \subseteq Nat, T # {}
    PROVE  \E x \in T : \A y \in T : x <= y
<1> DEFINE R == {ss \in Nat \X Nat : ss[1] < ss[2]}
<1>1. IsWellFoundedOn(R, Nat)
  BY NatLessThanWellFounded, Zenon DEF OpToRel
<1>2. \E x \in T : \A y \in T : ~ (<<y, x>> \in R)
  <2> HIDE DEF R
  <2> QED BY <1>1, WFMin, Zenon
<1>3. PICK x \in T : \A y \in T : ~ (<<y, x>> \in R)
  BY <1>2
<1>4. ASSUME NEW y \in T PROVE x <= y
  <2>1. <<y, x>> \in R <=> y < x
    BY SMT
  <2>2. ~ (y < x)
    BY <1>3, <2>1, Zenon
  <2> QED BY <2>2, SMT
<1> QED BY <1>4

\* Induction over 0 .. n, for the set of the numbers that have a property.
LEMMA Induction ==
    ASSUME NEW n \in Nat, NEW Good, 0 \in Good,
           \A m \in 1 .. n : m - 1 \in Good => m \in Good
    PROVE  \A m \in 0 .. n : m \in Good
<1> DEFINE Bad == {m \in 0 .. n : m \notin Good}
<1>1. SUFFICES ASSUME Bad # {} PROVE FALSE
  BY Zenon
<1>2. Bad \subseteq Nat
  OBVIOUS
<1>3. PICK m \in Bad : \A y \in Bad : m <= y
  <2> HIDE DEF Bad
  <2> QED BY <1>1, <1>2, LeastNatural
<1>4. m \in 0 .. n /\ m \notin Good
  OBVIOUS
<1>5. m # 0
  BY <1>4
<1>6. m \in 1 .. n /\ m - 1 \in 0 .. n /\ ~ (m <= m - 1)
  BY <1>4, <1>5
<1>7. m - 1 \notin Bad
  BY <1>3, <1>6, Zenon
<1>8. m - 1 \in Good
  BY <1>6, <1>7, Zenon
<1> QED BY <1>4, <1>6, <1>8, Zenon

(***************************************************************************)
(* The session.                                                            *)
(***************************************************************************)

\* An acceptance for the account is among those of the history.
Authorised(account, history) == \E i \in DOMAIN history : history[i].account = account

AnswerRecord == [status : Nat, body : BOOLEAN, code : walletSemanticErrorCodes \cup {"absent"},
                 retryable : {"absent", "yes", "no"}]
OpenCall == [kind : {"challenge", "confirm", "health", "state"}, mine : BOOLEAN,
             account : Accounts \cup {"none"}, id : Nat, from : Protected,
             answer : AnswerRecord, call : Call]
LoginPage == [account : Accounts \cup {"none"}, challenge : Nat, requesting : BOOLEAN,
              confirming : BOOLEAN, success : BOOLEAN, redirecting : BOOLEAN, from : Protected]

\* A POST is never tried again, and the server has accepted the account of a
\* confirmation that it has answered with success.
PostOnce(c) ==
    c.kind \in {"challenge", "confirm"} =>
        /\ c.account \in Accounts
        /\ c.call.at = "fetching" /\ c.call.maxRetries = 0
ConfirmationBacked(c, history) ==
    c.kind = "confirm" /\ Succeeded(c.answer) => Authorised(c.account, history)
LiveCall(c, time, history) ==
    /\ c \in OpenCall
    /\ ~Over(c.call) /\ LifecycleFits(c.call)
    /\ c.id <= time
    /\ PostOnce(c) /\ ConfirmationBacked(c, history)

\* The challenge requests that the server has not seen.
Unserved(cs) == {i \in Slots : cs[i].kind = "challenge" /\ cs[i].answer = NoAnswer}

SessionShape ==
    /\ session \in Session \cup {NoSession}
    /\ stored \in Session \cup {NoSession}
PageShape ==
    /\ page \in Pages \cup {"closed"}
    /\ login \in LoginPage /\ login.challenge <= clock
    /\ IF page = "/login" THEN login.account \in Accounts ELSE login = NoLogin
    /\ loading \in BOOLEAN /\ (loading => page = "/state")
CallShape ==
    /\ calls \in [Slots -> OpenCall \cup {Free}]
    /\ \A i \in Slots : calls[i] = Free \/ LiveCall(calls[i], clock, accepted)
\* A closed tab leaves nothing running.
ClosedIsQuiet ==
    page = "closed" => strays = {} /\ session = NoSession /\ \A i \in Slots : calls[i] = Free
PostsCounted ==
    /\ wanted \in Nat
    /\ Len(issued) + Cardinality(Unserved(calls)) <= wanted

WebInv ==
    /\ ChallengeTypeOK
    /\ SessionShape /\ PageShape /\ CallShape
    /\ strays \subseteq Protected
    /\ ClosedIsQuiet
    /\ SessionAuthorised
    /\ StorageAgrees
    /\ PostsCounted

\* The invariant gives what the run checks.
LEMMA WebInvGives ==
    WebInv => RequestsSafe /\ SessionAuthorised /\ StorageAgrees
<1> SUFFICES ASSUME WebInv PROVE RequestsSafe
  BY DEF WebInv
<1>1. Cardinality(Unserved(calls)) \in Nat
  <2>1. IsFiniteSet(Slots)
    BY WebAssumption, FS_Interval DEF Slots
  <2>2. Unserved(calls) \in SUBSET Slots
    BY DEF Unserved
  <2> QED BY <2>1, <2>2, FS_Subset, FS_CardinalityType
<1>2. Len(issued) \in Nat /\ clock \in Nat
  BY DEF WebInv, ChallengeTypeOK
<1>3. NoRepeatedPost
  BY <1>1, <1>2 DEF WebInv, PostsCounted, NoRepeatedPost
<1>4. CallsReport
  BY DEF WebInv, CallShape, LiveCall, CallsReport
<1>5. WebTypeOK
  <2>1. login.challenge \in 0 .. clock
    BY <1>2 DEF WebInv, PageShape, LoginPage
  <2>2. \A i \in Slots : calls[i] # Free => calls[i].call \in Call /\ ~Over(calls[i].call)
    BY DEF WebInv, CallShape, LiveCall, OpenCall
  <2> QED BY <2>1, <2>2 DEF WebInv, SessionShape, PageShape, WebTypeOK
<1> QED BY <1>3, <1>4, <1>5 DEF RequestsSafe

(***************************************************************************)
(* One call of request().                                                  *)
(***************************************************************************)

\* The stages of a call that is not over, by position.
LEMMA StagesByPosition ==
    ASSUME NEW n \in Nat, NEW s \in Seq({"start", "retry", "success", "failure"})
    PROVE  s = <<"start">> \o [i \in 1 .. n |-> "retry"] \o <<>>
             <=> Len(s) = n + 1 /\ \A i \in 1 .. n + 1 : s[i] = IF i = 1 THEN "start" ELSE "retry"
<1> DEFINE S == {"start", "retry", "success", "failure"}
           r == [i \in 1 .. n |-> "retry"]
           t == <<"start">> \o r \o <<>>
<1>1. r \in Seq(S) /\ Len(r) = n /\ \A i \in 1 .. n : r[i] = "retry"
  <2>1. r \in [1 .. n -> S]
    OBVIOUS
  <2>2. r \in Seq(S)
    BY <2>1, IsASeq
  <2> QED BY <2>2, LenProperties
<1> HIDE DEF r
<1>2. <<"start">> \in Seq(S) /\ Len(<<"start">>) = 1 /\ <<"start">>[1] = "start"
  OBVIOUS
<1>3. t = <<"start">> \o r /\ t \in Seq(S)
  BY <1>1, <1>2, ConcatProperties, ConcatEmptySeq
<1>4. /\ Len(t) = n + 1
      /\ \A i \in 1 .. n + 1 : t[i] = IF i = 1 THEN "start" ELSE "retry"
  <2>1. Len(t) = 1 + n
    BY <1>1, <1>2, <1>3, ConcatProperties
  <2>2. \A i \in 1 .. 1 + n : t[i] = IF i <= 1 THEN <<"start">>[i] ELSE r[i - 1]
    BY <1>1, <1>2, <1>3, ConcatProperties
  <2> QED BY <2>1, <2>2, <1>1, <1>2
<1> HIDE DEF t
<1>5. s = t <=> Len(s) = Len(t) /\ \A i \in 1 .. Len(s) : s[i] = t[i]
  BY <1>3, SeqEqual
<1>6. s = t <=> Len(s) = n + 1 /\ \A i \in 1 .. n + 1 : s[i] = IF i = 1 THEN "start" ELSE "retry"
  BY <1>4, <1>5
<1> QED BY <1>6 DEF t, r

\* What ends an attempt: another one waits only where retries are left.
LEMMA AttemptEnds ==
    ASSUME NEW STATE call, call \in Call, call.at = "fetching", LifecycleFits(call),
           NEW STATE code, NEW STATE status, NEW STATE retryable, NEW STATE c,
           c = EndOfAttempt(call, code, status, retryable)
    PROVE  /\ c.at \in {"sleeping", "thrown"}
           /\ ~Over(c) => /\ c \in Call /\ c.at = "sleeping" /\ LifecycleFits(c)
                          /\ call.maxRetries # 0
<1> DEFINE S == {"start", "retry", "success", "failure"}
<1>1. call.attempt \in Nat /\ call.maxRetries \in Nat /\ call.sent \in Nat /\ call.stages \in Seq(S)
  BY DEF Call
<1>2. CASE retryable /\ call.attempt < call.maxRetries
  <2>1. c = [call EXCEPT !.at = "sleeping", !.stages = Append(call.stages, "retry"),
                         !.attempt = call.attempt + 1]
    BY <1>2 DEF EndOfAttempt, Stage, Call
  <2>2. /\ c.at = "sleeping" /\ c.stages = Append(call.stages, "retry")
        /\ c.attempt = call.attempt + 1 /\ c.maxRetries = call.maxRetries /\ c.sent = call.sent
    BY <2>1 DEF Call
  <2>3. c.stages \in Seq(S)
    BY <1>1, <2>2, AppendProperties
  <2>4. c \in Call
    <3>1. c = [at |-> "sleeping", attempt |-> call.attempt + 1, maxRetries |-> call.maxRetries,
               sent |-> call.sent, stages |-> Append(call.stages, "retry"),
               code |-> call.code, status |-> call.status]
      BY <2>1 DEF Call
    <3>2. Append(call.stages, "retry") \in Seq(S)
      BY <2>2, <2>3
    <3> QED BY <1>1, <3>1, <3>2 DEF Call
  <2>5. /\ Len(call.stages) = call.attempt + 1
        /\ \A i \in 1 .. call.attempt + 1 : call.stages[i] = IF i = 1 THEN "start" ELSE "retry"
        /\ call.sent = call.attempt + 1
    BY <1>1, StagesByPosition DEF LifecycleFits
  <2>6. /\ Len(c.stages) = c.attempt + 1
        /\ \A i \in 1 .. c.attempt + 1 : c.stages[i] = IF i = 1 THEN "start" ELSE "retry"
    BY <1>1, <2>2, <2>5, AppendProperties
  <2>7. c.stages = <<"start">> \o [i \in 1 .. c.attempt |-> "retry"] \o <<>>
    <3>1. c.attempt \in Nat
      BY <1>1, <2>2
    <3> QED BY <2>3, <2>6, <3>1, StagesByPosition
  <2>8. LifecycleFits(c)
    <3>1. c.sent = c.attempt /\ c.attempt <= c.maxRetries
      <4>1. call.attempt < call.maxRetries /\ call.sent = call.attempt + 1
        BY <1>2, <2>5, Zenon
      <4> QED BY <1>1, <2>2, <4>1
    <3> QED BY <2>2, <2>7, <3>1 DEF LifecycleFits
  <2>9. call.maxRetries # 0
    BY <1>1, <1>2
  <2> QED BY <2>2, <2>4, <2>8, <2>9
<1>3. CASE ~(retryable /\ call.attempt < call.maxRetries)
  <2>1. c = [Stage(call, "thrown", "failure") EXCEPT !.code = code, !.status = status]
    BY <1>3 DEF EndOfAttempt
  <2>2. c.at = "thrown"
    BY <2>1 DEF Stage, Call
  <2> QED BY <2>2 DEF Over
<1> QED BY <1>2, <1>3

\* Reading an answer: only a successful one ends the call with a result.
LEMMA AnswerRead ==
    ASSUME NEW STATE call, call \in Call, call.at = "fetching", LifecycleFits(call),
           NEW STATE a, a \in AnswerRecord, NEW STATE c, c = Answered(call, a)
    PROVE  /\ c.at \in {"sleeping", "returned", "thrown"}
           /\ c.at = "returned" => Succeeded(a)
           /\ ~Over(c) => /\ c \in Call /\ c.at = "sleeping" /\ LifecycleFits(c)
                          /\ call.maxRetries # 0
<1>1. CASE Succeeded(a)
  <2>1. c = Stage(call, "returned", "success")
    BY <1>1 DEF Answered, Succeeded
  <2>2. c.at = "returned"
    BY <2>1 DEF Stage, Call
  <2> QED BY <1>1, <2>2 DEF Over
<1>2. CASE ~Succeeded(a)
  <2>1. \/ c = EndOfAttempt(call, ErrorCode(a), a.status, Retryable(a))
        \/ c = EndOfAttempt(call, "PARSE_ERROR", 0, FALSE)
    BY <1>2 DEF Answered, Succeeded
  <2>2. CASE c = EndOfAttempt(call, ErrorCode(a), a.status, Retryable(a))
    BY <2>2, AttemptEnds
  <2>3. CASE c = EndOfAttempt(call, "PARSE_ERROR", 0, FALSE)
    BY <2>3, AttemptEnds
  <2> QED BY <2>1, <2>2, <2>3
<1> QED BY <1>1, <1>2

\* A pause ends in the next fetch.
LEMMA FetchAgain ==
    ASSUME NEW STATE call, call \in Call, call.at = "sleeping", LifecycleFits(call),
           NEW STATE c, c = Fetching(call)
    PROVE  c \in Call /\ c.at = "fetching" /\ LifecycleFits(c)
<1>1. c = [call EXCEPT !.at = "fetching", !.sent = call.sent + 1]
  BY DEF Fetching
<1>2. c \in Call
  <2>1. c = [at |-> "fetching", attempt |-> call.attempt, maxRetries |-> call.maxRetries,
             sent |-> call.sent + 1, stages |-> call.stages,
             code |-> call.code, status |-> call.status]
    BY <1>1 DEF Call
  <2> QED BY <2>1 DEF Call
<1>3. /\ c.at = "fetching" /\ c.sent = call.sent + 1 /\ c.attempt = call.attempt
      /\ c.stages = call.stages /\ c.maxRetries = call.maxRetries
  BY <1>1 DEF Call
<1>4. LifecycleFits(c)
  BY <1>3 DEF LifecycleFits, Call
<1> QED BY <1>2, <1>3, <1>4

\* request() before its first answer.
LEMMA FreshCall ==
    ASSUME NEW method, NEW c, c = request(method)
    PROVE  /\ c \in Call /\ c.at = "fetching" /\ LifecycleFits(c)
           /\ method # "GET" => c.maxRetries = 0
<1>1. c = [at |-> "fetching", attempt |-> 0, maxRetries |-> defaultRetryCount(method),
           sent |-> 1, stages |-> <<"start">>, code |-> "none", status |-> 0]
  <2> HIDE DEF defaultRetryCount
  <2> DEFINE r == [at |-> "fetching", attempt |-> 0, maxRetries |-> defaultRetryCount(method),
                   sent |-> 0, stages |-> <<"start">>, code |-> "none", status |-> 0]
  <2>1. c = [r EXCEPT !.at = "fetching", !.sent = r.sent + 1]
    BY DEF request, Fetching
  <2>2. r.sent + 1 = 1
    OBVIOUS
  <2> QED BY <2>1, <2>2
<1>2. defaultRetryCount(method) \in Nat /\ (method # "GET" => defaultRetryCount(method) = 0)
  BY ClientAssumption DEF defaultRetryCount
<1> HIDE DEF defaultRetryCount
<1>3. /\ c.at = "fetching" /\ c.attempt = 0 /\ c.maxRetries = defaultRetryCount(method)
      /\ c.sent = 1 /\ c.stages = <<"start">>
  BY <1>1
<1>4. c \in Call
  BY <1>1, <1>2 DEF Call
<1>5. <<"start">> = <<"start">> \o [i \in 1 .. 0 |-> "retry"] \o <<>>
  <2>1. <<"start">> \in Seq({"start", "retry", "success", "failure"})
    OBVIOUS
  <2> QED BY <2>1, StagesByPosition
<1>6. LifecycleFits(c)
  BY <1>2, <1>3, <1>5 DEF LifecycleFits
<1> QED BY <1>2, <1>3, <1>4, <1>6

(***************************************************************************)
(* The calls of the pages.                                                 *)
(***************************************************************************)

\* An open call is no free slot.
LEMMA OpenIsNotFree == \A c \in OpenCall : c.kind # "free" /\ c # Free
BY DEF OpenCall, Free

\* The answers a call may meet: the server's to a POST, and those of the pages.
Granted == Answer(200, TRUE, "absent", "absent")
Refusals == {Answer(404, TRUE, "NOT_FOUND", "no"), Answer(400, TRUE, "INVALID_ARGUMENT", "no"),
             Answer(401, TRUE, "UNAUTHORIZED", "no")}
PageAnswers == {Answer(200, TRUE, "absent", "absent"), Answer(500, TRUE, "INTERNAL_ERROR", "no"),
                Answer(401, TRUE, "UNAUTHORIZED", "no")}

\* Each of them is an answer, and neither a refusal nor the gate's is a success.
LEMMA AnswerFields ==
    /\ NoAnswer \in AnswerRecord /\ NoAnswer.status = 0
    /\ Granted \in AnswerRecord /\ Granted.status = 200
    /\ \A a \in Refusals \cup Gate : a \in AnswerRecord /\ a.status \in 400 .. 599
    /\ \A a \in PageAnswers : a \in AnswerRecord
<1> DEFINE ok == Answer(200, TRUE, "absent", "absent")
           unknown == Answer(404, TRUE, "NOT_FOUND", "no")
           invalid == Answer(400, TRUE, "INVALID_ARGUMENT", "no")
           denied == Answer(401, TRUE, "UNAUTHORIZED", "no")
           broken == Answer(500, TRUE, "INTERNAL_ERROR", "no")
           down == Answer(503, FALSE, "absent", "absent")
           shut == Answer(401, FALSE, "absent", "absent")
<1>1. /\ NoAnswer \in AnswerRecord /\ NoAnswer.status = 0
      /\ ok \in AnswerRecord /\ ok.status = 200
      /\ unknown \in AnswerRecord /\ unknown.status = 404
      /\ invalid \in AnswerRecord /\ invalid.status = 400
      /\ denied \in AnswerRecord /\ denied.status = 401
      /\ broken \in AnswerRecord /\ broken.status = 500
      /\ down \in AnswerRecord /\ down.status = 503
      /\ shut \in AnswerRecord /\ shut.status = 401
  BY DEF NoAnswer, Answer, AnswerRecord, walletSemanticErrorCodes
<1>2. /\ Gate = {down, shut} /\ Refusals = {unknown, invalid, denied}
      /\ PageAnswers = {ok, broken, denied} /\ Granted = ok
  BY DEF Gate, Refusals, PageAnswers, Granted
<1> HIDE DEF ok, unknown, invalid, denied, broken, down, shut
<1> QED BY <1>1, <1>2

\* An answer that has not come is no success.
LEMMA NoAnswerFails == NoAnswer \in AnswerRecord /\ NoAnswer.status = 0 /\ ~Succeeded(NoAnswer)
BY AnswerFields DEF Succeeded

\* A call that a page starts.
LEMMA NewCallLive ==
    ASSUME NEW kind \in {"challenge", "confirm", "health", "state"},
           NEW STATE account, account \in Accounts \cup {"none"},
           kind \in {"challenge", "confirm"} => account \in Accounts,
           NEW STATE id, id \in Nat, id <= clock, NEW STATE from, from \in Protected
    PROVE  LET c == NewCall(kind, account, id, from)
           IN  LiveCall(c, clock, accepted) /\ c.kind = kind /\ c.answer = NoAnswer
<1> DEFINE method == IF kind \in {"challenge", "confirm"} THEN "POST" ELSE "GET"
           r == request(method)
           c == NewCall(kind, account, id, from)
<1>1. /\ r \in Call /\ r.at = "fetching" /\ LifecycleFits(r)
      /\ kind \in {"challenge", "confirm"} => r.maxRetries = 0
  <2>1. kind \in {"challenge", "confirm"} => method # "GET"
    OBVIOUS
  <2> HIDE DEF method
  <2> QED BY <2>1, FreshCall
<1>2. c = [kind |-> kind, mine |-> TRUE, account |-> account, id |-> id, from |-> from,
           answer |-> NoAnswer, call |-> r]
  BY DEF NewCall
<1> HIDE DEF c, r
<1>3. NoAnswer \in AnswerRecord /\ ~Succeeded(NoAnswer)
  BY NoAnswerFails
<1>4. c \in OpenCall
  BY <1>1, <1>2, <1>3 DEF OpenCall
<1>5. /\ c.kind = kind /\ c.account = account /\ c.id = id /\ c.answer = NoAnswer /\ c.call = r
  BY <1>2
<1>6. ~Over(c.call) /\ LifecycleFits(c.call)
  BY <1>1, <1>5 DEF Over
<1>7. PostOnce(c)
  BY <1>1, <1>5 DEF PostOnce
<1>8. ConfirmationBacked(c, accepted)
  BY <1>3, <1>5 DEF ConfirmationBacked
<1>9. LiveCall(c, clock, accepted)
  BY <1>4, <1>5, <1>6, <1>7, <1>8 DEF LiveCall
<1> QED BY <1>5, <1>9 DEF c

\* The state page's load.
LEMMA LoadLive ==
    ASSUME ChallengeTypeOK
    PROVE  LiveCall(Load, clock, accepted) /\ Load.kind = "state" /\ Load \in OpenCall
<1>1. 0 \in Nat /\ 0 <= clock
  BY DEF ChallengeTypeOK
<1>2. "/" \in Protected
  BY DEF Protected
<1> QED BY <1>1, <1>2, NewCallLive DEF Load, LiveCall

\* A call whose page was left is as it was otherwise.
LEMMA LeftLive ==
    \A c, time, history : LiveCall(c, time, history) =>
        LET d == [c EXCEPT !.mine = FALSE]
        IN  /\ LiveCall(d, time, history) /\ d \in OpenCall
            /\ d.kind = c.kind /\ d.answer = c.answer
<1> SUFFICES ASSUME NEW c, NEW time, NEW history, LiveCall(c, time, history)
             PROVE  LET d == [c EXCEPT !.mine = FALSE]
                    IN  /\ LiveCall(d, time, history) /\ d \in OpenCall
                        /\ d.kind = c.kind /\ d.answer = c.answer
  OBVIOUS
<1> DEFINE d == [c EXCEPT !.mine = FALSE]
<1>1. c \in OpenCall
  BY DEF LiveCall
<1>2. d \in OpenCall
  BY <1>1 DEF OpenCall
<1>3. /\ d.kind = c.kind /\ d.account = c.account /\ d.id = c.id
      /\ d.answer = c.answer /\ d.call = c.call
  BY <1>1 DEF OpenCall
<1> HIDE DEF d
<1>4. LiveCall(d, time, history)
  BY <1>2, <1>3 DEF LiveCall, PostOnce, ConfirmationBacked
<1> QED BY <1>2, <1>3, <1>4 DEF d

\* The slot a call takes is free.
LEMMA FirstFreeIsFree ==
    ASSUME NEW STATE free, free \subseteq Slots, free # {}
    PROVE  FirstFree(free) \in free
<1>1. free \subseteq Nat
  BY WebAssumption DEF Slots
<1>2. \E i \in free : \A j \in free : i <= j
  BY <1>1, LeastNatural
<1> QED BY <1>2 DEF FirstFree

\* Rendering: the page, the session and the calls are as they should be, and
\* no call is lost nor a POST begun.
LEMMA RenderKeeps ==
    ASSUME ChallengeTypeOK, PageShape, UNCHANGED <<clock, accepted>>,
           NEW STATE p, p \in Pages,
           NEW STATE l, l \in LoginPage, l.challenge <= clock, p = "/login" => l.account \in Accounts,
           NEW STATE s, s \in Session \cup {NoSession},
           NEW STATE cs, cs \in [Slots -> OpenCall \cup {Free}],
           \A i \in Slots : cs[i] = Free \/ LiveCall(cs[i], clock, accepted),
           NEW STATE stays, stays \in BOOLEAN, stays => p = page,
           Render(p, l, s, cs, stays)
    PROVE  /\ PageShape' /\ page' \in Pages /\ session' = s
           /\ CallShape' /\ Unserved(calls)' = Unserved(cs)
<1> DEFINE to   == Destination(p, s, l.success, l.from)
           same == stays /\ to = p
           kept == [i \in Slots |-> IF cs[i].kind = "free" \/ same THEN cs[i]
                                    ELSE [cs[i] EXCEPT !.mine = FALSE]]
           free == {i \in Slots : cs[i].kind = "free"}
<1>1. /\ page' = to
      /\ session' = s
      /\ login' = CASE to # "/login" -> NoLogin
                    [] to = "/login" /\ p # "/login" -> FreshLogin(p)
                    [] OTHER -> l
      /\ \/ to = "/state" /\ free # {} /\ loading' = TRUE
            /\ calls' = [kept EXCEPT ![FirstFree(free)] = Load]
         \/ calls' = kept /\ loading' = (loading /\ same)
  BY DEF Render
<1>2. to \in Pages /\ (to = "/login" /\ p # "/login" => p \in Protected)
  BY DEF Destination, LoginPage, Pages
<1>3. PageShape'
  <2>1. login' \in LoginPage /\ login'.challenge <= clock
        /\ IF to = "/login" THEN login'.account \in Accounts ELSE login' = NoLogin
    <3>1. CASE to # "/login"
      <4>1. login' = NoLogin
        BY <1>1, <3>1
      <4>2. NoLogin \in LoginPage /\ NoLogin.challenge = 0
        BY DEF NoLogin, LoginPage, Protected
      <4> QED BY <3>1, <4>1, <4>2 DEF ChallengeTypeOK
    <3>2. CASE to = "/login" /\ p # "/login"
      <4>1. login' = FreshLogin(p)
        BY <1>1, <3>2
      <4>2. FreshLogin(p) = [account |-> DefaultAccount, challenge |-> 0, requesting |-> FALSE,
                confirming |-> FALSE, success |-> FALSE, redirecting |-> FALSE, from |-> p]
        <5> DEFINE n == [account |-> "none", challenge |-> 0, requesting |-> FALSE,
                    confirming |-> FALSE, success |-> FALSE, redirecting |-> FALSE, from |-> "/"]
        <5>1. FreshLogin(p) = [n EXCEPT !.account = DefaultAccount, !.from = p]
          BY DEF FreshLogin, NoLogin
        <5> QED BY <5>1
      <4>3. p \in Protected /\ DefaultAccount \in Accounts
        BY <1>2, <3>2, WebAssumption
      <4>4. login' \in LoginPage /\ login'.challenge = 0 /\ login'.account = DefaultAccount
        BY <4>1, <4>2, <4>3 DEF LoginPage
      <4> QED BY <3>2, <4>3, <4>4 DEF ChallengeTypeOK
    <3>3. CASE to = "/login" /\ p = "/login"
      <4>1. login' = l
        BY <1>1, <3>3
      <4> QED BY <3>3, <4>1
    <3> QED BY <3>1, <3>2, <3>3
  <2>2. loading' \in BOOLEAN /\ (loading' => to = "/state")
    <3>1. CASE loading' = TRUE /\ to = "/state"
      BY <3>1
    <3>2. CASE loading' = (loading /\ same)
      <4>1. loading' \in BOOLEAN
        BY <3>2 DEF PageShape
      <4>2. loading' => loading /\ stays /\ to = p
        BY <3>2, Zenon
      <4>3. loading => page = "/state"
        BY DEF PageShape
      <4> QED BY <4>1, <4>2, <4>3
    <3> QED BY <1>1, <3>1, <3>2
  <2> QED BY <1>1, <1>2, <2>1, <2>2 DEF PageShape
<1>4. \A i \in Slots : kept[i] = cs[i] \/ (cs[i] # Free /\ kept[i] = [cs[i] EXCEPT !.mine = FALSE])
  BY DEF Free
<1>5. DOMAIN kept = Slots
  OBVIOUS
<1>6. \A i \in free : kept[i] = cs[i] /\ cs[i] = Free
  BY OpenIsNotFree
<1>7. free # {} => FirstFree(free) \in free
  <2>1. free \subseteq Slots
    OBVIOUS
  <2> HIDE DEF free
  <2> QED BY <2>1, FirstFreeIsFree
<1> HIDE DEF kept
<1>8. /\ DOMAIN calls' = Slots /\ calls' = [i \in Slots |-> calls'[i]]
      /\ \A i \in Slots : \/ calls'[i] = cs[i]
                          \/ cs[i] # Free /\ calls'[i] = [cs[i] EXCEPT !.mine = FALSE]
                          \/ cs[i] = Free /\ calls'[i] = Load
  <2>0. kept = [i \in Slots |-> kept[i]]
    BY DEF kept
  <2>1. CASE calls' = kept
    BY <1>4, <1>5, <2>0, <2>1
  <2>2. CASE free # {} /\ calls' = [kept EXCEPT ![FirstFree(free)] = Load]
    <3>1. FirstFree(free) \in Slots /\ cs[FirstFree(free)] = Free
      BY <1>6, <1>7, <2>2
    <3> HIDE DEF free
    <3> DEFINE n == FirstFree(free)
    <3>2. n \in Slots /\ cs[n] = Free /\ calls' = [kept EXCEPT ![n] = Load]
      BY <2>2, <3>1
    <3> HIDE DEF n
    <3> QED BY <1>4, <1>5, <2>0, <3>2
  <2> QED BY <1>1, <2>1, <2>2
<1>9. \A i \in Slots : /\ calls'[i] = Free \/ LiveCall(calls'[i], clock, accepted)
                       /\ calls'[i] \in OpenCall \cup {Free}
                       /\ \/ calls'[i].kind = cs[i].kind /\ calls'[i].answer = cs[i].answer
                          \/ calls'[i].kind = "state" /\ cs[i].kind = "free"
  <2> SUFFICES ASSUME NEW i \in Slots
               PROVE  /\ calls'[i] = Free \/ LiveCall(calls'[i], clock, accepted)
                      /\ calls'[i] \in OpenCall \cup {Free}
                      /\ \/ calls'[i].kind = cs[i].kind /\ calls'[i].answer = cs[i].answer
                         \/ calls'[i].kind = "state" /\ cs[i].kind = "free"
    OBVIOUS
  <2>1. CASE calls'[i] = cs[i]
    BY <2>1
  <2>2. CASE cs[i] # Free /\ calls'[i] = [cs[i] EXCEPT !.mine = FALSE]
    BY <2>2, LeftLive
  <2>3. CASE cs[i] = Free /\ calls'[i] = Load
    BY <2>3, LoadLive DEF Free
  <2> QED BY <1>8, <2>1, <2>2, <2>3
<1>10. CallShape'
  BY <1>8, <1>9 DEF CallShape
<1>11. Unserved(calls)' = Unserved(cs)
  BY <1>9 DEF Unserved
<1> QED BY <1>1, <1>2, <1>3, <1>10, <1>11

(***************************************************************************)
(* What the steps have in common.                                          *)
(***************************************************************************)

\* No acceptance is forgotten.
HistoryGrows == \A a : Authorised(a, accepted) => Authorised(a, accepted')

\* A call stays as good as it was while time passes and confirmations are
\* accepted.
LEMMA LiveKept ==
    ASSUME ChallengeTypeOK, clock' \in Nat, clock <= clock', HistoryGrows
    PROVE  \A c : LiveCall(c, clock, accepted) => LiveCall(c, clock', accepted')
<1> SUFFICES ASSUME NEW c, LiveCall(c, clock, accepted)
             PROVE  LiveCall(c, clock', accepted')
  OBVIOUS
<1>1. c.id \in Nat /\ c.id <= clock /\ clock \in Nat
  BY DEF LiveCall, OpenCall, ChallengeTypeOK
<1>2. c.id <= clock'
  BY <1>1
<1>3. ConfirmationBacked(c, accepted')
  BY DEF LiveCall, ConfirmationBacked, HistoryGrows
<1> QED BY <1>2, <1>3 DEF LiveCall

\* The server's handlers keep the types, and neither turn back the clock nor
\* forget a confirmation.
LEMMA ServerKeeps ==
    ASSUME ChallengeTypeOK,
           \/ \E account \in Accounts, id \in Nat : Issue(account, id)
           \/ \E account \in Accounts, id \in Nat : Confirm(account, id)
           \/ Expire
    PROVE  ChallengeTypeOK' /\ clock <= clock' /\ HistoryGrows
<1> USE DEF ChallengeTypeOK
<1>1. ASSUME NEW account \in Accounts, NEW id \in Nat, Issue(account, id)
      PROVE  ChallengeTypeOK' /\ clock <= clock' /\ HistoryGrows
  <2>1. [id |-> id, account |-> account, expired |-> FALSE] \in Challenge
    BY DEF Challenge
  <2>2. challenges' \in SUBSET Challenge
    BY <1>1, <2>1 DEF Issue
  <2>3. issued' \in Seq([id : Nat, account : Accounts])
    BY <1>1 DEF Issue
  <2>4. clock' \in Nat /\ clock <= clock'
    BY <1>1 DEF Issue
  <2>5. accepted' = accepted
    BY <1>1 DEF Issue
  <2> QED BY <2>2, <2>3, <2>4, <2>5 DEF HistoryGrows
<1>2. ASSUME NEW account \in Accounts, NEW id \in Nat, Confirm(account, id)
      PROVE  ChallengeTypeOK' /\ clock <= clock' /\ HistoryGrows
  <2>1. challenges' \in SUBSET Challenge /\ clock' = clock /\ issued' = issued
    BY <1>2 DEF Confirm, Remaining
  <2> DEFINE e == [id |-> id, account |-> account]
  <2>2. accepted' = accepted \/ accepted' = Append(accepted, e)
    BY <1>2 DEF Confirm
  <2> DEFINE E == [id : Nat, account : Accounts]
  <2>3. e \in E /\ accepted \in Seq(E)
    OBVIOUS
  <2> HIDE DEF e, E
  <2>5. accepted' \in Seq(E)
    <3>1. Append(accepted, e) \in Seq(E)
      BY <2>3, AppendProperties, Zenon
    <3> QED BY <2>2, <2>3, <3>1, Zenon
  <2>4. HistoryGrows
    <3>1. \A i \in DOMAIN accepted : i \in DOMAIN accepted' /\ accepted'[i] = accepted[i]
      <4>1. CASE accepted' = accepted
        BY <4>1
      <4>2. CASE accepted' = Append(accepted, e)
        BY <2>3, <4>2, AppendProperties, LenProperties
      <4> QED BY <2>2, <4>1, <4>2
    <3> QED BY <3>1 DEF HistoryGrows, Authorised
  <2> QED BY <2>1, <2>4, <2>5 DEF E
<1>3. ASSUME Expire
      PROVE  ChallengeTypeOK' /\ clock <= clock' /\ HistoryGrows
  <2>1. PICK c \in challenges : challenges' = (challenges \ {c}) \cup {[c EXCEPT !.expired = TRUE]}
    BY <1>3 DEF Expire
  <2>2. [c EXCEPT !.expired = TRUE] \in Challenge
    BY <2>1 DEF Challenge
  <2>3. challenges' \in SUBSET Challenge
    BY <2>1, <2>2
  <2>4. UNCHANGED <<clock, issued, accepted>>
    BY <1>3 DEF Expire
  <2> QED BY <2>3, <2>4 DEF HistoryGrows
<1> QED BY <1>1, <1>2, <1>3

\* The requests not yet served are finitely many.
LEMMA UnservedFinite ==
    \A cs : IsFiniteSet(Unserved(cs)) /\ Cardinality(Unserved(cs)) \in Nat
<1>1. IsFiniteSet(Slots)
  BY WebAssumption, FS_Interval DEF Slots
<1> SUFFICES ASSUME NEW cs
             PROVE  IsFiniteSet(Unserved(cs)) /\ Cardinality(Unserved(cs)) \in Nat
  OBVIOUS
<1>2. Unserved(cs) \in SUBSET Slots
  BY DEF Unserved
<1> HIDE DEF Unserved
<1> QED BY <1>1, <1>2, FS_Subset, FS_CardinalityType

\* No challenge is asked for by a step that begins no such request.
LEMMA CountKept ==
    ASSUME ChallengeTypeOK, PostsCounted, UNCHANGED <<issued, wanted>>,
           Unserved(calls)' \subseteq Unserved(calls)
    PROVE  PostsCounted'
<1>1. Len(issued) \in Nat
  BY DEF ChallengeTypeOK
<1> DEFINE before == Unserved(calls)
           after == Unserved(calls')
<1>2. after \in SUBSET before /\ IsFiniteSet(before) /\ Cardinality(before) \in Nat
      /\ Cardinality(after) \in Nat
  BY UnservedFinite
<1> HIDE DEF before, after
<1>3. Cardinality(after) <= Cardinality(before)
  BY <1>2, FS_Subset
<1>4. Len(issued) + Cardinality(before) <= wanted
  BY DEF PostsCounted, before
<1>5. Len(issued) + Cardinality(after) <= wanted
  BY <1>1, <1>2, <1>3, <1>4 DEF PostsCounted
<1> QED BY <1>5 DEF PostsCounted, after

\* One slot of the calls changes.
LEMMA SlotKeeps ==
    ASSUME ChallengeTypeOK, CallShape, clock' \in Nat, clock <= clock', HistoryGrows,
           NEW STATE i, i \in Slots, NEW STATE x, calls' = [calls EXCEPT ![i] = x],
           x = Free \/ LiveCall(x, clock', accepted')
    PROVE  /\ CallShape'
           /\ Unserved(calls)' = (Unserved(calls) \ {i}) \cup
                (IF x.kind = "challenge" /\ x.answer = NoAnswer THEN {i} ELSE {})
<1>1. x \in OpenCall \cup {Free}
  BY DEF LiveCall
<1>2. calls'[i] = x /\ \A j \in Slots \ {i} : calls'[j] = calls[j]
  BY DEF CallShape
<1>3. calls' \in [Slots -> OpenCall \cup {Free}]
  BY <1>1 DEF CallShape
<1>4. \A j \in Slots \ {i} : calls[j] = Free \/ LiveCall(calls[j], clock', accepted')
  BY LiveKept DEF CallShape
<1>5. CallShape'
  BY <1>2, <1>3, <1>4 DEF CallShape
<1>6. \A j \in Slots : j \in Unserved(calls)' <=>
        IF j = i THEN x.kind = "challenge" /\ x.answer = NoAnswer ELSE j \in Unserved(calls)
  BY <1>2 DEF Unserved
<1>7. Unserved(calls)' \subseteq Slots /\ Unserved(calls) \subseteq Slots
  BY DEF Unserved
<1> HIDE DEF Unserved
<1> QED BY <1>5, <1>6, <1>7

\* A step that renders: what is left to check of it.
LEMMA RenderStep ==
    ASSUME WebInv, UNCHANGED <<challengeVars, wanted>>, strays' \subseteq Protected,
           NEW STATE p, p \in Pages,
           NEW STATE l, l \in LoginPage, l.challenge <= clock, p = "/login" => l.account \in Accounts,
           NEW STATE s, s \in Session \cup {NoSession},
           s # NoSession => Authorised(s.account, accepted),
           NEW STATE cs, cs \in [Slots -> OpenCall \cup {Free}],
           \A i \in Slots : cs[i] = Free \/ LiveCall(cs[i], clock, accepted),
           Unserved(cs) \subseteq Unserved(calls),
           NEW STATE stays, stays \in BOOLEAN, stays => p = page,
           Render(p, l, s, cs, stays), stored' = s
    PROVE  WebInv'
<1>1. UNCHANGED <<challenges, clock, issued, accepted>>
  BY DEF challengeVars
<1>2. /\ PageShape' /\ page' \in Pages /\ session' = s
      /\ CallShape' /\ Unserved(calls)' = Unserved(cs)
  BY <1>1, RenderKeeps DEF WebInv
<1>3. ChallengeTypeOK'
  BY <1>1 DEF WebInv, ChallengeTypeOK
<1>4. SessionShape' /\ StorageAgrees'
  BY <1>2 DEF SessionShape, StorageAgrees
<1>5. SessionAuthorised'
  BY <1>1, <1>2 DEF SessionAuthorised, Authorised
<1>6. ClosedIsQuiet'
  BY <1>2 DEF ClosedIsQuiet, Pages, Protected
<1>7. PostsCounted'
  BY <1>1, <1>2, CountKept DEF WebInv
<1> QED BY <1>2, <1>3, <1>4, <1>5, <1>6, <1>7 DEF WebInv

\* A fresh login page.
LEMMA FreshLoginOK ==
    ASSUME ChallengeTypeOK, NEW STATE from, from \in Protected
    PROVE  /\ FreshLogin(from) \in LoginPage /\ FreshLogin(from).challenge <= clock
           /\ FreshLogin(from).account \in Accounts
<1> DEFINE n == [account |-> "none", challenge |-> 0, requesting |-> FALSE,
                 confirming |-> FALSE, success |-> FALSE, redirecting |-> FALSE, from |-> "/"]
<1>1. FreshLogin(from) = [n EXCEPT !.account = DefaultAccount, !.from = from]
  BY DEF FreshLogin, NoLogin
<1>2. FreshLogin(from) = [account |-> DefaultAccount, challenge |-> 0, requesting |-> FALSE,
                confirming |-> FALSE, success |-> FALSE, redirecting |-> FALSE, from |-> from]
  BY <1>1
<1>3. DefaultAccount \in Accounts
  BY WebAssumption
<1> QED BY <1>2, <1>3 DEF LoginPage, ChallengeTypeOK

\* The session that is there was authorised.
LEMMA SessionsFit ==
    ASSUME WebInv
    PROVE  /\ session \in Session \cup {NoSession} /\ stored \in Session \cup {NoSession}
           /\ session # NoSession => Authorised(session.account, accepted)
           /\ stored # NoSession => Authorised(stored.account, accepted)
BY DEF WebInv, SessionShape, SessionAuthorised, Authorised

\* Moving about, opening the tab and the redirects.
LEMMA RoutingStep ==
    ASSUME WebInv,
           \/ \E p \in Pages : Navigate(p)
           \/ \E p \in Pages, from \in Protected : Open(p, from)
           \/ Tick \/ SignOut \/ Redirect
           \/ \E to \in Protected : StrayRedirect(to)
    PROVE  WebInv'
<1> USE SessionsFit
<1>0. /\ ChallengeTypeOK /\ calls \in [Slots -> OpenCall \cup {Free}]
      /\ \A i \in Slots : calls[i] = Free \/ LiveCall(calls[i], clock, accepted)
      /\ login \in LoginPage /\ login.challenge <= clock
      /\ page \in Pages \cup {"closed"} /\ (page = "/login" => login.account \in Accounts)
      /\ strays \subseteq Protected
      /\ Unserved(calls) \subseteq Unserved(calls)
      /\ "/" \in Protected /\ Protected \subseteq Pages /\ "/login" \notin Protected
  BY DEF WebInv, CallShape, PageShape, Pages, Protected
<1>1. ASSUME NEW p \in Pages, Navigate(p)
      PROVE  WebInv'
  <2>1. stored' = session /\ strays' = strays /\ UNCHANGED <<challengeVars, wanted>>
    BY <1>1 DEF Navigate, WebInv, StorageAgrees
  <2>2. Render(p, FreshLogin("/"), session, calls, FALSE)
    BY <1>1 DEF Navigate
  <2> QED BY <1>0, <2>1, <2>2, FreshLoginOK, RenderStep
<1>2. ASSUME NEW p \in Pages, NEW from \in Protected, Open(p, from)
      PROVE  WebInv'
  <2> DEFINE s == IF stored.expired THEN NoSession ELSE stored
  <2>1. /\ stored' = s /\ strays' = strays /\ UNCHANGED <<challengeVars, wanted>>
        /\ Render(p, FreshLogin(from), s, calls, FALSE)
    BY <1>2 DEF Open
  <2>2. s \in Session \cup {NoSession} /\ (s # NoSession => Authorised(s.account, accepted))
    OBVIOUS
  <2> HIDE DEF s
  <2> QED BY <1>0, <2>1, <2>2, FreshLoginOK, RenderStep
<1>3. ASSUME Tick \/ SignOut
      PROVE  WebInv'
  <2>1. /\ stored' = NoSession /\ strays' = strays /\ UNCHANGED <<challengeVars, wanted>>
        /\ Render(page, login, NoSession, calls, TRUE)
    BY <1>3 DEF Tick, SignOut
  <2>2. page \in Pages
    <3>1. CASE Tick
      <4>1. session # NoSession
        BY <3>1 DEF Tick, NoSession
      <4> QED BY <1>0, <4>1 DEF WebInv, ClosedIsQuiet
    <3>2. CASE SignOut
      BY <1>0, <3>2 DEF SignOut
    <3> QED BY <1>3, <3>1, <3>2
  <2> QED BY <1>0, <2>1, <2>2, RenderStep
<1>4. ASSUME Redirect
      PROVE  WebInv'
  <2>1. login # NoLogin
    BY <1>4 DEF Redirect, NoLogin
  <2>2. page = "/login"
    BY <2>1 DEF WebInv, PageShape
  <2>3. stored' = session /\ strays' = strays /\ UNCHANGED <<challengeVars, wanted>>
    BY <1>4, <2>2 DEF Redirect, WebInv, StorageAgrees
  <2>4. Render(login.from, login, session, calls, FALSE) /\ login.from \in Protected
    BY <1>4, <1>0 DEF Redirect, LoginPage
  <2>5. login.from \in Pages /\ login.account \in Accounts
    BY <1>0, <2>2, <2>4
  <2> QED BY <1>0, <2>3, <2>4, <2>5, RenderStep
<1>5. ASSUME NEW to \in Protected, StrayRedirect(to)
      PROVE  WebInv'
  <2>1. page # "closed"
    BY <1>5 DEF StrayRedirect, WebInv, ClosedIsQuiet
  <2>2. stored' = session /\ strays' \subseteq Protected /\ UNCHANGED <<challengeVars, wanted>>
    BY <1>0, <1>5, <2>1 DEF StrayRedirect, WebInv, StorageAgrees
  <2>3. Render(to, FreshLogin("/"), session, calls, to = page) /\ to \in Pages
    BY <1>0, <1>5 DEF StrayRedirect
  <2>4. (to = page) \in BOOLEAN
    OBVIOUS
  <2> QED BY <1>0, <2>2, <2>3, <2>4, FreshLoginOK, RenderStep
<1> QED BY <1>1, <1>2, <1>3, <1>4, <1>5

\* Closing the tab, and time passing for the session.
LEMMA TabStep ==
    ASSUME WebInv, Close \/ SessionExpires
    PROVE  WebInv'
<1>1. CASE Close
  <2>1. /\ UNCHANGED <<challenges, clock, issued, accepted>> /\ stored' = stored /\ wanted' = wanted
        /\ page' = "closed" /\ login' = NoLogin /\ loading' = FALSE /\ session' = NoSession
        /\ calls' = [i \in Slots |-> Free] /\ strays' = {}
    BY <1>1 DEF Close, challengeVars
  <2>2. NoLogin \in LoginPage /\ NoLogin.challenge = 0
    BY DEF NoLogin, LoginPage, Protected
  <2>3. ChallengeTypeOK' /\ SessionShape' /\ CallShape' /\ strays' \subseteq Protected
    BY <2>1 DEF WebInv, ChallengeTypeOK, SessionShape, CallShape
  <2>4. PageShape'
    <3>1. clock' \in Nat /\ NoLogin.challenge <= clock'
      BY <2>1, <2>2 DEF WebInv, ChallengeTypeOK
    <3>2. page' \in Pages \cup {"closed"} /\ page' # "/login" /\ loading' \in BOOLEAN /\ ~loading'
      BY <2>1
    <3> QED BY <2>1, <2>2, <3>1, <3>2 DEF PageShape
  <2>5. ClosedIsQuiet' /\ StorageAgrees'
    BY <2>1 DEF ClosedIsQuiet, StorageAgrees
  <2>6. SessionAuthorised'
    BY <2>1 DEF WebInv, SessionAuthorised
  <2>7. Unserved(calls)' \subseteq Unserved(calls)
    BY <2>1 DEF Unserved, Free
  <2>8. PostsCounted'
    BY <2>1, <2>7, CountKept DEF WebInv
  <2> QED BY <2>3, <2>4, <2>5, <2>6, <2>8 DEF WebInv
<1>2. CASE SessionExpires
  <2>1. /\ UNCHANGED <<challenges, clock, issued, accepted>> /\ UNCHANGED <<page, login, loading>>
        /\ calls' = calls /\ strays' = strays /\ wanted' = wanted
        /\ session' = IF session = NoSession THEN session ELSE [session EXCEPT !.expired = TRUE]
        /\ stored' = IF stored = NoSession THEN stored ELSE [stored EXCEPT !.expired = TRUE]
    BY <1>2 DEF SessionExpires, challengeVars, pageVars
  <2>2. \A s \in Session : /\ [s EXCEPT !.expired = TRUE] \in Session
                           /\ [s EXCEPT !.expired = TRUE].account = s.account
    BY DEF Session
  <2>3. SessionShape'
    BY <2>1, <2>2 DEF WebInv, SessionShape
  <2>4. StorageAgrees'
    BY <2>1 DEF WebInv, StorageAgrees
  <2>5. /\ session' # NoSession => session # NoSession /\ session'.account = session.account
        /\ stored' # NoSession => stored # NoSession /\ stored'.account = stored.account
    BY <2>1, <2>2 DEF WebInv, SessionShape
  <2>6. SessionAuthorised'
    BY <2>1, <2>5, SessionsFit DEF SessionAuthorised, Authorised
  <2>7. ChallengeTypeOK' /\ PageShape' /\ CallShape' /\ strays' \subseteq Protected /\ ClosedIsQuiet'
    BY <2>1 DEF WebInv, ChallengeTypeOK, PageShape, CallShape, ClosedIsQuiet
  <2>8. PostsCounted'
    BY <2>1 DEF WebInv, PostsCounted
  <2> QED BY <2>3, <2>4, <2>6, <2>7, <2>8 DEF WebInv
<1> QED BY <1>1, <1>2

\* A step that leaves the session, the route and the server alone.
LEMMA LocalStep ==
    ASSUME WebInv, UNCHANGED <<challengeVars, sessionVars, page, strays>>, page # "closed",
           CallShape', PageShape', PostsCounted'
    PROVE  WebInv'
<1>1. ChallengeTypeOK' /\ SessionShape' /\ SessionAuthorised' /\ StorageAgrees'
  BY DEF WebInv, challengeVars, sessionVars, ChallengeTypeOK, SessionShape, SessionAuthorised,
         StorageAgrees
<1>2. ClosedIsQuiet' /\ strays' \subseteq Protected
  BY DEF WebInv, ClosedIsQuiet
<1> QED BY <1>1, <1>2 DEF WebInv

\* A page begins a call in a free slot.
LEMMA BeginKeeps ==
    ASSUME WebInv, UNCHANGED <<challengeVars>>, NEW STATE call,
           LiveCall(call, clock, accepted), Begin(call)
    PROVE  /\ CallShape'
           /\ call.kind # "challenge" => Unserved(calls)' = Unserved(calls)
           /\ \E n : Unserved(calls)' \subseteq Unserved(calls) \cup {n}
<1>1. UNCHANGED <<clock, accepted>> /\ clock \in Nat
  BY DEF challengeVars, WebInv, ChallengeTypeOK
<1>2. FreeSlots \subseteq Slots /\ FreeSlots # {}
  BY DEF FreeSlots, Begin
<1> DEFINE n == FirstFree(FreeSlots)
<1>3. n \in Slots /\ calls[n].kind = "free" /\ calls' = [calls EXCEPT ![n] = call]
  <2>1. n \in FreeSlots
    BY <1>2, FirstFreeIsFree
  <2> QED BY <2>1 DEF FreeSlots, Begin
<1> HIDE DEF n
<1>4. HistoryGrows
  BY <1>1 DEF HistoryGrows
<1>5. /\ CallShape'
      /\ Unserved(calls)' = (Unserved(calls) \ {n}) \cup
            (IF call.kind = "challenge" /\ call.answer = NoAnswer THEN {n} ELSE {})
  <2>1. ChallengeTypeOK /\ CallShape /\ clock' \in Nat /\ clock <= clock'
    BY <1>1 DEF WebInv
  <2>2. LiveCall(call, clock', accepted')
    BY <1>1
  <2> QED BY <1>3, <1>4, <2>1, <2>2, SlotKeeps
<1>6. n \notin Unserved(calls)
  BY <1>3 DEF Unserved
<1> HIDE DEF Unserved
<1> QED BY <1>5, <1>6

\* The buttons and fields of the pages.
LEMMA ButtonStep ==
    ASSUME WebInv,
           \/ \E a \in Accounts : EditAccount(a)
           \/ Submit \/ ConfirmSignature \/ CheckHealth \/ RefreshState
    PROVE  WebInv'
<1>0. /\ ChallengeTypeOK /\ clock \in Nat /\ CallShape /\ PostsCounted /\ login \in LoginPage
      /\ login.challenge <= clock /\ (page = "/login" => login.account \in Accounts)
      /\ login.challenge \in Nat /\ login.from \in Protected /\ "/" \in Protected
  BY DEF WebInv, ChallengeTypeOK, PageShape, LoginPage, Protected
<1>1. ASSUME NEW a \in Accounts, EditAccount(a)
      PROVE  WebInv'
  <2>1. /\ UNCHANGED <<challengeVars, sessionVars, page, strays>> /\ page = "/login"
        /\ UNCHANGED <<loading, calls, wanted>> /\ login' = [login EXCEPT !.account = a]
        /\ UNCHANGED <<clock, issued, accepted>>
    BY <1>1 DEF EditAccount, challengeVars
  <2>2. login' \in LoginPage /\ login'.account = a /\ login'.challenge = login.challenge
    BY <1>0, <2>1 DEF LoginPage
  <2>3. PageShape' /\ CallShape' /\ PostsCounted'
    BY <2>1, <2>2 DEF WebInv, PageShape, CallShape, PostsCounted
  <2> QED BY <2>1, <2>3, LocalStep
<1>2. ASSUME Submit
      PROVE  WebInv'
  <2>1. /\ UNCHANGED <<challengeVars, sessionVars, page, strays>> /\ page = "/login"
        /\ UNCHANGED <<loading>> /\ login' = [login EXCEPT !.requesting = TRUE]
        /\ wanted' = wanted + 1 /\ UNCHANGED <<clock, issued, accepted>>
        /\ Begin(NewCall("challenge", login.account, 0, "/"))
    BY <1>2 DEF Submit, challengeVars
  <2>2. LiveCall(NewCall("challenge", login.account, 0, "/"), clock, accepted)
    <3>1. 0 \in Nat /\ 0 <= clock
      BY <1>0
    <3> QED BY <1>0, <2>1, <3>1, NewCallLive
  <2>3. CallShape' /\ \E n : Unserved(calls)' \subseteq Unserved(calls) \cup {n}
    BY <2>1, <2>2, BeginKeeps
  <2>4. login' \in LoginPage /\ login'.account = login.account /\ login'.challenge = login.challenge
    BY <1>0, <2>1 DEF LoginPage
  <2>5. PageShape'
    BY <2>1, <2>4 DEF WebInv, PageShape
  <2>6. PostsCounted'
    <3>1. PICK n : Unserved(calls)' \subseteq Unserved(calls) \cup {n}
      BY <2>3
    <3> DEFINE before == Unserved(calls)
               after == Unserved(calls')
    <3>2. /\ IsFiniteSet(before) /\ Cardinality(before) \in Nat /\ Cardinality(after) \in Nat
          /\ after \in SUBSET (before \cup {n})
      BY <3>1, UnservedFinite
    <3>3. Len(issued) + Cardinality(before) <= wanted /\ wanted \in Nat /\ Len(issued) \in Nat
      BY <1>0 DEF PostsCounted, ChallengeTypeOK
    <3>4. PostsCounted' <=> wanted' \in Nat /\ Len(issued)' + Cardinality(after) <= wanted'
      BY DEF PostsCounted
    <3> HIDE DEF before, after
    <3>5. IsFiniteSet(before \cup {n}) /\ Cardinality(before \cup {n}) <= Cardinality(before) + 1
          /\ Cardinality(before \cup {n}) \in Nat
      BY <3>2, FS_AddElement
    <3>6. Cardinality(after) <= Cardinality(before \cup {n})
      BY <3>2, <3>5, FS_Subset
    <3>7. Len(issued) + Cardinality(after) <= wanted + 1
      BY <3>2, <3>3, <3>5, <3>6
    <3> QED BY <2>1, <3>3, <3>4, <3>7
  <2> QED BY <2>1, <2>3, <2>5, <2>6, LocalStep
<1>3. ASSUME ConfirmSignature
      PROVE  WebInv'
  <2> DEFINE c == NewCall("confirm", login.account, login.challenge, login.from)
  <2>1. /\ UNCHANGED <<challengeVars, sessionVars, page, strays>> /\ page = "/login"
        /\ UNCHANGED <<loading, wanted>> /\ login' = [login EXCEPT !.confirming = TRUE]
        /\ UNCHANGED <<clock, issued, accepted>> /\ Begin(c)
    BY <1>3 DEF ConfirmSignature, challengeVars
  <2>2. LiveCall(c, clock, accepted) /\ c.kind = "confirm"
    BY <1>0, <2>1, NewCallLive
  <2> HIDE DEF c
  <2>3. CallShape' /\ Unserved(calls)' = Unserved(calls)
    BY <2>1, <2>2, BeginKeeps
  <2>4. login' \in LoginPage /\ login'.account = login.account /\ login'.challenge = login.challenge
    BY <1>0, <2>1 DEF LoginPage
  <2>5. PageShape'
    BY <2>1, <2>4 DEF WebInv, PageShape
  <2>6. PostsCounted'
    BY <1>0, <2>1, <2>3, CountKept
  <2> QED BY <2>1, <2>3, <2>5, <2>6, LocalStep
<1>4. ASSUME CheckHealth
      PROVE  WebInv'
  <2> DEFINE c == NewCall("health", "none", 0, "/")
  <2>1. /\ UNCHANGED <<challengeVars, sessionVars, page, strays>> /\ page = "/"
        /\ UNCHANGED <<loading, wanted, login>>
        /\ UNCHANGED <<clock, issued, accepted>> /\ Begin(c)
    BY <1>4 DEF CheckHealth, challengeVars, pageVars
  <2>2. LiveCall(c, clock, accepted) /\ c.kind = "health"
    <3>1. 0 \in Nat /\ 0 <= clock
      BY <1>0
    <3> QED BY <1>0, <2>1, <3>1, NewCallLive
  <2> HIDE DEF c
  <2>3. CallShape' /\ Unserved(calls)' = Unserved(calls)
    BY <2>1, <2>2, BeginKeeps
  <2>4. PageShape'
    BY <2>1 DEF WebInv, PageShape
  <2>5. PostsCounted'
    BY <1>0, <2>1, <2>3, CountKept
  <2> QED BY <2>1, <2>3, <2>4, <2>5, LocalStep
<1>5. ASSUME RefreshState
      PROVE  WebInv'
  <2>1. /\ UNCHANGED <<challengeVars, sessionVars, page, strays>> /\ page = "/state"
        /\ UNCHANGED <<wanted, login>> /\ loading' = TRUE
        /\ UNCHANGED <<clock, issued, accepted>> /\ Begin(Load)
    BY <1>5 DEF RefreshState, challengeVars
  <2>2. CallShape' /\ Unserved(calls)' = Unserved(calls)
    BY <1>0, <2>1, LoadLive, BeginKeeps
  <2>3. PageShape'
    BY <2>1 DEF WebInv, PageShape
  <2>4. PostsCounted'
    BY <1>0, <2>1, <2>2, CountKept
  <2> QED BY <2>1, <2>2, <2>3, <2>4, LocalStep
<1> QED BY <1>1, <1>2, <1>3, <1>4, <1>5

\* The server takes a POST or lets a challenge expire.
LEMMA ServerStep ==
    ASSUME WebInv,
           \/ \E i \in Slots : ServeChallenge(i) \/ ServeConfirm(i)
           \/ ChallengeExpires
    PROVE  WebInv'
<1>0. ChallengeTypeOK /\ clock \in Nat /\ CallShape /\ PostsCounted /\ Len(issued) \in Nat
  BY DEF WebInv, ChallengeTypeOK
\* What remains to be shown once the server's state and the calls fit.
<1>1. ASSUME ChallengeTypeOK', clock <= clock', HistoryGrows, CallShape', PostsCounted',
             UNCHANGED <<sessionVars, pageVars, strays>>, page # "closed" \/ UNCHANGED calls
      PROVE  WebInv'
  <2>1. SessionShape' /\ StorageAgrees' /\ strays' \subseteq Protected
    BY <1>1 DEF WebInv, sessionVars, pageVars, SessionShape, StorageAgrees
  <2>2. PageShape'
    <3>1. UNCHANGED <<page, login, loading>> /\ clock' \in Nat
      BY <1>1 DEF pageVars, ChallengeTypeOK
    <3>2. login.challenge \in Nat /\ login.challenge <= clock
      BY DEF WebInv, PageShape, LoginPage
    <3>3. login.challenge <= clock'
      BY <1>0, <1>1, <3>1, <3>2
    <3> QED BY <3>1, <3>3 DEF WebInv, PageShape
  <2>3. SessionAuthorised'
    <3>1. UNCHANGED <<session, stored>>
      BY <1>1 DEF sessionVars
    <3>2. \A s \in {session, stored} \ {NoSession} : Authorised(s.account, accepted')
      BY <1>1, SessionsFit DEF HistoryGrows
    <3> QED BY <3>1, <3>2 DEF SessionAuthorised, Authorised
  <2>4. ClosedIsQuiet'
    BY <1>1 DEF WebInv, ClosedIsQuiet, pageVars, sessionVars
  <2> QED BY <1>1, <2>1, <2>2, <2>3, <2>4 DEF WebInv
<1>2. ASSUME NEW i \in Slots, ServeChallenge(i)
      PROVE  WebInv'
  <2>1. PICK id \in 1 .. MaxIssued :
           /\ Issue(calls[i].account, id)
           /\ calls' = [calls EXCEPT ![i].answer = Answer(200, TRUE, "absent", "absent"), ![i].id = id]
    BY <1>2 DEF ServeChallenge
  <2>2. /\ calls[i].kind = "challenge" /\ calls[i].answer = NoAnswer
        /\ UNCHANGED <<sessionVars, pageVars, strays, wanted>>
    BY <1>2 DEF ServeChallenge
  <2>3. LiveCall(calls[i], clock, accepted)
    BY <1>0, <2>2 DEF CallShape, Free
  <2>4. calls[i] \in OpenCall /\ calls[i].account \in Accounts
    BY <2>2, <2>3 DEF LiveCall, PostOnce
  <2>5. id \in Nat /\ id \in 1 .. clock + 1 /\ issued' = Append(issued, [id |-> id, account |-> calls[i].account])
    BY <2>1, ChallengeBounds DEF Issue
  <2>6. ChallengeTypeOK' /\ clock <= clock' /\ HistoryGrows
    BY <1>0, <2>1, <2>4, <2>5, ServerKeeps
  <2>7. id <= clock' /\ clock' \in Nat
    BY <1>0, <2>1, <2>5, <2>6 DEF Issue, ChallengeTypeOK
  <2> DEFINE yes == Granted
             x == [calls[i] EXCEPT !.answer = yes, !.id = id]
  <2>8. yes \in AnswerRecord /\ yes # NoAnswer
    <3>1. yes \in AnswerRecord /\ yes.status = 200
      BY AnswerFields
    <3> HIDE DEF yes
    <3> QED BY <3>1, NoAnswerFails
  <2> HIDE DEF yes
  <2>9. calls' = [calls EXCEPT ![i] = x]
    BY <2>1, <2>4 DEF yes, CallShape, Granted
  <2>10. /\ x.kind = "challenge" /\ x.id = id /\ x.answer = yes /\ x.call = calls[i].call
         /\ x.account = calls[i].account
    BY <2>2, <2>4 DEF OpenCall
  <2>11. x \in OpenCall
    BY <2>4, <2>5, <2>8 DEF OpenCall
  <2> HIDE DEF x
  <2>12. LiveCall(x, clock', accepted')
    BY <2>3, <2>7, <2>10, <2>11, <2>2 DEF LiveCall, PostOnce, ConfirmationBacked
  <2>13. CallShape' /\ Unserved(calls)' = Unserved(calls) \ {i}
    <3>1. ~(x.kind = "challenge" /\ x.answer = NoAnswer)
      BY <2>8, <2>10
    <3> QED BY <1>0, <2>6, <2>7, <2>9, <2>12, <3>1, SlotKeeps
  <2>14. PostsCounted'
    <3> DEFINE before == Unserved(calls)
               after == Unserved(calls')
    <3>1. i \in before /\ after = before \ {i} /\ IsFiniteSet(before) /\ Cardinality(before) \in Nat
      BY <2>2, <2>13, UnservedFinite DEF Unserved
    <3>2. Len(issued) + Cardinality(before) <= wanted /\ wanted \in Nat /\ wanted' = wanted
      BY <1>0, <2>2 DEF PostsCounted
    <3>3. Len(issued)' = Len(issued) + 1
      BY <2>5, <1>0 DEF ChallengeTypeOK
    <3>4. PostsCounted' <=> wanted' \in Nat /\ Len(issued)' + Cardinality(after) <= wanted'
      BY DEF PostsCounted
    <3> HIDE DEF before, after
    <3>5. Cardinality(after) = Cardinality(before) - 1
      BY <3>1, FS_RemoveElement
    <3> QED BY <1>0, <3>1, <3>2, <3>3, <3>4, <3>5
  <2>15. page # "closed"
    BY <2>2 DEF WebInv, ClosedIsQuiet, Free
  <2> QED BY <1>1, <2>2, <2>6, <2>13, <2>14, <2>15
<1>3. ASSUME NEW i \in Slots, ServeConfirm(i)
      PROVE  WebInv'
  <2> DEFINE ok == Verdict(calls[i].account, calls[i].id) = "ok"
             a == IF ok THEN Granted
                  ELSE Refusal(calls[i].account, calls[i].id)
             x == [calls[i] EXCEPT !.answer = a]
  <2>1. /\ calls[i].kind = "confirm" /\ Confirm(calls[i].account, calls[i].id)
        /\ calls' = [calls EXCEPT ![i].answer = a]
        /\ UNCHANGED <<sessionVars, pageVars, strays, wanted>>
    BY <1>3 DEF ServeConfirm, Granted
  <2>2. LiveCall(calls[i], clock, accepted)
    BY <1>0, <2>1 DEF CallShape, Free
  <2>3. calls[i] \in OpenCall /\ calls[i].account \in Accounts /\ calls[i].id \in Nat
    BY <2>1, <2>2 DEF LiveCall, PostOnce, OpenCall
  <2>4. ChallengeTypeOK' /\ clock <= clock' /\ HistoryGrows /\ clock' = clock /\ issued' = issued
    BY <1>0, <2>1, <2>3, ServerKeeps DEF Confirm
  <2>5. a \in AnswerRecord /\ (Succeeded(a) => ok)
    <3>1. CASE ok
      <4>1. a \in AnswerRecord
        BY <3>1, AnswerFields
      <4> QED BY <3>1, <4>1
    <3>2. CASE ~ok
      <4>1. a \in Refusals
        BY <3>2 DEF Refusal, Refusals
      <4> HIDE DEF a
      <4>3. a.status \in 400 .. 599
        BY <4>1, AnswerFields
      <4>4. a \in AnswerRecord
        BY <4>1, AnswerFields
      <4> QED BY <4>3, <4>4 DEF Succeeded
    <3> QED BY <3>1, <3>2
  <2>6. ok => Authorised(calls[i].account, accepted')
    <3> DEFINE e == [id |-> calls[i].id, account |-> calls[i].account]
    <3> SUFFICES ASSUME ok PROVE Authorised(calls[i].account, accepted')
      OBVIOUS
    <3>1. accepted' = Append(accepted, e)
      BY <2>1 DEF Confirm
    <3>2. e \in [id : Nat, account : Accounts] /\ accepted \in Seq([id : Nat, account : Accounts])
      BY <1>0, <2>3 DEF ChallengeTypeOK
    <3>3. e.account = calls[i].account
      OBVIOUS
    <3> HIDE DEF e
    <3>4. /\ Len(accepted) + 1 \in DOMAIN accepted' /\ accepted'[Len(accepted) + 1] = e
      BY <3>1, <3>2, AppendProperties
    <3> QED BY <3>3, <3>4 DEF Authorised
  <2>7. calls' = [calls EXCEPT ![i] = x]
    BY <2>1, <2>3 DEF CallShape
  <2> HIDE DEF a, ok
  <2>8. /\ x.kind = "confirm" /\ x.id = calls[i].id /\ x.answer = a /\ x.call = calls[i].call
        /\ x.account = calls[i].account
    BY <2>1, <2>3 DEF OpenCall
  <2>9. x \in OpenCall
    BY <2>3, <2>5 DEF OpenCall
  <2> HIDE DEF x
  <2>10. LiveCall(x, clock', accepted')
    BY <2>1, <2>2, <2>4, <2>5, <2>6, <2>8, <2>9 DEF LiveCall, PostOnce, ConfirmationBacked
  <2>11. CallShape' /\ Unserved(calls)' = Unserved(calls) \ {i}
    BY <1>0, <2>4, <2>7, <2>8, <2>10, SlotKeeps
  <2>12. PostsCounted'
    BY <1>0, <2>1, <2>4, <2>11, CountKept
  <2>13. page # "closed"
    BY <2>1 DEF WebInv, ClosedIsQuiet, Free
  <2> QED BY <1>1, <2>1, <2>4, <2>11, <2>12, <2>13
<1>4. ASSUME ChallengeExpires
      PROVE  WebInv'
  <2>1. Expire /\ UNCHANGED <<sessionVars, pageVars, calls, strays, wanted>> /\ issued' = issued
    BY <1>4 DEF ChallengeExpires, Expire
  <2>2. ChallengeTypeOK' /\ clock <= clock' /\ HistoryGrows
    BY <1>0, <2>1, ServerKeeps
  <2>3. CallShape'
    BY <1>0, <2>1, <2>2, LiveKept DEF CallShape, ChallengeTypeOK
  <2>4. PostsCounted'
    BY <1>0, <2>1 DEF PostsCounted
  <2> QED BY <1>1, <2>1, <2>2, <2>3, <2>4
<1> QED BY <1>2, <1>3, <1>4

\* A fetch that ends: the call goes on only where it may be tried again, and a
\* confirmation that returned was accepted by the server.
LEMMA FetchEnds ==
    ASSUME WebInv, NEW i \in Slots, Hear(i) \/ Abort(i)
    PROVE  \E c : /\ Handle(i, c)
                  /\ page # "closed" /\ LiveCall(calls[i], clock, accepted)
                  /\ ~Over(c) => LiveCall([calls[i] EXCEPT !.call = c], clock, accepted)
                  /\ calls[i].kind = "confirm" /\ c.at = "returned" =>
                        Authorised(calls[i].account, accepted)
<1> DEFINE call == calls[i].call
<1>1. calls[i].kind # "free" /\ call.at = "fetching"
  BY DEF Hear, Abort, Waiting
<1>2. LiveCall(calls[i], clock, accepted) /\ calls[i] \in OpenCall
  BY <1>1 DEF WebInv, CallShape, Free, LiveCall
<1>3. page # "closed"
  BY <1>1 DEF WebInv, ClosedIsQuiet, Free
<1>4. call \in Call /\ LifecycleFits(call)
  BY <1>2 DEF LiveCall, OpenCall
<1>5. ASSUME NEW c, ~Over(c), c \in Call, c.at = "sleeping", LifecycleFits(c), call.maxRetries # 0
      PROVE  LiveCall([calls[i] EXCEPT !.call = c], clock, accepted)
  <2> DEFINE x == [calls[i] EXCEPT !.call = c]
  <2>1. x \in OpenCall
    BY <1>2, <1>5 DEF OpenCall
  <2>2. /\ x.kind = calls[i].kind /\ x.id = calls[i].id /\ x.answer = calls[i].answer
        /\ x.call = c /\ x.account = calls[i].account
    BY <1>2 DEF OpenCall
  <2>3. calls[i].kind \notin {"challenge", "confirm"}
    BY <1>2, <1>5 DEF LiveCall, PostOnce
  <2> HIDE DEF x
  <2>4. LiveCall(x, clock, accepted)
    BY <1>2, <1>5, <2>1, <2>2, <2>3 DEF LiveCall, PostOnce, ConfirmationBacked
  <2> QED BY <2>4 DEF x
<1>6. CASE Hear(i)
  <2>1. PICK a \in Replies(i) : Handle(i, Answered(call, a))
    BY <1>6 DEF Hear
  <2>2. a \in AnswerRecord /\ (calls[i].kind = "confirm" /\ Succeeded(a) => Succeeded(calls[i].answer))
    <3>1. CASE a \in Gate
      <4>1. a \in AnswerRecord /\ a.status \in 400 .. 599
        BY <3>1, AnswerFields
      <4> QED BY <4>1 DEF Succeeded
    <3>2. CASE a \notin Gate /\ calls[i].kind \in {"challenge", "confirm"}
      <4>1. a = calls[i].answer \/ a = [calls[i].answer EXCEPT !.body = FALSE]
        BY <2>1, <3>2 DEF Replies
      <4>2. calls[i].answer \in AnswerRecord
        BY <1>2 DEF OpenCall
      <4>3. CASE a = calls[i].answer
        BY <4>2, <4>3
      <4>4. CASE a = [calls[i].answer EXCEPT !.body = FALSE]
        <5>1. a \in AnswerRecord /\ a.body = FALSE
          BY <4>2, <4>4 DEF AnswerRecord
        <5> QED BY <5>1 DEF Succeeded
      <4> QED BY <4>1, <4>3, <4>4
    <3>3. CASE a \notin Gate /\ calls[i].kind \notin {"challenge", "confirm"}
      <4>1. a \in PageAnswers
        BY <2>1, <3>3 DEF Replies, PageAnswers
      <4>2. a \in AnswerRecord
        BY <4>1, AnswerFields
      <4> QED BY <3>3, <4>2
    <3> QED BY <3>1, <3>2, <3>3
  <2> DEFINE c == Answered(call, a)
  <2>3. /\ c.at = "returned" => Succeeded(a)
        /\ ~Over(c) => c \in Call /\ c.at = "sleeping" /\ LifecycleFits(c) /\ call.maxRetries # 0
    BY <1>1, <1>4, <2>2, AnswerRead
  <2> HIDE DEF c, call
  <2>4. ~Over(c) => LiveCall([calls[i] EXCEPT !.call = c], clock, accepted)
    BY <1>5, <2>3
  <2>5. calls[i].kind = "confirm" /\ c.at = "returned" => Authorised(calls[i].account, accepted)
    BY <1>2, <2>2, <2>3 DEF LiveCall, ConfirmationBacked
  <2>6. Handle(i, c)
    BY <2>1 DEF c
  <2> QED BY <1>2, <1>3, <2>4, <2>5, <2>6
<1>7. CASE Abort(i)
  <2>1. PICK code \in Aborts : Handle(i, Threw(call, code))
    BY <1>7 DEF Abort
  <2> DEFINE c == Threw(call, code)
  <2>2. /\ c.at # "returned"
        /\ ~Over(c) => c \in Call /\ c.at = "sleeping" /\ LifecycleFits(c) /\ call.maxRetries # 0
    BY <1>1, <1>4, AttemptEnds DEF Threw
  <2> HIDE DEF c, call
  <2>3. ~Over(c) => LiveCall([calls[i] EXCEPT !.call = c], clock, accepted)
    BY <1>5, <2>2
  <2>4. Handle(i, c)
    BY <2>1 DEF c
  <2> QED BY <1>2, <1>3, <2>2, <2>3, <2>4
<1> QED BY <1>6, <1>7

\* What remains of the calls when one is over.
LEMMA WithoutOK ==
    ASSUME WebInv, NEW i \in Slots
    PROVE  /\ Without(i) \in [Slots -> OpenCall \cup {Free}]
           /\ \A j \in Slots : Without(i)[j] = Free \/ LiveCall(Without(i)[j], clock, accepted)
           /\ Unserved(Without(i)) \subseteq Unserved(calls)
<1>1. Without(i)[i] = Free /\ \A j \in Slots \ {i} : Without(i)[j] = calls[j]
  BY DEF Without, WebInv, CallShape
<1>2. Without(i) \in [Slots -> OpenCall \cup {Free}]
  BY DEF Without, WebInv, CallShape
<1>3. \A j \in Slots : Without(i)[j] = Free \/ LiveCall(Without(i)[j], clock, accepted)
  BY <1>1 DEF WebInv, CallShape
<1>4. Unserved(Without(i)) \subseteq Unserved(calls)
  BY <1>1 DEF Unserved, Free
<1> QED BY <1>2, <1>3, <1>4

\* A call that is over, or waits for its next attempt, and one that wakes.
LEMMA CallStep ==
    ASSUME WebInv, NEW i \in Slots, Hear(i) \/ Abort(i) \/ Wake(i)
    PROVE  WebInv'
<1>0. /\ ChallengeTypeOK /\ clock \in Nat /\ CallShape /\ PostsCounted /\ login \in LoginPage
      /\ login.challenge <= clock /\ (page = "/login" => login.account \in Accounts)
      /\ login.challenge \in Nat /\ page \in Pages \cup {"closed"} /\ strays \subseteq Protected
      /\ "/state" \in Protected
  BY DEF WebInv, ChallengeTypeOK, PageShape, LoginPage, Protected
\* A step that only changes this slot.
<1>1. ASSUME NEW STATE x, x = Free \/ LiveCall(x, clock, accepted), x.kind = "free" \/ x.kind # "challenge",
             calls' = [calls EXCEPT ![i] = x], UNCHANGED <<challengeVars, issued, wanted, clock, accepted>>
      PROVE  CallShape' /\ PostsCounted'
  <2>1. HistoryGrows /\ clock' \in Nat /\ clock <= clock'
    BY <1>0, <1>1 DEF HistoryGrows
  <2>2. x = Free \/ LiveCall(x, clock', accepted')
    BY <1>1
  <2>3. CallShape' /\ Unserved(calls)' = Unserved(calls) \ {i}
    BY <1>0, <1>1, <2>1, <2>2, SlotKeeps
  <2>4. PostsCounted'
    BY <1>0, <1>1, <2>3, CountKept
  <2> QED BY <2>3, <2>4
<1>2. CASE Wake(i)
  <2> DEFINE x == [calls[i] EXCEPT !.call = Fetching(calls[i].call), !.answer = NoAnswer]
  <2>1. /\ calls[i].kind # "free" /\ calls[i].call.at = "sleeping"
        /\ calls' = [calls EXCEPT ![i].call = Fetching(@), ![i].answer = NoAnswer]
        /\ UNCHANGED <<challengeVars, sessionVars, pageVars, strays, wanted>>
    BY <1>2 DEF Wake
  <2>2. LiveCall(calls[i], clock, accepted) /\ calls[i] \in OpenCall /\ calls[i].call \in Call
    BY <1>0, <2>1 DEF CallShape, Free, LiveCall, OpenCall
  <2>3. page # "closed"
    BY <2>1 DEF WebInv, ClosedIsQuiet, Free
  <2>4. calls[i].kind \notin {"challenge", "confirm"}
    BY <2>1, <2>2 DEF LiveCall, PostOnce
  <2> DEFINE f == Fetching(calls[i].call)
  <2>5. f \in Call /\ f.at = "fetching" /\ LifecycleFits(f)
    BY <2>1, <2>2, FetchAgain DEF LiveCall
  <2>6. calls' = [calls EXCEPT ![i] = x]
    BY <1>0, <2>1, <2>2 DEF CallShape
  <2> HIDE DEF f
  <2>7. x = [calls[i] EXCEPT !.call = f, !.answer = NoAnswer]
    BY DEF f
  <2> HIDE DEF x
  <2>8. x \in OpenCall
    BY <2>2, <2>5, <2>7, NoAnswerFails DEF OpenCall
  <2>9. /\ x.kind = calls[i].kind /\ x.id = calls[i].id /\ x.call = f
        /\ x.account = calls[i].account
    BY <2>2, <2>7 DEF OpenCall
  <2>10. LiveCall(x, clock, accepted)
    BY <2>2, <2>4, <2>5, <2>8, <2>9 DEF LiveCall, PostOnce, ConfirmationBacked, Over
  <2>11. UNCHANGED <<clock, issued, accepted, page, login, loading>>
    BY <2>1 DEF challengeVars, pageVars
  <2>12. CallShape' /\ PostsCounted'
    BY <1>1, <2>1, <2>4, <2>6, <2>9, <2>10, <2>11
  <2>13. PageShape'
    BY <2>11 DEF WebInv, PageShape
  <2> QED BY <2>1, <2>3, <2>11, <2>12, <2>13, LocalStep
<1>3. CASE Hear(i) \/ Abort(i)
  <2>1. PICK c : /\ Handle(i, c)
                 /\ page # "closed" /\ LiveCall(calls[i], clock, accepted)
                 /\ ~Over(c) => LiveCall([calls[i] EXCEPT !.call = c], clock, accepted)
                 /\ calls[i].kind = "confirm" /\ c.at = "returned" =>
                        Authorised(calls[i].account, accepted)
    BY <1>3, FetchEnds
  <2>2. page \in Pages /\ calls[i] \in OpenCall /\ calls[i].from \in Protected /\ calls[i].id \in Nat
        /\ calls[i].id <= clock
    BY <1>0, <2>1 DEF LiveCall, OpenCall
  <2>3. stored = session
    BY <2>1 DEF WebInv, StorageAgrees
  <2>4. CASE Pause(i, c)
    <3> DEFINE x == [calls[i] EXCEPT !.call = c]
    <3>1. /\ ~Over(c) /\ calls' = [calls EXCEPT ![i].call = c]
          /\ UNCHANGED <<challengeVars, sessionVars, pageVars, strays, wanted>>
      BY <2>4 DEF Pause
    <3>2. UNCHANGED <<clock, issued, accepted, page, login, loading>>
      BY <3>1 DEF challengeVars, pageVars
    <3>3. calls' = [calls EXCEPT ![i] = x]
      BY <1>0, <3>1 DEF CallShape
    <3>4. LiveCall(x, clock, accepted)
      BY <2>1, <3>1
    <3>5. x.kind = calls[i].kind /\ x.call = c
      BY <2>2 DEF OpenCall
    <3> HIDE DEF x
    <3>6. x.kind # "challenge" \/ x.answer # NoAnswer \/ c.at = "fetching"
      BY <3>4, <3>5 DEF LiveCall, PostOnce
    <3>7. HistoryGrows /\ clock' \in Nat /\ clock <= clock' /\ LiveCall(x, clock', accepted')
      BY <1>0, <3>2, <3>4 DEF HistoryGrows
    <3>8. CallShape'
      BY <1>0, <3>3, <3>7, SlotKeeps
    <3>9. Unserved(calls)' \subseteq Unserved(calls)
      <4>1. x.answer = calls[i].answer
        BY <2>2 DEF x, OpenCall
      <4>2. calls'[i] = x /\ \A j \in Slots \ {i} : calls'[j] = calls[j]
        BY <1>0, <3>3 DEF CallShape
      <4> QED BY <3>5, <4>1, <4>2 DEF Unserved
    <3>10. PostsCounted'
      BY <1>0, <3>1, <3>2, <3>9, CountKept
    <3>11. PageShape'
      BY <3>2 DEF WebInv, PageShape
    <3> QED BY <2>1, <3>1, <3>2, <3>8, <3>10, <3>11, LocalStep
  <2>5. CASE GotChallenge(i, c)
    <3> DEFINE after == [login EXCEPT !.requesting = FALSE,
                            !.challenge = IF c.at = "returned" THEN calls[i].id ELSE login.challenge,
                            !.success = login.success /\ c.at # "returned"]
               l == IF calls[i].mine THEN after ELSE login
    <3>1. /\ Render(page, l, session, Without(i), TRUE)
          /\ UNCHANGED <<challengeVars, stored, strays, wanted>>
      BY <1>0, <2>5 DEF GotChallenge, LoginPage
    <3>2. after \in LoginPage /\ after.challenge <= clock /\ after.account = login.account
      <4> DEFINE id == IF c.at = "returned" THEN calls[i].id ELSE login.challenge
                 success == (login.success /\ c.at # "returned")
      <4>1. id \in Nat /\ id <= clock /\ success \in BOOLEAN
        BY <1>0, <2>2
      <4> HIDE DEF id, success
      <4>2. after = [login EXCEPT !.requesting = FALSE, !.challenge = id, !.success = success]
        BY DEF id, success
      <4> HIDE DEF after
      <4>3. after.challenge = id /\ after.account = login.account
        BY <1>0, <4>2 DEF LoginPage
      <4>4. after \in LoginPage
        BY <1>0, <4>1, <4>2 DEF LoginPage
      <4> QED BY <4>1, <4>3, <4>4
    <3> HIDE DEF after
    <3>3. l \in LoginPage /\ l.challenge <= clock /\ (page = "/login" => l.account \in Accounts)
      BY <1>0, <3>2
    <3> HIDE DEF l
    <3> QED BY <1>0, <2>2, <2>3, <3>1, <3>3, SessionsFit, WithoutOK, RenderStep
  <2>6. CASE GotConfirmation(i, c)
    <3> DEFINE s == [account |-> calls[i].account, expired |-> FALSE]
    <3>1. /\ calls[i].kind = "confirm" /\ c.at = "returned" /\ stored' = s
          /\ UNCHANGED <<challengeVars, wanted>>
      BY <2>6 DEF GotConfirmation, SignedInAs
    <3>2. s \in Session /\ Authorised(s.account, accepted)
      BY <2>1, <3>1 DEF LiveCall, PostOnce, Session
    <3>3. CASE calls[i].mine
      <4>1. Render(page, SignedIn(i), s, Without(i), TRUE) /\ strays' = strays
        BY <2>6, <3>3 DEF GotConfirmation, SignedInAs
      <4>2. SignedIn(i) \in LoginPage /\ SignedIn(i).challenge = login.challenge
            /\ SignedIn(i).account = login.account
        BY <1>0 DEF SignedIn, LoginPage
      <4> HIDE DEF s
      <4> QED BY <1>0, <2>2, <3>1, <3>2, <4>1, <4>2, WithoutOK, RenderStep
    <3>4. CASE ~calls[i].mine /\ page # "/state"
      <4>1. Render(page, login, s, Without(i), TRUE) /\ strays' = strays \cup {calls[i].from}
        BY <2>6, <3>4 DEF GotConfirmation, SignedInAs
      <4> HIDE DEF s
      <4> QED BY <1>0, <2>2, <3>1, <3>2, <4>1, WithoutOK, RenderStep
    <3>5. CASE ~calls[i].mine /\ page = "/state"
      <4>1. /\ strays' = strays \cup {calls[i].from} /\ session' = s /\ loading' = TRUE
            /\ calls' = [calls EXCEPT ![i] = Load] /\ UNCHANGED <<page, login>>
        BY <2>6, <3>5 DEF GotConfirmation, SignedInAs
      <4> HIDE DEF s
      <4>2. UNCHANGED <<challenges, clock, issued, accepted>>
        BY <3>1 DEF challengeVars
      <4>3. CallShape' /\ PostsCounted'
        BY <1>0, <1>1, <3>1, <4>1, <4>2, LoadLive
      <4>4. ChallengeTypeOK' /\ SessionShape' /\ StorageAgrees' /\ strays' \subseteq Protected
        BY <1>0, <2>2, <3>1, <3>2, <4>1, <4>2 DEF ChallengeTypeOK, SessionShape, StorageAgrees
      <4>5. PageShape'
        BY <3>5, <4>1, <4>2 DEF WebInv, PageShape
      <4>6. SessionAuthorised' /\ ClosedIsQuiet'
        BY <3>1, <3>2, <3>5, <4>1, <4>2 DEF SessionAuthorised, Authorised, ClosedIsQuiet
      <4> QED BY <4>3, <4>4, <4>5, <4>6 DEF WebInv
    <3> QED BY <3>3, <3>4, <3>5
  <2>7. CASE ConfirmationFailed(i, c)
    <3>1. /\ login' = IF calls[i].mine THEN [login EXCEPT !.confirming = FALSE] ELSE login
          /\ calls' = [calls EXCEPT ![i] = Free]
          /\ UNCHANGED <<challengeVars, sessionVars, page, loading, strays, wanted>>
      BY <2>7 DEF ConfirmationFailed, Without
    <3>2. UNCHANGED <<clock, issued, accepted>>
      BY <3>1 DEF challengeVars
    <3>3. CallShape' /\ PostsCounted'
      <4>1. Free = Free /\ Free.kind = "free"
        BY DEF Free
      <4> QED BY <1>1, <3>1, <3>2, <4>1
    <3>4. /\ login' \in LoginPage /\ login'.challenge = login.challenge
          /\ login'.account = login.account /\ (login = NoLogin => login' = NoLogin)
      <4>1. CASE login' = login
        BY <1>0, <4>1
      <4>2. CASE login' = [login EXCEPT !.confirming = FALSE]
        <5>1. [NoLogin EXCEPT !.confirming = FALSE] = NoLogin
          <6>1. NoLogin.confirming = FALSE /\ NoLogin \in LoginPage
            BY DEF NoLogin, LoginPage, Protected
          <6> QED BY <6>1 DEF LoginPage
        <5>2. login' \in LoginPage /\ login'.challenge = login.challenge /\ login'.account = login.account
          BY <1>0, <4>2 DEF LoginPage
        <5> QED BY <4>2, <5>1, <5>2
      <4> QED BY <3>1, <4>1, <4>2
    <3>5. PageShape'
      BY <3>1, <3>2, <3>4 DEF WebInv, PageShape
    <3> QED BY <2>1, <3>1, <3>3, <3>5, LocalStep
  <2>8. CASE GotPage(i, c)
    <3>1. UNCHANGED <<challengeVars, strays, wanted>>
      BY <2>8 DEF GotPage
    <3>2. CASE isSessionInvalidError(c)
      <4>1. stored' = NoSession /\ Render(page, login, NoSession, Without(i), TRUE)
        BY <2>8, <3>2 DEF GotPage
      <4> QED BY <1>0, <2>2, <3>1, <4>1, WithoutOK, RenderStep
    <3>3. CASE ~isSessionInvalidError(c)
      <4>1. /\ loading' = (loading /\ ~(calls[i].mine /\ calls[i].kind = "state"))
            /\ calls' = [calls EXCEPT ![i] = Free] /\ UNCHANGED <<sessionVars, page, login>>
        BY <2>8, <3>3 DEF GotPage, Without
      <4>2. UNCHANGED <<clock, issued, accepted>>
        BY <3>1 DEF challengeVars
      <4>3. CallShape' /\ PostsCounted'
        <5>1. Free = Free /\ Free.kind = "free"
          BY DEF Free
        <5> QED BY <1>1, <3>1, <4>1, <4>2, <5>1
      <4>4. loading' \in BOOLEAN /\ (loading' => loading)
        BY <4>1
      <4>5. PageShape'
        BY <4>1, <4>2, <4>4 DEF WebInv, PageShape
      <4> QED BY <2>1, <3>1, <4>1, <4>3, <4>5, LocalStep
    <3> QED BY <3>2, <3>3
  <2> QED BY <2>1, <2>4, <2>5, <2>6, <2>7, <2>8 DEF Handle
<1> QED BY <1>2, <1>3

\* One step keeps the invariant.
LEMMA WebStep ==
    ASSUME WebInv, [WebNext]_webVars
    PROVE  WebInv'
<1>1. CASE UNCHANGED webVars
  BY <1>1 DEF webVars, challengeVars, sessionVars, pageVars, WebInv, ChallengeTypeOK, SessionShape,
         PageShape, CallShape, ClosedIsQuiet, SessionAuthorised, StorageAgrees, PostsCounted
<1> QED BY <1>1, RoutingStep, TabStep, ButtonStep, ServerStep, CallStep DEF WebNext

\* The first state.
LEMMA WebInitially == WebInit => WebInv
<1> SUFFICES ASSUME WebInit PROVE WebInv
  OBVIOUS
<1>1. ChallengeTypeOK
  BY DEF WebInit, ChallengeInit, ChallengeTypeOK
<1>2. "/" \in Protected
  BY DEF Protected
<1>3. PageShape
  BY <1>1, <1>2, FreshLoginOK DEF WebInit, PageShape, Pages
<1>4. SessionShape /\ StorageAgrees /\ SessionAuthorised /\ ClosedIsQuiet
  BY DEF WebInit, SessionShape, StorageAgrees, SessionAuthorised, ClosedIsQuiet
<1>5. CallShape
  BY DEF WebInit, CallShape
<1>6. PostsCounted
  <2>1. Unserved(calls) = {}
    BY DEF WebInit, Unserved, Free
  <2> HIDE DEF Unserved
  <2> QED BY <2>1, FS_EmptySet DEF WebInit, ChallengeInit, PostsCounted
<1> QED BY <1>1, <1>3, <1>4, <1>5, <1>6 DEF WebInit, WebInv

\* Whoever is signed in, in the page or in what the browser keeps, was accepted
\* by the server for that account: no late, repeated or crossed answer of the
\* sign-in makes a session.
THEOREM SessionsAuthorised == WebSpec => []SessionAuthorised
BY WebInitially, WebStep, WebInvGives, PTL DEF WebSpec

\* While the application is open, what the browser keeps is what it shows.
THEOREM StorageCorrect == WebSpec => []StorageAgrees
BY WebInitially, WebStep, WebInvGives, PTL DEF WebSpec

\* No POST is sent twice, and what a call reports is what happened to it, for
\* every number of retries and of calls under way.
THEOREM RequestsCorrect == WebSpec => []RequestsSafe
BY WebInitially, WebStep, WebInvGives, PTL DEF WebSpec

(***************************************************************************)
(* The event's page.                                                       *)
(***************************************************************************)

Fetch == [target : Nat, mounted : BOOLEAN]

DetailTypeOK ==
    /\ detail \in [target : Nat, route : Nat, event : Nat, loading : BOOLEAN, error : Nat]
    /\ fetches \in SUBSET Fetch

\* What the effect's clean-up gives: a call whose flag still stands is for the
\* event in the address, which the link did not carry along.
OneEffect ==
    \A f \in fetches : f.mounted =>
        Mounted /\ f.target = detail.target /\ detail.route # detail.target

\* Without an event carried along, all of the page's state is about the event
\* in the address.
StateFits ==
    Mounted /\ detail.route # detail.target =>
        /\ detail.event \in {0, detail.target} /\ detail.error \in {0, detail.target}
        /\ detail.route = 0
        /\ detail.loading => [target |-> detail.target, mounted |-> TRUE] \in fetches

DetailInv == DetailTypeOK /\ OneEffect /\ StateFits

\* The invariant gives the page's safety.
LEMMA InvGivesSafe == DetailInv => DetailSafe
BY DEF DetailInv, DetailTypeOK, StateFits, DetailSafe, DetailShowsTarget, DetailWaitsForCall,
       effectiveEvent, Mounted

\* Running the effect, for whatever state the page then has, cleans up the
\* effect before it.
LEMMA EffectKeeps ==
    ASSUME DetailTypeOK, NEW STATE d,
           d \in [target : Nat \ {0}, route : Nat, event : Nat, loading : BOOLEAN, error : Nat],
           d.route \in {0, d.target}, RunEffect(d)
    PROVE  DetailInv'
<1> DEFINE stale == {[f EXCEPT !.mounted = FALSE] : f \in fetches}
<1>1. stale \in SUBSET Fetch /\ \A f \in stale : ~f.mounted
  BY DEF DetailTypeOK, Fetch
<1> HIDE DEF stale
<1>2. CASE d.route = d.target
  <2>1. detail' = d /\ fetches' = stale
    BY <1>2 DEF RunEffect, stale
  <2> QED
    BY <1>1, <1>2, <2>1 DEF DetailInv, DetailTypeOK, OneEffect, StateFits, Mounted
<1>3. CASE d.route # d.target
  <2>1. /\ detail' = [d EXCEPT !.event = 0, !.loading = TRUE, !.error = 0]
        /\ fetches' = stale \cup {[target |-> d.target, mounted |-> TRUE]}
    BY <1>3 DEF RunEffect, stale
  <2>2. detail' = [target |-> d.target, route |-> d.route, event |-> 0,
                   loading |-> TRUE, error |-> 0]
    BY <2>1
  <2>3. [target |-> d.target, mounted |-> TRUE] \in Fetch
    BY DEF Fetch
  <2>4. /\ detail'.target = d.target /\ detail'.route = d.route
        /\ detail'.event = 0 /\ detail'.loading = TRUE /\ detail'.error = 0
    BY <2>2
  <2>5. DetailTypeOK'
    <3>1. detail' \in [target : Nat, route : Nat, event : Nat, loading : BOOLEAN, error : Nat]
      BY <2>2
    <3> QED BY <1>1, <2>1, <2>3, <3>1 DEF DetailTypeOK
  <2>6. OneEffect'
    BY <1>1, <1>3, <2>1, <2>4 DEF OneEffect, Mounted
  <2>7. StateFits'
    BY <1>3, <2>1, <2>4 DEF StateFits, Mounted
  <2> QED BY <2>5, <2>6, <2>7 DEF DetailInv
<1> QED BY <1>2, <1>3

\* One step of the page keeps the invariant.
LEMMA DetailStep ==
    ASSUME DetailInv, [DetailNext]_<<produced, detailVars>>
    PROVE  DetailInv'
<1> USE DEF DetailInv
<1>1. CASE DetailGrows \/ UNCHANGED <<produced, detailVars>>
  BY <1>1 DEF DetailGrows, detailVars, DetailTypeOK, OneEffect, StateFits, Mounted
<1>2. CASE RerunEffect
  <2>1. detail.target # 0 /\ detail.route \in {0, detail.target}
    BY <1>2 DEF RerunEffect, StateFits, Mounted
  <2> QED BY <1>2, <2>1, EffectKeeps DEF RerunEffect, DetailTypeOK
<1>3. CASE LeaveDetail
  BY <1>3 DEF LeaveDetail, NoDetail, DetailTypeOK, OneEffect, StateFits, Mounted
<1>4. ASSUME NEW e \in Events, NEW route \in Events \cup {0}, ShowDetail(e, route)
      PROVE  DetailInv'
  <2> DEFINE d == IF Mounted THEN [detail EXCEPT !.target = e, !.route = route]
                  ELSE [NoDetail EXCEPT !.target = e, !.route = route, !.event = route]
  <2>1. e \in Nat \ {0} /\ route \in {0, e}
    BY <1>4 DEF Events, ShowDetail
  <2>2. /\ d \in [target : Nat \ {0}, route : Nat, event : Nat, loading : BOOLEAN, error : Nat]
        /\ d.route \in {0, d.target}
    <3>0. e \in Nat /\ e # 0 /\ route \in Nat
      BY <2>1
    <3>1. CASE Mounted
      BY <2>1, <3>0, <3>1 DEF DetailTypeOK
    <3>2. CASE ~Mounted
      <4>1. d = [target |-> e, route |-> route, event |-> route, loading |-> FALSE, error |-> 0]
        BY <3>2 DEF NoDetail
      <4> HIDE DEF d
      <4>2. d.target = e /\ d.route = route
        BY <4>1
      <4> QED BY <2>1, <3>0, <4>1, <4>2
    <3> QED BY <3>1, <3>2
  <2>3. RunEffect(d)
    BY <1>4 DEF ShowDetail
  <2> HIDE DEF d
  <2> QED BY <2>2, <2>3, EffectKeeps
<1>5. ASSUME NEW f \in fetches, DetailAnswered(f) \/ DetailFailed(f)
      PROVE  DetailInv'
  <2>1. f \in Fetch /\ fetches' = fetches \ {f}
    BY <1>5 DEF DetailAnswered, DetailFailed, DetailTypeOK
  <2>2. CASE ~f.mounted
    <3>1. detail' = detail
      BY <1>5, <2>2 DEF DetailAnswered, DetailFailed
    <3> QED
      BY <2>1, <2>2, <3>1 DEF DetailTypeOK, OneEffect, StateFits, Mounted
  <2>3. CASE f.mounted
    <3>1. /\ detail' \in {[detail EXCEPT !.loading = FALSE, !.event = f.target],
                          [detail EXCEPT !.loading = FALSE, !.error = f.target]}
          /\ f.target = detail.target /\ f.target \in Nat
      BY <1>5, <2>1, <2>3 DEF DetailAnswered, DetailFailed, OneEffect, Fetch
    <3> QED
      BY <2>1, <3>1 DEF DetailTypeOK, OneEffect, StateFits, Mounted
  <2> QED BY <2>2, <2>3
<1> QED BY <1>1, <1>2, <1>3, <1>4, <1>5 DEF DetailNext

\* EventDetailPage never shows another event than the one in its address, and
\* waits for it only while a call for it is under way.
THEOREM DetailCorrect == DetailSpec => []DetailSafe
<1>1. DetailInit => DetailInv
  BY DEF DetailInit, NoDetail, DetailInv, DetailTypeOK, OneEffect, StateFits, Mounted
<1> QED BY <1>1, DetailStep, InvGivesSafe, PTL DEF DetailSpec

(***************************************************************************)
(* The filtered log.                                                       *)
(***************************************************************************)

\* What one turn of the loop does to what it has kept.
Turn(query, kept, n) == IF Keeps(query, n) THEN Append(kept, n) ELSE kept

\* The loop of filterEvents is what its body says, turn by turn.
LEMMA FilteredUnfolds ==
    ASSUME NEW query
    PROVE  /\ Filtered(query)[0] = <<>>
           /\ \A n \in 1 .. Len(Log) : Filtered(query)[n] = Turn(query, Filtered(query)[n - 1], n)
<1> DEFINE Loop(g, p) == g = [n \in 0 .. p |-> IF n = 0 THEN <<>>
                                     ELSE IF Keeps(query, n) THEN Append(g[n - 1], n) ELSE g[n - 1]]
           Good == {p \in Nat : \E g : Loop(g, p)}
<1>1. Len(Log) \in Nat
  BY LogAssumption
<1>2. 0 \in Good
  <2> DEFINE g == [n \in 0 .. 0 |-> <<>>]
  <2>1. Loop(g, 0)
    OBVIOUS
  <2> HIDE DEF g, Loop
  <2> QED BY <2>1
<1>3. ASSUME NEW m \in 1 .. Len(Log), m - 1 \in Good PROVE m \in Good
  <2>1. PICK g : Loop(g, m - 1)
    BY <1>3
  <2> DEFINE h == [n \in 0 .. m |-> IF n < m THEN g[n]
                                   ELSE IF Keeps(query, n) THEN Append(g[n - 1], n) ELSE g[n - 1]]
  <2>2. ASSUME NEW n \in 0 .. m
        PROVE  h[n] = IF n = 0 THEN <<>>
                      ELSE IF Keeps(query, n) THEN Append(h[n - 1], n) ELSE h[n - 1]
    <3>1. CASE n = 0
      BY <2>1, <3>1
    <3>2. CASE n # 0 /\ n < m
      <4>1. n \in 0 .. m - 1 /\ n - 1 \in 0 .. m /\ n - 1 < m BY <3>2
      <4>2. g[n] = IF Keeps(query, n) THEN Append(g[n - 1], n) ELSE g[n - 1]
        BY <2>1, <3>2, <4>1
      <4>3. h[n] = g[n] /\ h[n - 1] = g[n - 1]
        BY <3>2, <4>1
      <4> QED BY <3>2, <4>2, <4>3
    <3>3. CASE n # 0 /\ n = m
      <4>1. n - 1 \in 0 .. m /\ n - 1 < m BY <3>3
      <4>2. h[n - 1] = g[n - 1] BY <4>1
      <4> QED BY <3>3, <4>2
    <3> QED BY <3>1, <3>2, <3>3
  <2>3. h = [n \in 0 .. m |-> IF n = 0 THEN <<>>
                              ELSE IF Keeps(query, n) THEN Append(h[n - 1], n) ELSE h[n - 1]]
    <3> HIDE DEF Keeps
    <3> QED BY <2>2
  <2> HIDE DEF h
  <2>4. Loop(h, m) BY <2>3
  <2> HIDE DEF Loop
  <2> QED BY <2>4
<1>4. Len(Log) \in Good
  <2> HIDE DEF Good
  <2>1. \A m \in 0 .. Len(Log) : m \in Good
    BY <1>1, <1>2, <1>3, Induction
  <2> QED BY <1>1, <2>1
<1>5. \E g : Loop(g, Len(Log))
  BY <1>4
<1>6. Loop(Filtered(query), Len(Log))
  BY <1>5, Zenon DEF Filtered
<1> DEFINE F == Filtered(query)
<1>7. F = [n \in 0 .. Len(Log) |-> IF n = 0 THEN <<>>
                                   ELSE IF Keeps(query, n) THEN Append(F[n - 1], n) ELSE F[n - 1]]
  BY <1>6
<1> HIDE DEF F
<1>8. F[0] = <<>>
  BY <1>1, <1>7
<1>9. ASSUME NEW n \in 1 .. Len(Log) PROVE F[n] = Turn(query, F[n - 1], n)
  <2>1. n \in 0 .. Len(Log) /\ n # 0
    BY <1>1
  <2>2. F[n] = IF Keeps(query, n) THEN Append(F[n - 1], n) ELSE F[n - 1]
    BY <1>7, <2>1
  <2> QED BY <2>2 DEF Turn
<1> QED BY <1>8, <1>9 DEF F

\* One turn keeps what was kept and adds at most the event it looks at.
LEMMA OneTurn ==
    ASSUME NEW query, NEW n \in 1 .. Len(Log), NEW kept \in Seq(Nat)
    PROVE  LET next == Turn(query, kept, n)
           IN  /\ next \in Seq(Nat) /\ Len(next) \in {Len(kept), Len(kept) + 1}
               /\ \A i \in 1 .. Len(kept) : next[i] = kept[i]
               /\ Len(next) = Len(kept) + 1 => next[Len(next)] = n
<1>1. n \in Nat BY LogAssumption
<1>2. Turn(query, kept, n) = kept \/ Turn(query, kept, n) = Append(kept, n)
  BY DEF Turn
<1>3. CASE Turn(query, kept, n) = kept
  BY <1>3
<1>4. CASE Turn(query, kept, n) = Append(kept, n)
  BY <1>1, <1>4
<1> QED BY <1>2, <1>3, <1>4

\* What the filter keeps of the first n events: some of them, in their order.
Kept(query, n) ==
    /\ Filtered(query)[n] \in Seq(Nat)
    /\ \A i \in 1 .. Len(Filtered(query)[n]) : Filtered(query)[n][i] \in 1 .. n
    /\ \A i, j \in 1 .. Len(Filtered(query)[n]) :
          i < j => Filtered(query)[n][i] < Filtered(query)[n][j]
LEMMA FilterKeeps ==
    ASSUME NEW query
    PROVE  \A n \in 0 .. Len(Log) : Kept(query, n)
<1> DEFINE Good == {n \in Nat : Kept(query, n)}
           F == Filtered(query)
<1>1. Len(Log) \in Nat
  BY LogAssumption
<1>2. 0 \in Good
  <2>1. F[0] = <<>> BY FilteredUnfolds
  <2>2. Kept(query, 0) BY <2>1 DEF Kept
  <2> QED BY <2>2
<1>3. ASSUME NEW m \in 1 .. Len(Log), m - 1 \in Good PROVE m \in Good
  <2>1. m \in Nat /\ Kept(query, m - 1)
    BY <1>3
  <2>2. F[m] = Turn(query, F[m - 1], m)
    BY FilteredUnfolds
  <2>3. /\ F[m - 1] \in Seq(Nat)
        /\ \A i \in 1 .. Len(F[m - 1]) : F[m - 1][i] \in 1 .. m - 1
        /\ \A i, j \in 1 .. Len(F[m - 1]) : i < j => F[m - 1][i] < F[m - 1][j]
    BY <2>1 DEF Kept
  <2> DEFINE k == F[m - 1]
             f == F[m]
  <2>4. /\ k \in Seq(Nat) /\ Len(k) \in Nat
        /\ \A i \in 1 .. Len(k) : k[i] \in 1 .. m - 1
        /\ \A i, j \in 1 .. Len(k) : i < j => k[i] < k[j]
    BY <2>3
  <2>5. f = Turn(query, k, m)
    BY <2>2
  <2> HIDE DEF k, f, F
  <2>6. /\ f \in Seq(Nat) /\ Len(f) \in {Len(k), Len(k) + 1}
        /\ \A i \in 1 .. Len(k) : f[i] = k[i]
        /\ Len(f) = Len(k) + 1 => f[Len(f)] = m
    BY <2>4, <2>5, OneTurn
  <2>7. \A i \in 1 .. Len(f) : i \in 1 .. Len(k) \/ (i = Len(k) + 1 /\ f[i] = m)
    BY <2>4, <2>6
  <2>8. \A i \in 1 .. Len(f) : f[i] \in 1 .. m
    <3>1. SUFFICES ASSUME NEW i \in 1 .. Len(f) PROVE f[i] \in 1 .. m
      OBVIOUS
    <3>2. CASE i \in 1 .. Len(k)
      <4>1. f[i] = k[i] /\ k[i] \in 1 .. m - 1 BY <2>4, <2>6, <3>2
      <4> QED BY <2>1, <4>1
    <3>3. CASE i = Len(k) + 1 /\ f[i] = m
      BY <2>1, <3>3
    <3> QED BY <2>7, <3>2, <3>3
  <2>9. \A i, j \in 1 .. Len(f) : i < j => f[i] < f[j]
    <3>1. SUFFICES ASSUME NEW i \in 1 .. Len(f), NEW j \in 1 .. Len(f), i < j PROVE f[i] < f[j]
      OBVIOUS
    <3>2. i \in 1 .. Len(k)
      BY <2>4, <2>6, <3>1
    <3>3. CASE j \in 1 .. Len(k)
      BY <2>4, <2>6, <3>1, <3>2, <3>3
    <3>4. CASE j = Len(k) + 1 /\ f[j] = m
      <4>1. f[i] = k[i] /\ k[i] \in 1 .. m - 1 BY <2>4, <2>6, <3>2
      <4> QED BY <2>1, <3>4, <4>1
    <3> QED BY <2>7, <3>3, <3>4
  <2>10. Kept(query, m)
    BY <2>6, <2>8, <2>9 DEF Kept, f, F
  <2> QED BY <2>1, <2>10
<1> HIDE DEF Good
<1>4. \A m \in 0 .. Len(Log) : m \in Good
  BY <1>1, <1>2, <1>3, Induction
<1> QED BY <1>4 DEF Good

\* As the log grows the filtered log is only added to, with later events.
Extends(query, m, n) ==
    /\ Len(Filtered(query)[m]) <= Len(Filtered(query)[n])
    /\ \A i \in 1 .. Len(Filtered(query)[m]) : Filtered(query)[n][i] = Filtered(query)[m][i]
    /\ \A i \in 1 .. Len(Filtered(query)[n]) :
          Filtered(query)[n][i] <= m => i <= Len(Filtered(query)[m])
LEMMA FilterExtends ==
    ASSUME NEW query, NEW m \in 0 .. Len(Log)
    PROVE  \A n \in 0 .. Len(Log) : n >= m => Extends(query, m, n)
<1> DEFINE Good == {n \in Nat : n >= m => Extends(query, m, n)}
           F == Filtered(query)
<1>1. Len(Log) \in Nat /\ m \in Nat
  BY LogAssumption
<1>2. ASSUME NEW n \in 0 .. Len(Log)
      PROVE  F[n] \in Seq(Nat) /\ Len(F[n]) \in Nat /\ \A i \in 1 .. Len(F[n]) : F[n][i] \in 1 .. n
  <2>1. Kept(query, n) BY FilterKeeps
  <2>2. F[n] \in Seq(Nat) BY <2>1 DEF Kept
  <2> QED BY <2>1, <2>2 DEF Kept
<1>3. Extends(query, m, m)
  <2>1. F[m] \in Seq(Nat) /\ Len(F[m]) \in Nat BY <1>2
  <2>2. Len(F[m]) <= Len(F[m]) /\ \A i \in 1 .. Len(F[m]) : i <= Len(F[m]) BY <2>1
  <2> QED BY <2>2 DEF Extends
<1>4. 0 \in Good
  <2>1. CASE m = 0 BY <1>3, <2>1
  <2>2. CASE m # 0
    <3>1. ~ (0 >= m) BY <1>1, <2>2
    <3> QED BY <3>1
  <2> QED BY <2>1, <2>2
<1>5. ASSUME NEW p \in 1 .. Len(Log), p - 1 \in Good PROVE p \in Good
  <2>1. p \in Nat BY <1>1
  <2>2. SUFFICES ASSUME p >= m PROVE Extends(query, m, p) BY <2>1
  <2>3. CASE p = m BY <1>3, <2>3
  <2>4. CASE p # m
    <3>1. p - 1 >= m /\ p - 1 \in 0 .. Len(Log) /\ p \in 0 .. Len(Log) BY <1>1, <2>2, <2>4
    <3>2. Extends(query, m, p - 1) BY <1>5, <3>1
    <3> DEFINE k == F[p - 1]
               f == F[p]
               b == F[m]
    <3>3. /\ Len(b) <= Len(k) /\ \A i \in 1 .. Len(b) : k[i] = b[i]
          /\ \A i \in 1 .. Len(k) : k[i] <= m => i <= Len(b)
      BY <3>2 DEF Extends
    <3>4. /\ k \in Seq(Nat) /\ Len(k) \in Nat /\ b \in Seq(Nat) /\ Len(b) \in Nat
          /\ f = Turn(query, k, p)
      BY <1>2, <3>1, FilteredUnfolds
    <3> HIDE DEF k, f, b, F
    <3>5. /\ f \in Seq(Nat) /\ Len(f) \in {Len(k), Len(k) + 1}
          /\ \A i \in 1 .. Len(k) : f[i] = k[i]
          /\ Len(f) = Len(k) + 1 => f[Len(f)] = p
      BY <3>4, OneTurn
    <3>6. Len(b) <= Len(f) /\ \A i \in 1 .. Len(b) : f[i] = b[i]
      BY <3>3, <3>4, <3>5
    <3>7. ASSUME NEW i \in 1 .. Len(f), f[i] <= m PROVE i <= Len(b)
      <4>1. i \in 1 .. Len(k) \/ (i = Len(k) + 1 /\ f[i] = p) BY <3>4, <3>5
      <4>2. ~ (p <= m) BY <1>1, <2>1, <2>2, <2>4
      <4>3. i \in 1 .. Len(k) /\ f[i] = k[i] BY <3>5, <3>7, <4>1, <4>2
      <4> QED BY <3>3, <3>7, <4>3
    <3> QED BY <3>6, <3>7 DEF Extends, k, f, b, F
  <2> QED BY <2>3, <2>4
<1> HIDE DEF Good
<1>6. \A n \in 0 .. Len(Log) : n \in Good
  BY <1>1, <1>4, <1>5, Induction
<1> QED BY <1>6 DEF Good
-----------------------------------------------------------------------------
(* The pages of a query.                                                   *)
Query == [limit : Nat \ {0}, order : {"asc", "desc"}, type : EventTypes \cup {"all"},
          min : HeightInputs \cup {NoHeight}, max : HeightInputs \cup {NoHeight}]

\* What the log holds for a query now.
LEMMA FilterNow ==
    ASSUME NEW query, produced \in 0 .. Len(Log)
    PROVE  /\ filterEvents(query) \in Seq(Nat) /\ Len(filterEvents(query)) \in Nat
           /\ \A i \in 1 .. Len(filterEvents(query)) : filterEvents(query)[i] \in 1 .. produced
           /\ \A i, j \in 1 .. Len(filterEvents(query)) :
                 filterEvents(query)[i] = filterEvents(query)[j] => i = j
<1> DEFINE f == filterEvents(query)
<1>1. Kept(query, produced)
  BY FilterKeeps
<1>2. /\ f \in Seq(Nat) /\ \A i \in 1 .. Len(f) : f[i] \in 1 .. produced
      /\ \A i, j \in 1 .. Len(f) : i < j => f[i] < f[j]
  BY <1>1 DEF Kept, filterEvents
<1> HIDE DEF f
<1>3. ASSUME NEW i \in 1 .. Len(f), NEW j \in 1 .. Len(f), f[i] = f[j] PROVE i = j
  <2>1. Len(f) \in Nat /\ f[i] \in Nat /\ f[j] \in Nat BY <1>2
  <2>2. ~ (f[i] < f[j]) /\ ~ (f[j] < f[i]) BY <1>3, <2>1
  <2>3. ~ (i < j) /\ ~ (j < i) BY <1>2, <2>2
  <2> QED BY <2>1, <2>3
<1> QED BY <1>2, <1>3 DEF f

\* A page: as many events as there are up to the limit, in the query's order.
LEMMA PageOf ==
    ASSUME NEW query \in Query, NEW offset \in Nat, produced \in 0 .. Len(Log)
    PROVE  LET f == filterEvents(query)
               part == getIndexerEvents(query, offset)
               end == IF offset + query.limit > Len(f) THEN Len(f) ELSE offset + query.limit
           IN  /\ part.hasMore \in BOOLEAN /\ (part.hasMore <=> end < Len(f))
               /\ part.events \in Seq(Nat)
               /\ offset <= Len(f) =>
                    /\ Len(part.events) = end - offset
                    /\ query.order = "asc" =>
                          \A k \in 1 .. Len(part.events) : part.events[k] = f[offset + k]
                    /\ query.order = "desc" =>
                          \A k \in 1 .. Len(part.events) :
                              part.events[k] = f[Len(f) - (offset + k) + 1]
<1> DEFINE f == filterEvents(query)
           end == IF offset + query.limit > Len(f) THEN Len(f) ELSE offset + query.limit
           ordered == IF query.order = "asc" THEN f ELSE Reverse(f)
           part == getIndexerEvents(query, offset)
<1>1. f \in Seq(Nat) /\ Len(f) \in Nat
  BY FilterNow
<1>2. query.limit \in Nat \ {0} /\ query.order \in {"asc", "desc"}
  BY DEF Query
<1>3. part = [events |-> SubSeq(ordered, offset + 1, end), hasMore |-> end < Len(f)]
  BY DEF getIndexerEvents, selectEvents
<1> HIDE DEF f, part
<1>4. end \in Nat /\ end <= Len(f) /\ (offset <= Len(f) => offset <= end)
  BY <1>1, <1>2
<1>5. /\ ordered \in Seq(Nat) /\ Len(ordered) = Len(f)
      /\ query.order = "asc" => ordered = f
      /\ query.order = "desc" => \A i \in 1 .. Len(f) : ordered[i] = f[Len(f) - i + 1]
  BY <1>1, <1>2 DEF Reverse
<1>6. part.events = SubSeq(ordered, offset + 1, end) /\ part.hasMore = (end < Len(f))
  BY <1>3
<1> HIDE DEF ordered, end
<1>7. part.events \in Seq(Nat)
  BY <1>4, <1>5, <1>6
<1>8. ASSUME offset <= Len(f)
      PROVE  /\ Len(part.events) = end - offset
             /\ \A k \in 1 .. Len(part.events) : part.events[k] = ordered[offset + k]
  BY <1>1, <1>4, <1>5, <1>6, <1>8
<1>9. ASSUME offset <= Len(f), query.order = "desc", NEW k \in 1 .. Len(part.events)
      PROVE  part.events[k] = f[Len(f) - (offset + k) + 1]
  <2>1. offset + k \in 1 .. Len(f) BY <1>1, <1>4, <1>8, <1>9
  <2> QED BY <1>5, <1>8, <1>9, <2>1
<1>10. part.hasMore \in BOOLEAN /\ (part.hasMore <=> end < Len(f))
  <2>1. (end < Len(f)) \in BOOLEAN
    BY <1>1, <1>4, SMT
  <2>2. part.hasMore = (end < Len(f))
    BY <1>6
  <2>3. part.hasMore \in BOOLEAN
    BY <2>1, <2>2, Zenon
  <2>4. part.hasMore <=> end < Len(f)
    BY <2>2, Zenon
  <2> QED BY <2>3, <2>4, Zenon
<1>11. ASSUME offset <= Len(f), query.order = "asc", NEW k \in 1 .. Len(part.events)
       PROVE  part.events[k] = f[offset + k]
  BY <1>5, <1>8, <1>11
<1> QED BY <1>7, <1>8, <1>9, <1>10, <1>11 DEF f, part, end
-----------------------------------------------------------------------------
(* What an export has collected.                                           *)
Export == [running : BOOLEAN, query : Query, offset : Nat, pages : Nat, events : Seq(Nat),
           aborted : BOOLEAN, mine : BOOLEAN, since : Nat]

\* Of the first p events: every page so far was full, and was not the last.
PagesFull(e, p) ==
    /\ e.query.limit = exportPageSize
    /\ e.since <= p
    /\ e.offset = Len(e.events) /\ e.offset = e.pages * exportPageSize
    /\ e.offset <= Len(Filtered(e.query)[p])
\* From the oldest on, the pages are the beginning of what there is to collect.
Oldest(e, p) ==
    e.query.order = "asc" =>
        \A i \in 1 .. Len(e.events) : e.events[i] = Filtered(e.query)[p][i]
\* From the newest on, they have all but the beginning of what there was at
\* first, and are its end as long as nothing was added.
Newest(e, p) ==
    LET f == Filtered(e.query)[p]
    IN  e.query.order = "desc" =>
            /\ \A i \in 1 .. Len(Filtered(e.query)[e.since]) :
                  i > Len(f) - e.offset => \E k \in 1 .. Len(e.events) : e.events[k] = f[i]
            /\ p = e.since =>
                  \A k \in 1 .. Len(e.events) : e.events[k] = f[Len(f) - k + 1]
OfTheLog(e, p) == \A i \in 1 .. Len(e.events) : e.events[i] \in 1 .. p
ExportFits(e, p) == PagesFull(e, p) /\ Oldest(e, p) /\ Newest(e, p) /\ OfTheLog(e, p)

\* It is about the query and what was collected only.
LEMMA FitsSame ==
    ASSUME NEW p, NEW d, NEW e, ExportFits(d, p),
           e.query = d.query, e.offset = d.offset, e.pages = d.pages,
           e.events = d.events, e.since = d.since
    PROVE  ExportFits(e, p)
<1>1. PagesFull(e, p)
  BY DEF ExportFits, PagesFull
<1>2. Oldest(e, p)
  BY Zenon DEF ExportFits, Oldest
<1>3. Newest(e, p)
  BY Zenon DEF ExportFits, Newest
<1>4. OfTheLog(e, p)
  BY Zenon DEF ExportFits, OfTheLog
<1> QED BY <1>1, <1>2, <1>3, <1>4 DEF ExportFits

\* An export that begins.
LEMMA FitsAtFirst ==
    ASSUME produced \in 0 .. Len(Log), NEW e \in Export, e.query.limit = exportPageSize,
           e.offset = 0, e.pages = 0, e.events = <<>>, e.since = produced
    PROVE  ExportFits(e, produced)
<1> DEFINE f == Filtered(e.query)[produced]
<1>1. f \in Seq(Nat) /\ Len(f) \in Nat
  BY FilterNow DEF filterEvents
<1> HIDE DEF f
<1>2. Len(e.events) = 0
  OBVIOUS
<1>3. 0 = 0 * exportPageSize /\ produced <= produced
  BY EventsAssumption, LogAssumption
<1>4. PagesFull(e, produced)
  BY <1>1, <1>2, <1>3 DEF PagesFull, f
<1>5. Newest(e, produced)
  <2>1. ASSUME NEW i \in 1 .. Len(f) PROVE ~ (i > Len(f) - 0)
    BY <1>1
  <2> QED BY <1>2, <2>1 DEF Newest, f
<1> QED BY <1>2, <1>4, <1>5 DEF ExportFits, Oldest, OfTheLog

\* An event is appended to the log.
LEMMA FitsAsItGrows ==
    ASSUME NEW e \in Export, NEW p \in 0 .. Len(Log), p + 1 \in 0 .. Len(Log), ExportFits(e, p)
    PROVE  ExportFits(e, p + 1)
<1> DEFINE f == Filtered(e.query)[p]
           g == Filtered(e.query)[p + 1]
           b == Filtered(e.query)[e.since]
<1>1. /\ p \in Nat /\ e.since \in Nat /\ e.since <= p /\ e.offset \in Nat
      /\ e.since \in 0 .. Len(Log) /\ e.events \in Seq(Nat) /\ Len(e.events) \in Nat
      /\ e.offset = Len(e.events) /\ e.offset <= Len(f)
      /\ e.query.limit = exportPageSize /\ e.offset = e.pages * exportPageSize
  BY LogAssumption DEF ExportFits, PagesFull, Export
<1>2. Kept(e.query, p) /\ Kept(e.query, p + 1) /\ Kept(e.query, e.since)
  BY <1>1, FilterKeeps
<1>3. Extends(e.query, p, p + 1) /\ Extends(e.query, e.since, p)
  BY <1>1, FilterExtends
<1>4. /\ f \in Seq(Nat) /\ g \in Seq(Nat) /\ Len(f) \in Nat /\ Len(g) \in Nat
      /\ b \in Seq(Nat) /\ Len(b) \in Nat
      /\ Len(f) <= Len(g) /\ Len(b) <= Len(f)
      /\ \A i \in 1 .. Len(f) : g[i] = f[i]
  BY <1>2, <1>3 DEF Kept, Extends
<1> HIDE DEF f, g, b
<1>5. PagesFull(e, p + 1)
  <2>1. e.offset <= Len(g) /\ e.since <= p + 1 BY <1>1, <1>4
  <2> QED BY <1>1, <2>1 DEF PagesFull, g
<1>6. Oldest(e, p + 1)
  <2>1. SUFFICES ASSUME e.query.order = "asc", NEW i \in 1 .. Len(e.events) PROVE e.events[i] = g[i]
    BY DEF Oldest, g
  <2>2. e.events[i] = f[i] BY <2>1 DEF ExportFits, Oldest, f
  <2>3. i \in 1 .. Len(f) BY <1>1, <1>4
  <2> QED BY <1>4, <2>2, <2>3
<1>7. Newest(e, p + 1)
  <2>1. SUFFICES ASSUME e.query.order = "desc"
                 PROVE  /\ \A i \in 1 .. Len(b) : i > Len(g) - e.offset =>
                              \E k \in 1 .. Len(e.events) : e.events[k] = g[i]
                        /\ p + 1 # e.since
    BY DEF Newest, g, b
  <2>2. p + 1 # e.since BY <1>1
  <2>3. ASSUME NEW i \in 1 .. Len(b), i > Len(g) - e.offset
        PROVE  \E k \in 1 .. Len(e.events) : e.events[k] = g[i]
    <3>3. e.offset \in Nat /\ Len(f) \in Nat /\ Len(g) \in Nat /\ Len(b) \in Nat
          /\ Len(f) <= Len(g) /\ Len(b) <= Len(f)
      BY <1>1, <1>4
    <3>4. i > Len(f) - e.offset BY <2>3, <3>3
    <3>5. i \in 1 .. Len(f) BY <2>3, <3>3
    <3>1. i > Len(f) - e.offset /\ i \in 1 .. Len(f) BY <3>4, <3>5
    <3>2. \E k \in 1 .. Len(e.events) : e.events[k] = f[i]
      BY <2>1, <2>3, <3>1 DEF ExportFits, Newest, f, b
    <3> QED BY <1>4, <3>1, <3>2
  <2> QED BY <2>2, <2>3
<1>8. OfTheLog(e, p + 1)
  <2>1. \A i \in 1 .. Len(e.events) : e.events[i] \in 1 .. p
    BY DEF ExportFits, OfTheLog
  <2> QED BY <1>1, <2>1 DEF OfTheLog
<1> QED BY <1>5, <1>6, <1>7, <1>8 DEF ExportFits

\* A page arrives: d is the export with it.
LEMMA PageArrives ==
    ASSUME produced \in 0 .. Len(Log), NEW e \in Export, ExportFits(e, produced),
           NEW d, d.query = e.query, d.since = e.since, d.offset = Len(d.events),
           d.events = e.events \o getIndexerEvents(e.query, e.offset).events
    PROVE  LET part == getIndexerEvents(e.query, e.offset)
               total == Len(filterEvents(e.query))
           IN  /\ d.events \in Seq(Nat) /\ Len(d.events) <= total
               /\ Oldest(d, produced) /\ Newest(d, produced) /\ OfTheLog(d, produced)
               /\ part.hasMore \in BOOLEAN
               /\ part.hasMore => /\ part.events # <<>>
                                  /\ Len(d.events) = (e.pages + 1) * exportPageSize
               /\ ~part.hasMore => Len(d.events) = total
<1> DEFINE f == filterEvents(e.query)
           b == Filtered(e.query)[e.since]
           part == getIndexerEvents(e.query, e.offset)
           end == IF e.offset + e.query.limit > Len(f) THEN Len(f) ELSE e.offset + e.query.limit
           o == e.offset
           s == e.events
           g == d.events
           P == part.events
<1>1. /\ e.query \in Query /\ o \in Nat /\ e.since \in Nat /\ s \in Seq(Nat)
      /\ e.pages \in Nat
  BY DEF Export
<1>2. /\ e.query.limit = exportPageSize /\ e.since <= produced
      /\ o = Len(s) /\ o = e.pages * exportPageSize /\ o <= Len(f)
  BY DEF ExportFits, PagesFull, filterEvents
<1>3. exportPageSize \in Nat /\ exportPageSize # 0 /\ produced \in Nat
  BY EventsAssumption, LogAssumption
<1>4. /\ f \in Seq(Nat) /\ Len(f) \in Nat
      /\ \A i \in 1 .. Len(f) : f[i] \in 1 .. produced
  BY FilterNow
<1>5. /\ part.hasMore \in BOOLEAN /\ (part.hasMore <=> end < Len(f))
      /\ P \in Seq(Nat) /\ Len(P) = end - o
      /\ e.query.order = "asc" => \A k \in 1 .. Len(P) : P[k] = f[o + k]
      /\ e.query.order = "desc" => \A k \in 1 .. Len(P) : P[k] = f[Len(f) - (o + k) + 1]
  BY <1>1, <1>2, PageOf
<1>6. /\ Len(b) \in Nat /\ Len(b) <= Len(f)
  <2>1. e.since \in 0 .. Len(Log) /\ produced >= e.since
    BY <1>1, <1>2, LogAssumption
  <2>2. Extends(e.query, e.since, produced) BY <2>1, FilterExtends
  <2>3. Kept(e.query, e.since) BY <2>1, FilterKeeps
  <2>4. b \in Seq(Nat) BY <2>3 DEF Kept
  <2> QED BY <2>2, <2>4 DEF Extends, filterEvents
<1>7. end \in Nat /\ o <= end /\ end <= Len(f)
  <2>1. o \in Nat /\ e.query.limit \in Nat /\ o <= Len(f) /\ Len(f) \in Nat
    BY <1>1, <1>2, <1>3, <1>4
  <2> HIDE DEF f, o
  <2>2. end = IF o + e.query.limit > Len(f) THEN Len(f) ELSE o + e.query.limit
    BY DEF o
  <2> HIDE DEF end
  <2> QED BY <2>1, <2>2
<1>8. /\ e.query.order = "asc" => \A i \in 1 .. o : s[i] = f[i]
      /\ e.query.order = "desc" =>
            /\ \A i \in 1 .. Len(b) : i > Len(f) - o => \E k \in 1 .. o : s[k] = f[i]
            /\ produced = e.since => \A k \in 1 .. o : s[k] = f[Len(f) - k + 1]
      /\ \A i \in 1 .. o : s[i] \in 1 .. produced
  BY <1>2 DEF ExportFits, Oldest, Newest, OfTheLog, filterEvents
<1>9. /\ g = s \o P /\ d.offset = Len(g) /\ d.query = e.query /\ d.since = e.since
  OBVIOUS
<1>10. part.hasMore => end = o + exportPageSize
  BY <1>1, <1>2, <1>3, <1>4, <1>5
<1>11. ~part.hasMore => end = Len(f)
  BY <1>4, <1>5, <1>7
<1> HIDE DEF f, b, part, end, o, s, g, P
<1>12. Len(s) \in Nat /\ Len(P) \in Nat
  BY <1>1, <1>5
<1>13. /\ g \in Seq(Nat) /\ Len(g) = Len(s) + Len(P)
       /\ \A i \in 1 .. Len(s) : g[i] = s[i]
       /\ \A i \in 1 .. Len(P) : g[Len(s) + i] = P[i]
  <2>1. s \in Seq(Nat) /\ P \in Seq(Nat) /\ g = s \o P
    BY <1>1, <1>5, <1>9
  <2> QED BY <2>1, ConcatProperties
<1>14. Len(g) = end
  <2>1. o \in Nat /\ end \in Nat /\ o = Len(s) /\ Len(P) = end - o /\ Len(g) = Len(s) + Len(P)
    BY <1>1, <1>2, <1>5, <1>7, <1>13
  <2> QED BY <2>1
<1>15. \A i \in 1 .. end : i \in 1 .. o \/ (i - o \in 1 .. Len(P) /\ g[i] = P[i - o])
  <2>1. SUFFICES ASSUME NEW i \in 1 .. end, i \notin 1 .. o PROVE i - o \in 1 .. Len(P) /\ g[i] = P[i - o]
    OBVIOUS
  <2>2. i - o \in 1 .. Len(P) /\ o + (i - o) = i
    BY <1>1, <1>5, <1>7, <1>12, <2>1
  <2> QED BY <1>2, <1>13, <2>2
<1>16. Oldest(d, produced)
  <2>1. SUFFICES ASSUME e.query.order = "asc", NEW i \in 1 .. end PROVE g[i] = f[i]
    BY <1>9, <1>14 DEF Oldest, filterEvents, f, g
  <2>2. CASE i \in 1 .. o
    BY <1>2, <1>8, <1>13, <2>1, <2>2
  <2>3. CASE i - o \in 1 .. Len(P) /\ g[i] = P[i - o]
    <3>1. o + (i - o) = i BY <1>1, <1>7
    <3> QED BY <1>5, <2>1, <2>3, <3>1
  <2> QED BY <1>15, <2>2, <2>3
<1>17. OfTheLog(d, produced)
  <2>1. SUFFICES ASSUME NEW i \in 1 .. end PROVE g[i] \in 1 .. produced
    BY <1>9, <1>14 DEF OfTheLog, g
  <2>2. CASE i \in 1 .. o
    BY <1>2, <1>8, <1>13, <2>2
  <2>3. CASE i - o \in 1 .. Len(P) /\ g[i] = P[i - o]
    <3>1. o + (i - o) = i /\ i \in 1 .. Len(f) /\ Len(f) - i + 1 \in 1 .. Len(f)
      BY <1>1, <1>4, <1>7
    <3>2. g[i] = f[i] \/ g[i] = f[Len(f) - i + 1]
      <4>1. e.query.order = "asc" \/ e.query.order = "desc" BY <1>1 DEF Query
      <4> QED BY <1>5, <2>3, <3>1, <4>1
    <3> QED BY <1>4, <3>1, <3>2
  <2> QED BY <1>15, <2>2, <2>3
<1>18. Newest(d, produced)
  <2>1. SUFFICES ASSUME e.query.order = "desc"
                 PROVE  /\ \A i \in 1 .. Len(b) : i > Len(f) - end => \E k \in 1 .. end : g[k] = f[i]
                        /\ produced = e.since => \A k \in 1 .. end : g[k] = f[Len(f) - k + 1]
    BY <1>9, <1>14 DEF Newest, filterEvents, f, g, b
  <2>2. ASSUME NEW k \in 1 .. end, k \notin 1 .. o PROVE g[k] = f[Len(f) - k + 1]
    <3>1. k - o \in 1 .. Len(P) /\ g[k] = P[k - o] BY <1>15, <2>2
    <3>2. o + (k - o) = k BY <1>1, <1>7
    <3> QED BY <1>5, <2>1, <3>1, <3>2
  <2>3. ASSUME NEW i \in 1 .. Len(b), i > Len(f) - end PROVE \E k \in 1 .. end : g[k] = f[i]
    <3>1. CASE i > Len(f) - o
      <4>1. PICK k \in 1 .. o : s[k] = f[i] BY <1>8, <2>1, <3>1
      <4>2. k \in 1 .. end /\ g[k] = s[k] BY <1>1, <1>2, <1>7, <1>13
      <4> QED BY <4>1, <4>2
    <3>2. CASE ~ (i > Len(f) - o)
      <4> DEFINE n == Len(f)
                 k == n - i + 1
      <4>1. n \in Nat /\ i \in Nat /\ 1 <= i /\ i <= n /\ end \in Nat /\ o \in Nat
        BY <1>1, <1>4, <1>6, <1>7
      <4>2. i > n - end /\ ~ (i > n - o)
        BY <2>3, <3>2
      <4> HIDE DEF n
      <4>3. k \in 1 .. end /\ k \notin 1 .. o /\ n - k + 1 = i
        BY <4>1, <4>2
      <4>4. k \in 1 .. end /\ k \notin 1 .. o /\ Len(f) - k + 1 = i
        BY <4>3 DEF n
      <4> HIDE DEF k
      <4> QED BY <2>2, <4>4
    <3> QED BY <3>1, <3>2
  <2>4. ASSUME produced = e.since, NEW k \in 1 .. end PROVE g[k] = f[Len(f) - k + 1]
    <3>1. CASE k \in 1 .. o
      <4>1. g[k] = s[k] BY <1>2, <1>13, <3>1
      <4> QED BY <1>8, <2>1, <2>4, <3>1, <4>1
    <3> QED BY <2>2, <3>1
  <2> QED BY <2>3, <2>4
<1>19. ASSUME part.hasMore PROVE P # <<>> /\ Len(g) = (e.pages + 1) * exportPageSize
  <2>1. Len(P) = exportPageSize
    BY <1>1, <1>3, <1>5, <1>10, <1>19
  <2>2. P # <<>> BY <1>3, <2>1
  <2>3. (e.pages + 1) * exportPageSize = e.pages * exportPageSize + exportPageSize
    BY <1>1, <1>3
  <2>4. end = e.pages * exportPageSize + exportPageSize BY <1>2, <1>10, <1>19
  <2> QED BY <1>14, <2>2, <2>3, <2>4
<1> QED BY <1>5, <1>7, <1>11, <1>13, <1>14, <1>16, <1>17, <1>18, <1>19 DEF f, part, g, P

\* An export that has as many events as there are has every one of those there
\* were at its beginning, and repeats one only where the pages moved.
LEMMA LastPageSaved ==
    ASSUME produced \in 0 .. Len(Log), NEW d, d.events \in Seq(Nat), d.query \in Query,
           d.since \in Nat, d.since <= produced,
           d.offset = Len(d.events), Len(d.events) = Len(filterEvents(d.query)),
           Oldest(d, produced), Newest(d, produced)
    PROVE  /\ {x \in Range(filterEvents(d.query)) : x <= d.since /\ ~Contains(d.events, x)} = {}
           /\ ~IsInjective(d.events) => d.query.order = "desc" /\ produced > d.since
<1> DEFINE f == filterEvents(d.query)
           b == Filtered(d.query)[d.since]
           g == d.events
<1>1. /\ f \in Seq(Nat) /\ Len(f) \in Nat /\ g \in Seq(Nat) /\ Len(g) = Len(f)
      /\ \A i, j \in 1 .. Len(f) : f[i] = f[j] => i = j
  BY FilterNow
<1>2. d.query.order \in {"asc", "desc"}
  BY DEF Query
<1>3. Extends(d.query, d.since, produced)
  <2>1. d.since \in 0 .. Len(Log) /\ produced >= d.since
    BY LogAssumption
  <2> QED BY <2>1, FilterExtends
<1>4. \A i \in 1 .. Len(f) : f[i] <= d.since => i \in 1 .. Len(b)
  <2>1. Len(b) \in Nat
    <3>1. d.since \in 0 .. Len(Log) BY LogAssumption
    <3>2. Kept(d.query, d.since) BY <3>1, FilterKeeps
    <3>3. b \in Seq(Nat) BY <3>2 DEF Kept
    <3> QED BY <3>3
  <2>2. \A i \in 1 .. Len(f) : f[i] <= d.since => i <= Len(b)
    BY <1>3 DEF Extends, filterEvents
  <2> QED BY <1>1, <2>1, <2>2
<1>5. /\ d.query.order = "asc" => \A i \in 1 .. Len(f) : g[i] = f[i]
      /\ d.query.order = "desc" =>
            /\ \A i \in 1 .. Len(b) : i > Len(f) - Len(f) => \E k \in 1 .. Len(f) : g[k] = f[i]
            /\ produced = d.since => \A k \in 1 .. Len(f) : g[k] = f[Len(f) - k + 1]
  BY <1>1 DEF Oldest, Newest, filterEvents
<1> HIDE DEF f, g, b
<1>6. ASSUME NEW x \in Range(f), x <= d.since PROVE Contains(g, x)
  <2>1. PICK i \in 1 .. Len(f) : f[i] = x
    BY <1>1 DEF Range
  <2>2. i \in 1 .. Len(b) BY <1>4, <1>6, <2>1
  <2>3. i > Len(f) - Len(f) BY <1>1
  <2>4. \E k \in 1 .. Len(f) : g[k] = f[i]
    BY <1>2, <1>5, <2>2, <2>3
  <2> QED BY <1>1, <2>1, <2>4 DEF Contains
<1>7. ASSUME d.query.order = "asc" \/ produced = d.since PROVE IsInjective(g)
  <2>1. SUFFICES ASSUME NEW i \in 1 .. Len(f), NEW j \in 1 .. Len(f), g[i] = g[j] PROVE i = j
    BY <1>1 DEF IsInjective
  <2>2. CASE d.query.order = "asc"
    BY <1>1, <1>5, <2>1, <2>2
  <2>3. CASE d.query.order = "desc"
    <3>1. g[i] = f[Len(f) - i + 1] /\ g[j] = f[Len(f) - j + 1] BY <1>5, <1>7, <2>3
    <3>2. Len(f) - i + 1 \in 1 .. Len(f) /\ Len(f) - j + 1 \in 1 .. Len(f) BY <1>1
    <3>3. Len(f) - i + 1 = Len(f) - j + 1 BY <1>1, <2>1, <3>1, <3>2
    <3> QED BY <1>1, <3>3
  <2> QED BY <1>2, <2>2, <2>3
<1>8. produced = d.since \/ produced > d.since
  BY LogAssumption
<1> QED BY <1>2, <1>6, <1>7, <1>8 DEF f, g
-----------------------------------------------------------------------------
(* The list page.                                                          *)
ListState == [offset : Nat, query : Query, hasMore : BOOLEAN, for : {"none", "current", "stale"},
              loading : BOOLEAN, exporting : BOOLEAN, abort : 0 .. MaxExports, excused : BOOLEAN]

PageTyped ==
    /\ produced \in 0 .. Len(Log) /\ shown \in BOOLEAN
    /\ ~shown => list = FreshList /\ loads = NoLoads
    /\ list \in ListState
    /\ loads \in [LoadSlots -> {"none", "current", "stale"}]
    /\ exports \in [ExportSlots -> Export]

\* Unless it is excused, the page waits for the one load under way, which is
\* for what is asked, or shows what was asked and has no load under way.
LoadsFit ==
    shown /\ ~list.excused =>
        /\ list.loading =>
              \A i, j \in LoadSlots : loads[i] # "none" /\ loads[j] # "none" =>
                  i = j /\ loads[i] = "current"
        /\ ~list.loading => list.for = "current" /\ \A i \in LoadSlots : loads[i] = "none"

ExportsFit ==
    \A x \in ExportSlots : IF Running(x) THEN ExportFits(exports[x], produced)
                           ELSE exports[x].events = <<>>

EventsInv == PageTyped /\ LoadsFit /\ ExportsFit /\ ExportInReach /\ ExportFaithful

\* It implies what the run checks.
LEMMA EventsInvGives == EventsInv => ListSafe /\ ExportFaithful
<1> SUFFICES ASSUME EventsInv PROVE ListSafe /\ ExportFaithful
  OBVIOUS
<1>1. PageTyped /\ LoadsFit /\ ExportsFit /\ ExportInReach /\ ExportFaithful
  BY DEF EventsInv
<1>2. ASSUME NEW x \in ExportSlots PROVE Range(exports[x].events) \subseteq 1 .. produced
  <2>1. exports[x] \in Export BY <1>1 DEF PageTyped
  <2>2. exports[x].events \in Seq(Nat) BY <2>1 DEF Export
  <2>3. \A i \in 1 .. Len(exports[x].events) : exports[x].events[i] \in 1 .. produced
    <3>1. CASE Running(x) BY <1>1, <3>1 DEF ExportsFit, ExportFits, OfTheLog
    <3>2. CASE ~Running(x)
      <4>1. exports[x].events = <<>> BY <1>1, <3>2 DEF ExportsFit
      <4> QED BY <4>1
    <3> QED BY <3>1, <3>2
  <2> QED BY <2>2, <2>3 DEF Range
<1>3. ListTypeOK
  <2>1. list.offset \in Nat /\ list.abort \in 0 .. MaxExports
    BY <1>1 DEF PageTyped, ListState
  <2> QED BY <1>1, <1>2, <2>1 DEF ListTypeOK, PageTyped
<1>4. ShownMatchesQuery
  BY <1>1 DEF ShownMatchesQuery, LoadsFit
<1> QED BY <1>1, <1>3, <1>4 DEF ListSafe

\* The values that the page starts from.
LEMMA FreshFacts ==
    /\ defaultQuery \in Query
    /\ FreshList \in ListState /\ FreshList.loading = TRUE /\ FreshList.exporting = FALSE
    /\ FreshList.excused = FALSE /\ FreshList.abort = 0
    /\ NoExport \in Export /\ NoExport.running = FALSE /\ NoExport.events = <<>>
    /\ NoExport.mine = FALSE
    /\ NoLoads \in [LoadSlots -> {"none", "current", "stale"}]
    /\ \A i \in LoadSlots : NoLoads[i] = "none"
    /\ NoFile.lacks = {} /\ NoFile.repeats = FALSE /\ NoFile.moved = FALSE
    /\ NoFile.cancelled = FALSE
<1>1. PAGE_SIZE_OPTIONS[1] \in Nat \ {0}
  BY EventsAssumption
<1>2. defaultQuery \in Query
  BY <1>1 DEF defaultQuery, Query
<1>3. 0 \in 0 .. MaxExports
  BY EventsAssumption
<1> HIDE DEF defaultQuery
<1>4. FreshList \in ListState
  BY <1>2, <1>3 DEF FreshList, ListState
<1>5. NoExport \in Export
  <2>1. <<>> \in Seq(Nat) OBVIOUS
  <2> QED BY <1>2, <2>1 DEF NoExport, Export
<1>6. /\ FreshList.loading = TRUE /\ FreshList.exporting = FALSE
      /\ FreshList.excused = FALSE /\ FreshList.abort = 0
      /\ NoExport.running = FALSE /\ NoExport.events = <<>> /\ NoExport.mine = FALSE
  BY DEF FreshList, NoExport
<1>7. /\ NoFile.lacks = {} /\ NoFile.repeats = FALSE /\ NoFile.moved = FALSE
      /\ NoFile.cancelled = FALSE
  BY DEF NoFile
<1> QED BY <1>2, <1>4, <1>5, <1>6, <1>7 DEF NoLoads

\* A step that downloads nothing keeps what is asked of the downloads.
LEMMA NothingSaved ==
    ASSUME NoDownload
    PROVE  ExportFaithful'
BY FreshFacts DEF NoDownload, ExportFaithful, ExportComplete, ExportRepeatsExplained, CancelledNotSaved

\* The exports do not notice a step that leaves them, the log and the page's
\* export alone.
LEMMA ExportsApart ==
    ASSUME ExportsFit, ExportInReach, exports' = exports, produced' = produced,
           list'.exporting = list.exporting, list'.abort = list.abort
    PROVE  ExportsFit' /\ ExportInReach'
<1>1. ExportsFit'
  BY DEF ExportsFit, Running
<1>2. ExportInReach'
  BY DEF ExportInReach, Running
<1> QED BY <1>1, <1>2

\* A load begins.
LEMMA LoadBegins ==
    ASSUME EventsInv, shown, NEW STATE l, l \in ListState, l.exporting = list.exporting,
           l.abort = list.abort, ~l.excused => \A i \in LoadSlots : loads[i] = "none",
           StartLoad(l), ListOnly
    PROVE  EventsInv'
<1> DEFINE same == l.offset = list.offset /\ l.query = list.query
           Aged(f) == IF f = "current" /\ ~same THEN "stale" ELSE f
<1>1. PageTyped /\ ExportsFit /\ ExportInReach
  BY DEF EventsInv
<1>2. /\ list' = [l EXCEPT !.loading = TRUE, !.for = Aged(@)]
      /\ loads' = [i \in LoadSlots |-> IF i = FirstFreeLoad THEN "current" ELSE Aged(loads[i])]
  BY DEF StartLoad
<1>3. produced' = produced /\ shown' = shown /\ exports' = exports /\ NoDownload
  BY DEF ListOnly
<1>4. \A f \in {"none", "current", "stale"} : /\ Aged(f) \in {"none", "current", "stale"}
                                              /\ f = "none" => Aged(f) = "none"
  OBVIOUS
<1> HIDE DEF Aged, same
<1>5. /\ list' \in ListState /\ list'.exporting = l.exporting /\ list'.abort = l.abort
      /\ list'.excused = l.excused /\ list'.loading = TRUE
  <2>1. l.for \in {"none", "current", "stale"} BY DEF ListState
  <2> QED BY <1>2, <1>4, <2>1 DEF ListState
<1>6. loads' \in [LoadSlots -> {"none", "current", "stale"}]
  <2>1. \A i \in LoadSlots : loads[i] \in {"none", "current", "stale"}
    BY <1>1 DEF PageTyped
  <2> QED BY <1>2, <1>4, <2>1
<1>7. PageTyped'
  BY <1>1, <1>3, <1>5, <1>6 DEF PageTyped
<1>8. LoadsFit'
  <2>1. SUFFICES ASSUME ~l.excused, NEW i \in LoadSlots, NEW j \in LoadSlots,
                        loads'[i] # "none", loads'[j] # "none"
                 PROVE  i = j /\ loads'[i] = "current"
    BY <1>5 DEF LoadsFit
  <2>2. loads[i] = "none" /\ loads[j] = "none" BY <2>1
  <2>3. /\ loads'[i] = IF i = FirstFreeLoad THEN "current" ELSE Aged(loads[i])
        /\ loads'[j] = IF j = FirstFreeLoad THEN "current" ELSE Aged(loads[j])
    BY <1>2
  <2>4. Aged(loads[i]) = "none" /\ Aged(loads[j]) = "none" BY <1>4, <2>2
  <2> QED BY <2>1, <2>3, <2>4
<1>9. ExportsFit' /\ ExportInReach'
  BY <1>1, <1>3, <1>5, ExportsApart
<1>10. ExportFaithful'
  BY <1>3, NothingSaved
<1> QED BY <1>7, <1>8, <1>9, <1>10 DEF EventsInv

\* The controls of the list that begin a load.
LEMMA ControlsKeep ==
    ASSUME EventsInv, FilterNext \/ RefreshList \/ PrevPage \/ NextPage \/ RerunLoad
    PROVE  EventsInv'
<1>1. list \in ListState /\ LoadsFit
  BY DEF EventsInv, PageTyped
<1>2. /\ list.offset \in Nat /\ list.query \in Query /\ list.query.limit \in Nat
  BY <1>1 DEF ListState, Query
<1>3. Usable => shown /\ (~list.excused => \A i \in LoadSlots : loads[i] = "none")
  BY <1>1 DEF Usable, LoadsFit
<1>4. ASSUME NEW STATE o, o \in Nat, NEW STATE q, q \in Query
      PROVE  /\ [list EXCEPT !.offset = o, !.query = q] \in ListState
             /\ [list EXCEPT !.offset = o, !.query = q].exporting = list.exporting
             /\ [list EXCEPT !.offset = o, !.query = q].abort = list.abort
             /\ [list EXCEPT !.offset = o, !.query = q].excused = list.excused
  BY <1>1, <1>4 DEF ListState
<1>5. ASSUME NEW STATE o, o \in Nat, NEW STATE q, q \in Query, Usable,
             StartLoad([list EXCEPT !.offset = o, !.query = q]), ListOnly
      PROVE  EventsInv'
  <2> DEFINE l == [list EXCEPT !.offset = o, !.query = q]
  <2>1. /\ l \in ListState /\ l.exporting = list.exporting /\ l.abort = list.abort
        /\ l.excused = list.excused
    BY <1>4, <1>5
  <2>2. StartLoad(l) BY <1>5
  <2> HIDE DEF l
  <2> QED BY <1>3, <1>5, <2>1, <2>2, LoadBegins
<1>6. ASSUME NEW STATE o, o \in Nat, Usable, StartLoad([list EXCEPT !.offset = o]), ListOnly
      PROVE  EventsInv'
  <2> DEFINE l == [list EXCEPT !.offset = o]
  <2>1. /\ l \in ListState /\ l.exporting = list.exporting /\ l.abort = list.abort
        /\ l.excused = list.excused
    BY <1>1, <1>6 DEF ListState
  <2>2. StartLoad(l) BY <1>6
  <2> HIDE DEF l
  <2> QED BY <1>3, <1>6, <2>1, <2>2, LoadBegins
<1>7. CASE FilterNext
  <2>1. ASSUME NEW limit \in Range(PAGE_SIZE_OPTIONS), NEW order \in {"asc", "desc"},
               NEW type \in EventTypes, NEW min \in HeightInputs, NEW max \in HeightInputs,
               applyFilters(limit, order, type, min, max)
        PROVE  EventsInv'
    <3> DEFINE q == [limit |-> limit, order |-> order, type |-> type, min |-> min, max |-> max]
    <3>1. limit \in Nat \ {0}
      BY EventsAssumption DEF Range
    <3>2. q \in Query
      BY <3>1 DEF Query
    <3>3. Usable /\ StartLoad([list EXCEPT !.offset = 0, !.query = q]) /\ ListOnly
      BY <2>1 DEF applyFilters
    <3> HIDE DEF q
    <3> QED BY <1>5, <3>2, <3>3
  <2>2. CASE resetFilters
    <3>1. Usable /\ StartLoad([list EXCEPT !.offset = 0, !.query = defaultQuery]) /\ ListOnly
      BY <2>2 DEF resetFilters
    <3>2. defaultQuery \in Query /\ 0 \in Nat
      BY FreshFacts
    <3> QED BY <1>5, <3>1, <3>2
  <2> QED BY <1>7, <2>1, <2>2, Zenon DEF FilterNext
<1>8. CASE RefreshList
  BY <1>6, <1>8 DEF RefreshList
<1>9. CASE PrevPage
  <2> DEFINE o == IF list.offset > list.query.limit THEN list.offset - list.query.limit ELSE 0
  <2>1. o \in Nat
    BY <1>2
  <2>2. Usable /\ StartLoad([list EXCEPT !.offset = o]) /\ ListOnly
    BY <1>9 DEF PrevPage
  <2> HIDE DEF o
  <2> QED BY <1>6, <2>1, <2>2
<1>10. CASE NextPage
  <2> DEFINE o == list.offset + list.query.limit
  <2>1. o \in Nat
    BY <1>2
  <2>2. Usable /\ StartLoad([list EXCEPT !.offset = o]) /\ ListOnly
    BY <1>10 DEF NextPage
  <2> HIDE DEF o
  <2> QED BY <1>6, <2>1, <2>2
<1>11. CASE RerunLoad
  <2> DEFINE x == list.excused \/ \E i \in LoadSlots : loads[i] # "none"
             l == [list EXCEPT !.excused = x]
  <2>1. shown /\ StartLoad(l) /\ ListOnly
    BY <1>11 DEF RerunLoad
  <2>2. x \in BOOLEAN /\ (~x => \A i \in LoadSlots : loads[i] = "none")
    BY Zenon
  <2> HIDE DEF x
  <2>3. /\ l \in ListState /\ l.exporting = list.exporting /\ l.abort = list.abort
        /\ l.excused = x
    BY <1>1, <2>2 DEF ListState
  <2> HIDE DEF l
  <2>4. ~l.excused => \A i \in LoadSlots : loads[i] = "none"
    BY <2>2, <2>3
  <2> QED BY <2>1, <2>3, <2>4, LoadBegins
<1> QED BY <1>7, <1>8, <1>9, <1>10, <1>11

\* A load ends.
LEMMA LoadEnds ==
    ASSUME EventsInv, NEW i \in LoadSlots, LoadAnswered(i) \/ LoadFailed(i)
    PROVE  EventsInv'
<1>1. /\ PageTyped /\ LoadsFit /\ ExportsFit /\ ExportInReach /\ list \in ListState
      /\ produced \in 0 .. Len(Log)
  BY DEF EventsInv, PageTyped
<1>2. /\ loads[i] # "none" /\ loads' = [loads EXCEPT ![i] = "none"]
      /\ produced' = produced /\ shown' = shown /\ exports' = exports /\ NoDownload
  BY DEF LoadAnswered, LoadFailed, ListOnly
<1>3. shown /\ loads[i] \in {"current", "stale"}
  BY <1>1, <1>2, FreshFacts DEF PageTyped
<1>4. /\ loads' \in [LoadSlots -> {"none", "current", "stale"}] /\ loads'[i] = "none"
      /\ \A j \in LoadSlots \ {i} : loads'[j] = loads[j]
  BY <1>1, <1>2 DEF PageTyped
<1>5. SUFFICES /\ list' \in ListState
               /\ list'.exporting = list.exporting /\ list'.abort = list.abort /\ list'.loading = FALSE
               /\ ~list'.excused => list'.for = "current" /\ \A j \in LoadSlots \ {i} : loads[j] = "none"
  <2>1. ASSUME /\ list' \in ListState
               /\ list'.exporting = list.exporting /\ list'.abort = list.abort /\ list'.loading = FALSE
               /\ ~list'.excused => list'.for = "current" /\ \A j \in LoadSlots \ {i} : loads[j] = "none"
        PROVE  EventsInv'
    <3>1. PageTyped' BY <1>1, <1>2, <1>3, <1>4, <2>1 DEF PageTyped
    <3>2. LoadsFit' BY <1>4, <2>1 DEF LoadsFit
    <3>3. ExportsFit' /\ ExportInReach' BY <1>1, <1>2, <2>1, ExportsApart
    <3>4. ExportFaithful' BY <1>2, NothingSaved
    <3> QED BY <3>1, <3>2, <3>3, <3>4 DEF EventsInv
  <2> QED BY <2>1
<1>6. CASE LoadFailed(i)
  <2>1. list' = [list EXCEPT !.loading = FALSE, !.excused = TRUE]
    BY <1>6 DEF LoadFailed
  <2>2. /\ list' \in ListState /\ list'.exporting = list.exporting /\ list'.abort = list.abort
        /\ list'.loading = FALSE /\ list'.excused = TRUE
    BY <1>1, <2>1 DEF ListState
  <2> QED BY <2>2, Zenon
<1>7. CASE LoadAnswered(i)
  <2> DEFINE alone == loads[i] = "current" /\ \A j \in LoadSlots \ {i} : loads[j] = "none"
  <2>1. list.query \in Query /\ list.offset \in Nat
    BY <1>1 DEF ListState
  <2>2. getIndexerEvents(list.query, list.offset).hasMore \in BOOLEAN
    BY <1>1, <2>1, PageOf
  <2>3. PICK more \in BOOLEAN :
           list' = [list EXCEPT !.loading = FALSE, !.hasMore = more, !.for = loads[i],
                                !.excused = @ /\ ~alone]
    BY <1>7, <2>2 DEF LoadAnswered
  <2> DEFINE x == list.excused /\ ~alone
  <2>4. list' = [list EXCEPT !.loading = FALSE, !.hasMore = more, !.for = loads[i], !.excused = x]
    BY <2>3
  <2>5. list.excused \in BOOLEAN
    BY <1>1 DEF ListState
  <2>6. x \in BOOLEAN /\ (~x => ~list.excused \/ alone)
    BY <2>5, Zenon
  <2>7. ~list.excused => alone
    <3>1. SUFFICES ASSUME ~list.excused PROVE alone OBVIOUS
    <3>2. list.loading
      <4>1. CASE ~list.loading BY <1>1, <1>2, <1>3, <3>1, <4>1 DEF LoadsFit
      <4> QED BY <4>1
    <3>3. \A j \in LoadSlots : loads[j] # "none" => j = i /\ loads[i] = "current"
      BY <1>1, <1>2, <1>3, <3>1, <3>2 DEF LoadsFit
    <3> QED BY <1>2, <3>3
  <2>8. ~x => loads[i] = "current" /\ \A j \in LoadSlots \ {i} : loads[j] = "none"
    BY <2>6, <2>7
  <2> HIDE DEF x, alone
  <2>9. /\ list' \in ListState /\ list'.exporting = list.exporting /\ list'.abort = list.abort
        /\ list'.loading = FALSE /\ list'.excused = x /\ list'.for = loads[i]
    BY <1>1, <1>3, <2>4, <2>6 DEF ListState
  <2> QED BY <2>8, <2>9, Zenon
<1> QED BY <1>6, <1>7

\* The page comes and goes, the log grows.
LEMMA ComingAndGoing ==
    ASSUME EventsInv, ShowList \/ LeaveList \/ ListGrows
    PROVE  EventsInv'
<1>1. PageTyped /\ LoadsFit /\ ExportsFit /\ ExportInReach
  BY DEF EventsInv
<1>2. /\ produced \in 0 .. Len(Log) /\ exports \in [ExportSlots -> Export]
      /\ ~shown => list = FreshList
  BY <1>1 DEF PageTyped
<1>3. CASE ShowList
  <2>1. /\ ~shown /\ shown' = TRUE /\ list' = FreshList
        /\ loads' = [NoLoads EXCEPT ![1] = "current"]
        /\ produced' = produced /\ exports' = exports /\ NoDownload
    BY <1>3 DEF ShowList
  <2>2. /\ loads' \in [LoadSlots -> {"none", "current", "stale"}]
        /\ \A i \in LoadSlots : loads'[i] = IF i = 1 THEN "current" ELSE "none"
    BY <2>1, FreshFacts DEF NoLoads
  <2>3. list' = list /\ list' \in ListState /\ list'.loading = TRUE
    BY <1>2, <2>1, FreshFacts
  <2>4. PageTyped' BY <1>2, <2>1, <2>2, <2>3 DEF PageTyped
  <2>5. LoadsFit' BY <2>2, <2>3 DEF LoadsFit
  <2>6. ExportsFit' /\ ExportInReach' BY <1>1, <2>1, <2>3, ExportsApart
  <2> QED BY <2>1, <2>4, <2>5, <2>6, NothingSaved DEF EventsInv
<1>4. CASE LeaveList
  <2>1. /\ shown' = FALSE /\ list' = FreshList /\ loads' = NoLoads
        /\ exports' = [x \in ExportSlots |-> [exports[x] EXCEPT !.mine = FALSE]]
        /\ produced' = produced /\ NoDownload
    BY <1>4 DEF LeaveList
  <2>2. ASSUME NEW x \in ExportSlots
        PROVE  /\ exports'[x] \in Export /\ exports'[x].mine = FALSE
               /\ exports'[x].running = exports[x].running
               /\ exports'[x].query = exports[x].query /\ exports'[x].offset = exports[x].offset
               /\ exports'[x].pages = exports[x].pages /\ exports'[x].events = exports[x].events
               /\ exports'[x].since = exports[x].since
    <3>1. exports[x] \in Export /\ exports'[x] = [exports[x] EXCEPT !.mine = FALSE]
      BY <1>2, <2>1
    <3> QED BY <3>1 DEF Export
  <2>3. exports' \in [ExportSlots -> Export] BY <2>1, <2>2
  <2>4. PageTyped' BY <1>2, <2>1, <2>3, FreshFacts DEF PageTyped
  <2>5. LoadsFit' BY <2>1 DEF LoadsFit
  <2>6. ExportsFit'
    <3>1. SUFFICES ASSUME NEW x \in ExportSlots
                   PROVE  IF exports'[x].running THEN ExportFits(exports'[x], produced)
                          ELSE exports'[x].events = <<>>
      BY <2>1 DEF ExportsFit, Running
    <3>2. IF exports[x].running THEN ExportFits(exports[x], produced) ELSE exports[x].events = <<>>
      BY <1>1 DEF ExportsFit, Running
    <3> QED BY <2>2, <3>2, FitsSame
  <2>7. ExportInReach'
    <3>1. list'.exporting = FALSE BY <2>1, FreshFacts
    <3>2. \A x \in ExportSlots : exports'[x].mine = FALSE BY <2>2
    <3> QED BY <3>1, <3>2 DEF ExportInReach, Running
  <2> QED BY <2>1, <2>4, <2>5, <2>6, <2>7, NothingSaved DEF EventsInv
<1>5. CASE ListGrows
  <2>1. /\ produced < Len(Log) /\ produced' = produced + 1 /\ NoDownload
        /\ shown' = shown /\ list' = list /\ loads' = loads /\ exports' = exports
    BY <1>5 DEF ListGrows, Produced
  <2>2. produced' \in 0 .. Len(Log)
    BY <1>2, <2>1, LogAssumption
  <2>3. PageTyped' BY <1>1, <2>1, <2>2 DEF PageTyped
  <2>4. LoadsFit' BY <1>1, <2>1 DEF LoadsFit
  <2>5. ExportsFit'
    <3>1. SUFFICES ASSUME NEW x \in ExportSlots
                   PROVE  IF exports[x].running THEN ExportFits(exports[x], produced + 1)
                          ELSE exports[x].events = <<>>
      BY <2>1 DEF ExportsFit, Running
    <3>2. exports[x] \in Export BY <1>2
    <3>3. IF exports[x].running THEN ExportFits(exports[x], produced) ELSE exports[x].events = <<>>
      BY <1>1 DEF ExportsFit, Running
    <3> QED BY <1>2, <2>1, <2>2, <3>2, <3>3, FitsAsItGrows
  <2>6. ExportInReach' BY <1>1, <2>1 DEF ExportInReach, Running
  <2> QED BY <2>1, <2>3, <2>4, <2>5, <2>6, NothingSaved DEF EventsInv
<1> QED BY <1>3, <1>4, <1>5

\* An export begins.
LEMMA ExportBegins ==
    ASSUME EventsInv, exportAll
    PROVE  EventsInv'
<1>1. /\ PageTyped /\ LoadsFit /\ ExportsFit /\ ExportInReach
      /\ produced \in 0 .. Len(Log) /\ exports \in [ExportSlots -> Export]
      /\ list \in ListState /\ MaxExports \in Nat
  BY EventsAssumption DEF EventsInv, PageTyped
<1> DEFINE q == [list.query EXCEPT !.limit = exportPageSize]
           e == [NoExport EXCEPT !.running = TRUE, !.query = q, !.mine = TRUE, !.since = produced]
<1>2. PICK x \in ExportSlots :
         /\ exports' = [y \in ExportSlots |->
                CASE y = x -> e
                  [] y # x /\ y = list.abort -> [exports[y] EXCEPT !.aborted = TRUE]
                  [] OTHER -> exports[y]]
         /\ list' = [list EXCEPT !.exporting = TRUE, !.abort = x]
  BY DEF exportAll
<1>3. /\ Usable /\ ~list.exporting /\ produced' = produced /\ shown' = shown /\ loads' = loads
      /\ NoDownload
  BY DEF exportAll
<1>4. q \in Query /\ q.limit = exportPageSize
  <2>1. list.query \in Query BY <1>1 DEF ListState
  <2> QED BY <2>1, EventsAssumption DEF Query
<1> HIDE DEF q
<1>5. /\ e \in Export /\ e.running = TRUE /\ e.mine = TRUE /\ e.query = q
      /\ e.offset = 0 /\ e.pages = 0 /\ e.events = <<>> /\ e.since = produced
  <2>1. produced \in Nat BY <1>1, LogAssumption
  <2>2. NoExport \in Export /\ NoExport.offset = 0 /\ NoExport.pages = 0 /\ NoExport.events = <<>>
    BY FreshFacts DEF NoExport
  <2> QED BY <1>4, <2>1, <2>2 DEF Export
<1> HIDE DEF e
<1>6. exports'[x] = e
  BY <1>2
<1>7. ASSUME NEW y \in ExportSlots, y # x
      PROVE  /\ exports'[y] \in Export
             /\ exports'[y].running = exports[y].running /\ exports'[y].mine = exports[y].mine
             /\ exports'[y].query = exports[y].query /\ exports'[y].offset = exports[y].offset
             /\ exports'[y].pages = exports[y].pages /\ exports'[y].events = exports[y].events
             /\ exports'[y].since = exports[y].since
  <2>1. exports[y] \in Export BY <1>1
  <2>2. exports'[y] = [exports[y] EXCEPT !.aborted = TRUE] \/ exports'[y] = exports[y]
    BY <1>2, <1>7
  <2> QED BY <2>1, <2>2 DEF Export
<1>8. /\ list' \in ListState /\ list'.exporting = TRUE /\ list'.abort = x
      /\ list'.loading = list.loading /\ list'.excused = list.excused /\ list'.for = list.for
  <2>1. x \in 0 .. MaxExports BY <1>1 DEF ExportSlots
  <2> QED BY <1>1, <1>2, <2>1 DEF ListState
<1>9. PageTyped'
  <2>1. \A y \in ExportSlots : exports'[y] \in Export BY <1>5, <1>6, <1>7
  <2>2. exports' \in [ExportSlots -> Export] BY <1>2, <2>1
  <2>3. shown BY <1>3 DEF Usable
  <2> QED BY <1>1, <1>3, <1>8, <2>2, <2>3 DEF PageTyped
<1>10. LoadsFit'
  BY <1>1, <1>3, <1>8 DEF LoadsFit
<1>11. ExportsFit'
  <2>1. SUFFICES ASSUME NEW y \in ExportSlots
                 PROVE  IF exports'[y].running THEN ExportFits(exports'[y], produced)
                        ELSE exports'[y].events = <<>>
    BY <1>3 DEF ExportsFit, Running
  <2>2. CASE y = x
    <3>1. ExportFits(e, produced) BY <1>1, <1>4, <1>5, FitsAtFirst
    <3> QED BY <1>5, <1>6, <2>2, <3>1
  <2>3. CASE y # x
    <3>1. IF exports[y].running THEN ExportFits(exports[y], produced) ELSE exports[y].events = <<>>
      BY <1>1 DEF ExportsFit, Running
    <3> QED BY <1>7, <2>3, <3>1, FitsSame
  <2> QED BY <2>2, <2>3
<1>12. ExportInReach'
  <2>1. \A y \in ExportSlots : ~ (exports[y].mine /\ exports[y].running)
    BY <1>1, <1>3 DEF ExportInReach, Running
  <2>2. \A y \in ExportSlots : (exports'[y].mine /\ exports'[y].running) <=> y = x
    BY <1>5, <1>6, <1>7, <2>1
  <2> QED BY <1>8, <2>2 DEF ExportInReach, Running
<1> QED BY <1>3, <1>9, <1>10, <1>11, <1>12, NothingSaved DEF EventsInv

\* The cancel button.
LEMMA ExportCancelled ==
    ASSUME EventsInv, cancelExport
    PROVE  EventsInv'
<1>1. /\ PageTyped /\ LoadsFit /\ ExportsFit /\ ExportInReach
      /\ exports \in [ExportSlots -> Export]
  BY DEF EventsInv, PageTyped
<1>2. /\ exports' = [exports EXCEPT ![list.abort].aborted = TRUE]
      /\ produced' = produced /\ shown' = shown /\ list' = list /\ loads' = loads /\ NoDownload
  BY DEF cancelExport
<1>3. ASSUME NEW y \in ExportSlots
      PROVE  /\ exports'[y] \in Export
             /\ exports'[y].running = exports[y].running /\ exports'[y].mine = exports[y].mine
             /\ exports'[y].query = exports[y].query /\ exports'[y].offset = exports[y].offset
             /\ exports'[y].pages = exports[y].pages /\ exports'[y].events = exports[y].events
             /\ exports'[y].since = exports[y].since
  <2>1. exports[y] \in Export BY <1>1
  <2>2. exports'[y] = [exports[y] EXCEPT !.aborted = TRUE] \/ exports'[y] = exports[y]
    BY <1>1, <1>2
  <2> QED BY <2>1, <2>2 DEF Export
<1>4. PageTyped'
  <2>1. exports' \in [ExportSlots -> Export] BY <1>1, <1>2, <1>3
  <2> QED BY <1>1, <1>2, <2>1 DEF PageTyped
<1>5. LoadsFit'
  BY <1>1, <1>2 DEF LoadsFit
<1>6. ExportsFit'
  <2>1. SUFFICES ASSUME NEW y \in ExportSlots
                 PROVE  IF exports'[y].running THEN ExportFits(exports'[y], produced)
                        ELSE exports'[y].events = <<>>
    BY <1>2 DEF ExportsFit, Running
  <2>2. IF exports[y].running THEN ExportFits(exports[y], produced) ELSE exports[y].events = <<>>
    BY <1>1 DEF ExportsFit, Running
  <2> QED BY <1>3, <2>2, FitsSame
<1>7. ExportInReach'
  BY <1>1, <1>2, <1>3 DEF ExportInReach, Running
<1> QED BY <1>2, <1>4, <1>5, <1>6, <1>7, NothingSaved DEF EventsInv
\* The finally block: the page stops saying that it exports if the export that
\* ends is its own.
LEMMA ExportCloses ==
    ASSUME EventsInv, NEW x \in ExportSlots, Running(x), CloseExport(x),
           produced' = produced, shown' = shown, loads' = loads
    PROVE  PageTyped' /\ LoadsFit' /\ ExportsFit' /\ ExportInReach'
<1>1. /\ PageTyped /\ LoadsFit /\ ExportsFit /\ ExportInReach
      /\ exports \in [ExportSlots -> Export] /\ list \in ListState
  BY DEF EventsInv, PageTyped
<1> DEFINE m == exports[x].mine
           g == list.exporting /\ ~m
           a == IF m /\ list.abort = x THEN 0 ELSE list.abort
<1>2. exports' = [exports EXCEPT ![x] = NoExport] /\ list' = [list EXCEPT !.exporting = g, !.abort = a]
  BY DEF CloseExport, EndExport
<1>3. /\ exports' \in [ExportSlots -> Export] /\ exports'[x] = NoExport
      /\ \A y \in ExportSlots \ {x} : exports'[y] = exports[y]
  BY <1>1, <1>2, FreshFacts
<1>4. m \in BOOLEAN /\ list.exporting \in BOOLEAN /\ list.abort \in 0 .. MaxExports /\ 0 \in 0 .. MaxExports
  <2>1. exports[x] \in Export BY <1>1
  <2> QED BY <1>1, <2>1, EventsAssumption DEF Export, ListState
<1>5. g \in BOOLEAN /\ (g <=> list.exporting /\ ~m)
  BY <1>4, Zenon
<1>6. a \in 0 .. MaxExports /\ (~m => a = list.abort)
  BY <1>4
<1>7. /\ ExportInReach
      /\ (exports[x].mine /\ Running(x)) => list.exporting
      /\ list.exporting => \A y \in ExportSlots : (exports[y].mine /\ Running(y)) <=> y = list.abort
      /\ ~list.exporting => \A y \in ExportSlots : ~(exports[y].mine /\ Running(y))
  BY <1>1 DEF ExportInReach
<1> HIDE DEF m, g, a
<1>8. /\ list' \in ListState /\ list'.exporting = g /\ list'.abort = a
      /\ list'.loading = list.loading /\ list'.excused = list.excused /\ list'.for = list.for
  BY <1>1, <1>2, <1>5, <1>6 DEF ListState
<1>9. ~m => list' = list
  <2>1. ASSUME ~m PROVE g = list.exporting /\ a = list.abort
    BY <1>4, <1>5, <1>6, <2>1
  <2>2. [list EXCEPT !.exporting = list.exporting, !.abort = list.abort] = list
    BY <1>1 DEF ListState
  <2> QED BY <1>2, <2>1, <2>2
<1>10. ~shown => ~m
  <2>1. SUFFICES ASSUME ~shown PROVE ~m OBVIOUS
  <2>2. list.exporting = FALSE BY <1>1, <2>1, FreshFacts DEF PageTyped
  <2> QED BY <1>7, <2>2 DEF m
<1>11. PageTyped'
  BY <1>1, <1>3, <1>8, <1>9, <1>10 DEF PageTyped
<1>12. LoadsFit'
  BY <1>1, <1>8 DEF LoadsFit
<1>13. ExportsFit'
  <2>1. SUFFICES ASSUME NEW y \in ExportSlots
                 PROVE  IF exports'[y].running THEN ExportFits(exports'[y], produced)
                        ELSE exports'[y].events = <<>>
    BY DEF ExportsFit, Running
  <2>2. CASE y = x
    BY <1>3, <2>2, FreshFacts
  <2>3. CASE y # x
    BY <1>1, <1>3, <2>3 DEF ExportsFit, Running
  <2> QED BY <2>2, <2>3
<1>14. ExportInReach'
  <2>1. \A y \in ExportSlots : (exports'[y].mine /\ exports'[y].running) <=>
                               (y # x /\ exports[y].mine /\ exports[y].running)
    BY <1>3, FreshFacts
  <2>2. CASE m
    <3>1. list.exporting /\ x = list.abort BY <1>7, <2>2 DEF m
    <3>2. \A y \in ExportSlots : (exports[y].mine /\ exports[y].running) <=> y = x
      BY <1>7, <3>1 DEF Running
    <3>3. ~list'.exporting BY <1>5, <1>8, <2>2
    <3> QED BY <2>1, <3>2, <3>3 DEF ExportInReach, Running
  <2>3. CASE ~m
    <3>1. \A y \in ExportSlots : (exports'[y].mine /\ exports'[y].running) <=>
                                 (exports[y].mine /\ exports[y].running)
      BY <2>1, <2>3 DEF m
    <3>2. list' = list BY <1>9, <2>3
    <3> HIDE DEF m
    <3> QED BY <1>1, <3>1, <3>2 DEF ExportInReach, Running
  <2> QED BY <2>2, <2>3
<1> QED BY <1>11, <1>12, <1>13, <1>14

\* A page of an export arrives, or its call fails.
LEMMA ExportGoesOn ==
    ASSUME EventsInv, NEW x \in ExportSlots, Collect(x) \/ CollectFailed(x)
    PROVE  EventsInv'
<1>1. /\ PageTyped /\ LoadsFit /\ ExportsFit /\ ExportInReach /\ produced \in 0 .. Len(Log)
      /\ exports \in [ExportSlots -> Export] /\ exports[x] \in Export
  BY DEF EventsInv, PageTyped
<1>2. Running(x) /\ produced' = produced /\ shown' = shown /\ loads' = loads
  BY DEF Collect, CollectFailed
<1>3. CASE CollectFailed(x)
  <2>1. CloseExport(x) /\ NoDownload
    BY <1>3 DEF CollectFailed
  <2> QED BY <1>2, <2>1, ExportCloses, NothingSaved DEF EventsInv
<1>4. CASE Collect(x)
  <2> DEFINE e == exports[x]
             answer == getIndexerEvents(e.query, e.offset)
             total == Len(filterEvents(e.query))
             got == [e EXCEPT !.events = @ \o answer.events, !.pages = @ + 1]
             more == answer.hasMore /\ got.pages < maxPages /\ answer.events # <<>>
             state == IF total > maxRecords \/ Len(got.events) > maxRecords THEN "too many"
                      ELSE Outcome(got, more)
             d == [got EXCEPT !.offset = NextOffset(got)]
  <2>1. IF state = "fetching"
        THEN exports' = [exports EXCEPT ![x] = d] /\ list' = list /\ NoDownload
        ELSE CloseExport(x) /\ file' = IF state = "saved" THEN Saved(got) ELSE NoFile
    BY <1>4 DEF Collect
  <2>2. e \in Export /\ ExportFits(e, produced)
    BY <1>1, <1>2 DEF ExportsFit
  <2>3. /\ e.query \in Query /\ e.offset \in Nat /\ e.pages \in Nat /\ e.events \in Seq(Nat)
        /\ e.since \in Nat /\ e.query.limit = exportPageSize /\ e.since <= produced
        /\ e.running = TRUE /\ e.mine \in BOOLEAN /\ e.aborted \in BOOLEAN
    BY <1>2, <2>2 DEF Export, ExportFits, PagesFull, Running
  <2> HIDE DEF answer, total
  <2>4. /\ d.query = e.query /\ d.since = e.since /\ d.pages = e.pages + 1
        /\ d.events = e.events \o answer.events /\ d.offset = Len(d.events)
        /\ d.running = TRUE /\ d.mine = e.mine /\ d.aborted = e.aborted
        /\ got.query = e.query /\ got.since = e.since /\ got.pages = e.pages + 1
        /\ got.events = e.events \o answer.events /\ got.aborted = e.aborted
    BY <2>2, <2>3 DEF Export, NextOffset
  <2> HIDE DEF e, d, got
  <2>5. /\ d.events \in Seq(Nat) /\ Len(d.events) <= total
        /\ Oldest(d, produced) /\ Newest(d, produced) /\ OfTheLog(d, produced)
        /\ answer.hasMore \in BOOLEAN
        /\ answer.hasMore => /\ answer.events # <<>>
                             /\ Len(d.events) = (e.pages + 1) * exportPageSize
        /\ ~answer.hasMore => Len(d.events) = total
    BY <1>1, <2>2, <2>4, PageArrives DEF answer, total
  <2>6. CASE state = "fetching"
    <3>1. answer.hasMore
      BY <2>6 DEF Outcome
    <3>2. exports' = [exports EXCEPT ![x] = d] /\ list' = list /\ NoDownload
      BY <2>1, <2>6
    <3>3. d \in Export
      <4>1. Len(d.events) \in Nat /\ e.pages + 1 \in Nat BY <2>3, <2>5
      <4>2. d = [e EXCEPT !.events = e.events \o answer.events, !.pages = e.pages + 1, !.offset = Len(d.events)]
        BY <2>2, <2>4 DEF d, got, NextOffset, Export
      <4> QED BY <2>2, <2>3, <2>4, <2>5, <4>1, <4>2 DEF Export
    <3>4. ExportFits(d, produced)
      <4>1. PagesFull(d, produced)
        <5>1. d.offset = d.pages * exportPageSize BY <2>4, <2>5, <3>1
        <5>2. d.offset <= Len(Filtered(d.query)[produced]) BY <2>4, <2>5 DEF total, filterEvents
        <5> QED BY <2>3, <2>4, <5>1, <5>2 DEF PagesFull
      <4> QED BY <2>5, <4>1 DEF ExportFits
    <3>5. /\ exports' \in [ExportSlots -> Export] /\ exports'[x] = d
          /\ \A y \in ExportSlots \ {x} : exports'[y] = exports[y]
      BY <1>1, <3>2, <3>3
    <3>6. PageTyped' BY <1>1, <1>2, <3>2, <3>5 DEF PageTyped
    <3>7. LoadsFit' BY <1>1, <1>2, <3>2 DEF LoadsFit
    <3>8. ExportsFit'
      <4>1. SUFFICES ASSUME NEW y \in ExportSlots
                     PROVE  IF exports'[y].running THEN ExportFits(exports'[y], produced)
                            ELSE exports'[y].events = <<>>
        BY <1>2 DEF ExportsFit, Running
      <4>2. CASE y = x BY <2>4, <3>4, <3>5, <4>2
      <4>3. CASE y # x BY <1>1, <3>5, <4>3 DEF ExportsFit, Running
      <4> QED BY <4>2, <4>3
    <3>9. ExportInReach'
      <4>1. \A y \in ExportSlots : (exports'[y].mine /\ exports'[y].running) <=>
                                   (exports[y].mine /\ exports[y].running)
        BY <2>3, <2>4, <3>5 DEF e
      <4> QED BY <1>1, <3>2, <4>1 DEF ExportInReach, Running
    <3> QED BY <3>2, <3>6, <3>7, <3>8, <3>9, NothingSaved DEF EventsInv
  <2>7. CASE state = "saved"
    <3>1. /\ ~ (total > maxRecords \/ Len(got.events) > maxRecords)
          /\ Outcome(got, more) = "saved"
      BY <2>7
    <3>2. ~got.aborted /\ ~more
      BY <3>1 DEF Outcome
    <3>3. ~answer.hasMore
      <4>1. SUFFICES ASSUME answer.hasMore PROVE FALSE OBVIOUS
      <4>2. answer.events # <<>> /\ Len(got.events) = (e.pages + 1) * exportPageSize
        BY <2>4, <2>5, <4>1
      <4>3. ~ (e.pages + 1 < maxPages) BY <2>4, <3>2, <4>1, <4>2
      <4>4. \A n, k, m \in Nat : n >= k => n * m >= k * m OBVIOUS
      <4>5. e.pages + 1 \in Nat /\ maxPages \in Nat /\ exportPageSize \in Nat /\ maxRecords \in Nat
        BY <2>3, EventsAssumption
      <4>6. e.pages + 1 >= maxPages BY <4>3, <4>5
      <4>7. (e.pages + 1) * exportPageSize >= maxPages * exportPageSize BY <4>4, <4>5, <4>6
      <4>8. maxPages * exportPageSize > maxRecords BY EventsAssumption
      <4> DEFINE u == (e.pages + 1) * exportPageSize
                 v == maxPages * exportPageSize
      <4>9. u \in Nat /\ v \in Nat /\ u >= v /\ v > maxRecords BY <4>5, <4>7, <4>8
      <4>10. ~ (u > maxRecords) BY <3>1, <4>2
      <4> HIDE DEF u, v
      <4> QED BY <4>5, <4>9, <4>10
    <3>4. /\ {y \in Range(filterEvents(d.query)) : y <= d.since /\ ~Contains(d.events, y)} = {}
          /\ ~IsInjective(d.events) => d.query.order = "desc" /\ produced > d.since
      <4>1. Len(d.events) = Len(filterEvents(d.query)) BY <2>4, <2>5, <3>3 DEF total
      <4>2. d.query \in Query /\ d.since \in Nat /\ d.since <= produced BY <2>3, <2>4
      <4> QED BY <1>1, <2>4, <2>5, <4>1, <4>2, LastPageSaved
    <3>5. file' = Saved(got) /\ CloseExport(x)
      BY <2>1, <2>7
    <3>6. /\ file'.lacks = {y \in Range(filterEvents(got.query)) : y <= got.since /\ ~Contains(got.events, y)}
          /\ file'.repeats = ~IsInjective(got.events)
          /\ file'.moved = (got.query.order = "desc" /\ produced > got.since)
          /\ file'.cancelled = got.aborted
      BY <3>5 DEF Saved
    <3>7. got.query = d.query /\ got.since = d.since /\ got.events = d.events
      BY <2>4
    <3>8. ExportFaithful'
      <4>1. file'.lacks = {} BY <3>4, <3>6, <3>7
      <4>2. file'.repeats => file'.moved BY <3>4, <3>6, <3>7
      <4>3. ~file'.cancelled BY <3>2, <3>6
      <4> QED BY <4>1, <4>2, <4>3 DEF ExportFaithful, ExportComplete, ExportRepeatsExplained, CancelledNotSaved
    <3> QED BY <1>2, <3>5, <3>8, ExportCloses DEF EventsInv
  <2>8. CASE state # "fetching" /\ state # "saved"
    <3>1. CloseExport(x) /\ NoDownload
      BY <2>1, <2>8 DEF NoDownload
    <3> QED BY <1>2, <3>1, ExportCloses, NothingSaved DEF EventsInv
  <2> QED BY <2>6, <2>7, <2>8
<1> QED BY <1>3, <1>4

\* The page that nobody has opened.
LEMMA EventsInitially == produced = 0 /\ ListInit => EventsInv
<1> SUFFICES ASSUME produced = 0, ListInit PROVE EventsInv
  OBVIOUS
<1>1. /\ shown = FALSE /\ list = FreshList /\ loads = NoLoads
      /\ exports = [x \in ExportSlots |-> NoExport] /\ file = NoFile
  BY DEF ListInit
<1>2. produced \in 0 .. Len(Log)
  BY LogAssumption
<1>3. exports \in [ExportSlots -> Export] /\ \A x \in ExportSlots : exports[x] = NoExport
  BY <1>1, FreshFacts
<1>4. PageTyped
  BY <1>1, <1>2, <1>3, FreshFacts DEF PageTyped
<1>5. LoadsFit
  BY <1>1 DEF LoadsFit
<1>6. ExportsFit
  BY <1>3, FreshFacts DEF ExportsFit, Running
<1>7. ExportInReach
  BY <1>1, <1>3, FreshFacts DEF ExportInReach, Running
<1>8. ExportFaithful
  BY <1>1, FreshFacts DEF ExportFaithful, ExportComplete, ExportRepeatsExplained, CancelledNotSaved
<1> QED BY <1>4, <1>5, <1>6, <1>7, <1>8 DEF EventsInv

\* Every step of the page keeps the invariant.
LEMMA EventsStep ==
    ASSUME EventsInv, [PagingNext \/ ExportNext]_<<produced, listVars>>
    PROVE  EventsInv'
<1>1. CASE PagingNext
  <2>1. CASE \E i \in LoadSlots : LoadAnswered(i) \/ LoadFailed(i)
    BY <2>1, LoadEnds
  <2>2. CASE FilterNext \/ RefreshList \/ PrevPage \/ NextPage \/ RerunLoad
    BY <2>2, ControlsKeep
  <2>3. CASE ShowList \/ LeaveList \/ ListGrows
    BY <2>3, ComingAndGoing
  <2> QED BY <1>1, <2>1, <2>2, <2>3, Zenon DEF PagingNext
<1>2. CASE ExportNext
  <2>1. CASE \E x \in ExportSlots : Collect(x) \/ CollectFailed(x)
    BY <2>1, ExportGoesOn
  <2> QED BY <1>2, <2>1, ExportBegins, ExportCancelled, Zenon DEF ExportNext
<1>3. CASE UNCHANGED <<produced, listVars>>
  <2>1. /\ produced' = produced /\ shown' = shown /\ list' = list /\ loads' = loads
        /\ exports' = exports /\ file' = file
    BY <1>3 DEF listVars
  <2>2. PageTyped /\ LoadsFit /\ ExportsFit /\ ExportInReach /\ ExportFaithful
    BY DEF EventsInv
  <2>3. PageTyped' BY <2>1, <2>2 DEF PageTyped
  <2>4. LoadsFit' BY <2>1, <2>2 DEF LoadsFit
  <2>5. ExportsFit' /\ ExportInReach' BY <2>1, <2>2, ExportsApart
  <2>6. ExportFaithful'
    BY <2>1, <2>2 DEF ExportFaithful, ExportComplete, ExportRepeatsExplained, CancelledNotSaved
  <2> QED BY <2>3, <2>4, <2>5, <2>6 DEF EventsInv
<1> QED BY <1>1, <1>2, <1>3

\* The rows shown answer the page and the filters above them, and the page says
\* it is exporting exactly while its own export, the one its cancel button
\* stops, is under way, for every log, page size and number of calls at once.
THEOREM ListCorrect == ListSpec => []ListSafe
<1>1. EventsInv => ListSafe
  BY EventsInvGives
<1> QED BY <1>1, EventsInitially, EventsStep, PTL DEF ListSpec

\* A saved export has every event that matched when it began, has one twice only
\* where the pages moved, and was not cancelled: it holds because maxPages full
\* pages are more than maxRecords, so that the last page is never one that
\* the limit of pages cut off.
THEOREM ExportCorrect == ListSpec => []ExportFaithful
<1>1. EventsInv => ExportFaithful
  BY EventsInvGives
<1> QED BY <1>1, EventsInitially, EventsStep, PTL DEF ListSpec

(***************************************************************************)
(* The popup of the extension.                                             *)
(***************************************************************************)

\* A non-empty set of positions has a last one.
LEMMA LastPosition ==
    ASSUME NEW n \in Nat, NEW T, T \subseteq 1 .. n, T # {}
    PROVE  Max(T) \in T /\ \A y \in T : y <= Max(T)
<1> DEFINE U == {n - y : y \in T}
<1>1. U \subseteq Nat /\ U # {}
  <2>1. ASSUME NEW y \in T PROVE n - y \in Nat
    <3>1. y \in 1 .. n
      OBVIOUS
    <3> QED BY <3>1
  <2>2. U \subseteq Nat
    BY <2>1, Zenon
  <2>3. U # {}
    BY Zenon
  <2> QED BY <2>2, <2>3
<1>2. PICK x \in U : \A y \in U : x <= y
  BY <1>1, LeastNatural
<1>3. PICK m \in T : x = n - m
  BY <1>2
<1>4. ASSUME NEW y \in T PROVE m >= y
  <2>1. n - y \in U
    OBVIOUS
  <2>2. n - m <= n - y
    BY <1>2, <1>3, <2>1, Zenon
  <2> QED BY <2>2
<1>5. \E z \in T : \A y \in T : z >= y
  BY <1>4
<1>6. Max(T) \in T /\ \A y \in T : Max(T) >= y
  BY <1>5 DEF Max
<1> QED BY <1>6

Routes == [id : Screens, item : {NoItem} \cup Tokens \cup Activities]
SendIds == {"SendToken", "SendAddress", "SendAmount", "SendConfirm"}
Modals == Panels \cup SendIds

\* How the screens are presented and closed, one by one.
LEMMA ScreenFacts ==
    /\ SendScreens = SendIds
    /\ SendSteps[1] = "SendToken" /\ SendSteps[2] = "SendAddress"
    /\ SendSteps[3] = "SendAmount" /\ SendSteps[4] = "SendConfirm"
    /\ Screens = {"Tabs", "Search"} \cup Details \cup Modals
    /\ \A id \in Screens : /\ presentation[id] = "push" <=> id \in {"Tabs"} \cup Details
                           /\ presentation[id] = "transparentModal" <=> id = "Search"
                           /\ presentation[id] = "modal" <=> id \in Modals
                           /\ closeBehavior(id) = "none" <=> id \notin SendIds
                           /\ closeBehavior(id) # "go-back"
<1>1. /\ SendSteps[1] = "SendToken" /\ SendSteps[2] = "SendAddress"
      /\ SendSteps[3] = "SendAmount" /\ SendSteps[4] = "SendConfirm"
  BY DEF SendSteps
<1>2. SendScreens = {SendSteps[1], SendSteps[2], SendSteps[3], SendSteps[4]}
  <2>1. 1 .. 4 = {1, 2, 3, 4}
    OBVIOUS
  <2> HIDE DEF SendSteps
  <2> QED BY <2>1 DEF SendScreens
<1>3. SendScreens = SendIds
  BY <1>1, <1>2 DEF SendIds
<1>4. Screens = {"Tabs", "Search"} \cup Details \cup Modals
  BY <1>3 DEF Screens, Modals
<1>5. ASSUME NEW id \in Screens
      PROVE  /\ presentation[id] = "push" <=> id \in {"Tabs"} \cup Details
             /\ presentation[id] = "transparentModal" <=> id = "Search"
             /\ presentation[id] = "modal" <=> id \in Modals
             /\ closeBehavior(id) = "none" <=> id \notin SendIds
             /\ closeBehavior(id) # "go-back"
  <2>1. presentation[id] = IF id \in {"Tabs"} \cup Details THEN "push"
                           ELSE IF id = "Search" THEN "transparentModal" ELSE "modal"
    BY DEF presentation
  <2>2. closeBehavior(id) = IF id = "SendToken" THEN "reset"
                            ELSE IF id \in SendIds THEN "pop-root-twice" ELSE "none"
    BY <1>3 DEF closeBehavior
  <2>3. id \in {"Tabs", "Search"} \cup Details \cup Modals
    BY <1>4
  <2>4. id \in Modals => id \notin {"Tabs", "Search"} \cup Details
    BY DEF Modals, Panels, SendIds, Details
  <2>5. "Search" \notin {"Tabs"} \cup Details
    BY DEF Details
  <2>6. "SendToken" \in SendIds
    BY DEF SendIds
  <2> HIDE DEF presentation, closeBehavior
  <2>7. /\ presentation[id] = "push" <=> id \in {"Tabs"} \cup Details
        /\ presentation[id] = "transparentModal" <=> id = "Search"
        /\ presentation[id] = "modal" <=> id \in Modals
    BY <2>1, <2>3, <2>4, <2>5
  <2>8. (closeBehavior(id) = "none" <=> id \notin SendIds) /\ closeBehavior(id) # "go-back"
    BY <2>2, <2>6
  <2> QED BY <2>7, <2>8
<1> QED BY <1>1, <1>3, <1>4, <1>5

\* Which screen holds a control.
LEMMA ControlFacts ==
    ASSUME NEW id \in {"Unlock"} \cup Screens
    PROVE  /\ "tab" \in Controls[id] => id = "Tabs"
           /\ "settings" \in Controls[id] => id = "Tabs"
           /\ "wallet-drawer" \in Controls[id] => id = "Tabs"
           /\ "avatar" \in Controls[id] => id = "Tabs"
           /\ "open-receive" \in Controls[id] => id = "Tabs"
           /\ "open-send" \in Controls[id] => id = "Tabs"
           /\ "back" \in Controls[id] => id \in Details
           /\ "select-wallet" \in Controls[id] => id = "WalletDrawer"
           /\ "open-settings" \in Controls[id] => id = "AvatarPopover"
           /\ "lock" \in Controls[id] => id \in {"AvatarPopover", "Settings"}
           /\ "unlock" \in Controls[id] => id = "Unlock"
           /\ "close" \in Controls[id] => id \in Panels \cup {"SendToken", "Search"}
           /\ "select-send-token" \in Controls[id] => id = "SendToken"
           /\ "close-send" \in Controls[id] => id = "SendToken"
           /\ "send-to" \in Controls[id] => id = "SendAddress"
           /\ "send-amount" \in Controls[id] => id = "SendAmount"
           /\ "send-memo" \in Controls[id] => id = "SendAmount"
           /\ "send-prev" \in Controls[id] => id \in SendIds \ {"SendToken"}
           /\ "send-submit" \in Controls[id] => id = "SendConfirm"
<1>1. id \in {"Unlock", "Tabs", "Search"} \cup Details \cup Panels \cup SendIds
  BY ScreenFacts DEF Modals
<1>2. Controls[id] = CASE id = "Unlock" -> renderLockedScreen
      [] id = "Tabs" -> renderTabsScreen
      [] id \in Details -> renderDetailScreens
      [] id = "WalletDrawer" -> renderWalletDrawer
      [] id = "AvatarPopover" -> renderAvatarPopover
      [] id = "Settings" -> renderSettings
      [] id = "Receive" -> renderReceive
      [] id = "SendToken" -> renderSendTokenScreen
      [] id = "SendAddress" -> renderSendAddressScreen
      [] id = "SendAmount" -> renderSendAmountScreen
      [] id = "SendConfirm" -> renderSendConfirmScreen
      [] id = "Search" -> renderTransparentModal
  BY DEF Controls
<1> HIDE DEF Controls
<1>3. CASE id = "Unlock"
  <2>1. id \notin Details BY <1>3 DEF Details
  <2>2. Controls[id] = renderLockedScreen BY <1>2, <1>3, <2>1
  <2> QED BY <1>3, <2>2 DEF renderLockedScreen
<1>4. CASE id = "Tabs"
  <2>1. id \notin Details BY <1>4 DEF Details
  <2>2. Controls[id] = renderTabsScreen BY <1>2, <1>4, <2>1
  <2> QED BY <1>4, <2>2 DEF renderTabsScreen
<1>5. CASE id \in Details
  <2>1. id \notin {"Unlock", "Tabs", "Search"} \cup Panels \cup SendIds
    BY <1>5 DEF Details, Panels, SendIds
  <2>2. Controls[id] = renderDetailScreens BY <1>2, <1>5, <2>1 DEF Panels, SendIds
  <2> QED BY <1>5, <2>2 DEF renderDetailScreens
<1>6. CASE id = "WalletDrawer"
  <2>1. id \notin Details BY <1>6 DEF Details
  <2>2. Controls[id] = renderWalletDrawer BY <1>2, <1>6, <2>1
  <2> QED BY <1>6, <2>2 DEF renderWalletDrawer, Panels, SendIds
<1>7. CASE id = "AvatarPopover"
  <2>1. id \notin Details BY <1>7 DEF Details
  <2>2. Controls[id] = renderAvatarPopover BY <1>2, <1>7, <2>1
  <2> QED BY <1>7, <2>2 DEF renderAvatarPopover, Panels, SendIds
<1>8. CASE id = "Settings"
  <2>1. id \notin Details BY <1>8 DEF Details
  <2>2. Controls[id] = renderSettings BY <1>2, <1>8, <2>1
  <2> QED BY <1>8, <2>2 DEF renderSettings, Panels, SendIds
<1>9. CASE id = "Receive"
  <2>1. id \notin Details BY <1>9 DEF Details
  <2>2. Controls[id] = renderReceive BY <1>2, <1>9, <2>1
  <2> QED BY <1>9, <2>2 DEF renderReceive, Panels, SendIds
<1>10. CASE id = "SendToken"
  <2>1. id \notin Details BY <1>10 DEF Details
  <2>2. Controls[id] = renderSendTokenScreen BY <1>2, <1>10, <2>1
  <2> QED BY <1>10, <2>2 DEF renderSendTokenScreen, Panels, SendIds
<1>11. CASE id = "SendAddress"
  <2>1. id \notin Details BY <1>11 DEF Details
  <2>2. Controls[id] = renderSendAddressScreen BY <1>2, <1>11, <2>1
  <2> QED BY <1>11, <2>2 DEF renderSendAddressScreen, Panels, SendIds
<1>12. CASE id = "SendAmount"
  <2>1. id \notin Details BY <1>12 DEF Details
  <2>2. Controls[id] = renderSendAmountScreen BY <1>2, <1>12, <2>1
  <2> QED BY <1>12, <2>2 DEF renderSendAmountScreen, Panels, SendIds
<1>13. CASE id = "SendConfirm"
  <2>1. id \notin Details BY <1>13 DEF Details
  <2>2. Controls[id] = renderSendConfirmScreen BY <1>2, <1>13, <2>1
  <2> QED BY <1>13, <2>2 DEF renderSendConfirmScreen, Panels, SendIds
<1>14. CASE id = "Search"
  <2>1. id \notin Details BY <1>14 DEF Details
  <2>2. Controls[id] = renderTransparentModal BY <1>2, <1>14, <2>1
  <2> QED BY <1>14, <2>2 DEF renderTransparentModal, Panels, SendIds
<1> QED BY <1>1, <1>3, <1>4, <1>5, <1>6, <1>7, <1>8, <1>9, <1>10, <1>11, <1>12, <1>13, <1>14 DEF Panels, SendIds
\* The shape of a stack of routes: the root, at most one detail screen with
\* only the search above it, overlays, one search, wizard steps in order.
Typed(s) == s \in Seq(Routes) /\ Len(s) \in 1 .. MaxStack /\ s[1] = rootRoute
Layered(s) == \A i \in 2 .. Len(s) : /\ s[i].id # "Tabs"
                                     /\ s[i].id \in Details => i = 2
DetailAlone(s) == \A i \in 3 .. Len(s) : s[2].id \in Details => s[i].id = "Search"
Opened(s) == \A i \in 1 .. Len(s) : /\ s[i].id = "TokenDetail" => s[i].item \in Tokens
                                    /\ s[i].id = "ActivityDetail" => s[i].item \in Activities
OneSearch(s) == \A i, j \in 1 .. Len(s) : s[i].id = "Search" /\ s[j].id = "Search" => i = j
InOrder(s) ==
    \A i \in 1 .. Len(s) : \A k \in 2 .. 4 :
       s[i].id = SendSteps[k] =>
          \E j \in 1 .. i-1 : /\ s[j].id = SendSteps[k - 1]
                              /\ \A m \in j+1 .. i-1 : s[m].id \notin SendScreens
Shaped(s) == /\ Typed(s) /\ Layered(s) /\ DetailAlone(s) /\ Opened(s)
             /\ OneSearch(s) /\ InOrder(s)

\* The base of a shaped stack is the detail screen above the root, if any.
LEMMA BaseOf ==
    ASSUME NEW s, Shaped(s)
    PROVE  BaseIndex(s) = IF Len(s) >= 2 /\ s[2].id \in Details THEN 2 ELSE 1
<1> DEFINE T == {1} \cup {i \in 1 .. Len(s) : presentation[s[i].id] = "push"}
<1>1. /\ s \in Seq(Routes) /\ Len(s) \in Nat /\ Len(s) >= 1
      /\ s[1].id = "Tabs"
  BY DEF Shaped, Typed, rootRoute, Route
<1>2. \A i \in 1 .. Len(s) : s[i].id \in Screens
  <2>1. \A i \in 1 .. Len(s) : s[i] \in Routes
    BY <1>1
  <2>2. \A r \in Routes : r.id \in Screens
    BY DEF Routes
  <2> QED BY <2>1, <2>2, Zenon
<1>3. T \subseteq 1 .. Len(s) /\ 1 \in T
  BY <1>1
<1>4. Max(T) \in T /\ \A y \in T : y <= Max(T)
  <2> HIDE DEF T
  <2>1. T # {} BY <1>3
  <2> QED BY <1>1, <1>3, <2>1, LastPosition
<1>5. ASSUME NEW i \in 2 .. Len(s) PROVE i \in T <=> i = 2 /\ s[2].id \in Details
  <2>1. i \in T <=> presentation[s[i].id] = "push"
    BY SMT
  <2>2. presentation[s[i].id] = "push" <=> s[i].id \in Details
    <3>1. s[i].id \in Screens BY <1>2
    <3>2. s[i].id # "Tabs" BY DEF Shaped, Layered
    <3> QED BY <3>1, <3>2, ScreenFacts
  <2>3. s[i].id \in Details => i = 2
    BY DEF Shaped, Layered
  <2> QED BY <2>1, <2>2, <2>3
<1>6. BaseIndex(s) = Max(T)
  BY DEF BaseIndex
<1> HIDE DEF T
<1>9. Max(T) \in 1 .. Len(s)
  BY <1>3, <1>4, Zenon
<1>7. CASE Len(s) >= 2 /\ s[2].id \in Details
  <2>1. 2 \in T BY <1>1, <1>5, <1>7
  <2>2. Max(T) >= 2 BY <2>1, <1>4
  <2>3. Max(T) \in 2 .. Len(s) BY <2>2, <1>9, <1>1
  <2>4. Max(T) = 2 BY <2>3, <1>4, <1>5
  <2> QED BY <1>6, <1>7, <2>4
<1>8. CASE ~ (Len(s) >= 2 /\ s[2].id \in Details)
  <2>1. Max(T) \notin 2 .. Len(s) BY <1>1, <1>4, <1>5, <1>8
  <2>2. Max(T) = 1 BY <2>1, <1>1, <1>9
  <2> QED BY <1>6, <1>8, <2>2
<1> QED BY <1>7, <1>8

\* What lies above the base is an overlay.
LEMMA AboveBase ==
    ASSUME NEW s, Shaped(s), NEW i \in BaseIndex(s) + 1 .. Len(s)
    PROVE  /\ i \in 2 .. Len(s)
           /\ s[i].id \in Modals \cup {"Search"}
           /\ presentation[s[i].id] = "modal" <=> s[i].id \in Modals
           /\ presentation[s[i].id] = "transparentModal" <=> s[i].id = "Search"
<1>1. BaseIndex(s) = IF Len(s) >= 2 /\ s[2].id \in Details THEN 2 ELSE 1
  BY BaseOf
<1>2. s \in Seq(Routes) /\ Len(s) \in Nat
  BY DEF Shaped, Typed
<1>3. i \in 2 .. Len(s)
  BY <1>1, <1>2
<1>4. s[i].id \in Screens
  <2>1. s[i] \in Routes
    BY <1>2, <1>3
  <2> QED BY <2>1 DEF Routes
<1>5. s[i].id # "Tabs" /\ (s[i].id \in Details => i = 2)
  BY <1>3 DEF Shaped, Layered
<1>6. s[i].id \notin Details
  BY <1>1, <1>2, <1>3, <1>5
<1> QED BY <1>3, <1>4, <1>5, <1>6, ScreenFacts

\* The modal that is shown: the last one, with only the search above it, and
\* never over a detail screen.
ModalAt(s, id, j) == /\ j \in 2 .. Len(s) /\ s[j].id = id /\ id \in Modals
                     /\ \A m \in j+1 .. Len(s) : s[m].id = "Search"
                     /\ BaseIndex(s) = 1
LEMMA ModalIsLast ==
    ASSUME NEW s, Shaped(s), NEW id \in LastOverlay(s, "modal")
    PROVE  \E j \in 2 .. Len(s) : ModalAt(s, id, j)
<1> DEFINE over == {i \in BaseIndex(s) + 1 .. Len(s) : presentation[s[i].id] = "modal"}
<1>1. over # {} /\ id = s[Max(over)].id
  BY DEF LastOverlay
<1>2. Len(s) \in Nat /\ BaseIndex(s) \in {1, 2}
  BY BaseOf DEF Shaped, Typed
<1>3. over \subseteq 1 .. Len(s)
  BY <1>2
<1>4. Max(over) \in over /\ \A y \in over : y <= Max(over)
  <2> HIDE DEF over
  <2> QED BY <1>1, <1>2, <1>3, LastPosition
<1> DEFINE j == Max(over)
<1>5. j \in BaseIndex(s) + 1 .. Len(s) /\ presentation[s[j].id] = "modal"
  BY <1>4
<1>6. \A y \in BaseIndex(s) + 1 .. Len(s) : presentation[s[y].id] = "modal" => y <= j
  BY <1>4
<1> HIDE DEF j
<1>7. j \in 2 .. Len(s) /\ s[j].id \in Modals
  BY <1>5, AboveBase
<1>8. ASSUME NEW m \in j+1 .. Len(s) PROVE s[m].id = "Search"
  <2>1. m \in BaseIndex(s) + 1 .. Len(s) /\ ~ (m <= j)
    BY <1>2, <1>5
  <2>2. presentation[s[m].id] # "modal"
    BY <1>6, <2>1
  <2> QED BY <2>1, <2>2, AboveBase
<1>9. BaseIndex(s) = 1
  <2>1. SUFFICES ASSUME BaseIndex(s) = 2 PROVE FALSE
    BY <1>2
  <2>2. s[2].id \in Details BY <2>1, BaseOf
  <2>3. j \in 3 .. Len(s) BY <1>5, <2>1, <1>2
  <2>4. s[j].id = "Search" BY <2>2, <2>3 DEF Shaped, DetailAlone
  <2>5. "Search" \notin Modals BY DEF Modals, Panels, SendIds
  <2> QED BY <1>7, <2>4, <2>5
<1>10. ModalAt(s, id, j)
  BY <1>1, <1>7, <1>8, <1>9 DEF ModalAt, j
<1> QED BY <1>7, <1>10

\* The search is shown exactly when it is on the stack.
LEMMA SearchShown ==
    ASSUME NEW s, Shaped(s)
    PROVE  /\ LastOverlay(s, "transparentModal") \subseteq {"Search"}
           /\ LastOverlay(s, "transparentModal") = {} =>
                 \A i \in 1 .. Len(s) : s[i].id # "Search"
<1> DEFINE over == {i \in BaseIndex(s) + 1 .. Len(s) : presentation[s[i].id] = "transparentModal"}
<1>2. Len(s) \in Nat /\ BaseIndex(s) \in {1, 2}
  BY BaseOf DEF Shaped, Typed
<1>3. over \subseteq 1 .. Len(s)
  BY <1>2
<1>4. over # {} => Max(over) \in over
  <2> HIDE DEF over
  <2> QED BY <1>2, <1>3, LastPosition
<1>5. over # {} => s[Max(over)].id = "Search"
  BY <1>4, AboveBase
<1>6. LastOverlay(s, "transparentModal") = IF over = {} THEN {} ELSE {s[Max(over)].id}
  BY DEF LastOverlay
<1>7. ASSUME over = {}, NEW i \in 1 .. Len(s) PROVE s[i].id # "Search"
  <2>1. CASE i \in BaseIndex(s) + 1 .. Len(s)
    BY <1>7, <2>1, AboveBase
  <2>2. CASE i = 1
    BY <2>2 DEF Shaped, Typed, rootRoute, Route
  <2>3. CASE i = 2 /\ BaseIndex(s) = 2
    <3>1. s[2].id \in Details BY <2>3, BaseOf
    <3> QED BY <2>3, <3>1 DEF Details
  <2> QED BY <1>2, <2>1, <2>2, <2>3
<1> HIDE DEF over
<1> QED BY <1>5, <1>6, <1>7

\* Where nothing covers the base, it is on top.
LEMMA UncoveredIsTop ==
    ASSUME NEW s, Shaped(s), LastOverlay(s, "modal") = {}, LastOverlay(s, "transparentModal") = {}
    PROVE  BaseIndex(s) = Len(s)
<1>1. Len(s) \in Nat /\ Len(s) >= 1 /\ BaseIndex(s) \in 1 .. Len(s)
  BY BaseOf DEF Shaped, Typed
<1>2. SUFFICES ASSUME Len(s) \in BaseIndex(s) + 1 .. Len(s) PROVE FALSE
  BY <1>1
<1>3. s[Len(s)].id # "Search"
  BY <1>1, SearchShown
<1>4. presentation[s[Len(s)].id] = "modal"
  BY <1>2, <1>3, AboveBase
<1> QED BY <1>2, <1>4 DEF LastOverlay
\* The confirmation is the last screen of the wizard on the stack.
Exposed(s) == \E i \in 1 .. Len(s) : /\ s[i].id = "SendConfirm"
                                     /\ \A m \in i+1 .. Len(s) : s[m].id \notin SendScreens

\* What the ways of closing leave: the first n routes, the base among them
\* unless the base itself was closed, and no older confirmation uncovered.
FirstOf(s, t, n) == t \in Seq(Routes) /\ Len(t) = n /\ \A i \in 1 .. n : t[i] = s[i]
Closed(s, t) == /\ \E n \in 1 .. Len(s) : /\ FirstOf(s, t, n)
                                          /\ BaseIndex(s) = Len(s) \/ n >= BaseIndex(s)
                /\ Exposed(t) => Exposed(s)

\* The first routes of a shaped stack are a shaped stack.
LEMMA FirstShaped ==
    ASSUME NEW s, Shaped(s), NEW n \in 1 .. Len(s), NEW t, FirstOf(s, t, n)
    PROVE  /\ Shaped(t) /\ BaseIndex(t) <= BaseIndex(s)
           /\ n >= BaseIndex(s) => BaseIndex(t) = BaseIndex(s)
<1>1. /\ t \in Seq(Routes) /\ Len(t) = n /\ \A i \in 1 .. n : t[i] = s[i]
      /\ Len(s) \in 1 .. MaxStack /\ MaxStack \in Nat
      /\ s[1] = rootRoute
  BY PopupAssumption DEF FirstOf, Shaped, Typed
<1>2. Typed(t)
  BY <1>1 DEF Typed
<1>3. Layered(t)
  BY <1>1 DEF Shaped, Layered
<1>4. DetailAlone(t)
  <2>1. SUFFICES ASSUME NEW i \in 3 .. Len(t), t[2].id \in Details PROVE t[i].id = "Search"
    BY DEF DetailAlone
  <2>2. t[2] = s[2] /\ t[i] = s[i] /\ i \in 3 .. Len(s)
    BY <1>1
  <2> QED BY <2>1, <2>2 DEF Shaped, DetailAlone
<1>5. Opened(t)
  BY <1>1 DEF Shaped, Opened
<1>6. OneSearch(t)
  BY <1>1 DEF Shaped, OneSearch
<1>7. InOrder(t)
  <2>1. SUFFICES ASSUME NEW i \in 1 .. Len(t), NEW k \in 2 .. 4, t[i].id = SendSteps[k]
                 PROVE  \E j \in 1 .. i-1 :
                           /\ t[j].id = SendSteps[k - 1]
                           /\ \A m \in j+1 .. i-1 : t[m].id \notin SendScreens
    BY DEF InOrder
  <2>2. i \in 1 .. Len(s) /\ s[i].id = SendSteps[k] /\ i <= n
    BY <1>1, <2>1
  <2>3. PICK j \in 1 .. i-1 : /\ s[j].id = SendSteps[k - 1]
                              /\ \A m \in j+1 .. i-1 : s[m].id \notin SendScreens
    BY <2>2 DEF Shaped, InOrder
  <2>4. t[j] = s[j] /\ \A m \in j+1 .. i-1 : t[m] = s[m]
    BY <1>1, <2>2
  <2> QED BY <2>3, <2>4
<1>8. Shaped(t)
  BY <1>2, <1>3, <1>4, <1>5, <1>6, <1>7 DEF Shaped
<1>9. /\ BaseIndex(t) = IF Len(t) >= 2 /\ t[2].id \in Details THEN 2 ELSE 1
      /\ BaseIndex(s) = IF Len(s) >= 2 /\ s[2].id \in Details THEN 2 ELSE 1
  BY <1>8, BaseOf
<1>10. Len(t) >= 2 => t[2] = s[2]
  BY <1>1
<1> QED BY <1>1, <1>8, <1>9, <1>10

\* Every way of closing leaves the first routes of the stack.
LEMMA PrefixIsFirst ==
    ASSUME NEW s, Shaped(s), NEW n \in 1 .. Len(s)
    PROVE  FirstOf(s, SubSeq(s, 1, n), n)
<1>1. s \in Seq(Routes) /\ Len(s) \in Nat
  BY DEF Shaped, Typed
<1> QED BY <1>1 DEF FirstOf

\* The whole stack is one of its beginnings.
LEMMA WholeIsClosed ==
    ASSUME NEW s, Shaped(s)
    PROVE  Closed(s, s)
<1>1. s \in Seq(Routes) /\ Len(s) \in Nat /\ Len(s) >= 1
  BY DEF Shaped, Typed
<1>2. FirstOf(s, s, Len(s))
  BY <1>1 DEF FirstOf
<1>3. BaseIndex(s) <= Len(s)
  BY <1>1, BaseOf
<1>4. Len(s) \in 1 .. Len(s)
  BY <1>1
<1> QED BY <1>2, <1>3, <1>4 DEF Closed

\* Closing everything above the base leaves no wizard.
LEMMA ToBase ==
    ASSUME NEW s, Shaped(s)
    PROVE  Closed(s, popToBase(s))
<1>1. /\ BaseIndex(s) = IF Len(s) >= 2 /\ s[2].id \in Details THEN 2 ELSE 1
      /\ Len(s) \in Nat /\ Len(s) >= 1
  BY BaseOf DEF Shaped, Typed
<1>2. BaseIndex(s) \in 1 .. Len(s)
  BY <1>1
<1> DEFINE t == SubSeq(s, 1, BaseIndex(s))
<1>3. FirstOf(s, t, BaseIndex(s))
  BY <1>2, PrefixIsFirst
<1>4. Len(t) = BaseIndex(s) /\ \A i \in 1 .. BaseIndex(s) : t[i] = s[i]
  BY <1>3 DEF FirstOf
<1> HIDE DEF t
<1>5. ASSUME NEW i \in 1 .. Len(t) PROVE t[i].id # "SendConfirm"
  <2>1. CASE i = 1
    <3>1. t[1] = s[1] BY <1>4, <2>1
    <3> QED BY <2>1, <3>1 DEF Shaped, Typed, rootRoute, Route
  <2>2. CASE i = 2
    <3>1. t[2] = s[2] /\ s[2].id \in Details BY <1>1, <1>4, <2>2
    <3> QED BY <2>2, <3>1 DEF Details
  <2>3. i = 1 \/ i = 2 BY <1>1, <1>4
  <2> QED BY <2>1, <2>2, <2>3
<1>6. ~ Exposed(t)
  BY <1>5 DEF Exposed
<1>7. popToBase(s) = t
  BY DEF popToBase, t
<1>8. BaseIndex(s) >= BaseIndex(s)
  BY <1>1
<1> QED BY <1>2, <1>3, <1>6, <1>7, <1>8 DEF Closed

\* Going back one route uncovers no older confirmation, unless it leaves the
\* wizard by its first step.
LEMMA PopOne ==
    ASSUME NEW s, Shaped(s), Len(s) >= 2, s[Len(s)].id # "SendToken"
    PROVE  Closed(s, SubSeq(s, 1, Len(s) - 1))
<1>1. Len(s) \in Nat /\ Len(s) - 1 \in 1 .. Len(s)
  BY DEF Shaped, Typed
<1>2. BaseIndex(s) = IF Len(s) >= 2 /\ s[2].id \in Details THEN 2 ELSE 1
  BY BaseOf
<1> DEFINE t == SubSeq(s, 1, Len(s) - 1)
<1>3. FirstOf(s, t, Len(s) - 1)
  BY <1>1, PrefixIsFirst
<1> HIDE DEF t
<1>4. Len(t) = Len(s) - 1 /\ \A i \in 1 .. Len(s) - 1 : t[i] = s[i]
  BY <1>3 DEF FirstOf
<1>5. BaseIndex(s) = Len(s) \/ Len(s) - 1 >= BaseIndex(s)
  <2>1. BaseIndex(s) = 1 \/ BaseIndex(s) = 2
    BY <1>2
  <2>2. \A n \in Nat : n >= 2 => (n = 2 \/ n - 1 >= 2) /\ n - 1 >= 1
    OBVIOUS
  <2>3. (Len(s) = 2 \/ Len(s) - 1 >= 2) /\ Len(s) - 1 >= 1
    BY <1>1, <2>2, Zenon
  <2> QED BY <2>1, <2>3, Zenon
<1>6. ASSUME Exposed(t) PROVE Exposed(s)
  <2>1. PICK i \in 1 .. Len(t) : /\ t[i].id = "SendConfirm"
                                 /\ \A m \in i+1 .. Len(t) : t[m].id \notin SendScreens
    BY <1>6 DEF Exposed
  <2>2. i \in 1 .. Len(s) /\ s[i].id = "SendConfirm" /\ i < Len(s)
    BY <1>1, <1>4, <2>1
  <2>3. \A m \in i+1 .. Len(s) - 1 : s[m].id \notin SendScreens
    <3>1. \A m \in i+1 .. Len(s) - 1 : m \in i+1 .. Len(t) /\ t[m] = s[m]
      BY <1>1, <1>4
    <3> QED BY <2>1, <3>1
  <2>4. CASE s[Len(s)].id \notin SendScreens
    <3>1. \A m \in i+1 .. Len(s) : m = Len(s) \/ m \in i+1 .. Len(s) - 1
      BY <1>1
    <3>2. \A m \in i+1 .. Len(s) : s[m].id \notin SendScreens
      BY <2>3, <2>4, <3>1
    <3> QED BY <2>2, <3>2 DEF Exposed
  <2>5. CASE s[Len(s)].id \in SendScreens
    <3>1. PICK k \in 2 .. 4 : s[Len(s)].id = SendSteps[k]
      BY <2>5, ScreenFacts DEF SendIds
    <3>2. Len(s) \in 1 .. Len(s)
      BY <1>1
    <3>3. PICK j \in 1 .. Len(s) - 1 :
             /\ s[j].id = SendSteps[k - 1]
             /\ \A m \in j+1 .. Len(s) - 1 : s[m].id \notin SendScreens
      BY <3>1, <3>2 DEF Shaped, InOrder
    <3>4. s[j].id # "SendConfirm" /\ s[j].id \in SendScreens
      <4>1. k = 2 \/ k = 3 \/ k = 4 BY <3>1
      <4>2. SendSteps[k - 1] \in {"SendToken", "SendAddress", "SendAmount"}
        BY <4>1, ScreenFacts
      <4> QED BY <3>3, <4>2, ScreenFacts DEF SendIds
    <3>5. "SendConfirm" \in SendScreens BY ScreenFacts DEF SendIds
    <3>6. CASE j < i
      <4>1. i \in j+1 .. Len(s) - 1 BY <1>1, <2>2, <3>6
      <4> QED BY <2>2, <3>3, <3>5, <4>1
    <3>7. CASE i < j
      <4>1. j \in i+1 .. Len(s) - 1 BY <1>1, <2>2, <3>7
      <4> QED BY <2>3, <3>4, <4>1
    <3>8. CASE i = j
      BY <2>2, <3>4, <3>8
    <3>9. i < j \/ j < i \/ i = j BY <1>1
    <3> QED BY <3>6, <3>7, <3>8, <3>9
  <2> QED BY <2>4, <2>5
<1> QED BY <1>1, <1>3, <1>5, <1>6 DEF Closed, t

\* The ways of closing.
LEMMA ClosingCloses ==
    ASSUME NEW s, Shaped(s)
    PROVE  /\ Closed(s, closeTop(s))
           /\ Closed(s, closeByBehavior(s, "reset"))
           /\ s[Len(s)].id # "SendToken" => Closed(s, pop(s))
<1>1. Len(s) \in Nat /\ Len(s) >= 1 /\ s \in Seq(Routes)
  BY DEF Shaped, Typed
<1>2. Closed(s, s) /\ Closed(s, popToBase(s))
  BY WholeIsClosed, ToBase
<1>3. s[Len(s)].id # "SendToken" => Closed(s, pop(s))
  <2>1. CASE Len(s) <= 1 BY <1>2, <2>1 DEF pop
  <2>2. CASE Len(s) >= 2 BY <2>2, <1>1, PopOne DEF pop
  <2> QED BY <1>1, <2>1, <2>2
<1>4. closeByBehavior(s, "reset") = popToBase(s)
  BY DEF closeByBehavior
<1>5. Closed(s, closeTop(s))
  <2> DEFINE id == s[Len(s)].id
  <2>1. id \in Screens
    <3>1. s[Len(s)] \in Routes BY <1>1
    <3> QED BY <3>1 DEF Routes
  <2>2. /\ closeBehavior(id) = "none" <=> id \notin SendIds
        /\ closeBehavior(id) # "go-back"
    BY <2>1, ScreenFacts, Zenon
  <2>3. CASE Len(s) <= 1 BY <1>2, <2>3 DEF closeTop
  <2>4. CASE Len(s) > 1 /\ closeBehavior(id) # "none"
    <3>1. closeTop(s) = popToBase(s)
      BY <2>2, <2>4, <1>1 DEF closeTop, closeByBehavior
    <3> QED BY <1>2, <3>1
  <2>5. CASE Len(s) > 1 /\ closeBehavior(id) = "none"
    <3>1. closeTop(s) = pop(s)
      BY <2>5, <1>1 DEF closeTop
    <3>2. id # "SendToken"
      BY <2>2, <2>5 DEF SendIds
    <3> QED BY <1>3, <3>1, <3>2
  <2> QED BY <1>1, <2>3, <2>4, <2>5
<1> QED BY <1>2, <1>3, <1>4, <1>5
\* What may be pushed on a shaped stack.
Pushable(s, r) ==
    /\ r \in Routes /\ r.id # "Tabs"
    /\ r.id \in Details => Len(s) = 1
    /\ r.id = "TokenDetail" => r.item \in Tokens
    /\ r.id = "ActivityDetail" => r.item \in Activities
    /\ r.id \notin Details \cup {"Search"} => BaseIndex(s) = 1
    /\ r.id = "Search" => \A i \in 1 .. Len(s) : s[i].id # "Search"
    /\ \A k \in 2 .. 4 : r.id = SendSteps[k] =>
          \E j \in 1 .. Len(s) : /\ s[j].id = SendSteps[k - 1]
                                 /\ \A m \in j+1 .. Len(s) : s[m].id \notin SendScreens

\* A push keeps the shape and the base, and only a wizard screen changes
\* which wizard screen is last.
LEMMA PushKeeps ==
    ASSUME NEW s, Shaped(s), Len(s) < MaxStack, NEW r, Pushable(s, r)
    PROVE  /\ Shaped(Append(s, r)) /\ BaseIndex(Append(s, r)) >= BaseIndex(s)
           /\ r.id \notin SendIds /\ Exposed(Append(s, r)) => Exposed(s)
           /\ r.id \in SendIds \ {"SendConfirm"} => ~ Exposed(Append(s, r))
<1> DEFINE t == Append(s, r)
<1>1. /\ s \in Seq(Routes) /\ Len(s) \in 1 .. MaxStack /\ MaxStack \in Nat
      /\ s[1] = rootRoute /\ r \in Routes
  BY PopupAssumption DEF Shaped, Typed, Pushable
<1>2. /\ t \in Seq(Routes) /\ Len(t) = Len(s) + 1 /\ t[Len(s) + 1] = r
      /\ \A i \in 1 .. Len(s) : t[i] = s[i]
  BY <1>1
<1>3. \A i \in 1 .. Len(t) : i = Len(t) \/ i \in 1 .. Len(s)
  BY <1>1, <1>2
<1> HIDE DEF t
<1>4. Typed(t)
  BY <1>1, <1>2 DEF Typed
<1>5. Layered(t)
  <2>1. SUFFICES ASSUME NEW i \in 2 .. Len(t)
                 PROVE  t[i].id # "Tabs" /\ (t[i].id \in Details => i = 2)
    BY DEF Layered
  <2>2. CASE i = Len(s) + 1
    BY <1>1, <1>2, <2>2 DEF Pushable
  <2>3. CASE i \in 2 .. Len(s)
    <3>1. t[i] = s[i] BY <1>1, <1>2, <2>3
    <3> QED BY <2>3, <3>1 DEF Shaped, Layered
  <2> QED BY <1>1, <1>2, <2>2, <2>3
<1>6. DetailAlone(t)
  <2>1. SUFFICES ASSUME NEW i \in 3 .. Len(t), t[2].id \in Details PROVE t[i].id = "Search"
    BY DEF DetailAlone
  <2>2. t[2] = s[2] /\ Len(s) >= 2
    BY <1>1, <1>2
  <2>3. CASE i = Len(s) + 1
    <3>1. BaseIndex(s) = 2 BY <2>1, <2>2, BaseOf
    <3>2. BaseIndex(s) # 1 /\ Len(s) # 1 BY <2>2, <3>1
    <3> QED BY <1>2, <2>3, <3>2 DEF Pushable
  <2>4. CASE i \in 3 .. Len(s)
    <3>1. t[i] = s[i] BY <1>1, <1>2, <2>4
    <3> QED BY <2>1, <2>2, <2>4, <3>1 DEF Shaped, DetailAlone
  <2> QED BY <1>1, <1>2, <2>3, <2>4
<1>7. Opened(t)
  BY <1>2, <1>3 DEF Opened, Pushable, Shaped
<1>8. OneSearch(t)
  BY <1>2, <1>3 DEF OneSearch, Pushable, Shaped
<1>9. InOrder(t)
  <2>1. SUFFICES ASSUME NEW i \in 1 .. Len(t), NEW k \in 2 .. 4, t[i].id = SendSteps[k]
                 PROVE  \E j \in 1 .. i-1 :
                           /\ t[j].id = SendSteps[k - 1]
                           /\ \A m \in j+1 .. i-1 : t[m].id \notin SendScreens
    BY DEF InOrder
  <2>2. CASE i = Len(s) + 1
    <3>1. PICK j \in 1 .. Len(s) : /\ s[j].id = SendSteps[k - 1]
                                   /\ \A m \in j+1 .. Len(s) : s[m].id \notin SendScreens
      BY <1>2, <2>1, <2>2 DEF Pushable
    <3>2. j \in 1 .. i-1 /\ t[j] = s[j]
      BY <1>1, <1>2, <2>2
    <3>3. \A m \in j+1 .. i-1 : m \in j+1 .. Len(s) /\ t[m] = s[m]
      BY <1>1, <1>2, <2>2
    <3> QED BY <3>1, <3>2, <3>3
  <2>3. CASE i \in 1 .. Len(s)
    <3>1. s[i].id = SendSteps[k] BY <1>2, <2>1, <2>3
    <3>2. PICK j \in 1 .. i-1 : /\ s[j].id = SendSteps[k - 1]
                                /\ \A m \in j+1 .. i-1 : s[m].id \notin SendScreens
      BY <2>3, <3>1 DEF Shaped, InOrder
    <3>3. t[j] = s[j] /\ \A m \in j+1 .. i-1 : t[m] = s[m]
      BY <1>1, <1>2, <2>3
    <3> QED BY <3>2, <3>3
  <2> QED BY <1>2, <1>3, <2>2, <2>3
<1>10. Shaped(t)
  BY <1>4, <1>5, <1>6, <1>7, <1>8, <1>9 DEF Shaped
<1>11. BaseIndex(t) >= BaseIndex(s)
  <2>1. /\ BaseIndex(t) = IF Len(t) >= 2 /\ t[2].id \in Details THEN 2 ELSE 1
        /\ BaseIndex(s) = IF Len(s) >= 2 /\ s[2].id \in Details THEN 2 ELSE 1
    BY <1>10, BaseOf
  <2>2. Len(s) >= 2 => t[2] = s[2] /\ Len(t) >= 2
    BY <1>1, <1>2
  <2> QED BY <2>1, <2>2
<1>12. ASSUME r.id \notin SendIds, Exposed(t) PROVE Exposed(s)
  <2>1. PICK i \in 1 .. Len(t) : /\ t[i].id = "SendConfirm"
                                 /\ \A m \in i+1 .. Len(t) : t[m].id \notin SendScreens
    BY <1>12 DEF Exposed
  <2>2. i \in 1 .. Len(s)
    BY <1>12, <1>2, <1>3, <2>1 DEF SendIds
  <2>3. \A m \in i+1 .. Len(s) : m \in i+1 .. Len(t) /\ t[m] = s[m]
    BY <1>1, <1>2, <2>2
  <2> QED BY <1>2, <2>1, <2>2, <2>3 DEF Exposed
<1>13. ASSUME r.id \in SendIds \ {"SendConfirm"} PROVE ~ Exposed(t)
  <2>1. SUFFICES ASSUME NEW i \in 1 .. Len(t), t[i].id = "SendConfirm",
                        \A m \in i+1 .. Len(t) : t[m].id \notin SendScreens
                 PROVE  FALSE
    BY DEF Exposed
  <2>2. i \in 1 .. Len(s)
    BY <1>13, <1>2, <1>3, <2>1
  <2>3. Len(s) + 1 \in i+1 .. Len(t)
    BY <1>1, <1>2, <2>2
  <2> QED BY <1>2, <1>13, <2>1, <2>3, ScreenFacts
<1> QED BY <1>10, <1>11, <1>12, <1>13 DEF t
-----------------------------------------------------------------------------
\* Under the lock there is only the search.
LockedAlone == isLocked => \A i \in 2 .. Len(stack) : stack[i].id = "Search"

\* The draft was checked when its confirmation was opened, and not changed since.
DraftChecked == Exposed(stack) => validateSendDraft = {} /\ sendDraftErrors = {}

\* The rest of the state.
PopupRest ==
    /\ activeTab \in Tabs
    /\ activeWalletId \in Wallets
    /\ isLocked \in BOOLEAN /\ sendSubmitting \in BOOLEAN
    /\ sendDraft \in [tokenId : Tokens, to : BOOLEAN, amount : BOOLEAN, memo : BOOLEAN]
    /\ sendDraftErrors \subseteq Fields
    /\ sendFeedback \in {"none", "invalid", "sending", "sent"}
    /\ timers \in Nat

\* The inductive invariant of the popup.
PopupInv == Shaped(stack) /\ PopupRest /\ LockedAlone /\ DraftChecked /\ OneSubmission

\* It implies the three invariants.
LEMMA PopupInvGives == PopupInv => ScreensConsistent /\ OneSubmission /\ ConfirmShownIsValid
<1> SUFFICES ASSUME PopupInv PROVE ScreensConsistent /\ OneSubmission /\ ConfirmShownIsValid
  OBVIOUS
<1>1. Shaped(stack) /\ PopupRest /\ LockedAlone /\ DraftChecked /\ OneSubmission
  BY DEF PopupInv
<1>2. PopupTypeOK
  BY <1>1 DEF Shaped, Typed, PopupRest, PopupTypeOK, Routes
<1>3. StackShape
  BY <1>1 DEF Shaped, Typed, Layered, OneSearch, InOrder, StackShape
<1>4. DetailShowsOpened
  <2>1. SUFFICES ASSUME baseShown \in {"TokenDetail", "ActivityDetail"}, ~Covered
                 PROVE  /\ shownItem = stack[2].item
                        /\ shownItem \in (IF baseShown = "TokenDetail" THEN Tokens ELSE Activities)
    BY DEF DetailShowsOpened
  <2>2. LastOverlay(stack, "modal") = {} /\ LastOverlay(stack, "transparentModal") = {}
    BY <2>1 DEF Covered, modalShown, searchShown
  <2>3. BaseIndex(stack) = Len(stack)
    BY <1>1, <2>2, UncoveredIsTop
  <2>4. baseShown = stack[BaseIndex(stack)].id
    BY <2>1 DEF baseShown
  <2>5. stack[1].id = "Tabs" /\ Len(stack) \in Nat
    BY <1>1 DEF Shaped, Typed, rootRoute, Route
  <2>6. BaseIndex(stack) = 2
    BY <1>1, <2>1, <2>4, <2>5, BaseOf
  <2>7. shownItem = stack[2].item /\ baseShown = stack[2].id
    BY <2>3, <2>4, <2>6 DEF shownItem
  <2>8. 2 \in 1 .. Len(stack)
    BY <2>3, <2>5, <2>6
  <2> QED BY <1>1, <2>1, <2>7, <2>8 DEF Shaped, Opened
<1>5. ConfirmShownIsValid
  <2>1. SUFFICES ASSUME modalShown = {"SendConfirm"}
                 PROVE  validateSendDraft = {} /\ sendDraftErrors = {}
    BY DEF ConfirmShownIsValid
  <2>2. "SendConfirm" \in LastOverlay(stack, "modal")
    BY <2>1 DEF modalShown
  <2>3. PICK j \in 2 .. Len(stack) : ModalAt(stack, "SendConfirm", j)
    BY <1>1, <2>2, ModalIsLast
  <2>4. "Search" \notin SendScreens
    BY ScreenFacts DEF SendIds
  <2>5. j \in 1 .. Len(stack)
    BY <1>1 DEF Shaped, Typed
  <2>6. Exposed(stack)
    BY <2>3, <2>4, <2>5 DEF ModalAt, Exposed
  <2> QED BY <1>1, <2>6 DEF DraftChecked
<1> QED BY <1>1, <1>2, <1>3, <1>4, <1>5 DEF ScreensConsistent
\* Where a screen that is rendered comes from.
LEMMA Rendered ==
    ASSUME PopupInv, NEW id \in renderAppShell
    PROVE  /\ id \in {"Unlock"} \cup Screens
           /\ id = "Unlock" => isLocked
           /\ id \in {"Tabs"} \cup Details \cup Modals => ~isLocked
           /\ id \in {"Tabs"} \cup Modals => BaseIndex(stack) = 1
           /\ id \in Modals => id \in modalShown
           /\ id \in Details => \A i \in 2 .. Len(stack) : stack[i].id \notin SendIds
<1>1. /\ Shaped(stack) /\ LockedAlone /\ isLocked \in BOOLEAN
      /\ stack \in Seq(Routes) /\ Len(stack) \in Nat /\ Len(stack) >= 1 /\ stack[1].id = "Tabs"
  BY DEF PopupInv, Shaped, Typed, PopupRest, rootRoute, Route
<1>2. BaseIndex(stack) = IF Len(stack) >= 2 /\ stack[2].id \in Details THEN 2 ELSE 1
  BY <1>1, BaseOf
<1>3. "Unlock" \notin Screens /\ "Search" \notin {"Tabs"} \cup Details \cup Modals
  BY ScreenFacts DEF Details, Modals, Panels, SendIds
<1>4. /\ "Tabs" \notin Details \cup Modals \cup {"Search", "Unlock"}
      /\ \A x \in Details : x \notin Modals \cup {"Search", "Unlock"}
      /\ \A x \in Modals : x \notin {"Unlock"}
  BY DEF Details, Modals, Panels, SendIds
<1>5. Screens = {"Tabs", "Search"} \cup Details \cup Modals
  BY ScreenFacts
<1>6. CASE id = baseShown /\ isLocked
  <2>1. id = "Unlock" BY <1>6 DEF baseShown
  <2> QED BY <1>3, <1>4, <1>5, <1>6, <2>1, Zenon
<1>7. CASE id = baseShown /\ ~isLocked
  <2>1. id = stack[BaseIndex(stack)].id BY <1>7 DEF baseShown
  <2>2. CASE BaseIndex(stack) = 1
    <3>1. id = "Tabs" BY <1>1, <2>1, <2>2
    <3> QED BY <1>4, <1>5, <1>7, <2>2, <3>1, Zenon
  <2>3. CASE BaseIndex(stack) = 2
    <3>1. id \in Details /\ stack[2].id \in Details BY <1>2, <2>1, <2>3
    <3>2. ASSUME NEW i \in 2 .. Len(stack) PROVE stack[i].id \notin SendIds
      <4>1. CASE i = 2 BY <3>1, <4>1, <1>4 DEF Modals
      <4>2. CASE i \in 3 .. Len(stack)
        <5>1. stack[i].id = "Search" BY <1>1, <3>1, <4>2 DEF Shaped, DetailAlone
        <5> QED BY <5>1, <1>3 DEF Modals
      <4> QED BY <1>1, <4>1, <4>2
    <3> QED BY <1>4, <1>5, <1>7, <3>1, <3>2, Zenon
  <2> QED BY <1>2, <2>2, <2>3
<1>8. CASE id \in modalShown
  <2>1. PICK j \in 2 .. Len(stack) : ModalAt(stack, id, j)
    BY <1>1, <1>8, ModalIsLast DEF modalShown
  <2>2. id \in Modals /\ stack[j].id = id /\ BaseIndex(stack) = 1
    BY <2>1 DEF ModalAt
  <2>3. ~isLocked
    BY <1>1, <1>3, <2>2 DEF LockedAlone
  <2> QED BY <1>4, <1>5, <1>8, <2>2, <2>3, Zenon
<1>9. CASE id \in searchShown
  <2>1. id = "Search" BY <1>1, <1>9, SearchShown DEF searchShown
  <2> QED BY <1>3, <1>5, <2>1
<1> QED BY <1>6, <1>7, <1>8, <1>9 DEF renderAppShell

\* The wizard screen that is shown is the last one on the stack.
LEMMA ShownWizard ==
    ASSUME PopupInv, NEW id \in modalShown
    PROVE  /\ BaseIndex(stack) = 1 /\ ~isLocked
           /\ id \in SendIds /\ Exposed(stack) => id = "SendConfirm"
           /\ id = "SendConfirm" => Exposed(stack)
           /\ stack[Len(stack)].id \in {id, "Search"}
           /\ \E j \in 1 .. Len(stack) : /\ stack[j].id = id
                                         /\ \A m \in j+1 .. Len(stack) : stack[m].id \notin SendScreens
<1>1. /\ Shaped(stack) /\ LockedAlone
      /\ stack \in Seq(Routes) /\ Len(stack) \in Nat /\ Len(stack) >= 1
  BY DEF PopupInv, Shaped, Typed
<1>2. PICK j \in 2 .. Len(stack) : ModalAt(stack, id, j)
  BY <1>1, ModalIsLast DEF modalShown
<1>3. /\ stack[j].id = id /\ id \in Modals /\ BaseIndex(stack) = 1
      /\ \A m \in j+1 .. Len(stack) : stack[m].id = "Search"
  BY <1>2 DEF ModalAt
<1>4. "Search" \notin SendScreens /\ "Search" \notin Modals /\ SendScreens = SendIds
  BY ScreenFacts DEF SendIds, Modals, Panels
<1>5. ~isLocked
  BY <1>1, <1>3, <1>4 DEF LockedAlone
<1>6. j \in 1 .. Len(stack) /\ \A m \in j+1 .. Len(stack) : stack[m].id \notin SendScreens
  BY <1>1, <1>3, <1>4
<1>7. ASSUME id \in SendIds, Exposed(stack) PROVE id = "SendConfirm"
  <2>1. PICK i \in 1 .. Len(stack) :
            /\ stack[i].id = "SendConfirm"
            /\ \A m \in i+1 .. Len(stack) : stack[m].id \notin SendScreens
    BY <1>7 DEF Exposed
  <2>2. "SendConfirm" \in SendScreens BY <1>4 DEF SendIds
  <2>3. ~ (i \in j+1 .. Len(stack)) BY <1>6, <2>1, <2>2
  <2>4. ~ (j \in i+1 .. Len(stack)) BY <1>3, <1>4, <1>7, <2>1
  <2>5. i = j BY <1>1, <2>3, <2>4
  <2> QED BY <1>3, <2>1, <2>5
<1>8. id = "SendConfirm" => Exposed(stack)
  BY <1>3, <1>6 DEF Exposed
<1>9. stack[Len(stack)].id \in {id, "Search"}
  <2>1. j = Len(stack) \/ Len(stack) \in j+1 .. Len(stack)
    BY <1>1
  <2> QED BY <1>3, <2>1
<1> QED BY <1>3, <1>5, <1>6, <1>7, <1>8, <1>9

\* Closing keeps the part of the invariant that is about the stack.
LEMMA CloseStep ==
    ASSUME PopupInv, Closed(stack, stack'), isLocked' = isLocked,
           sendDraft' = sendDraft, sendDraftErrors' = sendDraftErrors \/ sendDraftErrors' = {}
    PROVE  Shaped(stack)' /\ LockedAlone' /\ DraftChecked' /\ BaseLeftAlone
<1>1. Shaped(stack) /\ LockedAlone /\ DraftChecked /\ Len(stack) \in Nat
  BY DEF PopupInv, Shaped, Typed
<1>2. PICK n \in 1 .. Len(stack) : /\ FirstOf(stack, stack', n)
                                   /\ BaseIndex(stack) = Len(stack) \/ n >= BaseIndex(stack)
  BY DEF Closed
<1>3. /\ Shaped(stack') /\ BaseIndex(stack') <= BaseIndex(stack)
      /\ n >= BaseIndex(stack) => BaseIndex(stack') = BaseIndex(stack)
  BY <1>1, <1>2, FirstShaped
<1>4. LockedAlone'
  <2>1. Len(stack') = n /\ \A i \in 1 .. n : stack'[i] = stack[i]
    BY <1>2 DEF FirstOf
  <2>2. \A i \in 2 .. Len(stack') : i \in 2 .. Len(stack) /\ stack'[i] = stack[i]
    BY <1>1, <2>1
  <2> QED BY <1>1, <2>2 DEF LockedAlone
<1>5. DraftChecked'
  <2>1. Exposed(stack') => Exposed(stack) BY DEF Closed
  <2>2. validateSendDraft' = validateSendDraft BY DEF validateSendDraft
  <2> QED BY <1>1, <2>1, <2>2 DEF DraftChecked
<1>6. BaseLeftAlone
  <2>1. BaseIndex(stack) \in Nat
    BY <1>1, BaseOf
  <2>2. CASE BaseIndex(stack) = Len(stack) BY <2>2 DEF BaseLeftAlone
  <2>3. CASE n >= BaseIndex(stack) BY <1>3, <2>1, <2>3 DEF BaseLeftAlone
  <2> QED BY <1>2, <2>2, <2>3
<1> QED BY <1>3, <1>4, <1>5, <1>6

\* So does a push, of a screen that is not a wizard screen or with a draft
\* that is found valid.
LEMMA PushStep ==
    ASSUME PopupInv, NEW STATE s, Closed(stack, s), NEW STATE r, Pushable(s, r),
           Len(s) < MaxStack, stack' = Append(s, r),
           isLocked' = isLocked, isLocked => r.id = "Search",
           sendDraft' = sendDraft, sendDraftErrors' = sendDraftErrors \/ sendDraftErrors' = {},
           r.id = "SendConfirm" => validateSendDraft = {} /\ sendDraftErrors' = {},
           BaseIndex(stack) = 1 \/ s = stack
    PROVE  Shaped(stack)' /\ LockedAlone' /\ DraftChecked' /\ BaseLeftAlone
<1>1. Shaped(stack) /\ LockedAlone /\ DraftChecked /\ Len(stack) \in Nat
  BY DEF PopupInv, Shaped, Typed
<1>2. PICK n \in 1 .. Len(stack) : FirstOf(stack, s, n)
  BY DEF Closed
<1>3. Shaped(s)
  BY <1>1, <1>2, FirstShaped
<1>4. /\ Shaped(stack') /\ BaseIndex(stack') >= BaseIndex(s)
      /\ r.id \notin SendIds /\ Exposed(stack') => Exposed(s)
      /\ r.id \in SendIds \ {"SendConfirm"} => ~ Exposed(stack')
  BY <1>3, PushKeeps
<1>5. LockedAlone'
  <2>1. s \in Seq(Routes) /\ Len(s) = n /\ \A i \in 1 .. n : s[i] = stack[i]
    BY <1>2 DEF FirstOf
  <2>2. /\ Len(stack') = n + 1 /\ stack'[n + 1] = r
        /\ \A i \in 1 .. n : stack'[i] = s[i]
    BY <2>1
  <2>3. SUFFICES ASSUME isLocked, NEW i \in 2 .. Len(stack') PROVE stack'[i].id = "Search"
    BY DEF LockedAlone
  <2>4. CASE i = n + 1 BY <2>2, <2>3, <2>4
  <2>5. CASE i # n + 1
    <3>1. i \in 2 .. Len(stack) /\ i \in 1 .. n BY <1>1, <2>2, <2>5
    <3>2. stack'[i] = stack[i] BY <2>1, <2>2, <3>1
    <3> QED BY <1>1, <2>3, <3>1, <3>2 DEF LockedAlone
  <2> QED BY <2>4, <2>5
<1>6. DraftChecked'
  <2>1. Exposed(s) => Exposed(stack) BY DEF Closed
  <2>2. validateSendDraft' = validateSendDraft BY DEF validateSendDraft
  <2>3. CASE r.id = "SendConfirm" BY <2>2, <2>3 DEF DraftChecked
  <2>4. CASE r.id # "SendConfirm" BY <1>1, <1>4, <2>1, <2>2, <2>4 DEF DraftChecked
  <2> QED BY <2>3, <2>4
<1>7. BaseLeftAlone
  <2>1. /\ BaseIndex(stack) \in {1, 2} /\ BaseIndex(s) \in {1, 2}
        /\ BaseIndex(stack') \in {1, 2}
    BY <1>1, <1>3, <1>4, BaseOf
  <2>2. BaseIndex(stack') >= BaseIndex(stack)
    BY <1>4, <2>1
  <2> QED BY <2>1, <2>2 DEF BaseLeftAlone
<1> QED BY <1>4, <1>5, <1>6, <1>7
\* What it takes for a control to be offered.
LEMMA OfferedFacts ==
    ASSUME PopupInv, NEW c, Offered(c)
    PROVE  /\ c \in {"tab", "settings", "wallet-drawer", "avatar", "open-receive", "open-send"} =>
                 ~isLocked /\ BaseIndex(stack) = 1
           /\ c = "back" => ~isLocked /\ \A i \in 2 .. Len(stack) : stack[i].id \notin SendIds
           /\ c \in {"select-wallet", "open-settings", "lock"} => ~isLocked /\ BaseIndex(stack) = 1
           /\ c \in {"select-send-token", "close-send"} => "SendToken" \in modalShown
           /\ c = "send-to" => "SendAddress" \in modalShown
           /\ c \in {"send-amount", "send-memo"} => "SendAmount" \in modalShown
           /\ c = "send-prev" => \E id \in modalShown : id \in SendIds \ {"SendToken"}
           /\ c = "send-submit" => "SendConfirm" \in modalShown
<1>1. PICK id \in renderAppShell : c \in Controls[id]
  BY DEF Offered
<1>2. /\ id \in {"Unlock"} \cup Screens
      /\ id \in {"Tabs"} \cup Details \cup Modals => ~isLocked
      /\ id \in {"Tabs"} \cup Modals => BaseIndex(stack) = 1
      /\ id \in Modals => id \in modalShown
      /\ id \in Details => \A i \in 2 .. Len(stack) : stack[i].id \notin SendIds
  BY Rendered
<1>3. c \in {"tab", "settings", "wallet-drawer", "avatar", "open-receive", "open-send"} => id = "Tabs"
  BY <1>1, <1>2, ControlFacts
<1>4. c = "back" => id \in Details
  BY <1>1, <1>2, ControlFacts
<1>5. /\ c \in {"select-wallet", "open-settings", "lock"} =>
            id \in {"WalletDrawer", "AvatarPopover", "Settings"}
      /\ c \in {"select-send-token", "close-send"} => id = "SendToken"
      /\ c = "send-to" => id = "SendAddress"
      /\ c \in {"send-amount", "send-memo"} => id = "SendAmount"
      /\ c = "send-prev" => id \in SendIds \ {"SendToken"}
      /\ c = "send-submit" => id = "SendConfirm"
  BY <1>1, <1>2, ControlFacts
<1>6. /\ {"WalletDrawer", "AvatarPopover", "Settings"} \subseteq Modals
      /\ {"SendToken", "SendAddress", "SendAmount", "SendConfirm"} \subseteq Modals
      /\ SendIds \subseteq Modals
  BY DEF Modals, Panels, SendIds
<1>7. CASE c \in {"tab", "settings", "wallet-drawer", "avatar", "open-receive", "open-send"}
  BY <1>2, <1>3, <1>7
<1>8. CASE c = "back"
  BY <1>2, <1>4, <1>8
<1>9. CASE c \notin {"tab", "settings", "wallet-drawer", "avatar", "open-receive", "open-send", "back"}
  BY <1>2, <1>5, <1>6, <1>9
<1> QED BY <1>7, <1>8, <1>9

\* What every step of the popup has to show.
StepHolds == PopupInv' /\ LockedIsInert /\ BaseLeftAlone
LEMMA Gathers ==
    ASSUME PopupRest', OneSubmission', Shaped(stack)', LockedAlone', DraftChecked', BaseLeftAlone,
           isLocked /\ isLocked' => UNCHANGED <<activeTab, activeWalletId, sendDraft, sendDraftErrors>>
    PROVE  StepHolds
<1>1. PopupInv'
  BY DEF PopupInv
<1>2. LockedIsInert
  BY DEF LockedIsInert, LockedAlone
<1> QED BY <1>1, <1>2 DEF StepHolds

\* The ways of closing that leave everything else alone.
LEMMA ClosingSteps ==
    ASSUME PopupInv, UNCHANGED <<rest, send>>,
           \/ stack' = closeTop(stack)
           \/ stack' = closeByBehavior(stack, "reset")
           \/ stack' = pop(stack) /\ stack[Len(stack)].id # "SendToken"
    PROVE  StepHolds
<1>1. Shaped(stack) /\ PopupRest /\ OneSubmission
  BY DEF PopupInv
<1>2. Closed(stack, stack')
  BY <1>1, ClosingCloses
<1>3. Shaped(stack)' /\ LockedAlone' /\ DraftChecked' /\ BaseLeftAlone
  BY <1>2, CloseStep DEF rest, send
<1>4. PopupRest' /\ OneSubmission'
  BY <1>1 DEF rest, send, PopupRest, OneSubmission
<1> QED BY <1>3, <1>4, Gathers DEF rest, send

\* Back, the close buttons, the masks, Escape and the wizard's cancel.
LEMMA CloseKeeps ==
    ASSUME PopupInv, Back \/ CloseButton \/ MaskClick \/ Escape \/ CloseSend
    PROVE  StepHolds
<1>1. CASE Back
  <2>1. Offered("back") /\ stack' = pop(stack) /\ UNCHANGED <<rest, send>>
    BY <1>1 DEF Back
  <2>2. \A i \in 2 .. Len(stack) : stack[i].id \notin SendIds
    BY <2>1, OfferedFacts
  <2>3. Len(stack) \in Nat /\ Len(stack) >= 1 /\ stack[1].id = "Tabs"
    BY DEF PopupInv, Shaped, Typed, rootRoute, Route
  <2>4. stack[Len(stack)].id # "SendToken"
    <3>1. Len(stack) = 1 \/ Len(stack) \in 2 .. Len(stack) BY <2>3
    <3> QED BY <2>2, <2>3, <3>1 DEF SendIds
  <2> QED BY <2>1, <2>4, ClosingSteps
<1>2. CASE CloseButton
  BY <1>2, ClosingSteps DEF CloseButton
<1>3. CASE MaskClick
  BY <1>3, ClosingSteps DEF MaskClick
<1>4. CASE Escape
  BY <1>4, ClosingSteps DEF Escape
<1>5. CASE CloseSend
  BY <1>5, ClosingSteps DEF CloseSend
<1> QED BY <1>1, <1>2, <1>3, <1>4, <1>5

\* The tabs, the choice of a wallet, the lock.
LEMMA ShellKeeps ==
    ASSUME PopupInv,
           \/ \E t \in Tabs : SetActiveTab(t)
           \/ \E w \in Wallets : SelectWallet(w)
           \/ Lock \/ Unlock
    PROVE  StepHolds
<1>1. Shaped(stack) /\ PopupRest /\ OneSubmission /\ LockedAlone /\ DraftChecked
  BY DEF PopupInv
<1>2. ASSUME NEW t \in Tabs, SetActiveTab(t) PROVE StepHolds
  <2>1. Offered("tab") /\ activeTab' = t /\ UNCHANGED <<stack, activeWalletId, isLocked, send>>
    BY <1>2 DEF SetActiveTab
  <2>2. ~isLocked BY <2>1, OfferedFacts
  <2>3. Closed(stack, stack') BY <1>1, <2>1, WholeIsClosed
  <2>4. Shaped(stack)' /\ LockedAlone' /\ DraftChecked' /\ BaseLeftAlone
    BY <2>1, <2>3, CloseStep DEF send
  <2>5. PopupRest' /\ OneSubmission'
    BY <1>1, <2>1 DEF send, PopupRest, OneSubmission
  <2> QED BY <2>2, <2>4, <2>5, Gathers
<1>3. ASSUME NEW w \in Wallets, SelectWallet(w) PROVE StepHolds
  <2>1. /\ Offered("select-wallet") /\ activeWalletId' = w /\ stack' = closeTop(stack)
        /\ UNCHANGED <<activeTab, isLocked, send>>
    BY <1>3 DEF SelectWallet
  <2>2. ~isLocked BY <2>1, OfferedFacts
  <2>3. Closed(stack, stack') BY <1>1, <2>1, ClosingCloses
  <2>4. Shaped(stack)' /\ LockedAlone' /\ DraftChecked' /\ BaseLeftAlone
    BY <2>1, <2>3, CloseStep DEF send
  <2>5. PopupRest' /\ OneSubmission'
    BY <1>1, <2>1 DEF send, PopupRest, OneSubmission
  <2> QED BY <2>2, <2>4, <2>5, Gathers
<1>4. CASE Lock
  <2>1. /\ Offered("lock") /\ isLocked' = TRUE /\ stack' = popToRoot(stack)
        /\ UNCHANGED <<activeTab, activeWalletId, send>>
    BY <1>4 DEF Lock
  <2>2. ~isLocked /\ BaseIndex(stack) = 1 BY <2>1, OfferedFacts
  <2>3. /\ stack \in Seq(Routes) /\ Len(stack) \in Nat /\ Len(stack) >= 1
        /\ stack[1].id = "Tabs"
    BY <1>1 DEF Shaped, Typed, rootRoute, Route
  <2>4. Len(stack') = 1 /\ stack'[1] = stack[1] /\ stack' \in Seq(Routes)
    BY <2>1, <2>3 DEF popToRoot
  <2>5. FirstOf(stack, stack', 1)
    BY <2>4 DEF FirstOf
  <2>6. Shaped(stack') /\ BaseIndex(stack') <= BaseIndex(stack)
    <3>1. 1 \in 1 .. Len(stack) BY <2>3
    <3> QED BY <1>1, <2>5, <3>1, FirstShaped
  <2>7. LockedAlone'
    BY <2>4 DEF LockedAlone
  <2>8. ~ Exposed(stack')
    BY <2>3, <2>4 DEF Exposed
  <2>9. DraftChecked'
    BY <2>8 DEF DraftChecked
  <2>10. BaseLeftAlone
    BY <2>1 DEF BaseLeftAlone
  <2>11. PopupRest' /\ OneSubmission'
    BY <1>1, <2>1 DEF send, PopupRest, OneSubmission
  <2> QED BY <2>2, <2>6, <2>7, <2>9, <2>10, <2>11, Gathers
<1>5. CASE Unlock
  <2>1. isLocked' = FALSE /\ UNCHANGED <<stack, activeTab, activeWalletId, send>>
    BY <1>5 DEF Unlock
  <2>2. Shaped(stack)' /\ LockedAlone'
    BY <1>1, <2>1 DEF LockedAlone
  <2>3. DraftChecked'
    BY <1>1, <2>1 DEF DraftChecked, validateSendDraft, send
  <2>4. BaseIndex(stack) \in {1, 2} BY <1>1, BaseOf
  <2>5. BaseLeftAlone
    BY <2>1, <2>4 DEF BaseLeftAlone
  <2>6. PopupRest' /\ OneSubmission'
    BY <1>1, <2>1 DEF send, PopupRest, OneSubmission
  <2> QED BY <2>1, <2>2, <2>3, <2>5, <2>6, Gathers
<1> QED BY <1>2, <1>3, <1>4, <1>5
\* The plain pushes: a panel or the first step of the wizard over the root.
LEMMA PanelPushable ==
    ASSUME NEW s, BaseIndex(s) = 1, NEW id \in Panels \cup {"SendToken"}
    PROVE  Pushable(s, Route(id)) /\ Route(id).id = id
<1>1. /\ Route(id) \in Routes /\ Route(id).id = id
  <2>1. id \in Screens
    BY ScreenFacts DEF Modals, SendIds
  <2> QED BY <2>1 DEF Route, Routes, NoItem
<1>2. id \notin {"Tabs", "Search"} \cup Details
  BY DEF Panels, Details
<1>3. ASSUME NEW k \in 2 .. 4 PROVE id # SendSteps[k]
  <2>1. k = 2 \/ k = 3 \/ k = 4 OBVIOUS
  <2>2. SendSteps[k] \in {"SendAddress", "SendAmount", "SendConfirm"}
    BY <2>1, ScreenFacts
  <2> QED BY <2>2 DEF Panels
<1>4. "TokenDetail" \in Details /\ "ActivityDetail" \in Details
  BY DEF Details
<1> HIDE DEF Route
<1> QED BY <1>1, <1>2, <1>3, <1>4 DEF Pushable

\* Opening a detail screen, a panel, the settings, the search.
LEMMA OpenKeeps ==
    ASSUME PopupInv,
           \/ \E r \in renderItemList : OpenDetail(r)
           \/ OpenPanel("settings", "Settings")
           \/ OpenPanel("wallet-drawer", "WalletDrawer")
           \/ OpenPanel("avatar", "AvatarPopover")
           \/ OpenPanel("open-receive", "Receive")
           \/ OpenSettings \/ openSearch
    PROVE  StepHolds
<1>1. Shaped(stack) /\ PopupRest /\ OneSubmission /\ LockedAlone /\ DraftChecked
  BY DEF PopupInv
<1>2. /\ Closed(stack, stack) /\ Closed(stack, closeTop(stack))
      /\ Len(stack) \in Nat /\ Len(stack) >= 1 /\ BaseIndex(stack) \in {1, 2}
  BY <1>1, WholeIsClosed, ClosingCloses, BaseOf DEF Shaped, Typed
<1>3. ASSUME UNCHANGED <<rest, send>>, NEW STATE s, Closed(stack, s), NEW STATE r,
             Pushable(s, r), push(s, r), isLocked => r.id = "Search", r.id # "SendConfirm",
             BaseIndex(stack) = 1 \/ s = stack
      PROVE  StepHolds
  <2>1. Shaped(stack)' /\ LockedAlone' /\ DraftChecked' /\ BaseLeftAlone
    BY <1>3, PushStep DEF push, rest, send
  <2>2. PopupRest' /\ OneSubmission'
    BY <1>1, <1>3 DEF rest, send, PopupRest, OneSubmission
  <2> QED BY <1>3, <2>1, <2>2, Gathers DEF rest, send
<1>4. ASSUME NEW c \in {"settings", "wallet-drawer", "avatar", "open-receive"}, NEW id \in Panels,
             OpenPanel(c, id)
      PROVE  StepHolds
  <2>1. Offered(c) /\ push(stack, Route(id)) /\ UNCHANGED <<rest, send>>
    BY <1>4 DEF OpenPanel
  <2>2. ~isLocked /\ BaseIndex(stack) = 1
    BY <2>1, OfferedFacts
  <2>3. Pushable(stack, Route(id)) /\ Route(id).id = id /\ id # "SendConfirm"
    BY <2>2, PanelPushable DEF Panels
  <2> QED BY <1>2, <1>3, <2>1, <2>2, <2>3
<1>5. ASSUME NEW r \in renderItemList, OpenDetail(r) PROVE StepHolds
  <2>1. baseShown = "Tabs" /\ ~Covered /\ push(stack, r) /\ UNCHANGED <<rest, send>>
    BY <1>5 DEF OpenDetail
  <2>2. ~isLocked /\ stack[BaseIndex(stack)].id = "Tabs"
    BY <2>1 DEF baseShown
  <2>3. BaseIndex(stack) = 1
    BY <1>1, <1>2, <2>2, BaseOf DEF Details
  <2>4. BaseIndex(stack) = Len(stack)
    BY <1>1, <2>1, UncoveredIsTop DEF Covered, modalShown, searchShown
  <2>5. /\ r \in Routes /\ r.id \in Details
        /\ r.id = "TokenDetail" => r.item \in Tokens
        /\ r.id = "ActivityDetail" => r.item \in Activities
    <3>1. Details \subseteq Screens BY ScreenFacts
    <3>2. activeTab \in {"tokens", "collectibles", "activity"} BY <1>1 DEF PopupRest, Tabs
    <3>3. CASE activeTab = "tokens"
      <4>1. renderItemList = [id : {"TokenDetail"}, item : Tokens] BY <3>3 DEF renderItemList
      <4> QED BY <3>1, <4>1 DEF Routes, Details
    <3>4. CASE activeTab = "activity"
      <4>1. renderItemList = [id : {"ActivityDetail"}, item : Activities] BY <3>4 DEF renderItemList
      <4> QED BY <3>1, <4>1 DEF Routes, Details
    <3>5. CASE activeTab = "collectibles"
      <4>1. renderItemList = [id : {"CollectiblesDetail"}, item : {NoItem}] BY <3>5 DEF renderItemList
      <4> QED BY <3>1, <4>1 DEF Routes, Details
    <3> QED BY <3>2, <3>3, <3>4, <3>5
  <2>6. r.id \notin {"Tabs", "Search"} \cup SendIds
    BY <2>5 DEF Details, SendIds
  <2>7. \A k \in 2 .. 4 : r.id # SendSteps[k]
    BY <2>6, ScreenFacts DEF SendIds
  <2>8. Pushable(stack, r) /\ r.id # "SendConfirm"
    BY <2>3, <2>4, <2>5, <2>6, <2>7 DEF Pushable, SendIds
  <2> QED BY <1>2, <1>3, <2>1, <2>2, <2>8
<1>6. CASE OpenSettings
  <2> DEFINE s == closeTop(stack)
  <2>1. Offered("open-settings") /\ push(s, Route("Settings")) /\ UNCHANGED <<rest, send>>
    BY <1>6 DEF OpenSettings
  <2>2. ~isLocked /\ BaseIndex(stack) = 1
    BY <2>1, OfferedFacts
  <2> HIDE DEF s
  <2>3. PICK n \in 1 .. Len(stack) : FirstOf(stack, s, n)
    BY <1>2 DEF Closed, s
  <2>4. Shaped(s) /\ BaseIndex(s) <= 1
    BY <1>1, <2>2, <2>3, FirstShaped
  <2>5. BaseIndex(s) = 1
    BY <2>4, BaseOf
  <2>6. Pushable(s, Route("Settings")) /\ Route("Settings").id = "Settings"
    BY <2>5, PanelPushable DEF Panels
  <2>7. Closed(stack, s)
    BY <1>2 DEF s
  <2> QED BY <1>3, <2>1, <2>2, <2>6, <2>7
<1>7. CASE openSearch
  <2>1. searchShown # {"Search"} /\ push(stack, Route("Search")) /\ UNCHANGED <<rest, send>>
    BY <1>7 DEF openSearch
  <2>2. \A i \in 1 .. Len(stack) : stack[i].id # "Search"
    <3>1. LastOverlay(stack, "transparentModal") = {}
      BY <1>1, <2>1, SearchShown DEF searchShown
    <3> QED BY <1>1, <3>1, SearchShown
  <2>3. Route("Search") \in Routes /\ Route("Search").id = "Search"
    BY ScreenFacts DEF Route, Routes, NoItem
  <2>4. "Search" \notin SendIds \cup Details
    BY DEF SendIds, Details
  <2>5. \A k \in 2 .. 4 : "Search" # SendSteps[k]
    BY <2>4, ScreenFacts DEF SendIds
  <2>6. Pushable(stack, Route("Search"))
    <3> HIDE DEF Route
    <3> QED BY <2>2, <2>3, <2>4, <2>5 DEF Pushable
  <2> QED BY <1>2, <1>3, <2>1, <2>3, <2>6
<1>8. {"Settings", "WalletDrawer", "AvatarPopover", "Receive"} \subseteq Panels
  BY DEF Panels
<1> QED BY <1>4, <1>5, <1>6, <1>7, <1>8

\* Typing in the wizard: a draft is never changed under its confirmation.
LEMMA DraftKeeps ==
    ASSUME PopupInv,
           \/ \E t \in Tokens : UpdateSendDraft("select-send-token", "tokenId", t)
           \/ \E v \in BOOLEAN : \/ UpdateSendDraft("send-to", "to", v)
                                 \/ UpdateSendDraft("send-amount", "amount", v)
                                 \/ UpdateSendDraft("send-memo", "memo", v)
    PROVE  StepHolds
<1>1. Shaped(stack) /\ PopupRest /\ OneSubmission /\ LockedAlone /\ DraftChecked
  BY DEF PopupInv
<1>2. PICK c \in {"select-send-token", "send-to", "send-amount", "send-memo"},
           f \in {"tokenId", "to", "amount", "memo"} :
         \E v : /\ UpdateSendDraft(c, f, v)
                /\ IF f = "tokenId" THEN v \in Tokens ELSE v \in BOOLEAN
  BY Zenon
<1>3. PICK v : UpdateSendDraft(c, f, v) /\ IF f = "tokenId" THEN v \in Tokens ELSE v \in BOOLEAN
  BY <1>2
<1>4. /\ Offered(c) /\ sendDraft' = [sendDraft EXCEPT ![f] = v]
      /\ UNCHANGED <<stack, rest, sendDraftErrors, sendFeedback, sendSubmitting, timers>>
  BY <1>3 DEF UpdateSendDraft
<1>5. ~isLocked /\ ~Exposed(stack)
  <2>1. \E id \in modalShown : id \in SendIds /\ id # "SendConfirm"
    BY <1>4, OfferedFacts DEF SendIds
  <2> QED BY <2>1, ShownWizard
<1>6. sendDraft' \in [tokenId : Tokens, to : BOOLEAN, amount : BOOLEAN, memo : BOOLEAN]
  <2>1. sendDraft \in [tokenId : Tokens, to : BOOLEAN, amount : BOOLEAN, memo : BOOLEAN]
    BY <1>1 DEF PopupRest
  <2>2. CASE f = "tokenId" BY <1>3, <1>4, <2>1, <2>2
  <2>3. CASE f = "to" BY <1>3, <1>4, <2>1, <2>3
  <2>4. CASE f = "amount" BY <1>3, <1>4, <2>1, <2>4
  <2>5. CASE f = "memo" BY <1>3, <1>4, <2>1, <2>5
  <2> QED BY <1>2, <2>2, <2>3, <2>4, <2>5
<1>7. PopupRest' /\ OneSubmission'
  BY <1>1, <1>4, <1>6 DEF PopupRest, OneSubmission, rest
<1>8. Shaped(stack)' /\ LockedAlone' /\ DraftChecked'
  BY <1>1, <1>4, <1>5 DEF LockedAlone, DraftChecked, rest
<1>9. BaseLeftAlone
  <2>1. BaseIndex(stack) \in {1, 2} BY <1>1, BaseOf
  <2> QED BY <1>4, <2>1 DEF BaseLeftAlone
<1> QED BY <1>5, <1>7, <1>8, <1>9, Gathers
\* Starting the wizard and going back in it.
LEMMA WizardMoves ==
    ASSUME PopupInv, openSend \/ SendPrev
    PROVE  StepHolds
<1>1. Shaped(stack) /\ PopupRest /\ OneSubmission
  BY DEF PopupInv
<1>2. ASSUME resetSendFeedback, UNCHANGED rest PROVE PopupRest' /\ OneSubmission'
  BY <1>1, <1>2 DEF resetSendFeedback, PopupRest, OneSubmission, rest
<1>3. CASE openSend
  <2>1. Offered("open-send") /\ resetSendFeedback /\ push(stack, Route("SendToken")) /\ UNCHANGED rest
    BY <1>3 DEF openSend
  <2>2. ~isLocked /\ BaseIndex(stack) = 1
    BY <2>1, OfferedFacts
  <2>3. Pushable(stack, Route("SendToken")) /\ Route("SendToken").id = "SendToken"
    BY <2>2, PanelPushable
  <2>4. Closed(stack, stack)
    BY <1>1, WholeIsClosed
  <2>5. /\ Len(stack) < MaxStack /\ stack' = Append(stack, Route("SendToken"))
        /\ isLocked' = isLocked /\ sendDraft' = sendDraft /\ sendDraftErrors' = {}
    BY <2>1 DEF push, resetSendFeedback, rest
  <2>6. Shaped(stack)' /\ LockedAlone' /\ DraftChecked' /\ BaseLeftAlone
    <3> HIDE DEF Route
    <3> QED BY <2>2, <2>3, <2>4, <2>5, PushStep
  <2> QED BY <1>2, <2>1, <2>2, <2>6, Gathers
<1>4. CASE SendPrev
  <2>1. Offered("send-prev") /\ resetSendFeedback /\ stack' = pop(stack) /\ UNCHANGED rest
    BY <1>4 DEF SendPrev
  <2>2. PICK id \in modalShown : id \in SendIds \ {"SendToken"}
    BY <2>1, OfferedFacts
  <2>3. ~isLocked /\ stack[Len(stack)].id # "SendToken"
    BY <2>2, ShownWizard
  <2>4. Closed(stack, stack')
    BY <1>1, <2>1, <2>3, ClosingCloses
  <2>5. isLocked' = isLocked /\ sendDraft' = sendDraft /\ sendDraftErrors' = {}
    BY <2>1 DEF resetSendFeedback, rest
  <2>6. Shaped(stack)' /\ LockedAlone' /\ DraftChecked' /\ BaseLeftAlone
    BY <2>4, <2>5, CloseStep
  <2> QED BY <1>2, <2>1, <2>3, <2>6, Gathers
<1> QED BY <1>3, <1>4

\* Going on in the wizard: the confirmation is entered with a valid draft.
LEMMA WizardNext ==
    ASSUME PopupInv, goSendNext
    PROVE  StepHolds
<1>1. /\ Shaped(stack) /\ PopupRest /\ OneSubmission /\ LockedAlone
      /\ sendDraftErrors \subseteq Fields /\ BaseIndex(stack) \in {1, 2}
  BY BaseOf DEF PopupInv, PopupRest
<1> DEFINE blocking(next) == CASE next = "SendAddress" -> {}
                               [] next = "SendAmount" -> validateSendDraft \cap {"to"}
                               [] next = "SendConfirm" -> validateSendDraft
<1>2. PICK i \in 1 .. 3 :
         /\ modalShown = {SendSteps[i]}
         /\ IF blocking(SendSteps[i + 1]) = {}
            THEN /\ sendDraftErrors' = IF SendSteps[i + 1] = "SendAmount"
                                       THEN sendDraftErrors \ {"to"} ELSE {}
                 /\ sendFeedback' = "none"
                 /\ push(stack, Route(SendSteps[i + 1]))
            ELSE /\ sendDraftErrors' = validateSendDraft
                 /\ sendFeedback' = "invalid"
                 /\ UNCHANGED stack
         /\ UNCHANGED <<rest, sendDraft, sendSubmitting, timers>>
  BY Zenon DEF goSendNext
<1> DEFINE next == SendSteps[i + 1]
<1>3. i + 1 \in 2 .. 4 /\ (i + 1) - 1 = i
  OBVIOUS
<1>4. /\ next \in {"SendAddress", "SendAmount", "SendConfirm"}
      /\ SendSteps[i] \in {"SendToken", "SendAddress", "SendAmount"}
  <2>1. i = 1 \/ i = 2 \/ i = 3 OBVIOUS
  <2>2. CASE i = 1 BY <2>2, ScreenFacts
  <2>3. CASE i = 2 BY <2>3, ScreenFacts
  <2>4. CASE i = 3 BY <2>4, ScreenFacts
  <2> QED BY <2>1, <2>2, <2>3, <2>4
<1>5. SendSteps[i] \in modalShown /\ SendSteps[i] \in SendIds /\ SendSteps[i] # "SendConfirm"
  BY <1>2, <1>4 DEF SendIds
<1>6. /\ BaseIndex(stack) = 1 /\ ~isLocked /\ ~Exposed(stack)
      /\ \E j \in 1 .. Len(stack) : /\ stack[j].id = SendSteps[i]
                                    /\ \A m \in j+1 .. Len(stack) : stack[m].id \notin SendScreens
  BY <1>5, ShownWizard
<1>7. validateSendDraft \subseteq Fields
  BY DEF validateSendDraft
<1>8. /\ PopupRest'
      /\ OneSubmission'
  <2>1. sendDraftErrors' \subseteq Fields /\ sendFeedback' \in {"none", "invalid"}
    <3> HIDE DEF blocking
    <3> QED BY <1>1, <1>2, <1>7
  <2>2. UNCHANGED <<rest, sendDraft, sendSubmitting, timers>>
    BY <1>2
  <2> QED BY <1>1, <2>1, <2>2 DEF PopupRest, OneSubmission, rest
<1>9. CASE blocking(next) = {}
  <2>1. /\ Len(stack) < MaxStack /\ stack' = Append(stack, Route(next))
        /\ isLocked' = isLocked /\ sendDraft' = sendDraft
        /\ sendDraftErrors' = IF next = "SendAmount" THEN sendDraftErrors \ {"to"} ELSE {}
    BY <1>2, <1>9 DEF push, rest
  <2>2. Route(next) \in Routes /\ Route(next).id = next
    <3>1. next \in Screens
      BY <1>4, ScreenFacts DEF Modals, SendIds
    <3> QED BY <3>1 DEF Route, Routes, NoItem
  <2>3. next \in SendIds /\ next \notin {"Tabs", "Search"} \cup Details
    BY <1>4 DEF SendIds, Details
  <2>4. ASSUME NEW k \in 2 .. 4, next = SendSteps[k] PROVE k = i + 1
    <3>1. (i = 1 \/ i = 2 \/ i = 3) /\ (k = 2 \/ k = 3 \/ k = 4) BY <2>4
    <3>2. CASE k = 2 BY <2>4, <3>1, <3>2, ScreenFacts
    <3>3. CASE k = 3 BY <2>4, <3>1, <3>3, ScreenFacts
    <3>4. CASE k = 4 BY <2>4, <3>1, <3>4, ScreenFacts
    <3> QED BY <3>1, <3>2, <3>3, <3>4
  <2>5. "TokenDetail" \in Details /\ "ActivityDetail" \in Details
    BY DEF Details
  <2> DEFINE r == Route(next)
  <2>6. r \in Routes /\ r.id = next BY <2>2
  <2>7. stack' = Append(stack, r) BY <2>1
  <2> HIDE DEF next, r
  <2>8. ASSUME NEW k \in 2 .. 4, r.id = SendSteps[k]
        PROVE  \E j \in 1 .. Len(stack) : /\ stack[j].id = SendSteps[k - 1]
                                          /\ \A m \in j+1 .. Len(stack) : stack[m].id \notin SendScreens
    <3>1. k - 1 = i BY <1>3, <2>4, <2>6, <2>8
    <3> QED BY <1>6, <3>1
  <2>9. Pushable(stack, r)
    BY <1>6, <2>3, <2>5, <2>6, <2>8 DEF Pushable
  <2>10. Shaped(stack)' /\ BaseIndex(stack') >= BaseIndex(stack)
         /\ (next # "SendConfirm" => ~Exposed(stack'))
    BY <1>1, <2>1, <2>3, <2>6, <2>7, <2>9, PushKeeps
  <2>11. DraftChecked'
    <3>1. CASE next = "SendConfirm"
      <4>1. validateSendDraft = {} BY <1>9, <3>1
      <4>2. sendDraftErrors' = {} BY <2>1, <3>1
      <4>3. validateSendDraft' = validateSendDraft BY <2>1 DEF validateSendDraft
      <4> QED BY <4>1, <4>2, <4>3 DEF DraftChecked
    <3>2. CASE next # "SendConfirm"
      BY <2>10, <3>2 DEF DraftChecked
    <3> QED BY <3>1, <3>2
  <2>12. LockedAlone'
    BY <1>6, <2>1 DEF LockedAlone
  <2>13. BaseLeftAlone
    <3>1. BaseIndex(stack') \in {1, 2} BY <2>10, BaseOf
    <3> QED BY <1>1, <2>10, <3>1 DEF BaseLeftAlone
  <2> QED BY <1>6, <1>8, <2>10, <2>11, <2>12, <2>13, Gathers
<1>10. CASE blocking(next) # {}
  <2>1. stack' = stack /\ isLocked' = isLocked
    BY <1>2, <1>10 DEF rest
  <2>2. Shaped(stack)' /\ LockedAlone' /\ DraftChecked'
    BY <1>1, <1>6, <2>1 DEF LockedAlone, DraftChecked
  <2>3. BaseLeftAlone
    BY <1>1, <2>1 DEF BaseLeftAlone
  <2> QED BY <1>6, <1>8, <2>2, <2>3, Gathers
<1> QED BY <1>9, <1>10

\* Submitting, and the timer of a submission.
LEMMA SubmitKeeps ==
    ASSUME PopupInv, submitSend \/ SubmitTimer
    PROVE  StepHolds
<1>1. /\ Shaped(stack) /\ PopupRest /\ OneSubmission /\ LockedAlone /\ DraftChecked
      /\ BaseIndex(stack) \in {1, 2}
  BY BaseOf DEF PopupInv
<1>2. stack' = stack /\ sendDraft' = sendDraft /\ UNCHANGED rest
  BY DEF submitSend, SubmitTimer
<1>3. Shaped(stack)' /\ LockedAlone' /\ BaseLeftAlone /\ validateSendDraft' = validateSendDraft
  BY <1>1, <1>2 DEF LockedAlone, BaseLeftAlone, rest, validateSendDraft
<1>4. timers = (IF sendSubmitting THEN 1 ELSE 0) /\ timers \in Nat
  BY <1>1 DEF OneSubmission, PopupRest
<1>5. CASE submitSend
  <2>1. "SendConfirm" \in modalShown
    BY <1>5, OfferedFacts DEF submitSend
  <2>2. Exposed(stack) /\ ~isLocked
    BY <2>1, ShownWizard
  <2>3. validateSendDraft = {}
    BY <1>1, <2>2 DEF DraftChecked
  <2>4. /\ ~sendSubmitting /\ sendSubmitting' = TRUE /\ sendFeedback' = "sending"
        /\ timers' = timers + 1 /\ sendDraftErrors' = sendDraftErrors
    BY <1>5, <2>3 DEF submitSend
  <2>5. PopupRest' /\ OneSubmission'
    BY <1>1, <1>2, <1>4, <2>4 DEF PopupRest, OneSubmission, rest
  <2>6. DraftChecked'
    BY <1>1, <1>2, <1>3, <2>4 DEF DraftChecked
  <2> QED BY <1>3, <2>2, <2>5, <2>6, Gathers
<1>6. CASE SubmitTimer
  <2>1. /\ timers > 0 /\ timers' = timers - 1 /\ sendSubmitting' = FALSE
        /\ sendFeedback' = "sent" /\ sendDraftErrors' = sendDraftErrors
    BY <1>6 DEF SubmitTimer
  <2>2. timers' = 0
    BY <1>4, <2>1
  <2>5. PopupRest'
    <3>4. sendSubmitting' \in BOOLEAN
      BY <2>1, Zenon
    <3>1. sendSubmitting' \in BOOLEAN /\ timers' \in Nat
      BY <2>2, <3>4
    <3>2. sendFeedback' \in {"none", "invalid", "sending", "sent"}
      BY <2>1
    <3>3. UNCHANGED <<activeTab, activeWalletId, isLocked, sendDraft, sendDraftErrors>>
      BY <1>2, <2>1 DEF rest
    <3> QED BY <1>1, <3>1, <3>2, <3>3, Zenon DEF PopupRest
  <2>6. OneSubmission'
    BY <2>1, <2>2 DEF OneSubmission
  <2>3. PopupRest' /\ OneSubmission'
    BY <2>5, <2>6
  <2>4. DraftChecked'
    BY <1>1, <1>2, <1>3, <2>1 DEF DraftChecked
  <2> QED BY <1>2, <1>3, <2>1, <2>3, <2>4, Gathers DEF rest
<1> QED BY <1>5, <1>6
-----------------------------------------------------------------------------
\* The popup opens on a single, unlocked root.
LEMMA PopupInitially == Init => PopupInv
<1> SUFFICES ASSUME Init PROVE PopupInv
  OBVIOUS
<1>1. rootRoute \in Routes /\ rootRoute.id = "Tabs"
  <2>1. "Tabs" \in Screens BY ScreenFacts
  <2> QED BY <2>1 DEF rootRoute, Route, Routes, NoItem
<1>2. stack \in Seq(Routes) /\ Len(stack) = 1 /\ stack[1] = rootRoute
  BY <1>1 DEF Init
<1>3. Typed(stack)
  BY <1>2, PopupAssumption DEF Typed
<1>4. Layered(stack) /\ DetailAlone(stack) /\ OneSearch(stack)
  BY <1>2 DEF Layered, DetailAlone, OneSearch
<1>5. Opened(stack)
  BY <1>1, <1>2 DEF Opened
<1>6. InOrder(stack)
  <2>1. "Tabs" \notin SendScreens BY ScreenFacts DEF SendIds
  <2>2. \A k \in 2 .. 4 : SendSteps[k] \in SendScreens BY DEF SendScreens
  <2>3. \A i \in 1 .. Len(stack) : stack[i].id = "Tabs" BY <1>1, <1>2
  <2> QED BY <2>1, <2>2, <2>3 DEF InOrder
<1>7. Shaped(stack)
  BY <1>3, <1>4, <1>5, <1>6 DEF Shaped
<1>8. ~Exposed(stack)
  BY <1>1, <1>2 DEF Exposed
<1>9. DraftChecked /\ LockedAlone
  BY <1>8 DEF DraftChecked, LockedAlone, Init
<1>10. PopupRest /\ OneSubmission
  BY PopupAssumption DEF Init, PopupRest, OneSubmission, Tabs, Fields
<1> QED BY <1>7, <1>9, <1>10 DEF PopupInv

\* Every step of the popup keeps its invariant and respects what covers it.
LEMMA PopupStep == PopupInv /\ Next => StepHolds
<1> SUFFICES ASSUME PopupInv, Next PROVE StepHolds
  OBVIOUS
<1>1. CASE Back \/ CloseButton \/ MaskClick \/ Escape \/ CloseSend
  BY <1>1, CloseKeeps
<1>2. CASE \/ \E t \in Tabs : SetActiveTab(t)
           \/ \E w \in Wallets : SelectWallet(w)
           \/ Lock \/ Unlock
  BY <1>2, ShellKeeps
<1>3. CASE \/ \E r \in renderItemList : OpenDetail(r)
           \/ OpenPanel("settings", "Settings")
           \/ OpenPanel("wallet-drawer", "WalletDrawer")
           \/ OpenPanel("avatar", "AvatarPopover")
           \/ OpenPanel("open-receive", "Receive")
           \/ OpenSettings \/ openSearch
  BY <1>3, OpenKeeps
<1>4. CASE \/ \E t \in Tokens : UpdateSendDraft("select-send-token", "tokenId", t)
           \/ \E v \in BOOLEAN : \/ UpdateSendDraft("send-to", "to", v)
                                 \/ UpdateSendDraft("send-amount", "amount", v)
                                 \/ UpdateSendDraft("send-memo", "memo", v)
  BY <1>4, DraftKeeps
<1>5. CASE openSend \/ SendPrev
  BY <1>5, WizardMoves
<1>6. CASE goSendNext
  BY <1>6, WizardNext
<1>7. CASE submitSend \/ SubmitTimer
  BY <1>7, SubmitKeeps
<1> QED BY <1>1, <1>2, <1>3, <1>4, <1>5, <1>6, <1>7, Zenon DEF Next

\* The invariant holds throughout.
LEMMA PopupInductive == Spec => []PopupInv
<1>1. PopupInv /\ UNCHANGED vars => PopupInv'
  BY DEF PopupInv, Shaped, Typed, Layered, DetailAlone, Opened, OneSearch, InOrder, PopupRest,
         LockedAlone, DraftChecked, Exposed, validateSendDraft, OneSubmission, vars, rest, send
<1>2. PopupInv /\ [Next]_vars => PopupInv'
  BY <1>1, PopupStep DEF StepHolds
<1> QED BY PopupInitially, <1>2, PTL DEF Spec

\* Whatever is opened and closed, the stack is the root, at most one detail
\* screen and overlays in the order of the wizard, one search among them, and
\* an uncovered detail screen shows the item that was opened.
THEOREM ScreensCorrect == Spec => []ScreensConsistent
<1> QED BY PopupInductive, PopupInvGives, PTL

\* At most one submission is pending, however the wizard is left, reopened
\* or locked before its timer fires, and the feedback agrees with it.
THEOREM SubmissionsCorrect == Spec => []OneSubmission
<1> QED BY PopupInductive, PopupInvGives, PTL

\* The confirmation is only ever shown for a draft that is valid at that moment.
THEOREM ConfirmCorrect == Spec => []ConfirmShownIsValid
<1> QED BY PopupInductive, PopupInvGives, PTL

\* No step reaches past the lock, or leaves a base screen that is covered.
THEOREM CoversCorrect == Spec => CoversHold
<1>1. PopupInv /\ [Next]_vars => [LockedIsInert /\ BaseLeftAlone]_vars
  BY PopupStep DEF StepHolds
<1> QED BY <1>1, PopupInductive, PTL DEF Spec, CoversHold
=============================================================================

----------------------------- MODULE WebSession -----------------------------
(***************************************************************************)
(* The web wallet's session (wallet-app/src): AuthProvider with its copy   *)
(* in sessionStorage, the routes behind RequireAuth, the login page's two  *)
(* steps against the server's signature challenges, and the calls of the   *)
(* home and state pages, whose rejection signs the user out.               *)
(*                                                                         *)
(* An answer is handled in one step with everything its continuation does. *)
(* Nothing cancels a call: one that outlives its page still runs its       *)
(* handler, where only the state of the page itself is lost.               *)
(***************************************************************************)
EXTENDS ApiClient, SignatureChallenge

CONSTANTS
    DefaultAccount,   \* what the account field starts with
    MaxCalls          \* bound: calls under way

ASSUME WebAssumption == DefaultAccount \in Accounts /\ MaxCalls \in Nat \ {0, 1}

VARIABLES
    session,  \* AuthProvider's session, or NoSession
    stored,   \* the copy in sessionStorage
    page,     \* where the router is
    login,    \* the login page's state, or NoLogin
    loading,  \* the state page's flag
    calls,    \* the calls under way, in slots
    strays,   \* pending redirects of login pages that were left
    wanted    \* history: how often a challenge was asked for

sessionVars == <<session, stored>>
pageVars == <<page, login, loading>>
webVars == <<challengeVars, sessionVars, pageVars, calls, strays, wanted>>

Protected == {"/", "/state"}
Pages == Protected \cup {"/login", "/site"}
NoSession == [account |-> "none", expired |-> FALSE]
Session == [account : Accounts, expired : BOOLEAN]

\* redirecting: the timer that a successful sign-in starts, while it counts
\* as authorizationResult.success does.
NoLogin == [account |-> "none", challenge |-> 0, requesting |-> FALSE, confirming |-> FALSE,
            success |-> FALSE, redirecting |-> FALSE, from |-> "/"]
FreshLogin(from) == [NoLogin EXCEPT !.account = DefaultAccount, !.from = from]

NoAnswer == Answer(0, FALSE, "absent", "absent")
Free == [kind |-> "free"]
Slots == 1 .. MaxCalls
FreeSlots == {i \in Slots : calls[i].kind = "free"}
FirstFree(slots) == CHOOSE i \in slots : \A j \in slots : i <= j

\* A call of the page that is shown.
NewCall(kind, account, id, from) ==
    [kind |-> kind, mine |-> TRUE, account |-> account, id |-> id, from |-> from,
     answer |-> NoAnswer,
     call |-> request(IF kind \in {"challenge", "confirm"} THEN "POST" ELSE "GET")]
Load == NewCall("state", "none", 0, "/")
-----------------------------------------------------------------------------
(* Routing.                                                                *)

\* RequireAuth sends a visitor without a session to the login page, which
\* sends one with a session on, unless it has just signed them in.
Destination(p, s, success, from) ==
    CASE p \in Protected /\ s = NoSession -> "/login"
      [] p = "/login" /\ s # NoSession /\ ~success -> from
      [] OTHER -> p

\* The app is rendered for location p and session s.  l is the login page's
\* state if it stays, cs the calls; stays says whether the page at p is the
\* one shown now.  A page that is left keeps its calls running; the login
\* page cancels its redirect.  The state page loads when it appears.
Render(p, l, s, cs, stays) ==
    LET to   == Destination(p, s, l.success, l.from)
        same == stays /\ to = p
        kept == [i \in Slots |-> IF cs[i].kind = "free" \/ same THEN cs[i]
                                 ELSE [cs[i] EXCEPT !.mine = FALSE]]
        free == {i \in Slots : cs[i].kind = "free"}
    IN  /\ page' = to
        /\ session' = s
        /\ login' = CASE to # "/login" -> NoLogin
                      [] to = "/login" /\ p # "/login" -> FreshLogin(p)
                      [] OTHER -> l
        /\ IF to = "/state" /\ ~same
           THEN /\ free # {}
                /\ calls' = [kept EXCEPT ![FirstFree(free)] = Load]
                /\ loading' = TRUE
           ELSE /\ calls' = kept
                /\ loading' = (loading /\ same)

\* Links, the address bar and the browser's history.
Navigate(p) ==
    /\ page # "closed" /\ (p # page \/ p = "/login")
    /\ FreeSlots # {}
    /\ Render(p, FreshLogin("/"), session, calls, FALSE)
    /\ UNCHANGED <<challengeVars, stored, strays, wanted>>

\* The tab is closed or reloaded: calls, timers and state are gone, the storage
\* is not.  On opening it the session is what parseStoredSession finds; the
\* login page's history entry still says where it is to redirect.
Close ==
    /\ page # "closed"
    /\ page' = "closed" /\ login' = NoLogin /\ loading' = FALSE
    /\ session' = NoSession
    /\ calls' = [i \in Slots |-> Free]
    /\ strays' = {}
    /\ UNCHANGED <<challengeVars, stored, wanted>>

Open(p, from) ==
    LET s == IF stored.expired THEN NoSession ELSE stored
    IN  /\ page = "closed"
        /\ stored' = s
        /\ Render(p, FreshLogin(from), s, calls, FALSE)
        /\ UNCHANGED <<challengeVars, strays, wanted>>
-----------------------------------------------------------------------------
(* The session.                                                            *)

\* Half an hour passes.
SessionExpires ==
    /\ \/ session # NoSession /\ ~session.expired
       \/ stored # NoSession /\ ~stored.expired
    /\ session' = IF session = NoSession THEN session ELSE [session EXCEPT !.expired = TRUE]
    /\ stored' = IF stored = NoSession THEN stored ELSE [stored EXCEPT !.expired = TRUE]
    /\ UNCHANGED <<challengeVars, pageVars, calls, strays, wanted>>

\* Faulty variant: the timer drops the session and leaves the stored copy.
TickForgetful ==
    /\ session.expired
    /\ Render(page, login, NoSession, calls, TRUE)
    /\ UNCHANGED <<challengeVars, stored, strays, wanted>>

\* AuthProvider's ten-second timer.
Tick ==
    /\ session.expired
    /\ stored' = NoSession
    /\ Render(page, login, NoSession, calls, TRUE)
    /\ UNCHANGED <<challengeVars, strays, wanted>>

\* The button in the header.
SignOut ==
    /\ page \in Protected
    /\ stored' = NoSession
    /\ Render(page, login, NoSession, calls, TRUE)
    /\ UNCHANGED <<challengeVars, strays, wanted>>
-----------------------------------------------------------------------------
(* The login page and the buttons of the others.                           *)

EditAccount(account) ==
    /\ page = "/login" /\ account # login.account
    /\ login' = [login EXCEPT !.account = account]
    /\ UNCHANGED <<challengeVars, sessionVars, page, loading, calls, strays, wanted>>

Begin(call) ==
    /\ FreeSlots # {}
    /\ calls' = [calls EXCEPT ![FirstFree(FreeSlots)] = call]

\* handleSubmit up to the await.
Submit ==
    /\ page = "/login" /\ ~login.requesting /\ ~login.confirming
    /\ wanted < MaxIssued
    /\ wanted' = wanted + 1
    /\ login' = [login EXCEPT !.requesting = TRUE]
    /\ Begin(NewCall("challenge", login.account, 0, "/"))
    /\ UNCHANGED <<challengeVars, sessionVars, page, loading, strays>>

\* handleConfirmSignature up to the await.
ConfirmSignature ==
    /\ page = "/login" /\ ~login.requesting /\ ~login.confirming /\ login.challenge # 0
    /\ login' = [login EXCEPT !.confirming = TRUE]
    /\ Begin(NewCall("confirm", login.account, login.challenge, login.from))
    /\ UNCHANGED <<challengeVars, sessionVars, page, loading, strays, wanted>>

\* handleCheckHealth and the state page's refresh, up to the await.
CheckHealth ==
    /\ page = "/"
    /\ Begin(NewCall("health", "none", 0, "/"))
    /\ UNCHANGED <<challengeVars, sessionVars, pageVars, strays, wanted>>

RefreshState ==
    /\ page = "/state" /\ ~loading
    /\ loading' = TRUE
    /\ Begin(Load)
    /\ UNCHANGED <<challengeVars, sessionVars, page, login, strays, wanted>>

\* The redirect of the login page that is shown, and that of one left.
Redirect ==
    /\ login.redirecting
    /\ Render(login.from, login, session, calls, FALSE)
    /\ UNCHANGED <<challengeVars, stored, strays, wanted>>
StrayRedirect(to) ==
    /\ to \in strays
    /\ strays' = strays \ {to}
    /\ Render(to, FreshLogin("/"), session, calls, to = page)
    /\ UNCHANGED <<challengeVars, stored, wanted>>
-----------------------------------------------------------------------------
(* What the calls meet.                                                    *)

Waiting(i) == calls[i].kind # "free" /\ calls[i].call.at = "fetching"

\* The server takes a POST: handleSignatureChallenge, handleSignatureConfirm.
ServeChallenge(i) ==
    /\ Waiting(i) /\ calls[i].kind = "challenge" /\ calls[i].answer = NoAnswer
    /\ \E id \in 1 .. MaxIssued :
         /\ Issue(calls[i].account, id)
         /\ calls' = [calls EXCEPT ![i].answer = Answer(200, TRUE, "absent", "absent"),
                                   ![i].id = id]
    /\ UNCHANGED <<sessionVars, pageVars, strays, wanted>>

Refusal(account, id) ==
    CASE ~\E c \in challenges : c.id = id -> Answer(404, TRUE, "NOT_FOUND", "no")
      [] \E c \in challenges : c.id = id /\ c.account # account ->
            Answer(400, TRUE, "INVALID_ARGUMENT", "no")
      [] OTHER -> Answer(401, TRUE, "UNAUTHORIZED", "no")

ServeConfirm(i) ==
    /\ Waiting(i) /\ calls[i].kind = "confirm" /\ calls[i].answer = NoAnswer
    /\ Confirm(calls[i].account, calls[i].id)
    /\ calls' = [calls EXCEPT ![i].answer =
            IF Verdict(calls[i].account, calls[i].id) = "ok"
            THEN Answer(200, TRUE, "absent", "absent")
            ELSE Refusal(calls[i].account, calls[i].id)]
    /\ UNCHANGED <<sessionVars, pageVars, strays, wanted>>

\* The answers the client may read: the server's, its body whole or broken
\* off, and those of whatever stands before the server.
Gate == {Answer(503, FALSE, "absent", "absent"), Answer(401, FALSE, "absent", "absent")}
Replies(i) ==
    Gate \cup
    (IF calls[i].kind \in {"challenge", "confirm"}
     THEN IF calls[i].answer = NoAnswer THEN {}
          ELSE {calls[i].answer, [calls[i].answer EXCEPT !.body = FALSE]}
     ELSE {Answer(200, TRUE, "absent", "absent"), Answer(500, TRUE, "INTERNAL_ERROR", "no"),
           Answer(401, TRUE, "UNAUTHORIZED", "no")})

\* Another attempt is due.
Pause(i, c) ==
    /\ ~Over(c)
    /\ calls' = [calls EXCEPT ![i].call = c]
    /\ UNCHANGED <<challengeVars, sessionVars, pageVars, strays, wanted>>
Wake(i) ==
    /\ calls[i].kind # "free" /\ calls[i].call.at = "sleeping"
    /\ calls' = [calls EXCEPT ![i].call = Fetching(@), ![i].answer = NoAnswer]
    /\ UNCHANGED <<challengeVars, sessionVars, pageVars, strays, wanted>>

Without(i) == [calls EXCEPT ![i] = Free]

\* handleSubmit after the await.  Taking back authorizationResult lets the
\* redirect effect run if there is a session.
GotChallenge(i, c) ==
    /\ calls[i].kind = "challenge" /\ Over(c)
    /\ LET after == [login EXCEPT !.requesting = FALSE,
                                  !.challenge = IF c.at = "returned" THEN calls[i].id ELSE @,
                                  !.success = @ /\ c.at # "returned"]
       IN Render(page, IF calls[i].mine THEN after ELSE login, session, Without(i), TRUE)
    /\ UNCHANGED <<challengeVars, stored, strays, wanted>>

\* Faulty variant: the session is opened for what the account field holds by now.
SignedInAsShown(i) == IF calls[i].mine THEN login.account ELSE calls[i].account
\* The account handleConfirmSignature passes to signIn.
SignedInAs(i) == calls[i].account

\* Faulty variant: no redirect is scheduled.
SignedInStaying(i) == [login EXCEPT !.confirming = FALSE, !.success = TRUE]
\* The login page after a successful confirmation.
SignedIn(i) == [login EXCEPT !.confirming = FALSE, !.success = TRUE, !.redirecting = TRUE]

\* handleConfirmSignature after the await: signIn and the redirect, also when
\* the page has been left; a state page shown by then loads once more, since
\* the signOut it was given is a new one.  The server answers 200 with success
\* set and no other way, so the branch on an answer without it is left out.
GotConfirmation(i, c) ==
    LET s == [account |-> SignedInAs(i), expired |-> FALSE]
    IN  /\ calls[i].kind = "confirm" /\ c.at = "returned"
        /\ stored' = s
        /\ IF calls[i].mine
           THEN /\ Render(page, SignedIn(i), s, Without(i), TRUE)
                /\ UNCHANGED strays
           ELSE /\ strays' = strays \cup {calls[i].from}
                /\ IF page = "/state"
                   THEN /\ session' = s /\ loading' = TRUE
                        /\ calls' = [calls EXCEPT ![i] = Load]
                        /\ UNCHANGED <<page, login>>
                   ELSE Render(page, login, s, Without(i), TRUE)
        /\ UNCHANGED <<challengeVars, wanted>>

\* Faulty variant: a failure does not pass through the finally block.
ConfirmationFailedSilently(i, c) ==
    /\ calls[i].kind = "confirm" /\ c.at = "thrown"
    /\ calls' = Without(i)
    /\ UNCHANGED <<challengeVars, sessionVars, pageVars, strays, wanted>>
ConfirmationFailed(i, c) ==
    /\ calls[i].kind = "confirm" /\ c.at = "thrown"
    /\ login' = IF calls[i].mine THEN [login EXCEPT !.confirming = FALSE] ELSE login
    /\ calls' = Without(i)
    /\ UNCHANGED <<challengeVars, sessionVars, page, loading, strays, wanted>>

\* handleCheckHealth and loadState after the await: a rejection signs out,
\* whatever session there is by now.
GotPage(i, c) ==
    /\ calls[i].kind \in {"health", "state"} /\ Over(c)
    /\ IF isSessionInvalidError(c)
       THEN /\ stored' = NoSession
            /\ Render(page, login, NoSession, Without(i), TRUE)
       ELSE /\ loading' = (loading /\ ~(calls[i].mine /\ calls[i].kind = "state"))
            /\ calls' = Without(i)
            /\ UNCHANGED <<sessionVars, page, login>>
    /\ UNCHANGED <<challengeVars, strays, wanted>>

\* The fetch of slot i ends and the call is now c.
Handle(i, c) == \/ Pause(i, c) \/ GotChallenge(i, c) \/ GotConfirmation(i, c)
                \/ ConfirmationFailed(i, c) \/ GotPage(i, c)
Hear(i) == Waiting(i) /\ \E a \in Replies(i) : Handle(i, Answered(calls[i].call, a))
Abort(i) == Waiting(i) /\ \E code \in Aborts : Handle(i, Threw(calls[i].call, code))
ChallengeExpires == Expire /\ UNCHANGED <<sessionVars, pageVars, calls, strays, wanted>>
-----------------------------------------------------------------------------
WebInit == /\ ChallengeInit
           /\ session = NoSession /\ stored = NoSession
           /\ page = "/login" /\ login = FreshLogin("/") /\ loading = FALSE
           /\ calls = [i \in Slots |-> Free]
           /\ strays = {} /\ wanted = 0

WebNext == \/ \E p \in Pages : Navigate(p)
           \/ \E p \in Pages, from \in Protected : Open(p, from)
           \/ Close \/ SessionExpires \/ Tick \/ SignOut
           \/ \E a \in Accounts : EditAccount(a)
           \/ Submit \/ ConfirmSignature \/ CheckHealth \/ RefreshState \/ Redirect
           \/ \E to \in Protected : StrayRedirect(to)
           \/ \E i \in Slots : ServeChallenge(i) \/ ServeConfirm(i) \/ Hear(i) \/ Abort(i) \/ Wake(i)
           \/ ChallengeExpires

\* The browser's timers run, and the timeout ends every fetch.
WebSpec == /\ WebInit /\ [][WebNext]_webVars
           /\ WF_webVars(Tick) /\ WF_webVars(Redirect)
           /\ \A i \in Slots : WF_webVars(Abort(i) \/ Wake(i))
-----------------------------------------------------------------------------
\* Type invariant, with what is kept of a page that is not shown.
WebTypeOK ==
    /\ ChallengeTypeOK
    /\ session \in Session \cup {NoSession} /\ stored \in Session \cup {NoSession}
    /\ page \in Pages \cup {"closed"}
    /\ IF page = "/login" THEN login.account \in Accounts ELSE login = NoLogin
    /\ login.challenge \in 0 .. clock
    /\ loading \in BOOLEAN /\ (loading => page = "/state")
    /\ strays \subseteq Protected
    /\ \A i \in Slots : calls[i] # Free => calls[i].call \in Call /\ ~Over(calls[i].call)

\* Nobody is signed in for an account whose signature the server did not
\* accept: neither editing the field while the confirmation is under way, nor
\* a challenge of another account, nor a late answer to a page that was left,
\* nor a session taken from the storage leads to one.
SessionAuthorised ==
    \A s \in {session, stored} \ {NoSession} :
        \E i \in DOMAIN accepted : accepted[i].account = s.account

\* The storage holds what the app shows, so that loading the page again never
\* brings back a session that was ended nor loses one that was not.
StorageAgrees == page # "closed" => stored = session

\* The server issues no more challenges than the user asked for: a request
\* that changes the server is sent once, even if its answer is lost.
NoRepeatedPost == Len(issued) <= wanted

\* Every call reports what it did, and stays within its retries.
CallsReport == \A i \in Slots : calls[i] # Free => LifecycleFits(calls[i].call)

\* The requests of the pages: nothing is sent twice that should not be, and
\* what a page waits for is told how it ended.
RequestsSafe == WebTypeOK /\ NoRepeatedPost /\ CallsReport

\* A confirmation leads away from the login page (or ends with the session):
\* no order of the answers, of another challenge and of the redirect's timer
\* leaves a signed-in user there.
LoginLeft == (page = "/login" /\ session # NoSession) ~> (page # "/login" \/ session = NoSession)

\* An expired session is ended, wherever the user is.
ExpiredEnds == session.expired ~> ~session.expired

\* A session takes its course, from the login to its expiry.
SessionMovesOn == LoginLeft /\ ExpiredEnds

\* The buttons come back: a page's flag is taken back when its call is over,
\* and every call is over some time.
Blocked == loading \/ login.requesting \/ login.confirming
PagesUnblock == Blocked ~> ~Blocked
=============================================================================

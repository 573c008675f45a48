------------------------- MODULE SignatureChallenge -------------------------
(***************************************************************************)
(* The API server's signature challenges (soulon-backend/internal/api/     *)
(* server.go): a challenge is issued to an account under an ID taken from  *)
(* the clock, and confirming it removes it, whatever the outcome.          *)
(* Handlers run concurrently; each touches the map once, under the lock.   *)
(***************************************************************************)
EXTENDS Integers, Sequences, FiniteSets

CONSTANTS
    Accounts,    \* wallet addresses
    MaxIssued    \* bound: challenges issued

ASSUME ChallengeBounds == MaxIssued \in Nat

VARIABLES
    challenges,  \* the map: records with distinct IDs
    clock,       \* the time in nanoseconds of the latest challenge
    issued,      \* history: account and ID of every challenge, in order
    accepted     \* history: ID and account of every successful confirmation

challengeVars == <<challenges, clock, issued, accepted>>

Challenge == [id : Nat, account : Accounts, expired : BOOLEAN]

\* handleSignatureChallenge.  Two requests may fall on the same clock reading,
\* the later one then takes over the ID; and since the clock is read before the
\* lock is taken, a challenge may be stored after one with a later reading.
Issue(account, id) ==
    /\ Len(issued) < MaxIssued
    /\ id \in 1 .. clock + 1
    /\ clock' = IF id > clock THEN id ELSE clock
    /\ challenges' = {c \in challenges : c.id # id}
                       \cup {[id |-> id, account |-> account, expired |-> FALSE]}
    /\ issued' = Append(issued, [id |-> id, account |-> account])
    /\ UNCHANGED accepted

\* Faulty variant: a challenge is removed once it has expired only.
Remaining_Unexpired(id) == {c \in challenges : c.id # id \/ ~c.expired}

\* What a confirmation leaves in the map.
Remaining(id) == {c \in challenges : c.id # id}

Verdict(account, id) ==
    IF \E c \in challenges : c.id = id /\ c.account = account /\ ~c.expired
    THEN "ok" ELSE "refused"

\* handleSignatureConfirm, with a signature made for this ID and account.
Confirm(account, id) ==
    /\ challenges' = Remaining(id)
    /\ accepted' = IF Verdict(account, id) = "ok"
                   THEN Append(accepted, [id |-> id, account |-> account]) ELSE accepted
    /\ UNCHANGED <<clock, issued>>

\* challengeTTL passes.
Expire ==
    /\ \E c \in challenges :
         /\ ~c.expired
         /\ challenges' = (challenges \ {c}) \cup {[c EXCEPT !.expired = TRUE]}
    /\ UNCHANGED <<clock, issued, accepted>>

ChallengeInit == challenges = {} /\ clock = 0 /\ issued = <<>> /\ accepted = <<>>

ChallengeTypeOK ==
    /\ challenges \in SUBSET Challenge
    /\ clock \in Nat
    /\ issued \in Seq([id : Nat, account : Accounts])
    /\ accepted \in Seq([id : Nat, account : Accounts])

\* A challenge authorises at most once (handleSignatureConfirm deletes it under
\* the lock): whatever is delivered twice, late or under an ID that two
\* challenges share, an account never has more confirmations accepted under an
\* ID than challenges were issued to it under that ID.
SingleUse ==
    LET Entries(seq, e) == {i \in DOMAIN seq : seq[i] = e}
    IN  \A i \in DOMAIN accepted :
            Cardinality(Entries(accepted, accepted[i])) <= Cardinality(Entries(issued, accepted[i]))
=============================================================================

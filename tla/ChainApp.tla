------------------------------ MODULE ChainApp ------------------------------
(***************************************************************************)
(* The chain application (soulon-deep-chain): ExecuteTx (app/tx.go) over   *)
(* the keepers of the bank, staking, distribution and gov modules (x/).    *)
(*                                                                         *)
(* A transaction is not rolled back when it fails: what its keeper has     *)
(* changed by then stays changed.  Amounts are int64; the largest one is   *)
(* MaxInt, so that a small MaxInt shows what happens at the edge.  Quorums *)
(* are compared as float64.                                                *)
(***************************************************************************)
EXTENDS Float64, Sequences, FiniteSets, Functions

CONSTANTS
    Addresses,     \* accounts: senders, receivers, delegators, proposers
    Validators,    \* names of validators
    MaxInt,        \* the largest int64
    Amounts,       \* the amounts, weights and voting powers that transactions name
    Geneses,       \* the genesis files
    MaxTxs,        \* bound: transactions
    MaxProposals   \* bound: proposals

ASSUME ChainSets == IsFiniteSet(Addresses) /\ IsFiniteSet(Validators)
ASSUME ChainBounds ==
    /\ MaxInt \in Nat \ {0} /\ MaxTxs \in Nat /\ MaxProposals \in Nat
    /\ Amounts \subseteq 1 .. MaxInt

Int64 == -(MaxInt + 1) .. MaxInt
Decimals == Nat \X (Nat \ {0})
Options == {"yes", "no", "abstain", "veto"}

\* A genesis file: which checks of InitFromGenesis and of the keepers it
\* passes, and the values that matter.  A balance below zero stands for any
\* entry that the bank refuses; quorum is what the text of params.quorum says, a
\* fraction or NaN.
Genesis ==
    [header : BOOLEAN, sendEnabled : BOOLEAN,
     balances : Seq([address : Addresses, amount : Int64]),
     stakingDurations : BOOLEAN, maxValidators : Int,
     govParams : BOOLEAN, quorum : Decimals \cup {NaN}]

ASSUME GenesesAssumption == Geneses \subseteq Genesis

\* int64 arithmetic wraps around.
Wrap(n) == ((n + MaxInt + 1) % (2 * MaxInt + 2)) - (MaxInt + 1)

VARIABLES
    phase,      \* "new", "running" or "failed": how far InitFromGenesis came
    bank,       \* the bank keeper
    staking,    \* the staking keeper
    rewards,    \* the distribution keeper
    gov,        \* the gov keeper
    response,   \* the last transaction's type, whether it succeeded, and its TxResult
    txs,        \* transactions executed
    ledger      \* history, in unbounded integers: the genesis supply, the rewards
                \* earned and paid, the votes cast on each proposal

keepers == <<bank, staking, rewards, gov>>
chainVars == <<phase, keepers, response, txs, ledger>>

NoVotes == [o \in Options |-> 0]

\* What an operation leaves of a keeper, and whether it reported an error.
Result(ok, keeper) == [ok |-> ok, keeper |-> keeper]

(***************************************************************************)
(* Genesis.                                                                *)
(***************************************************************************)
\* bank.InitGenesis: entries are added up until one is refused; the ones
\* before it stay.
BankInitGenesis(g) ==
    LET good == {n \in 0 .. Len(g.balances) : \A i \in 1 .. n : g.balances[i].amount >= 0}
        last == CHOOSE n \in good : \A m \in good : m <= n
        of(a) == {i \in 1 .. last : g.balances[i].address = a}
        amount == [i \in 1 .. last |-> g.balances[i].amount]
    IN  Result(last = Len(g.balances),
               [sendEnabled |-> g.sendEnabled,
                balances    |-> [a \in Addresses |-> Wrap(SumFunctionOnSet(amount, of(a)))]])

\* staking.InitGenesis: nothing changes unless every parameter is accepted.
StakingInitGenesis(g) ==
    IF g.maxValidators > 0 /\ g.stakingDurations
    THEN Result(TRUE, [maxValidators |-> g.maxValidators, validators |-> {},
                       delegations |-> [d \in Addresses |-> [v \in Validators |-> 0]]])
    ELSE Result(FALSE, staking)

\* strconv.ParseFloat of a text that it accepts.
ParseFloat(text) == IF text = NaN THEN NaN ELSE Float(text[1], text[2])

\* gov.InitGenesis: a quorum that is <= 0 or > 1 is refused; NaN is neither.
GovInitGenesis(g) ==
    LET quorum == ParseFloat(g.quorum)
    IN  IF g.govParams /\ ~AtLeast(<<0, 1>>, quorum)
                       /\ (AtLeast(<<1, 1>>, quorum) \/ quorum = NaN)
        THEN Result(TRUE, [params |-> g.quorum, quorum |-> quorum,
                           proposals |-> <<>>, nextID |-> 1])
        ELSE Result(FALSE, gov)

\* InitFromGenesis: the modules in their order of registration, up to the
\* first that fails.  The process ends when one does.
InitFromGenesis(g) ==
    LET b == BankInitGenesis(g)
        s == StakingInitGenesis(g)
        v == GovInitGenesis(g)
    IN  /\ phase = "new"
        /\ phase' = IF g.header /\ b.ok /\ s.ok /\ v.ok THEN "running" ELSE "failed"
        /\ bank' = IF g.header THEN b.keeper ELSE bank
        /\ staking' = IF g.header /\ b.ok THEN s.keeper ELSE staking
        /\ rewards' = IF g.header /\ b.ok /\ s.ok THEN [d \in Addresses |-> 0] ELSE rewards
        /\ gov' = IF g.header /\ b.ok /\ s.ok THEN v.keeper ELSE gov
        /\ ledger' = [ledger EXCEPT !.supply =
               SumFunction([i \in DOMAIN g.balances |-> g.balances[i].amount])]
        /\ UNCHANGED <<response, txs>>

(***************************************************************************)
(* The keepers' operations.  Names are non-empty and amounts positive:     *)
(* validateTx has refused all others (Refuse).                             *)
(***************************************************************************)
\* Faulty variant: the balance is not checked.
Send_Unchecked(from, to, amount) ==
    IF ~bank.sendEnabled \/ from = to THEN Result(bank.sendEnabled, bank)
    ELSE Result(TRUE, [bank EXCEPT !.balances[from] = Wrap(@ - amount),
                                   !.balances[to] = Wrap(@ + amount)])

Send(from, to, amount) ==
    IF ~bank.sendEnabled THEN Result(FALSE, bank)
    ELSE IF from = to THEN Result(TRUE, bank)
    ELSE IF bank.balances[from] < amount THEN Result(FALSE, bank)
    ELSE Result(TRUE, [bank EXCEPT !.balances[from] = Wrap(@ - amount),
                                   !.balances[to] = Wrap(@ + amount)])

\* Faulty variant: one validator too many.
Delegate_OneMore(k, d, v, amount) ==
    LET validators == IF Cardinality(k.validators) <= k.maxValidators
                      THEN k.validators \cup {v} ELSE k.validators
    IN  IF v \notin validators THEN Result(FALSE, k)
        ELSE Result(TRUE, [k EXCEPT !.validators = validators,
                                    !.delegations[d][v] = Wrap(@ + amount)])

\* Faulty variant: the delegation is booked before the capacity is checked.
Delegate_Early(k, d, v, amount) ==
    LET validators == IF Cardinality(k.validators) < k.maxValidators
                      THEN k.validators \cup {v} ELSE k.validators
    IN  Result(v \in validators, [k EXCEPT !.validators = validators,
                                           !.delegations[d][v] = Wrap(@ + amount)])

\* A new validator registers itself by the first delegation to it, while there
\* is room.
Delegate(k, d, v, amount) ==
    LET validators == IF Cardinality(k.validators) < k.maxValidators
                      THEN k.validators \cup {v} ELSE k.validators
    IN  IF v \notin validators THEN Result(FALSE, k)
        ELSE Result(TRUE, [k EXCEPT !.validators = validators,
                                    !.delegations[d][v] = Wrap(@ + amount)])

\* The amount is taken from one validator before it is delegated to the other.
Redelegate(k, d, from, to, amount) ==
    IF k.delegations[d][from] < amount THEN Result(FALSE, k)
    ELSE Delegate([k EXCEPT !.delegations[d][from] = Wrap(@ - amount)], d, to, amount)

SubmitProposal ==
    [gov EXCEPT !.proposals = [i \in 1 .. gov.nextID |->
                                 IF i = gov.nextID THEN NoVotes ELSE gov.proposals[i]],
                !.nextID = @ + 1]

\* Votes are weights that the transaction names: neither the voter nor the
\* voter's stake, nor the voting period, is looked at.
Vote(id, option, weight) ==
    IF id \notin DOMAIN gov.proposals THEN Result(FALSE, gov)
    ELSE Result(TRUE, [gov EXCEPT !.proposals[id][option] = Wrap(@ + weight)])

\* Faulty variant: a quorum is met unless the ratio is below it.
Tally_NotBelow(id, votingPower) ==
    LET votes == gov.proposals[id]
        ratio == Quotient(Float(Wrap(SumFunction(votes)), 1), Float(votingPower, 1))
        quorumMet == ~AtLeast(gov.quorum, ratio) \/ AtLeast(ratio, gov.quorum)
    IN  [quorumMet |-> quorumMet, accepted |-> quorumMet /\ votes["yes"] > votes["no"]]

\* Whether the quorum is met and the proposal accepted.
Tally(id, votingPower) ==
    LET votes == gov.proposals[id]
        total == Wrap(SumFunction(votes))
        quorumMet == AtLeast(Quotient(Float(total, 1), Float(votingPower, 1)), gov.quorum)
    IN  [quorumMet |-> quorumMet, accepted |-> quorumMet /\ votes["yes"] > votes["no"]]

ClaimReward(d) == [rewards EXCEPT ![d] = 0]

(***************************************************************************)
(* ExecuteTx.                                                              *)
(***************************************************************************)
NoResult == [proposalID |-> 0, accepted |-> FALSE, quorumMet |-> FALSE, claimedReward |-> 0]

Execute(type, ok, result) ==
    /\ phase = "running"
    /\ txs < MaxTxs
    /\ txs' = txs + 1
    /\ response' = [type |-> type, ok |-> ok, result |-> result]
    /\ UNCHANGED phase

\* validateTx, or the switch on the type, refuses the transaction.
Refuse ==
    /\ Execute("invalid", FALSE, NoResult)
    /\ UNCHANGED <<keepers, ledger>>

BankSend(from, to, amount) ==
    LET r == Send(from, to, amount)
    IN  /\ Execute("bank_send", r.ok, NoResult)
        /\ bank' = r.keeper
        /\ UNCHANGED <<staking, rewards, gov, ledger>>

StakingDelegate(d, v, amount) ==
    LET r == Delegate(staking, d, v, amount)
    IN  /\ Execute("staking_delegate", r.ok, NoResult)
        /\ staking' = r.keeper
        /\ UNCHANGED <<bank, rewards, gov, ledger>>

StakingRedelegate(d, from, to, amount) ==
    LET r == Redelegate(staking, d, from, to, amount)
    IN  /\ Execute("staking_redelegate", r.ok, NoResult)
        /\ staking' = r.keeper
        /\ UNCHANGED <<bank, rewards, gov, ledger>>

GovSubmit ==
    /\ Len(ledger.cast) < MaxProposals
    /\ Execute("gov_submit", TRUE, [NoResult EXCEPT !.proposalID = gov.nextID])
    /\ gov' = SubmitProposal
    /\ ledger' = [ledger EXCEPT !.cast = Append(@, NoVotes)]
    /\ UNCHANGED <<bank, staking, rewards>>

GovVote(id, option, weight) ==
    LET r == Vote(id, option, weight)
    IN  /\ Execute("gov_vote", r.ok, NoResult)
        /\ gov' = r.keeper
        /\ ledger' = IF r.ok THEN [ledger EXCEPT !.cast[id][option] = @ + weight] ELSE ledger
        /\ UNCHANGED <<bank, staking, rewards>>

GovTally(id, votingPower) ==
    /\ IF id \in DOMAIN gov.proposals
       THEN LET t == Tally(id, votingPower)
            IN  Execute("gov_tally", TRUE,
                        [NoResult EXCEPT !.accepted = t.accepted, !.quorumMet = t.quorumMet])
       ELSE Execute("gov_tally", FALSE, NoResult)
    /\ UNCHANGED <<keepers, ledger>>

RewardsAdd(d, amount) ==
    /\ Execute("rewards_add", TRUE, NoResult)
    /\ rewards' = [rewards EXCEPT ![d] = Wrap(@ + amount)]
    /\ ledger' = [ledger EXCEPT !.earned[d] = @ + amount]
    /\ UNCHANGED <<bank, staking, gov>>

RewardsClaim(d) ==
    /\ Execute("rewards_claim", TRUE, [NoResult EXCEPT !.claimedReward = rewards[d]])
    /\ rewards' = ClaimReward(d)
    /\ ledger' = [ledger EXCEPT !.paid[d] = @ + rewards[d]]
    /\ UNCHANGED <<bank, staking, gov>>

\* NewChainApp: keepers without parameters.
Init ==
    /\ phase = "new"
    /\ bank = [sendEnabled |-> FALSE, balances |-> [a \in Addresses |-> 0]]
    /\ staking = [maxValidators |-> 0, validators |-> {},
                  delegations |-> [d \in Addresses |-> [v \in Validators |-> 0]]]
    /\ rewards = [d \in Addresses |-> 0]
    /\ gov = [params |-> <<0, 1>>, quorum |-> <<0, 1>>, proposals |-> <<>>, nextID |-> 1]
    /\ response = [type |-> "none", ok |-> TRUE, result |-> NoResult]
    /\ txs = 0
    /\ ledger = [supply |-> 0, cast |-> <<>>, earned |-> [d \in Addresses |-> 0],
                 paid |-> [d \in Addresses |-> 0]]

Next ==
    \/ \E g \in Geneses : InitFromGenesis(g)
    \/ Refuse
    \/ \E from, to \in Addresses, amount \in Amounts : BankSend(from, to, amount)
    \/ \E d \in Addresses, v \in Validators, amount \in Amounts : StakingDelegate(d, v, amount)
    \/ \E d \in Addresses, from, to \in Validators, amount \in Amounts :
         StakingRedelegate(d, from, to, amount)
    \/ GovSubmit
    \/ \E id \in 1 .. MaxProposals, option \in Options, weight \in Amounts :
         GovVote(id, option, weight)
    \/ \E id \in 1 .. MaxProposals, votingPower \in Amounts : GovTally(id, votingPower)
    \/ \E d \in Addresses, amount \in Amounts : RewardsAdd(d, amount)
    \/ \E d \in Addresses : RewardsClaim(d)

Spec == Init /\ [][Next]_chainVars
(***************************************************************************)
(* Properties.                                                             *)
(***************************************************************************)
TxTypes == {"none", "invalid", "bank_send", "staking_delegate", "staking_redelegate",
            "gov_submit", "gov_vote", "gov_tally", "rewards_add", "rewards_claim"}

\* Type invariant: every amount that a keeper holds is an int64, and proposals
\* are numbered from 1 up to the next identifier.
ChainTypeOK ==
    /\ phase \in {"new", "running", "failed"}
    /\ bank \in [sendEnabled : BOOLEAN, balances : [Addresses -> Int64]]
    /\ staking \in [maxValidators : Nat, validators : SUBSET Validators,
                    delegations : [Addresses -> [Validators -> Int64]]]
    /\ rewards \in [Addresses -> Int64]
    /\ DOMAIN gov.proposals = 1 .. gov.nextID - 1
    /\ \A id \in DOMAIN gov.proposals : gov.proposals[id] \in [Options -> Int64]
    /\ response.type \in TxTypes

\* Transfers neither create nor destroy coins and no account goes below zero,
\* as long as the genesis balances add up to an int64 (Send has no overflow
\* check of its own).
SupplyKept ==
    (phase = "running" /\ ledger.supply <= MaxInt) =>
        /\ \A a \in Addresses : bank.balances[a] >= 0
        /\ SumFunction(bank.balances) = ledger.supply

\* However delegations and redelegations follow one another, there are never
\* more validators than max_validators, and all that is delegated is delegated
\* to one of them.
ValidatorsCapped ==
    /\ Cardinality(staking.validators) <= staking.maxValidators
    /\ \A d \in Addresses, v \in Validators :
         staking.delegations[d][v] # 0 => v \in staking.validators

\* Every vote that was accepted counts for its proposal, whatever is submitted
\* or voted on later, as long as the weights cast fit an int64.
VotesCounted ==
    /\ DOMAIN gov.proposals = DOMAIN ledger.cast
    /\ \A id \in DOMAIN ledger.cast :
         SumFunction(ledger.cast[id]) <= MaxInt => gov.proposals[id] = ledger.cast[id]

\* n1 / d1 is at least n2 / d2, but for the error of two roundings each.
AboutAtLeast(n1, d1, n2, d2) ==
    (n1 * d2) * ((Exact + 1) * (Exact + 1)) >= (n2 * d1) * ((Exact - 1) * (Exact - 1))

\* Tally reports the quorum of the genesis file: one that it reports was cast, an
\* overflow of the counts may hide a quorum but never makes one up, and one that
\* was cast, with weights that fit an int64, is reported.  Both up to the
\* rounding of float64, which moves the limit by some 4 / 2^53 of it: above 2^53
\* votes, a proposal that lacks one vote may have its quorum.  A quorum of NaN,
\* which InitGenesis lets through, is never met.
QuorumWasCast ==
    \A id \in DOMAIN gov.proposals, votingPower \in 1 .. MaxInt :
        LET cast == SumFunction(ledger.cast[id])
            met  == Tally(id, votingPower).quorumMet
            text == gov.params
        IN  /\ met => text # NaN /\ AboutAtLeast(cast, votingPower, text[1], text[2])
            /\ ~met => \/ text = NaN \/ cast > MaxInt
                       \/ AboutAtLeast(text[1], text[2], cast, votingPower)

\* Rewards are paid once: what was earned is either paid or still claimable, as
\* long as it fits an int64.
RewardsPaidOnce ==
    \A d \in Addresses : ledger.earned[d] <= MaxInt =>
        ledger.paid[d] + rewards[d] = ledger.earned[d]

\* What is in the keepers is accounted for by the transactions so far: coins,
\* votes and rewards, up to the limits of the integers that hold them.
KeepersAccounted ==
    ChainTypeOK /\ SupplyKept /\ VotesCounted /\ QuorumWasCast /\ RewardsPaidOnce

\* A transaction that reports an error has changed nothing, redelegations
\* excepted: there is no rollback, so every keeper must check before it writes.
FailureIsClean ==
    [][(~response'.ok /\ response'.type # "staking_redelegate") => UNCHANGED keepers]_chainVars

=============================================================================

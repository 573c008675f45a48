----------------------------- MODULE MCChainApp -----------------------------
(***************************************************************************)
(* Two accounts, three validators, int64 cut down to -12 .. 11, and        *)
(* floating-point numbers with three bits, in which 9 is rounded to 8 and  *)
(* 11 to 12.  The genesis files: one whose supply fits, with room for two  *)
(* validators; one whose supply does not fit, with a quorum of all votes;  *)
(* one with a quorum of NaN; and one that is refused by each check.        *)
(***************************************************************************)
EXTENDS ChainApp, TLC

CONSTANTS alice, bob

Plain ==
    [header |-> TRUE, sendEnabled |-> TRUE,
     balances |-> <<[address |-> alice, amount |-> 8], [address |-> bob, amount |-> 3]>>,
     stakingDurations |-> TRUE, maxValidators |-> 2, govParams |-> TRUE, quorum |-> <<1, 3>>]

MCGeneses ==
    {Plain,
     [Plain EXCEPT !.balances[2].amount = 8, !.maxValidators = 1, !.quorum = <<1, 1>>],
     [Plain EXCEPT !.sendEnabled = FALSE, !.balances = <<>>, !.quorum = NaN],
     [Plain EXCEPT !.header = FALSE],
     [Plain EXCEPT !.balances[2].amount = -1],
     [Plain EXCEPT !.maxValidators = 0],
     [Plain EXCEPT !.stakingDurations = FALSE],
     [Plain EXCEPT !.govParams = FALSE],
     [Plain EXCEPT !.quorum = <<0, 1>>],
     [Plain EXCEPT !.quorum = <<2, 1>>]}

MCSymmetry == Permutations(Validators)
=============================================================================

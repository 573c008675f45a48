---------------------------- MODULE WalletSigner ----------------------------
(***************************************************************************)
(* How the wallet SDK makes a signer from a mnemonic (identity.ts and      *)
(* wallet.ts) and a signing client from a signer (client.ts).  An input is *)
(* the set of its parts that fail their own format check, whether the coin *)
(* type is given, and the path indexes that are given.                     *)
(***************************************************************************)
EXTENDS Naturals, Sequences

CONSTANT CoinType      \* the coin type a caller passes, if any

VARIABLES
    signer,      \* [state, path, asked]; a client that holds it hides the rest
    signerError  \* the code the last rejected import reported

signerVars == <<signer, signerError>>

Indexes == {"account", "change", "addressIndex"}
DefaultPath == [coinType |-> 118, given |-> {}]
NoSigner == [state |-> "none", path |-> DefaultPath, asked |-> {}]
Client == [NoSigner EXCEPT !.state = "client"]

(* The first check of a sequence that fails, <<>> when none does.          *)
FirstBad(checks, bad) ==
    LET failing == {i \in 1..Len(checks) : checks[i] \in bad}
        first == CHOOSE i \in failing : \A j \in failing : i <= j
    IN IF failing = {} THEN <<>> ELSE <<checks[first]>>

(* The checks in their order; an index that is not given is 0.             *)
validateWallet == <<"mnemonic", "prefix">>
deriveHdPath == <<"coinType", "account", "change", "addressIndex">>
createWalletFromMnemonic == [checks |-> validateWallet, path |-> DefaultPath]
createWalletFromMnemonicWithPath(given) ==
    [checks |-> validateWallet \o deriveHdPath,
     path |-> [coinType |-> CoinType, given |-> given]]

SignerInit == signer = NoSigner /\ signerError = <<>>

Accept(wallet, bad, given) ==
    LET failed == FirstBad(wallet.checks, bad)
    IN /\ signerError' = failed
       /\ signer' = IF failed = <<>> THEN [state |-> "ready", path |-> wallet.path, asked |-> given]
                    ELSE signer

createSignerFromMnemonic(hasCoinType, given, bad) ==
    /\ signer # Client
    /\ IF ~hasCoinType /\ given # {}
       THEN signerError' = <<"coinType">> /\ UNCHANGED signer
       ELSE Accept(IF hasCoinType THEN createWalletFromMnemonicWithPath(given)
                                  ELSE createWalletFromMnemonic, bad, given)

createRandomSigner(bad) ==
    /\ signer # Client
    /\ Accept([checks |-> <<"prefix">>, path |-> DefaultPath], bad, {})

createSigningClient == /\ signer.state = "ready"
                       /\ signer' = Client
                       /\ signerError' = <<>>

(* One part is wrong at a time, or none.                                   *)
SignerNext == \/ \E hasCoinType \in BOOLEAN, given \in SUBSET Indexes :
                 \E bad \in {{}, {"mnemonic"}, {"prefix"}}
                            \cup (IF hasCoinType THEN {{"coinType"}} ELSE {})
                            \cup {{f} : f \in given} :
                    createSignerFromMnemonic(hasCoinType, given, bad)
              \/ \E bad \in {{}, {"prefix"}} : createRandomSigner(bad)
              \/ createSigningClient
-----------------------------------------------------------------------------
(* A signer always sits on the path its import asked for: an index passed  *)
(* without a coin type is an error, never an account the caller did not    *)
(* choose, and an import that reports an error leaves the signer alone.    *)
SignerPathHonoured ==
    signer.state = "ready" => signer.path.given = signer.asked
=============================================================================

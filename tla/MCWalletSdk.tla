---------------------------- MODULE MCWalletSdk ----------------------------
(* Two concurrent calls of the SDK's services and concurrent users of the  *)
(* nonce manager, on one account.                                          *)
EXTENDS WalletBroadcast
=============================================================================

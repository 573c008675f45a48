---------------------------- MODULE MCWebSession ----------------------------
(* One browser tab and the server, with two accounts.                      *)
EXTENDS WebSession
=============================================================================

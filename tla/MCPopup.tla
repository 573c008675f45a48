------------------------------ MODULE MCPopup ------------------------------
(* The popup with one token, two activities and two wallets.                *)
EXTENDS Popup
=============================================================================

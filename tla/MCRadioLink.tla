----------------------------- MODULE MCRadioLink -----------------------------
(* RadioLink with the button-driven sender and the receive module.           *)
EXTENDS RadioLink
=============================================================================

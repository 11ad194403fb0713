---------------------------- MODULE MCAppSession ----------------------------
(* An app in the internal flash and one of the same name on the sd-card.     *)
EXTENDS AppSession, TLC

MCStripped == ("app" :> "app") @@ ("sdcard app" :> "app")
=============================================================================

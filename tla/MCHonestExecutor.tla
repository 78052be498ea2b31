------------------------- MODULE MCHonestExecutor -------------------------
(* Instances of HonestExecutor for TLC: one entry and one exit. *)
EXTENDS HonestExecutor
CONSTANTS buy, sell
MCIntents == {buy, sell}
MCExits   == {sell}
=============================================================================

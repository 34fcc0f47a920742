---------------------------- MODULE MCMapPhases ----------------------------
(* Instances of MapPhases for TLC: a release build, where only the Charge   *)
(* command hands the blue army to the computer, and a debug build with      *)
(* extensions that ask for either controller at any time.                   *)
EXTENDS MapPhases

Nobody   == {}
Everyone == {"player", "computer"}
=============================================================================

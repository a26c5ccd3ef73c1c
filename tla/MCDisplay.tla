----------------------------- MODULE MCDisplay -----------------------------
(***************************************************************************)
(* Display.tla from a missing file and from a default one; every value the *)
(* editor can produce is reached from there.                               *)
(***************************************************************************)
EXTENDS Display

MCInitialConfig == {NoConfig, 57}
MCDebugBrightness == {75, 50, 25}
=============================================================================

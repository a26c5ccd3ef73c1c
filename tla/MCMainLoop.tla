----------------------------- MODULE MCMainLoop -----------------------------
(***************************************************************************)
(* MainLoop.tla with a battery that charges and that discharges, each with *)
(* a positive and with a negative reading, or has unreadable files.        *)
(***************************************************************************)
EXTENDS MainLoop

Power(percent, microamps, s) ==
  [capacity |-> percent, current |-> microamps, status |-> s, readable |-> Files]
MCBatteries ==
  { Power(50, 900000, "Charging"), Power(20, 600000, "Discharging"),
    Power(20, -24999, "Discharging"), Power(50, -900000, "Charging"),
    [Power(20, 600000, "Discharging") EXCEPT !.readable = {"capacity", "current_now"}],
    [Power(20, 600000, "Discharging") EXCEPT !.readable = {"status"}] }
=============================================================================

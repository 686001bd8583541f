---- MODULE MCRelay ----
(***************************************************************************)
(* Settings for TLC: value 3 and hysteresis 1 of units of 10.              *)
(***************************************************************************)
EXTENDS Relay

AllSettings ==
    [enable : BOOLEAN, failsafe : BOOLEAN, invert : BOOLEAN, auto : BOOLEAN,
     compare : {0, 1}, value : {3}, hysteresis : {1}]

====

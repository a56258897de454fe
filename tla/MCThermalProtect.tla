-------------------------- MODULE MCThermalProtect --------------------------
(* ThermalProtect for TLC: the default thresholds, and what is asked for.  *)
EXTENDS ThermalProtect

\* One temperature for each answer of the thresholds 48 and 62, hysteresis 7.
MCTemps == {41, 55, 62}
=============================================================================

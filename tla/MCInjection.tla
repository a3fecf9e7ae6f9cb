------------------------------ MODULE MCInjection ------------------------------
(***************************************************************************)
(* The instances of the injection bot that TLC explores, with a cadence of *)
(* two ticks and days of three: the service alone for the properties (what *)
(* a manual shot does to them is proved in InjectionProofs), and with a    *)
(* manual shot beside it for the violation.                                *)
(***************************************************************************)
EXTENDS Injection

CONSTANTS service, manual, here

MCManual == {manual}
MCManualNone == {}
MCSpot == {here}
================================================================================

---------------------------- MODULE MCLifecycle ----------------------------
(* Instances of Lifecycle for TLC: one service of each kind, so that one may *)
(* be reached when the other is not, and two signals, so that the second may *)
(* come at any point after the first.                                        *)
EXTENDS Lifecycle

CONSTANTS hc, kuma

MCHealthchecks == {hc}
MCUptimeKumas == {kuma}
=============================================================================

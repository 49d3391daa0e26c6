------------------------------- MODULE MCCpuWork -------------------------------
(* An instance of CpuWork for TLC: one caller more than slots and queue hold.*)
EXTENDS CpuWork, TLC

CONSTANTS c1, c2, c3, c4, c5

MCFive == {c1, c2, c3, c4, c5}
=============================================================================

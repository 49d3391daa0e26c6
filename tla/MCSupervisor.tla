------------------------------ MODULE MCSupervisor ------------------------------
(* An instance of Supervisor for TLC: two operators, two supervisors.        *)
EXTENDS Supervisor, TLC

CONSTANTS c1, c2

MCCommands == {c1, c2}
=============================================================================

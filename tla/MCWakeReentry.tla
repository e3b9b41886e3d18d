--------------------------- MODULE MCWakeReentry ---------------------------
(* The instance of WakeReentry with three tasks: its states are bounded as *)
(* those of MCSemaphore are.                                               *)
EXTENDS WakeReentry, MCSemaphore

=============================================================================

-------------------------- MODULE MCEngineLifecycle --------------------------
(* EngineLifecycle on small sets, for TLC. *)
EXTENDS EngineLifecycle, TLC

NoFaults == {}
AllFaults == FaultKinds
SecConnectFault == {"secConnect"}
ConnCloseFault == {"connClose"}
=============================================================================

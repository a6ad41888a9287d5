--------------------------- MODULE MCTurnDispatch ---------------------------
(***************************************************************************)
(* Instances of TurnDispatch for TLC.                                      *)
(***************************************************************************)
EXTENDS TurnDispatch

\* The faults of each question put to the model.
MCRecovery == {"firstEvent"}
MCAllFaults == FaultKinds
MCRefusal == {"reject"}
MCTransport == {"transport"}
MCLateEvent == {"firstEvent", "lateEvent"}
=============================================================================

---------------------------- MODULE MCMachineUart ----------------------------
(* Instances of MachineUart for model checking; the values are in the      *)
(* configuration files.                                                    *)
EXTENDS MachineUartProofs
=============================================================================

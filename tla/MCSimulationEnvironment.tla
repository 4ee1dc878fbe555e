---------------------- MODULE MCSimulationEnvironment ----------------------
(***************************************************************************)
(* Instances of the kernel for TLC.                                        *)
(***************************************************************************)
EXTENDS SimulationEnvironment

CONSTANTS r1, r2, c1

MCTasks == {r1, r2, c1}
MCRoots == {r1, r2}

=============================================================================

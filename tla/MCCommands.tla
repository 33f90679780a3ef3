---------------------------- MODULE MCCommands ----------------------------
(* Instances of Commands for TLC: the workloads of the runs.               *)
EXTENDS Commands

Workload(p, o, c, r) ==
    [packets |-> p, output |-> o, cancels |-> c, restarts |-> r]

\* Packets in order, packets and output, output across a restart of the
\* controller, a packet and a cancellation across a restart.
SafetyWorkloads == {Workload(2, 0, 0, 0), Workload(1, 1, 0, 0),
                    Workload(0, 2, 0, 1), Workload(1, 0, 1, 1)}

\* One packet; a cancellation.
LiveWorkloads == {Workload(1, 0, 0, 0), Workload(0, 0, 1, 0)}
=============================================================================

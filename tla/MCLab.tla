------------------------------- MODULE MCLab -------------------------------
(* An instance of Lab for TLC: its workloads.                              *)
EXTENDS Lab
CONSTANTS a, b, c1, c2

Quiet == [clients |-> <<>>, calls |-> {}, net |-> 0, faults |-> 0, crashes |-> 0,
          ends |-> TRUE, beats |-> FALSE, probes |-> FALSE]

\* Two clients and one fault that ends the lab; one client, a fault and a restart; a router, a
\* restart and faults until an attempt at deletion is the last.
Preparing == {[Quiet EXCEPT !.clients = <<a, b>>, !.faults = 1, !.ends = FALSE],
              [Quiet EXCEPT !.clients = <<a>>, !.faults = 1, !.crashes = 1],
              [Quiet EXCEPT !.faults = 3, !.crashes = 1]}

\* A power operation in a lab that ends; two in one that goes on.
Powering == {[Quiet EXCEPT !.clients = <<a>>, !.calls = {c1}, !.probes = TRUE],
             [Quiet EXCEPT !.clients = <<a>>, !.calls = {c1, c2}, !.probes = TRUE,
                           !.ends = FALSE]}

\* A network operation in a lab that ends; two of them while time passes.
Networking == {[Quiet EXCEPT !.net = 1, !.faults = 1],
               [Quiet EXCEPT !.net = 2, !.beats = TRUE, !.ends = FALSE]}

MCWorkloads == Preparing \cup Powering \cup Networking
=============================================================================

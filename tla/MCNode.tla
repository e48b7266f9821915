------------------------------- MODULE MCNode -------------------------------
(* Node on a small instance: six TCB slots (idle, server, generator, app   *)
(* and two aperiodic tasks), a server of capacity 2 every 4 ticks, a      *)
(* generator of capacity 1 every 2 ticks, aperiodic tasks of capacity 3   *)
(* (not a multiple of the server's capacity, so both charges happen).     *)
EXTENDS Node

MCMaxTasks == 6
MCMaxTasksWide == 7
MCTickWrap == 4
MCServerPeriod == 4
MCServerCapacity == 2
MCGenPeriod == 2
MCGenCapacity == 1
MCApCapacity == 3
MCDelayTicks == {1, 2}

=============================================================================

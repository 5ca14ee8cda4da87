---------------------------- MODULE MCSimulator ----------------------------
(***************************************************************************)
(* The simulator with timers of an agent and the memory of one block: a    *)
(* simulation whose script fills the calendar until it is resized, and a   *)
(* real-time run in which commands arrive while it waits.                  *)
(***************************************************************************)
EXTENDS Simulator

MCPeriodic == {"Hello", "Neighbor", "Clean", "Trace"}
MCAgents == {{}, {"Hello", "Neighbor"}, {"Clean", "Trace"}}
MCBlocks == {"block"}
MCInterval == [t \in MCPeriodic \cup MCBlocks |->
                 CASE t = "Hello" -> {1, 2} [] t = "Neighbor" -> {4}
                   [] t = "Clean" -> {3} [] t = "Trace" -> {2} [] OTHER -> {1, 9}]
MCPacketDelays == {0, 5}
MCFactors == {<<1, 2>>, <<3, 1>>}
MCWaits == {0, 1, 6}
MCMaxUid == [r \in BOOLEAN |-> IF r THEN 8 ELSE 16]
MCScripts ==
    {[times |-> <<1, 7>>, realtime |-> TRUE],
     [times |-> <<0, 1, 3, 4, 4, 6, 9, 14, 30, 5>>, realtime |-> FALSE],
     [times |-> <<9, 1, 8, 16, 0, 3, 5, 6, 6, 40>>, realtime |-> FALSE]}
=============================================================================

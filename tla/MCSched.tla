------------------------------- MODULE MCSched -------------------------------
(* Two priorities and short quanta. One table has three threads besides idle;  *)
(* in the other two threads host drivers.                                      *)
EXTENDS Sched

MCThreads == 0 .. 3
MCTables == { [slots |-> 0 .. 3, drivers |-> {}], [slots |-> 0 .. 2, drivers |-> {0, 2}] }
MCCPUs == {0}
MCPolicies == {<<0, 1>>, <<1, 2>>}
MCIdle == [c \in {0} |-> 1]
==============================================================================

---------------------------- MODULE MCProcTable -----------------------------
EXTENDS ProcTable

(* Process 1 with a second thread, and process 3; processes and threads,   *)
(* all of them or some.                                                    *)
MCPidOf == [t \in Tids |-> IF t = 2 THEN 1 ELSE t]
MCOptions ==
  {[threads |-> FALSE, def_pids |-> {}, max_procs |-> 0],
   [threads |-> TRUE, def_pids |-> {}, max_procs |-> 0],
   [threads |-> TRUE, def_pids |-> {}, max_procs |-> 2],
   [threads |-> FALSE, def_pids |-> {1}, max_procs |-> 0]}
=============================================================================

--------------------------- MODULE MCThreadPoolMain ---------------------------
(* Instances of ThreadPoolMain for TLC.                                    *)
EXTENDS ThreadPoolMain

MCTasks == 0..(NumTasks - 1)

==============================================================================

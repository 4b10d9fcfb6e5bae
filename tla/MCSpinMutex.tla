----------------------------- MODULE MCSpinMutex -----------------------------
(* An instance of SpinMutex for TLC: three threads, the n-th adds n.       *)
EXTENDS SpinMutex, TLC

CONSTANTS t1, t2, t3

Added == (t1 :> 1) @@ (t2 :> 2) @@ (t3 :> 3)

==============================================================================

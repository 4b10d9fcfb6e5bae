----------------------------- MODULE MCThreadPool -----------------------------
(* Instances of ThreadPool for TLC: Pool.cfg and PoolUnjoinedClient.cfg.   *)
EXTENDS ThreadPool

==============================================================================

-------------------------- MODULE MCExpireManager --------------------------
(* ExpireManager with time-outs a configuration file cannot write.         *)
EXTENDS ExpireManager

\* A deadline in the past, and before the epoch while the clock is at 0.
MCTTLs == {-1, 1, 2}
=============================================================================

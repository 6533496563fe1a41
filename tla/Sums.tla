-------------------------------- MODULE Sums --------------------------------
(* Sums of amounts over finite sets, shared by the accounting modules and  *)
(* the movements of Sats Sentinel.                                          *)
EXTENDS FiniteSetsExt

\* The sum of the values of f.
Total(f) == MapThenSumSet(LAMBDA x : f[x], DOMAIN f)

=============================================================================

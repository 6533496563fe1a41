------------------------------ MODULE MCVault ------------------------------
(* Vault on small instances: model values, and which requests are offered. *)
EXTENDS Vault, TLC

CONSTANTS o, v, s1, s2, s3, pa, pb, ka, kb, kc

\* Device keys are interchangeable, and so are requests in flight.
KeySymmetry == Permutations(Keys) \cup Permutations(Slots)

\* Sats Sentinel asks for the device key while the owner changes the mode
KeyRace == {"unlock", "enable", "disable", "key"}
\* two users come and go, with writes and locks between
UserTraffic == {"unlock", "change", "lock", "write", "structure", "enable"}

\* everything, and what the environment does to the process and its files
AllRequests == {"unlock", "enable", "disable", "change", "lock", "write",
                "structure", "key", "crash", "lose"}

=============================================================================

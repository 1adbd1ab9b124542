----------------------- MODULE MCCronDaylightSaving -----------------------
(* Constants of CronDaylightSaving for TLC. *)
EXTENDS CronDaylightSaving, TLC

EndlessOrOnce == {-1, 1}
Symmetric == Permutations(Processes)
(* What the proofs ask for. *)
ASSUME InstanceKeepsUp == KeepsUp

===========================================================================

-------------------------- MODULE MCCronExclusion --------------------------
(* Constants of CronExclusion for TLC. *)
EXTENDS CronExclusion, TLC

CONSTANTS a, b, c

MCCrons == {a, b, c}

\* The code of a triggers b; b may be excluded by c, and c by itself if the
\* constraint let it.
OneTrigger == {<<a, b>>}
SomeExclusions == {<<c, b>>, <<c, c>>}

============================================================================

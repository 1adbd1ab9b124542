---------------------------- MODULE MCScheduled ----------------------------
(* Two jobs of the scheduler for TLC, Letsencrypt and MessageVacuum.  They    *)
(* share nothing: a behaviour is one of the first or one of the second, the   *)
(* other having nothing to do.                                                *)
EXTENDS Naturals, Sequences, FiniteSets, TLC

CONSTANTS None, MaxFaults, MaxDays, MaxChanges, BatchSize, PreferDns, Provider,
          org, www, deep, any, ip, top,
          m1, m2, m3, a1, a2, task, note

Altnames == {<<org, www>>, <<any, www, deep, org>>, <<ip>>}
Parent == org :> top @@ www :> org @@ deep :> www @@ any :> org @@ ip :> top @@ top :> top
Wildcards == {any}
Invalid == {ip}

Message == [type |-> "message", date |-> 0, model |-> task, kind |-> "email",
            subtype |-> None, named |-> FALSE, chosen |-> TRUE]
File == [Message EXCEPT !.type = "attachment", !.named = TRUE]
Rows == <<m1, m2, m3, a1, a2>>
About == m1 :> Message
      @@ m2 :> [Message EXCEPT !.kind = "comment", !.subtype = note]
      @@ m3 :> [Message EXCEPT !.date = 1, !.subtype = note]
      @@ a1 :> [File EXCEPT !.model = None]
      @@ a2 :> File
Rule == [ttype |-> "message", retention_time |-> 1, kind |-> "email", models |-> {},
         subtypes |-> {}, empty_subtype |-> TRUE, pattern |-> FALSE,
         empty_model |-> FALSE, filtered |-> FALSE, broken |-> FALSE]
Rules == <<[Rule EXCEPT !.kind = "comment"],
           [Rule EXCEPT !.models = {task}, !.filtered = TRUE],
           [Rule EXCEPT !.models = {task}, !.filtered = TRUE, !.broken = TRUE],
           [Rule EXCEPT !.ttype = "attachment"],
           [Rule EXCEPT !.ttype = "attachment", !.pattern = TRUE, !.empty_model = TRUE]>>
Undeletable == {m2}

VARIABLES part,
          altnames, keys, certs, run, cut, changes,
          day, rows, rules, todo,
          faults

LE == INSTANCE Letsencrypt
MV == INSTANCE MessageVacuum

ASSUME LE!Assumption /\ MV!Assumption

leOnly == <<altnames, keys, certs, run, cut, changes>>
mvOnly == <<day, rows, rules, todo>>
all == <<part, leOnly, mvOnly, faults>>

\* A certificate that needs no renewal, and no message left.
Certified ==
  /\ altnames \in {<<org, www>>}
  /\ keys = [m \in LE!Configured |-> "whole"]
  /\ certs = [m \in LE!Configured |-> [state |-> "good", names |-> LE!Configured]]
  /\ run = LE!Idle /\ cut = FALSE /\ changes = 0
Vacuumed == day = 0 /\ rows = {} /\ rules = <<>> /\ todo = <<>>

Init ==
  \/ part = "certificate" /\ LE!Init /\ Vacuumed
  \/ part = "vacuum" /\ MV!Init /\ Certified

CertificateStep == part = "certificate" /\ LE!Next /\ UNCHANGED <<part, mvOnly>>
VacuumStep == part = "vacuum" /\ MV!Next /\ UNCHANGED <<part, leOnly>>
Next == CertificateStep \/ VacuumStep

Fairness ==
  /\ WF_all(part = "certificate" /\ LE!Cron /\ UNCHANGED <<part, mvOnly>>)
  /\ WF_all(part = "vacuum" /\ MV!Run /\ UNCHANGED <<part, leOnly>>)
  /\ WF_all(part = "vacuum" /\ MV!NextDay /\ UNCHANGED <<part, leOnly>>)
  /\ \A t \in {"message", "attachment"} :
       SF_all(part = "vacuum" /\ MV!Start(t) /\ UNCHANGED <<part, leOnly>>)
Spec == Init /\ [][Next]_all /\ Fairness

\* A valid certificate for all configured names is had in the end.  letsencrypt.py:79-98.
EventuallyCertified == LE!EventuallyCertified

\* What a rule selects is deleted in the end.  autovacuum_mixin.py:17-42.
EventuallyVacuumed == MV!EventuallyVacuumed

============================================================================

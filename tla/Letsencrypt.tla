---------------------------- MODULE Letsencrypt ----------------------------
(***************************************************************************)
(* letsencrypt: the cron job that renews the certificate of the server     *)
(* when it is missing, due or without one of the configured names.         *)
(* The files on disk are what survives a run; every step of a run may fail *)
(* and the next run starts again from the files.  The authority (ACME),    *)
(* the DNS provider and the web server are external.                       *)
(***************************************************************************)
EXTENDS Naturals, Sequences, FiniteSets, SequencesExt

CONSTANTS Altnames,   \* sequences of domains the administrator may configure
          Wildcards,  \* the domains that start with "*."
          Parent,     \* domain -> what follows its first label
          Invalid,    \* IP addresses and local names
          PreferDns,  \* letsencrypt.prefer_dns
          Provider,   \* whether letsencrypt.dns_provider can be called
          MaxChanges, \* bound: changes of the altnames
          MaxFaults   \* bound: steps that fail and processes that die

Configured == UNION {ToSet(a) : a \in Altnames}
Assumption ==
  /\ \A a \in Altnames : a # <<>>
  /\ Wildcards \cup Invalid \subseteq Configured
  /\ \A d \in Configured : d \in DOMAIN Parent

VARIABLES altnames,  \* letsencrypt.altnames
          keys,      \* main domain -> its key file: "none", "cut" or "whole"
          certs,     \* main domain -> its certificate file
          run,       \* the run of the cron job
          cut,       \* history: a file was left incomplete beyond repair
          changes, faults

files == <<keys, certs, cut>>
vars == <<altnames, files, run, changes, faults>>

NoCert == [state |-> "none", names |-> {}]
Main(a) == a[1]

\* _cascade_domains: names one label below a wildcard need not be asked for.
Cascaded(ds) == {d \in ds : d \in Wildcards \/ \A w \in ds \cap Wildcards : Parent[d] # Parent[w]}

\* What a certificate for some names is good for.
Covers(names, d) == d \in names \/ \E w \in names \cap Wildcards : Parent[w] = Parent[d]

\* _should_run: "cut" cannot be parsed and raises instead.
ShouldRun(cert, ds) == cert.state \in {"none", "due", "expired"} \/ ~(ds \subseteq cert.names)

\* _handle_challenges can answer an authorization: by a file, or by DNS.
CanAnswer(d) == (d \notin Wildcards /\ ~PreferDns) \/ Provider

----------------------------------------------------------------------------
Idle == [at |-> "idle", main |-> altnames[1], names |-> {}, open |-> {}]
Goto(step) == run' = [run EXCEPT !.at = step]
EndRun == run' = [run EXCEPT !.at = "idle", !.names = {}, !.open = {}]

\* _cron up to _should_run.
Start ==
  LET names == Cascaded(ToSet(altnames))
  IN /\ run.at = "idle"
     /\ names \cap Invalid = {} /\ certs[Main(altnames)].state # "cut"
     /\ ShouldRun(certs[Main(altnames)], names)
     /\ run' = [at |-> "account", main |-> Main(altnames), names |-> names, open |-> {}]
     /\ UNCHANGED <<altnames, files, changes, faults>>

\* _create_client and _register_client; an account that exists is used again.
Register ==
  /\ run.at = "account"
  /\ Goto("key")
  /\ UNCHANGED <<altnames, files, changes, faults>>

\* A mutant: a file that could not be written is left as it is.
KeyAfterError_Left == "cut"

\* _get_key removes the file it could not write.
KeyAfterError == "none"

\* _get_authorization_resource: the key, made when there is none, and the order.
Order ==
  /\ run.at = "key" /\ keys[run.main] # "cut"
  /\ keys' = [keys EXCEPT ![run.main] = "whole"]
  /\ run' = [run EXCEPT !.at = "challenges", !.open = run.names]
  /\ UNCHANGED <<altnames, certs, cut, changes, faults>>

KeyError ==
  /\ run.at = "key" /\ keys[run.main] = "none" /\ faults < MaxFaults
  /\ keys' = [keys EXCEPT ![run.main] = KeyAfterError]
  /\ faults' = faults + 1
  /\ EndRun /\ UNCHANGED <<altnames, certs, cut, changes>>

\* _handle_challenges answers one authorization; DNS answers come after a wait that
\* gives up after 30 minutes, so they end as well.
Answer(d) ==
  /\ run.at = "challenges" /\ d \in run.open /\ CanAnswer(d)
  /\ run' = [run EXCEPT !.open = @ \ {d}]
  /\ UNCHANGED <<altnames, files, changes, faults>>

\* _letsencrypt_validation: poll_and_finalize returns the certificate.
Finalize ==
  /\ run.at = "challenges" /\ run.open = {}
  /\ Goto("save")
  /\ UNCHANGED <<altnames, files, changes, faults>>

\* _save_and_reload.
Save ==
  /\ run.at = "save"
  /\ certs' = [certs EXCEPT ![run.main] = [state |-> "good", names |-> run.names]]
  /\ Goto("reload")
  /\ UNCHANGED <<altnames, keys, cut, changes, faults>>

\* The reload command; the certificate on disk counts as done whether it works or not.
Reload ==
  /\ run.at = "reload"
  /\ EndRun /\ UNCHANGED <<altnames, files, changes, faults>>

\* A step raises: an answer of the authority, a command, a time-out.
Fail ==
  /\ run.at # "idle" /\ faults < MaxFaults
  /\ faults' = faults + 1
  /\ EndRun /\ UNCHANGED <<altnames, files, changes>>

\* The process dies, or the disk is full, while a file is written.
DieWriting ==
  /\ faults < MaxFaults /\ faults' = faults + 1
  /\ \/ /\ run.at = "key" /\ keys[run.main] = "none"
        /\ keys' = [keys EXCEPT ![run.main] = "cut"] /\ UNCHANGED certs
     \/ /\ run.at = "save"
        /\ certs' = [certs EXCEPT ![run.main] = [state |-> "cut", names |-> {}]]
        /\ UNCHANGED keys
  /\ cut' = TRUE
  /\ EndRun /\ UNCHANGED <<altnames, changes>>

SetAltnames(a) ==
  /\ changes < MaxChanges /\ changes' = changes + 1
  /\ altnames' = a
  /\ UNCHANGED <<files, run, faults>>

Age(m) ==
  /\ certs[m].state \in {"good", "due"}
  /\ certs' = [certs EXCEPT ![m].state = IF @ = "good" THEN "due" ELSE "expired"]
  /\ UNCHANGED <<altnames, keys, run, cut, changes, faults>>

Init ==
  /\ altnames \in Altnames
  /\ keys = [m \in Configured |-> "none"]
  /\ certs = [m \in Configured |-> NoCert]
  /\ cut = FALSE
  /\ run = Idle
  /\ changes = 0 /\ faults = 0

Cron == Start \/ Register \/ Order \/ (\E d \in Configured : Answer(d)) \/ Finalize \/ Save \/ Reload

Next ==
  \/ Cron \/ KeyError \/ Fail \/ DieWriting
  \/ \E a \in Altnames : SetAltnames(a)
  \/ \E m \in Configured : Age(m)

\* Odoo starts the job every day, and a step that does not fail ends.
Spec == Init /\ [][Next]_vars /\ WF_vars(Cron)

----------------------------------------------------------------------------
(* Properties *)

Valid == certs[Main(altnames)].state \in {"good", "due"}
Current == Valid /\ \A d \in ToSet(altnames) : Covers(certs[Main(altnames)].names, d)
Refused == ToSet(altnames) \cap Invalid # {} \/ \E d \in Cascaded(ToSet(altnames)) : ~CanAnswer(d)

\* As long as the names can be certified and no file was cut, a certificate that covers
\* every configured name is had in the end, whatever failed before.  letsencrypt.py:79-98,
\* 109-132, 145-221.
EventuallyCertified == ~Current ~> (Current \/ cut \/ Refused)

============================================================================

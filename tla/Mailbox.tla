------------------------------ MODULE Mailbox ------------------------------
(***************************************************************************)
(* fetchmail_attach_from_folder and mail_cleanup on one IMAP mailbox.      *)
(* A pass (the cron job or the button of a server) first cleans the        *)
(* mailbox by age, then reads the mails of the configured folder, attaches *)
(* the ones that match an object, flags, deletes or moves them.  Each mail *)
(* has a savepoint, the pass is one transaction, and the IMAP server has   *)
(* no transaction at all: CLOSE or EXPUNGE removes what is flagged.        *)
(* The folder is the inbox that mail_cleanup cleans.  IMAP, PostgreSQL and *)
(* the passing of time are external.                                       *)
(*                                                                         *)
(* mail_cleanup names mails by their number in its view of the folder.     *)
(* The server tells a session of mails that others expunged, and renumbers *)
(* the rest, while it answers a COPY, never a STORE or SEARCH (RFC 3501,   *)
(* 7.4.1): between the COPY and the STORE of a number it may have changed  *)
(* hands.                                                                  *)
(***************************************************************************)
EXTENDS Naturals, FiniteSets, FiniteSetsExt

CONSTANTS NMails,    \* mails, in the order of their uids
          Fetchers,  \* processes that may run fetch_mail at once
          Objects,
          Address,   \* object -> address in its model_field, <<name, domain>>
          Sent,      \* mail -> addresses in its mail_field
          Settings,  \* of the folder and of the clean-up, and how many mails come
          MaxMailFaults  \* bound: lost connections, crashes and refused commands

Mails == 1..NMails

VARIABLES conf,      \* the settings, one of Settings
          inbox,     \* mail -> {} or the flags it has, for the ones in the folder
          moved,     \* mails in the archive folder or the clean-up folder
          age,       \* mail -> "fresh", "expired" (cleanup_days) or "old" (purge_days)
          attached,  \* mail -> committed mail.message rows
          session,   \* fetcher -> its transaction and its IMAP session
          astray,    \* history: mails that the pass let go: their attachment was rolled
                     \* back, their copy was refused, or they were taken for another
          mailFaults

vars == <<conf, inbox, moved, age, attached, session, astray, mailFaults>>

Idle == [stage |-> "idle", todo |-> {}, mail |-> 0, known |-> {}, new |-> {}, view |-> {}]
In(m) == m \in DOMAIN inbox
With(flags, ms) == [m \in DOMAIN inbox |-> inbox[m] \cup (IF m \in ms THEN flags ELSE {})]
Without(ms) == [m \in DOMAIN inbox \ ms |-> inbox[m]]
Deleted == {m \in DOMAIN inbox : "Deleted" \in inbox[m]}
Goto(f, stage) == session' = [session EXCEPT ![f].stage = stage]

\* Mails that nothing holds any more once the transaction that attached them is gone.
Unsafe(ms, box) == {m \in ms : m \in DOMAIN box => "Deleted" \in box[m]}

\* The mail with a number in a view of the folder, if there is one.
Numbered(view, n) == {m \in view : Cardinality({k \in view : k <= m}) = n}

----------------------------------------------------------------------------
(* The world outside *)

Arrive(m) ==
  /\ m <= conf.mails /\ m \notin DOMAIN age /\ \A n \in 1..(m - 1) : n \in DOMAIN age
  /\ inbox' = [n \in (DOMAIN inbox) \cup {m} |-> IF n = m THEN {} ELSE inbox[n]]
  /\ age' = [n \in (DOMAIN age) \cup {m} |-> IF n = m THEN "fresh" ELSE age[n]]
  /\ UNCHANGED <<conf, moved, attached, session, astray, mailFaults>>

GrowOld(m) ==
  /\ m \in DOMAIN age /\ age[m] # "old"
  /\ age' = [age EXCEPT ![m] = IF @ = "fresh" THEN "expired" ELSE "old"]
  /\ UNCHANGED <<conf, inbox, moved, attached, session, astray, mailFaults>>

----------------------------------------------------------------------------
(* mail_cleanup, before super().fetch_mail() *)

\* A folder that is not confirmed, or not active, is not read.
AfterCleanup == IF conf.active THEN "search" ELSE "commit"

\* A pass begins; its first query takes the snapshot of the messages.
Begin(f) ==
  /\ session[f].stage = "idle"
  /\ session' = [session EXCEPT ![f] = [Idle EXCEPT
       !.stage = IF conf.cleanup THEN "cleanup" ELSE AfterCleanup,
       !.view = IF conf.cleanup THEN DOMAIN inbox ELSE {},
       !.todo = IF conf.cleanup THEN {n \in Mails : \E m \in Numbered(DOMAIN inbox, n) :
                                        age[m] # "fresh" /\ "Seen" \notin inbox[m]} ELSE {},
       !.known = {m \in Mails : attached[m] > 0}]]
  /\ UNCHANGED <<conf, inbox, moved, age, attached, astray, mailFaults>>

\* _cleanup_fetchmail_server of one number: read, then copied to the folder, then, when
\* that succeeds, flagged - under the same number in the view that the server has by now.
CleanupMail(f) ==
  /\ session[f].stage = "cleanup" /\ session[f].todo # {}
  /\ \E view \in {session[f].view} \cup (IF conf.move THEN {DOMAIN inbox} ELSE {}),
        copied \in {FALSE, conf.move} :
       LET n == Min(session[f].todo)
           mail == Numbered(session[f].view, n) \cap DOMAIN inbox
           hit == IF copied THEN Numbered(view, n) \cap DOMAIN inbox ELSE {}
       IN /\ copied => mail # {}
          /\ inbox' = [m \in DOMAIN inbox |-> inbox[m] \cup (IF m \in mail THEN {"Seen"} ELSE {})
                                                     \cup (IF m \in hit THEN {"Deleted"} ELSE {})]
          /\ moved' = IF copied THEN moved \cup mail ELSE moved
          /\ astray' = astray \cup (hit \ mail)
          /\ mailFaults' = mailFaults + (IF conf.move /\ ~copied /\ mail # {} THEN 1 ELSE 0)
          /\ mailFaults' <= MaxMailFaults
          /\ session' = [session EXCEPT ![f].todo = @ \ {n}, ![f].view = view]
  /\ UNCHANGED <<conf, age, attached>>

\* The search of _purge_fetchmail_server.
ToPurge == {m \in DOMAIN inbox : age[m] = "old"}

SearchPurge(f) ==
  /\ session[f].stage = "cleanup" /\ session[f].todo = {}
  /\ session' = [session EXCEPT ![f].stage = "purge", ![f].todo = ToPurge, ![f].view = {}]
  /\ UNCHANGED <<conf, inbox, moved, age, attached, astray, mailFaults>>

\* _purge_fetchmail_server flags, and fetch_mail expunges all that is flagged.  The
\* numbers are those of a new SELECT, and no COPY comes between.
PurgeMails(f) ==
  /\ session[f].stage = "purge"
  /\ inbox' = Without(session[f].todo \cup Deleted)
  /\ session' = [session EXCEPT ![f].stage = AfterCleanup, ![f].todo = {}]
  /\ UNCHANGED <<conf, moved, age, attached, astray, mailFaults>>

----------------------------------------------------------------------------
(* fetchmail_attach_from_folder *)

\* get_criteria; the last 24 hours hold the fresh mails.
Selected == {m \in DOMAIN inbox :
  /\ "Deleted" \notin inbox[m]
  /\ conf.unseen_only => "Seen" \notin inbox[m]
  /\ conf.last_day_only => age[m] = "fresh"}

Search(f) ==
  /\ session[f].stage = "search"
  /\ session' = [session EXCEPT ![f].stage = "fetch", ![f].todo = Selected]
  /\ UNCHANGED <<conf, inbox, moved, age, attached, astray, mailFaults>>

\* email_exact, and email_domain when nothing has the exact address.
Matches(m) ==
  LET exact == {o \in Objects : Address[o] \in Sent[m]}
  IN IF conf.algorithm = "email_domain" /\ exact = {}
       THEN {o \in Objects : \E a \in Sent[m] : a[2] = Address[o][2]}
       ELSE exact

\* apply_matching attaches: a new message for which one object is found, or the first.
Attaches(f, m) ==
  /\ m \notin session[f].known \cup session[f].new
  /\ \/ conf.algorithm = "odoo_standard"
     \/ Cardinality(Matches(m)) = 1
     \/ conf.match_first /\ Matches(m) # {}

\* A mail is read, parsed and attached, and the server action run, up to update_msg.
\* seen = "on_fetch" reads it with RFC822, which marks it; the others peek.
FetchMail(f) ==
  /\ session[f].stage = "fetch" /\ session[f].todo # {}
  /\ LET m == Min(session[f].todo)
         found == Attaches(f, m)
     IN /\ In(m)
        /\ inbox' = With(IF conf.seen = "on_fetch" THEN {"Seen"} ELSE {}, {m})
        /\ session' = [session EXCEPT ![f].stage = "update", ![f].mail = m, ![f].todo = @ \ {m},
                                ![f].new = IF found THEN @ \cup {m} ELSE @]
  /\ UNCHANGED <<conf, moved, age, attached, astray, mailFaults>>

\* The message is gone or cannot be parsed, or an object or the server action refuses
\* it: back to the savepoint, and the next one.
FetchFails(f) ==
  /\ session[f].stage = "fetch" /\ session[f].todo # {}
  /\ LET m == Min(session[f].todo)
     IN /\ session' = [session EXCEPT ![f].todo = @ \ {m}]
        /\ inbox' = With(IF conf.seen = "on_fetch" THEN {"Seen"} ELSE {}, {m})
        /\ mailFaults' = mailFaults + (IF In(m) THEN 1 ELSE 0) /\ mailFaults' <= MaxMailFaults
  /\ UNCHANGED <<conf, moved, age, attached, astray>>

\* A mutant: a mail without a match is deleted too.
NewFlags_DeleteAll(matched) ==
  (IF conf.seen \in {"all", IF matched THEN "matching" ELSE "all"} THEN {"Seen"} ELSE {})
  \cup (IF conf.delete_matching THEN {"Deleted"} ELSE {})
  \cup (IF ~matched /\ conf.flag_nonmatching THEN {"Flagged"} ELSE {})

\* The flags update_msg adds; a fetch never takes \Flagged away.
NewFlags(matched) ==
  (IF conf.seen \in {"all", IF matched THEN "matching" ELSE "all"} THEN {"Seen"} ELSE {})
  \cup (IF matched /\ conf.delete_matching THEN {"Deleted"} ELSE {})
  \cup (IF ~matched /\ conf.flag_nonmatching THEN {"Flagged"} ELSE {})

UpdateMail(f) ==
  /\ session[f].stage = "update"
  /\ inbox' = With(NewFlags(session[f].mail \in session[f].new), {session[f].mail})
  /\ Goto(f, IF conf.archive /\ ~conf.delete_matching THEN "archive" ELSE "fetch")
  /\ UNCHANGED <<conf, moved, age, attached, astray, mailFaults>>

\* The server refuses a command for the mail: back to the savepoint, and the next one.
UpdateFails(f) ==
  /\ session[f].stage \in {"update", "archive"}
  /\ mailFaults < MaxMailFaults /\ mailFaults' = mailFaults + 1
  /\ LET m == session[f].mail
     IN /\ \/ UNCHANGED inbox
           \/ /\ session[f].stage = "update"
              /\ inbox' = With(NewFlags(m \in session[f].new) \cap {"Seen"}, {m})
        /\ session' = [session EXCEPT ![f].stage = "fetch", ![f].new = @ \ {m}]
        /\ astray' = astray \cup Unsafe({m} \cap session[f].new, inbox)
  /\ UNCHANGED <<conf, moved, age, attached>>

\* _archive_msg: copy, flag, expunge.  The answer to the copy is not looked at.
ArchiveMail(f) ==
  LET m == session[f].mail
  IN /\ session[f].stage = "archive"
     /\ \/ /\ moved' = moved \cup ({m} \cap DOMAIN inbox)
           /\ UNCHANGED <<astray, mailFaults>>
        \/ /\ mailFaults < MaxMailFaults /\ In(m)
           /\ mailFaults' = mailFaults + 1 /\ astray' = astray \cup {m} /\ UNCHANGED moved
     /\ inbox' = Without(Deleted \cup {m})
     /\ Goto(f, "fetch")
     /\ UNCHANGED <<conf, age, attached>>

\* connection.close() expunges.
Close(f) ==
  /\ session[f].stage = "fetch" /\ session[f].todo = {}
  /\ inbox' = Without(Deleted)
  /\ Goto(f, "commit")
  /\ UNCHANGED <<conf, moved, age, attached, astray, mailFaults>>

\* The connection is lost, maybe after the server did what it was told.  The error of
\* the mail in hand is caught, and that of the folder, but the logout() in the finally of
\* fetch_mail (the close() of the clean-up) raises again: the whole pass is rolled back.
LoseConnection(f) ==
  /\ session[f].stage \in {"cleanup", "purge", "search", "fetch", "update", "archive"}
  /\ mailFaults < MaxMailFaults /\ mailFaults' = mailFaults + 1
  /\ \/ UNCHANGED inbox
     \/ /\ session[f].stage = "update"
        /\ inbox' = With(NewFlags(session[f].mail \in session[f].new), {session[f].mail})
  /\ astray' = astray \cup Unsafe(session[f].new, inbox')
  /\ session' = [session EXCEPT ![f] = Idle]
  /\ UNCHANGED <<conf, moved, age, attached>>

----------------------------------------------------------------------------
(* The transaction of the pass *)

Commit(f) ==
  /\ session[f].stage = "commit"
  /\ attached' = [m \in Mails |-> attached[m] + (IF m \in session[f].new THEN 1 ELSE 0)]
  /\ session' = [session EXCEPT ![f] = Idle]
  /\ UNCHANGED <<conf, inbox, moved, age, astray, mailFaults>>

\* The process dies, or the commit is refused: nothing is astray on the IMAP server.
Crash(f) ==
  /\ session[f].stage # "idle"
  /\ mailFaults < MaxMailFaults /\ mailFaults' = mailFaults + 1
  /\ astray' = astray \cup Unsafe(session[f].new, inbox)
  /\ session' = [session EXCEPT ![f] = Idle]
  /\ UNCHANGED <<conf, inbox, moved, age, attached>>

Init ==
  /\ conf \in Settings
  /\ inbox = [m \in {} |-> {}] /\ age = [m \in {} |-> "fresh"]
  /\ moved = {} /\ astray = {} /\ mailFaults = 0
  /\ attached = [m \in Mails |-> 0]
  /\ session = [f \in Fetchers |-> Idle]

PassStep(f) ==
  \/ Begin(f) \/ CleanupMail(f) \/ SearchPurge(f) \/ PurgeMails(f)
  \/ Search(f) \/ FetchMail(f) \/ FetchFails(f) \/ UpdateMail(f) \/ UpdateFails(f) \/ ArchiveMail(f)
  \/ Close(f) \/ LoseConnection(f) \/ Commit(f) \/ Crash(f)

Next ==
  \/ \E m \in Mails : Arrive(m) \/ GrowOld(m)
  \/ \E f \in Fetchers : PassStep(f)

Spec == Init /\ [][Next]_vars

----------------------------------------------------------------------------
(* Properties *)

Held(m) == attached[m] > 0 \/ \E f \in Fetchers : m \in session[f].new

\* A mail that came and is no longer in the mailbox is in Odoo (or in a transaction
\* that will put it there), was moved, or was old enough to be purged - but for the
\* mails that were flagged before the attachment of their pass was rolled back (a crash,
\* a refused commit, a lost connection), whose copy to the archive was refused, or that
\* the clean-up flagged under the number of the mail that it had copied.
\* fetchmail_server_folder.py:214-285, mail_cleanup fetchmail_server.py:49-97.
NoMailLost ==
  \A m \in DOMAIN age : In(m) \/ Held(m) \/ m \in moved \cup astray \/ age[m] = "old"

============================================================================

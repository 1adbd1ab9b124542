------------------------- MODULE MaintenanceProofs -------------------------
(***************************************************************************)
(* Proofs about Maintenance.  A behaviour is one of a single component, so *)
(* an inductive invariant of a component, guarded by its part, is one of   *)
(* the composition.                                                        *)
(***************************************************************************)
EXTENDS Maintenance, FiniteSetTheorems, SequenceTheorems, WellFoundedInduction, TLAPS

----------------------------------------------------------------------------
(* AutoBackup: what was backed up once has a file, and the file that a        *)
(* successful backup made today is there until the action that made it ends:  *)
(* its clean-up spares it, because no day passes before.                      *)

BackupType ==
  /\ day \in Nat
  /\ files \in [Configs -> SUBSET Nat]
  /\ run \in [todo : SUBSET Configs, cached : BOOLEAN, done : SUBSET Configs]
  /\ had \subseteq Configs

DoneToday == \A c \in run.done : day \in files[c]

BackupInv == BackupType /\ AB!BackupKept /\ DoneToday

\* Before the first backup nothing has to be kept.
LEMMA BackupInit == AB!Init => BackupInv
BY DEF AB!Init, BackupInv, BackupType, DoneToday, AB!BackupKept, AB!NoRun

\* Each step of a backup, of its clean-up and of a user keeps the backups.
LEMMA BackupNext ==
  ASSUME AB!Assumption, BackupInv, [AB!Next]_AB!vars
  PROVE  BackupInv'
<1> USE DEF BackupInv, BackupType, DoneToday, AB!BackupKept, AB!NoRun
<1>1. ASSUME NEW cs \in SUBSET Configs, AB!Start(cs)
      PROVE  BackupInv'
  BY <1>1 DEF AB!Start
<1>2. ASSUME NEW c \in Configs, AB!Backup(c)
      PROVE  BackupInv'
  <2>1. /\ files' = [files EXCEPT ![c] = @ \cup {day}]
        /\ had' = had \cup {c} /\ day' = day
        /\ run'.done = run.done \cup {c}
        /\ run' \in [todo : SUBSET Configs, cached : BOOLEAN, done : SUBSET Configs]
    <3>1. (c \in Local) \in BOOLEAN
      OBVIOUS
    <3> QED BY <1>2, <3>1 DEF AB!Backup, AB!Advance
  <2> QED BY <2>1
<1>3. ASSUME NEW c \in Configs, AB!BackupFails(c)
      PROVE  BackupInv'
  BY <1>3 DEF AB!BackupFails, AB!Advance, AB!DoneAfterError
<1>4. ASSUME NEW c \in Configs, AB!Cleanup(c)
      PROVE  BackupInv'
  <2>1. c \in run.done /\ day' = day /\ had' = had /\ run' = [run EXCEPT !.done = @ \ {c}]
    BY <1>4 DEF AB!Cleanup
  <2>2. PICK kept \in SUBSET AB!Old(c) :
          files' = [files EXCEPT ![c] = IF Keep[c] = 0 THEN @ ELSE (@ \ AB!Old(c)) \cup kept]
    BY <1>4 DEF AB!Cleanup
  <2>3. AB!Old(c) \subseteq files[c] /\ day \notin AB!Old(c)
    BY DEF AB!Old, AB!Assumption
  <2>4. day \in files'[c] /\ files' \in [Configs -> SUBSET Nat]
    BY <2>1, <2>2, <2>3
  <2> QED BY <2>1, <2>2, <2>4
<1>5. CASE AB!End
  BY <1>5 DEF AB!End
<1>6. CASE AB!Crash
  BY <1>6 DEF AB!Crash
<1>7. CASE AB!NextDay
  BY <1>7 DEF AB!NextDay
<1>8. CASE UNCHANGED AB!vars
  BY <1>8 DEF AB!vars
<1> QED BY <1>1, <1>2, <1>3, <1>4, <1>5, <1>6, <1>7, <1>8 DEF AB!Next

----------------------------------------------------------------------------
(* Mailbox: what accounts for a mail that leaves the folder, once it is there *)
(* it stays; and every mail that is flagged as deleted is accounted for.      *)

Covered(m) == MB!Held(m) \/ m \in moved \cup astray \/ age[m] = "old"
Safe(m) == m \in DOMAIN inbox /\ "Deleted" \notin inbox[m]

Stages == {"idle", "cleanup", "purge", "search", "fetch", "update", "archive", "commit"}
Session == [stage : Stages, todo : SUBSET MB!Mails, mail : Nat, known : SUBSET MB!Mails,
            new : SUBSET MB!Mails, view : SUBSET MB!Mails]

MailType ==
  /\ DOMAIN age \subseteq MB!Mails /\ DOMAIN inbox \subseteq DOMAIN age
  /\ attached \in [MB!Mails -> Nat]
  /\ session \in [Fetchers -> Session]
  /\ \A f \in Fetchers : session[f].stage = "idle" => session[f].new = {}

DeletedCovered == \A m \in MB!Deleted : Covered(m)

PurgedOld ==
  \A f \in Fetchers : session[f].stage = "purge" =>
    \A m \in session[f].todo : m \in DOMAIN age /\ age[m] = "old"

MailInv == MailType /\ MB!NoMailLost /\ DeletedCovered /\ PurgedOld

\* A process without a session is in a session of nothing.
LEMMA IdleSession == MB!Idle \in Session /\ MB!Idle.new = {} /\ MB!Idle.stage = "idle"
BY DEF MB!Idle, Session, Stages

\* Nothing was fetched before the first session.
LEMMA MailInit == MB!Init => MailInv
<1> SUFFICES ASSUME MB!Init PROVE MailInv
  OBVIOUS
<1>1. DOMAIN inbox = {} /\ DOMAIN age = {}
  BY DEF MB!Init
<1>2. session \in [Fetchers -> Session] /\ \A f \in Fetchers : session[f].new = {}
  <2>1. MB!Idle \in Session /\ MB!Idle.new = {}
    BY DEF MB!Idle, Session, Stages
  <2> QED BY <2>1 DEF MB!Init
<1>3. attached \in [MB!Mails -> Nat]
  BY DEF MB!Init
<1>4. PurgedOld
  BY DEF MB!Init, MB!Idle, PurgedOld
<1> QED BY <1>1, <1>2, <1>3, <1>4 DEF MailInv, MailType, MB!NoMailLost, DeletedCovered, MB!Deleted

\* A step keeps the invariant when what accounted for a mail still does, or the mail is
\* safe in the folder, and what leaves the folder, or is flagged as deleted in it, is
\* accounted for.
LEMMA MailAccounted ==
  ASSUME MailInv, MailType', PurgedOld',
         DOMAIN age \subseteq DOMAIN age',
         \A m \in DOMAIN age : Covered(m) => Covered(m)' \/ Safe(m)',
         \A m \in DOMAIN age' \ DOMAIN age : m \in DOMAIN inbox',
         \A m \in DOMAIN inbox : m \notin DOMAIN inbox' => Covered(m)',
         \A m \in DOMAIN inbox' : "Deleted" \in inbox'[m] =>
            \/ m \in DOMAIN inbox /\ "Deleted" \in inbox[m]
            \/ Covered(m)'
  PROVE  MailInv'
<1>1. MB!NoMailLost'
  <2> SUFFICES ASSUME NEW m \in DOMAIN age', m \notin DOMAIN inbox' PROVE Covered(m)'
    BY DEF MB!NoMailLost, MB!In, Covered
  <2>1. m \in DOMAIN age
    OBVIOUS
  <2>2. m \in DOMAIN inbox \/ Covered(m)
    BY <2>1 DEF MailInv, MB!NoMailLost, MB!In, Covered
  <2> QED BY <2>1, <2>2 DEF Safe
<1>2. DeletedCovered'
  <2> SUFFICES ASSUME NEW m \in DOMAIN inbox', "Deleted" \in inbox'[m] PROVE Covered(m)'
    BY DEF DeletedCovered, MB!Deleted
  <2>1. ASSUME m \in DOMAIN inbox, "Deleted" \in inbox[m] PROVE Covered(m) /\ m \in DOMAIN age
    BY <2>1 DEF MailInv, MailType, DeletedCovered, MB!Deleted
  <2> QED BY <2>1 DEF Safe
<1> QED BY <1>1, <1>2 DEF MailInv

\* A mail stays accounted for, or safe, when what is moved or astray stays so, and what is
\* no longer held is astray or safe.
LEMMA CoveredKept ==
  ASSUME NEW m, Covered(m), age' = age, attached' = attached, moved \subseteq moved',
         \A f \in Fetchers : \A x \in session[f].new :
            x \in session'[f].new \cup astray' \/ Safe(x)',
         astray \subseteq astray'
  PROVE  Covered(m)' \/ Safe(m)'
BY DEF Covered, MB!Held

\* A step of a pass, whose session becomes r.
LEMMA MailStep ==
  ASSUME MailInv, NEW f \in Fetchers, NEW r \in Session,
         session' = [session EXCEPT ![f] = r],
         r.stage = "idle" => r.new = {},
         r.stage = "purge" => \A m \in r.todo : m \in DOMAIN age /\ age[m] = "old",
         \A x \in session[f].new : x \in r.new \cup astray' \/ Safe(x)',
         age' = age, attached' = attached, moved \subseteq moved', astray \subseteq astray',
         DOMAIN inbox' \subseteq DOMAIN inbox,
         \A m \in DOMAIN inbox : m \notin DOMAIN inbox' => "Deleted" \in inbox[m] \/ Covered(m)',
         \A m \in DOMAIN inbox' : "Deleted" \in inbox'[m] =>
            "Deleted" \in inbox[m] \/ Covered(m)'
  PROVE  MailInv'
<1> USE DEF MailInv, MailType
<1>1. MailType' /\ PurgedOld'
  BY DEF PurgedOld
<1>2. \A g \in Fetchers : \A x \in session[g].new :
        x \in session'[g].new \cup astray' \/ Safe(x)'
  OBVIOUS
<1>3. \A m \in DOMAIN age : Covered(m) => Covered(m)' \/ Safe(m)'
  BY <1>2, CoveredKept
<1>4. \A m \in DOMAIN inbox : "Deleted" \in inbox[m] => Covered(m)' \/ Safe(m)'
  BY <1>3 DEF DeletedCovered, MB!Deleted
<1>5. \A m \in DOMAIN inbox : m \notin DOMAIN inbox' => Covered(m)'
  BY <1>4 DEF Safe
<1> QED BY <1>1, <1>3, <1>5, MailAccounted

\* Marking mails adds no Deleted flag but to the marked ones.
LEMMA WithFlags ==
  ASSUME NEW flags, NEW ms
  PROVE  /\ DOMAIN MB!With(flags, ms) = DOMAIN inbox
         /\ \A m \in DOMAIN inbox : "Deleted" \in MB!With(flags, ms)[m] =>
               "Deleted" \in inbox[m] \/ ("Deleted" \in flags /\ m \in ms)
<1>1. /\ DOMAIN MB!With(flags, ms) = DOMAIN inbox
      /\ \A m \in DOMAIN inbox :
           MB!With(flags, ms)[m] = inbox[m] \cup (IF m \in ms THEN flags ELSE {})
  BY DEF MB!With
<1> QED BY <1>1

\* Each step of the mails, of a fetcher and of the folder keeps the mails.
LEMMA MailNext ==
  ASSUME MailInv, [MB!Next]_MB!vars
  PROVE  MailInv'
<1> USE DEF MailInv, MailType
<1>1. ASSUME NEW n \in MB!Mails, MB!Arrive(n)
      PROVE  MailInv'
  <2>1. /\ n \notin DOMAIN age
        /\ DOMAIN inbox' = (DOMAIN inbox) \cup {n} /\ DOMAIN age' = (DOMAIN age) \cup {n}
        /\ inbox'[n] = {} /\ \A m \in DOMAIN inbox : m # n => inbox'[m] = inbox[m]
        /\ \A m \in DOMAIN age : age'[m] = age[m]
        /\ moved' = moved /\ attached' = attached /\ session' = session /\ astray' = astray
    BY <1>1 DEF MB!Arrive
  <2>2. ASSUME NEW m \in DOMAIN age, Covered(m) PROVE Covered(m)'
    BY <2>1, <2>2 DEF Covered, MB!Held
  <2>3. PurgedOld'
    BY <2>1 DEF PurgedOld
  <2> QED BY <2>1, <2>2, <2>3, MailAccounted
<1>2. ASSUME NEW n \in MB!Mails, MB!GrowOld(n)
      PROVE  MailInv'
  <2>1. /\ DOMAIN age' = DOMAIN age
        /\ \A m \in DOMAIN age : age[m] = "old" => age'[m] = "old"
        /\ inbox' = inbox /\ moved' = moved /\ attached' = attached
        /\ session' = session /\ astray' = astray
    BY <1>2 DEF MB!GrowOld
  <2>2. ASSUME NEW m \in DOMAIN age, Covered(m) PROVE Covered(m)'
    BY <2>1, <2>2 DEF Covered, MB!Held
  <2>3. PurgedOld'
    BY <2>1 DEF PurgedOld
  <2> QED BY <2>1, <2>2, <2>3, MailAccounted
<1>3. ASSUME NEW f \in Fetchers, MB!PassStep(f)
      PROVE  MailInv'
  <2> session[f] \in Session
    OBVIOUS
  <2>1. CASE MB!Begin(f)
    <3> DEFINE r == [MB!Idle EXCEPT
                       !.stage = IF conf.cleanup THEN "cleanup" ELSE MB!AfterCleanup,
                       !.view = IF conf.cleanup THEN DOMAIN inbox ELSE {},
                       !.todo = IF conf.cleanup
                                  THEN {n \in MB!Mails : \E m \in MB!Numbered(DOMAIN inbox, n) :
                                          age[m] # "fresh" /\ "Seen" \notin inbox[m]}
                                  ELSE {},
                       !.known = {m \in MB!Mails : attached[m] > 0}]
    <3>1. session' = [session EXCEPT ![f] = r] /\ session[f].stage = "idle"
      BY <2>1 DEF MB!Begin
    <3>2. r.stage \in {"cleanup", "search", "commit"} /\ r \in Session
      <4> DEFINE st == IF conf.cleanup THEN "cleanup" ELSE MB!AfterCleanup
                 vw == IF conf.cleanup THEN DOMAIN inbox ELSE {}
                 td == IF conf.cleanup
                         THEN {n \in MB!Mails : \E m \in MB!Numbered(DOMAIN inbox, n) :
                                 age[m] # "fresh" /\ "Seen" \notin inbox[m]}
                         ELSE {}
                 kn == {m \in MB!Mails : attached[m] > 0}
      <4>1. st \in {"cleanup", "search", "commit"}
        BY DEF MB!AfterCleanup
      <4>2. vw \in SUBSET MB!Mails /\ td \in SUBSET MB!Mails /\ kn \in SUBSET MB!Mails
        OBVIOUS
      <4>3. st \in Stages
        BY <4>1 DEF Stages
      <4>4. r = [MB!Idle EXCEPT !.stage = st, !.view = vw, !.todo = td, !.known = kn]
        OBVIOUS
      <4> HIDE DEF st, vw, td, kn, r
      <4>5. r \in Session /\ r.stage = st
        <5>1. PICK s \in Session : s = MB!Idle
          BY IdleSession
        <5>2. r = [s EXCEPT !.stage = st, !.view = vw, !.todo = td, !.known = kn]
          BY <4>4, <5>1
        <5> QED BY <4>2, <4>3, <5>2 DEF Session
      <4> QED BY <4>1, <4>5
    <3>3. \A x : x \notin session[f].new
      BY <3>1
    <3> HIDE DEF r
    <3>4. /\ age' = age /\ attached' = attached /\ moved' = moved /\ astray' = astray
          /\ inbox' = inbox
      BY <2>1 DEF MB!Begin
    <3> QED BY <3>1, <3>2, <3>3, <3>4, MailStep
  <2>2. CASE MB!CleanupMail(f)
    <3> DEFINE n == MB!Min(session[f].todo)
               mail == MB!Numbered(session[f].view, n) \cap DOMAIN inbox
    <3>1. PICK view \in {session[f].view} \cup (IF conf.move THEN {DOMAIN inbox} ELSE {}),
               copied \in {FALSE, conf.move} :
            LET hit == IF copied THEN MB!Numbered(view, n) \cap DOMAIN inbox ELSE {}
            IN /\ inbox' = [m \in DOMAIN inbox |->
                              inbox[m] \cup (IF m \in mail THEN {"Seen"} ELSE {})
                                       \cup (IF m \in hit THEN {"Deleted"} ELSE {})]
               /\ moved' = IF copied THEN moved \cup mail ELSE moved
               /\ astray' = astray \cup (hit \ mail)
               /\ session' = [session EXCEPT ![f].todo = @ \ {n}, ![f].view = view]
      BY <2>2 DEF MB!CleanupMail
    <3> DEFINE hit == IF copied THEN MB!Numbered(view, n) \cap DOMAIN inbox ELSE {}
               r == [session[f] EXCEPT !.todo = @ \ {n}, !.view = view]
    <3>2. age' = age /\ attached' = attached /\ session[f].stage = "cleanup"
      BY <2>2 DEF MB!CleanupMail
    <3>3. session' = [session EXCEPT ![f] = r] /\ r.stage = "cleanup" /\ r.new = session[f].new
      BY <3>1, <3>2 DEF Session
    <3>4. r \in Session
      <4>1. view \in SUBSET MB!Mails
        BY DEF Session
      <4> QED BY <4>1 DEF Session
    <3>5. hit \subseteq moved' \cup astray' /\ moved \subseteq moved' /\ astray \subseteq astray'
      BY <3>1
    <3>6. /\ DOMAIN inbox' = DOMAIN inbox
          /\ \A m \in DOMAIN inbox' : "Deleted" \in inbox'[m] =>
                "Deleted" \in inbox[m] \/ m \in hit
      BY <3>1
    <3>7. \A m \in hit : Covered(m)'
      BY <3>5 DEF Covered
    <3> HIDE DEF r, hit, mail, n
    <3> QED BY <3>2, <3>3, <3>4, <3>5, <3>6, <3>7, MailStep
  <2>3. CASE MB!SearchPurge(f)
    <3> DEFINE r == [session[f] EXCEPT !.stage = "purge", !.todo = MB!ToPurge, !.view = {}]
    <3>1. session' = [session EXCEPT ![f] = r]
      BY <2>3 DEF MB!SearchPurge
    <3>2. MB!ToPurge \subseteq MB!Mails /\ \A m \in MB!ToPurge : m \in DOMAIN age /\ age[m] = "old"
      BY DEF MB!ToPurge
    <3>3. /\ r.new = session[f].new /\ r.stage = "purge" /\ r.todo = MB!ToPurge
          /\ r \in Session
      BY <3>2 DEF Session, Stages
    <3> HIDE DEF r
    <3> QED BY <2>3, <3>1, <3>2, <3>3, MailStep DEF MB!SearchPurge
  <2>4. CASE MB!PurgeMails(f)
    <3> DEFINE r == [session[f] EXCEPT !.stage = MB!AfterCleanup, !.todo = {}]
    <3>1. session' = [session EXCEPT ![f] = r] /\ inbox' = MB!Without(session[f].todo \cup MB!Deleted)
      BY <2>4 DEF MB!PurgeMails
    <3>2. r.new = session[f].new /\ r.stage \in {"search", "commit"} /\ r \in Session
      BY DEF Session, Stages, MB!AfterCleanup
    <3>3. /\ DOMAIN inbox' \subseteq DOMAIN inbox
          /\ \A m \in DOMAIN inbox : m \notin DOMAIN inbox' => "Deleted" \in inbox[m] \/ age[m] = "old"
          /\ \A m \in DOMAIN inbox' : inbox'[m] = inbox[m]
      BY <3>1, <2>4 DEF MB!PurgeMails, MB!Without, MB!Deleted, PurgedOld
    <3>4. age' = age /\ attached' = attached /\ astray' = astray /\ moved' = moved
      BY <2>4 DEF MB!PurgeMails
    <3>5. \A m : age[m] = "old" => Covered(m)'
      BY <3>4 DEF Covered
    <3> HIDE DEF r
    <3> QED BY <3>1, <3>2, <3>3, <3>4, <3>5, MailStep
  <2>5. CASE MB!Search(f)
    <3> DEFINE r == [session[f] EXCEPT !.stage = "fetch", !.todo = MB!Selected]
    <3>1. session' = [session EXCEPT ![f] = r]
      BY <2>5 DEF MB!Search
    <3>2. r.new = session[f].new /\ r.stage = "fetch" /\ r \in Session
      <4>1. MB!Selected \subseteq MB!Mails
        BY DEF MB!Selected
      <4> QED BY <4>1 DEF Session, Stages
    <3> HIDE DEF r
    <3> QED BY <2>5, <3>1, <3>2, MailStep DEF MB!Search
  <2>6. CASE MB!FetchMail(f)
    <3> PICK m : m = MB!Min(session[f].todo)
      OBVIOUS
    <3> DEFINE r == [session[f] EXCEPT !.stage = "update", !.mail = m, !.todo = @ \ {m},
                       !.new = IF MB!Attaches(f, m) THEN @ \cup {m} ELSE @]
    <3>1. /\ session' = [session EXCEPT ![f] = r] /\ m \in DOMAIN inbox
          /\ inbox' = MB!With(IF conf.seen = "on_fetch" THEN {"Seen"} ELSE {}, {m})
      BY <2>6 DEF MB!FetchMail, MB!In
    <3>2. r \in Session /\ r.stage = "update" /\ session[f].new \subseteq r.new
      <4>1. m \in MB!Mails
        BY <3>1
      <4>2. m \in Nat
        BY <4>1 DEF MB!Mails
      <4> QED BY <4>1, <4>2 DEF Session, Stages
    <3>3. "Deleted" \notin (IF conf.seen = "on_fetch" THEN {"Seen"} ELSE {})
      OBVIOUS
    <3>6. /\ DOMAIN inbox' = DOMAIN inbox
          /\ \A n \in DOMAIN inbox' : "Deleted" \in inbox'[n] =>
                "Deleted" \in inbox[n] \/ Covered(n)'
      BY <3>1, <3>3, WithFlags
    <3> HIDE DEF r
    <3>7. age' = age /\ attached' = attached /\ astray' = astray /\ moved' = moved
      BY <2>6 DEF MB!FetchMail
    <3> QED BY <3>1, <3>2, <3>6, <3>7, MailStep
  <2>7. CASE MB!FetchFails(f)
    <3> PICK m : m = MB!Min(session[f].todo)
      OBVIOUS
    <3> DEFINE r == [session[f] EXCEPT !.todo = @ \ {m}]
    <3>1. /\ session' = [session EXCEPT ![f] = r] /\ session[f].stage = "fetch"
          /\ inbox' = MB!With(IF conf.seen = "on_fetch" THEN {"Seen"} ELSE {}, {m})
      BY <2>7 DEF MB!FetchFails
    <3>2. r \in Session /\ r.stage = "fetch" /\ session[f].new = r.new
      BY <3>1 DEF Session, Stages
    <3>3. "Deleted" \notin (IF conf.seen = "on_fetch" THEN {"Seen"} ELSE {})
      OBVIOUS
    <3>6. /\ DOMAIN inbox' = DOMAIN inbox
          /\ \A n \in DOMAIN inbox' : "Deleted" \in inbox'[n] =>
                "Deleted" \in inbox[n] \/ Covered(n)'
      BY <3>1, <3>3, WithFlags
    <3> HIDE DEF r
    <3> QED BY <3>1, <3>2, <3>3, <2>7, <3>6, MailStep DEF MB!FetchFails
  <2>8. CASE MB!UpdateMail(f)
    <3> PICK m : m = session[f].mail
      OBVIOUS
    <3> PICK st \in {"archive", "fetch"} :
               st = IF conf.archive /\ ~conf.delete_matching THEN "archive" ELSE "fetch"
      OBVIOUS
    <3> DEFINE r == [session[f] EXCEPT !.stage = st]
    <3>1. /\ session' = [session EXCEPT ![f] = r]
          /\ inbox' = MB!With(MB!NewFlags(m \in session[f].new), {m})
          /\ age' = age /\ attached' = attached /\ astray' = astray /\ moved' = moved
      BY <2>8 DEF MB!UpdateMail, MB!Goto
    <3>2. r \in Session /\ r.stage # "idle" /\ r.stage # "purge" /\ session[f].new = r.new
      BY DEF Session, Stages
    <3>3. "Deleted" \in MB!NewFlags(m \in session[f].new) => m \in session[f].new
      BY DEF MB!NewFlags
    <3>4. m \in session[f].new => Covered(m)'
      BY <3>1, <3>2 DEF Covered, MB!Held
    <3>6. /\ DOMAIN inbox' = DOMAIN inbox
          /\ \A n \in DOMAIN inbox' : "Deleted" \in inbox'[n] =>
                "Deleted" \in inbox[n] \/ Covered(n)'
      BY <3>1, <3>3, <3>4, WithFlags
    <3> HIDE DEF r
    <3> QED BY <3>1, <3>2, <3>3, <3>4, <3>6, MailStep
  <2>9. CASE MB!ArchiveMail(f)
    <3> PICK m : m = session[f].mail
      OBVIOUS
    <3> DEFINE r == [session[f] EXCEPT !.stage = "fetch"]
    <3>1. /\ session' = [session EXCEPT ![f] = r]
          /\ inbox' = MB!Without(MB!Deleted \cup {m})
          /\ age' = age /\ attached' = attached /\ astray \subseteq astray' /\ moved \subseteq moved'
          /\ m \in DOMAIN inbox => m \in moved' \/ m \in astray'
      BY <2>9 DEF MB!ArchiveMail, MB!Goto
    <3>2. r \in Session /\ r.stage = "fetch" /\ session[f].new = r.new
      BY DEF Session, Stages
    <3>3. /\ DOMAIN inbox' \subseteq DOMAIN inbox
          /\ \A n \in DOMAIN inbox : n \notin DOMAIN inbox' => "Deleted" \in inbox[n] \/ n = m
          /\ \A n \in DOMAIN inbox' : inbox'[n] = inbox[n]
      BY <3>1 DEF MB!Without, MB!Deleted
    <3>4. m \in DOMAIN inbox => Covered(m)'
      BY <3>1 DEF Covered
    <3> HIDE DEF r
    <3> QED BY <3>1, <3>2, <3>3, <3>4, MailStep
  <2>10. CASE MB!Close(f)
    <3> DEFINE r == [session[f] EXCEPT !.stage = "commit"]
    <3>1. session' = [session EXCEPT ![f] = r] /\ inbox' = MB!Without(MB!Deleted)
      BY <2>10 DEF MB!Close, MB!Goto
    <3>2. r \in Session /\ r.stage = "commit" /\ session[f].new = r.new
      BY DEF Session, Stages
    <3>3. /\ DOMAIN inbox' \subseteq DOMAIN inbox
          /\ \A n \in DOMAIN inbox : n \notin DOMAIN inbox' => "Deleted" \in inbox[n]
          /\ \A n \in DOMAIN inbox' : inbox'[n] = inbox[n]
      BY <3>1 DEF MB!Without, MB!Deleted
    <3> HIDE DEF r
    <3> QED BY <3>1, <3>2, <3>3, <2>10, MailStep DEF MB!Close
  <2>11. CASE MB!LoseConnection(f)
    <3> PICK m : m = session[f].mail
      OBVIOUS
    <3>1. /\ session' = [session EXCEPT ![f] = MB!Idle]
          /\ astray' = astray \cup MB!Unsafe(session[f].new, inbox')
          /\ inbox' = inbox \/ inbox' = MB!With(MB!NewFlags(m \in session[f].new), {m})
          /\ age' = age /\ attached' = attached /\ moved' = moved
      BY <2>11 DEF MB!LoseConnection
    <3>2. \A x \in session[f].new : x \in astray' \/ Safe(x)'
      BY <3>1 DEF MB!Unsafe, Safe
    <3>3. "Deleted" \in MB!NewFlags(m \in session[f].new) => m \in session[f].new
      BY DEF MB!NewFlags
    <3>6. /\ DOMAIN inbox' = DOMAIN inbox
          /\ \A n \in DOMAIN inbox' : "Deleted" \in inbox'[n] =>
                "Deleted" \in inbox[n] \/ n \in session[f].new
      BY <3>1, <3>3, WithFlags
    <3>7. \A n \in DOMAIN inbox' : "Deleted" \in inbox'[n] => "Deleted" \in inbox[n] \/ Covered(n)'
      BY <3>2, <3>6 DEF Covered, Safe
    <3> QED BY <3>1, <3>2, <3>6, <3>7, IdleSession, MailStep
  <2>12. CASE MB!Commit(f)
    <3>1. /\ session[f].new \subseteq MB!Mails
          /\ attached' = [m \in MB!Mails |-> attached[m] + (IF m \in session[f].new THEN 1 ELSE 0)]
          /\ session' = [session EXCEPT ![f] = MB!Idle]
          /\ inbox' = inbox /\ age' = age /\ moved' = moved /\ astray' = astray
      BY <2>12 DEF MB!Commit, Session
    <3>2. /\ attached' \in [MB!Mails -> Nat]
          /\ \A m \in MB!Mails : attached[m] > 0 => attached'[m] > 0
          /\ \A m \in session[f].new : attached'[m] > 0
      BY <3>1
    <3>3. MB!Idle \in Session /\ MB!Idle.new = {} /\ MB!Idle.stage = "idle"
      BY IdleSession
    <3>4. MailType' /\ PurgedOld'
      BY <3>1, <3>2, <3>3 DEF PurgedOld
    <3>5. ASSUME NEW m \in DOMAIN age, Covered(m) PROVE Covered(m)'
      BY <3>1, <3>2, <3>5 DEF Covered, MB!Held
    <3> QED BY <3>1, <3>4, <3>5, MailAccounted
  <2>13. CASE MB!Crash(f)
    <3>1. /\ session' = [session EXCEPT ![f] = MB!Idle]
          /\ astray' = astray \cup MB!Unsafe(session[f].new, inbox)
          /\ inbox' = inbox /\ age' = age /\ moved' = moved /\ attached' = attached
      BY <2>13 DEF MB!Crash
    <3>2. \A x \in session[f].new : x \in astray' \/ Safe(x)'
      BY <3>1 DEF MB!Unsafe, Safe
    <3> QED BY <3>1, <3>2, IdleSession, MailStep
  <2>14. CASE MB!UpdateFails(f)
    <3> PICK m : m = session[f].mail
      OBVIOUS
    <3> DEFINE r == [session[f] EXCEPT !.stage = "fetch", !.new = @ \ {m}]
               flags == MB!NewFlags(m \in session[f].new) \cap {"Seen"}
    <3>1. /\ session' = [session EXCEPT ![f] = r]
          /\ astray' = astray \cup MB!Unsafe({m} \cap session[f].new, inbox)
          /\ inbox' = inbox \/ inbox' = MB!With(flags, {m})
          /\ age' = age /\ moved' = moved /\ attached' = attached
      BY <2>14 DEF MB!UpdateFails
    <3>2. r \in Session /\ r.stage = "fetch" /\ r.new = session[f].new \ {m}
      BY DEF Session, Stages
    <3>3. "Deleted" \notin flags
      OBVIOUS
    <3> HIDE DEF r, flags
    <3>4. /\ DOMAIN inbox' = DOMAIN inbox
          /\ \A n \in DOMAIN inbox' : "Deleted" \in inbox'[n] => "Deleted" \in inbox[n]
      BY <3>1, <3>3, WithFlags
    <3>5. \A x \in session[f].new : x \in r.new \cup astray' \/ Safe(x)'
      BY <3>1, <3>2, <3>4 DEF MB!Unsafe, Safe
    <3> QED BY <3>1, <3>2, <3>4, <3>5, MailStep
  <2> QED BY <1>3, <2>1, <2>2, <2>3, <2>4, <2>5, <2>6, <2>7, <2>8, <2>9, <2>10, <2>11, <2>12,
             <2>13, <2>14 DEF MB!PassStep
<1>4. CASE UNCHANGED MB!vars
  BY <1>4 DEF MB!vars, PurgedOld, DeletedCovered, MB!Deleted, MB!NoMailLost, MB!In, Covered, MB!Held
<1> QED BY <1>1, <1>2, <1>3, <1>4 DEF MB!Next

----------------------------------------------------------------------------
(* AttachmentExport: a row is locked by one transaction at most, and nobody   *)
(* rewrites it in the meantime, so what the snapshot says of a locked row is  *)
(* still true.  Hence a row whose file is about to be emptied is not done,    *)
(* and a row that a transaction will set to done has its whole file.          *)

Partial == UNION {[S -> {"done", "failed"}] : S \in SUBSET Exports}
Tx == [todo : SUBSET Exports, row : SUBSET Exports, at : {"none", "locked", "writing"},
       open : BOOLEAN, seen : {<< >>} \cup [Exports -> {"pending", "done", "failed"}],
       stale : SUBSET Exports, locked : SUBSET Exports, written : Partial]

ExportType ==
  /\ xpState \in [Exports -> {"pending", "done", "failed"}]
  /\ xpByHand \subseteq Exports
  /\ xpRemote \in [Exports -> {"none", "part", "whole"}]
  /\ xpTx \in [XP!Exporters -> Tx]

\* The shape of a transaction.
TxShape(t) ==
  /\ ~ t.open => t = XP!NoTx
  /\ t.open => t.seen \in [Exports -> {"pending", "done", "failed"}]
  /\ t.row \subseteq t.locked /\ DOMAIN t.written \subseteq t.locked
  /\ t.todo \cap t.locked = {} /\ t.row \cap DOMAIN t.written = {}
  /\ t.at = "none" <=> t.row = {}

\* What it knows of its rows.
TxTrue(t) ==
  /\ \A a \in Exports : t.open /\ a \notin t.stale => xpState[a] = t.seen[a]
  /\ t.locked \cap t.stale = {}
  /\ \A a \in t.row : t.seen[a] # "done"
  /\ \A a \in DOMAIN t.written : t.written[a] = "done" => xpRemote[a] = "whole"

LocksExclusive ==
  \A p, q \in XP!Exporters : p # q => xpTx[p].locked \cap xpTx[q].locked = {}

ExportInv ==
  /\ ExportType /\ LocksExclusive /\ XP!DoneIsExported
  /\ \A p \in XP!Exporters : TxShape(xpTx[p]) /\ TxTrue(xpTx[p])

\* No exporter runs yet.
LEMMA ExportInit == XP!Init => ExportInv
<1> SUFFICES ASSUME XP!Init PROVE ExportInv
  OBVIOUS
<1>1. XP!NoTx \in Tx /\ TxShape(XP!NoTx)
  <2>1. << >> \in [{} -> {"done", "failed"}]
    OBVIOUS
  <2>2. << >> \in Partial /\ DOMAIN << >> = {}
    BY <2>1 DEF Partial
  <2> QED BY <2>2 DEF XP!NoTx, Tx, TxShape
<1>2. xpTx = [p \in XP!Exporters |-> XP!NoTx]
  BY DEF XP!Init
<1>3. XP!NoTx.locked = {} /\ XP!NoTx.stale = {} /\ XP!NoTx.row = {} /\ ~ XP!NoTx.open
      /\ DOMAIN XP!NoTx.written = {}
  BY DEF XP!NoTx
<1>4. ExportType
  BY <1>1, <1>2 DEF XP!Init, ExportType
<1>5. \A p \in XP!Exporters : TxShape(xpTx[p]) /\ TxTrue(xpTx[p])
  BY <1>1, <1>2, <1>3 DEF TxTrue
<1>6. LocksExclusive
  BY <1>2, <1>3 DEF LocksExclusive
<1>7. XP!DoneIsExported
  BY DEF XP!DoneIsExported, XP!Init
<1> QED BY <1>4, <1>5, <1>6, <1>7 DEF ExportInv

\* A process changes its transaction to t; what is committed stays.
LEMMA ExportStep ==
  ASSUME ExportInv, NEW p \in XP!Exporters, NEW t \in Tx,
         xpTx' = [xpTx EXCEPT ![p] = t], xpState' = xpState, xpByHand' = xpByHand,
         TxShape(t), TxTrue(t)',
         \A q \in XP!Exporters \ {p} : t.locked \cap xpTx[q].locked = {},
         xpRemote' \in [Exports -> {"none", "part", "whole"}],
         \A a \in Exports : xpRemote[a] = "whole" /\ xpRemote'[a] # "whole" =>
            xpState[a] # "done" /\ a \in xpTx[p].row
  PROVE  ExportInv'
<1>1. ExportType'
  BY DEF ExportInv, ExportType
<1>2. LocksExclusive'
  BY DEF ExportInv, ExportType, LocksExclusive
<1>3. XP!DoneIsExported'
  BY DEF ExportInv, ExportType, XP!DoneIsExported
<1>4. ASSUME NEW q \in XP!Exporters PROVE TxShape(xpTx[q])' /\ TxTrue(xpTx[q])'
  <2>1. CASE q = p
    <3>1. xpTx'[q] = t
      BY <2>1 DEF ExportInv, ExportType
    <3> QED BY <3>1 DEF TxShape, TxTrue
  <2>2. CASE q # p
    <3>1. PICK u \in Tx : u = xpTx[q] /\ xpTx'[q] = u
      BY <2>2 DEF ExportInv, ExportType
    <3>2. TxShape(u) /\ TxTrue(u) /\ xpTx[p].row \cap u.locked = {}
      BY <2>2, <3>1 DEF ExportInv, LocksExclusive, TxShape
    <3>3. DOMAIN u.written \subseteq Exports /\ DOMAIN u.written \subseteq u.locked
      BY <3>2 DEF TxShape, Tx
    <3>4. TxTrue(u)'
      BY <3>2, <3>3 DEF TxTrue
    <3> QED BY <3>1, <3>2, <3>4 DEF TxShape, TxTrue
  <2> QED BY <2>1, <2>2
<1> QED BY <1>1, <1>2, <1>3, <1>4 DEF ExportInv

\* The other transactions when a commit rewrites the rows S.
LEMMA ExportRewritten ==
  ASSUME ExportInv, NEW S \in SUBSET Exports, NEW q \in XP!Exporters,
         S \cap xpTx[q].locked = {},
         \A a \in Exports \ S : xpState'[a] = xpState[a],
         xpRemote' = xpRemote,
         NEW u, u = XP!Rewritten(S)[q]
  PROVE  u \in Tx /\ TxShape(u) /\ TxTrue(u)' /\ u.locked = xpTx[q].locked
<1>1. PICK t \in Tx : t = xpTx[q]
  BY DEF ExportInv, ExportType
<1>2. TxShape(t) /\ TxTrue(t)
  BY <1>1 DEF ExportInv
<1>3. DOMAIN t.written \subseteq Exports /\ t.row \subseteq Exports
  BY <1>2 DEF TxShape, Tx
<1>4. CASE t.open
  <2>1. u = [t EXCEPT !.stale = @ \cup S]
    BY <1>1, <1>4 DEF XP!Rewritten
  <2>2. /\ u \in Tx /\ u.stale = t.stale \cup S /\ u.todo = t.todo /\ u.row = t.row /\ u.at = t.at
        /\ u.open = t.open /\ u.seen = t.seen /\ u.locked = t.locked /\ u.written = t.written
    BY <2>1 DEF Tx
  <2>3. TxShape(u)
    BY <1>2, <1>4, <2>2 DEF TxShape
  <2>4. TxTrue(u)'
    BY <1>1, <1>2, <1>3, <2>2 DEF TxTrue
  <2> QED BY <1>1, <2>2, <2>3, <2>4
<1>5. CASE ~ t.open
  <2>1. u = XP!NoTx /\ u = t
    BY <1>1, <1>2, <1>5 DEF XP!Rewritten, TxShape
  <2>2. TxTrue(u)'
    BY <2>1 DEF TxTrue, XP!NoTx
  <2> QED BY <1>1, <1>2, <2>1, <2>2
<1> QED BY <1>4, <1>5

\* A process without a transaction has a well-formed one.
LEMMA NoTxFits == XP!NoTx \in Tx /\ TxShape(XP!NoTx) /\ TxTrue(XP!NoTx) /\ XP!NoTx.locked = {}
<1>1. << >> \in [{} -> {"done", "failed"}]
  OBVIOUS
<1>2. << >> \in Partial /\ DOMAIN << >> = {}
  BY <1>1 DEF Partial
<1> QED BY <1>2 DEF XP!NoTx, Tx, TxShape, TxTrue

\* What a process without a transaction knows stays true.
LEMMA NoTxStays == TxTrue(XP!NoTx)'
BY DEF TxTrue, XP!NoTx

\* A rollback leaves the rows as they are committed.
LEMMA ExportGivesUp ==
  ASSUME ExportInv, NEW p \in XP!Exporters, XP!Rollback(p)
  PROVE  ExportInv'
<1>1. /\ xpTx' = [xpTx EXCEPT ![p] = XP!NoTx]
      /\ xpState' = xpState /\ xpByHand' = xpByHand /\ xpRemote' = xpRemote
  BY DEF XP!Rollback
<1>2. xpRemote' \in [Exports -> {"none", "part", "whole"}]
  BY <1>1 DEF ExportInv, ExportType
<1> QED BY <1>1, <1>2, NoTxFits, NoTxStays, ExportStep

\* A commit rewrites the rows S, and the transactions of the processes P end.
Ended(S, P) ==
  xpTx' = [q \in XP!Exporters |-> IF q \in P THEN XP!NoTx ELSE XP!Rewritten(S)[q]]

\* A commit of the rows S by the processes P, that nobody else has locked, keeps the
\* invariant: to the others, what they have read becomes stale.
LEMMA ExportCommitted ==
  ASSUME ExportInv, NEW S \in SUBSET Exports, NEW P,
         \A q \in XP!Exporters \ P : S \cap xpTx[q].locked = {},
         \A a \in Exports \ S : xpState'[a] = xpState[a],
         xpState' \in [Exports -> {"pending", "done", "failed"}],
         xpByHand' \subseteq Exports, xpRemote' = xpRemote,
         Ended(S, P), XP!DoneIsExported'
  PROVE  ExportInv'
<1>1. ASSUME NEW q \in XP!Exporters
      PROVE  /\ xpTx'[q] \in Tx /\ xpTx'[q].locked \subseteq xpTx[q].locked
             /\ TxShape(xpTx[q])' /\ TxTrue(xpTx[q])'
  <2> PICK u : u = xpTx'[q] /\ u = IF q \in P THEN XP!NoTx ELSE XP!Rewritten(S)[q]
    BY DEF Ended
  <2>1. /\ u \in Tx /\ u.locked \subseteq xpTx[q].locked /\ TxShape(u) /\ TxTrue(u)'
    <3>1. CASE q \in P
      BY <3>1, NoTxFits, NoTxStays
    <3>2. CASE q \notin P
      <4>1. u = XP!Rewritten(S)[q] /\ S \cap xpTx[q].locked = {}
        BY <3>2
      <4> QED BY <4>1, ExportRewritten
    <3> QED BY <3>1, <3>2
  <2> QED BY <2>1 DEF TxShape, TxTrue
<1>2. ExportType'
  BY <1>1 DEF ExportInv, ExportType, Ended
<1>3. LocksExclusive'
  BY <1>1 DEF ExportInv, LocksExclusive
<1> QED BY <1>1, <1>2, <1>3 DEF ExportInv

\* Finish and Timeout: the states written, of rows that p has locked, become visible.
LEMMA ExportCommits ==
  ASSUME ExportInv, NEW p \in XP!Exporters, NEW w \in Partial,
         DOMAIN w \subseteq xpTx[p].locked,
         \A a \in DOMAIN w : w[a] = "done" => xpRemote[a] = "whole",
         XP!CommitWith(p, w)
  PROVE  ExportInv'
<1>1. PICK S \in SUBSET Exports : S = DOMAIN w /\ w \in [S -> {"done", "failed"}]
  BY DEF Partial
<1>2. /\ \A a \in S : xpState'[a] = w[a]
      /\ \A a \in Exports \ S : xpState'[a] = xpState[a]
      /\ xpState' \in [Exports -> {"pending", "done", "failed"}]
  BY <1>1 DEF XP!CommitWith, XP!Over, ExportInv, ExportType
<1>3. /\ xpTx' = [XP!Rewritten(S) EXCEPT ![p] = XP!NoTx]
      /\ xpByHand' = xpByHand \ S /\ xpRemote' = xpRemote
  BY <1>1 DEF XP!CommitWith
<1>4. \A q \in XP!Exporters \ {p} : S \cap xpTx[q].locked = {}
  BY <1>1 DEF ExportInv, LocksExclusive
<1>5. Ended(S, {p})
  <2>1. PICK rw : rw = XP!Rewritten(S) /\ rw = [q \in XP!Exporters |-> rw[q]]
    BY DEF XP!Rewritten
  <2> QED BY <1>3, <2>1 DEF Ended
<1>6. XP!DoneIsExported'
  BY <1>1, <1>2, <1>3 DEF XP!DoneIsExported, ExportInv
<1>7. xpByHand' \subseteq Exports /\ xpRemote' = xpRemote
  BY <1>3 DEF ExportInv, ExportType
<1>8. \A a \in Exports \ S : xpState'[a] = xpState[a]
  BY <1>2
<1>9. xpState' \in [Exports -> {"pending", "done", "failed"}]
  BY <1>2
<1> QED BY <1>4, <1>5, <1>6, <1>7, <1>8, <1>9, ExportCommitted

\* What a transaction has written when the row in hand gets the state st.
Written(o, st) == XP!Over([b \in o.row |-> st], o.written)

\* The row that a process handles gets the state it writes, the rows before keep theirs.
LEMMA WrittenMore ==
  ASSUME NEW o \in Tx, NEW st \in {"done", "failed"}
  PROVE  /\ Written(o, st) \in Partial
         /\ DOMAIN Written(o, st) = o.row \cup DOMAIN o.written
         /\ \A b \in o.row : Written(o, st)[b] = st
         /\ \A b \in DOMAIN o.written : b \notin o.row => Written(o, st)[b] = o.written[b]
<1>1. PICK S \in SUBSET Exports, R \in SUBSET Exports :
        R = o.row /\ S = DOMAIN o.written /\ o.written \in [S -> {"done", "failed"}]
  BY DEF Tx, Partial
<1>2. PICK w : /\ w = Written(o, st) /\ DOMAIN w = R \cup S /\ w \in [R \cup S -> {"done", "failed"}]
               /\ \A b \in R : w[b] = st
               /\ \A b \in S : b \notin R => w[b] = o.written[b]
  <2> DEFINE g == [b \in R |-> st]
  <2>1. DOMAIN g = R /\ \A b \in R : g[b] = st
    OBVIOUS
  <2>2. Written(o, st) = [x \in R \cup S |-> IF x \in R THEN g[x] ELSE o.written[x]]
    <3>1. Written(o, st) = XP!Over(g, o.written)
      BY <1>1 DEF Written
    <3> HIDE DEF g
    <3> QED BY <1>1, <2>1, <3>1 DEF XP!Over
  <2> HIDE DEF g
  <2> QED BY <1>1, <2>1, <2>2
<1> QED BY <1>1, <1>2 DEF Partial

\* Each step of an exporter, of a user and of the server keeps the invariant.
LEMMA ExportNext ==
  ASSUME XP!Assumption, ExportInv, [XP!Next]_XP!vars
  PROVE  ExportInv'
<1>1. ASSUME NEW a \in Exports, NEW st \in {"pending", "done"}, XP!Edit(a, st)
      PROVE  ExportInv'
  <2>1. /\ \A q \in XP!Exporters : {a} \cap xpTx[q].locked = {}
        /\ xpState' = [xpState EXCEPT ![a] = st] /\ xpRemote' = xpRemote
        /\ xpByHand' = IF st = "done" THEN xpByHand \cup {a} ELSE xpByHand \ {a}
        /\ xpTx' = XP!Rewritten({a})
    BY <1>1 DEF XP!Edit, XP!Free
  <2>2. Ended({a}, {})
    BY <2>1 DEF Ended, XP!Rewritten
  <2>3. /\ \A b \in Exports \ {a} : xpState'[b] = xpState[b]
        /\ xpState' \in [Exports -> {"pending", "done", "failed"}]
        /\ xpByHand' \subseteq Exports
    BY <2>1 DEF ExportInv, ExportType
  <2>4. XP!DoneIsExported'
    BY <2>1 DEF XP!DoneIsExported, ExportInv, ExportType
  <2> QED BY <2>1, <2>2, <2>3, <2>4, ExportCommitted
<1>2. ASSUME NEW p \in XP!Exporters, NEW S \in SUBSET Exports, XP!Begin(p, S)
      PROVE  ExportInv'
  <2> DEFINE t == [XP!NoTx EXCEPT !.open = TRUE, !.todo = S, !.seen = xpState]
  <2>1. /\ xpTx' = [xpTx EXCEPT ![p] = t] /\ xpState' = xpState /\ xpByHand' = xpByHand
        /\ xpRemote' = xpRemote
    BY <1>2 DEF XP!Begin
  <2>2. /\ t.open /\ t.todo = S /\ t.seen = xpState /\ t.stale = {} /\ t.locked = {}
        /\ t.row = {} /\ t.at = "none" /\ DOMAIN t.written = {}
    BY DEF XP!NoTx
  <2>3. t \in Tx
    BY NoTxFits DEF Tx, XP!NoTx, ExportInv, ExportType
  <2>4. TxShape(t)
    BY <2>2 DEF TxShape, ExportInv, ExportType
  <2>5. PICK u : u = t
    OBVIOUS
  <2> HIDE DEF t
  <2>6. TxTrue(u)'
    BY <2>1, <2>2, <2>5 DEF TxTrue
  <2>7. xpRemote' \in [Exports -> {"none", "part", "whole"}]
    BY <2>1 DEF ExportInv, ExportType
  <2> QED BY <2>1, <2>2, <2>3, <2>4, <2>5, <2>6, <2>7, ExportStep
<1>3. ASSUME NEW p \in XP!Exporters, NEW a \in Exports, XP!Lock(p, a)
      PROVE  ExportInv'
  <2> PICK o \in Tx : o = xpTx[p]
    BY DEF ExportInv, ExportType
  <2>1. TxShape(o) /\ TxTrue(o) /\ \A q \in XP!Exporters \ {p} : o.locked \cap xpTx[q].locked = {}
    BY DEF ExportInv, LocksExclusive
  <2>2. /\ o.at = "none" /\ a \in o.todo /\ a \notin o.stale /\ xpRemote' = xpRemote
        /\ xpState' = xpState /\ xpByHand' = xpByHand
        /\ \A q \in XP!Exporters : a \notin xpTx[q].locked
    BY <1>3 DEF XP!Lock, XP!CanLock, XP!Free
  <2>3. o.open
    <3>1. ~ o.open => o.todo = {}
      BY <2>1 DEF TxShape, XP!NoTx
    <3> QED BY <2>2, <3>1
  <2>4. xpRemote' \in [Exports -> {"none", "part", "whole"}]
    BY <2>2 DEF ExportInv, ExportType
  <2>5. CASE o.seen[a] = "done"
    <3> PICK t : t = [o EXCEPT !.todo = @ \ {a}, !.locked = @ \cup {a}]
      OBVIOUS
    <3>1. xpTx' = [xpTx EXCEPT ![p] = t]
      BY <1>3, <2>5 DEF XP!Lock
    <3>2. /\ t \in Tx /\ t.todo = o.todo \ {a} /\ t.locked = o.locked \cup {a}
          /\ t.row = o.row /\ t.at = o.at /\ t.open = o.open /\ t.seen = o.seen
          /\ t.stale = o.stale /\ t.written = o.written
      BY DEF Tx
    <3>3. TxShape(t) /\ TxTrue(t)'
      BY <2>1, <2>2, <2>3, <3>2 DEF TxShape, TxTrue
    <3>4. \A q \in XP!Exporters \ {p} : t.locked \cap xpTx[q].locked = {}
      BY <2>1, <2>2, <3>2
    <3> QED BY <2>2, <2>4, <3>1, <3>2, <3>3, <3>4, ExportStep
  <2>6. CASE o.seen[a] # "done"
    <3> PICK t : t = [o EXCEPT !.todo = @ \ {a}, !.locked = @ \cup {a}, !.row = {a}, !.at = "locked"]
      OBVIOUS
    <3>1. xpTx' = [xpTx EXCEPT ![p] = t]
      BY <1>3, <2>6 DEF XP!Lock
    <3>2. /\ t \in Tx /\ t.todo = o.todo \ {a} /\ t.locked = o.locked \cup {a}
          /\ t.row = {a} /\ t.at = "locked" /\ t.open = o.open /\ t.seen = o.seen
          /\ t.stale = o.stale /\ t.written = o.written
      BY DEF Tx
    <3>3. TxShape(t)
      BY <2>1, <2>2, <2>3, <3>2 DEF TxShape
    <3>4. TxTrue(t)'
      BY <2>1, <2>2, <2>3, <2>6, <3>2 DEF TxTrue
    <3>5. \A q \in XP!Exporters \ {p} : t.locked \cap xpTx[q].locked = {}
      BY <2>1, <2>2, <3>2
    <3> QED BY <2>2, <2>4, <3>1, <3>2, <3>3, <3>4, <3>5, ExportStep
  <2> QED BY <2>5, <2>6
<1>4. ASSUME NEW p \in XP!Exporters, NEW a \in Exports, XP!OpenFile(p, a)
      PROVE  ExportInv'
  <2> PICK o \in Tx : o = xpTx[p]
    BY DEF ExportInv, ExportType
  <2>1. TxShape(o) /\ TxTrue(o) /\ \A q \in XP!Exporters \ {p} : o.locked \cap xpTx[q].locked = {}
    BY DEF ExportInv, LocksExclusive
  <2>2. /\ o.at = "locked" /\ o.row = {a} /\ xpRemote' = [xpRemote EXCEPT ![a] = "part"]
        /\ xpState' = xpState /\ xpByHand' = xpByHand
    BY <1>4 DEF XP!OpenFile, XP!InHand
  <2>3. /\ xpRemote' \in [Exports -> {"none", "part", "whole"}]
        /\ \A b \in Exports : b # a => xpRemote'[b] = xpRemote[b]
    BY <2>2 DEF ExportInv, ExportType
  <2>4. xpState[a] # "done"
    <3>1. o.open
      BY <2>1, <2>2 DEF TxShape, XP!NoTx
    <3> QED BY <2>1, <2>2, <3>1 DEF TxShape, TxTrue
  <2> PICK t : t = [o EXCEPT !.at = "writing"]
    OBVIOUS
  <2>5. xpTx' = [xpTx EXCEPT ![p] = t]
    BY <1>4 DEF XP!OpenFile
  <2>6. /\ t \in Tx /\ t.todo = o.todo /\ t.locked = o.locked
        /\ t.row = {a} /\ t.at = "writing" /\ t.open = o.open /\ t.seen = o.seen
        /\ t.stale = o.stale /\ t.written = o.written
    BY <2>2 DEF Tx
  <2>7. TxShape(t)
    BY <2>1, <2>2, <2>6 DEF TxShape, XP!NoTx
  <2>8. TxTrue(t)'
    <3>1. DOMAIN o.written \subseteq Exports /\ a \notin DOMAIN o.written
      BY <2>1, <2>2 DEF TxShape, Tx
    <3> QED BY <2>1, <2>2, <2>3, <2>6, <3>1 DEF TxTrue
  <2>9. \A q \in XP!Exporters \ {p} : t.locked \cap xpTx[q].locked = {}
    BY <2>1, <2>6
  <2>10. \A b \in Exports : xpRemote[b] = "whole" /\ xpRemote'[b] # "whole" =>
           xpState[b] # "done" /\ b \in xpTx[p].row
    BY <2>2, <2>3, <2>4
  <2>11. /\ xpState' = xpState /\ xpByHand' = xpByHand /\ t \in Tx
         /\ xpRemote' \in [Exports -> {"none", "part", "whole"}]
    BY <2>2, <2>3, <2>6
  <2> QED BY <2>5, <2>7, <2>8, <2>9, <2>10, <2>11, ExportStep
<1>5. ASSUME NEW p \in XP!Exporters, NEW a \in Exports, XP!CloseFile(p, a)
      PROVE  ExportInv'
  <2> PICK o \in Tx : o = xpTx[p]
    BY DEF ExportInv, ExportType
  <2>1. TxShape(o) /\ TxTrue(o) /\ \A q \in XP!Exporters \ {p} : o.locked \cap xpTx[q].locked = {}
    BY DEF ExportInv, LocksExclusive
  <2>2. /\ o.at = "writing" /\ o.row = {a} /\ xpRemote' = [xpRemote EXCEPT ![a] = "whole"]
        /\ xpState' = xpState /\ xpByHand' = xpByHand
    BY <1>5 DEF XP!CloseFile, XP!InHand
  <2>3. /\ xpRemote' \in [Exports -> {"none", "part", "whole"}] /\ xpRemote'[a] = "whole"
        /\ \A b \in Exports : b # a => xpRemote'[b] = xpRemote[b]
        /\ DOMAIN o.written \subseteq Exports
    BY <2>2 DEF ExportInv, ExportType, Tx, Partial
  <2> PICK w : w = Written(o, "done")
    OBVIOUS
  <2>4. w \in Partial /\ DOMAIN w = o.row \cup DOMAIN o.written
    BY WrittenMore
  <2>5. /\ \A b \in o.row : b \notin DOMAIN o.written /\ w[b] = "done"
        /\ \A b \in DOMAIN o.written : w[b] = o.written[b]
    <3>1. o.row \cap DOMAIN o.written = {}
      BY <2>1 DEF TxShape
    <3> QED BY <3>1, WrittenMore
  <2> PICK t : t = [o EXCEPT !.at = "none", !.row = {}, !.written = w]
    OBVIOUS
  <2>6. xpTx' = [xpTx EXCEPT ![p] = t]
    BY <1>5 DEF XP!CloseFile, XP!RowOver, Written
  <2>7. /\ t \in Tx /\ t.todo = o.todo /\ t.locked = o.locked
        /\ t.row = {} /\ t.at = "none" /\ t.open = o.open /\ t.seen = o.seen
        /\ t.stale = o.stale /\ t.written = w
    BY <2>4 DEF Tx
  <2>8. TxShape(t)
    BY <2>1, <2>2, <2>4, <2>7 DEF TxShape, XP!NoTx
  <2>9. TxTrue(t)'
    BY <2>1, <2>2, <2>3, <2>4, <2>5, <2>7 DEF TxTrue
  <2>10. \A q \in XP!Exporters \ {p} : t.locked \cap xpTx[q].locked = {}
    BY <2>1, <2>7
  <2>11. /\ xpState' = xpState /\ xpByHand' = xpByHand /\ t \in Tx
         /\ \A b \in Exports : xpRemote[b] = "whole" => xpRemote'[b] = "whole"
         /\ xpRemote' \in [Exports -> {"none", "part", "whole"}]
    BY <2>2, <2>3, <2>7
  <2> QED BY <2>6, <2>8, <2>9, <2>10, <2>11, ExportStep
<1>6. ASSUME NEW p \in XP!Exporters, XP!ExportFails(p)
      PROVE  ExportInv'
  <2> PICK o \in Tx : o = xpTx[p]
    BY DEF ExportInv, ExportType
  <2>1. TxShape(o) /\ TxTrue(o) /\ \A q \in XP!Exporters \ {p} : o.locked \cap xpTx[q].locked = {}
    BY DEF ExportInv, LocksExclusive
  <2>2. o.at # "none" /\ xpState' = xpState /\ xpByHand' = xpByHand /\ xpRemote' = xpRemote
    BY <1>6 DEF XP!ExportFails
  <2>3. xpRemote' \in [Exports -> {"none", "part", "whole"}] /\ DOMAIN o.written \subseteq Exports
    BY <2>2 DEF ExportInv, ExportType, Tx, Partial
  <2> PICK w : w = Written(o, "failed")
    OBVIOUS
  <2>4. w \in Partial /\ DOMAIN w = o.row \cup DOMAIN o.written
    BY WrittenMore
  <2>5. /\ \A b \in o.row : b \notin DOMAIN o.written /\ w[b] = "failed"
        /\ \A b \in DOMAIN o.written : w[b] = o.written[b]
    <3>1. o.row \cap DOMAIN o.written = {}
      BY <2>1 DEF TxShape
    <3> QED BY <3>1, WrittenMore
  <2> PICK t : t = [o EXCEPT !.at = "none", !.row = {}, !.written = w]
    OBVIOUS
  <2>6. xpTx' = [xpTx EXCEPT ![p] = t]
    BY <1>6 DEF XP!ExportFails, XP!RowOver, Written
  <2>7. /\ t \in Tx /\ t.todo = o.todo /\ t.locked = o.locked
        /\ t.row = {} /\ t.at = "none" /\ t.open = o.open /\ t.seen = o.seen
        /\ t.stale = o.stale /\ t.written = w
    BY <2>4 DEF Tx
  <2>8. TxShape(t)
    BY <2>1, <2>2, <2>4, <2>7 DEF TxShape, XP!NoTx
  <2>9. TxTrue(t)'
    BY <2>1, <2>2, <2>3, <2>4, <2>5, <2>7 DEF TxTrue
  <2>10. \A q \in XP!Exporters \ {p} : t.locked \cap xpTx[q].locked = {}
    BY <2>1, <2>7
  <2> QED BY <2>2, <2>3, <2>6, <2>7, <2>8, <2>9, <2>10, ExportStep
<1>7. ASSUME NEW p \in XP!Exporters, XP!Timeout(p)
      PROVE  ExportInv'
  <2> PICK o \in Tx : o = xpTx[p]
    BY DEF ExportInv, ExportType
  <2>1. TxShape(o) /\ TxTrue(o) /\ \A q \in XP!Exporters \ {p} : o.locked \cap xpTx[q].locked = {}
    BY DEF ExportInv, LocksExclusive
  <2>2. XP!CommitWith(p, Written(o, "failed"))
    BY <1>7 DEF XP!Timeout, Written
  <2> PICK w : w = Written(o, "failed")
    OBVIOUS
  <2>3. w \in Partial /\ DOMAIN w = o.row \cup DOMAIN o.written
    BY WrittenMore
  <2>4. /\ \A b \in o.row : b \notin DOMAIN o.written /\ w[b] = "failed"
        /\ \A b \in DOMAIN o.written : w[b] = o.written[b]
    <3>1. o.row \cap DOMAIN o.written = {}
      BY <2>1 DEF TxShape
    <3> QED BY <3>1, WrittenMore
  <2>5. DOMAIN w \subseteq o.locked
    BY <2>1, <2>3 DEF TxShape
  <2>6. \A b \in DOMAIN w : w[b] = "done" => xpRemote[b] = "whole"
    BY <2>1, <2>3, <2>4 DEF TxTrue
  <2> QED BY <2>2, <2>3, <2>5, <2>6, ExportCommits
<1>8. ASSUME NEW p \in XP!Exporters, XP!Finish(p)
      PROVE  ExportInv'
  <2> PICK o \in Tx : o = xpTx[p]
    BY DEF ExportInv, ExportType
  <2>1. TxShape(o) /\ TxTrue(o) /\ \A q \in XP!Exporters \ {p} : o.locked \cap xpTx[q].locked = {}
    BY DEF ExportInv, LocksExclusive
  <2>2. XP!CommitWith(p, o.written) /\ o.written \in Partial
    BY <1>8 DEF XP!Finish, Tx
  <2>3. DOMAIN o.written \subseteq o.locked /\ \A b \in DOMAIN o.written :
           o.written[b] = "done" => xpRemote[b] = "whole"
    BY <2>1 DEF TxShape, TxTrue
  <2> QED BY <2>2, <2>3, ExportCommits
<1>9. ASSUME NEW p \in XP!Exporters, XP!Rollback(p)
      PROVE  ExportInv'
  BY <1>9, ExportGivesUp
<1>10. CASE UNCHANGED XP!vars
  BY <1>10 DEF XP!vars, ExportInv, ExportType, LocksExclusive, XP!DoneIsExported, TxShape, TxTrue
<1>11. ASSUME NEW p \in XP!Exporters, NEW a \in Exports,
              \/ XP!RunAsJob(p, a) \/ XP!RunExport(p)
       PROVE  \E S \in SUBSET Exports : XP!Begin(p, S)
  BY <1>11 DEF XP!RunAsJob, XP!RunExport
<1> QED BY <1>1, <1>2, <1>3, <1>4, <1>5, <1>6, <1>7, <1>8, <1>9, <1>10, <1>11
        DEF XP!Next, XP!RunAsJob, XP!RunExport, XP!LockBusy, XP!Die

----------------------------------------------------------------------------
(* ImportOdoo: a local record that was made for a remote one is the record of *)
(* its xmlid, the remote one has no mapping, and what the memory of the run   *)
(* names is there.  A step of the run maps such a state to such a state.      *)

\* The ids have a greatest one, so that the next one is new.
LocalShape(l) ==
  /\ l = [id \in DOMAIN l |-> l[id]]
  /\ \A id \in DOMAIN l : l[id] = [from |-> l[id].from, link |-> l[id].link]
  /\ Own \subseteq DOMAIN l /\ DOMAIN l \subseteq Nat
  /\ \E top \in DOMAIN l \cup {0} : \A id \in DOMAIN l : id <= top

FromXmlid(l, x) ==
  /\ \A r \in DOMAIN x : x[r] \in DOMAIN l
  /\ \A id \in DOMAIN l : l[id].from # None =>
       /\ l[id].from \in DOMAIN x /\ x[l[id].from] = id
       /\ l[id].from \notin DOMAIN Mapped

DbOk(d) ==
  /\ d = [local |-> d.local, xmlid |-> d.xmlid]
  /\ LocalShape(d.local) /\ FromXmlid(d.local, d.xmlid)

MemOk(m, l) ==
  /\ m = [idmap |-> m.idmap, dummies |-> m.dummies, instances |-> m.instances]
  /\ \A r \in DOMAIN m.idmap : m.idmap[r] \in DOMAIN l
  /\ DOMAIN m.dummies \cap DOMAIN Mapped = {}

ImportInv == DbOk(db) /\ MemOk(mem, db.local) /\ DbOk(saved)

\* Put and Drop change a function at one argument.
LEMMA PutDrop ==
  ASSUME NEW f, NEW k, NEW v
  PROVE  /\ DOMAIN IO!Put(f, k, v) = (DOMAIN f) \cup {k} /\ IO!Put(f, k, v)[k] = v
         /\ \A x \in DOMAIN f : x # k => IO!Put(f, k, v)[x] = f[x]
         /\ IO!Put(f, k, v) = [x \in DOMAIN IO!Put(f, k, v) |-> IO!Put(f, k, v)[x]]
         /\ DOMAIN IO!Drop(f, k) = (DOMAIN f) \ {k}
         /\ \A x \in (DOMAIN f) \ {k} : IO!Drop(f, k)[x] = f[x]
BY DEF IO!Put, IO!Drop

\* A new record gets an id that is greater than all others.
LEMMA NewIdIsNew ==
  ASSUME NEW d, LocalShape(d.local)
  PROVE  IO!NewId(d) \in Nat /\ \A id \in DOMAIN d.local : id < IO!NewId(d)
<1>1. PICK top \in DOMAIN d.local \cup {0} : \A id \in DOMAIN d.local : id <= top
  BY DEF LocalShape
<1> DEFINE S == DOMAIN d.local \cup {0}
<1>2. S \subseteq Nat /\ top \in S /\ \A x \in S : x <= top
  BY <1>1 DEF LocalShape
<1>3. IO!Max(S) \in S /\ \A x \in S : x <= IO!Max(S)
  <2> HIDE DEF S
  <2>1. \E x \in S : \A y \in S : x >= y
    BY <1>2
  <2> QED BY <1>2, <2>1 DEF IO!Max
<1> QED BY <1>2, <1>3 DEF IO!NewId

\* A finite set of naturals has a bound among its elements and zero: otherwise there would
\* be a smallest subset without one.
LEMMA FiniteHasTop ==
  ASSUME NEW S \in SUBSET Nat, IsFiniteSet(S)
  PROVE  \E top \in S \cup {0} : \A x \in S : x <= top
<1> DEFINE Topless == {T \in FiniteSubsetsOf(S) : ~ \E top \in T \cup {0} : \A x \in T : x <= top}
<1>1. SUFFICES ASSUME Topless # {} PROVE FALSE
  BY FS_FiniteSubsetsOfFinite DEF FiniteSubsetsOf
<1>2. PICK T \in Topless : \A U \in Topless : <<U, T>> \notin StrictSubsetOrdering(S)
  <2>1. IsWellFoundedOn(StrictSubsetOrdering(S), FiniteSubsetsOf(S))
    BY FS_StrictSubsetOrderingWellFounded
  <2> QED BY <1>1, <2>1, WFMin
<1>3. PICK x \in T : TRUE
  <2>1. ~ \E top \in T \cup {0} : \A y \in T : y <= top
    BY <1>2
  <2> QED BY <2>1
<1>4. T \in SUBSET S /\ IsFiniteSet(T) /\ T \subseteq Nat
  BY <1>2 DEF FiniteSubsetsOf
<1>5. T \ {x} \in FiniteSubsetsOf(S) /\ <<T \ {x}, T>> \in StrictSubsetOrdering(S)
  <2>1. IsFiniteSet(T \ {x})
    BY <1>4, FS_RemoveElement
  <2> QED BY <1>3, <1>4, <2>1 DEF FiniteSubsetsOf, StrictSubsetOrdering
<1>6. PICK u \in (T \ {x}) \cup {0} : \A y \in T \ {x} : y <= u
  BY <1>2, <1>5
<1>7. PICK top \in {x, u} : x <= top /\ u <= top
  BY <1>4, <1>6
<1>8. top \in T \cup {0} /\ \A y \in T : y <= top
  BY <1>3, <1>4, <1>6, <1>7
<1> QED BY <1>2, <1>8

\* Only the own records of the database are there before the first run.
LEMMA ImportInit ==
  ASSUME IO!Assumption, IO!Init
  PROVE  ImportInv
<1>1. db = [local |-> [id \in Own |-> [from |-> None, link |-> None]], xmlid |-> IO!Empty]
      /\ saved = db /\ mem = IO!NewMem
  BY DEF IO!Init
<1>2. DOMAIN IO!Empty = {}
  BY DEF IO!Empty
<1>3. LocalShape(db.local)
  <2>1. \E top \in Own \cup {0} : \A id \in Own : id <= top
    <3>1. Own \in SUBSET Nat /\ IsFiniteSet(Own)
      BY DEF IO!Assumption, IO!IsFiniteSet, IsFiniteSet
    <3> QED BY <3>1, FiniteHasTop
  <2>2. DOMAIN db.local = Own
    BY <1>1
  <2> QED BY <1>1, <2>1, <2>2 DEF LocalShape, IO!Assumption
<1>4. FromXmlid(db.local, db.xmlid)
  BY <1>1, <1>2 DEF FromXmlid
<1>5. MemOk(IO!NewMem, db.local)
  BY <1>2 DEF MemOk, IO!NewMem
<1>6. DbOk(db)
  BY <1>1, <1>3, <1>4 DEF DbOk
<1> QED BY <1>1, <1>5, <1>6 DEF ImportInv

\* A link is all that changes.
LEMMA Relinked ==
  ASSUME NEW l, NEW x, LocalShape(l), FromXmlid(l, x), NEW k,
         k = [id \in DOMAIN l |-> k[id]], DOMAIN k = DOMAIN l,
         \A id \in DOMAIN l : k[id] = [from |-> l[id].from, link |-> k[id].link]
  PROVE  LocalShape(k) /\ FromXmlid(k, x)
<1>1. \A id \in DOMAIN l : k[id].from = l[id].from
  OBVIOUS
<1> QED BY <1>1 DEF LocalShape, FromXmlid

\* A state of the run by its parts.
St(l, x, im, du, ins) ==
  [db |-> [local |-> l, xmlid |-> x], mem |-> [idmap |-> im, dummies |-> du, instances |-> ins]]

PartsOk(l, x, im, du) ==
  /\ LocalShape(l) /\ FromXmlid(l, x)
  /\ \A r \in DOMAIN im : im[r] \in DOMAIN l
  /\ DOMAIN du \cap DOMAIN Mapped = {}

\* Linking a record leaves the ids, and the remote record each was made from.
LEMMA LinkedOk ==
  ASSUME NEW l, NEW x, LocalShape(l), FromXmlid(l, x), NEW id \in DOMAIN l, NEW link
  PROVE  /\ LocalShape(IO!Linked(l, id, link)) /\ FromXmlid(IO!Linked(l, id, link), x)
         /\ DOMAIN IO!Linked(l, id, link) = DOMAIN l
<1> DEFINE k == IO!Linked(l, id, link)
<1>1. PICK v : k = [l EXCEPT ![id] = [l[id] EXCEPT !.link = v]]
  BY DEF IO!Linked
<1> HIDE DEF k
<1>2. \A j \in DOMAIN l : l[j] = [from |-> l[j].from, link |-> l[j].link]
  BY DEF LocalShape
<1>3. k[id] = [from |-> l[id].from, link |-> v] /\ k[id].link = v
  BY <1>1, <1>2
<1>4. DOMAIN k = DOMAIN l /\ k = [j \in DOMAIN l |-> k[j]]
  BY <1>1 DEF LocalShape
<1>5. ASSUME NEW j \in DOMAIN l PROVE k[j] = [from |-> l[j].from, link |-> k[j].link]
  <2>1. CASE j = id
    BY <2>1, <1>3
  <2>2. CASE j # id
    <3>1. k[j] = l[j]
      BY <2>2, <1>1
    <3> QED BY <1>2, <3>1
  <2> QED BY <2>1, <2>2
<1>6. LocalShape(k) /\ FromXmlid(k, x) /\ DOMAIN k = DOMAIN l
  BY <1>4, <1>5, Relinked
<1> QED BY <1>6 DEF k

\* A record is made for r, which has neither an xmlid nor a mapping.
LEMMA AddedOk ==
  ASSUME NEW l, NEW x, LocalShape(l), FromXmlid(l, x), NEW id \in Nat,
         \A j \in DOMAIN l : j < id,
         NEW r, r \notin DOMAIN x, r \notin DOMAIN Mapped, NEW link,
         NEW k, k = IO!Put(l, id, [from |-> r, link |-> link]),
         NEW y, y = IO!Put(x, r, id)
  PROVE  LocalShape(k) /\ FromXmlid(k, y) /\ DOMAIN l \cup {id} = DOMAIN k
<1>1. id \notin DOMAIN l /\ \A j \in DOMAIN l : j <= id /\ j \in Nat
  BY DEF LocalShape
<1>2. /\ DOMAIN k = DOMAIN l \cup {id} /\ k = [j \in DOMAIN k |-> k[j]]
      /\ k[id] = [from |-> r, link |-> link]
      /\ \A j \in DOMAIN l : k[j] = l[j]
  BY <1>1 DEF IO!Put
<1>3. /\ DOMAIN y = DOMAIN x \cup {r} /\ y[r] = id /\ \A q \in DOMAIN x : y[q] = x[q]
  BY DEF IO!Put
<1>4. ASSUME NEW j \in DOMAIN k PROVE k[j] = [from |-> k[j].from, link |-> k[j].link]
  BY <1>2 DEF LocalShape
<1>5. id \in DOMAIN k /\ \A j \in DOMAIN k : j <= id
  BY <1>1, <1>2
<1>6. LocalShape(k)
  BY <1>2, <1>4, <1>5 DEF LocalShape
<1>7. ASSUME NEW j \in DOMAIN k, k[j].from # None
      PROVE  k[j].from \in DOMAIN y /\ y[k[j].from] = j /\ k[j].from \notin DOMAIN Mapped
  <2>1. CASE j = id
    BY <2>1, <1>2, <1>3
  <2>2. CASE j \in DOMAIN l
    <3>1. /\ l[j].from \in DOMAIN x /\ x[l[j].from] = j /\ l[j].from \notin DOMAIN Mapped
          /\ k[j] = l[j]
      BY <1>2, <1>7, <2>2 DEF FromXmlid
    <3> QED BY <1>3, <3>1
  <2> QED BY <1>2, <2>1, <2>2
<1>8. ASSUME NEW q \in DOMAIN y PROVE y[q] \in DOMAIN k
  BY <1>2, <1>3 DEF FromXmlid
<1>9. FromXmlid(k, y)
  BY <1>7, <1>8 DEF FromXmlid
<1> QED BY <1>2, <1>6, <1>9

\* The idmap names one more record.
LEMMA IdmapPut ==
  ASSUME NEW im, NEW D, \A q \in DOMAIN im : im[q] \in D, NEW E, D \subseteq E,
         NEW r, NEW id \in E
  PROVE  /\ \A q \in DOMAIN IO!Put(im, r, id) : IO!Put(im, r, id)[q] \in E
         /\ r \in DOMAIN IO!Put(im, r, id)
BY DEF IO!Put

\* A state of the run; its xmlids are those of the remote records X and maybe more.
Reached(t, X) ==
  \E l, x, im, du, ins : t = St(l, x, im, du, ins) /\ PartsOk(l, x, im, du) /\ X \subseteq DOMAIN x

\* It has the dummies and instances it had before, and r is in its idmap.
Created(t, X, du, ins, r) ==
  \E l, x, im : /\ t = St(l, x, im, du, ins) /\ PartsOk(l, x, im, du)
                /\ X \subseteq DOMAIN x /\ r \in DOMAIN im

\* A created record is the only one of its remote record: if this has an external id, the
\* record of that id is written instead.
LEMMA CreateOk ==
  ASSUME NEW l, NEW x, NEW im, NEW du, NEW ins, PartsOk(l, x, im, du),
         NEW r, r \in DOMAIN x \/ r \notin DOMAIN Mapped, NEW link
  PROVE  Created(IO!CreateRecord(St(l, x, im, du, ins), r, link), DOMAIN x, du, ins, r)
<1> PICK s : s = St(l, x, im, du, ins)
  OBVIOUS
<1> DEFINE t == IO!CreateRecord(s, r, link)
<1>1. LocalShape(l) /\ FromXmlid(l, x) /\ \A q \in DOMAIN im : im[q] \in DOMAIN l
  BY DEF PartsOk
<1>2. ASSUME r \in DOMAIN x
      PROVE  Created(t, DOMAIN x, du, ins, r)
  <2>1. t = St(IO!Linked(l, x[r], link), x, IO!Put(im, r, x[r]), du, ins)
    BY <1>2 DEF IO!CreateRecord, St
  <2>2. x[r] \in DOMAIN l
    BY <1>1, <1>2 DEF FromXmlid
  <2>3. /\ LocalShape(IO!Linked(l, x[r], link)) /\ FromXmlid(IO!Linked(l, x[r], link), x)
        /\ DOMAIN IO!Linked(l, x[r], link) = DOMAIN l
    BY <1>1, <2>2, LinkedOk
  <2>4. /\ \A q \in DOMAIN IO!Put(im, r, x[r]) : IO!Put(im, r, x[r])[q] \in DOMAIN l
        /\ r \in DOMAIN IO!Put(im, r, x[r])
    BY <1>1, <2>2, IdmapPut
  <2>5. PartsOk(IO!Linked(l, x[r], link), x, IO!Put(im, r, x[r]), du)
    BY <2>3, <2>4 DEF PartsOk
  <2> HIDE DEF t
  <2> QED BY <2>1, <2>4, <2>5 DEF Created
<1>3. ASSUME r \notin DOMAIN x
      PROVE  Created(t, DOMAIN x, du, ins, r)
  <2> PICK id : id = IO!NewId([local |-> l, xmlid |-> x])
    OBVIOUS
  <2>1. id \in Nat /\ \A j \in DOMAIN l : j < id
    <3> PICK d : d = [local |-> l, xmlid |-> x] /\ d.local = l
      OBVIOUS
    <3> QED BY <1>1, NewIdIsNew
  <2> PICK k, y : k = IO!Put(l, id, [from |-> r, link |-> link]) /\ y = IO!Put(x, r, id)
    OBVIOUS
  <2>2. t = St(k, y, IO!Put(im, r, id), du, ins)
    BY <1>3 DEF IO!CreateRecord, IO!WithXmlid, St
  <2>3. LocalShape(k) /\ FromXmlid(k, y) /\ DOMAIN l \cup {id} = DOMAIN k
    BY <1>1, <1>3, <2>1, AddedOk
  <2>4. /\ \A q \in DOMAIN IO!Put(im, r, id) : IO!Put(im, r, id)[q] \in DOMAIN k
        /\ r \in DOMAIN IO!Put(im, r, id)
    <3>1. DOMAIN l \subseteq DOMAIN k /\ id \in DOMAIN k
      BY <2>3
    <3> QED BY <1>1, <3>1, IdmapPut
  <2>5. PartsOk(k, y, IO!Put(im, r, id), du)
    BY <2>3, <2>4 DEF PartsOk
  <2>6. DOMAIN x \subseteq DOMAIN y
    BY DEF IO!Put
  <2> HIDE DEF t
  <2> QED BY <2>2, <2>4, <2>5, <2>6 DEF Created
<1> QED BY <1>2, <1>3

\* What a step of the run knows of a record.
LEMMA KnownOk ==
  ASSUME IO!Assumption, NEW l, NEW x, NEW im, NEW du, NEW ins, PartsOk(l, x, im, du),
         NEW s, s = St(l, x, im, du, ins), NEW r
  PROVE  /\ IO!Known(s, r) = None => r \notin DOMAIN Mapped
         /\ IO!Known(s, r) # None /\ r \notin DOMAIN du => IO!Known(s, r) \in DOMAIN l
<1>1. DOMAIN l \subseteq Nat /\ Own \subseteq DOMAIN l /\ None \notin Nat
  BY DEF PartsOk, LocalShape, IO!Assumption
<1>2. r \in DOMAIN Mapped => Mapped[r] \in DOMAIN l
  BY <1>1 DEF IO!Assumption, IO!Range
<1>3. /\ r \in DOMAIN im => im[r] \in DOMAIN l
      /\ r \in DOMAIN x => x[r] \in DOMAIN l
      /\ r \in DOMAIN du => r \notin DOMAIN Mapped
  BY DEF PartsOk, FromXmlid
<1>4. IO!Known(s, r) = IF r \in DOMAIN im THEN im[r]
                       ELSE IF r \in DOMAIN du THEN du[r]
                       ELSE IF r \in DOMAIN Mapped THEN Mapped[r]
                       ELSE IF r \in DOMAIN x THEN x[r] ELSE None
  BY DEF IO!Known, St
<1> QED BY <1>1, <1>2, <1>3, <1>4

\* A record that is mapped by hand is noted, once, in the map of ids.
LEMMA NotedOk ==
  ASSUME IO!Assumption, NEW l, NEW x, NEW im, NEW du, NEW ins, PartsOk(l, x, im, du),
         NEW r, NEW by
  PROVE  \E i, n : /\ IO!Noted(St(l, x, im, du, ins), r, by) = St(l, x, i, du, n)
                   /\ PartsOk(l, x, i, du)
                   /\ r \in DOMAIN Mapped => r \in DOMAIN i
<1> PICK s : s = St(l, x, im, du, ins)
  OBVIOUS
<1> PICK id : id = IO!Known(s, r)
  OBVIOUS
<1>1. (id = None => r \notin DOMAIN Mapped) /\ (id # None /\ r \notin DOMAIN du => id \in DOMAIN l)
  BY KnownOk
<1>2. DOMAIN du \cap DOMAIN Mapped = {}
  BY DEF PartsOk
<1> DEFINE t == IO!Noted(s, r, by)
<1>3. ASSUME id = None \/ r \in DOMAIN im
      PROVE  t = St(l, x, im, du, ins) /\ (r \in DOMAIN Mapped => r \in DOMAIN im)
  BY <1>1, <1>3 DEF IO!Noted, St
<1>4. ASSUME id # None, r \notin DOMAIN im, r \in DOMAIN du
      PROVE  t = St(l, x, im, du, IO!Append(ins, [by |-> by, dummy |-> id])) /\ r \notin DOMAIN Mapped
  BY <1>2, <1>4 DEF IO!Noted, St
<1>5. ASSUME id # None, r \notin DOMAIN im, r \notin DOMAIN du
      PROVE  /\ t = St(l, x, IO!Put(im, r, id), du, ins) /\ r \in DOMAIN IO!Put(im, r, id)
             /\ PartsOk(l, x, IO!Put(im, r, id), du)
  <2>1. t = St(l, x, IO!Put(im, r, id), du, ins)
    BY <1>5 DEF IO!Noted, St
  <2>2. id \in DOMAIN l
    BY <1>1, <1>5
  <2>3. /\ \A q \in DOMAIN IO!Put(im, r, id) : IO!Put(im, r, id)[q] \in DOMAIN l
        /\ r \in DOMAIN IO!Put(im, r, id)
    BY <2>2, IdmapPut DEF PartsOk
  <2> QED BY <2>1, <2>3 DEF PartsOk
<1> HIDE DEF t
<1>6. \E i, n : /\ t = St(l, x, i, du, n) /\ PartsOk(l, x, i, du)
                /\ r \in DOMAIN Mapped => r \in DOMAIN i
  BY <1>3, <1>4, <1>5
<1> QED BY <1>6 DEF t
\* The import of a record that is in the idmap notes its xmlid.
LEMMA NamedOk ==
  ASSUME NEW l, NEW x, NEW im, NEW du, NEW ins, PartsOk(l, x, im, du), NEW r \in DOMAIN im,
         NEW s, s = St(l, x, im, du, ins)
  PROVE  \E y : /\ [s EXCEPT !.db = IO!WithXmlid(@, r, s.mem.idmap[r])] = St(l, y, im, du, ins)
                /\ PartsOk(l, y, im, du) /\ r \in DOMAIN y
<1> DEFINE t == [s EXCEPT !.db = IO!WithXmlid(@, r, s.mem.idmap[r])]
<1>1. im[r] \in DOMAIN l
  BY DEF PartsOk
<1>2. ASSUME r \in DOMAIN x PROVE t = St(l, x, im, du, ins)
  BY <1>2 DEF IO!WithXmlid, St
<1>3. ASSUME r \notin DOMAIN x
      PROVE  /\ t = St(l, IO!Put(x, r, im[r]), im, du, ins) /\ r \in DOMAIN IO!Put(x, r, im[r])
             /\ PartsOk(l, IO!Put(x, r, im[r]), im, du)
  <2>1. t = St(l, IO!Put(x, r, im[r]), im, du, ins)
    BY <1>3 DEF IO!WithXmlid, St
  <2>2. FromXmlid(l, IO!Put(x, r, im[r])) /\ r \in DOMAIN IO!Put(x, r, im[r])
    BY <1>1, <1>3 DEF FromXmlid, IO!Put, PartsOk
  <2> QED BY <2>1, <2>2 DEF PartsOk
<1> HIDE DEF t
<1>4. \E y : t = St(l, y, im, du, ins) /\ PartsOk(l, y, im, du) /\ r \in DOMAIN y
  BY <1>2, <1>3
<1> QED BY <1>4 DEF t

\* Forgetting an entry of a map leaves the other entries.
LEMMA DropIdmap ==
  ASSUME NEW im, NEW D, \A q \in DOMAIN im : im[q] \in D, NEW r
  PROVE  \A q \in DOMAIN IO!Drop(im, r) : IO!Drop(im, r)[q] \in D
BY DEF IO!Drop

\* A dummy that is made for a linked record keeps the parts of the state.
LEMMA DummyOk ==
  ASSUME NEW l, NEW x, NEW im, NEW du, NEW ins, PartsOk(l, x, im, du),
         NEW r, r \notin DOMAIN Mapped, NEW by, NEW s, s = St(l, x, im, du, ins)
  PROVE  Reached(IO!MakeDummy(s, r, by), DOMAIN x)
<1> DEFINE use == IO!Usable(s) # {} /\ r \in IO!ToSet(Order)
           c == IO!CreateRecord(s, r, None)
           made == IF use THEN s ELSE c
           id == IF use THEN IO!Min(IO!Usable(s)) ELSE made.mem.idmap[r]
           t == [made EXCEPT !.mem = [idmap |-> IF use THEN @.idmap ELSE IO!Drop(@.idmap, r),
                                      dummies |-> IO!Put(@.dummies, r, id),
                                      instances |-> IO!Append(@.instances, [by |-> by, dummy |-> id])]]
<1>1. IO!MakeDummy(s, r, by) = t
  BY DEF IO!MakeDummy
<1>2. PICK k, y, i : made = St(k, y, i, du, ins) /\ PartsOk(k, y, i, du) /\ DOMAIN x \subseteq DOMAIN y
  <2>1. Created(c, DOMAIN x, du, ins, r)
    BY CreateOk
  <2> HIDE DEF c, use
  <2> QED BY <2>1 DEF Created
<1>3. PICK n, v : t = St(k, y, IF use THEN i ELSE IO!Drop(i, r), IO!Put(du, r, v), n)
  <2> PICK v, n : v = id /\ n = IO!Append(ins, [by |-> by, dummy |-> id])
    OBVIOUS
  <2> HIDE DEF made, use, id
  <2>1. made.mem.idmap = i /\ made.mem.dummies = du /\ made.mem.instances = ins
    BY <1>2 DEF St
  <2>2. t = [made EXCEPT !.mem = [idmap |-> IF use THEN i ELSE IO!Drop(i, r),
                                  dummies |-> IO!Put(du, r, v), instances |-> n]]
    BY <2>1
  <2>3. t = St(k, y, IF use THEN i ELSE IO!Drop(i, r), IO!Put(du, r, v), n)
    <3> PICK a, d : a = (IF use THEN i ELSE IO!Drop(i, r)) /\ d = IO!Put(du, r, v)
      OBVIOUS
    <3>1. t = [made EXCEPT !.mem = [idmap |-> a, dummies |-> d, instances |-> n]]
      BY <2>2
    <3> HIDE DEF t
    <3>2. t = St(k, y, a, d, n)
      BY <1>2, <3>1 DEF St
    <3> QED BY <3>2
  <2> QED BY <2>3
<1>4. PartsOk(k, y, IF use THEN i ELSE IO!Drop(i, r), IO!Put(du, r, v))
  <2> HIDE DEF use
  <2>1. \A q \in DOMAIN IO!Drop(i, r) : IO!Drop(i, r)[q] \in DOMAIN k
    BY <1>2, DropIdmap DEF PartsOk
  <2>2. DOMAIN IO!Put(du, r, v) = DOMAIN du \cup {r}
    BY DEF IO!Put
  <2> QED BY <1>2, <2>1, <2>2 DEF PartsOk
<1> HIDE DEF t, use
<1>5. Reached(t, DOMAIN x)
  BY <1>2, <1>3, <1>4 DEF Reached
<1> QED BY <1>1, <1>5

\* Following a link keeps the parts of the state.
LEMMA MapLinkOk ==
  ASSUME IO!Assumption, NEW l, NEW x, NEW im, NEW du, NEW ins, PartsOk(l, x, im, du),
         NEW r, NEW s, s = St(l, x, im, du, ins)
  PROVE  Reached(IO!MapLink(s, r), DOMAIN x)
<1> PICK q : q = Link[r]
  OBVIOUS
<1>1. CASE IO!Known(s, q) = None
  <2>1. q \notin DOMAIN Mapped
    BY <1>1, KnownOk
  <2>2. Reached(IO!MakeDummy(s, q, r), DOMAIN x)
    BY <2>1, DummyOk
  <2> QED BY <1>1, <2>2 DEF IO!MapLink
<1>2. CASE IO!Known(s, q) # None
  <2>1. PICK i, n : IO!Noted(s, q, r) = St(l, x, i, du, n) /\ PartsOk(l, x, i, du)
    BY NotedOk
  <2>2. Reached(IO!Noted(s, q, r), DOMAIN x)
    BY <2>1 DEF Reached
  <2> QED BY <1>2, <2>2 DEF IO!MapLink
<1> QED BY <1>1, <1>2
\* The links to a dummy are replaced, the records stay.
LEMMA CleanupOk ==
  ASSUME NEW l, NEW x, NEW im, NEW du, NEW ins, PartsOk(l, x, im, du),
         NEW r, NEW s, s = St(l, x, im, du, ins)
  PROVE  Reached(IO!CleanupDummies(s, r), {})
<1>1. CASE r \notin DOMAIN du
  <2>1. IO!CleanupDummies(s, r) = s
    BY <1>1 DEF IO!CleanupDummies, St
  <2> QED BY <2>1 DEF Reached
<1>2. CASE r \in DOMAIN du
  <2> PICK scan, id : scan = IO!Scan(s.mem, du[r]) /\ id = im[r]
    OBVIOUS
  <2> DEFINE k == [j \in DOMAIN l |-> IF j \in scan.by THEN [l[j] EXCEPT !.link = id] ELSE l[j]]
  <2>1. IO!CleanupDummies(s, r) = St(k, x, im, IO!Drop(du, r), scan.kept)
    <3>1. s.mem.idmap = im /\ s.mem.dummies = du /\ s.db.local = l
      BY DEF St
    <3> PICK z : z = IO!Replace(s, id, du[r])
      OBVIOUS
    <3>2. z = St(k, x, im, du, scan.kept)
      BY <3>1 DEF IO!Replace, St
    <3>3. IO!CleanupDummies(s, r) = [z EXCEPT !.mem.dummies = IO!Drop(@, r)]
      BY <1>2, <3>1 DEF IO!CleanupDummies
    <3> HIDE DEF k
    <3> QED BY <3>2, <3>3 DEF St
  <2>2. DOMAIN k = DOMAIN l /\ k = [j \in DOMAIN l |-> k[j]]
    OBVIOUS
  <2>3. ASSUME NEW j \in DOMAIN l PROVE k[j] = [from |-> l[j].from, link |-> k[j].link]
    <3>1. l[j] = [from |-> l[j].from, link |-> l[j].link]
      BY DEF PartsOk, LocalShape
    <3>2. k[j] = l[j] \/ k[j] = [l[j] EXCEPT !.link = id]
      OBVIOUS
    <3> HIDE DEF k
    <3>3. [l[j] EXCEPT !.link = id] = [from |-> l[j].from, link |-> id]
      BY <3>1
    <3> QED BY <3>1, <3>2, <3>3
  <2> HIDE DEF k
  <2>4. LocalShape(k) /\ FromXmlid(k, x)
    BY <2>2, <2>3, Relinked DEF PartsOk
  <2>5. DOMAIN IO!Drop(du, r) \subseteq DOMAIN du
    BY DEF IO!Drop
  <2>6. PartsOk(k, x, im, IO!Drop(du, r))
    BY <2>2, <2>4, <2>5 DEF PartsOk
  <2> QED BY <2>1, <2>6 DEF Reached
<1> QED BY <1>1, <1>2

\* Importing one record keeps the parts of the state.
LEMMA ImportOneOk ==
  ASSUME IO!Assumption, NEW l, NEW x, NEW im, NEW du, NEW ins, PartsOk(l, x, im, du),
         NEW r, NEW s, s = St(l, x, im, du, ins)
  PROVE  Reached(IO!ImportOne(s, r), {})
<1>1. PICK i, n : /\ IO!Noted(s, r, None) = St(l, x, i, du, n) /\ PartsOk(l, x, i, du)
                  /\ r \in DOMAIN Mapped => r \in DOMAIN i
  BY NotedOk
<1> PICK found : found = IO!Noted(s, r, None) /\ found = St(l, x, i, du, n)
  BY <1>1
<1>2. found.mem.idmap = i
  BY DEF St
<1> PICK named : named = IF r \in DOMAIN i
                           THEN [found EXCEPT !.db = IO!WithXmlid(@, r, found.mem.idmap[r])]
                           ELSE found
  OBVIOUS
<1>3. PICK y : /\ named = St(l, y, i, du, n) /\ PartsOk(l, y, i, du)
               /\ r \in DOMAIN Mapped => r \in DOMAIN y
  <2>1. CASE r \in DOMAIN i
    BY <1>1, <2>1, NamedOk
  <2>2. CASE r \notin DOMAIN i
    BY <1>1, <2>2
  <2> QED BY <2>1, <2>2
<1> PICK linked : linked = IO!MapLink(named, r)
  OBVIOUS
<1>4. Reached(linked, DOMAIN y)
  BY <1>3, MapLinkOk
<1> PICK made : made = IO!CreateRecord(linked, r, IO!Known(linked, Link[r]))
  OBVIOUS
<1>5. IO!ImportOne(s, r) = named \/ IO!ImportOne(s, r) = IO!CleanupDummies(made, r)
  BY <1>2 DEF IO!ImportOne
<1>6. Reached(named, {})
  BY <1>3 DEF Reached
<1>7. Reached(IO!CleanupDummies(made, r), {})
  <2>1. PICK l1, x1, im1, du1, ins1 :
          /\ linked = St(l1, x1, im1, du1, ins1) /\ PartsOk(l1, x1, im1, du1)
          /\ DOMAIN y \subseteq DOMAIN x1
    BY <1>4 DEF Reached
  <2>2. r \in DOMAIN x1 \/ r \notin DOMAIN Mapped
    BY <1>3, <2>1
  <2>3. Created(made, DOMAIN x1, du1, ins1, r)
    BY <2>1, <2>2, CreateOk
  <2>4. PICK l2, x2, im2 : made = St(l2, x2, im2, du1, ins1) /\ PartsOk(l2, x2, im2, du1)
    BY <2>3 DEF Created
  <2> QED BY <2>4, CleanupOk
<1> QED BY <1>5, <1>6, <1>7

\* Each step of a run, its interruption and its end keep the invariant.
LEMMA ImportNext ==
  ASSUME IO!Assumption, ImportInv, [IO!Next]_IO!vars
  PROVE  ImportInv'
<1>1. MemOk(IO!NewMem, db.local) /\ MemOk(IO!NewMem, saved.local)
  BY DEF MemOk, IO!NewMem, IO!Empty
<1>2. CASE IO!Start
  BY <1>1, <1>2 DEF IO!Start, ImportInv
<1>3. CASE IO!ImportRecord
  <2> PICK s, r : s = [db |-> db, mem |-> mem] /\ r = IO!Head(todo)
    OBVIOUS
  <2> PICK t : t = IO!ImportOne(s, r)
    OBVIOUS
  <2>1. db' = t.db /\ mem' = t.mem /\ (saved' = t.db \/ saved' = saved)
    BY <1>3 DEF IO!ImportRecord
  <2>2. PICK l, x, im, du, ins : s = St(l, x, im, du, ins) /\ PartsOk(l, x, im, du)
    <3>1. /\ db = [local |-> db.local, xmlid |-> db.xmlid]
          /\ mem = [idmap |-> mem.idmap, dummies |-> mem.dummies, instances |-> mem.instances]
      BY DEF ImportInv, DbOk, MemOk
    <3>2. s = St(db.local, db.xmlid, mem.idmap, mem.dummies, mem.instances)
      BY <3>1 DEF St
    <3>3. PartsOk(db.local, db.xmlid, mem.idmap, mem.dummies)
      BY DEF ImportInv, DbOk, MemOk, PartsOk
    <3> QED BY <3>2, <3>3
  <2>3. PICK l1, x1, im1, du1, ins1 :
          t = St(l1, x1, im1, du1, ins1) /\ PartsOk(l1, x1, im1, du1)
    BY <2>2, ImportOneOk DEF Reached
  <2>4. DbOk(t.db) /\ MemOk(t.mem, t.db.local)
    BY <2>3 DEF St, PartsOk, DbOk, MemOk
  <2> QED BY <2>1, <2>4 DEF ImportInv
<1>4. CASE IO!Interrupt
  BY <1>1, <1>4 DEF IO!Interrupt, ImportInv
<1>5. CASE IO!End
  BY <1>1, <1>5 DEF IO!End, ImportInv
<1>6. CASE UNCHANGED IO!vars
  BY <1>6 DEF IO!vars, ImportInv
<1> QED BY <1>2, <1>3, <1>4, <1>5, <1>6 DEF IO!Next

\* The external id tells the record that was made of a remote one: there is no other.
LEMMA ImportOnce == ImportInv => IO!ImportedOnce
BY DEF ImportInv, DbOk, FromXmlid, IO!ImportedOnce
----------------------------------------------------------------------------
(* DatabaseCleanup: as long as no model was installed while a wizard was open, *)
(* no line of a wizard is in use.                                             *)

CleanupType ==
  /\ env \subseteq Models /\ env \subseteq onDisk
  /\ installed \subseteq Models /\ retired \subseteq Retired
  /\ \A m \in env : Needs[m] \subseteq onDisk
  /\ \A mf \in irFields : mf[2] \in DC!Fields(mf[1]) \/ <<mf[1], mf[2]>> \in retired

InUse(m) ==
  /\ m \in installed /\ m \in irModel /\ \A f \in DC!Fields(m) : <<m, f>> \in irFields
  /\ {Table[m]} \cup Relations[m] \subseteq tables
  /\ \A f \in DC!Columns(m) : <<Table[m], f>> \in columns
  /\ m \in entries

\* What a line names, and no model needs.
Unused(kind, x) ==
  /\ kind = "module" => x \notin onDisk
  /\ kind \in {"model", "entry"} => x \notin env
  /\ kind = "field" /\ x[1] \in env => <<x[1], x[2]>> \in retired /\ x[2] \notin DC!Fields(x[1])
  /\ kind = "column" => \A m \in env : Table[m] = x[1] => x[2] \notin DC!Columns(m)
  /\ kind = "table" => \A m \in env : x \notin {Table[m]} \cup Relations[m]

CleanupInv ==
  /\ CleanupType
  /\ ~ stale => /\ \A m \in env : InUse(m)
                /\ \A l \in lines : Unused(l[1], l[2])

\* The invariant holds of an empty database.
LEMMA CleanupInit == DC!Init => CleanupInv
BY DEF DC!Init, CleanupInv, CleanupType

\* A model has no more columns and fields when more of its fields are retired.
LEMMA FieldsGo ==
  ASSUME retired \subseteq retired', NEW m
  PROVE  /\ DC!Columns(m)' \subseteq DC!Columns(m)
         /\ DC!Fields(m)' \subseteq DC!Fields(m)
         /\ DC!Columns(m) \subseteq DC!Fields(m)
         /\ \A f \in DC!Fields(m) : f \in DC!Fields(m)' \/ <<m, f>> \in retired'
BY DEF DC!Columns, DC!Fields

\* What the lines name stays unused as long as no model is installed.
LEMMA LinesStay ==
  ASSUME env' \subseteq env, onDisk' \subseteq onDisk, retired \subseteq retired',
         lines' \subseteq lines, \A l \in lines : Unused(l[1], l[2])
  PROVE  (\A l \in lines : Unused(l[1], l[2]))'
<1> SUFFICES ASSUME NEW l \in lines' PROVE Unused(l[1], l[2])'
  OBVIOUS
<1>1. Unused(l[1], l[2])
  OBVIOUS
<1>2. \A m : DC!Columns(m)' \subseteq DC!Columns(m) /\ DC!Fields(m)' \subseteq DC!Fields(m)
  BY FieldsGo
<1> QED BY <1>1, <1>2 DEF Unused

\* A line of a kind names something unused.
LEMMA LinesUnused ==
  ASSUME \A l \in lines : Unused(l[1], l[2]), NEW kind, NEW x \in DC!Lines(kind)
  PROVE  Unused(kind, x)
BY DEF DC!Lines

\* Purging takes lines away.
LEMMA LinesGo ==
  ASSUME NEW kind, NEW xs, DC!Purged(kind, xs)
  PROVE  lines' \subseteq lines
BY DEF DC!Purged

\* A model is in use after a step that leaves its rows, tables and columns alone.
LEMMA StaysInUse ==
  ASSUME NEW m, InUse(m), retired' = retired,
         m \in installed', m \in irModel', m \in entries',
         \A f \in DC!Fields(m) : <<m, f>> \in irFields => <<m, f>> \in irFields',
         {Table[m]} \cup Relations[m] \subseteq tables',
         \A f \in DC!Columns(m) : <<Table[m], f>> \in columns => <<Table[m], f>> \in columns'
  PROVE  InUse(m)'
BY DEF InUse, DC!Fields, DC!Columns

\* Odoo installs a model, loses its code, or its code loses a field.
LEMMA OdooStep ==
  ASSUME DC!Assumption, CleanupInv,
         \/ \E m \in Models : DC!Install(m) \/ DC!Remove(m)
         \/ \E mf \in Retired : DC!Retire(mf)
  PROVE  CleanupInv'
<1>1. ASSUME NEW m \in Models, DC!Install(m) PROVE CleanupInv'
  <2> USE DEF DC!Install
  <2>1. \A n : DC!Fields(n)' = DC!Fields(n) /\ DC!Columns(n)' = DC!Columns(n)
    BY <1>1 DEF DC!Fields, DC!Columns
  <2>2. CleanupType'
    <3>1. ASSUME NEW mf \in irFields'
          PROVE  mf[2] \in DC!Fields(mf[1])' \/ <<mf[1], mf[2]>> \in retired'
      BY <1>1, <2>1, <3>1 DEF CleanupInv, CleanupType
    <3> QED BY <1>1, <3>1 DEF CleanupInv, CleanupType, DC!Assumption
  <2>3. ASSUME ~ stale', NEW n \in env' PROVE InUse(n)'
    <3>1. ~ stale
      BY <1>1, <2>3
    <3>2. DC!Columns(n) \subseteq DC!Fields(n)
      BY DEF DC!Fields, DC!Columns
    <3>3. CASE n = m
      BY <1>1, <2>1, <3>2, <3>3 DEF InUse
    <3>4. CASE n \in env
      BY <1>1, <2>1, <3>1, <3>4 DEF InUse, CleanupInv
    <3> QED BY <1>1, <3>3, <3>4
  <2>4. ~ stale' => lines' = {}
    BY <1>1
  <2> QED BY <2>2, <2>3, <2>4 DEF CleanupInv
<1>2. ASSUME NEW m \in Models, DC!Remove(m) PROVE CleanupInv'
  <2> USE DEF DC!Remove, DC!database
  <2>1. \A n : DC!Fields(n)' = DC!Fields(n) /\ DC!Columns(n)' = DC!Columns(n)
    BY <1>2 DEF DC!Fields, DC!Columns
  <2>2. CleanupType'
    BY <1>2, <2>1 DEF CleanupInv, CleanupType
  <2>3. ~ stale => (\A l \in lines : Unused(l[1], l[2]))'
    BY <1>2, LinesStay DEF CleanupInv
  <2>4. ~ stale => \A n \in env' : InUse(n)'
    BY <1>2, <2>1 DEF CleanupInv, InUse
  <2> QED BY <1>2, <2>2, <2>3, <2>4 DEF CleanupInv
<1>3. ASSUME NEW mf \in Retired, DC!Retire(mf) PROVE CleanupInv'
  <2> USE DEF DC!Retire, DC!database
  <2>1. \A n : /\ DC!Columns(n)' \subseteq DC!Columns(n)
               /\ DC!Fields(n)' \subseteq DC!Fields(n)
               /\ \A f \in DC!Fields(n) : f \in DC!Fields(n)' \/ <<n, f>> \in retired'
    BY <1>3, FieldsGo
  <2>2. CleanupType'
    BY <1>3, <2>1 DEF CleanupInv, CleanupType
  <2>3. ~ stale => (\A l \in lines : Unused(l[1], l[2]))'
    BY <1>3, LinesStay DEF CleanupInv
  <2>4. ~ stale => \A n \in env' : InUse(n)'
    BY <1>3, <2>1 DEF CleanupInv, InUse
  <2> QED BY <1>3, <2>2, <2>3, <2>4 DEF CleanupInv
<1> QED BY <1>1, <1>2, <1>3

\* What a wizard finds is unused: the columns are those of no model of the table, because all
\* of them are loaded, have their row and are managed by Odoo.
LEMMA FoundUnused ==
  ASSUME DC!TablesFit, CleanupInv, ~ stale, NEW kind, DC!Find(kind), NEW l \in lines'
  PROVE  Unused(l[1], l[2])
<1> USE DEF DC!Find, CleanupInv
<1>1. PICK x : l = <<kind, x>>
  BY Zenon
<1>2. kind = "module" => x \notin onDisk
  BY <1>1 DEF DC!OrphanedModules
<1>3. kind \in {"model", "entry"} => x \notin env
  BY <1>1 DEF DC!OrphanedModels, DC!OrphanedEntries, InUse
<1>4. ASSUME kind = "field", x[1] \in env
      PROVE  <<x[1], x[2]>> \in retired /\ x[2] \notin DC!Fields(x[1])
  BY <1>1, <1>4 DEF DC!OrphanedFields, CleanupType
<1>5. ASSUME kind = "column", NEW n \in env, Table[n] = x[1]
      PROVE  x[2] \notin DC!Columns(n)
  <2>1. x \in DC!OrphanedColumns
    BY <1>1, <1>5
  <2>2. PICK m \in env \cap irModel \cap AutoModels :
          x[1] = Table[m] /\ x[2] \notin Magic \cup UNION {DC!Columns(o) : o \in DC!Sharing(m)}
    BY <2>1 DEF DC!OrphanedColumns
  <2>3. n \in AutoModels /\ n \in irModel
    BY <1>5, <2>2 DEF DC!TablesFit, InUse, CleanupType
  <2>4. n \in DC!Sharing(m)
    BY <1>5, <2>2, <2>3 DEF DC!Sharing
  <2> QED BY <2>2, <2>4
<1>6. ASSUME kind = "table", NEW n \in env
      PROVE  x \notin {Table[n]} \cup Relations[n]
  <2>1. x \in DC!OrphanedTables
    BY <1>1, <1>6
  <2> QED BY <1>6, <2>1 DEF DC!OrphanedTables, InUse
<1> QED BY <1>1, <1>2, <1>3, <1>4, <1>5, <1>6 DEF Unused

\* A wizard finds its lines, or is closed.
LEMMA WizardStep ==
  ASSUME DC!TablesFit, CleanupInv, NEW kind, DC!Find(kind) \/ DC!CloseWizard
  PROVE  CleanupInv'
<1> USE DEF DC!Find, DC!CloseWizard, DC!database
<1>1. \A m : DC!Fields(m)' = DC!Fields(m) /\ DC!Columns(m)' = DC!Columns(m)
  BY DEF DC!Fields, DC!Columns
<1>2. CleanupType'
  BY <1>1 DEF CleanupInv, CleanupType
<1>3. ~ stale => \A m \in env' : InUse(m)'
  BY <1>1 DEF CleanupInv, InUse
<1>4. ASSUME ~ stale PROVE (\A l \in lines : Unused(l[1], l[2]))'
  <2>1. CASE DC!Find(kind)
    <3>1. \A l \in lines' : Unused(l[1], l[2])
      BY <1>4, <2>1, FoundUnused
    <3> QED BY <1>1, <2>1, <3>1, Zenon DEF Unused
  <2>2. CASE DC!CloseWizard
    BY <2>2
  <2> QED BY <2>1, <2>2
<1> QED BY <1>2, <1>3, <1>4 DEF CleanupInv

\* Purging modules spares the loaded ones: their directories and those of the modules they
\* depend on are there.
LEMMA ModulesPurged ==
  ASSUME DC!TablesFit, CleanupInv, NEW ms \in SUBSET Models, DC!PurgeModules(ms)
  PROVE  CleanupInv'
<1> DEFINE out == DC!Uninstalled(ms)
           own == {Table[m] : m \in out \cap env}
           gone == UNION {Relations[m] : m \in out}
           used == UNION {Relations[m] : m \in env'}
<1> HIDE DEF own, gone, used
<1>0. tables' = tables \ (own \cup (gone \ used))
  BY DEF DC!PurgeModules, own, gone, used
<1> USE DEF DC!PurgeModules
<1>1. /\ \A m : DC!Fields(m)' = DC!Fields(m) /\ DC!Columns(m)' = DC!Columns(m)
      /\ env' \subseteq env /\ irFields' \subseteq irFields
  BY DEF DC!Fields, DC!Columns
<1>2. CleanupType'
  BY <1>1 DEF CleanupInv, CleanupType
<1>3. lines' \subseteq lines
  BY LinesGo
<1>4. ~ stale => (\A l \in lines : Unused(l[1], l[2]))'
  BY <1>1, <1>3, LinesStay DEF CleanupInv
<1>5. ASSUME ~ stale PROVE out \cap env = {}
  <2>1. \A x \in ms : x \notin onDisk
    BY <1>5, LinesUnused DEF CleanupInv, Unused
  <2> QED BY <2>1 DEF CleanupInv, CleanupType, DC!Uninstalled
<1>6. ASSUME ~ stale, NEW m \in env' PROVE InUse(m)'
  <2>1. m \in env /\ InUse(m) /\ m \notin out /\ env' = env
    BY <1>1, <1>5, <1>6 DEF CleanupInv
  <2>2. m \in installed' /\ m \in irModel' /\ m \in entries'
    BY <2>1 DEF InUse
  <2>3. \A f : <<m, f>> \in irFields => <<m, f>> \in irFields'
    BY <2>1
  <2>4. {Table[m]} \cup Relations[m] \subseteq tables'
    <3>1. Table[m] \notin gone
      <4>1. m \in Models /\ out \subseteq Models
        BY <2>1 DEF CleanupInv, CleanupType, DC!Uninstalled
      <4> QED BY <4>1 DEF DC!TablesFit, gone
    <3>2. Relations[m] \subseteq used
      BY <1>6 DEF used
    <3>3. own = {}
      BY <1>5, <1>6 DEF own
    <3>4. {Table[m]} \cup Relations[m] \subseteq tables
      BY <2>1 DEF InUse
    <3> HIDE DEF DC!PurgeModules
    <3> QED BY <1>0, <3>1, <3>2, <3>3, <3>4
  <2>5. \A f : <<Table[m], f>> \in columns => <<Table[m], f>> \in columns'
    BY <2>4
  <2> QED BY <2>1, <2>2, <2>3, <2>4, <2>5, StaysInUse
<1> QED BY <1>2, <1>4, <1>6 DEF CleanupInv

\* Purging the rows of models leaves those of the loaded ones.
LEMMA ModelsPurged ==
  ASSUME DC!TablesFit, CleanupInv, NEW ms \in SUBSET Models, DC!PurgeModels(ms)
  PROVE  CleanupInv'
<1> DEFINE gone == UNION {Relations[m] : m \in ms}
           used == UNION {Relations[m] : m \in env}
<1> HIDE DEF gone, used
<1>0. tables' = tables \ (gone \ used)
  BY DEF DC!PurgeModels, gone, used
<1> USE DEF DC!PurgeModels
<1>1. \A m : DC!Fields(m)' = DC!Fields(m) /\ DC!Columns(m)' = DC!Columns(m)
  BY DEF DC!Fields, DC!Columns
<1>2. CleanupType'
  BY <1>1 DEF CleanupInv, CleanupType
<1>3. lines' \subseteq lines
  BY LinesGo
<1>4. ~ stale => (\A l \in lines : Unused(l[1], l[2]))'
  BY <1>3, LinesStay DEF CleanupInv
<1>5. ASSUME ~ stale, NEW m \in env PROVE InUse(m)'
  <2>1. \A x \in ms : x \notin env
    BY <1>5, LinesUnused DEF CleanupInv, Unused
  <2>2. InUse(m) /\ m \in Models
    BY <1>5 DEF CleanupInv, CleanupType
  <2>3. {Table[m]} \cup Relations[m] \subseteq tables'
    <3>1. Table[m] \notin gone
      BY <2>2 DEF DC!TablesFit, gone
    <3>2. Relations[m] \subseteq used
      BY <1>5 DEF used
    <3>3. {Table[m]} \cup Relations[m] \subseteq tables
      BY <2>2 DEF InUse
    <3> HIDE DEF DC!PurgeModels
    <3> QED BY <1>0, <3>1, <3>2, <3>3
  <2>4. \A f : <<Table[m], f>> \in columns => <<Table[m], f>> \in columns'
    BY <2>3
  <2>5. \A f : <<m, f>> \in irFields => <<m, f>> \in irFields'
    BY <2>1
  <2>6. m \in installed' /\ m \in irModel' /\ m \in entries'
    BY <2>1, <2>2 DEF InUse
  <2> QED BY <2>2, <2>3, <2>4, <2>5, <2>6, StaysInUse
<1> QED BY <1>2, <1>4, <1>5 DEF CleanupInv

\* Purging data entries leaves those of the loaded models.
LEMMA EntriesPurged ==
  ASSUME CleanupInv, NEW ms, DC!PurgeEntries(ms)
  PROVE  CleanupInv'
<1> USE DEF DC!PurgeEntries
<1>1. \A m : DC!Fields(m)' = DC!Fields(m) /\ DC!Columns(m)' = DC!Columns(m)
  BY DEF DC!Fields, DC!Columns
<1>2. CleanupType'
  BY <1>1 DEF CleanupInv, CleanupType
<1>3. lines' \subseteq lines
  BY LinesGo
<1>4. ~ stale => (\A l \in lines : Unused(l[1], l[2]))'
  BY <1>3, LinesStay DEF CleanupInv
<1>5. ASSUME ~ stale, NEW m \in env PROVE InUse(m)'
  <2>1. \A x \in ms : x \notin env
    BY <1>5, LinesUnused DEF CleanupInv, Unused
  <2> QED BY <1>1, <1>5, <2>1 DEF CleanupInv, InUse
<1> QED BY <1>2, <1>4, <1>5 DEF CleanupInv

\* Dropping a column that no model of its table has leaves those that one has.
LEMMA ColumnPurged ==
  ASSUME CleanupInv, NEW tc \in DC!Lines("column"), DC!PurgeColumn(tc)
  PROVE  CleanupInv'
<1> USE DEF DC!PurgeColumn
<1>1. \A m : DC!Fields(m)' = DC!Fields(m) /\ DC!Columns(m)' = DC!Columns(m)
  BY DEF DC!Fields, DC!Columns
<1>2. CleanupType'
  BY <1>1 DEF CleanupInv, CleanupType
<1>3. lines' \subseteq lines
  BY LinesGo
<1>4. ~ stale => (\A l \in lines : Unused(l[1], l[2]))'
  BY <1>3, LinesStay DEF CleanupInv
<1>5. ASSUME ~ stale, NEW m \in env PROVE InUse(m)'
  <2>1. Table[m] = tc[1] => tc[2] \notin DC!Columns(m)
    BY <1>5, LinesUnused DEF CleanupInv, Unused
  <2>2. \A f \in DC!Columns(m) : <<Table[m], f>> # tc
    BY <2>1
  <2> QED BY <1>1, <1>5, <2>2 DEF CleanupInv, InUse
<1> QED BY <1>2, <1>4, <1>5 DEF CleanupInv

\* Dropping the column of a field that was left out leaves those of the fields that are used:
\* no other model of the table stores a field of this name.
LEMMA FieldPurged ==
  ASSUME DC!TablesFit, CleanupInv, NEW mf \in DC!Lines("field"), DC!PurgeField(mf)
  PROVE  CleanupInv'
<1> USE DEF DC!PurgeField
<1>1. \A m : DC!Fields(m)' = DC!Fields(m) /\ DC!Columns(m)' = DC!Columns(m)
  BY DEF DC!Fields, DC!Columns
<1>2. CleanupType'
  BY <1>1 DEF CleanupInv, CleanupType
<1>3. lines' \subseteq lines
  BY LinesGo
<1>4. ~ stale => (\A l \in lines : Unused(l[1], l[2]))'
  BY <1>3, LinesStay DEF CleanupInv
<1>5. ASSUME ~ stale, NEW m \in env PROVE InUse(m)'
  <2>1. <<mf[1], mf[2]>> \in Retired /\ mf[2] \notin DC!Fields(mf[1])
    BY <1>5, LinesUnused DEF CleanupInv, CleanupType, Unused
  <2>2. \A f \in DC!Fields(m) : <<m, f>> # mf
    BY <2>1
  <2>3. ASSUME NEW f \in DC!Columns(m)
        PROVE  <<Table[m], f>> # <<Table[mf[1]], mf[2]>>
    <3>1. CASE mf[1] = m
      BY <2>1, <3>1 DEF DC!Fields
    <3>2. CASE mf[1] # m /\ Table[mf[1]] = Table[m]
      <4>1. <<m, mf[2]>> \notin Stored
        BY <1>5, <2>1, <3>2 DEF DC!TablesFit, CleanupInv, CleanupType
      <4> QED BY <4>1 DEF DC!Columns
    <3> QED BY <3>1, <3>2
  <2> QED BY <1>1, <1>5, <2>2, <2>3 DEF CleanupInv, InUse
<1> QED BY <1>2, <1>4, <1>5 DEF CleanupInv

\* Dropping tables leaves those of the loaded models.
LEMMA TablesPurged ==
  ASSUME CleanupInv, NEW ts, DC!PurgeTables(ts)
  PROVE  CleanupInv'
<1> USE DEF DC!PurgeTables
<1>1. \A m : DC!Fields(m)' = DC!Fields(m) /\ DC!Columns(m)' = DC!Columns(m)
  BY DEF DC!Fields, DC!Columns
<1>2. CleanupType'
  BY <1>1 DEF CleanupInv, CleanupType
<1>3. lines' \subseteq lines
  BY LinesGo
<1>4. ~ stale => (\A l \in lines : Unused(l[1], l[2]))'
  BY <1>3, LinesStay DEF CleanupInv
<1>5. ASSUME ~ stale, NEW m \in env PROVE InUse(m)'
  <2>1. \A x \in ts : x \notin {Table[m]} \cup Relations[m]
    BY <1>5, LinesUnused DEF CleanupInv, Unused
  <2> QED BY <1>1, <1>5, <2>1 DEF CleanupInv, InUse
<1> QED BY <1>2, <1>4, <1>5 DEF CleanupInv

\* No step takes away what a model uses.
LEMMA CleanupNext ==
  ASSUME DC!Assumption, DC!TablesFit, CleanupInv, [DC!Next]_DC!vars
  PROVE  CleanupInv'
<1>1. CASE UNCHANGED DC!vars
  <2>1. \A m : DC!Fields(m)' = DC!Fields(m) /\ DC!Columns(m)' = DC!Columns(m)
    BY <1>1 DEF DC!vars, DC!Fields, DC!Columns
  <2> QED BY <1>1, <2>1 DEF DC!vars, DC!database, CleanupInv, CleanupType, InUse, Unused
<1>2. CASE \/ \E m \in Models : DC!Install(m) \/ DC!Remove(m)
           \/ \E mf \in Retired : DC!Retire(mf)
  BY <1>2, OdooStep
<1> QED
  BY <1>1, <1>2, WizardStep, ModulesPurged, ModelsPurged, EntriesPurged, ColumnPurged,
     FieldPurged, TablesPurged DEF DC!Next

\* The invariant says that what the loaded models use is there.
LEMMA CleanupKept == CleanupInv => DC!InUseKept
BY DEF CleanupInv, InUse, DC!InUseKept
----------------------------------------------------------------------------
(* PropertyPurge: a line is a default that gives nothing, or a record's row   *)
(* that a default stands behind, which is not on a line itself, or one of     *)
(* several rows of which the first stays.                                     *)

RowsOf(held, f, r, k) ==
  {i \in DOMAIN held : held[i].field = f /\ held[i].record = r /\ held[i].company = k}

\* A field about which EffectiveKept says nothing.
Odd(f) == PP!Mixed(f) \/ PP!Doubled(f, General)

Backed(j) ==
  \E i \in DOMAIN ppRows \ ppLines :
    /\ ppWas[i].record = General /\ ppWas[i].field = ppWas[j].field
    /\ ppWas[i].value = ppWas[j].value /\ ppWas[i].company \in {ppWas[j].company, General}

PropertyType ==
  /\ ppWas \in [1 .. NProperties -> Properties] /\ ppPartly \in BOOLEAN
  /\ DOMAIN ppRows \subseteq 1 .. NProperties /\ ppLines \subseteq DOMAIN ppRows
  /\ ppRows = [i \in DOMAIN ppRows |-> ppWas[i]]

LinesTrue ==
  \A j \in ppLines : ~ Odd(ppWas[j].field) =>
    /\ ppWas[j].record = General => ppWas[j].value \in {Unknown, Nothing}
    /\ ppWas[j].record = OneRecord =>
         \/ Backed(j) \/ j \in PP!Duplicates
         \/ PP!Doubled(ppWas[j].field, OneRecord) /\ ppPartly

PropertyInv ==
  /\ PropertyType /\ LinesTrue /\ PP!EffectiveKept
  /\ ~ ppPartly /\ ppLines # {} => PP!Duplicates \subseteq ppLines

\* A set of ids has a first one ...
LEMMA FirstId ==
  ASSUME NEW S, S \subseteq Nat, S # {}
  PROVE  \E x \in S : \A y \in S : x <= y
<1> DEFINE R == {xy \in Nat \X Nat : xy[1] < xy[2]}
<1>1. IsWellFoundedOn(R, Nat)
  BY NatLessThanWellFounded DEF OpToRel
<1>2. \A x, y \in Nat : y < x => <<y, x>> \in R
  OBVIOUS
<1> HIDE DEF R
<1>3. PICK x \in S : \A y \in S : ~ (<<y, x>> \in R)
  BY <1>1, WFMin
<1>4. ASSUME NEW y \in S PROVE x <= y
  <2>1. x \in Nat /\ y \in Nat /\ ~ (y < x)
    BY <1>2, <1>3
  <2> QED BY <2>1
<1> QED BY <1>4

\* ... which is its minimum.
LEMMA MinIsFirst ==
  ASSUME NEW S, S \subseteq Nat, NEW m \in S, \A y \in S : m <= y
  PROVE  PP!Min(S) = m
<1>1. \A x \in S : (\A y \in S : x <= y) => x = m
  OBVIOUS
<1> QED BY <1>1 DEF PP!Min

\* The four sets of rows that count, in the order in which Odoo looks at them.
LEMMA EffectiveIs ==
  ASSUME NEW held, NEW f, NEW c
  PROVE  PP!Effective(held, f, c) =
           IF RowsOf(held, f, OneRecord, c) # {}
           THEN held[PP!Min(RowsOf(held, f, OneRecord, c))].value
           ELSE IF RowsOf(held, f, OneRecord, General) # {}
           THEN held[PP!Min(RowsOf(held, f, OneRecord, General))].value
           ELSE IF RowsOf(held, f, General, c) # {}
           THEN held[PP!Min(RowsOf(held, f, General, c))].value
           ELSE IF RowsOf(held, f, General, General) # {}
           THEN held[PP!Min(RowsOf(held, f, General, General))].value
           ELSE Nothing
BY DEF PP!Effective, RowsOf

\* Nothing was purged yet.
LEMMA PropertyInit == PP!Init => PropertyInv
<1> SUFFICES ASSUME PP!Init PROVE PropertyInv
  OBVIOUS
<1>1. PropertyType /\ LinesTrue
  BY DEF PP!Init, PropertyType, LinesTrue
<1>2. PP!EffectiveKept
  BY DEF PP!Init, PP!EffectiveKept
<1> QED BY <1>1, <1>2 DEF PP!Init, PropertyInv

\* find() lists what no one needs, unless the field is odd.
LEMMA PropertyFind ==
  ASSUME PP!Assumption, PropertyInv, PP!Find
  PROVE  PropertyInv'
<1>1. /\ PropertyType /\ PP!EffectiveKept /\ UNCHANGED <<ppWas, ppRows, ppPartly>>
      /\ ppLines' = PP!UnknownModel \cup PP!FalseDefault \cup PP!Redundant \cup PP!Duplicates
  BY DEF PropertyInv, PP!Find
<1>2. \A i \in DOMAIN ppRows : ppRows[i] = ppWas[i] /\ i \in DOMAIN ppWas /\ i \in Nat
  BY <1>1 DEF PropertyType
<1>3. \A i, j \in DOMAIN ppRows :
        /\ i < j /\ PP!Same(ppRows, i, j) => PP!Doubled(ppWas[i].field, ppWas[i].record)
        /\ i # j /\ PP!Same(ppRows, i, j) => PP!Doubled(ppWas[i].field, ppWas[i].record)
  BY <1>2 DEF PP!Same, PP!Doubled
<1>4. PropertyType'
  BY <1>1 DEF PropertyType, PP!UnknownModel, PP!FalseDefault, PP!Redundant, PP!Duplicates,
       PP!Defaults, PP!Ids
<1>5. PP!EffectiveKept'
  BY <1>1 DEF PP!EffectiveKept, PP!Mixed, PP!Doubled, PP!Same
<1>6. (PP!Duplicates \subseteq ppLines)'
  BY <1>1 DEF PP!Duplicates, PP!Ids
<1>7. \A i \in PP!Handled :
        /\ i \in DOMAIN ppRows /\ ppWas[i].record = General
        /\ ppWas[i].value # Unknown /\ ppWas[i].value # Nothing
  BY <1>2 DEF PP!Handled, PP!Defaults, PP!UnknownModel, PP!FalseDefault, PP!Ids
<1>8. \A j \in DOMAIN ppRows, i \in PP!Handled :
        ppWas[j].company \in PP!Covered(i) => ppWas[i].company \in {ppWas[j].company, General}
  BY <1>2, <1>7 DEF PP!Covered
<1>9. \A j \in PP!Redundant : ppWas[j].record = General => Odd(ppWas[j].field)
  <2> SUFFICES ASSUME NEW j \in PP!Redundant, ppWas[j].record = General
               PROVE  Odd(ppWas[j].field)
    OBVIOUS
  <2>1. j \in DOMAIN ppRows
    BY DEF PP!Redundant, PP!Ids
  <2>2. PICK i \in PP!Handled \ {j} :
          ppWas[j].field = ppWas[i].field /\ ppWas[j].company \in PP!Covered(i)
    BY <1>2, <1>7, <2>1 DEF PP!Redundant
  <2>3. i \in DOMAIN ppRows /\ ppWas[i].record = General
    BY <1>7, <2>2
  <2>4. CASE ppWas[i].company = ppWas[j].company
    BY <1>2, <1>3, <2>1, <2>2, <2>3, <2>4 DEF PP!Same, Odd
  <2>5. CASE ppWas[i].company = General /\ ppWas[j].company # General
    BY <1>2, <2>1, <2>2, <2>3, <2>5 DEF PP!Mixed, Odd
  <2> QED BY <1>8, <2>1, <2>2, <2>4, <2>5
<1>10. \A j \in PP!Duplicates :
         j \in DOMAIN ppRows /\ PP!Doubled(ppWas[j].field, ppWas[j].record)
  BY <1>2, <1>3 DEF PP!Duplicates, PP!Ids, PP!Same
<1>11. \A i \in PP!Handled : i \in ppLines' => Odd(ppWas[i].field)
  BY <1>1, <1>2, <1>7, <1>9, <1>10 DEF Odd, PP!UnknownModel, PP!FalseDefault
<1>12. LinesTrue'
  <2> SUFFICES ASSUME NEW j \in ppLines', ~ Odd(ppWas[j].field)
               PROVE  /\ ppWas[j].record = General => ppWas[j].value \in {Unknown, Nothing}
                      /\ ppWas[j].record = OneRecord => Backed(j)' \/ j \in PP!Duplicates'
    BY <1>1 DEF LinesTrue, Odd, PP!Mixed, PP!Doubled, PP!Same
  <2>1. CASE j \in PP!UnknownModel \cup PP!FalseDefault
    BY <1>2, <2>1 DEF PP!UnknownModel, PP!FalseDefault, PP!Defaults, PP!Ids, PP!Assumption
  <2>2. CASE j \in PP!Duplicates
    <3>1. j \in PP!Duplicates'
      BY <1>1, <2>2 DEF PP!Duplicates, PP!Ids, PP!Same
    <3> QED BY <1>10, <2>2, <3>1 DEF Odd
  <2>3. CASE j \in PP!Redundant
    <3>1. j \in DOMAIN ppRows
      BY <2>3 DEF PP!Redundant, PP!Ids
    <3>2. PICK i \in PP!Handled \ {j} :
            /\ ppWas[j].field = ppWas[i].field /\ ppWas[j].value = ppWas[i].value
            /\ ppWas[j].company \in PP!Covered(i)
      BY <1>2, <1>7, <2>3, <3>1 DEF PP!Redundant
    <3>3. Backed(j)'
      BY <1>1, <1>7, <1>8, <1>11, <3>1, <3>2 DEF Backed
    <3> QED BY <1>9, <2>3, <3>3
  <2> QED BY <1>1, <2>1, <2>2, <2>3
<1> QED BY <1>4, <1>5, <1>6, <1>12 DEF PropertyInv

\* The rows of a record for one company, or for none: the first of them stays, or all go,
\* and then a default stands behind it.
LEMMA FirstRow ==
  ASSUME PP!Assumption, PropertyInv, NEW S \in SUBSET ppLines, PP!Purge(S), NEW f, NEW k,
         ~ Odd(f), ~ (PP!Doubled(f, OneRecord) /\ ppPartly'),
         RowsOf(ppRows, f, OneRecord, k) # {}
  PROVE  LET here == RowsOf(ppRows, f, OneRecord, k)
             left == RowsOf(ppRows', f, OneRecord, k)
         IN  \E m \in here : /\ PP!Min(here) = m
                             /\ \/ left # {} /\ PP!Min(left) = m /\ m \notin S
                                \/ left = {} /\ Backed(m)
<1> DEFINE here == RowsOf(ppRows, f, OneRecord, k)
           left == RowsOf(ppRows', f, OneRecord, k)
<1>1. /\ PropertyType /\ LinesTrue /\ (~ ppPartly /\ ppLines # {} => PP!Duplicates \subseteq ppLines)
      /\ DOMAIN ppRows' = DOMAIN ppRows \ S /\ S # {}
      /\ \A i \in DOMAIN ppRows' : ppRows'[i] = ppRows[i]
      /\ ppPartly' = (ppPartly \/ S # ppLines)
  BY DEF PropertyInv, PP!Purge, PP!Ids
<1>2. \A i \in DOMAIN ppRows : ppRows[i] = ppWas[i] /\ i \in DOMAIN ppWas /\ i \in Nat
  BY <1>1 DEF PropertyType
<1>3. here \subseteq Nat /\ left = here \ S
  BY <1>1, <1>2 DEF RowsOf
<1>4. PICK m \in here : \A i \in here : m <= i
  BY <1>3, FirstId
<1>5. PP!Min(here) = m
  BY <1>3, <1>4, MinIsFirst
<1>6. \A i, j \in here : PP!Same(ppRows, i, j)
  BY DEF PP!Same, RowsOf
<1>7. m \in DOMAIN ppRows /\ ppWas[m].field = f /\ ppWas[m].record = OneRecord
  BY <1>2 DEF RowsOf
<1>8. CASE m \notin S
  <2>1. m \in left /\ left \subseteq here
    BY <1>3, <1>8
  <2>2. PP!Min(left) = m
    <3> HIDE DEF here, left
    <3> QED BY <1>3, <1>4, <2>1, MinIsFirst
  <2> QED BY <1>5, <1>8, <2>1, <2>2
<1>9. CASE m \in S
  <2>1. Backed(m) \/ m \in PP!Duplicates \/ (PP!Doubled(f, OneRecord) /\ ppPartly)
    BY <1>1, <1>7, <1>9 DEF LinesTrue
  <2>2. m \notin PP!Duplicates
    <3> SUFFICES ASSUME NEW i \in DOMAIN ppRows, i < m, PP!Same(ppRows, i, m) PROVE FALSE
      BY DEF PP!Duplicates, PP!Ids
    <3>1. i \in here
      BY DEF RowsOf, PP!Same
    <3> QED BY <1>2, <1>4, <1>7, <3>1
  <2>3. Backed(m)
    BY <1>1, <2>1, <2>2 DEF PropertyType
  <2>4. \A j \in here : j = m \/ j \in S
    <3> SUFFICES ASSUME NEW j \in here, j # m, j \notin S PROVE FALSE
      OBVIOUS
    <3>1. m < j /\ j \in DOMAIN ppRows
      BY <1>3, <1>4 DEF RowsOf
    <3>2. PP!Same(ppRows, m, j)
      BY <1>6
    <3>3. j \in PP!Duplicates
      BY <1>7, <3>1, <3>2 DEF PP!Duplicates, PP!Ids
    <3>4. PP!Doubled(f, OneRecord)
      BY <1>2, <1>7, <3>1, <3>2 DEF PP!Doubled, PP!Same
    <3>5. S = ppLines /\ ~ ppPartly
      BY <1>1, <3>4 DEF PropertyType
    <3> QED BY <1>1, <3>3, <3>5
  <2>5. left = {}
    BY <1>3, <1>9, <2>4
  <2> QED BY <1>5, <2>3, <2>5
<1> QED BY <1>8, <1>9

\* There is one default at most for a company, or for all, and it is purged only if it
\* gives nothing.
LEMMA OneDefault ==
  ASSUME PP!Assumption, PropertyInv, NEW S \in SUBSET ppLines, PP!Purge(S), NEW f, NEW k,
         ~ Odd(f), NEW i \in RowsOf(ppRows, f, General, k)
  PROVE  /\ RowsOf(ppRows, f, General, k) = {i}
         /\ i \notin S => RowsOf(ppRows', f, General, k) = {i}
         /\ i \in S => RowsOf(ppRows', f, General, k) = {} /\ ppWas[i].value \in {Unknown, Nothing}
<1>1. /\ PropertyType /\ LinesTrue
      /\ DOMAIN ppRows' = DOMAIN ppRows \ S
      /\ \A j \in DOMAIN ppRows' : ppRows'[j] = ppRows[j]
  BY DEF PropertyInv, PP!Purge, PP!Ids
<1>2. \A j \in DOMAIN ppRows : ppRows[j] = ppWas[j] /\ j \in DOMAIN ppWas /\ j \in Nat
  BY <1>1 DEF PropertyType
<1>3. \A j \in RowsOf(ppRows, f, General, k) : j = i
  <2> SUFFICES ASSUME NEW j \in RowsOf(ppRows, f, General, k), j # i PROVE FALSE
    OBVIOUS
  <2>1. i \in Nat /\ j \in Nat /\ i \in DOMAIN ppWas /\ j \in DOMAIN ppWas
    BY <1>2 DEF RowsOf
  <2>2. PP!Same(ppWas, i, j) /\ PP!Same(ppWas, j, i) /\ ppWas[i].field = f /\ ppWas[j].field = f
        /\ ppWas[i].record = General /\ ppWas[j].record = General
    BY <1>2 DEF PP!Same, RowsOf
  <2>3. i < j \/ j < i
    BY <2>1
  <2> QED BY <2>1, <2>2, <2>3 DEF PP!Doubled, Odd
<1>4. RowsOf(ppRows', f, General, k) = RowsOf(ppRows, f, General, k) \ S
  BY <1>1 DEF RowsOf
<1>5. i \in S => ppWas[i].value \in {Unknown, Nothing}
  BY <1>1, <1>2 DEF LinesTrue, RowsOf
<1> QED BY <1>3, <1>4, <1>5

\* Whatever lines are purged, a company sees what it saw before.
LEMMA EffectiveStays ==
  ASSUME PP!Assumption, PropertyInv, NEW S \in SUBSET ppLines, PP!Purge(S), NEW f,
         NEW c \in Companies,
         ~ Odd(f), ~ (PP!Doubled(f, OneRecord) /\ ppPartly')
  PROVE  \/ PP!Effective(ppRows', f, c) = PP!Effective(ppRows, f, c)
         \/ PP!Effective(ppRows, f, c) = Unknown
<1> DEFINE Has(r, k) == RowsOf(ppRows, f, r, k)
           Left(r, k) == RowsOf(ppRows', f, r, k)
<1>1. /\ PropertyType /\ S \subseteq ppLines
      /\ DOMAIN ppRows' = DOMAIN ppRows \ S
      /\ \A j \in DOMAIN ppRows' : ppRows'[j] = ppRows[j]
  BY DEF PropertyInv, PP!Purge, PP!Ids
<1>2. \A j \in DOMAIN ppRows : ppRows[j] = ppWas[j] /\ j \in DOMAIN ppWas /\ j \in Nat
  BY <1>1 DEF PropertyType
<1>3. \A r, k : /\ Left(r, k) \subseteq Has(r, k) /\ Has(r, k) \subseteq DOMAIN ppRows
                /\ \A i \in Left(r, k) : i \in DOMAIN ppRows' /\ ppRows'[i] = ppRows[i]
  BY <1>1 DEF RowsOf
<1>4. \A r : Has(r, c) # {} => Has(r, General) = {}
  <2> SUFFICES ASSUME NEW r, NEW i \in Has(r, c), NEW j \in Has(r, General) PROVE FALSE
    OBVIOUS
  <2> QED BY <1>2 DEF RowsOf, PP!Assumption, PP!Mixed, Odd
<1>5. \A i \in Nat : PP!Min({i}) = i
  <2> SUFFICES ASSUME NEW i \in Nat PROVE PP!Min({i}) = i
    OBVIOUS
  <2>1. {i} \subseteq Nat /\ i \in {i} /\ \A y \in {i} : i <= y
    OBVIOUS
  <2> QED BY <2>1, MinIsFirst
<1>6. ASSUME NEW m \in DOMAIN ppRows, Backed(m), ppWas[m].field = f,
             ppWas[m].company \in {c, General},
             Left(OneRecord, c) = {}, Left(OneRecord, General) = {}
      PROVE  PP!Effective(ppRows', f, c) = ppRows[m].value
  <2>1. PICK i \in DOMAIN ppRows \ ppLines :
          /\ ppWas[i].record = General /\ ppWas[i].field = f
          /\ ppWas[i].value = ppWas[m].value /\ ppWas[i].company \in {c, General}
    BY <1>6 DEF Backed
  <2>2. i \notin S /\ i \in Nat /\ i \in DOMAIN ppRows' /\ ppRows'[i].value = ppRows[m].value
    BY <1>1, <1>2, <1>6, <2>1
  <2>3. CASE ppWas[i].company = c
    <3>1. i \in Has(General, c)
      BY <1>2, <2>1, <2>3 DEF RowsOf
    <3>2. Left(General, c) = {i}
      BY <2>2, <3>1, OneDefault
    <3> QED BY <1>5, <1>6, <2>2, <3>2, EffectiveIs
  <2>4. CASE ppWas[i].company = General
    <3>1. i \in Has(General, General)
      BY <1>2, <2>1, <2>4 DEF RowsOf
    <3>2. Left(General, General) = {i}
      BY <2>2, <3>1, OneDefault
    <3>3. Left(General, c) = {}
      BY <1>3, <1>4, <3>1
    <3> QED BY <1>5, <1>6, <2>2, <3>2, <3>3, EffectiveIs
  <2> QED BY <2>1, <2>3, <2>4
<1>7. CASE Has(OneRecord, c) # {}
  <2>1. PICK m \in Has(OneRecord, c) :
          /\ PP!Min(Has(OneRecord, c)) = m
          /\ \/ Left(OneRecord, c) # {} /\ PP!Min(Left(OneRecord, c)) = m /\ m \notin S
             \/ Left(OneRecord, c) = {} /\ Backed(m)
    BY <1>7, FirstRow
  <2>2. PP!Effective(ppRows, f, c) = ppRows[m].value
    BY <1>7, <2>1, EffectiveIs
  <2>3. m \in DOMAIN ppRows /\ ppWas[m].field = f /\ ppWas[m].company = c
    BY <1>2 DEF RowsOf
  <2>4. CASE Left(OneRecord, c) # {} /\ PP!Min(Left(OneRecord, c)) = m /\ m \notin S
    <3>1. ppRows'[m] = ppRows[m]
      BY <1>1, <2>3, <2>4
    <3> QED BY <2>2, <2>4, <3>1, EffectiveIs
  <2>5. CASE Left(OneRecord, c) = {} /\ Backed(m)
    <3>1. Left(OneRecord, General) = {}
      BY <1>3, <1>4, <1>7
    <3> QED BY <1>6, <2>2, <2>3, <2>5, <3>1
  <2> QED BY <2>1, <2>4, <2>5
<1>8. CASE Has(OneRecord, c) = {} /\ Has(OneRecord, General) # {}
  <2>1. PICK m \in Has(OneRecord, General) :
          /\ PP!Min(Has(OneRecord, General)) = m
          /\ \/ /\ Left(OneRecord, General) # {}
                /\ PP!Min(Left(OneRecord, General)) = m /\ m \notin S
             \/ Left(OneRecord, General) = {} /\ Backed(m)
    BY <1>8, FirstRow
  <2>2. PP!Effective(ppRows, f, c) = ppRows[m].value
    BY <1>8, <2>1, EffectiveIs
  <2>3. m \in DOMAIN ppRows /\ ppWas[m].field = f /\ ppWas[m].company = General
    BY <1>2 DEF RowsOf
  <2>4. Left(OneRecord, c) = {}
    BY <1>3, <1>8
  <2>5. CASE /\ Left(OneRecord, General) # {}
             /\ PP!Min(Left(OneRecord, General)) = m /\ m \notin S
    <3>1. ppRows'[m] = ppRows[m]
      BY <1>1, <2>3, <2>5
    <3> QED BY <2>2, <2>4, <2>5, <3>1, EffectiveIs
  <2>6. CASE Left(OneRecord, General) = {} /\ Backed(m)
    BY <1>6, <2>2, <2>3, <2>4, <2>6
  <2> QED BY <2>1, <2>5, <2>6
<1>9. CASE /\ Has(OneRecord, c) = {} /\ Has(OneRecord, General) = {}
  <2>1. Left(OneRecord, c) = {} /\ Left(OneRecord, General) = {}
    BY <1>3, <1>9
  <2>2. ASSUME NEW k \in {c, General}, NEW i \in Has(General, k),
               k = General => Has(General, c) = {}
        PROVE  \/ PP!Effective(ppRows', f, c) = PP!Effective(ppRows, f, c)
               \/ PP!Effective(ppRows, f, c) = Unknown
    <3>1. i \in Nat /\ i \in DOMAIN ppRows /\ ppRows[i] = ppWas[i] /\ Has(General, k) = {i}
      BY <1>2, OneDefault DEF RowsOf
    <3>2. PP!Effective(ppRows, f, c) = ppRows[i].value
      BY <1>5, <1>9, <2>2, <3>1, EffectiveIs
    <3>3. /\ k = General => Left(General, c) = {}
          /\ k = c => Left(General, General) = {}
      BY <1>3, <1>4, <2>2
    <3>4. CASE i \notin S
      <4>1. Left(General, k) = {i} /\ ppRows'[i] = ppRows[i]
        BY <1>1, <3>1, <3>4, OneDefault
      <4> QED BY <1>5, <2>1, <3>1, <3>2, <3>3, <4>1, EffectiveIs
    <3>5. CASE i \in S
      <4>1. Left(General, k) = {} /\ ppWas[i].value \in {Unknown, Nothing}
        BY <3>5, OneDefault
      <4> QED BY <2>1, <3>1, <3>2, <3>3, <4>1, EffectiveIs
    <3> QED BY <3>4, <3>5
  <2>3. CASE Has(General, c) # {}
    <3>1. c # General
      BY DEF PP!Assumption
    <3>2. PICK i : i \in Has(General, c)
      BY <2>3
    <3> QED BY <2>2, <3>1, <3>2
  <2>4. CASE Has(General, c) = {} /\ Has(General, General) # {}
    <3>1. PICK i : i \in Has(General, General)
      BY <2>4
    <3> QED BY <2>2, <2>4, <3>1
  <2>5. CASE Has(General, c) = {} /\ Has(General, General) = {}
    <3>1. Left(General, c) = {} /\ Left(General, General) = {}
      BY <1>3, <2>5
    <3> QED BY <1>9, <2>1, <2>5, <3>1, EffectiveIs
  <2> QED BY <2>3, <2>4, <2>5
<1> QED BY <1>7, <1>8, <1>9

\* Purging some or all of the lines keeps the invariant: what is on a line for being there
\* twice stays there only if the purge was partial.
LEMMA PropertyPurged ==
  ASSUME PP!Assumption, PropertyInv, NEW S \in SUBSET ppLines, PP!Purge(S)
  PROVE  PropertyInv'
<1>1. /\ PropertyType /\ LinesTrue /\ PP!EffectiveKept
      /\ ppRows' = [i \in DOMAIN ppRows \ S |-> ppRows[i]] /\ S # {}
      /\ ppLines' = ppLines \ S /\ ppPartly' = (ppPartly \/ S # ppLines) /\ ppWas' = ppWas
  BY DEF PropertyInv, PP!Purge, PP!Ids
<1>2. \A j \in DOMAIN ppRows : ppRows[j] = ppWas[j] /\ j \in DOMAIN ppWas /\ j \in Nat
  BY <1>1 DEF PropertyType
<1>3. PropertyType'
  BY <1>1, <1>2 DEF PropertyType
<1>4. \A f, r : /\ PP!Doubled(f, r)' <=> PP!Doubled(f, r)
                /\ PP!Mixed(f)' <=> PP!Mixed(f)
                /\ Odd(f)' <=> Odd(f)
  BY <1>1 DEF PP!Doubled, PP!Mixed, PP!Same, Odd
<1>5. LinesTrue'
  <2> SUFFICES ASSUME NEW j \in ppLines', ~ Odd(ppWas[j].field)
               PROVE  /\ ppWas[j].record = General => ppWas[j].value \in {Unknown, Nothing}
                      /\ ppWas[j].record = OneRecord =>
                           \/ Backed(j)'
                           \/ PP!Doubled(ppWas[j].field, OneRecord) /\ ppPartly'
    BY <1>1, <1>4 DEF LinesTrue
  <2>1. j \in ppLines /\ ppPartly' = TRUE /\ j \in DOMAIN ppRows
    BY <1>1 DEF PropertyType
  <2>2. ppWas[j].record = General => ppWas[j].value \in {Unknown, Nothing}
    BY <1>1, <2>1 DEF LinesTrue
  <2>3. Backed(j) => Backed(j)'
    BY <1>1 DEF Backed
  <2>4. j \in PP!Duplicates /\ ppWas[j].record = OneRecord
          => PP!Doubled(ppWas[j].field, OneRecord)
    BY <1>2, <2>1 DEF PP!Duplicates, PP!Ids, PP!Doubled, PP!Same
  <2>5. ppWas[j].record = OneRecord =>
         \/ Backed(j) \/ j \in PP!Duplicates
         \/ PP!Doubled(ppWas[j].field, OneRecord) /\ ppPartly
    BY <1>1, <2>1 DEF LinesTrue
  <2> QED BY <2>1, <2>2, <2>3, <2>4, <2>5
<1>6. PP!EffectiveKept'
  <2> SUFFICES ASSUME NEW f \in {ppWas[i].field : i \in DOMAIN ppWas}, NEW c \in Companies,
                      ~ PP!Mixed(f), ~ PP!Doubled(f, General),
                      ~ (PP!Doubled(f, OneRecord) /\ ppPartly'),
                      PP!Effective(ppWas, f, c) # Unknown
               PROVE  PP!Effective(ppRows', f, c) = PP!Effective(ppWas, f, c)
    BY <1>1, <1>4 DEF PP!EffectiveKept
  <2>1. PP!Effective(ppRows, f, c) = PP!Effective(ppWas, f, c)
    BY <1>1 DEF PP!EffectiveKept
  <2>2. ~ Odd(f)
    BY DEF Odd
  <2> QED BY <2>1, <2>2, EffectiveStays
<1>7. ~ ppPartly' => ppLines' = {}
  BY <1>1 DEF PropertyType
<1> QED BY <1>3, <1>5, <1>6, <1>7 DEF PropertyInv

\* Each step of the wizard keeps the invariant.
LEMMA PropertyNext ==
  ASSUME PP!Assumption, PropertyInv, [PP!Next]_PP!vars
  PROVE  PropertyInv'
<1>1. CASE PP!Find
  BY <1>1, PropertyFind
<1>2. ASSUME NEW S \in SUBSET ppLines, PP!Purge(S) PROVE PropertyInv'
  BY <1>2, PropertyPurged
<1>3. CASE PP!Close \/ UNCHANGED PP!vars
  <2>1. UNCHANGED <<ppWas, ppRows, ppPartly>> /\ ppLines' \in {ppLines, {}}
    BY <1>3 DEF PP!Close, PP!vars
  <2>2. PropertyType' /\ PP!EffectiveKept'
    BY <2>1 DEF PropertyInv, PropertyType, PP!EffectiveKept, PP!Mixed, PP!Doubled, PP!Same
  <2>3. LinesTrue'
    BY <2>1 DEF PropertyInv, LinesTrue, Backed, Odd, PP!Mixed, PP!Doubled, PP!Same,
         PP!Duplicates, PP!Ids
  <2>4. PP!Duplicates' = PP!Duplicates
    BY <2>1 DEF PP!Duplicates, PP!Ids, PP!Same
  <2> QED BY <2>1, <2>2, <2>3, <2>4 DEF PropertyInv
<1> QED BY <1>1, <1>2, <1>3 DEF PP!Next

----------------------------------------------------------------------------
(* TrackingManager: what the precommit data says of the lines.                *)

LinesType == [Items -> TM!Records \cup {NoLine}]
ToldType ==
  [owner : Owners, line : Items, mode : {"create", "unlink", "update"},
   changes : SUBSET [field : TM!AllFields, old : Owners \cup Values, new : Owners \cup Values]]
OpsType == Seq({"create", "unlink"} \X Items \X Owners)

TrackingType ==
  /\ tmConfig \in TM!TrackingConfigs
  /\ tmLines \in LinesType /\ tmBase \in LinesType /\ tmCommitted \in LinesType
  /\ tmLog \in Seq(ToldType) /\ tmOps \in OpsType
  /\ tmHooks \in BOOLEAN /\ tmOpen \in BOOLEAN
  /\ tmSaved \in {<<>>} \cup (LinesType \X Seq(ToldType))
  /\ DOMAIN tmBefore \subseteq Items /\ IsFiniteSet(DOMAIN tmBefore)

\* The creations and deletions since the last flush are what the data says.
OpsNoted == tmData = TM!OpsOwed

\* What is kept is of tracked fields, of a line that is there or that is deleted: an id does
\* not come back before the flush.
KeptFits ==
  \A l \in DOMAIN tmBefore :
    /\ DOMAIN tmBefore[l] \subseteq TM!FieldsToTrack
    /\ l \in TM!Existing \/ \E i \in DOMAIN tmOps : tmOps[i][2] = l

\* A field has its value of the last flush, or that value is kept.
ChangesKept ==
  \A l \in TM!Existing :
    /\ tmBase[l] # NoLine
    /\ \A f \in TM!FieldsToTrack :
         IF l \in DOMAIN tmBefore /\ f \in DOMAIN tmBefore[l]
         THEN tmBefore[l][f] = tmBase[l][f]
         ELSE tmLines[l][f] = tmBase[l][f]

\* Without a callback nothing waits; without a transaction nothing at all.
NothingWaits ==
  /\ ~tmHooks => DOMAIN tmBefore = {} /\ tmData = <<>>
  /\ ~tmOpen => /\ tmOps = <<>> /\ ~tmHooks /\ tmSaved = <<>>
                /\ tmBase = tmLines /\ tmCommitted = tmLines

TrackingInv == TrackingType /\ OpsNoted /\ KeptFits /\ ChangesKept /\ NothingWaits

\* A line of the model has all fields.
LEMMA RecordValues ==
  \A r \in TM!Records : /\ r["owner"] \in Owners
                        /\ \A f \in TM!AllFields : r[f] \in Owners \cup Values
BY DEF TM!Records, TM!AllFields

LEMMA TrackedFields == ASSUME TM!Assumption PROVE TM!FieldsToTrack \subseteq TM!AllFields
BY DEF TM!Assumption, TM!FieldsToTrack, TM!AllFields

LEMMA NothingOwed == ASSUME tmOps = <<>> PROVE TM!OpsOwed = <<>>
BY DEF TM!OpsOwed

LEMMA NothingKept == DOMAIN <<>> = {} /\ IsFiniteSet(DOMAIN <<>>) 
BY FS_EmptySet

LEMMA TrackingInit == TM!Init => TrackingInv
<1> SUFFICES ASSUME TM!Init PROVE TrackingInv
  OBVIOUS
<1>1. tmLines \in LinesType /\ tmOps = <<>> /\ tmData = <<>> /\ tmBefore = <<>>
  BY DEF TM!Init, LinesType
<1>2. TrackingType
  <2>1. tmOps \in OpsType
    BY <1>1 DEF OpsType
  <2>2. DOMAIN tmBefore \subseteq Items /\ IsFiniteSet(DOMAIN tmBefore)
    BY <1>1, NothingKept
  <2>3. tmLog \in Seq(ToldType)
    BY DEF TM!Init
  <2> QED BY <1>1, <2>1, <2>2, <2>3 DEF TM!Init, TrackingType
<1>3. OpsNoted
  BY <1>1, NothingOwed DEF OpsNoted
<1>4. KeptFits /\ ChangesKept /\ NothingWaits
  BY <1>1, NothingKept DEF TM!Init, KeptFits, ChangesKept, NothingWaits, TM!Existing
<1> QED BY <1>2, <1>3, <1>4 DEF TrackingInv

\* A set that is put into a sequence is its range, without repetition.
LEMMA ListOfSet ==
  ASSUME NEW S, IsFiniteSet(S)
  PROVE  /\ TM!SetToSeq(S) \in Seq(S)
         /\ TM!IsInjective(TM!SetToSeq(S))
         /\ TM!Range(TM!SetToSeq(S)) = S
<1> DEFINE n == Cardinality(S)
           g == TM!SetToSeq(S)
<1>1. n \in Nat /\ ExistsBijection(1 .. n, S)
  BY FS_CardinalityType
<1>2. PICK h \in [1 .. n -> S] : IsInjective(h)
  BY <1>1 DEF ExistsBijection, Bijection, Injection
<1>3. TM!IsInjective(h)
  BY <1>2 DEF IsInjective, TM!IsInjective
<1>4. g \in [1 .. n -> S] /\ TM!IsInjective(g)
  <2>1. TM!Cardinality(S) = n
    BY Zenon DEF TM!Cardinality, Cardinality
  <2> QED BY <1>3, <2>1 DEF TM!SetToSeq
<1> HIDE DEF g
<1>5. g \in Injection(1 .. n, S)
  BY <1>4 DEF Injection, IsInjective, TM!IsInjective
<1>6. IsFiniteSet(1 .. n) /\ Cardinality(1 .. n) = n
  BY <1>1, FS_Interval
<1>7. g \in Surjection(1 .. n, S)
  BY <1>5, <1>6, FS_Injection
<1>8. TM!Range(g) = S
  BY <1>7, <1>4 DEF Surjection, TM!Range
<1>9. g \in Seq(S)
  BY <1>4, <1>1
<1> QED BY <1>4, <1>8, <1>9 DEF g

\* The entries of the written lines are finitely many.
LEMMA UpdatesFinite ==
  ASSUME TM!Assumption, TrackingInv
  PROVE  /\ TM!Updates \in Seq(ToldType)
         /\ TM!IsInjective(TM!Updates)
         /\ TM!Range(TM!Updates) = TM!NetChanges
<1> DEFINE E(l) == TM!Entry(l, tmLines, "update", TM!Changes(tmBefore[l], tmLines[l]))
           S == {E(l) : l \in TM!Updated}
<1>1. ASSUME NEW l \in TM!Updated
      PROVE  /\ l \in Items /\ l \in DOMAIN tmBefore
             /\ tmLines[l] \in TM!Records /\ tmBase[l] \in TM!Records
             /\ DOMAIN tmBefore[l] \subseteq TM!FieldsToTrack
             /\ \A f \in DOMAIN tmBefore[l] : tmBefore[l][f] = tmBase[l][f]
             /\ \A f \in TM!FieldsToTrack \ DOMAIN tmBefore[l] : tmLines[l][f] = tmBase[l][f]
  BY <1>1 DEF TM!Updated, TM!Existing, TrackingInv, TrackingType, LinesType, KeptFits, ChangesKept
<1>2. ASSUME NEW l \in TM!Updated
      PROVE  TM!Changes(tmBefore[l], tmLines[l])
               = TM!Changes([f \in TM!FieldsToTrack |-> tmBase[l][f]], tmLines[l])
  <2> DEFINE b == [f \in TM!FieldsToTrack |-> tmBase[l][f]]
             D == {g \in DOMAIN tmBefore[l] : tmBefore[l][g] # tmLines[l][g]}
             B == {g \in DOMAIN b : b[g] # tmLines[l][g]}
  <2>1. D = B /\ \A f \in D : tmBefore[l][f] = b[f]
    BY <1>1
  <2> QED BY <2>1 DEF TM!Changes
<1>3. ASSUME NEW l \in TM!Updated
      PROVE  TM!Changes(tmBefore[l], tmLines[l])
               \in SUBSET [field : TM!AllFields, old : Owners \cup Values, new : Owners \cup Values]
  <2>1. \A f \in DOMAIN tmBefore[l] :
           /\ f \in TM!AllFields
           /\ tmBefore[l][f] \in Owners \cup Values /\ tmLines[l][f] \in Owners \cup Values
    BY <1>1, RecordValues, TrackedFields
  <2> QED BY <2>1 DEF TM!Changes
<1>4. ASSUME NEW l \in TM!Updated
      PROVE  E(l) \in ToldType /\ E(l).line = l
  BY <1>1, <1>3, RecordValues DEF TM!Entry, ToldType
<1>5. S \subseteq ToldType
  BY <1>4
<1>6. IsFiniteSet(S)
  <2> DEFINE g == [e \in S |-> e.line]
  <2>1. g \in [S -> DOMAIN tmBefore]
    BY <1>1, <1>4
  <2>2. \A a, b \in S : g[a] = g[b] => a = b
    BY <1>4
  <2>3. g \in Injection(S, DOMAIN tmBefore)
    BY <2>1, <2>2 DEF Injection, IsInjective
  <2>4. IsFiniteSet(DOMAIN tmBefore)
    BY DEF TrackingInv, TrackingType
  <2> QED BY <2>3, <2>4, FS_Injection
<1>7. TM!Updates = TM!SetToSeq(S)
  BY DEF TM!Updates
<1>8. TM!Updates \in Seq(S) /\ TM!IsInjective(TM!Updates) /\ TM!Range(TM!Updates) = S
  BY <1>6, <1>7, ListOfSet
<1>9. TM!Updates \in Seq(ToldType)
  BY <1>5, <1>8
<1>10. S = TM!NetChanges
  <2> DEFINE N == {k \in TM!Existing :
                     tmBase[k] # NoLine /\ \E f \in TM!FieldsToTrack : tmBase[k][f] # tmLines[k][f]}
             C(l) == TM!Changes([f \in TM!FieldsToTrack |-> tmBase[l][f]], tmLines[l])
  <2>1. TM!Updated \subseteq N
    <3> SUFFICES ASSUME NEW l \in TM!Updated PROVE l \in N
      OBVIOUS
    <3>1. l \in TM!Existing /\ TM!Changes(tmBefore[l], tmLines[l]) # {}
      BY DEF TM!Updated
    <3>2. PICK f \in DOMAIN tmBefore[l] : tmBefore[l][f] # tmLines[l][f]
      BY <3>1 DEF TM!Changes
    <3> QED BY <1>1, <3>1, <3>2 DEF TrackingInv, ChangesKept
  <2>2. N \subseteq TM!Updated
    <3> SUFFICES ASSUME NEW l \in N PROVE l \in TM!Updated
      OBVIOUS
    <3>1. PICK f \in TM!FieldsToTrack : tmBase[l][f] # tmLines[l][f]
      OBVIOUS
    <3>2. l \in DOMAIN tmBefore /\ f \in DOMAIN tmBefore[l] /\ tmBefore[l][f] = tmBase[l][f]
      BY <3>1 DEF TrackingInv, ChangesKept
    <3>3. TM!Changes(tmBefore[l], tmLines[l]) # {}
      BY <3>1, <3>2 DEF TM!Changes
    <3> QED BY <3>2, <3>3 DEF TM!Updated
  <2>3. S = {TM!Entry(l, tmLines, "update", C(l)) : l \in TM!Updated}
    BY <1>2
  <2>4. TM!NetChanges = {TM!Entry(l, tmLines, "update", C(l)) : l \in N}
    BY DEF TM!NetChanges
  <2> QED BY <2>1, <2>2, <2>3, <2>4
<1> QED BY <1>8, <1>9, <1>10

\* A concatenation gives its two parts back.
LEMMA ConcatParts ==
  ASSUME NEW S, NEW s \in Seq(S), NEW t \in Seq(S)
  PROVE  /\ SubSeq(s \o t, 1, Len(s)) = s
         /\ SubSeq(s \o t, Len(s) + 1, Len(s \o t)) = t
<1>1. Len(s \o t) = Len(s) + Len(t) /\ Len(s) \in Nat /\ Len(t) \in Nat
  BY ConcatProperties
<1>2. SubSeq(s \o t, 1, Len(s)) = s
  <2>1. CASE s = <<>>
    BY <2>1, <1>1, SubSeqEmpty
  <2>2. CASE s # <<>>
    <3>1. Len(s) >= 1
      BY <2>2, EmptySeq
    <3> QED BY <1>1, <3>1, SubSeqOfConcat1, SubSeqFull
  <2> QED BY <2>1, <2>2
<1>3. SubSeq(s \o t, Len(s) + 1, Len(s \o t)) = t
  <2>1. CASE t = <<>>
    <3>1. Len(t) = 0
      BY <2>1
    <3> QED BY <2>1, <1>1, <3>1, SubSeqEmpty
  <2>2. CASE t # <<>>
    <3>1. Len(t) >= 1
      BY <2>2, EmptySeq
    <3>2. SubSeq(s \o t, Len(s) + 1, Len(s) + Len(t)) = SubSeq(t, 1, Len(t))
      <4>1. (Len(s) + 1) - Len(s) = 1 /\ (Len(s) + Len(t)) - Len(s) = Len(t)
        BY <1>1
      <4> QED BY <1>1, <3>1, <4>1, SubSeqOfConcat2
    <3> QED BY <1>1, <3>2, SubSeqFull
  <2> QED BY <2>1, <2>2
<1> QED BY <1>2, <1>3

\* Without a callback there is no entry to post.
LEMMA LogGrows ==
  ASSUME TM!Assumption, TrackingInv, TM!Finalize
  PROVE  tmLog' = (tmLog \o tmData) \o TM!Updates /\ tmData \in Seq(ToldType)
<1>1. tmData \in Seq(ToldType)
  <2>1. ASSUME NEW i \in DOMAIN tmOps
        PROVE  [owner |-> tmOps[i][3], line |-> tmOps[i][2], mode |-> tmOps[i][1], changes |-> {}]
                 \in ToldType
    BY DEF TrackingInv, TrackingType, OpsType, ToldType
  <2>2. DOMAIN tmOps = 1 .. Len(tmOps) /\ Len(tmOps) \in Nat
    BY DEF TrackingInv, TrackingType, OpsType
  <2>3. tmData = TM!OpsOwed
    BY DEF TrackingInv, OpsNoted
  <2> QED BY <2>1, <2>2, <2>3 DEF TM!OpsOwed
<1>2. CASE tmHooks
  BY <1>1, <1>2 DEF TM!Finalize
<1>3. CASE ~tmHooks
  <2>1. tmData = <<>> /\ TM!Updated = {}
    BY <1>3 DEF TrackingInv, NothingWaits, TM!Updated
  <2>2. TM!NetChanges = {}
    <3>1. {l \in TM!Existing : /\ tmBase[l] # NoLine
                              /\ \E f \in TM!FieldsToTrack : tmBase[l][f] # tmLines[l][f]} = {}
      BY <1>3 DEF TrackingInv, NothingWaits, ChangesKept
    <3> QED BY <3>1 DEF TM!NetChanges
  <2>3. TM!Updates = <<>>
    <3>1. TM!Updates \in Seq(ToldType) /\ TM!Range(TM!Updates) = {}
      BY <2>2, UpdatesFinite
    <3>2. DOMAIN TM!Updates = {}
      BY <3>1 DEF TM!Range
    <3> QED BY <3>1, <3>2
  <2>4. tmLog \in Seq(ToldType)
    BY DEF TrackingInv, TrackingType
  <2>5. (tmLog \o tmData) \o TM!Updates = tmLog
    BY <2>1, <2>3, <2>4
  <2>6. tmLog' = tmLog
    BY <1>3 DEF TM!Finalize
  <2> QED BY <1>1, <2>5, <2>6
<1>4. tmHooks \in BOOLEAN
  BY DEF TrackingInv, TrackingType
<1> QED BY <1>2, <1>3, <1>4

\* A flush posts the net changes.
LEMMA FlushTells ==
  ASSUME TM!Assumption, TrackingInv, TM!Finalize
  PROVE  TM!PostsNetChanges /\ tmLog' \in Seq(ToldType)
<1> DEFINE u == TM!Updates
           posted == SubSeq(tmLog', Len(tmLog) + 1, Len(tmLog'))
<1>1. tmLog \in Seq(ToldType) /\ tmData \in Seq(ToldType) /\ tmData = TM!OpsOwed
  BY LogGrows DEF TrackingInv, TrackingType, OpsNoted
<1>2. u \in Seq(ToldType) /\ TM!IsInjective(u) /\ TM!Range(u) = TM!NetChanges
  BY UpdatesFinite
<1>3. tmLog' = tmLog \o (tmData \o u)
  <2> HIDE DEF u
  <2>1. (tmLog \o tmData) \o u = tmLog \o (tmData \o u)
    BY <1>1, <1>2, ConcatAssociative
  <2> QED BY <2>1, LogGrows DEF u
<1> HIDE DEF u
<1>4. tmData \o u \in Seq(ToldType) /\ tmLog' \in Seq(ToldType)
  BY <1>1, <1>2, <1>3, ConcatProperties
<1>5. posted = tmData \o u
  BY <1>1, <1>3, <1>4, ConcatParts
<1> HIDE DEF posted
<1>6. SubSeq(posted, 1, Len(TM!OpsOwed)) = TM!OpsOwed
      /\ SubSeq(posted, Len(TM!OpsOwed) + 1, Len(posted)) = u
  BY <1>1, <1>2, <1>5, ConcatParts
<1>7. TM!PostsNetChanges
  BY <1>2, <1>6, Zenon DEF TM!PostsNetChanges, posted
<1> QED BY <1>4, <1>7

\* After a flush or a rollback nothing is kept, and nothing has to be.
LEMMA NothingLeft ==
  ASSUME tmBefore' = <<>>, tmData' = <<>>, tmHooks' = FALSE, tmBase' = tmLines', tmOps' = <<>>
  PROVE  /\ OpsNoted' /\ KeptFits' /\ ChangesKept'
         /\ DOMAIN tmBefore' \subseteq Items /\ IsFiniteSet(DOMAIN tmBefore')
         /\ tmHooks' \in BOOLEAN /\ (tmOps \in OpsType)'
         /\ (~tmHooks => DOMAIN tmBefore = {} /\ tmData = <<>>)'
<1>1. DOMAIN tmBefore' = {} /\ IsFiniteSet(DOMAIN tmBefore')
  BY NothingKept
<1>2. (tmOps \in OpsType)'
  BY DEF OpsType
<1>3. (TM!OpsOwed)' = <<>>
  BY DEF TM!OpsOwed
<1> QED BY <1>1, <1>2, <1>3 DEF OpsNoted, KeptFits, ChangesKept, TM!Existing

\* A sequence with one element more at its end.
LEMMA AppendIs ==
  ASSUME NEW T, NEW s \in Seq(T), NEW t \in Seq(T), NEW x \in T, Len(t) = Len(s) + 1,
         \A i \in 1 .. Len(s) : t[i] = s[i], t[Len(s) + 1] = x
  PROVE  t = Append(s, x)
<1>1. /\ Append(s, x) \in Seq(T) /\ Len(Append(s, x)) = Len(s) + 1
      /\ \A i \in 1 .. Len(s) : Append(s, x)[i] = s[i]
      /\ Append(s, x)[Len(s) + 1] = x
  BY AppendProperties
<1>2. \A i \in 1 .. Len(t) : t[i] = Append(s, x)[i]
  BY <1>1
<1> QED BY <1>1, <1>2, SeqEqual

\* An operation that is noted owes one more entry.
LEMMA OneMoreOwed ==
  ASSUME tmOps \in OpsType, NEW m \in {"create", "unlink"}, NEW l \in Items, NEW o \in Owners,
         tmOps' = Append(tmOps, <<m, l, o>>), tmConfig' = tmConfig
  PROVE  /\ tmOps' \in OpsType
         /\ \A i \in DOMAIN tmOps : i \in DOMAIN tmOps' /\ tmOps'[i] = tmOps[i]
         /\ \E i \in DOMAIN tmOps' : tmOps'[i][2] = l
         /\ TM!IsTracked =>
              (TM!OpsOwed)' = Append(TM!OpsOwed, [owner |-> o, line |-> l, mode |-> m, changes |-> {}])
         /\ ~TM!IsTracked => (TM!OpsOwed)' = TM!OpsOwed
<1> DEFINE n == Len(tmOps)
<1>1. n \in Nat /\ DOMAIN tmOps = 1 .. n
  BY DEF OpsType
<1>2. /\ tmOps' \in OpsType /\ DOMAIN tmOps' = 1 .. n + 1
      /\ \A i \in 1 .. n : tmOps'[i] = tmOps[i]
      /\ tmOps'[n + 1] = <<m, l, o>>
  <2>1. <<m, l, o>> \in {"create", "unlink"} \X Items \X Owners
    OBVIOUS
  <2> QED BY <1>1, <2>1, AppendProperties DEF OpsType
<1>3. ASSUME TM!IsTracked
      PROVE  (TM!OpsOwed)' = Append(TM!OpsOwed, [owner |-> o, line |-> l, mode |-> m, changes |-> {}])
  <2> DEFINE e(x) == [owner |-> x[3], line |-> x[2], mode |-> x[1], changes |-> {}]
             E == [i \in 1 .. n |-> e(tmOps[i])]
             F == [i \in 1 .. n + 1 |-> e(tmOps'[i])]
             T == {e(x) : x \in {"create", "unlink"} \X Items \X Owners}
  <2>1. TM!OpsOwed = E /\ (TM!OpsOwed)' = F
    BY <1>1, <1>2, <1>3 DEF TM!OpsOwed, TM!IsTracked
  <2>2. E \in Seq(T) /\ F \in Seq(T) /\ Len(E) = n /\ Len(F) = n + 1 /\ e(<<m, l, o>>) \in T
    <3> DEFINE X == {"create", "unlink"} \X Items \X Owners
    <3>1. \A i \in 1 .. n : tmOps[i] \in X
      BY <1>1 DEF OpsType
    <3>2. \A i \in 1 .. n + 1 : tmOps'[i] \in X
      BY <1>1, <1>2 DEF OpsType
    <3>3. <<m, l, o>> \in X
      OBVIOUS
    <3> HIDE DEF e, X
    <3>5. /\ \A i \in 1 .. n : e(tmOps[i]) \in T
          /\ \A i \in 1 .. n + 1 : e(tmOps'[i]) \in T
          /\ e(<<m, l, o>>) \in T
      BY <3>1, <3>2, <3>3 DEF X
    <3> HIDE DEF T
    <3>4. E \in Seq(T) /\ F \in Seq(T) /\ Len(E) = n /\ Len(F) = n + 1
      BY <1>1, <3>5
    <3> QED BY <3>5, <3>4
  <2>3. e(<<m, l, o>>) = [owner |-> o, line |-> l, mode |-> m, changes |-> {}]
    OBVIOUS
  <2>4. \A i \in 1 .. n : F[i] = E[i]
    BY <1>1, <1>2
  <2>5. F[n + 1] = e(<<m, l, o>>)
    <3> HIDE DEF e
    <3>1. n + 1 \in 1 .. n + 1
      BY <1>1
    <3>2. F[n + 1] = e(tmOps'[n + 1])
      BY <3>1
    <3> QED BY <1>2, <3>2
  <2> HIDE DEF E, F, T, e
  <2>6. F = Append(E, e(<<m, l, o>>))
    BY <1>1, <2>2, <2>4, <2>5, AppendIs
  <2> QED BY <2>1, <2>3, <2>6
<1>4. ~TM!IsTracked => (TM!OpsOwed)' = TM!OpsOwed
  BY DEF TM!OpsOwed, TM!IsTracked
<1>5. \E i \in DOMAIN tmOps' : tmOps'[i][2] = l
  <2>1. n + 1 \in DOMAIN tmOps' /\ tmOps'[n + 1][2] = l
    BY <1>1, <1>2
  <2> QED BY <2>1
<1> QED BY <1>1, <1>2, <1>3, <1>4, <1>5

\* The id of a created line is new.
LEMMA LineCreated ==
  ASSUME TM!Assumption, TrackingInv, NEW l \in Items, NEW r \in TM!Records, TM!CreateLine(l, r)
  PROVE  TrackingInv'
<1> USE DEF TrackingInv
<1>1. /\ tmLines' = [tmLines EXCEPT ![l] = r] /\ tmBase' = [tmBase EXCEPT ![l] = r]
      /\ tmOps' = Append(tmOps, <<"create", l, r["owner"]>>) /\ tmConfig' = tmConfig
      /\ tmBefore' = tmBefore /\ tmLines[l] = NoLine /\ tmOpen /\ tmOpen' = tmOpen
      /\ UNCHANGED <<tmLog, tmSaved, tmCommitted>>
      /\ \A i \in DOMAIN tmOps : tmOps[i][2] # l
  BY DEF TM!CreateLine, TM!CanStep
<1>2. r # NoLine /\ r["owner"] \in Owners
  BY DEF TM!Assumption, TM!Records, TM!AllFields
<1>3. /\ tmLines \in LinesType /\ tmBase \in LinesType
      /\ tmLines' \in LinesType /\ tmBase' \in LinesType
      /\ tmLines'[l] = r /\ tmBase'[l] = r
      /\ \A k \in Items \ {l} : tmLines'[k] = tmLines[k] /\ tmBase'[k] = tmBase[k]
  BY <1>1 DEF TrackingType, LinesType
<1>4. TM!FieldsToTrack' = TM!FieldsToTrack /\ TM!IsTracked' = TM!IsTracked
  BY <1>1 DEF TM!FieldsToTrack, TM!IsTracked
<1>5. /\ tmOps' \in OpsType
      /\ \A i \in DOMAIN tmOps : i \in DOMAIN tmOps' /\ tmOps'[i] = tmOps[i]
      /\ TM!IsTracked => (TM!OpsOwed)' = Append(TM!OpsOwed,
           [owner |-> r["owner"], line |-> l, mode |-> "create", changes |-> {}])
      /\ ~TM!IsTracked => (TM!OpsOwed)' = TM!OpsOwed
  BY <1>1, <1>2, OneMoreOwed DEF TrackingType
<1>6. /\ TM!IsTracked => /\ tmHooks' = TRUE
                         /\ tmData' = Append(tmData, TM!Entry(l, tmLines', "create", {}))
      /\ ~TM!IsTracked => tmHooks' = tmHooks /\ tmData' = tmData
  BY DEF TM!CreateLine
<1>7. TrackingType'
  BY <1>1, <1>3, <1>5, <1>6 DEF TrackingType
<1>8. OpsNoted'
  <2>1. TM!Entry(l, tmLines', "create", {})
          = [owner |-> r["owner"], line |-> l, mode |-> "create", changes |-> {}]
    BY <1>3 DEF TM!Entry
  <2> QED BY <1>5, <1>6, <2>1, Zenon DEF OpsNoted
<1>9. \A k \in Items : k \in TM!Existing' <=> k \in TM!Existing \/ k = l
  BY <1>2, <1>3 DEF TM!Existing
<1>10. KeptFits'
  BY <1>1, <1>4, <1>5, <1>9 DEF KeptFits, TrackingType
<1>11. l \notin DOMAIN tmBefore
  BY <1>1 DEF KeptFits, TM!Existing
<1>12. ChangesKept'
  <2> SUFFICES ASSUME NEW k \in TM!Existing'
               PROVE  /\ tmBase'[k] # NoLine
                      /\ \A f \in TM!FieldsToTrack :
                           IF k \in DOMAIN tmBefore /\ f \in DOMAIN tmBefore[k]
                           THEN tmBefore[k][f] = tmBase'[k][f]
                           ELSE tmLines'[k][f] = tmBase'[k][f]
    BY <1>1, <1>4 DEF ChangesKept
  <2>1. k \in Items
    BY DEF TM!Existing
  <2>2. CASE k = l
    BY <2>2, <1>2, <1>3, <1>11
  <2>3. CASE k # l
    BY <2>1, <2>3, <1>3, <1>9 DEF ChangesKept
  <2> QED BY <2>2, <2>3
<1>13. NothingWaits'
  BY <1>1, <1>6 DEF NothingWaits, TrackingType
<1> QED BY <1>7, <1>8, <1>10, <1>12, <1>13

\* The first value that the transaction overwrites is kept.
LEMMA LineWritten ==
  ASSUME TM!Assumption, TrackingInv, NEW l \in Items, NEW f \in TM!AllFields,
         NEW v \in Owners \cup Values, NEW sudo \in BOOLEAN, TM!WriteLine(l, f, v, sudo)
  PROVE  TrackingInv'
<1> USE DEF TrackingInv
<1>1. /\ tmLines' = [tmLines EXCEPT ![l][f] = v] /\ tmBase' = tmBase
      /\ tmOps' = tmOps /\ tmConfig' = tmConfig /\ tmData' = tmData
      /\ tmOpen /\ tmOpen' = tmOpen /\ UNCHANGED <<tmLog, tmSaved, tmCommitted>>
      /\ tmLines[l] # NoLine /\ v \in IF f = "owner" THEN Owners ELSE Values
      /\ sudo \/ f \notin Private
  BY DEF TM!WriteLine, TM!CanStep, TM!Existing
<1>2. /\ TM!FieldsToTrack # {} =>
           /\ tmHooks' = TRUE
           /\ tmBefore' = [k \in DOMAIN tmBefore \cup {l} |->
                             IF k = l THEN TM!Kept(l, sudo) ELSE tmBefore[k]]
      /\ TM!FieldsToTrack = {} => tmHooks' = tmHooks /\ tmBefore' = tmBefore
  BY DEF TM!WriteLine
<1>3. tmLines[l] \in TM!Records
  BY <1>1 DEF TrackingType, LinesType
<1>4. [tmLines[l] EXCEPT ![f] = v] \in TM!Records
  BY <1>1, <1>3 DEF TM!Records, TM!AllFields, TM!Assumption
<1>5. /\ tmLines' \in LinesType /\ tmLines'[l] = [tmLines[l] EXCEPT ![f] = v]
      /\ \A k \in Items \ {l} : tmLines'[k] = tmLines[k]
  BY <1>1, <1>4 DEF TrackingType, LinesType
<1>6. \A g \in TM!AllFields : g # f => tmLines'[l][g] = tmLines[l][g]
  BY <1>3, <1>5 DEF TM!Records
<1>7. NoLine \notin TM!Records
  BY DEF TM!Assumption, TM!Records, TM!AllFields
<1>8. TM!Existing' = TM!Existing /\ l \in TM!Existing
  BY <1>1, <1>4, <1>5, <1>7 DEF TM!Existing
<1>9. TM!FieldsToTrack' = TM!FieldsToTrack /\ (TM!OpsOwed)' = TM!OpsOwed
  BY <1>1 DEF TM!FieldsToTrack, TM!IsTracked, TM!OpsOwed
<1>10. DOMAIN TM!KeptBefore(l) = IF l \in DOMAIN tmBefore THEN DOMAIN tmBefore[l] ELSE {}
  BY NothingKept DEF TM!KeptBefore
<1>11. /\ DOMAIN TM!KeptBefore(l) \subseteq DOMAIN TM!Kept(l, sudo)
       /\ DOMAIN TM!Kept(l, sudo) \subseteq TM!FieldsToTrack
       /\ f \in TM!FieldsToTrack => f \in DOMAIN TM!Kept(l, sudo)
       /\ \A g \in DOMAIN TM!Kept(l, sudo) :
            TM!Kept(l, sudo)[g] = IF l \in DOMAIN tmBefore /\ g \in DOMAIN tmBefore[l]
                                  THEN tmBefore[l][g] ELSE tmLines[l][g]
  BY <1>1, <1>10 DEF TM!Kept, TM!KeptBefore, TM!Readable, KeptFits
<1>12. DOMAIN tmBefore' \subseteq Items /\ IsFiniteSet(DOMAIN tmBefore')
  BY <1>2, FS_AddElement DEF TrackingType
<1>13. TrackingType'
  BY <1>1, <1>2, <1>5, <1>12 DEF TrackingType
<1>14. OpsNoted'
  BY <1>1, <1>9 DEF OpsNoted
<1>15. KeptFits'
  <2> SUFFICES ASSUME NEW k \in DOMAIN tmBefore'
               PROVE  /\ DOMAIN tmBefore'[k] \subseteq TM!FieldsToTrack
                      /\ k \in TM!Existing \/ \E i \in DOMAIN tmOps : tmOps[i][2] = k
    BY <1>1, <1>8, <1>9 DEF KeptFits
  <2>1. CASE TM!FieldsToTrack = {}
    BY <1>2, <2>1 DEF KeptFits
  <2>2. CASE TM!FieldsToTrack # {} /\ k = l
    BY <1>2, <1>8, <1>11, <2>2
  <2>3. CASE TM!FieldsToTrack # {} /\ k # l
    BY <1>2, <2>3 DEF KeptFits
  <2> QED BY <2>1, <2>2, <2>3
<1>16. ChangesKept'
  <2> SUFFICES ASSUME NEW k \in TM!Existing
               PROVE  /\ tmBase[k] # NoLine
                      /\ \A g \in TM!FieldsToTrack :
                           IF k \in DOMAIN tmBefore' /\ g \in DOMAIN tmBefore'[k]
                           THEN tmBefore'[k][g] = tmBase[k][g]
                           ELSE tmLines'[k][g] = tmBase[k][g]
    BY <1>1, <1>8, <1>9 DEF ChangesKept
  <2>1. k \in Items /\ tmBase[k] # NoLine
    BY DEF TM!Existing, ChangesKept
  <2>2. SUFFICES ASSUME NEW g \in TM!FieldsToTrack
                 PROVE  IF k \in DOMAIN tmBefore' /\ g \in DOMAIN tmBefore'[k]
                        THEN tmBefore'[k][g] = tmBase[k][g]
                        ELSE tmLines'[k][g] = tmBase[k][g]
    BY <2>1
  <2>3. g \in TM!AllFields
    BY TrackedFields
  <2>4. IF k \in DOMAIN tmBefore /\ g \in DOMAIN tmBefore[k]
        THEN tmBefore[k][g] = tmBase[k][g]
        ELSE tmLines[k][g] = tmBase[k][g]
    BY DEF ChangesKept
  <2>5. CASE k = l
    <3>1. k \in DOMAIN tmBefore' /\ tmBefore'[k] = TM!Kept(l, sudo)
      BY <1>2, <2>5
    <3>2. CASE g \in DOMAIN TM!Kept(l, sudo)
      BY <1>11, <2>4, <2>5, <3>1, <3>2
    <3>3. CASE g \notin DOMAIN TM!Kept(l, sudo)
      <4>1. g # f /\ ~(l \in DOMAIN tmBefore /\ g \in DOMAIN tmBefore[l])
        BY <1>10, <1>11, <3>3
      <4> QED BY <1>6, <2>3, <2>4, <2>5, <3>1, <3>3, <4>1
    <3> QED BY <3>2, <3>3
  <2>6. CASE k # l
    <3>1. (k \in DOMAIN tmBefore' <=> k \in DOMAIN tmBefore)
          /\ (k \in DOMAIN tmBefore => tmBefore'[k] = tmBefore[k])
      BY <1>2, <2>6
    <3> QED BY <1>5, <2>1, <2>4, <2>6, <3>1
  <2> QED BY <2>5, <2>6
<1>17. NothingWaits'
  BY <1>1, <1>2 DEF NothingWaits, TrackingType
<1> QED BY <1>13, <1>14, <1>15, <1>16, <1>17

\* What was kept of a deleted line is of no use any more.
LEMMA LineUnlinked ==
  ASSUME TM!Assumption, TrackingInv, NEW l \in Items, TM!UnlinkLine(l)
  PROVE  TrackingInv'
<1> USE DEF TrackingInv
<1>1. /\ tmLines' = [tmLines EXCEPT ![l] = NoLine] /\ tmBase' = tmBase
      /\ tmOps' = Append(tmOps, <<"unlink", l, tmLines[l]["owner"]>>) /\ tmConfig' = tmConfig
      /\ tmBefore' = tmBefore /\ tmLines[l] # NoLine /\ tmOpen /\ tmOpen' = tmOpen
      /\ UNCHANGED <<tmLog, tmSaved, tmCommitted>>
  BY DEF TM!UnlinkLine, TM!CanStep, TM!Existing
<1>2. tmLines[l] \in TM!Records /\ tmLines[l]["owner"] \in Owners
  BY <1>1, RecordValues DEF TrackingType, LinesType
<1>3. /\ tmLines' \in LinesType /\ tmLines'[l] = NoLine
      /\ \A k \in Items \ {l} : tmLines'[k] = tmLines[k]
  BY <1>1 DEF TrackingType, LinesType
<1>4. TM!FieldsToTrack' = TM!FieldsToTrack /\ TM!IsTracked' = TM!IsTracked
  BY <1>1 DEF TM!FieldsToTrack, TM!IsTracked
<1>5. /\ tmOps' \in OpsType
      /\ \A i \in DOMAIN tmOps : i \in DOMAIN tmOps' /\ tmOps'[i] = tmOps[i]
      /\ \E i \in DOMAIN tmOps' : tmOps'[i][2] = l
      /\ TM!IsTracked => (TM!OpsOwed)' = Append(TM!OpsOwed,
           [owner |-> tmLines[l]["owner"], line |-> l, mode |-> "unlink", changes |-> {}])
      /\ ~TM!IsTracked => (TM!OpsOwed)' = TM!OpsOwed
  BY <1>1, <1>2, OneMoreOwed DEF TrackingType
<1>6. /\ TM!IsTracked => /\ tmHooks' = TRUE
                         /\ tmData' = Append(tmData, TM!Entry(l, tmLines, "unlink", {}))
      /\ ~TM!IsTracked => tmHooks' = tmHooks /\ tmData' = tmData
  BY DEF TM!UnlinkLine
<1>7. TrackingType'
  BY <1>1, <1>3, <1>5, <1>6 DEF TrackingType
<1>8. OpsNoted'
  BY <1>5, <1>6, Zenon DEF OpsNoted, TM!Entry
<1>9. TM!Existing' = TM!Existing \ {l}
  BY <1>3 DEF TM!Existing
<1>10. KeptFits'
  BY <1>1, <1>4, <1>5, <1>9 DEF KeptFits
<1>11. ChangesKept'
  <2>1. \A k \in TM!Existing \ {l} : tmLines'[k] = tmLines[k]
    BY <1>3 DEF TM!Existing
  <2> QED BY <1>1, <1>4, <1>9, <2>1 DEF ChangesKept
<1>12. NothingWaits'
  BY <1>1, <1>6 DEF NothingWaits, TrackingType
<1> QED BY <1>7, <1>8, <1>10, <1>11, <1>12

\* Every step keeps the books.
LEMMA TrackingNext ==
  ASSUME TM!Assumption, TrackingInv, [TM!Next]_TM!tmVars
  PROVE  TrackingInv'
<1>1. CASE \E l \in Items, r \in TM!Records : TM!CreateLine(l, r)
  BY <1>1, LineCreated
<1>2. CASE \E l \in Items, f \in TM!AllFields, v \in Owners \cup Values, sudo \in BOOLEAN :
             TM!WriteLine(l, f, v, sudo)
  BY <1>2, LineWritten
<1>3. CASE \E l \in Items : TM!UnlinkLine(l)
  BY <1>3, LineUnlinked
<1>4. CASE TM!OpenSavepoint \/ TM!ReleaseSavepoint \/ TM!Commit
  <2>1. TM!Finalize /\ tmConfig' = tmConfig /\ tmLines' = tmLines
    BY <1>4 DEF TM!OpenSavepoint, TM!ReleaseSavepoint, TM!Commit
  <2>2. tmLog' \in Seq(ToldType)
    BY <2>1, FlushTells
  <2>3. tmBefore' = <<>> /\ tmData' = <<>> /\ tmHooks' = FALSE /\ tmBase' = tmLines' /\ tmOps' = <<>>
    BY <2>1 DEF TM!Finalize
  <2>4. /\ tmOpen' \in BOOLEAN /\ tmCommitted' \in LinesType
        /\ tmSaved' \in {<<>>} \cup (LinesType \X Seq(ToldType))
        /\ ~tmOpen' => tmSaved' = <<>> /\ tmCommitted' = tmLines'
    <3> USE DEF TrackingInv, TrackingType
    <3>1. CASE TM!OpenSavepoint
      <4>1. tmOpen /\ tmOpen' = tmOpen /\ tmCommitted' = tmCommitted /\ tmSaved' = <<tmLines, tmLog'>>
        BY <3>1 DEF TM!OpenSavepoint, TM!CanStep
      <4> QED BY <2>2, <4>1
    <3>2. CASE TM!ReleaseSavepoint
      BY <3>2 DEF TM!ReleaseSavepoint, NothingWaits
    <3>3. CASE TM!Commit
      BY <2>1, <3>3 DEF TM!Commit
    <3> QED BY <1>4, <3>1, <3>2, <3>3
  <2>5. TrackingType'
    BY <2>1, <2>2, <2>3, <2>4, NothingLeft DEF TrackingInv, TrackingType
  <2>6. NothingWaits'
    BY <2>3, <2>4, NothingLeft DEF NothingWaits
  <2> QED BY <2>3, <2>5, <2>6, NothingLeft DEF TrackingInv
<1>5. CASE TM!RollbackSavepoint \/ TM!Rollback
  <2>1. /\ tmBefore' = <<>> /\ tmData' = <<>> /\ tmHooks' = FALSE /\ tmBase' = tmLines'
        /\ tmOps' = <<>> /\ tmConfig' = tmConfig /\ tmCommitted' = tmCommitted
        /\ tmSaved' = <<>>
    BY <1>5 DEF TM!RollbackSavepoint, TM!Rollback, TM!Forget
  <2>2. /\ tmLines' \in LinesType /\ tmLog' \in Seq(ToldType) /\ tmOpen' \in BOOLEAN
        /\ ~tmOpen' => tmCommitted' = tmLines'
    <3> USE DEF TrackingInv, TrackingType
    <3>1. CASE TM!RollbackSavepoint
      <4>1. tmSaved \in LinesType \X Seq(ToldType) /\ tmOpen
        BY <3>1 DEF TM!RollbackSavepoint, NothingWaits
      <4>2. tmLines' = tmSaved[1] /\ tmLog' = tmSaved[2] /\ tmOpen' = tmOpen
        BY <3>1 DEF TM!RollbackSavepoint
      <4> QED BY <4>1, <4>2
    <3>2. CASE TM!Rollback
      <4>1. tmLines' = tmCommitted /\ tmLog' = <<>> /\ tmOpen' = FALSE /\ tmCommitted' = tmCommitted
        BY <3>2 DEF TM!Rollback
      <4>2. <<>> \in Seq(ToldType)
        OBVIOUS
      <4> QED BY <4>1, <4>2
    <3> QED BY <1>5, <3>1, <3>2
  <2>3. TrackingType'
    BY <2>1, <2>2, NothingLeft DEF TrackingInv, TrackingType
  <2>4. NothingWaits'
    BY <2>1, <2>2, NothingLeft DEF NothingWaits
  <2> QED BY <2>1, <2>3, <2>4, NothingLeft DEF TrackingInv
<1>6. CASE TM!Begin
  BY <1>6 DEF TM!Begin, TrackingInv, TrackingType, OpsNoted, KeptFits, ChangesKept, NothingWaits,
              TM!Existing, TM!FieldsToTrack, TM!IsTracked, TM!OpsOwed
<1>7. CASE \E c \in TM!TrackingConfigs : TM!SetTracking(c)
  <2>1. /\ tmConfig' \in TM!TrackingConfigs /\ ~tmOpen
        /\ UNCHANGED <<tmLines, tmLog, tmBefore, tmData, tmHooks, tmSaved, tmCommitted, tmOpen,
                       tmBase, tmOps>>
    BY <1>7 DEF TM!SetTracking
  <2>2. /\ tmOps = <<>> /\ DOMAIN tmBefore = {} /\ tmData = <<>> /\ tmBase = tmLines
    BY <2>1 DEF TrackingInv, NothingWaits
  <2>3. (TM!OpsOwed)' = <<>>
    BY <2>1, <2>2 DEF TM!OpsOwed
  <2>4. OpsNoted' /\ KeptFits'
    BY <2>1, <2>2, <2>3 DEF OpsNoted, KeptFits
  <2>5. ChangesKept'
    BY <2>1, <2>2 DEF ChangesKept, TM!Existing
  <2>6. TrackingType' /\ NothingWaits'
    BY <2>1 DEF TrackingInv, TrackingType, NothingWaits
  <2> QED BY <2>4, <2>5, <2>6 DEF TrackingInv
<1>8. CASE UNCHANGED TM!tmVars
  BY <1>8 DEF TM!tmVars, TrackingInv, TrackingType, OpsNoted, KeptFits, ChangesKept, NothingWaits,
              TM!Existing, TM!FieldsToTrack, TM!IsTracked, TM!OpsOwed
<1> QED BY <1>1, <1>2, <1>3, <1>4, <1>5, <1>6, <1>7, <1>8 DEF TM!Next

\* The three steps that flush tell what is owed.
LEMMA TrackingTells ==
  ASSUME TM!Assumption, TrackingInv
  PROVE  TM!OpenSavepoint \/ TM!ReleaseSavepoint \/ TM!Commit => TM!PostsNetChanges
BY FlushTells DEF TM!OpenSavepoint, TM!ReleaseSavepoint, TM!Commit

----------------------------------------------------------------------------
(* The composition: the part that was chosen first goes on alone.             *)

MaintenanceInv ==
  /\ part = "mailbox" => MailInv
  /\ part = "backup" => BackupInv
  /\ part = "import" => ImportInv
  /\ part = "export" => ExportInv
  /\ part = "properties" => PropertyInv
  /\ part = "tracking" => TrackingInv

MaintenanceCleanup == part = "cleanup" => CleanupInv

\* Only the chosen part takes a step.
LEMMA PartStep ==
  ASSUME MaintenanceNext
  PROVE  /\ part' = part
         /\ part = "mailbox" => MB!Next
         /\ part = "backup" => AB!Next
         /\ part = "import" => IO!Next
         /\ part = "export" => XP!Next
         /\ part = "properties" => PP!Next
         /\ part = "cleanup" => DC!Next
         /\ part = "tracking" => TM!Next
BY DEF MaintenanceNext, Step

\* The variables of a part are among those of the composition.
LEMMA PartStutters ==
  ASSUME UNCHANGED all
  PROVE  /\ part' = part
         /\ UNCHANGED MB!vars /\ UNCHANGED AB!vars /\ UNCHANGED IO!vars
         /\ UNCHANGED XP!vars /\ UNCHANGED DC!vars /\ UNCHANGED PP!vars
         /\ UNCHANGED TM!tmVars
BY DEF all, mailbox, backup, import, export, cleanup, properties, tracking, MB!vars, AB!vars,
       IO!vars, XP!vars, PP!vars, DC!vars, DC!database, TM!tmVars

\* The inductive invariant of the parts holds in every reachable state.
THEOREM Invariance == MaintenanceSpec => []MaintenanceInv
<1>1. MaintenanceInit => MaintenanceInv
  BY MaintenanceAssumption, MailInit, BackupInit, ImportInit, ExportInit,
     PropertyInit, TrackingInit DEF MaintenanceInit, MaintenanceInv
<1>2. MaintenanceInv /\ [MaintenanceNext]_all => MaintenanceInv'
  <2> SUFFICES ASSUME MaintenanceInv, [MaintenanceNext]_all PROVE MaintenanceInv'
    OBVIOUS
  <2>1. /\ part' = part
        /\ part = "mailbox" => [MB!Next]_MB!vars
        /\ part = "backup" => [AB!Next]_AB!vars
        /\ part = "import" => [IO!Next]_IO!vars
        /\ part = "export" => [XP!Next]_XP!vars
        /\ part = "properties" => [PP!Next]_PP!vars
        /\ part = "tracking" => [TM!Next]_TM!tmVars
    BY PartStep, PartStutters
  <2> QED
    BY <2>1, MaintenanceAssumption, MailNext, BackupNext, ImportNext, ExportNext,
       PropertyNext, TrackingNext DEF MaintenanceInv
<1> QED BY <1>1, <1>2, PTL DEF MaintenanceSpec

\* Nothing that a model uses is found unused, in every reachable state.
THEOREM CleanupInvariance == DC!TablesFit => (MaintenanceSpec => []MaintenanceCleanup)
<1> SUFFICES ASSUME DC!TablesFit PROVE MaintenanceSpec => []MaintenanceCleanup
  OBVIOUS
<1>1. MaintenanceInit => MaintenanceCleanup
  BY CleanupInit DEF MaintenanceInit, MaintenanceCleanup
<1>2. MaintenanceCleanup /\ [MaintenanceNext]_all => MaintenanceCleanup'
  <2> SUFFICES ASSUME MaintenanceCleanup, [MaintenanceNext]_all PROVE MaintenanceCleanup'
    OBVIOUS
  <2>1. part' = part /\ (part = "cleanup" => [DC!Next]_DC!vars)
    BY PartStep, PartStutters
  <2> QED BY <2>1, MaintenanceAssumption, CleanupNext DEF MaintenanceCleanup
<1> QED BY <1>1, <1>2, PTL DEF MaintenanceSpec

(* A mail that came is in Odoo, archived, old or still to be found in the     *)
(* folder, unless the pass let it go: attached it and was rolled back, did    *)
(* not look at a refused copy, or took it for another one.                    *)
(* fetchmail_server_folder.py:160-189, 214-285, fetchmail_server.py:49-97.    *)
THEOREM MailsKept == MaintenanceSpec => []NoMailLost
<1>1. MaintenanceInv => NoMailLost
  BY DEF MaintenanceInv, MailInv, NoMailLost
<1> QED BY <1>1, Invariance, PTL

(* What was backed up once keeps a backup: the clean-up never deletes the     *)
(* last one.  db_backup.py:144-251.                                           *)
THEOREM BackupsKept == MaintenanceSpec => []BackupKept
<1>1. MaintenanceInv => BackupKept
  BY DEF MaintenanceInv, BackupInv, BackupKept
<1> QED BY <1>1, Invariance, PTL

(* No remote record is imported twice, over runs, interruptions and dummies.  *)
(* import_odoo_database.py:225-305.                                           *)
THEOREM ImportsCorrect == MaintenanceSpec => []RecordsImportedOnce
<1>1. MaintenanceInv => RecordsImportedOnce
  BY ImportOnce DEF MaintenanceInv, RecordsImportedOnce
<1> QED BY <1>1, Invariance, PTL

(* An attachment that is done has its whole file on the server, unless a user *)
(* set it so.  attachment_synchronize/models/attachment_queue.py:27-52.       *)
THEOREM ExportsCorrect == MaintenanceSpec => []DoneIsExported
<1>1. MaintenanceInv => DoneIsExported
  BY DEF MaintenanceInv, ExportInv, DoneIsExported
<1> QED BY <1>1, Invariance, PTL

(* Purging properties, all lines or some of them, changes no value that a     *)
(* company sees, but for the fields that EffectiveKept excepts.               *)
(* purge_properties.py:43-148.                                                *)
THEOREM PropertiesKept == MaintenanceSpec => []EffectiveKept
<1>1. MaintenanceInv => EffectiveKept
  BY DEF MaintenanceInv, PropertyInv, EffectiveKept
<1> QED BY <1>1, Invariance, PTL

(* Each flush of a transaction posts exactly the net changes of the tracked   *)
(* fields and the creations and deletions since the one before.               *)
(* tracking_manager/models/models.py:121-155.                                 *)
THEOREM ChangesTold == MaintenanceSpec => NetChangesTold
<1>1. MaintenanceInv /\ [MaintenanceNext]_all
        => [(part = "tracking" /\ (TM!OpenSavepoint \/ TM!ReleaseSavepoint \/ TM!Commit))
              => TM!PostsNetChanges]_tracking
  BY MaintenanceAssumption, TrackingTells DEF MaintenanceInv
<1> QED BY <1>1, Invariance, PTL DEF MaintenanceSpec, NetChangesTold

(* No wizard purges what the loaded models use, as long as nothing was        *)
(* installed while it was open, where models that share a table agree on      *)
(* their fields.  purge_models.py:48-107, purge_columns.py:21-132,            *)
(* purge_tables.py:28-141.                                                    *)
THEOREM CleanupCorrect == DC!TablesFit => (MaintenanceSpec => []InUseKept)
<1>1. MaintenanceCleanup => InUseKept
  BY CleanupKept DEF MaintenanceCleanup, InUseKept
<1> QED BY <1>1, CleanupInvariance, PTL

============================================================================

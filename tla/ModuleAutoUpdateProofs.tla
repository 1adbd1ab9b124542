----------------------- MODULE ModuleAutoUpdateProofs -----------------------
(* Proofs about ModuleAutoUpdate, for any modules and dependencies and any  *)
(* number of versions and faults.  All of them are for runs that nobody     *)
(* meddles with: Meddling = FALSE.                                          *)
EXTENDS ModuleAutoUpdate, TLAPS

(***************************************************************************)
(* The inductive invariant.                                                *)
(***************************************************************************)
\* The marks are consistent: what is to be installed finds all it requires, and
\* what is to be removed takes everything with it that requires it.
MarksOK ==
  \A m \in Modules : \A d \in Below(m) :
     /\ state[m] = "to install" => state[d] \notin {"uninstalled", "to remove"}
     /\ state[d] = "to remove" => state[m] \in {"uninstalled", "to remove"}

\* Versions never go back: nothing is saved, applied or aimed at that is newer
\* than the directory, and the database is not behind the saved checksum.
VersionsOK ==
  \A m \in Modules :
     /\ disk[m] # 0 => goal[m] <= disk[m] /\ applied[m] <= disk[m]
     /\ disk[m] # 0 /\ saved[m] # NoChecksum => saved[m] <= disk[m]
     /\ applied[m] # 0 /\ saved[m] # NoChecksum => saved[m] <= applied[m]

\* The database has the version of the directory, if there is one.
Current(m) == disk[m] # 0 => applied[m] = disk[m]

\* A run has the disk for itself, and all that it leaves alone is current.
RunOK ==
  /\ pc # "idle" => goal = disk
  /\ pc = "marked" => \A m \in Installed \ changed : Current(m)
  /\ pc \in {"ensured", "upgraded", "saved"} => \A m \in Installed : Current(m)

\* SuccessIsTrue, of the modules that are marked since then as well.
Success ==
  result \in {"nothing", "complete"} => \A m \in Modules : applied[m] # 0 => goal[m] <= applied[m]

IInv == TypeOK /\ MarksOK /\ VersionsOK /\ RunOK /\ Success

----------------------------------------------------------------------------
\* The part of the invariant that relates the states, the marks and the versions
\* in the database.
CatalogOK ==
  /\ state \in [Modules -> States] /\ applied \in [Modules -> 0 .. MaxVersion]
  /\ \A m \in Modules : applied[m] = 0 <=> state[m] \in {"uninstalled", "to install"}
  /\ \A m \in Modules : applied[m] # 0 => \A d \in Below(m) : applied[d] # 0
  /\ MarksOK

\* What a module needs is in the database, with all that it needs in turn.
LEMMA BelowTransitive ==
  ASSUME NEW m \in Modules, NEW d \in Below(m)
  PROVE  d \in Modules /\ m \in Below(m) /\ Below(d) \subseteq Below(m)
BY UpdateAssumption DEF Below

LEMMA CatalogInv == IInv => CatalogOK
BY DEF IInv, TypeOK, CatalogOK

LEMMA Numbers ==
  ASSUME TypeOK, NEW m \in Modules
  PROVE  /\ disk[m] \in Nat /\ goal[m] \in Nat /\ applied[m] \in Nat
         /\ saved[m] # NoChecksum => saved[m] \in Nat
         /\ disk[m] <= MaxVersion /\ goal[m] <= MaxVersion /\ applied[m] <= MaxVersion
         /\ saved[m] # NoChecksum => saved[m] <= MaxVersion
         /\ MaxVersion \in Nat \ {0}
<1>1. /\ disk[m] \in 0 .. MaxVersion /\ goal[m] \in 0 .. MaxVersion /\ applied[m] \in 0 .. MaxVersion
      /\ saved[m] # NoChecksum => saved[m] \in 0 .. MaxVersion
  BY DEF TypeOK
<1> QED BY <1>1, UpdateAssumption

LEMMA FaultCounted ==
  ASSUME TypeOK, faults < MaxFaults, faults' = faults + 1
  PROVE  faults' \in 0 .. MaxFaults
<1>1. faults \in 0 .. MaxFaults /\ MaxFaults \in Nat
  BY UpdateAssumption DEF TypeOK
<1> QED BY <1>1

(***************************************************************************)
(* Odoo loads what is marked, after the run's upgrade or elsewhere.        *)
(***************************************************************************)
LEMMA LoadMarkedInv ==
  ASSUME IInv, LoadMarked, UNCHANGED <<disk, saved, goal, result>>
  PROVE  /\ CatalogOK' /\ VersionsOK' /\ Success'
         /\ \A m \in Installed : Current(m) => Current(m)'
         /\ \A m \in Installed' : m \in Installed \/ Current(m)'
<1> DEFINE S == {m \in Partial : Loadable(m) \/ state[m] = "to remove"}
<1>1. /\ applied' = [m \in Modules |-> IF m \notin S THEN applied[m]
                                       ELSE IF state[m] = "to remove" THEN 0 ELSE disk[m]]
      /\ state' = [m \in Modules |-> IF m \notin S THEN state[m]
                                     ELSE IF state[m] = "to remove" THEN "uninstalled"
                                     ELSE "installed"]
  BY DEF LoadMarked, Load
<1>2. /\ CatalogOK /\ disk \in [Modules -> 0 .. MaxVersion]
      /\ goal \in [Modules -> 0 .. MaxVersion]
      /\ saved \in [Modules -> (0 .. MaxVersion) \cup {NoChecksum}]
  BY CatalogInv DEF IInv, TypeOK
<1>3. \A m \in S : m \in Modules /\ (state[m] # "to remove" => \A d \in Below(m) : disk[d] # 0)
  BY DEF Partial, Loadable
<1>4. \A m \in S : state[m] # "to remove" => disk[m] # 0
  BY <1>3, BelowTransitive DEF Below
<1>5. state' \in [Modules -> States] /\ applied' \in [Modules -> 0 .. MaxVersion]
  <2>1. \A m \in Modules : state[m] \in States /\ applied[m] \in 0 .. MaxVersion /\ disk[m] \in 0 .. MaxVersion
    BY <1>2 DEF CatalogOK
  <2>2. 0 \in 0 .. MaxVersion /\ "installed" \in States /\ "uninstalled" \in States
    BY UpdateAssumption DEF States
  <2> HIDE DEF S
  <2> QED BY <1>1, <2>1, <2>2
<1>6. \A m \in Modules : applied'[m] = 0 <=> state'[m] \in {"uninstalled", "to install"}
  BY <1>1, <1>2, <1>4 DEF CatalogOK
<1>7. ASSUME NEW m \in Modules, NEW d \in Below(m), applied'[m] # 0
      PROVE  applied'[d] # 0
  <2>1. d \in Modules /\ Below(d) \subseteq Below(m)
    BY BelowTransitive
  <2>2. state[m] # "to remove" \/ m \notin S
    BY <1>1, <1>7
  <2>3. state[m] \notin {"uninstalled", "to remove"}
    BY <1>1, <1>2, <1>7, <2>2 DEF CatalogOK, Partial, S
  <2>4. state[d] # "to remove"
    BY <1>2, <2>3 DEF CatalogOK, MarksOK
  <2>5. CASE d \in S
    BY <1>1, <1>4, <2>1, <2>4, <2>5
  <2>6. CASE d \notin S
    <3>1. state[d] # "to install"
      <4>1. SUFFICES ASSUME state[d] = "to install" PROVE FALSE
        OBVIOUS
      <4>2. applied[d] = 0 /\ d \in Partial
        BY <1>2, <2>1, <4>1 DEF CatalogOK, Partial
      <4>3. applied[m] = 0
        BY <1>2, <4>2 DEF CatalogOK
      <4>4. m \in S
        BY <1>1, <1>7, <4>3
      <4>5. Loadable(d)
        BY <1>3, <2>1, <2>3, <4>4 DEF Loadable
      <4> QED BY <2>6, <4>2, <4>5
    <3>2. state[d] # "uninstalled"
      BY <1>2, <2>1, <2>3 DEF CatalogOK, MarksOK, States
    <3> QED BY <1>1, <1>2, <2>1, <2>6, <3>1, <3>2 DEF CatalogOK
  <2> QED BY <2>5, <2>6
<1>8. MarksOK'
  <2> SUFFICES ASSUME NEW m \in Modules, NEW d \in Below(m)
               PROVE  /\ state'[m] = "to install" => state'[d] \notin {"uninstalled", "to remove"}
                      /\ state'[d] = "to remove" => state'[m] \in {"uninstalled", "to remove"}
    BY DEF MarksOK, Below
  <2>1. d \in Modules
    BY BelowTransitive
  <2>2. state'[d] # "to remove"
    BY <1>1, <2>1 DEF Partial
  <2>3. ASSUME state'[m] = "to install" PROVE state'[d] # "uninstalled"
    <3>1. state[m] = "to install"
      BY <1>1, <2>3
    <3>2. state[d] \notin {"uninstalled", "to remove"}
      BY <1>2, <3>1 DEF CatalogOK, MarksOK
    <3> QED BY <1>1, <2>1, <3>2
  <2> QED BY <2>2, <2>3
<1>9. CatalogOK'
  BY <1>5, <1>6, <1>7, <1>8 DEF CatalogOK, Below
<1>10. \A m \in Modules : applied'[m] = applied[m] \/ applied'[m] = 0 \/ (disk[m] # 0 /\ applied'[m] = disk[m])
  BY <1>1, <1>4
<1>11. VersionsOK'
  <2> SUFFICES ASSUME NEW m \in Modules
               PROVE  /\ disk[m] # 0 => goal[m] <= disk[m] /\ applied'[m] <= disk[m]
                      /\ disk[m] # 0 /\ saved[m] # NoChecksum => saved[m] <= disk[m]
                      /\ applied'[m] # 0 /\ saved[m] # NoChecksum => saved[m] <= applied'[m]
    BY DEF VersionsOK
  <2>1. /\ disk[m] \in Nat /\ goal[m] \in Nat /\ applied[m] \in Nat
        /\ saved[m] # NoChecksum => saved[m] \in Nat
    BY Numbers DEF IInv
  <2>2. /\ disk[m] # 0 => goal[m] <= disk[m] /\ applied[m] <= disk[m]
        /\ disk[m] # 0 /\ saved[m] # NoChecksum => saved[m] <= disk[m]
        /\ applied[m] # 0 /\ saved[m] # NoChecksum => saved[m] <= applied[m]
    BY DEF VersionsOK, IInv
  <2> QED BY <1>10, <2>1, <2>2
<1>12. Success'
  BY <1>2, <1>10, UpdateAssumption DEF Success, VersionsOK, CatalogOK, IInv
<1>13. \A m \in Installed : Current(m) => Current(m)'
  BY <1>1 DEF Current, Installed, Partial
<1>14. \A m \in Installed' : m \in Installed \/ Current(m)'
  BY <1>1 DEF Current, Installed
<1> QED BY <1>9, <1>11, <1>12, <1>13, <1>14

(***************************************************************************)
(* The administrators' plans.                                              *)
(***************************************************************************)
LEMMA PlanInstallInv ==
  ASSUME CatalogOK, NEW m \in Modules, PlanInstall(m), UNCHANGED applied
  PROVE  CatalogOK'
<1> USE DEF CatalogOK, PlanInstall
<1>1. state' \in [Modules -> States]
  BY DEF States
<1>2. \A d \in Modules : applied'[d] = 0 <=> state'[d] \in {"uninstalled", "to install"}
  OBVIOUS
<1>3. MarksOK'
  <2> SUFFICES ASSUME NEW k \in Modules, NEW d \in Below(k)
               PROVE  /\ state'[k] = "to install" => state'[d] \notin {"uninstalled", "to remove"}
                      /\ state'[d] = "to remove" => state'[k] \in {"uninstalled", "to remove"}
    BY DEF MarksOK, Below
  <2>1. d \in Modules /\ (k \in Below(m) => d \in Below(m))
    BY BelowTransitive
  <2>2. /\ state[k] = "to install" => state[d] \notin {"uninstalled", "to remove"}
        /\ state[d] = "to remove" => state[k] \in {"uninstalled", "to remove"}
    BY DEF MarksOK
  <2> QED BY <2>1, <2>2
<1> QED BY <1>1, <1>2, <1>3 DEF Below

LEMMA PlanUpgradeInv ==
  ASSUME CatalogOK, NEW m \in Modules, PlanUpgrade(m), UNCHANGED applied
  PROVE  CatalogOK'
<1> USE DEF CatalogOK, PlanUpgrade
<1>1. state' \in [Modules -> States]
  BY DEF States
<1>2. \A d \in Modules : applied'[d] = 0 <=> state'[d] \in {"uninstalled", "to install"}
  BY DEF Installed
<1>3. MarksOK'
  BY BelowTransitive DEF MarksOK, Below, Installed
<1> QED BY <1>1, <1>2, <1>3 DEF Below

LEMMA PlanRemoveInv ==
  ASSUME CatalogOK, NEW m \in Modules, PlanRemove(m), UNCHANGED applied
  PROVE  CatalogOK'
<1> USE DEF CatalogOK, PlanRemove
<1>1. state' \in [Modules -> States]
  BY DEF States
<1>2. \A d \in Modules : applied'[d] = 0 <=> state'[d] \in {"uninstalled", "to install"}
  BY DEF Above
<1>3. MarksOK'
  <2> SUFFICES ASSUME NEW k \in Modules, NEW d \in Below(k)
               PROVE  /\ state'[k] = "to install" => state'[d] \notin {"uninstalled", "to remove"}
                      /\ state'[d] = "to remove" => state'[k] \in {"uninstalled", "to remove"}
    BY DEF MarksOK, Below
  <2>1. d \in Modules /\ (d \in Above(m) => k \in Above(m))
    BY BelowTransitive DEF Above
  <2>2. /\ state[k] = "to install" => state[d] \notin {"uninstalled", "to remove"}
        /\ state[d] = "to remove" => state[k] \in {"uninstalled", "to remove"}
    BY DEF MarksOK
  <2> QED BY <2>1, <2>2
<1> QED BY <1>1, <1>2, <1>3 DEF Below

LEMMA CancelPlanInv ==
  ASSUME CatalogOK, CancelPlan, UNCHANGED applied
  PROVE  CatalogOK'
<1> USE DEF CatalogOK, CancelPlan, Unmarked
<1>1. state' \in [Modules -> States]
  BY DEF States
<1>2. \A d \in Modules : applied'[d] = 0 <=> state'[d] \in {"uninstalled", "to install"}
  OBVIOUS
<1>3. MarksOK'
  BY BelowTransitive DEF MarksOK
<1> QED BY <1>1, <1>2, <1>3 DEF Below

LEMMA PlanInv ==
  ASSUME IInv, Plan, pc = "idle"
  PROVE  IInv'
<1>1. CatalogOK'
  BY CatalogInv, CancelPlanInv, PlanInstallInv, PlanUpgradeInv, PlanRemoveInv DEF Plan
<1>2. TypeOK'
  BY <1>1 DEF IInv, TypeOK, CatalogOK, Plan, run
<1>3. VersionsOK' /\ RunOK' /\ Success'
  BY DEF IInv, VersionsOK, RunOK, Success, Plan, run
<1> QED BY <1>1, <1>2, <1>3 DEF IInv, CatalogOK

----------------------------------------------------------------------------
(* The steps of a run.  A run that begins takes everything that is not      *)
(* changed to be current, which is what the saved checksums are for.        *)

LEMMA UnchangedCurrent ==
  ASSUME IInv, NEW m \in Installed, m \notin Changed
  PROVE  m \in Modules /\ saved[m] = disk[m] /\ Current(m) /\ applied[m] # 0
<1>1. m \in Modules /\ saved[m] = disk[m] /\ state[m] = "installed"
  BY DEF Installed, Changed
<1>2. applied[m] # 0
  BY <1>1, CatalogInv DEF CatalogOK
<1>3. /\ disk[m] \in Nat /\ applied[m] \in Nat /\ saved[m] # NoChecksum
      /\ disk[m] # 0 => applied[m] <= disk[m] /\ disk[m] <= applied[m]
  BY <1>1, <1>2, Numbers, UpdateAssumption DEF IInv, VersionsOK
<1> QED BY <1>1, <1>2, <1>3 DEF Current

LEMMA NothingToDoInv ==
  ASSUME IInv, NothingToDo
  PROVE  IInv'
<1> USE DEF NothingToDo
<1>1. TypeOK'
  BY DEF IInv, TypeOK
<1>2. MarksOK' /\ RunOK'
  BY DEF IInv, MarksOK, RunOK
<1>3. VersionsOK'
  <2> SUFFICES ASSUME NEW m \in Modules
               PROVE  /\ disk[m] # 0 => disk[m] <= disk[m] /\ applied[m] <= disk[m]
                      /\ disk[m] # 0 /\ saved[m] # NoChecksum => saved[m] <= disk[m]
                      /\ applied[m] # 0 /\ saved[m] # NoChecksum => saved[m] <= applied[m]
    BY DEF VersionsOK
  <2> QED BY Numbers DEF IInv, VersionsOK
<1>4. Success'
  <2> SUFFICES ASSUME NEW m \in Modules, applied[m] # 0
               PROVE  disk[m] <= applied[m]
    BY DEF Success
  <2>1. m \in Installed
    BY CatalogInv DEF CatalogOK, Installed, Partial, States
  <2>2. Current(m)
    BY <2>1, UnchangedCurrent
  <2> QED BY <2>2, Numbers DEF IInv, Current
<1> QED BY <1>1, <1>2, <1>3, <1>4 DEF IInv

\* The beginning of a run, marked or not.
LEMMA BeginRun ==
  ASSUME IInv, UNCHANGED <<disk, applied, saved>>, Fresh
  PROVE  VersionsOK' /\ Success'
<1>1. VersionsOK'
  <2> SUFFICES ASSUME NEW m \in Modules
               PROVE  /\ disk[m] # 0 => disk[m] <= disk[m] /\ applied[m] <= disk[m]
                      /\ disk[m] # 0 /\ saved[m] # NoChecksum => saved[m] <= disk[m]
                      /\ applied[m] # 0 /\ saved[m] # NoChecksum => saved[m] <= applied[m]
    BY DEF VersionsOK, Fresh
  <2> QED BY Numbers DEF IInv, VersionsOK
<1>2. Success'
  BY DEF Success, Fresh
<1> QED BY <1>1, <1>2

LEMMA MarkInv ==
  ASSUME IInv, Mark
  PROVE  IInv'
<1>1. VersionsOK' /\ Success'
  BY BeginRun DEF Mark
<1>2. /\ \A m \in Modules : \/ state'[m] = state[m]
                            \/ state[m] = "installed" /\ state'[m] = "to upgrade"
      /\ \A m \in Modules : state[m] = "installed" /\ Below(m) \cap Changed # {}
                              => state'[m] = "to upgrade"
      /\ state' \in [Modules -> States]
  BY CatalogInv DEF Mark, Installed, CatalogOK, States
<1>3. MarksOK'
  <2> SUFFICES ASSUME NEW m \in Modules, NEW d \in Below(m)
               PROVE  /\ state'[m] = "to install" => state'[d] \notin {"uninstalled", "to remove"}
                      /\ state'[d] = "to remove" => state'[m] \in {"uninstalled", "to remove"}
    BY DEF MarksOK, Below
  <2>1. d \in Modules
    BY BelowTransitive
  <2> QED BY <1>2, <2>1 DEF IInv, MarksOK
<1>4. TypeOK'
  <2>1. \A m \in Modules : applied'[m] = 0 <=> state'[m] \in {"uninstalled", "to install"}
    BY <1>2, CatalogInv DEF CatalogOK, Mark
  <2>2. Changed \subseteq Modules
    BY DEF Changed, Installed
  <2>3. /\ UNCHANGED <<disk, applied, saved, faults>>
        /\ pc' = "marked" /\ changed' \subseteq Modules /\ result' = "none" /\ goal' = disk
    BY <2>2 DEF Mark, Fresh
  <2>4. \A m \in Modules : applied'[m] # 0 => \A d \in Below(m) : applied'[d] # 0
    BY <2>3 DEF IInv, TypeOK
  <2> QED BY <1>2, <2>1, <2>3, <2>4 DEF IInv, TypeOK, Below
<1>5. RunOK'
  <2>1. ASSUME NEW m \in Installed' PROVE Current(m)'
    <3>1. m \in Installed /\ m \notin Changed
      BY <1>2 DEF Installed, Below, Changed
    <3>2. Current(m)
      BY <3>1, UnchangedCurrent
    <3> QED BY <3>2 DEF Current, Mark
  <2> QED BY <2>1 DEF RunOK, Mark, Fresh
<1> QED BY <1>1, <1>3, <1>4, <1>5 DEF IInv

LEMMA MarkFailsInv ==
  ASSUME IInv, MarkFails
  PROVE  IInv'
<1>1. VersionsOK' /\ Success'
  BY BeginRun DEF MarkFails
<1>2. MarksOK'
  BY DEF IInv, MarksOK, MarkFails
<1>3. TypeOK'
  <2>1. Changed \subseteq Modules /\ faults' \in 0 .. MaxFaults
    BY FaultCounted DEF Changed, Installed, MarkFails, IInv
  <2> QED BY <2>1 DEF IInv, TypeOK, MarkFails, Fresh
<1>4. RunOK'
  <2>1. ASSUME NEW m \in Installed \ Changed PROVE Current(m)
    BY <2>1, UnchangedCurrent
  <2> QED BY <2>1 DEF RunOK, MarkFails, Fresh, Current, Installed
<1> QED BY <1>1, <1>2, <1>3, <1>4 DEF IInv

\* The end of a run that reports no success.
LEMMA EndInv ==
  ASSUME IInv, NEW how \in {"incomplete", "failed"}, End(how), faults' \in 0 .. MaxFaults,
         UNCHANGED <<disk, state, applied, saved>>
  PROVE  IInv'
BY DEF IInv, TypeOK, MarksOK, VersionsOK, RunOK, Success, End

LEMMA EnsureModuleStateInv ==
  ASSUME IInv, EnsureModuleState
  PROVE  IInv'
<1>1. CASE \A m \in changed : state[m] = "to upgrade"
  <2>1. RunOK'
    BY <1>1 DEF EnsureModuleState, IInv, RunOK, Installed, Current
  <2> QED BY <1>1, <2>1 DEF EnsureModuleState, IInv, TypeOK, MarksOK, VersionsOK, Success
<1>2. CASE ~ \A m \in changed : state[m] = "to upgrade"
  BY <1>2, EndInv DEF EnsureModuleState, IInv, TypeOK
<1> QED BY <1>1, <1>2

LEMMA UpgradeInv ==
  ASSUME IInv, Upgrade
  PROVE  IInv'
<1>1. /\ CatalogOK' /\ VersionsOK' /\ Success'
      /\ \A m \in Installed : Current(m) => Current(m)'
      /\ \A m \in Installed' : m \in Installed \/ Current(m)'
  BY LoadMarkedInv DEF Upgrade
<1>2. RunOK'
  BY <1>1 DEF IInv, RunOK, Upgrade
<1>3. TypeOK'
  BY <1>1 DEF IInv, TypeOK, CatalogOK, Upgrade
<1> QED BY <1>1, <1>2, <1>3 DEF IInv, CatalogOK

LEMMA SaveInv ==
  ASSUME IInv, SaveInstalledChecksums
  PROVE  IInv'
<1> USE DEF SaveInstalledChecksums
<1>1. saved' = [m \in Modules |-> IF m \in Installed THEN disk[m] ELSE NoChecksum]
  BY DEF SavedChecksums
<1>2. TypeOK'
  <2>1. \A m \in Modules : disk[m] \in 0 .. MaxVersion
    BY DEF IInv, TypeOK
  <2>2. saved' \in [Modules -> (0 .. MaxVersion) \cup {NoChecksum}]
    BY <1>1, <2>1
  <2> QED BY <2>2 DEF IInv, TypeOK
<1>3. VersionsOK'
  <2> SUFFICES ASSUME NEW m \in Modules
               PROVE  /\ disk[m] # 0 => goal[m] <= disk[m] /\ applied[m] <= disk[m]
                      /\ disk[m] # 0 /\ saved'[m] # NoChecksum => saved'[m] <= disk[m]
                      /\ applied[m] # 0 /\ saved'[m] # NoChecksum => saved'[m] <= applied[m]
    BY DEF VersionsOK
  <2>1. saved'[m] # NoChecksum => saved'[m] = disk[m] /\ Current(m)
    BY <1>1 DEF IInv, RunOK
  <2> QED BY <2>1, Numbers DEF IInv, VersionsOK, Current
<1>4. MarksOK' /\ RunOK' /\ Success'
  BY DEF IInv, MarksOK, RunOK, Success, Current, Installed
<1> QED BY <1>2, <1>3, <1>4 DEF IInv

LEMMA ReportInv ==
  ASSUME IInv, Report
  PROVE  IInv'
<1>1. CASE Partial # {}
  BY <1>1, EndInv DEF Report, IInv, TypeOK
<1>2. CASE Partial = {}
  <2> USE <1>2 DEF Report, End
  <2>1. TypeOK' /\ MarksOK' /\ VersionsOK' /\ RunOK'
    BY DEF IInv, TypeOK, MarksOK, VersionsOK, RunOK
  <2>2. ASSUME NEW m \in Modules, applied[m] # 0 PROVE goal[m] <= applied[m]
    <3>1. m \in Installed
      BY <2>2, CatalogInv DEF CatalogOK, Installed, Partial, States
    <3> QED BY <2>2, <3>1, Numbers DEF IInv, RunOK, Current
  <2> QED BY <2>1, <2>2 DEF IInv, Success
<1> QED BY <1>1, <1>2

LEMMA CrashInv ==
  ASSUME IInv, Crash
  PROVE  IInv'
<1>1. faults' \in 0 .. MaxFaults
  BY FaultCounted DEF Crash, IInv
<1> QED BY <1>1, EndInv DEF Crash

\* An upgrade that stops halfway has brought some modules up to date, with all
\* they need, and has left the others as they were, marked or not.
LEMMA UpgradeStopsInv ==
  ASSUME IInv, NEW S \in SUBSET Modules, NEW rest, UpgradeStops(S, rest),
         rest = state \/ rest = [m \in Modules |-> Unmarked(m)]
  PROVE  IInv'
<1>1. /\ \A m \in S : /\ m \in Partial /\ disk[m] # 0 /\ state[m] # "to remove"
                      /\ applied'[m] = disk[m] /\ state'[m] = "installed"
                      /\ Below(m) \cap Partial \subseteq S
                      /\ \A d \in Below(m) : disk[d] # 0
      /\ \A m \in Modules \ S : applied'[m] = applied[m] /\ state'[m] = rest[m]
      /\ \A m \in Modules : rest[m] = state[m] \/ rest[m] = Unmarked(m)
  <2>1. \A m \in S : m \in Partial /\ Loadable(m) /\ state[m] # "to remove" /\ m \in Modules
    BY DEF UpgradeStops
  <2>2. \A m \in S : \A d \in Below(m) : disk[d] # 0
    BY <2>1 DEF Loadable
  <2>3. \A m \in S : disk[m] # 0
    BY <2>1, <2>2 DEF Below
  <2>4. \A m \in S : applied'[m] = disk[m] /\ state'[m] = "installed" /\ Below(m) \cap Partial \subseteq S
    BY <2>1 DEF UpgradeStops
  <2>5. \A m \in Modules \ S : applied'[m] = applied[m] /\ state'[m] = rest[m]
    BY DEF UpgradeStops
  <2>6. \A m \in Modules : rest[m] = state[m] \/ rest[m] = Unmarked(m)
    OBVIOUS
  <2> QED BY <2>1, <2>2, <2>3, <2>4, <2>5, <2>6
<1>2. CatalogOK /\ TypeOK
  BY CatalogInv DEF IInv
<1>3. \A m \in Modules : state[m] \in States /\ Unmarked(m) \in {"installed", "uninstalled"}
  BY <1>2 DEF CatalogOK, Unmarked, States
<1>4. state' \in [Modules -> States]
  BY <1>1, <1>3 DEF UpgradeStops, States
<1>5. applied' \in [Modules -> 0 .. MaxVersion]
  BY <1>2 DEF UpgradeStops, TypeOK
<1>6. \A m \in Modules : applied'[m] = 0 <=> state'[m] \in {"uninstalled", "to install"}
  BY <1>1, <1>2, <1>3 DEF CatalogOK, Unmarked
<1>7. ASSUME NEW m \in Modules, NEW d \in Below(m), applied'[m] # 0
      PROVE  applied'[d] # 0
  <2>1. d \in Modules
    BY BelowTransitive
  <2>2. CASE d \in S
    BY <1>1, <2>2
  <2>3. CASE d \notin S /\ m \notin S
    BY <1>1, <1>2, <1>7, <2>1, <2>3 DEF CatalogOK
  <2>4. CASE d \notin S /\ m \in S
    <3>1. d \notin Partial /\ state[m] \in {"to install", "to upgrade"}
      BY <1>1, <2>4 DEF Partial
    <3>2. state[d] # "uninstalled"
      BY <1>2, <2>1, <3>1 DEF CatalogOK, MarksOK
    <3> QED BY <1>1, <1>2, <2>1, <2>4, <3>1, <3>2 DEF CatalogOK, Partial
  <2> QED BY <2>2, <2>3, <2>4
<1>8. MarksOK'
  <2> SUFFICES ASSUME NEW m \in Modules, NEW d \in Below(m)
               PROVE  /\ state'[m] = "to install" => state'[d] \notin {"uninstalled", "to remove"}
                      /\ state'[d] = "to remove" => state'[m] \in {"uninstalled", "to remove"}
    BY DEF MarksOK, Below
  <2>1. d \in Modules
    BY BelowTransitive
  <2>2. CASE rest = state
    <3>1. /\ state[m] = "to install" => state[d] \notin {"uninstalled", "to remove"}
          /\ state[d] = "to remove" => state[m] \in {"uninstalled", "to remove"}
      BY <1>2 DEF CatalogOK, MarksOK
    <3>2. /\ m \in S => state'[m] = "installed" /\ state[m] \notin {"uninstalled", "to remove"}
          /\ d \in S => state'[d] = "installed"
          /\ m \notin S => state'[m] = state[m]
          /\ d \notin S => state'[d] = state[d]
      BY <1>1, <2>1, <2>2 DEF Partial
    <3> QED BY <3>1, <3>2
  <2>3. CASE rest = [k \in Modules |-> Unmarked(k)]
    <3>1. \A k \in Modules : state'[k] \in {"installed", "uninstalled"}
      BY <1>1, <1>3, <2>3
    <3> QED BY <2>1, <3>1
  <2> QED BY <2>2, <2>3
<1>9. faults' \in 0 .. MaxFaults
  BY <1>2, FaultCounted DEF UpgradeStops
<1>10. TypeOK'
  BY <1>2, <1>4, <1>5, <1>6, <1>7, <1>9 DEF TypeOK, UpgradeStops, End, Below
<1>11. \A m \in Modules : applied'[m] = applied[m] \/ (disk[m] # 0 /\ applied'[m] = disk[m])
  BY <1>1
<1>12. VersionsOK'
  <2> SUFFICES ASSUME NEW m \in Modules
               PROVE  /\ disk[m] # 0 => goal[m] <= disk[m] /\ applied'[m] <= disk[m]
                      /\ disk[m] # 0 /\ saved[m] # NoChecksum => saved[m] <= disk[m]
                      /\ applied'[m] # 0 /\ saved[m] # NoChecksum => saved[m] <= applied'[m]
    BY DEF VersionsOK, UpgradeStops, End
  <2> QED BY <1>2, <1>11, Numbers DEF IInv, VersionsOK
<1>13. RunOK' /\ Success'
  BY DEF RunOK, Success, UpgradeStops, End
<1> QED BY <1>8, <1>10, <1>12, <1>13 DEF IInv

----------------------------------------------------------------------------
(* Others, while no run is going on *)

\* A directory that changes while no run is going on gets newer or goes away.
LEMMA DiskInv ==
  ASSUME IInv, pc = "idle", NEW m \in Modules, NEW v \in 0 .. MaxVersion,
         v = 0 \/ (v >= disk[m] /\ disk[m] # 0) \/ v = MaxVersion,
         disk' = [disk EXCEPT ![m] = v],
         UNCHANGED <<state, applied, saved, faults>>, UNCHANGED run
  PROVE  IInv'
<1> USE DEF run
<1>1. TypeOK'
  BY DEF IInv, TypeOK
<1>2. MarksOK' /\ RunOK' /\ Success'
  BY DEF IInv, MarksOK, RunOK, Success
<1>3. VersionsOK'
  <2> SUFFICES ASSUME NEW k \in Modules
               PROVE  /\ disk'[k] # 0 => goal[k] <= disk'[k] /\ applied[k] <= disk'[k]
                      /\ disk'[k] # 0 /\ saved[k] # NoChecksum => saved[k] <= disk'[k]
                      /\ applied[k] # 0 /\ saved[k] # NoChecksum => saved[k] <= applied[k]
    BY DEF VersionsOK
  <2>1. disk'[k] = IF k = m THEN v ELSE disk[k]
    BY DEF IInv, TypeOK
  <2>2. v \in Nat
    OBVIOUS
  <2> QED BY <2>1, <2>2, Numbers DEF IInv, VersionsOK
<1> QED BY <1>1, <1>2, <1>3 DEF IInv

LEMMA OthersInv ==
  ASSUME IInv, ~ Meddling, Others
  PROVE  IInv'
<1>0. pc = "idle"
  BY DEF Others, HandsOff
<1>1. CASE Plan
  BY <1>0, <1>1, PlanInv
<1>2. CASE LoadElsewhere
  <2>1. CatalogOK' /\ VersionsOK' /\ Success'
    BY <1>2, LoadMarkedInv DEF LoadElsewhere, run
  <2>2. TypeOK' /\ RunOK'
    BY <1>0, <1>2, <2>1 DEF LoadElsewhere, run, IInv, TypeOK, CatalogOK, RunOK
  <2> QED BY <2>1, <2>2 DEF IInv, CatalogOK
<1>3. ASSUME NEW m \in Modules, Restore(m) PROVE IInv'
  <2>1. MaxVersion \in 0 .. MaxVersion
    BY UpdateAssumption
  <2> QED BY <1>0, <1>3, <2>1, DiskInv DEF Restore
<1>4. ASSUME NEW m \in Modules, NEW v \in 0 .. MaxVersion, Deploy(m, v) PROVE IInv'
  <2>1. disk[m] \in Nat /\ disk[m] # 0
    BY <1>4, Numbers DEF IInv, Deploy
  <2>2. v = 0 \/ v >= disk[m]
    BY <1>4, <2>1 DEF Deploy
  <2> QED BY <1>0, <1>4, <2>1, <2>2, DiskInv DEF Deploy
<1> QED BY <1>1, <1>2, <1>3, <1>4 DEF Others

LEMMA InitInv == Init => IInv
<1> SUFFICES ASSUME Init PROVE IInv
  OBVIOUS
<1>1. 1 \in 0 .. MaxVersion /\ 0 \in 0 .. MaxVersion /\ 0 \in 0 .. MaxFaults
  BY UpdateAssumption
<1>2. /\ \A m \in Modules : /\ state[m] \in {"uninstalled", "installed"}
                            /\ disk[m] = 1 /\ goal[m] = 1
                            /\ state[m] = "installed" => applied[m] = 1
                            /\ state[m] = "uninstalled" => applied[m] = 0
                            /\ saved[m] = NoChecksum
      /\ state \in [Modules -> States] /\ disk \in [Modules -> 0 .. MaxVersion]
      /\ goal \in [Modules -> 0 .. MaxVersion] /\ applied \in [Modules -> 0 .. MaxVersion]
      /\ saved \in [Modules -> (0 .. MaxVersion) \cup {NoChecksum}]
  BY <1>1 DEF Init, States
<1>3. ASSUME NEW m \in Modules, NEW d \in Below(m), state[m] = "installed"
      PROVE  state[d] = "installed"
  BY <1>3 DEF Below, Init
<1>4. TypeOK
  <2>1. ASSUME NEW m \in Modules
        PROVE  applied[m] = 0 <=> state[m] \in {"uninstalled", "to install"}
    <3>1. CASE state[m] = "installed"
      BY <1>2, <3>1
    <3>2. CASE state[m] = "uninstalled"
      BY <1>2, <3>2
    <3> QED BY <1>2, <3>1, <3>2
  <2>2. \A m \in Modules : applied[m] # 0 => \A d \in Below(m) : applied[d] # 0
    BY <1>2, <1>3, BelowTransitive
  <2> QED BY <1>1, <1>2, <2>1, <2>2 DEF TypeOK, Init
<1>5. MarksOK
  BY <1>2, BelowTransitive DEF MarksOK
<1> QED BY <1>2, <1>4, <1>5 DEF Init, IInv, VersionsOK, RunOK, Success

THEOREM Invariance == ~ Meddling => (Spec => []IInv)
<1> SUFFICES ASSUME ~ Meddling PROVE Spec => []IInv
  OBVIOUS
<1>1. IInv /\ [Next]_vars => IInv'
  <2> SUFFICES ASSUME IInv, [Next]_vars PROVE IInv'
    OBVIOUS
  <2>1. CASE UNCHANGED vars
    BY <2>1 DEF vars, IInv, TypeOK, MarksOK, VersionsOK, RunOK, Success, Current, Installed
  <2>2. CASE Run
    BY <2>2, NothingToDoInv, MarkInv, EnsureModuleStateInv, UpgradeInv, SaveInv, ReportInv DEF Run
  <2>3. CASE Fault
    BY <2>3, MarkFailsInv, CrashInv, UpgradeStopsInv DEF Fault, UpgradeFails, UpgradeDies
  <2>4. CASE Others
    BY <2>4, OthersInv
  <2> QED BY <2>1, <2>2, <2>3, <2>4 DEF Next
<1> QED BY <1>1, InitInv, PTL DEF Spec

----------------------------------------------------------------------------
\* The states of the modules, the versions in the database and the steps of a run
\* fit together: nothing is in the database without what it requires, and an upgrade
\* begins with all changed modules marked (ensure_module_state).
THEOREM TypeCorrect == ~ Meddling => (Spec => []TypeOK)
BY Invariance, PTL DEF IInv

\* No change of a directory is ever missed: an installed module whose directory has
\* the saved checksum is at that version in the database, however many runs crashed,
\* failed or were not marked, and whatever was planned and loaded between them
\* (upgrade_changed_checksum).
THEOREM NoChangeMissed == ~ Meddling => (Spec => []NoMissedUpgrade)
<1>1. IInv => NoMissedUpgrade
  <2> SUFFICES ASSUME IInv, NEW m \in Installed, disk[m] # 0, saved[m] = disk[m]
               PROVE  applied[m] = disk[m]
    BY DEF NoMissedUpgrade
  <2>1. m \in Modules /\ applied[m] # 0
    BY CatalogInv DEF CatalogOK, Installed
  <2> QED BY <2>1, Numbers, UpdateAssumption DEF IInv, VersionsOK
<1> QED BY <1>1, Invariance, PTL

\* A run that ends with "nothing to do" or complete has every installed module at
\* the version that was on disk when it began, or a later one, and so it stays
\* until the next run (upgrade_changed_checksum).
THEOREM SuccessCorrect == ~ Meddling => (Spec => []SuccessIsTrue)
<1>1. IInv => SuccessIsTrue
  <2> SUFFICES ASSUME IInv, result \in {"nothing", "complete"}, NEW m \in Installed
               PROVE  applied[m] >= goal[m]
    BY DEF SuccessIsTrue
  <2>1. m \in Modules /\ applied[m] # 0
    BY CatalogInv DEF CatalogOK, Installed
  <2> QED BY <2>1, Numbers DEF IInv, Success
<1> QED BY <1>1, Invariance, PTL

=============================================================================

-------------------------- MODULE ModuleAutoUpdate --------------------------
(***************************************************************************)
(* module_auto_update: upgrade_changed_checksum compares the checksums of  *)
(* the addons on disk with the ones saved after the last successful run,   *)
(* and upgrades the modules that differ.  It commits between its steps, so *)
(* a run can die between any two of them, while the disk is deployed to,   *)
(* and administrators install, upgrade and remove modules by other ways.   *)
(*                                                                         *)
(* The checksum of a directory stands for its version; the one of a        *)
(* directory that is missing is False, 0 here.                             *)
(***************************************************************************)
EXTENDS Naturals

CONSTANTS Modules,    \* modules in the database
          Requires,   \* <<m, d>>: m depends on d, transitively closed
          NoChecksum, \* no saved checksum
          MaxVersion, \* bound on the versions that are deployed
          MaxFaults,  \* bound on crashes and failing upgrades
          Meddling    \* whether others deploy and cancel while a run upgrades

ASSUME UpdateAssumption ==
  /\ Requires \subseteq Modules \X Modules
  /\ \A p, q \in Requires : p[2] = q[1] => <<p[1], q[2]>> \in Requires
  /\ NoChecksum \notin Nat
  /\ MaxVersion \in Nat \ {0} /\ MaxFaults \in Nat /\ Meddling \in BOOLEAN

VARIABLES disk,     \* module -> version of its directory, 0 if there is none
          state,    \* module -> state of ir.module.module
          applied,  \* module -> version the database was installed or upgraded with
          saved,    \* module -> module_auto_update.installed_checksums
          pc,       \* the last commit of the run, "idle" if there is none
          changed,  \* changed_modules of the run
          result,   \* how the last run ended
          goal,     \* history: disk when the run began
          faults

vars == <<disk, state, applied, saved, pc, changed, result, goal, faults>>
run == <<pc, changed, result, goal>>

States == {"uninstalled", "installed", "to install", "to upgrade", "to remove"}

Init == /\ disk = [m \in Modules |-> 1]
        /\ state \in [Modules -> {"uninstalled", "installed"}]
        /\ \A p \in Requires : state[p[1]] = "installed" => state[p[2]] = "installed"
        /\ applied = [m \in Modules |-> IF state[m] = "installed" THEN 1 ELSE 0]
        /\ saved = [m \in Modules |-> NoChecksum]
        /\ pc = "idle" /\ changed = {} /\ result = "none"
        /\ goal = disk
        /\ faults = 0

\* What m needs and what needs m, m included.
Below(m) == {m} \cup {d \in Modules : <<m, d>> \in Requires}
Above(m) == {d \in Modules : m \in Below(d)}

\* Odoo loads a module only with everything it requires.
Loadable(m) == \A d \in Below(m) : disk[d] # 0

Installed == {m \in Modules : state[m] = "installed"}

\* _get_modules_partially_installed
Partial == {m \in Modules : state[m] \in {"to install", "to remove", "to upgrade"}}

\* _get_modules_with_changed_checksum.  (Definition_Variant is a mutation of the
\* definition it precedes; nothing else uses it.)
Changed_Known == {m \in Installed : saved[m] # NoChecksum /\ disk[m] # saved[m]}
Changed == {m \in Installed : disk[m] # saved[m]}

-----------------------------------------------------------------------------
(* upgrade_changed_checksum *)

Fresh == /\ result' = "none" /\ goal' = disk

NothingToDo ==
  /\ pc = "idle" /\ Changed = {} /\ Partial = {}
  /\ result' = "nothing" /\ goal' = disk
  /\ UNCHANGED <<disk, state, applied, saved, pc, changed, faults>>

\* button_upgrade marks the modules and what depends on them; commit.
Mark ==
  /\ pc = "idle" /\ (Changed # {} \/ Partial # {})
  /\ pc' = "marked" /\ changed' = Changed /\ Fresh
  /\ state' = [m \in Modules |->
       IF m \in Installed /\ Below(m) \cap Changed # {}
       THEN "to upgrade" ELSE state[m]]
  /\ UNCHANGED <<disk, applied, saved, faults>>

\* "in rare situations, button_upgrade may fail without exception"
MarkFails ==
  /\ faults < MaxFaults /\ faults' = faults + 1
  /\ pc = "idle" /\ Changed # {}
  /\ pc' = "marked" /\ changed' = Changed /\ Fresh
  /\ UNCHANGED <<disk, state, applied, saved>>

\* The run ends in some way.
End(how) == pc' = "idle" /\ changed' = {} /\ result' = how /\ UNCHANGED goal

\* ensure_module_state: FailedUpgradeError unless all of them are marked.
EnsureModuleState ==
  /\ pc = "marked"
  /\ IF \A m \in changed : state[m] = "to upgrade"
     THEN pc' = "ensured" /\ UNCHANGED <<changed, result, goal>>
     ELSE End("failed")
  /\ UNCHANGED <<disk, state, applied, saved, faults>>

\* What Odoo (external) does when it loads the marked modules of S.
Load(S) ==
  /\ applied' = [m \in Modules |-> IF m \notin S THEN applied[m]
                                   ELSE IF state[m] = "to remove" THEN 0 ELSE disk[m]]
  /\ state' = [m \in Modules |-> IF m \notin S THEN state[m]
                                 ELSE IF state[m] = "to remove" THEN "uninstalled"
                                 ELSE "installed"]

\* All that is marked and can be loaded; a module that cannot stays marked.
LoadMarked == Load({m \in Partial : Loadable(m) \/ state[m] = "to remove"})

\* upgrade_module, commit.
Upgrade ==
  /\ pc = "ensured" /\ pc' = "upgraded"
  /\ LoadMarked
  /\ UNCHANGED <<disk, saved, changed, result, goal, faults>>

\* What is left when marks are taken off again: a module looks installed whether
\* it has been upgraded or not.
Unmarked(m) == CASE state[m] = "to install" -> "uninstalled"
                 [] state[m] \in {"to upgrade", "to remove"} -> "installed"
                 [] OTHER -> state[m]

\* upgrade_module stops after the modules of S, each in a transaction of its own
\* (external); rest is what is then left of the others.
UpgradeStops(S, rest) ==
  /\ faults < MaxFaults /\ faults' = faults + 1
  /\ pc = "ensured" /\ End("failed")
  /\ S \subseteq {m \in Partial : Loadable(m) /\ state[m] # "to remove"}
  /\ \A m \in S : Below(m) \cap Partial \subseteq S
  /\ applied' = [m \in Modules |-> IF m \in S THEN disk[m] ELSE applied[m]]
  /\ state' = [m \in Modules |-> IF m \in S THEN "installed" ELSE rest[m]]
  /\ UNCHANGED <<disk, saved>>

\* A module fails to load, and Odoo takes the marks off the others.
UpgradeFails ==
  \E S \in SUBSET Modules : UpgradeStops(S, [m \in Modules |-> Unmarked(m)])

\* The process dies between two modules; the others stay marked.
UpgradeDies == \E S \in SUBSET Modules : UpgradeStops(S, state)

\* The checksums are saved of every module, marked or not.
SavedChecksums_All == disk
SavedChecksums == [m \in Modules |-> IF m \in Installed THEN disk[m] ELSE NoChecksum]

\* _save_installed_checksums, commit.
SaveInstalledChecksums ==
  /\ pc = "upgraded" /\ pc' = "saved"
  /\ saved' = SavedChecksums
  /\ UNCHANGED <<disk, state, applied, changed, result, goal, faults>>

\* The end: IncompleteUpgradeError if anything is still marked.
Report_Complete ==
  /\ pc = "saved"
  /\ End("complete")
  /\ UNCHANGED <<disk, state, applied, saved, faults>>

Report ==
  /\ pc = "saved"
  /\ End(IF Partial = {} THEN "complete" ELSE "incomplete")
  /\ UNCHANGED <<disk, state, applied, saved, faults>>

\* The process dies between two commits of the run itself.
Crash ==
  /\ faults < MaxFaults /\ faults' = faults + 1
  /\ pc # "idle" /\ End("failed")
  /\ UNCHANGED <<disk, state, applied, saved>>

-----------------------------------------------------------------------------
(* Everybody else (external) *)

\* Unless Meddling, the run has the disk and the database for itself.
HandsOff == Meddling \/ pc = "idle"

\* A new version of the directory, or the directory is removed or put back.
Deploy(m, v) ==
  /\ v \in {0, disk[m] + 1} /\ v # disk[m] /\ v <= MaxVersion
  /\ \A d \in Modules : disk[d] # 0
  /\ disk' = [disk EXCEPT ![m] = v]
  /\ UNCHANGED <<state, applied, saved, faults>> /\ UNCHANGED run

\* A directory that is missing comes back in the newest version.
Restore(m) ==
  /\ disk[m] = 0 /\ disk' = [disk EXCEPT ![m] = MaxVersion]
  /\ UNCHANGED <<state, applied, saved, faults>> /\ UNCHANGED run

\* button_install, button_upgrade and button_uninstall mark a module with what it
\* needs or what needs it.
PlanInstall(m) ==
  /\ state[m] = "uninstalled" /\ Loadable(m)
  /\ \A d \in Below(m) : state[d] # "to remove"
  /\ state' = [d \in Modules |-> IF d \in Below(m) /\ state[d] = "uninstalled"
                                 THEN "to install" ELSE state[d]]
PlanUpgrade(m) ==
  /\ m \in Installed
  /\ state' = [d \in Modules |-> IF d \in Above(m) \cap Installed
                                 THEN "to upgrade" ELSE state[d]]
PlanRemove(m) ==
  /\ m \in Installed
  /\ \A d \in Above(m) : state[d] # "to install"
  /\ state' = [d \in Modules |-> IF d \in Above(m) /\ state[d] # "uninstalled"
                                 THEN "to remove" ELSE state[d]]

\* The wizard's Cancel takes all marks off.
CancelPlan == Partial # {} /\ state' = [m \in Modules |-> Unmarked(m)]

Plan == /\ \/ CancelPlan
           \/ \E m \in Modules : PlanInstall(m) \/ PlanUpgrade(m) \/ PlanRemove(m)
        /\ UNCHANGED <<disk, applied, saved, faults>> /\ UNCHANGED run

\* Odoo loads what is marked without this module, as for odoo -i and -u.
LoadElsewhere == LoadMarked /\ UNCHANGED <<disk, saved, faults>> /\ UNCHANGED run

Run == \/ NothingToDo \/ Mark \/ EnsureModuleState \/ Upgrade
       \/ SaveInstalledChecksums \/ Report

Fault == MarkFails \/ Crash \/ UpgradeFails \/ UpgradeDies

Others == /\ HandsOff
          /\ \/ Plan \/ LoadElsewhere
             \/ \E m \in Modules : \/ Restore(m)
                                   \/ \E v \in 0 .. MaxVersion : Deploy(m, v)

Next == Run \/ Fault \/ Others

\* The toolchain calls upgrade_changed_checksum again and again.
Spec == Init /\ [][Next]_vars
FairSpec == Spec /\ WF_vars(Run)

-----------------------------------------------------------------------------
(* Properties *)

\* Versions, states and checksums keep their types; exactly the modules that are
\* in the database have an applied version, and with them what they require; an
\* upgrade begins with all changed modules marked (ensure_module_state).
TypeOK ==
  /\ disk \in [Modules -> 0 .. MaxVersion]
  /\ state \in [Modules -> States]
  /\ applied \in [Modules -> 0 .. MaxVersion]
  /\ \A m \in Modules : applied[m] = 0 <=> state[m] \in {"uninstalled", "to install"}
  /\ \A m \in Modules : applied[m] # 0 => \A d \in Below(m) : applied[d] # 0
  /\ saved \in [Modules -> (0 .. MaxVersion) \cup {NoChecksum}]
  /\ pc \in {"idle", "marked", "ensured", "upgraded", "saved"}
  /\ changed \subseteq Modules
  /\ pc = "ensured" => \A m \in changed : state[m] = "to upgrade"
  /\ result \in {"none", "nothing", "complete", "incomplete", "failed"}
  /\ goal \in [Modules -> 0 .. MaxVersion]
  /\ faults \in 0 .. MaxFaults

\* "no upgrade would be performed and save_installed_checksums would update
\* checksums for modules that have not been upgraded": an installed module
\* whose directory has the saved checksum is at that version in the database,
\* wherever a run crashed or failed; so no change is ever missed.
NoMissedUpgrade ==
  \A m \in Installed : disk[m] # 0 /\ saved[m] = disk[m] => applied[m] = disk[m]

\* A run that reports success has brought every installed module to the version
\* that was on disk when it began, or a later one (upgrade_changed_checksum).
SuccessIsTrue ==
  result \in {"nothing", "complete"} => \A m \in Installed : applied[m] >= goal[m]

\* Once the directories have come to rest, runs that are repeated bring the
\* database to them, however often they crashed or failed before.
UpToDate == \A m \in Modules : Loadable(m) /\ state[m] \in {"installed", "to upgrade"}
                                 => applied[m] = disk[m]
EventuallyUpToDate == []<>UpToDate

=============================================================================

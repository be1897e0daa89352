----------------------------- MODULE PatchMerge -----------------------------
(***************************************************************************)
(* Reflection Patches and the Automated Rollback Manager                   *)
(* (reflection/loop.py, reflection/rollback.py): a patch is proposed,      *)
(* gated, merged automatically or by a reviewer, and probed at the next    *)
(* boot, which rolls a failing merge back from its backup.                 *)
(*                                                                         *)
(* Everything lives in files, and every write is a step of its own: a      *)
(* merge or a rollback may break off between any two of them, because the  *)
(* process dies or because a write raises OSError.  A text file is         *)
(* truncated before it is written, so a break can leave it torn.           *)
(*                                                                         *)
(* The code takes no lock on the team workspace; the model assumes, as its *)
(* users do, that one process at a time merges into it or verifies it.     *)
(***************************************************************************)
EXTENDS FiniteSetsExt, Functions, Integers, Sequences

CONSTANTS Patch,        \* Reflection Patch workspaces
          Toml,         \* naqsha.toml
          Tools,        \* the files that may be under tools/
          Other,        \* files of the team workspace that no backup covers
          Absent,       \* a file, or a merge/ directory, that does not exist
          AutoMerge,    \* [reflection] enabled, auto_merge and reliability_gate
          MaxBackups,   \* MAX_BACKUPS
          MaxMerges,    \* bound: merges begun
          MaxBreaks     \* bound: merges and verifications that break off

Tracked == {Toml} \cup Tools
File == Tracked \cup Other

NoBackup == 0    \* backups are numbered from 1, in the order of their stamps
Torn == -1       \* the name in a last_merge_meta.json that is no JSON

ASSUME PatchAssumption ==
  /\ IsFiniteSet(Patch) /\ IsFiniteSet(File)
  /\ Toml \notin Tools \cup Other /\ Tools \cap Other = {}
  /\ MaxBackups \in Nat \ {0} /\ MaxMerges \in Nat /\ MaxBreaks \in Nat
  /\ AutoMerge \in BOOLEAN
  /\ \A S \in SUBSET File : Absent \notin [S -> (SUBSET Patch) \cup {Absent}]

VARIABLES files,      \* the team workspace: of each file, the patches that wrote it
          gate,       \* the Reliability Gate's result; "none": not proposed yet
          approved,   \* the patches a reviewer approved
          payload,    \* the merge/ directory of each patch
          backups,    \* .naqsha/backups, named by their order in time
          meta,       \* last_merge_meta.json: the backup it names
          boot,       \* boot_status
          merger,     \* the merge in progress
          booter,     \* the boot verification in progress
          merges, breaks,
          loose,      \* history: files were applied, but the boot is not marked pending yet
          good,       \* history: the files at the start, then at each probe that passed
          before       \* history: the tracked files when the merge of a backup began

patchVars == <<gate, approved, payload>>
diskVars == <<files, backups, meta, boot>>
history == <<merges, breaks, loose, good, before>>
vars == <<patchVars, diskVars, merger, booter, history>>

Idle == [at |-> "idle"]

Content == (SUBSET Patch) \cup {Absent}
\* One directory copied over another.
new ++ old == [f \in DOMAIN new \cup DOMAIN old |-> IF f \in DOMAIN new THEN new[f] ELSE old[f]]
Existing(fs) == Restrict(fs, {f \in DOMAIN fs : fs[f] # Absent})

----------------------------------------------------------------------------
Init ==
  /\ files \in {fs \in [File -> {{}, Absent}] : \A f \in Other : fs[f] = {}}
  /\ gate = [p \in Patch |-> "none"]
  /\ approved = {}
  /\ payload = [p \in Patch |-> Absent]
  /\ backups = <<>> /\ meta = NoBackup /\ boot = "none"
  /\ merger = Idle /\ booter = Idle
  /\ merges = 0 /\ breaks = 0
  /\ loose = FALSE
  /\ good = files
  /\ before = <<>>

(* Proposals and reviews *)

(* _write_merge_payload: the team's naqsha.toml with a marker appended.    *)
MarkedToml(p) ==
  IF files[Toml] = Absent THEN <<>> ELSE [f \in {Toml} |-> files[Toml] \cup {p}]

BeginMerge(p) ==
  /\ merges < MaxMerges
  /\ merges' = merges + 1
  /\ before' = Append(before, Restrict(files, Tracked))
  /\ merger' = [at |-> "backup_toml", patch |-> p, backup |-> merges + 1]

Quiet == merger = Idle /\ booter = Idle

EffectiveAutoMergeUngated(passed) == AutoMerge /\ files[Toml] # Absent
EffectiveAutoMerge(passed) == AutoMerge /\ passed /\ files[Toml] # Absent

Propose(p) ==
  /\ Quiet
  /\ gate[p] = "none"
  /\ \E passed \in BOOLEAN :
       /\ gate' = [gate EXCEPT ![p] = IF passed THEN "passed" ELSE "failed"]
       /\ IF EffectiveAutoMerge(passed)
          THEN payload' = [payload EXCEPT ![p] = MarkedToml(p)] /\ BeginMerge(p)
          ELSE UNCHANGED <<payload, merger, merges, before>>
  /\ UNCHANGED <<approved, diskVars, booter, breaks, loose, good>>

(* Whoever prepares the patch may put any files under merge/.              *)
FillMergeDirectory(p) ==
  /\ Quiet
  /\ gate[p] # "none" /\ payload[p] = Absent
  /\ \E fs \in SUBSET File \ {{}} : payload' = [payload EXCEPT ![p] = [f \in fs |-> {p}]]
  /\ UNCHANGED <<gate, approved, diskVars, merger, booter, history>>

Approve(p) ==
  /\ Quiet
  /\ gate[p] # "none"
  /\ approved' = approved \cup {p}
  /\ payload' = IF payload[p] = Absent THEN [payload EXCEPT ![p] = MarkedToml(p)]
                                       ELSE payload
  /\ BeginMerge(p)
  /\ UNCHANGED <<gate, diskVars, booter, breaks, loose, good>>

----------------------------------------------------------------------------
(* merge_patch *)

BackupToml ==
  /\ merger.at = "backup_toml"
  /\ backups' = [b \in {merger.backup} |-> Restrict(files, {Toml})] ++ backups
  /\ merger' = [merger EXCEPT !.at = "backup_tools"]
  /\ UNCHANGED <<patchVars, files, meta, boot, booter, history>>

BackupTools ==
  /\ merger.at = "backup_tools"
  /\ backups' = [backups EXCEPT ![merger.backup] = @ ++ Restrict(files, Tools)]
  /\ merger' = [at |-> "apply", patch |-> merger.patch, backup |-> merger.backup,
                 left |-> DOMAIN payload[merger.patch]]
  /\ UNCHANGED <<patchVars, files, meta, boot, booter, history>>

(* rglob yields the files in the order of the directory: any order.        *)
ApplyFile ==
  /\ merger.at = "apply"
  /\ \E f \in merger.left :
       /\ files' = [files EXCEPT ![f] = payload[merger.patch][f]]
       /\ merger' = [merger EXCEPT !.left = @ \ {f}]
  /\ loose' = TRUE
  /\ UNCHANGED <<patchVars, backups, meta, boot, booter, merges, breaks, good, before>>

WriteMeta ==
  /\ merger.at = "apply" /\ merger.left = {}
  /\ meta' = merger.backup
  /\ merger' = [merger EXCEPT !.at = "pending"]
  /\ UNCHANGED <<patchVars, files, backups, boot, booter, history>>

SetPending ==
  /\ merger.at = "pending"
  /\ boot' = "pending" /\ loose' = FALSE
  /\ merger' = [merger EXCEPT !.at = "prune"]
  /\ UNCHANGED <<patchVars, files, backups, meta, booter, merges, breaks, good, before>>

Newest(names, n) == {b \in names : Cardinality({d \in names : d > b}) < n}

PruneTheNewest ==
  /\ merger.at = "prune"
  /\ backups' = Restrict(backups, {b \in DOMAIN backups :
                    Cardinality({d \in DOMAIN backups : d < b}) < MaxBackups})
  /\ merger' = Idle
  /\ UNCHANGED <<patchVars, files, meta, boot, booter, history>>

PruneBackups ==
  /\ merger.at = "prune"
  /\ backups' = Restrict(backups, Newest(DOMAIN backups, MaxBackups))
  /\ merger' = Idle
  /\ UNCHANGED <<patchVars, files, meta, boot, booter, history>>

(* Breaking off in the middle of a write leaves a backup directory with    *)
(* nothing in it, a torn last_merge_meta.json, or an empty boot_status.    *)
MergeBreaksOff ==
  /\ merger # Idle
  /\ breaks < MaxBreaks
  /\ breaks' = breaks + 1
  /\ merger' = Idle
  /\ backups' \in {backups} \cup (IF merger.at = "backup_toml"
                                 THEN {[b \in {merger.backup} |-> <<>>] ++ backups} ELSE {})
  /\ meta' \in {meta} \cup (IF merger.at = "apply" /\ merger.left = {} THEN {Torn} ELSE {})
  /\ boot' \in {boot} \cup (IF merger.at = "pending" THEN {"none"} ELSE {})
  /\ UNCHANGED <<patchVars, files, booter, merges, loose, good, before>>

----------------------------------------------------------------------------
(* verify_boot_if_pending, called by `naqsha run` and AgentWorkbench.run   *)

ReadBootStatus ==
  /\ Quiet
  /\ boot \in {"pending", "rolled_back"}
  /\ booter' = [at |-> "probe", seen |-> boot]
  /\ UNCHANGED <<patchVars, diskVars, merger, history>>

(* The probe is a run of the Run Profile's agent.  It builds neither its    *)
(* model nor its tools from the merged files, so its outcome is free.      *)
ProbePasses ==
  /\ booter.at = "probe"
  /\ boot' = "stable"
  /\ good' = files /\ loose' = FALSE
  /\ booter' = Idle
  /\ UNCHANGED <<patchVars, files, backups, meta, merger, merges, breaks, before>>

ChosenBackup ==
  CASE meta \in DOMAIN backups -> meta
    [] meta \notin DOMAIN backups /\ Cardinality(DOMAIN backups) = 1
         -> CHOOSE b \in DOMAIN backups : TRUE
    [] OTHER -> NoBackup

ProbeFailsWithoutBackup ==
  /\ booter.at = "probe"
  /\ booter' = IF booter.seen = "rolled_back" \/ ChosenBackup = NoBackup THEN Idle
               ELSE [at |-> "restore_toml", from |-> ChosenBackup]
  /\ UNCHANGED <<patchVars, diskVars, merger, history>>

ProbeFails ==
  /\ booter.at = "probe"
  /\ booter' = CASE booter.seen = "rolled_back" -> Idle
                 [] booter.seen = "pending" /\ ChosenBackup = NoBackup -> [at |-> "rolled_back", from |-> NoBackup]
                 [] OTHER -> [at |-> "restore_toml", from |-> ChosenBackup]
  /\ UNCHANGED <<patchVars, diskVars, merger, history>>

RestoreToml ==
  /\ booter.at = "restore_toml"
  /\ files' = Restrict(backups[booter.from], {Toml} \cap DOMAIN backups[booter.from]) ++ files
  /\ booter' = [booter EXCEPT !.at = IF Tools \subseteq DOMAIN backups[booter.from]
                                     THEN "remove_tools" ELSE "rolled_back"]
  /\ UNCHANGED <<patchVars, backups, meta, boot, merger, history>>

RemoveToolsKeeping ==
  /\ booter.at = "remove_tools"
  /\ booter' = [booter EXCEPT !.at = "restore_tools"]
  /\ UNCHANGED <<patchVars, diskVars, merger, history>>

RemoveTools ==
  /\ booter.at = "remove_tools"
  /\ files' = [f \in File |-> IF f \in Tools THEN Absent ELSE files[f]]
  /\ booter' = [booter EXCEPT !.at = "restore_tools"]
  /\ UNCHANGED <<patchVars, backups, meta, boot, merger, history>>

RestoreTools ==
  /\ booter.at = "restore_tools"
  /\ files' = Existing(Restrict(backups[booter.from], Tools)) ++ files
  /\ booter' = [booter EXCEPT !.at = "rolled_back"]
  /\ UNCHANGED <<patchVars, backups, meta, boot, merger, history>>

SetStableOnceRestored ==
  /\ booter.at = "rolled_back"
  /\ boot' = "stable"
  /\ booter' = Idle
  /\ UNCHANGED <<patchVars, files, backups, meta, merger, history>>

SetRolledBack ==
  /\ booter.at = "rolled_back"
  /\ boot' = "rolled_back"
  /\ booter' = Idle
  /\ UNCHANGED <<patchVars, files, backups, meta, merger, history>>

VerificationBreaksOff ==
  /\ booter # Idle
  /\ breaks < MaxBreaks
  /\ breaks' = breaks + 1
  /\ booter' = Idle
  /\ boot' \in {boot} \cup (IF booter.at \in {"probe", "rolled_back"} THEN {"none"} ELSE {})
  /\ UNCHANGED <<patchVars, files, backups, meta, merger, merges, loose, good, before>>

----------------------------------------------------------------------------
Merging == \/ BackupToml \/ BackupTools \/ ApplyFile
           \/ WriteMeta \/ SetPending \/ PruneBackups

Verifying == \/ ReadBootStatus \/ ProbePasses \/ ProbeFails
             \/ RestoreToml \/ RemoveTools \/ RestoreTools \/ SetRolledBack

Next ==
  \/ \E p \in Patch : Propose(p) \/ FillMergeDirectory(p) \/ Approve(p)
  \/ BackupToml \/ BackupTools \/ ApplyFile
  \/ WriteMeta \/ SetPending \/ PruneBackups \/ MergeBreaksOff
  \/ ReadBootStatus \/ ProbePasses \/ ProbeFails
  \/ RestoreToml \/ RemoveTools \/ RestoreTools \/ SetRolledBack
  \/ VerificationBreaksOff

Spec == Init /\ [][Next]_vars

(* A merge and a verification run to their end or break off, and somebody  *)
(* runs the agent again.  Nothing makes anyone propose or review.          *)
FairSpec == Spec /\ WF_vars(Merging) /\ WF_vars(Verifying)

----------------------------------------------------------------------------
(* While a boot is pending, the backup that last_merge_meta names exists   *)
(* and is a complete and exact copy of what the merge began from, however  *)
(* many merges broke off and however the backups were pruned since --      *)
(* unless a merge was cut off in the very write of the file.               *)
PendingCanRollBack ==
  boot = "pending" /\ meta # Torn =>
    /\ meta \in DOMAIN backups
    /\ backups[meta] = before[meta]

(* A rollback from a backup leaves naqsha.toml and tools/ exactly as they  *)
(* were when that merge began: nothing that the merge added stays, also    *)
(* when earlier attempts at the rollback broke off.                        *)
RollbackUndoesMerge ==
  [][ booter.at = "rolled_back" /\ boot' = "rolled_back" /\ booter.from # NoBackup
        => Restrict(files, Tracked) = before[booter.from] ]_vars

(* Whatever is in the workspace came from patches that passed the gate or  *)
(* were approved by a reviewer, also what stale payloads and restored      *)
(* backups bring back.                                                     *)
OnlyGatedOrApproved ==
  \A f \in File : files[f] # Absent =>
    \A p \in files[f] : gate[p] = "passed" \/ p \in approved

(* A boot that is called stable is one whose files were probed as they     *)
(* are: no completed merge goes unnoticed, and after a rollback the        *)
(* restored files are probed too.  Only between the first file that a      *)
(* merge applies and its mark of the boot as pending is there a window,    *)
(* which a merge that breaks off there leaves open.                        *)
StableWasProbed == boot = "stable" /\ ~loose => files = good

(* A pending boot is resolved when the agent is run again, also when no    *)
(* backup can be chosen and when verifications break off on the way.       *)
PendingIsResolved == boot = "pending" ~> boot # "pending"

(* "No Reflection Patch can be merged without a Reliability Gate pass.     *)
(* There is no bypass." (docs/reflection.md:6)                             *)
NoBypass ==
  merger.at = "prune" => gate[merger.patch] = "passed"

(* "reverts to the last known good state if the runtime crashes or fails   *)
(* to boot" (CONTEXT.md:167): after a rollback, the files that the backup  *)
(* covers are those of the last boot that was good.                        *)
LastKnownGood ==
  boot = "rolled_back" /\ merger = Idle /\ booter = Idle
    => Restrict(files, Tracked) = Restrict(good, Tracked)
=============================================================================

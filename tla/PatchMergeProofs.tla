--------------------------- MODULE PatchMergeProofs ---------------------------
(* Theorems about PatchMerge for any patches, any files, any number of      *)
(* backups kept and any number of merges, reviews and breaks in any order.  *)
EXTENDS PatchMerge, FiniteSetTheorems, TLAPS

\* The files of a directory: some of a set, with their contents.
Some(set) == UNION {[S -> Content] : S \in SUBSET set}

MergeType ==
  \/ merger = Idle
  \/ merger \in [at : {"backup_toml", "backup_tools"}, patch : Patch, backup : Nat]
  \/ merger \in [at : {"apply", "pending", "prune"}, patch : Patch, backup : Nat,
                 left : SUBSET File]

BootType ==
  \/ booter = Idle
  \/ booter \in [at : {"probe"}, seen : {"pending", "rolled_back"}]
  \/ booter \in [at : {"restore_toml", "remove_tools", "restore_tools", "rolled_back"},
                 from : Nat]

Typed ==
  /\ files \in [File -> Content]
  /\ gate \in [Patch -> {"none", "passed", "failed"}]
  /\ payload \in [Patch -> Some(File) \cup {Absent}]
  /\ merges \in Nat
  /\ backups \in [DOMAIN backups -> Some(Tracked)] /\ DOMAIN backups \subseteq 1..merges
  /\ before \in Seq([Tracked -> Content]) /\ Len(before) = merges
  /\ meta \in 1..merges \cup {NoBackup, Torn}
  /\ MergeType /\ BootType

\* One thing at a time: a merge works on a payload that is there, on the newest
\* backup; a verification is on its way only while the boot is not settled.
Ordered ==
  /\ merger = Idle \/ booter = Idle
  /\ merger # Idle => merger.backup = merges /\ payload[merger.patch] # Absent
  /\ merger # Idle => merges > 0
  /\ merger.at = "apply" => merger.left \subseteq DOMAIN payload[merger.patch]
  /\ booter # Idle => boot \in {"pending", "rolled_back"}
  /\ booter.at \in {"restore_toml", "remove_tools", "restore_tools"}
       => booter.from \in DOMAIN backups
  /\ booter.at \in {"remove_tools", "restore_tools"} => Tools \subseteq DOMAIN backups[booter.from]

------------------------------------------------------------------------------
LEMMA Absence ==
  /\ Absent \notin Some(File)
  /\ Some(Tracked) \subseteq Some(File)
  /\ Tracked \subseteq File /\ Toml \in Tracked /\ Tools \subseteq Tracked
  /\ Toml \notin Tools /\ Tracked = {Toml} \cup Tools
BY PatchAssumption DEF Some, Content, File, Tracked

LEMMA PayloadType ==
  ASSUME Typed, NEW p \in Patch
  PROVE  MarkedToml(p) \in Some(File) /\ MarkedToml(p) # Absent
<1>1. MarkedToml(p) \in Some(File)
  <2>1. CASE files[Toml] = Absent
    <3>1. <<>> \in [{} -> Content]
      OBVIOUS
    <3> QED
      BY <2>1, <3>1 DEF MarkedToml, Some
  <2>2. CASE files[Toml] # Absent
    <3>1. files[Toml] \cup {p} \in Content
      BY <2>2, Absence DEF Typed, Content
    <3>2. MarkedToml(p) \in [{Toml} -> Content]
      BY <2>2, <3>1 DEF MarkedToml
    <3> QED
      BY <3>2, Absence DEF Some
  <2> QED
    BY <2>1, <2>2
<1> QED
  BY <1>1, Absence

LEMMA BeginTypes ==
  ASSUME Typed, NEW p \in Patch, BeginMerge(p)
  PROVE  /\ merges' \in Nat /\ merges' = merges + 1
         /\ 1..merges \subseteq 1..merges'
         /\ before' \in Seq([Tracked -> Content]) /\ Len(before') = merges'
         /\ before'[merges'] = Restrict(files, Tracked)
         /\ \A b \in 1..merges : before'[b] = before[b]
         /\ merger' = [at |-> "backup_toml", patch |-> p, backup |-> merges']
<1>1. Restrict(files, Tracked) \in [Tracked -> Content]
  BY Absence DEF Typed, Restrict
<1>2. merges \in Nat /\ 1..merges + 1 = 1..merges \cup {merges + 1} /\ merges + 1 \notin 1..merges
  BY DEF Typed
<1> QED
  BY <1>1, <1>2 DEF BeginMerge, Typed

LEMMA AddedBackup ==
  ASSUME Typed, NEW b \in 1..merges, NEW fs \in Some(Tracked),
         backups' = [c \in {b} |-> fs] ++ backups
  PROVE  /\ backups' \in [DOMAIN backups' -> Some(Tracked)]
         /\ DOMAIN backups' = DOMAIN backups \cup {b} /\ DOMAIN backups' \subseteq 1..merges
         /\ backups'[b] = fs
         /\ \A c \in DOMAIN backups : c # b => backups'[c] = backups[c]
<1>1. backups' = [c \in DOMAIN backups \cup {b} |-> IF c = b THEN fs ELSE backups[c]]
  BY DEF ++
<1>2. \A c \in DOMAIN backups : backups[c] \in Some(Tracked)
  BY DEF Typed
<1>3. DOMAIN backups \subseteq 1..merges
  BY DEF Typed
<1> QED
  BY <1>1, <1>2, <1>3

LEMMA ChosenType ==
  ASSUME Typed
  PROVE  ChosenBackup \in DOMAIN backups \cup {NoBackup}
<1>1. IsFiniteSet(DOMAIN backups)
  <2>1. merges \in Int /\ DOMAIN backups \subseteq 1..merges
    BY DEF Typed
  <2>2. IsFiniteSet(1..merges)
    BY <2>1, FS_Interval
  <2> QED
    BY <2>1, <2>2, FS_Subset
<1>2. CASE meta \in DOMAIN backups
  BY <1>2 DEF ChosenBackup
<1>3. CASE meta \notin DOMAIN backups /\ Cardinality(DOMAIN backups) = 1
  <2>1. DOMAIN backups # {}
    BY <1>3, FS_EmptySet
  <2>2. ChosenBackup = CHOOSE b \in DOMAIN backups : TRUE
    BY <1>3 DEF ChosenBackup
  <2> QED
    BY <2>1, <2>2
<1>4. CASE meta \notin DOMAIN backups /\ Cardinality(DOMAIN backups) # 1
  BY <1>4 DEF ChosenBackup
<1> QED
  BY <1>2, <1>3, <1>4

LEMMA InitTyped == Init => Typed /\ Ordered
<1> SUFFICES ASSUME Init PROVE Typed /\ Ordered
  OBVIOUS
<1>1. files \in [File -> Content]
  BY DEF Init, Content
<1>2. <<>> \in [DOMAIN <<>> -> Some(Tracked)] /\ DOMAIN <<>> \subseteq 1..0
  OBVIOUS
<1>3. Typed
  BY <1>1, <1>2 DEF Init, Typed, MergeType, BootType
<1> QED
  BY <1>3 DEF Init, Ordered, Idle
LEMMA NextTyped ==
  ASSUME Typed, Ordered, Next PROVE Typed' /\ Ordered'
<1> USE DEF Typed, Ordered, MergeType, BootType, Idle
<1>1. CASE \E p \in Patch : Propose(p)
  <2> PICK p \in Patch : Propose(p)
    BY <1>1
  <2>1. CASE BeginMerge(p) /\ payload' = [payload EXCEPT ![p] = MarkedToml(p)]
    BY <2>1, BeginTypes, PayloadType DEF Propose, Quiet, diskVars
  <2>2. CASE UNCHANGED <<payload, merger, merges, before>>
    BY <2>2 DEF Propose, Quiet, diskVars
  <2> QED
    BY <2>1, <2>2 DEF Propose
<1>2. CASE \E p \in Patch : FillMergeDirectory(p)
  <2> PICK p \in Patch : FillMergeDirectory(p)
    BY <1>2
  <2>1. PICK fs \in SUBSET File : payload' = [payload EXCEPT ![p] = [f \in fs |-> {p}]]
    BY DEF FillMergeDirectory
  <2>2. [f \in fs |-> {p}] \in [fs -> Content]
    BY DEF Content
  <2>3. [f \in fs |-> {p}] \in Some(File)
    BY <2>2 DEF Some
  <2> QED
    BY <2>1, <2>3 DEF FillMergeDirectory, Quiet, diskVars, history
<1>3. CASE \E p \in Patch : Approve(p)
  <2> PICK p \in Patch : Approve(p)
    BY <1>3
  <2>1. BeginMerge(p) /\ Quiet /\ UNCHANGED <<gate, diskVars, booter>>
    BY DEF Approve
  <2>2. payload' \in [Patch -> Some(File) \cup {Absent}] /\ payload'[p] # Absent
    BY PayloadType DEF Approve
  <2> QED
    BY <2>1, <2>2, BeginTypes DEF Quiet, diskVars
<1>4. CASE BackupToml
  <2>1. merger.backup = merges /\ merger.patch \in Patch /\ merges \in Nat /\ merges > 0
        /\ booter = Idle
    BY <1>4 DEF BackupToml
  <2>2. Restrict(files, {Toml}) \in Some(Tracked)
    <3>1. Restrict(files, {Toml}) \in [{Toml} -> Content]
      BY Absence DEF Restrict
    <3> QED
      BY <3>1, Absence DEF Some
  <2>3. backups' \in [DOMAIN backups' -> Some(Tracked)] /\ DOMAIN backups' \subseteq 1..merges
    <3>1. merger.backup \in 1..merges
      BY <2>1
    <3> QED
      BY <1>4, <2>2, <3>1, AddedBackup DEF BackupToml
  <2> QED
    BY <1>4, <2>1, <2>3 DEF BackupToml, patchVars, history
<1>5. CASE BackupTools
  <2>1. merger.backup = merges /\ merger.patch \in Patch /\ merges > 0 /\ booter = Idle
        /\ payload[merger.patch] \in Some(File)
    BY <1>5 DEF BackupTools
  <2>2. DOMAIN payload[merger.patch] \in SUBSET File
    BY <2>1 DEF Some
  <2>3. ASSUME NEW fs \in Some(Tracked) PROVE fs ++ Restrict(files, Tools) \in Some(Tracked)
    <3>1. PICK S \in SUBSET Tracked : fs \in [S -> Content]
      BY DEF Some
    <3>2. fs ++ Restrict(files, Tools) \in [S \cup Tools -> Content]
      BY <3>1, Absence DEF ++, Restrict
    <3> QED
      BY <3>1, <3>2, Absence DEF Some
  <2>4. backups' \in [DOMAIN backups' -> Some(Tracked)] /\ DOMAIN backups' \subseteq 1..merges
    BY <1>5, <2>3 DEF BackupTools
  <2> QED
    BY <1>5, <2>1, <2>2, <2>4 DEF BackupTools, patchVars, history
<1>6. CASE ApplyFile
  <2>1. PICK f \in merger.left :
          /\ files' = [files EXCEPT ![f] = payload[merger.patch][f]]
          /\ merger' = [merger EXCEPT !.left = @ \ {f}]
    BY <1>6 DEF ApplyFile
  <2>2. merger \in [at : {"apply", "pending", "prune"}, patch : Patch, backup : Nat,
                    left : SUBSET File] /\ merger.at = "apply"
    BY <1>6 DEF ApplyFile
  <2>3. payload[merger.patch][f] \in Content
    BY <2>1, <2>2 DEF Some
  <2>4. /\ merger' \in [at : {"apply", "pending", "prune"}, patch : Patch, backup : Nat,
                        left : SUBSET File]
        /\ merger'.patch = merger.patch /\ merger'.backup = merger.backup
        /\ merger'.left \subseteq merger.left
    BY <2>1, <2>2
  <2> QED
    BY <1>6, <2>1, <2>2, <2>3, <2>4 DEF ApplyFile, patchVars
<1>7. CASE WriteMeta \/ SetPending
  <2>1. merger \in [at : {"apply", "pending", "prune"}, patch : Patch, backup : Nat,
                    left : SUBSET File] /\ merger # Idle
    BY <1>7 DEF WriteMeta, SetPending
  <2>2. /\ merger' \in [at : {"pending", "prune"}, patch : Patch, backup : Nat,
                        left : SUBSET File]
        /\ merger'.patch = merger.patch /\ merger'.backup = merger.backup
    BY <1>7, <2>1 DEF WriteMeta, SetPending
  <2> QED
    BY <1>7, <2>1, <2>2 DEF WriteMeta, SetPending, patchVars, history
<1>8. CASE PruneBackups
  <2>1. Newest(DOMAIN backups, MaxBackups) \subseteq DOMAIN backups
    BY DEF Newest
  <2>2. backups' \in [DOMAIN backups' -> Some(Tracked)] /\ DOMAIN backups' \subseteq 1..merges
    BY <1>8, <2>1 DEF PruneBackups, Restrict
  <2> QED
    BY <1>8, <2>2 DEF PruneBackups, patchVars, history
<1>9. CASE MergeBreaksOff
  <2>1. <<>> \in Some(Tracked)
    <3>1. <<>> \in [{} -> Content]
      OBVIOUS
    <3> QED
      BY <3>1 DEF Some
  <2>2. merger.backup = merges /\ merges \in Nat /\ merges > 0 /\ booter = Idle
    BY <1>9 DEF MergeBreaksOff
  <2>3. backups' \in [DOMAIN backups' -> Some(Tracked)] /\ DOMAIN backups' \subseteq 1..merges
    <3>1. merger.backup \in 1..merges
      BY <2>2
    <3>2. backups' = backups \/ backups' = [b \in {merger.backup} |-> <<>>] ++ backups
      BY <1>9 DEF MergeBreaksOff
    <3> QED
      BY <2>1, <3>1, <3>2, AddedBackup
  <2>4. meta' \in 1..merges \cup {NoBackup, Torn}
    BY <1>9 DEF MergeBreaksOff
  <2> QED
    BY <1>9, <2>2, <2>3, <2>4 DEF MergeBreaksOff, patchVars
<1>10. CASE ReadBootStatus \/ ProbePasses
  BY <1>10 DEF ReadBootStatus, ProbePasses, Quiet, patchVars, diskVars, history
<1>11. CASE ProbeFails
  <2>1. ChosenBackup \in DOMAIN backups \cup {NoBackup} /\ ChosenBackup \in Nat
    BY ChosenType DEF NoBackup
  <2>2. booter \in [at : {"probe"}, seen : {"pending", "rolled_back"}]
    BY <1>11 DEF ProbeFails
  <2>3. \/ booter' = Idle
        \/ booter' = [at |-> "rolled_back", from |-> NoBackup]
        \/ booter' = [at |-> "restore_toml", from |-> ChosenBackup] /\ ChosenBackup # NoBackup
    BY <1>11, <2>2 DEF ProbeFails
  <2>4. BootType' /\ (booter' # Idle => boot' \in {"pending", "rolled_back"} /\ merger = Idle)
    BY <1>11, <2>1, <2>2, <2>3 DEF ProbeFails, diskVars, NoBackup
  <2>5. /\ booter'.at = "restore_toml" => booter'.from \in DOMAIN backups
        /\ booter'.at \notin {"remove_tools", "restore_tools"}
    BY <2>1, <2>3
  <2> QED
    BY <1>11, <2>4, <2>5 DEF ProbeFails, patchVars, diskVars, history
<1>12. CASE RestoreToml \/ RemoveTools \/ RestoreTools
  <2>1. booter \in [at : {"restore_toml", "remove_tools", "restore_tools", "rolled_back"},
                    from : Nat] /\ booter # Idle
    BY <1>12 DEF RestoreToml, RemoveTools, RestoreTools
  <2>2. /\ booter' \in [at : {"remove_tools", "restore_tools", "rolled_back"}, from : Nat]
        /\ booter'.from = booter.from
        /\ booter'.at = "remove_tools" => Tools \subseteq DOMAIN backups[booter.from]
    BY <1>12, <2>1 DEF RestoreToml, RemoveTools, RestoreTools
  <2>3. files' \in [File -> Content]
    <3>1. CASE RestoreToml
      <4> DEFINE fs == backups[booter.from]
      <4>1. fs \in Some(Tracked)
        BY <3>1 DEF RestoreToml
      <4>2. \A f \in DOMAIN fs : f \in File /\ fs[f] \in Content
        BY <4>1, Absence DEF Some
      <4>3. files' = [f \in ({Toml} \cap DOMAIN fs) \cup File |->
                       IF f \in {Toml} \cap DOMAIN fs THEN fs[f] ELSE files[f]]
        BY <3>1 DEF RestoreToml, ++, Restrict
      <4> HIDE DEF fs
      <4> QED
        BY <4>2, <4>3
    <3>2. CASE RemoveTools
      BY <3>2 DEF RemoveTools, Content
    <3>3. CASE RestoreTools
      <4> DEFINE fs == backups[booter.from]
                 there == {f \in Tools : fs[f] # Absent}
      <4>1. fs \in Some(Tracked) /\ Tools \subseteq DOMAIN fs
        BY <3>3 DEF RestoreTools
      <4>2. \A f \in Tools : f \in File /\ fs[f] \in Content
        BY <4>1, Absence DEF Some
      <4>3. files' = [f \in there \cup File |-> IF f \in there THEN fs[f] ELSE files[f]]
        BY <3>3 DEF RestoreTools, ++, Restrict, Existing
      <4> HIDE DEF fs
      <4> QED
        BY <4>2, <4>3
    <3> QED
      BY <1>12, <3>1, <3>2, <3>3
  <2> QED
    BY <1>12, <2>1, <2>2, <2>3 DEF RestoreToml, RemoveTools, RestoreTools, patchVars, history
<1>13. CASE SetRolledBack \/ VerificationBreaksOff
  BY <1>13 DEF SetRolledBack, VerificationBreaksOff, patchVars, history
<1> QED
  BY <1>1, <1>2, <1>3, <1>4, <1>5, <1>6, <1>7, <1>8, <1>9, <1>10, <1>11, <1>12, <1>13 DEF Next
LEMMA TypesHold == Spec => [](Typed /\ Ordered)
<1>1. Typed /\ Ordered /\ UNCHANGED vars => Typed' /\ Ordered'
  BY DEF Typed, Ordered, MergeType, BootType, vars, patchVars, diskVars, history
<1> QED
  BY <1>1, InitTyped, NextTyped, PTL DEF Spec

------------------------------------------------------------------------------
(* Probes.                                                                  *)

(* Between a completed merge or rollback and the word "stable" lies a probe *)
(* of the files as they are, for any order of proposals, reviews, merges,   *)
(* verifications and breaks.                                                *)
THEOREM StableBootsWereProbed == Spec => []StableWasProbed
<1>1. Init => StableWasProbed
  BY DEF Init, StableWasProbed
<1>2. StableWasProbed /\ UNCHANGED vars => StableWasProbed'
  BY DEF StableWasProbed, vars, diskVars, history
<1>3. Ordered /\ StableWasProbed /\ Next => StableWasProbed'
  BY DEF Ordered, StableWasProbed, Idle, Next, Propose, FillMergeDirectory, Approve, BeginMerge,
     BackupToml, BackupTools, ApplyFile, WriteMeta, SetPending, PruneBackups, MergeBreaksOff,
     ReadBootStatus, ProbePasses, ProbeFails, RestoreToml, RemoveTools, RestoreTools,
     SetRolledBack, VerificationBreaksOff, diskVars, history
<1> QED
  BY <1>1, <1>2, <1>3, TypesHold, PTL DEF Spec

------------------------------------------------------------------------------
(* Where the contents of the workspace come from.                           *)

Vouched(p) == gate[p] = "passed" \/ p \in approved
Clean(fs) == \A f \in DOMAIN fs : \A p \in Patch : fs[f] # Absent /\ p \in fs[f] => Vouched(p)

\* Files, backups and payloads: a payload may add its own patch to what is
\* vouched for, and is merged only once that patch is.
Gated ==
  /\ Clean(files)
  /\ \A b \in DOMAIN backups : Clean(backups[b])
  /\ \A p \in Patch : payload[p] # Absent =>
       \A f \in DOMAIN payload[p] : \A q \in Patch :
         payload[p][f] # Absent /\ q \in payload[p][f] => q = p \/ Vouched(q)
  /\ merger # Idle => Vouched(merger.patch)

LEMMA NextVouched ==
  ASSUME Typed, Next, NEW p \in Patch, Vouched(p) PROVE Vouched(p)'
BY DEF Typed, Vouched, Next, Propose, FillMergeDirectory, Approve, BackupToml, BackupTools,
   ApplyFile, WriteMeta, SetPending, PruneBackups, MergeBreaksOff, ReadBootStatus, ProbePasses,
   ProbeFails, RestoreToml, RemoveTools, RestoreTools, SetRolledBack, VerificationBreaksOff,
   patchVars

LEMMA CleanStays ==
  ASSUME Typed, Next, NEW fs, Clean(fs) PROVE Clean(fs)'
BY NextVouched DEF Clean

LEMMA PayloadGated ==
  ASSUME Typed, Gated, NEW p \in Patch
  PROVE  \A f \in DOMAIN MarkedToml(p) : \A q \in Patch :
           MarkedToml(p)[f] # Absent /\ q \in MarkedToml(p)[f] => q = p \/ Vouched(q)
BY Absence DEF Typed, Gated, Clean, MarkedToml

LEMMA PayloadStaysGated ==
  ASSUME Typed, Gated, Next,
         \A p \in Patch : payload'[p] = payload[p]
                            \/ payload'[p] = MarkedToml(p)
                            \/ \E fs \in SUBSET File : payload'[p] = [f \in fs |-> {p}]
  PROVE  \A p \in Patch : payload'[p] # Absent =>
           \A f \in DOMAIN payload'[p] : \A q \in Patch :
             payload'[p][f] # Absent /\ q \in payload'[p][f] => q = p \/ Vouched(q)'
<1> SUFFICES ASSUME NEW p \in Patch, payload'[p] # Absent, NEW f \in DOMAIN payload'[p],
                    NEW q \in Patch, payload'[p][f] # Absent, q \in payload'[p][f]
             PROVE  q = p \/ Vouched(q)'
  OBVIOUS
<1>1. CASE payload'[p] = payload[p]
  BY <1>1, NextVouched DEF Gated
<1>2. CASE payload'[p] = MarkedToml(p)
  BY <1>2, PayloadGated, NextVouched
<1>3. CASE \E fs \in SUBSET File : payload'[p] = [g \in fs |-> {p}]
  BY <1>3
<1> QED
  BY <1>1, <1>2, <1>3

LEMMA NextGated ==
  ASSUME Typed, Ordered, Typed', Gated, Next PROVE Gated'
<1>1. \A fs : Clean(fs) => Clean(fs)'
  BY CleanStays
<1>2. \A p \in Patch : payload'[p] = payload[p]
                         \/ payload'[p] = MarkedToml(p)
                         \/ \E fs \in SUBSET File : payload'[p] = [f \in fs |-> {p}]
  BY DEF Typed, Next, Propose, FillMergeDirectory, Approve, BackupToml, BackupTools,
     ApplyFile, WriteMeta, SetPending, PruneBackups, MergeBreaksOff, ReadBootStatus, ProbePasses,
     ProbeFails, RestoreToml, RemoveTools, RestoreTools, SetRolledBack, VerificationBreaksOff,
     patchVars
<1>3. (\A p \in Patch : payload[p] # Absent =>
         \A f \in DOMAIN payload[p] : \A q \in Patch :
           payload[p][f] # Absent /\ q \in payload[p][f] => q = p \/ Vouched(q))'
  BY <1>2, PayloadStaysGated
<1>4. (merger # Idle => Vouched(merger.patch))'
  <2>1. CASE \E p \in Patch : Propose(p)
    BY <2>1, NextVouched DEF Typed, Ordered, Gated, Propose, BeginMerge, EffectiveAutoMerge, Vouched,
                             Quiet
  <2>2. CASE \E p \in Patch : Approve(p)
    BY <2>2 DEF Approve, BeginMerge, Vouched
  <2>3. CASE BackupToml \/ BackupTools \/ ApplyFile \/ WriteMeta \/ SetPending
    <3>1. merger # Idle /\ merger.patch \in Patch /\ merger'.patch = merger.patch
      BY <2>3 DEF Typed, MergeType, Idle, BackupToml, BackupTools, ApplyFile, WriteMeta, SetPending
    <3> QED
      BY <3>1, NextVouched DEF Gated
  <2>4. CASE PruneBackups \/ MergeBreaksOff
    BY <2>4 DEF PruneBackups, MergeBreaksOff
  <2>5. CASE ~(\/ \E p \in Patch : Propose(p) \/ Approve(p)
               \/ BackupToml \/ BackupTools \/ ApplyFile \/ WriteMeta \/ SetPending
               \/ PruneBackups \/ MergeBreaksOff)
    <3>1. merger' = merger
      BY <2>5 DEF Next, FillMergeDirectory, ReadBootStatus, ProbePasses, ProbeFails, RestoreToml,
         RemoveTools, RestoreTools, SetRolledBack, VerificationBreaksOff
    <3>2. merger # Idle => merger.patch \in Patch
      BY DEF Typed, MergeType
    <3> QED
      BY <3>1, <3>2, NextVouched DEF Gated
  <2> QED
    BY <2>1, <2>2, <2>3, <2>4, <2>5
<1>5. Clean(files)'
  <2>1. CASE files' = files
    BY <1>1, <2>1 DEF Gated, Clean
  <2>2. CASE ApplyFile
    <3>1. PICK f \in merger.left : files' = [files EXCEPT ![f] = payload[merger.patch][f]]
      BY <2>2 DEF ApplyFile
    <3>2. /\ merger # Idle /\ merger.patch \in Patch /\ Vouched(merger.patch)
          /\ payload[merger.patch] # Absent /\ f \in DOMAIN payload[merger.patch]
      BY <2>2, <3>1 DEF ApplyFile, Typed, MergeType, Ordered, Gated, Idle
    <3>3. \A q \in Patch : payload[merger.patch][f] # Absent /\ q \in payload[merger.patch][f]
                             => Vouched(q)
      BY <3>2 DEF Gated
    <3>4. \A g \in File, q \in Patch : files'[g] # Absent /\ q \in files'[g] => Vouched(q)
      BY <3>1, <3>3 DEF Gated, Clean, Typed
    <3>5. DOMAIN files' = File
      BY DEF Typed
    <3> QED
      BY <3>4, <3>5, NextVouched DEF Clean
  <2>3. CASE RestoreToml \/ RemoveTools \/ RestoreTools
    <3> DEFINE fs == backups[booter.from]
    <3>1. \A f \in File : \/ files'[f] = files[f] \/ files'[f] = Absent
                          \/ f \in DOMAIN fs /\ files'[f] = fs[f]
      <4>1. CASE RestoreToml
        BY <4>1 DEF RestoreToml, ++, Restrict, Typed
      <4>2. CASE RemoveTools
        BY <4>2 DEF RemoveTools
      <4>3. CASE RestoreTools
        <5>1. Tools \subseteq DOMAIN fs
          BY <4>3 DEF RestoreTools, Ordered
        <5> QED
          BY <4>3, <5>1 DEF RestoreTools, ++, Restrict, Existing, Typed
      <4> QED
        BY <2>3, <4>1, <4>2, <4>3
    <3>2. booter.from \in DOMAIN backups
      BY <2>3 DEF RestoreToml, RemoveTools, RestoreTools, Ordered
    <3>3. Clean(fs) /\ Clean(files)
      BY <3>2 DEF Gated
    <3>4. DOMAIN files' = File /\ DOMAIN files = File
      BY DEF Typed
    <3> HIDE DEF fs
    <3>5. \A g \in File, q \in Patch : files'[g] # Absent /\ q \in files'[g] => Vouched(q)
      BY <3>1, <3>3, <3>4 DEF Clean
    <3> QED
      BY <3>4, <3>5, NextVouched DEF Clean
  <2>4. files' = files \/ ApplyFile \/ RestoreToml \/ RemoveTools \/ RestoreTools
    BY DEF Next, Propose, FillMergeDirectory, Approve, BackupToml, BackupTools, WriteMeta,
       SetPending, PruneBackups, MergeBreaksOff, ReadBootStatus, ProbePasses, ProbeFails,
       SetRolledBack, VerificationBreaksOff, diskVars
  <2> QED
    BY <2>1, <2>2, <2>3, <2>4
<1>6. (\A b \in DOMAIN backups : Clean(backups[b]))'
  <2>1. CASE backups' = backups
    BY <1>1, <2>1 DEF Gated
  <2>2. CASE BackupToml \/ MergeBreaksOff
    <3>1. backups' = backups \/ \E fs \in {<<>>, Restrict(files, {Toml})} :
                                  backups' = [b \in {merger.backup} |-> fs] ++ backups
      BY <2>2 DEF BackupToml, MergeBreaksOff
    <3>2. \A fs \in {<<>>, Restrict(files, {Toml})} : Clean(fs)
      <4>1. Clean(<<>>)
        BY DEF Clean
      <4>2. Clean(Restrict(files, {Toml}))
        BY Absence DEF Clean, Restrict, Gated, Typed
      <4> QED
        BY <4>1, <4>2
    <3>3. \A b \in DOMAIN backups' : Clean(backups'[b])
      BY <3>1, <3>2 DEF Gated, ++
    <3> QED
      BY <1>1, <3>3
  <2>3. CASE BackupTools
    <3>1. \A fs : Clean(fs) => Clean(fs ++ Restrict(files, Tools))
      BY Absence DEF Clean, Restrict, ++, Gated, Typed
    <3>2. \A b \in DOMAIN backups' : Clean(backups'[b])
      BY <2>3, <3>1 DEF BackupTools, Gated, Typed
    <3> QED
      BY <1>1, <3>2
  <2>4. CASE PruneBackups
    <3>1. \A b \in DOMAIN backups' : b \in DOMAIN backups /\ backups'[b] = backups[b]
      BY <2>4 DEF PruneBackups, Restrict, Newest
    <3> QED
      BY <1>1, <3>1 DEF Gated
  <2>5. backups' = backups \/ BackupToml \/ MergeBreaksOff \/ BackupTools \/ PruneBackups
    BY DEF Next, Propose, FillMergeDirectory, Approve, ApplyFile, WriteMeta,
       SetPending, ReadBootStatus, ProbePasses, ProbeFails, RestoreToml, RemoveTools,
       RestoreTools, SetRolledBack, VerificationBreaksOff, diskVars
  <2> QED
    BY <2>1, <2>2, <2>3, <2>4, <2>5
<1> QED
  BY <1>3, <1>4, <1>5, <1>6 DEF Gated

(* Nothing in the workspace comes from a patch that neither passed the gate *)
(* nor was approved, whatever payloads were filled in, merges broke off and *)
(* backups were restored.                                                   *)
THEOREM OnlyVouchedPatches == Spec => []OnlyGatedOrApproved
<1>1. Init => Gated
  BY DEF Init, Gated, Clean
<1>2. Gated /\ UNCHANGED vars => Gated'
  BY DEF Gated, Clean, Vouched, vars, patchVars, diskVars
<1>3. Typed /\ Ordered /\ Typed' /\ Gated /\ Next => Gated'
  BY NextGated
<1>4. Typed /\ Gated => OnlyGatedOrApproved
  BY DEF Typed, Content, Gated, Clean, Vouched, OnlyGatedOrApproved
<1> QED
  BY <1>1, <1>2, <1>3, <1>4, TypesHold, PTL DEF Spec
------------------------------------------------------------------------------
(* Backups.                                                                 *)

Complete(b) == b \in DOMAIN backups /\ backups[b] = before[b]

\* What a merge has backed up so far, ...
BackedUp ==
  /\ merger.at \in {"backup_toml", "backup_tools"} =>
       before[merges] = Restrict(files, Tracked) /\ meta # merges
  /\ merger.at = "backup_toml" => merges \notin DOMAIN backups
  /\ merger.at = "backup_tools" =>
       merges \in DOMAIN backups /\ backups[merges] = Restrict(files, {Toml})
  /\ merger.at \in {"apply", "pending", "prune"} => Complete(merges)
  /\ merger.at \in {"pending", "prune"} => meta = merges

\* ... what a pending boot can be rolled back to, ...
Recoverable ==
  /\ meta \in DOMAIN backups => Complete(meta)
  /\ boot = "pending" => \E b \in DOMAIN backups : Complete(b)
  /\ boot = "pending" /\ meta # Torn => meta \in DOMAIN backups

\* ... and how far a rollback has come.
Restored ==
  /\ booter.at = "probe" => boot = booter.seen
  /\ booter.at \in {"restore_toml", "remove_tools", "restore_tools"} => Complete(booter.from)
  /\ booter.at \in {"remove_tools", "restore_tools"} => files[Toml] = before[booter.from][Toml]
  /\ booter.at = "restore_tools" => \A f \in Tools : files[f] = Absent
  /\ booter.at = "rolled_back" /\ booter.from # NoBackup
       => Restrict(files, Tracked) = before[booter.from]

LEMMA NextBackedUp ==
  ASSUME Typed, Ordered, BackedUp, Next PROVE BackedUp'
<1> USE DEF BackedUp
<1>1. CASE \E p \in Patch : Propose(p) \/ Approve(p)
  <2>1. PICK p \in Patch : Propose(p) \/ Approve(p)
    BY <1>1
  <2>2. CASE BeginMerge(p)
    <3>1. /\ merger' = [at |-> "backup_toml", patch |-> p, backup |-> merges']
          /\ before'[merges'] = Restrict(files, Tracked) /\ merges' = merges + 1
          /\ merges \in Nat
      BY <2>2, BeginTypes DEF Typed
    <3>2. UNCHANGED <<files, backups, meta>>
      BY <2>1 DEF Propose, Approve, diskVars
    <3>3. merges + 1 \notin DOMAIN backups /\ meta # merges + 1
      BY <3>1 DEF Typed, NoBackup, Torn
    <3> QED
      BY <3>1, <3>2, <3>3
  <2>3. CASE ~BeginMerge(p)
    <3>1. UNCHANGED <<merger, merges, before, diskVars>>
      BY <2>1, <2>3 DEF Propose, Approve
    <3> QED
      BY <3>1 DEF diskVars, Complete, Restrict
  <2> QED
    BY <2>2, <2>3
<1>2. CASE BackupToml
  <2>1. merger.at = "backup_toml" /\ merger.backup = merges /\ merges \in 1..merges
    BY <1>2 DEF BackupToml, Ordered, Typed, Idle
  <2>2. Restrict(files, {Toml}) \in Some(Tracked)
    <3>1. Restrict(files, {Toml}) \in [{Toml} -> Content]
      BY Absence DEF Restrict, Typed
    <3> QED
      BY <3>1, Absence DEF Some
  <2>3. merges \in DOMAIN backups' /\ backups'[merges] = Restrict(files, {Toml})
    BY <1>2, <2>1, <2>2, AddedBackup DEF BackupToml
  <2>4. merger'.at = "backup_tools"
    BY <1>2, <2>1 DEF BackupToml, Typed, MergeType, Idle
  <2>5. UNCHANGED <<files, before, meta, merges>>
    BY <1>2 DEF BackupToml, history
  <2> QED
    BY <2>1, <2>3, <2>4, <2>5 DEF Restrict
<1>3. CASE BackupTools
  <2>1. /\ merger.at = "backup_tools" /\ merger.backup = merges
        /\ UNCHANGED <<files, before, meta, merges>>
        /\ merges \in DOMAIN backups /\ backups[merges] = Restrict(files, {Toml})
        /\ before[merges] = Restrict(files, Tracked)
    BY <1>3 DEF BackupTools, history, Ordered, Idle
  <2>2. backups' = [backups EXCEPT ![merges] = @ ++ Restrict(files, Tools)]
    BY <1>3, <2>1 DEF BackupTools
  <2>3. backups'[merges] = Restrict(files, {Toml}) ++ Restrict(files, Tools)
    BY <2>1, <2>2 DEF Typed
  <2>4. Restrict(files, {Toml}) ++ Restrict(files, Tools) = Restrict(files, Tracked)
    BY Absence DEF Restrict, ++
  <2>5. Complete(merges)'
    BY <2>1, <2>2, <2>3, <2>4 DEF Complete, Typed
  <2>6. merger'.at = "apply"
    BY <1>3 DEF BackupTools
  <2> QED
    BY <2>1, <2>5, <2>6
<1>4. CASE ApplyFile \/ WriteMeta \/ SetPending
  <2>1. /\ merger.at \in {"apply", "pending"} /\ merger # Idle
        /\ UNCHANGED <<backups, before, merges>>
    BY <1>4 DEF ApplyFile, WriteMeta, SetPending, history, Idle
  <2>2. Complete(merges)'
    BY <2>1 DEF Complete
  <2>3. merger'.at \in {"apply", "pending", "prune"} /\ (merger'.at # "apply" => meta' = merges)
    BY <1>4, <2>1 DEF ApplyFile, WriteMeta, SetPending, Typed, MergeType, Ordered
  <2> QED
    BY <2>1, <2>2, <2>3
<1>5. CASE PruneBackups \/ MergeBreaksOff
  BY <1>5 DEF PruneBackups, MergeBreaksOff, Idle
<1>6. CASE \E p \in Patch : FillMergeDirectory(p)
  BY <1>6 DEF FillMergeDirectory, diskVars, history, Complete, Restrict
<1>7. CASE ReadBootStatus \/ ProbePasses \/ ProbeFails
  BY <1>7 DEF ReadBootStatus, ProbePasses, ProbeFails, diskVars, history, Complete, Restrict
<1>8. CASE RestoreToml \/ RemoveTools \/ RestoreTools \/ SetRolledBack \/ VerificationBreaksOff
  <2>1. merger' = Idle
    BY <1>8 DEF RestoreToml, RemoveTools, RestoreTools, SetRolledBack, VerificationBreaksOff,
                Ordered, Idle
  <2> QED
    BY <2>1 DEF Idle
<1> QED
  BY <1>1, <1>2, <1>3, <1>4, <1>5, <1>6, <1>7, <1>8 DEF Next

\* Backups that were complete stay so; only pruning takes any away, and it
\* leaves the newest.
LEMMA CompleteStays ==
  ASSUME Typed, Ordered, BackedUp, Next, ~PruneBackups, NEW b, Complete(b)
  PROVE  Complete(b)'
<1>1. b \in DOMAIN backups /\ b \in 1..merges /\ backups[b] = before[b]
  BY DEF Complete, Typed
<1>2. before'[b] = before[b]
  <2>1. CASE before' = before
    BY <2>1
  <2>2. CASE \E p \in Patch : BeginMerge(p)
    BY <1>1, <2>2, BeginTypes
  <2> QED
    BY <2>1, <2>2 DEF Next, Propose, FillMergeDirectory, Approve, BackupToml, BackupTools,
       ApplyFile, WriteMeta, SetPending, PruneBackups, MergeBreaksOff, ReadBootStatus,
       ProbePasses, ProbeFails, RestoreToml, RemoveTools, RestoreTools, SetRolledBack,
       VerificationBreaksOff, history
<1>3. b \in DOMAIN backups' /\ backups'[b] = backups[b]
  <2>1. CASE backups' = backups
    BY <1>1, <2>1
  <2>2. CASE merger.at = "backup_toml" /\ \E fs : backups' = [c \in {merger.backup} |-> fs] ++ backups
    <3>1. merger.backup = merges /\ merges \notin DOMAIN backups
      BY <2>2 DEF Ordered, BackedUp, Idle
    <3> QED
      BY <1>1, <2>2, <3>1 DEF ++
  <2>3. CASE BackupTools
    <3>1. merger.backup = merges /\ merges \in DOMAIN backups
          /\ backups[merges] = Restrict(files, {Toml})
          /\ before[merges] = Restrict(files, Tracked)
      BY <2>3 DEF BackupTools, Ordered, BackedUp, Idle
    <3>2. Restrict(files, {Toml}) ++ Restrict(files, Tools) = Restrict(files, Tracked)
      BY Absence DEF Restrict, ++
    <3>3. backups'[merges] = Restrict(files, {Toml}) ++ Restrict(files, Tools)
      BY <2>3, <3>1 DEF BackupTools, Typed
    <3>4. DOMAIN backups' = DOMAIN backups /\ (b # merges => backups'[b] = backups[b])
      BY <2>3, <3>1 DEF BackupTools, Typed
    <3> QED
      BY <1>1, <3>1, <3>2, <3>3, <3>4
  <2> QED
    BY <2>1, <2>2, <2>3 DEF Next, Propose, FillMergeDirectory, Approve, BackupToml, BackupTools,
       ApplyFile, WriteMeta, SetPending, PruneBackups, MergeBreaksOff, ReadBootStatus,
       ProbePasses, ProbeFails, RestoreToml, RemoveTools, RestoreTools, SetRolledBack,
       VerificationBreaksOff, diskVars
<1> QED
  BY <1>1, <1>2, <1>3 DEF Complete

LEMMA PruningKeepsTheNewest ==
  ASSUME Typed, PruneBackups, merges \in DOMAIN backups
  PROVE  merges \in DOMAIN backups' /\ backups'[merges] = backups[merges]
<1>1. {d \in DOMAIN backups : d > merges} = {}
  BY DEF Typed
<1>2. Cardinality({d \in DOMAIN backups : d > merges}) < MaxBackups
  BY <1>1, FS_EmptySet, PatchAssumption
<1>3. merges \in Newest(DOMAIN backups, MaxBackups)
  BY <1>2 DEF Newest
<1> QED
  BY <1>3 DEF PruneBackups, Restrict
LEMMA NextRecoverable ==
  ASSUME Typed, Ordered, BackedUp, Recoverable, Next PROVE Recoverable'
<1> USE DEF Recoverable
<1>1. CASE PruneBackups
  <2>1. /\ merger.at = "prune" /\ Complete(merges) /\ meta = merges
        /\ UNCHANGED <<before, meta, boot, merges>>
    BY <1>1 DEF PruneBackups, BackedUp, history
  <2>2. Complete(merges)'
    BY <1>1, <2>1, PruningKeepsTheNewest DEF Complete
  <2> QED
    BY <2>1, <2>2 DEF Complete
<1>2. CASE WriteMeta
  <2>1. merger.at = "apply" /\ meta' = merges /\ Complete(merges) /\ UNCHANGED <<boot, merges>>
    BY <1>2 DEF WriteMeta, BackedUp, Ordered, Idle, history
  <2>2. Complete(merges)' /\ ~PruneBackups
    BY <1>2, <2>1, CompleteStays DEF WriteMeta, PruneBackups
  <2> QED
    BY <2>1, <2>2 DEF Complete
<1>3. CASE SetPending
  <2>1. merger.at = "pending" /\ meta' = merges /\ Complete(merges) /\ UNCHANGED merges
    BY <1>3 DEF SetPending, BackedUp
  <2>2. Complete(merges)'
    BY <1>3, <2>1, CompleteStays DEF SetPending, PruneBackups
  <2> QED
    BY <2>1, <2>2 DEF Complete
<1>4. CASE MergeBreaksOff /\ ~PruneBackups
  <2>1. \A b : Complete(b) => Complete(b)'
    BY <1>4, CompleteStays
  <2>2. /\ boot' = "pending" => boot = "pending"
        /\ meta' = meta \/ meta' = Torn
        /\ \A b \in DOMAIN backups' : b \in DOMAIN backups \/ b = merger.backup
    BY <1>4 DEF MergeBreaksOff, ++
  <2>3. CASE meta' = Torn
    <3>1. Torn \notin DOMAIN backups'
      BY <1>4, NextTyped DEF Typed, Torn
    <3> QED
      BY <2>1, <2>2, <2>3, <3>1 DEF Complete
  <2>4. CASE meta' = meta
    <3>1. meta \in DOMAIN backups' => meta \in DOMAIN backups
      <4>1. CASE backups' = backups
        BY <4>1
      <4>2. CASE merger.at = "backup_toml"
        BY <2>2, <4>2 DEF BackedUp, Ordered, Idle
      <4> QED
        BY <1>4, <4>1, <4>2 DEF MergeBreaksOff
    <3> QED
      BY <2>1, <2>2, <2>4, <3>1 DEF Complete
  <2> QED
    BY <2>2, <2>3, <2>4
<1>5. CASE BackupToml
  <2>1. \A b : Complete(b) => Complete(b)'
    BY <1>5, CompleteStays DEF BackupToml, PruneBackups
  <2>2. UNCHANGED <<meta, boot>> /\ merger.at = "backup_toml" /\ merger.backup = merges
        /\ meta # merges
    BY <1>5 DEF BackupToml, BackedUp, Ordered, Idle
  <2>3. \A b \in DOMAIN backups' : b \in DOMAIN backups \/ b = merges
    BY <1>5, <2>2 DEF BackupToml, ++
  <2> QED
    BY <2>1, <2>2, <2>3 DEF Complete
<1>6. CASE ~(PruneBackups \/ WriteMeta \/ SetPending \/ MergeBreaksOff \/ BackupToml)
  <2>1. \A b : Complete(b) => Complete(b)'
    BY <1>6, CompleteStays
  <2>2. /\ meta' = meta /\ DOMAIN backups' = DOMAIN backups
        /\ boot' = "pending" => boot = "pending"
    BY <1>6 DEF Next, Propose, FillMergeDirectory, Approve, BackupTools, ApplyFile,
       ReadBootStatus, ProbePasses, ProbeFails, RestoreToml, RemoveTools, RestoreTools,
       SetRolledBack, VerificationBreaksOff, diskVars
  <2> QED
    BY <2>1, <2>2 DEF Complete
<1> QED
  BY <1>1, <1>2, <1>3, <1>4, <1>5, <1>6

\* A pending boot has a complete backup to choose, and what is chosen for it is
\* complete: the one that is named, or the only one there is.
LEMMA ChosenIsComplete ==
  ASSUME Typed, Recoverable, boot = "pending", ChosenBackup # NoBackup
  PROVE  Complete(ChosenBackup)
<1>1. CASE meta \in DOMAIN backups
  BY <1>1 DEF ChosenBackup, Recoverable
<1>2. CASE meta \notin DOMAIN backups
  <2>1. Cardinality(DOMAIN backups) = 1 /\ ChosenBackup = CHOOSE b \in DOMAIN backups : TRUE
    BY <1>2 DEF ChosenBackup
  <2>2. PICK b \in DOMAIN backups : Complete(b)
    BY DEF Recoverable
  <2>3. IsFiniteSet(DOMAIN backups)
    <3>1. merges \in Int /\ DOMAIN backups \subseteq 1..merges
      BY DEF Typed
    <3>2. IsFiniteSet(1..merges)
      BY <3>1, FS_Interval
    <3> QED
      BY <3>1, <3>2, FS_Subset
  <2>4. PICK x : DOMAIN backups = {x}
    BY <2>1, <2>3, FS_Singleton
  <2>5. ChosenBackup \in DOMAIN backups
    BY <2>1, <2>2
  <2>6. ChosenBackup = b
    BY <2>2, <2>4, <2>5
  <2> QED
    BY <2>2, <2>6
<1> QED
  BY <1>1, <1>2

LEMMA NextRestored ==
  ASSUME Typed, Ordered, BackedUp, Recoverable, Restored, Next PROVE Restored'
<1> USE DEF Restored
<1>1. CASE \/ \E p \in Patch : Propose(p) \/ Approve(p) \/ FillMergeDirectory(p)
           \/ BackupToml \/ BackupTools \/ ApplyFile \/ WriteMeta \/ SetPending
           \/ PruneBackups \/ MergeBreaksOff
  <2>1. booter' = Idle
    BY <1>1 DEF Propose, Approve, FillMergeDirectory, BackupToml, BackupTools, ApplyFile,
       WriteMeta, SetPending, PruneBackups, MergeBreaksOff, Quiet, Ordered, Idle
  <2> QED
    BY <2>1 DEF Idle
<1>2. CASE ReadBootStatus \/ ProbePasses \/ SetRolledBack \/ VerificationBreaksOff
  BY <1>2 DEF ReadBootStatus, ProbePasses, SetRolledBack, VerificationBreaksOff, diskVars, Idle
<1>3. CASE ProbeFails
  <2>1. boot = booter.seen /\ booter.seen \in {"pending", "rolled_back"}
        /\ UNCHANGED <<files, backups, before, boot>>
    BY <1>3 DEF ProbeFails, Typed, BootType, Idle, diskVars, history
  <2>2. \/ booter' = Idle
        \/ booter' = [at |-> "rolled_back", from |-> NoBackup]
        \/ booter' = [at |-> "restore_toml", from |-> ChosenBackup] /\ ChosenBackup # NoBackup
           /\ boot = "pending"
    BY <1>3, <2>1 DEF ProbeFails
  <2>3. ASSUME NEW b, b = ChosenBackup, b # NoBackup, boot = "pending"
        PROVE  Complete(b)'
    <3>1. Complete(b)
      BY <2>3, ChosenIsComplete
    <3> QED
      BY <2>1, <3>1 DEF Complete
  <2>4. PICK b : b = ChosenBackup
    OBVIOUS
  <2>5. /\ booter'.at \in {"idle", "rolled_back", "restore_toml"}
        /\ booter'.at = "rolled_back" => booter'.from = NoBackup
        /\ booter'.at = "restore_toml" => /\ booter'.from = b
                                        /\ b # NoBackup /\ boot = "pending"
    BY <2>2, <2>4 DEF Idle
  <2>6. booter'.at = "restore_toml" => Complete(booter.from)'
    BY <2>3, <2>4, <2>5 DEF Complete
  <2> QED
    BY <2>5, <2>6
<1>4. CASE RestoreToml \/ RemoveTools \/ RestoreTools
  <2> DEFINE b == booter.from
  <2>1. /\ UNCHANGED <<backups, before>> /\ Complete(b) /\ b \in 1..merges /\ b # NoBackup
        /\ backups[b] = before[b] /\ before[b] \in [Tracked -> Content]
        /\ booter'.from = b
        /\ booter \in [at : {"restore_toml", "remove_tools", "restore_tools"}, from : Nat]
    BY <1>4 DEF RestoreToml, RemoveTools, RestoreTools, Complete, Typed, BootType, Idle,
                history, NoBackup
  <2>2. Complete(b)'
    BY <2>1 DEF Complete
  <2>3. CASE RestoreToml
    <3>1. DOMAIN backups[b] = Tracked /\ Tools \subseteq Tracked /\ Toml \in Tracked
      BY <2>1, Absence
    <3>2. booter'.at = "remove_tools"
      BY <2>1, <2>3, <3>1 DEF RestoreToml
    <3>3. files'[Toml] = before[b][Toml]
      BY <2>1, <2>3, <3>1 DEF RestoreToml, ++, Restrict
    <3> QED
      BY <2>1, <2>2, <3>2, <3>3
  <2>4. CASE RemoveTools
    <3>1. booter'.at = "restore_tools" /\ files[Toml] = before[b][Toml]
      BY <2>1, <2>4 DEF RemoveTools
    <3>2. files' = [f \in File |-> IF f \in Tools THEN Absent ELSE files[f]]
      BY <2>4 DEF RemoveTools
    <3>3. files'[Toml] = files[Toml] /\ \A f \in Tools : files'[f] = Absent
      BY <3>2, Absence
    <3> QED
      BY <2>1, <2>2, <3>1, <3>3
  <2>5. CASE RestoreTools
    <3>1. booter'.at = "rolled_back" /\ files[Toml] = before[b][Toml]
          /\ \A f \in Tools : files[f] = Absent
      BY <2>1, <2>5 DEF RestoreTools
    <3> DEFINE there == {f \in Tools : before[b][f] # Absent}
    <3>2. files' = [f \in there \cup File |-> IF f \in there THEN before[b][f] ELSE files[f]]
      BY <2>1, <2>5 DEF RestoreTools, ++, Restrict, Existing, Typed
    <3>3. \A f \in Tracked : files'[f] = before[b][f]
      BY <3>1, <3>2, Absence
    <3>4. Restrict(files', Tracked) = before[b]
      BY <2>1, <3>3 DEF Restrict
    <3> QED
      BY <2>1, <3>1, <3>4 DEF Restrict
  <2> QED
    BY <1>4, <2>3, <2>4, <2>5
<1> QED
  BY <1>1, <1>2, <1>3, <1>4 DEF Next

Backed == BackedUp /\ Recoverable /\ Restored

LEMMA BackupsHold == Spec => []Backed
<1>1. Init => Backed
  <2> SUFFICES ASSUME Init PROVE Backed
    OBVIOUS
  <2>1. merger.at = "idle" /\ booter.at = "idle" /\ boot = "none" /\ meta \notin DOMAIN backups
    BY DEF Init, Idle, NoBackup
  <2> QED
    BY <2>1 DEF Backed, BackedUp, Recoverable, Restored
<1>2. Backed /\ UNCHANGED vars => Backed'
  BY DEF Backed, BackedUp, Recoverable, Restored, Complete, Restrict, vars, patchVars, diskVars,
         history
<1>3. Typed /\ Ordered /\ Backed /\ Next => Backed'
  BY NextBackedUp, NextRecoverable, NextRestored DEF Backed
<1> QED
  BY <1>1, <1>2, <1>3, TypesHold, PTL DEF Spec

(* A pending boot can be rolled back: the backup that is named for it is    *)
(* there and is an exact copy of what its merge began from, for any number  *)
(* of backups kept (at least one), of merges, and of merges that broke off. *)
THEOREM PendingBootsHaveABackup == Spec => []PendingCanRollBack
<1>1. Backed => PendingCanRollBack
  BY DEF Backed, Recoverable, Complete, PendingCanRollBack
<1> QED
  BY <1>1, BackupsHold, PTL

(* A rollback that reports itself done from a backup has put naqsha.toml    *)
(* and tools/ back exactly as they were, also when it had to begin again.   *)
THEOREM RollbacksUndo == Spec => RollbackUndoesMerge
<1>1. Backed => (booter.at = "rolled_back" /\ boot' = "rolled_back" /\ booter.from # NoBackup
                   => Restrict(files, Tracked) = before[booter.from])
  BY DEF Backed, Restored
<1> QED
  BY <1>1, BackupsHold, PTL DEF RollbackUndoesMerge
==============================================================================

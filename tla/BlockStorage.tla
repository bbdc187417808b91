---------------------------- MODULE BlockStorage ----------------------------
(***************************************************************************)
(* What Cinder keeps beside the attachments: volumes and their owners,     *)
(* snapshots, backups, transfers, volume groups and their snapshots, and   *)
(* which of it a restart finds again.                                      *)
(*                                                                         *)
(* Each request names things by id and is answered for the token's         *)
(* project; an administrator's request for a volume or a snapshot reaches  *)
(* any project's, and any token's request for a group or a group's         *)
(* snapshot those of the project in the URL.  Only some of the requests    *)
(* save, and a save writes the whole of the stores.                        *)
(***************************************************************************)
EXTENDS Integers, FiniteSets

CONSTANTS
    Project, Volume, Snapshot, Backup, Transfer, Group, GroupSnapshot,  \* ids
    Label,          \* what names, descriptions and metadata may be
    MaxSize,        \* bound: the size of a volume
    AutoSave,       \* whether --auto-save was given
    Admin,          \* in place of a project: the request's token is an administrator's
    NotMade, Gone    \* an id not given yet, and one taken back

VARIABLES
    volume,         \* _volumes
    snapshot,       \* _snapshots
    backup,         \* _volume_backups
    transfer,       \* _volume_transfers
    group,          \* _consistency_groups
    groupSnapshot,  \* _group_snapshots
    disk            \* the saved file

stores == <<volume, snapshot, backup, transfer, group, groupSnapshot>>
cinderVars == <<stores, disk>>

Sizes == 1..MaxSize

\* Of the attachments only whether there is one (see VolumeAttachments).
NewVolume(p, n, label, inUse) == [owner |-> p, size |-> n, label |-> label, inUse |-> inUse]
VolumeRecord == [owner : Project, size : Sizes, label : Label, inUse : BOOLEAN]

NewSnapshot(p, v, n, label) == [owner |-> p, volume |-> v, size |-> n, label |-> label]
SnapshotRecord == [owner : Project, volume : Volume, size : Sizes, label : Label]

NewBackup(p, v, n) == [owner |-> p, volume |-> v, size |-> n]
BackupRecord == [owner : Project, volume : Volume, size : Sizes]

NewTransfer(p, v, accepted) == [source |-> p, volume |-> v, accepted |-> accepted]
TransferRecord == [source : Project, volume : Volume, accepted : BOOLEAN]

NewGroup(p) == [owner |-> p]
GroupRecord == [owner : Project]

NewGroupSnapshot(p, g) == [owner |-> p, group |-> g]
GroupSnapshotRecord == [owner : Project, group : Group]

Records == VolumeRecord \cup SnapshotRecord \cup BackupRecord \cup TransferRecord
               \cup GroupRecord \cup GroupSnapshotRecord

ASSUME BlockStorageAssumption ==
    /\ MaxSize \in Nat
    /\ AutoSave \in BOOLEAN
    /\ Admin \notin Project
    /\ NotMade # Gone
    /\ {NotMade, Gone} \cap Records = {}

IsThere(x) == x # NotMade /\ x # Gone

\* Which project the token restricts a request by id to, if any.
Reaches(scope, x) == IsThere(x) /\ (scope = Admin \/ scope = x.owner)

Image(vo, sn, ba, tr, gr, gs) ==
    [volume |-> vo, snapshot |-> sn, backup |-> ba, transfer |-> tr, group |-> gr,
     groupSnapshot |-> gs]

Save ==
    disk' = IF AutoSave
            THEN Image(volume', snapshot', backup', transfer', group', groupSnapshot')
            ELSE disk

CinderInit ==
    /\ volume = [v \in Volume |-> NotMade]
    /\ snapshot = [s \in Snapshot |-> NotMade]
    /\ backup = [b \in Backup |-> NotMade]
    /\ transfer = [t \in Transfer |-> NotMade]
    /\ group = [g \in Group |-> NotMade]
    /\ groupSnapshot = [s \in GroupSnapshot |-> NotMade]
    /\ disk = Image(volume, snapshot, backup, transfer, group, groupSnapshot)

(***************************************************************************)
(* Volumes.                                                                *)
(***************************************************************************)

VolumeBecomes(v, r) ==
    /\ volume' = [volume EXCEPT ![v] = r]
    /\ UNCHANGED <<snapshot, backup, transfer, group, groupSnapshot>>

\* What the new volume is made from is not looked up.
CreateVolume(p, v, n, label) ==
    /\ volume[v] = NotMade
    /\ VolumeBecomes(v, NewVolume(p, n, label, FALSE))
    /\ Save

\* PUT of the volume, of its metadata as a whole, and os-set_bootable.
UpdateVolume(scope, v, label) ==
    /\ Reaches(scope, volume[v])
    /\ VolumeBecomes(v, NewVolume(volume[v].owner, volume[v].size, label, volume[v].inUse))
    /\ Save

\* The other changes of the metadata reach into the volume, and do not save.
UpdateVolumeMetadata(scope, v, label) ==
    /\ Reaches(scope, volume[v])
    /\ VolumeBecomes(v, NewVolume(volume[v].owner, volume[v].size, label, volume[v].inUse))
    /\ UNCHANGED disk

\* Mutant: whatever size is asked for.
ExtendVolumeAnySize(scope, v, n) ==
    /\ Reaches(scope, volume[v])
    /\ ~volume[v].inUse
    /\ VolumeBecomes(v, NewVolume(volume[v].owner, n, volume[v].label, FALSE))
    /\ Save

\* os-extend.
ExtendVolume(scope, v, n) ==
    /\ Reaches(scope, volume[v])
    /\ n > volume[v].size
    /\ ~volume[v].inUse
    /\ VolumeBecomes(v, NewVolume(volume[v].owner, n, volume[v].label, FALSE))
    /\ Save

\* The first attachment comes, or the last goes: through either service, and
\* whoever the volume belongs to when it is the server that names it.
AttachOrDetach(v) ==
    /\ IsThere(volume[v])
    /\ VolumeBecomes(v, NewVolume(volume[v].owner, volume[v].size, volume[v].label,
                                  ~volume[v].inUse))
    /\ Save

\* Mutant: the volume is looked up whoever asks.
DeleteVolumeOfAnybody(scope, v) ==
    /\ IsThere(volume[v])
    /\ ~volume[v].inUse
    /\ VolumeBecomes(v, Gone)
    /\ Save

\* DELETE and os-force_delete.  Snapshots, backups and transfers of the volume
\* stay, and go on naming it.
DeleteVolume(scope, v) ==
    /\ Reaches(scope, volume[v])
    /\ ~volume[v].inUse
    /\ VolumeBecomes(v, Gone)
    /\ Save

\* A server that was to take the volume with it is deleted.
DeleteOnTermination(v) ==
    /\ IsThere(volume[v])
    /\ volume[v].inUse
    /\ VolumeBecomes(v, Gone)
    /\ Save

(***************************************************************************)
(* Snapshots.                                                              *)
(***************************************************************************)

SnapshotBecomes(s, r) ==
    /\ snapshot' = [snapshot EXCEPT ![s] = r]
    /\ UNCHANGED <<volume, backup, transfer, group, groupSnapshot>>

\* The owner is the project in the URL, and the volume may be anybody's.
CreateSnapshot(p, s, v, label) ==
    /\ snapshot[s] = NotMade
    /\ IsThere(volume[v])
    /\ SnapshotBecomes(s, NewSnapshot(p, v, volume[v].size, label))
    /\ Save

UpdateSnapshot(scope, s, label) ==
    /\ Reaches(scope, snapshot[s])
    /\ SnapshotBecomes(s, NewSnapshot(snapshot[s].owner, snapshot[s].volume,
                                      snapshot[s].size, label))
    /\ Save

\* Mutant: the deletion waits for the next save.
DeleteSnapshotUnsaved(scope, s) ==
    /\ Reaches(scope, snapshot[s])
    /\ SnapshotBecomes(s, Gone)
    /\ UNCHANGED disk

DeleteSnapshot(scope, s) ==
    /\ Reaches(scope, snapshot[s])
    /\ SnapshotBecomes(s, Gone)
    /\ Save

(***************************************************************************)
(* Backups: kept in memory until another request saves.                    *)
(***************************************************************************)

BackupBecomes(b, r) ==
    /\ backup' = [backup EXCEPT ![b] = r]
    /\ UNCHANGED <<volume, snapshot, transfer, group, groupSnapshot, disk>>

CreateVolumeBackup(p, b, v) ==
    /\ backup[b] = NotMade
    /\ Reaches(p, volume[v])
    /\ BackupBecomes(b, NewBackup(p, v, volume[v].size))

DeleteVolumeBackup(p, b) ==
    /\ Reaches(p, backup[b])
    /\ BackupBecomes(b, Gone)

\* Into a new volume; into an existing one nothing is written.
RestoreVolumeBackup(p, b, v, label) ==
    /\ Reaches(p, backup[b])
    /\ CreateVolume(backup[b].owner, v, backup[b].size, label)

(***************************************************************************)
(* Transfers, not saved either.                                            *)
(***************************************************************************)

CreateVolumeTransfer(p, t, v) ==
    /\ transfer[t] = NotMade
    /\ Reaches(p, volume[v])
    /\ transfer' = [transfer EXCEPT ![t] = NewTransfer(p, v, FALSE)]
    /\ UNCHANGED <<volume, snapshot, backup, group, groupSnapshot, disk>>

\* Whoever has the key moves the volume, if there is one still, to the project
\* in the URL: whosever it is by now, attached or not, and as often as it likes.
AcceptVolumeTransfer(p, t) ==
    /\ IsThere(transfer[t])
    /\ transfer' = [transfer EXCEPT ![t] =
                        NewTransfer(transfer[t].source, transfer[t].volume, TRUE)]
    /\ volume' = [v \in Volume |->
           IF v = transfer[t].volume /\ IsThere(volume[v])
           THEN NewVolume(p, volume[v].size, volume[v].label, volume[v].inUse)
           ELSE volume[v]]
    /\ UNCHANGED <<snapshot, backup, group, groupSnapshot, disk>>

DeleteVolumeTransfer(p, t) ==
    /\ IsThere(transfer[t])
    /\ transfer[t].source = p
    /\ transfer' = [transfer EXCEPT ![t] = Gone]
    /\ UNCHANGED <<volume, snapshot, backup, group, groupSnapshot, disk>>

(***************************************************************************)
(* Volume groups and their snapshots, not saved either.                    *)
(***************************************************************************)

CreateConsistencyGroup(p, g) ==
    /\ group[g] = NotMade
    /\ group' = [group EXCEPT ![g] = NewGroup(p)]
    /\ UNCHANGED <<volume, snapshot, backup, transfer, groupSnapshot, disk>>

DeleteConsistencyGroup(p, g) ==
    /\ Reaches(p, group[g])
    /\ group' = [group EXCEPT ![g] = Gone]
    /\ UNCHANGED <<volume, snapshot, backup, transfer, groupSnapshot, disk>>

CreateGroupSnapshot(p, s, g) ==
    /\ groupSnapshot[s] = NotMade
    /\ Reaches(p, group[g])
    /\ groupSnapshot' = [groupSnapshot EXCEPT ![s] = NewGroupSnapshot(p, g)]
    /\ UNCHANGED <<volume, snapshot, backup, transfer, group, disk>>

DeleteGroupSnapshot(p, s) ==
    /\ Reaches(p, groupSnapshot[s])
    /\ groupSnapshot' = [groupSnapshot EXCEPT ![s] = Gone]
    /\ UNCHANGED <<volume, snapshot, backup, transfer, group, disk>>

(***************************************************************************)
(* The requests, by the routes of the API.                                 *)
(***************************************************************************)

VolumeRequests(p, scope) ==
    \E v \in Volume :
        \/ \E n \in Sizes, label \in Label : CreateVolume(p, v, n, label)
        \/ \E label \in Label : UpdateVolume(scope, v, label)
        \/ DeleteVolume(scope, v)

VolumeActionRequests(scope) ==
    \E v \in Volume, n \in Sizes : ExtendVolume(scope, v, n)

VolumeMetadataRequests(scope) ==
    \E v \in Volume, label \in Label : UpdateVolumeMetadata(scope, v, label)

SnapshotRequests(scope) ==
    \E s \in Snapshot, label \in Label :
        \/ \E p \in Project, v \in Volume : CreateSnapshot(p, s, v, label)
        \/ UpdateSnapshot(scope, s, label)
        \/ DeleteSnapshot(scope, s)

TransferRequests(p) ==
    \E t \in Transfer :
        \/ \E v \in Volume : CreateVolumeTransfer(p, t, v)
        \/ DeleteVolumeTransfer(p, t)

BackupRequests(p) ==
    \E b \in Backup :
        \/ \E v \in Volume : CreateVolumeBackup(p, b, v)
        \/ \E v \in Volume, label \in Label : RestoreVolumeBackup(p, b, v, label)
        \/ DeleteVolumeBackup(p, b)

\* The project of these is the one in the URL, which nothing compares with
\* the token's.
GroupRequests ==
    \E g \in Group, q \in Project :
        \/ CreateConsistencyGroup(q, g)
        \/ DeleteConsistencyGroup(q, g)

GroupSnapshotRequests ==
    \E s \in GroupSnapshot, q \in Project :
        \/ \E g \in Group : CreateGroupSnapshot(q, s, g)
        \/ DeleteGroupSnapshot(q, s)

\* What a token of project p can ask for, an administrator's or not.
Requests(p, scope) ==
    \/ VolumeRequests(p, scope)
    \/ VolumeActionRequests(scope)
    \/ VolumeMetadataRequests(scope)
    \/ SnapshotRequests(scope)
    \/ TransferRequests(p)
    \/ BackupRequests(p)
    \/ GroupRequests
    \/ GroupSnapshotRequests

Acceptance == \E p \in Project, t \in Transfer : AcceptVolumeTransfer(p, t)

ServersUseVolumes == \E v \in Volume : AttachOrDetach(v) \/ DeleteOnTermination(v)

\* The process stops, or dies, and starts from the file.
CinderRestart ==
    /\ volume' = disk.volume
    /\ snapshot' = disk.snapshot
    /\ backup' = disk.backup
    /\ transfer' = disk.transfer
    /\ group' = disk.group
    /\ groupSnapshot' = disk.groupSnapshot
    /\ UNCHANGED disk

CinderNext ==
    \/ \E p \in Project : Requests(p, p)
    \/ \E p \in Project : Requests(p, Admin)
    \/ Acceptance
    \/ ServersUseVolumes
    \/ CinderRestart

CinderSpec == CinderInit /\ [][CinderNext]_cinderVars

(***************************************************************************)
(* Properties.                                                             *)
(***************************************************************************)

OrNone(S) == S \cup {NotMade, Gone}

StoresOK(i) ==
    /\ i.volume \in [Volume -> OrNone(VolumeRecord)]
    /\ i.snapshot \in [Snapshot -> OrNone(SnapshotRecord)]
    /\ i.backup \in [Backup -> OrNone(BackupRecord)]
    /\ i.transfer \in [Transfer -> OrNone(TransferRecord)]
    /\ i.group \in [Group -> OrNone(GroupRecord)]
    /\ i.groupSnapshot \in [GroupSnapshot -> OrNone(GroupSnapshotRecord)]

Memory == Image(volume, snapshot, backup, transfer, group, groupSnapshot)

\* The stores hold what they are declared to hold, in memory and in the file.
CinderTypeOK ==
    /\ disk = Image(disk.volume, disk.snapshot, disk.backup, disk.transfer, disk.group,
                    disk.groupSnapshot)
    /\ StoresOK(Memory)
    /\ StoresOK(disk)

SizesFitIn(i) ==
    /\ \A s \in Snapshot : IsThere(i.snapshot[s]) =>
           /\ i.volume[i.snapshot[s].volume] # NotMade
           /\ IsThere(i.volume[i.snapshot[s].volume]) =>
                  i.snapshot[s].size <= i.volume[i.snapshot[s].volume].size
    /\ \A b \in Backup : IsThere(i.backup[b]) =>
           /\ i.volume[i.backup[b].volume] # NotMade
           /\ IsThere(i.volume[i.backup[b].volume]) =>
                  i.backup[b].size <= i.volume[i.backup[b].volume].size

\* A snapshot or backup is never larger than its volume, through extensions,
\* transfers and restarts, in memory and in the file, though some requests
\* save and others do not (extend_volume, create_snapshot,
\* create_volume_backup, load).
SizesFit == SizesFitIn(Memory) /\ SizesFitIn(disk)

\* What was deleted stays deleted, whenever the process dies: a volume or a
\* snapshot does not come back with the file (delete_volume, delete_snapshot;
\* deleted backups, transfers and groups do).
DeletedStaysDeleted ==
    [][AutoSave =>
          /\ \A v \in Volume : volume[v] = Gone => volume'[v] = Gone
          /\ \A s \in Snapshot : snapshot[s] = Gone => snapshot'[s] = Gone]_cinderVars

\* No request of a project's own token changes another project's volume,
\* snapshot or backup ("the restriction comes from the token, never from the
\* URL's project segment", docs/architecture/tenant-isolation.md); but for
\* accepting a transfer.
OthersUntouched ==
    [][\A p \in Project : Requests(p, p) =>
          /\ \A v \in Volume : IsThere(volume[v]) =>
                 volume'[v] = volume[v] \/ volume[v].owner = p
          /\ \A s \in Snapshot : IsThere(snapshot[s]) =>
                 snapshot'[s] = snapshot[s] \/ snapshot[s].owner = p
          /\ \A b \in Backup : IsThere(backup[b]) =>
                 backup'[b] = backup[b] \/ backup[b].owner = p]_cinderVars

\* The same of groups and their snapshots.  The code does not keep it: these
\* are restricted by the URL's project segment (delete_consistency_group,
\* delete_group_snapshot); see README, "Where the code departs".
OthersGroupsUntouched ==
    [][\A p \in Project : Requests(p, p) =>
          /\ \A g \in Group : IsThere(group[g]) =>
                 group'[g] = group[g] \/ group[g].owner = p
          /\ \A s \in GroupSnapshot : IsThere(groupSnapshot[s]) =>
                 groupSnapshot'[s] = groupSnapshot[s] \/ groupSnapshot[s].owner = p]_cinderVars

\* "Resources cannot be transferred between projects"
\* (docs/architecture/tenant-isolation.md): a volume keeps its owner.
\* The code does not keep it: see README, "Where the code departs".
NoOwnershipTransfer ==
    [][\A v \in Volume : IsThere(volume[v]) /\ IsThere(volume'[v]) =>
           volume'[v].owner = volume[v].owner]_cinderVars
=============================================================================

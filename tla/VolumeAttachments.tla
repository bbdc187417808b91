------------------------- MODULE VolumeAttachments -------------------------
(***************************************************************************)
(* Volumes and the servers they are attached to.  The two sides of an      *)
(* attachment are kept apart: Nova's ledger is a list per server           *)
(* (_server_volume_attachments), Cinder's a list per volume, from which    *)
(* the volume's status follows.  No transaction spans the two; each        *)
(* request changes one, the other, or both, and saves on the way.          *)
(*                                                                         *)
(* Handlers run on one event loop and, between the awaits, without being   *)
(* interrupted; what volume_action looks up before its await it looks up   *)
(* again after it.  A request is therefore one action, except a boot, which*)
(* saves after each volume: a crash may leave it half done in the file.    *)
(***************************************************************************)
EXTENDS Integers, Sequences, FiniteSets

CONSTANTS
    Server,         \* server ids; uuid4, so never given twice
    Volume,         \* volume ids, likewise
    MaxEntries,     \* bound: entries in one server's ledger
    MaxAttached,    \* bound: attachments of one volume to one server
    AutoSave,       \* whether --auto-save was given
    Idle            \* no boot is in progress

ASSUME VolumeAttachmentsAssumption ==
    /\ MaxEntries \in Nat
    /\ MaxAttached \in Nat
    /\ AutoSave \in BOOLEAN
    /\ Idle \notin Server

VARIABLES
    server,   \* server[s]: whether s is in _servers
    volume,   \* volume[v].status and .multiattach of _volumes
    nova,     \* nova[s] = _server_volume_attachments[s]
    cinder,   \* cinder[v][s]: how many of v's attachments name s
    booting,  \* the server that create_server is attaching volumes to
    disk,     \* the saved file
    direct    \* history: the volumes ever attached through Cinder alone

vars == <<server, volume, nova, cinder, booting, disk, direct>>

Mapping == [volume : Volume, delete_on_termination : BOOLEAN]

None == [s \in Server |-> 0]

VolumeLive(v)  == volume[v].status \in {"available", "in-use"}
Attached(v, s) == cinder[v][s] > 0

Image(sv, vo, no, ci) == [server |-> sv, volume |-> vo, nova |-> no, cinder |-> ci]

Save == disk' = IF AutoSave THEN Image(server', volume', nova', cinder') ELSE disk

Init ==
    /\ server = [s \in Server |-> "unborn"]
    /\ volume = [v \in Volume |-> [status |-> "unborn", multiattach |-> FALSE]]
    /\ nova = [s \in Server |-> <<>>]
    /\ cinder = [v \in Volume |-> None]
    /\ booting = Idle
    /\ direct = {}
    /\ disk = Image(server, volume, nova, cinder)

----------------------------------------------------------------------------
(* Cinder's side.                                                          *)

\* The volume's record once its attachments are ats, none left freeing it.
Record(v, ats) ==
    [volume[v] EXCEPT !.status = IF ats = None THEN "available" ELSE "in-use"]

CreateVolume(v, multi) ==
    /\ volume[v].status = "unborn"
    /\ volume' = [volume EXCEPT ![v] = [status |-> "available", multiattach |-> multi]]
    /\ UNCHANGED <<server, nova, cinder, direct>>
    /\ Save

\* The API's delete, os-force_delete and the status page's delete.
DeleteVolume(v) ==
    /\ volume[v].status = "available"
    /\ cinder[v] = None
    /\ volume' = [volume EXCEPT ![v].status = "gone"]
    /\ UNCHANGED <<server, nova, cinder, direct>>
    /\ Save

\* Mutant: a volume in use is attached again, multiattach or not.
CanAttachTwice(v) == VolumeLive(v)

CanAttach(v) ==
    \/ volume[v].status = "available"
    \/ volume[v].status = "in-use" /\ volume[v].multiattach

\* attach_volume, where it does not refuse.
AttachVolume(v, s) ==
    /\ cinder[v][s] < MaxAttached
    /\ cinder' = [cinder EXCEPT ![v][s] = @ + 1]
    /\ volume' = [volume EXCEPT ![v].status = "in-use"]
    /\ Save

\* detach_volume of one of the attachments that name s.
DetachVolume(v, s) ==
    /\ cinder' = [cinder EXCEPT ![v][s] = @ - 1]
    /\ volume' = [volume EXCEPT ![v] = Record(v, cinder'[v])]
    /\ Save

\* os-attach names any server, also one that is gone; the presets attach a
\* volume to a server in the same way.
OsAttach(v, s) ==
    /\ server[s] # "unborn"
    /\ CanAttach(v)
    /\ direct' = direct \cup {v}
    /\ UNCHANGED <<server, nova>>
    /\ AttachVolume(v, s)

\* os-detach of one attachment.
OsDetach(v, s) ==
    /\ Attached(v, s)
    /\ UNCHANGED <<server, nova, direct>>
    /\ DetachVolume(v, s)

\* os-detach that names no attachment: all of them.
OsDetachAll(v) ==
    /\ cinder[v] # None
    /\ cinder' = [cinder EXCEPT ![v] = None]
    /\ volume' = [volume EXCEPT ![v].status = "available"]
    /\ UNCHANGED <<server, nova, direct>>
    /\ Save

----------------------------------------------------------------------------
(* Nova's side.                                                            *)

Entry(v, dot) == [volume |-> v, delete_on_termination |-> dot]

Positions(list, v) == {i \in DOMAIN list : list[i].volume = v}

\* Nova's ledger takes the entry first; Cinder is asked next, and may refuse.
\* A refusal takes the entry back nowhere, and nothing is saved.
AttachBothSides(s, v, dot) ==
    /\ Len(nova[s]) < MaxEntries
    /\ nova' = [nova EXCEPT ![s] = Append(@, Entry(v, dot))]
    /\ UNCHANGED <<server, direct>>
    /\ \/ CanAttach(v) /\ AttachVolume(v, s)
       \/ ~CanAttach(v) /\ UNCHANGED <<volume, cinder, disk>>

\* POST /servers: the server is registered and saved, then the volumes of
\* block_device_mapping_v2 follow, and the answer.
CreateServer(s) ==
    /\ server[s] = "unborn"
    /\ server' = [server EXCEPT ![s] = "live"]
    /\ booting' = s
    /\ UNCHANGED <<volume, nova, cinder, direct>>
    /\ Save

\* A mapping may name a volume that is gone.
AttachMappedVolume(s, v, dot) ==
    /\ booting = s
    /\ volume[v].status # "unborn"
    /\ AttachBothSides(s, v, dot)
    /\ UNCHANGED booting

AnswerCreate ==
    /\ booting # Idle
    /\ booting' = Idle
    /\ UNCHANGED <<server, volume, nova, cinder, disk, direct>>

\* POST os-volume_attachments, answered 200 or, when Cinder refuses, 400.
AttachVolumeToServer(s, v, dot) ==
    /\ server[s] = "live"
    /\ VolumeLive(v)
    /\ AttachBothSides(s, v, dot)

Without(list, i) ==
    [j \in 1 .. Len(list) - 1 |-> IF j < i THEN list[j] ELSE list[j + 1]]

\* Mutant: Nova forgets the attachment, Cinder does not hear of it.
DetachNovaSideOnly(s, v) ==
    /\ server[s] = "live"
    /\ \E i \in Positions(nova[s], v) : nova' = [nova EXCEPT ![s] = Without(@, i)]
    /\ UNCHANGED <<server, volume, cinder, disk, direct>>

\* DELETE os-volume_attachments/{volume id}: the first entry of Nova's ledger
\* that names the volume, and Cinder's attachment if there is one.
DetachVolumeFromServer(s, v) ==
    /\ server[s] = "live"
    /\ \E i \in Positions(nova[s], v) :
          /\ \A j \in Positions(nova[s], v) : i <= j
          /\ nova' = [nova EXCEPT ![s] = Without(@, i)]
    /\ UNCHANGED <<server, direct>>
    /\ \/ VolumeLive(v) /\ Attached(v, s) /\ DetachVolume(v, s)
       \/ ~(VolumeLive(v) /\ Attached(v, s)) /\ UNCHANGED <<volume, cinder, disk>>

\* The volumes Nova's ledger of s names, and those that go with the server.
Named(s)  == {v \in Volume : VolumeLive(v) /\ Positions(nova[s], v) # {}}
Doomed(s) == {v \in Named(s) :
                 \E i \in Positions(nova[s], v) : nova[s][i].delete_on_termination}

\* Mutant: only the volumes that go with the server are looked at.
DeleteServerDoomedOnly(s) ==
    /\ server[s] = "live"
    /\ server' = [server EXCEPT ![s] = "gone"]
    /\ nova' = [nova EXCEPT ![s] = <<>>]
    /\ cinder' = [v \in Volume |-> IF v \in Doomed(s) THEN None ELSE cinder[v]]
    /\ volume' = [v \in Volume |->
           IF v \in Doomed(s) THEN [volume[v] EXCEPT !.status = "gone"] ELSE volume[v]]
    /\ UNCHANGED direct
    /\ Save

\* delete_server goes through Nova's ledger: what only Cinder knows stays.
DeleteServer(s) ==
    /\ server[s] = "live"
    /\ server' = [server EXCEPT ![s] = "gone"]
    /\ nova' = [nova EXCEPT ![s] = <<>>]
    /\ cinder' = [v \in Volume |->
           IF v \in Doomed(s) THEN None
           ELSE IF v \in Named(s) THEN [cinder[v] EXCEPT ![s] = 0]
           ELSE cinder[v]]
    /\ volume' = [v \in Volume |->
           IF v \in Doomed(s) THEN [volume[v] EXCEPT !.status = "gone"]
           ELSE IF v \in Named(s) THEN Record(v, cinder'[v])
           ELSE volume[v]]
    /\ UNCHANGED direct
    /\ Save

----------------------------------------------------------------------------

\* The process dies, in the middle of a boot too, and starts from the file.
Restart ==
    /\ server' = disk.server
    /\ volume' = disk.volume
    /\ nova' = disk.nova
    /\ cinder' = disk.cinder
    /\ booting' = Idle
    /\ UNCHANGED <<disk, direct>>

Request ==
    \/ \E v \in Volume, multi \in BOOLEAN : CreateVolume(v, multi)
    \/ \E v \in Volume : DeleteVolume(v)
    \/ \E v \in Volume, s \in Server : OsAttach(v, s)
    \/ \E v \in Volume, s \in Server : OsDetach(v, s)
    \/ \E v \in Volume : OsDetachAll(v)
    \/ \E s \in Server, v \in Volume, dot \in BOOLEAN : AttachVolumeToServer(s, v, dot)
    \/ \E s \in Server, v \in Volume : DetachVolumeFromServer(s, v)
    \/ \E s \in Server : DeleteServer(s)

Next ==
    \/ booting = Idle /\ Request /\ UNCHANGED booting
    \/ \E s \in Server : booting = Idle /\ CreateServer(s)
    \/ \E s \in Server, v \in Volume, dot \in BOOLEAN : AttachMappedVolume(s, v, dot)
    \/ AnswerCreate
    \/ Restart

Spec == Init /\ [][Next]_vars

----------------------------------------------------------------------------
(* Properties.                                                             *)

ServerStatus == {"unborn", "live", "gone"}
VolumeRecord == [status      : {"unborn", "available", "in-use", "gone"},
                 multiattach : BOOLEAN]
Counts       == [Volume -> [Server -> Nat]]

\* The stores hold what they are declared to hold, in memory and in the file.
TypeOK ==
    /\ server \in [Server -> ServerStatus]
    /\ volume \in [Volume -> VolumeRecord]
    /\ nova \in [Server -> Seq(Mapping)]
    /\ cinder \in Counts
    /\ booting \in Server \cup {Idle}
    /\ direct \subseteq Volume
    /\ disk \in [server : [Server -> ServerStatus], volume : [Volume -> VolumeRecord],
                 nova : [Server -> Seq(Mapping)], cinder : Counts]

\* The status of a volume and its list of attachments always agree, whichever
\* of the five ways of attaching, detaching and deleting changed them: a volume
\* reads in-use exactly while an attachment is left (attach_volume,
\* detach_volume, _detach_server_volumes).
InUseIffAttached ==
    \A v \in Volume : volume[v].status = "in-use" <=> cinder[v] # None

\* A volume without multiattach has one attachment at most, in spite of
\* repeated boots, attaches by both services, and restarts.
SingleAttach ==
    \A v \in Volume : ~volume[v].multiattach =>
        \A s, t \in Server :
            /\ cinder[v][s] <= 1
            /\ Attached(v, s) /\ Attached(v, t) => s = t

\* Nova's ledger names a volume at least as often as Cinder's attachments name
\* the server, so that deleting the server finds every one of them; but for the
\* volumes attached through Cinder alone (attach_volume_to_server,
\* detach_volume_from_server, os-detach).
NovaCoversCinder ==
    \A s \in Server, v \in Volume \ direct :
        cinder[v][s] <= Cardinality(Positions(nova[s], v))

\* What a deleted server leaves attached, it leaves because of those volumes:
\* the others come back, and can be deleted or attached again
\* (_detach_server_volumes).
LeftoversAreDirect ==
    \A v \in Volume, s \in Server :
        Attached(v, s) /\ server[s] # "live" => v \in direct

\* "A volume left carrying an attachment to a server that no longer exists
\* reads as in-use forever and can never be deleted or re-attached" (the
\* docstring of delete_server): no attachment names a server that is gone.
\* The code does not keep it: see README, "Where the code departs".
NoAttachmentToDeadServer ==
    \A v \in Volume, s \in Server : Attached(v, s) => server[s] = "live"

\* Nothing that Cinder or Nova's server list answers is lost in a crash, a boot
\* in progress included: the file knows every server, volume and attachment.
AttachmentsAreSaved ==
    AutoSave =>
        /\ disk.server = server
        /\ disk.volume = volume
        /\ disk.cinder = cinder

\* A boot leaves each mapping on both sides, as the docstring of
\* _attach_mapped_volumes has it: "Nova turns each source_type=volume mapping
\* into an attachment on both sides".
\* The code does not keep it: see README, "Where the code departs".
BootAttachesBothSides ==
    [][\A s \in Server, v \in Volume :
          booting = s /\ Len(nova'[s]) > Len(nova[s])
              /\ Positions(nova'[s], v) # Positions(nova[s], v)
          => cinder'[v][s] > 0]_vars
============================================================================

------------------------------- MODULE Images -------------------------------
(***************************************************************************)
(* Images, which live twice: Glance keeps them, and Nova has an image store*)
(* of its own, from which servers are booted and which every operation of  *)
(* Glance has to renew.  "Nova's image view is a projection of the Glance  *)
(* images" (Database.load).                                                *)
(*                                                                         *)
(* Some operations save, others leave that to whoever saves next; the file *)
(* is therefore a variable, and what a restart finds in it matters.  The   *)
(* seeded images are like those a client has created and uploaded.  That   *)
(* the client may see a private image it imports is taken for granted.     *)
(***************************************************************************)
EXTENDS Naturals

CONSTANTS
    Image,      \* ids; uuid4, so never given twice
    Label,      \* what an image's name, properties, ... may be
    Project,    \* projects an image may be shared with
    Client,     \* connections that may PATCH an image
    AutoSave,   \* whether --auto-save was given
    Idle,       \* a connection that waits for nothing
    Absent,     \* an image that Nova does not know
    Unborn, Gone

ASSUME ImagesAssumption ==
    /\ AutoSave \in BOOLEAN
    /\ Idle \notin Image
    /\ Unborn # Gone

VARIABLES
    glance,     \* _glance_images
    nova,       \* _images
    members,    \* _image_members: the projects of each image
    disk,       \* the saved file
    patching,   \* PATCH requests that wait for their body, by connection
    behind,     \* history: activated by an import, or deleted through Nova, since
                \* Nova's entry was last renewed
    reloaded    \* history: what the last restart gave Nova against Glance's will

stores == <<glance, nova, members>>
vars == <<stores, disk, patching, behind, reloaded>>

Status == {"queued", "active", "deactivated"}

NewImage(st, sh, pr, l) == [status |-> st, shared |-> sh, protected |-> pr, label |-> l]
Projection(g) == [status |-> g.status, label |-> g.label]

GlanceRecord == [status : Status, shared : BOOLEAN, protected : BOOLEAN, label : Label]
NovaRecord == [status : Status, label : Label]

ASSUME RecordAssumption ==
    /\ {Unborn, Gone} \cap GlanceRecord = {}
    /\ Absent \notin NovaRecord

Here(x) == x \notin {Unborn, Gone}

File(g, n, m) == [glance |-> g, nova |-> n, members |-> m]

Save == disk' = IF AutoSave THEN File(glance', nova', members') ELSE disk

Init ==
    /\ glance = [i \in Image |-> Unborn]
    /\ nova = [i \in Image |-> Absent]
    /\ members = [i \in Image |-> {}]
    /\ disk = File(glance, nova, members)
    /\ patching = [c \in Client |-> Idle]
    /\ behind = {}
    /\ reloaded = {}

Renewed(i, g) ==
    /\ glance' = [glance EXCEPT ![i] = g]
    /\ nova' = [nova EXCEPT ![i] = Projection(g)]
    /\ behind' = behind \ {i}

(***************************************************************************)
(* Where images come from: POST and the status page, and Nova's snapshots. *)
(***************************************************************************)

CreateGlanceImage(i, sh, pr, l) ==
    /\ glance[i] = Unborn
    /\ Renewed(i, NewImage("queued", sh, pr, l))
    /\ members' = [members EXCEPT ![i] = {}]
    /\ Save
    /\ UNCHANGED <<patching, reloaded>>

\* Not saved.
CreateServerSnapshot(i, l) ==
    /\ glance[i] = Unborn
    /\ Renewed(i, NewImage("active", FALSE, FALSE, l))
    /\ members' = [members EXCEPT ![i] = {}]
    /\ UNCHANGED <<disk, patching, reloaded>>

(***************************************************************************)
(* PATCH: whether the image is protected is asked before the body comes,   *)
(* and not again.                                                          *)
(***************************************************************************)

\* Mutant: whether the image is protected is not asked.
ReceivePatchAnyway(c, i) ==
    /\ patching[c] = Idle
    /\ Here(glance[i])
    /\ patching' = [patching EXCEPT ![c] = i]
    /\ UNCHANGED <<stores, disk, behind, reloaded>>

ReceivePatch(c, i) ==
    /\ patching[c] = Idle
    /\ Here(glance[i])
    /\ ~glance[i].protected
    /\ patching' = [patching EXCEPT ![c] = i]
    /\ UNCHANGED <<stores, disk, behind, reloaded>>

\* Mutant: what Nova has is not renewed.
RenewedIfActiveNever(i, g) ==
    /\ glance' = [glance EXCEPT ![i] = g]
    /\ UNCHANGED <<nova, behind>>

RenewedIfActive(i, g) ==
    IF g.status = "active" THEN Renewed(i, g)
    ELSE /\ glance' = [glance EXCEPT ![i] = g]
         /\ UNCHANGED <<nova, behind>>

\* Not saved.
UpdateImage(c, i, sh, pr, l) ==
    /\ patching[c] = i
    /\ Here(glance[i])
    /\ RenewedIfActive(i, NewImage(glance[i].status, sh, pr, l))
    /\ patching' = [patching EXCEPT ![c] = Idle]
    /\ UNCHANGED <<members, disk, reloaded>>

\* The body is no JSON, or the image is gone.
RefuseUpdate(c) ==
    /\ patching[c] # Idle
    /\ patching' = [patching EXCEPT ![c] = Idle]
    /\ UNCHANGED <<stores, disk, behind, reloaded>>

(***************************************************************************)
(* Deletion.                                                               *)
(***************************************************************************)

\* The file is written when Glance's image is deleted, and Nova's is not yet.
SavedByDeletion(i) == disk' = IF AutoSave THEN File(glance', nova, members) ELSE disk

DeleteGlanceImage(i) ==
    /\ Here(glance[i])
    /\ ~glance[i].protected
    /\ glance' = [glance EXCEPT ![i] = Gone]
    /\ nova' = [nova EXCEPT ![i] = Absent]
    /\ members' = [members EXCEPT ![i] = {}]
    /\ SavedByDeletion(i)
    /\ behind' = behind \ {i}
    /\ reloaded' = reloaded \ {i}
    /\ UNCHANGED patching

\* Nova's own, deprecated DELETE.  Glance is not told.
DeleteNovaImage(i) ==
    /\ nova[i] # Absent
    /\ nova' = [nova EXCEPT ![i] = Absent]
    /\ behind' = behind \cup {i}
    /\ UNCHANGED <<glance, members, patching, reloaded>>
    /\ Save

(***************************************************************************)
(* Data and status.  Nothing here is saved.  The upload waits for its body *)
(* too, but the status is looked at afterwards.                            *)
(***************************************************************************)

WithStatus(i, st) ==
    NewImage(st, glance[i].shared, glance[i].protected, glance[i].label)

UploadImageData(i) ==
    /\ Here(glance[i]) /\ glance[i].status = "queued"
    /\ Renewed(i, WithStatus(i, "active"))
    /\ UNCHANGED <<members, disk, patching, reloaded>>

\* Whatever the status was; what Nova has is left as it is.
ImportImage(i) ==
    /\ Here(glance[i])
    /\ glance' = [glance EXCEPT ![i] = WithStatus(i, "active")]
    /\ behind' = behind \cup {i}
    /\ UNCHANGED <<nova, members, disk, patching, reloaded>>

\* Mutant: Nova keeps the image.
TakenFromNovaNever(i) == UNCHANGED nova

TakenFromNova(i) == nova' = [nova EXCEPT ![i] = Absent]

DeactivateGlanceImage(i) ==
    /\ Here(glance[i]) /\ glance[i].status = "active"
    /\ glance' = [glance EXCEPT ![i] = WithStatus(i, "deactivated")]
    /\ TakenFromNova(i)
    /\ reloaded' = reloaded \ {i}
    /\ UNCHANGED <<members, disk, patching, behind>>

ReactivateGlanceImage(i) ==
    /\ Here(glance[i]) /\ glance[i].status = "deactivated"
    /\ Renewed(i, WithStatus(i, "active"))
    /\ reloaded' = reloaded \ {i}
    /\ UNCHANGED <<members, disk, patching>>

(***************************************************************************)
(* Members, saves of other services, restarts.                             *)
(***************************************************************************)

AddImageMember(i, q) ==
    /\ Here(glance[i]) /\ glance[i].shared
    /\ members' = [members EXCEPT ![i] = @ \cup {q}]
    /\ UNCHANGED <<glance, nova, disk, patching, behind, reloaded>>

DeleteImageMember(i, q) ==
    /\ q \in members[i]
    /\ members' = [members EXCEPT ![i] = @ \ {q}]
    /\ UNCHANGED <<glance, nova, disk, patching, behind, reloaded>>

\* Any change of another service that saves.
SaveOfAnother ==
    /\ AutoSave
    /\ disk' = File(glance, nova, members)
    /\ UNCHANGED <<stores, patching, behind, reloaded>>

\* Every image of Glance is put into Nova's store, whatever its status, beside
\* what the file has of that store.
Restart ==
    /\ glance' = disk.glance
    /\ nova' = [i \in Image |-> IF Here(disk.glance[i]) THEN Projection(disk.glance[i])
                                ELSE disk.nova[i]]
    /\ members' = disk.members
    /\ patching' = [c \in Client |-> Idle]
    /\ behind' = {}
    /\ reloaded' = {i \in Image : \/ disk.glance[i] = Gone
                                  \/ Here(disk.glance[i]) /\ disk.glance[i].status = "deactivated"}
    /\ UNCHANGED disk

(***************************************************************************)
(* The requests, by the routes of the API.  A GET, and a change of tags or *)
(* of a member's answer, changes nothing that is held here.                *)
(***************************************************************************)

ImageRequests ==
    \E i \in Image :
        \/ \E sh, pr \in BOOLEAN, l \in Label : CreateGlanceImage(i, sh, pr, l)
        \/ \E c \in Client :
              \/ ReceivePatch(c, i)
              \/ \E sh, pr \in BOOLEAN, l \in Label : UpdateImage(c, i, sh, pr, l)
        \/ DeleteGlanceImage(i)

ImageActions ==
    \E i \in Image :
        \/ UploadImageData(i)
        \/ DeactivateGlanceImage(i)
        \/ ReactivateGlanceImage(i)
        \/ ImportImage(i)

MemberRequests ==
    \E i \in Image, q \in Project : AddImageMember(i, q) \/ DeleteImageMember(i, q)

NovaRequests ==
    \E i \in Image : DeleteNovaImage(i) \/ \E l \in Label : CreateServerSnapshot(i, l)

Next ==
    \/ ImageRequests
    \/ \E c \in Client : RefuseUpdate(c)
    \/ ImageActions
    \/ MemberRequests
    \/ NovaRequests
    \/ SaveOfAnother
    \/ Restart

Spec == Init /\ [][Next]_vars

(***************************************************************************)
(* Properties.                                                             *)
(***************************************************************************)

Files ==
    [glance : [Image -> GlanceRecord \cup {Unborn, Gone}],
     nova : [Image -> NovaRecord \cup {Absent}],
     members : [Image -> SUBSET Project]]

\* The stores hold what they are declared to hold, in memory and in the file.
TypeOK ==
    /\ File(glance, nova, members) \in Files
    /\ disk \in Files
    /\ patching \in [Client -> Image \cup {Idle}]
    /\ behind \subseteq Image
    /\ reloaded \subseteq Image

\* An active image is one that Nova has, as it is now: every order of upload,
\* PATCH, deactivation, reactivation and restart renews Nova's copy, save that
\* an import does not and that Nova may have been told to forget the image
\* (to_nova_image, update_glance_image, load).
NovaIsProjection ==
    \A i \in Image \ behind :
        Here(glance[i]) /\ glance[i].status = "active" => nova[i] = Projection(glance[i])

\* What Nova boots from, and what is shared with somebody, is an image that
\* Glance has and has not deactivated, save for what a restart brought back
\* (delete_, deactivate_glance_image, load).
NovaOffersWhatGlanceHas ==
    \A i \in Image \ reloaded :
        /\ nova[i] # Absent => Here(glance[i]) /\ glance[i].status # "deactivated"
        /\ members[i] # {} => Here(glance[i])

Locked(i) == Here(glance[i]) /\ glance[i].protected /\ \A c \in Client : patching[c] # i

\* A protected image that no PATCH waits for stays so, and stays as it is but for
\* its data, until the process ends: only a PATCH that was let in before the
\* image was protected may change it, delete nothing can (update_image,
\* delete_image, delete_glance_image).
ProtectionHolds ==
    [][\A i \in Image :
          Locked(i) => \/ Restart
                       \/ /\ Locked(i)'
                          /\ glance'[i].shared = glance[i].shared
                          /\ glance'[i].label = glance[i].label]_vars

\* With --auto-save an image that a client deleted is deleted in the file that
\* the next start loads (delete_glance_image).
DeletionIsSaved ==
    AutoSave => \A i \in Image : glance[i] = Gone => ~Here(disk.glance[i])

\* "test_deleting_the_image_removes_it_from_nova_too": what Glance has deleted
\* Nova cannot boot.
DeletedImagesDoNotBoot == \A i \in Image : glance[i] = Gone => nova[i] = Absent
=============================================================================

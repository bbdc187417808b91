---------------------------- MODULE ImagesProofs ----------------------------
(***************************************************************************)
(* Proofs about Images: types, that Nova's store is a projection of        *)
(* Glance's, that it offers nothing Glance has not, that protection holds  *)
(* and that deletions are saved, for every set of images, projects and     *)
(* connections, with --auto-save and without.                              *)
(***************************************************************************)
EXTENDS Images, TLAPS

----------------------------------------------------------------------------
(* The invariant, image by image: what the file has is less ordered than   *)
(* what memory has, because a deletion writes it half done.                *)

\* What the file may have of an image: nothing of one that was not born.
FileRule(g, n, m) == g = Unborn => n = Absent /\ m = {}

\* What memory may have of one, b and r telling whether an import or Nova's
\* DELETE, and whether a restart, got in between.
MemoryRule(g, n, m, b, r) ==
    /\ FileRule(g, n, m)
    /\ ~b /\ Here(g) /\ g.status = "active" => n = Projection(g)
    /\ ~r => /\ n # Absent => Here(g) /\ g.status # "deactivated"
             /\ m # {} => Here(g)

Rule(i) == MemoryRule(glance[i], nova[i], members[i], i \in behind, i \in reloaded)

DiskRule ==
    \A i \in Image : FileRule(disk.glance[i], disk.nova[i], disk.members[i])

IInv ==
    /\ TypeOK
    /\ \A i \in Image : Rule(i)
    /\ DiskRule

----------------------------------------------------------------------------
(* Records.                                                                *)

\* The fields of an image's record, and its type.
LEMMA NewImageFacts ==
    ASSUME NEW st \in Status, NEW sh \in BOOLEAN, NEW pr \in BOOLEAN, NEW l \in Label
    PROVE  LET g == NewImage(st, sh, pr, l) IN
           /\ g \in GlanceRecord /\ Here(g)
           /\ g.status = st /\ g.shared = sh /\ g.protected = pr /\ g.label = l
<1>1. NewImage(st, sh, pr, l) \in GlanceRecord
  BY DEF NewImage, GlanceRecord
<1>2. NewImage(st, sh, pr, l) \notin {Unborn, Gone}
  BY <1>1, RecordAssumption
<1> QED BY <1>1, <1>2 DEF NewImage, Here

\* What Nova is given is a record of its own, never the absence of one.
LEMMA ProjectionFacts ==
    ASSUME NEW g \in GlanceRecord
    PROVE  Projection(g) \in NovaRecord /\ Projection(g) # Absent
<1>1. Projection(g) \in NovaRecord
  BY DEF Projection, NovaRecord, GlanceRecord
<1> QED BY <1>1, RecordAssumption

\* An image that is there has a record, and its status may be set.
LEMMA HereFacts ==
    ASSUME TypeOK, NEW i \in Image, Here(glance[i])
    PROVE  /\ glance[i] \in GlanceRecord
           /\ glance[i].status \in Status
           /\ glance[i].shared \in BOOLEAN /\ glance[i].protected \in BOOLEAN
           /\ glance[i].label \in Label
<1>1. glance[i] \in GlanceRecord \cup {Unborn, Gone}
  BY DEF TypeOK, Files, File
<1> QED BY <1>1 DEF Here, GlanceRecord

\* The stores, taken out of TypeOK and put together again.
LEMMA TypeParts ==
    TypeOK <=> /\ glance \in [Image -> GlanceRecord \cup {Unborn, Gone}]
               /\ nova \in [Image -> NovaRecord \cup {Absent}]
               /\ members \in [Image -> SUBSET Project]
               /\ disk \in Files
               /\ patching \in [Client -> Image \cup {Idle}]
               /\ behind \subseteq Image
               /\ reloaded \subseteq Image
BY DEF TypeOK, Files, File

\* The fields of what a save writes.
LEMMA FileFacts ==
    ASSUME NEW g \in [Image -> GlanceRecord \cup {Unborn, Gone}],
           NEW n \in [Image -> NovaRecord \cup {Absent}],
           NEW m \in [Image -> SUBSET Project]
    PROVE  /\ File(g, n, m) \in Files
           /\ File(g, n, m).glance = g
           /\ File(g, n, m).nova = n
           /\ File(g, n, m).members = m
BY DEF File, Files

----------------------------------------------------------------------------
(* Renewals.                                                               *)

\* An image is given a new record, with Nova's beside it; the members and the
\* file are as the operation will have them.
LEMMA RenewedKeeps ==
    ASSUME IInv, NEW i \in Image, NEW g \in GlanceRecord, Here(g),
           Renewed(i, g),
           g.status # "deactivated",
           members' = members \/ members' = [members EXCEPT ![i] = {}],
           reloaded' = reloaded \/ reloaded' = reloaded \ {i}
    PROVE  /\ glance' \in [Image -> GlanceRecord \cup {Unborn, Gone}]
           /\ nova' \in [Image -> NovaRecord \cup {Absent}]
           /\ members' \in [Image -> SUBSET Project]
           /\ behind' \subseteq Image /\ reloaded' \subseteq Image
           /\ \A j \in Image : Rule(j)'
<1>0. TypeOK /\ (\A j \in Image : Rule(j))
  BY DEF IInv
<1>1. Projection(g) \in NovaRecord /\ Projection(g) # Absent
  BY ProjectionFacts
<1>2. /\ glance' \in [Image -> GlanceRecord \cup {Unborn, Gone}]
      /\ nova' \in [Image -> NovaRecord \cup {Absent}]
      /\ members' \in [Image -> SUBSET Project]
      /\ behind' \subseteq Image /\ reloaded' \subseteq Image
  BY <1>0, <1>1, TypeParts DEF Renewed
<1>3. ASSUME NEW j \in Image, j # i PROVE Rule(j)'
  <2>1. /\ glance'[j] = glance[j] /\ nova'[j] = nova[j] /\ members'[j] = members[j]
        /\ (j \in behind') = (j \in behind) /\ (j \in reloaded') = (j \in reloaded)
    BY <1>0, <1>3, TypeParts DEF Renewed
  <2> QED BY <1>0, <2>1 DEF Rule
<1>4. Rule(i)'
  <2>1. glance'[i] = g /\ nova'[i] = Projection(g)
    BY <1>0, TypeParts DEF Renewed
  <2> QED BY <2>1 DEF Rule, MemoryRule, FileRule, Here
<1> QED BY <1>2, <1>3, <1>4

\* What a save of the whole memory leaves in the file is in order.
LEMMA SaveKeeps ==
    ASSUME IInv, Save,
           glance' \in [Image -> GlanceRecord \cup {Unborn, Gone}],
           nova' \in [Image -> NovaRecord \cup {Absent}],
           members' \in [Image -> SUBSET Project],
           \A j \in Image : Rule(j)'
    PROVE  disk' \in Files /\ DiskRule'
<1>1. CASE AutoSave
  <2>1. /\ disk' \in Files /\ disk'.glance = glance' /\ disk'.nova = nova'
        /\ disk'.members = members'
    BY <1>1, FileFacts DEF Save
  <2> QED BY <2>1 DEF DiskRule, Rule, MemoryRule
<1>2. CASE ~AutoSave
  BY <1>2, TypeParts DEF Save, IInv, DiskRule
<1> QED BY <1>1, <1>2

\* The file is not written.
LEMMA DiskKept ==
    ASSUME IInv, disk' = disk
    PROVE  disk' \in Files /\ DiskRule'
BY TypeParts DEF IInv, DiskRule

----------------------------------------------------------------------------
(* The operations.                                                         *)

\* Images come into being.
LEMMA CreateGlanceImageKeeps ==
    ASSUME IInv, NEW i \in Image, NEW sh \in BOOLEAN, NEW pr \in BOOLEAN, NEW l \in Label,
           CreateGlanceImage(i, sh, pr, l)
    PROVE  IInv'
<1>1. LET g == NewImage("queued", sh, pr, l) IN
      g \in GlanceRecord /\ Here(g) /\ g.status = "queued"
  BY NewImageFacts DEF Status
<1>2. /\ glance' \in [Image -> GlanceRecord \cup {Unborn, Gone}]
      /\ nova' \in [Image -> NovaRecord \cup {Absent}]
      /\ members' \in [Image -> SUBSET Project]
      /\ behind' \subseteq Image /\ reloaded' \subseteq Image
      /\ \A j \in Image : Rule(j)'
  BY <1>1, RenewedKeeps DEF CreateGlanceImage
<1>3. disk' \in Files /\ DiskRule'
  BY <1>2, SaveKeeps DEF CreateGlanceImage
<1>4. patching' \in [Client -> Image \cup {Idle}]
  BY TypeParts DEF CreateGlanceImage, IInv
<1> QED BY <1>2, <1>3, <1>4, TypeParts DEF IInv, TypeOK, Files, File

\* Snapshots too.
LEMMA CreateServerSnapshotKeeps ==
    ASSUME IInv, NEW i \in Image, NEW l \in Label, CreateServerSnapshot(i, l)
    PROVE  IInv'
<1>1. LET g == NewImage("active", FALSE, FALSE, l) IN
      g \in GlanceRecord /\ Here(g) /\ g.status = "active"
  BY NewImageFacts DEF Status
<1>2. /\ glance' \in [Image -> GlanceRecord \cup {Unborn, Gone}]
      /\ nova' \in [Image -> NovaRecord \cup {Absent}]
      /\ members' \in [Image -> SUBSET Project]
      /\ behind' \subseteq Image /\ reloaded' \subseteq Image
      /\ \A j \in Image : Rule(j)'
  BY <1>1, RenewedKeeps DEF CreateServerSnapshot
<1>3. disk' \in Files /\ DiskRule' /\ patching' \in [Client -> Image \cup {Idle}]
  BY DiskKept, TypeParts DEF CreateServerSnapshot, IInv
<1> QED BY <1>2, <1>3 DEF IInv, TypeOK, Files, File

\* A change of status of an image that is there, all but the label's and the
\* flags' concern.
LEMMA WithStatusFacts ==
    ASSUME TypeOK, NEW i \in Image, Here(glance[i]), NEW st \in Status
    PROVE  /\ WithStatus(i, st) \in GlanceRecord /\ Here(WithStatus(i, st))
           /\ WithStatus(i, st).status = st
           /\ WithStatus(i, st).shared = glance[i].shared
           /\ WithStatus(i, st).protected = glance[i].protected
           /\ WithStatus(i, st).label = glance[i].label
BY HereFacts, NewImageFacts DEF WithStatus

\* Glance's record of one image changes, and Nova's goes or stays: what keeps
\* the rule of that image keeps the invariant.
LEMMA OneImage ==
    ASSUME IInv, NEW i \in Image, NEW g \in GlanceRecord \cup {Unborn, Gone},
           glance' = [glance EXCEPT ![i] = g],
           nova' = nova \/ nova' = [nova EXCEPT ![i] = Absent],
           members' = members \/ members' = [members EXCEPT ![i] = {}],
           behind' \in {behind, behind \ {i}, behind \cup {i}},
           reloaded' \in {reloaded, reloaded \ {i}},
           Rule(i)'
    PROVE  /\ glance' \in [Image -> GlanceRecord \cup {Unborn, Gone}]
           /\ nova' \in [Image -> NovaRecord \cup {Absent}]
           /\ members' \in [Image -> SUBSET Project]
           /\ behind' \subseteq Image /\ reloaded' \subseteq Image
           /\ \A j \in Image : Rule(j)'
<1>0. TypeOK /\ (\A j \in Image : Rule(j))
  BY DEF IInv
<1>1. /\ glance' \in [Image -> GlanceRecord \cup {Unborn, Gone}]
      /\ nova' \in [Image -> NovaRecord \cup {Absent}]
      /\ members' \in [Image -> SUBSET Project]
      /\ behind' \subseteq Image /\ reloaded' \subseteq Image
  BY <1>0, TypeParts
<1>2. ASSUME NEW j \in Image, j # i PROVE Rule(j)'
  <2>1. /\ glance'[j] = glance[j] /\ nova'[j] = nova[j] /\ members'[j] = members[j]
        /\ (j \in behind') = (j \in behind) /\ (j \in reloaded') = (j \in reloaded)
    BY <1>0, <1>2, TypeParts
  <2> QED BY <1>0, <2>1 DEF Rule
<1> QED BY <1>1, <1>2

\* The variables beside the stores and the file.
LEMMA Together ==
    ASSUME glance' \in [Image -> GlanceRecord \cup {Unborn, Gone}],
           nova' \in [Image -> NovaRecord \cup {Absent}],
           members' \in [Image -> SUBSET Project],
           behind' \subseteq Image, reloaded' \subseteq Image,
           \A j \in Image : Rule(j)',
           disk' \in Files, DiskRule',
           patching' \in [Client -> Image \cup {Idle}]
    PROVE  IInv'
BY DEF IInv, TypeOK, Files, File

\* A PATCH writes Glance's record, and Nova's of an active image.
LEMMA UpdateImageKeeps ==
    ASSUME IInv, NEW c \in Client, NEW i \in Image, NEW sh \in BOOLEAN,
           NEW pr \in BOOLEAN, NEW l \in Label, UpdateImage(c, i, sh, pr, l)
    PROVE  IInv'
<1> DEFINE g == NewImage(glance[i].status, sh, pr, l)
<1>0. TypeOK /\ Rule(i)
  BY DEF IInv
<1>1. Here(glance[i]) /\ glance[i].status \in Status
  BY <1>0, HereFacts DEF UpdateImage
<1>2. g \in GlanceRecord /\ Here(g) /\ g.status = glance[i].status
  BY <1>1, NewImageFacts
<1>3. RenewedIfActive(i, g)
  BY DEF UpdateImage
<1>4. members' = members /\ reloaded' = reloaded /\ disk' = disk
  BY DEF UpdateImage
<1>5. patching' \in [Client -> Image \cup {Idle}]
  BY <1>0, TypeParts DEF UpdateImage
<1>6. disk' \in Files /\ DiskRule'
  BY <1>4, DiskKept
<1> HIDE DEF g
<1>7. CASE g.status = "active"
  <2>1. Renewed(i, g)
    BY <1>3, <1>7 DEF RenewedIfActive
  <2> QED BY <1>2, <1>4, <1>5, <1>6, <1>7, <2>1, RenewedKeeps, Together
<1>8. CASE g.status # "active"
  <2>1. glance' = [glance EXCEPT ![i] = g] /\ nova' = nova /\ behind' = behind
    BY <1>3, <1>8 DEF RenewedIfActive
  <2>2. glance'[i] = g
    BY <1>0, <2>1, TypeParts
  <2>3. Rule(i)'
    BY <1>0, <1>1, <1>2, <1>4, <1>8, <2>1, <2>2 DEF Rule, MemoryRule, FileRule, Here
  <2> QED BY <1>2, <1>4, <1>5, <1>6, <2>1, <2>3, OneImage, Together
<1> QED BY <1>7, <1>8

\* A deletion saves Glance's half of itself.
LEMMA DeleteGlanceImageKeeps ==
    ASSUME IInv, NEW i \in Image, DeleteGlanceImage(i)
    PROVE  IInv'
<1>0. TypeOK /\ Rule(i) /\ DiskRule /\ (\A j \in Image : Rule(j))
  BY DEF IInv
<1>1. /\ glance' = [glance EXCEPT ![i] = Gone] /\ nova' = [nova EXCEPT ![i] = Absent]
      /\ members' = [members EXCEPT ![i] = {}] /\ behind' = behind \ {i}
      /\ reloaded' = reloaded \ {i} /\ patching' = patching
  BY DEF DeleteGlanceImage
<1>2. glance'[i] = Gone /\ nova'[i] = Absent /\ members'[i] = {}
  BY <1>0, <1>1, TypeParts
<1>3. Rule(i)'
  BY <1>2 DEF Rule, MemoryRule, FileRule, Here
<1>4. /\ glance' \in [Image -> GlanceRecord \cup {Unborn, Gone}]
      /\ nova' \in [Image -> NovaRecord \cup {Absent}]
      /\ members' \in [Image -> SUBSET Project]
      /\ behind' \subseteq Image /\ reloaded' \subseteq Image
      /\ \A j \in Image : Rule(j)'
  BY <1>1, <1>3, OneImage
<1>5. disk' \in Files /\ DiskRule'
  <2>1. CASE AutoSave
    <3>1. /\ disk' \in Files /\ disk'.glance = glance' /\ disk'.nova = nova
          /\ disk'.members = members
      <4>1. disk' = File(glance', nova, members)
        BY <2>1 DEF DeleteGlanceImage, SavedByDeletion
      <4>2. /\ nova \in [Image -> NovaRecord \cup {Absent}]
            /\ members \in [Image -> SUBSET Project]
        BY <1>0, TypeParts
      <4> QED BY <1>4, <4>1, <4>2, FileFacts
    <3>2. ASSUME NEW j \in Image PROVE FileRule(glance'[j], nova[j], members[j])
      BY <1>0, <1>1, <1>2, ImagesAssumption, TypeParts DEF Rule, MemoryRule, FileRule
    <3> QED BY <3>1, <3>2 DEF DiskRule
  <2>2. CASE ~AutoSave
    BY <2>2, DiskKept DEF DeleteGlanceImage, SavedByDeletion
  <2> QED BY <2>1, <2>2
<1> QED BY <1>0, <1>1, <1>4, <1>5, Together, TypeParts

\* Nova's own deletion.
LEMMA DeleteNovaImageKeeps ==
    ASSUME IInv, NEW i \in Image, DeleteNovaImage(i)
    PROVE  IInv'
<1>0. TypeOK /\ Rule(i)
  BY DEF IInv
<1>1. /\ nova' = [nova EXCEPT ![i] = Absent] /\ behind' = behind \cup {i}
      /\ UNCHANGED <<glance, members, patching, reloaded>> /\ Save
  BY DEF DeleteNovaImage
<1>2. glance' = [glance EXCEPT ![i] = glance[i]] /\ nova'[i] = Absent
      /\ glance[i] \in GlanceRecord \cup {Unborn, Gone}
  BY <1>0, <1>1, TypeParts
<1>3. Rule(i)'
  BY <1>0, <1>1, <1>2 DEF Rule, MemoryRule, FileRule
<1>4. /\ glance' \in [Image -> GlanceRecord \cup {Unborn, Gone}]
      /\ nova' \in [Image -> NovaRecord \cup {Absent}]
      /\ members' \in [Image -> SUBSET Project]
      /\ behind' \subseteq Image /\ reloaded' \subseteq Image
      /\ \A j \in Image : Rule(j)'
  BY <1>1, <1>2, <1>3, OneImage
<1> QED BY <1>0, <1>1, <1>4, SaveKeeps, Together, TypeParts

\* An upload and a reactivation renew Nova's copy.
LEMMA ActivationKeeps ==
    ASSUME IInv, NEW i \in Image, UploadImageData(i) \/ ReactivateGlanceImage(i)
    PROVE  IInv'
<1> DEFINE g == WithStatus(i, "active")
<1>0. TypeOK
  BY DEF IInv
<1>1. g \in GlanceRecord /\ Here(g) /\ g.status = "active"
  BY <1>0, WithStatusFacts DEF UploadImageData, ReactivateGlanceImage, Status
<1>2. /\ Renewed(i, g) /\ members' = members /\ disk' = disk /\ patching' = patching
      /\ reloaded' = reloaded \/ reloaded' = reloaded \ {i}
  BY DEF UploadImageData, ReactivateGlanceImage
<1> HIDE DEF g
<1>3. /\ glance' \in [Image -> GlanceRecord \cup {Unborn, Gone}]
      /\ nova' \in [Image -> NovaRecord \cup {Absent}]
      /\ members' \in [Image -> SUBSET Project]
      /\ behind' \subseteq Image /\ reloaded' \subseteq Image
      /\ \A j \in Image : Rule(j)'
  BY <1>1, <1>2, RenewedKeeps
<1> QED BY <1>0, <1>2, <1>3, DiskKept, Together, TypeParts

\* An import leaves Nova behind.
LEMMA ImportImageKeeps ==
    ASSUME IInv, NEW i \in Image, ImportImage(i)
    PROVE  IInv'
<1> DEFINE g == WithStatus(i, "active")
<1>0. TypeOK /\ Rule(i)
  BY DEF IInv
<1>1. g \in GlanceRecord /\ Here(g) /\ g.status = "active" /\ Here(glance[i])
  BY <1>0, WithStatusFacts DEF ImportImage, Status
<1>2. /\ glance' = [glance EXCEPT ![i] = g] /\ behind' = behind \cup {i}
      /\ UNCHANGED <<nova, members, disk, patching, reloaded>>
  BY DEF ImportImage
<1> HIDE DEF g
<1>3. glance'[i] = g
  BY <1>0, <1>2, TypeParts
<1>4. Rule(i)'
  BY <1>0, <1>1, <1>2, <1>3 DEF Rule, MemoryRule, FileRule, Here
<1> QED BY <1>0, <1>1, <1>2, <1>4, OneImage, DiskKept, Together, TypeParts

\* A deactivation takes the image out of Nova.
LEMMA DeactivateKeeps ==
    ASSUME IInv, NEW i \in Image, DeactivateGlanceImage(i)
    PROVE  IInv'
<1> DEFINE g == WithStatus(i, "deactivated")
<1>0. TypeOK /\ Rule(i)
  BY DEF IInv
<1>1. g \in GlanceRecord /\ Here(g) /\ g.status = "deactivated"
  BY <1>0, WithStatusFacts DEF DeactivateGlanceImage, Status
<1>2. /\ glance' = [glance EXCEPT ![i] = g] /\ nova' = [nova EXCEPT ![i] = Absent]
      /\ reloaded' = reloaded \ {i} /\ UNCHANGED <<members, disk, patching, behind>>
  BY DEF DeactivateGlanceImage, TakenFromNova
<1> HIDE DEF g
<1>3. glance'[i] = g /\ nova'[i] = Absent
  BY <1>0, <1>2, TypeParts
<1>4. Rule(i)'
  BY <1>1, <1>2, <1>3 DEF Rule, MemoryRule, FileRule, Here
<1> QED BY <1>0, <1>1, <1>2, <1>4, OneImage, DiskKept, Together, TypeParts

\* Members come to an image that is there.
LEMMA MembersKeep ==
    ASSUME IInv, NEW i \in Image, NEW q \in Project,
           AddImageMember(i, q) \/ DeleteImageMember(i, q)
    PROVE  IInv'
<1>0. TypeOK /\ (\A j \in Image : Rule(j))
  BY DEF IInv
<1>1. /\ UNCHANGED <<glance, nova, disk, patching, behind, reloaded>>
      /\ \/ members' = [members EXCEPT ![i] = @ \cup {q}] /\ Here(glance[i])
         \/ members' = [members EXCEPT ![i] = @ \ {q}] /\ members[i] # {}
  BY DEF AddImageMember, DeleteImageMember
<1>2. members' \in [Image -> SUBSET Project]
  BY <1>0, <1>1, TypeParts
<1>3. ASSUME NEW j \in Image PROVE Rule(j)'
  <2>1. \/ members'[j] = members[j]
        \/ j = i /\ Here(glance[i])
        \/ j = i /\ members[i] # {}
    BY <1>0, <1>1, TypeParts
  <2>2. glance'[j] = glance[j] /\ nova'[j] = nova[j] /\ behind' = behind
        /\ reloaded' = reloaded
    BY <1>1
  <2> QED BY <1>0, <2>1, <2>2 DEF Rule, MemoryRule, FileRule, Here
<1> QED BY <1>0, <1>1, <1>2, <1>3, DiskKept, Together, TypeParts

\* What a restart finds may be out of order where `reloaded' says so.
LEMMA RestartKeeps ==
    ASSUME IInv, Restart
    PROVE  IInv'
<1>0. TypeOK /\ DiskRule
  BY DEF IInv
<1>1. /\ disk.glance \in [Image -> GlanceRecord \cup {Unborn, Gone}]
      /\ disk.nova \in [Image -> NovaRecord \cup {Absent}]
      /\ disk.members \in [Image -> SUBSET Project]
  BY <1>0, TypeParts DEF Files
<1>2. /\ glance' = disk.glance /\ members' = disk.members /\ behind' = {} /\ disk' = disk
      /\ nova' = [j \in Image |-> IF Here(disk.glance[j]) THEN Projection(disk.glance[j])
                                  ELSE disk.nova[j]]
      /\ reloaded' = {j \in Image : \/ disk.glance[j] = Gone
                                    \/ /\ Here(disk.glance[j])
                                       /\ disk.glance[j].status = "deactivated"}
      /\ patching' = [c \in Client |-> Idle]
  BY DEF Restart
<1>3. ASSUME NEW j \in Image PROVE nova'[j] \in NovaRecord \cup {Absent} /\ Rule(j)'
  <2>1. CASE Here(disk.glance[j])
    <3>1. disk.glance[j] \in GlanceRecord
      BY <1>1, <2>1 DEF Here
    <3>2. nova'[j] = Projection(disk.glance[j]) /\ nova'[j] \in NovaRecord
      BY <1>2, <2>1, <3>1, ProjectionFacts
    <3> QED BY <1>2, <2>1, <3>1, <3>2 DEF Rule, MemoryRule, FileRule, Here
  <2>2. CASE ~Here(disk.glance[j])
    <3>1. nova'[j] = disk.nova[j] /\ members'[j] = disk.members[j]
      BY <1>2, <2>2
    <3>2. disk.glance[j] # Gone => nova'[j] = Absent /\ members'[j] = {}
      BY <1>0, <2>2, <3>1 DEF DiskRule, FileRule, Here
    <3>3. FileRule(glance'[j], nova'[j], members'[j])
      BY <1>0, <1>2, <3>1 DEF DiskRule
    <3> QED BY <1>1, <1>2, <2>2, <3>1, <3>2, <3>3 DEF Rule, MemoryRule, Here
  <2> QED BY <2>1, <2>2
<1>4. /\ nova' \in [Image -> NovaRecord \cup {Absent}]
      /\ behind' \subseteq Image /\ reloaded' \subseteq Image
      /\ patching' \in [Client -> Image \cup {Idle}]
  BY <1>2, <1>3
<1>5. \A j \in Image : Rule(j)'
  BY <1>3
<1> QED BY <1>1, <1>2, <1>4, <1>5, DiskKept, Together

\* What changes no image: a PATCH that comes in or is refused, a save, nothing.
LEMMA OthersKeep ==
    ASSUME IInv, UNCHANGED <<stores, behind, reloaded>>,
           disk' = disk \/ SaveOfAnother,
           patching' \in [Client -> Image \cup {Idle}]
    PROVE  IInv'
<1>0. TypeOK /\ (\A j \in Image : Rule(j))
  BY DEF IInv
<1>1. \A j \in Image : Rule(j)'
  BY <1>0 DEF Rule, stores
<1>2. /\ glance' \in [Image -> GlanceRecord \cup {Unborn, Gone}]
      /\ nova' \in [Image -> NovaRecord \cup {Absent}]
      /\ members' \in [Image -> SUBSET Project]
      /\ behind' \subseteq Image /\ reloaded' \subseteq Image
  BY <1>0, TypeParts DEF stores
<1>3. disk' = disk \/ Save
  BY DEF SaveOfAnother, Save, stores
<1>4. disk' \in Files /\ DiskRule'
  BY <1>1, <1>2, <1>3, DiskKept, SaveKeeps
<1> QED BY <1>1, <1>2, <1>4, Together

----------------------------------------------------------------------------
(* The invariant holds of the specification.                               *)

\* An empty Glance, an empty file.
LEMMA InitInv == Init => IInv
<1> SUFFICES ASSUME Init PROVE IInv
  OBVIOUS
<1>1. /\ glance \in [Image -> GlanceRecord \cup {Unborn, Gone}]
      /\ nova \in [Image -> NovaRecord \cup {Absent}]
      /\ members \in [Image -> SUBSET Project]
      /\ behind = {} /\ reloaded = {}
      /\ patching \in [Client -> Image \cup {Idle}]
      /\ \A i \in Image : glance[i] = Unborn /\ nova[i] = Absent /\ members[i] = {}
  BY DEF Init
<1>2. /\ disk \in Files /\ disk.glance = glance /\ disk.nova = nova
      /\ disk.members = members
  BY <1>1, FileFacts DEF Init
<1>3. TypeOK
  BY <1>1, <1>2, TypeParts
<1>4. DiskRule /\ \A i \in Image : Rule(i)
  BY <1>1, <1>2 DEF DiskRule, Rule, MemoryRule, FileRule, Here
<1> QED BY <1>3, <1>4 DEF IInv

\* A step keeps it.
LEMMA NextInv == IInv /\ [Next]_vars => IInv'
<1> SUFFICES ASSUME IInv, [Next]_vars PROVE IInv'
  OBVIOUS
<1>0. patching \in [Client -> Image \cup {Idle}]
  BY TypeParts DEF IInv
<1>1. CASE ImageRequests
  <2>1. ASSUME NEW i \in Image, NEW c \in Client, ReceivePatch(c, i) PROVE IInv'
    <3>1. patching' \in [Client -> Image \cup {Idle}]
      BY <1>0, <2>1 DEF ReceivePatch
    <3> QED BY <2>1, <3>1, OthersKeep DEF ReceivePatch
  <2> QED BY <1>1, <2>1, CreateGlanceImageKeeps, UpdateImageKeeps, DeleteGlanceImageKeeps
          DEF ImageRequests
<1>2. ASSUME NEW c \in Client, RefuseUpdate(c) PROVE IInv'
  <2>1. patching' \in [Client -> Image \cup {Idle}]
    BY <1>0, <1>2 DEF RefuseUpdate
  <2> QED BY <1>2, <2>1, OthersKeep DEF RefuseUpdate
<1>3. CASE ImageActions
  BY <1>3, ActivationKeeps, DeactivateKeeps, ImportImageKeeps DEF ImageActions
<1>4. CASE MemberRequests
  BY <1>4, MembersKeep DEF MemberRequests
<1>5. CASE NovaRequests
  BY <1>5, DeleteNovaImageKeeps, CreateServerSnapshotKeeps DEF NovaRequests
<1>6. CASE SaveOfAnother
  BY <1>0, <1>6, OthersKeep DEF SaveOfAnother
<1>7. CASE Restart
  BY <1>7, RestartKeeps
<1>8. CASE UNCHANGED vars
  BY <1>0, <1>8, OthersKeep DEF vars
<1> QED BY <1>1, <1>2, <1>3, <1>4, <1>5, <1>6, <1>7, <1>8 DEF Next

\* Memory and file are in order at all times, restarts included.
THEOREM Invariance == Spec => []IInv
BY InitInv, NextInv, PTL DEF Spec

----------------------------------------------------------------------------
(* What follows from it.                                                   *)

\* The stores hold what they are declared to hold, in memory and in the file.
THEOREM TypeCorrect == Spec => []TypeOK
<1>1. IInv => TypeOK
  BY DEF IInv
<1> QED BY <1>1, Invariance, PTL

\* Nova's copy of an active image is the image as it is now, imports and Nova's
\* own deletions apart.
THEOREM NovaProjects == Spec => []NovaIsProjection
<1>1. IInv => NovaIsProjection
  BY DEF IInv, Rule, MemoryRule, NovaIsProjection
<1> QED BY <1>1, Invariance, PTL

\* Nova boots from no image that is deleted or deactivated, and nobody shares
\* one that is gone, but for what a restart brought back.
THEOREM NovaOffersNoOther == Spec => []NovaOffersWhatGlanceHas
<1>1. IInv => NovaOffersWhatGlanceHas
  BY DEF IInv, Rule, MemoryRule, NovaOffersWhatGlanceHas
<1> QED BY <1>1, Invariance, PTL

\* The image that a step writes, and what becomes of the file.
LEMMA DeletionStep ==
    ASSUME IInv, [Next]_vars, AutoSave, DeletionIsSaved
    PROVE  DeletionIsSaved'
<1>0. TypeOK
  BY DEF IInv
<1> SUFFICES ASSUME NEW i \in Image, glance'[i] = Gone PROVE ~Here(disk'.glance[i])
  BY DEF DeletionIsSaved
<1>1. CASE disk'.glance = glance'
  BY <1>1 DEF Here
<1>2. CASE disk' = disk /\ glance[i] = Gone
  BY <1>2 DEF DeletionIsSaved
<1>3. Save \/ SaveOfAnother => disk'.glance = glance'
  BY DEF Save, SaveOfAnother, stores, File
<1>4. ASSUME NEW j \in Image, NEW g \in GlanceRecord, Here(g),
             glance' = [glance EXCEPT ![j] = g]
      PROVE  glance[i] = Gone
  BY <1>0, <1>4, TypeParts DEF Here
<1>5. ASSUME NEW j \in Image, NEW g \in GlanceRecord, Here(g), Renewed(j, g)
      PROVE  glance[i] = Gone
  BY <1>4, <1>5 DEF Renewed
<1>6. CASE ImageRequests
  <2>1. ASSUME NEW j \in Image, NEW sh \in BOOLEAN, NEW pr \in BOOLEAN, NEW l \in Label,
               CreateGlanceImage(j, sh, pr, l)
        PROVE  disk'.glance = glance'
    BY <1>3, <2>1 DEF CreateGlanceImage
  <2>2. ASSUME NEW j \in Image, NEW c \in Client, ReceivePatch(c, j)
        PROVE  disk' = disk /\ glance[i] = Gone
    BY <2>2 DEF ReceivePatch, stores
  <2>3. ASSUME NEW j \in Image, NEW c \in Client, NEW sh \in BOOLEAN, NEW pr \in BOOLEAN,
               NEW l \in Label, UpdateImage(c, j, sh, pr, l)
        PROVE  disk' = disk /\ glance[i] = Gone
    <3> DEFINE g == NewImage(glance[j].status, sh, pr, l)
    <3>1. g \in GlanceRecord /\ Here(g)
      BY <1>0, <2>3, HereFacts, NewImageFacts DEF UpdateImage
    <3>2. glance' = [glance EXCEPT ![j] = g] /\ disk' = disk
      BY <2>3 DEF UpdateImage, RenewedIfActive, Renewed
    <3> HIDE DEF g
    <3> QED BY <1>4, <3>1, <3>2
  <2>4. ASSUME NEW j \in Image, DeleteGlanceImage(j) PROVE disk'.glance = glance'
    BY <2>4 DEF DeleteGlanceImage, SavedByDeletion, File
  <2> QED BY <1>1, <1>2, <1>6, <2>1, <2>2, <2>3, <2>4 DEF ImageRequests
<1>7. ASSUME NEW c \in Client, RefuseUpdate(c) PROVE disk' = disk /\ glance' = glance
  BY <1>7 DEF RefuseUpdate, stores
<1>8. ASSUME NEW j \in Image,
             \/ UploadImageData(j) \/ DeactivateGlanceImage(j)
             \/ ReactivateGlanceImage(j) \/ ImportImage(j)
      PROVE  disk' = disk /\ glance[i] = Gone
  <2>1. Here(glance[j]) /\ disk' = disk
    BY <1>8 DEF UploadImageData, DeactivateGlanceImage, ReactivateGlanceImage, ImportImage
  <2>2. \E st \in Status : glance' = [glance EXCEPT ![j] = WithStatus(j, st)]
    BY <1>8 DEF UploadImageData, DeactivateGlanceImage, ReactivateGlanceImage,
                ImportImage, Renewed, Status
  <2>3. PICK st \in Status : glance' = [glance EXCEPT ![j] = WithStatus(j, st)]
    BY <2>2
  <2>4. WithStatus(j, st) \in GlanceRecord /\ Here(WithStatus(j, st))
    BY <1>0, <2>1, WithStatusFacts
  <2> QED BY <1>4, <2>1, <2>3, <2>4
<1>9. CASE MemberRequests
  BY <1>2, <1>9 DEF MemberRequests, AddImageMember, DeleteImageMember
<1>10. CASE NovaRequests
  <2>1. ASSUME NEW j \in Image, DeleteNovaImage(j) PROVE disk'.glance = glance'
    BY <1>3, <2>1 DEF DeleteNovaImage
  <2>2. ASSUME NEW j \in Image, NEW l \in Label, CreateServerSnapshot(j, l)
        PROVE  disk' = disk /\ glance[i] = Gone
    <3>1. NewImage("active", FALSE, FALSE, l) \in GlanceRecord
          /\ Here(NewImage("active", FALSE, FALSE, l))
      BY NewImageFacts DEF Status
    <3> QED BY <1>5, <2>2, <3>1 DEF CreateServerSnapshot
  <2> QED BY <1>1, <1>2, <1>10, <2>1, <2>2 DEF NovaRequests
<1>11. CASE Restart
  BY <1>1, <1>11 DEF Restart
<1>12. CASE UNCHANGED vars
  BY <1>2, <1>12 DEF vars, stores
<1>13. CASE SaveOfAnother
  BY <1>1, <1>3, <1>13
<1>14. CASE ImageActions
  BY <1>2, <1>8, <1>14 DEF ImageActions
<1> QED BY <1>2, <1>6, <1>7, <1>9, <1>10, <1>11, <1>12, <1>13, <1>14 DEF Next

\* With --auto-save a deletion is in the file from the moment it is answered.
THEOREM DeletionsLast == Spec => []DeletionIsSaved
<1>1. Init => DeletionIsSaved
  BY DEF Init, DeletionIsSaved, File, Here
<1>2. IInv /\ DeletionIsSaved /\ [Next]_vars => DeletionIsSaved'
  <2>1. CASE ~AutoSave
    BY <2>1 DEF DeletionIsSaved
  <2> QED BY <2>1, DeletionStep
<1> QED BY <1>1, <1>2, Invariance, PTL DEF Spec

\* A protected image that no PATCH waits for changes in its status alone until the
\* process ends, whoever asks for what.
THEOREM ProtectionLasts == Spec => ProtectionHolds
<1> DEFINE Kept(i) == /\ Locked(i)'
                      /\ glance'[i].shared = glance[i].shared
                      /\ glance'[i].label = glance[i].label
           Holds == \A i \in Image :
                       Locked(i) => \/ Restart
                                    \/ /\ Locked(i)'
                                       /\ glance'[i].shared = glance[i].shared
                                       /\ glance'[i].label = glance[i].label
<1>1. IInv /\ [Next]_vars => [Holds]_vars
  <2> SUFFICES ASSUME IInv, Next, NEW i \in Image, Locked(i), ~Restart
               PROVE  Kept(i)
    OBVIOUS
  <2>0. TypeOK
    BY DEF IInv
  <2>1. Here(glance[i]) /\ glance[i].protected /\ \A c \in Client : patching[c] # i
    BY DEF Locked
  <2>2. ASSUME glance'[i] = glance[i], \A c \in Client : patching'[c] # i PROVE Kept(i)
    BY <2>1, <2>2 DEF Locked
  <2>3. ASSUME NEW j \in Image, NEW g, j # i, patching' = patching,
               glance' = [glance EXCEPT ![j] = g]
        PROVE  Kept(i)
    BY <2>0, <2>1, <2>2, <2>3, TypeParts
  <2>4. ASSUME NEW j \in Image,
               \/ UploadImageData(j) \/ DeactivateGlanceImage(j)
               \/ ReactivateGlanceImage(j) \/ ImportImage(j)
        PROVE  Kept(i)
    <3>1. PICK st \in Status : glance' = [glance EXCEPT ![j] = WithStatus(j, st)]
      BY <2>4 DEF UploadImageData, DeactivateGlanceImage, ReactivateGlanceImage,
                  ImportImage, Renewed, Status
    <3>2. patching' = patching
      BY <2>4 DEF UploadImageData, DeactivateGlanceImage, ReactivateGlanceImage, ImportImage
    <3>3. CASE j = i
      <4>1. glance'[i] = WithStatus(i, st)
        BY <2>0, <3>1, <3>3, TypeParts
      <4> QED BY <2>0, <2>1, <3>2, <4>1, WithStatusFacts DEF Locked
    <3> QED BY <2>3, <3>1, <3>2, <3>3
  <2>5. CASE ImageRequests
    <3>1. ASSUME NEW j \in Image, NEW sh \in BOOLEAN, NEW pr \in BOOLEAN, NEW l \in Label,
                 CreateGlanceImage(j, sh, pr, l)
          PROVE  Kept(i)
      BY <2>1, <2>3, <3>1 DEF CreateGlanceImage, Renewed, Here
    <3>2. ASSUME NEW j \in Image, NEW c \in Client, ReceivePatch(c, j) PROVE Kept(i)
      BY <2>0, <2>1, <2>2, <3>2, TypeParts DEF ReceivePatch, stores
    <3>3. ASSUME NEW j \in Image, NEW c \in Client, NEW sh \in BOOLEAN, NEW pr \in BOOLEAN,
                 NEW l \in Label, UpdateImage(c, j, sh, pr, l)
          PROVE  Kept(i)
      <4> DEFINE g == NewImage(glance[j].status, sh, pr, l)
      <4>1. j # i /\ glance' = [glance EXCEPT ![j] = g]
        BY <2>1, <3>3 DEF UpdateImage, RenewedIfActive, Renewed
      <4>2. glance'[i] = glance[i]
        BY <2>0, <4>1, TypeParts
      <4>3. \A d \in Client : patching'[d] # i
        BY <2>0, <2>1, <3>3, ImagesAssumption, TypeParts DEF UpdateImage
      <4> QED BY <2>2, <4>2, <4>3
    <3>4. ASSUME NEW j \in Image, DeleteGlanceImage(j) PROVE Kept(i)
      BY <2>1, <2>3, <3>4 DEF DeleteGlanceImage
    <3> QED BY <2>5, <3>1, <3>2, <3>3, <3>4 DEF ImageRequests
  <2>6. ASSUME NEW c \in Client, RefuseUpdate(c) PROVE Kept(i)
    BY <2>0, <2>1, <2>2, <2>6, ImagesAssumption, TypeParts DEF RefuseUpdate, stores
  <2>7. CASE MemberRequests
    BY <2>1, <2>2, <2>7 DEF MemberRequests, AddImageMember, DeleteImageMember
  <2>8. CASE NovaRequests
    <3>1. ASSUME NEW j \in Image, DeleteNovaImage(j) PROVE Kept(i)
      BY <2>1, <2>2, <3>1 DEF DeleteNovaImage
    <3>2. ASSUME NEW j \in Image, NEW l \in Label, CreateServerSnapshot(j, l) PROVE Kept(i)
      BY <2>1, <2>3, <3>2 DEF CreateServerSnapshot, Renewed, Here
    <3> QED BY <2>8, <3>1, <3>2 DEF NovaRequests
  <2>9. CASE SaveOfAnother
    BY <2>1, <2>2, <2>9 DEF SaveOfAnother, stores
  <2>10. CASE ImageActions
    BY <2>4, <2>10 DEF ImageActions
  <2> QED BY <2>5, <2>6, <2>7, <2>8, <2>9, <2>10 DEF Next
<1> QED BY <1>1, Invariance, PTL DEF Spec, ProtectionHolds
=============================================================================

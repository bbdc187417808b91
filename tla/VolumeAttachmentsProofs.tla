---------------------- MODULE VolumeAttachmentsProofs ----------------------
(***************************************************************************)
(* What VolumeAttachments promises for every set of servers and volumes    *)
(* and every bound.  One predicate, Consistent, says when the four stores  *)
(* fit together; it holds of memory and of the file, so that a restart     *)
(* finds it again.  The heart of it is the coverage of Cinder's list by    *)
(* Nova's ledger, counted per server and volume: the lemmas of the first   *)
(* part say how appending to a list and deleting from one change a count.  *)
(***************************************************************************)
EXTENDS VolumeAttachments, FiniteSetTheorems, TLAPS

----------------------------------------------------------------------------
(* Counting the entries of a ledger.                                       *)

\* The positions of a volume in a ledger are finitely many.
LEMMA PositionsFinite ==
    ASSUME NEW list \in Seq(Mapping), NEW v
    PROVE  /\ IsFiniteSet(Positions(list, v))
           /\ Cardinality(Positions(list, v)) \in Nat
           /\ Positions(list, v) \subseteq 1..Len(list)
<1>1. Positions(list, v) \subseteq 1..Len(list)
  BY DEF Positions
<1>2. IsFiniteSet(1..Len(list))
  BY FS_Interval
<1> QED BY <1>1, <1>2, FS_Subset, FS_CardinalityType

\* An empty ledger names no volume.
LEMMA PositionsEmpty ==
    ASSUME NEW v
    PROVE  Cardinality(Positions(<<>>, v)) = 0
<1>1. Positions(<<>>, v) = {}
  BY DEF Positions
<1> QED BY <1>1, FS_EmptySet

\* An appended entry adds one to its volume's count and takes from no other.
LEMMA PositionsAppend ==
    ASSUME NEW list \in Seq(Mapping), NEW e \in Mapping, NEW v
    PROVE  Cardinality(Positions(Append(list, e), v)) =
             Cardinality(Positions(list, v)) + (IF e.volume = v THEN 1 ELSE 0)
<1> DEFINE n   == Len(list) + 1
           new == Append(list, e)
<1>1. /\ new \in Seq(Mapping) /\ DOMAIN new = 1..n
      /\ \A i \in 1..Len(list) : new[i] = list[i]
      /\ new[n] = e
  OBVIOUS
<1>2. DOMAIN list = 1..Len(list) /\ Len(list) \in Nat
  OBVIOUS
<1>3. 1..n = (1..Len(list)) \cup {n} /\ n \notin 1..Len(list)
  BY <1>2
<1>4. CASE e.volume = v
  <2>1. Positions(new, v) = Positions(list, v) \cup {n}
    <3> HIDE DEF n, new
    <3> QED BY <1>1, <1>2, <1>3, <1>4 DEF Positions
  <2>2. n \notin Positions(list, v)
    BY <1>2, <1>3 DEF Positions
  <2> QED BY <1>4, <2>1, <2>2, PositionsFinite, FS_AddElement
<1>5. CASE e.volume # v
  <2>1. Positions(new, v) = Positions(list, v)
    <3> HIDE DEF n, new
    <3> QED BY <1>1, <1>2, <1>3, <1>5 DEF Positions
  <2> QED BY <1>5, <2>1, PositionsFinite
<1> QED BY <1>4, <1>5

\* Deleting an entry takes one from its volume's count and nothing from another's.
LEMMA PositionsWithout ==
    ASSUME NEW list \in Seq(Mapping), NEW i \in 1..Len(list), NEW v
    PROVE  /\ Without(list, i) \in Seq(Mapping)
           /\ Cardinality(Positions(Without(list, i), v)) >=
                Cardinality(Positions(list, v)) -
                    (IF list[i].volume = v THEN 1 ELSE 0)
<1> DEFINE n    == Len(list)
           new  == Without(list, i)
           S    == Positions(list, v) \ {i}
           T    == Positions(new, v)
           f    == [j \in S |-> IF j < i THEN j ELSE j - 1]
<1>1. /\ n \in Nat /\ i \in 1..n /\ DOMAIN list = 1..n
      /\ \A j \in 1..n : list[j] \in Mapping
  OBVIOUS
<1>2. /\ new \in [1..(n - 1) -> Mapping]
      /\ DOMAIN new = 1..(n - 1)
      /\ \A j \in 1..(n - 1) : new[j] = IF j < i THEN list[j] ELSE list[j + 1]
  BY <1>1 DEF Without
<1>3. new \in Seq(Mapping)
  <2>1. n - 1 \in Nat
    BY <1>1
  <2> HIDE DEF n, new
  <2> QED BY <1>2, <2>1
<1>4. S \subseteq 1..n /\ i \notin S /\ \A j \in S : list[j].volume = v
  BY DEF Positions
<1>5. f \in [S -> T]
  <2> SUFFICES ASSUME NEW j \in S PROVE f[j] \in T
    OBVIOUS
  <2>1. CASE j < i
    <3>1. j \in 1..(n - 1) /\ new[j] = list[j] /\ f[j] = j
      <4> HIDE DEF new, S
      <4> QED BY <1>1, <1>2, <1>4, <2>1
    <3> HIDE DEF new, S, f
    <3> QED BY <1>2, <1>4, <3>1 DEF Positions
  <2>2. CASE ~(j < i)
    <3>1. /\ j - 1 \in 1..(n - 1) /\ ~(j - 1 < i)
          /\ f[j] = j - 1 /\ (j - 1) + 1 = j
      <4> HIDE DEF new, S
      <4> QED BY <1>1, <1>4, <2>2
    <3>2. new[j - 1] = list[j]
      <4> HIDE DEF n, new, S, f
      <4> QED BY <1>2, <3>1
    <3> HIDE DEF new, S, f
    <3> QED BY <1>2, <1>4, <3>1, <3>2 DEF Positions
  <2> QED BY <2>1, <2>2
<1>6. \A j, k \in S : f[j] = f[k] => j = k
  <2> HIDE DEF S
  <2> QED BY <1>1, <1>4
<1>7. f \in Injection(S, T)
  <2> HIDE DEF S, T, f
  <2> QED BY <1>5, <1>6 DEF Injection, IsInjective
<1>8. IsFiniteSet(T) /\ Cardinality(T) \in Nat
  <2> HIDE DEF new
  <2> QED BY <1>3, PositionsFinite
<1>9. Cardinality(S) <= Cardinality(T)
  <2> HIDE DEF S, T, f
  <2> QED BY <1>7, <1>8, FS_Injection
<1>10. Cardinality(S) = IF list[i].volume = v THEN Cardinality(Positions(list, v)) - 1
                        ELSE Cardinality(Positions(list, v))
  <2>1. i \in Positions(list, v) <=> list[i].volume = v
    BY <1>1 DEF Positions
  <2> QED BY <2>1, PositionsFinite, FS_RemoveElement
<1>11. Cardinality(Positions(list, v)) \in Nat
  BY PositionsFinite
<1> QED
  <2> HIDE DEF S, T, new
  <2>1. T = Positions(new, v) /\ new = Without(list, i)
    BY DEF T, new
  <2> QED BY <1>3, <1>8, <1>9, <1>10, <1>11, <2>1

----------------------------------------------------------------------------
(* The inductive invariant.                                                *)

Typed(sv, vo, no, ci) ==
    /\ sv \in [Server -> ServerStatus]
    /\ vo \in [Volume -> VolumeRecord]
    /\ no \in [Server -> Seq(Mapping)]
    /\ ci \in Counts

\* A volume's record r fits the counts c of its attachments.
VolumeRule(r, c) ==
    /\ r.status = "in-use" <=> c # None
    /\ ~r.multiattach => \A s, t \in Server :
          /\ c[s] <= 1
          /\ c[s] > 0 /\ c[t] > 0 => s = t

\* Nova's ledger covers the counts of every volume but the direct ones.
Covers(no, ci, dir) ==
    \A s \in Server, v \in Volume \ dir :
        ci[v][s] <= Cardinality(Positions(no[s], v))

\* Only a server that exists has a ledger.
OnlyLive(sv, no) == \A s \in Server : sv[s] # "live" => no[s] = <<>>

Consistent(sv, vo, no, ci, dir) ==
    /\ Typed(sv, vo, no, ci)
    /\ \A v \in Volume : VolumeRule(vo[v], ci[v])
    /\ Covers(no, ci, dir)
    /\ OnlyLive(sv, no)

MemoryOK == Consistent(server, volume, nova, cinder, direct)

DiskOK ==
    /\ disk = Image(disk.server, disk.volume, disk.nova, disk.cinder)
    /\ Consistent(disk.server, disk.volume, disk.nova, disk.cinder, direct)

\* A boot in progress is that of a server that exists.
BootOK ==
    /\ booting \in Server \cup {Idle}
    /\ booting # Idle => server[booting] = "live"

IInv ==
    /\ MemoryOK
    /\ DiskOK
    /\ BootOK
    /\ direct \subseteq Volume

----------------------------------------------------------------------------
(* One volume's record and counts.                                         *)

\* A volume has no attachment when every count is zero.
LEMMA NoneIsZero ==
    ASSUME NEW c \in [Server -> Nat]
    PROVE  c = None <=> \A s \in Server : c[s] = 0
BY DEF None

\* What attach_volume makes of a volume's record and counts.
Taken(r)   == [r EXCEPT !.status = "in-use"]
Plus(c, s) == [c EXCEPT ![s] = c[s] + 1]

\* attach_volume, where CanAttach admits it, keeps the rule.
LEMMA AttachRule ==
    ASSUME NEW r \in VolumeRecord, NEW c \in [Server -> Nat], VolumeRule(r, c),
           NEW s \in Server,
           r.status = "available" \/ (r.status = "in-use" /\ r.multiattach)
    PROVE  /\ Plus(c, s) \in [Server -> Nat]
           /\ Taken(r) \in VolumeRecord
           /\ VolumeRule(Taken(r), Plus(c, s))
<1> DEFINE d == Plus(c, s)
           q == Taken(r)
<1>1. /\ d \in [Server -> Nat]
      /\ \A t \in Server : d[t] = IF t = s THEN c[s] + 1 ELSE c[t]
      /\ c[s] \in Nat
  BY DEF Plus
<1>2. d[s] # 0
  BY <1>1
<1>3. d # None
  <2> HIDE DEF d
  <2> QED BY <1>1, <1>2, NoneIsZero
<1>4. /\ q \in VolumeRecord /\ q.status = "in-use"
      /\ q.multiattach = r.multiattach
  BY DEF VolumeRecord, Taken
<1>5. ~r.multiattach => \A t \in Server : c[t] = 0
  <2>1. ~r.multiattach => r.status = "available"
    OBVIOUS
  <2>2. ~r.multiattach => c = None
    BY <2>1 DEF VolumeRule
  <2> QED BY <2>2, NoneIsZero
<1>6. VolumeRule(q, d)
  <2> HIDE DEF q, d
  <2> QED BY <1>1, <1>3, <1>4, <1>5 DEF VolumeRule
<1> QED BY <1>1, <1>4, <1>6

\* Taking attachments away and reading the status off what is left keeps it.
LEMMA DetachRule ==
    ASSUME NEW r \in VolumeRecord, NEW c \in [Server -> Nat], VolumeRule(r, c),
           NEW d \in [Server -> Nat], \A s \in Server : d[s] <= c[s]
    PROVE  LET q == [r EXCEPT !.status = IF d = None THEN "available" ELSE "in-use"]
           IN  q \in VolumeRecord /\ VolumeRule(q, d)
<1> DEFINE st == IF d = None THEN "available" ELSE "in-use"
           q  == [r EXCEPT !.status = st]
<1>1. st \in {"available", "in-use"} /\ (st = "in-use" <=> d # None)
  OBVIOUS
<1>2. /\ q \in VolumeRecord /\ q.status = st
      /\ q.multiattach = r.multiattach
  <2> HIDE DEF st
  <2> QED BY <1>1 DEF VolumeRecord
<1>3. ~r.multiattach => \A s, t \in Server :
          /\ d[s] <= 1
          /\ d[s] > 0 /\ d[t] > 0 => s = t
  <2> SUFFICES ASSUME ~r.multiattach, NEW s \in Server, NEW t \in Server
               PROVE  /\ d[s] <= 1
                      /\ d[s] > 0 /\ d[t] > 0 => s = t
    OBVIOUS
  <2>1. /\ c[s] <= 1
        /\ c[s] > 0 /\ c[t] > 0 => s = t
    BY DEF VolumeRule
  <2>2. /\ c[s] \in Nat /\ c[t] \in Nat /\ d[s] \in Nat /\ d[t] \in Nat
        /\ d[s] <= c[s] /\ d[t] <= c[t]
    OBVIOUS
  <2> QED BY <2>1, <2>2
<1>4. VolumeRule(q, d)
  <2> HIDE DEF q, st
  <2> QED BY <1>1, <1>2, <1>3 DEF VolumeRule
<1> QED BY <1>2, <1>4

\* A save copies memory into the file.
LEMMA SaveKeeps ==
    ASSUME DiskOK, Save, MemoryOK', direct \subseteq direct'
    PROVE  DiskOK'
<1>1. CASE AutoSave
  <2>1. disk' = Image(server', volume', nova', cinder')
    BY <1>1 DEF Save
  <2>2. /\ disk'.server = server' /\ disk'.volume = volume'
        /\ disk'.nova = nova' /\ disk'.cinder = cinder'
    BY <2>1 DEF Image
  <2> QED BY <2>1, <2>2 DEF DiskOK, MemoryOK
<1>2. CASE ~AutoSave
  BY <1>2 DEF Save, DiskOK, Consistent, Covers
<1> QED BY <1>1, <1>2

----------------------------------------------------------------------------
(* Every step keeps the invariant.                                         *)

\* A change to one volume v and the counts of v that keeps the rule of v and
\* the coverage by Nova's ledgers keeps memory consistent.
LEMMA OneVolume ==
    ASSUME MemoryOK, direct \subseteq direct', server' = server,
           nova' \in [Server -> Seq(Mapping)], OnlyLive(server, nova'),
           NEW v \in Volume, NEW r \in VolumeRecord, NEW c \in [Server -> Nat],
           VolumeRule(r, c),
           volume' = [volume EXCEPT ![v] = r], cinder' = [cinder EXCEPT ![v] = c],
           v \notin direct' => \A s \in Server :
                                c[s] <= Cardinality(Positions(nova'[s], v)),
           \A w \in Volume \ direct : w # v => \A s \in Server :
               Cardinality(Positions(nova'[s], w)) >= Cardinality(Positions(nova[s], w))
    PROVE  MemoryOK'
<1>1. /\ volume \in [Volume -> VolumeRecord] /\ cinder \in [Volume -> [Server -> Nat]]
      /\ nova \in [Server -> Seq(Mapping)] /\ server \in [Server -> ServerStatus]
  BY DEF MemoryOK, Consistent, Typed, Counts
<1>2. Typed(server', volume', nova', cinder')
  BY <1>1 DEF Typed, Counts
<1>3. \A w \in Volume : /\ volume'[w] = IF w = v THEN r ELSE volume[w]
                        /\ cinder'[w] = IF w = v THEN c ELSE cinder[w]
  BY <1>1
<1>4. \A w \in Volume : VolumeRule(volume'[w], cinder'[w])
  BY <1>3 DEF MemoryOK, Consistent
<1>5. Covers(nova', cinder', direct')
  <2> SUFFICES ASSUME NEW s \in Server, NEW w \in Volume \ direct'
               PROVE  cinder'[w][s] <= Cardinality(Positions(nova'[s], w))
    BY DEF Covers
  <2>1. CASE w = v
    BY <1>3, <2>1
  <2>2. CASE w # v
    <3>1. cinder[w][s] <= Cardinality(Positions(nova[s], w))
      BY DEF MemoryOK, Consistent, Covers
    <3>2. /\ cinder[w][s] \in Nat
          /\ Cardinality(Positions(nova[s], w)) \in Nat
          /\ Cardinality(Positions(nova'[s], w)) \in Nat
      BY <1>1, PositionsFinite
    <3>3. Cardinality(Positions(nova'[s], w)) >= Cardinality(Positions(nova[s], w))
      BY <2>2
    <3>4. cinder'[w][s] = cinder[w][s]
      BY <1>3, <2>2
    <3> QED BY <3>1, <3>2, <3>3, <3>4
  <2> QED BY <2>1, <2>2
<1> QED BY <1>2, <1>4, <1>5 DEF MemoryOK, Consistent

\* Nova's list is as it was.
LEMMA SameNova ==
    ASSUME MemoryOK, nova' = nova
    PROVE  /\ nova' \in [Server -> Seq(Mapping)] /\ OnlyLive(server, nova')
           /\ \A w \in Volume, s \in Server :
                 Cardinality(Positions(nova'[s], w)) >= Cardinality(Positions(nova[s], w))
<1>1. nova \in [Server -> Seq(Mapping)] /\ OnlyLive(server, nova)
  BY DEF MemoryOK, Consistent, Typed
<1>2. ASSUME NEW w \in Volume, NEW s \in Server
      PROVE  Cardinality(Positions(nova[s], w)) \in Nat
  BY <1>1, PositionsFinite
<1> QED BY <1>1, <1>2

\* What is known of one volume in a consistent memory.
LEMMA VolumeFacts ==
    ASSUME MemoryOK, NEW v \in Volume
    PROVE  /\ volume[v] \in VolumeRecord /\ cinder[v] \in [Server -> Nat]
           /\ VolumeRule(volume[v], cinder[v])
           /\ v \notin direct => \A s \in Server :
                 cinder[v][s] <= Cardinality(Positions(nova[s], v))
BY DEF MemoryOK, Consistent, Typed, Counts, Covers

\* attach_volume on Cinder's side, with one more entry in Nova's ledger or a
\* volume that is marked direct.
LEMMA AttachKeeps ==
    ASSUME MemoryOK, direct \subseteq direct', server' = server,
           NEW v \in Volume, NEW s \in Server, CanAttach(v), AttachVolume(v, s),
           nova' \in [Server -> Seq(Mapping)], OnlyLive(server, nova'),
           \A w \in Volume, t \in Server :
               Cardinality(Positions(nova'[t], w)) >= Cardinality(Positions(nova[t], w)),
           v \notin direct' => Cardinality(Positions(nova'[s], v)) >=
                                 Cardinality(Positions(nova[s], v)) + 1
    PROVE  MemoryOK'
<1> DEFINE r == Taken(volume[v])
           c == Plus(cinder[v], s)
<1>1. r \in VolumeRecord /\ c \in [Server -> Nat] /\ VolumeRule(r, c)
  <2>1. /\ volume[v] \in VolumeRecord /\ cinder[v] \in [Server -> Nat]
        /\ VolumeRule(volume[v], cinder[v])
    BY VolumeFacts
  <2>2. \/ volume[v].status = "available"
        \/ volume[v].status = "in-use" /\ volume[v].multiattach
    BY DEF CanAttach
  <2> QED BY <2>1, <2>2, AttachRule
<1>2. volume' = [volume EXCEPT ![v] = r] /\ cinder' = [cinder EXCEPT ![v] = c]
  BY VolumeFacts DEF AttachVolume, Taken, Plus
<1>3. ASSUME v \notin direct', NEW t \in Server
      PROVE  c[t] <= Cardinality(Positions(nova'[t], v))
  <2>1. /\ cinder[v][t] <= Cardinality(Positions(nova[t], v))
        /\ cinder[v][t] \in Nat
        /\ c[t] = IF t = s THEN cinder[v][s] + 1 ELSE cinder[v][t]
    BY <1>3, VolumeFacts DEF Plus
  <2>2. /\ Cardinality(Positions(nova[t], v)) \in Nat
        /\ Cardinality(Positions(nova'[t], v)) \in Nat
    BY PositionsFinite DEF MemoryOK, Consistent, Typed
  <2>3. Cardinality(Positions(nova'[t], v)) >= Cardinality(Positions(nova[t], v))
    OBVIOUS
  <2>4. t = s => Cardinality(Positions(nova'[t], v)) >=
                   Cardinality(Positions(nova[t], v)) + 1
    BY <1>3
  <2> HIDE DEF c
  <2> QED BY <2>1, <2>2, <2>3, <2>4
<1> HIDE DEF r, c
<1> QED BY <1>1, <1>2, <1>3, OneVolume

\* Taking attachments of v away on Cinder's side, where Nova's ledger keeps
\* covering what is left.
LEMMA DetachKeeps ==
    ASSUME MemoryOK, direct' = direct, server' = server,
           NEW v \in Volume, NEW d \in [Server -> Nat],
           \A s \in Server : d[s] <= cinder[v][s],
           cinder' = [cinder EXCEPT ![v] = d],
           volume' = [volume EXCEPT ![v] =
               [volume[v] EXCEPT !.status = IF d = None THEN "available" ELSE "in-use"]],
           nova' \in [Server -> Seq(Mapping)], OnlyLive(server, nova'),
           \A s \in Server : d[s] > 0 =>
               d[s] - cinder[v][s] <= Cardinality(Positions(nova'[s], v))
                                        - Cardinality(Positions(nova[s], v)),
           \A w \in Volume \ {v}, t \in Server :
               Cardinality(Positions(nova'[t], w)) >= Cardinality(Positions(nova[t], w))
    PROVE  MemoryOK'
<1> DEFINE r == [volume[v] EXCEPT !.status = IF d = None THEN "available" ELSE "in-use"]
<1>1. r \in VolumeRecord /\ VolumeRule(r, d)
  BY VolumeFacts, DetachRule
<1>2. ASSUME v \notin direct, NEW s \in Server
      PROVE  d[s] <= Cardinality(Positions(nova'[s], v))
  <2>1. cinder[v][s] <= Cardinality(Positions(nova[s], v)) /\ cinder[v][s] \in Nat
    BY <1>2, VolumeFacts
  <2>2. /\ Cardinality(Positions(nova[s], v)) \in Nat
        /\ Cardinality(Positions(nova'[s], v)) \in Nat
    BY PositionsFinite DEF MemoryOK, Consistent, Typed
  <2>3. d[s] \in Nat
    OBVIOUS
  <2>4. d[s] > 0 => d[s] - cinder[v][s] <= Cardinality(Positions(nova'[s], v))
                                            - Cardinality(Positions(nova[s], v))
    OBVIOUS
  <2> QED BY <2>1, <2>2, <2>3, <2>4
<1> HIDE DEF r
<1>3. volume' = [volume EXCEPT ![v] = r]
  BY DEF r
<1> QED BY <1>1, <1>2, <1>3, OneVolume

\* Nova's list alone changes, and still covers what Cinder's says.
LEMMA NovaOnly ==
    ASSUME MemoryOK, server' = server, volume' = volume, cinder' = cinder,
           direct' = direct,
           nova' \in [Server -> Seq(Mapping)], OnlyLive(server, nova'),
           \A s \in Server, w \in Volume \ direct :
               cinder[w][s] <= Cardinality(Positions(nova'[s], w))
    PROVE  MemoryOK'
BY DEF MemoryOK, Consistent, Typed, Covers

\* A ledger that takes an entry counts its volume once more, no other less.
LEMMA LedgerGrows ==
    ASSUME MemoryOK, NEW s \in Server, NEW v \in Volume, NEW dot \in BOOLEAN,
           server[s] = "live", nova' = [nova EXCEPT ![s] = Append(@, Entry(v, dot))]
    PROVE  /\ nova' \in [Server -> Seq(Mapping)] /\ OnlyLive(server, nova')
           /\ \A w \in Volume, t \in Server :
                 Cardinality(Positions(nova'[t], w)) >= Cardinality(Positions(nova[t], w))
           /\ Cardinality(Positions(nova'[s], v)) >= Cardinality(Positions(nova[s], v)) + 1
<1> DEFINE e == Entry(v, dot)
           l == Append(nova[s], e)
<1>1. nova \in [Server -> Seq(Mapping)] /\ OnlyLive(server, nova)
  BY DEF MemoryOK, Consistent, Typed
<1>2. e \in Mapping /\ e.volume = v
  BY DEF Entry, Mapping
<1>3. l \in Seq(Mapping)
  <2> HIDE DEF e
  <2> QED BY <1>1, <1>2
<1>4. \A t \in Server : nova'[t] = IF t = s THEN l ELSE nova[t]
  BY <1>1
<1>5. \A t \in Server, w \in Volume : Cardinality(Positions(nova[t], w)) \in Nat
  BY <1>1, PositionsFinite
<1>6. \A w : Cardinality(Positions(l, w)) =
               Cardinality(Positions(nova[s], w)) + (IF v = w THEN 1 ELSE 0)
  <2> HIDE DEF e
  <2> QED BY <1>1, <1>2, PositionsAppend
<1>7. nova' \in [Server -> Seq(Mapping)] /\ OnlyLive(server, nova')
  <2> HIDE DEF l
  <2> QED BY <1>1, <1>3, <1>4 DEF OnlyLive
<1>8. ASSUME NEW w \in Volume, NEW t \in Server
      PROVE  Cardinality(Positions(nova'[t], w)) >= Cardinality(Positions(nova[t], w))
  <2>1. CASE t = s
    <3> HIDE DEF l
    <3> QED BY <1>4, <1>5, <1>6, <2>1
  <2>2. CASE t # s
    <3> HIDE DEF l
    <3> QED BY <1>4, <1>5, <2>2
  <2> QED BY <2>1, <2>2
<1>9. Cardinality(Positions(nova'[s], v)) >= Cardinality(Positions(nova[s], v)) + 1
  <2> HIDE DEF l
  <2> QED BY <1>4, <1>5, <1>6
<1> QED BY <1>7, <1>8, <1>9

\* attach on both sides, refused by Cinder or not.
LEMMA AttachBothSidesKeeps ==
    ASSUME MemoryOK, NEW s \in Server, NEW v \in Volume, NEW dot \in BOOLEAN,
           server[s] = "live", AttachBothSides(s, v, dot)
    PROVE  MemoryOK'
<1>1. /\ nova' \in [Server -> Seq(Mapping)] /\ OnlyLive(server, nova')
      /\ \A w \in Volume, t \in Server :
            Cardinality(Positions(nova'[t], w)) >= Cardinality(Positions(nova[t], w))
      /\ Cardinality(Positions(nova'[s], v)) >= Cardinality(Positions(nova[s], v)) + 1
  BY LedgerGrows DEF AttachBothSides
<1>2. server' = server /\ direct' = direct
  BY DEF AttachBothSides
<1>3. CASE CanAttach(v) /\ AttachVolume(v, s)
  BY <1>1, <1>2, <1>3, AttachKeeps
<1>4. CASE ~CanAttach(v) /\ UNCHANGED <<volume, cinder, disk>>
  <2> SUFFICES ASSUME NEW t \in Server, NEW w \in Volume \ direct
               PROVE  cinder[w][t] <= Cardinality(Positions(nova'[t], w))
    BY <1>1, <1>2, <1>4, NovaOnly
  <2>1. /\ cinder[w][t] \in Nat
        /\ cinder[w][t] <= Cardinality(Positions(nova[t], w))
    BY VolumeFacts
  <2>2. /\ Cardinality(Positions(nova[t], w)) \in Nat
        /\ Cardinality(Positions(nova'[t], w)) \in Nat
    BY <1>1, PositionsFinite DEF MemoryOK, Consistent, Typed
  <2>3. Cardinality(Positions(nova'[t], w)) >= Cardinality(Positions(nova[t], w))
    BY <1>1
  <2> QED BY <2>1, <2>2, <2>3
<1> QED BY <1>3, <1>4 DEF AttachBothSides

\* A ledger that loses an entry of v counts v once less at most, no other less.
LEMMA LedgerShrinks ==
    ASSUME MemoryOK, NEW s \in Server, NEW v \in Volume, server[s] = "live",
           NEW i \in Positions(nova[s], v), nova' = [nova EXCEPT ![s] = Without(@, i)]
    PROVE  /\ nova' \in [Server -> Seq(Mapping)] /\ OnlyLive(server, nova')
           /\ \A w \in Volume, t \in Server : (w # v \/ t # s) =>
                 Cardinality(Positions(nova'[t], w)) >= Cardinality(Positions(nova[t], w))
           /\ Cardinality(Positions(nova'[s], v)) >= Cardinality(Positions(nova[s], v)) - 1
<1> DEFINE l == Without(nova[s], i)
<1>1. nova \in [Server -> Seq(Mapping)] /\ OnlyLive(server, nova)
  BY DEF MemoryOK, Consistent, Typed
<1>2. i \in 1..Len(nova[s]) /\ nova[s][i].volume = v
  BY <1>1 DEF Positions
<1>3. /\ l \in Seq(Mapping)
      /\ \A w : Cardinality(Positions(l, w)) >= Cardinality(Positions(nova[s], w)) -
                                                  (IF v = w THEN 1 ELSE 0)
  BY <1>1, <1>2, PositionsWithout
<1>4. \A t \in Server : nova'[t] = IF t = s THEN l ELSE nova[t]
  BY <1>1
<1>5. \A t \in Server, w \in Volume : Cardinality(Positions(nova[t], w)) \in Nat
  BY <1>1, PositionsFinite
<1>6. nova' \in [Server -> Seq(Mapping)] /\ OnlyLive(server, nova')
  <2> HIDE DEF l
  <2> QED BY <1>1, <1>3, <1>4 DEF OnlyLive
<1>7. ASSUME NEW w \in Volume, NEW t \in Server, w # v \/ t # s
      PROVE  Cardinality(Positions(nova'[t], w)) >= Cardinality(Positions(nova[t], w))
  <2>0. Cardinality(Positions(l, w)) \in Nat /\ Cardinality(Positions(nova[t], w)) \in Nat
    <3> HIDE DEF l
    <3> QED BY <1>3, <1>5, PositionsFinite
  <2>1. CASE t = s
    <3> HIDE DEF l
    <3> QED BY <1>3, <1>4, <1>7, <2>0, <2>1
  <2>2. CASE t # s
    <3> HIDE DEF l
    <3> QED BY <1>4, <2>0, <2>2
  <2> QED BY <2>1, <2>2
<1>8. Cardinality(Positions(nova'[s], v)) >= Cardinality(Positions(nova[s], v)) - 1
  <2> HIDE DEF l
  <2> QED BY <1>3, <1>4
<1> QED BY <1>6, <1>7, <1>8

\* detach_volume keeps memory consistent, under a Nova that loses one entry of
\* the volume in that server's ledger, or none.
LEMMA DetachVolumeKeeps ==
    ASSUME MemoryOK, NEW v \in Volume, NEW s \in Server,
           Attached(v, s), DetachVolume(v, s), direct' = direct, server' = server,
           nova' \in [Server -> Seq(Mapping)], OnlyLive(server, nova'),
           \A w \in Volume, t \in Server : (w # v \/ t # s) =>
               Cardinality(Positions(nova'[t], w)) >= Cardinality(Positions(nova[t], w)),
           Cardinality(Positions(nova'[s], v)) >= Cardinality(Positions(nova[s], v)) - 1
    PROVE  MemoryOK'
<1> DEFINE d == [cinder[v] EXCEPT ![s] = @ - 1]
<1>1. /\ cinder \in [Volume -> [Server -> Nat]] /\ cinder[v] \in [Server -> Nat]
      /\ cinder[v][s] \in Nat /\ cinder[v][s] > 0
      /\ nova \in [Server -> Seq(Mapping)]
  BY VolumeFacts DEF MemoryOK, Consistent, Typed, Counts, Attached
<1>2. /\ d \in [Server -> Nat]
      /\ \A t \in Server : d[t] = IF t = s THEN cinder[v][s] - 1 ELSE cinder[v][t]
  BY <1>1
<1>3. \A t \in Server : cinder[v][t] \in Nat /\ d[t] <= cinder[v][t]
  <2> HIDE DEF d
  <2> QED BY <1>1, <1>2
<1>4. cinder' = [cinder EXCEPT ![v] = d]
  BY <1>1 DEF DetachVolume
<1>5. cinder'[v] = d
  <2> HIDE DEF d
  <2> QED BY <1>1, <1>4
<1>6. volume' = [volume EXCEPT ![v] =
          [volume[v] EXCEPT !.status = IF d = None THEN "available" ELSE "in-use"]]
  <2> HIDE DEF d
  <2> QED BY <1>5 DEF DetachVolume, Record
<1>7. ASSUME NEW t \in Server
      PROVE  d[t] - cinder[v][t] <= Cardinality(Positions(nova'[t], v))
                                      - Cardinality(Positions(nova[t], v))
  <2>1. /\ Cardinality(Positions(nova[t], v)) \in Nat
        /\ Cardinality(Positions(nova'[t], v)) \in Nat
    BY <1>1, PositionsFinite
  <2>2. CASE t = s
    <3> HIDE DEF d
    <3> QED BY <1>1, <1>2, <2>1, <2>2
  <2>3. CASE t # s
    <3>1. Cardinality(Positions(nova'[t], v)) >= Cardinality(Positions(nova[t], v))
      BY <2>3
    <3>2. d[t] = cinder[v][t] /\ cinder[v][t] \in Nat
      <4> HIDE DEF d
      <4> QED BY <1>2, <1>3, <2>3
    <3> HIDE DEF d
    <3> QED BY <2>1, <3>1, <3>2
  <2> QED BY <2>2, <2>3
<1>8. \A w \in Volume \ {v}, t \in Server :
         Cardinality(Positions(nova'[t], w)) >= Cardinality(Positions(nova[t], w))
  OBVIOUS
<1> HIDE DEF d
<1> QED BY <1>2, <1>3, <1>4, <1>6, <1>7, <1>8, DetachKeeps

\* os-attach of a volume that becomes direct.
LEMMA OsAttachKeeps ==
    ASSUME MemoryOK, NEW v \in Volume, NEW s \in Server, OsAttach(v, s)
    PROVE  MemoryOK'
<1>1. /\ direct \subseteq direct' /\ v \in direct' /\ server' = server /\ nova' = nova
      /\ CanAttach(v) /\ AttachVolume(v, s)
  BY DEF OsAttach
<1>2. /\ nova' \in [Server -> Seq(Mapping)] /\ OnlyLive(server, nova')
      /\ \A w \in Volume, t \in Server :
            Cardinality(Positions(nova'[t], w)) >= Cardinality(Positions(nova[t], w))
  BY <1>1, SameNova
<1> QED BY <1>1, <1>2, AttachKeeps

\* os-detach of one attachment.
LEMMA OsDetachKeeps ==
    ASSUME MemoryOK, NEW v \in Volume, NEW s \in Server, OsDetach(v, s)
    PROVE  MemoryOK'
<1>1. /\ direct' = direct /\ server' = server /\ nova' = nova
      /\ Attached(v, s) /\ DetachVolume(v, s)
  BY DEF OsDetach
<1>2. /\ nova' \in [Server -> Seq(Mapping)] /\ OnlyLive(server, nova')
      /\ \A w \in Volume, t \in Server :
            Cardinality(Positions(nova'[t], w)) >= Cardinality(Positions(nova[t], w))
  BY <1>1, SameNova
<1>3. Cardinality(Positions(nova'[s], v)) \in Nat
  BY <1>2, PositionsFinite
<1>4. Cardinality(Positions(nova[s], v)) \in Nat
  BY PositionsFinite DEF MemoryOK, Consistent, Typed
<1>5. Cardinality(Positions(nova'[s], v)) >= Cardinality(Positions(nova[s], v)) - 1
  BY <1>2, <1>3, <1>4
<1> QED BY <1>1, <1>2, <1>5, DetachVolumeKeeps

\* os-detach of every attachment.
LEMMA OsDetachAllKeeps ==
    ASSUME MemoryOK, NEW v \in Volume, OsDetachAll(v)
    PROVE  MemoryOK'
<1>1. /\ direct' = direct /\ server' = server /\ nova' = nova
      /\ cinder' = [cinder EXCEPT ![v] = None]
      /\ volume' = [volume EXCEPT ![v].status = "available"]
  BY DEF OsDetachAll
<1>2. /\ nova' \in [Server -> Seq(Mapping)] /\ OnlyLive(server, nova')
      /\ \A w \in Volume, t \in Server :
            Cardinality(Positions(nova'[t], w)) >= Cardinality(Positions(nova[t], w))
  BY <1>1, SameNova
<1>3. /\ None \in [Server -> Nat]
      /\ \A s \in Server : None[s] = 0
  BY DEF None
<1>4. \A s \in Server : cinder[v][s] \in Nat /\ None[s] <= cinder[v][s]
  BY <1>3, VolumeFacts
<1>5. volume' = [volume EXCEPT ![v] =
          [volume[v] EXCEPT !.status = IF None = None THEN "available" ELSE "in-use"]]
  BY <1>1
<1>6. \A s \in Server : ~(None[s] > 0)
  BY <1>3
<1> QED BY <1>1, <1>2, <1>3, <1>4, <1>5, <1>6, DetachKeeps

\* DELETE os-volume_attachments, with or without an attachment in Cinder.
LEMMA DetachBothSidesKeeps ==
    ASSUME MemoryOK, NEW s \in Server, NEW v \in Volume, DetachVolumeFromServer(s, v)
    PROVE  MemoryOK'
<1>1. PICK i \in Positions(nova[s], v) : nova' = [nova EXCEPT ![s] = Without(@, i)]
  BY DEF DetachVolumeFromServer
<1>2. /\ server[s] = "live" /\ server' = server /\ direct' = direct
  BY DEF DetachVolumeFromServer
<1>3. /\ nova' \in [Server -> Seq(Mapping)] /\ OnlyLive(server, nova')
      /\ \A w \in Volume, t \in Server : (w # v \/ t # s) =>
            Cardinality(Positions(nova'[t], w)) >= Cardinality(Positions(nova[t], w))
      /\ Cardinality(Positions(nova'[s], v)) >= Cardinality(Positions(nova[s], v)) - 1
  BY <1>1, <1>2, LedgerShrinks
<1>4. CASE VolumeLive(v) /\ Attached(v, s) /\ DetachVolume(v, s)
  BY <1>2, <1>3, <1>4, DetachVolumeKeeps
<1>5. CASE ~(VolumeLive(v) /\ Attached(v, s)) /\ UNCHANGED <<volume, cinder, disk>>
  <2>1. cinder[v][s] = 0
    <3>1. cinder[v] \in [Server -> Nat] /\ cinder[v][s] \in Nat
      BY VolumeFacts
    <3>2. CASE ~VolumeLive(v)
      <4>1. cinder[v] = None
        BY <3>2, VolumeFacts DEF VolumeRule, VolumeLive
      <4> QED BY <4>1 DEF None
    <3>3. CASE ~Attached(v, s)
      BY <3>1, <3>3 DEF Attached
    <3> QED BY <1>5, <3>2, <3>3
  <2> SUFFICES ASSUME NEW t \in Server, NEW w \in Volume \ direct
               PROVE  cinder[w][t] <= Cardinality(Positions(nova'[t], w))
    BY <1>2, <1>3, <1>5, NovaOnly
  <2>2. /\ cinder[w][t] \in Nat
        /\ cinder[w][t] <= Cardinality(Positions(nova[t], w))
    BY VolumeFacts
  <2>3. /\ Cardinality(Positions(nova[t], w)) \in Nat
        /\ Cardinality(Positions(nova'[t], w)) \in Nat
    BY <1>3, PositionsFinite DEF MemoryOK, Consistent, Typed
  <2>4. CASE w = v /\ t = s
    BY <2>1, <2>3, <2>4
  <2>5. CASE w # v \/ t # s
    <3>1. Cardinality(Positions(nova'[t], w)) >= Cardinality(Positions(nova[t], w))
      BY <1>3, <2>5
    <3> QED BY <2>2, <2>3, <3>1
  <2> QED BY <2>4, <2>5
<1> QED BY <1>4, <1>5 DEF DetachVolumeFromServer

\* A volume without attachments gets another record, in-use not among them.
LEMMA RecordKeeps ==
    ASSUME MemoryOK, NEW v \in Volume, NEW r \in VolumeRecord,
           volume[v].status # "in-use", r.status # "in-use",
           volume' = [volume EXCEPT ![v] = r],
           UNCHANGED <<server, nova, cinder, direct>>
    PROVE  MemoryOK'
<1>1. /\ nova' \in [Server -> Seq(Mapping)] /\ OnlyLive(server, nova')
      /\ \A w \in Volume, t \in Server :
            Cardinality(Positions(nova'[t], w)) >= Cardinality(Positions(nova[t], w))
  BY SameNova
<1>2. cinder[v] \in [Server -> Nat] /\ cinder[v] = None
  BY VolumeFacts DEF VolumeRule
<1>3. cinder' = [cinder EXCEPT ![v] = cinder[v]]
  BY DEF MemoryOK, Consistent, Typed, Counts
<1>4. \A s \in Server : cinder[v][s] = 0
  BY <1>2, NoneIsZero
<1>5. VolumeRule(r, cinder[v])
  BY <1>2, <1>4 DEF VolumeRule
<1>6. \A s \in Server : cinder[v][s] <= Cardinality(Positions(nova'[s], v))
  BY <1>1, <1>4, PositionsFinite
<1> QED BY <1>1, <1>2, <1>3, <1>5, <1>6, OneVolume

\* A volume that is created.
LEMMA CreateVolumeKeeps ==
    ASSUME MemoryOK, NEW v \in Volume, NEW multi \in BOOLEAN, CreateVolume(v, multi)
    PROVE  MemoryOK'
<1> DEFINE r == [status |-> "available", multiattach |-> multi]
<1>1. r \in VolumeRecord /\ r.status = "available"
  BY DEF VolumeRecord
<1>2. volume' = [volume EXCEPT ![v] = r] /\ volume[v].status = "unborn"
  BY DEF CreateVolume
<1>3. UNCHANGED <<server, nova, cinder, direct>>
  BY DEF CreateVolume
<1> HIDE DEF r
<1> QED BY <1>1, <1>2, <1>3, RecordKeeps

\* A volume that is deleted: it had no attachment.
LEMMA DeleteVolumeKeeps ==
    ASSUME MemoryOK, NEW v \in Volume, DeleteVolume(v)
    PROVE  MemoryOK'
<1> DEFINE r == [volume[v] EXCEPT !.status = "gone"]
<1>1. r \in VolumeRecord /\ r.status = "gone"
  BY VolumeFacts DEF VolumeRecord
<1>2. volume' = [volume EXCEPT ![v] = r] /\ volume[v].status = "available"
  BY DEF DeleteVolume
<1>3. UNCHANGED <<server, nova, cinder, direct>>
  BY DEF DeleteVolume
<1> HIDE DEF r
<1> QED BY <1>1, <1>2, <1>3, RecordKeeps

\* POST /servers.
LEMMA CreateServerKeeps ==
    ASSUME MemoryOK, NEW s \in Server, CreateServer(s)
    PROVE  MemoryOK' /\ server'[s] = "live"
<1>1. server \in [Server -> ServerStatus]
  BY DEF MemoryOK, Consistent, Typed
<1>2. /\ server' \in [Server -> ServerStatus] /\ server'[s] = "live"
      /\ \A t \in Server : server'[t] # "live" => server[t] # "live"
  BY <1>1 DEF CreateServer, ServerStatus
<1>3. UNCHANGED <<volume, nova, cinder, direct>>
  BY DEF CreateServer
<1>4. MemoryOK'
  BY <1>2, <1>3 DEF MemoryOK, Consistent, Typed, Covers, OnlyLive
<1> QED BY <1>2, <1>4

\* delete_server takes every attachment that Nova's ledger names, and by the
\* coverage no other of a volume that is not direct.
LEMMA DeleteServerKeeps ==
    ASSUME MemoryOK, NEW s \in Server, DeleteServer(s)
    PROVE  MemoryOK'
<1>1. /\ server \in [Server -> ServerStatus] /\ volume \in [Volume -> VolumeRecord]
      /\ nova \in [Server -> Seq(Mapping)] /\ cinder \in [Volume -> [Server -> Nat]]
      /\ OnlyLive(server, nova)
  BY DEF MemoryOK, Consistent, Typed, Counts
<1>2. /\ server' = [server EXCEPT ![s] = "gone"] /\ direct' = direct
      /\ nova' = [nova EXCEPT ![s] = <<>>]
  BY DEF DeleteServer
<1>3. /\ server' \in [Server -> ServerStatus] /\ nova' \in [Server -> Seq(Mapping)]
      /\ OnlyLive(server', nova')
  <2>1. \A t \in Server : /\ server'[t] = IF t = s THEN "gone" ELSE server[t]
                          /\ nova'[t] = IF t = s THEN <<>> ELSE nova[t]
    BY <1>1, <1>2
  <2>2. server' \in [Server -> ServerStatus]
    BY <1>1, <1>2 DEF ServerStatus
  <2>3. nova' \in [Server -> Seq(Mapping)]
    BY <1>1, <1>2
  <2> QED BY <1>1, <2>1, <2>2, <2>3 DEF OnlyLive
<1>4. ASSUME NEW v \in Volume
      PROVE  /\ volume'[v] \in VolumeRecord /\ cinder'[v] \in [Server -> Nat]
             /\ VolumeRule(volume'[v], cinder'[v])
             /\ \A t \in Server : cinder'[v][t] <= cinder[v][t]
             /\ v \in Named(s) => cinder'[v][s] = 0
  <2>0. /\ volume[v] \in VolumeRecord /\ cinder[v] \in [Server -> Nat]
        /\ VolumeRule(volume[v], cinder[v])
        /\ \A t \in Server : cinder[v][t] \in Nat
    BY VolumeFacts
  <2>1. CASE v \in Doomed(s)
    <3> DEFINE r == [volume[v] EXCEPT !.status = "gone"]
    <3>1. volume'[v] = r /\ cinder'[v] = None
      BY <2>1 DEF DeleteServer
    <3>2. r \in VolumeRecord /\ r.status = "gone"
      BY <2>0 DEF VolumeRecord
    <3>3. None \in [Server -> Nat] /\ \A t \in Server : None[t] = 0
      BY DEF None
    <3>4. VolumeRule(r, None)
      <4> HIDE DEF r
      <4> QED BY <3>2, <3>3 DEF VolumeRule
    <3> HIDE DEF r
    <3> QED BY <2>0, <3>1, <3>2, <3>3, <3>4
  <2>2. CASE v \in Named(s) \ Doomed(s)
    <3> DEFINE d == [cinder[v] EXCEPT ![s] = 0]
               r == [volume[v] EXCEPT !.status = IF d = None THEN "available" ELSE "in-use"]
    <3>1. cinder'[v] = d
      BY <2>2 DEF DeleteServer
    <3>2. volume'[v] = r
      <4>1. volume'[v] = Record(v, cinder'[v])
        BY <2>2 DEF DeleteServer
      <4> HIDE DEF d
      <4> QED BY <3>1, <4>1 DEF Record
    <3>3. /\ d \in [Server -> Nat] /\ d[s] = 0
          /\ \A t \in Server : d[t] <= cinder[v][t]
      BY <2>0
    <3>4. r \in VolumeRecord /\ VolumeRule(r, d)
      <4> HIDE DEF d
      <4> QED BY <2>0, <3>3, DetachRule
    <3> HIDE DEF d, r
    <3> QED BY <3>1, <3>2, <3>3, <3>4
  <2>3. CASE v \notin Named(s)
    <3>1. v \notin Doomed(s)
      BY <2>3 DEF Doomed
    <3>2. volume'[v] = volume[v] /\ cinder'[v] = cinder[v]
      BY <2>3, <3>1 DEF DeleteServer
    <3> QED BY <2>0, <2>3, <3>2
  <2> QED BY <2>1, <2>2, <2>3 DEF Doomed
<1>5. Typed(server', volume', nova', cinder')
  <2>1. /\ volume' = [v \in Volume |-> volume'[v]]
        /\ cinder' = [v \in Volume |-> cinder'[v]]
    BY DEF DeleteServer
  <2>2. volume' \in [Volume -> VolumeRecord] /\ cinder' \in [Volume -> [Server -> Nat]]
    BY <1>4, <2>1
  <2> QED BY <1>3, <2>2 DEF Typed, Counts
<1>6. Covers(nova', cinder', direct')
  <2> SUFFICES ASSUME NEW t \in Server, NEW v \in Volume \ direct
               PROVE  cinder'[v][t] <= Cardinality(Positions(nova'[t], v))
    BY <1>2 DEF Covers
  <2>1. /\ cinder[v] \in [Server -> Nat] /\ cinder[v][t] \in Nat
        /\ cinder[v][t] <= Cardinality(Positions(nova[t], v))
    BY VolumeFacts
  <2>2. cinder'[v][t] \in Nat /\ cinder'[v][t] <= cinder[v][t]
    BY <1>4
  <2>3. CASE t # s
    <3>1. nova'[t] = nova[t]
      BY <1>1, <1>2, <2>3
    <3>2. Cardinality(Positions(nova[t], v)) \in Nat
      BY <1>1, PositionsFinite
    <3> QED BY <2>1, <2>2, <3>1, <3>2
  <2>4. CASE t = s
    <3>1. Cardinality(Positions(nova'[s], v)) = 0
      BY <1>1, <1>2, PositionsEmpty
    <3>2. cinder'[v][s] = 0
      <4>1. CASE v \in Named(s)
        BY <1>4, <4>1
      <4>2. CASE ~VolumeLive(v)
        <5>1. cinder[v] = None
          BY <4>2, VolumeFacts DEF VolumeRule, VolumeLive
        <5>2. cinder[v][s] = 0
          BY <5>1 DEF None
        <5> QED BY <2>2, <2>4, <5>2
      <4>3. CASE Positions(nova[s], v) = {}
        <5>1. Cardinality(Positions(nova[s], v)) = 0
          BY <4>3, FS_EmptySet
        <5> QED BY <2>1, <2>2, <2>4, <5>1
      <4> QED BY <4>1, <4>2, <4>3 DEF Named
    <3> QED BY <2>4, <3>1, <3>2
  <2> QED BY <2>3, <2>4
<1> QED BY <1>3, <1>4, <1>5, <1>6 DEF MemoryOK, Consistent

----------------------------------------------------------------------------
(* The inductive invariant holds.                                          *)

\* The stores are empty, and so is the file.
LEMMA InitInv ==
    Init => IInv
<1> SUFFICES ASSUME Init PROVE IInv
  OBVIOUS
<1>1. /\ \A s \in Server : server[s] = "unborn" /\ nova[s] = <<>>
      /\ \A v \in Volume : /\ volume[v].status = "unborn" /\ ~volume[v].multiattach
                           /\ cinder[v] = None
      /\ direct = {} /\ booting = Idle
  BY DEF Init
<1>2. None \in [Server -> Nat] /\ \A s \in Server : None[s] = 0
  BY DEF None
<1>3. Typed(server, volume, nova, cinder)
  <2>1. server \in [Server -> ServerStatus] /\ cinder \in [Volume -> [Server -> Nat]]
    BY <1>2 DEF Init, ServerStatus
  <2>2. volume \in [Volume -> VolumeRecord]
    BY DEF Init, VolumeRecord
  <2>3. nova \in [Server -> Seq(Mapping)]
    BY DEF Init
  <2> QED BY <2>1, <2>2, <2>3 DEF Typed, Counts
<1>4. \A v \in Volume : VolumeRule(volume[v], cinder[v])
  BY <1>1, <1>2 DEF VolumeRule
<1>5. Covers(nova, cinder, direct)
  BY <1>1, <1>2, PositionsEmpty DEF Covers
<1>6. MemoryOK
  BY <1>1, <1>3, <1>4, <1>5 DEF MemoryOK, Consistent, OnlyLive
<1>7. /\ disk = Image(server, volume, nova, cinder)
      /\ disk.server = server /\ disk.volume = volume
      /\ disk.nova = nova /\ disk.cinder = cinder
  BY DEF Init, Image
<1> QED BY <1>1, <1>6, <1>7 DEF IInv, MemoryOK, DiskOK, BootOK

\* The file after a step that saves, or leaves it alone.
LEMMA FileKeeps ==
    ASSUME DiskOK, MemoryOK', direct \subseteq direct', Save \/ disk' = disk
    PROVE  DiskOK'
<1>1. CASE disk' = disk
  BY <1>1 DEF DiskOK, Consistent, Covers
<1> QED BY <1>1, SaveKeeps

\* A request: one line per handler.
LEMMA RequestKeeps ==
    ASSUME IInv, Request
    PROVE  MemoryOK' /\ (Save \/ disk' = disk) /\ direct \subseteq direct'
                     /\ direct' \subseteq Volume
<1> USE DEF IInv
<1>1. ASSUME NEW v \in Volume, NEW multi \in BOOLEAN, CreateVolume(v, multi)
      PROVE  MemoryOK' /\ Save /\ direct' = direct
  BY <1>1, CreateVolumeKeeps DEF CreateVolume
<1>2. ASSUME NEW v \in Volume, DeleteVolume(v)
      PROVE  MemoryOK' /\ Save /\ direct' = direct
  BY <1>2, DeleteVolumeKeeps DEF DeleteVolume
<1>3. ASSUME NEW v \in Volume, NEW s \in Server, OsAttach(v, s)
      PROVE  MemoryOK' /\ Save /\ direct' = direct \cup {v}
  BY <1>3, OsAttachKeeps DEF OsAttach, AttachVolume
<1>4. ASSUME NEW v \in Volume, NEW s \in Server, OsDetach(v, s)
      PROVE  MemoryOK' /\ Save /\ direct' = direct
  BY <1>4, OsDetachKeeps DEF OsDetach, DetachVolume
<1>5. ASSUME NEW v \in Volume, OsDetachAll(v)
      PROVE  MemoryOK' /\ Save /\ direct' = direct
  BY <1>5, OsDetachAllKeeps DEF OsDetachAll
<1>6. ASSUME NEW s \in Server, NEW v \in Volume, NEW dot \in BOOLEAN,
             AttachVolumeToServer(s, v, dot)
      PROVE  MemoryOK' /\ (Save \/ disk' = disk) /\ direct' = direct
  BY <1>6, AttachBothSidesKeeps DEF AttachVolumeToServer, AttachBothSides, AttachVolume
<1>7. ASSUME NEW s \in Server, NEW v \in Volume, DetachVolumeFromServer(s, v)
      PROVE  MemoryOK' /\ (Save \/ disk' = disk) /\ direct' = direct
  BY <1>7, DetachBothSidesKeeps DEF DetachVolumeFromServer, DetachVolume
<1>8. ASSUME NEW s \in Server, DeleteServer(s)
      PROVE  MemoryOK' /\ Save /\ direct' = direct
  BY <1>8, DeleteServerKeeps DEF DeleteServer
<1> QED BY <1>1, <1>2, <1>3, <1>4, <1>5, <1>6, <1>7, <1>8 DEF Request

\* A step keeps the invariant.
LEMMA NextInv ==
    IInv /\ [Next]_vars => IInv'
<1> SUFFICES ASSUME IInv, [Next]_vars PROVE IInv'
  OBVIOUS
<1>0. MemoryOK /\ DiskOK /\ BootOK /\ direct \subseteq Volume
  BY DEF IInv
<1>1. CASE booting = Idle /\ Request /\ UNCHANGED booting
  <2>1. /\ MemoryOK' /\ (Save \/ disk' = disk) /\ direct \subseteq direct'
        /\ direct' \subseteq Volume
    BY <1>1, RequestKeeps
  <2>2. DiskOK'
    BY <1>0, <2>1, FileKeeps
  <2>3. BootOK'
    BY <1>1 DEF BootOK
  <2> QED BY <2>1, <2>2, <2>3 DEF IInv
<1>2. ASSUME NEW s \in Server, booting = Idle, CreateServer(s) PROVE IInv'
  <2>1. MemoryOK' /\ server'[s] = "live"
    BY <1>0, <1>2, CreateServerKeeps
  <2>2. Save /\ direct' = direct /\ booting' = s
    BY <1>2 DEF CreateServer
  <2>3. DiskOK'
    BY <1>0, <2>1, <2>2, FileKeeps
  <2> QED BY <1>0, <2>1, <2>2, <2>3 DEF IInv, BootOK
<1>3. ASSUME NEW s \in Server, NEW v \in Volume, NEW dot \in BOOLEAN,
             AttachMappedVolume(s, v, dot)
      PROVE  IInv'
  <2>1. booting = s /\ AttachBothSides(s, v, dot) /\ booting' = booting
    BY <1>3 DEF AttachMappedVolume
  <2>2. server[s] = "live"
    BY <1>0, <2>1, VolumeAttachmentsAssumption DEF BootOK
  <2>3. MemoryOK'
    BY <1>0, <2>1, <2>2, AttachBothSidesKeeps
  <2>4. (Save \/ disk' = disk) /\ direct' = direct /\ server' = server
    BY <2>1 DEF AttachBothSides, AttachVolume
  <2>5. DiskOK'
    BY <1>0, <2>3, <2>4, FileKeeps
  <2> QED BY <1>0, <2>1, <2>3, <2>4, <2>5 DEF IInv, BootOK
<1>4. CASE AnswerCreate
  BY <1>0, <1>4 DEF AnswerCreate, IInv, MemoryOK, DiskOK, BootOK
<1>5. CASE Restart
  <2>1. MemoryOK'
    BY <1>0, <1>5 DEF Restart, DiskOK, MemoryOK
  <2>2. DiskOK'
    BY <1>0, <1>5 DEF Restart, DiskOK
  <2> QED BY <1>0, <1>5, <2>1, <2>2 DEF Restart, IInv, BootOK
<1>6. CASE UNCHANGED vars
  BY <1>0, <1>6 DEF vars, IInv, MemoryOK, DiskOK, BootOK
<1> QED BY <1>1, <1>2, <1>3, <1>4, <1>5, <1>6 DEF Next

\* Memory and file are consistent at all times, restarts included.
THEOREM Invariance == Spec => []IInv
BY InitInv, NextInv, PTL DEF Spec

----------------------------------------------------------------------------
(* What follows from it.                                                   *)

\* The stores hold what they are declared to hold, in memory and in the file.
THEOREM TypeCorrect == Spec => []TypeOK
<1>1. IInv => TypeOK
  <2> SUFFICES ASSUME IInv PROVE TypeOK
    OBVIOUS
  <2>1. Typed(server, volume, nova, cinder)
    BY DEF IInv, MemoryOK, Consistent
  <2>2. /\ disk = Image(disk.server, disk.volume, disk.nova, disk.cinder)
        /\ Typed(disk.server, disk.volume, disk.nova, disk.cinder)
    BY DEF IInv, DiskOK, Consistent
  <2> QED BY <2>1, <2>2 DEF TypeOK, IInv, BootOK, Typed, Image
<1> QED BY <1>1, Invariance, PTL

\* A volume reads in-use exactly while an attachment is left.
THEOREM StatusIsAttachment == Spec => []InUseIffAttached
<1>1. IInv => InUseIffAttached
  BY DEF IInv, MemoryOK, Consistent, VolumeRule, InUseIffAttached
<1> QED BY <1>1, Invariance, PTL

\* A volume without multiattach has one attachment at most.
THEOREM AttachedOnce == Spec => []SingleAttach
<1>1. IInv => SingleAttach
  BY DEF IInv, MemoryOK, Consistent, VolumeRule, SingleAttach, Attached
<1> QED BY <1>1, Invariance, PTL

\* Nova's ledger covers Cinder's attachments, direct ones apart.
THEOREM LedgerCovers == Spec => []NovaCoversCinder
<1>1. IInv => NovaCoversCinder
  BY DEF IInv, MemoryOK, Consistent, Covers, NovaCoversCinder
<1> QED BY <1>1, Invariance, PTL

\* A deleted server leaves attached only what was attached through Cinder alone.
THEOREM TeardownIsComplete == Spec => []LeftoversAreDirect
<1>1. IInv => LeftoversAreDirect
  <2> SUFFICES ASSUME IInv, NEW v \in Volume, NEW s \in Server,
                      Attached(v, s), server[s] # "live", v \notin direct
               PROVE  FALSE
    BY DEF LeftoversAreDirect
  <2>1. cinder[v][s] <= Cardinality(Positions(nova[s], v)) /\ cinder[v][s] \in Nat
    BY VolumeFacts DEF IInv
  <2>2. nova[s] = <<>>
    BY DEF IInv, MemoryOK, Consistent, OnlyLive
  <2>3. Cardinality(Positions(nova[s], v)) = 0
    BY <2>2, PositionsEmpty
  <2> QED BY <2>1, <2>3 DEF Attached
<1> QED BY <1>1, Invariance, PTL

\* What is saved is the memory; what is not saved changes only Nova's ledger.
LEMMA SavedOrUntouched ==
    ASSUME [Next]_vars
    PROVE  \/ Save
           \/ UNCHANGED <<server, volume, cinder, disk>>
           \/ Restart
<1>1. CASE Request
  BY <1>1 DEF Request, CreateVolume, DeleteVolume, OsAttach, OsDetach, OsDetachAll,
              AttachVolumeToServer, DetachVolumeFromServer, DeleteServer,
              AttachBothSides, AttachVolume, DetachVolume
<1>2. ASSUME NEW s \in Server, CreateServer(s)
      PROVE  Save
  BY <1>2 DEF CreateServer
<1>3. ASSUME NEW s \in Server, NEW v \in Volume, NEW dot \in BOOLEAN,
             AttachMappedVolume(s, v, dot)
      PROVE  Save \/ UNCHANGED <<server, volume, cinder, disk>>
  BY <1>3 DEF AttachMappedVolume, AttachBothSides, AttachVolume
<1>4. CASE AnswerCreate
  BY <1>4 DEF AnswerCreate
<1>5. CASE UNCHANGED vars
  BY <1>5 DEF vars
<1> QED BY <1>1, <1>2, <1>3, <1>4, <1>5 DEF Next

\* With --auto-save the file knows every server, volume and attachment at every
\* moment, between the volumes of a boot included.
THEOREM AttachmentsSaved == Spec => []AttachmentsAreSaved
<1>1. Init => AttachmentsAreSaved
  BY DEF Init, AttachmentsAreSaved, Image
<1>2. AttachmentsAreSaved /\ [Next]_vars => AttachmentsAreSaved'
  <2> SUFFICES ASSUME AttachmentsAreSaved, [Next]_vars, AutoSave
               PROVE  disk'.server = server' /\ disk'.volume = volume'
                      /\ disk'.cinder = cinder'
    BY DEF AttachmentsAreSaved
  <2>1. CASE Save
    BY <2>1 DEF Save, Image
  <2>2. CASE UNCHANGED <<server, volume, cinder, disk>>
    BY <2>2 DEF AttachmentsAreSaved
  <2>3. CASE Restart
    BY <2>3 DEF Restart
  <2> QED BY <2>1, <2>2, <2>3, SavedOrUntouched
<1> QED BY <1>1, <1>2, PTL DEF Spec
============================================================================

----------------------------- MODULE SdCardProofs -----------------------------
EXTENDS SdCard, TLAPS

(* The FAT and the directory that a card holds.                             *)
FatIn(d) == [c \in 0..LastCluster |-> d[FatBlock(c)][c]]
Meta(d) == [fat |-> FatIn(d), dir |-> d[DirBlock]]

(* The card as the cache and the card hold it together.                     *)
Seen(v) == IF v.dirty /\ v.block \in Blocks THEN [v.disk EXCEPT ![v.block] = v.buf] ELSE v.disk

FatValues == {0, EOC} \cup Clusters
Entries == [name : Names \cup {DIR_NAME_FREE, DIR_NAME_DELETED}, first : {0} \cup Clusters, size : Nat]
Fats == [0..LastCluster -> FatValues]
Dirs == [1..DirSlots -> Entries]

BlockOK(b, x) ==
  /\ b[1] = "fat" => x \in [FatOf(b[2]) -> FatValues]
  /\ b = DirBlock => x \in Dirs

DiskOK(d) == d = [b \in Blocks |-> d[b]] /\ \A b \in Blocks : BlockOK(b, d[b])

CacheOK(v) ==
  /\ v.block \in Blocks => BlockOK(v.block, v.buf) /\ (v.dirty \/ v.buf = v.disk[v.block])
  /\ v.mirror = NoBlock \/ v.mirror[1] = "mirror"

Shape(v) ==
  v \in [disk : {v.disk}, block : {v.block}, buf : {v.buf}, dirty : BOOLEAN, mirror : {v.mirror},
         search : {v.search}, f : {v.f}, fault : {v.fault}, n : {v.n}, ok : BOOLEAN,
         next : {v.next}, free : {v.free}, got : {v.got}, out : {v.out}]

VolumeOK(v) == Shape(v) /\ DiskOK(v.disk) /\ CacheOK(v)

(* Chains of clusters that begin at the clusters of heads: no cluster has two before *)
(* it, none leads to a head, none leads to a free one, and none leads back to itself. *)
Chains(fat, heads) ==
  /\ \A c, d \in Clusters : fat[c] \in Clusters /\ fat[c] = fat[d] => c = d
  /\ \A c \in Clusters : fat[c] \notin heads
  /\ \A c \in Clusters : fat[c] \in Clusters => fat[fat[c]] # 0
  /\ \A c \in heads : c \in Clusters /\ fat[c] # 0
  /\ \A S \in SUBSET Clusters : (\A c \in S : fat[c] \in S) => S = {}

DirOK(dir) ==
  /\ \A s, t \in 1..DirSlots : dir[s].name = dir[t].name /\ dir[s].name \in Names => s = t
  /\ \A s, t \in 1..DirSlots : s < t /\ dir[s].name = DIR_NAME_FREE => dir[t].name = DIR_NAME_FREE
  /\ \A s \in 1..DirSlots : dir[s].name \in Names /\ dir[s].first = 0 => dir[s].size = 0

Slots(dir, n) == {s \in 1..DirSlots : dir[s].name = n}
FirstIn(dir, n) == IF Slots(dir, n) = {} THEN 0 ELSE dir[Least(Slots(dir, n))].first

Heads(first) == {first[n] : n \in Names} \ {0}
Sound(meta, first) ==
  /\ DirOK(meta.dir)
  /\ Chains(meta.fat, Heads(first))
  /\ \A m, n \in Names : first[m] = first[n] /\ first[m] # 0 => m = n

FirstsIn(dir) == [n \in Names |-> FirstIn(dir, n)]
Firsts(dir, fs) == [n \in Names |-> IF fs[n].open THEN fs[n].first ELSE FirstIn(dir, n)]

FileRecords ==
  [open : BOOLEAN, write : BOOLEAN, slot : Nat, first : {0} \cup Clusters, cur : FatValues,
   pos : Nat, size : Nat, dirDirty : BOOLEAN]

FileOK(f, dir, n) ==
  /\ f \in FileRecords
  /\ f.open =>
       /\ f.slot \in 1..DirSlots /\ dir[f.slot].name = n
       /\ dir[f.slot].first = 0 \/ dir[f.slot].first = f.first
       /\ f.dirDirty \/ dir[f.slot].first = f.first
       /\ f.first = 0 => f.cur = 0 /\ f.pos = 0 /\ f.size = 0

(* What is seen and the files agree.                                        *)
Agree(meta, fs) ==
  /\ Sound(meta, Firsts(meta.dir, fs))
  /\ \A n \in Names : FileOK(fs[n], meta.dir, n)

(* What holds of a volume at any time in a call, fs being the files: what   *)
(* is seen is sound, and so is what the card holds if power is lost.        *)
Safe(v, fs) ==
  /\ VolumeOK(v) /\ v.search \in Nat
  /\ Sound(Meta(v.disk), FirstsIn(Meta(v.disk).dir))
  /\ Agree(Meta(Seen(v)), fs)

SdInv ==
  /\ files = [n \in Names |-> files[n]]
  /\ ~mounted => \A n \in Names : files[n] = ClosedFile
  /\ interrupted \/ Safe(Volume(ClosedFile, NoFault), files)

-------------------------------------------------------------------------------
(* Accesses to the card and what the cache makes of them *)

(* w is what traffic between the cache and the card has made of v.          *)
Same(v, w) ==
  /\ w.search = v.search /\ w.f = v.f /\ w.out = v.out /\ w.free = v.free
Kept(v, w) ==
  /\ VolumeOK(w) /\ Same(v, w)
  /\ Meta(Seen(w)) = Meta(Seen(v))
  /\ Meta(w.disk) = Meta(v.disk) \/ Meta(w.disk) = Meta(Seen(v))

(* A write that succeeds has its effect; one that fails may have it.        *)
SameCache(v, w) == w.block = v.block /\ w.buf = v.buf /\ w.dirty = v.dirty /\ w.mirror = v.mirror
WroteTo(v, w, b, data) ==
  /\ Shape(w) /\ Same(v, w) /\ SameCache(v, w) /\ w.next = v.next /\ w.got = v.got
  /\ w.disk = v.disk \/ (b \in DOMAIN v.disk /\ w.disk = [v.disk EXCEPT ![b] = data])
  /\ w.ok => v.ok /\ b \in DOMAIN v.disk /\ w.disk = [v.disk EXCEPT ![b] = data]

LEMMA WriteWrites ==
  ASSUME NEW v, Shape(v), NEW b, NEW data
  PROVE  WroteTo(v, writeBlock(v, b, data), b, data)
<1> DEFINE u == Access(v)
           bad == Fails(u)
<1>1. /\ Shape(u) /\ Same(v, u)
      /\ u.block = v.block /\ u.buf = v.buf /\ u.dirty = v.dirty /\ u.mirror = v.mirror
      /\ u.next = v.next /\ u.got = v.got /\ u.disk = v.disk /\ u.ok = v.ok
  BY DEF Shape, Access, Same
<1>2. writeBlock(v, b, data) =
        IF u.ok THEN (IF b \notin DOMAIN u.disk THEN Fail(u)
                      ELSE IF bad /\ u.fault.kind # "unheard" THEN Fail(u)
                      ELSE [u EXCEPT !.disk[b] = data, !.ok = ~bad])
        ELSE u
  BY DEF writeBlock, Then
<1> HIDE DEF u, bad
<1>3. LET w == Fail(u) IN
         /\ Shape(w) /\ Same(u, w)
         /\ w.block = u.block /\ w.buf = u.buf /\ w.dirty = u.dirty /\ w.mirror = u.mirror
         /\ w.next = u.next /\ w.got = u.got /\ w.disk = u.disk /\ w.ok = FALSE
  BY <1>1 DEF Shape, Fail, Same
<1>4. LET w == [u EXCEPT !.disk[b] = data, !.ok = ~bad] IN
         /\ Shape(w) /\ Same(u, w)
         /\ w.block = u.block /\ w.buf = u.buf /\ w.dirty = u.dirty /\ w.mirror = u.mirror
         /\ w.next = u.next /\ w.got = u.got /\ w.disk = [u.disk EXCEPT ![b] = data] /\ w.ok = ~bad
  BY <1>1 DEF Shape, Same
<1>5. QED
  BY <1>1, <1>2, <1>3, <1>4 DEF Same, SameCache, WroteTo

(* A read that succeeds yields what the card holds and changes nothing.     *)
ReadFrom(v, w, b) ==
  /\ Shape(w) /\ Same(v, w) /\ SameCache(v, w) /\ w.next = v.next /\ w.disk = v.disk
  /\ w.ok => v.ok /\ b \in DOMAIN v.disk /\ w.got = v.disk[b]

LEMMA ReadReads ==
  ASSUME NEW v, Shape(v), NEW b
  PROVE  ReadFrom(v, readBlock(v, b), b)
<1> DEFINE u == Access(v)
           bad == Fails(u)
<1>1. /\ Shape(u) /\ Same(v, u)
      /\ u.block = v.block /\ u.buf = v.buf /\ u.dirty = v.dirty /\ u.mirror = v.mirror
      /\ u.next = v.next /\ u.got = v.got /\ u.disk = v.disk /\ u.ok = v.ok
  BY DEF Shape, Access, Same
<1>2. readBlock(v, b) =
        IF u.ok THEN (IF b \notin DOMAIN u.disk \/ bad THEN Fail(u) ELSE [u EXCEPT !.got = u.disk[b]])
        ELSE u
  BY DEF readBlock, Then
<1> HIDE DEF u, bad
<1>3. LET w == Fail(u) IN
         /\ Shape(w) /\ Same(u, w)
         /\ w.block = u.block /\ w.buf = u.buf /\ w.dirty = u.dirty /\ w.mirror = u.mirror
         /\ w.next = u.next /\ w.got = u.got /\ w.disk = u.disk /\ w.ok = FALSE
  BY <1>1 DEF Shape, Fail, Same
<1>4. LET w == [u EXCEPT !.got = u.disk[b]] IN
         /\ Shape(w) /\ Same(u, w)
         /\ w.block = u.block /\ w.buf = u.buf /\ w.dirty = u.dirty /\ w.mirror = u.mirror
         /\ w.next = u.next /\ w.got = u.disk[b] /\ w.disk = u.disk /\ w.ok = u.ok
  BY <1>1 DEF Shape, Same
<1>5. QED
  BY <1>1, <1>2, <1>3, <1>4 DEF Same, SameCache, ReadFrom

(* The directory and the FAT are blocks of the card, and no block of data   *)
(* or of the second FAT is one of them.                                     *)
LEMMA FatIsOnCard ==
  ASSUME NEW c \in 0..LastCluster
  PROVE  FatBlock(c) \in Blocks /\ FatBlock(c)[1] = "fat" /\ c \in FatOf(FatBlock(c)[2])
BY DEF FatBlock, Blocks, FatBlocks, FatOf

LEMMA SomeClusters ==
  /\ LastCluster \in Nat /\ ClusterCount \in Nat \ {0} /\ LastCluster = ClusterCount + 1
  /\ Clusters = 2..LastCluster /\ EOC \in Nat /\ EOC > LastCluster /\ EOC \notin Clusters
  /\ 0 \notin Clusters /\ FatValues \subseteq Nat /\ Clusters \subseteq 0..LastCluster
BY SdAssumption DEF LastCluster, Clusters, EOC, FatValues

LEMMA DirIsOnCard == DirBlock \in Blocks /\ DirBlock[1] = "dir"
BY DEF DirBlock, Blocks

LEMMA NoBlockIsNone == NoBlock \notin Blocks
BY DEF NoBlock, Blocks, DataBlock, DirBlock, Mbr, BootSector

(* Writing a block keeps the card typed, and the FAT and the directory if   *)
(* it is none of theirs.                                                    *)
LEMMA WrittenDisk ==
  ASSUME NEW d, DiskOK(d), NEW b \in Blocks, NEW x, BlockOK(b, x)
  PROVE  LET e == [d EXCEPT ![b] = x] IN
         /\ DiskOK(e) /\ e[b] = x /\ \A a \in Blocks : a # b => e[a] = d[a]
         /\ b[1] \notin {"fat", "dir"} => Meta(e) = Meta(d)
<1> DEFINE e == [d EXCEPT ![b] = x]
<1>1. d = [a \in Blocks |-> d[a]]
  BY DEF DiskOK
<1>2. e = [a \in Blocks |-> IF a = b THEN x ELSE d[a]]
  BY <1>1
<1> HIDE DEF e
<1>3. e[b] = x /\ \A a \in Blocks : a # b => e[a] = d[a]
  BY <1>2
<1>4. e = [a \in Blocks |-> e[a]]
  BY <1>2
<1>5. \A a \in Blocks : BlockOK(a, e[a])
  BY <1>3 DEF DiskOK
<1>6. ASSUME b[1] \notin {"fat", "dir"} PROVE Meta(e) = Meta(d)
  <2>1. \A c \in 0..LastCluster : e[FatBlock(c)] = d[FatBlock(c)]
    BY <1>3, <1>6, FatIsOnCard
  <2>2. e[DirBlock] = d[DirBlock]
    BY <1>3, <1>6, DirIsOnCard
  <2>3. FatIn(e) = FatIn(d)
    BY <2>1 DEF FatIn
  <2>4. QED
    BY <2>2, <2>3 DEF Meta
<1>7. QED
  BY <1>3, <1>4, <1>5, <1>6 DEF DiskOK, e

(* What the cache and the card hold together is typed too.                  *)
LEMMA SeenIsOK ==
  ASSUME NEW v, VolumeOK(v)
  PROVE  DiskOK(Seen(v)) /\ (v.block \in Blocks => v.buf = Seen(v)[v.block])
<1>1. CASE v.dirty /\ v.block \in Blocks
  <2>1. BlockOK(v.block, v.buf)
    BY <1>1 DEF VolumeOK, CacheOK
  <2>2. DiskOK(v.disk)
    BY DEF VolumeOK
  <2>3. DiskOK([v.disk EXCEPT ![v.block] = v.buf]) /\ [v.disk EXCEPT ![v.block] = v.buf][v.block] = v.buf
    BY <1>1, <2>1, <2>2, WrittenDisk
  <2>4. QED
    BY <1>1, <2>3 DEF Seen
<1>2. CASE ~(v.dirty /\ v.block \in Blocks)
  BY <1>2 DEF Seen, VolumeOK, CacheOK
<1>3. QED
  BY <1>1, <1>2

LEMMA NothingHappened ==
  ASSUME NEW v, VolumeOK(v)
  PROVE  Kept(v, v)
BY DEF Kept, Same

LEMMA KeptTwice ==
  ASSUME NEW u, NEW v, NEW w, Kept(u, v), Kept(v, w)
  PROVE  Kept(u, w)
BY DEF Kept, Same

(* A change of fields that are neither cache nor card.                      *)
LEMMA OtherFields ==
  ASSUME NEW v, NEW w, VolumeOK(v), Shape(w),
         w.disk = v.disk, w.block = v.block, w.buf = v.buf, w.dirty = v.dirty, w.mirror = v.mirror
  PROVE  VolumeOK(w) /\ Seen(w) = Seen(v)
BY DEF VolumeOK, CacheOK, Seen

(* Writing the second FAT is nothing to the first.                          *)
LEMMA MirrorWritten ==
  ASSUME NEW v, VolumeOK(v), NEW b \in Blocks, b[1] = "mirror", v.dirty, v.block \in Blocks,
         v.disk[v.block] = v.buf
  PROVE  LET e == [v.disk EXCEPT ![b] = v.buf] IN
         DiskOK(e) /\ Meta(e) = Meta(v.disk) /\ e[v.block] = v.buf
<1>1. BlockOK(b, v.buf)
  BY DEF BlockOK, DirBlock
<1>2. DiskOK(v.disk)
  BY DEF VolumeOK
<1>3. QED
  BY <1>1, <1>2, WrittenDisk

(* Once a dirty block is on the card, the card is what was seen.            *)
LEMMA BlockWritten ==
  ASSUME NEW v, VolumeOK(v), v.dirty, v.block \in Blocks
  PROVE  LET e == [v.disk EXCEPT ![v.block] = v.buf] IN
         /\ e = Seen(v) /\ DiskOK(e) /\ e[v.block] = v.buf
         /\ [e EXCEPT ![v.block] = v.buf] = e
<1> DEFINE e == [v.disk EXCEPT ![v.block] = v.buf]
<1>1. e = Seen(v)
  BY DEF Seen
<1>2. BlockOK(v.block, v.buf)
  BY DEF VolumeOK, CacheOK
<1>3. DiskOK(e) /\ e[v.block] = v.buf
  BY <1>2, WrittenDisk DEF VolumeOK
<1> HIDE DEF e
<1>4. e = [b \in Blocks |-> e[b]]
  BY <1>3 DEF DiskOK
<1>5. [e EXCEPT ![v.block] = v.buf] = e
  BY <1>3, <1>4
<1>6. QED
  BY <1>1, <1>3, <1>5 DEF e

(* The first write of a flush.                                              *)
LEMMA FirstWrite ==
  ASSUME NEW v, VolumeOK(v), v.dirty
  PROVE  LET w == writeBlock(v, v.block, v.buf) IN
         /\ Kept(v, w)
         /\ w.block = v.block /\ w.buf = v.buf /\ w.dirty = v.dirty /\ w.mirror = v.mirror
         /\ w.next = v.next /\ w.got = v.got
         /\ w.ok => v.ok /\ v.block \in Blocks /\ w.disk = Seen(v)
<1> DEFINE w == writeBlock(v, v.block, v.buf)
<1>1. /\ Shape(w) /\ Same(v, w)
      /\ w.block = v.block /\ w.buf = v.buf /\ w.dirty = v.dirty /\ w.mirror = v.mirror
      /\ w.next = v.next /\ w.got = v.got
      /\ w.disk = v.disk \/ (v.block \in DOMAIN v.disk /\ w.disk = [v.disk EXCEPT ![v.block] = v.buf])
      /\ w.ok => v.ok /\ v.block \in DOMAIN v.disk /\ w.disk = [v.disk EXCEPT ![v.block] = v.buf]
  <2>1. Shape(v)
    BY DEF VolumeOK
  <2>2. WroteTo(v, w, v.block, v.buf)
    BY <2>1, WriteWrites
  <2>3. QED
    BY <2>2 DEF WroteTo, SameCache
<1> HIDE DEF w
<1>2. DOMAIN v.disk = Blocks
  BY DEF VolumeOK, DiskOK
<1>3. CASE w.disk = v.disk
  <2>1. VolumeOK(w) /\ Seen(w) = Seen(v)
    BY <1>1, <1>3, OtherFields
  <2>2. Kept(v, w)
    BY <1>1, <1>3, <2>1 DEF Kept
  <2>3. w.ok => w.disk = Seen(v)
    BY <1>1, <1>2 DEF Seen
  <2>4. QED
    BY <1>1, <1>2, <2>2, <2>3 DEF w
<1>4. CASE v.block \in Blocks /\ w.disk = [v.disk EXCEPT ![v.block] = v.buf]
  <2>1. /\ w.disk = Seen(v) /\ DiskOK(w.disk) /\ w.disk[v.block] = v.buf
        /\ [w.disk EXCEPT ![v.block] = v.buf] = w.disk
    BY <1>4, BlockWritten
  <2>2. Seen(w) = w.disk
    BY <1>1, <1>4, <2>1 DEF Seen
  <2>3. CacheOK(w)
    BY <1>1, <2>1 DEF VolumeOK, CacheOK
  <2>4. Kept(v, w)
    BY <1>1, <2>1, <2>2, <2>3 DEF Kept, VolumeOK
  <2>5. QED
    BY <1>1, <1>2, <1>4, <2>1, <2>4 DEF w
<1>5. QED
  BY <1>1, <1>2, <1>3, <1>4

(* The second one.                                                          *)
LEMMA SecondWrite ==
  ASSUME NEW v, VolumeOK(v), v.dirty, v.block \in Blocks, v.disk[v.block] = v.buf, v.mirror # NoBlock
  PROVE  LET w == writeBlock(v, v.mirror, v.buf) IN
         /\ Kept(v, w) /\ w.disk[v.block] = v.buf
         /\ w.block = v.block /\ w.buf = v.buf /\ w.dirty = v.dirty /\ w.mirror = v.mirror
         /\ w.next = v.next /\ w.got = v.got
         /\ w.ok => v.ok
<1> DEFINE w == writeBlock(v, v.mirror, v.buf)
<1>1. /\ Shape(w) /\ Same(v, w)
      /\ w.block = v.block /\ w.buf = v.buf /\ w.dirty = v.dirty /\ w.mirror = v.mirror
      /\ w.next = v.next /\ w.got = v.got
      /\ w.disk = v.disk \/ (v.mirror \in DOMAIN v.disk /\ w.disk = [v.disk EXCEPT ![v.mirror] = v.buf])
      /\ w.ok => v.ok
  <2>1. Shape(v)
    BY DEF VolumeOK
  <2>2. WroteTo(v, w, v.mirror, v.buf)
    BY <2>1, WriteWrites
  <2>3. QED
    BY <2>2 DEF WroteTo, SameCache
<1> HIDE DEF w
<1>2. DOMAIN v.disk = Blocks /\ v.mirror[1] = "mirror"
  BY DEF VolumeOK, DiskOK, CacheOK
<1>3. CASE w.disk = v.disk
  <2>1. VolumeOK(w) /\ Seen(w) = Seen(v)
    BY <1>1, <1>3, OtherFields
  <2>2. Kept(v, w)
    BY <1>1, <1>3, <2>1 DEF Kept
  <2>4. QED
    BY <1>1, <1>3, <2>2 DEF w
<1>4. CASE v.mirror \in Blocks /\ w.disk = [v.disk EXCEPT ![v.mirror] = v.buf]
  <2>1. DiskOK(w.disk) /\ Meta(w.disk) = Meta(v.disk) /\ w.disk[v.block] = v.buf
    BY <1>2, <1>4, MirrorWritten
  <2>2. CacheOK(w)
    BY <1>1, <2>1 DEF VolumeOK, CacheOK
  <2>3. VolumeOK(w)
    BY <1>1, <2>1, <2>2 DEF VolumeOK
  <2>4. Seen(w) = w.disk
    <3>1. w.disk = [b \in Blocks |-> w.disk[b]]
      BY <2>1 DEF DiskOK
    <3>2. [w.disk EXCEPT ![v.block] = v.buf] = w.disk
      BY <2>1, <3>1
    <3>3. QED
      BY <1>1, <3>2 DEF Seen
  <2>5. Seen(v) = v.disk
    <3>1. v.disk = [b \in Blocks |-> v.disk[b]]
      BY DEF VolumeOK, DiskOK
    <3>2. [v.disk EXCEPT ![v.block] = v.buf] = v.disk
      BY <3>1
    <3>3. QED
      BY <3>2 DEF Seen
  <2>6. Kept(v, w)
    BY <1>1, <2>1, <2>3, <2>4, <2>5 DEF Kept
  <2>7. QED
    BY <1>1, <2>1, <2>6 DEF w
<1>5. QED
  BY <1>1, <1>2, <1>3, <1>4

(* Flushing the cache keeps what is seen; when it succeeds that is what the *)
(* card holds.                                                              *)
LEMMA FlushKeeps ==
  ASSUME NEW v, VolumeOK(v)
  PROVE  LET w == cacheFlush(v) IN
         /\ Kept(v, w)
         /\ w.block = v.block /\ w.buf = v.buf /\ w.next = v.next /\ w.got = v.got
         /\ ~v.dirty => w = v
         /\ w.ok => v.ok /\ ~w.dirty /\ Seen(w) = w.disk /\ Meta(w.disk) = Meta(Seen(v))
<1>1. CASE ~v.dirty
  <2>1. cacheFlush(v) = v /\ Seen(v) = v.disk
    BY <1>1 DEF cacheFlush, Seen
  <2>2. QED
    BY <1>1, <2>1, NothingHappened
<1>2. CASE v.dirty
  <2> DEFINE first == writeBlock(v, v.block, v.buf)
             both == IF first.ok THEN (IF first.mirror = NoBlock THEN first
                                       ELSE writeBlock(first, first.mirror, first.buf)) ELSE first
             w == IF both.ok THEN [both EXCEPT !.dirty = FALSE, !.mirror = NoBlock] ELSE both
  <2>1. cacheFlush(v) = w
    BY <1>2 DEF cacheFlush, Then
  <2>2. /\ Kept(v, first)
        /\ first.block = v.block /\ first.buf = v.buf /\ first.dirty = v.dirty /\ first.mirror = v.mirror
        /\ first.next = v.next /\ first.got = v.got
        /\ first.ok => v.ok /\ v.block \in Blocks /\ first.disk = Seen(v)
    BY <1>2, FirstWrite
  <2> HIDE DEF first
  <2>3. first.ok => first.disk[first.block] = first.buf
    BY <2>2, SeenIsOK
  <2>4. /\ Kept(v, both)
        /\ both.block = v.block /\ both.buf = v.buf /\ both.dirty = v.dirty
        /\ both.next = v.next /\ both.got = v.got
        /\ both.ok => v.ok /\ v.block \in Blocks /\ both.disk[v.block] = v.buf
    <3>1. CASE ~first.ok \/ first.mirror = NoBlock
      BY <2>2, <2>3, <3>1
    <3>2. CASE first.ok /\ first.mirror # NoBlock
      <4>1. LET z == writeBlock(first, first.mirror, first.buf) IN
            /\ Kept(first, z) /\ z.disk[first.block] = first.buf
            /\ z.block = first.block /\ z.buf = first.buf /\ z.dirty = first.dirty
            /\ z.next = first.next /\ z.got = first.got
            /\ z.ok => first.ok
        BY <1>2, <2>2, <2>3, <3>2, SecondWrite DEF Kept
      <4>2. both = writeBlock(first, first.mirror, first.buf)
        BY <3>2
      <4> HIDE DEF both
      <4>3. Kept(v, both)
        BY <2>2, <4>1, <4>2, KeptTwice
      <4>4. QED
        BY <2>2, <4>1, <4>2, <4>3
    <3>3. QED
      BY <3>1, <3>2
  <2> HIDE DEF both
  <2>5. CASE ~both.ok
    BY <1>2, <2>1, <2>4, <2>5
  <2>6. CASE both.ok
    <3>1. w = [both EXCEPT !.dirty = FALSE, !.mirror = NoBlock]
      BY <2>6
    <3>2. Shape(both)
      BY <2>4 DEF Kept, VolumeOK
    <3>3. /\ Shape(w) /\ Same(both, w) /\ w.block = both.block /\ w.buf = both.buf /\ w.disk = both.disk
          /\ w.next = both.next /\ w.got = both.got /\ w.ok = both.ok /\ w.dirty = FALSE /\ w.mirror = NoBlock
      BY <3>1, <3>2 DEF Shape, Same
    <3> HIDE DEF w
    <3>4. Seen(w) = w.disk
      BY <3>3 DEF Seen
    <3>5. both.disk = [b \in Blocks |-> both.disk[b]]
      BY <2>4 DEF Kept, VolumeOK, DiskOK
    <3>6. [both.disk EXCEPT ![v.block] = v.buf] = both.disk
      BY <2>4, <2>6, <3>5
    <3>7. Seen(both) = both.disk
      BY <2>4, <3>6 DEF Seen
    <3>8. VolumeOK(w)
      BY <2>4, <2>6, <3>3 DEF Kept, VolumeOK, CacheOK
    <3>9. Kept(both, w)
      BY <3>3, <3>4, <3>7, <3>8 DEF Kept
    <3>10. Kept(v, w)
      BY <2>4, <3>9, KeptTwice
    <3>11. Meta(w.disk) = Meta(Seen(v))
      BY <3>4, <3>10 DEF Kept
    <3>12. QED
      BY <1>2, <2>1, <2>4, <2>6, <3>3, <3>4, <3>10, <3>11
  <2>7. QED
    BY <2>5, <2>6
<1>3. QED
  BY <1>1, <1>2

(* A block is brought into the cache.                                       *)
Cached(v, w, b, forWrite) ==
  /\ Kept(v, w) /\ w.next = v.next
  /\ w.ok => v.ok /\ w.block = b /\ (forWrite => w.dirty)

LEMMA CacheKeeps ==
  ASSUME NEW v, VolumeOK(v), NEW b, NEW forWrite \in BOOLEAN
  PROVE  Cached(v, cacheRawBlock(v, b, forWrite), b, forWrite)
<1>1. CASE v.block = b
  <2> DEFINE w == [v EXCEPT !.dirty = @ \/ forWrite]
  <2>1. cacheRawBlock(v, b, forWrite) = w
    BY <1>1 DEF cacheRawBlock
  <2>2. Shape(v)
    BY DEF VolumeOK
  <2>3. /\ Shape(w) /\ Same(v, w) /\ w.block = v.block /\ w.buf = v.buf /\ w.disk = v.disk
        /\ w.mirror = v.mirror /\ w.next = v.next /\ w.ok = v.ok /\ w.dirty = (v.dirty \/ forWrite)
    BY <2>2 DEF Shape, Same
  <2> HIDE DEF w
  <2>4. VolumeOK(w)
    BY <2>3 DEF VolumeOK, CacheOK
  <2>5. Seen(w) = Seen(v)
    <3>1. CASE v.dirty \/ v.block \notin Blocks
      BY <2>3, <3>1 DEF Seen
    <3>2. CASE ~v.dirty /\ v.block \in Blocks
      <4>1. v.buf = v.disk[v.block] /\ v.disk = [a \in Blocks |-> v.disk[a]]
        BY <3>2 DEF VolumeOK, CacheOK, DiskOK
      <4>2. [v.disk EXCEPT ![v.block] = v.buf] = v.disk
        BY <4>1
      <4>3. QED
        BY <2>3, <3>2, <4>2 DEF Seen
    <3>3. QED
      BY <3>1, <3>2
  <2>6. QED
    BY <1>1, <2>1, <2>3, <2>4, <2>5 DEF Cached, Kept
<1>2. CASE v.block # b
  <2> DEFINE flushed == cacheFlush(v)
             got == IF flushed.ok THEN readBlock(flushed, b) ELSE flushed
             w == IF got.ok THEN [got EXCEPT !.block = b, !.buf = got.got, !.dirty = @ \/ forWrite] ELSE got
  <2>1. cacheRawBlock(v, b, forWrite) = w
    BY <1>2 DEF cacheRawBlock, Then
  <2>2. /\ Kept(v, flushed) /\ flushed.next = v.next
        /\ flushed.ok => v.ok /\ ~flushed.dirty /\ Seen(flushed) = flushed.disk
    BY FlushKeeps
  <2> HIDE DEF flushed
  <2>3. CASE ~flushed.ok
    BY <2>1, <2>2, <2>3 DEF Cached
  <2>4. CASE flushed.ok
    <3>1. Shape(flushed) /\ VolumeOK(flushed)
      BY <2>2 DEF Kept, VolumeOK
    <3>2. ReadFrom(flushed, got, b)
      BY <2>4, <3>1, ReadReads
    <3> HIDE DEF got
    <3>3. VolumeOK(got) /\ Seen(got) = Seen(flushed)
      BY <3>1, <3>2, OtherFields DEF ReadFrom, SameCache
    <3>4. Kept(flushed, got)
      BY <3>2, <3>3 DEF Kept, ReadFrom
    <3>5. Kept(v, got) /\ got.next = v.next
      BY <2>2, <3>2, <3>4, KeptTwice DEF ReadFrom
    <3>6. CASE ~got.ok
      BY <2>1, <3>5, <3>6 DEF Cached
    <3>7. CASE got.ok
      <4>1. w = [got EXCEPT !.block = b, !.buf = got.got, !.dirty = @ \/ forWrite]
        BY <3>7
      <4>2. /\ b \in Blocks /\ got.got = got.disk[b] /\ ~got.dirty /\ Seen(got) = got.disk
        BY <2>2, <2>4, <3>1, <3>2, <3>3, <3>7 DEF ReadFrom, SameCache, VolumeOK, DiskOK
      <4>3. Shape(got)
        BY <3>2 DEF ReadFrom
      <4>4. /\ Shape(w) /\ Same(got, w) /\ w.block = b /\ w.buf = got.got /\ w.disk = got.disk
            /\ w.mirror = got.mirror /\ w.next = got.next /\ w.ok = got.ok /\ w.dirty = (got.dirty \/ forWrite)
        BY <4>1, <4>3 DEF Shape, Same
      <4> HIDE DEF w
      <4>5. got.disk = [a \in Blocks |-> got.disk[a]] /\ BlockOK(b, got.disk[b])
        BY <3>3, <4>2 DEF VolumeOK, DiskOK
      <4>6. [got.disk EXCEPT ![b] = got.disk[b]] = got.disk
        BY <4>5
      <4>7. Seen(w) = got.disk
        BY <4>2, <4>4, <4>6 DEF Seen
      <4>8. VolumeOK(w)
        BY <3>3, <4>2, <4>4, <4>5 DEF VolumeOK, CacheOK
      <4>9. Kept(got, w)
        BY <4>2, <4>4, <4>7, <4>8 DEF Kept
      <4>10. Kept(v, w)
        BY <3>5, <4>9, KeptTwice
      <4>11. v.ok
        BY <2>2, <2>4
      <4>12. QED
        BY <2>1, <3>5, <3>7, <4>4, <4>10, <4>11 DEF Cached
    <3>8. QED
      BY <3>6, <3>7
  <2>5. QED
    BY <2>3, <2>4
<1>3. QED
  BY <1>1, <1>2

(* What the cache holds of the FAT and of the directory is what is seen.    *)
LEMMA CachedFat ==
  ASSUME NEW v, VolumeOK(v), NEW c \in 0..LastCluster, v.block = FatBlock(c)
  PROVE  v.buf[c] = Meta(Seen(v)).fat[c] /\ v.buf \in [FatOf(v.block[2]) -> FatValues] /\ c \in FatOf(v.block[2])
<1>1. v.block \in Blocks /\ v.block[1] = "fat" /\ c \in FatOf(v.block[2])
  BY FatIsOnCard
<1>2. v.buf = Seen(v)[v.block]
  BY <1>1, SeenIsOK
<1>3. BlockOK(v.block, v.buf)
  BY <1>1 DEF VolumeOK, CacheOK
<1>4. QED
  BY <1>1, <1>2, <1>3 DEF Meta, FatIn, BlockOK

LEMMA CachedDir ==
  ASSUME NEW v, VolumeOK(v), v.block = DirBlock
  PROVE  v.buf = Meta(Seen(v)).dir /\ v.buf \in Dirs
<1>1. v.block \in Blocks
  BY DirIsOnCard
<1>2. v.buf = Seen(v)[v.block]
  BY <1>1, SeenIsOK
<1>3. BlockOK(v.block, v.buf)
  BY <1>1 DEF VolumeOK, CacheOK
<1>4. QED
  BY <1>2, <1>3 DEF Meta, BlockOK

LEMMA MetaIsTyped ==
  ASSUME NEW d, DiskOK(d)
  PROVE  Meta(d).fat \in Fats /\ Meta(d).dir \in Dirs
<1>1. ASSUME NEW c \in 0..LastCluster PROVE d[FatBlock(c)][c] \in FatValues
  <2>1. FatBlock(c) \in Blocks /\ FatBlock(c)[1] = "fat" /\ c \in FatOf(FatBlock(c)[2])
    BY FatIsOnCard
  <2>2. BlockOK(FatBlock(c), d[FatBlock(c)])
    BY <2>1 DEF DiskOK
  <2>3. QED
    BY <2>1, <2>2 DEF BlockOK
<1>2. BlockOK(DirBlock, d[DirBlock])
  BY DirIsOnCard DEF DiskOK
<1>3. QED
  BY <1>1, <1>2 DEF Meta, FatIn, Fats, BlockOK

(* Looking up what follows a cluster.                                       *)
Looked(v, w, c) ==
  /\ Kept(v, w)
  /\ w.ok => v.ok /\ c \in 0..LastCluster /\ w.next = Meta(Seen(v)).fat[c] /\ w.next \in FatValues

LEMMA GetLooks ==
  ASSUME NEW v, VolumeOK(v), NEW c \in Nat
  PROVE  Looked(v, fatGet(v, c), c)
<1>1. CASE c > LastCluster
  <2> DEFINE w == [v EXCEPT !.ok = FALSE]
  <2>1. fatGet(v, c) = w
    BY <1>1 DEF fatGet, Fail
  <2>2. Shape(v)
    BY DEF VolumeOK
  <2>3. /\ Shape(w) /\ Same(v, w) /\ w.block = v.block /\ w.buf = v.buf /\ w.disk = v.disk
        /\ w.mirror = v.mirror /\ w.ok = FALSE /\ w.dirty = v.dirty
    BY <2>2 DEF Shape, Same
  <2> HIDE DEF w
  <2>4. VolumeOK(w) /\ Seen(w) = Seen(v)
    BY <2>3, OtherFields
  <2>5. QED
    BY <2>1, <2>3, <2>4 DEF Looked, Kept
<1>2. CASE ~(c > LastCluster)
  <2> DEFINE u == cacheRawBlock(v, FatBlock(c), FALSE)
             w == IF u.ok THEN [u EXCEPT !.next = u.buf[c]] ELSE u
  <2>1. fatGet(v, c) = w
    BY <1>2 DEF fatGet, Then
  <2>2. Cached(v, u, FatBlock(c), FALSE)
    BY CacheKeeps
  <2> HIDE DEF u
  <2>3. CASE ~u.ok
    BY <2>1, <2>2, <2>3 DEF Looked, Cached
  <2>4. CASE u.ok
    <3>1. w = [u EXCEPT !.next = u.buf[c]]
      BY <2>4
    <3>2. VolumeOK(u) /\ Shape(u) /\ u.block = FatBlock(c) /\ v.ok /\ Kept(v, u)
      BY <2>2, <2>4 DEF Cached, Kept, VolumeOK
    <3>3. /\ Shape(w) /\ Same(u, w) /\ w.block = u.block /\ w.buf = u.buf /\ w.disk = u.disk
          /\ w.mirror = u.mirror /\ w.ok = u.ok /\ w.dirty = u.dirty /\ w.next = u.buf[c]
      BY <3>1, <3>2 DEF Shape, Same
    <3> HIDE DEF w
    <3>4. VolumeOK(w) /\ Seen(w) = Seen(u)
      BY <3>2, <3>3, OtherFields
    <3>5. Kept(u, w)
      BY <3>3, <3>4 DEF Kept
    <3>6. Kept(v, w)
      BY <3>2, <3>5, KeptTwice
    <3>7. c \in 0..LastCluster
      BY <1>2, SomeClusters
    <3>8. u.buf[c] = Meta(Seen(u)).fat[c] /\ u.buf[c] \in FatValues
      BY <3>2, <3>7, CachedFat
    <3>9. Meta(Seen(u)) = Meta(Seen(v))
      BY <3>2 DEF Kept
    <3>10. QED
      BY <2>1, <3>2, <3>3, <3>6, <3>7, <3>8, <3>9 DEF Looked
  <2>5. QED
    BY <2>3, <2>4
<1>3. QED
  BY <1>1, <1>2

(* Changing an entry: what the FAT is seen to be changes in that entry only, *)
(* and the card not yet.                                                    *)
Changed(fat, c, x) == [fat EXCEPT ![c] = x]

Put(v, w, c, x) ==
  /\ VolumeOK(w) /\ Same(v, w) /\ w.next = v.next
  /\ Meta(w.disk) = Meta(v.disk) \/ Meta(w.disk) = Meta(Seen(v))
  /\ ~w.ok => Meta(Seen(w)) = Meta(Seen(v))
  /\ w.ok => /\ v.ok /\ c \in Clusters
             /\ Meta(Seen(w)).fat = Changed(Meta(Seen(v)).fat, c, x)
             /\ Meta(Seen(w)).dir = Meta(Seen(v)).dir

LEMMA PutWrites ==
  ASSUME NEW v, VolumeOK(v), NEW c, NEW x \in FatValues
  PROVE  Put(v, fatPut(v, c, x), c, x)
<1>1. CASE c \notin Clusters
  <2> DEFINE w == [v EXCEPT !.ok = FALSE]
  <2>1. fatPut(v, c, x) = w
    BY <1>1 DEF fatPut, Fail
  <2>2. Shape(v)
    BY DEF VolumeOK
  <2>3. /\ Shape(w) /\ Same(v, w) /\ w.block = v.block /\ w.buf = v.buf /\ w.disk = v.disk
        /\ w.mirror = v.mirror /\ w.ok = FALSE /\ w.dirty = v.dirty /\ w.next = v.next
    BY <2>2 DEF Shape, Same
  <2> HIDE DEF w
  <2>4. VolumeOK(w) /\ Seen(w) = Seen(v)
    BY <2>3, OtherFields
  <2>5. QED
    BY <2>1, <2>3, <2>4 DEF Put
<1>2. CASE c \in Clusters
  <2> DEFINE b == FatBlock(c)
             u == cacheRawBlock(v, b, FALSE)
             w == IF u.ok THEN [u EXCEPT !.buf[c] = x, !.dirty = TRUE, !.mirror = Mirror(b)] ELSE u
  <2>1. fatPut(v, c, x) = w
    BY <1>2 DEF fatPut, Then
  <2>2. Cached(v, u, b, FALSE)
    BY CacheKeeps
  <2> HIDE DEF u
  <2>3. CASE ~u.ok
    BY <2>1, <2>2, <2>3 DEF Put, Cached, Kept
  <2>4. CASE u.ok
    <3>1. w = [u EXCEPT !.buf[c] = x, !.dirty = TRUE, !.mirror = Mirror(b)]
      BY <2>4
    <3>2. VolumeOK(u) /\ Shape(u) /\ u.block = b /\ v.ok /\ Kept(v, u) /\ u.next = v.next
      BY <2>2, <2>4 DEF Cached, Kept, VolumeOK
    <3>3. /\ Shape(w) /\ Same(u, w) /\ w.block = u.block /\ w.buf = [u.buf EXCEPT ![c] = x] /\ w.disk = u.disk
          /\ w.mirror = Mirror(b) /\ w.ok = u.ok /\ w.dirty = TRUE /\ w.next = u.next
      BY <3>1, <3>2 DEF Shape, Same
    <3> HIDE DEF w
    <3>4. b \in Blocks /\ b[1] = "fat" /\ c \in 0..LastCluster
      BY <1>2, FatIsOnCard, SomeClusters
    <3>5. u.buf \in [FatOf(b[2]) -> FatValues] /\ c \in FatOf(b[2])
      BY <3>2, <3>4, CachedFat
    <3>6. w.buf \in [FatOf(b[2]) -> FatValues] /\ w.buf[c] = x /\ \A a \in FatOf(b[2]) : a # c => w.buf[a] = u.buf[a]
      BY <3>3, <3>5
    <3>7. BlockOK(b, w.buf)
      BY <3>4, <3>6 DEF BlockOK, DirBlock
    <3>8. w.mirror[1] = "mirror"
      BY <3>3 DEF Mirror
    <3>9. VolumeOK(w)
      BY <3>2, <3>3, <3>7, <3>8 DEF VolumeOK, CacheOK
    <3>10. Seen(w) = [u.disk EXCEPT ![b] = w.buf]
      BY <3>2, <3>3, <3>4 DEF Seen
    <3>11. DiskOK(u.disk)
      BY <3>2 DEF VolumeOK
    <3>12. Seen(w)[b] = w.buf /\ \A a \in Blocks : a # b => Seen(w)[a] = u.disk[a]
      BY <3>4, <3>7, <3>10, <3>11, WrittenDisk
    <3>13. \A a \in Blocks : a # b => u.disk[a] = Seen(u)[a]
      BY <3>2, <3>11 DEF Seen, DiskOK
    <3>14. \A a \in Blocks : a # b => Seen(w)[a] = Seen(u)[a]
      BY <3>12, <3>13
    <3>15. u.buf = Seen(u)[b]
      BY <3>2, <3>4, SeenIsOK
    <3>16. DirBlock \in Blocks /\ DirBlock # b
      BY <3>4, DirIsOnCard
    <3>17. ASSUME NEW a \in 0..LastCluster
           PROVE  Seen(w)[FatBlock(a)][a] = IF a = c THEN x ELSE Seen(u)[FatBlock(a)][a]
      <4>1. FatBlock(a) \in Blocks /\ a \in FatOf(FatBlock(a)[2])
        BY FatIsOnCard
      <4>2. CASE FatBlock(a) # b
        <5>1. a # c
          BY <4>2
        <5>2. QED
          BY <3>14, <4>1, <4>2, <5>1
      <4>3. CASE FatBlock(a) = b
        <5>1. a \in FatOf(b[2])
          BY <4>1, <4>3
        <5>2. w.buf[a] = IF a = c THEN x ELSE u.buf[a]
          BY <3>6, <5>1
        <5>3. QED
          BY <3>12, <3>15, <4>3, <5>2
      <4>4. QED
        BY <4>2, <4>3
    <3>18. Meta(Seen(w)).dir = Meta(Seen(u)).dir
      BY <3>14, <3>16 DEF Meta
    <3>19. Meta(Seen(w)).fat = Changed(Meta(Seen(u)).fat, c, x)
      BY <3>17 DEF Meta, FatIn, Changed
    <3>20. Meta(Seen(u)) = Meta(Seen(v)) /\ Same(v, u) /\ (Meta(u.disk) = Meta(v.disk) \/ Meta(u.disk) = Meta(Seen(v)))
      BY <3>2 DEF Kept
    <3>21. Same(v, w)
      BY <3>3, <3>20 DEF Same
    <3>22. QED
      BY <1>2, <2>1, <2>4, <3>2, <3>3, <3>9, <3>18, <3>19, <3>20, <3>21 DEF Put
  <2>5. QED
    BY <2>3, <2>4
<1>3. QED
  BY <1>1, <1>2

-------------------------------------------------------------------------------
(* Chains *)

LEMMA ChangedEntry ==
  ASSUME NEW fat \in Fats, NEW c \in Clusters, NEW x \in FatValues
  PROVE  /\ Changed(fat, c, x) \in Fats /\ Changed(fat, c, x)[c] = x
         /\ \A d \in 0..LastCluster : d # c => Changed(fat, c, x)[d] = fat[d]
         /\ \A d \in Clusters : d # c => Changed(fat, c, x)[d] = fat[d]
BY SomeClusters DEF Changed, Fats

LEMMA MarksAreNoClusters ==
  /\ EOC \notin Clusters /\ 0 \notin Clusters /\ EOC # 0
  /\ EOC \in FatValues /\ 0 \in FatValues /\ Clusters \subseteq FatValues
BY SomeClusters DEF FatValues

(* A chain that comes to an end at a changed entry came to an end before.   *)
LEMMA StillEnds ==
  ASSUME NEW fat \in Fats, NEW heads, Chains(fat, heads), NEW c \in Clusters, NEW x \in {0, EOC},
         NEW S \in SUBSET Clusters, \A d \in S : Changed(fat, c, x)[d] \in S
  PROVE  S = {}
<1>1. x \in FatValues /\ x \notin Clusters
  BY SomeClusters DEF FatValues
<1>2. c \notin S
  BY <1>1, ChangedEntry
<1>3. \A d \in S : fat[d] \in S
  BY <1>1, <1>2, ChangedEntry, SomeClusters
<1>4. QED
  BY <1>3 DEF Chains

(* A free cluster is marked as the end of a chain.                          *)
LEMMA FreeIsMarked ==
  ASSUME NEW fat \in Fats, NEW heads, Chains(fat, heads), NEW c \in Clusters, fat[c] = 0
  PROVE  LET new == Changed(fat, c, EOC) IN
         /\ Chains(new, heads) /\ new \in Fats /\ new[c] = EOC
         /\ c \notin heads /\ \A d \in Clusters : new[d] # c
<1> DEFINE new == Changed(fat, c, EOC)
<1>1. /\ new \in Fats /\ new[c] = EOC /\ \A d \in Clusters : d # c => new[d] = fat[d]
      /\ EOC \notin Clusters /\ 0 \notin Clusters /\ EOC # 0
  BY ChangedEntry, MarksAreNoClusters
<1>2. \A S \in SUBSET Clusters : (\A d \in S : new[d] \in S) => S = {}
  BY StillEnds
<1> HIDE DEF new
<1>3. \A d \in Clusters : fat[d] # c
  BY DEF Chains
<1>4. c \notin heads
  BY DEF Chains
<1>5. \A d \in Clusters : new[d] # c
  BY <1>1, <1>3
<1>6. \A d, e \in Clusters : new[d] \in Clusters /\ new[d] = new[e] => d = e
  BY <1>1 DEF Chains
<1>7. \A d \in Clusters : new[d] \notin heads
  BY <1>1 DEF Chains
<1>8. \A d \in Clusters : new[d] \in Clusters => new[new[d]] # 0
  BY <1>1 DEF Chains
<1>9. \A d \in heads : d \in Clusters /\ new[d] # 0
  BY <1>1 DEF Chains
<1>10. Chains(new, heads)
  BY <1>2, <1>6, <1>7, <1>8, <1>9 DEF Chains
<1>11. QED
  BY <1>1, <1>4, <1>5, <1>10 DEF new

(* A cluster that nothing leads to is appended to the end of a chain.       *)
LEMMA EndIsLinked ==
  ASSUME NEW fat \in Fats, NEW heads, Chains(fat, heads), NEW c \in Clusters, fat[c] = EOC, c \notin heads,
         \A d \in Clusters : fat[d] # c, NEW end \in Clusters, fat[end] = EOC, end # c
  PROVE  Chains(Changed(fat, end, c), heads) /\ Changed(fat, end, c) \in Fats
<1> DEFINE new == Changed(fat, end, c)
<1>1. /\ new \in Fats /\ new[end] = c /\ \A d \in Clusters : d # end => new[d] = fat[d]
      /\ EOC \notin Clusters /\ 0 \notin Clusters /\ EOC # 0
  BY ChangedEntry, MarksAreNoClusters
<1> HIDE DEF new
<1>2. ASSUME NEW S \in SUBSET Clusters, \A d \in S : new[d] \in S PROVE S = {}
  <2>1. end \notin S
    BY <1>1, <1>2
  <2>2. \A d \in S : fat[d] \in S
    BY <1>1, <1>2, <2>1
  <2>3. QED
    BY <2>2 DEF Chains
<1>6. \A d, e \in Clusters : new[d] \in Clusters /\ new[d] = new[e] => d = e
  BY <1>1 DEF Chains
<1>7. \A d \in Clusters : new[d] \notin heads
  BY <1>1 DEF Chains
<1>8. \A d \in Clusters : new[d] \in Clusters => new[new[d]] # 0
  BY <1>1 DEF Chains
<1>9. \A d \in heads : d \in Clusters /\ new[d] # 0
  BY <1>1 DEF Chains
<1>10. Chains(new, heads)
  BY <1>2, <1>6, <1>7, <1>8, <1>9 DEF Chains
<1>11. QED
  BY <1>1, <1>10 DEF new

(* More heads, and fewer.                                                   *)
LEMMA HeadIsAdded ==
  ASSUME NEW fat, NEW heads, Chains(fat, heads), NEW c \in Clusters, fat[c] # 0,
         \A d \in Clusters : fat[d] # c
  PROVE  Chains(fat, heads \cup {c})
BY DEF Chains

LEMMA HeadsAreGiven ==
  ASSUME NEW fat, NEW heads, Chains(fat, heads), NEW fewer \in SUBSET heads
  PROVE  Chains(fat, fewer)
BY DEF Chains

(* A chain is cut after a cluster: the rest of it is a chain of its own.    *)
LEMMA ChainIsCut ==
  ASSUME NEW fat \in Fats, NEW heads, Chains(fat, heads), NEW x \in Clusters, fat[x] \in Clusters
  PROVE  /\ Chains(Changed(fat, x, EOC), heads \cup {fat[x]})
         /\ Changed(fat, x, EOC) \in Fats /\ fat[x] \notin heads /\ fat[x] # x
<1> DEFINE new == Changed(fat, x, EOC)
<1>1. /\ new \in Fats /\ new[x] = EOC /\ \A d \in Clusters : d # x => new[d] = fat[d]
      /\ EOC \notin Clusters /\ 0 \notin Clusters /\ EOC # 0
  BY ChangedEntry, MarksAreNoClusters
<1>2. \A S \in SUBSET Clusters : (\A d \in S : new[d] \in S) => S = {}
  BY StillEnds
<1> HIDE DEF new
<1>3. fat[x] \notin heads
  BY DEF Chains
<1>4. fat[x] # x
  <2>1. fat[x] = x => \A d \in {x} : fat[d] \in {x}
    OBVIOUS
  <2>2. QED
    BY <2>1 DEF Chains
<1>5. \A d \in Clusters : new[d] # fat[x]
  BY <1>1 DEF Chains
<1>6. \A d, e \in Clusters : new[d] \in Clusters /\ new[d] = new[e] => d = e
  BY <1>1 DEF Chains
<1>7. \A d \in Clusters : new[d] \notin heads
  BY <1>1 DEF Chains
<1>8. \A d \in Clusters : new[d] \in Clusters => new[new[d]] # 0
  BY <1>1 DEF Chains
<1>9. \A d \in heads : d \in Clusters /\ new[d] # 0
  BY <1>1 DEF Chains
<1>10. Chains(new, heads)
  BY <1>2, <1>6, <1>7, <1>8, <1>9 DEF Chains
<1>11. new[fat[x]] # 0
  BY <1>1, <1>4 DEF Chains
<1>12. Chains(new, heads \cup {fat[x]})
  BY <1>5, <1>10, <1>11, HeadIsAdded
<1>13. QED
  BY <1>1, <1>3, <1>4, <1>12 DEF new

(* The head of a chain is freed: the next one is the head.                  *)
LEMMA HeadIsFreed ==
  ASSUME NEW fat \in Fats, NEW rest, NEW c, c \notin rest, Chains(fat, rest \cup {c})
  PROVE  /\ c \in Clusters /\ fat[c] \in Clusters \cup {EOC} /\ fat[c] \notin rest
         /\ Chains(Changed(fat, c, 0), rest \cup ({fat[c]} \cap Clusters))
         /\ Changed(fat, c, 0) \in Fats
<1> DEFINE new == Changed(fat, c, 0)
<1>0. c \in Clusters /\ fat[c] # 0
  BY DEF Chains
<1>1. /\ new \in Fats /\ new[c] = 0 /\ \A d \in Clusters : d # c => new[d] = fat[d]
      /\ EOC \notin Clusters /\ 0 \notin Clusters /\ EOC # 0
  BY <1>0, ChangedEntry, MarksAreNoClusters
<1>2. \A S \in SUBSET Clusters : (\A d \in S : new[d] \in S) => S = {}
  BY <1>0, StillEnds
<1> HIDE DEF new
<1>3. fat[c] \in Clusters \cup {EOC}
  BY <1>0, SomeClusters DEF Fats, FatValues
<1>4. fat[c] \notin rest
  BY <1>0 DEF Chains
<1>5. \A d \in Clusters : fat[d] # c
  BY DEF Chains
<1>6. \A d, e \in Clusters : new[d] \in Clusters /\ new[d] = new[e] => d = e
  BY <1>1 DEF Chains
<1>7. \A d \in Clusters : new[d] \notin rest
  BY <1>1 DEF Chains
<1>8. \A d \in Clusters : new[d] \in Clusters => new[new[d]] # 0
  BY <1>1, <1>5 DEF Chains
<1>9. \A d \in rest : d \in Clusters /\ new[d] # 0
  BY <1>1 DEF Chains
<1>10. Chains(new, rest)
  BY <1>2, <1>6, <1>7, <1>8, <1>9 DEF Chains
<1>11. CASE fat[c] \notin Clusters
  <2>1. rest \cup ({fat[c]} \cap Clusters) = rest
    BY <1>11
  <2>2. QED
    BY <1>0, <1>1, <1>3, <1>4, <1>10, <2>1 DEF new
<1>12. CASE fat[c] \in Clusters
  <2>1. \A d \in Clusters : new[d] # fat[c]
    BY <1>0, <1>1, <1>12 DEF Chains
  <2>2. fat[c] # c
    BY <1>0, <1>5
  <2>3. new[fat[c]] # 0
    BY <1>0, <1>1, <1>12, <2>2 DEF Chains
  <2>4. Chains(new, rest \cup {fat[c]})
    BY <1>10, <1>12, <2>1, <2>3, HeadIsAdded
  <2>5. rest \cup ({fat[c]} \cap Clusters) = rest \cup {fat[c]}
    BY <1>12
  <2>6. QED
    BY <1>0, <1>1, <1>3, <1>4, <2>4, <2>5 DEF new
<1>13. QED
  BY <1>11, <1>12

-------------------------------------------------------------------------------
(* The directory *)

LEMMA LeastOfOne == ASSUME NEW s \in Nat PROVE Least({s}) = s
BY DEF Least

LEMMA EntryOfName ==
  ASSUME NEW dir \in Dirs, DirOK(dir), NEW n \in Names, NEW s \in 1..DirSlots, dir[s].name = n
  PROVE  Slots(dir, n) = {s} /\ FirstIn(dir, n) = dir[s].first
<1>1. Slots(dir, n) = {s}
  BY DEF Slots, DirOK
<1>2. Least(Slots(dir, n)) = s
  BY <1>1, LeastOfOne
<1>3. QED
  BY <1>1, <1>2 DEF FirstIn

LEMMA NoEntryOfName ==
  ASSUME NEW dir \in Dirs, NEW n \in Names, \A s \in 1..DirSlots : dir[s].name # n
  PROVE  FirstIn(dir, n) = 0
BY DEF Slots, FirstIn

LEMMA FirstIsTyped ==
  ASSUME NEW dir \in Dirs, DirOK(dir), NEW n \in Names
  PROVE  FirstIn(dir, n) \in {0} \cup Clusters
<1>1. CASE \A s \in 1..DirSlots : dir[s].name # n
  BY <1>1, NoEntryOfName
<1>2. CASE \E s \in 1..DirSlots : dir[s].name = n
  <2>1. PICK s \in 1..DirSlots : dir[s].name = n
    BY <1>2
  <2>2. dir[s].first \in {0} \cup Clusters
    BY DEF Dirs, Entries
  <2>3. QED
    BY <2>1, <2>2, EntryOfName
<1>3. QED
  BY <1>1, <1>2

(* Fewer files begin at clusters.                                           *)
LEMMA FewerAreSound ==
  ASSUME NEW meta, NEW first, NEW fewer, Sound(meta, first),
         \A n \in Names : fewer[n] = 0 \/ fewer[n] = first[n]
  PROVE  Sound(meta, fewer)
<1>1. Heads(fewer) \in SUBSET Heads(first)
  BY DEF Heads
<1>2. Chains(meta.fat, Heads(fewer))
  BY <1>1, HeadsAreGiven DEF Sound
<1>3. \A m, n \in Names : fewer[m] = fewer[n] /\ fewer[m] # 0 => m = n
  BY DEF Sound
<1>4. QED
  BY <1>2, <1>3 DEF Sound

(* When everything that is seen is on the card, power may be lost.          *)
LEMMA SeenMayStay ==
  ASSUME NEW meta, NEW fs, meta.dir \in Dirs, Agree(meta, fs)
  PROVE  Sound(meta, FirstsIn(meta.dir))
<1>1. ASSUME NEW n \in Names
      PROVE  FirstsIn(meta.dir)[n] = 0 \/ FirstsIn(meta.dir)[n] = Firsts(meta.dir, fs)[n]
  <2>1. CASE ~fs[n].open
    BY <2>1 DEF FirstsIn, Firsts
  <2>2. CASE fs[n].open
    <3>1. /\ fs[n].slot \in 1..DirSlots /\ meta.dir[fs[n].slot].name = n
          /\ meta.dir[fs[n].slot].first = 0 \/ meta.dir[fs[n].slot].first = fs[n].first
      BY <2>2 DEF Agree, FileOK
    <3>2. DirOK(meta.dir)
      BY DEF Agree, Sound
    <3>3. FirstIn(meta.dir, n) = meta.dir[fs[n].slot].first
      BY <3>1, <3>2, EntryOfName
    <3>4. QED
      BY <2>2, <3>1, <3>3 DEF FirstsIn, Firsts
  <2>3. QED
    BY <2>1, <2>2
<1>2. Sound(meta, Firsts(meta.dir, fs))
  BY DEF Agree
<1>3. QED
  BY <1>1, <1>2, FewerAreSound

(* A volume with the same view, whose card holds what it held or what was   *)
(* seen, is as safe.                                                        *)
LEMMA SafeStays ==
  ASSUME NEW v, NEW w, NEW fs, Safe(v, fs), VolumeOK(w), w.search \in Nat,
         Meta(Seen(w)) = Meta(Seen(v)),
         Meta(w.disk) = Meta(v.disk) \/ Meta(w.disk) = Meta(Seen(v))
  PROVE  Safe(w, fs)
<1>1. Meta(Seen(v)).dir \in Dirs
  BY SeenIsOK, MetaIsTyped DEF Safe
<1>2. Sound(Meta(Seen(v)), FirstsIn(Meta(Seen(v)).dir))
  BY <1>1, SeenMayStay DEF Safe
<1>3. QED
  BY <1>2 DEF Safe

LEMMA KeptIsSafe ==
  ASSUME NEW v, NEW w, NEW fs, Safe(v, fs), Kept(v, w)
  PROVE  Safe(w, fs)
<1>1. w.search \in Nat
  BY DEF Safe, Kept, Same
<1>2. QED
  BY <1>1, SafeStays DEF Kept

(* Only the view changed, to one that agrees with the files.                *)
LEMMA NewViewIsSafe ==
  ASSUME NEW v, NEW w, NEW fs, NEW gs, Safe(v, fs), VolumeOK(w), w.search \in Nat,
         Agree(Meta(Seen(w)), gs),
         Meta(w.disk) = Meta(v.disk) \/ Meta(w.disk) = Meta(Seen(v))
  PROVE  Safe(w, gs)
<1>1. Meta(Seen(v)).dir \in Dirs
  BY SeenIsOK, MetaIsTyped DEF Safe
<1>2. Sound(Meta(Seen(v)), FirstsIn(Meta(Seen(v)).dir))
  BY <1>1, SeenMayStay DEF Safe
<1>3. QED
  BY <1>2 DEF Safe

-------------------------------------------------------------------------------
(* Moving in a file *)

With(fs, n, f) == [fs EXCEPT ![n] = f]

(* A call on file n, the other files being fs, has come to v.               *)
During(v, fs, n) == Safe(v, With(fs, n, v.f))

IsFiles(fs) == fs = [n \in Names |-> fs[n]]

LEMMA SameFirsts ==
  ASSUME NEW fs, IsFiles(fs), NEW n \in Names, NEW meta, NEW f, NEW g,
         Agree(meta, With(fs, n, f)), FileOK(g, meta.dir, n), g.open = f.open, f.open => g.first = f.first
  PROVE  Agree(meta, With(fs, n, g))
<1> DEFINE F == With(fs, n, f)
           G == With(fs, n, g)
<1>1. F[n] = f /\ G[n] = g /\ \A m \in Names : m # n => F[m] = G[m]
  BY DEF IsFiles, With
<1> HIDE DEF F, G
<1>2. Firsts(meta.dir, G) = Firsts(meta.dir, F)
  <2>1. \A m \in Names : (IF G[m].open THEN G[m].first ELSE FirstIn(meta.dir, m))
                         = (IF F[m].open THEN F[m].first ELSE FirstIn(meta.dir, m))
    BY <1>1
  <2>2. QED
    BY <2>1 DEF Firsts
<1>3. \A m \in Names : FileOK(G[m], meta.dir, m)
  BY <1>1 DEF Agree, F
<1>4. Sound(meta, Firsts(meta.dir, F))
  BY DEF Agree, F
<1>5. QED
  BY <1>2, <1>3, <1>4 DEF Agree, G

(* A file without a cluster is at its start.                                *)
AtStart(f) == f.first = 0 => f.cur = 0 /\ f.pos = 0

SameView(v, w) ==
  /\ VolumeOK(w) /\ w.search = v.search
  /\ Meta(Seen(w)) = Meta(Seen(v))
  /\ Meta(w.disk) = Meta(v.disk) \/ Meta(w.disk) = Meta(Seen(v))

SameFile(f, g) ==
  /\ g.open = f.open /\ g.write = f.write /\ g.slot = f.slot /\ g.first = f.first
  /\ g.size = f.size /\ g.dirDirty = f.dirDirty

(* Only the place in the file has changed from v to w.                      *)
Moved(v, w) == SameView(v, w) /\ SameFile(v.f, w.f) /\ w.f \in FileRecords /\ AtStart(w.f)

LEMMA MovedTwice ==
  ASSUME NEW u, NEW v, NEW w, Moved(u, v), Moved(v, w)
  PROVE  Moved(u, w)
BY DEF Moved, SameView, SameFile

LEMMA KeptIsMoved ==
  ASSUME NEW v, NEW w, Kept(v, w), v.f \in FileRecords, AtStart(v.f)
  PROVE  Moved(v, w) /\ w.f = v.f
BY DEF Kept, Same, Moved, SameView, SameFile

LEMMA MovedIsSafe ==
  ASSUME NEW fs, IsFiles(fs), NEW n \in Names, NEW v, NEW w, During(v, fs, n), Moved(v, w)
  PROVE  During(w, fs, n)
<1>1. With(fs, n, v.f)[n] = v.f
  BY DEF IsFiles, With
<1>2. Agree(Meta(Seen(v)), With(fs, n, v.f)) /\ v.search \in Nat
  BY DEF During, Safe
<1>3. FileOK(v.f, Meta(Seen(v)).dir, n)
  BY <1>1, <1>2 DEF Agree
<1>4. FileOK(w.f, Meta(Seen(v)).dir, n)
  BY <1>3 DEF FileOK, Moved, SameFile, AtStart
<1>5. Agree(Meta(Seen(v)), With(fs, n, w.f))
  BY <1>2, <1>4, SameFirsts DEF Moved, SameFile
<1>6. Agree(Meta(Seen(w)), With(fs, n, w.f)) /\ VolumeOK(w) /\ w.search \in Nat
      /\ (Meta(w.disk) = Meta(v.disk) \/ Meta(w.disk) = Meta(Seen(v)))
  BY <1>2, <1>5 DEF Moved, SameView
<1>7. QED
  BY <1>6, NewViewIsSafe DEF During

LEMMA FileDuring ==
  ASSUME NEW fs, IsFiles(fs), NEW n \in Names, NEW v, During(v, fs, n)
  PROVE  /\ VolumeOK(v) /\ Shape(v) /\ v.search \in Nat
         /\ FileOK(v.f, Meta(Seen(v)).dir, n) /\ v.f \in FileRecords
         /\ v.f.open => AtStart(v.f)
<1>1. With(fs, n, v.f)[n] = v.f
  BY DEF IsFiles, With
<1>2. FileOK(v.f, Meta(Seen(v)).dir, n)
  BY <1>1 DEF During, Safe, Agree
<1>3. QED
  BY <1>2 DEF During, Safe, VolumeOK, FileOK, AtStart

(* Setting the place.                                                       *)
LEMMA ClusterIsSet ==
  ASSUME NEW v, VolumeOK(v), v.f \in FileRecords, v.f.first # 0, NEW c \in FatValues
  PROVE  LET w == [v EXCEPT !.f.cur = c] IN
         Moved(v, w) /\ w.ok = v.ok /\ w.f.pos = v.f.pos /\ w.f.cur = c
<1> DEFINE w == [v EXCEPT !.f.cur = c]
<1>1. PICK f : f = v.f
  OBVIOUS
<1>2. PICK g : g = [f EXCEPT !.cur = c]
  OBVIOUS
<1>3. g \in FileRecords /\ SameFile(f, g) /\ g.cur = c /\ g.pos = f.pos
  BY <1>1, <1>2 DEF FileRecords, SameFile
<1>4. Shape(v)
  BY DEF VolumeOK
<1>5. w = [v EXCEPT !.f = g]
  BY <1>1, <1>2
<1>6. /\ Shape(w) /\ w.f = g /\ w.search = v.search /\ w.ok = v.ok /\ w.disk = v.disk /\ w.block = v.block
      /\ w.buf = v.buf /\ w.dirty = v.dirty /\ w.mirror = v.mirror
  BY <1>4, <1>5 DEF Shape
<1> HIDE DEF w
<1>7. VolumeOK(w) /\ Seen(w) = Seen(v)
  BY <1>6, OtherFields
<1>8. SameView(v, w)
  BY <1>6, <1>7 DEF SameView
<1>9. AtStart(w.f)
  BY <1>1, <1>3, <1>6 DEF AtStart, SameFile
<1>10. QED
  BY <1>1, <1>3, <1>6, <1>8, <1>9 DEF Moved, w

LEMMA PositionIsSet ==
  ASSUME NEW v, VolumeOK(v), v.f \in FileRecords, AtStart(v.f), NEW p \in Nat, v.f.first # 0
  PROVE  LET w == [v EXCEPT !.f.pos = p] IN
         Moved(v, w) /\ w.ok = v.ok /\ w.f.pos = p /\ w.f.cur = v.f.cur
<1> DEFINE w == [v EXCEPT !.f.pos = p]
<1>1. PICK f : f = v.f
  OBVIOUS
<1>2. PICK g : g = [f EXCEPT !.pos = p]
  OBVIOUS
<1>3. g \in FileRecords /\ SameFile(f, g) /\ g.pos = p /\ g.cur = f.cur
  BY <1>1, <1>2 DEF FileRecords, SameFile
<1>4. Shape(v)
  BY DEF VolumeOK
<1>5. w = [v EXCEPT !.f = g]
  BY <1>1, <1>2
<1>6. /\ Shape(w) /\ w.f = g /\ w.search = v.search /\ w.ok = v.ok /\ w.disk = v.disk /\ w.block = v.block
      /\ w.buf = v.buf /\ w.dirty = v.dirty /\ w.mirror = v.mirror
  BY <1>4, <1>5 DEF Shape
<1> HIDE DEF w
<1>7. VolumeOK(w) /\ Seen(w) = Seen(v)
  BY <1>6, OtherFields
<1>8. SameView(v, w)
  BY <1>6, <1>7 DEF SameView
<1>9. AtStart(w.f)
  BY <1>1, <1>3, <1>6 DEF AtStart, SameFile
<1>10. QED
  BY <1>1, <1>3, <1>6, <1>8, <1>9 DEF Moved, w

LEMMA PlaceIsReset ==
  ASSUME NEW v, VolumeOK(v), v.f \in FileRecords
  PROVE  LET w == [v EXCEPT !.f.cur = 0, !.f.pos = 0] IN
         Moved(v, w) /\ w.ok = v.ok /\ w.f.pos = 0 /\ w.f.cur = 0
<1> DEFINE w == [v EXCEPT !.f.cur = 0, !.f.pos = 0]
<1>1. PICK f : f = v.f
  OBVIOUS
<1>2. PICK g : g = [f EXCEPT !.cur = 0, !.pos = 0]
  OBVIOUS
<1>3. g \in FileRecords /\ SameFile(f, g) /\ g.pos = 0 /\ g.cur = 0
  BY <1>1, <1>2, MarksAreNoClusters DEF FileRecords, SameFile
<1>4. Shape(v)
  BY DEF VolumeOK
<1>5. w = [v EXCEPT !.f = g]
  <2>1. v.f = f /\ [v EXCEPT !.f.cur = 0].f = [f EXCEPT !.cur = 0]
    BY <1>1, <1>4 DEF Shape
  <2>2. QED
    BY <1>1, <1>2, <1>4 DEF Shape
<1>6. /\ Shape(w) /\ w.f = g /\ w.search = v.search /\ w.ok = v.ok /\ w.disk = v.disk /\ w.block = v.block
      /\ w.buf = v.buf /\ w.dirty = v.dirty /\ w.mirror = v.mirror
  BY <1>4, <1>5 DEF Shape
<1> HIDE DEF w
<1>7. VolumeOK(w) /\ Seen(w) = Seen(v)
  BY <1>6, OtherFields
<1>8. SameView(v, w)
  BY <1>6, <1>7 DEF SameView
<1>9. AtStart(w.f)
  BY <1>1, <1>3, <1>6 DEF AtStart, SameFile
<1>10. QED
  BY <1>1, <1>3, <1>6, <1>8, <1>9 DEF Moved, w
-------------------------------------------------------------------------------
(* Seeking and reading *)

LEMMA Divided ==
  ASSUME NEW x \in Nat, NEW d \in Nat \ {0}
  PROVE  x \div d \in Nat /\ x % d \in 0..(d - 1)
OBVIOUS

LEMMA NothingMoved ==
  ASSUME NEW v, VolumeOK(v), v.f \in FileRecords, AtStart(v.f)
  PROVE  Moved(v, v)
BY DEF Moved, SameView, SameFile

LEMMA FailMoves ==
  ASSUME NEW v, VolumeOK(v), v.f \in FileRecords, AtStart(v.f)
  PROVE  Moved(v, Fail(v)) /\ ~Fail(v).ok /\ Fail(v).f = v.f
<1> DEFINE w == Fail(v)
<1>1. Shape(v)
  BY DEF VolumeOK
<1>2. /\ Shape(w) /\ w.f = v.f /\ w.search = v.search /\ w.ok = FALSE /\ w.disk = v.disk /\ w.block = v.block
      /\ w.buf = v.buf /\ w.dirty = v.dirty /\ w.mirror = v.mirror
  BY <1>1 DEF Shape, Fail
<1> HIDE DEF w
<1>3. VolumeOK(w) /\ Seen(w) = Seen(v)
  BY <1>2, OtherFields
<1>4. QED
  BY <1>2, <1>3 DEF Moved, SameView, SameFile, w

(* To the next cluster of the chain.                                        *)
Onward(v) == Then(fatGet(v, v.f.cur), LAMBDA w : [w EXCEPT !.f.cur = w.next])

LEMMA OnwardMoves ==
  ASSUME NEW v, VolumeOK(v), v.f \in FileRecords, v.f.first # 0
  PROVE  Moved(v, Onward(v)) /\ Onward(v).f.pos = v.f.pos
<1> DEFINE u == fatGet(v, v.f.cur)
           w == [u EXCEPT !.f.cur = u.next]
<1>1. Onward(v) = IF u.ok THEN w ELSE u
  BY DEF Onward, Then
<1>2. v.f.cur \in Nat
  BY SomeClusters DEF FileRecords
<1>3. Looked(v, u, v.f.cur)
  BY <1>2, GetLooks
<1> HIDE DEF u
<1>4. AtStart(v.f)
  BY DEF AtStart
<1>5. Moved(v, u) /\ u.f = v.f /\ VolumeOK(u)
  BY <1>3, <1>4, KeptIsMoved DEF Looked, Kept
<1>6. CASE ~u.ok
  BY <1>1, <1>5, <1>6
<1>7. CASE u.ok
  <2>1. u.next \in FatValues
    BY <1>3, <1>7 DEF Looked
  <2>2. Moved(u, w) /\ w.f.pos = u.f.pos
    BY <1>5, <2>1, ClusterIsSet
  <2> HIDE DEF w
  <2>3. Moved(v, w)
    BY <1>5, <2>2, MovedTwice
  <2>4. QED
    BY <1>1, <1>5, <1>7, <2>2, <2>3
<1>8. QED
  BY <1>6, <1>7

FollowOnce(par, w, k) == FollowPass(w)
Followed(v, w, k) == v.f.first # 0 /\ Moved(v, w) /\ w.f.pos = v.f.pos
Following == INSTANCE Loops WITH Pass <- FollowOnce, Holds <- Followed

LEMMA FollowMoves ==
  ASSUME NEW v, VolumeOK(v), v.f \in FileRecords, v.f.first # 0, NEW steps \in Nat
  PROVE  Moved(v, Follow(v, steps)) /\ Follow(v, steps).f.pos = v.f.pos
<1>1. Followed(v, v, 0)
  BY NothingMoved DEF Followed, AtStart
<1>2. ASSUME NEW w, NEW k \in Nat, Followed(v, w, k) PROVE Followed(v, FollowOnce(v, w, k + 1), k + 1)
  <2>1. CASE ~w.ok
    BY <1>2, <2>1 DEF Followed, FollowOnce, FollowPass
  <2>2. CASE w.ok
    <3>1. FollowPass(w) = Onward(w)
      BY <2>2 DEF FollowPass, Onward
    <3>2. VolumeOK(w) /\ w.f \in FileRecords /\ w.f.first # 0
      BY <1>2 DEF Followed, Moved, SameView, SameFile
    <3>3. Moved(w, Onward(w)) /\ Onward(w).f.pos = w.f.pos
      BY <3>2, OnwardMoves
    <3>4. Moved(v, Onward(w))
      BY <1>2, <3>3, MovedTwice DEF Followed
    <3>5. QED
      BY <1>2, <3>1, <3>3, <3>4 DEF Followed, FollowOnce
  <2>3. QED
    BY <2>1, <2>2
<1>3. \A n \in Nat : Followed(v, Following!Passes(v, v)[n], n)
  BY <1>1, <1>2, Following!PassesKeep
<1>4. Follow(v, steps) = Following!Passes(v, v)[steps]
  BY DEF Follow, Following!Passes, FollowOnce
<1>5. QED
  BY <1>3, <1>4 DEF Followed

(* Seeking moves in the file, and when it succeeds to the position.         *)
Sought(v, w, pos) ==
  /\ Moved(v, w)
  /\ w.ok => w.f.pos = pos /\ pos <= v.f.size /\ (pos = 0 => w.f.cur = 0)

LEMMA SeekMoves ==
  ASSUME NEW fs, IsFiles(fs), NEW n \in Names, NEW v, During(v, fs, n), v.f.open, NEW pos \in Nat
  PROVE  Sought(v, seekSet(v, pos), pos)
<1> DEFINE nCur == (v.f.pos - 1) \div Units
           nNew == (pos - 1) \div Units
           back == [v EXCEPT !.f.cur = v.f.first]
           moved == IF nNew < nCur \/ v.f.pos = 0 THEN Follow(back, nNew) ELSE Follow(v, nNew - nCur)
           start == [v EXCEPT !.f.cur = 0, !.f.pos = 0]
           end == [moved EXCEPT !.f.pos = pos]
<1>1. seekSet(v, pos) = IF ~v.f.open \/ pos > v.f.size THEN Fail(v)
                        ELSE IF pos = 0 THEN start ELSE IF moved.ok THEN end ELSE moved
  <2> HIDE DEF moved
  <2>1. moved = FollowTo(v, pos)
    BY DEF moved, FollowTo
  <2>2. QED
    BY <2>1 DEF seekSet, Then
<1>2. VolumeOK(v) /\ v.f \in FileRecords /\ AtStart(v.f) /\ FileOK(v.f, Meta(Seen(v)).dir, n)
  BY FileDuring
<1>3. CASE pos > v.f.size
  <2>1. Moved(v, Fail(v)) /\ ~Fail(v).ok
    BY <1>2, FailMoves
  <2>2. QED
    BY <1>1, <1>3, <2>1 DEF Sought
<1>4. CASE pos = 0 /\ ~(pos > v.f.size)
  <2>1. Moved(v, start) /\ start.f.pos = 0 /\ start.f.cur = 0
    BY <1>2, PlaceIsReset
  <2>2. v.f.size \in Nat
    BY <1>2 DEF FileRecords
  <2> HIDE DEF start
  <2>3. QED
    BY <1>1, <1>4, <2>1, <2>2 DEF Sought
<1>5. CASE pos # 0 /\ ~(pos > v.f.size)
  <2>1. v.f.size \in Nat /\ v.f.pos \in Nat /\ v.f.size # 0 /\ v.f.first \in FatValues /\ v.f.first # 0
    BY <1>2, <1>5, MarksAreNoClusters DEF FileRecords, FileOK
  <2>2. pos - 1 \in Nat /\ (v.f.pos # 0 => v.f.pos - 1 \in Nat)
    BY <1>5, <2>1
  <2>3. Units \in Nat \ {0}
    BY SdAssumption
  <2>4. nNew \in Nat /\ (v.f.pos # 0 => nCur \in Nat)
    BY <2>2, <2>3, Divided
  <2> HIDE DEF nNew, nCur
  <2>5. Moved(v, moved)
    <3>1. CASE nNew < nCur \/ v.f.pos = 0
      <4>1. Moved(v, back)
        BY <1>2, <2>1, ClusterIsSet
      <4> HIDE DEF back
      <4>2. VolumeOK(back) /\ back.f \in FileRecords /\ back.f.first # 0
        BY <2>1, <4>1 DEF Moved, SameView, SameFile
      <4>3. Moved(back, Follow(back, nNew))
        BY <2>4, <4>2, FollowMoves
      <4>4. Moved(v, Follow(back, nNew))
        BY <4>1, <4>3, MovedTwice
      <4>5. QED
        BY <3>1, <4>4
    <3>2. CASE ~(nNew < nCur \/ v.f.pos = 0)
      <4>1. nNew - nCur \in Nat
        BY <2>4, <3>2
      <4>2. Moved(v, Follow(v, nNew - nCur))
        BY <1>2, <2>1, <4>1, FollowMoves
      <4>3. QED
        BY <3>2, <4>2
    <3>3. QED
      BY <3>1, <3>2
  <2> HIDE DEF moved
  <2>6. VolumeOK(moved) /\ moved.f \in FileRecords /\ AtStart(moved.f) /\ moved.f.first # 0
    BY <2>1, <2>5 DEF Moved, SameView, SameFile
  <2>7. Moved(moved, end) /\ end.f.pos = pos
    BY <2>6, PositionIsSet
  <2> HIDE DEF end
  <2>8. Moved(v, end)
    BY <2>5, <2>7, MovedTwice
  <2>9. ~(pos > v.f.size) <=> pos <= v.f.size
    BY <2>1
  <2>10. seekSet(v, pos) = IF moved.ok THEN end ELSE moved
    BY <1>1, <1>5
  <2>11. QED
    BY <1>5, <2>5, <2>7, <2>8, <2>9, <2>10 DEF Sought
<1>6. QED
  BY <1>3, <1>4, <1>5

LEMMA ReadClusterMoves ==
  ASSUME NEW v, VolumeOK(v), v.f \in FileRecords, v.f.first # 0
  PROVE  Moved(v, ReadCluster(v))
<1>1. AtStart(v.f) /\ v.f.first \in FatValues
  BY MarksAreNoClusters DEF AtStart, FileRecords
<1>2. CASE v.f.pos % Units # 0
  BY <1>1, <1>2, NothingMoved DEF ReadCluster
<1>3. CASE v.f.pos % Units = 0 /\ v.f.pos = 0
  <2>1. Moved(v, [v EXCEPT !.f.cur = v.f.first])
    BY <1>1, ClusterIsSet
  <2>2. ReadCluster(v) = [v EXCEPT !.f.cur = v.f.first]
    BY <1>3 DEF ReadCluster
  <2>3. QED
    BY <2>1, <2>2
<1>4. CASE v.f.pos % Units = 0 /\ v.f.pos # 0
  <2>1. ReadCluster(v) = Onward(v)
    BY <1>4 DEF ReadCluster, Onward
  <2>2. QED
    BY <2>1, OnwardMoves
<1>5. QED
  BY <1>2, <1>3, <1>4

(* The block of the position is read, past the cache if all of it is.       *)
Fetched(v, n) ==
  IF n = Units /\ DataBlock(v.f.cur) # v.block THEN readBlock(v, DataBlock(v.f.cur))
  ELSE Then(cacheRawBlock(v, DataBlock(v.f.cur), FALSE), LAMBDA x : [x EXCEPT !.got = x.buf])

LEMMA FetchKeeps ==
  ASSUME NEW v, VolumeOK(v), NEW n
  PROVE  Kept(v, Fetched(v, n))
<1> DEFINE b == DataBlock(v.f.cur)
<1>1. Shape(v)
  BY DEF VolumeOK
<1>2. CASE n = Units /\ b # v.block
  <2> DEFINE w == readBlock(v, b)
  <2>1. ReadFrom(v, w, b)
    BY <1>1, ReadReads
  <2>2. Fetched(v, n) = w
    BY <1>2 DEF Fetched
  <2> HIDE DEF w
  <2>3. VolumeOK(w) /\ Seen(w) = Seen(v)
    BY <2>1, OtherFields DEF ReadFrom, SameCache
  <2>4. QED
    BY <2>1, <2>2, <2>3 DEF Kept, ReadFrom
<1>3. CASE ~(n = Units /\ b # v.block)
  <2> DEFINE u == cacheRawBlock(v, b, FALSE)
             w == [u EXCEPT !.got = u.buf]
  <2>1. Fetched(v, n) = IF u.ok THEN w ELSE u
    BY <1>3 DEF Fetched, Then
  <2>2. Cached(v, u, b, FALSE)
    BY CacheKeeps
  <2>3. Kept(v, u) /\ VolumeOK(u) /\ Shape(u)
    BY <2>2 DEF Cached, Kept, VolumeOK
  <2> HIDE DEF u
  <2>4. /\ Shape(w) /\ Same(u, w) /\ w.disk = u.disk /\ w.block = u.block
        /\ w.buf = u.buf /\ w.dirty = u.dirty /\ w.mirror = u.mirror
    BY <2>3 DEF Shape, Same
  <2> HIDE DEF w
  <2>5. VolumeOK(w) /\ Seen(w) = Seen(u)
    BY <2>3, <2>4, OtherFields
  <2>6. Kept(u, w)
    BY <2>4, <2>5 DEF Kept
  <2>7. Kept(v, w)
    BY <2>3, <2>6, KeptTwice
  <2>8. QED
    BY <2>1, <2>3, <2>7
<1>4. QED
  BY <1>2, <1>3

(* The data is taken and the position goes on.                              *)
LEMMA TakingMoves ==
  ASSUME NEW v, VolumeOK(v), v.f \in FileRecords, v.f.first # 0, NEW n \in Nat, NEW out
  PROVE  Moved(v, [v EXCEPT !.out = out, !.f.pos = @ + n])
<1> DEFINE u == [v EXCEPT !.out = out]
           w == [u EXCEPT !.f.pos = v.f.pos + n]
<1>1. Shape(v)
  BY DEF VolumeOK
<1>2. /\ Shape(u) /\ u.f = v.f /\ u.search = v.search /\ u.disk = v.disk /\ u.block = v.block
      /\ u.buf = v.buf /\ u.dirty = v.dirty /\ u.mirror = v.mirror
  BY <1>1 DEF Shape
<1>3. [v EXCEPT !.out = out, !.f.pos = @ + n] = w
  BY <1>2
<1> HIDE DEF u
<1>4. VolumeOK(u) /\ Seen(u) = Seen(v) /\ AtStart(v.f) /\ v.f.pos + n \in Nat
  BY <1>2, OtherFields DEF AtStart, FileRecords
<1>5. Moved(v, u)
  BY <1>2, <1>4 DEF Moved, SameView, SameFile
<1>6. Moved(u, w)
  BY <1>2, <1>4, PositionIsSet
<1> HIDE DEF w
<1>7. QED
  BY <1>3, <1>5, <1>6, MovedTwice

ReadOnce(par, w, k) == ReadPass(par.start, par.count, w)
ReadSoFar(par, w, k) == par.v.f.first # 0 /\ Moved(par.v, w)
Reading == INSTANCE Loops WITH Pass <- ReadOnce, Holds <- ReadSoFar

LEMMA ReadPassMoves ==
  ASSUME NEW v, VolumeOK(v), v.f \in FileRecords, v.f.first # 0, NEW start \in Nat, NEW count \in Nat
  PROVE  Moved(v, ReadPass(start, count, v))
<1> DEFINE offset == v.f.pos % Units
           left == start + count - v.f.pos
           n == IF left > Units - offset THEN Units - offset ELSE left
           u == ReadCluster(v)
           x == IF u.ok THEN Fetched(u, n) ELSE u
           out == x.out \o SubSeq(x.got, offset + 1, offset + n)
           w == [x EXCEPT !.out = out, !.f.pos = @ + n]
<1>1. ReadPass(start, count, v) = IF ~v.ok \/ left <= 0 THEN v ELSE IF x.ok THEN w ELSE x
  BY DEF ReadPass, Then, Fetched
<1>2. AtStart(v.f)
  BY DEF AtStart
<1>3. CASE ~v.ok \/ left <= 0
  BY <1>1, <1>2, <1>3, NothingMoved
<1>4. CASE ~(~v.ok \/ left <= 0)
  <2>1. v.f.pos \in Nat /\ Units \in Nat \ {0}
    BY SdAssumption DEF FileRecords
  <2>2. offset \in 0..(Units - 1)
    BY <2>1, Divided
  <2>3. left \in Int /\ ~(left <= 0)
    BY <1>4, <2>1
  <2> HIDE DEF offset, left
  <2>4. n \in Nat
    BY <2>1, <2>2, <2>3
  <2> HIDE DEF n
  <2>5. Moved(v, u)
    BY ReadClusterMoves
  <2> HIDE DEF u
  <2>6. Moved(v, x)
    <3>1. CASE ~u.ok
      BY <2>5, <3>1
    <3>2. CASE u.ok
      <4>1. VolumeOK(u) /\ u.f \in FileRecords /\ AtStart(u.f)
        BY <2>5 DEF Moved, SameView
      <4>2. Kept(u, Fetched(u, n))
        BY <4>1, FetchKeeps
      <4>3. Moved(u, Fetched(u, n))
        BY <4>1, <4>2, KeptIsMoved
      <4>4. Moved(v, Fetched(u, n))
        BY <2>5, <4>3, MovedTwice
      <4>5. QED
        BY <3>2, <4>4
    <3>3. QED
      BY <3>1, <3>2
  <2> HIDE DEF x
  <2>7. VolumeOK(x) /\ x.f \in FileRecords /\ x.f.first # 0
    BY <2>6 DEF Moved, SameView, SameFile
  <2> HIDE DEF out
  <2>8. Moved(x, w)
    BY <2>4, <2>7, TakingMoves
  <2> HIDE DEF w
  <2>9. Moved(v, w)
    BY <2>6, <2>8, MovedTwice
  <2>10. QED
    BY <1>1, <2>6, <2>9, <1>2, NothingMoved
<1>5. QED
  BY <1>3, <1>4

LEMMA ReadBlocksMove ==
  ASSUME NEW v, VolumeOK(v), v.f \in FileRecords, v.f.first # 0, NEW count \in Nat
  PROVE  Moved(v, ReadBlocks(v, count))
<1> DEFINE par == [v |-> v, start |-> v.f.pos, count |-> count]
<1>0. par.v = v /\ par.start = v.f.pos /\ par.count = count /\ v.f.pos \in Nat
  BY DEF FileRecords
<1> HIDE DEF par
<1>1. Moved(v, v)
  BY NothingMoved DEF AtStart
<1>2. ReadSoFar(par, v, 0)
  BY <1>0, <1>1 DEF ReadSoFar
<1>3. ASSUME NEW w, NEW k \in Nat, ReadSoFar(par, w, k) PROVE ReadSoFar(par, ReadOnce(par, w, k + 1), k + 1)
  <2>1. VolumeOK(w) /\ w.f \in FileRecords /\ w.f.first # 0 /\ Moved(v, w)
    BY <1>0, <1>3 DEF ReadSoFar, Moved, SameView, SameFile
  <2>2. Moved(w, ReadPass(par.start, par.count, w))
    BY <1>0, <2>1, ReadPassMoves
  <2>3. Moved(v, ReadPass(par.start, par.count, w))
    BY <2>1, <2>2, MovedTwice
  <2>4. QED
    BY <1>0, <2>3 DEF ReadSoFar, ReadOnce
<1>4. \A n \in Nat : ReadSoFar(par, Reading!Passes(par, v)[n], n)
  BY <1>2, <1>3, Reading!PassesKeep
<1>5. Reading!Passes(par, v)[count] =
        LET at[k \in Nat] == IF k = 0 THEN v ELSE ReadPass(v.f.pos, count, at[k - 1]) IN at[count]
  BY <1>0 DEF Reading!Passes, ReadOnce
<1>6. CASE count <= 0
  BY <1>1, <1>6 DEF ReadBlocks
<1>7. CASE ~(count <= 0)
  <2>1. ReadBlocks(v, count) = Reading!Passes(par, v)[count]
    BY <1>5, <1>7 DEF ReadBlocks
  <2>2. QED
    BY <1>0, <1>4, <2>1 DEF ReadSoFar
<1>8. QED
  BY <1>6, <1>7

LEMMA ReadMoves ==
  ASSUME NEW fs, IsFiles(fs), NEW n \in Names, NEW v, During(v, fs, n), v.f.open, NEW count \in Nat
  PROVE  Moved(v, read(v, count))
<1> DEFINE want == IF count > v.f.size - v.f.pos THEN v.f.size - v.f.pos ELSE count
<1>1. VolumeOK(v) /\ v.f \in FileRecords /\ AtStart(v.f) /\ FileOK(v.f, Meta(Seen(v)).dir, n)
  BY FileDuring
<1>2. read(v, count) = ReadBlocks(v, want)
  BY DEF read
<1>3. v.f.size \in Nat /\ v.f.pos \in Nat
  BY <1>1 DEF FileRecords
<1>4. CASE want <= 0
  BY <1>1, <1>2, <1>4, NothingMoved DEF ReadBlocks
<1>5. CASE ~(want <= 0)
  <2>1. want \in Nat /\ v.f.size # 0
    BY <1>3, <1>5
  <2>2. v.f.first # 0
    BY <1>1, <2>1 DEF FileOK
  <2> HIDE DEF want
  <2>3. QED
    BY <1>1, <1>2, <2>1, <2>2, ReadBlocksMove
<1>6. QED
  BY <1>4, <1>5
-------------------------------------------------------------------------------
(* Allocating a cluster *)

(* The view and the file are the same.                                      *)
Viewed(v, w) == SameView(v, w) /\ w.f = v.f

LEMMA ViewedTwice ==
  ASSUME NEW u, NEW v, NEW w, Viewed(u, v), Viewed(v, w)
  PROVE  Viewed(u, w)
BY DEF Viewed, SameView

LEMMA KeptIsViewed ==
  ASSUME NEW v, NEW w, Kept(v, w)
  PROVE  Viewed(v, w)
BY DEF Kept, Same, Viewed, SameView

LEMMA FailIsViewed ==
  ASSUME NEW v, VolumeOK(v)
  PROVE  Viewed(v, Fail(v)) /\ ~Fail(v).ok
<1> DEFINE w == Fail(v)
<1>1. Shape(v)
  BY DEF VolumeOK
<1>2. /\ Shape(w) /\ w.f = v.f /\ w.search = v.search /\ w.ok = FALSE /\ w.disk = v.disk /\ w.block = v.block
      /\ w.buf = v.buf /\ w.dirty = v.dirty /\ w.mirror = v.mirror
  BY <1>1 DEF Shape, Fail
<1> HIDE DEF w
<1>3. VolumeOK(w) /\ Seen(w) = Seen(v)
  BY <1>2, OtherFields
<1>4. QED
  BY <1>2, <1>3 DEF Viewed, SameView, w

LEMMA FreeIsSet ==
  ASSUME NEW v, VolumeOK(v), NEW c
  PROVE  LET w == [v EXCEPT !.free = c] IN Viewed(v, w) /\ w.ok = v.ok /\ w.free = c
<1> DEFINE w == [v EXCEPT !.free = c]
<1>1. Shape(v)
  BY DEF VolumeOK
<1>2. /\ Shape(w) /\ w.f = v.f /\ w.search = v.search /\ w.ok = v.ok /\ w.disk = v.disk /\ w.block = v.block
      /\ w.buf = v.buf /\ w.dirty = v.dirty /\ w.mirror = v.mirror /\ w.free = c
  BY <1>1 DEF Shape
<1> HIDE DEF w
<1>3. VolumeOK(w) /\ Seen(w) = Seen(v)
  BY <1>2, OtherFields
<1>4. QED
  BY <1>2, <1>3 DEF Viewed, SameView, w

LEMMA TriedIsCluster ==
  ASSUME NEW start \in Nat, NEW k \in Nat
  PROVE  Tried(start, k) \in Clusters
<1> DEFINE x == (IF start > LastCluster THEN 0 ELSE start - 2) + k - 1
<1>1. ClusterCount \in Nat \ {0} /\ Clusters = 2..(ClusterCount + 1) /\ LastCluster \in Nat
  BY SomeClusters
<1>2. x \in Int
  BY <1>1
<1> HIDE DEF x
<1>3. x % ClusterCount \in 0..(ClusterCount - 1)
  BY <1>1, <1>2
<1>4. Tried(start, k) = 2 + (x % ClusterCount)
  BY DEF Tried, x
<1>5. QED
  BY <1>1, <1>3, <1>4

(* A free cluster if one has been found.                                    *)
FreeIn(v, c) == c \in Clusters /\ Meta(Seen(v)).fat[c] = 0

TryOnce(par, w, k) == TryPass(par.start, w, k)
TriedSoFar(par, w, k) == Viewed(par.v, w) /\ (w.free = 0 \/ FreeIn(par.v, w.free))
Trying == INSTANCE Loops WITH Pass <- TryOnce, Holds <- TriedSoFar

LEMMA TryLooks ==
  ASSUME NEW v, NEW start \in Nat, NEW w, Viewed(v, w), w.free = 0 \/ FreeIn(v, w.free), NEW k \in Nat
  PROVE  LET x == TryPass(start, w, k) IN Viewed(v, x) /\ (x.free = 0 \/ FreeIn(v, x.free))
<1> DEFINE c == Tried(start, k)
           u == fatGet(w, c)
           x == [u EXCEPT !.free = c]
<1>1. TryPass(start, w, k) = IF ~w.ok \/ w.free # 0 THEN w
                             ELSE IF u.ok /\ u.next = 0 THEN x ELSE u
  BY DEF TryPass, Then
<1>2. CASE ~w.ok \/ w.free # 0
  BY <1>1, <1>2
<1>3. CASE ~(~w.ok \/ w.free # 0)
  <2>0. c \in Clusters
    BY TriedIsCluster
  <2> HIDE DEF c
  <2>1. c \in Clusters /\ c \in Nat /\ VolumeOK(w)
    BY <2>0, SomeClusters DEF Viewed, SameView
  <2>2. Looked(w, u, c)
    BY <2>1, GetLooks
  <2> HIDE DEF u
  <2>3. Viewed(w, u) /\ VolumeOK(u) /\ u.free = w.free
    BY <2>2, KeptIsViewed DEF Looked, Kept, Same
  <2>4. Viewed(v, u)
    BY <2>3, ViewedTwice
  <2>5. CASE ~(u.ok /\ u.next = 0)
    BY <1>1, <1>3, <2>3, <2>4, <2>5
  <2>6. CASE u.ok /\ u.next = 0
    <3>1. Viewed(u, x) /\ x.free = c
      BY <2>3, FreeIsSet
    <3> HIDE DEF x
    <3>2. Viewed(v, x)
      BY <2>4, <3>1, ViewedTwice
    <3>3. Meta(Seen(w)).fat[c] = 0
      BY <2>2, <2>6 DEF Looked
    <3>4. Meta(Seen(w)) = Meta(Seen(v))
      BY DEF Viewed, SameView
    <3>5. FreeIn(v, x.free)
      BY <2>1, <3>1, <3>3, <3>4 DEF FreeIn
    <3>6. QED
      BY <1>1, <1>3, <2>6, <3>2, <3>5
  <2>7. QED
    BY <2>5, <2>6
<1>4. QED
  BY <1>2, <1>3

LEMMA FindFinds ==
  ASSUME NEW v, VolumeOK(v), NEW start \in Nat
  PROVE  LET w == FindFree(v, start) IN Viewed(v, w) /\ (w.ok => FreeIn(v, w.free))
<1> DEFINE par == [v |-> v, start |-> start]
           first == [v EXCEPT !.free = 0]
           last == Trying!Passes(par, first)[ClusterCount]
<1>0. par.v = v /\ par.start = start
  OBVIOUS
<1> HIDE DEF par
<1>1. Viewed(v, first) /\ first.free = 0
  BY FreeIsSet
<1> HIDE DEF first
<1>2. TriedSoFar(par, first, 0)
  BY <1>0, <1>1 DEF TriedSoFar
<1>3. ASSUME NEW w, NEW k \in Nat, TriedSoFar(par, w, k) PROVE TriedSoFar(par, TryOnce(par, w, k + 1), k + 1)
  <2>1. Viewed(v, w) /\ (w.free = 0 \/ FreeIn(v, w.free)) /\ k + 1 \in Nat
    BY <1>0, <1>3 DEF TriedSoFar
  <2>2. LET x == TryPass(start, w, k + 1) IN Viewed(v, x) /\ (x.free = 0 \/ FreeIn(v, x.free))
    BY <2>1, TryLooks
  <2>3. QED
    BY <1>0, <2>2 DEF TriedSoFar, TryOnce
<1>4. \A n \in Nat : TriedSoFar(par, Trying!Passes(par, first)[n], n)
  BY <1>2, <1>3, Trying!PassesKeep
<1>5. Viewed(v, last) /\ (last.free = 0 \/ FreeIn(v, last.free))
  BY <1>0, <1>4, SomeClusters DEF TriedSoFar
<1>6. FindFree(v, start) = IF last.ok THEN (IF last.free = 0 THEN Fail(last) ELSE last) ELSE last
  BY <1>0 DEF FindFree, Then, Trying!Passes, TryOnce, first
<1> HIDE DEF last
<1>7. Viewed(last, Fail(last)) /\ ~Fail(last).ok
  BY <1>5, FailIsViewed DEF Viewed, SameView
<1>8. Viewed(v, Fail(last))
  BY <1>5, <1>7, ViewedTwice
<1>9. QED
  BY <1>5, <1>6, <1>7, <1>8

(* The heads of the files while n is the file f.                            *)
FirstsNow(v, fs, n, f) == Firsts(Meta(Seen(v)).dir, With(fs, n, f))

LEMMA WithIs ==
  ASSUME NEW fs, IsFiles(fs), NEW n \in Names, NEW f
  PROVE  /\ With(fs, n, f)[n] = f /\ \A m \in Names : m # n => With(fs, n, f)[m] = fs[m]
         /\ IsFiles(With(fs, n, f)) /\ \A g : With(With(fs, n, f), n, g) = With(fs, n, g)
BY DEF IsFiles, With

(* The FAT is changed and goes on to hold the chains of the files.          *)
LEMMA FatIsReplaced ==
  ASSUME NEW v, NEW fs, NEW w, Safe(v, fs), VolumeOK(w), w.search \in Nat,
         Meta(Seen(w)).dir = Meta(Seen(v)).dir,
         Chains(Meta(Seen(w)).fat, Heads(Firsts(Meta(Seen(v)).dir, fs))),
         Meta(w.disk) = Meta(v.disk) \/ Meta(w.disk) = Meta(Seen(v))
  PROVE  Safe(w, fs)
<1>1. Agree(Meta(Seen(w)), fs)
  BY DEF Safe, Agree, Sound
<1>2. QED
  BY <1>1, NewViewIsSafe

LEMMA ViewedIsSafe ==
  ASSUME NEW v, NEW fs, NEW w, Safe(v, fs), Viewed(v, w)
  PROVE  Safe(w, fs) /\ w.f = v.f /\ Meta(Seen(w)) = Meta(Seen(v))
<1>1. w.search \in Nat
  BY DEF Safe, Viewed, SameView
<1>2. QED
  BY <1>1, SafeStays DEF Viewed, SameView

LEMMA SafeIsTyped ==
  ASSUME NEW v, NEW fs, Safe(v, fs)
  PROVE  /\ VolumeOK(v) /\ Shape(v) /\ v.search \in Nat
         /\ Meta(Seen(v)).fat \in Fats /\ Meta(Seen(v)).dir \in Dirs /\ DirOK(Meta(Seen(v)).dir)
         /\ Chains(Meta(Seen(v)).fat, Heads(Firsts(Meta(Seen(v)).dir, fs)))
BY SeenIsOK, MetaIsTyped DEF Safe, VolumeOK, Agree, Sound

(* A cluster that is new: it ends a chain, and nothing leads to it.         *)
New(fat, c, firsts) ==
  /\ c \in Clusters /\ fat[c] = EOC
  /\ \A d \in Clusters : fat[d] # c
  /\ \A m \in Names : firsts[m] # c

(* The first of the two changes of the FAT.                                 *)
LEMMA FreeIsTaken ==
  ASSUME NEW v, NEW fs, Safe(v, fs), NEW c, FreeIn(v, c)
  PROVE  LET w == fatPut(v, c, EOC)
             firsts == Firsts(Meta(Seen(v)).dir, fs)
         IN /\ Safe(w, fs) /\ w.f = v.f /\ Meta(Seen(w)).dir = Meta(Seen(v)).dir
            /\ w.ok => /\ New(Meta(Seen(w)).fat, c, firsts)
                       /\ \A d \in Clusters : Meta(Seen(v)).fat[d] # 0 => Meta(Seen(w)).fat[d] = Meta(Seen(v)).fat[d]
<1> DEFINE w == fatPut(v, c, EOC)
           firsts == Firsts(Meta(Seen(v)).dir, fs)
           fat == Meta(Seen(v)).fat
           new == Changed(fat, c, EOC)
<1>1. VolumeOK(v) /\ fat \in Fats /\ Chains(fat, Heads(firsts)) /\ v.search \in Nat
  BY SafeIsTyped
<1>2. Put(v, w, c, EOC)
  BY <1>1, MarksAreNoClusters, PutWrites
<1> HIDE DEF w
<1>3. w.f = v.f /\ VolumeOK(w) /\ w.search \in Nat
      /\ (Meta(w.disk) = Meta(v.disk) \/ Meta(w.disk) = Meta(Seen(v)))
  BY <1>1, <1>2 DEF Put, Same
<1>4. CASE ~w.ok
  <2>1. Meta(Seen(w)) = Meta(Seen(v))
    BY <1>2, <1>4 DEF Put
  <2>2. Safe(w, fs)
    BY <1>3, <2>1, SafeStays
  <2>3. QED
    BY <1>3, <1>4, <2>1, <2>2 DEF w
<1>5. CASE w.ok
  <2>1. Meta(Seen(w)).fat = new /\ Meta(Seen(w)).dir = Meta(Seen(v)).dir /\ c \in Clusters /\ fat[c] = 0
    BY <1>2, <1>5 DEF Put, FreeIn
  <2> HIDE DEF fat
  <2>2. Chains(new, Heads(firsts)) /\ new \in Fats /\ new[c] = EOC
        /\ c \notin Heads(firsts) /\ \A d \in Clusters : new[d] # c
    BY <1>1, <2>1, FreeIsMarked
  <2>3. \A d \in Clusters : d # c => new[d] = fat[d]
    BY <1>1, <2>1, ChangedEntry, MarksAreNoClusters
  <2> HIDE DEF new, firsts
  <2>4. \A m \in Names : firsts[m] # c
    BY <2>1, <2>2, MarksAreNoClusters DEF Heads
  <2>5. Safe(w, fs)
    BY <1>3, <2>1, <2>2, FatIsReplaced DEF firsts
  <2>6. New(Meta(Seen(w)).fat, c, firsts)
    BY <2>1, <2>2, <2>4 DEF New
  <2>7. \A d \in Clusters : fat[d] # 0 => Meta(Seen(w)).fat[d] = fat[d]
    BY <2>1, <2>3
  <2>8. QED
    BY <1>3, <2>1, <2>5, <2>6, <2>7 DEF w, fat, firsts
<1>6. QED
  BY <1>4, <1>5

(* The second one, unless the file has no cluster yet.                      *)
LEMMA NewIsLinked ==
  ASSUME NEW v, NEW fs, Safe(v, fs), NEW c, New(Meta(Seen(v)).fat, c, Firsts(Meta(Seen(v)).dir, fs)),
         NEW end \in Clusters, Meta(Seen(v)).fat[end] = EOC, end # c
  PROVE  LET w == fatPut(v, end, c) IN
         /\ Safe(w, fs) /\ w.f = v.f
         /\ w.ok => Meta(Seen(w)).fat[c] = EOC
<1> DEFINE w == fatPut(v, end, c)
           firsts == Firsts(Meta(Seen(v)).dir, fs)
           fat == Meta(Seen(v)).fat
           new == Changed(fat, end, c)
<1>1. VolumeOK(v) /\ fat \in Fats /\ Chains(fat, Heads(firsts)) /\ v.search \in Nat
  BY SafeIsTyped
<1>2. c \in Clusters /\ c \in FatValues
  BY MarksAreNoClusters DEF New
<1>3. Put(v, w, end, c)
  BY <1>1, <1>2, PutWrites
<1> HIDE DEF w
<1>4. w.f = v.f /\ VolumeOK(w) /\ w.search \in Nat
      /\ (Meta(w.disk) = Meta(v.disk) \/ Meta(w.disk) = Meta(Seen(v)))
  BY <1>1, <1>3 DEF Put, Same
<1>5. CASE ~w.ok
  <2>1. Meta(Seen(w)) = Meta(Seen(v))
    BY <1>3, <1>5 DEF Put
  <2>2. Safe(w, fs)
    BY <1>4, <2>1, SafeStays
  <2>3. QED
    BY <1>4, <1>5, <2>2 DEF w
<1>6. CASE w.ok
  <2>1. Meta(Seen(w)).fat = new /\ Meta(Seen(w)).dir = Meta(Seen(v)).dir
    BY <1>3, <1>6 DEF Put
  <2>2. fat[c] = EOC /\ (\A d \in Clusters : fat[d] # c) /\ fat[end] = EOC /\ \A m \in Names : firsts[m] # c
    BY DEF New
  <2> HIDE DEF fat, firsts
  <2>3. c \notin Heads(firsts)
    BY <2>2 DEF Heads
  <2>4. Chains(new, Heads(firsts)) /\ new \in Fats
    BY <1>1, <1>2, <2>2, <2>3, EndIsLinked
  <2>5. new[c] = EOC
    BY <1>1, <1>2, <2>2, ChangedEntry
  <2> HIDE DEF new
  <2>6. Safe(w, fs)
    BY <1>4, <2>1, <2>4, FatIsReplaced DEF firsts
  <2>7. QED
    BY <1>4, <2>1, <2>5, <2>6 DEF w
<1>7. QED
  BY <1>5, <1>6

(* A cluster is allocated: it is linked to the last one of the file, or new *)
(* if the file has none.                                                    *)
Allocated(v, w, fs) ==
  /\ Safe(w, fs)
  /\ ~w.ok => w.f = v.f
  /\ w.ok => /\ w.f = [v.f EXCEPT !.cur = w.f.cur] /\ w.f.cur \in Clusters
             /\ Meta(Seen(w)).fat[w.f.cur] = EOC
             /\ v.f.cur = 0 => New(Meta(Seen(w)).fat, w.f.cur, Firsts(Meta(Seen(w)).dir, fs))

(* The file may get a cluster.                                              *)
AtEnd(v) == v.f.cur = 0 \/ (v.f.cur \in Clusters /\ Meta(Seen(v)).fat[v.f.cur] = EOC)

Placed(v, c, s) == [v EXCEPT !.f.cur = c, !.search = s]

LEMMA PlaceAndSearch ==
  ASSUME NEW v, VolumeOK(v), NEW c, NEW s
  PROVE  LET w == Placed(v, c, s) IN
         /\ VolumeOK(w) /\ Seen(w) = Seen(v) /\ w.disk = v.disk
         /\ w.f = [v.f EXCEPT !.cur = c] /\ w.search = s /\ w.ok = v.ok
<1> DEFINE w == Placed(v, c, s)
<1>1. Shape(v)
  BY DEF VolumeOK
<1>2. PICK g : g = [v.f EXCEPT !.cur = c]
  OBVIOUS
<1>3. w = [v EXCEPT !.f = g, !.search = s]
  BY <1>2 DEF Placed
<1>4. /\ Shape(w) /\ w.f = g /\ w.search = s /\ w.ok = v.ok /\ w.disk = v.disk /\ w.block = v.block
      /\ w.buf = v.buf /\ w.dirty = v.dirty /\ w.mirror = v.mirror
  BY <1>1, <1>3 DEF Shape
<1> HIDE DEF w
<1>5. VolumeOK(w) /\ Seen(w) = Seen(v)
  BY <1>4, OtherFields
<1>6. QED
  BY <1>2, <1>4, <1>5 DEF w

LEMMA AllocGives ==
  ASSUME NEW v, NEW fs, Safe(v, fs), v.f \in FileRecords, AtEnd(v)
  PROVE  Allocated(v, allocContiguous(v), fs)
<1> DEFINE cur == v.f.cur
           start == IF cur # 0 THEN cur + 1 ELSE v.search
           found == FindFree(v, start)
           c == found.free
           put1 == fatPut(found, c, EOC)
           put2 == IF put1.ok THEN (IF cur # 0 THEN fatPut(put1, cur, c) ELSE put1) ELSE put1
           s == IF cur = 0 THEN c + 1 ELSE put2.search
           w == Placed(put2, c, s)
<1>1. allocContiguous(v) = IF found.ok THEN (IF put2.ok THEN w ELSE put2) ELSE found
  BY DEF allocContiguous, Then, Placed
<1>2. VolumeOK(v) /\ v.search \in Nat /\ cur \in Nat
  BY SafeIsTyped, SomeClusters DEF FileRecords
<1>3. start \in Nat
  BY <1>2
<1> HIDE DEF start
<1>4. Viewed(v, found) /\ (found.ok => FreeIn(v, c))
  BY <1>2, <1>3, FindFinds
<1> HIDE DEF found
<1>5. Safe(found, fs) /\ found.f = v.f /\ Meta(Seen(found)) = Meta(Seen(v))
  BY <1>4, ViewedIsSafe
<1>6. CASE ~found.ok
  BY <1>1, <1>5, <1>6 DEF Allocated
<1>7. CASE found.ok
  <2>1. FreeIn(found, c) /\ c \in Clusters /\ c \in Nat /\ Meta(Seen(v)).fat[c] = 0
    BY <1>4, <1>5, <1>7, SomeClusters DEF FreeIn
  <2> HIDE DEF c
  <2>2. /\ Safe(put1, fs) /\ put1.f = found.f /\ Meta(Seen(put1)).dir = Meta(Seen(found)).dir
        /\ put1.ok => /\ New(Meta(Seen(put1)).fat, c, Firsts(Meta(Seen(found)).dir, fs))
                      /\ \A d \in Clusters : Meta(Seen(found)).fat[d] # 0
                                             => Meta(Seen(put1)).fat[d] = Meta(Seen(found)).fat[d]
    BY <1>5, <2>1, FreeIsTaken
  <2> HIDE DEF put1
  <2>3. /\ Safe(put2, fs) /\ put2.f = v.f
        /\ put2.ok => /\ Meta(Seen(put2)).fat[c] = EOC
                      /\ cur = 0 => New(Meta(Seen(put2)).fat, c, Firsts(Meta(Seen(put2)).dir, fs))
    <3>1. CASE ~put1.ok
      BY <1>5, <2>2, <3>1
    <3>2. CASE put1.ok /\ cur = 0
      <4>1. put2 = put1
        BY <3>2
      <4>2. New(Meta(Seen(put1)).fat, c, Firsts(Meta(Seen(put1)).dir, fs))
        BY <2>2, <3>2
      <4>3. Meta(Seen(put1)).fat[c] = EOC
        BY <4>2 DEF New
      <4>4. QED
        BY <1>5, <2>2, <4>1, <4>2, <4>3
    <3>3. CASE put1.ok /\ cur # 0
      <4>1. put2 = fatPut(put1, cur, c)
        BY <3>3
      <4>2. cur \in Clusters /\ Meta(Seen(v)).fat[cur] = EOC
        BY <3>3 DEF AtEnd
      <4>3. cur # c /\ Meta(Seen(put1)).fat[cur] = EOC
        BY <1>5, <2>1, <2>2, <3>3, <4>2, MarksAreNoClusters
      <4>4. New(Meta(Seen(put1)).fat, c, Firsts(Meta(Seen(put1)).dir, fs))
        BY <2>2, <3>3
      <4> HIDE DEF put2
      <4>5. /\ Safe(put2, fs) /\ put2.f = put1.f /\ (put2.ok => Meta(Seen(put2)).fat[c] = EOC)
        BY <2>2, <4>1, <4>2, <4>3, <4>4, NewIsLinked
      <4>6. QED
        BY <1>5, <2>2, <3>3, <4>5
    <3>4. QED
      BY <3>1, <3>2, <3>3
  <2> HIDE DEF put2
  <2>4. CASE ~put2.ok
    BY <1>1, <1>7, <2>3, <2>4 DEF Allocated
  <2>5. CASE put2.ok
    <3>1. VolumeOK(put2) /\ put2.search \in Nat
      BY <2>3, SafeIsTyped
    <3>2. s \in Nat
      BY <2>1, <3>1
    <3> HIDE DEF s
    <3>3. /\ VolumeOK(w) /\ Seen(w) = Seen(put2) /\ w.disk = put2.disk
          /\ w.f = [put2.f EXCEPT !.cur = c] /\ w.search = s /\ w.ok = put2.ok
      BY <3>1, PlaceAndSearch
    <3> HIDE DEF w
    <3>4. Safe(w, fs)
      BY <2>3, <3>2, <3>3, SafeStays
    <3>5. w.f.cur = c
      BY <2>3, <3>3 DEF FileRecords
    <3>6. QED
      BY <1>1, <1>7, <2>1, <2>3, <2>5, <3>3, <3>4, <3>5 DEF Allocated
  <2>6. QED
    BY <2>4, <2>5
<1>8. QED
  BY <1>6, <1>7

(* The new cluster becomes the first one of the file.                       *)
LEMMA NewIsFirst ==
  ASSUME NEW fs, IsFiles(fs), NEW n \in Names, NEW meta, NEW f, NEW g, NEW c,
         Agree(meta, With(fs, n, f)), f.open, f.first = 0,
         New(meta.fat, c, Firsts(meta.dir, With(fs, n, f))),
         g \in FileRecords, g.open, g.slot = f.slot, g.first = c, g.dirDirty
  PROVE  Agree(meta, With(fs, n, g))
<1> DEFINE F == With(fs, n, f)
           G == With(fs, n, g)
           firsts == Firsts(meta.dir, F)
           more == Firsts(meta.dir, G)
<1>1. F[n] = f /\ G[n] = g /\ \A m \in Names : m # n => F[m] = G[m]
  BY WithIs
<1>2. c \in Clusters /\ meta.fat[c] = EOC /\ (\A d \in Clusters : meta.fat[d] # c) /\ \A m \in Names : firsts[m] # c
  BY DEF New
<1>3. Sound(meta, firsts) /\ \A m \in Names : FileOK(F[m], meta.dir, m)
  BY DEF Agree
<1> HIDE DEF F, G
<1>4. /\ firsts[n] = 0 /\ more[n] = c
      /\ \A m \in Names : m # n => more[m] = firsts[m]
  BY <1>1 DEF Firsts
<1> HIDE DEF firsts, more
<1>5. Heads(more) = Heads(firsts) \cup {c}
  BY <1>2, <1>4, MarksAreNoClusters DEF Heads
<1>6. Chains(meta.fat, Heads(more))
  BY <1>2, <1>3, <1>5, HeadIsAdded, MarksAreNoClusters DEF Sound
<1>7. \A k, m \in Names : more[k] = more[m] /\ more[k] # 0 => k = m
  BY <1>2, <1>3, <1>4 DEF Sound
<1>8. Sound(meta, more)
  BY <1>3, <1>6, <1>7 DEF Sound
<1>9. FileOK(f, meta.dir, n)
  BY <1>1, <1>3
<1>10. FileOK(g, meta.dir, n)
  BY <1>2, <1>9, MarksAreNoClusters DEF FileOK
<1>11. \A m \in Names : FileOK(G[m], meta.dir, m)
  BY <1>1, <1>3, <1>10
<1>12. QED
  BY <1>8, <1>11 DEF Agree, more, G

(* The file gets a cluster.                                                 *)
Added(v, w, fs, n) ==
  /\ During(w, fs, n) /\ w.f.open = v.f.open /\ w.f.pos = v.f.pos
  /\ w.ok => w.f.first # 0

LEMMA AnotherFile ==
  ASSUME NEW v, NEW fs, NEW gs, Safe(v, fs), Agree(Meta(Seen(v)), gs)
  PROVE  Safe(v, gs)
BY DEF Safe

LEMMA FirstIsSet ==
  ASSUME NEW v, VolumeOK(v), v.f \in FileRecords, v.f.cur \in Clusters
  PROVE  LET w == [v EXCEPT !.f.first = v.f.cur, !.f.dirDirty = TRUE] IN
         /\ VolumeOK(w) /\ Seen(w) = Seen(v) /\ w.disk = v.disk /\ w.search = v.search
         /\ w.f \in FileRecords /\ w.f.open = v.f.open /\ w.f.slot = v.f.slot /\ w.f.first = v.f.cur
         /\ w.f.dirDirty /\ w.f.pos = v.f.pos
<1> DEFINE w == [v EXCEPT !.f.first = v.f.cur, !.f.dirDirty = TRUE]
<1>1. Shape(v)
  BY DEF VolumeOK
<1>2. PICK f : f = v.f
  OBVIOUS
<1>3. PICK g : g = [f EXCEPT !.first = f.cur, !.dirDirty = TRUE]
  OBVIOUS
<1>4. w = [v EXCEPT !.f = g]
  BY <1>1, <1>2, <1>3 DEF Shape
<1>5. /\ Shape(w) /\ w.f = g /\ w.search = v.search /\ w.disk = v.disk /\ w.block = v.block
      /\ w.buf = v.buf /\ w.dirty = v.dirty /\ w.mirror = v.mirror
  BY <1>1, <1>4 DEF Shape
<1> HIDE DEF w
<1>6. VolumeOK(w) /\ Seen(w) = Seen(v)
  BY <1>5, OtherFields
<1>7. /\ g \in FileRecords /\ g.open = f.open /\ g.slot = f.slot /\ g.first = f.cur /\ g.dirDirty
      /\ g.pos = f.pos
  BY <1>2, <1>3 DEF FileRecords
<1>8. QED
  BY <1>2, <1>5, <1>6, <1>7 DEF w

LEMMA AddGives ==
  ASSUME NEW fs, IsFiles(fs), NEW n \in Names, NEW v, During(v, fs, n), v.f.open,
         AtEnd(v), v.f.cur = 0 => v.f.first = 0
  PROVE  Added(v, addCluster(v), fs, n)
<1> DEFINE F == With(fs, n, v.f)
           u == allocContiguous(v)
           w == [u EXCEPT !.f.first = u.f.cur, !.f.dirDirty = TRUE]
<1>1. addCluster(v) = IF u.ok /\ u.f.first = 0 THEN w ELSE u
  BY DEF addCluster, Then
<1>2. Safe(v, F) /\ v.f \in FileRecords /\ FileOK(v.f, Meta(Seen(v)).dir, n)
  BY FileDuring DEF During
<1>3. Allocated(v, u, F)
  BY <1>2, AllocGives
<1> HIDE DEF u
<1>4. CASE ~u.ok
  BY <1>1, <1>3, <1>4 DEF Allocated, Added, During
<1>5. CASE u.ok
  <2>1. /\ u.f = [v.f EXCEPT !.cur = u.f.cur] /\ u.f.cur \in Clusters /\ Safe(u, F)
        /\ v.f.cur = 0 => New(Meta(Seen(u)).fat, u.f.cur, Firsts(Meta(Seen(u)).dir, F))
    BY <1>3, <1>5 DEF Allocated
  <2>2. /\ u.f \in FileRecords /\ u.f.open = v.f.open /\ u.f.slot = v.f.slot /\ u.f.first = v.f.first
        /\ u.f.pos = v.f.pos /\ u.f.size = v.f.size /\ u.f.dirDirty = v.f.dirDirty
    BY <1>2, <2>1, MarksAreNoClusters DEF FileRecords
  <2>3. Agree(Meta(Seen(u)), F) /\ VolumeOK(u) /\ u.search \in Nat
    BY <2>1 DEF Safe
  <2>4. FileOK(v.f, Meta(Seen(u)).dir, n)
    BY <2>3, WithIs DEF Agree
  <2>5. CASE u.f.first # 0
    <3>1. FileOK(u.f, Meta(Seen(u)).dir, n)
      BY <2>2, <2>4, <2>5 DEF FileOK
    <3>2. Agree(Meta(Seen(u)), With(fs, n, u.f))
      BY <2>2, <2>3, <3>1, SameFirsts
    <3>3. Safe(u, With(fs, n, u.f))
      BY <2>1, <3>2, AnotherFile
    <3>4. QED
      BY <1>1, <2>2, <2>5, <3>3 DEF Added, During
  <2>6. CASE u.f.first = 0
    <3>1. v.f.cur = 0
      BY <1>2, <2>2, <2>6 DEF FileOK
    <3>2. /\ VolumeOK(w) /\ Seen(w) = Seen(u) /\ w.disk = u.disk /\ w.search = u.search
          /\ w.f \in FileRecords /\ w.f.open = u.f.open /\ w.f.slot = u.f.slot /\ w.f.first = u.f.cur
          /\ w.f.dirDirty /\ w.f.pos = u.f.pos
      BY <2>1, <2>2, <2>3, FirstIsSet
    <3> HIDE DEF w
    <3>3. Agree(Meta(Seen(u)), With(fs, n, w.f))
      BY <2>1, <2>2, <2>3, <2>6, <3>1, <3>2, NewIsFirst
    <3>4. Safe(w, With(fs, n, w.f))
      BY <2>1, <2>3, <3>2, <3>3, NewViewIsSafe
    <3>5. w.f.first # 0
      BY <2>1, <3>2, MarksAreNoClusters
    <3>6. QED
      BY <1>1, <1>5, <2>2, <2>6, <3>2, <3>4, <3>5 DEF Added, During
  <2>7. QED
    BY <2>5, <2>6
<1>6. QED
  BY <1>4, <1>5

-------------------------------------------------------------------------------
(* Writing *)

LEMMA MetaAlike ==
  ASSUME NEW d, NEW e, \A b \in Blocks : b[1] \in {"fat", "dir"} => d[b] = e[b]
  PROVE  Meta(d) = Meta(e)
<1>1. \A c \in 0..LastCluster : d[FatBlock(c)] = e[FatBlock(c)]
  BY FatIsOnCard
<1>2. d[DirBlock] = e[DirBlock]
  BY DirIsOnCard
<1>3. QED
  BY <1>1, <1>2 DEF Meta, FatIn

(* A block of data in the cache is nothing to the FAT and the directory.    *)
LEMMA DataInCache ==
  ASSUME NEW v, VolumeOK(v), NEW w, Shape(w), w.disk = v.disk, w.search = v.search, w.f = v.f,
         w.mirror = v.mirror, w.dirty, w.block[1] = "data", ~v.dirty \/ v.block = w.block
  PROVE  Viewed(v, w)
<1>1. \A b \in Blocks : b[1] \in {"fat", "dir"} => Seen(w)[b] = Seen(v)[b]
  BY DEF Seen, VolumeOK, DiskOK
<1>2. Meta(Seen(w)) = Meta(Seen(v))
  BY <1>1, MetaAlike
<1>3. CacheOK(w)
  BY DEF CacheOK, VolumeOK, BlockOK, DirBlock
<1>4. QED
  BY <1>2, <1>3 DEF Viewed, SameView, VolumeOK

(* A copy of a block of data in the cache is given up.                      *)
Given(v, b) == [v EXCEPT !.block = IF @ = b THEN NoBlock ELSE @]

LEMMA CopyIsGiven ==
  ASSUME NEW v, VolumeOK(v), NEW b, b[1] = "data"
  PROVE  Viewed(v, Given(v, b)) /\ Given(v, b).ok = v.ok /\ Given(v, b).block # b
<1> DEFINE w == Given(v, b)
<1>1. Shape(v)
  BY DEF VolumeOK
<1>2. /\ Shape(w) /\ w.block = (IF v.block = b THEN NoBlock ELSE v.block)
      /\ w.f = v.f /\ w.search = v.search /\ w.disk = v.disk
      /\ w.buf = v.buf /\ w.dirty = v.dirty /\ w.mirror = v.mirror /\ w.ok = v.ok
  BY <1>1 DEF Shape, Given
<1> HIDE DEF w
<1>3. NoBlock # b /\ NoBlock \notin Blocks
  BY NoBlockIsNone DEF NoBlock
<1>4. CacheOK(w)
  BY <1>2, <1>3 DEF CacheOK, VolumeOK
<1>5. \A a \in Blocks : a[1] \in {"fat", "dir"} => Seen(w)[a] = Seen(v)[a]
  BY <1>2, <1>3 DEF Seen, VolumeOK, DiskOK
<1>6. Meta(Seen(w)) = Meta(Seen(v))
  BY <1>5, MetaAlike
<1>7. QED
  BY <1>2, <1>3, <1>4, <1>6 DEF Viewed, SameView, VolumeOK, w

LEMMA DataIsWritten ==
  ASSUME NEW v, VolumeOK(v), NEW b, b[1] = "data", v.block # b, NEW data
  PROVE  Viewed(v, writeBlock(v, b, data))
<1> DEFINE w == writeBlock(v, b, data)
<1>1. WroteTo(v, w, b, data)
  BY WriteWrites DEF VolumeOK
<1> HIDE DEF w
<1>2. /\ Shape(w) /\ SameCache(v, w) /\ w.f = v.f /\ w.search = v.search
      /\ w.disk = v.disk \/ (b \in DOMAIN v.disk /\ w.disk = [v.disk EXCEPT ![b] = data])
  BY <1>1 DEF WroteTo, Same
<1>3. DiskOK(v.disk) /\ DOMAIN v.disk = Blocks
  BY DEF VolumeOK, DiskOK
<1>4. CASE w.disk = v.disk
  <2>1. VolumeOK(w) /\ Seen(w) = Seen(v)
    BY <1>2, <1>4, OtherFields DEF SameCache
  <2>2. QED
    BY <1>2, <1>4, <2>1 DEF Viewed, SameView, w
<1>5. CASE b \in Blocks /\ w.disk = [v.disk EXCEPT ![b] = data]
  <2>1. BlockOK(b, data)
    BY DEF BlockOK, DirBlock
  <2>2. DiskOK(w.disk) /\ (\A a \in Blocks : a # b => w.disk[a] = v.disk[a]) /\ Meta(w.disk) = Meta(v.disk)
    BY <1>3, <1>5, <2>1, WrittenDisk
  <2>3. CacheOK(w)
    BY <1>2, <2>2 DEF CacheOK, VolumeOK, SameCache
  <2>4. \A a \in Blocks : a[1] \in {"fat", "dir"} => Seen(w)[a] = Seen(v)[a]
    BY <1>2, <2>2 DEF Seen, VolumeOK, DiskOK, SameCache
  <2>5. Meta(Seen(w)) = Meta(Seen(v))
    BY <2>4, MetaAlike
  <2>6. QED
    BY <1>2, <2>2, <2>3, <2>5 DEF Viewed, SameView, VolumeOK, w
<1>6. QED
  BY <1>2, <1>3, <1>4, <1>5

LEMMA WriteFullViews ==
  ASSUME NEW v, VolumeOK(v), NEW data
  PROVE  Viewed(v, WriteFull(v, data))
<1> DEFINE b == DataBlock(v.f.cur)
           u == Given(v, b)
<1>1. b[1] = "data"
  BY DEF DataBlock
<1>2. WriteFull(v, data) = writeBlock(u, b, data)
  BY DEF WriteFull, Given
<1> HIDE DEF b
<1>3. Viewed(v, u) /\ u.block # b
  BY <1>1, CopyIsGiven
<1> HIDE DEF u
<1>4. VolumeOK(u)
  BY <1>3 DEF Viewed, SameView
<1>5. Viewed(u, writeBlock(u, b, data))
  BY <1>1, <1>3, <1>4, DataIsWritten
<1>6. QED
  BY <1>2, <1>3, <1>5, ViewedTwice

LEMMA WritePartViews ==
  ASSUME NEW v, VolumeOK(v), NEW offset, NEW data
  PROVE  Viewed(v, WritePart(v, offset, data))
<1> DEFINE b == DataBlock(v.f.cur)
           junk == [u \in 1..Units |-> Junk]
           flushed == cacheFlush(v)
           begun == [flushed EXCEPT !.block = b, !.dirty = TRUE, !.buf = junk]
           new == offset = 0 /\ v.f.pos >= v.f.size
           x == IF new THEN (IF flushed.ok THEN begun ELSE flushed) ELSE cacheRawBlock(v, b, TRUE)
           part == [u \in 1..Units |-> IF u \in offset+1..offset+Len(data) THEN data[u - offset] ELSE x.buf[u]]
           w == [x EXCEPT !.buf = part]
<1>1. WritePart(v, offset, data) = IF x.ok THEN w ELSE x
  BY DEF WritePart, Then
<1> HIDE DEF part, junk
<1>2. b[1] = "data"
  BY DEF DataBlock
<1> HIDE DEF b, new
<1>3. Viewed(v, x) /\ (x.ok => x.dirty /\ x.block = b)
  <2>1. CASE ~new
    <3>1. Cached(v, cacheRawBlock(v, b, TRUE), b, TRUE)
      BY CacheKeeps
    <3>2. QED
      BY <2>1, <3>1, KeptIsViewed DEF Cached
  <2>2. CASE new
    <3>1. Kept(v, flushed) /\ (flushed.ok => ~flushed.dirty)
      BY FlushKeeps
    <3> HIDE DEF flushed
    <3>2. CASE ~flushed.ok
      BY <2>2, <3>1, <3>2, KeptIsViewed
    <3>3. CASE flushed.ok
      <4>1. Shape(flushed) /\ VolumeOK(flushed) /\ ~flushed.dirty
        BY <3>1, <3>3 DEF Kept, VolumeOK
      <4>2. /\ Shape(begun) /\ begun.disk = flushed.disk /\ begun.search = flushed.search /\ begun.f = flushed.f
            /\ begun.mirror = flushed.mirror /\ begun.dirty /\ begun.block = b
        BY <4>1 DEF Shape
      <4> HIDE DEF begun
      <4>3. Viewed(flushed, begun)
        BY <1>2, <4>1, <4>2, DataInCache
      <4>4. Viewed(v, begun)
        BY <3>1, <4>3, KeptIsViewed, ViewedTwice
      <4>5. QED
        BY <2>2, <3>3, <4>2, <4>4
    <3>4. QED
      BY <3>2, <3>3
  <2>3. QED
    BY <2>1, <2>2
<1> HIDE DEF x
<1>4. CASE ~x.ok
  BY <1>1, <1>3, <1>4
<1>5. CASE x.ok
  <2>1. VolumeOK(x) /\ Shape(x) /\ x.dirty /\ x.block = b
    BY <1>3, <1>5 DEF Viewed, SameView, VolumeOK
  <2>2. /\ Shape(w) /\ w.disk = x.disk /\ w.search = x.search /\ w.f = x.f
        /\ w.mirror = x.mirror /\ w.dirty /\ w.block = b
    BY <2>1 DEF Shape
  <2> HIDE DEF w
  <2>3. Viewed(x, w)
    BY <1>2, <2>1, <2>2, DataInCache
  <2>4. QED
    BY <1>1, <1>3, <1>5, <2>3, ViewedTwice
<1>6. QED
  BY <1>4, <1>5

LEMMA ViewedDuring ==
  ASSUME NEW fs, NEW n, NEW v, NEW w, During(v, fs, n), Viewed(v, w)
  PROVE  During(w, fs, n) /\ w.f = v.f
<1>1. Safe(v, With(fs, n, v.f))
  BY DEF During
<1>2. Safe(w, With(fs, n, v.f)) /\ w.f = v.f
  BY <1>1, ViewedIsSafe
<1>3. QED
  BY <1>2 DEF During

(* The cluster of the position is there, or the call has failed.            *)
LEMMA WriteClusterGives ==
  ASSUME NEW fs, IsFiles(fs), NEW n \in Names, NEW v, During(v, fs, n), v.f.open
  PROVE  Added(v, WriteCluster(v), fs, n)
<1>1. /\ VolumeOK(v) /\ v.f \in FileRecords /\ AtStart(v.f) /\ FileOK(v.f, Meta(Seen(v)).dir, n)
      /\ v.f.pos \in Nat /\ v.f.first \in FatValues
  BY FileDuring, MarksAreNoClusters DEF FileRecords
<1>2. CASE v.f.pos % Units # 0
  <2>1. 0 % Units = 0
    BY SdAssumption
  <2>2. v.f.first # 0
    BY <1>1, <1>2, <2>1 DEF AtStart
  <2>3. QED
    BY <1>2, <2>2 DEF WriteCluster, Added
<1>3. CASE v.f.pos % Units = 0 /\ v.f.cur = 0 /\ v.f.first = 0
  <2>1. WriteCluster(v) = addCluster(v)
    BY <1>3 DEF WriteCluster
  <2>2. QED
    BY <1>3, <2>1, AddGives DEF AtEnd
<1>4. CASE v.f.pos % Units = 0 /\ v.f.cur = 0 /\ v.f.first # 0
  <2> DEFINE w == [v EXCEPT !.f.cur = v.f.first]
  <2>1. WriteCluster(v) = w
    BY <1>4 DEF WriteCluster
  <2>2. Moved(v, w) /\ w.f.pos = v.f.pos
    BY <1>1, <1>4, ClusterIsSet
  <2> HIDE DEF w
  <2>3. During(w, fs, n)
    BY <2>2, MovedIsSafe
  <2>4. QED
    BY <1>4, <2>1, <2>2, <2>3 DEF Added, Moved, SameFile
<1>5. CASE v.f.pos % Units = 0 /\ v.f.cur # 0
  <2> DEFINE u == fatGet(v, v.f.cur)
             w == [u EXCEPT !.f.cur = u.next]
  <2>1. WriteCluster(v) = IF u.ok THEN (IF u.next >= EOC THEN addCluster(u) ELSE w) ELSE u
    BY <1>5 DEF WriteCluster, Then
  <2>2. v.f.cur \in Nat /\ v.f.first # 0
    BY <1>1, <1>5, SomeClusters DEF FileRecords, AtStart
  <2>3. Looked(v, u, v.f.cur)
    BY <1>1, <2>2, GetLooks
  <2> HIDE DEF u
  <2>4. Viewed(v, u) /\ VolumeOK(u) /\ Meta(Seen(u)) = Meta(Seen(v))
    BY <2>3, KeptIsViewed DEF Looked, Kept
  <2>5. During(u, fs, n) /\ u.f = v.f
    BY <2>4, ViewedDuring
  <2>6. CASE ~u.ok
    BY <2>1, <2>5, <2>6 DEF Added
  <2>7. CASE u.ok /\ u.next >= EOC
    <3>1. u.next = EOC /\ v.f.cur \in Clusters
      BY <1>1, <1>5, <2>3, <2>7, SomeClusters DEF Looked, FatValues, FileRecords
    <3>2. AtEnd(u)
      BY <2>3, <2>4, <2>5, <2>7, <3>1 DEF AtEnd, Looked
    <3>3. Added(u, addCluster(u), fs, n)
      BY <1>5, <2>5, <3>2, AddGives
    <3>4. QED
      BY <2>1, <2>5, <2>7, <3>3 DEF Added
  <2>8. CASE u.ok /\ ~(u.next >= EOC)
    <3>1. u.next \in FatValues
      BY <2>3, <2>8 DEF Looked
    <3>2. Moved(u, w) /\ w.f.pos = u.f.pos
      BY <1>1, <2>2, <2>4, <2>5, <3>1, ClusterIsSet
    <3> HIDE DEF w
    <3>3. During(w, fs, n)
      BY <2>5, <3>2, MovedIsSafe
    <3>4. QED
      BY <2>1, <2>2, <2>5, <2>8, <3>2, <3>3 DEF Added, Moved, SameFile
  <2>9. QED
    BY <2>6, <2>7, <2>8
<1>6. QED
  BY <1>2, <1>3, <1>4, <1>5

(* A pass of the loop of write.                                             *)
Writing(w, fs, n, start, end) ==
  During(w, fs, n) /\ w.f.open /\ start <= w.f.pos /\ w.f.pos <= end

LEMMA WritePassKeeps ==
  ASSUME NEW fs, IsFiles(fs), NEW n \in Names, NEW start \in Nat, NEW data, Len(data) \in Nat, NEW v,
         Writing(v, fs, n, start, start + Len(data))
  PROVE  Writing(WritePass(start, data, v), fs, n, start, start + Len(data))
<1> DEFINE offset == v.f.pos % Units
           done == v.f.pos - start
           count == IF Len(data) - done > Units - offset THEN Units - offset ELSE Len(data) - done
           part == SubSeq(data, done + 1, done + count)
           u == WriteCluster(v)
           put == IF count = Units THEN WriteFull(u, part) ELSE WritePart(u, offset, part)
           x == IF u.ok THEN put ELSE u
           w == [x EXCEPT !.f.pos = x.f.pos + count]
<1>1. WritePass(start, data, v) = IF ~v.ok \/ done = Len(data) THEN v ELSE IF x.ok THEN w ELSE x
  BY DEF WritePass, Then
<1>2. During(v, fs, n) /\ v.f.open /\ v.f.pos \in Nat /\ start <= v.f.pos /\ v.f.pos <= start + Len(data)
  BY FileDuring DEF Writing, FileRecords
<1>3. Units \in Nat \ {0} /\ offset \in 0..(Units - 1)
  <2>1. Units \in Nat \ {0}
    BY SdAssumption
  <2>2. QED
    BY <1>2, <2>1, Divided
<1>4. CASE ~v.ok \/ done = Len(data)
  BY <1>1, <1>4
<1>5. CASE ~(~v.ok \/ done = Len(data))
  <2> HIDE DEF offset
  <2>1. count \in Nat /\ v.f.pos + count \in Nat /\ start <= v.f.pos + count /\ v.f.pos + count <= start + Len(data)
    BY <1>2, <1>3
  <2> HIDE DEF count, done, part
  <2>2. Added(v, u, fs, n)
    BY <1>2, WriteClusterGives
  <2> HIDE DEF u
  <2>3. During(u, fs, n) /\ u.f.open /\ u.f.pos = v.f.pos
    BY <1>2, <2>2 DEF Added
  <2>4. CASE ~u.ok
    BY <1>1, <1>2, <1>5, <2>3, <2>4 DEF Writing
  <2>5. CASE u.ok
    <3>1. u.f.first # 0
      BY <2>2, <2>5 DEF Added
    <3>2. VolumeOK(u)
      BY <2>3, FileDuring
    <3>3. Viewed(u, put)
      BY <3>2, WriteFullViews, WritePartViews
    <3>4. x = put
      BY <2>5
    <3> HIDE DEF put, x
    <3>5. During(x, fs, n) /\ x.f = u.f
      BY <2>3, <3>3, <3>4, ViewedDuring
    <3>6. VolumeOK(x) /\ x.f \in FileRecords /\ AtStart(x.f) /\ x.f.first # 0 /\ x.f.open /\ x.f.pos = v.f.pos
      BY <2>3, <3>1, <3>5, FileDuring
    <3>7. x.f.pos + count \in Nat
      BY <2>1, <3>6
    <3>8. Moved(x, w) /\ w.f.pos = x.f.pos + count
      BY <3>6, <3>7, PositionIsSet
    <3> HIDE DEF w
    <3>9. During(w, fs, n) /\ w.f.open
      BY <3>5, <3>6, <3>8, MovedIsSafe DEF Moved, SameFile
    <3>10. Writing(w, fs, n, start, start + Len(data))
      BY <2>1, <3>6, <3>8, <3>9 DEF Writing
    <3>11. Writing(x, fs, n, start, start + Len(data))
      BY <1>2, <3>5, <3>6 DEF Writing
    <3>12. QED
      BY <1>1, <1>5, <3>10, <3>11
  <2>6. QED
    BY <2>4, <2>5
<1>6. QED
  BY <1>4, <1>5

WriteOnce(par, w, k) == WritePass(par.start, par.data, w)
WrittenSoFar(par, w, k) == Writing(w, par.fs, par.n, par.start, par.start + Len(par.data))
WritingLoop == INSTANCE Loops WITH Pass <- WriteOnce, Holds <- WrittenSoFar

LEMMA WriteBlocksKeep ==
  ASSUME NEW fs, IsFiles(fs), NEW n \in Names, NEW v, During(v, fs, n), v.f.open, NEW data, Len(data) \in Nat
  PROVE  During(WriteBlocks(v, data), fs, n) /\ WriteBlocks(v, data).f.open
<1> DEFINE start == v.f.pos
           par == [fs |-> fs, n |-> n, start |-> start, data |-> data]
<1>1. par.fs = fs /\ par.n = n /\ par.start = start /\ par.data = data /\ start \in Nat
  BY FileDuring DEF FileRecords
<1>2. v.f.pos = start
  OBVIOUS
<1> HIDE DEF par, start
<1>3. WrittenSoFar(par, v, 0)
  BY <1>1, <1>2 DEF WrittenSoFar, Writing
<1>4. ASSUME NEW w, NEW k \in Nat, WrittenSoFar(par, w, k) PROVE WrittenSoFar(par, WriteOnce(par, w, k + 1), k + 1)
  <2>1. Writing(w, fs, n, start, start + Len(data))
    BY <1>1, <1>4 DEF WrittenSoFar
  <2>2. Writing(WritePass(start, data, w), fs, n, start, start + Len(data))
    BY <1>1, <2>1, WritePassKeeps
  <2>3. QED
    BY <1>1, <2>2 DEF WrittenSoFar, WriteOnce
<1>5. \A m \in Nat : WrittenSoFar(par, WritingLoop!Passes(par, v)[m], m)
  BY <1>3, <1>4, WritingLoop!PassesKeep
<1>6. WriteBlocks(v, data) = WritingLoop!Passes(par, v)[Len(data)]
  BY <1>1, <1>2 DEF WriteBlocks, WritingLoop!Passes, WriteOnce
<1>7. QED
  BY <1>1, <1>5, <1>6 DEF WrittenSoFar, Writing

Resized(v, size) == [v EXCEPT !.f.size = size, !.f.dirDirty = TRUE]

LEMMA SizeIsSet ==
  ASSUME NEW v, VolumeOK(v), v.f \in FileRecords, NEW size \in Nat
  PROVE  LET w == Resized(v, size) IN
         /\ VolumeOK(w) /\ Seen(w) = Seen(v) /\ w.disk = v.disk /\ w.search = v.search /\ w.ok = v.ok
         /\ w.f \in FileRecords /\ w.f.open = v.f.open /\ w.f.slot = v.f.slot /\ w.f.first = v.f.first
         /\ w.f.dirDirty /\ w.f.pos = v.f.pos /\ w.f.cur = v.f.cur /\ w.f.size = size
<1> DEFINE w == Resized(v, size)
<1>1. Shape(v)
  BY DEF VolumeOK
<1>2. PICK f : f = v.f
  OBVIOUS
<1>3. PICK g : g = [f EXCEPT !.size = size, !.dirDirty = TRUE]
  OBVIOUS
<1>4. w = [v EXCEPT !.f = g]
  BY <1>1, <1>2, <1>3 DEF Shape, Resized
<1>5. /\ Shape(w) /\ w.f = g /\ w.search = v.search /\ w.disk = v.disk /\ w.block = v.block
      /\ w.buf = v.buf /\ w.dirty = v.dirty /\ w.mirror = v.mirror /\ w.ok = v.ok
  BY <1>1, <1>4 DEF Shape
<1> HIDE DEF w
<1>6. VolumeOK(w) /\ Seen(w) = Seen(v)
  BY <1>5, OtherFields
<1>7. /\ g \in FileRecords /\ g.open = f.open /\ g.slot = f.slot /\ g.first = f.first /\ g.dirDirty
      /\ g.pos = f.pos /\ g.cur = f.cur /\ g.size = size
  BY <1>2, <1>3 DEF FileRecords
<1>8. QED
  BY <1>2, <1>5, <1>6, <1>7 DEF w

LEMMA WriteKeeps ==
  ASSUME NEW fs, IsFiles(fs), NEW n \in Names, NEW v, During(v, fs, n), v.f.open, NEW data, Len(data) \in Nat
  PROVE  During(write(v, data), fs, n)
<1> DEFINE u == WriteBlocks(v, data)
           w == Resized(u, u.f.pos)
<1>1. write(v, data) = IF ~v.f.write THEN Fail(v) ELSE IF u.ok /\ u.f.pos > u.f.size THEN w ELSE u
  BY DEF write, Then, Resized
<1>2. During(u, fs, n) /\ u.f.open
  BY WriteBlocksKeep
<1> HIDE DEF u
<1>3. /\ VolumeOK(u) /\ u.f \in FileRecords /\ u.f.pos \in Nat /\ u.f.size \in Nat /\ Agree(Meta(Seen(u)), With(fs, n, u.f))
      /\ FileOK(u.f, Meta(Seen(u)).dir, n) /\ u.search \in Nat
  BY <1>2, FileDuring DEF FileRecords, During, Safe
<1>4. During(Fail(v), fs, n)
  <2>1. VolumeOK(v) /\ v.f \in FileRecords /\ AtStart(v.f)
    BY FileDuring
  <2>2. QED
    BY <2>1, FailMoves, MovedIsSafe
<1>5. CASE u.f.pos > u.f.size
  <2>1. /\ VolumeOK(w) /\ Seen(w) = Seen(u) /\ w.disk = u.disk /\ w.search = u.search
        /\ w.f \in FileRecords /\ w.f.open = u.f.open /\ w.f.slot = u.f.slot /\ w.f.first = u.f.first
        /\ w.f.dirDirty /\ w.f.pos = u.f.pos /\ w.f.cur = u.f.cur
    BY <1>3, SizeIsSet
  <2> HIDE DEF w
  <2>2. u.f.first # 0
    BY <1>2, <1>3, <1>5 DEF FileOK
  <2>3. FileOK(w.f, Meta(Seen(u)).dir, n)
    BY <1>2, <1>3, <2>1, <2>2 DEF FileOK
  <2>4. Agree(Meta(Seen(u)), With(fs, n, w.f))
    BY <1>3, <2>1, <2>3, SameFirsts
  <2>5. Safe(w, With(fs, n, w.f))
    BY <1>2, <1>3, <2>1, <2>4, NewViewIsSafe DEF During
  <2>6. QED
    BY <1>1, <1>2, <1>4, <2>5 DEF During
<1>6. CASE ~(u.f.pos > u.f.size)
  BY <1>1, <1>2, <1>4, <1>6
<1>7. QED
  BY <1>5, <1>6
-------------------------------------------------------------------------------
(* The directory *)

(* Safe, but for what the card holds.                                       *)
Fits(v, fs, n) == VolumeOK(v) /\ v.search \in Nat /\ Agree(Meta(Seen(v)), With(fs, n, v.f))
CardOK(v) == Sound(Meta(v.disk), FirstsIn(Meta(v.disk).dir))

LEMMA DuringIs ==
  ASSUME NEW v, NEW fs, NEW n
  PROVE  During(v, fs, n) <=> Fits(v, fs, n) /\ CardOK(v)
BY DEF During, Safe, Fits, CardOK

LEMMA FileFits ==
  ASSUME NEW fs, IsFiles(fs), NEW n \in Names, NEW v, Fits(v, fs, n)
  PROVE  /\ VolumeOK(v) /\ Shape(v) /\ v.search \in Nat
         /\ FileOK(v.f, Meta(Seen(v)).dir, n) /\ v.f \in FileRecords
         /\ Meta(Seen(v)).fat \in Fats /\ Meta(Seen(v)).dir \in Dirs /\ DirOK(Meta(Seen(v)).dir)
<1>1. FileOK(v.f, Meta(Seen(v)).dir, n)
  BY WithIs DEF Fits, Agree
<1>2. QED
  BY <1>1, SeenIsOK, MetaIsTyped DEF Fits, VolumeOK, FileOK, Agree, Sound

LEMMA CardStays ==
  ASSUME NEW v, NEW fs, NEW n, NEW w, Fits(v, fs, n), CardOK(v),
         Meta(w.disk) = Meta(v.disk) \/ Meta(w.disk) = Meta(Seen(v))
  PROVE  CardOK(w)
<1>1. Meta(Seen(v)).dir \in Dirs
  BY SeenIsOK, MetaIsTyped DEF Fits
<1>2. Sound(Meta(Seen(v)), FirstsIn(Meta(Seen(v)).dir))
  BY <1>1, SeenMayStay DEF Fits
<1>3. QED
  BY <1>2 DEF CardOK

LEMMA CardIsSeen ==
  ASSUME NEW v, NEW fs, NEW n, Fits(v, fs, n), Meta(v.disk) = Meta(Seen(v))
  PROVE  During(v, fs, n)
<1>1. Meta(Seen(v)).dir \in Dirs
  BY SeenIsOK, MetaIsTyped DEF Fits
<1>2. Sound(Meta(Seen(v)), FirstsIn(Meta(Seen(v)).dir))
  BY <1>1, SeenMayStay DEF Fits
<1>3. CardOK(v)
  BY <1>2 DEF CardOK
<1>4. QED
  BY <1>3, DuringIs

LEMMA KeptFits ==
  ASSUME NEW v, NEW fs, NEW n, NEW w, Fits(v, fs, n), Kept(v, w)
  PROVE  Fits(w, fs, n) /\ w.f = v.f
BY DEF Fits, Kept, Same

(* The block of the directory is changed in the cache.                      *)
LEMMA DirIsReplaced ==
  ASSUME NEW v, VolumeOK(v), v.block = DirBlock, NEW w, Shape(w), w.block = v.block, w.disk = v.disk,
         w.mirror = v.mirror, w.dirty, w.buf \in Dirs
  PROVE  VolumeOK(w) /\ Meta(Seen(w)).dir = w.buf /\ Meta(Seen(w)).fat = Meta(Seen(v)).fat
<1>1. DirBlock \in Blocks /\ DirBlock[1] = "dir"
  BY DirIsOnCard
<1>2. CacheOK(w)
  BY <1>1 DEF CacheOK, BlockOK, VolumeOK
<1>3. Seen(w) = [v.disk EXCEPT ![DirBlock] = w.buf] /\ DOMAIN v.disk = Blocks
  BY <1>1 DEF Seen, VolumeOK, DiskOK
<1>4. \A b \in Blocks : b # DirBlock => Seen(w)[b] = Seen(v)[b]
  BY <1>1, <1>3 DEF Seen
<1>5. \A c \in 0..LastCluster : Seen(w)[FatBlock(c)] = Seen(v)[FatBlock(c)]
  BY <1>1, <1>4, FatIsOnCard
<1>6. Seen(w)[DirBlock] = w.buf
  BY <1>1, <1>3
<1>7. QED
  BY <1>2, <1>5, <1>6 DEF VolumeOK, Meta, FatIn

(* A file keeps its first cluster if its entry does.                        *)
LEMMA FirstStays ==
  ASSUME NEW dir \in Dirs, DirOK(dir), NEW new \in Dirs, DirOK(new), NEW m \in Names,
         \A s \in 1..DirSlots : (new[s].name = m <=> dir[s].name = m)
                                /\ (dir[s].name = m => new[s].first = dir[s].first)
  PROVE  FirstIn(new, m) = FirstIn(dir, m)
<1>1. CASE \A s \in 1..DirSlots : dir[s].name # m
  <2>1. \A s \in 1..DirSlots : new[s].name # m
    BY <1>1
  <2>2. QED
    BY <1>1, <2>1, NoEntryOfName
<1>2. CASE \E s \in 1..DirSlots : dir[s].name = m
  <2>1. PICK s \in 1..DirSlots : dir[s].name = m
    BY <1>2
  <2>2. new[s].name = m /\ new[s].first = dir[s].first
    BY <2>1
  <2>3. QED
    BY <2>1, <2>2, EntryOfName
<1>3. QED
  BY <1>1, <1>2

(* As Agree, but the entry of file n, which is f, may still name the first  *)
(* cluster it had.                                                          *)
LooseFile(f, dir, n) ==
  /\ f \in FileRecords
  /\ f.open => /\ f.slot \in 1..DirSlots /\ dir[f.slot].name = n
               /\ f.first = 0 => f.cur = 0 /\ f.pos = 0 /\ f.size = 0
Loose(meta, fs, n, f) ==
  /\ Sound(meta, Firsts(meta.dir, With(fs, n, f)))
  /\ \A m \in Names : m # n => FileOK(fs[m], meta.dir, m)
  /\ LooseFile(f, meta.dir, n)

LEMMA AgreeIsLoose ==
  ASSUME NEW fs, IsFiles(fs), NEW n \in Names, NEW meta, NEW f, Agree(meta, With(fs, n, f))
  PROVE  Loose(meta, fs, n, f)
<1>1. With(fs, n, f)[n] = f /\ \A m \in Names : m # n => With(fs, n, f)[m] = fs[m]
  BY WithIs
<1>2. QED
  BY <1>1 DEF Agree, Loose, LooseFile, FileOK

(* The entry of the file is saved.                                          *)
LEMMA EntrySaved ==
  ASSUME NEW fs, IsFiles(fs), NEW n \in Names, NEW meta, NEW f, Loose(meta, fs, n, f), meta.dir \in Dirs,
         f.open, NEW g \in FileRecords, SameFile([f EXCEPT !.dirDirty = FALSE], g), g.cur = f.cur, g.pos = f.pos,
         NEW new, new.fat = meta.fat,
         new.dir = [meta.dir EXCEPT ![f.slot] = [meta.dir[f.slot] EXCEPT !.size = f.size, !.first = f.first]]
  PROVE  Agree(new, With(fs, n, g)) /\ new.dir \in Dirs
<1> DEFINE F == With(fs, n, f)
           G == With(fs, n, g)
           dir == meta.dir
           mine == f.slot
<1>1. F[n] = f /\ G[n] = g /\ \A m \in Names : m # n => F[m] = fs[m] /\ G[m] = fs[m]
  BY WithIs
<1>2. Sound(meta, Firsts(dir, F)) /\ \A m \in Names : m # n => FileOK(fs[m], dir, m)
  BY DEF Loose
<1> HIDE DEF F, G
<1>3. LooseFile(f, dir, n) /\ f \in FileRecords
  BY DEF Loose, LooseFile
<1>4. mine \in 1..DirSlots /\ dir[mine].name = n /\ (f.first = 0 => f.size = 0)
  BY <1>3 DEF LooseFile
<1>5. dir[mine] \in Entries /\ f.first \in {0} \cup Clusters /\ f.size \in Nat
  BY <1>3, <1>4 DEF Dirs, FileRecords
<1>6. PICK e : e = [dir[mine] EXCEPT !.size = f.size, !.first = f.first]
  OBVIOUS
<1>7. e \in Entries /\ e.name = n /\ e.first = f.first /\ e.size = f.size
  BY <1>4, <1>5, <1>6 DEF Entries
<1>8. new.dir = [dir EXCEPT ![mine] = e]
  BY <1>6
<1>9. new.dir \in Dirs /\ new.dir[mine] = e /\ \A t \in 1..DirSlots : t # mine => new.dir[t] = dir[t]
  BY <1>4, <1>7, <1>8 DEF Dirs
<1>10. /\ g.open = f.open /\ g.slot = f.slot /\ g.first = f.first /\ g.size = f.size
  BY <1>3 DEF SameFile, FileRecords
<1> HIDE DEF dir, mine
<1>11. DirOK(dir)
  BY <1>2 DEF Sound, dir
<1>12. \A t \in 1..DirSlots : new.dir[t].name = dir[t].name
  BY <1>4, <1>7, <1>9
<1>13. DirOK(new.dir)
  <2>1. \A p, q \in 1..DirSlots : new.dir[p].name = new.dir[q].name /\ new.dir[p].name \in Names => p = q
    BY <1>11, <1>12 DEF DirOK
  <2>2. \A p, q \in 1..DirSlots : p < q /\ new.dir[p].name = DIR_NAME_FREE => new.dir[q].name = DIR_NAME_FREE
    BY <1>11, <1>12 DEF DirOK
  <2>3. \A p \in 1..DirSlots : new.dir[p].name \in Names /\ new.dir[p].first = 0 => new.dir[p].size = 0
    BY <1>4, <1>7, <1>9, <1>11 DEF DirOK
  <2>4. QED
    BY <2>1, <2>2, <2>3 DEF DirOK
<1>14. ASSUME NEW m \in Names, m # n PROVE FirstIn(new.dir, m) = FirstIn(dir, m)
  <2>1. \A t \in 1..DirSlots : (new.dir[t].name = m <=> dir[t].name = m)
                                /\ (dir[t].name = m => new.dir[t].first = dir[t].first)
    BY <1>4, <1>9, <1>12, <1>14
  <2>2. dir \in Dirs
    BY DEF dir
  <2>3. QED
    BY <1>9, <1>11, <1>13, <2>1, <2>2, FirstStays
<1>15. ASSUME NEW m \in Names
       PROVE  (IF G[m].open THEN G[m].first ELSE FirstIn(new.dir, m))
              = (IF F[m].open THEN F[m].first ELSE FirstIn(dir, m))
  <2>1. CASE m = n
    BY <1>1, <1>10, <2>1
  <2>2. CASE m # n
    BY <1>1, <1>14, <2>2
  <2>3. QED
    BY <2>1, <2>2
<1>16. Firsts(new.dir, G) = Firsts(dir, F)
  BY <1>15 DEF Firsts
<1>17. Sound(new, Firsts(new.dir, G))
  BY <1>2, <1>13, <1>16 DEF Sound
<1>18. ASSUME NEW m \in Names PROVE FileOK(G[m], new.dir, m)
  <2>1. CASE m = n
    BY <1>1, <1>3, <1>4, <1>7, <1>9, <1>10, <2>1 DEF FileOK, LooseFile, mine
  <2>2. CASE m # n
    <3>1. G[m] = fs[m] /\ FileOK(fs[m], dir, m)
      BY <1>1, <1>2, <2>2
    <3>2. fs[m].open => fs[m].slot \in 1..DirSlots /\ fs[m].slot # mine
      BY <1>4, <2>2, <3>1 DEF FileOK
    <3>3. QED
      BY <1>9, <3>1, <3>2 DEF FileOK
  <2>3. QED
    BY <2>1, <2>2
<1>19. QED
  BY <1>9, <1>17, <1>18 DEF Agree, G

(* The entry of the file in the cache.                                      *)
Saved(v) == [v EXCEPT !.buf[v.f.slot] = Entry(v), !.f.dirDirty = FALSE]

LEMMA SavedIs ==
  ASSUME NEW v, VolumeOK(v), v.f \in FileRecords, v.buf \in Dirs, v.f.slot \in 1..DirSlots
  PROVE  LET w == Saved(v) IN
         /\ Shape(w) /\ w.block = v.block /\ w.disk = v.disk /\ w.mirror = v.mirror /\ w.dirty = v.dirty
         /\ w.search = v.search /\ w.ok = v.ok
         /\ w.buf = [v.buf EXCEPT ![v.f.slot] = [v.buf[v.f.slot] EXCEPT !.size = v.f.size, !.first = v.f.first]]
         /\ w.f \in FileRecords /\ SameFile([v.f EXCEPT !.dirDirty = FALSE], w.f)
         /\ w.f.cur = v.f.cur /\ w.f.pos = v.f.pos /\ ~w.f.dirDirty
         /\ w.f.open = v.f.open /\ w.f.first = v.f.first /\ w.f.slot = v.f.slot
<1> DEFINE w == Saved(v)
<1>1. Shape(v)
  BY DEF VolumeOK
<1>2. PICK g : g = [v.f EXCEPT !.dirDirty = FALSE]
  OBVIOUS
<1>3. PICK dir : dir = [v.buf EXCEPT ![v.f.slot] = Entry(v)]
  OBVIOUS
<1>4. w = [v EXCEPT !.buf = dir, !.f = g]
  BY <1>1, <1>2, <1>3 DEF Shape, Saved
<1>5. /\ Shape(w) /\ w.block = v.block /\ w.disk = v.disk /\ w.mirror = v.mirror /\ w.dirty = v.dirty
      /\ w.search = v.search /\ w.ok = v.ok /\ w.buf = dir /\ w.f = g
  BY <1>1, <1>4 DEF Shape
<1> HIDE DEF w
<1>6. g \in FileRecords /\ SameFile(g, g) /\ g.cur = v.f.cur /\ g.pos = v.f.pos /\ ~g.dirDirty
      /\ g.open = v.f.open /\ g.first = v.f.first /\ g.slot = v.f.slot
  BY <1>2 DEF FileRecords, SameFile
<1>7. QED
  BY <1>2, <1>3, <1>5, <1>6 DEF Entry, w

SamePlace(f, g) ==
  /\ g.open = f.open /\ g.first = f.first /\ g.cur = f.cur /\ g.pos = f.pos

Synced(v, w, fs, n) ==
  /\ Fits(w, fs, n) /\ (CardOK(v) => CardOK(w)) /\ SamePlace(v.f, w.f)
  /\ w.ok => ~w.f.dirDirty /\ Meta(w.disk) = Meta(Seen(w))

LEMMA FlushSyncs ==
  ASSUME NEW fs, IsFiles(fs), NEW n \in Names, NEW v, Fits(v, fs, n), ~v.f.dirDirty
  PROVE  Synced(v, cacheFlush(v), fs, n)
<1> DEFINE w == cacheFlush(v)
<1>1. VolumeOK(v)
  BY DEF Fits
<1>2. Kept(v, w) /\ (w.ok => Meta(w.disk) = Meta(Seen(v)))
  BY <1>1, FlushKeeps
<1> HIDE DEF w
<1>3. Fits(w, fs, n) /\ w.f = v.f /\ Meta(Seen(w)) = Meta(Seen(v))
  BY <1>2, KeptFits DEF Kept
<1>4. CardOK(v) => CardOK(w)
  BY <1>2, CardStays DEF Kept
<1>5. QED
  BY <1>2, <1>3, <1>4 DEF Synced, SamePlace, w

SavedTo(u, x, fs, n) ==
  Fits(x, fs, n) /\ x.disk = u.disk /\ SamePlace(u.f, x.f) /\ ~x.f.dirDirty

LEMMA SaveGives ==
  ASSUME NEW fs, IsFiles(fs), NEW n \in Names, NEW u, VolumeOK(u), u.search \in Nat, u.block = DirBlock, u.dirty,
         Loose(Meta(Seen(u)), fs, n, u.f), u.f.open
  PROVE  SavedTo(u, Saved(u), fs, n)
<1> DEFINE x == Saved(u)
<1>1. u.buf = Meta(Seen(u)).dir /\ u.buf \in Dirs
  BY CachedDir
<1>2. u.f \in FileRecords /\ u.f.slot \in 1..DirSlots
  BY DEF Loose, LooseFile
<1>3. /\ Shape(x) /\ x.block = u.block /\ x.disk = u.disk /\ x.mirror = u.mirror /\ x.dirty = u.dirty
      /\ x.search = u.search
      /\ x.buf = [u.buf EXCEPT ![u.f.slot] = [u.buf[u.f.slot] EXCEPT !.size = u.f.size, !.first = u.f.first]]
      /\ x.f \in FileRecords /\ SameFile([u.f EXCEPT !.dirDirty = FALSE], x.f)
      /\ x.f.cur = u.f.cur /\ x.f.pos = u.f.pos /\ ~x.f.dirDirty
      /\ x.f.open = u.f.open /\ x.f.first = u.f.first
  BY <1>1, <1>2, SavedIs
<1> HIDE DEF x
<1>4. PICK new : new = [fat |-> Meta(Seen(u)).fat, dir |-> x.buf]
  OBVIOUS
<1>5. Agree(new, With(fs, n, x.f)) /\ new.dir \in Dirs
  <2>1. new.fat = Meta(Seen(u)).fat
    BY <1>4
  <2>2. new.dir = [Meta(Seen(u)).dir EXCEPT ![u.f.slot] =
                     [Meta(Seen(u)).dir[u.f.slot] EXCEPT !.size = u.f.size, !.first = u.f.first]]
    BY <1>1, <1>3, <1>4
  <2>3. Meta(Seen(u)).dir \in Dirs
    BY <1>1
  <2> HIDE DEF Meta
  <2>4. QED
    BY <1>2, <1>3, <2>1, <2>2, <2>3, EntrySaved
<1>6. VolumeOK(x) /\ Meta(Seen(x)).dir = x.buf /\ Meta(Seen(x)).fat = Meta(Seen(u)).fat
  BY <1>3, <1>4, <1>5, DirIsReplaced
<1>7. Meta(Seen(x)) = new
  BY <1>4, <1>6 DEF Meta
<1>8. Fits(x, fs, n)
  BY <1>3, <1>5, <1>6, <1>7 DEF Fits
<1>9. QED
  BY <1>3, <1>8 DEF SavedTo, SamePlace, x

LEMMA SyncIs ==
  ASSUME NEW v, v.f.open
  PROVE  LET u == cacheRawBlock(v, DirBlock, TRUE)
             x == Saved(u)
         IN sync(v) = IF ~v.f.dirDirty THEN (IF v.ok THEN cacheFlush(v) ELSE v)
                      ELSE IF u.ok THEN (IF x.ok THEN cacheFlush(x) ELSE x) ELSE u
<1> DEFINE u == cacheRawBlock(v, DirBlock, TRUE)
           x == Saved(u)
           mid == IF ~v.f.dirDirty THEN v ELSE IF u.ok THEN x ELSE u
<1>1. sync(v) = IF mid.ok THEN cacheFlush(mid) ELSE mid
  BY DEF sync, Then, Saved
<1> HIDE DEF u, x
<1>2. sync(v) = IF ~v.f.dirDirty THEN (IF v.ok THEN cacheFlush(v) ELSE v)
                ELSE IF u.ok THEN (IF x.ok THEN cacheFlush(x) ELSE x) ELSE u
  BY <1>1
<1>3. QED
  BY <1>2 DEF u, x

LEMMA SyncGives ==
  ASSUME NEW fs, IsFiles(fs), NEW n \in Names, NEW v, Fits(v, fs, n), v.f.open
  PROVE  Synced(v, sync(v), fs, n)
<1> DEFINE u == cacheRawBlock(v, DirBlock, TRUE)
           x == Saved(u)
<1>1. sync(v) = IF ~v.f.dirDirty THEN (IF v.ok THEN cacheFlush(v) ELSE v)
                ELSE IF u.ok THEN (IF x.ok THEN cacheFlush(x) ELSE x) ELSE u
  BY SyncIs
<1>2. VolumeOK(v)
  BY DEF Fits
<1>3. CASE ~v.f.dirDirty
  <2>1. CASE v.ok
    BY <1>1, <1>3, <2>1, FlushSyncs
  <2>2. CASE ~v.ok
    BY <1>1, <1>3, <2>2 DEF Synced, SamePlace
  <2>3. QED
    BY <2>1, <2>2
<1>4. CASE v.f.dirDirty
  <2>1. Cached(v, u, DirBlock, TRUE)
    BY <1>2, CacheKeeps
  <2> HIDE DEF u
  <2>2. Kept(v, u) /\ Fits(u, fs, n) /\ u.f = v.f /\ (CardOK(v) => CardOK(u))
    BY <2>1, KeptFits, CardStays DEF Cached, Kept
  <2>3. CASE ~u.ok
    BY <1>1, <1>4, <2>2, <2>3 DEF Synced, SamePlace
  <2>4. CASE u.ok
    <3>1. u.block = DirBlock /\ u.dirty /\ VolumeOK(u) /\ u.search \in Nat
      BY <2>1, <2>2, <2>4 DEF Cached, Fits
    <3>2. Loose(Meta(Seen(u)), fs, n, u.f)
      BY <2>2, AgreeIsLoose DEF Fits
    <3>3. SavedTo(u, x, fs, n)
      BY <2>2, <3>1, <3>2, SaveGives
    <3> HIDE DEF x
    <3>4. CardOK(u) => CardOK(x)
      BY <3>3 DEF CardOK, SavedTo
    <3>5. Synced(x, cacheFlush(x), fs, n)
      BY <3>3, FlushSyncs DEF SavedTo
    <3>6. QED
      BY <1>1, <1>4, <2>2, <2>4, <3>3, <3>4, <3>5 DEF Synced, SamePlace, SavedTo
  <2>5. QED
    BY <2>3, <2>4
<1>5. QED
  BY <1>3, <1>4

(* A call that changed what is seen is over once sync has succeeded, what-  *)
(* ever the card held before.                                               *)
LEMMA SyncSaves ==
  ASSUME NEW fs, IsFiles(fs), NEW n \in Names, NEW v, VolumeOK(v), v.search \in Nat,
         Loose(Meta(Seen(v)), fs, n, v.f), v.f.open, v.f.dirDirty
  PROVE  sync(v).ok => During(sync(v), fs, n) /\ SamePlace(v.f, sync(v).f)
<1> DEFINE u == cacheRawBlock(v, DirBlock, TRUE)
           x == Saved(u)
<1>1. sync(v) = IF u.ok THEN (IF x.ok THEN cacheFlush(x) ELSE x) ELSE u
  BY SyncIs
<1>2. Cached(v, u, DirBlock, TRUE)
  BY CacheKeeps
<1> HIDE DEF u
<1>3. SUFFICES ASSUME u.ok, x.ok, cacheFlush(x).ok
               PROVE  During(cacheFlush(x), fs, n) /\ SamePlace(v.f, cacheFlush(x).f)
  BY <1>1
<1>4. /\ u.block = DirBlock /\ u.dirty /\ VolumeOK(u) /\ u.search \in Nat /\ u.f = v.f
      /\ Loose(Meta(Seen(u)), fs, n, u.f)
  BY <1>2, <1>3 DEF Cached, Kept, Same
<1>5. SavedTo(u, x, fs, n)
  BY <1>4, SaveGives
<1> HIDE DEF x
<1>6. Synced(x, cacheFlush(x), fs, n)
  BY <1>5, FlushSyncs DEF SavedTo
<1>7. During(cacheFlush(x), fs, n)
  BY <1>3, <1>6, CardIsSeen DEF Synced
<1>8. QED
  BY <1>4, <1>5, <1>6, <1>7 DEF Synced, SavedTo, SamePlace

LEMMA SyncKeeps ==
  ASSUME NEW fs, IsFiles(fs), NEW n \in Names, NEW v, During(v, fs, n), v.f.open
  PROVE  During(sync(v), fs, n)
BY SyncGives, DuringIs DEF Synced

(* The file is closed after it has been saved: its entry names its first    *)
(* cluster.                                                                 *)
LEMMA OpenIsSet ==
  ASSUME NEW v, VolumeOK(v), v.f \in FileRecords
  PROVE  LET w == [v EXCEPT !.f.open = FALSE] IN
         /\ VolumeOK(w) /\ Seen(w) = Seen(v) /\ w.disk = v.disk /\ w.search = v.search
         /\ w.f \in FileRecords /\ ~w.f.open
<1> DEFINE w == [v EXCEPT !.f.open = FALSE]
<1>1. Shape(v)
  BY DEF VolumeOK
<1>2. PICK g : g = [v.f EXCEPT !.open = FALSE]
  OBVIOUS
<1>3. w = [v EXCEPT !.f = g]
  BY <1>2
<1>4. /\ Shape(w) /\ w.f = g /\ w.search = v.search /\ w.disk = v.disk /\ w.block = v.block
      /\ w.buf = v.buf /\ w.dirty = v.dirty /\ w.mirror = v.mirror
  BY <1>1, <1>3 DEF Shape
<1> HIDE DEF w
<1>5. VolumeOK(w) /\ Seen(w) = Seen(v)
  BY <1>4, OtherFields
<1>6. g \in FileRecords /\ ~g.open
  BY <1>2 DEF FileRecords
<1>7. QED
  BY <1>4, <1>5, <1>6 DEF w

LEMMA FileIsClosed ==
  ASSUME NEW fs, IsFiles(fs), NEW n \in Names, NEW meta, NEW f, Agree(meta, With(fs, n, f)), meta.dir \in Dirs,
         f.open => ~f.dirDirty, NEW g \in FileRecords, ~g.open
  PROVE  Agree(meta, With(fs, n, g))
<1> DEFINE F == With(fs, n, f)
           G == With(fs, n, g)
<1>1. F[n] = f /\ G[n] = g /\ \A m \in Names : m # n => F[m] = G[m]
  BY WithIs
<1>2. Sound(meta, Firsts(meta.dir, F)) /\ \A m \in Names : FileOK(F[m], meta.dir, m)
  BY DEF Agree
<1> HIDE DEF F, G
<1>3. f.open => FirstIn(meta.dir, n) = f.first
  <2>1. SUFFICES ASSUME f.open PROVE FirstIn(meta.dir, n) = f.first
    OBVIOUS
  <2>2. f.slot \in 1..DirSlots /\ meta.dir[f.slot].name = n /\ meta.dir[f.slot].first = f.first
    BY <1>1, <1>2, <2>1 DEF FileOK
  <2>3. QED
    BY <1>2, <2>2, EntryOfName DEF Sound
<1>4. ASSUME NEW m \in Names
      PROVE  (IF G[m].open THEN G[m].first ELSE FirstIn(meta.dir, m))
             = (IF F[m].open THEN F[m].first ELSE FirstIn(meta.dir, m))
  BY <1>1, <1>3
<1>5. Firsts(meta.dir, G) = Firsts(meta.dir, F)
  BY <1>4 DEF Firsts
<1>6. \A m \in Names : FileOK(G[m], meta.dir, m)
  BY <1>1, <1>2 DEF FileOK
<1>7. QED
  BY <1>2, <1>5, <1>6 DEF Agree, G

LEMMA CloseKeeps ==
  ASSUME NEW fs, IsFiles(fs), NEW n \in Names, NEW v, During(v, fs, n), v.f.open
  PROVE  During(close(v), fs, n)
<1> DEFINE u == sync(v)
           w == [u EXCEPT !.f.open = FALSE]
<1>1. close(v) = IF u.ok THEN w ELSE u
  BY DEF close, Then
<1>2. During(u, fs, n) /\ (u.ok => ~u.f.dirDirty)
  BY SyncKeeps, SyncGives, DuringIs DEF Synced
<1> HIDE DEF u
<1>3. VolumeOK(u) /\ u.f \in FileRecords /\ u.search \in Nat /\ Meta(Seen(u)).dir \in Dirs
      /\ Agree(Meta(Seen(u)), With(fs, n, u.f))
  BY <1>2, FileDuring, SafeIsTyped DEF During, Safe
<1>4. /\ VolumeOK(w) /\ Seen(w) = Seen(u) /\ w.disk = u.disk /\ w.search = u.search
      /\ w.f \in FileRecords /\ ~w.f.open
  BY <1>3, OpenIsSet
<1> HIDE DEF w
<1>5. CASE u.ok
  <2>1. Agree(Meta(Seen(u)), With(fs, n, w.f))
    BY <1>2, <1>3, <1>4, <1>5, FileIsClosed
  <2>2. Safe(w, With(fs, n, w.f))
    BY <1>2, <1>3, <1>4, <2>1, NewViewIsSafe DEF During
  <2>3. QED
    BY <1>1, <1>5, <2>2 DEF During
<1>6. CASE ~u.ok
  BY <1>1, <1>2, <1>6
<1>7. QED
  BY <1>5, <1>6
-------------------------------------------------------------------------------
(* Freeing the rest of a chain *)

NoLoop(fat) == \A S \in SUBSET Clusters : (\A d \in S : fat[d] \in S) => S = {}

(* The FAT as if the chain ended at a cluster, if it is one.                *)
Cut(fat, x) == IF x \in Clusters THEN Changed(fat, x, EOC) ELSE fat

(* The chain that begins at c has been freed up to next: what is left of it *)
(* is a chain, and the chains of the other heads are whole if x ends one.   *)
FreedTo(old, x, rest, c, fat, next) ==
  /\ fat \in Fats /\ next \in Clusters \cup {EOC} /\ next \notin rest
  /\ Chains(Cut(fat, x), rest \cup ({next} \cap Clusters))
  /\ \E F \in SUBSET Clusters :
       /\ \A d \in 0..LastCluster : fat[d] = IF d \in F THEN 0 ELSE old[d]
       /\ \A d \in F : old[d] \in F \cup {next}
       /\ c \in F \cup {next}

LEMMA FreedOnce ==
  ASSUME NEW old \in Fats, NoLoop(old), NEW x, NEW rest, NEW c, x \in Clusters => old[x] = c,
         NEW fat, NEW next, FreedTo(old, x, rest, c, fat, next), next \in Clusters
  PROVE  FreedTo(old, x, rest, c, Changed(fat, next, 0), fat[next]) /\ next # x
<1> DEFINE new == Changed(fat, next, 0)
<1>1. fat \in Fats /\ next \notin rest /\ Clusters \subseteq 0..LastCluster
  BY SomeClusters DEF FreedTo
<1>2. PICK F \in SUBSET Clusters :
        /\ \A d \in 0..LastCluster : fat[d] = IF d \in F THEN 0 ELSE old[d]
        /\ \A d \in F : old[d] \in F \cup {next}
        /\ c \in F \cup {next}
  BY DEF FreedTo
<1>3. next # x
  <2>1. SUFFICES ASSUME next = x PROVE FALSE
    OBVIOUS
  <2>2. old[x] = c
    BY <2>1
  <2>3. F \cup {x} \in SUBSET Clusters /\ \A d \in F \cup {x} : old[d] \in F \cup {x}
    BY <1>2, <2>1, <2>2
  <2>4. F \cup {x} = {}
    BY <2>3 DEF NoLoop
  <2>5. QED
    BY <2>4
<1>4. Chains(Cut(fat, x), rest \cup {next})
  <2>1. {next} \cap Clusters = {next}
    OBVIOUS
  <2>2. QED
    BY <2>1 DEF FreedTo
<1>5. Cut(fat, x) \in Fats /\ Cut(fat, x)[next] = fat[next]
  <2>1. CASE x \in Clusters
    <3>1. Changed(fat, x, EOC) \in Fats /\ \A d \in Clusters : d # x => Changed(fat, x, EOC)[d] = fat[d]
      BY <1>1, <2>1, ChangedEntry, MarksAreNoClusters
    <3>2. QED
      BY <1>3, <2>1, <3>1 DEF Cut
  <2>2. CASE x \notin Clusters
    BY <1>1, <2>2 DEF Cut
  <2>3. QED
    BY <2>1, <2>2
<1>6. /\ fat[next] \in Clusters \cup {EOC} /\ fat[next] \notin rest
      /\ Chains(Changed(Cut(fat, x), next, 0), rest \cup ({fat[next]} \cap Clusters))
  BY <1>1, <1>4, <1>5, HeadIsFreed
<1>7. new \in Fats /\ new[next] = 0 /\ \A d \in 0..LastCluster : d # next => new[d] = fat[d]
  BY <1>1, ChangedEntry, MarksAreNoClusters
<1>8. Changed(Cut(fat, x), next, 0) = Cut(new, x)
  BY <1>1, <1>3 DEF Cut, Changed, Fats
<1> HIDE DEF new
<1>9. fat[next] # 0
  BY <1>6, MarksAreNoClusters
<1>10. next \notin F /\ fat[next] = old[next]
  BY <1>1, <1>2, <1>9
<1>11. PICK G : G = F \cup {next}
  OBVIOUS
<1>12. /\ G \in SUBSET Clusters
       /\ \A d \in G : old[d] \in G \cup {fat[next]}
       /\ c \in G \cup {fat[next]}
  BY <1>2, <1>10, <1>11
<1>13. \A d \in 0..LastCluster : new[d] = IF d \in G THEN 0 ELSE old[d]
  BY <1>1, <1>2, <1>7, <1>11
<1>14. QED
  BY <1>3, <1>6, <1>7, <1>8, <1>12, <1>13 DEF FreedTo, new

(* The loop of freeChain.  par: what the FAT and the directory were, the    *)
(* cluster that is to end its chain, the heads of the other chains, the     *)
(* first cluster to free, whether that is the head of a chain, the file.    *)
FreeOnce(par, w, k) == FreePass(w, k)
FreedSoFar(par, w, k) ==
  /\ VolumeOK(w)
  /\ w.ok => /\ w.search = 2 /\ w.f = par.f /\ Meta(Seen(w)).dir = par.dir /\ w.next \in FatValues
             /\ IF k = 0 THEN w.next = par.c ELSE par.c \in Clusters
             /\ par.whole /\ par.c \in Clusters => FreedTo(par.fat, par.x, par.rest, par.c, Meta(Seen(w)).fat, w.next)
Freeing == INSTANCE Loops WITH Pass <- FreeOnce, Holds <- FreedSoFar

LEMMA FreePassFrees ==
  ASSUME NEW par, par.fat \in Fats, NoLoop(par.fat), par.x \in Clusters => par.fat[par.x] = par.c,
         NEW w, NEW k \in Nat, FreedSoFar(par, w, k)
  PROVE  FreedSoFar(par, FreePass(w, k + 1), k + 1)
<1> DEFINE u == fatGet(w, w.next)
           x == fatPut(u, w.next, 0)
<1>1. FreePass(w, k + 1) = IF ~w.ok \/ (k + 1 > 1 /\ w.next >= EOC) THEN w ELSE IF u.ok THEN x ELSE u
  BY DEF FreePass, Then
<1>2. VolumeOK(w)
  BY DEF FreedSoFar
<1>3. k + 1 # 0
  OBVIOUS
<1>4. CASE ~w.ok
  BY <1>1, <1>2, <1>4 DEF FreedSoFar
<1>5. CASE w.ok /\ k + 1 > 1 /\ w.next >= EOC
  <2>1. k # 0
    BY <1>5
  <2>2. QED
    BY <1>1, <1>3, <1>5, <2>1 DEF FreedSoFar
<1>6. CASE w.ok /\ ~(k + 1 > 1 /\ w.next >= EOC)
  <2>1. /\ w.search = 2 /\ w.f = par.f /\ Meta(Seen(w)).dir = par.dir /\ w.next \in FatValues
        /\ IF k = 0 THEN w.next = par.c ELSE par.c \in Clusters
        /\ par.whole /\ par.c \in Clusters => FreedTo(par.fat, par.x, par.rest, par.c, Meta(Seen(w)).fat, w.next)
    BY <1>6 DEF FreedSoFar
  <2>2. w.next \in Nat
    BY <2>1, SomeClusters
  <2>3. Looked(w, u, w.next)
    BY <1>2, <2>2, GetLooks
  <2> HIDE DEF u
  <2>4. VolumeOK(u) /\ Same(w, u) /\ Meta(Seen(u)) = Meta(Seen(w))
    BY <2>3 DEF Looked, Kept
  <2>5. CASE ~u.ok
    BY <1>1, <1>6, <2>4, <2>5 DEF FreedSoFar
  <2>6. CASE u.ok
    <3>1. u.next = Meta(Seen(w)).fat[w.next] /\ u.next \in FatValues
      BY <2>3, <2>6 DEF Looked
    <3>2. Put(u, x, w.next, 0)
      BY <2>4, MarksAreNoClusters, PutWrites
    <3> HIDE DEF x
    <3>3. VolumeOK(x) /\ x.next = u.next /\ Same(u, x)
      BY <3>2 DEF Put
    <3>4. CASE ~x.ok
      BY <1>1, <1>6, <2>6, <3>3, <3>4 DEF FreedSoFar
    <3>5. CASE x.ok
      <4>1. /\ w.next \in Clusters
            /\ Meta(Seen(x)).fat = Changed(Meta(Seen(w)).fat, w.next, 0)
            /\ Meta(Seen(x)).dir = Meta(Seen(w)).dir
        BY <2>4, <3>2, <3>5 DEF Put
      <4>2. par.c \in Clusters
        BY <2>1, <4>1
      <4>3. par.whole => FreedTo(par.fat, par.x, par.rest, par.c, Changed(Meta(Seen(w)).fat, w.next, 0), Meta(Seen(w)).fat[w.next])
        BY <2>1, <4>1, <4>2, FreedOnce
      <4>4. par.whole => FreedTo(par.fat, par.x, par.rest, par.c, Meta(Seen(x)).fat, x.next)
        BY <3>1, <3>3, <4>1, <4>3
      <4>5. x.search = 2 /\ x.f = par.f /\ Meta(Seen(x)).dir = par.dir /\ x.next \in FatValues
        BY <2>1, <2>4, <3>1, <3>3, <4>1 DEF Same
      <4>6. QED
        BY <1>1, <1>3, <1>6, <2>6, <3>3, <4>2, <4>4, <4>5 DEF FreedSoFar
    <3>6. QED
      BY <3>4, <3>5
  <2>7. QED
    BY <2>5, <2>6
<1>7. QED
  BY <1>4, <1>5, <1>6

Started(v, c) == [v EXCEPT !.search = 2, !.next = c]

LEMMA FreeIsStarted ==
  ASSUME NEW v, VolumeOK(v), NEW c
  PROVE  LET w == Started(v, c) IN
         /\ VolumeOK(w) /\ Seen(w) = Seen(v) /\ w.f = v.f /\ w.search = 2 /\ w.next = c /\ w.ok = v.ok
<1> DEFINE w == Started(v, c)
<1>1. Shape(v)
  BY DEF VolumeOK
<1>2. /\ Shape(w) /\ w.f = v.f /\ w.search = 2 /\ w.next = c /\ w.ok = v.ok /\ w.disk = v.disk
      /\ w.block = v.block /\ w.buf = v.buf /\ w.dirty = v.dirty /\ w.mirror = v.mirror
  BY <1>1 DEF Shape, Started
<1> HIDE DEF w
<1>3. VolumeOK(w) /\ Seen(w) = Seen(v)
  BY <1>2, OtherFields
<1>4. QED
  BY <1>2, <1>3 DEF w

(* When it succeeds the whole chain from c is freed.                        *)
Freed(v, w, x, rest, c, whole) ==
  /\ VolumeOK(w)
  /\ w.ok => /\ w.search = 2 /\ w.f = v.f /\ Meta(Seen(w)).dir = Meta(Seen(v)).dir
             /\ c \in Clusters
             /\ whole => Meta(Seen(w)).fat \in Fats /\ Chains(Cut(Meta(Seen(w)).fat, x), rest)

LEMMA FreeChainFrees ==
  ASSUME NEW v, VolumeOK(v), NEW x, NEW rest, NEW c \in FatValues, NEW whole, NoLoop(Meta(Seen(v)).fat),
         x \in Clusters => Meta(Seen(v)).fat[x] = c,
         whole /\ c \in Clusters => Chains(Cut(Meta(Seen(v)).fat, x), rest \cup {c}) /\ c \notin rest
  PROVE  Freed(v, freeChain(v, c), x, rest, c, whole)
<1> DEFINE fat == Meta(Seen(v)).fat
           par == [fat |-> fat, dir |-> Meta(Seen(v)).dir, x |-> x, rest |-> rest, c |-> c, f |-> v.f,
                   whole |-> whole]
           first == Started(v, c)
           last == Freeing!Passes(par, first)[ClusterCount + 2]
<1>1. /\ par.fat = fat /\ par.dir = Meta(Seen(v)).dir /\ par.x = x /\ par.rest = rest /\ par.c = c /\ par.f = v.f
      /\ par.whole = whole
  OBVIOUS
<1>0. fat \in Fats
  BY SeenIsOK, MetaIsTyped
<1> HIDE DEF par
<1>2. /\ VolumeOK(first) /\ Seen(first) = Seen(v) /\ first.f = v.f /\ first.search = 2 /\ first.next = c
  BY FreeIsStarted
<1>3. freeChain(v, c) = IF last.ok THEN (IF last.next >= EOC THEN last ELSE Fail(last)) ELSE last
  BY <1>1 DEF freeChain, Then, Freeing!Passes, FreeOnce, Started
<1> HIDE DEF first
<1>4. whole /\ c \in Clusters => FreedTo(fat, x, rest, c, fat, c)
  <2>1. SUFFICES ASSUME whole, c \in Clusters PROVE FreedTo(fat, x, rest, c, fat, c)
    OBVIOUS
  <2>2. {c} \cap Clusters = {c}
    BY <2>1
  <2>3. /\ \A d \in 0..LastCluster : fat[d] = IF d \in {} THEN 0 ELSE fat[d]
        /\ \A d \in {} : fat[d] \in {} \cup {c}
        /\ c \in {} \cup {c} /\ {} \in SUBSET Clusters
    OBVIOUS
  <2>4. QED
    BY <1>0, <2>1, <2>2, <2>3 DEF FreedTo
<1>5. FreedSoFar(par, first, 0)
  BY <1>1, <1>2, <1>4 DEF FreedSoFar
<1>6. ASSUME NEW w, NEW k \in Nat, FreedSoFar(par, w, k) PROVE FreedSoFar(par, FreeOnce(par, w, k + 1), k + 1)
  BY <1>0, <1>1, <1>6, FreePassFrees DEF FreeOnce
<1>7. \A k \in Nat : FreedSoFar(par, Freeing!Passes(par, first)[k], k)
  BY <1>5, <1>6, Freeing!PassesKeep
<1>8. ClusterCount + 2 \in Nat /\ ClusterCount + 2 # 0
  BY SomeClusters
<1>9. FreedSoFar(par, last, ClusterCount + 2)
  BY <1>7, <1>8
<1> HIDE DEF last
<1>10. VolumeOK(last)
  BY <1>9 DEF FreedSoFar
<1>11. VolumeOK(Fail(last)) /\ ~Fail(last).ok
  BY <1>10, FailIsViewed DEF Viewed, SameView
<1>12. CASE ~(last.ok /\ last.next >= EOC)
  BY <1>3, <1>10, <1>11, <1>12 DEF Freed
<1>13. CASE last.ok /\ last.next >= EOC
  <2>1. /\ last.search = 2 /\ last.f = v.f /\ Meta(Seen(last)).dir = Meta(Seen(v)).dir /\ c \in Clusters
        /\ whole => FreedTo(fat, x, rest, c, Meta(Seen(last)).fat, last.next)
    BY <1>1, <1>8, <1>9, <1>13 DEF FreedSoFar
  <2>2. last.next \notin Clusters
    BY <1>13, SomeClusters
  <2>3. rest \cup ({last.next} \cap Clusters) = rest
    BY <2>2
  <2>4. whole => Meta(Seen(last)).fat \in Fats /\ Chains(Cut(Meta(Seen(last)).fat, x), rest)
    BY <2>1, <2>3 DEF FreedTo
  <2>5. QED
    BY <1>3, <1>10, <1>13, <2>1, <2>4 DEF Freed
<1>14. QED
  BY <1>12, <1>13
-------------------------------------------------------------------------------
(* Cutting a file *)

LEMMA OneHeadLess ==
  ASSUME NEW n \in Names, NEW firsts, firsts = [m \in Names |-> firsts[m]], firsts[n] # 0,
         \A k, m \in Names : firsts[k] = firsts[m] /\ firsts[k] # 0 => k = m
  PROVE  LET less == [firsts EXCEPT ![n] = 0] IN
         /\ Heads(firsts) = Heads(less) \cup {firsts[n]} /\ firsts[n] \notin Heads(less)
         /\ less[n] = 0 /\ \A m \in Names : m # n => less[m] = firsts[m]
         /\ \A k, m \in Names : less[k] = less[m] /\ less[k] # 0 => k = m
<1> DEFINE less == [firsts EXCEPT ![n] = 0]
<1>1. less[n] = 0 /\ \A m \in Names : m # n => less[m] = firsts[m]
  OBVIOUS
<1> HIDE DEF less
<1>2. firsts[n] \notin Heads(less)
  BY <1>1 DEF Heads
<1>3. ASSUME NEW h \in Heads(firsts) PROVE h \in Heads(less) \cup {firsts[n]}
  <2>1. PICK m \in Names : h = firsts[m] /\ h # 0
    BY DEF Heads
  <2>2. QED
    BY <1>1, <2>1 DEF Heads
<1>4. ASSUME NEW h \in Heads(less) \cup {firsts[n]} PROVE h \in Heads(firsts)
  BY <1>1 DEF Heads
<1>5. \A k, m \in Names : less[k] = less[m] /\ less[k] # 0 => k = m
  BY <1>1
<1>6. QED
  BY <1>1, <1>2, <1>3, <1>4, <1>5 DEF less

(* What sync finds.                                                         *)
Shortened(z, fs, n) ==
  /\ VolumeOK(z) /\ z.search \in Nat /\ Loose(Meta(Seen(z)), fs, n, z.f) /\ z.f.open /\ z.f.dirDirty

LEMMA FirstIsCleared ==
  ASSUME NEW v, VolumeOK(v), v.f \in FileRecords
  PROVE  LET w == [v EXCEPT !.f.first = 0] IN
         /\ VolumeOK(w) /\ Seen(w) = Seen(v) /\ w.search = v.search /\ w.ok = v.ok
         /\ w.f \in FileRecords /\ w.f.open = v.f.open /\ w.f.slot = v.f.slot /\ w.f.first = 0
         /\ w.f.pos = v.f.pos /\ w.f.cur = v.f.cur
<1> DEFINE w == [v EXCEPT !.f.first = 0]
<1>1. Shape(v)
  BY DEF VolumeOK
<1>2. PICK g : g = [v.f EXCEPT !.first = 0]
  OBVIOUS
<1>3. w = [v EXCEPT !.f = g]
  BY <1>2
<1>4. /\ Shape(w) /\ w.f = g /\ w.search = v.search /\ w.disk = v.disk /\ w.block = v.block
      /\ w.buf = v.buf /\ w.dirty = v.dirty /\ w.mirror = v.mirror /\ w.ok = v.ok
  BY <1>1, <1>3 DEF Shape
<1> HIDE DEF w
<1>5. VolumeOK(w) /\ Seen(w) = Seen(v)
  BY <1>4, OtherFields
<1>6. /\ g \in FileRecords /\ g.open = v.f.open /\ g.slot = v.f.slot /\ g.first = 0
      /\ g.pos = v.f.pos /\ g.cur = v.f.cur
  BY <1>2 DEF FileRecords
<1>7. QED
  BY <1>4, <1>5, <1>6 DEF w

FirstsAre(firsts, fs, n, dir, f) ==
  /\ firsts = [m \in Names |-> firsts[m]]
  /\ f.open => firsts[n] = f.first
  /\ \A m \in Names : m # n => firsts[m] = IF fs[m].open THEN fs[m].first ELSE FirstIn(dir, m)

LEMMA FirstsWith ==
  ASSUME NEW fs, IsFiles(fs), NEW n \in Names, NEW dir, NEW f
  PROVE  FirstsAre(Firsts(dir, With(fs, n, f)), fs, n, dir, f)
BY WithIs DEF Firsts, FirstsAre

(* The file is cut to nothing.                                              *)
LEMMA AllIsFreed ==
  ASSUME NEW fs, IsFiles(fs), NEW n \in Names, NEW v, During(v, fs, n), v.f.open, v.f.first # 0,
         v.f.cur = 0, v.f.pos = 0
  PROVE  LET u == freeChain(v, v.f.first)
             w == [u EXCEPT !.f.first = 0]
         IN u.ok => w.ok /\ Shortened(Resized(w, 0), fs, n)
<1> DEFINE u == freeChain(v, v.f.first)
           w == [u EXCEPT !.f.first = 0]
           z == Resized(w, 0)
           dir == Meta(Seen(v)).dir
           fat == Meta(Seen(v)).fat
           firsts == Firsts(dir, With(fs, n, v.f))
           less == [firsts EXCEPT ![n] = 0]
<1>1. /\ VolumeOK(v) /\ FileOK(v.f, dir, n) /\ v.f \in FileRecords /\ fat \in Fats
      /\ Agree(Meta(Seen(v)), With(fs, n, v.f))
  BY FileDuring, SafeIsTyped DEF During, Safe
<1>2. /\ DirOK(dir) /\ Chains(fat, Heads(firsts))
      /\ \A k, m \in Names : firsts[k] = firsts[m] /\ firsts[k] # 0 => k = m
  BY <1>1 DEF Agree, Sound
<1>3. /\ firsts = [m \in Names |-> firsts[m]] /\ firsts[n] = v.f.first
      /\ \A m \in Names : m # n => firsts[m] = IF fs[m].open THEN fs[m].first ELSE FirstIn(dir, m)
  BY FirstsWith DEF FirstsAre
<1>4. NoLoop(fat)
  BY <1>2 DEF Chains, NoLoop
<1>5. \A m \in Names : m # n => FileOK(fs[m], dir, m)
  BY <1>1, WithIs DEF Agree
<1> HIDE DEF firsts, fat
<1>6. /\ Heads(firsts) = Heads(less) \cup {v.f.first} /\ v.f.first \notin Heads(less)
      /\ less[n] = 0 /\ \A m \in Names : m # n => less[m] = firsts[m]
      /\ \A k, m \in Names : less[k] = less[m] /\ less[k] # 0 => k = m
  BY <1>2, <1>3, OneHeadLess
<1>7. less = [m \in Names |-> less[m]]
  BY <1>3
<1> HIDE DEF less
<1>8. Cut(fat, 0) = fat /\ 0 \notin Clusters
  BY MarksAreNoClusters DEF Cut
<1>9. v.f.first \in FatValues
  BY <1>1, MarksAreNoClusters DEF FileRecords
<1>10. Freed(v, u, 0, Heads(less), v.f.first, TRUE)
  BY <1>1, <1>2, <1>4, <1>6, <1>8, <1>9, FreeChainFrees DEF fat
<1> HIDE DEF u
<1>11. SUFFICES ASSUME u.ok PROVE w.ok /\ Shortened(z, fs, n)
  BY DEF u
<1>12. /\ VolumeOK(u) /\ u.search = 2 /\ u.f = v.f /\ Meta(Seen(u)).dir = dir
       /\ Chains(Cut(Meta(Seen(u)).fat, 0), Heads(less))
  BY <1>10, <1>11 DEF Freed
<1>13. Chains(Meta(Seen(u)).fat, Heads(less))
  BY <1>8, <1>12 DEF Cut
<1>14. /\ VolumeOK(w) /\ Seen(w) = Seen(u) /\ w.search = u.search /\ w.ok = u.ok
       /\ w.f \in FileRecords /\ w.f.open = u.f.open /\ w.f.slot = u.f.slot /\ w.f.first = 0
       /\ w.f.pos = u.f.pos /\ w.f.cur = u.f.cur
  BY <1>1, <1>12, FirstIsCleared
<1> HIDE DEF w
<1>15. /\ VolumeOK(z) /\ Seen(z) = Seen(w) /\ z.search = w.search
       /\ z.f \in FileRecords /\ z.f.open = w.f.open /\ z.f.slot = w.f.slot /\ z.f.first = w.f.first
       /\ z.f.dirDirty /\ z.f.pos = w.f.pos /\ z.f.cur = w.f.cur /\ z.f.size = 0
  BY <1>14, SizeIsSet
<1> HIDE DEF z
<1>16. PICK new : new = Firsts(dir, With(fs, n, z.f))
  OBVIOUS
<1>17. new = less
  <2>1. /\ new = [m \in Names |-> new[m]] /\ new[n] = 0
        /\ \A m \in Names : m # n => new[m] = IF fs[m].open THEN fs[m].first ELSE FirstIn(dir, m)
    <3>1. FirstsAre(new, fs, n, dir, z.f)
      BY <1>16, FirstsWith, Zenon
    <3>2. z.f.open /\ z.f.first = 0
      BY <1>12, <1>14, <1>15
    <3> HIDE DEF dir
    <3>3. QED
      BY <3>1, <3>2 DEF FirstsAre
  <2>2. \A m \in Names : new[m] = less[m]
    BY <1>3, <1>6, <2>1
  <2>3. QED
    BY <1>7, <2>1, <2>2
<1>18. Sound(Meta(Seen(z)), new)
  BY <1>2, <1>6, <1>12, <1>13, <1>14, <1>15, <1>17 DEF Sound
<1>19. LooseFile(z.f, dir, n)
  BY <1>1, <1>12, <1>14, <1>15 DEF LooseFile, FileOK
<1>20. Meta(Seen(z)).dir = dir
  BY <1>12, <1>14, <1>15
<1>21. Loose(Meta(Seen(z)), fs, n, z.f)
  BY <1>5, <1>16, <1>18, <1>19, <1>20 DEF Loose
<1>22. QED
  BY <1>11, <1>12, <1>14, <1>15, <1>21 DEF Shortened

LEMMA ResizedIsShortened ==
  ASSUME NEW fs, IsFiles(fs), NEW n \in Names, NEW v, Fits(v, fs, n), v.f.open, v.f.first # 0, NEW size \in Nat
  PROVE  Shortened(Resized(v, size), fs, n)
<1> DEFINE w == Resized(v, size)
<1>1. VolumeOK(v) /\ FileOK(v.f, Meta(Seen(v)).dir, n) /\ v.f \in FileRecords /\ v.search \in Nat
  BY FileFits
<1>2. Agree(Meta(Seen(v)), With(fs, n, v.f))
  BY DEF Fits
<1>3. /\ VolumeOK(w) /\ Seen(w) = Seen(v) /\ w.search = v.search
      /\ w.f \in FileRecords /\ w.f.open = v.f.open /\ w.f.slot = v.f.slot /\ w.f.first = v.f.first
      /\ w.f.dirDirty /\ w.f.pos = v.f.pos /\ w.f.cur = v.f.cur /\ w.f.size = size
  BY <1>1, SizeIsSet
<1> HIDE DEF w
<1>4. FileOK(w.f, Meta(Seen(v)).dir, n)
  BY <1>1, <1>3 DEF FileOK
<1>5. Agree(Meta(Seen(v)), With(fs, n, w.f))
  BY <1>2, <1>3, <1>4, SameFirsts
<1>6. Loose(Meta(Seen(w)), fs, n, w.f)
  BY <1>3, <1>5, AgreeIsLoose
<1>7. QED
  BY <1>1, <1>3, <1>6 DEF Shortened, w

(* The file is cut after the cluster of the position.                       *)
TailFreed(v) ==
  Then(fatGet(v, v.f.cur), LAMBDA x :
    IF x.next >= EOC THEN x
    ELSE Then(freeChain(x, x.next), LAMBDA y : fatPut(y, y.f.cur, EOC)))

LEMMA TailIsFreed ==
  ASSUME NEW fs, IsFiles(fs), NEW n \in Names, NEW v, During(v, fs, n), v.f.open, v.f.first # 0
  PROVE  TailFreed(v).ok => Fits(TailFreed(v), fs, n) /\ TailFreed(v).f = v.f
<1> DEFINE cur == v.f.cur
           u == fatGet(v, cur)
           y == freeChain(u, u.next)
           p == fatPut(y, y.f.cur, EOC)
           F == With(fs, n, v.f)
           dir == Meta(Seen(v)).dir
           fat == Meta(Seen(v)).fat
           heads == Heads(Firsts(dir, F))
           whole == cur \in Clusters
<1>1. TailFreed(v) = IF u.ok THEN (IF u.next >= EOC THEN u ELSE IF y.ok THEN p ELSE y) ELSE u
  BY DEF TailFreed, Then
<1>2. /\ VolumeOK(v) /\ v.f \in FileRecords /\ fat \in Fats /\ Agree(Meta(Seen(v)), F) /\ Chains(fat, heads)
  BY FileDuring, SafeIsTyped DEF During, Safe
<1>3. cur \in FatValues /\ cur \in Nat
  BY <1>2, SomeClusters DEF FileRecords
<1>4. Looked(v, u, cur)
  BY <1>2, <1>3, GetLooks
<1>5. NoLoop(fat)
  BY <1>2 DEF Chains, NoLoop
<1> HIDE DEF u, fat, heads, whole, cur
<1>6. SUFFICES ASSUME u.ok
               PROVE  /\ u.next >= EOC => Fits(u, fs, n) /\ u.f = v.f
                      /\ ~(u.next >= EOC) /\ y.ok /\ p.ok => Fits(p, fs, n) /\ p.f = v.f
  BY <1>1
<1>7. /\ VolumeOK(u) /\ u.f = v.f /\ u.search \in Nat /\ Meta(Seen(u)) = Meta(Seen(v)) /\ u.next = fat[cur]
      /\ u.next \in FatValues
  BY <1>4, <1>6, FileDuring DEF Looked, Kept, Same, fat
<1>8. Fits(u, fs, n)
  BY <1>2, <1>7 DEF Fits
<1>9. ASSUME ~(u.next >= EOC), y.ok, p.ok PROVE Fits(p, fs, n) /\ p.f = v.f
  <2>1. whole => (u.next \in Clusters => Chains(Cut(fat, cur), heads \cup {u.next}) /\ u.next \notin heads)
    BY <1>2, <1>7, ChainIsCut DEF Cut, whole
  <2>2. Freed(u, y, cur, heads, u.next, whole)
    <3>1. NoLoop(Meta(Seen(u)).fat) /\ Meta(Seen(u)).fat = fat
      BY <1>5, <1>7 DEF fat
    <3>2. QED
      BY <1>7, <2>1, <3>1, FreeChainFrees
  <2> HIDE DEF y
  <2>3. /\ VolumeOK(y) /\ y.search = 2 /\ y.f = v.f /\ Meta(Seen(y)).dir = dir
        /\ whole => Meta(Seen(y)).fat \in Fats /\ Chains(Cut(Meta(Seen(y)).fat, cur), heads)
    BY <1>7, <1>9, <2>2 DEF Freed
  <2>4. Put(y, p, cur, EOC)
    BY <2>3, MarksAreNoClusters, PutWrites DEF cur
  <2> HIDE DEF p
  <2>5. /\ VolumeOK(p) /\ p.search = 2 /\ p.f = v.f /\ cur \in Clusters
        /\ Meta(Seen(p)).fat = Changed(Meta(Seen(y)).fat, cur, EOC) /\ Meta(Seen(p)).dir = dir
    BY <1>9, <2>3, <2>4 DEF Put, Same
  <2>6. Chains(Meta(Seen(p)).fat, heads)
    BY <2>3, <2>5 DEF Cut, whole
  <2>7. Agree(Meta(Seen(p)), F)
    BY <1>2, <2>5, <2>6 DEF Agree, Sound, heads
  <2>8. QED
    BY <2>5, <2>7 DEF Fits
<1>10. QED
  BY <1>7, <1>8, <1>9

LEMMA SeekKeeps ==
  ASSUME NEW fs, IsFiles(fs), NEW n \in Names, NEW v, During(v, fs, n), v.f.open, NEW pos \in Nat
  PROVE  During(seekSet(v, pos), fs, n) /\ seekSet(v, pos).f.open
<1>1. Sought(v, seekSet(v, pos), pos)
  BY SeekMoves
<1>2. QED
  BY <1>1, MovedIsSafe DEF Sought, Moved, SameFile

AllFreed(v) == Then(freeChain(v, v.f.first), LAMBDA x : [x EXCEPT !.f.first = 0])

(* Truncating, once the file is at the new end.                             *)
LEMMA CutKeeps ==
  ASSUME NEW fs, IsFiles(fs), NEW n \in Names, NEW v, During(v, fs, n), v.f.open, v.f.first # 0,
         NEW length \in Nat, v.f.pos = length, length = 0 => v.f.cur = 0
  PROVE  LET w == IF length = 0 THEN AllFreed(v) ELSE TailFreed(v)
             x == sync(Resized(w, length))
         IN w.ok /\ x.ok => During(x, fs, n) /\ x.f.open
<1> DEFINE w == IF length = 0 THEN AllFreed(v) ELSE TailFreed(v)
           z == Resized(w, length)
           x == sync(z)
<1>1. SUFFICES ASSUME w.ok, x.ok PROVE During(x, fs, n) /\ x.f.open
  OBVIOUS
<1>2. Shortened(z, fs, n)
  <2>1. CASE length = 0
    <3> DEFINE u == freeChain(v, v.f.first)
               y == [u EXCEPT !.f.first = 0]
    <3>1. w = IF u.ok THEN y ELSE u
      BY <2>1 DEF AllFreed, Then
    <3>2. u.ok => y.ok /\ Shortened(Resized(y, 0), fs, n)
      BY <2>1, AllIsFreed
    <3> HIDE DEF u, w
    <3>3. u.ok
      BY <1>1, <3>1
    <3>4. w = y
      BY <3>1, <3>3
    <3> HIDE DEF y
    <3>5. QED
      BY <2>1, <3>2, <3>3, <3>4
  <2>2. CASE length # 0
    <3>1. w = TailFreed(v)
      BY <2>2
    <3> HIDE DEF w
    <3>2. Fits(w, fs, n) /\ w.f = v.f
      BY <1>1, <3>1, TailIsFreed
    <3>3. QED
      BY <3>2, ResizedIsShortened
  <2>3. QED
    BY <2>1, <2>2
<1> HIDE DEF w, z
<1>3. During(x, fs, n) /\ SamePlace(z.f, x.f)
  BY <1>1, <1>2, SyncSaves DEF Shortened
<1>4. QED
  BY <1>2, <1>3 DEF Shortened, SamePlace

LEMMA TruncateKeeps ==
  ASSUME NEW fs, IsFiles(fs), NEW n \in Names, NEW v, During(v, fs, n), v.f.open, NEW length \in Nat
  PROVE  truncate(v, length).ok => During(truncate(v, length), fs, n) /\ truncate(v, length).f.open
<1> DEFINE newPos == IF v.f.pos > length THEN length ELSE v.f.pos
           a == seekSet(v, length)
           w == IF length = 0 THEN AllFreed(a) ELSE TailFreed(a)
           x == sync(Resized(w, length))
           mid == IF a.ok THEN w ELSE a
           saved == IF mid.ok THEN sync(Resized(mid, length)) ELSE mid
           t == IF saved.ok THEN seekSet(saved, newPos) ELSE saved
<1>1. truncate(v, length) = IF ~v.f.write \/ length > v.f.size THEN Fail(v) ELSE IF v.f.size = 0 THEN v ELSE t
  BY DEF truncate, Then, AllFreed, TailFreed, Resized
<1>2. /\ VolumeOK(v) /\ v.f \in FileRecords /\ AtStart(v.f) /\ FileOK(v.f, Meta(Seen(v)).dir, n)
      /\ newPos \in Nat
  BY FileDuring DEF FileRecords
<1>3. ~Fail(v).ok
  BY <1>2, FailMoves
<1>4. ASSUME v.f.size # 0, t.ok PROVE During(t, fs, n) /\ t.f.open
  <2>1. Sought(v, a, length)
    BY SeekMoves
  <2>2. During(a, fs, n) /\ a.f.open
    BY SeekKeeps
  <2>3. v.f.first # 0
    BY <1>2, <1>4 DEF FileOK
  <2> HIDE DEF a, newPos
  <2>4. saved.ok
    BY <1>4
  <2>5. mid.ok
    BY <2>4
  <2>6. a.ok
    BY <2>5
  <2>7. a.f.first # 0 /\ a.f.pos = length /\ (length = 0 => a.f.cur = 0)
    BY <2>1, <2>3, <2>6 DEF Sought, Moved, SameFile
  <2>8. w.ok /\ x.ok => During(x, fs, n) /\ x.f.open
    BY <2>2, <2>7, CutKeeps
  <2>9. mid = w
    BY <2>6
  <2> HIDE DEF w, mid
  <2>10. saved = x
    BY <2>5, <2>9
  <2> HIDE DEF x, saved
  <2>11. During(saved, fs, n) /\ saved.f.open
    BY <2>4, <2>5, <2>8, <2>9, <2>10
  <2>12. t = seekSet(saved, newPos)
    BY <2>4
  <2> HIDE DEF t
  <2>13. QED
    BY <1>2, <2>11, <2>12, SeekKeeps
<1> HIDE DEF t
<1>5. QED
  BY <1>1, <1>3, <1>4
-------------------------------------------------------------------------------
(* Removing a file *)

LEMMA MarksAreNoNames ==
  /\ DIR_NAME_FREE \notin Names /\ DIR_NAME_DELETED \notin Names
  /\ DIR_NAME_FREE # DIR_NAME_DELETED
BY SdAssumption DEF DIR_NAME_FREE, DIR_NAME_DELETED

LEMMA ClosedIsTyped == ClosedFile \in FileRecords /\ ~ClosedFile.open /\ ~ClosedFile.dirDirty
BY DEF ClosedFile, FileRecords, FatValues

LEMMA EntryRemoved ==
  ASSUME NEW fs, IsFiles(fs), NEW n \in Names, NEW meta, NEW f, Agree(meta, With(fs, n, f)), meta.dir \in Dirs,
         f.open, NEW new, new.fat = meta.fat,
         new.dir = [meta.dir EXCEPT ![f.slot] = [meta.dir[f.slot] EXCEPT !.name = DIR_NAME_DELETED]]
  PROVE  Agree(new, With(fs, n, ClosedFile)) /\ new.dir \in Dirs
<1> DEFINE F == With(fs, n, f)
           G == With(fs, n, ClosedFile)
           dir == meta.dir
           mine == f.slot
<1>1. F[n] = f /\ G[n] = ClosedFile /\ \A m \in Names : m # n => F[m] = fs[m] /\ G[m] = fs[m]
  BY WithIs
<1>2. Sound(meta, Firsts(dir, F)) /\ \A m \in Names : FileOK(F[m], dir, m)
  BY DEF Agree
<1> HIDE DEF F, G
<1>3. mine \in 1..DirSlots /\ dir[mine].name = n
  BY <1>1, <1>2 DEF FileOK
<1>4. PICK e : e = [dir[mine] EXCEPT !.name = DIR_NAME_DELETED]
  OBVIOUS
<1>5. e \in Entries /\ e.name = DIR_NAME_DELETED
  <2>1. dir[mine] \in Entries
    BY <1>3 DEF Dirs
  <2>2. QED
    BY <1>4, <2>1 DEF Entries
<1>6. new.dir = [dir EXCEPT ![mine] = e]
  BY <1>4
<1>7. new.dir \in Dirs /\ new.dir[mine] = e /\ \A t \in 1..DirSlots : t # mine => new.dir[t] = dir[t]
  BY <1>3, <1>5, <1>6 DEF Dirs
<1>8. dir \in Dirs
  OBVIOUS
<1> HIDE DEF dir, mine
<1>9. DirOK(dir)
  BY <1>2 DEF Sound, dir
<1>10. DirOK(new.dir)
  <2>1. \A p, q \in 1..DirSlots : new.dir[p].name = new.dir[q].name /\ new.dir[p].name \in Names => p = q
    BY <1>5, <1>7, <1>9, MarksAreNoNames DEF DirOK
  <2>2. ASSUME NEW p \in 1..DirSlots, NEW q \in 1..DirSlots, p < q, new.dir[p].name = DIR_NAME_FREE
        PROVE  new.dir[q].name = DIR_NAME_FREE
    <3>1. p # mine /\ dir[p].name = DIR_NAME_FREE
      BY <1>5, <1>7, <2>2, MarksAreNoNames
    <3>2. dir[q].name = DIR_NAME_FREE
      BY <1>9, <2>2, <3>1 DEF DirOK
    <3>3. q # mine
      BY <1>3, <3>2, MarksAreNoNames
    <3>4. QED
      BY <1>7, <3>2, <3>3
  <2>3. \A p \in 1..DirSlots : new.dir[p].name \in Names /\ new.dir[p].first = 0 => new.dir[p].size = 0
    BY <1>5, <1>7, <1>9, MarksAreNoNames DEF DirOK
  <2>4. QED
    BY <2>1, <2>2, <2>3 DEF DirOK
<1>11. FirstIn(new.dir, n) = 0
  <2>1. \A t \in 1..DirSlots : new.dir[t].name # n
    BY <1>3, <1>5, <1>7, <1>9, MarksAreNoNames DEF DirOK
  <2>2. QED
    BY <1>7, <2>1, NoEntryOfName
<1>12. ASSUME NEW m \in Names, m # n PROVE FirstIn(new.dir, m) = FirstIn(dir, m)
  <2>1. \A t \in 1..DirSlots : (new.dir[t].name = m <=> dir[t].name = m)
                                /\ (dir[t].name = m => new.dir[t].first = dir[t].first)
    BY <1>3, <1>5, <1>7, <1>12, MarksAreNoNames
  <2>2. QED
    BY <1>7, <1>8, <1>9, <1>10, <2>1, FirstStays
<1> DEFINE old == Firsts(dir, F)
           less == Firsts(new.dir, G)
<1>13. /\ \A m \in Names : old[m] = IF F[m].open THEN F[m].first ELSE FirstIn(dir, m)
       /\ \A m \in Names : less[m] = IF G[m].open THEN G[m].first ELSE FirstIn(new.dir, m)
  BY DEF Firsts
<1> HIDE DEF old, less
<1>14. \A m \in Names : less[m] = 0 \/ less[m] = old[m]
  BY <1>1, <1>11, <1>12, <1>13, ClosedIsTyped
<1>15. Sound(meta, old)
  BY <1>2 DEF old
<1>16. Sound(meta, less)
  BY <1>14, <1>15, FewerAreSound
<1>17. Sound(new, less)
  BY <1>10, <1>16 DEF Sound
<1>18. ASSUME NEW m \in Names PROVE FileOK(G[m], new.dir, m)
  <2>1. CASE m = n
    BY <1>1, <2>1, ClosedIsTyped DEF FileOK
  <2>2. CASE m # n
    <3>1. G[m] = F[m] /\ FileOK(G[m], dir, m)
      BY <1>1, <1>2, <2>2
    <3>2. G[m].open => G[m].slot \in 1..DirSlots /\ G[m].slot # mine
      BY <1>3, <2>2, <3>1 DEF FileOK
    <3>3. QED
      BY <1>7, <3>1, <3>2 DEF FileOK
  <2>3. QED
    BY <2>1, <2>2
<1>19. QED
  BY <1>7, <1>17, <1>18 DEF Agree, G, less

Erased(v) == [v EXCEPT !.buf[v.f.slot].name = DIR_NAME_DELETED, !.f = ClosedFile]

LEMMA ErasedIs ==
  ASSUME NEW v, Shape(v), NEW s, s = v.f.slot
  PROVE  LET w == Erased(v) IN
         /\ Shape(w) /\ w.block = v.block /\ w.disk = v.disk /\ w.mirror = v.mirror /\ w.dirty = v.dirty
         /\ w.search = v.search /\ w.f = ClosedFile
         /\ w.buf = [v.buf EXCEPT ![s] = [v.buf[s] EXCEPT !.name = DIR_NAME_DELETED]]
<1> DEFINE w == Erased(v)
<1>1. PICK dir : dir = [v.buf EXCEPT ![s] = [v.buf[s] EXCEPT !.name = DIR_NAME_DELETED]]
  OBVIOUS
<1>2. w = [v EXCEPT !.buf = dir, !.f = ClosedFile]
  BY <1>1 DEF Shape, Erased
<1>3. /\ Shape(w) /\ w.block = v.block /\ w.disk = v.disk /\ w.mirror = v.mirror /\ w.dirty = v.dirty
      /\ w.search = v.search /\ w.buf = dir /\ w.f = ClosedFile
  BY <1>2 DEF Shape
<1> HIDE DEF w
<1>4. QED
  BY <1>1, <1>3 DEF w

LEMMA RemoveKeeps ==
  ASSUME NEW fs, IsFiles(fs), NEW n \in Names, NEW v, During(v, fs, n), v.f.open
  PROVE  remove(v).ok => During(remove(v), fs, n)
<1> DEFINE t == truncate(v, 0)
           u == IF t.ok THEN cacheRawBlock(t, DirBlock, TRUE) ELSE t
           z == Erased(u)
           w == IF u.ok THEN cacheFlush(z) ELSE u
<1>1. remove(v) = w
  BY DEF remove, Then, Erased
<1>2. SUFFICES ASSUME w.ok PROVE During(w, fs, n)
  BY <1>1
<1>3. t.ok => During(t, fs, n) /\ t.f.open
  BY TruncateKeeps
<1> HIDE DEF t
<1>4. u.ok
  BY <1>2
<1>5. t.ok /\ u = cacheRawBlock(t, DirBlock, TRUE)
  BY <1>4
<1> HIDE DEF u
<1>6. Fits(t, fs, n) /\ VolumeOK(t)
  BY <1>3, <1>5, DuringIs DEF Fits
<1>7. Cached(t, u, DirBlock, TRUE)
  BY <1>5, <1>6, CacheKeeps
<1>8. Fits(u, fs, n) /\ u.f = t.f /\ u.block = DirBlock /\ u.dirty
  BY <1>4, <1>6, <1>7, KeptFits DEF Cached
<1>9. VolumeOK(u) /\ Shape(u) /\ u.search \in Nat /\ u.f.open /\ Agree(Meta(Seen(u)), With(fs, n, u.f))
  BY <1>3, <1>5, <1>8, FileFits DEF Fits
<1>10. u.buf = Meta(Seen(u)).dir /\ u.buf \in Dirs
  BY <1>8, <1>9, CachedDir
<1>11. PICK s : s = u.f.slot
  OBVIOUS
<1>12. /\ Shape(z) /\ z.block = u.block /\ z.disk = u.disk /\ z.mirror = u.mirror /\ z.dirty = u.dirty
       /\ z.search = u.search /\ z.f = ClosedFile
       /\ z.buf = [u.buf EXCEPT ![s] = [u.buf[s] EXCEPT !.name = DIR_NAME_DELETED]]
  BY <1>9, <1>11, ErasedIs
<1> HIDE DEF z
<1>13. PICK new : new = [fat |-> Meta(Seen(u)).fat, dir |-> z.buf]
  OBVIOUS
<1>14. new.fat = Meta(Seen(u)).fat /\ new.dir = z.buf
  BY <1>13
<1>15. new.dir = [Meta(Seen(u)).dir EXCEPT ![u.f.slot] = [Meta(Seen(u)).dir[u.f.slot] EXCEPT !.name = DIR_NAME_DELETED]]
  BY <1>10, <1>11, <1>12, <1>14
<1>16. Meta(Seen(u)).dir \in Dirs
  BY <1>10
<1>17. Agree(new, With(fs, n, ClosedFile)) /\ new.dir \in Dirs
  <2> HIDE DEF Meta
  <2>1. QED
    BY <1>9, <1>14, <1>15, <1>16, EntryRemoved
<1>18. VolumeOK(z) /\ Meta(Seen(z)).dir = z.buf /\ Meta(Seen(z)).fat = Meta(Seen(u)).fat
  BY <1>8, <1>9, <1>12, <1>14, <1>17, DirIsReplaced
<1>19. Meta(Seen(z)) = new
  BY <1>13, <1>18 DEF Meta
<1>20. Fits(z, fs, n) /\ ~z.f.dirDirty
  BY <1>9, <1>12, <1>17, <1>18, <1>19, ClosedIsTyped DEF Fits
<1>21. Synced(z, cacheFlush(z), fs, n)
  BY <1>20, FlushSyncs
<1>22. w = cacheFlush(z)
  BY <1>4
<1> HIDE DEF w
<1>23. QED
  BY <1>2, <1>21, <1>22, CardIsSeen DEF Synced
-------------------------------------------------------------------------------
(* Opening a file *)

(* A set of numbers has a least one.                                        *)
LEMMA LeastIs ==
  ASSUME NEW S, S \subseteq Nat, S # {}
  PROVE  Least(S) \in S
<1> DEFINE T == {k \in Nat : (\E j \in S : j <= k) => \E s \in S : \A r \in S : s <= r}
<1>1. 0 \in T
  <2>1. SUFFICES ASSUME NEW j \in S, j <= 0 PROVE \A r \in S : j <= r
    OBVIOUS
  <2>2. QED
    BY <2>1
<1>2. ASSUME NEW k \in Nat, k \in T PROVE k + 1 \in T
  <2>1. SUFFICES ASSUME NEW j \in S, j <= k + 1 PROVE \E s \in S : \A r \in S : s <= r
    OBVIOUS
  <2>2. CASE \E i \in S : i <= k
    BY <1>2, <2>2
  <2>3. CASE \A i \in S : ~(i <= k)
    BY <2>1, <2>3
  <2>4. QED
    BY <2>2, <2>3
<1> HIDE DEF T
<1>3. Nat \subseteq T
  BY <1>1, <1>2, Following!AllNumbers
<1>4. PICK j : j \in S
  OBVIOUS
<1>8. j \in Nat /\ j \in T /\ j <= j
  BY <1>3, <1>4
<1>5. \E s \in S : \A r \in S : s <= r
  BY <1>4, <1>8 DEF T
<1>6. QED
  BY <1>5 DEF Least

LEMMA FoundIsEntry ==
  ASSUME NEW dir \in Dirs, DirOK(dir), NEW n \in Names
  PROVE  /\ Found(dir, n) # {} => Least(Found(dir, n)) \in 1..DirSlots /\ dir[Least(Found(dir, n))].name = n
         /\ Found(dir, n) = {} => \A s \in 1..DirSlots : dir[s].name # n
<1>1. ASSUME NEW s \in 1..DirSlots, dir[s].name = n PROVE s \in Found(dir, n)
  <2>1. \A r \in 1..s : dir[r].name = DIR_NAME_FREE => r = s
    <3>1. SUFFICES ASSUME NEW r \in 1..s, dir[r].name = DIR_NAME_FREE, r # s PROVE FALSE
      OBVIOUS
    <3>2. r \in 1..DirSlots /\ r < s
      BY <3>1, SdAssumption
    <3>3. dir[s].name = DIR_NAME_FREE
      BY <3>1, <3>2 DEF DirOK
    <3>4. QED
      BY <1>1, <3>3, MarksAreNoNames
  <2>2. QED
    BY <1>1, <2>1 DEF Found, Searched
<1>2. ASSUME Found(dir, n) # {} PROVE Least(Found(dir, n)) \in Found(dir, n)
  <2>1. Found(dir, n) \subseteq Nat
    BY DEF Found, Searched
  <2>2. QED
    BY <1>2, <2>1, LeastIs
<1>3. \A s \in Found(dir, n) : s \in 1..DirSlots /\ dir[s].name = n
  BY DEF Found, Searched
<1>4. QED
  BY <1>1, <1>2, <1>3

LEMMA UnusedIsEntry ==
  ASSUME NEW dir \in Dirs, Unused(dir) # {}
  PROVE  LET s == Least(Unused(dir)) IN
         /\ s \in 1..DirSlots /\ dir[s].name \notin Names
         /\ \A r \in 1..DirSlots : dir[r].name = DIR_NAME_FREE => ~(r < s)
<1>1. Unused(dir) \subseteq Nat
  BY DEF Unused, Searched
<1>2. PICK s : s = Least(Unused(dir))
  OBVIOUS
<1>3. s \in Unused(dir)
  BY <1>1, <1>2, LeastIs
<1>4. /\ s \in 1..DirSlots /\ dir[s].name \in {DIR_NAME_FREE, DIR_NAME_DELETED}
      /\ \A r \in 1..s : dir[r].name = DIR_NAME_FREE => r = s
  BY <1>3 DEF Unused, Searched
<1>5. ASSUME NEW r \in 1..DirSlots, dir[r].name = DIR_NAME_FREE PROVE ~(r < s)
  <2>1. r < s => r \in 1..s
    BY <1>4
  <2>2. QED
    BY <1>4, <1>5, <2>1
<1>6. QED
  BY <1>2, <1>4, <1>5, MarksAreNoNames

(* A new entry, of a name that no entry has.                                *)
Vacant(dir, s, n) ==
  /\ \A t \in 1..DirSlots : dir[t].name # n
  /\ s \in 1..DirSlots /\ dir[s].name \notin Names
  /\ \A r \in 1..DirSlots : dir[r].name = DIR_NAME_FREE => ~(r < s)

NameAdded(dir, s, n) == [dir EXCEPT ![s] = [NoEntry EXCEPT !.name = n]]

LEMMA EntryAdded ==
  ASSUME NEW fs, IsFiles(fs), NEW n \in Names, NEW meta, NEW f, Agree(meta, With(fs, n, f)), meta.dir \in Dirs,
         ~f.open, NEW s, Vacant(meta.dir, s, n), NEW new, new.fat = meta.fat, new.dir = NameAdded(meta.dir, s, n)
  PROVE  Agree(new, With(fs, n, f)) /\ new.dir \in Dirs /\ new.dir[s].name = n
<1> DEFINE F == With(fs, n, f)
           dir == meta.dir
<1>1. F[n] = f
  BY WithIs
<1>2. Sound(meta, Firsts(dir, F)) /\ \A m \in Names : FileOK(F[m], dir, m)
  BY DEF Agree
<1> HIDE DEF F
<1>4. PICK e : e = [NoEntry EXCEPT !.name = n]
  OBVIOUS
<1>5. e \in Entries /\ e.name = n /\ e.first = 0 /\ e.size = 0
  BY <1>4 DEF Entries, NoEntry
<1>6. new.dir = [dir EXCEPT ![s] = e]
  BY <1>4 DEF NameAdded
<1>8. /\ dir \in Dirs /\ dir[s].name \notin Names /\ \A t \in 1..DirSlots : dir[t].name # n
      /\ s \in 1..DirSlots /\ \A r \in 1..DirSlots : dir[r].name = DIR_NAME_FREE => ~(r < s)
  BY DEF Vacant
<1>7. new.dir \in Dirs /\ new.dir[s] = e /\ \A t \in 1..DirSlots : t # s => new.dir[t] = dir[t]
  BY <1>5, <1>6, <1>8 DEF Dirs
<1> HIDE DEF dir
<1>9. DirOK(dir)
  BY <1>2 DEF Sound, dir
<1>10. DirOK(new.dir)
  <2>1. \A p, q \in 1..DirSlots : new.dir[p].name = new.dir[q].name /\ new.dir[p].name \in Names => p = q
    BY <1>5, <1>7, <1>8, <1>9 DEF DirOK
  <2>2. ASSUME NEW p \in 1..DirSlots, NEW q \in 1..DirSlots, p < q, new.dir[p].name = DIR_NAME_FREE
        PROVE  new.dir[q].name = DIR_NAME_FREE
    <3>1. p # s /\ dir[p].name = DIR_NAME_FREE
      BY <1>5, <1>7, <2>2, MarksAreNoNames
    <3>2. dir[q].name = DIR_NAME_FREE
      BY <1>9, <2>2, <3>1 DEF DirOK
    <3>3. q # s
      BY <1>8, <2>2, <3>1
    <3>4. QED
      BY <1>7, <3>2, <3>3
  <2>3. \A p \in 1..DirSlots : new.dir[p].name \in Names /\ new.dir[p].first = 0 => new.dir[p].size = 0
    BY <1>5, <1>7, <1>9 DEF DirOK
  <2>4. QED
    BY <2>1, <2>2, <2>3 DEF DirOK
<1>11. FirstIn(new.dir, n) = 0 /\ FirstIn(dir, n) = 0
  <2>1. FirstIn(dir, n) = 0
    BY <1>8, NoEntryOfName
  <2>2. new.dir[s].name = n /\ new.dir[s].first = 0
    BY <1>5, <1>7
  <2>3. QED
    BY <1>7, <1>8, <1>10, <2>1, <2>2, EntryOfName
<1>12. ASSUME NEW m \in Names, m # n PROVE FirstIn(new.dir, m) = FirstIn(dir, m)
  <2>1. \A t \in 1..DirSlots : (new.dir[t].name = m <=> dir[t].name = m)
                                /\ (dir[t].name = m => new.dir[t].first = dir[t].first)
    BY <1>5, <1>7, <1>8, <1>12
  <2>2. QED
    BY <1>7, <1>8, <1>9, <1>10, <2>1, FirstStays
<1>13. \A m \in Names : (IF F[m].open THEN F[m].first ELSE FirstIn(new.dir, m))
                        = (IF F[m].open THEN F[m].first ELSE FirstIn(dir, m))
  BY <1>11, <1>12
<1>14. Firsts(new.dir, F) = Firsts(dir, F)
  BY <1>13 DEF Firsts
<1>15. Sound(new, Firsts(new.dir, F))
  BY <1>2, <1>10, <1>14 DEF Sound
<1>16. ASSUME NEW m \in Names PROVE FileOK(F[m], new.dir, m)
  <2>1. FileOK(F[m], dir, m)
    BY <1>2
  <2>2. F[m].open => F[m].slot \in 1..DirSlots /\ F[m].slot # s
    BY <1>8, <2>1 DEF FileOK
  <2>3. QED
    BY <1>7, <2>1, <2>2 DEF FileOK
<1>17. QED
  BY <1>5, <1>7, <1>15, <1>16 DEF Agree, F

(* The file of an entry.                                                    *)
EntryFile(e, s, mode) ==
  [ClosedFile EXCEPT !.open = TRUE, !.write = mode # "read", !.slot = s, !.first = e.first, !.size = e.size]

LEMMA EntryIsOpened ==
  ASSUME NEW fs, IsFiles(fs), NEW n \in Names, NEW meta, NEW f, Agree(meta, With(fs, n, f)), meta.dir \in Dirs,
         ~f.open, NEW s \in 1..DirSlots, meta.dir[s].name = n, NEW mode
  PROVE  LET g == EntryFile(meta.dir[s], s, mode) IN Agree(meta, With(fs, n, g)) /\ g.open
<1>1. PICK g : g = EntryFile(meta.dir[s], s, mode)
  OBVIOUS
<1> DEFINE F == With(fs, n, f)
           G == With(fs, n, g)
           dir == meta.dir
<1>2. F[n] = f /\ G[n] = g /\ \A m \in Names : m # n => F[m] = G[m]
  BY WithIs
<1>3. Sound(meta, Firsts(dir, F)) /\ \A m \in Names : FileOK(F[m], dir, m)
  BY DEF Agree
<1> HIDE DEF F, G
<1>4. DirOK(dir) /\ dir \in Dirs
  BY <1>3 DEF Sound
<1>5. dir[s] \in Entries
  BY <1>4 DEF Dirs
<1>6. /\ g \in FileRecords /\ g.open /\ g.slot = s /\ g.first = dir[s].first /\ g.size = dir[s].size
      /\ g.cur = 0 /\ g.pos = 0
  <2>1. PICK first, size : first = dir[s].first /\ size = dir[s].size
    OBVIOUS
  <2>2. PICK b \in BOOLEAN : b = (mode # "read")
    OBVIOUS
  <2>3. first \in {0} \cup Clusters /\ size \in Nat /\ s \in Nat /\ 0 \in FatValues
    BY <1>5, <2>1 DEF Entries, FatValues
  <2>4. g = [open |-> TRUE, write |-> b, slot |-> s, first |-> first, cur |-> 0, pos |-> 0,
             size |-> size, dirDirty |-> FALSE]
    BY <1>1, <2>1, <2>2 DEF EntryFile, ClosedFile
  <2>5. QED
    BY <2>1, <2>3, <2>4 DEF FileRecords
<1>7. FirstIn(dir, n) = g.first
  BY <1>4, <1>6, EntryOfName
<1>8. \A m \in Names : (IF G[m].open THEN G[m].first ELSE FirstIn(dir, m))
                       = (IF F[m].open THEN F[m].first ELSE FirstIn(dir, m))
  BY <1>2, <1>6, <1>7
<1>9. Firsts(dir, G) = Firsts(dir, F)
  BY <1>8 DEF Firsts
<1>10. FileOK(g, dir, n)
  BY <1>4, <1>6 DEF FileOK, DirOK
<1>11. \A m \in Names : FileOK(G[m], dir, m)
  BY <1>2, <1>3, <1>10
<1>12. Agree(meta, G)
  BY <1>3, <1>9, <1>11 DEF Agree
<1>13. QED
  BY <1>1, <1>6, <1>12 DEF G

LEMMA FileIsSet ==
  ASSUME NEW v, VolumeOK(v), NEW f
  PROVE  LET w == [v EXCEPT !.f = f] IN
         /\ VolumeOK(w) /\ Seen(w) = Seen(v) /\ w.disk = v.disk /\ w.search = v.search /\ w.f = f
         /\ w.ok = v.ok
<1> DEFINE w == [v EXCEPT !.f = f]
<1>1. Shape(v)
  BY DEF VolumeOK
<1>2. /\ Shape(w) /\ w.f = f /\ w.search = v.search /\ w.disk = v.disk /\ w.block = v.block
      /\ w.buf = v.buf /\ w.dirty = v.dirty /\ w.mirror = v.mirror /\ w.ok = v.ok
  BY <1>1 DEF Shape
<1> HIDE DEF w
<1>3. VolumeOK(w) /\ Seen(w) = Seen(v)
  BY <1>2, OtherFields
<1>4. QED
  BY <1>2, <1>3 DEF w

(* What opening has come to: a failure that frees nothing leaves the file   *)
(* closed.                                                                  *)
Opened(w, fs, n, mode) ==
  /\ w.ok \/ mode # "truncate" => During(w, fs, n)
  /\ w.ok => w.f.open
  /\ ~w.ok /\ mode # "truncate" => ~w.f.open

LEMMA CachedEntryOpens ==
  ASSUME NEW fs, IsFiles(fs), NEW n \in Names, NEW v, During(v, fs, n), ~v.f.open, v.block = DirBlock,
         v.ok, NEW s \in 1..DirSlots, v.buf[s].name = n, NEW mode
  PROVE  Opened(openCachedEntry(v, s, mode), fs, n, mode)
<1> DEFINE f == EntryFile(v.buf[s], s, mode)
           w == [v EXCEPT !.f = f]
<1>1. openCachedEntry(v, s, mode) = IF mode = "truncate" THEN truncate(w, 0) ELSE w
  BY DEF openCachedEntry, EntryFile
<1>2. VolumeOK(v) /\ Agree(Meta(Seen(v)), With(fs, n, v.f)) /\ v.search \in Nat
  BY FileDuring DEF During, Safe
<1>3. v.buf = Meta(Seen(v)).dir /\ v.buf \in Dirs
  BY <1>2, CachedDir
<1>4. Agree(Meta(Seen(v)), With(fs, n, f)) /\ f.open
  BY <1>2, <1>3, EntryIsOpened
<1> HIDE DEF f
<1>5. VolumeOK(w) /\ Seen(w) = Seen(v) /\ w.disk = v.disk /\ w.search = v.search /\ w.f = f /\ w.ok = v.ok
  BY <1>2, FileIsSet
<1> HIDE DEF w
<1>6. Safe(w, With(fs, n, w.f))
  BY <1>2, <1>4, <1>5, NewViewIsSafe DEF During
<1>7. During(w, fs, n) /\ w.f.open /\ w.ok
  BY <1>4, <1>5, <1>6 DEF During
<1>8. truncate(w, 0).ok => During(truncate(w, 0), fs, n) /\ truncate(w, 0).f.open
  BY <1>7, TruncateKeeps
<1>9. QED
  BY <1>1, <1>7, <1>8 DEF Opened

Named(v, s, n) == [v EXCEPT !.buf[s] = [NoEntry EXCEPT !.name = n], !.dirty = TRUE]

NamedAs(v, w, s, n) ==
  /\ Shape(w) /\ w.block = v.block /\ w.disk = v.disk /\ w.mirror = v.mirror /\ w.dirty
  /\ w.search = v.search /\ w.f = v.f
  /\ w.buf = [v.buf EXCEPT ![s] = [NoEntry EXCEPT !.name = n]]

LEMMA NamedIs ==
  ASSUME NEW v, Shape(v), NEW s, NEW n
  PROVE  NamedAs(v, Named(v, s, n), s, n)
<1> DEFINE w == Named(v, s, n)
<1>1. PICK dir : dir = [v.buf EXCEPT ![s] = [NoEntry EXCEPT !.name = n]]
  OBVIOUS
<1>2. w = [v EXCEPT !.buf = dir, !.dirty = TRUE]
  BY <1>1 DEF Shape, Named
<1>3. /\ Shape(w) /\ w.block = v.block /\ w.disk = v.disk /\ w.mirror = v.mirror /\ w.dirty
      /\ w.search = v.search /\ w.buf = dir /\ w.f = v.f
  BY <1>2 DEF Shape
<1> HIDE DEF w
<1>4. QED
  BY <1>1, <1>3 DEF w, NamedAs

LEMMA NewEntryOpens ==
  ASSUME NEW fs, IsFiles(fs), NEW n \in Names, NEW v, During(v, fs, n), ~v.f.open, ~v.f.dirDirty, v.block = DirBlock,
         v.ok, NEW s, Vacant(v.buf, s, n), NEW mode
  PROVE  LET x == cacheFlush(Named(v, s, n)) IN
         Opened(IF x.ok THEN openCachedEntry(x, s, mode) ELSE x, fs, n, mode)
<1> DEFINE z == Named(v, s, n)
           x == cacheFlush(z)
<1>1. VolumeOK(v) /\ Shape(v) /\ Agree(Meta(Seen(v)), With(fs, n, v.f)) /\ v.search \in Nat /\ CardOK(v)
  BY FileDuring, DuringIs DEF During, Safe
<1>2. v.buf = Meta(Seen(v)).dir /\ v.buf \in Dirs
  BY <1>1, CachedDir
<1>3. /\ Shape(z) /\ z.block = v.block /\ z.disk = v.disk /\ z.mirror = v.mirror /\ z.dirty
      /\ z.search = v.search /\ z.f = v.f
      /\ z.buf = [v.buf EXCEPT ![s] = [NoEntry EXCEPT !.name = n]]
  BY <1>1, NamedIs DEF NamedAs
<1> HIDE DEF z
<1>4. PICK new : new = [fat |-> Meta(Seen(v)).fat, dir |-> z.buf]
  OBVIOUS
<1>5. new.fat = Meta(Seen(v)).fat /\ new.dir = z.buf
  BY <1>4
<1>6. PICK meta : meta = Meta(Seen(v))
  OBVIOUS
<1>7. /\ meta.dir = v.buf /\ new.fat = meta.fat /\ new.dir = NameAdded(meta.dir, s, n)
      /\ Agree(meta, With(fs, n, v.f)) /\ meta.dir \in Dirs /\ Vacant(meta.dir, s, n)
  BY <1>1, <1>2, <1>3, <1>5, <1>6 DEF NameAdded
<1>8. Agree(new, With(fs, n, v.f)) /\ new.dir \in Dirs /\ new.dir[s].name = n
  BY <1>7, EntryAdded
<1>9. VolumeOK(z) /\ Meta(Seen(z)).dir = z.buf /\ Meta(Seen(z)).fat = Meta(Seen(v)).fat
  BY <1>1, <1>3, <1>5, <1>8, DirIsReplaced
<1>10. Meta(Seen(z)) = new
  BY <1>4, <1>9 DEF Meta
<1>11. Fits(z, fs, n) /\ ~z.f.dirDirty /\ CardOK(z)
  BY <1>1, <1>3, <1>8, <1>9, <1>10 DEF Fits, CardOK
<1>12. Synced(z, x, fs, n)
  BY <1>11, FlushSyncs
<1>13. Kept(z, x) /\ x.block = z.block /\ x.buf = z.buf
  BY <1>9, FlushKeeps
<1> HIDE DEF x
<1>14. During(x, fs, n) /\ ~x.f.open /\ x.block = DirBlock /\ x.buf[s].name = n
      /\ s \in 1..DirSlots
  BY <1>3, <1>5, <1>8, <1>11, <1>12, <1>13, DuringIs DEF Synced, Kept, Same, Vacant
<1>15. x.ok => Opened(openCachedEntry(x, s, mode), fs, n, mode)
  BY <1>14, CachedEntryOpens
<1>16. Opened(IF x.ok THEN openCachedEntry(x, s, mode) ELSE x, fs, n, mode)
  <2>1. CASE x.ok
    BY <1>15, <2>1
  <2>2. CASE ~x.ok
    BY <1>14, <2>2 DEF Opened
  <2>3. QED
    BY <2>1, <2>2
<1>17. QED
  BY <1>16 DEF x, z

LEMMA OpenFileGives ==
  ASSUME NEW fs, IsFiles(fs), NEW n \in Names, NEW v, During(v, fs, n), ~v.f.open, ~v.f.dirDirty, NEW mode
  PROVE  Opened(openFile(v, n, mode), fs, n, mode)
<1> DEFINE w == cacheRawBlock(v, DirBlock, FALSE)
           old == Least(Found(w.buf, n))
           s == Least(Unused(w.buf))
           x == cacheFlush(Named(w, s, n))
           made == IF x.ok THEN openCachedEntry(x, s, mode) ELSE x
           last == IF Found(w.buf, n) # {} THEN openCachedEntry(w, old, mode)
                   ELSE IF mode = "read" \/ Unused(w.buf) = {} THEN Fail(w) ELSE made
<1>1. openFile(v, n, mode) = IF w.ok THEN last ELSE w
  BY DEF openFile, Then, Named
<1>2. VolumeOK(v)
  BY FileDuring
<1>3. Cached(v, w, DirBlock, FALSE)
  BY <1>2, CacheKeeps
<1> HIDE DEF w
<1>4. During(w, fs, n) /\ w.f = v.f
  BY <1>3, KeptIsViewed, ViewedDuring DEF Cached
<1>5. CASE ~w.ok
  BY <1>1, <1>4, <1>5 DEF Opened
<1>6. CASE w.ok
  <2>1. w.block = DirBlock /\ VolumeOK(w) /\ DirOK(Meta(Seen(w)).dir)
    BY <1>3, <1>4, <1>6, FileDuring, SafeIsTyped DEF Cached, During
  <2>2. w.buf = Meta(Seen(w)).dir /\ w.buf \in Dirs
    BY <2>1, CachedDir
  <2>3. CASE Found(w.buf, n) # {}
    <3>1. old \in 1..DirSlots /\ w.buf[old].name = n
      BY <2>1, <2>2, <2>3, FoundIsEntry
    <3> HIDE DEF old
    <3>2. Opened(openCachedEntry(w, old, mode), fs, n, mode)
      BY <1>4, <1>6, <2>1, <3>1, CachedEntryOpens
    <3>3. QED
      BY <1>1, <1>6, <2>3, <3>2
  <2>4. CASE Found(w.buf, n) = {} /\ (mode = "read" \/ Unused(w.buf) = {})
    <3>1. During(Fail(w), fs, n) /\ Fail(w).f = w.f /\ ~Fail(w).ok
      BY <1>4, <2>1, FailIsViewed, ViewedDuring
    <3>2. openFile(v, n, mode) = Fail(w)
      BY <1>1, <1>6, <2>4
    <3>3. mode # "truncate" \/ Unused(w.buf) = {}
      BY <2>4
    <3>4. QED
      BY <1>4, <3>1, <3>2 DEF Opened
  <2>5. CASE Found(w.buf, n) = {} /\ ~(mode = "read" \/ Unused(w.buf) = {})
    <3>1. /\ s \in 1..DirSlots /\ w.buf[s].name \notin Names
          /\ \A r \in 1..DirSlots : w.buf[r].name = DIR_NAME_FREE => ~(r < s)
      BY <2>2, <2>5, UnusedIsEntry
    <3>2. \A t \in 1..DirSlots : w.buf[t].name # n
      BY <2>1, <2>2, <2>5, FoundIsEntry
    <3> HIDE DEF s
    <3>3. Vacant(w.buf, s, n)
      BY <3>1, <3>2 DEF Vacant
    <3>4. Opened(made, fs, n, mode)
      BY <1>4, <1>6, <2>1, <3>3, NewEntryOpens
    <3> HIDE DEF made
    <3>5. QED
      BY <1>1, <1>6, <2>5, <3>4
  <2>6. QED
    BY <2>3, <2>4, <2>5
<1>7. QED
  BY <1>5, <1>6

LEMMA OkIsSet ==
  ASSUME NEW v, VolumeOK(v)
  PROVE  Viewed(v, [v EXCEPT !.ok = TRUE])
<1> DEFINE w == [v EXCEPT !.ok = TRUE]
<1>1. Shape(v)
  BY DEF VolumeOK
<1>2. /\ Shape(w) /\ w.f = v.f /\ w.search = v.search /\ w.disk = v.disk /\ w.block = v.block
      /\ w.buf = v.buf /\ w.dirty = v.dirty /\ w.mirror = v.mirror
  BY <1>1 DEF Shape
<1> HIDE DEF w
<1>3. VolumeOK(w) /\ Seen(w) = Seen(v)
  BY <1>2, OtherFields
<1>4. QED
  BY <1>2, <1>3 DEF Viewed, SameView, w

LEMMA OpenGives ==
  ASSUME NEW fs, IsFiles(fs), NEW n \in Names, NEW v, During(v, fs, n), ~v.f.open, ~v.f.dirDirty, NEW mode
  PROVE  Opened(SDopen(v, n, mode), fs, n, mode)
<1> DEFINE w == openFile(v, n, mode)
           sought == seekSet(w, w.f.size)
           x == [sought EXCEPT !.ok = TRUE]
<1>1. SDopen(v, n, mode) = IF w.ok /\ mode # "read" THEN x ELSE w
  BY DEF SDopen, Then
<1>2. Opened(w, fs, n, mode)
  BY OpenFileGives
<1> HIDE DEF w
<1>3. ASSUME w.ok PROVE Opened(x, fs, n, mode)
  <2>1. During(w, fs, n) /\ w.f.open
    BY <1>2, <1>3 DEF Opened
  <2>2. w.f.size \in Nat
    BY <2>1, FileDuring DEF FileRecords
  <2>3. During(sought, fs, n) /\ sought.f.open
    BY <2>1, <2>2, SeekKeeps
  <2> HIDE DEF sought
  <2>4. Viewed(sought, x) /\ VolumeOK(sought)
    BY <2>3, OkIsSet, FileDuring
  <2>5. x.ok
    BY <2>4 DEF VolumeOK, Shape
  <2> HIDE DEF x
  <2>6. During(x, fs, n) /\ x.f = sought.f
    BY <2>3, <2>4, ViewedDuring
  <2>7. QED
    BY <2>3, <2>5, <2>6 DEF Opened
<1> HIDE DEF x
<1>4. QED
  BY <1>1, <1>2, <1>3
-------------------------------------------------------------------------------
(* Calls *)

(* What a volume is to a call, by the variables.                            *)
VolumeOf(card, kept, start, f, fault) ==
  [disk |-> card, block |-> kept.block, buf |-> kept.buf, dirty |-> kept.dirty,
   mirror |-> kept.mirror, search |-> start, f |-> f, fault |-> fault, n |-> 0,
   ok |-> TRUE, next |-> 0, free |-> 0, got |-> <<>>, out |-> <<>>]

LEMMA VolumeOfIs ==
  ASSUME NEW card, NEW kept, NEW start, NEW f, NEW fault
  PROVE  LET v == VolumeOf(card, kept, start, f, fault) IN
         /\ v.disk = card /\ v.block = kept.block /\ v.buf = kept.buf /\ v.dirty = kept.dirty
         /\ v.mirror = kept.mirror /\ v.search = start /\ v.f = f
         /\ kept.dirty \in BOOLEAN => Shape(v)
<1>1. PICK v : v = VolumeOf(card, kept, start, f, fault)
  OBVIOUS
<1>2. /\ v.disk = card /\ v.block = kept.block /\ v.buf = kept.buf /\ v.dirty = kept.dirty
      /\ v.mirror = kept.mirror /\ v.search = start /\ v.f = f
  BY <1>1 DEF VolumeOf
<1>3. kept.dirty \in BOOLEAN => Shape(v)
  BY <1>1 DEF VolumeOf, Shape
<1>4. QED
  BY <1>1, <1>2, <1>3

LEMMA VolumeIs ==
  ASSUME NEW f, NEW fault
  PROVE  LET v == Volume(f, fault) IN
         /\ v.disk = disk /\ v.block = cache.block /\ v.buf = cache.buf /\ v.dirty = cache.dirty
         /\ v.mirror = cache.mirror /\ v.search = searchStart /\ v.f = f
         /\ cache.dirty \in BOOLEAN => Shape(v)
<1>1. Volume(f, fault) = VolumeOf(disk, cache, searchStart, f, fault)
  BY DEF Volume, VolumeOf
<1>2. QED
  BY <1>1, VolumeOfIs

LEMMA CallStarts ==
  ASSUME Safe(Volume(ClosedFile, NoFault), files), NEW f, NEW fault
  PROVE  Safe(Volume(f, fault), files) /\ Volume(f, fault).f = f
<1> DEFINE u == Volume(ClosedFile, NoFault)
           v == Volume(f, fault)
<1>1. /\ u.disk = disk /\ u.block = cache.block /\ u.buf = cache.buf /\ u.dirty = cache.dirty
      /\ u.mirror = cache.mirror /\ u.search = searchStart
  BY VolumeIs
<1>2. /\ v.disk = disk /\ v.block = cache.block /\ v.buf = cache.buf /\ v.dirty = cache.dirty
      /\ v.mirror = cache.mirror /\ v.search = searchStart /\ v.f = f /\ (cache.dirty \in BOOLEAN => Shape(v))
  BY VolumeIs
<1> HIDE DEF u, v
<1>3. VolumeOK(u) /\ Shape(u) /\ Safe(u, files) /\ u.search \in Nat
  BY DEF Safe, VolumeOK, u
<1>4. cache.dirty \in BOOLEAN
  BY <1>1, <1>3 DEF Shape
<1>5. VolumeOK(v) /\ Seen(v) = Seen(u)
  BY <1>1, <1>2, <1>3, <1>4, OtherFields
<1>6. Safe(v, files)
  BY <1>1, <1>2, <1>3, <1>5, SafeStays
<1>7. QED
  BY <1>2, <1>6 DEF v

LEMMA OpenCallStarts ==
  ASSUME Safe(Volume(ClosedFile, NoFault), files), IsFiles(files), NEW n \in Names, NEW fault
  PROVE  LET v == Volume(files[n], fault) IN During(v, files, n) /\ v.f = files[n]
<1>1. With(files, n, files[n]) = files
  BY DEF IsFiles, With
<1>2. QED
  BY <1>1, CallStarts DEF During

LEMMA ClosedCallStarts ==
  ASSUME Safe(Volume(ClosedFile, NoFault), files), IsFiles(files), NEW n \in Names, ~files[n].open, NEW fault
  PROVE  LET v == Volume(ClosedFile, fault) IN During(v, files, n) /\ v.f = ClosedFile
<1> DEFINE v == Volume(ClosedFile, fault)
<1>1. With(files, n, files[n]) = files
  BY DEF IsFiles, With
<1>2. Safe(v, files) /\ v.f = ClosedFile
  BY CallStarts
<1> HIDE DEF v
<1>3. Agree(Meta(Seen(v)), With(files, n, files[n])) /\ Meta(Seen(v)).dir \in Dirs /\ VolumeOK(v) /\ v.search \in Nat
  BY <1>1, <1>2, SafeIsTyped DEF Safe
<1>4. Agree(Meta(Seen(v)), With(files, n, ClosedFile))
  BY <1>3, ClosedIsTyped, FileIsClosed
<1>5. Safe(v, With(files, n, ClosedFile))
  BY <1>2, <1>3, <1>4, NewViewIsSafe
<1>6. QED
  BY <1>2, <1>5 DEF During, v

(* The variables after a call.                                              *)
Settled == IsFiles(files) /\ (~mounted => \A n \in Names : files[n] = ClosedFile)

LEMMA InvIs == SdInv <=> Settled /\ (interrupted \/ Safe(Volume(ClosedFile, NoFault), files))
BY DEF SdInv, Settled, IsFiles

LEMMA CallSettles ==
  ASSUME Settled, mounted, NEW n \in Names, NEW v, Ends(n, v)
  PROVE  Settled'
<1>1. CASE v.fault.kind = "power"
  <2>1. files' = [m \in Names |-> ClosedFile]
    BY <1>1 DEF Ends, PowerIsLost
  <2>2. QED
    BY <2>1 DEF Settled, IsFiles
<1>2. CASE v.fault.kind # "power"
  <2>1. files' = [files EXCEPT ![n] = v.f] /\ mounted' = mounted
    BY <1>2 DEF Ends, Returns
  <2>2. IsFiles(files')
    BY <2>1 DEF Settled, IsFiles
  <2>3. QED
    BY <2>1, <2>2 DEF Settled, IsFiles
<1>3. QED
  BY <1>1, <1>2

LEMMA CacheOfIs ==
  ASSUME NEW v
  PROVE  LET c == CacheOf(v) IN c.block = v.block /\ c.buf = v.buf /\ c.dirty = v.dirty /\ c.mirror = v.mirror
BY DEF CacheOf

LEMMA CallEnds ==
  ASSUME NEW v, NEW fs, Safe(v, fs), NEW f, NEW fault
  PROVE  Safe(VolumeOf(v.disk, CacheOf(v), v.search, f, fault), fs)
<1> DEFINE w == VolumeOf(v.disk, CacheOf(v), v.search, f, fault)
<1>1. CacheOf(v).block = v.block /\ CacheOf(v).buf = v.buf /\ CacheOf(v).dirty = v.dirty /\ CacheOf(v).mirror = v.mirror
  BY CacheOfIs
<1>2. /\ w.disk = v.disk /\ w.block = v.block /\ w.buf = v.buf /\ w.dirty = v.dirty
      /\ w.mirror = v.mirror /\ w.search = v.search /\ (v.dirty \in BOOLEAN => Shape(w))
  BY <1>1, VolumeOfIs
<1>3. VolumeOK(v) /\ v.dirty \in BOOLEAN /\ v.search \in Nat
  BY DEF Safe, VolumeOK, Shape
<1> HIDE DEF w
<1>4. VolumeOK(w) /\ Seen(w) = Seen(v)
  BY <1>2, <1>3, OtherFields
<1>5. Safe(w, fs)
  BY <1>2, <1>3, <1>4, SafeStays
<1>6. QED
  BY <1>5 DEF w

(* After a loss of power the card is all there is.                          *)
LEMMA ColdIsSafe ==
  ASSUME NEW card, DiskOK(card), Sound(Meta(card), FirstsIn(Meta(card).dir)), NEW start \in Nat,
         NEW fs, fs = [n \in Names |-> ClosedFile], NEW f, NEW fault
  PROVE  Safe(VolumeOf(card, ColdCache, start, f, fault), fs)
<1>0. PICK cold : cold = ColdCache
  OBVIOUS
<1> DEFINE w == VolumeOf(card, cold, start, f, fault)
<1>1. cold.block = NoBlock /\ ~cold.dirty /\ cold.dirty \in BOOLEAN /\ cold.mirror = NoBlock
  BY <1>0 DEF ColdCache
<1>2. /\ w.disk = card /\ w.block = NoBlock /\ ~w.dirty
      /\ w.mirror = NoBlock /\ w.search = start /\ Shape(w)
  <2>1. /\ w.disk = card /\ w.block = cold.block /\ w.dirty = cold.dirty
        /\ w.mirror = cold.mirror /\ w.search = start /\ (cold.dirty \in BOOLEAN => Shape(w))
    BY VolumeOfIs
  <2> HIDE DEF w
  <2>2. QED
    BY <1>1, <2>1
<1> HIDE DEF w
<1>3. VolumeOK(w) /\ Seen(w) = card
  BY <1>2, NoBlockIsNone DEF VolumeOK, CacheOK, Seen
<1>4. Firsts(Meta(card).dir, fs) = FirstsIn(Meta(card).dir)
  BY ClosedIsTyped DEF Firsts, FirstsIn
<1>5. \A n \in Names : FileOK(fs[n], Meta(card).dir, n)
  BY ClosedIsTyped DEF FileOK
<1>6. Agree(Meta(Seen(w)), fs)
  BY <1>3, <1>4, <1>5 DEF Agree
<1>7. Safe(w, fs)
  BY <1>2, <1>3, <1>6 DEF Safe
<1>8. QED
  BY <1>0, <1>7 DEF w

LEMMA EndIsSafe ==
  ASSUME IsFiles(files), NEW n \in Names, NEW v, During(v, files, n), Ends(n, v)
  PROVE  Safe(Volume(ClosedFile, NoFault), files)'
<1>1. Volume(ClosedFile, NoFault)' = VolumeOf(disk', cache', searchStart', ClosedFile, NoFault)
  BY DEF Volume, VolumeOf
<1>2. Safe(VolumeOf(disk', cache', searchStart', ClosedFile, NoFault), files')
  <2>1. CASE v.fault.kind = "power"
    <3>1. disk' = v.disk /\ cache' = ColdCache /\ searchStart' = 2 /\ files' = [m \in Names |-> ClosedFile]
      BY <2>1 DEF Ends, PowerIsLost
    <3>2. DiskOK(v.disk) /\ Sound(Meta(v.disk), FirstsIn(Meta(v.disk).dir))
      BY DEF During, Safe, VolumeOK
    <3>3. QED
      BY <3>1, <3>2, ColdIsSafe
  <2>2. CASE v.fault.kind # "power"
    <3>1. disk' = v.disk /\ cache' = CacheOf(v) /\ searchStart' = v.search /\ files' = With(files, n, v.f)
      BY <2>2 DEF Ends, Returns, With
    <3>2. Safe(v, files')
      BY <3>1 DEF During
    <3>3. QED
      BY <3>1, <3>2, CallEnds
  <2>3. QED
    BY <2>1, <2>2
<1>3. QED
  BY <1>1, <1>2
-------------------------------------------------------------------------------
(* The invariant *)

LEMMA EmptyCardIsOK ==
  /\ DiskOK(EmptyCard) /\ \A s \in 1..DirSlots : EmptyCard[DirBlock][s] = NoEntry
  /\ \A c \in Clusters : FatIn(EmptyCard)[c] = 0
<1> DEFINE d == EmptyCard
<1>1. d = [b \in Blocks |-> d[b]]
  BY DEF EmptyCard
<1>2. ASSUME NEW b \in Blocks, b[1] = "fat" PROVE d[b] = EmptyFat(b[2])
  <2>1. b[1] \in {"fat", "mirror"} /\ b[1] # "data" /\ b # DirBlock
    BY <1>2, DirIsOnCard
  <2>2. QED
    BY <2>1 DEF EmptyCard
<1>3. DirBlock \in Blocks /\ DirBlock[1] = "dir"
  BY DirIsOnCard
<1>4. d[DirBlock] = [s \in 1..DirSlots |-> NoEntry]
  BY <1>3 DEF EmptyCard
<1> HIDE DEF d
<1>5. \A b : EmptyFat(b) \in [FatOf(b) -> FatValues]
  BY DEF EmptyFat, FatValues
<1>6. NoEntry \in Entries
  BY DEF NoEntry, Entries
<1>7. ASSUME NEW b \in Blocks PROVE BlockOK(b, d[b])
  <2>1. b[1] = "fat" => d[b] \in [FatOf(b[2]) -> FatValues]
    BY <1>2, <1>5
  <2>2. b = DirBlock => d[b] \in Dirs
    BY <1>4, <1>6 DEF Dirs
  <2>3. QED
    BY <2>1, <2>2 DEF BlockOK
<1>8. ASSUME NEW c \in Clusters PROVE FatIn(d)[c] = 0
  <2>1. c \in 0..LastCluster
    BY SomeClusters
  <2>2. FatBlock(c) \in Blocks /\ FatBlock(c)[1] = "fat" /\ c \in FatOf(FatBlock(c)[2])
    BY <2>1, FatIsOnCard
  <2>3. d[FatBlock(c)] = EmptyFat(FatBlock(c)[2])
    BY <1>2, <2>2
  <2>4. d[FatBlock(c)][c] = 0
    BY <2>2, <2>3 DEF EmptyFat
  <2>5. QED
    BY <2>1, <2>4 DEF FatIn
<1>9. QED
  BY <1>1, <1>4, <1>7, <1>8 DEF DiskOK, d

LEMMA EmptyCardIsSound == Sound(Meta(EmptyCard), FirstsIn(Meta(EmptyCard).dir))
<1> DEFINE m == Meta(EmptyCard)
           firsts == FirstsIn(m.dir)
<1>1. /\ \A s \in 1..DirSlots : m.dir[s] = NoEntry
      /\ \A c \in Clusters : m.fat[c] = 0
      /\ m.dir \in Dirs
  BY EmptyCardIsOK, MetaIsTyped DEF Meta
<1> HIDE DEF m
<1>2. NoEntry.name = DIR_NAME_FREE /\ NoEntry.first = 0 /\ NoEntry.size = 0
  BY DEF NoEntry
<1>3. DirOK(m.dir)
  BY <1>1, <1>2, MarksAreNoNames DEF DirOK
<1>4. \A n \in Names : FirstIn(m.dir, n) = 0
  BY <1>1, <1>2, MarksAreNoNames, NoEntryOfName
<1>5. \A n \in Names : firsts[n] = 0
  BY <1>4 DEF FirstsIn
<1> HIDE DEF firsts
<1>6. Heads(firsts) = {}
  BY <1>5 DEF Heads
<1>7. Chains(m.fat, Heads(firsts))
  <2>1. 0 \notin Clusters
    BY SomeClusters
  <2>2. QED
    BY <1>1, <1>6, <2>1 DEF Chains
<1>8. Sound(m, firsts)
  BY <1>3, <1>5, <1>7 DEF Sound
<1>9. QED
  BY <1>8 DEF m, firsts

LEMMA InvStarts == SdInit => SdInv
<1> SUFFICES ASSUME SdInit PROVE SdInv
  OBVIOUS
<1>1. /\ disk = EmptyCard /\ cache = ColdCache /\ searchStart = 2
      /\ files = [n \in Names |-> ClosedFile]
  BY DEF SdInit
<1>2. DiskOK(disk) /\ Sound(Meta(disk), FirstsIn(Meta(disk).dir))
  BY <1>1, EmptyCardIsOK, EmptyCardIsSound
<1>3. Volume(ClosedFile, NoFault) = VolumeOf(disk, ColdCache, 2, ClosedFile, NoFault)
  BY <1>1 DEF Volume, VolumeOf
<1>4. Safe(Volume(ClosedFile, NoFault), files)
  BY <1>1, <1>2, <1>3, ColdIsSafe
<1>5. Settled
  BY <1>1 DEF Settled, IsFiles
<1>6. QED
  BY <1>4, <1>5, InvIs

LEMMA WriteInv == ASSUME SdInv, NEW n \in Names, NEW count \in 1..Units, Write(n, count) PROVE SdInv'
<1> DEFINE data == [u \in 1..count |-> writes + 1]
<1>1. Settled /\ mounted /\ ~interrupted /\ files[n].open /\ Safe(Volume(ClosedFile, NoFault), files)
  BY InvIs DEF Write, Usable
<1>2. PICK fault, v : v = write(Volume(files[n], fault), data) /\ Ends(n, v)
  BY DEF Write
<1>3. Len(data) \in Nat
  BY SdAssumption
<1> HIDE DEF data
<1>4. During(Volume(files[n], fault), files, n) /\ Volume(files[n], fault).f = files[n]
  BY <1>1, OpenCallStarts DEF Settled
<1>5. During(v, files, n)
  BY <1>1, <1>2, <1>3, <1>4, WriteKeeps DEF Settled
<1>6. Settled' /\ Safe(Volume(ClosedFile, NoFault), files)'
  BY <1>1, <1>2, <1>5, CallSettles, EndIsSafe DEF Settled
<1>7. QED
  BY <1>6 DEF Settled, SdInv, IsFiles

LEMMA SeekInv ==
  ASSUME SdInv, NEW n \in Names, NEW pos \in 0..files[n].size, Seek(n, pos) PROVE SdInv'
<1>1. Settled /\ mounted /\ ~interrupted /\ files[n].open /\ Safe(Volume(ClosedFile, NoFault), files)
  BY InvIs DEF Seek, Usable
<1>2. PICK fault, v : v = seekSet(Volume(files[n], fault), pos) /\ Ends(n, v)
  BY DEF Seek
<1>3. During(Volume(files[n], fault), files, n) /\ Volume(files[n], fault).f = files[n]
  BY <1>1, OpenCallStarts DEF Settled
<1>4. During(v, files, n)
  BY <1>1, <1>2, <1>3, SeekKeeps DEF Settled
<1>5. Settled' /\ Safe(Volume(ClosedFile, NoFault), files)'
  BY <1>1, <1>2, <1>4, CallSettles, EndIsSafe DEF Settled
<1>6. QED
  BY <1>5 DEF Settled, SdInv, IsFiles

LEMMA ReadInv == ASSUME SdInv, NEW n \in Names, NEW count \in 1..Units, Read(n, count) PROVE SdInv'
<1>1. Settled /\ mounted /\ ~interrupted /\ files[n].open /\ Safe(Volume(ClosedFile, NoFault), files)
  BY InvIs DEF Read, Usable
<1>2. PICK fault, v : v = read(Volume(files[n], fault), count) /\ Ends(n, v)
  BY DEF Read
<1>3. During(Volume(files[n], fault), files, n) /\ Volume(files[n], fault).f = files[n]
  BY <1>1, OpenCallStarts DEF Settled
<1>4. During(v, files, n)
  BY <1>1, <1>2, <1>3, ReadMoves, MovedIsSafe DEF Settled
<1>5. Settled' /\ Safe(Volume(ClosedFile, NoFault), files)'
  BY <1>1, <1>2, <1>4, CallSettles, EndIsSafe DEF Settled
<1>6. QED
  BY <1>5 DEF Settled, SdInv, IsFiles

LEMMA FlushInv == ASSUME SdInv, NEW n \in Names, NEW closing \in BOOLEAN, Flush(n, closing) PROVE SdInv'
<1>1. Settled /\ mounted /\ ~interrupted /\ files[n].open /\ Safe(Volume(ClosedFile, NoFault), files)
  BY InvIs DEF Flush, Usable
<1>2. PICK fault, v : /\ v = IF closing THEN close(Volume(files[n], fault)) ELSE sync(Volume(files[n], fault))
                      /\ Ends(n, v)
  BY DEF Flush
<1>3. During(Volume(files[n], fault), files, n) /\ Volume(files[n], fault).f = files[n]
  BY <1>1, OpenCallStarts DEF Settled
<1>4. During(v, files, n)
  BY <1>1, <1>2, <1>3, SyncKeeps, CloseKeeps DEF Settled
<1>5. Settled' /\ Safe(Volume(ClosedFile, NoFault), files)'
  BY <1>1, <1>2, <1>4, CallSettles, EndIsSafe DEF Settled
<1>6. QED
  BY <1>5 DEF Settled, SdInv, IsFiles

(* A file that is not open for writing is not truncated.                    *)
LEMMA ReadOnlyStays ==
  ASSUME NEW fs, IsFiles(fs), NEW n \in Names, NEW v, During(v, fs, n), v.f.open, ~v.f.write, NEW length
  PROVE  During(truncate(v, length), fs, n)
<1>1. truncate(v, length) = Fail(v)
  BY DEF truncate
<1>2. Viewed(v, Fail(v))
  BY FileDuring, FailIsViewed
<1>3. QED
  BY <1>1, <1>2, ViewedDuring

LEMMA TruncateInv ==
  ASSUME SdInv, NEW n \in Names, NEW length \in 0..files[n].size, Truncate(n, length) PROVE SdInv'
<1>1. Settled /\ mounted /\ ~interrupted /\ files[n].open /\ Safe(Volume(ClosedFile, NoFault), files)
  BY InvIs DEF Truncate, Usable
<1>2. PICK fault, v : /\ v = truncate(Volume(files[n], fault), length) /\ Ends(n, v)
                      /\ interrupted' = (interrupted \/ (files[n].write /\ ~v.ok))
  BY DEF Truncate
<1>3. During(Volume(files[n], fault), files, n) /\ Volume(files[n], fault).f = files[n]
  BY <1>1, OpenCallStarts DEF Settled
<1>4. ~interrupted' => During(v, files, n)
  <2>1. files[n].write /\ v.ok => During(v, files, n)
    BY <1>1, <1>2, <1>3, TruncateKeeps DEF Settled
  <2>2. ~files[n].write => During(v, files, n)
    BY <1>1, <1>2, <1>3, ReadOnlyStays DEF Settled
  <2>3. QED
    BY <1>1, <1>2, <2>1, <2>2
<1>5. Settled' /\ (interrupted' \/ Safe(Volume(ClosedFile, NoFault), files)')
  BY <1>1, <1>2, <1>4, CallSettles, EndIsSafe DEF Settled
<1>6. QED
  BY <1>5 DEF Settled, SdInv, IsFiles

LEMMA RemoveInv == ASSUME SdInv, NEW n \in Names, RemoveFile(n) PROVE SdInv'
<1>1. Settled /\ mounted /\ ~interrupted /\ files[n].open /\ Safe(Volume(ClosedFile, NoFault), files)
  BY InvIs DEF RemoveFile, Usable
<1>2. PICK fault, v : /\ v = remove(Volume(files[n], fault)) /\ Ends(n, v)
                      /\ interrupted' = (interrupted \/ ~v.ok)
  BY DEF RemoveFile
<1>3. During(Volume(files[n], fault), files, n) /\ Volume(files[n], fault).f = files[n]
  BY <1>1, OpenCallStarts DEF Settled
<1>4. ~interrupted' => During(v, files, n)
  BY <1>1, <1>2, <1>3, RemoveKeeps DEF Settled
<1>5. Settled' /\ (interrupted' \/ Safe(Volume(ClosedFile, NoFault), files)')
  BY <1>1, <1>2, <1>4, CallSettles, EndIsSafe DEF Settled
<1>6. QED
  BY <1>5 DEF Settled, SdInv, IsFiles

(* A file that could not be opened is closed.                               *)
LEMMA NotOpened ==
  ASSUME NEW fs, IsFiles(fs), NEW n \in Names, NEW v, During(v, fs, n), ~v.f.open
  PROVE  During([v EXCEPT !.f = ClosedFile], fs, n)
<1> DEFINE w == [v EXCEPT !.f = ClosedFile]
<1>1. VolumeOK(v) /\ Agree(Meta(Seen(v)), With(fs, n, v.f)) /\ v.search \in Nat /\ Meta(Seen(v)).dir \in Dirs
  BY FileDuring, SafeIsTyped DEF During, Safe
<1>2. VolumeOK(w) /\ Seen(w) = Seen(v) /\ w.disk = v.disk /\ w.search = v.search /\ w.f = ClosedFile
  BY <1>1, FileIsSet
<1> HIDE DEF w
<1>3. Agree(Meta(Seen(v)), With(fs, n, ClosedFile))
  BY <1>1, ClosedIsTyped, FileIsClosed
<1>4. Safe(w, With(fs, n, w.f))
  BY <1>1, <1>2, <1>3, NewViewIsSafe DEF During
<1>5. QED
  BY <1>4 DEF During, w

LEMMA OpenInv ==
  ASSUME SdInv, NEW n \in Names, NEW mode \in {"read", "write", "truncate"}, Open(n, mode) PROVE SdInv'
<1>1. Settled /\ mounted /\ ~interrupted /\ ~files[n].open /\ Safe(Volume(ClosedFile, NoFault), files)
  BY InvIs DEF Open, Usable
<1> DEFINE End(v) == IF v.ok THEN v ELSE [v EXCEPT !.f = ClosedFile]
<1>2. PICK fault, v : /\ v = SDopen(Volume(ClosedFile, fault), n, mode) /\ Ends(n, End(v))
                      /\ interrupted' = (interrupted \/ (mode = "truncate" /\ ~v.ok))
  BY DEF Open
<1>3. During(Volume(ClosedFile, fault), files, n) /\ Volume(ClosedFile, fault).f = ClosedFile
  BY <1>1, ClosedCallStarts DEF Settled
<1>4. Opened(v, files, n, mode)
  BY <1>1, <1>2, <1>3, ClosedIsTyped, OpenGives DEF Settled
<1>5. PICK w : w = End(v)
  OBVIOUS
<1>6. ~interrupted' => During(w, files, n)
  <2>1. CASE v.ok
    BY <1>4, <1>5, <2>1 DEF Opened
  <2>2. CASE ~v.ok /\ mode # "truncate"
    <3>1. During(v, files, n) /\ ~v.f.open
      BY <1>4, <2>2 DEF Opened
    <3>2. During([v EXCEPT !.f = ClosedFile], files, n)
      BY <1>1, <3>1, NotOpened DEF Settled
    <3>3. QED
      BY <1>5, <2>2, <3>2
  <2>3. QED
    BY <1>1, <1>2, <2>1, <2>2
<1> HIDE DEF End
<1>7. Settled' /\ (interrupted' \/ Safe(Volume(ClosedFile, NoFault), files)')
  BY <1>1, <1>2, <1>5, <1>6, CallSettles, EndIsSafe DEF Settled
<1>8. QED
  BY <1>7 DEF Settled, SdInv, IsFiles

(* The card is only read when it is mounted.                                *)
LEMMA CacheIsViewed ==
  ASSUME NEW v, VolumeOK(v), NEW b
  PROVE  Viewed(v, cacheRawBlock(v, b, FALSE)) /\ VolumeOK(cacheRawBlock(v, b, FALSE))
BY CacheKeeps, KeptIsViewed DEF Cached, Kept

LEMMA CardInitViews ==
  ASSUME NEW v, VolumeOK(v)
  PROVE  Viewed(v, cardInit(v)) /\ VolumeOK(cardInit(v))
<1> DEFINE w == [v EXCEPT !.n = @ + 1]
<1>1. cardInit(v) = IF Fails(w) THEN Fail(w) ELSE w
  BY DEF cardInit
<1>2. Shape(v)
  BY DEF VolumeOK
<1>3. /\ Shape(w) /\ w.f = v.f /\ w.search = v.search /\ w.disk = v.disk /\ w.block = v.block
      /\ w.buf = v.buf /\ w.dirty = v.dirty /\ w.mirror = v.mirror
  BY <1>2 DEF Shape
<1> HIDE DEF w
<1>4. VolumeOK(w) /\ Seen(w) = Seen(v)
  BY <1>3, OtherFields
<1>5. Viewed(v, w)
  BY <1>3, <1>4 DEF Viewed, SameView
<1>6. Viewed(w, Fail(w))
  BY <1>4, FailIsViewed
<1>7. Viewed(v, Fail(w))
  BY <1>5, <1>6, ViewedTwice
<1>8. Viewed(v, cardInit(v))
  BY <1>1, <1>5, <1>7
<1>9. QED
  BY <1>8 DEF Viewed, SameView

LEMMA VolumeInitViews ==
  ASSUME NEW v, VolumeOK(v)
  PROVE  Viewed(v, volumeInit(v))
<1> DEFINE a == cacheRawBlock(v, Mbr, FALSE)
           b == IF a.ok THEN cacheRawBlock(a, BootSector, FALSE) ELSE a
           c == [b EXCEPT !.ok = TRUE]
           d == cacheRawBlock(c, Mbr, FALSE)
<1>1. volumeInit(v) = IF b.ok THEN b ELSE Fail(d)
  BY DEF volumeInit, Then
<1>2. Viewed(v, a) /\ VolumeOK(a)
  BY CacheIsViewed
<1> HIDE DEF a
<1>3. Viewed(v, b) /\ VolumeOK(b)
  <2>1. Viewed(a, cacheRawBlock(a, BootSector, FALSE)) /\ VolumeOK(cacheRawBlock(a, BootSector, FALSE))
    BY <1>2, CacheIsViewed
  <2>2. Viewed(v, cacheRawBlock(a, BootSector, FALSE))
    BY <1>2, <2>1, ViewedTwice
  <2>3. QED
    BY <1>2, <2>1, <2>2
<1> HIDE DEF b
<1>4. Viewed(b, c) /\ VolumeOK(c)
  BY <1>3, OkIsSet DEF Viewed, SameView
<1> HIDE DEF c
<1>5. Viewed(c, d) /\ VolumeOK(d)
  BY <1>4, CacheIsViewed
<1> HIDE DEF d
<1>6. Viewed(d, Fail(d))
  BY <1>5, FailIsViewed
<1>7. Viewed(v, Fail(d))
  BY <1>3, <1>4, <1>5, <1>6, ViewedTwice
<1>8. QED
  BY <1>1, <1>3, <1>7

LEMMA BeginViews ==
  ASSUME NEW v, VolumeOK(v)
  PROVE  Viewed(v, begin(v))
<1> DEFINE a == cardInit(v)
<1>1. begin(v) = IF a.ok THEN volumeInit(a) ELSE a
  BY DEF begin, Then
<1>2. Viewed(v, a) /\ VolumeOK(a)
  BY CardInitViews
<1> HIDE DEF a
<1>3. Viewed(v, volumeInit(a))
  BY <1>2, VolumeInitViews, ViewedTwice
<1>4. QED
  BY <1>1, <1>2, <1>3

LEMMA BeginInv == ASSUME SdInv, Begin PROVE SdInv'
<1>1. /\ Settled /\ ~interrupted /\ \A n \in Names : files[n] = ClosedFile
      /\ Safe(Volume(ClosedFile, NoFault), files)
  BY InvIs DEF Begin, Settled
<1>2. PICK fault, v : /\ v = begin(Volume(ClosedFile, fault)) /\ disk' = v.disk
                      /\ cache' = IF fault.kind = "power" THEN ColdCache ELSE CacheOf(v)
  BY DEF Begin
<1>3. searchStart' = searchStart /\ files' = files /\ interrupted' = interrupted
  BY DEF Begin
<1>4. Safe(Volume(ClosedFile, fault), files) /\ VolumeOK(Volume(ClosedFile, fault))
  BY <1>1, CallStarts, SafeIsTyped
<1>5. Viewed(Volume(ClosedFile, fault), v)
  BY <1>2, <1>4, BeginViews
<1>6. Safe(v, files)
  BY <1>4, <1>5, ViewedIsSafe
<1>7. v.search = searchStart /\ searchStart \in Nat
  BY <1>5, <1>6, VolumeIs DEF Viewed, SameView, Safe
<1>8. Volume(ClosedFile, NoFault)' = VolumeOf(disk', cache', searchStart', ClosedFile, NoFault)
  BY DEF Volume, VolumeOf
<1>9. Safe(VolumeOf(disk', cache', searchStart', ClosedFile, NoFault), files')
  <2>1. CASE fault.kind = "power"
    <3>1. disk' = v.disk /\ cache' = ColdCache /\ files' = [n \in Names |-> ClosedFile]
      BY <1>1, <1>2, <1>3, <2>1 DEF Settled, IsFiles
    <3>2. DiskOK(v.disk) /\ Sound(Meta(v.disk), FirstsIn(Meta(v.disk).dir))
      BY <1>6 DEF Safe, VolumeOK
    <3>3. QED
      BY <1>3, <1>7, <3>1, <3>2, ColdIsSafe
  <2>2. CASE fault.kind # "power"
    <3>1. disk' = v.disk /\ cache' = CacheOf(v) /\ searchStart' = v.search /\ files' = files
      BY <1>2, <1>3, <1>7, <2>2
    <3>2. QED
      BY <1>6, <3>1, CallEnds
  <2>3. QED
    BY <2>1, <2>2
<1>10. Safe(Volume(ClosedFile, NoFault), files)'
  BY <1>8, <1>9
<1>11. Settled'
  BY <1>1, <1>3 DEF Settled, IsFiles
<1>12. QED
  BY <1>10, <1>11 DEF Settled, SdInv, IsFiles

(* The invariant of SdCard: at the end of every call, after every access    *)
(* that failed, and after every loss of power before an access, what cache  *)
(* and card hold together is sound and agrees with the files, and so does   *)
(* the card alone with no file open, until a call that frees clusters fails. *)
THEOREM CardStaysSound == SdSpec => []SdInv
<1>1. SdInit => SdInv
  BY InvStarts
<1>2. SdInv /\ [SdNext]_sdVars => SdInv'
  <2> SUFFICES ASSUME SdInv, [SdNext]_sdVars PROVE SdInv'
    OBVIOUS
  <2>1. CASE UNCHANGED sdVars
    BY <2>1 DEF sdVars, SdInv, Volume
  <2>2. CASE Begin
    BY <2>2, BeginInv
  <2>3. ASSUME NEW n \in Names, NEW mode \in {"read", "write", "truncate"}, Open(n, mode) PROVE SdInv'
    BY <2>3, OpenInv
  <2>4. ASSUME NEW n \in Names, NEW count \in 1..Units, Write(n, count) \/ Read(n, count) PROVE SdInv'
    BY <2>4, WriteInv, ReadInv
  <2>5. ASSUME NEW n \in Names, NEW pos \in 0..files[n].size, Seek(n, pos) \/ Truncate(n, pos) PROVE SdInv'
    BY <2>5, SeekInv, TruncateInv
  <2>6. ASSUME NEW n \in Names, NEW closing \in BOOLEAN, Flush(n, closing) PROVE SdInv'
    BY <2>6, FlushInv
  <2>7. ASSUME NEW n \in Names, RemoveFile(n) PROVE SdInv'
    BY <2>7, RemoveInv
  <2>8. QED
    BY <2>1, <2>2, <2>3, <2>4, <2>5, <2>6, <2>7 DEF SdNext
<1>3. QED
  BY <1>1, <1>2, PTL DEF SdSpec

-------------------------------------------------------------------------------
(* The clusters of a file *)

WalkOnce(card, c, k) == WalkPass(card, c)
TakenAt(card, c, k) == c \in Clusters => FatIn(card)[c] # 0
Walking == INSTANCE Loops WITH Pass <- WalkOnce, Holds <- TakenAt

LEMMA WalkFollows ==
  ASSUME NEW card, NEW first
  PROVE  /\ Walk(card, first)[0] = first
         /\ \A k \in Nat : Walk(card, first)[k + 1] = WalkPass(card, Walk(card, first)[k])
<1>1. Walk(card, first) = Walking!Passes(card, first)
  BY DEF Walk, Walking!Passes, WalkOnce
<1>2. QED
  BY <1>1, Walking!PassesFollow DEF WalkOnce

LEMMA FatIsWalked ==
  ASSUME NEW card, NEW c
  PROVE  WalkPass(card, c) = IF c \in Clusters THEN FatIn(card)[c] ELSE c
BY SomeClusters DEF WalkPass, FatIn

LEMMA WalkIsTaken ==
  ASSUME NEW card, NEW heads, Chains(FatIn(card), heads), NEW first, first = 0 \/ first \in heads
  PROVE  \A k \in Nat : Walk(card, first)[k] \in Clusters => FatIn(card)[Walk(card, first)[k]] # 0
<1>1. TakenAt(card, first, 0)
  BY MarksAreNoClusters DEF TakenAt, Chains
<1>2. ASSUME NEW c, NEW k \in Nat, TakenAt(card, c, k)
      PROVE  TakenAt(card, WalkOnce(card, c, k + 1), k + 1)
  BY <1>2, FatIsWalked DEF TakenAt, WalkOnce, Chains
<1>3. \A k \in Nat : TakenAt(card, Walking!Passes(card, first)[k], k)
  BY <1>1, <1>2, Walking!PassesKeep
<1>4. Walk(card, first) = Walking!Passes(card, first)
  BY DEF Walk, Walking!Passes, WalkOnce
<1>5. QED
  BY <1>3, <1>4 DEF TakenAt

(* Two walks from different heads never meet.                               *)
LEMMA WalksNeverMeet ==
  ASSUME NEW card, NEW heads, Chains(FatIn(card), heads),
         NEW a, a = 0 \/ a \in heads, NEW b, b = 0 \/ b \in heads, a = b => a = 0
  PROVE  \A j, k \in Nat : Walk(card, a)[j] \in Clusters => Walk(card, a)[j] # Walk(card, b)[k]
<1> DEFINE A == Walk(card, a)
           B == Walk(card, b)
           fat == FatIn(card)
           T == {j \in Nat : \A k \in Nat : A[j] \in Clusters => A[j] # B[k]}
<1>1. /\ A[0] = a /\ \A k \in Nat : A[k + 1] = IF A[k] \in Clusters THEN fat[A[k]] ELSE A[k]
      /\ B[0] = b /\ \A k \in Nat : B[k + 1] = IF B[k] \in Clusters THEN fat[B[k]] ELSE B[k]
  BY WalkFollows, FatIsWalked
<1>2. /\ \A c, d \in Clusters : fat[c] \in Clusters /\ fat[c] = fat[d] => c = d
      /\ \A c \in Clusters : fat[c] \notin heads
  BY DEF Chains
<1>3. 0 \notin Clusters
  BY MarksAreNoClusters
<1> HIDE DEF A, B, fat
<1>4. ASSUME NEW k \in Nat, A[0] \in Clusters PROVE A[0] # B[k]
  <2>1. a \in heads /\ a # 0
    BY <1>1, <1>3, <1>4
  <2>2. CASE k = 0
    BY <1>1, <2>1, <2>2
  <2>3. CASE k # 0
    <3>1. PICK l \in Nat : k = l + 1
      BY <2>3
    <3>2. B[k] = IF B[l] \in Clusters THEN fat[B[l]] ELSE B[l]
      BY <1>1, <3>1
    <3>3. QED
      BY <1>1, <1>2, <1>4, <2>1, <3>2
  <2>4. QED
    BY <2>2, <2>3
<1>5. 0 \in T
  BY <1>4
<1>6. ASSUME NEW j \in Nat, j \in T PROVE j + 1 \in T
  <2>1. SUFFICES ASSUME NEW k \in Nat, A[j + 1] \in Clusters, A[j + 1] = B[k] PROVE FALSE
    OBVIOUS
  <2>2. A[j] \in Clusters /\ A[j + 1] = fat[A[j]]
    BY <1>1, <2>1
  <2>3. CASE k = 0
    <3>1. b \in heads
      BY <1>1, <1>3, <2>1, <2>3
    <3>2. QED
      BY <1>1, <1>2, <2>1, <2>2, <2>3, <3>1
  <2>4. CASE k # 0
    <3>1. PICK l \in Nat : k = l + 1
      BY <2>4
    <3>2. B[k] = IF B[l] \in Clusters THEN fat[B[l]] ELSE B[l]
      BY <1>1, <3>1
    <3>3. B[l] \in Clusters
      BY <2>1, <3>2
    <3>4. A[j] = B[l]
      BY <1>2, <2>1, <2>2, <3>2, <3>3
    <3>5. QED
      BY <1>6, <2>2, <3>4
  <2>5. QED
    BY <2>3, <2>4
<1> HIDE DEF T
<1>7. Nat \subseteq T
  BY <1>5, <1>6, Walking!AllNumbers
<1>8. QED
  BY <1>7 DEF T, A, B

LEMMA InvGivesOneOwner == SdInv => ClustersHaveOneOwner
<1> SUFFICES ASSUME SdInv, ~interrupted PROVE ClustersHaveOneOwner
  BY DEF ClustersHaveOneOwner
<1> DEFINE v == Volume(ClosedFile, NoFault)
<1>1. Safe(v, files)
  BY DEF SdInv
<1>2. /\ v.disk = disk /\ v.block = cache.block /\ v.buf = cache.buf /\ v.dirty = cache.dirty
  BY VolumeIs
<1> HIDE DEF v
<1>3. VolumeOK(v) /\ Agree(Meta(Seen(v)), files)
  BY <1>1 DEF Safe
<1>4. PICK card : card = Current
  OBVIOUS
<1>5. card = Seen(v)
  <2>1. DOMAIN disk = Blocks
    BY <1>2, <1>3 DEF VolumeOK, DiskOK
  <2>2. QED
    BY <1>2, <1>4, <2>1 DEF Current, Seen
<1> DEFINE dir == card[DirBlock]
           firsts == Firsts(dir, files)
           fat == FatIn(card)
<1>6. Chains(fat, Heads(firsts)) /\ \A m, n \in Names : firsts[m] = firsts[n] /\ firsts[m] # 0 => m = n
  BY <1>3, <1>5 DEF Agree, Sound, Meta
<1>7. \A c \in Clusters : Current[FatBlock(c)][c] = fat[c]
  BY <1>4, SomeClusters DEF FatIn
<1>8. \A n \in Names : Owned(n) = {c \in Clusters : \E k \in 0..ClusterCount - 1 : Walk(card, firsts[n])[k] = c}
  BY <1>4 DEF Owned, Firsts, FirstIn, Slots
<1>9. \A n \in Names : firsts[n] = 0 \/ firsts[n] \in Heads(firsts)
  BY DEF Heads
<1> HIDE DEF dir, firsts, fat
<1>10. ASSUME NEW n \in Names, NEW m \in Names \ {n} PROVE Owned(n) \cap Owned(m) = {}
  <2>1. \A j, k \in Nat : Walk(card, firsts[n])[j] \in Clusters => Walk(card, firsts[n])[j] # Walk(card, firsts[m])[k]
    BY <1>6, <1>9, <1>10, WalksNeverMeet DEF fat
  <2>2. QED
    BY <1>8, <2>1
<1>11. ASSUME NEW n \in Names, NEW c \in Owned(n) PROVE Current[FatBlock(c)][c] # 0
  <2>1. c \in Clusters /\ \E k \in Nat : Walk(card, firsts[n])[k] = c
    BY <1>8, <1>11
  <2>2. \A k \in Nat : Walk(card, firsts[n])[k] \in Clusters => fat[Walk(card, firsts[n])[k]] # 0
    BY <1>6, <1>9, WalkIsTaken DEF fat
  <2>3. QED
    BY <1>7, <2>1, <2>2
<1>12. QED
  BY <1>10, <1>11 DEF ClustersHaveOneOwner

(* No two files own the same cluster, and no file a free one, in the FAT as *)
(* the cache and the card hold it together: whatever clusters allocate-     *)
(* Contiguous finds, freeChain frees and sync saves, whichever access to    *)
(* the card fails, and wherever power is lost.                              *)
THEOREM OneOwner == SdSpec => []ClustersHaveOneOwner
BY CardStaysSound, InvGivesOneOwner, PTL
================================================================================

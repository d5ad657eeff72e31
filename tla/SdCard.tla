-------------------------------- MODULE SdCard --------------------------------
(***************************************************************************)
(* The SD card library of libraries/SD: File and SDClass on SdFile on      *)
(* SdVolume on Sd2Card.  A FAT16 volume with two FATs and files in the     *)
(* root directory, which is one block; a cluster is one block.  The whole  *)
(* volume has a single block of cache, which sync() and the next block     *)
(* that is needed write back.                                              *)
(*                                                                         *)
(* A call of the library is one action.  Its operators work on a record    *)
(* that holds the volume, the file and the number of accesses to the card, *)
(* so that any access can be the one that fails, or the last one before    *)
(* power is lost.  A file is opened once at a time.  An operator named     *)
(* ...Fault is a slip that a property must catch, and no part of SdNext.  *)
(***************************************************************************)
EXTENDS Integers, Sequences, FiniteSets, SequencesExt

CONSTANTS
  Names,          \* files
  DirSlots,       \* entries of the root directory
  ClusterCount,   \* clusters of the volume
  FatEntries,     \* entries of a block of the FAT
  Units,          \* parts of a block that a file is written in
  Kinds,          \* which accesses go wrong, a set of "lost", "unheard", "power"
  MaxAccesses,    \* bound: the access of a call that may go wrong
  MaxWrites,      \* bound: calls of write
  MaxOpens,       \* bound: calls of open
  MaxFaults       \* bound: calls with an access that goes wrong

ASSUME SdAssumption ==
  /\ {DirSlots, ClusterCount, FatEntries, Units} \subseteq Nat \ {0}
  /\ {MaxAccesses, MaxWrites, MaxOpens, MaxFaults} \subseteq Nat
  /\ Kinds \subseteq {"lost", "unheard", "power"}
  /\ {"free", "deleted"} \cap Names = {}   \* marks, and no first letter of a name

LastCluster == ClusterCount + 1
Clusters == 2..LastCluster
EOC == LastCluster + 10            \* end of a chain, no cluster
DIR_NAME_FREE == "free"            \* no entry here and none follows
DIR_NAME_DELETED == "deleted"
Junk == 0                          \* what nobody has written

FatBlock(c) == <<"fat", c \div FatEntries>>
Mirror(b) == <<"mirror", b[2]>>    \* the block of the second FAT
DataBlock(c) == <<"data", c>>
DirBlock == <<"dir", 0>>
Mbr == <<"boot", 0>>               \* the partition table
BootSector == <<"boot", 1>>        \* the first block of the partition
NoBlock == <<"none", 0>>           \* 0XFFFFFFFF

FatOf(b) == {c \in 0..LastCluster : c \div FatEntries = b}
FatBlocks == {c \div FatEntries : c \in 0..LastCluster}
NoEntry == [name |-> DIR_NAME_FREE, first |-> 0, size |-> 0]
EmptyFat(b) == [c \in FatOf(b) |-> IF c \in Clusters THEN 0 ELSE EOC]

Blocks == {<<k, i>> : k \in {"fat", "mirror"}, i \in FatBlocks}
          \cup {DataBlock(c) : c \in Clusters} \cup {DirBlock, Mbr, BootSector}
EmptyCard == [b \in Blocks |-> CASE b[1] \in {"fat", "mirror"} -> EmptyFat(b[2])
                                 [] b[1] = "data" -> [u \in 1..Units |-> Junk]
                                 [] b = DirBlock -> [s \in 1..DirSlots |-> NoEntry]
                                 [] OTHER -> <<>>]

ClosedFile == [open |-> FALSE, write |-> FALSE, slot |-> 0, first |-> 0, cur |-> 0,
               pos |-> 0, size |-> 0, dirDirty |-> FALSE]

VARIABLES
  disk,        \* what the blocks of the card hold
  cache,       \* cacheBlockNumber_, cacheBuffer_, cacheDirty_, cacheMirrorBlock_
  searchStart, \* allocSearchStart_
  mounted,     \* SD.begin has succeeded
  files,       \* the SdFile of each file
  writes, opens, faults,
  text,        \* history: what the calls that succeeded have written to a file
  synced,      \* history: the part of it that the last sync made durable
  hurt,        \* history: files a call of which failed
  interrupted, \* history: a call that frees clusters failed
  wrong,       \* history: files a successful read of which returned something else
  refused      \* history: sync of an open file failed with a card that works

sdVars == <<disk, cache, searchStart, mounted, files, writes, opens, faults, text,
          synced, hurt, interrupted, wrong, refused>>

ColdCache == [block |-> NoBlock, buf |-> <<>>, dirty |-> FALSE, mirror |-> NoBlock]

SdInit ==
  /\ disk = EmptyCard
  /\ cache = ColdCache
  /\ searchStart = 2
  /\ mounted = FALSE
  /\ files = [n \in Names |-> ClosedFile]
  /\ writes = 0 /\ opens = 0 /\ faults = 0
  /\ text = [n \in Names |-> <<>>] /\ synced = [n \in Names |-> <<>>]
  /\ hurt = {} /\ interrupted = FALSE /\ wrong = {} /\ refused = FALSE

-------------------------------------------------------------------------------
(* Sd2Card: an access works, does nothing and fails ("lost"), has its       *)
(* effect and reports failure ("unheard"), or is the first one without      *)
(* power.  v.ok is what the call of the library returns so far.             *)

NoFault == [kind |-> "none", at |-> 0]

Then(v, F(_)) == IF v.ok THEN F(v) ELSE v
Fail(v) == [v EXCEPT !.ok = FALSE]

Fails(v) == CASE v.fault.kind = "none"  -> FALSE
              [] v.fault.kind = "power" -> v.n >= v.fault.at
              [] OTHER                  -> v.n = v.fault.at

Access(v) == [v EXCEPT !.n = @ + 1]

writeBlock(v0, b, data) ==
  Then(Access(v0), LAMBDA v :
    IF b \notin DOMAIN v.disk THEN Fail(v)        \* the card knows no such block
    ELSE IF Fails(v) /\ v.fault.kind # "unheard" THEN Fail(v)
    ELSE [v EXCEPT !.disk[b] = data, !.ok = ~Fails(v)])

readBlock(v0, b) ==
  Then(Access(v0), LAMBDA v :
    IF b \notin DOMAIN v.disk \/ Fails(v) THEN Fail(v)
    ELSE [v EXCEPT !.got = v.disk[b]])

-------------------------------------------------------------------------------
(* SdVolume: the cache and the FAT *)

cacheFlush(v) ==
  IF ~v.dirty THEN v
  ELSE Then(Then(writeBlock(v, v.block, v.buf),
                 LAMBDA w : IF w.mirror = NoBlock THEN w ELSE writeBlock(w, w.mirror, w.buf)),
            LAMBDA x : [x EXCEPT !.dirty = FALSE, !.mirror = NoBlock])

cacheRawBlock(v, b, forWrite) ==
  IF v.block = b THEN [v EXCEPT !.dirty = @ \/ forWrite]
  ELSE Then(Then(cacheFlush(v), LAMBDA w : readBlock(w, b)),
            LAMBDA w : [w EXCEPT !.block = b, !.buf = w.got, !.dirty = @ \/ forWrite])

fatGet(v, c) ==
  IF c > LastCluster THEN Fail(v)
  ELSE Then(cacheRawBlock(v, FatBlock(c), FALSE), LAMBDA w : [w EXCEPT !.next = w.buf[c]])

fatPutFault(v, c, value) ==   \* the entry reaches the card with the next change only
  Then(cacheRawBlock(v, FatBlock(c), FALSE), LAMBDA w : [w EXCEPT !.buf[c] = value])

fatPut(v, c, value) ==
  IF c \notin Clusters THEN Fail(v)
  ELSE Then(cacheRawBlock(v, FatBlock(c), FALSE),
            LAMBDA w : [w EXCEPT !.buf[c] = value, !.dirty = TRUE, !.mirror = Mirror(FatBlock(c))])

(* The first free cluster from start on, seen circularly.                   *)
Tried(start, k) ==
  2 + (((IF start > LastCluster THEN 0 ELSE start - 2) + k - 1) % ClusterCount)
TryPass(start, v, k) ==
  IF ~v.ok \/ v.free # 0 THEN v
  ELSE Then(fatGet(v, Tried(start, k)),
            LAMBDA w : IF w.next = 0 THEN [w EXCEPT !.free = Tried(start, k)] ELSE w)
FindFree(v, start) ==
  LET at[k \in Nat] == IF k = 0 THEN [v EXCEPT !.free = 0] ELSE TryPass(start, at[k - 1], k)
  IN Then(at[ClusterCount], LAMBDA w : IF w.free = 0 THEN Fail(w) ELSE w)

(* The callers of the application ask for one cluster.                      *)
allocContiguous(v) ==
  LET cur == v.f.cur IN
  Then(FindFree(v, IF cur # 0 THEN cur + 1 ELSE v.search), LAMBDA found :
    LET c == found.free IN
    Then(Then(fatPut(found, c, EOC), LAMBDA w : IF cur # 0 THEN fatPut(w, cur, c) ELSE w),
         LAMBDA w : [w EXCEPT !.f.cur = c, !.search = IF cur = 0 THEN c + 1 ELSE @]))

(* A pass frees the cluster v.next.  After one pass for every cluster and   *)
(* two more the loop has come to an end or failed: a freed cluster leads to *)
(* the reserved one, which cannot be freed.                                 *)
FreePass(v, k) ==
  IF ~v.ok \/ (k > 1 /\ v.next >= EOC) THEN v
  ELSE Then(fatGet(v, v.next), LAMBDA w : fatPut(w, v.next, 0))
freeChain(v, c) ==
  LET at[k \in Nat] == IF k = 0 THEN [v EXCEPT !.search = 2, !.next = c] ELSE FreePass(at[k - 1], k)
  IN Then(at[ClusterCount + 2], LAMBDA w : IF w.next >= EOC THEN w ELSE Fail(w))

-------------------------------------------------------------------------------
(* SdFile *)

addCluster(v) ==
  Then(allocContiguous(v),
       LAMBDA w : IF w.f.first # 0 THEN w
                  ELSE [w EXCEPT !.f.first = w.f.cur, !.f.dirDirty = TRUE])

Entry(v) == [v.buf[v.f.slot] EXCEPT !.size = v.f.size, !.first = v.f.first]

syncFault(v) ==   \* only the entry of a changed directory is written
  IF ~v.f.open THEN Fail(v)
  ELSE IF ~v.f.dirDirty THEN v
  ELSE Then(cacheRawBlock(v, DirBlock, TRUE),
                      LAMBDA w : cacheFlush([w EXCEPT !.buf[w.f.slot] = Entry(w), !.f.dirDirty = FALSE]))

sync(v) ==
  IF ~v.f.open THEN Fail(v)
  ELSE Then(IF ~v.f.dirDirty THEN v
            ELSE Then(cacheRawBlock(v, DirBlock, TRUE),
                      LAMBDA w : [w EXCEPT !.buf[w.f.slot] = Entry(w), !.f.dirDirty = FALSE]),
            LAMBDA w : cacheFlush(w))

FollowPass(v) ==
  IF ~v.ok THEN v ELSE Then(fatGet(v, v.f.cur), LAMBDA w : [w EXCEPT !.f.cur = w.next])
Follow(v, steps) ==
  LET at[k \in Nat] == IF k = 0 THEN v ELSE FollowPass(at[k - 1]) IN at[steps]

(* From the cluster of the position, or from the first one to go back.      *)
FollowTo(v, pos) ==
  LET nCur == (v.f.pos - 1) \div Units
      nNew == (pos - 1) \div Units
  IN IF nNew < nCur \/ v.f.pos = 0
     THEN Follow([v EXCEPT !.f.cur = v.f.first], nNew)
     ELSE Follow(v, nNew - nCur)

seekSet(v, pos) ==
  IF ~v.f.open \/ pos > v.f.size THEN Fail(v)
  ELSE IF pos = 0 THEN [v EXCEPT !.f.cur = 0, !.f.pos = 0]
  ELSE Then(FollowTo(v, pos), LAMBDA w : [w EXCEPT !.f.pos = pos])

(* The cluster of the position, when it is the first one of a block.        *)
ReadCluster(v) ==
  IF v.f.pos % Units # 0 THEN v
  ELSE IF v.f.pos = 0 THEN [v EXCEPT !.f.cur = v.f.first]
  ELSE Then(fatGet(v, v.f.cur), LAMBDA w : [w EXCEPT !.f.cur = w.next])

(* A pass reads from the block of the position; start is the first one.     *)
ReadPass(start, count, v) ==
  LET offset == v.f.pos % Units
      left == start + count - v.f.pos
      n == IF left > Units - offset THEN Units - offset ELSE left
      Block(w) == DataBlock(w.f.cur)
      Fetch(w) == IF n = Units /\ Block(w) # w.block THEN readBlock(w, Block(w))
                  ELSE Then(cacheRawBlock(w, Block(w), FALSE), LAMBDA x : [x EXCEPT !.got = x.buf])
  IN IF ~v.ok \/ left <= 0 THEN v
     ELSE Then(Then(ReadCluster(v), Fetch),
               LAMBDA w : [w EXCEPT !.out = @ \o SubSeq(w.got, offset + 1, offset + n),
                                    !.f.pos = @ + n])
ReadBlocks(v, count) ==
  LET at[k \in Nat] == IF k = 0 THEN v ELSE ReadPass(v.f.pos, count, at[k - 1])
  IN IF count <= 0 THEN v ELSE at[count]

read(v, count) ==
  IF ~v.f.open THEN Fail(v)
  ELSE ReadBlocks(v, IF count > v.f.size - v.f.pos THEN v.f.size - v.f.pos ELSE count)

truncateFault(v, length) ==   \* the last cluster that stays goes on naming the next
  LET newPos == IF v.f.pos > length THEN length ELSE v.f.pos
      freed(w) == IF length = 0
                  THEN Then(freeChain(w, w.f.first), LAMBDA x : [x EXCEPT !.f.first = 0])
                  ELSE Then(fatGet(w, w.f.cur),
                            LAMBDA x : IF x.next >= EOC THEN x ELSE freeChain(x, x.next))
  IN IF ~v.f.open \/ ~v.f.write \/ length > v.f.size THEN Fail(v)
     ELSE IF v.f.size = 0 THEN v
     ELSE Then(Then(Then(seekSet(v, length), freed),
                    LAMBDA w : sync([w EXCEPT !.f.size = length, !.f.dirDirty = TRUE])),
               LAMBDA w : seekSet(w, newPos))

truncate(v, length) ==
  LET newPos == IF v.f.pos > length THEN length ELSE v.f.pos
      freed(w) == IF length = 0
                  THEN Then(freeChain(w, w.f.first), LAMBDA x : [x EXCEPT !.f.first = 0])
                  ELSE Then(fatGet(w, w.f.cur), LAMBDA x :
                         IF x.next >= EOC THEN x
                         ELSE Then(freeChain(x, x.next), LAMBDA y : fatPut(y, y.f.cur, EOC)))
  IN IF ~v.f.open \/ ~v.f.write \/ length > v.f.size THEN Fail(v)
     ELSE IF v.f.size = 0 THEN v
     ELSE Then(Then(Then(seekSet(v, length), freed),
                    LAMBDA w : sync([w EXCEPT !.f.size = length, !.f.dirDirty = TRUE])),
               LAMBDA w : seekSet(w, newPos))

remove(v) ==
  Then(Then(truncate(v, 0), LAMBDA w : cacheRawBlock(w, DirBlock, TRUE)),
       LAMBDA w : cacheFlush([w EXCEPT !.buf[w.f.slot].name = DIR_NAME_DELETED, !.f = ClosedFile]))

(* The cluster that is written to, the first time in a block.               *)
WriteCluster(v) ==
  IF v.f.pos % Units # 0 THEN v
  ELSE IF v.f.cur = 0
       THEN IF v.f.first = 0 THEN addCluster(v) ELSE [v EXCEPT !.f.cur = v.f.first]
  ELSE Then(fatGet(v, v.f.cur),
            LAMBDA w : IF w.next >= EOC THEN addCluster(w) ELSE [w EXCEPT !.f.cur = w.next])

(* A whole block bypasses the cache.  A copy of it there is given up, but   *)
(* the cache stays dirty if that copy was.                                  *)
WriteFullFault(v, data) ==   \* a copy in the cache stays and is written later
  writeBlock(v, DataBlock(v.f.cur), data)

WriteFull(v, data) ==
  LET b == DataBlock(v.f.cur)
  IN writeBlock([v EXCEPT !.block = IF @ = b THEN NoBlock ELSE @], b, data)

WritePart(v, offset, data) ==
  LET b == DataBlock(v.f.cur)
      cached == IF offset = 0 /\ v.f.pos >= v.f.size
                THEN Then(cacheFlush(v), LAMBDA w : [w EXCEPT !.block = b, !.dirty = TRUE,
                                                              !.buf = [u \in 1..Units |-> Junk]])
                ELSE cacheRawBlock(v, b, TRUE)
  IN Then(cached, LAMBDA w : [w EXCEPT !.buf = [u \in 1..Units |->
                                IF u \in offset+1..offset+Len(data) THEN data[u - offset] ELSE @[u]]])

(* A pass writes from the data what has come since the position start.      *)
WritePass(start, data, v) ==
  LET offset == v.f.pos % Units
      done == v.f.pos - start
      n == IF Len(data) - done > Units - offset THEN Units - offset ELSE Len(data) - done
      part == SubSeq(data, done + 1, done + n)
  IN IF ~v.ok \/ done = Len(data) THEN v
     ELSE Then(Then(WriteCluster(v),
                    LAMBDA w : IF n = Units THEN WriteFull(w, part) ELSE WritePart(w, offset, part)),
               LAMBDA w : [w EXCEPT !.f.pos = @ + n])
WriteBlocks(v, data) ==
  LET at[k \in Nat] == IF k = 0 THEN v ELSE WritePass(v.f.pos, data, at[k - 1]) IN at[Len(data)]

write(v, data) ==
  IF ~v.f.open \/ ~v.f.write THEN Fail(v)
  ELSE Then(WriteBlocks(v, data),
            LAMBDA w : IF w.f.pos > w.f.size
                       THEN [w EXCEPT !.f.size = w.f.pos, !.f.dirDirty = TRUE] ELSE w)

(* The search for a name ends at the first entry that was never used.       *)
Searched(dir) ==
  {s \in 1..DirSlots : \A r \in 1..s : dir[r].name = DIR_NAME_FREE => r = s}
Found(dir, n) == {s \in Searched(dir) : dir[s].name = n}
Unused(dir) == {s \in Searched(dir) : dir[s].name \in {DIR_NAME_FREE, DIR_NAME_DELETED}}
Least(S) == CHOOSE s \in S : \A r \in S : s <= r

openCachedEntry(v, s, mode) ==
  LET e == v.buf[s]
      f == [ClosedFile EXCEPT !.open = TRUE, !.write = mode # "read", !.slot = s,
                              !.first = e.first, !.size = e.size]
  IN IF mode = "truncate" THEN truncate([v EXCEPT !.f = f], 0) ELSE [v EXCEPT !.f = f]

openFile(v, n, mode) ==
  Then(cacheRawBlock(v, DirBlock, FALSE), LAMBDA w :
    IF Found(w.buf, n) # {} THEN openCachedEntry(w, Least(Found(w.buf, n)), mode)
    ELSE IF mode = "read" \/ Unused(w.buf) = {} THEN Fail(w)
    ELSE LET s == Least(Unused(w.buf)) IN
         Then(cacheFlush([w EXCEPT !.buf[s] = [NoEntry EXCEPT !.name = n], !.dirty = TRUE]),
              LAMBDA x : openCachedEntry(x, s, mode)))

(* SDClass.open: what is written goes to the end.                           *)
SDopen(v, n, mode) ==
  Then(openFile(v, n, mode), LAMBDA w :
    IF mode = "read" THEN w ELSE [seekSet(w, w.f.size) EXCEPT !.ok = TRUE])

close(v) == Then(sync(v), LAMBDA w : [w EXCEPT !.f.open = FALSE])

(* The commands that wake the card are one access.                          *)
cardInit(v0) == LET v == [v0 EXCEPT !.n = @ + 1] IN IF Fails(v) THEN Fail(v) ELSE v

(* The first partition; when it cannot be read, block 0 is tried as a boot  *)
(* sector, which a card with partitions does not have there.                *)
volumeInit(v) ==
  LET part1 == Then(cacheRawBlock(v, Mbr, FALSE), LAMBDA w : cacheRawBlock(w, BootSector, FALSE))
  IN IF part1.ok THEN part1
     ELSE Fail(cacheRawBlock([part1 EXCEPT !.ok = TRUE], Mbr, FALSE))

begin(v) == Then(cardInit(v), volumeInit)

-------------------------------------------------------------------------------
(* Calls.  A call ends in one of the outcomes the faults of the card allow; *)
(* when power is lost everything but the card starts again.                 *)

Volume(f, fault) ==
  [disk |-> disk, block |-> cache.block, buf |-> cache.buf, dirty |-> cache.dirty,
   mirror |-> cache.mirror, search |-> searchStart, f |-> f, fault |-> fault, n |-> 0,
   ok |-> TRUE, next |-> 0, free |-> 0, got |-> <<>>, out |-> <<>>]
CacheOf(v) == [block |-> v.block, buf |-> v.buf, dirty |-> v.dirty, mirror |-> v.mirror]

Returns(n, v) ==
  /\ disk' = v.disk
  /\ cache' = CacheOf(v)
  /\ searchStart' = v.search
  /\ files' = [files EXCEPT ![n] = v.f]
  /\ UNCHANGED mounted

PowerIsLost(v) ==
  /\ disk' = v.disk
  /\ cache' = ColdCache
  /\ searchStart' = 2
  /\ files' = [n \in Names |-> ClosedFile]
  /\ mounted' = FALSE

Ends(n, v) == IF v.fault.kind = "power" THEN PowerIsLost(v) ELSE Returns(n, v)

Faulty(v) == IF v.fault.kind = "none" THEN faults' = faults
             ELSE faults < MaxFaults /\ faults' = faults + 1

(* The faults a call may meet: at an access it makes when there is none.    *)
FaultsOf(Call(_)) ==
  {NoFault} \cup
  IF faults = MaxFaults THEN {}
  ELSE [kind : Kinds, at : {k \in 1..MaxAccesses : k <= Call(NoFault).n}]

(* What a file holds by the blocks of a card alone.                         *)
Prefix(s, n) == SubSeq(s, 1, IF n < Len(s) THEN n ELSE Len(s))

WalkPass(card, c) == IF c \in Clusters THEN card[FatBlock(c)][c] ELSE c
Walk(card, first) ==
  LET at[k \in Nat] == IF k = 0 THEN first ELSE WalkPass(card, at[k - 1]) IN at
Chain(card, first) ==
  SelectSeq([k \in 1..ClusterCount |-> Walk(card, first)[k - 1]], LAMBDA c : c \in Clusters)

OnCard(card, n) ==
  LET s == {t \in 1..DirSlots : card[DirBlock][t].name = n}
      e == card[DirBlock][Least(s)]
      blocks == Chain(card, e.first)
  IN IF s = {} THEN <<>>
     ELSE Prefix(FlattenSeq([i \in DOMAIN blocks |-> card[DataBlock(blocks[i])]]), e.size)

Between(s, p, q) == LET t == Prefix(s, q) IN SubSeq(t, p + 1, Len(t))
Overwrite(s, p, d) == Prefix(s, p) \o d \o SubSeq(s, p + Len(d) + 1, Len(s))

(* After a loss of power a file holds what the card holds.                  *)
Written(v, t) == text' = IF v.fault.kind = "power" THEN [n \in Names |-> OnCard(v.disk, n)] ELSE t

HurtBy(n, v) == hurt' = IF v.ok \/ v.fault.kind = "power" THEN hurt ELSE hurt \cup {n}

(* What follows a failed call that frees clusters is not modelled: the FAT   *)
(* and the directory may then disagree for good.                            *)
Usable == mounted /\ ~interrupted

Begin ==
  /\ ~mounted /\ ~interrupted
  /\ LET Call(fault) == begin(Volume(ClosedFile, fault)) IN
     \E fault \in FaultsOf(Call) : \E v \in {Call(fault)} :
       /\ Faulty(v)
       /\ disk' = v.disk
       /\ cache' = IF fault.kind = "power" THEN ColdCache ELSE CacheOf(v)
       /\ mounted' = v.ok
  /\ UNCHANGED <<searchStart, files, writes, opens, text, synced, hurt, interrupted, wrong, refused>>

Open(n, mode) ==
  /\ Usable /\ ~files[n].open
  /\ opens < MaxOpens /\ opens' = opens + 1
  /\ LET Call(fault) == SDopen(Volume(ClosedFile, fault), n, mode) IN
     \E fault \in FaultsOf(Call) : \E v \in {Call(fault)} :
       /\ Faulty(v) /\ Ends(n, IF v.ok THEN v ELSE [v EXCEPT !.f = ClosedFile])
       /\ hurt' = IF v.fault.kind \in {"none", "power"} \/ mode = "read" THEN hurt ELSE hurt \cup {n}
       /\ interrupted' = (interrupted \/ (mode = "truncate" /\ ~v.ok))
       /\ synced' = [synced EXCEPT ![n] = IF mode = "truncate" THEN <<>> ELSE @]
       /\ Written(v, [text EXCEPT ![n] = IF mode = "truncate" THEN <<>> ELSE @])
  /\ UNCHANGED <<writes, wrong, refused>>

Write(n, count) ==
  /\ Usable /\ files[n].open
  /\ writes < MaxWrites /\ writes' = writes + 1
  /\ LET data == [u \in 1..count |-> writes + 1]
         Call(fault) == write(Volume(files[n], fault), data) IN
     \E fault \in FaultsOf(Call) : \E v \in {Call(fault)} :
       /\ Faulty(v) /\ Ends(n, v) /\ HurtBy(n, v)
       /\ synced' = [synced EXCEPT ![n] = Prefix(@, files[n].pos)]
       /\ Written(v, IF v.ok THEN [text EXCEPT ![n] = Overwrite(@, files[n].pos, data)] ELSE text)
  /\ UNCHANGED <<opens, interrupted, wrong, refused>>

Seek(n, pos) ==
  /\ Usable /\ files[n].open
  /\ LET Call(fault) == seekSet(Volume(files[n], fault), pos) IN
     \E fault \in FaultsOf(Call) : \E v \in {Call(fault)} :
       /\ Faulty(v) /\ Ends(n, v) /\ HurtBy(n, v)
       /\ Written(v, text)
  /\ UNCHANGED <<writes, opens, synced, interrupted, wrong, refused>>

Read(n, count) ==
  /\ Usable /\ files[n].open /\ n \notin hurt
  /\ LET Call(fault) == read(Volume(files[n], fault), count) IN
     \E fault \in FaultsOf(Call) : \E v \in {Call(fault)} :
       /\ Faulty(v) /\ Ends(n, v) /\ HurtBy(n, v)
       /\ Written(v, text)
       /\ wrong' = IF v.ok /\ v.out # Between(text[n], files[n].pos, files[n].pos + count) THEN wrong \cup {n} ELSE wrong
  /\ UNCHANGED <<writes, opens, synced, interrupted, refused>>

Flush(n, closing) ==
  /\ Usable /\ files[n].open
  /\ LET Call(fault) == IF closing THEN close(Volume(files[n], fault)) ELSE sync(Volume(files[n], fault)) IN
     \E fault \in FaultsOf(Call) : \E v \in {Call(fault)} :
       /\ Faulty(v) /\ Ends(n, v) /\ HurtBy(n, v)
       /\ synced' = IF v.ok THEN [synced EXCEPT ![n] = text[n]] ELSE synced
       /\ Written(v, text)
       /\ refused' = (refused \/ (fault.kind = "none" /\ ~v.ok))
  /\ UNCHANGED <<writes, opens, interrupted, wrong>>

Truncate(n, length) ==
  /\ Usable /\ files[n].open
  /\ LET Call(fault) == truncate(Volume(files[n], fault), length) IN
     \E fault \in FaultsOf(Call) : \E v \in {Call(fault)} :
       /\ Faulty(v) /\ Ends(n, v) /\ HurtBy(n, v)
       /\ interrupted' = (interrupted \/ (files[n].write /\ ~v.ok))
       /\ synced' = [synced EXCEPT ![n] = IF v.ok THEN Prefix(text[n], length) ELSE Prefix(@, length)]
       /\ Written(v, [text EXCEPT ![n] = Prefix(@, length)])
  /\ UNCHANGED <<writes, opens, wrong, refused>>

RemoveFile(n) ==
  /\ Usable /\ files[n].open
  /\ LET Call(fault) == remove(Volume(files[n], fault)) IN
     \E fault \in FaultsOf(Call) : \E v \in {Call(fault)} :
       /\ Faulty(v) /\ Ends(n, v) /\ HurtBy(n, v)
       /\ interrupted' = (interrupted \/ ~v.ok)
       /\ synced' = [synced EXCEPT ![n] = <<>>]
       /\ Written(v, [text EXCEPT ![n] = <<>>])
  /\ UNCHANGED <<writes, opens, wrong, refused>>

SdNext ==
  \/ Begin
  \/ \E n \in Names :
       \/ \E mode \in {"read", "write", "truncate"} : Open(n, mode)
       \/ \E count \in 1..Units : Write(n, count) \/ Read(n, count)
       \/ \E pos \in 0..files[n].size : Seek(n, pos) \/ Truncate(n, pos)
       \/ \E closing \in BOOLEAN : Flush(n, closing)
       \/ RemoveFile(n)

SdSpec == SdInit /\ [][SdNext]_sdVars

-------------------------------------------------------------------------------
Contents == Junk..MaxWrites

SdTypeOK ==
  /\ DOMAIN disk = DOMAIN EmptyCard
  /\ cache.block \in DOMAIN disk \cup {NoBlock} /\ cache.dirty \in BOOLEAN
  /\ \A n \in Names : /\ files[n].cur \in {0, EOC} \cup Clusters
                      /\ files[n].pos \in 0..ClusterCount * Units
  /\ text \in [Names -> Seq(Contents)] /\ synced \in [Names -> Seq(Contents)]

(* A read that succeeds returns what was written, in whatever order files   *)
(* are written, moved in, cut, removed and read, as long as no call on that *)
(* file failed and no call that frees clusters did.                         *)
ReadsBackWhatWasWritten == wrong \subseteq hurt

(* What sync or close made durable stays on the card until it is            *)
(* overwritten or cut: at every access to the card, power may be lost, or   *)
(* calls on other files fail.                                               *)
SyncedDataSurvives == \A n \in Names \ hurt : IsPrefix(synced[n], OnCard(disk, n))

(* No two files own the same cluster, and no file a free one, in the FAT as *)
(* the cache and the card hold it together: a write to one file never       *)
(* changes another.                                                         *)
Current == IF cache.dirty /\ cache.block \in DOMAIN disk
           THEN [disk EXCEPT ![cache.block] = cache.buf] ELSE disk
Owned(n) ==
  LET entries == {s \in 1..DirSlots : Current[DirBlock][s].name = n}
      first == IF files[n].open THEN files[n].first
               ELSE IF entries = {} THEN 0 ELSE Current[DirBlock][Least(entries)].first
  IN {c \in Clusters : \E k \in 0..ClusterCount - 1 : Walk(Current, first)[k] = c}
ClustersHaveOneOwner ==
  interrupted \/ \A n \in Names :
    /\ \A m \in Names \ {n} : Owned(n) \cap Owned(m) = {}
    /\ \A c \in Owned(n) : Current[FatBlock(c)][c] # 0

(* The comment of SdFile::sync names a file that is not open and an I/O     *)
(* error as the reasons for which it fails.                                 *)
SyncFailsForAReason == ~refused
================================================================================

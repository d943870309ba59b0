----------------------------- MODULE NqfsProofs -----------------------------
(***************************************************************************)
(* Proofs about module Nqfs, for a device, inode table and blocks of any   *)
(* size and for any data.  The invariant says that there are sequences of  *)
(* blocks, one per inode, that the pointers on the device follow; they are *)
(* named by an existential quantifier, so that no recursion over the       *)
(* pointers is needed, and each step says which sequence it extends.       *)
(***************************************************************************)
EXTENDS Nqfs, TLAPS, FiniteSetTheorems, SequenceTheorems, WellFoundedInduction

B == NQFS_STORAGE_BYTES_SECTOR

Files == InodeSectors \X Slots
Inode(f) == inodes[f[1]][f[2]]

\* The file an operation through handle h works on.
OfHandle(h) == <<h, 0>>

-----------------------------------------------------------------------------
(* The invariant. *)

Sectors == DataSectors \cup {0}

InodeType == [allocd : BOOLEAN, start_sector : Sectors, size : Nat]
BlockType == [magic : BOOLEAN, next : Sectors, data : [Offsets -> Byte]]

WriteOp == [pc : {"seek", "write"}, h : InodeSectors, rest : Seq(Byte), total : Nat,
            cur_size : Nat, at : DataSectors]
ReadOp == [pc : {"read"}, at : DataSectors, size : Nat]

NqfsTypes ==
  /\ inodes \in [InodeSectors -> [Slots -> InodeType]]
  /\ blocks \in [DataSectors -> BlockType]
  /\ op = Idle \/ op \in WriteOp \/ op \in ReadOp
  /\ written \in [InodeSectors -> Seq(Byte)]
  /\ orphans \subseteq DataSectors

\* A pointer to block b is in the inode of f, or in block c.
StartsAt(f, b) == Inode(f).start_sector = b
Links(c, b) == blocks[c].next = b

\* NoSharedBlocks, one kind of pointer at a time.
OnePointer ==
  /\ \A b \in DataSectors, f \in Files, g \in Files : StartsAt(f, b) /\ StartsAt(g, b) => f = g
  /\ \A b \in DataSectors, c \in DataSectors, d \in DataSectors : Links(c, b) /\ Links(d, b) => c = d
  /\ \A b \in DataSectors, f \in Files, c \in DataSectors : ~(StartsAt(f, b) /\ Links(c, b))

PointedTo(b) == (\E f \in Files : StartsAt(f, b)) \/ (\E c \in DataSectors : Links(c, b))

\* A block is marked exactly if something points to it or an append lost it, and
\* only then does it point anywhere; the device accepted the mark.
MarksInv ==
  \A b \in DataSectors :
    /\ blocks[b].magic <=> PointedTo(b) \/ b \in orphans
    /\ ~blocks[b].magic => Links(b, 0)
    /\ blocks[b].magic => RAMBLK__write_sector(b)

\* An inode that is not in use is clear, and nothing was appended to it.
InodesInv ==
  /\ \A f \in Files : ~Inode(f).allocd => Inode(f).start_sector = 0 /\ Inode(f).size = 0
  /\ \A h \in InodeSectors : Inode(OfHandle(h)).size = Len(written[h])

\* C[f] is the chain of blocks of f: from its inode through next to a block
\* without one, long enough for all but the last block to be full.
IsChain(f, c) ==
  /\ Inode(f).start_sector = IF c = <<>> THEN 0 ELSE c[1]
  /\ \A k \in 1 .. Len(c) : Links(c[k], IF k < Len(c) THEN c[k + 1] ELSE 0)
  /\ \A k \in 1 .. Len(c) : (k - 1) * B <= Inode(f).size

Disjoint(C) ==
  \A f, g \in Files : \A k \in 1 .. Len(C[f]), l \in 1 .. Len(C[g]) :
    C[f][k] = C[g][l] => f = g /\ k = l

OffChains(C, b) == \A f \in Files : \A k \in 1 .. Len(C[f]) : C[f][k] # b

\* An append that goes on is in block k of its file's chain c, cur_size bytes
\* from the end of the file.
AtBlock(c, k) ==
  /\ op.at = c[k]
  /\ op.rest # <<>> \/ op.pc = "seek" => Inode(OfHandle(op.h)).size = (k - 1) * B + op.cur_size

\* An append is somewhere in its file's chain, or in a block that was lost.
AppendInv(C) ==
  op \in WriteOp =>
    /\ Inode(OfHandle(op.h)).start_sector # 0
    /\ op.pc = "write" => op.cur_size < B
    /\ \/ \E k \in 1 .. Len(C[OfHandle(op.h)]) : AtBlock(C[OfHandle(op.h)], k)
       \/ OffChains(C, op.at) /\ Links(op.at, 0) /\ orphans # {}

\* As long as nothing was lost, chain c holds the bytes w.
HoldsBytes(c, w) ==
  /\ Len(w) <= Len(c) * B
  /\ \A k \in 1 .. Len(c), o \in Offsets :
       (k - 1) * B + o < Len(w) => blocks[c[k]].data[o] = w[(k - 1) * B + o + 1]

ChainsInv(C) ==
  /\ C \in [Files -> Seq(DataSectors)]
  /\ \A f \in Files : IsChain(f, C[f])
  /\ Disjoint(C)
  /\ AppendInv(C)
  /\ orphans = {} => \A h \in InodeSectors : HoldsBytes(C[OfHandle(h)], written[h])

NqfsInv ==
  /\ NqfsTypes
  /\ OnePointer
  /\ MarksInv
  /\ InodesInv
  /\ op # Idle => blocks[op.at].magic
  /\ \E C \in [Files -> Seq(DataSectors)] : ChainsInv(C)

-----------------------------------------------------------------------------
(* Arithmetic. *)

\* The constants, in the form the proofs use them.
LEMMA Sizes ==
  /\ B \in Nat \ {0} /\ 0 \in InodeSectors /\ 0 \in Slots /\ 0 \notin DataSectors
  /\ InodeSectors \subseteq Nat /\ DataSectors \subseteq Nat /\ Slots \subseteq Nat
  /\ Offsets = 0 .. B - 1 /\ 0 \in Byte
  BY NqfsAssumption DEF B, InodeSectors, Slots, DataSectors, Offsets

\* Multiples of the size of a block.
LEMMA Multiples ==
  /\ \A k \in Nat : k * B \in Nat
  /\ \A k \in Nat : (k + 1) * B = k * B + B
  /\ \A k, l \in Nat : k <= l => k * B <= l * B
  /\ \A k, l \in Nat : k < l => k * B + B <= l * B
<1> DEFINE b == B
<1>1. b \in Nat \ {0}
  BY Sizes
<1> HIDE DEF b
<1>2. \A k \in Nat : k * b \in Nat /\ (k + 1) * b = k * b + b
  BY <1>1
<1>3. ASSUME NEW k \in Nat, NEW l \in Nat, k <= l PROVE k * b <= l * b
  <2>1. PICK d \in Nat : l = k + d
    <3>1. l - k \in Nat /\ l = k + (l - k)
      BY <1>3
    <3> QED
      BY <3>1
  <2>2. l * b = k * b + d * b /\ d * b \in Nat /\ k * b \in Nat
    BY <1>1, <2>1
  <2> QED
    BY <2>2
<1>4. ASSUME NEW k \in Nat, NEW l \in Nat, k < l PROVE k * b + b <= l * b
  <2>1. k + 1 \in Nat /\ k + 1 <= l
    BY <1>4
  <2> QED
    BY <1>2, <1>3, <2>1
<1> QED
  BY <1>2, <1>3, <1>4 DEF b

\* Every non-empty set of naturals has a least element.
LEMMA LeastOf ==
  ASSUME NEW T \in SUBSET Nat, T # {}
  PROVE  \E x \in T : \A y \in T : x <= y
<1>1. PICK x \in T : \A y \in T : ~ (<<y, x>> \in OpToRel(<, Nat))
  BY WFMin, NatLessThanWellFounded, Zenon
<1>2. \A y \in T : ~ (y < x)
  BY <1>1, Zenon DEF OpToRel
<1> QED
  BY <1>2

\* The device can read every sector it has.
LEMMA Readable ==
  ASSUME NEW s \in DataSectors
  PROVE  RAMBLK__read_sector(s)
<1> DEFINE z == SECTOR_SIZE
           r == RAMFS_BYTES
<1>1. z \in Nat \ {0} /\ r \in Nat /\ r < WORD /\ WORD \in Nat
  BY NqfsAssumption
<1>2. s \in Nat /\ s + 1 <= r \div z
  BY NqfsAssumption DEF DataSectors, num_sectors
<1> HIDE DEF z, r
<1>3. PICK q \in Nat : q = r \div z /\ q * z <= r
  BY <1>1
<1>4. s * z < r /\ s * z \in Nat
  <2>1. PICK d \in Nat : q = s + 1 + d
    <3>1. q - s - 1 \in Nat /\ q = s + 1 + (q - s - 1)
      BY <1>2, <1>3
    <3> QED
      BY <3>1
  <2>2. q * z = s * z + z + d * z /\ d * z \in Nat /\ s * z \in Nat
    BY <1>1, <1>2, <2>1
  <2> QED
    BY <1>1, <1>3, <2>2
<1> DEFINE m == s * z
<1>5. m \in Nat /\ m < r
  BY <1>4
<1> HIDE DEF m
<1>6. m % WORD = m
  BY <1>1, <1>5
<1> QED
  BY <1>5, <1>6 DEF RAMBLK__read_sector, m, z, r

-----------------------------------------------------------------------------
(* Blocks. *)

\* The block that is allocated is a free one the device takes a write to.
LEMMA NewBlock ==
  ASSUME NEW n, n = NQFS_get_next_free_block, n # 0
  PROVE  n \in DataSectors /\ ~blocks[n].magic /\ RAMBLK__write_sector(n)
<1>1. Unmarked # {} /\ RAMBLK__write_sector(FirstUnmarked) /\ n = FirstUnmarked
  BY DEF NQFS_get_next_free_block
<1>2. Unmarked \in SUBSET Nat
  BY Sizes DEF Unmarked
<1>3. FirstUnmarked \in Unmarked
  <2>1. \E i \in Unmarked : \A j \in Unmarked : i <= j
    BY <1>1, <1>2, LeastOf
  <2> QED
    BY <2>1, Zenon DEF FirstUnmarked
<1> QED
  BY <1>1, <1>3 DEF Unmarked

\* Marking a block.
LEMMA MarkedEffect ==
  ASSUME NEW bs \in [DataSectors -> BlockType], NEW n \in DataSectors
  PROVE  /\ Marked(bs, n) \in [DataSectors -> BlockType]
         /\ \A b \in DataSectors : b # n => Marked(bs, n)[b] = bs[b]
         /\ Marked(bs, n)[n] = [magic |-> TRUE, next |-> 0, data |-> bs[n].data]
<1>1. n # 0
  BY Sizes
<1>2. Marked(bs, n) = [bs EXCEPT ![n].magic = TRUE, ![n].next = 0]
  BY <1>1 DEF Marked
<1>3. \A b \in DataSectors : b # n => Marked(bs, n)[b] = bs[b]
  BY <1>2
<1>4. Marked(bs, n)[n] = [magic |-> TRUE, next |-> 0, data |-> bs[n].data]
  BY <1>2, ZenonT(40) DEF BlockType
<1>5. [magic |-> TRUE, next |-> 0, data |-> bs[n].data] \in BlockType
  BY DEF BlockType, Sectors
<1>6. Marked(bs, n) = [b \in DataSectors |-> Marked(bs, n)[b]]
  BY <1>2
<1> QED
  BY <1>3, <1>4, <1>5, <1>6

\* Nothing points to a free block, and it points nowhere.
LEMMA FreeBlock ==
  ASSUME MarksInv, NEW n \in DataSectors, ~blocks[n].magic
  PROVE  ~PointedTo(n) /\ n \notin orphans /\ Links(n, 0)
  BY DEF MarksInv

\* Every block of a chain has a pointer to it.
LEMMA ChainPointedTo ==
  ASSUME NEW f \in Files, NEW c \in Seq(DataSectors), IsChain(f, c), NEW k \in 1 .. Len(c)
  PROVE  PointedTo(c[k])
<1>1. CASE k = 1
  <2>1. c # <<>>
    BY <1>1
  <2> QED
    BY <1>1, <2>1 DEF IsChain, PointedTo, StartsAt
<1>2. CASE k # 1
  <2>1. k - 1 \in 1 .. Len(c) /\ k - 1 < Len(c) /\ (k - 1) + 1 = k
    BY <1>2
  <2>2. Links(c[k - 1], c[k]) /\ c[k - 1] \in DataSectors
    BY <2>1 DEF IsChain
  <2> QED
    BY <2>2 DEF PointedTo
<1> QED
  BY <1>1, <1>2

\* So a free block is in none.
LEMMA FreeOffChains ==
  ASSUME MarksInv, NEW C \in [Files -> Seq(DataSectors)], \A f \in Files : IsChain(f, C[f]),
         NEW n \in DataSectors, ~blocks[n].magic
  PROVE  OffChains(C, n)
<1> SUFFICES ASSUME NEW f \in Files, NEW k \in 1 .. Len(C[f]) PROVE C[f][k] # n
  BY DEF OffChains
<1>1. C[f] \in Seq(DataSectors)
  OBVIOUS
<1>2. PointedTo(C[f][k])
  BY <1>1, ChainPointedTo
<1> QED
  BY <1>2, FreeBlock

-----------------------------------------------------------------------------
(* The three ways a block is taken.  n is the block, free until then. *)

\* create points the inode of f to it.
LEMMA PointerFromInode ==
  ASSUME OnePointer, MarksInv, NEW n \in DataSectors, ~blocks[n].magic, RAMBLK__write_sector(n),
         NEW f \in Files, StartsAt(f, 0),
         \A g \in Files : \A b : StartsAt(g, b)' <=> IF g = f THEN b = n ELSE StartsAt(g, b),
         \A c \in DataSectors : \A b : Links(c, b)' <=> Links(c, b),
         \A b \in DataSectors : blocks'[b].magic <=> blocks[b].magic \/ b = n,
         orphans' = orphans
  PROVE  OnePointer' /\ MarksInv'
<1>1. ~PointedTo(n) /\ n \notin orphans /\ Links(n, 0)
  BY FreeBlock
<1>2. OnePointer'
  BY <1>1 DEF OnePointer, PointedTo
<1>3. \A b \in DataSectors : PointedTo(b)' <=> PointedTo(b) \/ b = n
  <2> SUFFICES ASSUME NEW b \in DataSectors PROVE PointedTo(b)' <=> PointedTo(b) \/ b = n
    OBVIOUS
  <2>1. ~StartsAt(f, b)
    BY Sizes DEF StartsAt
  <2> QED
    BY <2>1 DEF PointedTo
<1>4. MarksInv'
  BY <1>1, <1>3 DEF MarksInv, RAMBLK__write_sector
<1> QED
  BY <1>2, <1>4

\* An append links it to the last block, a.  n is 0 when there was none left, or
\* none was needed.
LEMMA PointerFromBlock ==
  ASSUME OnePointer, MarksInv, NEW n \in Sectors,
         n # 0 => ~blocks[n].magic /\ RAMBLK__write_sector(n),
         NEW a \in DataSectors, Links(a, 0), blocks[a].magic,
         \A g \in Files : \A b : StartsAt(g, b)' <=> StartsAt(g, b),
         \A c \in DataSectors : \A b : Links(c, b)' <=> IF c = a THEN b = n ELSE Links(c, b),
         \A b \in DataSectors : blocks'[b].magic <=> blocks[b].magic \/ b = n,
         orphans' = orphans
  PROVE  OnePointer' /\ MarksInv'
<1>1. CASE n # 0
  <2>1. n \in DataSectors /\ ~blocks[n].magic
    BY <1>1 DEF Sectors
  <2>2. ~PointedTo(n) /\ n \notin orphans /\ Links(n, 0) /\ n # a
    BY <2>1, FreeBlock
  <2>3. OnePointer'
    BY <2>2 DEF OnePointer, PointedTo
  <2>4. \A b \in DataSectors : PointedTo(b)' <=> PointedTo(b) \/ b = n
    <3> SUFFICES ASSUME NEW b \in DataSectors PROVE PointedTo(b)' <=> PointedTo(b) \/ b = n
      OBVIOUS
    <3>1. ~Links(a, b)
      BY Sizes DEF Links
    <3> QED
      BY <3>1 DEF PointedTo
  <2>5. MarksInv'
    BY <1>1, <2>2, <2>4 DEF MarksInv, RAMBLK__write_sector
  <2> QED
    BY <2>3, <2>5
<1>2. CASE n = 0
  <2>1. \A c \in DataSectors : \A b \in DataSectors : Links(c, b)' <=> Links(c, b)
    <3>1. \A b \in DataSectors : ~Links(a, b) /\ b # n
      BY <1>2, Sizes DEF Links
    <3> QED
      BY <3>1
  <2>2. \A c \in DataSectors : Links(c, 0)' <=> Links(c, 0)
    BY <1>2
  <2>3. \A b \in DataSectors : (blocks'[b].magic <=> blocks[b].magic) /\ (PointedTo(b)' <=> PointedTo(b))
    BY <1>2, <2>1, Sizes DEF PointedTo
  <2>4. OnePointer'
    BY <2>1 DEF OnePointer
  <2>5. MarksInv'
    BY <2>2, <2>3 DEF MarksInv, RAMBLK__write_sector
  <2> QED
    BY <2>4, <2>5
<1> QED
  BY <1>1, <1>2

\* An append that finds its last block full takes it and links it nowhere.
LEMMA PointerNowhere ==
  ASSUME OnePointer, MarksInv, NEW n \in DataSectors, ~blocks[n].magic, RAMBLK__write_sector(n),
         \A g \in Files : \A b : StartsAt(g, b)' <=> StartsAt(g, b),
         \A c \in DataSectors : \A b : Links(c, b)' <=> Links(c, b),
         \A b \in DataSectors : blocks'[b].magic <=> blocks[b].magic \/ b = n,
         orphans' = orphans \cup {n}
  PROVE  OnePointer' /\ MarksInv'
<1>1. ~PointedTo(n) /\ n \notin orphans /\ Links(n, 0)
  BY FreeBlock
<1>2. OnePointer'
  BY DEF OnePointer
<1>3. \A b \in DataSectors : PointedTo(b)' <=> PointedTo(b)
  BY DEF PointedTo
<1>4. MarksInv'
  BY <1>1, <1>3 DEF MarksInv, RAMBLK__write_sector
<1> QED
  BY <1>2, <1>4

-----------------------------------------------------------------------------
(* Operations that leave the device alone. *)

\* The kinds of op are told apart by pc.
LEMMA OpKinds ==
  ASSUME op = Idle \/ op \in WriteOp \/ op \in ReadOp
  PROVE  /\ op.pc = "idle" <=> op = Idle
         /\ op.pc \in {"seek", "write"} <=> op \in WriteOp
         /\ op.pc = "read" <=> op \in ReadOp
<1>1. CASE op = Idle
  BY <1>1 DEF Idle, WriteOp, ReadOp
<1>2. CASE op \in WriteOp
  BY <1>2 DEF Idle, WriteOp, ReadOp
<1>3. CASE op \in ReadOp
  BY <1>3 DEF Idle, WriteOp, ReadOp
<1> QED
  BY <1>1, <1>2, <1>3

\* Such a step only has to be looked at where the operation continues.
LEMMA DiskKept ==
  ASSUME NqfsInv, UNCHANGED <<disk, written, orphans>>,
         op' = Idle \/ op' \in WriteOp \/ op' \in ReadOp,
         op' # Idle => blocks[op'.at].magic,
         \A C \in [Files -> Seq(DataSectors)] : ChainsInv(C) => AppendInv(C)'
  PROVE  NqfsInv'
<1>1. UNCHANGED <<inodes, blocks, written, orphans>>
  BY DEF disk
<1>2. NqfsTypes'
  BY <1>1 DEF NqfsInv, NqfsTypes
<1>3. /\ \A f \in Files : Inode(f)' = Inode(f)
      /\ \A f, b : StartsAt(f, b)' <=> StartsAt(f, b)
      /\ \A c, b : Links(c, b)' <=> Links(c, b)
  BY <1>1 DEF Inode, StartsAt, Links
<1>4. OnePointer' /\ MarksInv'
  BY <1>1, <1>3 DEF NqfsInv, OnePointer, MarksInv, PointedTo, RAMBLK__write_sector
<1>5. InodesInv'
  BY <1>1 DEF NqfsInv, InodesInv, Inode
<1>6. PICK C \in [Files -> Seq(DataSectors)] : ChainsInv(C)
  BY DEF NqfsInv
<1>7. ChainsInv(C)'
  <2>1. \A f \in Files : IsChain(f, C[f])'
    BY <1>3, <1>6 DEF ChainsInv, IsChain
  <2>2. \A c, w : HoldsBytes(c, w)' <=> HoldsBytes(c, w)
    BY <1>1 DEF HoldsBytes
  <2> QED
    BY <1>1, <1>6, <2>1, <2>2 DEF ChainsInv, Disjoint
<1> QED
  BY <1>1, <1>2, <1>4, <1>5, <1>7 DEF NqfsInv

\* The block an operation is in is marked, so that it has a pointer to it.
LEMMA PointedToMarked ==
  ASSUME NqfsInv, NEW b \in DataSectors, PointedTo(b)
  PROVE  blocks[b].magic
  BY DEF NqfsInv, MarksInv

\* Handles and their inodes.
LEMMA HandleInode ==
  ASSUME NqfsTypes, NEW h \in InodeSectors
  PROVE  /\ OfHandle(h) \in Files /\ Inode(OfHandle(h)) = inodes[h][0]
         /\ inodes[h][0] \in InodeType
  BY Sizes DEF NqfsTypes, OfHandle, Files, Inode

\* The empty device.
LEMMA InitInv ==
  ASSUME NqfsInit
  PROVE  NqfsInv
<1>1. NqfsTypes
  <2>1. inodes \in [InodeSectors -> [Slots -> InodeType]]
    BY DEF NqfsInit, InodeType, Sectors
  <2>2. blocks \in [DataSectors -> BlockType]
    BY Sizes DEF NqfsInit, BlockType, Sectors
  <2>3. written \in [InodeSectors -> Seq(Byte)]
    BY DEF NqfsInit
  <2> QED
    BY <2>1, <2>2, <2>3 DEF NqfsInit, NqfsTypes
<1>2. /\ \A f \in Files : ~Inode(f).allocd /\ Inode(f).start_sector = 0 /\ Inode(f).size = 0
      /\ \A b \in DataSectors : ~blocks[b].magic /\ blocks[b].next = 0
  BY DEF NqfsInit, Files, Inode
<1>3. /\ \A f \in Files, b \in DataSectors : ~StartsAt(f, b)
      /\ \A c \in DataSectors, b \in DataSectors : ~Links(c, b)
      /\ \A c \in DataSectors : Links(c, 0)
  BY <1>2, Sizes DEF StartsAt, Links
<1>4. OnePointer
  BY <1>3 DEF OnePointer
<1>5. MarksInv
  BY <1>2, <1>3 DEF NqfsInit, MarksInv, PointedTo
<1>6. InodesInv
  BY <1>1, <1>2, HandleInode DEF NqfsInit, InodesInv
<1>7. PICK C \in [Files -> Seq(DataSectors)] : \A f \in Files : C[f] = <<>>
  <2>1. [f \in Files |-> <<>>] \in [Files -> Seq(DataSectors)]
    OBVIOUS
  <2> QED
    BY <2>1
<1>8. ChainsInv(C)
  <2>1. \A f \in Files : IsChain(f, C[f])
    BY <1>2, <1>7 DEF IsChain
  <2>2. Disjoint(C)
    BY <1>7 DEF Disjoint
  <2>3. op \notin WriteOp
    BY DEF NqfsInit, Idle, WriteOp
  <2>4. \A h \in InodeSectors : HoldsBytes(C[OfHandle(h)], written[h])
    <3>1. \A h \in InodeSectors : C[OfHandle(h)] = <<>> /\ written[h] = <<>>
      BY <1>1, <1>7, HandleInode DEF NqfsInit
    <3>2. HoldsBytes(<<>>, <<>>)
      BY Sizes DEF HoldsBytes
    <3> QED
      BY <3>1, <3>2
  <2> QED
    BY <1>7, <2>1, <2>2, <2>3, <2>4 DEF ChainsInv, AppendInv
<1> QED
  BY <1>1, <1>4, <1>5, <1>6, <1>8 DEF NqfsInv, NqfsInit

\* An operation that ends without touching the device.
LEMMA EndsInv ==
  ASSUME NqfsInv, UNCHANGED <<disk, written, orphans>>, op' = Idle
  PROVE  NqfsInv'
<1>1. op' \notin WriteOp
  BY DEF Idle, WriteOp
<1> QED
  BY <1>1, DiskKept DEF AppendInv

\* NQFS_write_bytes begins in the first block of the file.
LEMMA WriteStartInv ==
  ASSUME NqfsInv, NEW h \in InodeSectors, NEW data \in Inputs, WriteStart(h, data)
  PROVE  NqfsInv'
<1>1. UNCHANGED <<disk, written, orphans>>
  BY DEF WriteStart, history
<1>2. CASE inodes[h][0].start_sector = 0
  BY <1>1, <1>2, EndsInv DEF WriteStart, Return
<1>3. CASE inodes[h][0].start_sector # 0
  <2>1. PICK s : s = inodes[h][0].start_sector
    OBVIOUS
  <2>2. op' = [pc |-> "seek", h |-> h, rest |-> data, total |-> 0,
               cur_size |-> inodes[h][0].size, at |-> s]
    BY <1>3, <2>1 DEF WriteStart
  <2>3. /\ OfHandle(h) \in Files /\ Inode(OfHandle(h)) = inodes[h][0]
        /\ s \in DataSectors /\ inodes[h][0].size \in Nat
    BY <1>3, <2>1, HandleInode DEF NqfsInv, InodeType, Sectors
  <2>4. data \in Seq(Byte)
    BY NqfsAssumption
  <2>5. op' \in WriteOp /\ op' # Idle
    BY <2>2, <2>3, <2>4 DEF WriteOp, Idle
  <2>6. blocks[s].magic
    <3>1. PointedTo(s)
      BY <2>1, <2>3 DEF PointedTo, StartsAt
    <3> QED
      BY <2>3, <3>1, PointedToMarked
  <2>7. ASSUME NEW C \in [Files -> Seq(DataSectors)], ChainsInv(C) PROVE AppendInv(C)'
    <3>1. PICK c \in Seq(DataSectors) : c = C[OfHandle(h)]
      BY <2>3
    <3>2. c # <<>> /\ s = c[1]
      BY <1>3, <2>1, <2>3, <2>7, <3>1 DEF ChainsInv, IsChain
    <3>3. 1 \in 1 .. Len(c)
      BY <3>2
    <3>4. inodes'[h][0].size = (1 - 1) * B + inodes[h][0].size
      BY <1>1, <2>3, Sizes DEF disk
    <3>5. AtBlock(c, 1)'
      BY <2>2, <3>2, <3>4 DEF AtBlock, OfHandle, Inode
    <3>6. Inode(OfHandle(h))'.start_sector # 0
      BY <1>1, <1>3, <2>3 DEF disk, Inode
    <3> QED
      BY <2>2, <3>1, <3>3, <3>5, <3>6 DEF AppendInv
  <2> QED
    BY <1>1, <2>2, <2>5, <2>6, <2>7, DiskKept
<1> QED
  BY <1>2, <1>3

\* The walk is over.
LEMMA WriteFoundInv ==
  ASSUME NqfsInv, WriteFound
  PROVE  NqfsInv'
<1>1. UNCHANGED <<disk, written, orphans>>
  BY DEF WriteFound, history
<1>2. op \in WriteOp /\ op.pc = "seek" /\ op.cur_size < B
  BY OpKinds DEF NqfsInv, NqfsTypes, WriteFound, B
<1>3. op' = [op EXCEPT !.pc = "write"]
  BY DEF WriteFound
<1>4. /\ op' \in WriteOp /\ op' # Idle /\ op'.at = op.at /\ op'.cur_size = op.cur_size
      /\ op'.h = op.h
  BY <1>2, <1>3 DEF WriteOp, Idle
<1>5. blocks[op.at].magic
  BY <1>2, OpKinds DEF NqfsInv, NqfsTypes, Idle
<1>6. ASSUME NEW C \in [Files -> Seq(DataSectors)], ChainsInv(C) PROVE AppendInv(C)'
  <2>1. PICK h \in InodeSectors : h = op.h
    BY <1>2 DEF WriteOp
  <2>2. PICK c : c = C[OfHandle(h)]
    OBVIOUS
  <2>3. ASSUME NEW k \in 1 .. Len(c), AtBlock(c, k)
        PROVE  AtBlock(c, k)'
    <3>1. inodes' = inodes
      BY <1>1 DEF disk
    <3> QED
      BY <1>2, <1>4, <2>1, <2>3, <3>1 DEF AtBlock, Inode, OfHandle
  <2>4. Links(op.at, 0) => Links(op.at, 0)'
    BY <1>1, <1>4 DEF Links, disk
  <2>5. \/ \E k \in 1 .. Len(c) : AtBlock(c, k)
        \/ OffChains(C, op.at) /\ Links(op.at, 0) /\ orphans # {}
    BY <1>2, <1>6, <2>1, <2>2 DEF ChainsInv, AppendInv
  <2>6. \/ \E k \in 1 .. Len(c) : AtBlock(c, k)'
        \/ (OffChains(C, op.at) /\ Links(op.at, 0) /\ orphans # {})'
    BY <1>1, <1>4, <2>3, <2>4, <2>5 DEF OffChains
  <2>7. Inode(OfHandle(h))'.start_sector # 0
    BY <1>1, <1>2, <1>6, <2>1 DEF ChainsInv, AppendInv, disk, Inode
  <2> QED
    BY <1>2, <1>4, <2>1, <2>2, <2>6, <2>7 DEF AppendInv
<1> QED
  BY <1>1, <1>4, <1>5, <1>6, DiskKept

\* NQFS_read_bytes only follows pointers.
LEMMA ReadStartInv ==
  ASSUME NqfsInv, NEW h \in InodeSectors, NEW size \in 0 .. MAX_READ, ReadStart(h, size)
  PROVE  NqfsInv'
<1>1. UNCHANGED <<disk, written, orphans>>
  BY DEF ReadStart, history
<1>2. CASE inodes[h][0].start_sector = 0
  BY <1>1, <1>2, EndsInv DEF ReadStart, Return
<1>3. CASE inodes[h][0].start_sector # 0
  <2>1. PICK s : s = inodes[h][0].start_sector
    OBVIOUS
  <2>2. op' = [pc |-> "read", at |-> s,
               size |-> IF size > inodes[h][0].size THEN inodes[h][0].size ELSE size]
    BY <1>3, <2>1 DEF ReadStart
  <2>3. /\ OfHandle(h) \in Files /\ Inode(OfHandle(h)) = inodes[h][0]
        /\ s \in DataSectors /\ inodes[h][0].size \in Nat
    BY <1>3, <2>1, HandleInode DEF NqfsInv, InodeType, Sectors
  <2>4. op' \in ReadOp /\ op' # Idle /\ op' \notin WriteOp
    BY <2>2, <2>3, NqfsAssumption DEF ReadOp, WriteOp, Idle
  <2>5. blocks[s].magic
    <3>1. PointedTo(s)
      BY <2>1, <2>3 DEF PointedTo, StartsAt
    <3> QED
      BY <2>3, <3>1, PointedToMarked
  <2> QED
    BY <1>1, <2>2, <2>4, <2>5, DiskKept DEF AppendInv
<1> QED
  BY <1>2, <1>3

LEMMA ReadChunkInv ==
  ASSUME NqfsInv, ReadChunk
  PROVE  NqfsInv'
<1>1. UNCHANGED <<disk, written, orphans>>
  BY DEF ReadChunk, history
<1>2. op \in ReadOp /\ op # Idle /\ blocks[op.at].magic /\ op.size > 0
  BY OpKinds DEF NqfsInv, NqfsTypes, ReadChunk, Idle
<1>3. CASE op' = Idle
  BY <1>1, <1>3, EndsInv
<1>4. CASE op' # Idle
  <2>1. PICK left \in Nat :
          /\ ~(left > 0 /\ blocks[op.at].next = 0)
          /\ op' = [op EXCEPT !.size = left,
                              !.at = IF left > 0 THEN blocks[op.at].next ELSE op.at]
    <3>1. PICK left : left = op.size - (IF op.size < B THEN op.size ELSE B)
      OBVIOUS
    <3>2. left \in Nat
      BY <1>2, <3>1, Sizes DEF ReadOp
    <3> QED
      BY <1>4, <3>1, <3>2 DEF ReadChunk, Return, B
  <2>2. PICK a : a = IF left > 0 THEN blocks[op.at].next ELSE op.at
    OBVIOUS
  <2>3. op.at \in DataSectors /\ blocks[op.at] \in BlockType
    BY <1>2 DEF ReadOp, NqfsInv, NqfsTypes
  <2>4. a \in DataSectors /\ blocks[a].magic
    <3>1. CASE left > 0
      <4>1. a \in DataSectors /\ Links(op.at, a)
        BY <2>1, <2>2, <2>3, <3>1 DEF BlockType, Sectors, Links
      <4> QED
        BY <2>3, <4>1, PointedToMarked DEF PointedTo
    <3>2. CASE ~(left > 0)
      BY <1>2, <2>2, <2>3, <3>2
    <3> QED
      BY <3>1, <3>2
  <2>5. op' = [op EXCEPT !.size = left, !.at = a]
    BY <2>1, <2>2
  <2>6. op' \in ReadOp /\ op' \notin WriteOp /\ op'.at = a
    BY <1>2, <2>4, <2>5 DEF ReadOp, WriteOp
  <2> QED
    BY <1>1, <2>4, <2>6, DiskKept DEF AppendInv
<1> QED
  BY <1>3, <1>4

-----------------------------------------------------------------------------
(* The walk to the last block. *)

\* A step along the chain.
LEMMA SeekLinked ==
  ASSUME NqfsInv, WriteSeek, blocks[op.at].next # 0
  PROVE  NqfsInv'
<1>1. /\ op \in WriteOp /\ op.pc = "seek" /\ op.cur_size >= B /\ op.cur_size \in Nat
      /\ op.at \in DataSectors /\ blocks[op.at] \in BlockType
  <2>1. op \in WriteOp
    BY OpKinds DEF NqfsInv, NqfsTypes, WriteSeek
  <2> QED
    BY <2>1 DEF WriteOp, NqfsInv, NqfsTypes, WriteSeek, B
<1>2. UNCHANGED <<disk, written, orphans>>
  BY DEF WriteSeek, disk
<1>3. PICK n : n = blocks[op.at].next
  OBVIOUS
<1>4. n \in DataSectors /\ Links(op.at, n)
  BY <1>1, <1>3 DEF BlockType, Sectors, Links
<1>5. op' = [op EXCEPT !.at = n, !.cur_size = op.cur_size - B]
  BY <1>3 DEF WriteSeek, B
<1>6. op.cur_size - B \in Nat
  BY <1>1, Sizes
<1>7. /\ op' \in WriteOp /\ op' # Idle /\ op'.at = n /\ op'.h = op.h /\ op'.pc = "seek"
      /\ op'.cur_size = op.cur_size - B
  BY <1>1, <1>4, <1>5, <1>6 DEF WriteOp, Idle
<1>8. blocks[n].magic
  BY <1>1, <1>4, PointedToMarked DEF PointedTo
<1>9. ASSUME NEW C \in [Files -> Seq(DataSectors)], ChainsInv(C) PROVE AppendInv(C)'
  <2>1. PICK h \in InodeSectors : h = op.h
    BY <1>1 DEF WriteOp
  <2>2. OfHandle(h) \in Files
    BY HandleInode DEF NqfsInv
  <2>3. PICK c \in Seq(DataSectors) : c = C[OfHandle(h)]
    BY <2>2
  <2>4. PICK k \in 1 .. Len(c) : AtBlock(c, k)
    BY <1>1, <1>3, <1>9, <2>1, <2>3 DEF ChainsInv, AppendInv, Links
  <2>5. IsChain(OfHandle(h), c)
    BY <1>9, <2>2, <2>3 DEF ChainsInv
  <2>6. k < Len(c) /\ n = c[k + 1]
    BY <1>3, <2>4, <2>5 DEF IsChain, Links, AtBlock
  <2>7. k + 1 \in 1 .. Len(c) /\ (k + 1) - 1 = k
    BY <2>6
  <2>8. Inode(OfHandle(h)).size = k * B + (op.cur_size - B)
    <3>1. Inode(OfHandle(h)).size = (k - 1) * B + op.cur_size
      BY <1>1, <2>1, <2>4 DEF AtBlock
    <3>2. k * B = (k - 1) * B + B /\ (k - 1) * B \in Nat
      <4>1. k - 1 \in Nat /\ (k - 1) + 1 = k
        BY <2>4
      <4> QED
        BY <4>1, Multiples
    <3> QED
      BY <1>1, <3>1, <3>2, Sizes
  <2>9. AtBlock(c, k + 1)'
    <3>1. inodes' = inodes
      BY <1>2 DEF disk
    <3> QED
      BY <1>7, <2>1, <2>6, <2>7, <2>8, <3>1 DEF AtBlock, Inode, OfHandle
  <2>10. Inode(OfHandle(h))'.start_sector # 0
    BY <1>1, <1>2, <1>9, <2>1 DEF ChainsInv, AppendInv, disk, Inode
  <2> QED
    BY <1>7, <2>1, <2>3, <2>7, <2>9, <2>10 DEF AppendInv
<1> QED
  BY <1>2, <1>7, <1>8, <1>9, DiskKept

\* At the end of the chain a new block is taken, and lost.
LEMMA SeekLost ==
  ASSUME NqfsInv, WriteSeek, blocks[op.at].next = 0, NQFS_get_next_free_block # 0
  PROVE  NqfsInv'
<1>1. /\ op \in WriteOp /\ op.pc = "seek" /\ op.cur_size >= B /\ op.cur_size \in Nat
      /\ blocks \in [DataSectors -> BlockType] /\ op.at \in DataSectors
  <2>1. op \in WriteOp
    BY OpKinds DEF NqfsInv, NqfsTypes, WriteSeek
  <2> QED
    BY <2>1 DEF WriteOp, NqfsInv, NqfsTypes, WriteSeek, B
<1>2. PICK n : n = NQFS_get_next_free_block
  OBVIOUS
<1>3. n \in DataSectors /\ ~blocks[n].magic /\ RAMBLK__write_sector(n) /\ n # 0
  BY <1>2, NewBlock
<1>4. /\ inodes' = inodes /\ written' = written
      /\ blocks' = Marked(blocks, n) /\ orphans' = orphans \cup {n}
      /\ op' = [op EXCEPT !.at = n, !.cur_size = op.cur_size - B]
  BY <1>2, <1>3 DEF WriteSeek, B
<1>5. /\ blocks' \in [DataSectors -> BlockType]
      /\ \A b \in DataSectors : b # n => blocks'[b] = blocks[b]
      /\ blocks'[n] = [magic |-> TRUE, next |-> 0, data |-> blocks[n].data]
  BY <1>1, <1>3, <1>4, MarkedEffect
<1>6. op' \in WriteOp /\ op' # Idle /\ op'.at = n /\ op'.pc = "seek"
  <2>1. op.cur_size - B \in Nat
    BY <1>1, Sizes
  <2> QED
    BY <1>1, <1>3, <1>4, <2>1 DEF WriteOp, Idle
<1>7. NqfsTypes'
  BY <1>3, <1>4, <1>5, <1>6 DEF NqfsInv, NqfsTypes
<1>8. Links(n, 0) /\ MarksInv /\ OnePointer
  BY <1>3, FreeBlock DEF NqfsInv
<1>9. /\ \A f, b : StartsAt(f, b)' <=> StartsAt(f, b)
      /\ \A f : Inode(f)' = Inode(f)
      /\ \A c \in DataSectors : \A b : Links(c, b)' <=> Links(c, b)
      /\ \A b \in DataSectors : blocks'[b].magic <=> blocks[b].magic \/ b = n
  BY <1>4, <1>5, <1>8 DEF Inode, StartsAt, Links
<1>10. OnePointer' /\ MarksInv'
  BY <1>3, <1>4, <1>8, <1>9, PointerNowhere
<1>11. InodesInv'
  BY <1>4 DEF NqfsInv, InodesInv, Inode
<1>12. PICK C \in [Files -> Seq(DataSectors)] : ChainsInv(C)
  BY DEF NqfsInv
<1>13. OffChains(C, n)
  BY <1>3, <1>8, <1>12, FreeOffChains DEF ChainsInv
<1>14. \A f \in Files : IsChain(f, C[f])'
  <2> SUFFICES ASSUME NEW f \in Files PROVE IsChain(f, C[f])'
    OBVIOUS
  <2>1. IsChain(f, C[f]) /\ \A k \in 1 .. Len(C[f]) : C[f][k] \in DataSectors
    BY <1>12 DEF ChainsInv
  <2> QED
    BY <1>9, <2>1 DEF IsChain
<1>15. AppendInv(C)'
  <2>1. op'.h = op.h
    BY <1>1, <1>4 DEF WriteOp
  <2>2. Inode(OfHandle(op.h))'.start_sector # 0
    BY <1>1, <1>4, <1>12, <2>1 DEF ChainsInv, AppendInv, Inode, OfHandle
  <2> QED
    BY <1>3, <1>4, <1>6, <1>8, <1>9, <1>13, <2>2 DEF AppendInv, OffChains
<1>16. ChainsInv(C)'
  BY <1>4, <1>12, <1>14, <1>15 DEF ChainsInv, Disjoint
<1> QED
  BY <1>5, <1>6, <1>7, <1>10, <1>11, <1>16 DEF NqfsInv

LEMMA WriteSeekInv ==
  ASSUME NqfsInv, WriteSeek
  PROVE  NqfsInv'
<1>1. CASE blocks[op.at].next # 0
  BY <1>1, SeekLinked
<1>2. CASE blocks[op.at].next = 0 /\ NQFS_get_next_free_block # 0
  BY <1>2, SeekLost
<1>3. CASE blocks[op.at].next = 0 /\ NQFS_get_next_free_block = 0
  BY <1>3, EndsInv DEF WriteSeek, Return, Marked, disk
<1> QED
  BY <1>1, <1>2, <1>3

-----------------------------------------------------------------------------
(* NQFS_create_file. *)

LEMMA FirstFree ==
  ASSUME FreeInodes # {}
  PROVE  FirstFreeInode \in FreeInodes
<1> DEFINE T == {i \in InodeSectors : \E j \in Slots : <<i, j>> \in FreeInodes}
           U(i) == {j \in Slots : <<i, j>> \in FreeInodes}
<1>1. \A g \in FreeInodes : g[1] \in T /\ g[2] \in U(g[1])
  BY DEF FreeInodes
<1>2. T \in SUBSET Nat /\ T # {}
  BY <1>1, Sizes
<1>3. PICK i \in T : \A y \in T : i <= y
  BY <1>2, LeastOf
<1>4. U(i) \in SUBSET Nat /\ U(i) # {}
  BY <1>3, Sizes
<1>5. PICK j \in U(i) : \A y \in U(i) : j <= y
  BY <1>4, LeastOf
<1>6. PICK f : f = <<i, j>>
  OBVIOUS
<1>7. f \in FreeInodes /\ f[1] = i /\ f[2] = j
  BY <1>5, <1>6
<1>8. \A g \in FreeInodes : f[1] < g[1] \/ (f[1] = g[1] /\ f[2] <= g[2])
  <2> SUFFICES ASSUME NEW g \in FreeInodes PROVE i < g[1] \/ (i = g[1] /\ j <= g[2])
    BY <1>7
  <2>1. g[1] \in T /\ g[2] \in U(g[1]) /\ i <= g[1] /\ (i = g[1] => j <= g[2])
    BY <1>1, <1>3, <1>5
  <2>2. i \in Nat /\ g[1] \in Nat
    BY <1>2, <2>1
  <2> HIDE DEF T, U
  <2> QED
    BY <2>1, <2>2
<1> QED
  BY <1>7, <1>8, Zenon DEF FirstFreeInode

\* A new file has one block, an empty one.
LEMMA CreateTakes ==
  ASSUME NqfsInv, NQFS_create_file, FreeInodes # {}, NQFS_get_next_free_block # 0
  PROVE  NqfsInv'
<1>1. PICK n : n = NQFS_get_next_free_block
  OBVIOUS
<1>2. n \in DataSectors /\ ~blocks[n].magic /\ RAMBLK__write_sector(n) /\ n # 0
  BY <1>1, NewBlock
<1>3. PICK f : f = FirstFreeInode
  OBVIOUS
<1>4. f \in Files /\ ~Inode(f).allocd
  BY <1>3, FirstFree DEF FreeInodes, Files, Inode
<1>5. PICK i \in InodeSectors, j \in Slots : f = <<i, j>>
  BY <1>4 DEF Files
<1>6. /\ inodes' = [inodes EXCEPT ![i][j] = [allocd |-> TRUE, start_sector |-> n, size |-> 0]]
      /\ blocks' = Marked(blocks, n) /\ op' = Idle
      /\ written' = written /\ orphans' = orphans
  BY <1>1, <1>2, <1>3, <1>5 DEF NQFS_create_file, Return
<1>7. NqfsTypes /\ blocks \in [DataSectors -> BlockType]
  BY DEF NqfsInv, NqfsTypes
<1>8. /\ blocks' \in [DataSectors -> BlockType]
      /\ \A b \in DataSectors : b # n => blocks'[b] = blocks[b]
      /\ blocks'[n] = [magic |-> TRUE, next |-> 0, data |-> blocks[n].data]
  BY <1>2, <1>6, <1>7, MarkedEffect
<1>9. inodes' \in [InodeSectors -> [Slots -> InodeType]]
  <2>1. PICK r : r = [allocd |-> TRUE, start_sector |-> n, size |-> 0]
    OBVIOUS
  <2>2. r \in InodeType
    BY <1>2, <2>1 DEF InodeType, Sectors
  <2> QED
    BY <1>6, <1>7, <2>1, <2>2 DEF NqfsTypes
<1>10. /\ Inode(f)' = [allocd |-> TRUE, start_sector |-> n, size |-> 0]
       /\ \A g \in Files : g # f => Inode(g)' = Inode(g)
  BY <1>5, <1>6, <1>7 DEF NqfsTypes, Inode, Files
<1>11. NqfsTypes'
  BY <1>6, <1>7, <1>8, <1>9 DEF NqfsTypes
<1>12. /\ Links(n, 0) /\ MarksInv /\ OnePointer /\ InodesInv
       /\ Inode(f).start_sector = 0 /\ Inode(f).size = 0
  BY <1>2, <1>4, FreeBlock DEF NqfsInv, InodesInv
<1>13. OnePointer' /\ MarksInv'
  <2>1. \A g \in Files : \A b : StartsAt(g, b)' <=> IF g = f THEN b = n ELSE StartsAt(g, b)
    BY <1>10 DEF StartsAt
  <2>2. \A c \in DataSectors : \A b : Links(c, b)' <=> Links(c, b)
    BY <1>8, <1>12 DEF Links
  <2>3. \A b \in DataSectors : blocks'[b].magic <=> blocks[b].magic \/ b = n
    BY <1>8
  <2>4. StartsAt(f, 0)
    BY <1>12 DEF StartsAt
  <2> QED
    BY <1>2, <1>4, <1>6, <1>12, <2>1, <2>2, <2>3, <2>4, PointerFromInode
<1>14. InodesInv'
  <2>1. \A h \in InodeSectors : OfHandle(h) \in Files
    BY <1>7, HandleInode
  <2> QED
    BY <1>6, <1>10, <1>12, <2>1 DEF InodesInv, OfHandle
<1>15. PICK C \in [Files -> Seq(DataSectors)] : ChainsInv(C)
  BY DEF NqfsInv
<1>16. OffChains(C, n) /\ C[f] = <<>>
  <2>1. C[f] \in Seq(DataSectors) /\ IsChain(f, C[f])
    BY <1>4, <1>15 DEF ChainsInv
  <2>2. C[f] # <<>> => C[f][1] \in DataSectors
    BY <2>1
  <2> QED
    BY <1>2, <1>12, <1>15, <2>1, <2>2, Sizes, FreeOffChains DEF ChainsInv, IsChain
<1>17. PICK D \in [Files -> Seq(DataSectors)] :
         D[f] = <<n>> /\ \A g \in Files : g # f => D[g] = C[g]
  <2>1. <<n>> \in Seq(DataSectors)
    BY <1>2
  <2>2. PICK d \in Seq(DataSectors) : d = <<n>>
    BY <2>1
  <2>3. [C EXCEPT ![f] = d] \in [Files -> Seq(DataSectors)]
    BY <2>2
  <2> QED
    BY <1>4, <2>2, <2>3
<1>18. \A g \in Files : IsChain(g, D[g])'
  <2> SUFFICES ASSUME NEW g \in Files PROVE IsChain(g, D[g])'
    OBVIOUS
  <2>1. CASE g = f
    <3>1. Len(<<n>>) = 1 /\ <<n>>[1] = n /\ <<n>> # <<>>
      OBVIOUS
    <3>2. Links(n, 0)' /\ Inode(f)'.start_sector = n /\ Inode(f)'.size = 0
      BY <1>8, <1>10 DEF Links
    <3>3. (1 - 1) * B = 0
      BY Sizes
    <3>4. PICK d : d = D[g] /\ d = <<n>>
      BY <1>17, <2>1
    <3>5. IsChain(f, d)'
      BY <3>1, <3>2, <3>3, <3>4 DEF IsChain
    <3> QED
      BY <2>1, <3>4, <3>5
  <2>2. CASE g # f
    <3>1. PICK c \in Seq(DataSectors) : c = C[g] /\ c = D[g]
      BY <1>17, <2>2
    <3>2. IsChain(g, c) /\ \A k \in 1 .. Len(c) : c[k] \in DataSectors /\ c[k] # n
      <4>1. IsChain(g, c)
        BY <1>15, <3>1 DEF ChainsInv
      <4>2. \A k \in 1 .. Len(c) : c[k] # n
        BY <1>16, <3>1 DEF OffChains
      <4> QED
        BY <4>1, <4>2
    <3>3. Inode(g)' = Inode(g) /\ \A k \in 1 .. Len(c) : \A b : Links(c[k], b)' <=> Links(c[k], b)
      BY <1>8, <1>10, <2>2, <3>2 DEF Links
    <3> QED
      BY <3>1, <3>2, <3>3 DEF IsChain
  <2> QED
    BY <2>1, <2>2
<1>19. Disjoint(D)
  <2> SUFFICES ASSUME NEW g1 \in Files, NEW g2 \in Files,
                      NEW k \in 1 .. Len(D[g1]), NEW l \in 1 .. Len(D[g2]), D[g1][k] = D[g2][l]
               PROVE  g1 = g2 /\ k = l
    BY DEF Disjoint
  <2>1. \A g \in Files : \A m \in 1 .. Len(D[g]) :
          IF g = f THEN m = 1 /\ D[g][m] = n ELSE m \in 1 .. Len(C[g]) /\ D[g][m] = C[g][m] /\ D[g][m] # n
    <3> SUFFICES ASSUME NEW g \in Files, NEW m \in 1 .. Len(D[g])
                 PROVE  IF g = f THEN m = 1 /\ D[g][m] = n
                        ELSE m \in 1 .. Len(C[g]) /\ D[g][m] = C[g][m] /\ D[g][m] # n
      OBVIOUS
    <3>1. CASE g = f
      <4>1. D[g] = <<n>> /\ m \in 1 .. Len(<<n>>)
        BY <1>17, <3>1
      <4> QED
        BY <3>1, <4>1
    <3>2. CASE g # f
      <4>1. D[g] = C[g] /\ m \in 1 .. Len(C[g])
        BY <1>17, <3>2
      <4>2. C[g][m] # n
        BY <1>16, <4>1 DEF OffChains
      <4> QED
        BY <3>2, <4>1, <4>2
    <3> QED
      BY <3>1, <3>2
  <2>2. IF g1 = f THEN k = 1 /\ D[g1][k] = n
        ELSE k \in 1 .. Len(C[g1]) /\ D[g1][k] = C[g1][k] /\ D[g1][k] # n
    BY <2>1
  <2>3. IF g2 = f THEN l = 1 /\ D[g2][l] = n
        ELSE l \in 1 .. Len(C[g2]) /\ D[g2][l] = C[g2][l] /\ D[g2][l] # n
    BY <2>1
  <2>4. k \in 1 .. Len(C[g1]) /\ l \in 1 .. Len(C[g2]) /\ C[g1][k] = C[g2][l] => g1 = g2 /\ k = l
    <3>1. Disjoint(C)
      BY <1>15 DEF ChainsInv
    <3> QED
      BY <3>1 DEF Disjoint
  <2> QED
    BY <2>2, <2>3, <2>4, Zenon
<1>20. orphans = {} => \A h \in InodeSectors : HoldsBytes(D[OfHandle(h)], written[h])'
  <2> SUFFICES ASSUME orphans = {}, NEW h \in InodeSectors, NEW d, NEW w,
                      d = D[OfHandle(h)], w = written[h]
               PROVE  HoldsBytes(d, w)'
    <3>1. \A h \in InodeSectors : OfHandle(h)' = OfHandle(h) /\ written'[h] = written[h]
      BY <1>6 DEF OfHandle
    <3> QED
      BY <3>1
  <2>1. OfHandle(h) \in Files /\ w \in Seq(Byte)
    BY <1>7, HandleInode DEF NqfsTypes
  <2>2. CASE OfHandle(h) = f
    <3>1. Len(w) = 0
      BY <1>12, <2>2 DEF InodesInv
    <3>2. d = <<n>>
      BY <1>17, <2>2
    <3>3. Len(d) = 1 /\ Len(w) <= 1 * B
      BY <3>1, <3>2, Sizes
    <3>4. \A k \in 1 .. Len(d), o \in Offsets : ~((k - 1) * B + o < Len(w))
      <4> SUFFICES ASSUME NEW k \in 1 .. Len(d), NEW o \in Offsets
                   PROVE  ~((k - 1) * B + o < Len(w))
        OBVIOUS
      <4>1. k = 1 /\ o \in Nat /\ (1 - 1) * B = 0
        BY <3>3, Sizes
      <4> QED
        BY <3>1, <4>1
    <3> QED
      BY <3>3, <3>4 DEF HoldsBytes
  <2>3. CASE OfHandle(h) # f
    <3>1. d = C[OfHandle(h)] /\ d \in Seq(DataSectors)
      BY <1>17, <2>1, <2>3
    <3>2. HoldsBytes(d, w)
      BY <1>15, <3>1 DEF ChainsInv
    <3>3. \A k \in 1 .. Len(d) : blocks'[d[k]] = blocks[d[k]]
      <4> SUFFICES ASSUME NEW k \in 1 .. Len(d) PROVE blocks'[d[k]] = blocks[d[k]]
        OBVIOUS
      <4>1. d[k] \in DataSectors /\ d[k] # n
        BY <1>16, <2>1, <3>1 DEF OffChains
      <4> QED
        BY <1>8, <4>1
    <3> QED
      BY <3>2, <3>3 DEF HoldsBytes
  <2> QED
    BY <2>2, <2>3
<1>21. op' \notin WriteOp
  BY <1>6 DEF Idle, WriteOp
<1>22. ChainsInv(D)'
  BY <1>6, <1>17, <1>18, <1>19, <1>20, <1>21 DEF ChainsInv, AppendInv, Disjoint
<1> QED
  BY <1>6, <1>11, <1>13, <1>14, <1>22 DEF NqfsInv

LEMMA CreateInv ==
  ASSUME NqfsInv, NQFS_create_file
  PROVE  NqfsInv'
<1>1. CASE FreeInodes # {} /\ NQFS_get_next_free_block # 0
  BY <1>1, CreateTakes
<1>2. CASE FreeInodes = {} \/ NQFS_get_next_free_block = 0
  BY <1>2, EndsInv DEF NQFS_create_file, Return
<1> QED
  BY <1>1, <1>2

-----------------------------------------------------------------------------
(* One block of an append.  w bytes go into the block the append is in, which *)
(* then holds d; n is the block that is linked behind it, 0 for none.         *)

ChunkDone(w, n, d) ==
  /\ op.cur_size + w <= B
  /\ n # 0 => ~blocks[n].magic /\ RAMBLK__write_sector(n) /\ op.cur_size + w = B
  /\ \A o \in Offsets : d[o] = IF o \in op.cur_size .. op.cur_size + w - 1
                                 THEN op.rest[o - op.cur_size + 1] ELSE blocks[op.at].data[o]
  /\ inodes' = [inodes EXCEPT ![op.h][0].size = @ + w]
  /\ written' = [written EXCEPT ![op.h] = @ \o SubSeq(op.rest, 1, w)]
  /\ blocks' \in [DataSectors -> BlockType]
  /\ blocks'[op.at] = [magic |-> TRUE, next |-> n, data |-> d]
  /\ \A b \in DataSectors : b # op.at /\ b # n => blocks'[b] = blocks[b]
  /\ n # 0 => blocks'[n] = [magic |-> TRUE, next |-> 0, data |-> blocks[n].data]
  /\ orphans' = orphans
  /\ \/ op' = Idle
     \/ /\ op' \in WriteOp /\ op'.pc = "write" /\ op'.cur_size = 0 /\ op'.h = op.h
        /\ op'.at = IF n = 0 THEN op.at ELSE n
        /\ n = 0 => op'.rest = <<>>

\* An append that is about to write.
Writing == op \in WriteOp /\ op.pc = "write" /\ op.rest # <<>>

LEMMA WritingTypes ==
  ASSUME NqfsInv, Writing
  PROVE  /\ op.h \in InodeSectors /\ op.rest \in Seq(Byte) /\ op.at \in DataSectors
         /\ op.cur_size \in Nat /\ op.cur_size < B /\ op.total \in Nat /\ Len(op.rest) \in Nat \ {0}
         /\ blocks[op.at] \in BlockType /\ blocks[op.at].magic
<1>1. /\ op.h \in InodeSectors /\ op.rest \in Seq(Byte) /\ op.at \in DataSectors
      /\ op.cur_size \in Nat /\ op.total \in Nat
  BY DEF Writing, WriteOp
<1>2. op.cur_size < B
  BY DEF Writing, NqfsInv, ChainsInv, AppendInv
<1>3. Len(op.rest) \in Nat \ {0}
  BY <1>1 DEF Writing
<1>4. op # Idle
  BY DEF Writing, WriteOp, Idle
<1> QED
  BY <1>1, <1>2, <1>3, <1>4 DEF NqfsInv, NqfsTypes

\* It is in the last block of its chain, or in a lost one.
LEMMA LastBlock ==
  ASSUME NqfsInv, Writing
  PROVE  /\ Links(op.at, 0)
         /\ \A C \in [Files -> Seq(DataSectors)] : ChainsInv(C) =>
              LET c == C[OfHandle(op.h)]
              IN  \/ c # <<>> /\ AtBlock(c, Len(c))
                  \/ OffChains(C, op.at) /\ orphans # {}
<1> SUFFICES ASSUME NEW C \in [Files -> Seq(DataSectors)], ChainsInv(C)
             PROVE  /\ Links(op.at, 0)
                    /\ \/ C[OfHandle(op.h)] # <<>> /\ AtBlock(C[OfHandle(op.h)], Len(C[OfHandle(op.h)]))
                       \/ OffChains(C, op.at) /\ orphans # {}
  BY DEF NqfsInv
<1>1. PICK h \in InodeSectors : h = op.h
  BY WritingTypes
<1>2. OfHandle(h) \in Files
  BY HandleInode DEF NqfsInv
<1>3. PICK c \in Seq(DataSectors) : c = C[OfHandle(h)]
  BY <1>2
<1>4. \/ \E k \in 1 .. Len(c) : AtBlock(c, k)
      \/ OffChains(C, op.at) /\ Links(op.at, 0) /\ orphans # {}
  BY <1>1, <1>3 DEF Writing, ChainsInv, AppendInv
<1>5. ASSUME NEW k \in 1 .. Len(c), AtBlock(c, k) PROVE k = Len(c) /\ Links(op.at, 0)
  <2>1. IsChain(OfHandle(h), c)
    BY <1>2, <1>3 DEF ChainsInv
  <2>2. k = Len(c)
    <3> SUFFICES ASSUME k # Len(c) PROVE FALSE
      OBVIOUS
    <3>1. PICK l \in Nat : l = k - 1 /\ l + 1 = k
      OBVIOUS
    <3>2. PICK z : z = Inode(OfHandle(h)).size
      OBVIOUS
    <3>3. z = l * B + op.cur_size
      BY <1>1, <1>5, <3>1, <3>2 DEF AtBlock, Writing
    <3>4. k * B <= z
      <4>1. k + 1 \in 1 .. Len(c) /\ (k + 1) - 1 = k
        BY <1>5
      <4> QED
        BY <2>1, <3>2, <4>1 DEF IsChain
    <3>5. PICK x \in Nat : x = l * B /\ k * B = x + B
      BY <3>1, Multiples
    <3>6. z = x + op.cur_size /\ x + B <= z
      BY <3>3, <3>4, <3>5
    <3> QED
      BY <3>6, Sizes, WritingTypes
  <2> QED
    BY <1>5, <2>1, <2>2 DEF IsChain, AtBlock
<1> QED
  BY <1>1, <1>3, <1>4, <1>5

LEMMA ChunkEffect ==
  ASSUME NqfsInv, WriteChunk
  PROVE  /\ Writing
         /\ \E w \in 1 .. Len(op.rest), n \in Sectors, d \in [Offsets -> Byte] : ChunkDone(w, n, d)
<1>1. Writing
  BY OpKinds DEF NqfsInv, NqfsTypes, WriteChunk, Writing
<1>2. PICK r \in Seq(Byte) : r = op.rest
  BY <1>1, WritingTypes
<1>3. PICK s \in Nat : s = op.cur_size
  BY <1>1, WritingTypes
<1>4. PICK a \in DataSectors : a = op.at
  BY <1>1, WritingTypes
<1>5. PICK w : w = IF Len(r) < B - s THEN Len(r) ELSE B - s
  OBVIOUS
<1>6. /\ w \in 1 .. Len(r) /\ s + w <= B
      /\ Len(r) > w => s + w = B
      /\ ~(Len(r) > w) => w = Len(r)
  BY <1>1, <1>2, <1>3, <1>5, WritingTypes, Sizes, SMTT(40)
<1>7. PICK new : new = NQFS_get_next_free_block
  OBVIOUS
<1>8. PICK n : n = IF Len(r) > w THEN new ELSE 0
  OBVIOUS
<1>9. n # 0 => n \in DataSectors /\ ~blocks[n].magic /\ RAMBLK__write_sector(n) /\ Len(r) > w
  BY <1>7, <1>8, NewBlock
<1>10. PICK d : d = [k \in Offsets |-> IF k \in s .. s + w - 1 THEN r[k - s + 1] ELSE blocks[a].data[k]]
  OBVIOUS
<1>11. d \in [Offsets -> Byte]
  <2>1. \A k \in Offsets : k \in s .. s + w - 1 => k - s + 1 \in 1 .. Len(r)
    BY <1>6, Sizes
  <2>2. \A k \in 1 .. Len(r) : r[k] \in Byte
    BY <1>2
  <2>3. \A k \in Offsets : blocks[a].data[k] \in Byte
    BY <1>4 DEF NqfsInv, NqfsTypes, BlockType
  <2> QED
    BY <1>10, <2>1, <2>2, <2>3
<1>12. PICK filled : filled = [blocks[a] EXCEPT !.data = d]
  OBVIOUS
<1>13. filled = [magic |-> TRUE, next |-> blocks[a].next, data |-> d]
  BY <1>1, <1>4, <1>12, WritingTypes DEF BlockType
<1>14. [blocks[op.at] EXCEPT !.data =
           [k \in Offsets |-> IF k \in op.cur_size .. op.cur_size + w - 1
                                THEN op.rest[k - op.cur_size + 1] ELSE @[k]]] = filled
  BY <1>2, <1>3, <1>4, <1>10, <1>12
<1>15. PICK bs : bs = [blocks EXCEPT ![a] = [magic |-> TRUE, next |-> n, data |-> d]]
  OBVIOUS
<1>16. /\ inodes' = [inodes EXCEPT ![op.h][0].size = @ + w]
       /\ written' = [written EXCEPT ![op.h] = @ \o SubSeq(r, 1, w)]
       /\ blocks' = IF Len(r) > w
                      THEN Marked([blocks EXCEPT ![a] = [filled EXCEPT !.next = new]], new)
                      ELSE [blocks EXCEPT ![a] = filled]
       /\ IF Len(r) > w /\ new = 0
            THEN op' = Idle
            ELSE op' = [op EXCEPT !.rest = SubSeq(r, w + 1, Len(r)),
                                  !.total = op.total + w,
                                  !.cur_size = 0,
                                  !.at = IF Len(r) > w THEN new ELSE a]
       /\ orphans' = orphans
  BY <1>2, <1>3, <1>4, <1>5, <1>7, <1>14 DEF WriteChunk, Return, B
<1>17. ChunkDone(w, n, d)
  <2>1. /\ op.cur_size + w <= B
        /\ n # 0 => ~blocks[n].magic /\ RAMBLK__write_sector(n) /\ op.cur_size + w = B
    BY <1>3, <1>6, <1>9
  <2>2. \A o \in Offsets : d[o] = IF o \in op.cur_size .. op.cur_size + w - 1
                                 THEN op.rest[o - op.cur_size + 1] ELSE blocks[op.at].data[o]
    BY <1>2, <1>3, <1>4, <1>10
  <2>3. blocks' = Marked(bs, n)
    <3>1. CASE Len(r) > w
      <4>1. [filled EXCEPT !.next = n] = [magic |-> TRUE, next |-> n, data |-> d]
        <5>1. filled \in BlockType
          BY <1>1, <1>4, <1>11, <1>13, WritingTypes DEF BlockType
        <5>2. [filled EXCEPT !.next = n] = [magic |-> filled.magic, next |-> n, data |-> filled.data]
          BY <5>1 DEF BlockType
        <5> QED
          BY <1>13, <5>2
      <4>2. n = new
        BY <1>8, <3>1
      <4> QED
        BY <1>13, <1>15, <1>16, <3>1, <4>1, <4>2
    <3>2. CASE ~(Len(r) > w)
      <4>1. n = 0 /\ blocks[a].next = n
        BY <1>1, <1>4, <1>8, <3>2, LastBlock DEF Links
      <4>2. blocks' = bs
        BY <1>13, <1>15, <1>16, <3>2, <4>1
      <4> QED
        BY <4>1, <4>2 DEF Marked
    <3> QED
      BY <3>1, <3>2
  <2>4. PICK e \in BlockType : e = [magic |-> TRUE, next |-> n, data |-> d]
    BY <1>9, <1>11 DEF BlockType, Sectors
  <2>5. /\ bs \in [DataSectors -> BlockType] /\ bs[a] = e
        /\ \A b \in DataSectors : b # a => bs[b] = blocks[b]
    BY <1>15, <2>4 DEF NqfsInv, NqfsTypes
  <2>6. /\ blocks' \in [DataSectors -> BlockType]
        /\ blocks'[a] = e
        /\ \A b \in DataSectors : b # a /\ b # n => blocks'[b] = blocks[b]
        /\ n # 0 => blocks'[n] = [magic |-> TRUE, next |-> 0, data |-> blocks[n].data]
    <3>1. CASE n = 0
      BY <2>3, <2>5, <3>1 DEF Marked
    <3>2. CASE n # 0
      <4>1. n \in DataSectors /\ n # a
        BY <1>1, <1>4, <1>9, <3>2, WritingTypes
      <4> QED
        BY <2>3, <2>5, <4>1, MarkedEffect
    <3> QED
      BY <3>1, <3>2
  <2>7. \/ op' = Idle
        \/ /\ op' \in WriteOp /\ op'.pc = "write" /\ op'.cur_size = 0 /\ op'.h = op.h
           /\ op'.at = IF n = 0 THEN op.at ELSE n
           /\ n = 0 => op'.rest = <<>>
    <3>1. CASE Len(r) > w /\ new = 0
      BY <1>16, <3>1
    <3>2. CASE ~(Len(r) > w /\ new = 0)
      <4>1. PICK q : q = SubSeq(r, w + 1, Len(r))
        OBVIOUS
      <4>2. q \in Seq(Byte)
        <5>1. \A i \in w + 1 .. Len(r) : r[i] \in Byte
          BY <1>6
        <5> QED
          BY <1>6, <4>1, <5>1, SubSeqProperties
      <4>3. ~(Len(r) > w) => q = <<>>
        BY <1>6, <4>1, SubSeqEmpty
      <4>4. PICK b : b = IF Len(r) > w THEN new ELSE a
        OBVIOUS
      <4>5. b \in DataSectors /\ (b = IF n = 0 THEN op.at ELSE n) /\ (n = 0 => ~(Len(r) > w))
        BY <1>4, <1>8, <1>9, <3>2, <4>4
      <4>6. op' = [op EXCEPT !.rest = q, !.total = op.total + w, !.cur_size = 0, !.at = b]
        BY <1>16, <3>2, <4>1, <4>4
      <4>7. op.total + w \in Nat
        BY <1>1, <1>6, WritingTypes
      <4>8. /\ op' \in WriteOp /\ op'.pc = "write" /\ op'.cur_size = 0
            /\ op'.h = op.h /\ op'.at = b /\ op'.rest = q
        BY <1>1, <4>2, <4>5, <4>6, <4>7 DEF Writing, WriteOp
      <4> QED
        BY <4>3, <4>5, <4>8
    <3> QED
      BY <3>1, <3>2
  <2> QED
    BY <1>2, <1>4, <1>16, <2>1, <2>2, <2>4, <2>6, <2>7 DEF ChunkDone
<1>18. n \in Sectors
  BY <1>9 DEF Sectors
<1> QED
  BY <1>1, <1>2, <1>6, <1>11, <1>17, <1>18

\* What it changes in the inodes and in what was appended.
LEMMA ChunkInodes ==
  ASSUME NqfsInv, Writing, NEW w \in 1 .. Len(op.rest), NEW n \in Sectors,
         NEW d \in [Offsets -> Byte], ChunkDone(w, n, d), NEW h \in InodeSectors, h = op.h
  PROVE  /\ OfHandle(h) \in Files
         /\ Inode(OfHandle(h)).size = Len(written[h])
         /\ Inode(OfHandle(h))'.size = Len(written[h]) + w
         /\ \A f \in Files : Inode(f)'.start_sector = Inode(f).start_sector
         /\ \A f \in Files : f # OfHandle(h) => Inode(f)' = Inode(f)
         /\ NqfsTypes' /\ InodesInv'
         /\ \A g \in InodeSectors : g # h => written'[g] = written[g]
         /\ Len(written'[h]) = Len(written[h]) + w
         /\ \A i \in 1 .. Len(written[h]) : written'[h][i] = written[h][i]
         /\ \A i \in 1 .. w : written'[h][Len(written[h]) + i] = op.rest[i]
<1>1. h = op.h
  OBVIOUS
<1>2. NqfsTypes /\ InodesInv
  BY DEF NqfsInv
<1>3. PICK F : F = OfHandle(h)
  OBVIOUS
<1>4. /\ F \in Files /\ F = <<h, 0>> /\ Inode(F) = inodes[h][0] /\ inodes[h][0] \in InodeType
      /\ Inode(F).size = Len(written[h])
  BY <1>2, <1>3, HandleInode DEF OfHandle, InodesInv
<1>5. PICK r \in Seq(Byte) : r = op.rest
  BY WritingTypes
<1>6. PICK u \in Seq(Byte) : u = written[h]
  BY <1>2 DEF NqfsTypes
<1>7. PICK v : v = SubSeq(r, 1, w)
  OBVIOUS
<1>8. w \in 1 .. Len(r) /\ v \in Seq(Byte) /\ Len(v) = w /\ \A i \in 1 .. w : v[i] = r[i]
  BY <1>5, <1>7
<1>9. written' = [written EXCEPT ![h] = u \o v]
  BY <1>1, <1>5, <1>6, <1>7 DEF ChunkDone
<1>10. /\ u \o v \in Seq(Byte) /\ Len(u \o v) = Len(u) + w
       /\ \A i \in 1 .. Len(u) : (u \o v)[i] = u[i]
       /\ \A i \in 1 .. w : (u \o v)[Len(u) + i] = r[i]
  <2>1. /\ u \o v \in Seq(Byte) /\ Len(u \o v) = Len(u) + Len(v)
        /\ \A i \in 1 .. Len(u) + Len(v) :
             (u \o v)[i] = IF i <= Len(u) THEN u[i] ELSE v[i - Len(u)]
    BY <1>8, ConcatProperties
  <2>2. PICK y : y = u \o v
    OBVIOUS
  <2>3. \A i \in 1 .. Len(u) : y[i] = u[i]
    BY <1>8, <2>1, <2>2
  <2>4. \A i \in 1 .. w : y[Len(u) + i] = r[i]
    <3> SUFFICES ASSUME NEW i \in 1 .. w PROVE y[Len(u) + i] = r[i]
      OBVIOUS
    <3>1. PICK l \in Nat : l = Len(u)
      OBVIOUS
    <3>2. l + i \in 1 .. l + w /\ ~(l + i <= l) /\ (l + i) - l = i
      BY <1>8
    <3>3. y[l + i] = v[i]
      BY <1>8, <2>1, <2>2, <3>1, <3>2
    <3> QED
      BY <1>8, <3>1, <3>3
  <2> QED
    BY <1>8, <2>1, <2>2, <2>3, <2>4
<1>11. PICK x : x = u \o v
  OBVIOUS
<1>12. written' \in [InodeSectors -> Seq(Byte)] /\ written'[h] = x
       /\ \A g \in InodeSectors : g # h => written'[g] = written[g]
  BY <1>2, <1>9, <1>10, <1>11 DEF NqfsTypes
<1>13. PICK e : e = [inodes[h][0] EXCEPT !.size = @ + w]
  OBVIOUS
<1>14. /\ e \in InodeType /\ e.size = Len(u) + w
       /\ e.start_sector = inodes[h][0].start_sector /\ e.allocd = inodes[h][0].allocd
  <2>1. inodes[h][0].size + w \in Nat /\ inodes[h][0].size = Len(u)
    BY <1>4, <1>6, <1>8 DEF InodeType
  <2>2. e = [inodes[h][0] EXCEPT !.size = inodes[h][0].size + w]
    BY <1>13
  <2>3. PICK z \in Nat : z = inodes[h][0].size + w
    BY <2>1
  <2>4. PICK t \in InodeType : t = inodes[h][0]
    BY <1>4
  <2>5. e = [t EXCEPT !.size = z]
    BY <2>2, <2>3, <2>4
  <2>6. e \in InodeType /\ e.size = z /\ e.start_sector = t.start_sector /\ e.allocd = t.allocd
    BY <2>5 DEF InodeType
  <2> QED
    BY <2>1, <2>3, <2>4, <2>6
<1>15. inodes' = [inodes EXCEPT ![h][0] = e]
  BY <1>1, <1>13 DEF ChunkDone
<1>16. /\ inodes' \in [InodeSectors -> [Slots -> InodeType]]
       /\ inodes'[h][0] = e
       /\ \A f \in Files : f # F => inodes'[f[1]][f[2]] = inodes[f[1]][f[2]]
  BY <1>2, <1>4, <1>14, <1>15, Sizes DEF NqfsTypes, Files
<1>17. Inode(F)' = e /\ \A f \in Files : f # F => Inode(f)' = Inode(f)
  BY <1>4, <1>16 DEF Inode
<1>18. NqfsTypes'
  BY <1>2, <1>12, <1>16 DEF NqfsTypes, ChunkDone
<1>19. Inode(F).allocd
  <2>1. Inode(F).start_sector # 0
    BY <1>1, <1>3 DEF NqfsInv, ChainsInv, AppendInv, Writing
  <2> QED
    BY <1>2, <1>4, <2>1 DEF InodesInv
<1>20. InodesInv'
  <2>1. \A g \in InodeSectors : OfHandle(g) \in Files /\ (g # h => OfHandle(g) # F)
    BY <1>2, <1>4, HandleInode DEF OfHandle
  <2>2. \A f \in Files : ~Inode(f)'.allocd => Inode(f)'.start_sector = 0 /\ Inode(f)'.size = 0
    BY <1>2, <1>4, <1>14, <1>17, <1>19 DEF InodesInv
  <2>3. \A g \in InodeSectors : Inode(OfHandle(g))'.size = Len(written'[g])
    <3> SUFFICES ASSUME NEW g \in InodeSectors PROVE Inode(OfHandle(g))'.size = Len(written'[g])
      OBVIOUS
    <3>1. CASE g = h
      BY <1>3, <1>10, <1>11, <1>12, <1>14, <1>17, <3>1
    <3>2. CASE g # h
      BY <1>2, <1>12, <1>17, <2>1, <3>2 DEF InodesInv
    <3> QED
      BY <3>1, <3>2
  <2> QED
    BY <2>2, <2>3 DEF InodesInv
<1>21. \A f \in Files : Inode(f)'.start_sector = Inode(f).start_sector
  BY <1>4, <1>14, <1>17
<1> QED
  BY <1>3, <1>4, <1>5, <1>6, <1>10, <1>11, <1>12, <1>14, <1>17, <1>18, <1>20, <1>21

\* What it changes in the pointers.
LEMMA ChunkPointers ==
  ASSUME NqfsInv, Writing, NEW w \in 1 .. Len(op.rest), NEW n \in Sectors,
         NEW d \in [Offsets -> Byte], ChunkDone(w, n, d)
  PROVE  /\ OnePointer' /\ MarksInv'
         /\ \A c \in DataSectors : \A b : Links(c, b)' <=> IF c = op.at THEN b = n ELSE Links(c, b)
         /\ op' # Idle => blocks'[op'.at].magic
<1>1. PICK a \in DataSectors : a = op.at /\ blocks[a].magic /\ Links(a, 0)
  BY WritingTypes, LastBlock
<1>2. /\ n # 0 => n \in DataSectors /\ ~blocks[n].magic /\ RAMBLK__write_sector(n) /\ n # a /\ Links(n, 0)
      /\ MarksInv /\ OnePointer
  <2>1. MarksInv /\ OnePointer
    BY DEF NqfsInv
  <2>2. n # 0 => n \in DataSectors /\ ~blocks[n].magic /\ RAMBLK__write_sector(n)
    BY DEF ChunkDone, Sectors
  <2> QED
    BY <1>1, <2>1, <2>2, FreeBlock
<1>3. /\ blocks'[a] = [magic |-> TRUE, next |-> n, data |-> d]
      /\ \A b \in DataSectors : b # a /\ b # n => blocks'[b] = blocks[b]
      /\ n # 0 => blocks'[n] = [magic |-> TRUE, next |-> 0, data |-> blocks[n].data]
      /\ orphans' = orphans
      /\ op' = Idle \/ op'.at = IF n = 0 THEN a ELSE n
  BY <1>1 DEF ChunkDone
<1>4. \A c \in DataSectors : \A b : Links(c, b)' <=> IF c = a THEN b = n ELSE Links(c, b)
  <2> SUFFICES ASSUME NEW c \in DataSectors, NEW b
               PROVE  blocks'[c].next = b <=> IF c = a THEN b = n ELSE blocks[c].next = b
    BY DEF Links
  <2>1. CASE c = a
    BY <1>3, <2>1
  <2>2. CASE c # a /\ c = n
    BY <1>2, <1>3, <2>2, Sizes DEF Links
  <2>3. CASE c # a /\ c # n
    BY <1>3, <2>3
  <2> QED
    BY <2>1, <2>2, <2>3
<1>5. \A b \in DataSectors : blocks'[b].magic <=> blocks[b].magic \/ b = n
  <2> SUFFICES ASSUME NEW b \in DataSectors PROVE blocks'[b].magic <=> blocks[b].magic \/ b = n
    OBVIOUS
  <2>1. CASE b = a
    BY <1>1, <1>3, <2>1
  <2>2. CASE b # a /\ b = n
    BY <1>3, <2>2, Sizes
  <2>3. CASE b # a /\ b # n
    BY <1>3, <2>3
  <2> QED
    BY <2>1, <2>2, <2>3
<1>6. \A g \in Files : \A b : StartsAt(g, b)' <=> StartsAt(g, b)
  BY WritingTypes, ChunkInodes DEF StartsAt
<1>7. OnePointer' /\ MarksInv'
  <2> HIDE DEF MarksInv, OnePointer
  <2> QED
    BY <1>1, <1>2, <1>3, <1>4, <1>5, <1>6, PointerFromBlock
<1>8. op' # Idle => blocks'[op'.at].magic
  BY <1>1, <1>2, <1>3, <1>5
<1> QED
  BY <1>1, <1>4, <1>7, <1>8

\* The chain after the step: n is linked behind the last block.
Extended(c, n) == IF n = 0 THEN c ELSE Append(c, n)

LEMMA ExtendedChain ==
  ASSUME NEW c \in Seq(DataSectors), NEW n \in Sectors
  PROVE  /\ Extended(c, n) \in Seq(DataSectors)
         /\ Len(Extended(c, n)) = Len(c) + (IF n = 0 THEN 0 ELSE 1)
         /\ \A k \in 1 .. Len(c) : Extended(c, n)[k] = c[k]
         /\ n # 0 => Extended(c, n)[Len(c) + 1] = n
<1>1. CASE n = 0
  BY <1>1 DEF Extended
<1>2. CASE n # 0
  BY <1>2, AppendProperties DEF Extended, Sectors
<1> QED
  BY <1>1, <1>2

\* The file of the append holds what has been appended.
LEMMA ChunkBytes ==
  ASSUME NqfsInv, Writing, NEW w \in 1 .. Len(op.rest), NEW n \in Sectors,
         NEW d \in [Offsets -> Byte], ChunkDone(w, n, d), NEW h \in InodeSectors, h = op.h,
         NEW C \in [Files -> Seq(DataSectors)], ChainsInv(C), OffChains(C, n),
         NEW c \in Seq(DataSectors), c = C[OfHandle(h)], c # <<>>, AtBlock(c, Len(c)),
         HoldsBytes(c, written[h]), NEW v, v = written'[h]
  PROVE  HoldsBytes(Extended(c, n), v)'
<1>1. PICK u : u = written[h]
  OBVIOUS
<1>2. /\ Len(u) \in Nat /\ Len(v) = Len(u) + w
      /\ \A i \in 1 .. Len(u) : v[i] = u[i]
      /\ \A i \in 1 .. w : v[Len(u) + i] = op.rest[i]
      /\ OfHandle(h) \in Files
      /\ Inode(OfHandle(h)).size = Len(u)
  <2>1. u \in Seq(Byte)
    BY <1>1 DEF NqfsInv, NqfsTypes
  <2> QED
    <3>1. /\ Len(v) = Len(written[h]) + w
          /\ \A i \in 1 .. Len(written[h]) : v[i] = written[h][i]
          /\ \A i \in 1 .. w : v[Len(written[h]) + i] = op.rest[i]
          /\ OfHandle(h) \in Files /\ Inode(OfHandle(h)).size = Len(written[h])
      BY ChunkInodes
    <3> QED
      BY <1>1, <2>1, <3>1, SMTT(40)
<1>3. PICK s \in Nat : s = op.cur_size
  BY WritingTypes
<1>4. PICK L \in Nat : L + 1 = Len(c) /\ L + 1 \in 1 .. Len(c)
  <2>1. Len(c) \in Nat \ {0}
    OBVIOUS
  <2>2. PICK l \in Nat \ {0} : l = Len(c)
    BY <2>1
  <2>3. l - 1 \in Nat /\ (l - 1) + 1 = l /\ (l - 1) + 1 \in 1 .. l
    OBVIOUS
  <2> QED
    BY <2>2, <2>3
<1>5. PICK x \in Nat : x = L * B /\ (L + 1) * B = x + B
  BY Multiples
<1>6. Len(u) = x + s
  <2>1. Inode(OfHandle(h)).size = ((L + 1) - 1) * B + s
    BY <1>3, <1>4 DEF AtBlock, Writing
  <2>2. (L + 1) - 1 = L
    OBVIOUS
  <2> QED
    BY <1>2, <1>5, <2>1, <2>2
<1>7. s + w <= B /\ (n # 0 => s + w = B) /\ w \in Nat /\ w > 0
  BY <1>3, WritingTypes DEF ChunkDone
<1>8. /\ Extended(c, n) \in Seq(DataSectors)
      /\ Len(Extended(c, n)) = L + 1 + (IF n = 0 THEN 0 ELSE 1)
      /\ \A k \in 1 .. L + 1 : Extended(c, n)[k] = c[k]
  <2>1. /\ Extended(c, n) \in Seq(DataSectors)
        /\ Len(Extended(c, n)) = Len(c) + (IF n = 0 THEN 0 ELSE 1)
        /\ \A k \in 1 .. Len(c) : Extended(c, n)[k] = c[k]
    BY ExtendedChain
  <2> QED
    BY <1>4, <2>1
<1>9. PICK e \in Seq(DataSectors) : e = Extended(c, n)
  BY <1>8
<1>10. Len(v) <= Len(e) * B
  <2>1. Len(v) <= (L + 1) * B
    BY <1>2, <1>5, <1>6, <1>7, Sizes
  <2>2. (L + 1) * B <= Len(e) * B /\ (L + 1) * B \in Nat /\ Len(e) * B \in Nat
    <3>1. Len(e) \in Nat /\ L + 1 \in Nat /\ L + 1 <= Len(e)
      BY <1>8, <1>9
    <3> QED
      BY <3>1, Multiples
  <2>3. Len(v) \in Nat
    BY <1>2, <1>7
  <2> HIDE DEF B
  <2> QED
    BY <2>1, <2>2, <2>3
<1>11. ASSUME NEW k \in 1 .. Len(e), NEW o \in Offsets, (k - 1) * B + o < Len(v)
       PROVE  blocks'[e[k]].data[o] = v[(k - 1) * B + o + 1]
  <2>1. PICK m \in Nat : m = k - 1 /\ k = m + 1
    OBVIOUS
  <2>2. PICK y \in Nat : y = m * B
    BY Multiples
  <2>3. o \in Nat /\ o < B
    BY Sizes
  <2>4. y + o < x + s + w
    BY <1>2, <1>6, <1>11, <2>1, <2>2
  <2>5. m <= L
    <3> SUFFICES ASSUME L < m PROVE FALSE
      BY <1>4, <2>1
    <3>1. x + B <= y
      BY <1>5, <2>2, Multiples
    <3> QED
      BY <1>3, <1>7, <2>3, <2>4, <3>1, Sizes, SMTT(40)
  <2>6. k \in 1 .. L + 1 /\ k \in 1 .. Len(c) /\ e[k] = c[k] /\ c[k] \in DataSectors
    BY <1>4, <1>8, <1>9, <2>1, <2>5
  <2>7. y + o < Len(u) => blocks[c[k]].data[o] = u[y + o + 1]
    BY <1>1, <2>1, <2>2, <2>6 DEF HoldsBytes
  <2>8. c[k] # n
    BY <1>2, <2>6 DEF OffChains
  <2>9. CASE m < L
    <3>1. y + B <= x
      BY <1>5, <2>2, <2>9, Multiples
    <3>2. y + o < Len(u) /\ y + o + 1 \in 1 .. Len(u)
      BY <1>6, <2>3, <3>1, Sizes
    <3>3. c[k] # op.at
      <4>1. c[k] # c[Len(c)]
        <5>1. \A i, j \in 1 .. Len(c) : c[i] = c[j] => i = j
          BY <1>2 DEF ChainsInv, Disjoint
        <5>2. k # Len(c) /\ Len(c) \in 1 .. Len(c)
          BY <1>4, <2>1, <2>9
        <5> QED
          BY <2>6, <5>1, <5>2
      <4> QED
        BY <4>1 DEF AtBlock
    <3>4. blocks'[c[k]] = blocks[c[k]]
      BY <2>6, <2>8, <3>3 DEF ChunkDone
    <3> QED
      BY <1>2, <2>1, <2>2, <2>6, <2>7, <3>2, <3>4
  <2>10. CASE m = L
    <3>1. y = x /\ c[k] = op.at
      BY <1>4, <1>5, <2>1, <2>2, <2>10 DEF AtBlock
    <3>2. blocks'[c[k]].data[o] = d[o]
      BY <3>1 DEF ChunkDone
    <3>3. d[o] = IF o \in s .. s + w - 1 THEN op.rest[o - s + 1] ELSE blocks[c[k]].data[o]
      BY <1>3, <3>1 DEF ChunkDone
    <3>4. CASE o < s
      <4>1. y + o < Len(u) /\ y + o + 1 \in 1 .. Len(u) /\ o \notin s .. s + w - 1
        BY <1>6, <2>3, <3>1, <3>4, SMTT(40)
      <4> QED
        BY <1>2, <2>1, <2>2, <2>6, <2>7, <3>2, <3>3, <4>1
    <3>5. CASE ~(o < s)
      <4>1. o - s + 1 \in 1 .. w /\ o \in s .. s + w - 1
        BY <1>7, <2>3, <2>4, <3>1, <3>5, SMTT(40)
      <4>2. Len(u) + (o - s + 1) = y + o + 1
        BY <1>6, <2>3, <3>1
      <4>3. v[y + o + 1] = op.rest[o - s + 1]
        BY <1>2, <4>1, <4>2
      <4> QED
        BY <2>1, <2>2, <2>6, <3>2, <3>3, <4>1, <4>3
    <3> QED
      BY <3>4, <3>5
  <2> QED
    BY <1>4, <2>1, <2>5, <2>9, <2>10
<1>12. HoldsBytes(e, v)'
  BY <1>10, <1>11 DEF HoldsBytes
<1> QED
  BY <1>9, <1>12

\* The chains after the step.
LEMMA ChunkChains ==
  ASSUME NqfsInv, Writing, NEW w \in 1 .. Len(op.rest), NEW n \in Sectors,
         NEW d \in [Offsets -> Byte], ChunkDone(w, n, d),
         NEW C \in [Files -> Seq(DataSectors)], ChainsInv(C)
  PROVE  \E D \in [Files -> Seq(DataSectors)] : ChainsInv(D)'
<1>1. PICK h \in InodeSectors : h = op.h
  BY WritingTypes
<1>2. PICK a \in DataSectors : a = op.at
  BY WritingTypes
<1>3. PICK F \in Files : F = OfHandle(h)
  BY HandleInode DEF NqfsInv
<1>4. PICK c \in Seq(DataSectors) : c = C[F]
  OBVIOUS
<1>5. \/ c # <<>> /\ AtBlock(c, Len(c))
      \/ OffChains(C, a) /\ orphans # {}
  BY <1>1, <1>2, <1>3, <1>4, LastBlock
<1>6. OffChains(C, n) /\ n # a
  <2>1. CASE n = 0
    BY <2>1, Sizes DEF OffChains
  <2>2. CASE n # 0
    <3>1. n \in DataSectors /\ ~blocks[n].magic
      BY <2>2 DEF Sectors, ChunkDone
    <3>2. MarksInv /\ blocks[a].magic /\ \A f \in Files : IsChain(f, C[f])
      BY <1>2, WritingTypes DEF NqfsInv, ChainsInv
    <3> QED
      BY <3>1, <3>2, FreeOffChains
  <2> QED
    BY <2>1, <2>2
<1>7. /\ \A b \in DataSectors : b # a /\ b # n => blocks'[b] = blocks[b]
      /\ orphans' = orphans
      /\ \A f \in Files : Inode(f)'.start_sector = Inode(f).start_sector
      /\ \A f \in Files : f # F => Inode(f)' = Inode(f)
      /\ Inode(F).size = Len(written[h]) /\ Inode(F)'.size = Len(written[h]) + w
      /\ \A g \in InodeSectors : g # h => written'[g] = written[g]
      /\ \A e \in DataSectors : \A b : Links(e, b)' <=> IF e = a THEN b = n ELSE Links(e, b)
      /\ w \in Nat /\ w > 0 /\ Len(written[h]) \in Nat
  <2>1. w \in Nat /\ w > 0
    BY WritingTypes
  <2>2. Len(written[h]) \in Nat
    BY DEF NqfsInv, NqfsTypes
  <2>3. /\ \A b \in DataSectors : b # a /\ b # n => blocks'[b] = blocks[b]
        /\ orphans' = orphans
    BY <1>2 DEF ChunkDone
  <2>4. /\ \A f \in Files : Inode(f)'.start_sector = Inode(f).start_sector
        /\ \A f \in Files : f # F => Inode(f)' = Inode(f)
        /\ Inode(F).size = Len(written[h]) /\ Inode(F)'.size = Len(written[h]) + w
        /\ \A g \in InodeSectors : g # h => written'[g] = written[g]
    BY <1>1, <1>3, ChunkInodes
  <2>5. \A e \in DataSectors : \A b : Links(e, b)' <=> IF e = a THEN b = n ELSE Links(e, b)
    BY <1>2, ChunkPointers
  <2> QED
    BY <2>1, <2>2, <2>3, <2>4, <2>5
<1>8. \A f \in Files : \A k \in 1 .. Len(C[f]) :
        /\ C[f][k] \in DataSectors /\ C[f][k] # n
        /\ C[f][k] = a => c # <<>> /\ AtBlock(c, Len(c)) /\ f = F /\ k = Len(c)
  <2> SUFFICES ASSUME NEW f \in Files, NEW k \in 1 .. Len(C[f])
               PROVE  /\ C[f][k] \in DataSectors /\ C[f][k] # n
                      /\ C[f][k] = a => c # <<>> /\ AtBlock(c, Len(c)) /\ f = F /\ k = Len(c)
    OBVIOUS
  <2>1. C[f][k] \in DataSectors /\ C[f][k] # n
    BY <1>6 DEF OffChains
  <2>2. ASSUME C[f][k] = a PROVE c # <<>> /\ AtBlock(c, Len(c)) /\ f = F /\ k = Len(c)
    <3>1. c # <<>> /\ AtBlock(c, Len(c))
      BY <1>5, <2>2 DEF OffChains
    <3>2. Len(c) \in 1 .. Len(C[F]) /\ C[F][Len(c)] = C[f][k]
      BY <1>2, <1>4, <2>2, <3>1 DEF AtBlock
    <3> QED
      BY <1>4, <3>1, <3>2 DEF ChainsInv, Disjoint
  <2> QED
    BY <2>1, <2>2
\* Other files keep their chains.
<1>9. ASSUME NEW f \in Files, \A k \in 1 .. Len(C[f]) : C[f][k] # a
      PROVE  IsChain(f, C[f])' /\ \A k \in 1 .. Len(C[f]) : blocks'[C[f][k]] = blocks[C[f][k]]
  <2>1. PICK e \in Seq(DataSectors) : e = C[f]
    OBVIOUS
  <2>2. \A k \in 1 .. Len(e) : e[k] \in DataSectors /\ e[k] # n /\ e[k] # a
    BY <1>8, <1>9, <2>1
  <2>3. IsChain(f, e)
    BY <2>1 DEF ChainsInv
  <2>4. \A k \in 1 .. Len(e) : \A b : Links(e[k], b)' <=> Links(e[k], b)
    BY <1>7, <2>2
  <2>5. PICK z \in Nat, z1 \in Nat : z = Inode(f).size /\ z1 = Inode(f)'.size /\ z <= z1
    <3>1. Inode(f).size \in Nat
      BY DEF NqfsInv, NqfsTypes, Files, Inode, InodeType
    <3>2. CASE f = F
      BY <1>7, <3>2
    <3>3. CASE f # F
      BY <1>7, <3>1, <3>3
    <3> QED
      BY <3>2, <3>3
  <2>6. \A k \in 1 .. Len(e) : (k - 1) * B <= Inode(f)'.size
    <3> SUFFICES ASSUME NEW k \in 1 .. Len(e) PROVE (k - 1) * B <= Inode(f)'.size
      OBVIOUS
    <3>1. PICK y \in Nat : y = (k - 1) * B
      <4>1. k - 1 \in Nat
        OBVIOUS
      <4> QED
        BY <4>1, Multiples
    <3>2. y <= z
      BY <2>3, <2>5, <3>1 DEF IsChain
    <3>3. y <= z1
      BY <2>5, <3>2
    <3> QED
      BY <2>5, <3>1, <3>3
  <2> QED
    BY <1>7, <2>1, <2>2, <2>3, <2>4, <2>6 DEF IsChain
<1>10. \A g \in InodeSectors : OfHandle(g) \in Files /\ (OfHandle(g) = F => g = h)
  BY <1>3, HandleInode DEF NqfsInv, OfHandle
\* An append to a lost block changes no chain.
<1>11. CASE ~(c # <<>> /\ AtBlock(c, Len(c)))
  <2>1. \A f \in Files : IsChain(f, C[f])'
    BY <1>8, <1>9, <1>11
  <2>2. OffChains(C, a) /\ orphans # {}
    BY <1>5, <1>11
  <2>3. AppendInv(C)'
    <3>1. CASE op' = Idle
      BY <3>1 DEF AppendInv, Idle, WriteOp
    <3>2. CASE op' # Idle
      <4>1. op'.h = h /\ op'.cur_size = 0 /\ op'.at = IF n = 0 THEN a ELSE n
        BY <1>1, <1>2, <3>2 DEF ChunkDone
      <4>2. Inode(F)'.start_sector # 0
        BY <1>1, <1>3, <1>7 DEF ChainsInv, AppendInv, Writing
      <4>3. Inode(OfHandle(op.h))'.start_sector # 0
        BY <1>3, <4>1, <4>2 DEF Inode, OfHandle
      <4>4. n # 0 => n \in DataSectors /\ Links(n, 0)
        BY FreeBlock DEF Sectors, ChunkDone, NqfsInv
      <4>5. PICK b : b = op'.at
        OBVIOUS
      <4>6. OffChains(C, b)
        BY <1>6, <2>2, <4>1, <4>5
      <4>7. Links(b, 0)'
        BY <1>6, <1>7, <4>1, <4>4, <4>5
      <4>8. OffChains(C, op.at)' /\ Links(op.at, 0)'
        BY <4>5, <4>6, <4>7 DEF OffChains, Links
      <4> QED
        BY <1>7, <2>2, <4>1, <4>3, <4>8, Sizes DEF AppendInv
    <3> QED
      BY <3>1, <3>2
  <2> QED
    BY <1>7, <2>1, <2>2, <2>3 DEF ChainsInv, Disjoint
\* An append to the last block of its chain links n behind it.
<1>12. CASE c # <<>> /\ AtBlock(c, Len(c))
  <2>1. PICK e \in Seq(DataSectors) : e = Extended(c, n)
    BY ExtendedChain
  <2>2. /\ Len(e) = Len(c) + (IF n = 0 THEN 0 ELSE 1)
        /\ \A k \in 1 .. Len(c) : e[k] = c[k]
        /\ n # 0 => e[Len(c) + 1] = n
    BY <2>1, ExtendedChain
  <2>3. PICK D \in [Files -> Seq(DataSectors)] :
          D[F] = e /\ \A f \in Files : f # F => D[f] = C[f]
    <3>1. [C EXCEPT ![F] = e] \in [Files -> Seq(DataSectors)]
      OBVIOUS
    <3> QED
      BY <3>1
  <2>4. PICK L \in Nat \ {0} : L = Len(c) /\ L \in 1 .. Len(c) /\ c[L] = a
    <3>1. Len(c) \in Nat /\ Len(c) # 0
      BY <1>12
    <3>2. c[Len(c)] = a
      BY <1>2, <1>12 DEF AtBlock
    <3> QED
      BY <3>1, <3>2
  <2>5. /\ IsChain(F, c) /\ \A k \in 1 .. L : c[k] \in DataSectors /\ c[k] # n /\ (c[k] = a => k = L)
        /\ Len(e) = L + (IF n = 0 THEN 0 ELSE 1)
        /\ \A k \in 1 .. L : e[k] = c[k]
        /\ n # 0 => e[L + 1] = n
    BY <1>4, <1>8, <2>2, <2>4 DEF ChainsInv
  <2>6. n # 0 => n \in DataSectors /\ Links(n, 0)
    BY FreeBlock DEF Sectors, ChunkDone, NqfsInv
  <2>7. PICK x \in Nat : x = (L - 1) * B /\ L * B = x + B
    <3>1. PICK l \in Nat : l = L - 1 /\ l + 1 = L
      OBVIOUS
    <3> QED
      BY <3>1, Multiples
  <2>8. Len(written[h]) = x + op.cur_size /\ op.cur_size \in Nat
    BY <1>1, <1>3, <1>7, <1>12, <2>4, <2>7, WritingTypes DEF AtBlock, Writing
  <2>9. n # 0 => Inode(F)'.size = x + B
    <3>1. PICK u \in Nat : u = Len(written[h])
      BY <1>7
    <3>2. PICK z \in Nat : z = op.cur_size
      BY <2>8
    <3>3. u = x + z /\ Inode(F)'.size = u + w
      BY <1>7, <2>8, <3>1, <3>2
    <3>4. n # 0 => B = z + w
      BY <3>2 DEF ChunkDone
    <3>5. u + w = x + (z + w)
      BY <1>7, <3>3
    <3> QED
      BY <3>3, <3>4, <3>5
  <2>10. IsChain(F, e)'
    <3>1. Inode(F)'.start_sector = e[1] /\ e # <<>>
      <4>1. 1 \in 1 .. L /\ e[1] = c[1] /\ e # <<>>
        BY <2>5
      <4> QED
        BY <1>7, <1>12, <2>5, <4>1 DEF IsChain
    <3>2. ASSUME NEW k \in 1 .. Len(e) PROVE Links(e[k], IF k < Len(e) THEN e[k + 1] ELSE 0)'
      <4>1. CASE k < L
        <5>1. k \in 1 .. L /\ k + 1 \in 1 .. L /\ k < Len(e) /\ k < Len(c) /\ k \in 1 .. Len(c)
          BY <2>4, <2>5, <4>1
        <5>2. Links(c[k], c[k + 1]) /\ c[k] # a /\ c[k] \in DataSectors
          BY <2>5, <4>1, <5>1 DEF IsChain
        <5>3. Links(c[k], c[k + 1])'
          BY <1>7, <5>2
        <5> QED
          BY <2>5, <5>1, <5>3
      <4>2. CASE k = L
        <5>1. Links(a, n)'
          BY <1>7
        <5>2. e[k] = a /\ n = IF k < Len(e) THEN e[k + 1] ELSE 0
          BY <2>4, <2>5, <4>2
        <5> QED
          BY <5>1, <5>2
      <4>3. CASE k > L
        <5>1. n # 0 /\ k = L + 1 /\ e[k] = n /\ ~(k < Len(e))
          BY <2>5, <3>2, <4>3
        <5>2. Links(n, 0)'
          BY <1>6, <1>7, <2>6, <5>1
        <5> QED
          BY <5>1, <5>2
      <4> QED
        BY <4>1, <4>2, <4>3
    <3>3. ASSUME NEW k \in 1 .. Len(e) PROVE (k - 1) * B <= Inode(F)'.size
      <4>1. CASE k <= L
        <5>1. PICK y \in Nat : y = (k - 1) * B
          <6>1. k - 1 \in Nat
            OBVIOUS
          <6> QED
            BY <6>1, Multiples
        <5>2. y <= Len(written[h])
          BY <1>7, <2>4, <2>5, <4>1, <5>1 DEF IsChain
        <5> QED
          BY <1>7, <5>1, <5>2
      <4>2. CASE k > L
        <5>1. n # 0 /\ k - 1 = L
          BY <2>5, <3>3, <4>2
        <5>2. (k - 1) * B = x + B
          BY <2>7, <5>1
        <5>3. Inode(F)'.size = x + B
          BY <2>9, <5>1
        <5> QED
          BY <5>2, <5>3, Sizes
      <4> QED
        BY <4>1, <4>2
    <3> QED
      BY <3>1, <3>2, <3>3 DEF IsChain
  <2>11. \A f \in Files : IsChain(f, D[f])'
    BY <1>8, <1>9, <2>3, <2>10, ZenonT(40)
  <2>12. Disjoint(D)
    <3> SUFFICES ASSUME NEW f \in Files, NEW g \in Files,
                        NEW k \in 1 .. Len(D[f]), NEW l \in 1 .. Len(D[g]), D[f][k] = D[g][l]
                 PROVE  f = g /\ k = l
      BY DEF Disjoint
    <3>1. ASSUME NEW f1 \in Files, NEW k1 \in 1 .. Len(D[f1])
          PROVE  \/ k1 \in 1 .. Len(C[f1]) /\ D[f1][k1] = C[f1][k1] /\ D[f1][k1] # n
                 \/ f1 = F /\ k1 = L + 1 /\ D[f1][k1] = n
      <4>1. CASE f1 = F
        BY <1>4, <2>3, <2>4, <2>5, <4>1
      <4>2. CASE f1 # F
        BY <1>8, <2>3, <4>2
      <4> QED
        BY <4>1, <4>2
    <3>2. \/ k \in 1 .. Len(C[f]) /\ D[f][k] = C[f][k] /\ D[f][k] # n
          \/ f = F /\ k = L + 1 /\ D[f][k] = n
      BY <3>1
    <3>3. \/ l \in 1 .. Len(C[g]) /\ D[g][l] = C[g][l] /\ D[g][l] # n
          \/ g = F /\ l = L + 1 /\ D[g][l] = n
      BY <3>1
    <3>4. k \in 1 .. Len(C[f]) /\ l \in 1 .. Len(C[g]) /\ C[f][k] = C[g][l] => f = g /\ k = l
      <4>1. Disjoint(C)
        BY DEF ChainsInv
      <4> QED
        BY <4>1 DEF Disjoint
    <3> QED
      BY <3>2, <3>3, <3>4, Zenon
  <2>13. AppendInv(D)'
    <3>1. CASE op' = Idle
      BY <3>1 DEF AppendInv, Idle, WriteOp
    <3>2. CASE op' # Idle
      <4>1. /\ op'.h = h /\ op'.cur_size = 0 /\ op'.pc = "write"
            /\ op'.at = IF n = 0 THEN a ELSE n
            /\ n = 0 => op'.rest = <<>>
        BY <1>1, <1>2, <3>2 DEF ChunkDone
      <4>2. Inode(F)'.start_sector # 0
        BY <1>1, <1>3, <1>7 DEF ChainsInv, AppendInv, Writing
      <4>3. Inode(OfHandle(op.h))'.start_sector # 0
        BY <1>3, <4>1, <4>2 DEF Inode, OfHandle
      <4>4. PICK k \in 1 .. Len(e) : k = Len(e)
        <5>1. Len(e) \in Nat /\ Len(e) >= 1
          BY <2>5
        <5> QED
          BY <5>1
      <4>5. op'.at = e[k]
        BY <2>4, <2>5, <4>1, <4>4
      <4>6. n # 0 => Inode(F)'.size = (k - 1) * B + 0
        <5> SUFFICES ASSUME n # 0 PROVE Inode(F)'.size = (k - 1) * B + 0
          OBVIOUS
        <5>1. k - 1 = L
          BY <2>5, <4>4
        <5>2. (k - 1) * B = x + B
          BY <2>7, <5>1
        <5>3. Inode(F)'.size = x + B
          BY <2>9
        <5> QED
          BY <5>2, <5>3, Sizes
      <4>7. Inode(OfHandle(op.h))' = Inode(F)'
        BY <1>3, <4>1 DEF Inode, OfHandle
      <4>8. AtBlock(e, k)'
        BY <4>1, <4>5, <4>6, <4>7 DEF AtBlock
      <4>9. D[OfHandle(op.h)'] = e
        BY <1>3, <2>3, <4>1 DEF OfHandle
      <4> QED
        BY <4>1, <4>3, <4>4, <4>8, <4>9, Sizes DEF AppendInv
    <3> QED
      BY <3>1, <3>2
  <2>14. ASSUME orphans = {}, NEW g \in InodeSectors, NEW y, y = D[OfHandle(g)],
                NEW v, v = written'[g]
         PROVE  HoldsBytes(y, v)'
    <3>1. CASE g = h
      <4>1. HoldsBytes(c, written[h])
        BY <1>3, <1>4, <2>14 DEF ChainsInv
      <4>2. HoldsBytes(Extended(c, n), v)'
        BY <1>1, <1>3, <1>4, <1>6, <1>12, <2>14, <3>1, <4>1, ChunkBytes
      <4> QED
        BY <1>3, <2>1, <2>3, <2>14, <3>1, <4>2
    <3>2. CASE g # h
      <4>1. OfHandle(g) \in Files /\ OfHandle(g) # F
        BY <1>10, <3>2
      <4>2. y = C[OfHandle(g)] /\ v = written[g]
        BY <1>7, <2>3, <2>14, <3>2, <4>1
      <4>3. HoldsBytes(y, v)
        BY <2>14, <4>2 DEF ChainsInv
      <4>4. \A k \in 1 .. Len(y) : blocks'[y[k]] = blocks[y[k]]
        BY <1>8, <1>9, <4>1, <4>2
      <4> QED
        BY <4>3, <4>4, ZenonT(40) DEF HoldsBytes
    <3> QED
      BY <3>1, <3>2
  <2>15. orphans' = {} => \A g \in InodeSectors : HoldsBytes(D[OfHandle(g)], written[g])'
    <3>1. \A g : OfHandle(g)' = OfHandle(g)
      BY DEF OfHandle
    <3> QED
      BY <1>7, <2>14, <3>1
  <2> QED
    BY <2>3, <2>11, <2>12, <2>13, <2>15 DEF ChainsInv, Disjoint
<1> QED
  BY <1>11, <1>12

LEMMA WriteChunkInv ==
  ASSUME NqfsInv, WriteChunk
  PROVE  NqfsInv'
<1>1. Writing
  BY ChunkEffect
<1>2. PICK w \in 1 .. Len(op.rest), n \in Sectors, d \in [Offsets -> Byte] : ChunkDone(w, n, d)
  BY ChunkEffect
<1>3. NqfsTypes' /\ InodesInv'
  BY <1>1, <1>2, WritingTypes, ChunkInodes
<1>4. OnePointer' /\ MarksInv' /\ (op' # Idle => blocks'[op'.at].magic)
  BY <1>1, <1>2, ChunkPointers
<1>5. \E D \in [Files -> Seq(DataSectors)] : ChainsInv(D)'
  <2>1. PICK C \in [Files -> Seq(DataSectors)] : ChainsInv(C)
    BY DEF NqfsInv
  <2> QED
    BY <1>1, <1>2, <2>1, ChunkChains
<1> QED
  BY <1>3, <1>4, <1>5 DEF NqfsInv

-----------------------------------------------------------------------------
(* The theorems. *)

\* A step that changes nothing.
LEMMA StutterInv ==
  ASSUME NqfsInv, UNCHANGED nqfsvars
  PROVE  NqfsInv'
<1>1. UNCHANGED <<inodes, blocks, op, written, orphans>>
  BY DEF nqfsvars
<1>2. ASSUME NEW C \in [Files -> Seq(DataSectors)], ChainsInv(C) PROVE AppendInv(C)'
  BY <1>1, <1>2 DEF ChainsInv, AppendInv, AtBlock, OffChains, Links, Inode, OfHandle
<1> QED
  BY <1>1, <1>2, DiskKept DEF NqfsInv, NqfsTypes, disk

LEMMA NextInv ==
  ASSUME NqfsInv, [NqfsNext]_nqfsvars
  PROVE  NqfsInv'
<1>1. CASE NQFS_create_file
  BY <1>1, CreateInv
<1>2. CASE \E h \in InodeSectors, data \in Inputs : WriteStart(h, data)
  BY <1>2, WriteStartInv
<1>3. CASE WriteSeek
  BY <1>3, WriteSeekInv
<1>4. CASE WriteFound
  BY <1>4, WriteFoundInv
<1>5. CASE WriteChunk
  BY <1>5, WriteChunkInv
<1>6. CASE WriteReturn
  BY <1>6, EndsInv DEF WriteReturn, Return, history
<1>7. CASE \E h \in InodeSectors, size \in 0 .. MAX_READ : ReadStart(h, size)
  BY <1>7, ReadStartInv
<1>8. CASE ReadChunk
  BY <1>8, ReadChunkInv
<1>9. CASE ReadReturn
  BY <1>9, EndsInv DEF ReadReturn, Return, history
<1>10. CASE UNCHANGED nqfsvars
  BY <1>10, StutterInv
<1> QED
  BY <1>1, <1>2, <1>3, <1>4, <1>5, <1>6, <1>7, <1>8, <1>9, <1>10 DEF NqfsNext

\* NqfsInv is an invariant.
THEOREM NqfsInvariant == NqfsSpec => []NqfsInv
  BY InitInv, NextInv, PTL DEF NqfsSpec

\* The two kinds of pointer.
LEMMA PointerKinds ==
  /\ \A f \in Files : f \in Pointers /\ Target(f) = Inode(f).start_sector
  /\ \A b \in DataSectors : <<b>> \in Pointers /\ Target(<<b>>) = blocks[b].next
  /\ \A p \in Pointers : p \in Files \/ \E b \in DataSectors : p = <<b>>
<1>1. \A f \in Files : f \in Pointers /\ Target(f) = Inode(f).start_sector
  <2> SUFFICES ASSUME NEW i \in InodeSectors, NEW j \in Slots, NEW f, f = <<i, j>>
               PROVE  f \in Pointers /\ Target(f) = Inode(f).start_sector
    BY DEF Files
  <2>1. Len(f) = 2
    OBVIOUS
  <2> QED
    BY <2>1 DEF Pointers, Target, Inode
<1>2. \A b \in DataSectors : <<b>> \in Pointers /\ Target(<<b>>) = blocks[b].next
  <2> SUFFICES ASSUME NEW b \in DataSectors, NEW p, p = <<b>>
               PROVE  p \in Pointers /\ Target(p) = blocks[b].next
    OBVIOUS
  <2>1. Len(p) = 1 /\ p[1] = b
    OBVIOUS
  <2> QED
    BY <2>1 DEF Pointers, Target
<1> QED
  BY <1>1, <1>2 DEF Pointers, Files

\* No block belongs to two files, or twice to one, whatever the sizes of the
\* device and of its tables.
THEOREM FilesAreSeparate == NqfsSpec => []NoSharedBlocks
<1>1. ASSUME NqfsInv PROVE NoSharedBlocks
  <2>1. ASSUME NEW p \in Pointers, Target(p) # 0
        PROVE  /\ Target(p) \in DataSectors /\ PointedTo(Target(p))
               /\ \/ p \in Files /\ StartsAt(p, Target(p))
                  \/ \E b \in DataSectors : p = <<b>> /\ Links(b, Target(p))
    <3>1. CASE p \in Files
      <4>1. Target(p) = Inode(p).start_sector /\ Inode(p).start_sector \in Sectors
        BY <1>1, <3>1, PointerKinds DEF NqfsInv, NqfsTypes, Inode, InodeType, Files
      <4> QED
        BY <2>1, <3>1, <4>1 DEF Sectors, StartsAt, PointedTo
    <3>2. CASE \E b \in DataSectors : p = <<b>>
      <4>1. PICK b \in DataSectors : p = <<b>>
        BY <3>2
      <4>2. Target(p) = blocks[b].next /\ blocks[b].next \in Sectors
        BY <1>1, <4>1, PointerKinds DEF NqfsInv, NqfsTypes, BlockType
      <4> QED
        BY <2>1, <4>1, <4>2 DEF Sectors, Links, PointedTo
    <3> QED
      BY <3>1, <3>2, PointerKinds
  <2>2. ASSUME NEW p \in Pointers, NEW q \in Pointers, Target(p) = Target(q), Target(p) # 0
        PROVE  p = q
    <3>1. PICK t \in DataSectors : t = Target(p) /\ t = Target(q)
      BY <2>1, <2>2
    <3>2. /\ (p \in Files /\ StartsAt(p, t)) \/ \E b \in DataSectors : p = <<b>> /\ Links(b, t)
          /\ (q \in Files /\ StartsAt(q, t)) \/ \E b \in DataSectors : q = <<b>> /\ Links(b, t)
      BY <2>1, <2>2, <3>1
    <3> QED
      BY <1>1, <3>2 DEF NqfsInv, OnePointer
  <2> QED
    BY <1>1, <2>1, <2>2, PointedToMarked DEF NoSharedBlocks
<1> QED
  BY <1>1, NqfsInvariant, PTL

\* Every block that is marked is reached by a pointer or was lost by an append
\* that found its last block full.
THEOREM NoBlockLost == NqfsSpec => []BlocksAccountedFor
<1>1. ASSUME NqfsInv PROVE BlocksAccountedFor
  <2>1. \A b \in DataSectors : PointedTo(b) <=> \E p \in Pointers : Target(p) = b
    BY PointerKinds, ZenonT(40) DEF PointedTo, StartsAt, Links
  <2>2. \A p \in Pointers : Target(p) \in DataSectors \cup {0}
    <3> SUFFICES ASSUME NEW p \in Pointers PROVE Target(p) \in DataSectors \cup {0}
      OBVIOUS
    <3>1. CASE p \in Files
      BY <1>1, <3>1, PointerKinds DEF NqfsInv, NqfsTypes, Inode, InodeType, Files, Sectors
    <3>2. CASE \E b \in DataSectors : p = <<b>>
      BY <1>1, <3>2, PointerKinds DEF NqfsInv, NqfsTypes, BlockType, Sectors
    <3> QED
      BY <3>1, <3>2, PointerKinds
  <2>3. \A b \in DataSectors : blocks[b].magic <=> (\E p \in Pointers : Target(p) = b) \/ b \in orphans
    BY <1>1, <2>1 DEF NqfsInv, MarksInv
  <2>4. orphans \subseteq DataSectors /\ 0 \notin DataSectors
    BY <1>1, Sizes DEF NqfsInv, NqfsTypes
  <2> QED
    BY <2>2, <2>3, <2>4 DEF BlocksAccountedFor
<1> QED
  BY <1>1, NqfsInvariant, PTL

\* Every sector an operation works on is one the device reads and writes.
THEOREM DeviceAccepts == NqfsSpec => []AccessesAccepted
<1>1. ASSUME NqfsInv PROVE AccessesAccepted
  <2> SUFFICES ASSUME op.pc \in {"seek", "write", "read"}
               PROVE  /\ op.at \in DataSectors
                      /\ RAMBLK__read_sector(op.at) /\ RAMBLK__write_sector(op.at)
    BY DEF AccessesAccepted
  <2>1. op # Idle /\ (op \in WriteOp \/ op \in ReadOp)
    BY <1>1 DEF NqfsInv, NqfsTypes, Idle
  <2>2. op.at \in DataSectors
    BY <2>1 DEF WriteOp, ReadOp
  <2>3. blocks[op.at].magic
    BY <1>1, <2>1 DEF NqfsInv
  <2> QED
    BY <1>1, <2>2, <2>3, Readable DEF NqfsInv, MarksInv
<1> QED
  BY <1>1, NqfsInvariant, PTL

\* Dividing by the size of a block.
LEMMA Division ==
  ASSUME NEW m \in Nat
  PROVE  /\ m \div B \in Nat /\ m % B \in Offsets
         /\ (m \div B) * B + (m % B) = m
<1>1. PICK b \in Nat \ {0} : b = B
  BY Sizes
<1>2. m \div b \in Nat /\ m % b \in 0 .. b - 1
  OBVIOUS
<1>3. (m \div b) * b + (m % b) = m
  OBVIOUS
<1> QED
  BY <1>1, <1>2, <1>3, Sizes

\* A chain without repetitions fits on the device.
LEMMA ChainFits ==
  ASSUME NEW c \in Seq(DataSectors), \A i, j \in 1 .. Len(c) : c[i] = c[j] => i = j
  PROVE  Len(c) <= num_sectors
<1> SUFFICES ASSUME ~(Len(c) <= num_sectors) PROVE FALSE
  OBVIOUS
<1>1. PICK l \in Nat : l = Len(c)
  OBVIOUS
<1>2. num_sectors \in Nat /\ FILEPTR_SECTORS \in Nat /\ FILEPTR_SECTORS + 1 < num_sectors
  BY NqfsAssumption DEF num_sectors
<1>3. IsFiniteSet(1 .. l) /\ Cardinality(1 .. l) = l
  BY FS_Interval
<1>4. IsFiniteSet(DataSectors) /\ Cardinality(DataSectors) = num_sectors - FILEPTR_SECTORS
  <2>1. FILEPTR_SECTORS \in Int /\ num_sectors - 1 \in Int
    BY <1>2
  <2>2. /\ IsFiniteSet(FILEPTR_SECTORS .. num_sectors - 1)
        /\ Cardinality(FILEPTR_SECTORS .. num_sectors - 1)
             = IF FILEPTR_SECTORS > num_sectors - 1 THEN 0 ELSE num_sectors - 1 - FILEPTR_SECTORS + 1
    BY <2>1, FS_Interval
  <2> QED
    BY <1>2, <2>2 DEF DataSectors
<1>5. Cardinality(DataSectors) < Cardinality(1 .. l)
  BY <1>1, <1>2, <1>3, <1>4
<1>6. c \in [1 .. l -> DataSectors]
  BY <1>1
<1>7. \E x, y \in 1 .. l : x # y /\ c[x] = c[y]
  BY <1>3, <1>4, <1>5, <1>6, FS_PigeonHole
<1> QED
  BY <1>1, <1>7

\* ChainOf follows the chain.
LEMMA ChainOfFollows ==
  ASSUME NqfsInv, NEW C \in [Files -> Seq(DataSectors)], ChainsInv(C), NEW h \in InodeSectors,
         NEW c \in Seq(DataSectors), c = C[OfHandle(h)]
  PROVE  \A k \in 0 .. num_sectors : ChainOf(h)[k] = IF k < Len(c) THEN c[k + 1] ELSE 0
<1>1. PICK s : s = inodes[h][0].start_sector
  OBVIOUS
<1>2. PICK G : G = [k \in 0 .. num_sectors |-> IF k < Len(c) THEN c[k + 1] ELSE 0]
  OBVIOUS
<1>3. PICK l \in Nat : l = Len(c)
  OBVIOUS
<1>4. IsChain(OfHandle(h), c) /\ Inode(OfHandle(h)) = inodes[h][0]
  BY HandleInode DEF NqfsInv, ChainsInv
<1>5. (0 < l => s = c[1]) /\ (~(0 < l) => s = 0)
  BY <1>1, <1>3, <1>4 DEF IsChain
<1>6. \A k \in 1 .. l : c[k] # 0 /\ blocks[c[k]].next = IF k < l THEN c[k + 1] ELSE 0
  <2> SUFFICES ASSUME NEW k \in 1 .. l
               PROVE  c[k] # 0 /\ blocks[c[k]].next = IF k < l THEN c[k + 1] ELSE 0
    OBVIOUS
  <2>1. c[k] \in DataSectors
    BY <1>3
  <2>2. Links(c[k], IF k < l THEN c[k + 1] ELSE 0)
    BY <1>3, <1>4 DEF IsChain
  <2> QED
    BY <2>1, <2>2, Sizes DEF Links
<1>7. num_sectors \in Nat
  BY NqfsAssumption DEF num_sectors
<1>8. ASSUME NEW k \in 0 .. num_sectors
      PROVE  (IF k < l THEN c[k + 1] ELSE 0) =
                IF k = 0 THEN s ELSE IF G[k - 1] = 0 THEN 0 ELSE blocks[G[k - 1]].next
  <2>1. CASE k = 0
    BY <1>5, <2>1
  <2>2. CASE k # 0
    <3>1. k - 1 \in 0 .. num_sectors /\ (k - 1) + 1 = k
      BY <1>7, <2>2
    <3>2. G[k - 1] = IF k - 1 < l THEN c[k] ELSE 0
      BY <1>2, <1>3, <3>1
    <3>3. CASE k - 1 < l
      <4>1. k \in 1 .. l
        BY <2>2, <3>3
      <4> QED
        BY <1>6, <2>2, <3>2, <3>3, <4>1
    <3>4. CASE ~(k - 1 < l)
      <4>1. ~(k < l)
        BY <2>2, <3>4
      <4> QED
        BY <2>2, <3>2, <3>4, <4>1
    <3> QED
      BY <3>3, <3>4
  <2> QED
    BY <2>1, <2>2
<1>9. G = [k \in 0 .. num_sectors |->
             IF k = 0 THEN s ELSE IF G[k - 1] = 0 THEN 0 ELSE blocks[G[k - 1]].next]
  BY <1>2, <1>3, <1>8
<1>10. ChainOf(h) = [k \in 0 .. num_sectors |->
             IF k = 0 THEN s ELSE IF ChainOf(h)[k - 1] = 0 THEN 0 ELSE blocks[ChainOf(h)[k - 1]].next]
  BY <1>1, <1>9, ZenonT(40) DEF ChainOf
<1>11. PICK H : H = ChainOf(h)
  OBVIOUS
<1>12. H = [k \in 0 .. num_sectors |->
             IF k = 0 THEN s ELSE IF H[k - 1] = 0 THEN 0 ELSE blocks[H[k - 1]].next]
  BY <1>10, <1>11
<1>13. \A k \in 0 .. num_sectors : H[k] = G[k]
  <2> DEFINE T == {k \in 0 .. num_sectors : H[k] # G[k]}
  <2> SUFFICES ASSUME T # {} PROVE FALSE
    OBVIOUS
  <2>1. T \in SUBSET Nat
    BY <1>7
  <2>2. PICK k \in T : \A y \in T : k <= y
    BY <2>1, LeastOf
  <2>3. k \in 0 .. num_sectors /\ H[k] # G[k]
    OBVIOUS
  <2>4. CASE k = 0
    BY <1>9, <1>12, <2>3, <2>4
  <2>5. CASE k # 0
    <3>1. k - 1 \in 0 .. num_sectors /\ ~(k <= k - 1)
      BY <1>7, <2>3, <2>5
    <3>2. H[k - 1] = G[k - 1]
      BY <2>2, <3>1
    <3> QED
      BY <1>9, <1>12, <2>3, <2>5, <3>1, <3>2
  <2> QED
    BY <2>4, <2>5
<1> QED
  BY <1>2, <1>3, <1>11, <1>13

\* A file holds exactly the bytes that were appended to it, as long as no append
\* has lost a block.
THEOREM FilesHoldWhatWasAppended == NqfsSpec => []FileHoldsAppends
<1>1. ASSUME NqfsInv PROVE FileHoldsAppends
  <2> SUFFICES ASSUME orphans = {}, NEW h \in InodeSectors
               PROVE  /\ inodes[h][0].size = Len(written[h])
                      /\ \A n \in 1 .. Len(written[h]) :
                           LET b == ChainOf(h)[(n - 1) \div B]
                           IN  b # 0 /\ blocks[b].data[(n - 1) % B] = written[h][n]
    BY DEF FileHoldsAppends, B
  <2>1. OfHandle(h) \in Files /\ Inode(OfHandle(h)) = inodes[h][0]
    BY <1>1, HandleInode DEF NqfsInv
  <2>2. inodes[h][0].size = Len(written[h])
    BY <1>1, <2>1 DEF NqfsInv, InodesInv
  <2>3. PICK C \in [Files -> Seq(DataSectors)] : ChainsInv(C)
    BY <1>1 DEF NqfsInv
  <2>4. PICK c \in Seq(DataSectors) : c = C[OfHandle(h)]
    BY <2>1
  <2>5. PICK u \in Seq(Byte) : u = written[h]
    BY <1>1 DEF NqfsInv, NqfsTypes
  <2>6. HoldsBytes(c, u)
    BY <2>3, <2>4, <2>5 DEF ChainsInv
  <2>7. Len(c) <= num_sectors
    <3>1. \A i, j \in 1 .. Len(c) : c[i] = c[j] => i = j
      BY <2>1, <2>3, <2>4 DEF ChainsInv, Disjoint
    <3> QED
      BY <3>1, ChainFits
  <2>8. ASSUME NEW n \in 1 .. Len(u)
        PROVE  LET b == ChainOf(h)[(n - 1) \div B]
               IN  b # 0 /\ blocks[b].data[(n - 1) % B] = u[n]
    <3>1. PICK m \in Nat : m = n - 1 /\ m + 1 = n
      OBVIOUS
    <3>2. PICK q \in Nat, o \in Offsets : q = m \div B /\ o = m % B /\ q * B + o = m
      <4>1. /\ m \div B \in Nat /\ m % B \in Offsets
            /\ (m \div B) * B + (m % B) = m
        BY Division
      <4> QED
        BY <4>1, Zenon
    <3>3. q < Len(c)
      <4> SUFFICES ASSUME Len(c) <= q PROVE FALSE
        OBVIOUS
      <4>1. PICK x \in Nat : x = Len(c) * B
        BY Multiples
      <4>2. PICK y \in Nat : y = q * B
        BY Multiples
      <4>3. x <= y
        BY <4>1, <4>2, Multiples
      <4>4. Len(u) <= x
        BY <2>6, <4>1 DEF HoldsBytes
      <4>5. y + o = m
        BY <3>2, <4>2
      <4>6. o \in Nat /\ m < Len(u)
        BY <3>1, Sizes
      <4> QED
        BY <4>3, <4>4, <4>5, <4>6
    <3>4. q \in 0 .. num_sectors /\ q + 1 \in 1 .. Len(c) /\ (q + 1) - 1 = q
      BY <2>7, <3>3, NqfsAssumption DEF num_sectors
    <3>5. ChainOf(h)[q] = c[q + 1] /\ c[q + 1] \in DataSectors
      <4>1. \A k \in 0 .. num_sectors : ChainOf(h)[k] = IF k < Len(c) THEN c[k + 1] ELSE 0
        BY <1>1, <2>3, <2>4, ChainOfFollows
      <4> QED
        BY <3>3, <3>4, <4>1
    <3>6. blocks[c[q + 1]].data[o] = u[q * B + o + 1]
      <4>1. q * B + o < Len(u)
        BY <3>1, <3>2
      <4> QED
        BY <2>6, <3>4, <4>1 DEF HoldsBytes
    <3> QED
      BY <3>1, <3>2, <3>5, <3>6, Sizes
  <2> QED
    BY <2>2, <2>5, <2>8
<1> QED
  BY <1>1, NqfsInvariant, PTL

=============================================================================

-------------------------------- MODULE Nqfs --------------------------------
(***************************************************************************)
(* The file system NQFS on the RAM block device.  A file is an inode and a *)
(* chain of storage blocks; files are created, appended to and read from   *)
(* the start.  A handle is the number of an inode sector, and every        *)
(* operation works on the first inode of that sector.  The loops of        *)
(* NQFS_write_bytes and NQFS_read_bytes take one action per iteration.     *)
(* File names and the inode padding are left out.                          *)
(***************************************************************************)
EXTENDS Integers, Sequences, FiniteSets

CONSTANTS
  FILEPTR_SECTORS,            \* inode sectors (128)
  FILEPTR_PER_SECTOR,         \* inodes in one (4)
  NQFS_STORAGE_BYTES_SECTOR,  \* data bytes of a storage block (504)
  SECTOR_SIZE,                \* bytes of a sector (512)
  RAMFS_BYTES,                \* bytes of the device (5 * 2^20)
  WORD,                       \* values of a uint32_t (2^32)
  Byte,                       \* values of a data byte, 0 among them
  Inputs,                     \* what callers write: sequences of bytes
  MAX_READ                    \* the most bytes a caller asks for

num_sectors == RAMFS_BYTES \div SECTOR_SIZE

InodeSectors == 0 .. FILEPTR_SECTORS - 1
Slots == 0 .. FILEPTR_PER_SECTOR - 1
DataSectors == FILEPTR_SECTORS .. num_sectors - 1
Offsets == 0 .. NQFS_STORAGE_BYTES_SECTOR - 1

ASSUME NqfsAssumption ==
  /\ FILEPTR_SECTORS \in Nat \ {0}
  /\ FILEPTR_PER_SECTOR \in Nat \ {0}
  /\ NQFS_STORAGE_BYTES_SECTOR \in Nat \ {0}
  /\ SECTOR_SIZE \in Nat \ {0}
  /\ RAMFS_BYTES \in Nat
  /\ FILEPTR_SECTORS + 1 < num_sectors
  /\ WORD \in Nat /\ RAMFS_BYTES < WORD
  /\ 0 \in Byte
  /\ Inputs \subseteq Seq(Byte)
  /\ MAX_READ \in Nat

VARIABLES
  inodes,     \* [InodeSectors -> [Slots -> inode]]
  blocks,     \* [DataSectors -> storage block]; magic is magic_number = 0xC001
  op,         \* the operation in progress
  ret,        \* what the last operation returned
  out,        \* the bytes the last read delivered
  refused,    \* history: sectors the device refused to write
  written,    \* history: the bytes appended through each handle
  orphans     \* history: blocks an append allocated and linked nowhere

disk == <<inodes, blocks>>
history == <<refused, written, orphans>>
nqfsvars == <<inodes, blocks, op, ret, out, refused, written, orphans>>

Idle == [pc |-> "idle"]

-----------------------------------------------------------------------------
(* The device.  It returns 0 for a sector it takes to be out of bounds. *)

RAMBLK__read_sector(s) == (s * SECTOR_SIZE) % WORD < RAMFS_BYTES

RAMBLK__write_sector(s) == ((s + 1) * SECTOR_SIZE) % WORD < RAMFS_BYTES

-----------------------------------------------------------------------------
(* Blocks. *)

Unmarked == {i \in DataSectors : ~blocks[i].magic}
FirstUnmarked == CHOOSE i \in Unmarked : \A j \in Unmarked : i <= j

\* Mutation: the write that marks the block is not checked.
UncheckedFreeBlock == IF Unmarked # {} THEN FirstUnmarked ELSE 0

\* The sector NQFS_get_next_free_block answers with, 0 for none ...
NQFS_get_next_free_block ==
  IF Unmarked # {} /\ RAMBLK__write_sector(FirstUnmarked) THEN FirstUnmarked ELSE 0

\* Mutation: the mark is not written back.
MarkedInMemory(bs, i) == bs

\* ... and the blocks bs with that sector i marked.
Marked(bs, i) ==
  IF i = 0 THEN bs ELSE [bs EXCEPT ![i].magic = TRUE, ![i].next = 0]

Refusals == {i \in Unmarked : i = FirstUnmarked /\ ~RAMBLK__write_sector(i)}

Return(v) == op' = Idle /\ ret' = v

-----------------------------------------------------------------------------
(* NQFS_create_file. *)

FreeInodes == {f \in InodeSectors \X Slots : ~inodes[f[1]][f[2]].allocd}

\* Mutation: create takes the first inode, allocated or not.
FirstInode == <<0, 0>>

FirstFreeInode == CHOOSE f \in FreeInodes : \A g \in FreeInodes :
                    f[1] < g[1] \/ (f[1] = g[1] /\ f[2] <= g[2])

NQFS_create_file ==
  /\ op = Idle
  /\ LET new == NQFS_get_next_free_block
         f   == FirstFreeInode
     IN  IF FreeInodes = {} \/ new = 0
         THEN Return(0) /\ UNCHANGED disk
         ELSE /\ inodes' = [inodes EXCEPT ![f[1]][f[2]] =
                              [allocd |-> TRUE, start_sector |-> new, size |-> 0]]
              /\ blocks' = Marked(blocks, new)
              /\ Return(f[1])
  /\ refused' = IF FreeInodes = {} THEN refused ELSE refused \cup Refusals
  /\ UNCHANGED <<out, written, orphans>>

-----------------------------------------------------------------------------
(* NQFS_write_bytes(device, h, data): append. *)

WriteStart(h, data) ==
  /\ op = Idle
  /\ LET fp == inodes[h][0]
     IN  IF fp.start_sector # 0
         THEN /\ op' = [pc |-> "seek", h |-> h, rest |-> data, total |-> 0,
                        cur_size |-> fp.size, at |-> fp.start_sector]
              /\ UNCHANGED ret
         ELSE Return(0)
  /\ UNCHANGED <<disk, out, history>>

\* The loop that walks to the last block.  At the end of the chain it takes a
\* new block; the pointer to it is stored in sb only, which the next
\* read_sector overwrites.
WriteSeek ==
  /\ op.pc = "seek" /\ op.cur_size >= NQFS_STORAGE_BYTES_SECTOR
  /\ LET next == blocks[op.at].next
         new  == NQFS_get_next_free_block
         go   == IF next # 0 THEN next ELSE new
     IN  /\ IF go = 0
            THEN Return(0)
            ELSE /\ op' = [op EXCEPT !.at = go,
                                     !.cur_size = op.cur_size - NQFS_STORAGE_BYTES_SECTOR]
                 /\ UNCHANGED ret
         /\ blocks' = IF next # 0 THEN blocks ELSE Marked(blocks, new)
         /\ orphans' = IF next # 0 THEN orphans ELSE orphans \cup ({new} \ {0})
         /\ refused' = IF next # 0 THEN refused ELSE refused \cup Refusals
  /\ UNCHANGED <<inodes, out, written>>

\* Mutation: the append begins at the start of the last block.
WriteFoundAtStart ==
  /\ op.pc = "seek" /\ op.cur_size < NQFS_STORAGE_BYTES_SECTOR
  /\ op' = [op EXCEPT !.pc = "write", !.cur_size = 0]
  /\ UNCHANGED <<disk, ret, out, history>>

\* The walk ends in the last block, cur_size bytes into it.
WriteFound ==
  /\ op.pc = "seek" /\ op.cur_size < NQFS_STORAGE_BYTES_SECTOR
  /\ op' = [op EXCEPT !.pc = "write"]
  /\ UNCHANGED <<disk, ret, out, history>>

\* One block: fill it, update the inode, and link a new block if data is left.
WriteChunk ==
  /\ op.pc = "write" /\ op.rest # <<>>
  /\ LET room == NQFS_STORAGE_BYTES_SECTOR - op.cur_size
         writeable == IF Len(op.rest) < room THEN Len(op.rest) ELSE room
         filled == [blocks[op.at] EXCEPT !.data =
                      [k \in Offsets |-> IF k \in op.cur_size .. op.cur_size + writeable - 1
                                           THEN op.rest[k - op.cur_size + 1] ELSE @[k]]]
         more == Len(op.rest) > writeable
         new  == NQFS_get_next_free_block
     IN  /\ inodes' = [inodes EXCEPT ![op.h][0].size = @ + writeable]
         /\ written' = [written EXCEPT ![op.h] = @ \o SubSeq(op.rest, 1, writeable)]
         /\ IF more
            THEN /\ blocks' = Marked([blocks EXCEPT ![op.at] = [filled EXCEPT !.next = new]], new)
                 /\ refused' = refused \cup Refusals
            ELSE /\ blocks' = [blocks EXCEPT ![op.at] = filled]
                 /\ UNCHANGED refused
         /\ IF more /\ new = 0
            THEN Return(0)
            ELSE /\ op' = [op EXCEPT !.rest = SubSeq(op.rest, writeable + 1, Len(op.rest)),
                                     !.total = op.total + writeable,
                                     !.cur_size = 0,
                                     !.at = IF more THEN new ELSE op.at]
                 /\ UNCHANGED ret
  /\ UNCHANGED <<out, orphans>>

WriteReturn ==
  /\ op.pc = "write" /\ op.rest = <<>>
  /\ Return(op.total)
  /\ UNCHANGED <<disk, out, history>>

-----------------------------------------------------------------------------
(* NQFS_read_bytes(device, h, out, size). *)

ReadStart(h, size) ==
  /\ op = Idle
  /\ out' = <<>>
  /\ LET fp == inodes[h][0]
     IN  IF fp.start_sector # 0
         THEN /\ op' = [pc |-> "read", at |-> fp.start_sector,
                        size |-> IF size > fp.size THEN fp.size ELSE size]
              /\ UNCHANGED ret
         ELSE Return(0)
  /\ UNCHANGED <<disk, history>>

ReadChunk ==
  /\ op.pc = "read" /\ op.size > 0
  /\ LET readable == IF op.size < NQFS_STORAGE_BYTES_SECTOR
                       THEN op.size ELSE NQFS_STORAGE_BYTES_SECTOR
         left == op.size - readable
         sb   == blocks[op.at]
     IN  /\ out' = out \o [k \in 1 .. readable |-> sb.data[k - 1]]
         /\ IF left > 0 /\ sb.next = 0
            THEN Return(left)
            ELSE /\ op' = [op EXCEPT !.size = left,
                                     !.at = IF left > 0 THEN sb.next ELSE op.at]
                 /\ UNCHANGED ret
  /\ UNCHANGED <<disk, history>>

ReadReturn ==
  /\ op.pc = "read" /\ op.size = 0
  /\ Return(op.size)
  /\ UNCHANGED <<disk, out, history>>

-----------------------------------------------------------------------------
\* RAMBLK__init clears the device.
NqfsInit ==
  /\ inodes = [i \in InodeSectors |-> [j \in Slots |->
                 [allocd |-> FALSE, start_sector |-> 0, size |-> 0]]]
  /\ blocks = [i \in DataSectors |-> [magic |-> FALSE, next |-> 0,
                                      data |-> [k \in Offsets |-> 0]]]
  /\ op = Idle
  /\ ret = 0
  /\ out = <<>>
  /\ refused = {}
  /\ written = [h \in InodeSectors |-> <<>>]
  /\ orphans = {}

NqfsNext ==
  \/ NQFS_create_file
  \/ \E h \in InodeSectors, data \in Inputs : WriteStart(h, data)
  \/ WriteSeek \/ WriteFound \/ WriteChunk \/ WriteReturn
  \/ \E h \in InodeSectors, size \in 0 .. MAX_READ : ReadStart(h, size)
  \/ ReadChunk \/ ReadReturn

NqfsSpec == NqfsInit /\ [][NqfsNext]_nqfsvars

-----------------------------------------------------------------------------
(* Properties. *)

\* The places a pointer to a block is kept in: <<i, j>> is the start_sector of
\* inode j of sector i, <<b>> the next_sector of block b.
Pointers == (InodeSectors \X Slots) \cup {<<b>> : b \in DataSectors}

Target(p) == IF Len(p) = 2 THEN inodes[p[1]][p[2]].start_sector ELSE blocks[p[1]].next

\* No block belongs to two files, or twice to one: no two pointers lead to the
\* same block, and every pointer leads to a block that is marked as taken.
NoSharedBlocks ==
  /\ \A p, q \in Pointers : Target(p) = Target(q) /\ Target(p) # 0 => p = q
  /\ \A p \in Pointers : Target(p) # 0 => Target(p) \in DataSectors /\ blocks[Target(p)].magic

\* No block is lost, except to an append that begins at the end of a full last
\* block (nqfs.c:136 never writes the pointer it sets).
BlocksAccountedFor ==
  {b \in DataSectors : blocks[b].magic}
    = ({Target(p) : p \in Pointers} \ {0}) \cup orphans

\* The k-th block of the file behind handle h, 0 past the end of the chain.
ChainOf(h) ==
  LET blk[k \in 0 .. num_sectors] ==
        IF k = 0 THEN inodes[h][0].start_sector
        ELSE IF blk[k - 1] = 0 THEN 0 ELSE blocks[blk[k - 1]].next
  IN  blk

\* Across any sequence of creates, appends and reads, a file holds exactly the
\* bytes that were appended to it, as long as no append has lost a block.
FileHoldsAppends ==
  orphans = {} =>
    \A h \in InodeSectors :
      /\ inodes[h][0].size = Len(written[h])
      /\ \A n \in 1 .. Len(written[h]) :
           LET b == ChainOf(h)[(n - 1) \div NQFS_STORAGE_BYTES_SECTOR]
           IN  b # 0 /\ blocks[b].data[(n - 1) % NQFS_STORAGE_BYTES_SECTOR] = written[h][n]

\* The operations only touch sectors the device accepts, so that none of their
\* other early returns is taken.
AccessesAccepted ==
  op.pc \in {"seek", "write", "read"} =>
    /\ op.at \in DataSectors
    /\ RAMBLK__read_sector(op.at) /\ RAMBLK__write_sector(op.at)

\* What nqfs.h:26 says of NQFS_read_bytes: "Returns number of bytes read into
\* char".
ReadReturnsCount ==
  [][ReadReturn => ret' = Len(out)]_nqfsvars

\* What the comment at ramblk.c:24 says of a refused write: "Out of bounds".
RefusedOutOfBounds ==
  \A s \in refused : s * SECTOR_SIZE + SECTOR_SIZE > RAMFS_BYTES
=============================================================================

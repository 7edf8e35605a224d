----------------------------- MODULE InodeFile -----------------------------
(***************************************************************************)
(* One file of the inode layer, src/file-system/filesys/inode.c: its       *)
(* on-disk inode (length, direct[], indirect[]), the in-memory inode while *)
(* open, the free map and the contents of the device's sectors.            *)
(*                                                                         *)
(* Every operation runs under the in-memory inode's lock, so each is one   *)
(* step; the loops of extend_disk and of the read/write chunking are       *)
(* recursive operators.  The buffer cache is taken as a coherent sector    *)
(* store (BufferCache checks when that holds).  Sizes are scaled down:     *)
(* SectorSize bytes per sector, NumDirect direct and NumIndirect indirect  *)
(* slots, SectorSize \div 2 two-byte entries per indirect sector.          *)
(* Allocation and release of sectors (free-map.c) and the allocation of    *)
(* the inode's own sector by filesys_create are not under src/ and are     *)
(* modelled from the spec: first fit over the free sectors.                *)
(***************************************************************************)
EXTENDS Naturals, Integers, FiniteSets

CONSTANTS
    SectorSize,     \* BLOCK_SECTOR_SIZE
    NumDirect,      \* NUM_DIRECT
    NumIndirect,    \* NUM_INDIRECT
    MaxInodeLen,    \* MAX_INODE_LEN
    NumSectors,     \* sectors on the file-system device
    Reserved,       \* sectors never in the free map (free map file, root dir)
    CreateLens,     \* initial lengths passed to inode_create
    Offsets,        \* offsets passed to inode_write_at / inode_read_at
    Sizes,          \* sizes passed to inode_write_at / inode_read_at
    WriteVals,      \* byte values written (each write stores one value)
    MaxOpeners,     \* bound on open_cnt
    MaxCalls,       \* bound on calls into the inode layer
    NONE

IndirectLen == SectorSize \div 2      \* INDIRECT_LEN: u16 entries per sector
Sectors == 0..NumSectors - 1
Bytes == 0..255
SectorData == [0..SectorSize - 1 -> Bytes]
MaxU16 == 65535

ASSUME SectorSize >= 2 /\ SectorSize % 2 = 0 /\ NumDirect >= 1
ASSUME MaxInodeLen <= SectorSize * (NumDirect + IndirectLen * NumIndirect)
ASSUME Reserved \subseteq Sectors /\ WriteVals \subseteq Bytes \ {0}

\* C's / and % on int: truncation toward zero.
CDiv(a, b) == IF a >= 0 THEN a \div b ELSE -((-a) \div b)
CMod(a, b) == a - b * CDiv(a, b)
RoundUp(x) == ((x + SectorSize - 1) \div SectorSize) * SectorSize
MinOf(a, b) == IF a < b THEN a ELSE b
ZeroSector == [i \in 0..SectorSize - 1 |-> 0]

\* struct inode_disk.
InodeDisks == [length : 0..MaxInodeLen, direct : [0..NumDirect - 1 -> 0..MaxU16],
               indirect : [0..NumIndirect - 1 -> 0..MaxU16]]

VARIABLES
    freeMap,      \* free sectors of the free map
    disk,         \* disk[s]: the bytes of sector s (as the buffer cache holds them)
    inodeSector,  \* the sector of the file's on-disk inode, NONE if no file
    onDisk,       \* struct inode_disk stored in inodeSector, NONE if none
    mem,          \* the in-memory struct inode, NONE while not open
    linked,       \* the file is reachable by name (not yet removed)
    calls,        \* calls made so far
    \* history of the file, used only by the properties:
    content,      \* content[p]: the byte last written at offset p (0 if none)
    dataSecs,     \* sectors allocated as this file's data sectors
    indSecs       \* sectors allocated as this file's indirect sectors

vars == <<freeMap, disk, inodeSector, onDisk, mem, linked, calls, content,
          dataSecs, indSecs>>

MemInodes == [openCnt : 1..MaxOpeners, denyCnt : 0..MaxOpeners,
              removed : BOOLEAN, data : InodeDisks]

TypeOK ==
    /\ freeMap \subseteq Sectors
    /\ disk \in [Sectors -> SectorData]
    /\ inodeSector \in Sectors \cup {NONE}
    /\ onDisk \in InodeDisks \cup {NONE}
    /\ mem \in MemInodes \cup {NONE}
    /\ linked \in BOOLEAN
    /\ calls \in 0..MaxCalls
    /\ content \in [0..MaxInodeLen - 1 -> Bytes]
    /\ dataSecs \subseteq Sectors /\ indSecs \subseteq Sectors

(***************************************************************************)
(* The growth algorithm works on a record g = [d, free, disk, data, ind]:  *)
(* the inode_disk being grown, the free map, the device, and the sectors   *)
(* allocated so far as data and as indirect sectors.                       *)
(***************************************************************************)

\* free_map_allocate (first fit); spec section 6.
FreeMapAllocate(free) == CHOOSE s \in free : \A x \in free : s <= x

\* allocate_short: a sector from the free map, zeroed through the cache;
\* a sector number that does not fit in u16 is given back.
AllocateShort(g) ==
    IF g.free = {} THEN [ok |-> FALSE, g |-> g, id |-> 0]
    ELSE LET s == FreeMapAllocate(g.free) IN
         IF s > MaxU16
           THEN [ok |-> FALSE, g |-> g, id |-> 0]
           ELSE [ok |-> TRUE, id |-> s,
                 g |-> [g EXCEPT !.free = @ \ {s}, !.disk[s] = ZeroSector]]

\* cache_write of a u16 (little endian) at byte offset ofs of sector s.
PutU16(dk, s, ofs, v) ==
    [dk EXCEPT ![s][ofs] = v % 256, ![s][ofs + 1] = v \div 256]
GetU16(dk, s, ofs) == dk[s][ofs] + 256 * dk[s][ofs + 1]

\* byte_to_sector_disk: the sector holding byte pos, NONE (-1) past length.
ByteToSectorDisk(d, dk, pos) ==
    IF pos >= d.length THEN NONE
    ELSE LET idx == pos \div SectorSize IN
         IF idx < NumDirect THEN d.direct[idx]
         ELSE GetU16(dk, d.indirect[(idx - NumDirect) \div IndirectLen],
                     (idx - NumDirect) % IndirectLen)

\* append_sector: one more sector after the (sector-aligned) length.
AppendSector(g) ==
    LET newLen == RoundUp(g.d.length) + SectorSize
        idx == (newLen - 1) \div SectorSize
    IN
    IF newLen > MaxInodeLen THEN [ok |-> FALSE, g |-> g]
    ELSE IF idx < NumDirect
      THEN LET a == AllocateShort(g) IN
           IF ~a.ok THEN [ok |-> FALSE, g |-> a.g]
           ELSE [ok |-> TRUE,
                 g |-> [a.g EXCEPT !.d.direct[idx] = a.id, !.d.length = newLen,
                                   !.data = @ \cup {a.id}]]
      ELSE
        LET oldIdx == CDiv(g.d.length - 1, SectorSize)
            oldInd == CDiv(oldIdx - NumDirect, IndirectLen)
            ind == CDiv(idx - NumDirect, IndirectLen)
            fresh == ind > oldInd
            a1 == IF fresh THEN AllocateShort(g) ELSE [ok |-> TRUE, g |-> g]
            g1 == IF fresh THEN [a1.g EXCEPT !.d.indirect[ind] = a1.id,
                                             !.ind = @ \cup {a1.id}]
                           ELSE g
            a2 == AllocateShort(g1)
            ofs == CMod(idx - NumDirect, IndirectLen)
        IN
        IF ~a1.ok THEN [ok |-> FALSE, g |-> a1.g]
        ELSE IF ~a2.ok
          THEN [ok |-> FALSE,
                g |-> IF fresh THEN [a2.g EXCEPT !.free = @ \cup {g1.d.indirect[ind]},
                                                 !.ind = @ \ {g1.d.indirect[ind]}]
                               ELSE a2.g]
          ELSE [ok |-> TRUE,
                g |-> [a2.g EXCEPT !.disk = PutU16(@, g1.d.indirect[ind], ofs, a2.id),
                                   !.d.length = newLen, !.data = @ \cup {a2.id}]]

\* The loop of extend_disk: append until the length reaches the target or
\* an append fails.
RECURSIVE AppendUntil(_, _)
AppendUntil(g, length) ==
    IF g.d.length < length
      THEN LET r == AppendSector(g) IN IF r.ok THEN AppendUntil(r.g, length) ELSE r.g
      ELSE g

\* Mutant: extend_disk without its early return, so a short target
\* truncates the length.
ExtendDiskNoEarlyReturn(g, length) ==
    LET grown == AppendUntil([g EXCEPT !.d.length = RoundUp(@)], length)
    IN  [grown EXCEPT !.d.length = MinOf(@, length)]

\* extend_disk: grow to length bytes, or as far as space allows.
ExtendDisk(g, length) ==
    IF g.d.length >= length THEN g
    ELSE LET grown == AppendUntil([g EXCEPT !.d.length = RoundUp(@)], length)
         IN  [grown EXCEPT !.d.length = MinOf(@, length)]

\* The chunk loop of inode_write_at: write value v to bytes
\* [offset, offset + size) that lie below the length, one sector at a time.
RECURSIVE WriteChunks(_, _, _, _, _)
WriteChunks(d, dk, offset, size, v) ==
    IF size > 0 /\ offset < d.length
      THEN LET sec == ByteToSectorDisk(d, dk, offset)
               sofs == offset % SectorSize
               chunk == MinOf(size, MinOf(d.length - offset, SectorSize - sofs))
               dk2 == [dk EXCEPT ![sec] = [i \in DOMAIN @ |->
                                    IF sofs <= i /\ i < sofs + chunk THEN v ELSE @[i]]]
           IN  WriteChunks(d, dk2, offset + chunk, size - chunk, v)
      ELSE dk

\* The chunk loop of inode_read_at: the bytes [offset, offset + size) below
\* the length, as a function from offsets.
RECURSIVE ReadChunks(_, _, _, _)
ReadChunks(d, dk, offset, size) ==
    IF size > 0 /\ offset < d.length
      THEN LET sec == ByteToSectorDisk(d, dk, offset)
               sofs == offset % SectorSize
               chunk == MinOf(size, MinOf(d.length - offset, SectorSize - sofs))
               here == [p \in offset..offset + chunk - 1 |-> dk[sec][sofs + p - offset]]
               rest == ReadChunks(d, dk, offset + chunk, size - chunk)
           IN  [p \in DOMAIN here \cup DOMAIN rest |->
                   IF p \in DOMAIN here THEN here[p] ELSE rest[p]]
      ELSE [p \in {} |-> 0]

\* The data sectors byte_to_sector names for each sector-stride offset
\* below the length: what inode_create's rollback and inode_close release.
StrideSectors(d, dk) ==
    {ByteToSectorDisk(d, dk, k * SectorSize) :
        k \in 0..((d.length + SectorSize - 1) \div SectorSize) - 1}

EmptyInodeDisk ==
    [length |-> 0, direct |-> [i \in 0..NumDirect - 1 |-> 0],
     indirect |-> [j \in 0..NumIndirect - 1 |-> 0]]

Init ==
    /\ freeMap = Sectors \ Reserved
    /\ disk = [s \in Sectors |-> ZeroSector]
    /\ inodeSector = NONE
    /\ onDisk = NONE
    /\ mem = NONE
    /\ linked = FALSE
    /\ calls = 0
    /\ content = [p \in 0..MaxInodeLen - 1 |-> 0]
    /\ dataSecs = {}
    /\ indSecs = {}

Call == calls < MaxCalls /\ calls' = calls + 1

\* The growth record for the file's inode_disk d in the current state.
GrowthOf(d) ==
    [d |-> d, free |-> freeMap, disk |-> disk, data |-> dataSecs, ind |-> indSecs]

\* Mutant: inode_create returning false without its release loop.
CreateRollbackNone(g, s) == g.free \cup {s}

\* The free map after a failed create: inode_create releases the sector
\* byte_to_sector_disk names at each sector-stride offset below the length
\* reached, and filesys_create releases the inode's sector s.
CreateRollback(g, s) == g.free \cup StrideSectors(g.d, g.disk) \cup {s}

(***************************************************************************)
(* filesys_create: allocate the inode's sector, then inode_create builds   *)
(* the inode_disk, grows it to length and writes it out.  On a shortfall   *)
(* inode_create releases the data sectors byte_to_sector_disk names and    *)
(* filesys_create releases the inode's sector.                             *)
(***************************************************************************)
InodeCreate(length) ==
    LET s == FreeMapAllocate(freeMap)
        g == ExtendDisk([d |-> EmptyInodeDisk, free |-> freeMap \ {s}, disk |-> disk,
                         data |-> {}, ind |-> {}], length)
    IN
    /\ inodeSector = NONE /\ freeMap # {}
    /\ Call
    /\ disk' = g.disk
    /\ IF g.d.length < length
         THEN /\ freeMap' = CreateRollback(g, s)
              /\ UNCHANGED <<inodeSector, onDisk, linked, dataSecs, indSecs>>
         ELSE /\ freeMap' = g.free
              /\ inodeSector' = s
              /\ onDisk' = g.d
              /\ linked' = TRUE
              /\ dataSecs' = g.data
              /\ indSecs' = g.ind
    /\ content' = [p \in 0..MaxInodeLen - 1 |-> 0]
    /\ UNCHANGED mem

\* inode_open of a sector with no in-memory inode: read the inode_disk.
InodeOpen ==
    /\ linked /\ mem = NONE
    /\ Call
    /\ mem' = [openCnt |-> 1, denyCnt |-> 0, removed |-> FALSE, data |-> onDisk]
    /\ UNCHANGED <<freeMap, disk, inodeSector, onDisk, linked, content, dataSecs, indSecs>>

\* inode_open of an open inode, or inode_reopen: one more opener.
InodeReopen ==
    /\ linked /\ mem # NONE /\ mem.openCnt < MaxOpeners
    /\ Call
    /\ mem' = [mem EXCEPT !.openCnt = @ + 1]
    /\ UNCHANGED <<freeMap, disk, inodeSector, onDisk, linked, content, dataSecs, indSecs>>

\* inode_close by one of several openers.
InodeClose ==
    /\ mem # NONE /\ mem.openCnt > 1
    /\ Call
    /\ mem' = [mem EXCEPT !.openCnt = @ - 1]
    /\ UNCHANGED <<freeMap, disk, inodeSector, onDisk, linked, content, dataSecs, indSecs>>

\* Mutant: the last inode_close releasing the blocks without testing
\* removed.
InodeCloseLastFrees ==
    /\ mem # NONE /\ mem.openCnt = 1 /\ ~mem.removed
    /\ Call
    /\ freeMap' = freeMap \cup {inodeSector} \cup StrideSectors(mem.data, disk)
    /\ mem' = NONE
    /\ UNCHANGED <<disk, inodeSector, onDisk, linked, content, dataSecs, indSecs>>

\* inode_close by the last opener of a file not removed: the in-memory
\* inode is freed.
InodeCloseLast ==
    /\ mem # NONE /\ mem.openCnt = 1 /\ ~mem.removed
    /\ Call
    /\ mem' = NONE
    /\ UNCHANGED <<freeMap, disk, inodeSector, onDisk, linked, content, dataSecs, indSecs>>

\* inode_close by the last opener of a removed file: its sector and the
\* data sectors byte_to_sector names are released.
InodeCloseRemoved ==
    /\ mem # NONE /\ mem.openCnt = 1 /\ mem.removed
    /\ Call
    /\ freeMap' = freeMap \cup {inodeSector} \cup StrideSectors(mem.data, disk)
    /\ mem' = NONE
    /\ inodeSector' = NONE
    /\ onDisk' = NONE
    /\ dataSecs' = {}
    /\ indSecs' = {}
    /\ UNCHANGED <<disk, linked, content>>

\* dir_remove unlinks the name, then inode_remove marks the inode.
InodeRemove ==
    /\ mem # NONE /\ linked
    /\ Call
    /\ mem' = [mem EXCEPT !.removed = TRUE]
    /\ linked' = FALSE
    /\ UNCHANGED <<freeMap, disk, inodeSector, onDisk, content, dataSecs, indSecs>>

\* inode_write_at with writes denied: returns 0.
InodeWriteDenied ==
    /\ mem # NONE /\ mem.denyCnt > 0
    /\ Call
    /\ UNCHANGED <<freeMap, disk, inodeSector, onDisk, mem, linked, content,
                   dataSecs, indSecs>>

\* inode_write_at: extend to offset + size (as far as space allows), then
\* write the bytes below the new length.
InodeWriteAt(offset, size, v) ==
    LET g == ExtendDisk(GrowthOf(mem.data), offset + size)
        end == MinOf(offset + size, g.d.length)
    IN
    /\ mem # NONE /\ mem.denyCnt = 0
    /\ Call
    /\ mem' = [mem EXCEPT !.data = g.d]
    /\ disk' = WriteChunks(g.d, g.disk, offset, size, v)
    /\ freeMap' = g.free
    /\ dataSecs' = g.data
    /\ indSecs' = g.ind
    /\ content' = [p \in DOMAIN content |->
                      IF offset <= p /\ p < end THEN v ELSE content[p]]
    /\ UNCHANGED <<inodeSector, onDisk, linked>>

\* inode_deny_write (at most once per opener).
InodeDenyWrite ==
    /\ mem # NONE /\ mem.denyCnt < mem.openCnt
    /\ Call
    /\ mem' = [mem EXCEPT !.denyCnt = @ + 1]
    /\ UNCHANGED <<freeMap, disk, inodeSector, onDisk, linked, content, dataSecs, indSecs>>

\* Mutant: inode_allow_write without its deny_write_cnt > 0 precondition.
InodeAllowWriteUnguarded ==
    /\ mem # NONE
    /\ Call
    /\ mem' = [mem EXCEPT !.denyCnt = @ - 1]
    /\ UNCHANGED <<freeMap, disk, inodeSector, onDisk, linked, content, dataSecs, indSecs>>

\* inode_allow_write.
InodeAllowWrite ==
    /\ mem # NONE /\ mem.denyCnt > 0
    /\ Call
    /\ mem' = [mem EXCEPT !.denyCnt = @ - 1]
    /\ UNCHANGED <<freeMap, disk, inodeSector, onDisk, linked, content, dataSecs, indSecs>>

Next ==
    \/ \E n \in CreateLens : InodeCreate(n)
    \/ InodeOpen \/ InodeReopen
    \/ InodeClose \/ InodeCloseLast \/ InodeCloseRemoved
    \/ InodeRemove
    \/ InodeWriteDenied
    \/ \E o \in Offsets, n \in Sizes, v \in WriteVals : InodeWriteAt(o, n, v)
    \/ InodeDenyWrite \/ InodeAllowWrite

Spec == Init /\ [][Next]_vars

-----------------------------------------------------------------------------
(***************************************************************************)
(* Properties.                                                             *)
(***************************************************************************)

\* The inode_disk of the file as the layer sees it now.
Live == IF mem # NONE THEN mem.data ELSE onDisk

\* Number of sectors a length covers (bytes_to_sectors).
BytesToSectors(n) == (n + SectorSize - 1) \div SectorSize

\* The indirect slots the live map uses.
UsedIndirect(d) ==
    {j \in 0..NumIndirect - 1 : NumDirect + j * IndirectLen < BytesToSectors(d.length)}

\* Spec section 3: every indirect slot whose range is below the length
\* references an indirect sector allocated to the file.  append_sector
\* decides whether to allocate a new indirect sector by comparing C
\* quotients of possibly negative numbers.
IndirectSlotsAllocated ==
    inodeSector # NONE =>
        \A j \in UsedIndirect(Live) : Live.indirect[j] \in indSecs

\* Spec property 1: byte_to_sector of every byte below the length is a
\* data sector allocated to the file.  The indirect entries are u16 values
\* stored and read at byte offset (idx - NUM_DIRECT) % INDIRECT_LEN.
ResolvesToAllocated ==
    inodeSector # NONE =>
        \A k \in 0..BytesToSectors(Live.length) - 1 :
            ByteToSectorDisk(Live, disk, k * SectorSize) \in dataSecs

\* Spec property 1: inode_read_at of the whole file returns the bytes last
\* written (zero where none was), and the file is at least as long as the
\* furthest write, also after the file was closed and opened again.
FileReadsBack ==
    mem # NONE =>
        LET r == ReadChunks(mem.data, disk, 0, MaxInodeLen) IN
        \A p \in 0..MaxInodeLen - 1 :
            IF p < mem.data.length THEN r[p] = content[p] ELSE content[p] = 0

\* The free map never holds a sector the file's live map uses: its inode
\* sector, a data sector below the length, or a used indirect sector.
FreeDisjointFromFile ==
    inodeSector # NONE =>
        /\ inodeSector \notin freeMap
        /\ StrideSectors(Live, disk) \cap freeMap = {}
        /\ {Live.indirect[j] : j \in UsedIndirect(Live)} \cap freeMap = {}

\* extend_disk is idempotent and monotone (spec 4.2): no write makes an
\* open file shorter.
LengthNeverShrinks ==
    [][mem # NONE /\ mem' # NONE => mem'.data.length >= mem.data.length]_vars

\* A failed filesys_create/inode_create gives back every sector it took.
FailedCreateReleasesAll ==
    [][inodeSector = NONE /\ inodeSector' = NONE => freeMap' = freeMap]_vars
=============================================================================

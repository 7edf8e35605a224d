---------------------------- MODULE BufferCache ----------------------------
(***************************************************************************)
(* The buffer cache of src/file-system/filesys/cache.c.                    *)
(*                                                                         *)
(* A fixed pool of entries (buffer_cache[]), each holding one sector's     *)
(* data with dirty and accessed flags and a per-entry lock (block_lock).   *)
(* Client threads call cache_read, cache_write and cache_zero; each goes   *)
(* through find_cache_entry, which scans for the sector under the global   *)
(* buffer_lock, and on a miss calls next_cache_entry to pick and clean a   *)
(* victim.  A write-behind thread periodically runs cache_save.            *)
(*                                                                         *)
(* buffer_lock is taken only around the two scan loops, which neither      *)
(* block nor do I/O, so each scan is one atomic step here and the lock is  *)
(* not a variable.  The scans read sector and accessed without the entry   *)
(* locks that guard their writers; an atomic snapshot is one of the        *)
(* outcomes of that race.  Sector contents are abstracted to one value per *)
(* sector; byte ranges (size, offset) are not modelled.                    *)
(***************************************************************************)
EXTENDS Naturals, FiniteSets

CONSTANTS
    Threads,      \* client threads calling cache_read/write/zero
    Sectors,      \* sector numbers of the file-system device
    Values,       \* possible contents of a sector
    Zero,         \* the all-zero contents written by cache_zero
    NumEntries,   \* CACHE_SIZE
    MaxOps,       \* bound on the requests one client issues
    NONE          \* sector -1 of an unused entry; no lock holder; no read

ASSUME Zero \in Values /\ NONE \notin Sectors \cup Values \cup Threads
ASSUME NumEntries \in Nat \ {0} /\ MaxOps \in Nat

Entries == 1..NumEntries

\* A request: kind, sector, and the value a write stores.
Ops == [kind : {"read", "zero"}, sec : Sectors, val : {Zero}]
       \cup [kind : {"write"}, sec : Sectors, val : Values]

Pcs == {"idle", "find_scan", "find_lock", "evict_scan", "evict_lock",
        "fill", "op"}

VARIABLES
    sector,     \* sector[e]: buffer_cache[e].sector
    dirty,      \* buffer_cache[e].dirty
    accessed,   \* buffer_cache[e].accessed
    data,       \* buffer_cache[e].data
    holder,     \* holder[e]: thread holding buffer_cache[e].block_lock
    disk,       \* disk[s]: contents of sector s on fs_device
    pc,         \* where each client thread is in its request
    op,         \* the request each client is serving
    target,     \* the entry a client is locking or holds (cache_e)
    opsDone,    \* requests issued so far by each client
    result,     \* what each client's last cache_read returned
    wb          \* write_behind: 0 while sleeping, else the next entry to save

vars == <<sector, dirty, accessed, data, holder, disk, pc, op, target,
          opsDone, result, wb>>

TypeOK ==
    /\ sector \in [Entries -> Sectors \cup {NONE}]
    /\ dirty \in [Entries -> BOOLEAN]
    /\ accessed \in [Entries -> BOOLEAN]
    /\ data \in [Entries -> Values]
    /\ holder \in [Entries -> Threads \cup {NONE}]
    /\ disk \in [Sectors -> Values]
    /\ pc \in [Threads -> Pcs]
    /\ op \in [Threads -> Ops]
    /\ target \in [Threads -> Entries]
    /\ opsDone \in [Threads -> 0..MaxOps]
    /\ result \in [Threads -> Values \cup {NONE}]
    /\ wb \in 0..NumEntries

\* cache_init/allocate_cache: every entry unused, clean, unlocked.
Init ==
    /\ sector = [e \in Entries |-> NONE]
    /\ dirty = [e \in Entries |-> FALSE]
    /\ accessed = [e \in Entries |-> FALSE]
    /\ data = [e \in Entries |-> Zero]
    /\ holder = [e \in Entries |-> NONE]
    /\ disk = [s \in Sectors |-> Zero]
    /\ pc = [t \in Threads |-> "idle"]
    /\ op = [t \in Threads |-> [kind |-> "read", sec |-> CHOOSE s \in Sectors : TRUE,
                                val |-> Zero]]
    /\ target = [t \in Threads |-> 1]
    /\ opsDone = [t \in Threads |-> 0]
    /\ result = [t \in Threads |-> NONE]
    /\ wb = 0

\* The disk after block_write of entry e if it is dirty.
FlushedDisk(e) ==
    IF dirty[e] THEN [disk EXCEPT ![sector[e]] = data[e]] ELSE disk

(***************************************************************************)
(* A client calls cache_read, cache_write or cache_zero.                   *)
(***************************************************************************)
Request(t) ==
    /\ pc[t] = "idle"
    /\ opsDone[t] < MaxOps
    /\ \E o \in Ops : op' = [op EXCEPT ![t] = o]
    /\ opsDone' = [opsDone EXCEPT ![t] = @ + 1]
    /\ pc' = [pc EXCEPT ![t] = "find_scan"]
    /\ UNCHANGED <<sector, dirty, accessed, data, holder, disk, target, result, wb>>

(***************************************************************************)
(* find_cache_entry: scan for the sector under buffer_lock.  A hit goes on *)
(* to lock the entry; a miss calls next_cache_entry.                       *)
(***************************************************************************)
FindScan(t) ==
    LET hits == {e \in Entries : sector[e] = op[t].sec}
    IN  /\ pc[t] = "find_scan"
        /\ IF hits # {}
             THEN /\ target' = [target EXCEPT ![t] =
                                  CHOOSE e \in hits : \A f \in hits : e <= f]
                  /\ pc' = [pc EXCEPT ![t] = "find_lock"]
             ELSE /\ pc' = [pc EXCEPT ![t] = "evict_scan"]
                  /\ UNCHANGED target
        /\ UNCHANGED <<sector, dirty, accessed, data, holder, disk, op, opsDone,
                       result, wb>>

\* The hit is still for our sector once block_lock is held: keep the lock.
FindLockHit(t) ==
    LET e == target[t] IN
    /\ pc[t] = "find_lock"
    /\ holder[e] = NONE
    /\ sector[e] = op[t].sec
    /\ holder' = [holder EXCEPT ![e] = t]
    /\ pc' = [pc EXCEPT ![t] = "op"]
    /\ UNCHANGED <<sector, dirty, accessed, data, disk, op, target, opsDone,
                   result, wb>>

\* Mutant: the restart forgets to release block_lock.
FindLockStaleHeld(t) ==
    LET e == target[t] IN
    /\ pc[t] = "find_lock"
    /\ holder[e] = NONE
    /\ sector[e] # op[t].sec
    /\ holder' = [holder EXCEPT ![e] = t]
    /\ pc' = [pc EXCEPT ![t] = "find_scan"]
    /\ UNCHANGED <<sector, dirty, accessed, data, disk, op, target,
                   opsDone, result, wb>>

\* The entry was reassigned while we waited: release and call
\* find_cache_entry again.
FindLockStale(t) ==
    LET e == target[t] IN
    /\ pc[t] = "find_lock"
    /\ holder[e] = NONE
    /\ sector[e] # op[t].sec
    /\ pc' = [pc EXCEPT ![t] = "find_scan"]
    /\ UNCHANGED <<sector, dirty, accessed, data, holder, disk, op, target,
                   opsDone, result, wb>>

(***************************************************************************)
(* next_cache_entry: under buffer_lock, scan from entry 1, clearing the    *)
(* accessed flag of every accessed entry, up to the first one that is not  *)
(* accessed; if all were accessed the loop ends on the last entry.         *)
(***************************************************************************)
\* Mutant: the scan loop runs one entry past the end (i <= CACHE_SIZE).
VictimPastEnd ==
    LET fresh == {e \in Entries : ~accessed[e]}
    IN  IF fresh # {} THEN CHOOSE e \in fresh : \A f \in fresh : e <= f
                      ELSE NumEntries + 1

Victim ==
    LET fresh == {e \in Entries : ~accessed[e]}
    IN  IF fresh # {} THEN CHOOSE e \in fresh : \A f \in fresh : e <= f
                      ELSE NumEntries

EvictScan(t) ==
    /\ pc[t] = "evict_scan"
    /\ target' = [target EXCEPT ![t] = Victim]
    /\ accessed' = [e \in Entries |-> IF e <= Victim THEN FALSE ELSE accessed[e]]
    /\ pc' = [pc EXCEPT ![t] = "evict_lock"]
    /\ UNCHANGED <<sector, dirty, data, holder, disk, op, opsDone, result, wb>>

\* Mutant: the victim's dirty flag is cleared without block_write.
EvictLockVictimNoFlush(t) ==
    LET e == target[t] IN
    /\ pc[t] = "evict_lock"
    /\ holder[e] = NONE
    /\ ~accessed[e]
    /\ holder' = [holder EXCEPT ![e] = t]
    /\ dirty' = [dirty EXCEPT ![e] = FALSE]
    /\ pc' = [pc EXCEPT ![t] = "fill"]
    /\ UNCHANGED <<sector, accessed, data, disk, op, target, opsDone, result, wb>>

\* With block_lock held the victim is still not accessed: write it back
\* if dirty and return it, still locked.
EvictLockVictim(t) ==
    LET e == target[t] IN
    /\ pc[t] = "evict_lock"
    /\ holder[e] = NONE
    /\ ~accessed[e]
    /\ holder' = [holder EXCEPT ![e] = t]
    /\ disk' = FlushedDisk(e)
    /\ dirty' = [dirty EXCEPT ![e] = FALSE]
    /\ pc' = [pc EXCEPT ![t] = "fill"]
    /\ UNCHANGED <<sector, accessed, data, op, target, opsDone, result, wb>>

\* Someone used the victim meanwhile: release it and call
\* next_cache_entry again.
EvictLockRetry(t) ==
    LET e == target[t] IN
    /\ pc[t] = "evict_lock"
    /\ holder[e] = NONE
    /\ accessed[e]
    /\ pc' = [pc EXCEPT ![t] = "evict_scan"]
    /\ UNCHANGED <<sector, dirty, accessed, data, holder, disk, op, target,
                   opsDone, result, wb>>

\* find_cache_entry, miss path: claim the victim for the sector and read it.
Fill(t) ==
    LET e == target[t] IN
    /\ pc[t] = "fill"
    /\ sector' = [sector EXCEPT ![e] = op[t].sec]
    /\ data' = [data EXCEPT ![e] = disk[op[t].sec]]
    /\ pc' = [pc EXCEPT ![t] = "op"]
    /\ UNCHANGED <<dirty, accessed, holder, disk, op, target, opsDone, result, wb>>

(***************************************************************************)
(* The body of cache_read, cache_write and cache_zero, with block_lock of  *)
(* the found entry held; each ends by releasing it.                        *)
(***************************************************************************)
Release(t) ==
    /\ holder' = [holder EXCEPT ![target[t]] = NONE]
    /\ pc' = [pc EXCEPT ![t] = "idle"]

CacheRead(t) ==
    LET e == target[t] IN
    /\ pc[t] = "op" /\ op[t].kind = "read"
    /\ accessed' = [accessed EXCEPT ![e] = TRUE]
    /\ result' = [result EXCEPT ![t] = data[e]]
    /\ Release(t)
    /\ UNCHANGED <<sector, dirty, data, disk, op, target, opsDone, wb>>

CacheWrite(t) ==
    LET e == target[t] IN
    /\ pc[t] = "op" /\ op[t].kind = "write"
    /\ dirty' = [dirty EXCEPT ![e] = TRUE]
    /\ accessed' = [accessed EXCEPT ![e] = TRUE]
    /\ data' = [data EXCEPT ![e] = op[t].val]
    /\ Release(t)
    /\ UNCHANGED <<sector, disk, op, target, opsDone, result, wb>>

CacheZero(t) ==
    LET e == target[t] IN
    /\ pc[t] = "op" /\ op[t].kind = "zero"
    /\ data' = [data EXCEPT ![e] = Zero]
    /\ dirty' = [dirty EXCEPT ![e] = TRUE]
    /\ accessed' = [accessed EXCEPT ![e] = TRUE]
    /\ Release(t)
    /\ UNCHANGED <<sector, disk, op, target, opsDone, result, wb>>

(***************************************************************************)
(* write_behind: timer_sleep, then cache_save, which takes each entry's    *)
(* block_lock in turn and writes the entry back if dirty.  cache_save      *)
(* changes only dirty and the disk, which no lock-free scan reads, so      *)
(* taking the lock, writing and releasing is one step per entry.           *)
(***************************************************************************)
WriteBehindWake ==
    /\ wb = 0
    /\ wb' = 1
    /\ UNCHANGED <<sector, dirty, accessed, data, holder, disk, pc, op, target,
                   opsDone, result>>

CacheSave ==
    /\ wb # 0
    /\ holder[wb] = NONE
    /\ disk' = FlushedDisk(wb)
    /\ dirty' = [dirty EXCEPT ![wb] = FALSE]
    /\ wb' = IF wb = NumEntries THEN 0 ELSE wb + 1
    /\ UNCHANGED <<sector, accessed, data, holder, pc, op, target, opsDone, result>>

\* The steps of a request once issued.
Serve(t) ==
    \/ FindScan(t) \/ FindLockHit(t) \/ FindLockStale(t)
    \/ EvictScan(t) \/ EvictLockVictim(t) \/ EvictLockRetry(t) \/ Fill(t)
    \/ CacheRead(t) \/ CacheWrite(t) \/ CacheZero(t)

WriteBehind == WriteBehindWake \/ CacheSave

Next ==
    \/ \E t \in Threads : Request(t) \/ Serve(t)
    \/ WriteBehind

(***************************************************************************)
(* Pintos threads are preempted by the timer and every lock waiter is      *)
(* eventually woken, so a thread that can go on eventually does; issuing a *)
(* request is up to the caller and is not fair.  The write-behind thread   *)
(* runs forever.                                                           *)
(***************************************************************************)
Fairness ==
    /\ \A t \in Threads : WF_vars(Serve(t))
    /\ WF_vars(WriteBehind)

Spec == Init /\ [][Next]_vars /\ Fairness

-----------------------------------------------------------------------------
(***************************************************************************)
(* Properties.                                                             *)
(***************************************************************************)

\* Spec section 3: a resident cache entry is the exclusive in-memory copy
\* of its sector.  find_cache_entry's miss path scans, releases
\* buffer_lock, and only later sets the victim's sector, so two misses on
\* one sector can each claim an entry.
UniqueResidency ==
    \A e, f \in Entries :
        e # f /\ sector[e] # NONE => sector[e] # sector[f]

\* Dirty data leaves an entry only by being written to the device: when
\* cache_save or next_cache_entry clears an entry's dirty flag, or the
\* entry is given to another sector, the device holds the entry's data.
NoDirtyDataDropped ==
    [][\A e \in Entries :
          dirty[e] /\ (~dirty'[e] \/ sector'[e] # sector[e])
          => disk'[sector[e]] = data[e]]_vars

\* Every request a client issues returns: the restarts of
\* find_cache_entry and next_cache_entry do not go on forever and no
\* block_lock is left held.
RequestsComplete ==
    \A t \in Threads : pc[t] # "idle" ~> pc[t] = "idle"

\* The contents of each sector as the cache presents it: the resident
\* entry's data, or the device's.
LogicalStore ==
    [s \in Sectors |->
        IF \E e \in Entries : sector[e] = s
          THEN data[CHOOSE e \in Entries : sector[e] = s]
          ELSE disk[s]]

\* The request a client is serving, until it returns.
PendingRequest == [t \in Threads |-> IF pc[t] = "idle" THEN NONE ELSE op[t]]

Store == INSTANCE SectorStore
         WITH store <- LogicalStore, result <- result, pending <- PendingRequest

\* Spec section 5: reads and writes through the cache are linearizable at
\* sector granularity: the cache implements SectorStore.
LinearizableSectors == Store!Spec
=============================================================================

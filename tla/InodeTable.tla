----------------------------- MODULE InodeTable -----------------------------
(***************************************************************************)
(* The table of open inodes of src/file-system/filesys/inode.c, shared by  *)
(* every thread: inode_open scans open_inodes and either reopens the inode *)
(* it finds or mallocs, pushes and initializes a new one; inode_reopen,    *)
(* inode_close and inode_remove run under the inode's lock.  open_inodes   *)
(* itself has no lock, and the kernel preempts threads at any instruction. *)
(*                                                                         *)
(* open_inodes is the doubly-linked list of lib/kernel/list.c: a head and  *)
(* a tail node and the elem of each listed inode, joined by next and prev  *)
(* pointers.  Each statement of list_insert (reached from list_push_front) *)
(* and of list_remove is one step, and so is each iteration of the scan,   *)
(* so the list operations of different threads interleave as in the code.  *)
(*                                                                         *)
(* An inode is a block of heap memory from Ids.  malloc may return a block *)
(* that an earlier inode_close freed, and until inode_open writes them the *)
(* block's fields hold what was last written there: a freed inode's sector *)
(* and list pointers, or, for a block never used, any sector.  Touching a  *)
(* freed block is undefined behaviour; it sets uaf and nothing runs        *)
(* afterwards.  The on-disk contents (cache_read of inode->data) belong to *)
(* InodeFile.                                                              *)
(***************************************************************************)
EXTENDS Integers, FiniteSets, Functions

CONSTANTS
    Threads,
    Sectors,     \* inode sectors of existing files
    Ids,         \* heap blocks malloc can return for a struct inode
    Head, Tail,  \* open_inodes.head and open_inodes.tail
    MaxOps,      \* bound on calls started
    NONE

Nodes == Ids \cup {Head, Tail}

VARIABLES
    next, prev,  \* the list_elem pointers of every node
    ino,         \* ino[i]: [sector, cnt, removed, alive] of block i
    lk,          \* lk[i]: the holder of inode i's lock, or NONE
    pc,          \* pc[t]: "idle" or the next step of t's call
    want,        \* want[t]: the sector t is opening
    e,           \* e[t]: the scan's cursor, then the inode t opens or closes
    before,      \* before[t]: list_insert's BEFORE, read by list_begin
    held,        \* held[t][i]: references to block i that t holds
    released,    \* released[s]: times free_map_release(s) ran
    uaf,         \* a freed block was touched
    ops

vars == <<next, prev, ino, lk, pc, want, e, before, held, released, uaf, ops>>

Inodes == [sector : Sectors, cnt : Int, removed : BOOLEAN, alive : BOOLEAN]

Steps == {"idle", "scan", "next", "reopen", "alloc", "ins", "link", "back",
          "init", "unlink", "relink", "free"}

TypeOK ==
    /\ next \in [Nodes -> Nodes] /\ prev \in [Nodes -> Nodes]
    /\ ino \in [Ids -> Inodes]
    /\ lk \in [Ids -> Threads \cup {NONE}]
    /\ pc \in [Threads -> Steps]
    /\ want \in [Threads -> Sectors \cup {NONE}]
    /\ e \in [Threads -> Nodes \cup {NONE}]
    /\ before \in [Threads -> Nodes \cup {NONE}]
    /\ held \in [Threads -> [Ids -> Nat]]
    /\ released \in [Sectors -> Nat]
    /\ uaf \in BOOLEAN
    /\ ops \in 0..MaxOps

\* inode_init's list_init: head and tail point at each other.  Every block
\* starts free, with whatever sector its memory holds; its list pointers
\* are written by list_insert before any thread can reach it.
Init ==
    /\ next = [n \in Nodes |-> Tail] /\ prev = [n \in Nodes |-> Head]
    /\ ino \in [Ids -> [sector : Sectors, cnt : {0}, removed : {FALSE}, alive : {FALSE}]]
    /\ lk = [i \in Ids |-> NONE]
    /\ pc = [t \in Threads |-> "idle"]
    /\ want = [t \in Threads |-> NONE]
    /\ e = [t \in Threads |-> NONE]
    /\ before = [t \in Threads |-> NONE]
    /\ held = [t \in Threads |-> [i \in Ids |-> 0]]
    /\ released = [s \in Sectors |-> 0]
    /\ uaf = FALSE
    /\ ops = 0

Start(t) == ~uaf /\ pc[t] = "idle" /\ ops < MaxOps /\ ops' = ops + 1

\* A step that reads or writes the nodes ns touches freed memory when one
\* of them is a freed block.
Touch(ns) == uaf' = \E n \in ns \cap Ids : ~ino[n].alive

Goto(t, s) == pc' = [pc EXCEPT ![t] = s]

\* lock_acquire of inode i: free, or in freed memory (then Touch sets uaf).
Lockable(i) == lk[i] = NONE \/ ~ino[i].alive

-----------------------------------------------------------------------------
\* inode_open(s) up to list_begin: the cursor is head.next.  A sector
\* whose file was released is no longer named by a directory entry.
OpenScan(t, s) ==
    /\ Start(t) /\ released[s] = 0
    /\ want' = [want EXCEPT ![t] = s]
    /\ e' = [e EXCEPT ![t] = next[Head]]
    /\ Goto(t, "scan")
    /\ UNCHANGED <<next, prev, ino, lk, before, held, released, uaf>>

\* One test of the loop: at the tail the scan missed; otherwise the
\* cursor's inode->sector is compared with the sector wanted.
ScanCmp(t) ==
    LET c == e[t] IN
    /\ ~uaf /\ pc[t] = "scan"
    /\ IF c = Tail
         THEN Goto(t, "alloc") /\ UNCHANGED uaf
         ELSE Touch({c}) /\ Goto(t, IF ino[c].sector = want[t] THEN "reopen" ELSE "next")
    /\ UNCHANGED <<next, prev, ino, lk, want, e, before, held, released, ops>>

\* list_next: the cursor moves to its elem's next.
ScanNext(t) ==
    /\ ~uaf /\ pc[t] = "next"
    /\ Touch({e[t]})
    /\ e' = [e EXCEPT ![t] = next[e[t]]]
    /\ Goto(t, "scan")
    /\ UNCHANGED <<next, prev, ino, lk, want, before, held, released, ops>>

\* inode_reopen of the inode the scan found: open_cnt++ under its lock, on
\* a block that may have been freed, or handed to another inode, since.
OpenReopen(t) ==
    LET i == e[t] IN
    /\ ~uaf /\ pc[t] = "reopen" /\ Lockable(i)
    /\ Touch({i})
    /\ ino' = [ino EXCEPT ![i].cnt = @ + 1]
    /\ held' = [held EXCEPT ![t][i] = @ + 1]
    /\ Goto(t, "idle")
    /\ UNCHANGED <<next, prev, lk, want, e, before, released, ops>>

\* malloc, then list_push_front's list_begin (before = head.next).  malloc
\* returning NULL makes inode_open return NULL.
OpenAlloc(t) ==
    /\ ~uaf /\ pc[t] = "alloc"
    /\ IF \E i \in Ids : ~ino[i].alive
         THEN \E i \in {j \in Ids : ~ino[j].alive} :
                /\ ino' = [ino EXCEPT ![i].alive = TRUE]
                /\ e' = [e EXCEPT ![t] = i]
                /\ before' = [before EXCEPT ![t] = next[Head]]
                /\ Goto(t, "ins")
         ELSE Goto(t, "idle") /\ UNCHANGED <<ino, e, before>>
    /\ UNCHANGED <<next, prev, lk, want, held, released, uaf, ops>>

\* list_insert: elem->prev = before->prev; elem->next = before.  The
\* second writes only the new block, which no thread has reached yet.
PushIns(t) ==
    LET b == before[t] IN
    /\ ~uaf /\ pc[t] = "ins"
    /\ Touch({b})
    /\ prev' = [prev EXCEPT ![e[t]] = prev[b]]
    /\ next' = [next EXCEPT ![e[t]] = b]
    /\ Goto(t, "link")
    /\ UNCHANGED <<ino, lk, want, e, before, held, released, ops>>

\* list_insert: before->prev->next = elem.
PushLink(t) ==
    LET b == before[t] IN
    /\ ~uaf /\ pc[t] = "link"
    /\ Touch({b, prev[b]})
    /\ next' = [next EXCEPT ![prev[b]] = e[t]]
    /\ Goto(t, "back")
    /\ UNCHANGED <<prev, ino, lk, want, e, before, held, released, ops>>

\* list_insert: before->prev = elem.
PushBack(t) ==
    LET b == before[t] IN
    /\ ~uaf /\ pc[t] = "back"
    /\ Touch({b})
    /\ prev' = [prev EXCEPT ![b] = e[t]]
    /\ Goto(t, "init")
    /\ UNCHANGED <<next, ino, lk, want, e, before, held, released, ops>>

\* The initialization after the push: sector, open_cnt = 1,
\* deny_write_cnt, removed and lock_init, on a block another thread may
\* have reopened, or closed and freed, in between.
OpenInit(t) ==
    LET i == e[t] IN
    /\ ~uaf /\ pc[t] = "init"
    /\ Touch({i})
    /\ ino' = [ino EXCEPT ![i] = [sector |-> want[t], cnt |-> 1, removed |-> FALSE, alive |-> @.alive]]
    /\ lk' = [lk EXCEPT ![i] = NONE]
    /\ held' = [held EXCEPT ![t][i] = @ + 1]
    /\ Goto(t, "idle")
    /\ UNCHANGED <<next, prev, want, e, before, released, ops>>

\* inode_reopen by a caller that holds a reference (file_reopen).
InodeReopen(t, i) ==
    /\ Start(t) /\ held[t][i] > 0 /\ Lockable(i)
    /\ Touch({i})
    /\ ino' = [ino EXCEPT ![i].cnt = @ + 1]
    /\ held' = [held EXCEPT ![t][i] = @ + 1]
    /\ UNCHANGED <<next, prev, lk, pc, want, e, before, released>>

\* Mutant: inode_close with no check that the caller still holds the inode.
CloseUnheld(t, i) ==
    LET last == ino[i].cnt = 1 IN
    /\ Start(t) /\ Lockable(i)
    /\ Touch({i})
    /\ held' = [held EXCEPT ![t][i] = @ - 1]
    /\ ino' = [ino EXCEPT ![i].cnt = @ - 1]
    /\ IF last
         THEN lk' = [lk EXCEPT ![i] = t] /\ e' = [e EXCEPT ![t] = i] /\ Goto(t, "unlink")
         ELSE UNCHANGED <<lk, e, pc>>
    /\ UNCHANGED <<next, prev, want, before, released>>

\* inode_close: lock_acquire and --open_cnt; unless it reached zero, the
\* lock is released and the call returns.  At zero the lock stays held
\* through list_remove, the release and free.
InodeClose(t, i) ==
    LET last == ino[i].cnt = 1 IN
    /\ Start(t) /\ held[t][i] > 0 /\ Lockable(i)
    /\ Touch({i})
    /\ held' = [held EXCEPT ![t][i] = @ - 1]
    /\ ino' = [ino EXCEPT ![i].cnt = @ - 1]
    /\ IF last
         THEN lk' = [lk EXCEPT ![i] = t] /\ e' = [e EXCEPT ![t] = i] /\ Goto(t, "unlink")
         ELSE UNCHANGED <<lk, e, pc>>
    /\ UNCHANGED <<next, prev, want, before, released>>

\* list_remove: elem->prev->next = elem->next.
CloseUnlink(t) ==
    LET x == e[t] IN
    /\ ~uaf /\ pc[t] = "unlink"
    /\ Touch({x, prev[x]})
    /\ next' = [next EXCEPT ![prev[x]] = next[x]]
    /\ Goto(t, "relink")
    /\ UNCHANGED <<prev, ino, lk, want, e, before, held, released, ops>>

\* list_remove: elem->next->prev = elem->prev.
CloseRelink(t) ==
    LET x == e[t] IN
    /\ ~uaf /\ pc[t] = "relink"
    /\ Touch({x, next[x]})
    /\ prev' = [prev EXCEPT ![next[x]] = prev[x]]
    /\ Goto(t, "free")
    /\ UNCHANGED <<next, ino, lk, want, e, before, held, released, ops>>

\* The release of a removed inode's sectors (free_map_release of the inode
\* sector stands for them all), lock_release and free.
CloseFree(t) ==
    LET x == e[t] IN
    /\ ~uaf /\ pc[t] = "free"
    /\ Touch({x})
    /\ released' = IF ino[x].removed
                   THEN [released EXCEPT ![ino[x].sector] = @ + 1] ELSE released
    /\ ino' = [ino EXCEPT ![x].alive = FALSE]
    /\ lk' = [lk EXCEPT ![x] = NONE]
    /\ Goto(t, "idle")
    /\ UNCHANGED <<next, prev, want, e, before, held, ops>>

\* inode_remove: removed = true under the lock.
InodeRemove(t, i) ==
    /\ Start(t) /\ held[t][i] > 0 /\ Lockable(i)
    /\ Touch({i})
    /\ ino' = [ino EXCEPT ![i].removed = TRUE]
    /\ UNCHANGED <<next, prev, lk, pc, want, e, before, held, released>>

Next ==
    \E t \in Threads :
        \/ ScanCmp(t) \/ ScanNext(t) \/ OpenReopen(t)
        \/ OpenAlloc(t) \/ PushIns(t) \/ PushLink(t) \/ PushBack(t) \/ OpenInit(t)
        \/ CloseUnlink(t) \/ CloseRelink(t) \/ CloseFree(t)
        \/ \E s \in Sectors : OpenScan(t, s)
        \/ \E i \in Ids : InodeReopen(t, i) \/ InodeClose(t, i) \/ InodeRemove(t, i)

Spec == Init /\ [][Next]_vars

-----------------------------------------------------------------------------
Live == {i \in Ids : ino[i].alive}

\* The node reached from n by k list_next steps.
RECURSIVE Hop(_, _)
Hop(n, k) == IF k = 0 THEN n ELSE next[Hop(n, k - 1)]

\* The nodes a walk from n passes before it reaches the tail or a freed
\* block, where a scan would stop or fault.
Stop(n) == n = Tail \/ (n \in Ids /\ ~ino[n].alive)
Walk(n) == {Hop(n, k) : k \in {j \in 0 .. Cardinality(Ids) :
                                  \A m \in 0 .. j - 1 : ~Stop(Hop(n, m))}}

\* No thread is between malloc and the end of list_insert, or between
\* list_remove and free.
ListQuiet == \A t \in Threads : pc[t] \notin {"ins", "link", "back", "unlink", "relink", "free"}

\* inode_open's loop ends: from the head, and from every scanning thread's
\* cursor, following next reaches the tail (or a freed block, where the
\* scan faults) within as many hops as there are blocks.  Unlocked,
\* interleaved list_push_front and list_remove calls must never link the
\* live inodes into a cycle.
ScanEnds ==
    ~uaf => \A n \in {Head} \cup {e[t] : t \in {u \in Threads : pc[u] \in {"scan", "next"}}} :
                \E k \in 0 .. Cardinality(Ids) + 1 : Stop(Hop(n, k))

\* Whenever no list operation is in progress, walking open_inodes from the
\* head visits exactly the live inodes: every inode inode_open pushed is
\* found by later scans until inode_close removes it, and nothing freed is
\* left listed.
ListedIffLive ==
    ~uaf /\ ListQuiet => Walk(Head) \ {Head, Tail} = Live

\* open_cnt of every live inode is the number of references threads hold
\* to it: inode_reopen and inode_close must change it in step with their
\* callers, and the last close must free exactly the inode nobody holds.
RefsCounted ==
    ~uaf => \A i \in Ids :
        ino[i].alive =>
            ino[i].cnt = SumFunction([t \in Threads |-> held[t][i]])

\* At most one live inode per sector (the spec's requirement that opening
\* an open file returns the same struct inode): inode_open's scan and its
\* list_push_front are not atomic.
OpenUnique ==
    LET opened == Live \ {e[t] : t \in {u \in Threads : pc[u] \in {"ins", "link", "back", "init"}}}
    IN  \A i, j \in opened : ino[i].sector = ino[j].sector => i = j

\* No thread touches a freed struct inode: inode_open's inode_reopen of the
\* inode its unlocked scan found races the last inode_close.
NoUseAfterFree == ~uaf

\* The inode inode_open returns is one of the sector it was asked for:
\* a block freed after the scan and malloc'd again for another sector is
\* reopened as if it were the one found.
OpenGivesSector ==
    [][\A t \in Threads :
         pc[t] = "reopen" /\ pc'[t] = "idle" => ino'[e[t]].sector = want[t]]_vars
=============================================================================

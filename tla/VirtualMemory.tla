--------------------------- MODULE VirtualMemory ---------------------------
(***************************************************************************)
(* The frame table, the supplemental page tables and swap of the VM       *)
(* project: src/virtual-memory/vm/frame.c, page.c and swap.c, driven by    *)
(* user processes that touch their pages, fault, mmap and munmap a file    *)
(* page, and exit.                                                         *)
(*                                                                         *)
(* A page fault runs page_fetch, which calls frame_alloc.  Its steps are   *)
(* the stretches between the points where another process can run:        *)
(*   FaultBegin   page_fetch's decisions and get_next_frame's unlocked     *)
(*                read of fail_on_next;                                    *)
(*   Take         the first pass of get_next_frame, under the lock;        *)
(*   Clock        frame_clock, under the lock;                             *)
(*   Evict        evict_frame: swap_out and page_set_swap;                 *)
(*   Install      the rest of frame_alloc, page_set_frame and              *)
(*                page_write_data.                                         *)
(* A kernel NULL dereference or a failed assertion sets panic, after which *)
(* nothing runs.  Page contents are values; the page directory of each    *)
(* process is pagedir, with the accessed and dirty bits the MMU sets.     *)
(* Every page is writable (load_segment, which maps read-only pages, is   *)
(* not under src/), each mmap'd file is one page long, and a fault on a   *)
(* page not in the table is a stack-growth fault: a fault outside the     *)
(* stack window ends the process, which is Exit.                          *)
(***************************************************************************)
EXTENDS Naturals, Sequences, FiniteSets

CONSTANTS
    Procs,       \* user processes (one thread each)
    UPages,      \* user page addresses
    NumFrames,   \* frames drained from the user pool by frame_init
    NumSlots,    \* swap slots on the swap device
    Files,       \* one-page files that can be mmap'd
    Values,      \* values a process writes to a page
    Zero,        \* an all-zero page
    Junk,        \* a page of whatever the frame held before
    MaxCalls,    \* bound on user steps (accesses, faults, mmap, munmap, exit)
    NONE

Frames == 1..NumFrames
Slots == 1..NumSlots
Data == Values \cup {Zero, Junk}

\* struct page.
SupPages == [active : BOOLEAN, frame : Frames \cup {NONE}, file : Files \cup {NONE},
             ss : Slots \cup {NONE}]

\* struct frame: the owner's page directory and user page.
FrameEntries == [pd : Procs \cup {NONE}, upage : UPages \cup {NONE}]

VARIABLES
    frame,        \* frame[f]: [pd, upage] of struct frame (NONE, NONE when unowned)
    nextFrame,    \* next_frame, the first-pass hand
    failOnNext,   \* get_next_frame's static fail_on_next
    fdata,        \* fdata[f]: the contents of frame f
    pagedir,      \* pagedir[p][u]: the frame p's page directory maps u to, or NONE
    accessed,     \* accessed[p][u]: the PTE's accessed bit
    dirty,        \* dirty[p][u]: the PTE's dirty bit
    spt,          \* spt[p][u]: p's struct page for u, or NONE
    freeSlots,    \* swap_unoccupied, front first
    nextSlot,     \* next_sector / SWAP_SLOT_NUM_SECTORS + 1
    sdata,        \* sdata[s]: the contents of swap slot s
    fileData,     \* fileData[x]: the contents of file x on disk
    pc,           \* pc[p]: where p's page fault is
    fault,        \* fault[p]: the page p faults on
    target,       \* target[p]: the frame get_next_frame returns to p
    panic,        \* the kernel has crashed
    calls,
    \* history, used only by the properties:
    expect,       \* expect[p][u]: what p last wrote to u (file contents for mmap)
    takes         \* takes[f]: times the first pass of get_next_frame returned f

vars == <<frame, nextFrame, failOnNext, fdata, pagedir, accessed, dirty, spt,
          freeSlots, nextSlot, sdata, fileData, pc, fault, target, panic, calls,
          expect, takes>>

Pcs == {"idle", "take", "clock", "evict", "carve", "pop", "install", "dead"}

TypeOK ==
    /\ frame \in [Frames -> FrameEntries]
    /\ nextFrame \in Frames /\ failOnNext \in BOOLEAN
    /\ fdata \in [Frames -> Data]
    /\ pagedir \in [Procs -> [UPages -> Frames \cup {NONE}]]
    /\ accessed \in [Procs -> [UPages -> BOOLEAN]]
    /\ dirty \in [Procs -> [UPages -> BOOLEAN]]
    /\ spt \in [Procs -> [UPages -> SupPages \cup {NONE}]]
    /\ freeSlots \in Seq(Slots) /\ nextSlot \in 1..NumSlots + 2
    /\ sdata \in [Slots -> Data \cup {NONE}]
    /\ fileData \in [Files -> Data]
    /\ pc \in [Procs -> Pcs]
    /\ fault \in [Procs -> UPages \cup {NONE}]
    /\ target \in [Procs -> Frames \cup {NONE}]
    /\ panic \in BOOLEAN
    /\ calls \in 0..MaxCalls
    /\ expect \in [Procs -> [UPages -> Data \cup {NONE}]]
    /\ takes \in [Frames -> Nat]

\* swap_init: both slot lists empty, next_sector at the start of the device.
SwapInit ==
    /\ freeSlots = <<>> /\ nextSlot = 1
    /\ sdata = [s \in Slots |-> NONE]

\* frame_init drains the user pool: palloc_get_page without PAL_ZERO, so
\* a frame holds zeros or leftovers.
Init ==
    /\ frame = [f \in Frames |-> [pd |-> NONE, upage |-> NONE]]
    /\ nextFrame = 1 /\ failOnNext = FALSE
    /\ fdata \in [Frames -> {Zero, Junk}]
    /\ pagedir = [p \in Procs |-> [u \in UPages |-> NONE]]
    /\ accessed = [p \in Procs |-> [u \in UPages |-> FALSE]]
    /\ dirty = [p \in Procs |-> [u \in UPages |-> FALSE]]
    /\ spt = [p \in Procs |-> [u \in UPages |-> NONE]]
    /\ SwapInit
    /\ fileData \in [Files -> Values]
    /\ pc = [p \in Procs |-> "idle"]
    /\ fault = [p \in Procs |-> NONE]
    /\ target = [p \in Procs |-> NONE]
    /\ panic = FALSE
    /\ calls = 0
    /\ expect = [p \in Procs |-> [u \in UPages |-> NONE]]
    /\ takes = [f \in Frames |-> 0]

Set2(fn, p, u, v) == [fn EXCEPT ![p][u] = v]

-----------------------------------------------------------------------------
(***************************************************************************)
(* Helpers of frame.c, page.c and swap.c.                                  *)
(***************************************************************************)
\* page_alloc's new struct page: inactive, no file, no slot.
NoPage == [active |-> FALSE, frame |-> NONE, file |-> NONE, ss |-> NONE]

\* find_upage: p's struct page for u (the sup-page list searched by upage).
FindUpage(p, u) == spt[p][u]

\* page_in_table.
PageInTable(p, u) == FindUpage(p, u) # NONE

\* find_file: the pages of p mapping file x.
FindFile(p, x) == {u \in UPages : PageInTable(p, u) /\ spt[p][u].file = x}

\* page_set_frame: the page (page_alloc'd when absent) made active in f.
PageSetFrame(pg, f) == [(IF pg = NONE THEN NoPage ELSE pg) EXCEPT !.active = TRUE, !.frame = f]

\* page_write_data: what frame f holds afterwards, read from the file, else
\* swap_in'd from the slot, else left as it is.
PageWriteData(pg, f) ==
    IF pg.file # NONE THEN fileData[pg.file]
    ELSE IF pg.ss # NONE THEN sdata[pg.ss]
    ELSE fdata[f]

\* page_set_swap: the page records the slot and is no longer active.
PageSetSwap(pg, ss) == [pg EXCEPT !.ss = ss, !.active = FALSE]

\* A user step of p: p runs no fault and has not exited.
Call(p) ==
    /\ ~panic /\ pc[p] = "idle"
    /\ calls < MaxCalls /\ calls' = calls + 1

\* pagedir_is_accessed(frame_s->pd, frame_s->upage) for a frame with an owner.
Accessed(f) == frame[f].pd # NONE /\ accessed[frame[f].pd][frame[f].upage]

\* frame_clock: the first frame whose accessed bit is clear, else the last
\* frame of the list.
ClockVictim ==
    IF \E f \in Frames : ~Accessed(f)
    THEN CHOOSE f \in Frames : ~Accessed(f) /\ \A g \in 1..f - 1 : Accessed(g)
    ELSE NumFrames

\* The frames frame_clock examines; pagedir_is_accessed(NULL, ...) of an
\* unowned frame dereferences a NULL page directory.
Scanned == 1..ClockVictim
ClockPanics == \E f \in Scanned : frame[f].pd = NONE

\* The loop clears the accessed bit of every frame it passes over.
ClockAccessed ==
    [p \in Procs |-> [u \in UPages |->
        IF \E f \in Scanned : frame[f].pd = p /\ frame[f].upage = u
        THEN FALSE ELSE accessed[p][u]]]

\* get_slot's tests, made before swap_table_lock is taken: pop a slot from
\* swap_unoccupied, else carve one at next_sector, else NULL.
SlotPath ==
    IF freeSlots # <<>> THEN "pop"
    ELSE IF nextSlot <= NumSlots THEN "carve" ELSE "full"

\* page_write_data's swap_in: the slot goes back on swap_unoccupied; the
\* page keeps its ss pointer.
SwapIn(ss) == Append(freeSlots, ss)

\* frame_free(pd): every frame owned by p becomes unowned.
FrameFree(p) ==
    [f \in Frames |-> IF frame[f].pd = p THEN [pd |-> NONE, upage |-> NONE] ELSE frame[f]]

-----------------------------------------------------------------------------
(***************************************************************************)
(* Actions.                                                                *)
(***************************************************************************)
\* The process reads or writes a page its page directory maps.  The MMU
\* sets the accessed bit, and the dirty bit on a write.
UserRead(p, u) ==
    /\ Call(p) /\ pagedir[p][u] # NONE
    /\ accessed' = Set2(accessed, p, u, TRUE)
    /\ UNCHANGED <<frame, nextFrame, failOnNext, fdata, pagedir, dirty, spt, freeSlots,
                   nextSlot, sdata, fileData, pc, fault, target, panic, expect, takes>>

UserWrite(p, u, v) ==
    /\ Call(p) /\ pagedir[p][u] # NONE
    /\ fdata' = [fdata EXCEPT ![pagedir[p][u]] = v]
    /\ accessed' = Set2(accessed, p, u, TRUE)
    /\ dirty' = Set2(dirty, p, u, TRUE)
    /\ expect' = Set2(expect, p, u, v)
    /\ UNCHANGED <<frame, nextFrame, failOnNext, pagedir, spt, freeSlots, nextSlot, sdata,
                   fileData, pc, fault, target, panic, takes>>

\* page_fetch on a page p's page directory does not map, in its table or a
\* stack-growth address, up to get_next_frame's read of fail_on_next,
\* which it makes without the frame table lock.
FaultBegin(p, u) ==
    /\ Call(p) /\ pagedir[p][u] = NONE
    /\ pc' = [pc EXCEPT ![p] = IF failOnNext THEN "clock" ELSE "take"]
    /\ fault' = [fault EXCEPT ![p] = u]
    /\ UNCHANGED <<frame, nextFrame, failOnNext, fdata, pagedir, accessed, dirty, spt,
                   freeSlots, nextSlot, sdata, fileData, target, panic, expect, takes>>

\* Mutant: get_next_frame wrapping one past the end of the list.
TakeNoWrap(p) ==
    /\ ~panic /\ pc[p] = "take"
    /\ target' = [target EXCEPT ![p] = nextFrame]
    /\ nextFrame' = IF nextFrame > NumFrames THEN 1 ELSE nextFrame + 1
    /\ failOnNext' = (failOnNext \/ nextFrame > NumFrames)
    /\ takes' = [takes EXCEPT ![nextFrame] = @ + 1]
    /\ pc' = [pc EXCEPT ![p] = "install"]
    /\ UNCHANGED <<frame, fdata, pagedir, accessed, dirty, spt, freeSlots, nextSlot, sdata,
                   fileData, fault, panic, calls, expect>>

\* get_next_frame's first pass, under frame_table_lock: take next_frame,
\* advance it, and at the end of the list wrap and set fail_on_next.
Take(p) ==
    /\ ~panic /\ pc[p] = "take"
    /\ target' = [target EXCEPT ![p] = nextFrame]
    /\ nextFrame' = IF nextFrame = NumFrames THEN 1 ELSE nextFrame + 1
    /\ failOnNext' = (failOnNext \/ nextFrame = NumFrames)
    /\ takes' = [takes EXCEPT ![nextFrame] = @ + 1]
    /\ pc' = [pc EXCEPT ![p] = "install"]
    /\ UNCHANGED <<frame, fdata, pagedir, accessed, dirty, spt, freeSlots, nextSlot, sdata,
                   fileData, fault, panic, calls, expect>>

\* frame_clock under frame_table_lock.
Clock(p) ==
    /\ ~panic /\ pc[p] = "clock"
    /\ IF ClockPanics
         THEN panic' = TRUE /\ UNCHANGED <<accessed, pc, target>>
         ELSE /\ accessed' = ClockAccessed
              /\ target' = [target EXCEPT ![p] = ClockVictim]
              /\ pc' = [pc EXCEPT ![p] = "evict"]
              /\ UNCHANGED panic
    /\ UNCHANGED <<frame, nextFrame, failOnNext, fdata, pagedir, dirty, spt, freeSlots,
                   nextSlot, sdata, fileData, fault, calls, expect, takes>>

\* The rest of evict_frame once get_slot has returned slot ss: swap_out's
\* block_write loop (block_write panics on a sector past the end of the
\* device), then page_set_swap on the frame's upage, looked up in the
\* table of the faulting thread (find_upage uses thread_current); a page
\* not found is dereferenced.  The victim's page directory entry is left
\* as it is.
SwapOut(p, ss) ==
    LET v == target[p]
        up == frame[v].upage
    IN
    IF ss > NumSlots \/ up = NONE \/ ~PageInTable(p, up)
    THEN panic' = TRUE /\ UNCHANGED <<sdata, spt, pc>>
    ELSE /\ sdata' = [sdata EXCEPT ![ss] = fdata[v]]
         /\ spt' = Set2(spt, p, up, PageSetSwap(FindUpage(p, up), ss))
         /\ pc' = [pc EXCEPT ![p] = "install"]
         /\ UNCHANGED panic

\* evict_frame, outside frame_table_lock: get_slot's unlocked tests.  A
\* NULL slot (the device is full) is dereferenced by swap_out.
EvictSlot(p) ==
    /\ ~panic /\ pc[p] = "evict"
    /\ IF SlotPath = "full"
         THEN panic' = TRUE /\ UNCHANGED pc
         ELSE pc' = [pc EXCEPT ![p] = SlotPath] /\ UNCHANGED panic
    /\ UNCHANGED <<frame, nextFrame, failOnNext, fdata, pagedir, accessed, dirty, spt,
                   freeSlots, nextSlot, sdata, fileData, fault, target, calls, expect, takes>>

\* get_slot under swap_table_lock, on the path its tests chose.  The carve
\* takes first_sector = next_sector and advances next_sector by a slot,
\* whatever it has become since the test; the pop's list_pop_front asserts
\* that swap_unoccupied is not empty, which another eviction may have made
\* it since the test.  Then SwapOut.
EvictLocked(p) ==
    /\ ~panic /\ pc[p] \in {"carve", "pop"}
    /\ IF pc[p] = "carve"
         THEN /\ nextSlot' = nextSlot + 1
              /\ SwapOut(p, nextSlot)
              /\ UNCHANGED freeSlots
       ELSE IF freeSlots = <<>>
         THEN panic' = TRUE /\ UNCHANGED <<freeSlots, nextSlot, sdata, spt, pc>>
       ELSE /\ freeSlots' = Tail(freeSlots)
            /\ SwapOut(p, Head(freeSlots))
            /\ UNCHANGED nextSlot
    /\ UNCHANGED <<frame, nextFrame, failOnNext, fdata, pagedir, accessed, dirty,
                   fileData, fault, target, calls, expect, takes>>

\* The rest of frame_alloc (pagedir_set_page makes a fresh PTE, the frame
\* records its owner), page_set_frame (creating the page on the
\* stack-growth path) and, for a page that was in the table,
\* page_write_data: read the file, else swap_in, else nothing.
Install(p) ==
    LET f == target[p]
        u == fault[p]
        pg == FindUpage(p, u)
        grow == pg = NONE
    IN
    /\ ~panic /\ pc[p] = "install"
    /\ pagedir' = Set2(pagedir, p, u, f)
    /\ accessed' = Set2(accessed, p, u, FALSE)
    /\ dirty' = Set2(dirty, p, u, FALSE)
    /\ frame' = [frame EXCEPT ![f] = [pd |-> p, upage |-> u]]
    /\ spt' = Set2(spt, p, u, PageSetFrame(pg, f))
    /\ fdata' = IF grow THEN fdata ELSE [fdata EXCEPT ![f] = PageWriteData(pg, f)]
    /\ freeSlots' = IF ~grow /\ pg.file = NONE /\ pg.ss # NONE THEN SwapIn(pg.ss) ELSE freeSlots
    /\ pc' = [pc EXCEPT ![p] = "idle"]
    /\ UNCHANGED <<nextFrame, failOnNext, nextSlot, sdata, fileData, fault, target, panic,
                   calls, expect, takes>>

\* sys_mmap's page_set_file for a one-page file: a new page, not active,
\* backed by the file.  Each struct file comes from its own file_reopen.
Mmap(p, u, x) ==
    /\ Call(p) /\ spt[p][u] = NONE
    /\ \A q \in Procs, w \in UPages : spt[q][w] # NONE => spt[q][w].file # x
    /\ spt' = Set2(spt, p, u, [NoPage EXCEPT !.file = x])
    /\ UNCHANGED <<frame, nextFrame, failOnNext, fdata, pagedir, accessed, dirty, freeSlots,
                   nextSlot, sdata, fileData, pc, fault, target, panic, expect, takes>>

\* sys_munmap's page_unmap(x): a dirty page is written back from the
\* user address, then page_remove drops the page and clears the PTE's
\* present bit (pagedir_clear_page keeps the accessed and dirty bits).
\* The frame keeps its owner.  A dirty bit left from an earlier mapping of
\* the same address makes file_write_at read a page that is not present;
\* the fault handler (not under src/) loads it from the file, so the file
\* is written with what it holds.
Munmap(p, x) ==
    /\ Call(p)
    /\ \E u \in FindFile(p, x) :
        /\ fileData' = IF dirty[p][u] /\ pagedir[p][u] # NONE
                       THEN [fileData EXCEPT ![x] = fdata[pagedir[p][u]]]
                       ELSE fileData
        /\ spt' = Set2(spt, p, u, NONE)
        /\ pagedir' = Set2(pagedir, p, u, NONE)
        /\ expect' = Set2(expect, p, u, NONE)
    /\ UNCHANGED <<frame, nextFrame, failOnNext, fdata, accessed, dirty, freeSlots, nextSlot,
                   sdata, pc, fault, target, panic, takes>>

\* Process exit: frame_free(pd), then the teardown of the page directory
\* and the sup-pages.  The swap slots of swapped-out pages are not freed.
Exit(p) ==
    /\ Call(p)
    /\ frame' = FrameFree(p)
    /\ pagedir' = [pagedir EXCEPT ![p] = [u \in UPages |-> NONE]]
    /\ accessed' = [accessed EXCEPT ![p] = [u \in UPages |-> FALSE]]
    /\ dirty' = [dirty EXCEPT ![p] = [u \in UPages |-> FALSE]]
    /\ spt' = [spt EXCEPT ![p] = [u \in UPages |-> NONE]]
    /\ expect' = [expect EXCEPT ![p] = [u \in UPages |-> NONE]]
    /\ pc' = [pc EXCEPT ![p] = "dead"]
    /\ UNCHANGED <<nextFrame, failOnNext, fdata, freeSlots, nextSlot, sdata, fileData, fault,
                   target, panic, takes>>

Next ==
    \E p \in Procs :
        \/ Take(p) \/ Clock(p) \/ Install(p) \/ Exit(p)
        \/ EvictSlot(p) \/ EvictLocked(p)
        \/ \E u \in UPages :
            \/ UserRead(p, u) \/ FaultBegin(p, u)
            \/ \E v \in Values : UserWrite(p, u, v)
            \/ \E x \in Files : Mmap(p, u, x)
        \/ \E x \in Files : Munmap(p, x)

Spec == Init /\ [][Next]_vars

-----------------------------------------------------------------------------
(***************************************************************************)
(* Properties.                                                             *)
(***************************************************************************)

\* get_next_frame's first pass hands out every frame once; once the hand
\* wraps, every frame handed out comes from frame_clock and is evicted
\* first.  fail_on_next is read before frame_table_lock is taken.
FirstPassOnce == \A f \in Frames : takes[f] <= 1

\* When evict_frame finishes, the page that owned the victim frame is
\* marked swapped out, and its slot holds what the frame held (spec 4.3,
\* step 3: the victim's sup-page records the slot).
EvictSavesVictim ==
    [][\A p \in Procs :
        pc[p] \in {"carve", "pop"} /\ pc'[p] = "install" =>
            LET o == frame[target[p]]
                pg == spt'[o.pd][o.upage]
            IN  /\ o.pd # NONE /\ pg # NONE
                /\ pg.ss # NONE /\ ~pg.active
                /\ sdata'[pg.ss] = fdata[target[p]]]_vars

\* A page a process has written and still maps reads back what it wrote:
\* no other page is ever put in its frame while its mapping stands (spec
\* 4.3, step 3: the victim's mapping is invalidated by eviction).
MappedDataIntact ==
    \A p \in Procs, u \in UPages :
        pagedir[p][u] # NONE /\ expect[p][u] # NONE => fdata[pagedir[p][u]] = expect[p][u]

\* page_fetch's stack-growth path produces a zero page (spec, scenario 5).
StackPagesZeroed ==
    [][\A p \in Procs :
        pc[p] = "install" /\ pc'[p] = "idle" /\ spt[p][fault[p]] = NONE =>
            fdata'[target[p]] = Zero]_vars

\* The kernel never dereferences NULL or fails an assertion in the VM
\* code: a full swap device is reported, not dereferenced (spec 4.5,
\* swap_out fails if the device is full).
NoKernelPanic == ~panic
=============================================================================

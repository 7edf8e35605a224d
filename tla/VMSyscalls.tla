----------------------------- MODULE VMSyscalls -----------------------------
(***************************************************************************)
(* The system call handler of the virtual-memory build,                    *)
(* src/virtual-memory/userprog/syscall.c, as the accesses it makes to user *)
(* memory.  Unlike the user-programs build, is_valid_uaddr calls           *)
(* page_fetch for an address its page directory does not map: a page of   *)
(* the supplemental table is brought in, an address in the stack window of *)
(* the esp passed grows the stack, and anything else fails.  grab_arg      *)
(* passes a NULL esp, so an argument never grows the stack.                *)
(*                                                                         *)
(* A user page is "absent" (no sup-page), "table" (a sup-page whose data   *)
(* is in a file or a swap slot) or "present" (mapped), with the writable   *)
(* bit of its sup-page.  A call is the ordered list of its checks, loads   *)
(* and stores, run one after the other against the page state the earlier *)
(* ones left.  Byte values are left out: a string is its length, chosen    *)
(* per call, and file_read's stores are the addresses it stores to.      *)
(* Which frame page_fetch takes, and the eviction it may cause, belong to *)
(* VirtualMemory; file contents and the fd table to FdTable.               *)
(***************************************************************************)
EXTENDS Naturals, Sequences, SequencesExt

CONSTANTS
    PageSize, UserPages, KernelPages,
    WordSize,     \* sizeof (uint32_t)
    PushGap,      \* the 4 of esp - 4 (PUSH), in bytes of this model
    PushaGap,     \* the 32 of esp - 32 (PUSHA)
    MaxSize,      \* largest size argument the process passes
    EspSet,       \* stack pointers the process traps with (0 is NULL)
    PtrSet,       \* pointer arguments it passes
    Numbers,      \* the system calls the process makes
    MaxCalls,
    NONE

STD_IN == 0
STD_OUT == 1
MIN_USER_FD == 2
Fds == {STD_IN, STD_OUT, MIN_USER_FD}
Statuses == {0, 1}
PhysBase == UserPages * PageSize
UPages == 0 .. UserPages - 1
TopAddr == (UserPages + KernelPages) * PageSize - 1
Addrs == 0 .. TopAddr
Sizes == 0 .. MaxSize
PageStates == {"absent", "table", "present"}

VARIABLES
    page,       \* page[k]: "absent", "table" or "present"
    writable,   \* writable[k]: the sup-page's writable bit
    proc,       \* "running", "exited", "halted", "bad_store", "bad_load"
                \* or "panic" (a failed ASSERT)
    code,       \* exit status, or NONE
    calls

vars == <<page, writable, proc, code, calls>>

TypeOK ==
    /\ page \in [UPages -> PageStates]
    /\ writable \in [UPages -> BOOLEAN]
    /\ \A k \in UPages : writable[k] => page[k] # "absent"
    /\ proc \in {"running", "exited", "halted", "bad_store", "bad_load", "panic"}
    /\ code \in Statuses \cup {-1, NONE}
    /\ calls \in 0 .. MaxCalls

\* Any page table the process can have; a page without a sup-page is not
\* writable.
Init ==
    /\ page \in [UPages -> PageStates]
    /\ writable \in {w \in [UPages -> BOOLEAN] : \A k \in UPages : page[k] = "absent" => ~w[k]}
    /\ proc = "running" /\ code = NONE
    /\ calls = 0

-----------------------------------------------------------------------------
(***************************************************************************)
(* Validation against a page state st = [page, writable, res]; res is     *)
(* "ok" until a check fails ("killed") or an access breaches.              *)
(***************************************************************************)
PageOf(a) == a \div PageSize

\* stack_growth(uaddr, esp).
StackGrowth(a, esp) == a = esp - PushGap \/ a = esp - PushaGap \/ a >= esp

Fail(st) == [st EXCEPT !.res = "killed"]

\* A stack growth that reports success without page_set_frame.
PageFetchGrowUnmapped(st, a, esp, w) ==
    LET k == PageOf(a) IN
    IF a >= PhysBase THEN Fail(st)
    ELSE IF st.page[k] = "absent"
         THEN IF esp # 0 /\ StackGrowth(a, esp)
              THEN [st EXCEPT !.writable[k] = TRUE]
              ELSE Fail(st)
    ELSE IF w /\ ~st.writable[k] THEN Fail(st)
    ELSE IF ~st.writable[k] THEN [st EXCEPT !.res = "panic"]
    ELSE [st EXCEPT !.page[k] = "present"]

\* page_fetch(a, esp, w) for an address its page directory does not map:
\* a page with no sup-page grows the stack when esp is not NULL and a is in
\* its window (frame_alloc, page_set_frame); a sup-page is refused for a
\* write when read-only, and otherwise brought in (page_write_data).  A
\* read-only sup-page fetched for a read goes to page_set_frame(page,
\* kpage, true), whose ASSERT (writable == writable) panics the kernel.
PageFetch(st, a, esp, w) ==
    LET k == PageOf(a) IN
    IF a >= PhysBase THEN Fail(st)
    ELSE IF st.page[k] = "absent"
         THEN IF esp # 0 /\ StackGrowth(a, esp)
              THEN [st EXCEPT !.page[k] = "present", !.writable[k] = TRUE]
              ELSE Fail(st)
    ELSE IF w /\ ~st.writable[k] THEN Fail(st)
    ELSE IF ~st.writable[k] THEN [st EXCEPT !.res = "panic"]
    ELSE [st EXCEPT !.page[k] = "present"]

\* is_valid_uaddr(a, esp, w): the state after it, with res "killed" when it
\* returns false; an unmapped address goes to page_fetch.
IsValidUaddr(st, a, esp, w) ==
    LET k == PageOf(a) IN
    IF a >= PhysBase THEN Fail(st)
    ELSE IF st.page[k] # "present" THEN PageFetch(st, a, esp, w)
    ELSE IF w /\ ~st.writable[k] THEN Fail(st)
    ELSE st

\* One access of a call.  A store must hit a mapped, writable user page;
\* a load above PHYS_BASE reads kernel memory.
Access(st, e) ==
    IF st.res # "ok" THEN st
    ELSE IF e.op = "check" THEN IsValidUaddr(st, e.a, e.esp, e.w)
    ELSE IF e.op = "store"
         THEN IF e.a < PhysBase /\ st.page[PageOf(e.a)] = "present" /\ st.writable[PageOf(e.a)]
              THEN st ELSE [st EXCEPT !.res = "bad_store"]
    ELSE IF e.a < PhysBase THEN st ELSE [st EXCEPT !.res = "bad_load"]

Span(a, n) == [i \in 1 .. n |-> a + i - 1]
Checks(s, esp, w) == [i \in DOMAIN s |-> [op |-> "check", a |-> s[i], esp |-> esp, w |-> w]]
Loads(s) == [i \in DOMAIN s |-> [op |-> "load", a |-> s[i], esp |-> 0, w |-> FALSE]]
Stores(s) == [i \in DOMAIN s |-> [op |-> "store", a |-> s[i], esp |-> 0, w |-> TRUE]]

\* grab_arg: every byte of the word checked with a NULL esp, then loaded.
GrabArg(a) == Checks(Span(a, WordSize), 0, FALSE) \o Loads(Span(a, WordSize))
GrabArgs(esp, n) == FlattenSeq([k \in 1 .. n |-> GrabArg(esp + (k - 1) * WordSize)])

\* The bytes of a string at a whose '\0' is at a + n, which lies in memory.
Str(a, n) == Span(a, n + 1)
StrLens(a) == 0 .. TopAddr - a

Killed(st) ==
    /\ proc' = "exited" /\ code' = st

\* The accesses evs in order, then effect if they all passed; the page
\* state page_fetch leaves stays whatever the call's outcome.
Run(evs, effect) ==
    LET r == FoldLeft(Access, [page |-> page, writable |-> writable, res |-> "ok"], evs) IN
    /\ proc = "running" /\ calls < MaxCalls
    /\ calls' = calls + 1
    /\ page' = r.page /\ writable' = r.writable
    /\ CASE r.res = "ok" -> effect
         [] r.res = "killed" -> Killed(-1)
         [] OTHER -> proc' = r.res /\ UNCHANGED code

Done == UNCHANGED <<proc, code>>

\* fd_to_file: NULL below MIN_USER_FD; for a user fd, NULL or a file.
FdFound(fd) == IF fd < MIN_USER_FD THEN {FALSE} ELSE BOOLEAN
-----------------------------------------------------------------------------
\* One action per case of syscall_handler's switch; esp is the user's
\* stack pointer, and the words there are whatever the process put.

\* SYS_HALT: shutdown_power_off.
SysHalt(esp) == Run(GrabArgs(esp, 1), proc' = "halted" /\ UNCHANGED code)

\* SYS_EXIT: self->status = status; thread_exit.
SysExit(esp) == \E st \in Statuses : Run(GrabArgs(esp, 2), Killed(st))

\* SYS_EXEC: cmd_line checked, then each byte after it checked once the
\* one before has been read and is not '\0'; process_execute copies it.
SysExec(esp) ==
    \E cmd \in PtrSet : \E n \in StrLens(cmd) :
        LET s == Str(cmd, n)
            walk == FlattenSeq([i \in DOMAIN s |->
                        Loads(<<s[i]>>) \o (IF i < Len(s) THEN Checks(<<s[i + 1]>>, esp, FALSE) ELSE <<>>)])
        IN  Run(GrabArgs(esp, 2) \o Checks(<<cmd>>, esp, FALSE) \o walk \o Loads(s), Done)

\* SYS_WAIT: process_wait.
SysWait(esp) == Run(GrabArgs(esp, 2), Done)

\* SYS_CREATE, SYS_REMOVE, SYS_OPEN: the first byte of the name checked;
\* filesys_create, filesys_remove and filesys_open read it to its '\0'.
SysName(esp, nargs) ==
    \E file \in PtrSet : \E n \in StrLens(file) :
        Run(GrabArgs(esp, nargs) \o Checks(<<file>>, esp, FALSE) \o Loads(Str(file, n)), Done)

\* SYS_FILESIZE, SYS_CLOSE: sys_exit(-1) on an fd with no file.
SysFdOrExit(esp) ==
    \E fd \in Fds, found \in BOOLEAN :
        /\ found \in FdFound(fd)
        /\ Run(GrabArgs(esp, 2), IF found THEN Done ELSE Killed(-1))

\* sys_read checking only the first byte of the buffer.
SysReadFirstByte(esp) ==
    \E fd \in Fds, buffer \in PtrSet, size \in Sizes, found \in BOOLEAN :
        /\ found \in FdFound(fd)
        /\ \E n \in 0 .. size :
              LET stored == IF found THEN Span(buffer, n) ELSE <<>>
                  evs == IF fd = STD_OUT THEN <<>>
                         ELSE Checks(<<buffer>>, esp, TRUE) \o Stores(stored)
              IN  Run(GrabArgs(esp, 4) \o evs, IF fd = STD_OUT THEN Killed(-1) ELSE Done)

\* SYS_READ: STD_OUT kills; the first byte of buffer is checked for
\* writing; STD_IN returns input_getc's key; then every byte is checked for
\* writing, and file_read stores up to size bytes when fd has a file.
SysRead(esp) ==
    \E fd \in Fds, buffer \in PtrSet, size \in Sizes, found \in BOOLEAN :
        /\ found \in FdFound(fd)
        /\ \E n \in 0 .. size :
              LET stored == IF found THEN Span(buffer, n) ELSE <<>>
                  evs == IF fd = STD_OUT THEN <<>>
                         ELSE Checks(<<buffer>>, esp, TRUE)
                              \o IF fd = STD_IN THEN <<>>
                                 ELSE Checks(Span(buffer, size), esp, TRUE) \o Stores(stored)
              IN
              Run(GrabArgs(esp, 4) \o evs,
                  IF fd = STD_OUT THEN Killed(-1)
                  ELSE Done)

\* SYS_WRITE: STD_IN kills; buffer and then every byte of it checked;
\* STD_OUT goes to putbuf in chunks of MAX_PUTBUF_LEN, each read from the
\* start of buffer (WriteLoads); otherwise file_write loads up to size
\* bytes when fd has a file.
WriteLoads(fd, buffer, size, n, found) ==
    IF fd = STD_OUT THEN Loads(Span(buffer, size))
    ELSE IF found THEN Loads(Span(buffer, n)) ELSE <<>>

SysWrite(esp) ==
    \E fd \in Fds, buffer \in PtrSet, size \in Sizes, found \in BOOLEAN, n \in 0 .. MaxSize :
        /\ found \in FdFound(fd) /\ n <= size
        /\ Run(GrabArgs(esp, 4)
                \o (IF fd = STD_IN THEN <<>>
                    ELSE Checks(<<buffer>>, esp, FALSE) \o Checks(Span(buffer, size), esp, FALSE)
                         \o WriteLoads(fd, buffer, size, n, found)),
               IF fd = STD_IN THEN Killed(-1) ELSE Done)

\* SYS_SEEK, SYS_TELL, SYS_MUNMAP: only their arguments are grabbed here
\* (nargs words); what they do to the fd table and the sup-pages is
\* FdTable's, and none of them ends the process.
SysArgs(esp, nargs) == Run(GrabArgs(esp, 1 + nargs), Done)

\* SYS_MMAP: -1 for fd 0 or 1 or a NULL or unaligned addr (early); then
\* sys_exit(-1) when fd has no file.
SysMmap(esp) ==
    \E fd \in Fds, found \in BOOLEAN, early \in BOOLEAN :
        /\ found \in FdFound(fd)
        /\ Run(GrabArgs(esp, 3),
               IF fd >= MIN_USER_FD /\ ~early /\ ~found THEN Killed(-1) ELSE Done)

\* An unknown number: thread_exit without setting the status.
SysUnknown(esp) == Run(GrabArgs(esp, 1), proc' = "exited" /\ UNCHANGED code)

\* syscall_handler: a NULL esp kills; otherwise the number word is grabbed
\* and the call it names runs.
SyscallHandler(esp) ==
    IF esp = 0
    THEN /\ proc = "running" /\ calls < MaxCalls /\ calls' = calls + 1
         /\ Killed(-1) /\ UNCHANGED <<page, writable>>
    ELSE \E num \in Numbers :
        CASE num = "halt" -> SysHalt(esp)
          [] num = "exit" -> SysExit(esp)
          [] num = "exec" -> SysExec(esp)
          [] num = "wait" -> SysWait(esp)
          [] num = "create" -> SysName(esp, 3)
          [] num \in {"remove", "open"} -> SysName(esp, 2)
          [] num \in {"filesize", "close"} -> SysFdOrExit(esp)
          [] num = "read" -> SysRead(esp)
          [] num = "write" -> SysWrite(esp)
          [] num \in {"tell", "munmap"} -> SysArgs(esp, 1)
          [] num = "seek" -> SysArgs(esp, 2)
          [] num = "mmap" -> SysMmap(esp)
          [] OTHER -> SysUnknown(esp)

Next == \E esp \in EspSet : SyscallHandler(esp)

Spec == Init /\ [][Next]_vars

-----------------------------------------------------------------------------
\* The kernel stores into user memory only through bytes it has validated
\* for writing: mapped, writable and below PHYS_BASE when the store is
\* made.  sys_read must check every byte of the buffer, with write set,
\* before file_read; page_fetch must refuse a read-only sup-page.
NoUncheckedStore == proc # "bad_store"

\* Validating a user address never brings the kernel down: when
\* is_valid_uaddr sends a read of a read-only sup-page that is not
\* resident to page_fetch, the page must be brought in read-only, not
\* handed to page_set_frame with writable true, whose ASSERT fails.
NoAssertPanic == proc # "panic"
====

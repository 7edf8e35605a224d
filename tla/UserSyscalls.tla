---------------------------- MODULE UserSyscalls ----------------------------
(***************************************************************************)
(* The system-call handler of the user-programs variant,                   *)
(* src/user-programs/userprog/syscall.c: one single-threaded user process  *)
(* traps with a stack pointer and arguments it chooses, and the handler    *)
(* reads them with grab_arg, checks pointers with is_valid_uaddr and then  *)
(* reads or writes user memory.                                            *)
(*                                                                         *)
(* A call is modelled as the ordered list of the accesses the kernel makes *)
(* to user addresses: a "check" (is_valid_uaddr; a failed one ends in      *)
(* sys_exit(-1)) or a "use" (a load or store through the pointer).  A use  *)
(* of an address that is not mapped user memory is a page fault in the    *)
(* kernel, which Pintos's page_fault handler turns into a kernel panic,    *)
(* or, above PHYS_BASE, an access to kernel memory on the user's behalf;   *)
(* either way nothing is modelled afterwards.  Sizes are scaled down: a    *)
(* page is PageSize bytes, a word WordSize bytes and putbuf's chunk        *)
(* MaxPutbuf bytes.  Which files the fd table holds is FdTable's; here     *)
(* fd_to_file's result for a user fd is either NULL or a file.             *)
(***************************************************************************)
EXTENDS Naturals, Sequences, SequencesExt

CONSTANTS
    PageSize, UserPages, KernelPages,
    WordSize,     \* sizeof (uint32_t)
    MaxPutbuf,    \* MAX_PUTBUF_LEN
    MaxSize,      \* largest size argument the process passes
    EspSet,       \* stack pointers the process traps with
    PtrSet,       \* pointer arguments it passes
    Numbers,      \* the system calls the process makes
    MaxCalls,
    NONE

STD_IN == 0
STD_OUT == 1
MIN_USER_FD == 2
Fds == {STD_IN, STD_OUT, MIN_USER_FD}
Statuses == {0, 1}
Bytes == {0, 1}                \* 0 is '\0'
PhysBase == UserPages * PageSize
Addrs == 0 .. (UserPages + KernelPages) * PageSize - 1
Sizes == 0 .. MaxSize

VARIABLES
    mapped,     \* user pages present in the process's page directory
    mem,        \* mem[a]: the byte at address a
    proc,       \* "running", "exited", "halted", or "breach"
    code,       \* exit status, or NONE
    console,    \* bytes putbuf has printed
    written,    \* bytes the process asked sys_write to print
    calls

vars == <<mapped, mem, proc, code, console, written, calls>>

TypeOK ==
    /\ mapped \subseteq 0 .. UserPages - 1
    /\ mem \in [Addrs -> Bytes]
    /\ proc \in {"running", "exited", "halted", "breach"}
    /\ code \in Statuses \cup {-1, NONE}
    /\ console \in Seq(Bytes) /\ written \in Seq(Bytes)
    /\ calls \in 0 .. MaxCalls

\* Any page directory and user memory contents the process can have set
\* up; what lies above PHYS_BASE is never '\0' (a string that reaches it
\* has already been read out of bounds).
Init ==
    /\ mapped \in SUBSET (0 .. UserPages - 1)
    /\ mem \in {m \in [Addrs -> Bytes] : \A a \in Addrs : a >= PhysBase => m[a] = 1}
    /\ proc = "running" /\ code = NONE
    /\ console = <<>> /\ written = <<>>
    /\ calls = 0

\* is_valid_uaddr: below PHYS_BASE and mapped in the page directory.
IsValidUaddr(a) == a < PhysBase /\ a \div PageSize \in mapped

Span(a, n) == [i \in 1 .. n |-> a + i - 1]
Checks(s) == [i \in DOMAIN s |-> [op |-> "check", a |-> s[i]]]
Uses(s) == [i \in DOMAIN s |-> [op |-> "use", a |-> s[i]]]
Contents(s) == [i \in DOMAIN s |-> mem[s[i]]]

\* grab_arg: every byte of the word checked, then the word loaded.
GrabArg(esp) == Checks(Span(esp, WordSize)) \o Uses(Span(esp, WordSize))
GrabArgs(esp, n) == FlattenSeq([k \in 1 .. n |-> GrabArg(esp + (k - 1) * WordSize)])

\* The bytes of the string at a, its '\0' included (cut at the top of memory).
RECURSIVE StrLen(_)
StrLen(a) == IF a \notin Addrs \/ mem[a] = 0 THEN 0 ELSE 1 + StrLen(a + 1)
Str(a) == Span(a, StrLen(a) + 1)

\* The first access that faults, or 0.
FirstBad(evs) == SelectInSeq(evs, LAMBDA e : ~IsValidUaddr(e.a))

Killed(st) ==
    /\ proc' = "exited" /\ code' = st
    /\ UNCHANGED <<mapped, mem, console, written>>

\* The accesses evs, then effect if none of them failed.
Run(evs, effect) ==
    LET k == FirstBad(evs) IN
    /\ proc = "running" /\ calls < MaxCalls
    /\ calls' = calls + 1
    /\ IF k = 0 THEN effect
       ELSE IF evs[k].op = "check" THEN Killed(-1)
       ELSE proc' = "breach" /\ UNCHANGED <<mapped, mem, code, console, written>>

Done == UNCHANGED <<mapped, mem, proc, code, console, written>>

\* fd_to_file: NULL below MIN_USER_FD; for a user fd, NULL or a file.
FdFound(fd) == IF fd < MIN_USER_FD THEN {FALSE} ELSE BOOLEAN

\* putbuf's chunk lengths for a write of size bytes.
RECURSIVE Chunks(_)
Chunks(rem) == IF rem > MaxPutbuf THEN <<MaxPutbuf>> \o Chunks(rem - MaxPutbuf) ELSE <<rem>>

-----------------------------------------------------------------------------
\* One action per case of syscall_handler's switch; esp is the user's
\* stack pointer, and the words there are whatever the process put.

\* SYS_HALT: shutdown_power_off.
SysHalt(esp) ==
    Run(GrabArgs(esp, 1), proc' = "halted" /\ UNCHANGED <<mapped, mem, code, console, written>>)

\* SYS_EXIT: self->status = status; thread_exit.
SysExit(esp) == \E st \in Statuses : Run(GrabArgs(esp, 2), Killed(st))

\* SYS_EXEC: cmd_line checked, then each byte read after it is checked,
\* up to the '\0'; process_execute copies the string.
SysExec(esp) ==
    \E cmd \in PtrSet :
        LET walk == FlattenSeq([i \in DOMAIN Str(cmd) |->
                        Checks(<<Str(cmd)[i]>>) \o Uses(<<Str(cmd)[i]>>)])
        IN  Run(GrabArgs(esp, 2) \o walk \o Uses(Str(cmd)), Done)

\* SYS_WAIT: process_wait.
SysWait(esp) == Run(GrabArgs(esp, 2), Done)

\* SYS_CREATE, SYS_REMOVE, SYS_OPEN: the first byte of the name checked;
\* filesys_create, filesys_remove and filesys_open read it to its '\0'.
\* sys_open's create_fd is FdTable's.
SysCreate(esp) ==
    \E file \in PtrSet : Run(GrabArgs(esp, 3) \o Checks(<<file>>) \o Uses(Str(file)), Done)

SysRemove(esp) ==
    \E file \in PtrSet : Run(GrabArgs(esp, 2) \o Checks(<<file>>) \o Uses(Str(file)), Done)

SysOpen(esp) ==
    \E file \in PtrSet : Run(GrabArgs(esp, 2) \o Checks(<<file>>) \o Uses(Str(file)), Done)

\* SYS_FILESIZE: sys_exit(-1) on an fd with no file.
SysFilesize(esp) ==
    \E fd \in Fds, found \in BOOLEAN :
        /\ found \in FdFound(fd)
        /\ Run(GrabArgs(esp, 2), IF found THEN Done ELSE Killed(-1))

\* SYS_READ: buffer checked at its first byte; STD_OUT kills; STD_IN
\* returns input_getc's key; otherwise file_read stores up to size bytes.
SysRead(esp) ==
    \E fd \in Fds, buffer \in PtrSet, size \in Sizes, found \in BOOLEAN :
        /\ found \in FdFound(fd)
        /\ \E n \in 0 .. size : \E data \in [1 .. n -> Bytes] :
              LET stored == IF found THEN Span(buffer, n) ELSE <<>> IN
              Run(GrabArgs(esp, 4) \o Checks(<<buffer>>) \o Uses(stored),
                  IF fd = STD_OUT THEN Killed(-1)
                  ELSE /\ mem' = [a \in Addrs |->
                                    IF a \in ToSet(stored) THEN data[a - buffer + 1] ELSE mem[a]]
                       /\ UNCHANGED <<mapped, proc, code, console, written>>)

\* SYS_WRITE: every byte of buffer checked; STD_IN kills; STD_OUT goes to
\* putbuf in chunks of MAX_PUTBUF_LEN, each chunk taken from buffer;
\* otherwise file_write loads up to size bytes.
SysWrite(esp) ==
    \E fd \in Fds, buffer \in PtrSet, size \in Sizes, found \in BOOLEAN :
    \E n \in 0 .. size :
        LET chunks == [i \in DOMAIN Chunks(size) |-> Span(buffer, Chunks(size)[i])]
            loaded == IF fd = STD_OUT THEN FlattenSeq(chunks)
                      ELSE IF found THEN Span(buffer, n) ELSE <<>>
        IN
        /\ found \in FdFound(fd)
        /\ Run(GrabArgs(esp, 4) \o Checks(<<buffer>>) \o Checks(Span(buffer, size))
                \o Uses(loaded),
               IF fd = STD_IN THEN Killed(-1)
               ELSE /\ console' = IF fd = STD_OUT THEN console \o Contents(loaded) ELSE console
                    /\ written' = IF fd = STD_OUT
                                  THEN written \o Contents(Span(buffer, size)) ELSE written
                    /\ UNCHANGED <<mapped, mem, proc, code>>)

\* SYS_SEEK, SYS_TELL: nothing to do on an fd with no file.
SysSeek(esp) == Run(GrabArgs(esp, 3), Done)

SysTell(esp) == Run(GrabArgs(esp, 2), Done)

\* SYS_CLOSE: sys_exit(-1) when remove_fd finds no file.
SysClose(esp) ==
    \E fd \in Fds, found \in BOOLEAN :
        /\ found \in FdFound(fd)
        /\ Run(GrabArgs(esp, 2), IF found THEN Done ELSE Killed(-1))

\* SYS_CHDIR, SYS_MKDIR, SYS_READDIR, SYS_ISDIR, SYS_INUMBER: the bodies
\* are empty; only their arguments are grabbed (nargs words).
SysStub(esp, nargs) == Run(GrabArgs(esp, 1 + nargs), Done)

\* default: an unknown number; thread_exit without setting self->status.
SysUnknown(esp) ==
    Run(GrabArgs(esp, 1), proc' = "exited" /\ UNCHANGED <<mapped, mem, code, console, written>>)

\* syscall_handler: the case the number on the stack selects.
SyscallHandler(esp) ==
    \/ "halt" \in Numbers /\ SysHalt(esp)
    \/ "exit" \in Numbers /\ SysExit(esp)
    \/ "exec" \in Numbers /\ SysExec(esp)
    \/ "wait" \in Numbers /\ SysWait(esp)
    \/ "create" \in Numbers /\ SysCreate(esp)
    \/ "remove" \in Numbers /\ SysRemove(esp)
    \/ "open" \in Numbers /\ SysOpen(esp)
    \/ "filesize" \in Numbers /\ SysFilesize(esp)
    \/ "read" \in Numbers /\ SysRead(esp)
    \/ "write" \in Numbers /\ SysWrite(esp)
    \/ "seek" \in Numbers /\ SysSeek(esp)
    \/ "tell" \in Numbers /\ SysTell(esp)
    \/ "close" \in Numbers /\ SysClose(esp)
    \/ "dir" \in Numbers /\ \E nargs \in {1, 2} : SysStub(esp, nargs)
    \/ "unknown" \in Numbers /\ SysUnknown(esp)

Next == \E esp \in EspSet : SyscallHandler(esp)

Spec == Init /\ [][Next]_vars

-----------------------------------------------------------------------------
\* A bad pointer from the process ends the process with exit(-1), never
\* the kernel: every user address a handler loads or stores through has
\* passed is_valid_uaddr (spec, section 7: an unreadable user address
\* terminates the offending process with -1).
NoUncheckedAccess == proc # "breach"

\* What sys_write to STD_OUT prints is the buffer it was given, byte for
\* byte, however many putbuf chunks that takes.
ConsoleEchoesBuffer == console = written
=============================================================================

------------------------------ MODULE FdTable ------------------------------
(***************************************************************************)
(* The file-descriptor table of a user process and the system calls that  *)
(* use it, src/virtual-memory/userprog/syscall.c: the list files_open of   *)
(* struct file_store (fd, file, mapped), with new entries pushed at the    *)
(* front, create_fd, fd_to_file_store, remove_fd, sys_open, sys_close, the *)
(* fd lookup of sys_read/write/seek/tell, sys_mmap and sys_munmap.         *)
(*                                                                         *)
(* A struct file is a handle from Handles, tied to the file name it opens. *)
(* The pages sys_mmap registers (page_set_file) are a map from user page   *)
(* to the handle backing it; their contents belong to VirtualMemory.  The  *)
(* table is per process and only its own thread touches it, so each call  *)
(* is one step.  A call that ends in sys_exit(-1) stops the process.       *)
(***************************************************************************)
EXTENDS Naturals, Sequences, SequencesExt

CONSTANTS
    Names,       \* files on disk
    PagesOf,     \* PagesOf[n]: pages of file n, (file_length + PGSIZE - 1) / PGSIZE
    Handles,     \* struct file objects filesys_open / file_reopen can return
    UPages,      \* user pages 0..k, page-aligned addresses
    FdArgs,      \* fd and mapping arguments passed by the user
    MaxCalls,
    NONE

MinUserFd == 2   \* MIN_USER_FD

VARIABLES
    files,     \* files_open, front first: <<[fd, file, mapped], ...>>
    opened,    \* opened[h]: the name handle h is open on, NONE if not open
    pages,     \* pages[u]: the handle backing mmap'd page u, NONE if none
    used,      \* [fd, file] of the last fd lookup by sys_read/write/seek/tell
    killed,    \* the process ended in sys_exit(-1)
    calls

vars == <<files, opened, pages, used, killed, calls>>

Stores == [fd : Nat, file : Handles, mapped : BOOLEAN]

TypeOK ==
    /\ files \in Seq(Stores)
    /\ opened \in [Handles -> Names \cup {NONE}]
    /\ pages \in [UPages -> Handles \cup {NONE}]
    /\ used \in [fd : FdArgs, file : Handles \cup {NONE}] \cup {NONE}
    /\ killed \in BOOLEAN
    /\ calls \in 0..MaxCalls

Init ==
    /\ files = <<>>
    /\ opened = [h \in Handles |-> NONE]
    /\ pages = [u \in UPages |-> NONE]
    /\ used = NONE
    /\ killed = FALSE
    /\ calls = 0

-----------------------------------------------------------------------------
\* fd_to_file_store: the index in files of the store for fd, 0 for NULL.
\* The loop leaves file_s at the last element when no fd matches.
FdToIndex(fd) ==
    IF fd < MinUserFd \/ files = <<>> THEN 0
    ELSE LET i == SelectInSeq(files, LAMBDA s : s.fd = fd)
         IN  IF i # 0 THEN i ELSE Len(files)

\* Mutant: fd_to_file returning the file_store instead of its file.
FdToFileStore(fd) == IF FdToIndex(fd) = 0 THEN NONE ELSE files[FdToIndex(fd)]

\* fd_to_file.
FdToFile(fd) == IF FdToIndex(fd) = 0 THEN NONE ELSE files[FdToIndex(fd)].file

\* The fd create_fd gives: one more than the fd at the front of the list.
NextFd == IF files = <<>> THEN MinUserFd ELSE Head(files).fd + 1

\* Mutant: create_fd appending at the back (list_push_back).
CreateFdBack(h, mapped) == files \o <<[fd |-> NextFd, file |-> h, mapped |-> mapped]>>

\* create_fd: push a new store at the front.
CreateFd(h, mapped) == <<[fd |-> NextFd, file |-> h, mapped |-> mapped]>> \o files

\* remove_fd: unlink the store fd_to_file_store finds.
RemoveFd(fd) == IF FdToIndex(fd) = 0 THEN files ELSE RemoveAt(files, FdToIndex(fd))

\* A struct file not in use, as filesys_open and file_reopen allocate it.
FreeHandles == {h \in Handles : opened[h] = NONE}

\* page_in_table for the pages sys_mmap would map at addr.
MapPages(addr, n) == {addr + i : i \in 0..PagesOf[n] - 1}

\* mmap addresses: page-aligned, not NULL, with room for every file.
Addrs == {a \in UPages : \A n \in Names : MapPages(a, n) \subseteq UPages}

Call == ~killed /\ calls < MaxCalls /\ calls' = calls + 1

-----------------------------------------------------------------------------
\* sys_open: filesys_open returns a new struct file; create_fd.
SysOpen(n) ==
    /\ Call
    /\ \E h \in FreeHandles :
        /\ opened' = [opened EXCEPT ![h] = n]
        /\ files' = CreateFd(h, FALSE)
    /\ UNCHANGED <<pages, used, killed>>

\* sys_close: remove_fd, and sys_exit(-1) if it finds nothing.  The struct
\* file is not closed.
SysClose(fd) ==
    /\ Call
    /\ IF FdToIndex(fd) = 0
         THEN killed' = TRUE /\ UNCHANGED files
         ELSE files' = RemoveFd(fd) /\ UNCHANGED killed
    /\ UNCHANGED <<opened, pages, used>>

\* sys_read, sys_write, sys_seek, sys_tell on fd >= 2: fd_to_file, then the
\* file operation (or -1 on NULL).
SysUse(fd) ==
    /\ Call
    /\ used' = [fd |-> fd, file |-> FdToFile(fd)]
    /\ UNCHANGED <<files, opened, pages, killed>>

\* sys_mmap: the early returns of -1, sys_exit(-1) for an unknown fd, then
\* file_reopen, page_set_file for every page and create_fd(f, true).
SysMmapFails(fd, addr) ==
    /\ Call
    /\ \/ fd \in {0, 1}
       \/ FdToFile(fd) # NONE /\ PagesOf[opened[FdToFile(fd)]] = 0
       \/ /\ FdToFile(fd) # NONE
          /\ \E u \in MapPages(addr, opened[FdToFile(fd)]) : pages[u] # NONE
       \/ FdToFile(fd) # NONE /\ FreeHandles = {}
    /\ UNCHANGED <<files, opened, pages, used, killed>>

SysMmapKilled(fd, addr) ==
    /\ Call
    /\ fd \notin {0, 1} /\ FdToFile(fd) = NONE
    /\ killed' = TRUE
    /\ UNCHANGED <<files, opened, pages, used>>

\* Mutant: sys_mmap mapping the caller's struct file without file_reopen.
SysMmapNoReopen(fd, addr) ==
    LET f == FdToFile(fd)
        ps == MapPages(addr, opened[f])
    IN
    /\ Call
    /\ fd \notin {0, 1} /\ f # NONE /\ PagesOf[opened[f]] > 0
    /\ \A u \in ps : pages[u] = NONE
    /\ FreeHandles # {}
    /\ pages' = [u \in UPages |-> IF u \in ps THEN f ELSE pages[u]]
    /\ files' = CreateFd(f, TRUE)
    /\ UNCHANGED <<opened, used, killed>>

SysMmap(fd, addr) ==
    LET f == FdToFile(fd)
        ps == MapPages(addr, opened[f])
    IN
    /\ Call
    /\ fd \notin {0, 1} /\ f # NONE /\ PagesOf[opened[f]] > 0
    /\ \A u \in ps : pages[u] = NONE
    /\ \E h \in FreeHandles :
        /\ opened' = [opened EXCEPT ![h] = opened[f]]
        /\ pages' = [u \in UPages |-> IF u \in ps THEN h ELSE pages[u]]
        /\ files' = CreateFd(h, TRUE)
    /\ UNCHANGED <<used, killed>>

\* Mutant: page_unmap removing only the first page it finds.
PageUnmapOne(f) ==
    LET mine == {u \in UPages : pages[u] = f}
    IN  [u \in UPages |-> IF mine # {} /\ \A v \in mine : u <= v THEN NONE ELSE pages[u]]

\* page_unmap: remove every page backed by f (the loop of find_file and
\* page_remove).
PageUnmap(f) == [u \in UPages |-> IF pages[u] = f THEN NONE ELSE pages[u]]

\* sys_munmap: fd_to_file, page_unmap, remove_fd, file_close.
SysMunmap(m) ==
    LET f == FdToFile(m) IN
    /\ Call
    /\ f # NONE
    /\ pages' = PageUnmap(f)
    /\ files' = RemoveFd(m)
    /\ opened' = [opened EXCEPT ![f] = NONE]
    /\ UNCHANGED <<used, killed>>

SysMunmapNone(m) ==
    /\ Call
    /\ FdToFile(m) = NONE
    /\ UNCHANGED <<files, opened, pages, used, killed>>

Next ==
    \/ \E n \in Names : SysOpen(n)
    \/ \E fd \in FdArgs :
        \/ SysClose(fd) \/ SysUse(fd) \/ SysMunmap(fd) \/ SysMunmapNone(fd)
        \/ \E addr \in Addrs :
            SysMmap(fd, addr) \/ SysMmapFails(fd, addr) \/ SysMmapKilled(fd, addr)

Spec == Init /\ [][Next]_vars

-----------------------------------------------------------------------------
(***************************************************************************)
(* Properties.                                                             *)
(***************************************************************************)

\* create_fd never hands out an fd that is in use: new stores go to the
\* front with the front's fd + 1, and removals keep the list descending.
FdsUnique ==
    \A i, j \in DOMAIN files : i # j => files[i].fd # files[j].fd

\* No two stores share a struct file (sys_mmap takes a file_reopen), so
\* closing the file of one never pulls it from under another.
NoSharedHandles ==
    \A i, j \in DOMAIN files : i # j => files[i].file # files[j].file

\* Every store and every mmap'd page refers to a struct file that is still
\* open: sys_munmap removes the pages and the store before file_close.
NoDanglingFile ==
    /\ \A i \in DOMAIN files : opened[files[i].file] # NONE
    /\ \A u \in UPages : pages[u] # NONE => opened[pages[u]] # NONE

\* A lookup by fd returns the file bound to that fd, or nothing (the
\* Pintos bad-fd tests expect -1 or exit(-1) for an fd never opened or
\* already closed).
LookupExact ==
    [][used' # used /\ used'.file # NONE =>
         \E i \in DOMAIN files : files[i].fd = used'.fd /\ files[i].file = used'.file]_vars

\* Every open struct file is reachable from a store or an mmap'd page, so
\* that some call can still close it.
NoLeakedFiles ==
    \A h \in Handles :
        opened[h] # NONE =>
            (\E i \in DOMAIN files : files[i].file = h) \/ (\E u \in UPages : pages[u] = h)
=============================================================================

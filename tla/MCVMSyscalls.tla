---------------------------- MODULE MCVMSyscalls ----------------------------
EXTENDS VMSyscalls

\* Every system call of the virtual-memory build's switch, and one number
\* it does not know.
AllCalls == {"halt", "exit", "exec", "wait", "create", "remove", "open", "filesize",
             "read", "write", "seek", "tell", "close", "mmap", "munmap", "unknown"}
=============================================================================

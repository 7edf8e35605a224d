--------------------------- MODULE MCUserSyscalls ---------------------------
EXTENDS UserSyscalls

\* The system calls whose handlers check every byte they touch.
CheckedCalls ==
    {"halt", "exit", "exec", "wait", "filesize", "write", "seek", "tell",
     "close", "dir", "unknown"}

\* sys_read alone: its buffer is checked at the first byte only.
ReadCalls == {"read"}

\* The calls that take a file name, checked at the first byte only.
NameCalls == {"create", "remove", "open"}

AllCalls == CheckedCalls \cup ReadCalls \cup NameCalls
=============================================================================

---------------------------- MODULE SectorStore ----------------------------
(***************************************************************************)
(* What the buffer cache promises its callers (spec section 5): reads and  *)
(* writes through the cache are linearizable at sector granularity.  The   *)
(* store holds one value per sector.  A thread issues a request, which     *)
(* takes effect atomically at some point before it returns: a read returns *)
(* the value of the last write (or zero-fill) of that sector.  The result  *)
(* of a thread's last read is kept in result[t], so that the refinement    *)
(* checks what reads return as well as what the store holds.              *)
(***************************************************************************)
CONSTANTS Threads, Sectors, Values, Zero, NONE

\* A request: kind, sector, and the value a write stores.
Requests == [kind : {"read", "zero"}, sec : Sectors, val : {Zero}]
            \cup [kind : {"write"}, sec : Sectors, val : Values]

VARIABLES store, result, pending

vars == <<store, result, pending>>

Init ==
    /\ store = [s \in Sectors |-> Zero]
    /\ result = [t \in Threads |-> NONE]
    /\ pending = [t \in Threads |-> NONE]

Issue(t, r) ==
    /\ pending[t] = NONE
    /\ pending' = [pending EXCEPT ![t] = r]
    /\ UNCHANGED <<store, result>>

\* The request of t takes effect and returns.
Perform(t) ==
    LET r == pending[t] IN
    /\ r # NONE
    /\ IF r.kind = "read"
         THEN /\ result' = [result EXCEPT ![t] = store[r.sec]]
              /\ UNCHANGED store
         ELSE /\ store' = [store EXCEPT ![r.sec] = r.val]
              /\ UNCHANGED result
    /\ pending' = [pending EXCEPT ![t] = NONE]

Next == \E t \in Threads : Perform(t) \/ \E r \in Requests : Issue(t, r)

Spec == Init /\ [][Next]_vars
=============================================================================

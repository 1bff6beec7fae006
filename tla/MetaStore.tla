------------------------------ MODULE MetaStore ------------------------------
(***************************************************************************)
(* What the NPKFS metadata area promises to the rest of the kernel.  The   *)
(* disk holds one inode table.  After a commit that reported success it is *)
(* the table of that commit; after commits that failed or were cut short   *)
(* it is the last committed table or one of those attempted since; a mount *)
(* settles which one, and settles it once.                                 *)
(***************************************************************************)
CONSTANTS Tables,   \* the possible inode tables
          EmptyTable,
          NoTable   \* "not mounted"

VARIABLES candidates,  \* the tables the disk may hold
          view,        \* the table in memory
          ret          \* what the last finished operation returned

storeVars == <<candidates, view, ret>>

StoreInit ==
    /\ candidates = {EmptyTable}
    /\ view = NoTable
    /\ ret = "none"

Mount ==
    /\ view = NoTable
    /\ view' \in candidates
    /\ \/ candidates' = {view'}
       \/ view' = EmptyTable /\ UNCHANGED candidates  \* formats, which is a commit
    /\ ret' = "none"

\* An operation changes the table in memory only.
Edit ==
    /\ view # NoTable
    /\ view' \in Tables
    /\ ret' = "none"
    /\ UNCHANGED candidates

\* A commit of the table in memory starts, possibly as the rollback of a
\* commit that failed.
Attempt ==
    /\ view # NoTable
    /\ view' \in Tables
    /\ candidates' = candidates \cup {view'}
    /\ ret' = "none"

Ack ==
    /\ view # NoTable
    /\ candidates' = {view}
    /\ ret' \in {"ok", "eio"}   \* a completed rollback reports the failure
    /\ UNCHANGED view

Fail ==
    /\ view # NoTable
    /\ view' \in Tables
    /\ ret' = "eio"
    /\ UNCHANGED candidates

Stop ==
    /\ view' = NoTable
    /\ ret' = "none"
    /\ UNCHANGED candidates

StoreNext == Mount \/ Edit \/ Attempt \/ Ack \/ Fail \/ Stop

StoreSpec == StoreInit /\ [][StoreNext]_storeVars
=============================================================================

----------------------------- MODULE SharedDirs -----------------------------
(***************************************************************************)
(* What StateTracker and ensure_dir promise of the cpuset directories      *)
(* (core/src/tracker.rs, core/src/backend.rs), without the counters and    *)
(* the cache they keep it with: a directory exists as long as a process is *)
(* registered in it, nobody takes it from those who still are, and it goes *)
(* with the last of them unless a thread is left inside.                   *)
(***************************************************************************)
CONSTANTS
    Users,    \* those who share the directories
    Dirs      \* the directories

VARIABLES
    held,     \* the directories that each user is registered in
    exist,    \* the directories there are
    occupied  \* the directories with a thread inside

vars == <<held, exist, occupied>>

\* The directories that the users in S are the last to hold.
LastHeldBy(S) ==
    {d \in Dirs : (\E u \in S : d \in held[u]) /\ (\A u \in Users \ S : d \notin held[u])}

\* What goes when the users in S do: a directory in use cannot be removed.
Freed(S) == LastHeldBy(S) \ occupied

Init ==
    /\ held = [u \in Users |-> {}]
    /\ exist = {}
    /\ occupied = {}

\* release_state, of one process or of many.
Leave(S) ==
    /\ held' = [u \in Users |-> IF u \in S THEN {} ELSE held[u]]
    /\ exist' = exist \ Freed(S)
    /\ UNCHANGED occupied

\* A scan: u is registered in new directories, in all of them anew if S is
\* {u}, and keeps what it held if S is {}. Others may come to exist too.
Join(u, S, new) ==
    /\ held' = [held EXCEPT ![u] = (IF u \in S THEN {} ELSE @) \cup new]
    /\ exist' \in SUBSET Dirs
    /\ (exist \ Freed(S)) \cup new \subseteq exist'
    /\ occupied' \in SUBSET exist'

\* Threads are created, end and are moved about.
Move == occupied' \in SUBSET exist /\ UNCHANGED <<held, exist>>

\* The daemon starts again: who held what is forgotten, what exists stays.
Forget == held' = [u \in Users |-> {}] /\ UNCHANGED <<exist, occupied>>

Next ==
    \/ \E S \in SUBSET Users : Leave(S)
    \/ \E u \in Users : \E S \in {{}, {u}}, new \in SUBSET Dirs : Join(u, S, new)
    \/ Move
    \/ Forget

Spec == Init /\ [][Next]_vars

=============================================================================

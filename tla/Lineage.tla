------------------------------ MODULE Lineage -------------------------------
(***************************************************************************)
(* ProcessTable with a history variable that remembers what the table       *)
(* itself forgets: whether the process that created a child is still the    *)
(* one in the slot PCB_PARENT names.  exit_process and waitpid leave the    *)
(* PCB_PARENT of a dead process's children alone, and pids are slot         *)
(* numbers, so the next process in that slot becomes their parent.          *)
(***************************************************************************)
EXTENDS ProcessTable

VARIABLE orphans    \* history: slots whose creator has been collected since

lineageVars == <<vars, orphans>>

LineageInit == Init /\ orphans = {}

\* The slots this step takes and frees.
Taken == {c \in Pids : state[c] = "UNUSED" /\ state'[c] # "UNUSED"}
Freed == {c \in Pids : state[c] # "UNUSED" /\ state'[c] = "UNUSED"}

LineageNext ==
    /\ Next
    /\ orphans' = (orphans \cup {c \in Pids : parent[c] \in Freed})
                    \ (Taken \cup Freed)

LineageSpec == LineageInit /\ [][LineageNext]_lineageVars

-----------------------------------------------------------------------------
\* "Check if this is our child" (process.asm 855): the processes waitpid
\* collects are ones the caller created.
CollectsOwnChildren ==
    [][Freed \cap orphans = {}]_lineageVars
=============================================================================

------------------------------ MODULE DurableMap ------------------------------
(***************************************************************************)
(* What a journal promises to those who write to it, stated over all its   *)
(* entities at once: the SharedJournal the components of the live path are *)
(* modelled on, with the versions that were attempted and acknowledged.    *)
(* A write that returned is in the map, and one that did not either is or  *)
(* is not, unless an earlier write was torn: the next one is then lost.    *)
(* Versions number the snapshots of one entity; 0 is an entity never       *)
(* written.                                                                *)
(***************************************************************************)
EXTENDS SharedJournal

CONSTANTS Ids,        \* entities: a (kind, id) pair of the journal
          MaxWrites   \* bound: snapshots attempted per entity

VARIABLES attempted,  \* the last version anyone tried to write
          acked       \* the last version whose write returned

mapVars == <<store, attempted, acked>>

Init ==
    /\ Empty([i \in Ids |-> 0])
    /\ attempted = [i \in Ids |-> 0]
    /\ acked = [i \in Ids |-> 0]

Attempt(i) ==
    /\ attempted[i] < MaxWrites
    /\ attempted' = [attempted EXCEPT ![i] = @ + 1]

Write(i) ==
    /\ Attempt(i)
    /\ Appended(i, attempted[i] + 1)
    /\ acked' = [acked EXCEPT ![i] = attempted[i] + 1]

WriteFails(i) ==
    /\ Attempt(i)
    /\ AppendFails(i, attempted[i] + 1)
    /\ UNCHANGED acked

\* A compaction keeps what a restart would restore, and no unterminated line.
Repair ==
    /\ gap' = FALSE
    /\ kept' = disk
    /\ UNCHANGED <<disk, torn, attempted, acked>>

Next ==
    \/ \E i \in Ids : Write(i) \/ WriteFails(i)
    \/ Repair

Spec == Init /\ [][Next]_mapVars
===============================================================================

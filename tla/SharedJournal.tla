----------------------------- MODULE SharedJournal -----------------------------
(***************************************************************************)
(* store/journal.py as one of the components that write to it sees it:     *)
(* the last snapshot of each of its own entities, in a file it shares with *)
(* the entities of other kinds.                                            *)
(*                                                                         *)
(* An append that does not return may leave a line without its newline,    *)
(* part of the snapshot or all of it.  The next append, of whatever kind,  *)
(* continues that line and is lost with it although it returns.  So what   *)
(* a restart restores (disk) and what it will still restore after the next *)
(* append (kept) differ while such a line is open.                         *)
(***************************************************************************)
EXTENDS Naturals

VARIABLES disk,  \* the snapshot a restart restores, per entity
          kept,  \* the snapshot that survives the next append, per entity
          gap,   \* whether the last line of the file lacks its newline
          torn   \* history: appends that left such a line

store == <<disk, kept, gap, torn>>

Empty(none) ==
    /\ disk = none
    /\ kept = none
    /\ gap = FALSE
    /\ torn = 0

\* append returned: its snapshot is the entity's last one, or was added to an
\* unterminated line, and both are unreadable.
Appended(i, snapshot) ==
    /\ kept' = IF gap THEN kept ELSE [kept EXCEPT ![i] = snapshot]
    /\ disk' = kept'
    /\ gap' = FALSE
    /\ UNCHANGED torn

\* append did not return and left a line without its newline.  A line that
\* misses nothing else can be read until the next append continues it.
AppendTorn(i, snapshot) ==
    /\ \/ disk' = kept
       \/ ~gap /\ disk' = [kept EXCEPT ![i] = snapshot]
    /\ gap' = TRUE
    /\ torn' = torn + 1
    /\ UNCHANGED kept

\* append did not return: it raised, or the process died in it.
AppendFails(i, snapshot) ==
    \/ UNCHANGED store
    \/ Appended(i, snapshot)
    \/ AppendTorn(i, snapshot)

\* An append of an entity of another kind, whether or not it returned, ...
OtherAppended ==
    /\ gap
    /\ disk' = kept
    /\ gap' = FALSE
    /\ UNCHANGED <<kept, torn>>

\* ... or one that left its line without a newline.
OtherTorn ==
    /\ disk' = kept
    /\ gap' = TRUE
    /\ torn' = torn + 1
    /\ UNCHANGED kept
===============================================================================

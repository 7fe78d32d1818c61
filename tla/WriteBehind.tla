----------------------------- MODULE WriteBehind -----------------------------
(***************************************************************************)
(* What the registry's writer promises: the file trails the memory.  Each  *)
(* write installs a snapshot of the memory, taken after the one before it  *)
(* was, so the file never goes back to an older state; a write that fails  *)
(* or is cut short may leave it unreadable.  How often snapshots are taken *)
(* is left open.                                                           *)
(***************************************************************************)
CONSTANTS Value, Torn

VARIABLES mem, snap, disk

wbvars == <<mem, snap, disk>>

Init == mem \in Value /\ snap = mem /\ disk = mem

\* The memory changes.
Change == mem' \in Value /\ UNCHANGED <<snap, disk>>

\* A snapshot is taken, and the one before it is installed if it was not yet.
Take == snap' = mem /\ disk' = snap /\ UNCHANGED mem

\* A snapshot taken together with the change it is of.
ChangeAndTake == snap = disk /\ mem' \in Value /\ snap' = mem' /\ UNCHANGED disk

Install == disk' = snap /\ UNCHANGED <<mem, snap>>

\* The snapshot is given up; the file keeps what it had or is torn.
GiveUp == disk' \in {disk, Torn} /\ snap' = disk' /\ UNCHANGED mem

\* The snapshot is given up for a newer one.
GiveUpAndTake == disk' \in {disk, Torn} /\ snap' = mem /\ UNCHANGED mem

\* The process goes down in the middle of things,
Down == disk' \in {disk, snap, Torn} /\ snap' = disk' /\ UNCHANGED mem

\* and one that comes up has the file's state in memory, or what it makes of it.
Up == disk # Torn /\ snap = disk /\ mem' \in Value /\ UNCHANGED <<snap, disk>>

Next ==
  Change \/ Take \/ ChangeAndTake \/ Install \/ GiveUp \/ GiveUpAndTake \/ Down \/ Up

Spec == Init /\ [][Next]_wbvars
=============================================================================

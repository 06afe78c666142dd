------------------------------ MODULE LoadJob ------------------------------
(***************************************************************************)
(* What metricbench promises about the database, without queue or threads: *)
(* a process may clear the tables, chooses a first minute later than every *)
(* row, writes rows of its window of minutes, each once, and ends.  After  *)
(* it the next process starts.  A prepare writes minute after minute; when *)
(* it reports success the window is loaded.                                *)
(***************************************************************************)
EXTENDS Integers, FiniteSets

CONSTANTS
  LoadMins,     \* minutes of the window
  DBTables,     \* tables
  MaxDevices,   \* devices
  Modes,        \* the modes a process is started in
  Behind,       \* rows of earlier minutes that may follow a later one
  Missing       \* rows that may be missing after a successful prepare

VARIABLES
  rows,         \* the rows in the database
  mode,         \* of the process: "prepare" or "run"
  phase,        \* of the process: "new", "loading", "done", "failed"
  first         \* first minute of its window

vars == <<rows, mode, phase, first>>

Window(start) == [table_id : 1..DBTables, device_id : 1..MaxDevices,
                  ts : start..(start + LoadMins - 1)]

Init ==
  /\ rows = {}
  /\ mode \in Modes
  /\ phase = "new"
  /\ first = 0

\* A prepare makes the tables new, or fails to for some of them.
Clear ==
  /\ phase = "new" /\ mode = "prepare"
  /\ rows' \subseteq rows
  /\ UNCHANGED <<mode, phase, first>>

\* The first minute is later than whatever is in the database.
Choose ==
  /\ phase = "new"
  /\ first' > 0
  /\ \A r \in rows : r.ts < first'
  /\ phase' = "loading"
  /\ UNCHANGED <<rows, mode>>

\* A row of the window that is not there yet.  In a prepare almost all rows
\* of the minutes before it are.
Write(row) ==
  /\ row \notin rows
  /\ mode = "prepare" =>
       Cardinality({r \in Window(first) : r.ts < row.ts} \ rows) <= Behind
  /\ rows' = rows \cup {row}

Insert ==
  /\ phase = "loading"
  /\ \E row \in Window(first) : Write(row)
  /\ UNCHANGED <<mode, phase, first>>

\* The process dies or reports failure, perhaps with a last row.
Fail ==
  /\ phase \in {"new", "loading"}
  /\ phase' = "failed"
  /\ \/ UNCHANGED rows
     \/ phase = "loading" /\ \E row \in Window(first) : Write(row)
  /\ UNCHANGED <<mode, first>>

Succeed ==
  /\ phase = "loading"
  /\ mode = "prepare" => Cardinality(Window(first) \ rows) <= Missing
  /\ phase' = "done"
  /\ UNCHANGED <<rows, mode, first>>

StartAgain ==
  /\ phase \in {"done", "failed"}
  /\ phase' = "new"
  /\ mode' \in Modes
  /\ first' = 0
  /\ UNCHANGED rows

Next ==
  \/ Clear
  \/ Choose
  \/ Insert
  \/ Fail
  \/ Succeed
  \/ StartAgain

Spec == Init /\ [][Next]_vars
=============================================================================

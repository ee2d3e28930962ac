---------------------------- MODULE SnapshotFile ----------------------------
(***************************************************************************)
(* The reports of MetricsAggregator::run (roughenough-server/src/metrics/  *)
(* aggregator.rs) and MetricsSnapshot::write_to_file (snapshot.rs).  The   *)
(* clock is read twice for a report: once to find that it is due, which    *)
(* also schedules the next one, and once more to name the file.  Each      *)
(* report is written to a temporary file, synced and renamed to a name     *)
(* made from the second.  Every file operation may fail, which ends the    *)
(* attempt and leaves what it did; the process may end and the machine may *)
(* lose power between any two operations.  A new process starts over,      *)
(* perhaps with another interval.                                          *)
(*                                                                         *)
(* The first read is of ClockSource, which may be off by a fixed number of *)
(* seconds; it is only compared with itself, so that one clock will do.    *)
(***************************************************************************)
EXTENDS Naturals

CONSTANTS Intervals,   \* Args::metrics_interval: any number of seconds, 0 too
          MaxClock,    \* bound: last value of the clock
          MaxCrashes   \* bound: power failures

ASSUME FileAssumption == Intervals \subseteq Nat /\ MaxClock \in Nat \ {0} /\ MaxCrashes \in Nat

VARIABLES
  clock, crashes,
  interval,      \* reporting_interval of the running process
  pc,            \* "idle" or the next operation for a report
  next_report,
  now,           \* the read of run that found the report due
  report,        \* the report being written
  temp, final,   \* what is under the temporary and the final name of each second
  older          \* what the final name has stood for before

vars == <<clock, crashes, interval, pc, next_report, now, report, temp, final, older>>
files == <<temp, final, older>>

Timestamps == 1..MaxClock

\* A report is known by its two reads of the clock; a file by the report in it, and
\* by whether sync_all has brought it to the disk.
Reports == [due : Timestamps, stamp : Timestamps, synced : BOOLEAN]
Absent == [due |-> 0, stamp |-> 0, synced |-> TRUE]
Torn == [due |-> 0, stamp |-> 0, synced |-> FALSE]    \* an incomplete JSON text

Init ==
  /\ clock = 1 /\ crashes = 0
  /\ interval \in Intervals
  /\ pc = "idle" /\ next_report = clock + interval
  /\ now = 1 /\ report = [due |-> 1, stamp |-> 1, synced |-> FALSE]
  /\ temp = [t \in Timestamps |-> Absent]
  /\ final = [t \in Timestamps |-> Absent]
  /\ older = [t \in Timestamps |-> {}]

\* run: the clock is read, and a report is due.
Due ==
  /\ pc = "idle" /\ clock >= next_report
  /\ now' = clock
  /\ pc' = "name"
  /\ UNCHANGED <<clock, crashes, interval, next_report, report, files>>

\* report_metrics reads the clock again, for MetricsSnapshot::new.
Name ==
  /\ pc = "name"
  /\ report' = [due |-> now, stamp |-> clock, synced |-> FALSE]
  /\ pc' = "create"
  /\ UNCHANGED <<clock, crashes, interval, next_report, now, files>>

\* Mutant: the schedule advances from its own previous value.
NextReport_Steady == next_report + interval

\* The next report is due an interval after the first of the two reads.
NextReport == now + interval

\* report_metrics has returned, whether the file was written or not.
Reported == pc' = "idle" /\ next_report' = NextReport

\* strftime_utc: the name is made from the second.
filename(r) == r.stamp

\* The `?` of a failed operation returns; nothing is cleaned up.
Fail ==
  /\ pc \in {"create", "write", "sync", "rename"}
  /\ Reported
  /\ UNCHANGED <<clock, crashes, interval, now, report, files>>

\* File::create truncates a leftover of an earlier attempt.
Create ==
  /\ pc = "create"
  /\ temp' = [temp EXCEPT ![filename(report)] = Torn]
  /\ pc' = "write"
  /\ UNCHANGED <<clock, crashes, interval, next_report, now, report, final, older>>

\* write_all, which may stop in the middle: then Fail follows, or the process ends.
Write(all) ==
  /\ pc = "write"
  /\ temp' = [temp EXCEPT ![filename(report)] = IF all THEN report ELSE Torn]
  /\ pc' = IF all THEN "sync" ELSE pc
  /\ UNCHANGED <<clock, crashes, interval, next_report, now, report, final, older>>

\* Mutant: no sync_all before the rename.
Sync_Skipped ==
  /\ pc = "sync" /\ pc' = "rename"
  /\ UNCHANGED <<clock, crashes, interval, next_report, now, report, files>>

Sync ==
  /\ pc = "sync"
  /\ temp' = [temp EXCEPT ![filename(report)].synced = TRUE]
  /\ pc' = "rename"
  /\ UNCHANGED <<clock, crashes, interval, next_report, now, report, final, older>>

\* fs::rename replaces the target atomically.
Rename ==
  /\ pc = "rename"
  /\ LET name == filename(report)
     IN  /\ final' = [final EXCEPT ![name] = temp[name]]
         /\ older' = [older EXCEPT ![name] = @ \cup {final[name]}]
         /\ temp' = [temp EXCEPT ![name] = Absent]
  /\ Reported
  /\ UNCHANGED <<clock, crashes, interval, now, report>>

\* A new process, with the interval i.
Started(i) == pc' = "idle" /\ interval' = i /\ next_report' = clock + i

\* The process ends, at whichever operation, and is started again; its files stay.
Restart(i) ==
  /\ Started(i)
  /\ UNCHANGED <<clock, crashes, now, report, files>>

\* Content that was not synced is lost, under whichever name it is.  The directory
\* is never synced: each of its names may stand again for what it stood for before,
\* and the renamed file have its temporary name again.
PowerFailure(i, after) ==
  /\ crashes < MaxCrashes
  /\ crashes' = crashes + 1
  /\ LET lose(f) == IF f.synced THEN f ELSE Torn
     IN  /\ temp' = [t \in Timestamps |-> lose(IF after[t] = final[t] THEN temp[t] ELSE final[t])]
         /\ final' = [t \in Timestamps |-> lose(after[t])]
  /\ older' = [t \in Timestamps |-> {}]
  /\ Started(i)
  /\ UNCHANGED <<clock, now, report>>

\* What the directory may hold after a power failure.
Entries(t) == {final[t]} \cup older[t]
Afterwards == {f \in [Timestamps -> UNION {Entries(t) : t \in Timestamps}] :
                 \A t \in Timestamps : f[t] \in Entries(t)}

Tick ==
  /\ clock < MaxClock
  /\ clock' = clock + 1
  /\ UNCHANGED <<crashes, interval, pc, next_report, now, report, files>>

Next ==
  \/ Due \/ Name \/ Fail \/ Create \/ (\E all \in BOOLEAN : Write(all)) \/ Sync \/ Rename
  \/ (\E i \in Intervals : Restart(i) \/ \E after \in Afterwards : PowerFailure(i, after))
  \/ Tick

Spec == Init /\ [][Next]_vars

-----------------------------------------------------------------------------
\* Type invariant of the writer and the directory.
TypeOK ==
  /\ clock \in Timestamps /\ crashes \in 0..MaxCrashes /\ interval \in Intervals
  /\ pc \in {"idle", "name", "create", "write", "sync", "rename"}
  /\ next_report \in Nat /\ now \in Timestamps /\ report \in Reports
  /\ temp \in [Timestamps -> Reports \cup {Absent, Torn}]
  /\ final \in [Timestamps -> Reports \cup {Absent, Torn}]
  /\ older \in [Timestamps -> SUBSET (Reports \cup {Absent, Torn})]

\* "Write metrics to a JSON file atomically" (snapshot.rs:55): whoever opens a
\* metrics file, at any moment and also after a power failure, finds a whole
\* report, made in the second that the name announces.
FilesAreWhole == \A t \in Timestamps : final[t] # Absent => final[t] \in Reports /\ final[t].stamp = t

\* The file of the second t is another one afterwards, if only one like it.
Replaced(t) == final'[t] # final[t] \/ (Rename /\ filename(report) = t)

\* A report that is filed is there to stay, over restarts too, but for two cases.  A
\* power failure may bring back what the name stood for before.  And the report of the
\* same second takes its place if its name was read an interval or more after it had
\* been found due (aggregator.rs:90 and :106): with an interval of 1 it takes a second
\* that passes between the two reads, with 60 a stall of a minute, with 0 nothing.
ReportsAreKept ==
  [][\A t \in Timestamps :
       final[t] # Absent /\ Replaced(t) =>
         \/ crashes' # crashes /\ final'[t] \in older[t]
         \/ final[t].stamp >= final[t].due + interval]_vars
=============================================================================

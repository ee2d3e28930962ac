------------------------- MODULE SnapshotFileProofs -------------------------
(***************************************************************************)
(* write_to_file is atomic, and reports replace each other only as         *)
(* ReportsAreKept says, for every set of intervals, any length of time and *)
(* any number of restarts and power failures.  The invariant ties what is  *)
(* under the names of a report to the place in write_to_file, and orders   *)
(* the reports: what was filed in time has a name before the next one.     *)
(***************************************************************************)
EXTENDS SnapshotFile, TLAPS

\* A complete report of the second t, on the disk, or no file.
Whole(f, t, c) ==
  f = Absent \/ (f \in Reports /\ f.stamp = t /\ f.due <= t /\ t <= c /\ f.synced = TRUE)

\* Named before the next report became due.
Early(f, i) == f.stamp < f.due + i

Writing == pc \in {"create", "write", "sync", "rename"}

\* What the final names stand for, and have stood for.
DirInv == \A t \in Timestamps :
  Whole(final[t], t, clock) /\ \A f \in older[t] : Whole(f, t, clock)

\* What is under the temporary name of the report.
TempInv ==
  /\ pc = "sync" => temp[report.stamp] = report
  /\ pc = "rename" => temp[report.stamp] = [due |-> report.due, stamp |-> report.stamp, synced |-> TRUE]

\* The report being written was named after it was found due.
ReportInv ==
  /\ now <= clock
  /\ Writing => report.due = now /\ now <= report.stamp /\ report.stamp <= clock

\* The reports filed in time are older than the next one, and than the one under way.
OrderInv == \A t \in Timestamps :
  final[t] # Absent /\ Early(final[t], interval) => t < (IF pc = "idle" THEN next_report ELSE now)

IInv == TypeOK /\ DirInv /\ TempInv /\ ReportInv /\ OrderInv

-----------------------------------------------------------------------------
\* A new process finds the names of all earlier reports behind its schedule, unless
\* its interval is 0, and then none of them counts as named in time.
LEMMA StartedInOrder ==
  ASSUME NEW c \in Timestamps, NEW i \in Nat, NEW t \in Timestamps, NEW f,
         Whole(f, t, c), f # Absent, Early(f, i)
  PROVE  t < c + i
BY FileAssumption DEF Whole, Early, Reports, Timestamps

\* An empty directory satisfies the invariant.
LEMMA InitIInv == Init => IInv
<1> SUFFICES ASSUME Init PROVE IInv
  OBVIOUS
<1> USE FileAssumption
<1>1. TypeOK
  <2>1. Absent \in Reports \cup {Absent, Torn}
    OBVIOUS
  <2>2. report \in Reports
    BY DEF Init, Reports, Timestamps
  <2>3. next_report \in Nat /\ now \in Timestamps /\ clock \in Timestamps
    BY DEF Init, Timestamps
  <2> QED
    BY <2>1, <2>2, <2>3 DEF Init, TypeOK
<1>2. DirInv
  BY DEF Init, DirInv, Whole
<1>3. TempInv /\ ReportInv
  BY DEF Init, TempInv, ReportInv, Writing
<1>4. OrderInv
  BY DEF Init, OrderInv
<1> QED
  BY <1>1, <1>2, <1>3, <1>4 DEF IInv

\* Every operation, failure, restart and power failure preserves it.
LEMMA NextIInv == IInv /\ [Next]_vars => IInv'
<1> USE FileAssumption DEF IInv
<1> SUFFICES ASSUME IInv, [Next]_vars PROVE IInv'
  OBVIOUS
<1>1. CASE Due
  <2>1. TypeOK'
    BY <1>1 DEF Due, files, TypeOK, Reports, Timestamps, Absent, Torn
  <2>2. DirInv'
    BY <1>1 DEF Due, files, TypeOK, DirInv, TempInv, ReportInv, Writing, Whole, Reports, Timestamps, Absent
  <2>3. TempInv'
    BY <1>1 DEF Due, files, TypeOK, TempInv, ReportInv, Writing, Reports, Timestamps
  <2>4. ReportInv'
    BY <1>1 DEF Due, files, TypeOK, ReportInv, Writing, Reports, Timestamps
  <2>5. OrderInv'
    BY <1>1 DEF Due, files, TypeOK, DirInv, TempInv, ReportInv, Writing, OrderInv, Early, Whole, Reports, Timestamps, Absent
  <2> QED
    BY <2>1, <2>2, <2>3, <2>4, <2>5
<1>2. CASE Name
  <2>1. TypeOK'
    BY <1>2 DEF Name, files, TypeOK, Reports, Timestamps, Absent, Torn
  <2>2. DirInv'
    BY <1>2 DEF Name, files, TypeOK, DirInv, TempInv, ReportInv, Writing, Whole, Reports, Timestamps, Absent
  <2>3. TempInv'
    BY <1>2 DEF Name, files, TypeOK, TempInv, ReportInv, Writing, Reports, Timestamps
  <2>4. ReportInv'
    BY <1>2 DEF Name, files, TypeOK, ReportInv, Writing, Reports, Timestamps
  <2>5. OrderInv'
    BY <1>2 DEF Name, files, TypeOK, DirInv, TempInv, ReportInv, Writing, OrderInv, Early, Whole, Reports, Timestamps, Absent
  <2> QED
    BY <2>1, <2>2, <2>3, <2>4, <2>5
<1>3. CASE Fail
  <2>1. TypeOK'
    BY <1>3 DEF Fail, Reported, NextReport, files, TypeOK, Reports, Timestamps, Absent, Torn
  <2>2. DirInv'
    BY <1>3 DEF Fail, Reported, NextReport, files, TypeOK, DirInv, TempInv, ReportInv, Writing, Whole, Reports, Timestamps, Absent
  <2>3. TempInv'
    BY <1>3 DEF Fail, Reported, NextReport, files, TypeOK, TempInv, ReportInv, Writing, Reports, Timestamps
  <2>4. ReportInv'
    BY <1>3 DEF Fail, Reported, NextReport, files, TypeOK, ReportInv, Writing, Reports, Timestamps
  <2>5. OrderInv'
    BY <1>3 DEF Fail, Reported, NextReport, files, TypeOK, DirInv, TempInv, ReportInv, Writing, OrderInv, Early, Whole, Reports, Timestamps, Absent
  <2> QED
    BY <2>1, <2>2, <2>3, <2>4, <2>5
<1>4. CASE Create
  <2>1. TypeOK'
    BY <1>4 DEF Create, filename, TypeOK, Reports, Timestamps, Absent, Torn
  <2>2. DirInv'
    BY <1>4 DEF Create, filename, TypeOK, DirInv, TempInv, ReportInv, Writing, Whole, Reports, Timestamps, Absent
  <2>3. TempInv'
    BY <1>4 DEF Create, filename, TypeOK, TempInv, ReportInv, Writing, Reports, Timestamps
  <2>4. ReportInv'
    BY <1>4 DEF Create, filename, TypeOK, ReportInv, Writing, Reports, Timestamps
  <2>5. OrderInv'
    BY <1>4 DEF Create, filename, TypeOK, DirInv, TempInv, ReportInv, Writing, OrderInv, Early, Whole, Reports, Timestamps, Absent
  <2> QED
    BY <2>1, <2>2, <2>3, <2>4, <2>5
<1>5. ASSUME NEW all \in BOOLEAN, Write(all) PROVE IInv'
  <2>1. TypeOK'
    BY <1>5 DEF Write, filename, TypeOK, Reports, Timestamps, Absent, Torn
  <2>2. DirInv'
    BY <1>5 DEF Write, filename, TypeOK, DirInv, TempInv, ReportInv, Writing, Whole, Reports, Timestamps, Absent
  <2>3. TempInv'
    BY <1>5 DEF Write, filename, TypeOK, TempInv, ReportInv, Writing, Reports, Timestamps
  <2>4. ReportInv'
    BY <1>5 DEF Write, filename, TypeOK, ReportInv, Writing, Reports, Timestamps
  <2>5. OrderInv'
    BY <1>5 DEF Write, filename, TypeOK, DirInv, TempInv, ReportInv, Writing, OrderInv, Early, Whole, Reports, Timestamps, Absent
  <2> QED
    BY <2>1, <2>2, <2>3, <2>4, <2>5
<1>6. CASE Sync
  <2>1. TypeOK'
    <3>1. report.stamp \in Timestamps /\ temp[report.stamp] = report
      BY <1>6 DEF Sync, TypeOK, TempInv, Reports
    <3>2. [temp[report.stamp] EXCEPT !.synced = TRUE] \in Reports
      BY <3>1 DEF TypeOK, Reports
    <3>3. temp' = [temp EXCEPT ![report.stamp] = [temp[report.stamp] EXCEPT !.synced = TRUE]]
      BY <1>6 DEF Sync, filename
    <3>4. temp' \in [Timestamps -> Reports \cup {Absent, Torn}]
      BY <3>1, <3>2, <3>3 DEF TypeOK
    <3> QED
      BY <1>6, <3>4 DEF Sync, TypeOK
  <2>2. DirInv'
    BY <1>6 DEF Sync, filename, TypeOK, DirInv, TempInv, ReportInv, Writing, Whole, Reports, Timestamps, Absent
  <2>3. TempInv'
    BY <1>6 DEF Sync, filename, TypeOK, TempInv, ReportInv, Writing, Reports, Timestamps
  <2>4. ReportInv'
    BY <1>6 DEF Sync, filename, TypeOK, ReportInv, Writing, Reports, Timestamps
  <2>5. OrderInv'
    BY <1>6 DEF Sync, filename, TypeOK, DirInv, TempInv, ReportInv, Writing, OrderInv, Early, Whole, Reports, Timestamps, Absent
  <2> QED
    BY <2>1, <2>2, <2>3, <2>4, <2>5
<1>7. CASE Rename
  <2>1. TypeOK'
    BY <1>7 DEF Rename, Reported, NextReport, filename, TypeOK, Reports, Timestamps, Absent, Torn
  <2>2. DirInv'
    <3>1. report.stamp \in Timestamps /\ report.due \in Timestamps
      BY DEF TypeOK, Reports
    <3>2. Whole(temp[report.stamp], report.stamp, clock)
      <4>1. temp[report.stamp] = [due |-> report.due, stamp |-> report.stamp, synced |-> TRUE]
        BY <1>7 DEF Rename, TempInv
      <4>2. report.due <= report.stamp /\ report.stamp <= clock
        BY <1>7 DEF Rename, ReportInv, Writing
      <4>3. temp[report.stamp] \in Reports
        BY <3>1, <4>1 DEF Reports
      <4> QED
        BY <4>1, <4>2, <4>3 DEF Whole
    <3>3. /\ clock' = clock
          /\ final' = [final EXCEPT ![report.stamp] = temp[report.stamp]]
          /\ older' = [older EXCEPT ![report.stamp] = @ \cup {final[report.stamp]}]
      BY <1>7 DEF Rename, filename
    <3>4. ASSUME NEW t \in Timestamps PROVE Whole(final'[t], t, clock)
      BY <3>1, <3>2, <3>3 DEF TypeOK, DirInv
    <3>5. ASSUME NEW t \in Timestamps, NEW f \in older'[t] PROVE Whole(f, t, clock)
      BY <3>1, <3>3 DEF TypeOK, DirInv
    <3> QED
      BY <3>3, <3>4, <3>5 DEF DirInv, Whole
  <2>3. TempInv'
    BY <1>7 DEF Rename, Reported, NextReport, filename, TypeOK, TempInv, ReportInv, Writing, Reports, Timestamps
  <2>4. ReportInv'
    BY <1>7 DEF Rename, Reported, NextReport, filename, TypeOK, ReportInv, Writing, Reports, Timestamps
  <2>5. OrderInv'
    <3>1. report.stamp \in Timestamps /\ report.due = now
      BY <1>7 DEF Rename, TypeOK, Reports, ReportInv, Writing
    <3>2. /\ pc' = "idle" /\ interval' = interval /\ next_report' = now + interval
          /\ final' = [final EXCEPT ![report.stamp] = temp[report.stamp]]
      BY <1>7 DEF Rename, Reported, NextReport, filename
    <3> SUFFICES ASSUME NEW t \in Timestamps, final'[t] # Absent, Early(final'[t], interval)
                 PROVE  t < now + interval
      BY <3>2 DEF OrderInv, Early
    <3>3. CASE t = report.stamp
      <4>1. final'[t] = [due |-> now, stamp |-> t, synced |-> TRUE]
        BY <1>7, <3>1, <3>2, <3>3 DEF Rename, TempInv, TypeOK
      <4> QED
        BY <4>1 DEF Early
    <3>4. CASE t # report.stamp
      <4>1. t < now
        BY <1>7, <3>2, <3>4 DEF Rename, OrderInv, TypeOK
      <4> QED
        BY <4>1 DEF TypeOK, Timestamps
    <3> QED
      BY <3>3, <3>4
  <2> QED
    BY <2>1, <2>2, <2>3, <2>4, <2>5
<1>8. ASSUME NEW i \in Intervals, Restart(i) PROVE IInv'
  <2>1. TypeOK'
    BY <1>8 DEF Restart, Started, files, TypeOK, Reports, Timestamps, Absent, Torn
  <2>2. DirInv'
    BY <1>8 DEF Restart, Started, files, TypeOK, DirInv, TempInv, ReportInv, Writing, Whole, Reports, Timestamps, Absent
  <2>3. TempInv'
    BY <1>8 DEF Restart, Started, files, TypeOK, TempInv, ReportInv, Writing, Reports, Timestamps
  <2>4. ReportInv'
    BY <1>8 DEF Restart, Started, files, TypeOK, ReportInv, Writing, Reports, Timestamps
  <2>5. OrderInv'
    <3> SUFFICES ASSUME NEW t \in Timestamps, final[t] # Absent, Early(final[t], i) PROVE t < clock + i
      BY <1>8 DEF Restart, Started, files, OrderInv, Early
    <3> QED
      BY StartedInOrder DEF TypeOK, DirInv
  <2> QED
    BY <2>1, <2>2, <2>3, <2>4, <2>5
<1>9. ASSUME NEW i \in Intervals, NEW after \in Afterwards, PowerFailure(i, after) PROVE IInv'
  <2>1. TypeOK'
    <3>1. \A t \in Timestamps : after[t] \in Reports \cup {Absent, Torn}
      BY DEF Afterwards, Entries, TypeOK
    <3>2. crashes' \in 0..MaxCrashes /\ next_report' \in Nat
      BY <1>9 DEF PowerFailure, Started, TypeOK, Timestamps
    <3> QED
      BY <1>9, <3>1, <3>2 DEF PowerFailure, Started, TypeOK
  <2>2. DirInv'
    <3>1. \A t \in Timestamps : Whole(after[t], t, clock)
      BY DEF Afterwards, Entries, DirInv
    <3>2. \A t \in Timestamps : Whole(final'[t], t, clock)
      BY <1>9, <3>1 DEF PowerFailure, Whole, Absent
    <3>3. clock' = clock /\ \A t \in Timestamps : older'[t] = {}
      BY <1>9 DEF PowerFailure
    <3> QED
      BY <3>2, <3>3 DEF DirInv, Whole
  <2>3. TempInv'
    BY <1>9 DEF PowerFailure, Started, TypeOK, TempInv, ReportInv, Writing, Reports, Timestamps
  <2>4. ReportInv'
    BY <1>9 DEF PowerFailure, Started, TypeOK, ReportInv, Writing, Reports, Timestamps
  <2>5. OrderInv'
    <3>1. clock' = clock /\ pc' = "idle" /\ interval' = i /\ next_report' = clock + i
      BY <1>9 DEF PowerFailure, Started
    <3>2. \A t \in Timestamps : Whole(final'[t], t, clock)
      BY <2>2, <3>1 DEF DirInv, Whole
    <3> SUFFICES ASSUME NEW t \in Timestamps, final'[t] # Absent, Early(final'[t], i) PROVE t < clock + i
      BY <3>1 DEF OrderInv, Early
    <3> QED
      BY <3>2, StartedInOrder DEF TypeOK
  <2> QED
    BY <2>1, <2>2, <2>3, <2>4, <2>5
<1>10. CASE Tick
  <2>1. TypeOK'
    BY <1>10 DEF Tick, files, TypeOK, Reports, Timestamps, Absent, Torn
  <2>2. DirInv'
    BY <1>10 DEF Tick, files, TypeOK, DirInv, TempInv, ReportInv, Writing, Whole, Reports, Timestamps, Absent
  <2>3. TempInv'
    BY <1>10 DEF Tick, files, TypeOK, TempInv, ReportInv, Writing, Reports, Timestamps
  <2>4. ReportInv'
    BY <1>10 DEF Tick, files, TypeOK, ReportInv, Writing, Reports, Timestamps
  <2>5. OrderInv'
    BY <1>10 DEF Tick, files, TypeOK, DirInv, TempInv, ReportInv, Writing, OrderInv, Early, Whole, Reports, Timestamps, Absent
  <2> QED
    BY <2>1, <2>2, <2>3, <2>4, <2>5
<1>11. CASE UNCHANGED vars
  <2>1. TypeOK' /\ TempInv' /\ ReportInv' /\ OrderInv'
    BY <1>11 DEF vars, TypeOK, TempInv, ReportInv, Writing, OrderInv, Early
  <2>2. DirInv'
    BY <1>11 DEF vars, DirInv, Whole
  <2> QED
    BY <2>1, <2>2
<1> QED
  BY <1>1, <1>2, <1>3, <1>4, <1>5, <1>6, <1>7, <1>8, <1>9, <1>10, <1>11 DEF Next

\* Type correctness of the writer and the directory.
THEOREM FileTypes == Spec => []TypeOK
<1>1. IInv => TypeOK
  BY DEF IInv
<1> QED
  BY <1>1, InitIInv, NextIInv, PTL DEF Spec

\* Whoever opens a metrics file finds a whole report of the second in its name.
THEOREM FilesAlwaysWhole == Spec => []FilesAreWhole
<1>1. IInv => FilesAreWhole
  BY DEF IInv, DirInv, Whole, FilesAreWhole
<1> QED
  BY <1>1, InitIInv, NextIInv, PTL DEF Spec

\* A filed report is replaced only if it was named an interval or more after it was
\* found due, and a power failure brings back nothing but what was there before.
THEOREM ReplacedOnlyIfLate == Spec => ReportsAreKept
<1> DEFINE Kept(t) == \/ crashes' # crashes /\ final'[t] \in older[t]
                      \/ final[t].stamp >= final[t].due + interval
<1>1. IInv /\ [Next]_vars =>
        [\A t \in Timestamps : final[t] # Absent /\ Replaced(t) => Kept(t)]_vars
  <2> SUFFICES ASSUME IInv, [Next]_vars, NEW t \in Timestamps, final[t] # Absent, Replaced(t)
               PROVE  Kept(t)
    BY DEF vars
  <2> USE FileAssumption DEF IInv
  <2>1. CASE Rename
    <3>1. t = report.stamp /\ now <= t
      BY <2>1 DEF Rename, Replaced, filename, TypeOK, ReportInv, Writing
    <3>2. ~Early(final[t], interval)
      BY <2>1, <3>1 DEF Rename, OrderInv, TypeOK, Timestamps
    <3>3. final[t] \in Reports
      BY DEF DirInv, Whole
    <3> QED
      BY <3>2, <3>3 DEF Early, TypeOK, Reports, Timestamps
  <2>2. ASSUME NEW i \in Intervals, NEW after \in Afterwards, PowerFailure(i, after) PROVE Kept(t)
    <3>1. after[t] \in Entries(t)
      BY DEF Afterwards
    <3>2. Whole(after[t], t, clock)
      BY <3>1 DEF Entries, DirInv
    <3>3. final'[t] = after[t]
      BY <2>2, <3>2 DEF PowerFailure, Whole, Absent
    <3>4. crashes' # crashes
      BY <2>2 DEF PowerFailure, TypeOK
    <3>5. final'[t] # final[t]
      BY <3>4 DEF Replaced, Rename
    <3> QED
      BY <3>1, <3>3, <3>4, <3>5 DEF Entries
  <2>3. CASE ~Rename /\ UNCHANGED final
    BY <2>3 DEF Replaced
  <2> QED
    BY <2>1, <2>2, <2>3 DEF Next, Due, Name, Fail, Create, Write, Sync, Restart, Tick, files, vars
<1> QED
  BY <1>1, InitIInv, NextIInv, PTL DEF Spec, ReportsAreKept
=============================================================================

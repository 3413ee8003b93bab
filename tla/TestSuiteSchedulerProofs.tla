---------------------- MODULE TestSuiteSchedulerProofs ----------------------
(***************************************************************************)
(* What the scheduler guarantees for any schedules, frequencies, windows,  *)
(* and numbers of runs, requests and faults.                               *)
(***************************************************************************)
EXTENDS TestSuiteScheduler, TLAPS

(* What a trigger that has read r at time t may be about to write: active  *)
(* is only ever cleared, after the end of the window, and the next run is  *)
(* left alone, set after a run, or cleared with active.                    *)
MayWrite(r, t, n) ==
    /\ n.freq = r.freq /\ n.start = r.start /\ n.end = r.end
    /\ n.active => r.active
    /\ n.active # r.active => r.end # 0 /\ t > r.end
    /\ \/ n.next = r.next
       \/ n.next = NextRun(r.active, r, t, TRUE)
       \/ n.next = 0 /\ ~n.active

TriggerKeepsSettings ==
    \A a \in Actors : tx[a].phase = "write" =>
        MayWrite(tx[a].read, tx[a].at, tx[a].new)

(* What a trigger has read is what the schedule still is, but for what     *)
(* other triggers did, unless the API set it since.                        *)
ReadsMatchRows ==
    \A a \in Actors : tx[a].phase # "none" =>
        /\ tx[a].at <= now
        /\ tx[a].sched \notin crossed =>
              /\ row[tx[a].sched].freq = tx[a].read.freq
              /\ row[tx[a].sched].start = tx[a].read.start
              /\ row[tx[a].sched].end = tx[a].read.end
              /\ row[tx[a].sched].active => tx[a].read.active

\* The loop has a list of due schedules only from a poll.
PolledBeforeDue == due # {} => polledAt # 0

\* A step that changes no setting, but for switching schedules off.
SettingsKept ==
    \A s \in Schedules :
        /\ row'[s].freq = row[s].freq
        /\ row'[s].start = row[s].start
        /\ row'[s].end = row[s].end
        /\ row'[s].active => row[s].active

IInv ==
    /\ TypeOK
    /\ PolledBeforeDue
    /\ TriggerKeepsSettings
    /\ ReadsMatchRows
    /\ EditsSurvive

(* A trigger of the loop that starts a run moves the next one on.          *)
StartMovesNext ==
    LET t == tx["scheduler"]
    IN  t.phase = "write" /\ t.new.exec # t.read.exec =>
            t.new.next = 0 \/ t.new.next >= t.at + t.new.freq

\* The schedule the loop is triggering is not in its list any more.
TakenFromList == tx["scheduler"].phase # "none" => tx["scheduler"].sched \notin due

(* After a run of the loop nothing points to a time before the next one:   *)
(* not the row, not the list of due schedules, not an open trigger.        *)
NothingTooEarly ==
    \A s \in Schedules : lastStart[s] # 0 =>
        LET soonest == lastStart[s] + row[s].freq
        IN  /\ row[s].next = 0 \/ row[s].next >= soonest
            /\ s \in due => polledAt >= soonest
            /\ tx["scheduler"].phase = "read" /\ tx["scheduler"].sched = s =>
                  tx["scheduler"].at >= soonest

FInv == StartMovesNext /\ TakenFromList /\ NothingTooEarly

-----------------------------------------------------------------------------
(* The operators.                                                          *)

\* A row is a record of the columns the scheduler reads.
LEMMA RowFields ==
    ASSUME NEW r \in RowType
    PROVE  /\ r.active \in BOOLEAN
           /\ r.freq \in Nat /\ r.start \in Nat /\ r.end \in Nat /\ r.next \in Nat
           /\ r.freq \in Frequencies \cup {0}
           /\ r.start \in StartTimes \cup {0} /\ r.end \in EndTimes \cup {0}
           /\ r.status \in {"idle", "running", "skipped", "finished"}
           /\ r.exec \in 0..MaxRuns
           /\ DOMAIN r = {"active", "freq", "start", "end", "next", "status", "exec"}
  <1>1. /\ r.active \in BOOLEAN
        /\ r.freq \in Frequencies \cup {0}
        /\ r.start \in StartTimes \cup {0} /\ r.end \in EndTimes \cup {0}
        /\ r.next \in Nat
        /\ r.status \in {"idle", "running", "skipped", "finished"}
        /\ r.exec \in 0..MaxRuns
    BY DEF RowType
  <1>2. DOMAIN r = {"active", "freq", "start", "end", "next", "status", "exec"}
    BY DEF RowType
  <1>3. Frequencies \cup {0} \subseteq Nat /\ StartTimes \cup {0} \subseteq Nat
          /\ EndTimes \cup {0} \subseteq Nat
    BY SchedulerAssumption
  <1> QED
    BY <1>1, <1>2, <1>3

\* A remembered thread id is the id of no row, so the refresh changes nothing.
LEMMA RefreshChangesNothing ==
    ASSUME NEW rw \in [Schedules -> RowType]
    PROVE  Refresh(rw) = rw
  <1>1. ASSUME NEW s \in Schedules
        PROVE  RefreshedStatus(rw[s]) = rw[s].status
    BY DEF RefreshedStatus, RowId, ThreadId
  <1>2. ASSUME NEW s \in Schedules
        PROVE  [rw[s] EXCEPT !.status = RefreshedStatus(rw[s])] = rw[s]
    BY <1>1 DEF RowType
  <1> QED
    BY <1>2 DEF Refresh

\* The time of the next run is a time, or none.
LEMMA NextRunTime ==
    ASSUME NEW active \in BOOLEAN, NEW d, d.freq \in Nat, d.start \in Nat, d.end \in Nat,
           NEW t \in Nat, NEW again \in BOOLEAN
    PROVE  NextRun(active, d, t, again) \in Nat
  BY DEF NextRun

\* The write-back of a trigger takes each column from one of the two rows.
LEMMA WriteChangedRow ==
    ASSUME NEW c \in RowType, NEW r \in RowType, NEW n \in RowType
    PROVE  /\ WriteChanged(c, r, n) \in RowType
           /\ n.freq = r.freq => WriteChanged(c, r, n).freq = c.freq
           /\ n.start = r.start => WriteChanged(c, r, n).start = c.start
           /\ n.end = r.end => WriteChanged(c, r, n).end = c.end
           /\ (n.active => r.active) /\ WriteChanged(c, r, n).active => c.active
           /\ WriteChanged(c, r, n).next = IF n.next # r.next THEN n.next ELSE c.next
           /\ WriteChanged(c, r, n).active = IF n.active # r.active THEN n.active ELSE c.active
  <1> DEFINE w == WriteChanged(c, r, n)
  <1>1. DOMAIN c = {"active", "freq", "start", "end", "next", "status", "exec"}
    BY RowFields
  <1>2. w = [f \in DOMAIN c |-> IF n[f] # r[f] THEN n[f] ELSE c[f]]
    BY DEF WriteChanged
  <1>3. \A f \in DOMAIN c : w[f] = IF n[f] # r[f] THEN n[f] ELSE c[f]
    BY <1>2
  <1> HIDE DEF w
  <1>4. /\ w.active = (IF n.active # r.active THEN n.active ELSE c.active)
        /\ w.freq = (IF n.freq # r.freq THEN n.freq ELSE c.freq)
        /\ w.start = (IF n.start # r.start THEN n.start ELSE c.start)
        /\ w.end = (IF n.end # r.end THEN n.end ELSE c.end)
        /\ w.next = (IF n.next # r.next THEN n.next ELSE c.next)
        /\ w.status = (IF n.status # r.status THEN n.status ELSE c.status)
        /\ w.exec = (IF n.exec # r.exec THEN n.exec ELSE c.exec)
    BY <1>1, <1>3
  <1>5. w = [active |-> w.active, freq |-> w.freq, start |-> w.start, end |-> w.end,
             next |-> w.next, status |-> w.status, exec |-> w.exec]
    BY <1>1, <1>2
  <1>6. w \in RowType
    BY <1>4, <1>5, RowFields DEF RowType
  <1>7. (n.active => r.active) /\ w.active => c.active
    BY <1>4, RowFields, <1>6, Zenon
  <1> QED
    BY <1>4, <1>6, <1>7 DEF w

\* A schedule that is off has no next run.
LEMMA NoNextRun ==
    ASSUME NEW d, NEW t, NEW again
    PROVE  NextRun(FALSE, d, t, again) = 0
  BY DEF NextRun

\* The phase of a transaction tells its shape.
LEMMA TxShape ==
    ASSUME TypeOK, NEW a \in Actors
    PROVE  /\ tx[a].phase = "none" => tx[a] = NoTx
           /\ tx[a].phase = "read" => tx[a] \in ReadTx
           /\ tx[a].phase = "write" => tx[a] \in WriteTx
           /\ tx[a].phase \in {"none", "read", "write"}
  BY DEF TypeOK, NoTx, ReadTx, WriteTx

\* A transaction that has read a schedule.
LEMMA ReadFields ==
    ASSUME NEW t \in ReadTx
    PROVE  /\ t.sched \in Schedules /\ t.at \in 1..MaxTime /\ t.at \in Nat /\ t.read \in RowType
           /\ t.phase = "read"
  BY SchedulerAssumption DEF ReadTx

\* A transaction that is about to commit.
LEMMA WriteFields ==
    ASSUME NEW t \in WriteTx
    PROVE  /\ t.sched \in Schedules /\ t.at \in 1..MaxTime /\ t.read \in RowType
           /\ t.new \in RowType /\ t.phase = "write"
  BY DEF WriteTx

\* A client's settings, and a row made of them.
LEMMA SettingsFields ==
    ASSUME NEW d \in Settings
    PROVE  /\ d.active \in BOOLEAN
           /\ d.freq \in Frequencies /\ d.start \in StartTimes /\ d.end \in EndTimes
           /\ d.freq \in Nat /\ d.start \in Nat /\ d.end \in Nat
  BY SchedulerAssumption DEF Settings

\* A schedule that is not there has an empty row.
LEMMA NoRowType == NoRow \in RowType
  BY SchedulerAssumption DEF NoRow, RowType

-----------------------------------------------------------------------------
(* The inductive invariant.                                                *)

\* It holds at the start.
LEMMA InitIInv == Init => IInv
  <1> SUFFICES ASSUME Init PROVE IInv
    OBVIOUS
  <1>1. TypeOK
    <2>1. /\ now \in 1..MaxTime /\ polledAt \in 0..now
          /\ requests \in 0..MaxRequests /\ faults \in 0..MaxFaults
      BY SchedulerAssumption DEF Init
    <2>2. /\ row \in [Schedules -> RowType] /\ intent \in [Schedules -> RowType]
          /\ life \in [Schedules -> {"new", "stored", "deleted"}]
          /\ lastStart \in [Schedules -> 0..MaxTime]
          /\ crossed \subseteq Schedules /\ touched \subseteq Schedules
      BY NoRowType, SchedulerAssumption DEF Init
    <2>3. runs \in Seq({"running", "finished", "rolledback"}) /\ Len(runs) <= MaxRuns
      BY SchedulerAssumption DEF Init
    <2>4. due \in SUBSET Schedules /\ tx \in [Actors -> {NoTx} \cup ReadTx \cup WriteTx]
      BY DEF Init
    <2> QED
      BY <2>1, <2>2, <2>3, <2>4 DEF TypeOK
  <1>2. TriggerKeepsSettings /\ ReadsMatchRows
    BY DEF Init, TriggerKeepsSettings, ReadsMatchRows, NoTx, Actors
  <1>3. PolledBeforeDue /\ EditsSurvive
    BY DEF Init, PolledBeforeDue, EditsSurvive, FollowsSettings
  <1> QED
    BY <1>1, <1>2, <1>3 DEF IInv

\* A handler of the API sets a whole row, and that is what the client meant.
LEMMA SetRowKeeps ==
    ASSUME IInv, NEW s \in Schedules, NEW r \in RowType, SetRow(s, r),
           life' \in [Schedules -> {"new", "stored", "deleted"}],
           requests' \in 0..MaxRequests
    PROVE  IInv'
  <1>1. TypeOK'
    <2>1. row' \in [Schedules -> RowType] /\ intent' \in [Schedules -> RowType]
      BY DEF IInv, TypeOK, SetRow
    <2>2. lastStart' \in [Schedules -> 0..MaxTime]
      BY SchedulerAssumption DEF IInv, TypeOK, SetRow
    <2> QED
      BY <2>1, <2>2 DEF IInv, TypeOK, SetRow
  <1>2. (PolledBeforeDue /\ TriggerKeepsSettings)'
    BY DEF IInv, PolledBeforeDue, TriggerKeepsSettings, SetRow
  <1>3. ASSUME NEW q \in Schedules, q # s
        PROVE  /\ row'[q] = row[q] /\ intent'[q] = intent[q]
               /\ q \in crossed' <=> q \in crossed
    BY <1>3 DEF IInv, TypeOK, SetRow
  <1>4. row'[s] = r /\ intent'[s] = r
    BY DEF IInv, TypeOK, SetRow
  <1>5. ReadsMatchRows'
    <2> SUFFICES ASSUME NEW a \in Actors, tx[a].phase # "none"
                 PROVE  /\ tx[a].at <= now
                        /\ tx[a].sched \notin crossed' =>
                              /\ row'[tx[a].sched].freq = tx[a].read.freq
                              /\ row'[tx[a].sched].start = tx[a].read.start
                              /\ row'[tx[a].sched].end = tx[a].read.end
                              /\ row'[tx[a].sched].active => tx[a].read.active
      BY DEF ReadsMatchRows, SetRow
    <2>1. tx[a].sched \in Schedules
      BY TxShape DEF IInv, ReadTx, WriteTx
    <2>2. CASE tx[a].sched = s
      BY <2>2 DEF SetRow, IInv, ReadsMatchRows
    <2>3. CASE tx[a].sched # s
      BY <1>3, <2>1, <2>3 DEF IInv, ReadsMatchRows
    <2> QED
      BY <2>2, <2>3
  <1>6. EditsSurvive'
    <2> SUFFICES ASSUME NEW q \in Schedules
                 PROVE  /\ row'[q].freq = intent'[q].freq
                        /\ row'[q].start = intent'[q].start /\ row'[q].end = intent'[q].end
                        /\ row'[q].active => intent'[q].active
                        /\ q \notin crossed' => FollowsSettings(q)'
      BY DEF EditsSurvive
    <2>1. CASE q = s
      BY <1>4, <2>1 DEF FollowsSettings
    <2>2. CASE q # s
      <3>1. now' = now /\ row'[q] = row[q] /\ intent'[q] = intent[q]
        BY <1>3, <2>2 DEF SetRow
      <3>2. /\ row[q].freq = intent[q].freq
            /\ row[q].start = intent[q].start /\ row[q].end = intent[q].end
            /\ row[q].active => intent[q].active
            /\ q \notin crossed => FollowsSettings(q)
        BY DEF IInv, EditsSurvive
      <3>3. FollowsSettings(q) => FollowsSettings(q)'
        BY <3>1 DEF FollowsSettings, WindowEnded
      <3> QED
        BY <1>3, <2>2, <3>1, <3>2, <3>3
    <2> QED
      BY <2>1, <2>2
  <1> QED
    BY <1>1, <1>2, <1>5, <1>6 DEF IInv

(* A step that leaves the rows and what they should be alone keeps the     *)
(* edits, whatever time it is.                                             *)
LEMMA SameRows ==
    ASSUME EditsSurvive, UNCHANGED <<row, intent, crossed>>,
           now \in Nat, now' \in Nat, now <= now', row \in [Schedules -> RowType]
    PROVE  EditsSurvive'
  <1> SUFFICES ASSUME NEW s \in Schedules, FollowsSettings(s)
               PROVE  FollowsSettings(s)'
    BY DEF EditsSurvive
  <1>1. row'[s] = row[s] /\ intent'[s] = intent[s] /\ row[s].end \in Nat
    BY RowFields
  <1>2. WindowEnded(s) => WindowEnded(s)'
    BY <1>1 DEF WindowEnded
  <1>3. 1..now \subseteq 1..now'
    OBVIOUS
  <1> QED
    BY <1>1, <1>2, <1>3 DEF FollowsSettings

\* What triggers have read stays true while they go on, end or switch off.
LEMMA ReadsStay ==
    ASSUME IInv, crossed' = crossed, now' \in Nat, now <= now',
           SettingsKept,
           \A a \in Actors : \/ tx'[a].phase = "none"
                             \/ /\ tx[a].phase # "none" /\ tx'[a].sched = tx[a].sched
                                /\ tx'[a].at = tx[a].at /\ tx'[a].read = tx[a].read
    PROVE  ReadsMatchRows'
  <1> SUFFICES ASSUME NEW a \in Actors, tx'[a].phase # "none"
               PROVE  /\ tx'[a].at <= now'
                      /\ tx'[a].sched \notin crossed =>
                            /\ row'[tx'[a].sched].freq = tx'[a].read.freq
                            /\ row'[tx'[a].sched].start = tx'[a].read.start
                            /\ row'[tx'[a].sched].end = tx'[a].read.end
                            /\ row'[tx'[a].sched].active => tx'[a].read.active
    BY DEF ReadsMatchRows
  <1>1. /\ tx[a].phase # "none" /\ tx'[a].sched = tx[a].sched
        /\ tx'[a].at = tx[a].at /\ tx'[a].read = tx[a].read
    OBVIOUS
  <1>2. tx[a].sched \in Schedules /\ tx[a].at \in Nat /\ now \in Nat
    BY <1>1, TxShape, SchedulerAssumption DEF IInv, ReadTx, WriteTx, TypeOK
  <1>3. tx[a].at <= now
    BY <1>1 DEF IInv, ReadsMatchRows
  <1> QED
    BY <1>1, <1>2, <1>3 DEF IInv, ReadsMatchRows, SettingsKept

\* The time is a time.
LEMMA NowTime == IInv => now \in Nat /\ row \in [Schedules -> RowType]
  BY SchedulerAssumption DEF IInv, TypeOK

\* A transaction that ends says nothing any more.
LEMMA LeaveKeeps ==
    ASSUME IInv, NEW a \in Actors, NEW e \in BOOLEAN, Leave(a, e),
           UNCHANGED <<polledAt, now, crossed>>,
           SettingsKept
    PROVE  /\ tx' \in [Actors -> {NoTx} \cup ReadTx \cup WriteTx]
           /\ due' \in SUBSET Schedules
           /\ (PolledBeforeDue /\ TriggerKeepsSettings /\ ReadsMatchRows)'
  <1>1. /\ tx' \in [Actors -> {NoTx} \cup ReadTx \cup WriteTx] /\ due' \in SUBSET Schedules
    BY DEF IInv, TypeOK, Leave
  <1>2. PolledBeforeDue'
    BY DEF IInv, PolledBeforeDue, Leave
  <1>3. \A b \in Actors : tx'[b] = tx[b] \/ tx'[b].phase = "none"
    BY DEF IInv, TypeOK, Leave, NoTx
  <1>4. TriggerKeepsSettings'
    BY <1>3 DEF IInv, TriggerKeepsSettings
  <1>5. ReadsMatchRows'
    BY <1>3, NowTime, ReadsStay DEF SettingsKept
  <1> QED
    BY <1>1, <1>2, <1>4, <1>5

\* A trigger that is about to write what the code would.
LEMMA TriggerWritesKeeps ==
    ASSUME IInv, NEW a \in Actors, tx[a] \in ReadTx, NEW n \in RowType, TriggerWrites(a, n),
           MayWrite(tx[a].read, tx[a].at, n), UNCHANGED <<now, crossed, row>>
    PROVE  /\ tx' \in [Actors -> {NoTx} \cup ReadTx \cup WriteTx]
           /\ (TriggerKeepsSettings /\ ReadsMatchRows)'
  <1> DEFINE w == [phase |-> "write", sched |-> tx[a].sched, at |-> tx[a].at,
                   read |-> tx[a].read, new |-> n]
  <1>1. w \in WriteTx
    BY ReadFields DEF WriteTx
  <1>2. tx' = [tx EXCEPT ![a] = w]
    BY DEF TriggerWrites, IInv, TypeOK
  <1>3. /\ w.phase = "write" /\ w.at = tx[a].at /\ w.read = tx[a].read /\ w.new = n
        /\ w.sched = tx[a].sched
    OBVIOUS
  <1> HIDE DEF w
  <1>4. tx' \in [Actors -> {NoTx} \cup ReadTx \cup WriteTx]
    BY <1>1, <1>2 DEF IInv, TypeOK
  <1>5. tx'[a] = w /\ \A b \in Actors \ {a} : tx'[b] = tx[b]
    BY <1>2 DEF IInv, TypeOK
  <1>6. TriggerKeepsSettings'
    BY <1>3, <1>5 DEF IInv, TriggerKeepsSettings
  <1>7. \A b \in Actors : \/ tx'[b].phase = "none"
                          \/ /\ tx[b].phase # "none" /\ tx'[b].sched = tx[b].sched
                             /\ tx'[b].at = tx[b].at /\ tx'[b].read = tx[b].read
    BY <1>3, <1>5, ReadFields
  <1>8. ReadsMatchRows'
    BY <1>7, NowTime, ReadsStay DEF SettingsKept
  <1> QED
    BY <1>4, <1>6, <1>8

\* A trigger that opens reads the schedule as it is, refreshed or not.
LEMMA OpenKeeps ==
    ASSUME IInv, NEW a \in Actors, NEW s \in Schedules, NEW t \in 1..MaxTime, t <= now,
           Open(a, s, t), UNCHANGED <<now, intent, crossed>>
    PROVE  /\ tx' \in [Actors -> {NoTx} \cup ReadTx \cup WriteTx]
           /\ row' \in [Schedules -> RowType]
           /\ (TriggerKeepsSettings /\ ReadsMatchRows /\ EditsSurvive)'
  <1>1. Refresh(row) = row
    BY RefreshChangesNothing DEF IInv, TypeOK
  <1>2. row' = row
    BY <1>1 DEF Open
  <1> DEFINE r == [phase |-> "read", sched |-> s, at |-> t, read |-> row[s]]
  <1>3. r \in ReadTx /\ r.phase = "read" /\ r.sched = s /\ r.at = t /\ r.read = row[s]
    BY DEF ReadTx, IInv, TypeOK
  <1>4. tx' = tx \/ tx' = [tx EXCEPT ![a] = r]
    BY <1>1 DEF Open
  <1> HIDE DEF r
  <1>5. tx' \in [Actors -> {NoTx} \cup ReadTx \cup WriteTx]
    BY <1>3, <1>4 DEF IInv, TypeOK
  <1>6. \A b \in Actors : tx'[b] = tx[b] \/ tx'[b] = r
    BY <1>4 DEF IInv, TypeOK
  <1>7. TriggerKeepsSettings'
    BY <1>3, <1>6 DEF IInv, TriggerKeepsSettings
  <1>8. ReadsMatchRows'
    <2> SUFFICES ASSUME NEW b \in Actors, tx'[b].phase # "none"
                 PROVE  /\ tx'[b].at <= now
                        /\ tx'[b].sched \notin crossed =>
                              /\ row[tx'[b].sched].freq = tx'[b].read.freq
                              /\ row[tx'[b].sched].start = tx'[b].read.start
                              /\ row[tx'[b].sched].end = tx'[b].read.end
                              /\ row[tx'[b].sched].active => tx'[b].read.active
      BY <1>2 DEF ReadsMatchRows
    <2>1. CASE tx'[b] = tx[b]
      BY <2>1 DEF IInv, ReadsMatchRows
    <2>2. CASE tx'[b] = r
      BY <1>3, <2>2
    <2> QED
      BY <1>6, <2>1, <2>2
  <1>9. EditsSurvive'
    BY <1>2, NowTime, SameRows DEF IInv
  <1> QED
    BY <1>2, <1>5, <1>7, <1>8, <1>9 DEF IInv, TypeOK

\* The clock ticks.
LEMMA TickKeeps == IInv /\ Tick => IInv'
  <1> SUFFICES ASSUME IInv, Tick PROVE IInv'
    OBVIOUS
  <1>1. now' \in 1..MaxTime /\ polledAt' \in 0..now'
    BY SchedulerAssumption DEF IInv, TypeOK, Tick
  <1>2. TypeOK'
    BY <1>1 DEF IInv, TypeOK, Tick
  <1>3. EditsSurvive'
    BY NowTime, SameRows DEF IInv, Tick
  <1>4. ReadsMatchRows'
    <2>1. \A a \in Actors : tx[a].phase # "none" => tx[a].at \in Nat /\ tx[a].at <= now
      BY TxShape, SchedulerAssumption DEF IInv, ReadsMatchRows, ReadTx, WriteTx
    <2>2. now' = now + 1 /\ now \in Nat
      BY NowTime DEF Tick
    <2> QED
      BY <2>1, <2>2 DEF IInv, Tick, ReadsMatchRows
  <1> QED
    BY <1>2, <1>3, <1>4 DEF IInv, Tick, PolledBeforeDue, TriggerKeepsSettings

\* The editing handlers of the API.
LEMMA HandlersKeep ==
    ASSUME IInv, NEW s \in Schedules,
           \/ \E d \in Settings : Create(s, d) \/ Update(s, d)
           \/ Activate(s) \/ Deactivate(s) \/ Delete(s)
    PROVE  IInv'
  <1> USE DEF IInv
  <1>1. /\ now \in Nat /\ row[s] \in RowType
        /\ requests \in 0..MaxRequests /\ MaxRequests \in Nat
    BY SchedulerAssumption DEF TypeOK
  <1>2. ASSUME NEW r \in RowType, Edit(s, r)
        PROVE  IInv'
    <2>1. life' \in [Schedules -> {"new", "stored", "deleted"}] /\ requests' \in 0..MaxRequests
      BY <1>1, <1>2 DEF Edit, TypeOK
    <2> QED
      BY <1>2, <2>1, SetRowKeeps DEF Edit
  <1>3. ASSUME NEW d \in Settings, Create(s, d)
        PROVE  IInv'
    <2> DEFINE n == NextRun(d.active, d, now, FALSE)
               r == [NoRow EXCEPT !.active = d.active, !.freq = d.freq, !.start = d.start,
                                  !.end = d.end, !.next = n]
    <2>1. n \in Nat
      BY <1>1, NextRunTime, SettingsFields
    <2> HIDE DEF n
    <2>2. r \in RowType
      BY <2>1, SettingsFields, NoRowType DEF RowType
    <2>3. life' \in [Schedules -> {"new", "stored", "deleted"}] /\ requests' \in 0..MaxRequests
      BY <1>1, <1>3 DEF Create, TypeOK
    <2>4. SetRow(s, r)
      BY <1>3 DEF Create, n
    <2> QED
      BY <2>2, <2>3, <2>4, SetRowKeeps
  <1>4. ASSUME NEW d \in Settings, Update(s, d)
        PROVE  IInv'
    <2> DEFINE n == NextRun(d.active, d, now, FALSE)
               r == [row[s] EXCEPT !.active = d.active, !.freq = d.freq, !.start = d.start,
                                   !.end = d.end, !.next = n]
    <2>1. n \in Nat
      BY <1>1, NextRunTime, SettingsFields
    <2> HIDE DEF n
    <2>2. r \in RowType
      BY <1>1, <2>1, SettingsFields DEF RowType
    <2>3. Edit(s, r)
      BY <1>4 DEF Update, n
    <2> QED
      BY <1>2, <2>2, <2>3
  <1>5. ASSUME Activate(s)
        PROVE  IInv'
    <2> DEFINE n == NextRun(TRUE, row[s], now, FALSE)
               r == [row[s] EXCEPT !.active = TRUE, !.next = n]
    <2>1. n \in Nat
      BY <1>1, NextRunTime, RowFields
    <2> HIDE DEF n
    <2>2. r \in RowType
      BY <1>1, <2>1 DEF RowType
    <2>3. Edit(s, r)
      BY <1>5 DEF Activate, n
    <2> QED
      BY <1>2, <2>2, <2>3
  <1>6. ASSUME Deactivate(s)
        PROVE  IInv'
    <2>1. [row[s] EXCEPT !.active = FALSE, !.next = 0] \in RowType
      BY <1>1 DEF RowType
    <2> QED
      BY <1>2, <1>6, <2>1 DEF Deactivate
  <1>7. ASSUME Delete(s)
        PROVE  IInv'
    <2>1. life' \in [Schedules -> {"new", "stored", "deleted"}] /\ requests' \in 0..MaxRequests
      BY <1>1, <1>7 DEF Delete, TypeOK
    <2> QED
      BY <1>7, <2>1, NoRowType, SetRowKeeps DEF Delete
  <1> QED
    BY <1>3, <1>4, <1>5, <1>6, <1>7

\* A trigger opens, from the API or from the loop.
LEMMA OpeningsKeep ==
    ASSUME IInv, NEW s \in Schedules, RunNow(s) \/ TriggerDue(s)
    PROVE  IInv'
  <1> USE DEF IInv
  <1>1. CASE RunNow(s)
    <2>1. "api" \in Actors /\ now \in 1..MaxTime /\ now <= now
      BY NowTime DEF Actors, TypeOK
    <2>2. /\ Open("api", s, now)
          /\ UNCHANGED <<now, life, runs, due, polledAt, faults, intent, crossed, touched>>
      BY <1>1 DEF RunNow
    <2>3. /\ tx' \in [Actors -> {NoTx} \cup ReadTx \cup WriteTx]
          /\ row' \in [Schedules -> RowType]
          /\ (TriggerKeepsSettings /\ ReadsMatchRows /\ EditsSurvive)'
      BY <2>1, <2>2, OpenKeeps
    <2>4. requests' \in 0..MaxRequests /\ lastStart' \in [Schedules -> 0..MaxTime]
      BY <1>1, SchedulerAssumption DEF RunNow, TypeOK
    <2>5. TypeOK'
      BY <2>2, <2>3, <2>4 DEF TypeOK
    <2> QED
      BY <2>2, <2>3, <2>5 DEF PolledBeforeDue
  <1>2. CASE TriggerDue(s)
    <2>1. "scheduler" \in Actors /\ polledAt \in 1..MaxTime /\ polledAt <= now
      BY <1>2, SchedulerAssumption DEF Actors, TypeOK, PolledBeforeDue, TriggerDue
    <2>2. /\ Open("scheduler", s, polledAt)
          /\ UNCHANGED <<now, life, runs, polledAt, requests, faults, intent, crossed,
                         touched, lastStart>>
      BY <1>2 DEF TriggerDue
    <2>3. /\ tx' \in [Actors -> {NoTx} \cup ReadTx \cup WriteTx]
          /\ row' \in [Schedules -> RowType]
          /\ (TriggerKeepsSettings /\ ReadsMatchRows /\ EditsSurvive)'
      BY <2>1, <2>2, OpenKeeps
    <2>4. due' \in SUBSET Schedules
      BY <1>2 DEF TriggerDue, TypeOK
    <2>5. TypeOK'
      BY <2>2, <2>3, <2>4 DEF TypeOK
    <2>6. PolledBeforeDue'
      BY <2>1, <2>2 DEF PolledBeforeDue
    <2> QED
      BY <2>3, <2>5, <2>6
  <1> QED
    BY <1>1, <1>2

\* trigger_schedule returns early, or decides what to write.
LEMMA TriggersKeep ==
    ASSUME IInv, NEW a \in Actors,
           \/ TriggerRefused(a) \/ TriggerExpired(a) \/ TriggerStarts(a)
           \/ TriggerStartFails(a)
    PROVE  IInv'
  <1> USE DEF IInv
  <1>1. CASE TriggerRefused(a)
    <2>1. /\ tx' \in [Actors -> {NoTx} \cup ReadTx \cup WriteTx] /\ due' \in SUBSET Schedules
          /\ (PolledBeforeDue /\ TriggerKeepsSettings /\ ReadsMatchRows)'
      BY <1>1, LeaveKeeps DEF TriggerRefused, SettingsKept
    <2>2. TypeOK'
      BY <1>1, <2>1 DEF TypeOK, TriggerRefused
    <2>3. EditsSurvive'
      BY <1>1, NowTime, SameRows DEF TriggerRefused
    <2> QED
      BY <2>1, <2>2, <2>3
  <1>2. CASE TriggerStartFails(a)
    <2>1. /\ tx' \in [Actors -> {NoTx} \cup ReadTx \cup WriteTx] /\ due' \in SUBSET Schedules
          /\ (PolledBeforeDue /\ TriggerKeepsSettings /\ ReadsMatchRows)'
      BY <1>2, LeaveKeeps DEF TriggerStartFails, SettingsKept
    <2>2. faults' \in 0..MaxFaults
      BY <1>2, SchedulerAssumption DEF TypeOK, TriggerStartFails
    <2>3. TypeOK'
      BY <1>2, <2>1, <2>2 DEF TypeOK, TriggerStartFails
    <2>4. EditsSurvive'
      BY <1>2, NowTime, SameRows DEF TriggerStartFails
    <2> QED
      BY <2>1, <2>3, <2>4
  <1>3. CASE TriggerExpired(a)
    <2> DEFINE n == [tx[a].read EXCEPT !.active = FALSE, !.next = 0, !.status = "idle"]
    <2>1. tx[a] \in ReadTx /\ tx[a].read \in RowType
      BY <1>3, TxShape, ReadFields DEF TriggerExpired
    <2>2. /\ n \in RowType /\ ~n.active
          /\ n.freq = tx[a].read.freq /\ n.start = tx[a].read.start
          /\ n.end = tx[a].read.end /\ n.next = 0
      BY <2>1 DEF RowType
    <2>3. TriggerWrites(a, n) /\ Expired(tx[a])
      BY <1>3 DEF TriggerExpired
    <2> HIDE DEF n
    <2>7. MayWrite(tx[a].read, tx[a].at, n)
      BY <2>2, <2>3 DEF MayWrite, Expired
    <2>4. /\ tx' \in [Actors -> {NoTx} \cup ReadTx \cup WriteTx]
          /\ (TriggerKeepsSettings /\ ReadsMatchRows)'
      BY <1>3, <2>1, <2>2, <2>3, <2>7, TriggerWritesKeeps DEF TriggerExpired
    <2>5. TypeOK' /\ PolledBeforeDue'
      BY <1>3, <2>4 DEF TypeOK, PolledBeforeDue, TriggerExpired
    <2>6. EditsSurvive'
      BY <1>3, NowTime, SameRows DEF TriggerExpired
    <2> QED
      BY <2>4, <2>5, <2>6
  <1>4. CASE TriggerStarts(a)
    <2> DEFINE next == NextAfter(a)
               skip == [tx[a].read EXCEPT !.status = "skipped",
                          !.next = IF tx[a].read.active THEN next ELSE @]
               start == [tx[a].read EXCEPT !.status = "running",
                          !.next = next, !.exec = Len(runs) + 1]
    <2>1. tx[a] \in ReadTx /\ tx[a].read \in RowType /\ tx[a].at \in Nat
      BY <1>4, TxShape, ReadFields DEF TriggerStarts, MayStart
    <2>2. next \in Nat
      BY <2>1, RowFields, NextRunTime DEF NextAfter
    <2> HIDE DEF next
    <2>3. Len(runs) \in Nat /\ Len(runs) + 1 \in 0..MaxRuns
      BY <1>4, SchedulerAssumption DEF TriggerStarts, TypeOK
    <2>4. skip \in RowType
      <3>1. (IF tx[a].read.active THEN next ELSE tx[a].read.next) \in Nat
        BY <2>1, <2>2, RowFields
      <3> QED
        BY <2>1, <3>1 DEF RowType
    <2>5. start \in RowType
      BY <2>1, <2>2, <2>3 DEF RowType
    <2>6. MayWrite(tx[a].read, tx[a].at, skip)
      <3>1. /\ skip.freq = tx[a].read.freq /\ skip.start = tx[a].read.start
            /\ skip.end = tx[a].read.end /\ skip.active = tx[a].read.active
            /\ skip.next = tx[a].read.next \/ skip.next = next
        BY <2>1 DEF RowType
      <3> QED
        BY <3>1 DEF MayWrite, next, NextAfter
    <2>7. MayWrite(tx[a].read, tx[a].at, start)
      <3>1. /\ start.freq = tx[a].read.freq /\ start.start = tx[a].read.start
            /\ start.end = tx[a].read.end /\ start.active = tx[a].read.active
            /\ start.next = next
        BY <2>1 DEF RowType
      <3> QED
        BY <3>1 DEF MayWrite, next, NextAfter
    <2>9. \/ TriggerWrites(a, skip) /\ runs' = runs
          \/ TriggerWrites(a, start) /\ runs' = Append(runs, "running")
      BY <1>4 DEF TriggerStarts, next
    <2> HIDE DEF skip, start
    <2>10. /\ tx' \in [Actors -> {NoTx} \cup ReadTx \cup WriteTx]
           /\ (TriggerKeepsSettings /\ ReadsMatchRows)'
      <3>1. CASE TriggerWrites(a, skip)
        BY <1>4, <2>1, <2>4, <2>6, <3>1, TriggerWritesKeeps DEF TriggerStarts
      <3>2. CASE TriggerWrites(a, start)
        BY <1>4, <2>1, <2>5, <2>7, <3>2, TriggerWritesKeeps DEF TriggerStarts
      <3> QED
        BY <2>9, <3>1, <3>2
    <2>11. runs' \in Seq({"running", "finished", "rolledback"}) /\ Len(runs') <= MaxRuns
      <3> DEFINE S == {"running", "finished", "rolledback"}
      <3>1. runs \in Seq(S) /\ "running" \in S /\ Len(runs) <= MaxRuns
        BY DEF TypeOK
      <3> HIDE DEF S
      <3>2. Append(runs, "running") \in Seq(S) /\ Len(Append(runs, "running")) = Len(runs) + 1
        BY <3>1
      <3>3. runs' \in Seq(S) /\ Len(runs') <= MaxRuns
        BY <2>3, <2>9, <3>1, <3>2
      <3> QED
        BY <3>3 DEF S
    <2>12. TypeOK' /\ PolledBeforeDue'
      BY <1>4, <2>10, <2>11 DEF TypeOK, PolledBeforeDue, TriggerStarts
    <2>13. EditsSurvive'
      BY <1>4, NowTime, SameRows DEF TriggerStarts
    <2> QED
      BY <2>10, <2>12, <2>13
  <1> QED
    BY <1>1, <1>2, <1>3, <1>4

\* The transaction of a trigger ends; a commit writes the changed columns only.
LEMMA CommitsKeep ==
    ASSUME IInv, NEW a \in Actors, TriggerCommits(a) \/ TriggerCommitFails(a)
    PROVE  IInv'
  <1> USE DEF IInv
  <1>1. tx[a] \in WriteTx /\ tx[a].phase = "write"
    BY TxShape DEF TriggerCommits, TriggerCommitFails
  <1>2. /\ tx[a].sched \in Schedules /\ tx[a].read \in RowType /\ tx[a].new \in RowType
        /\ tx[a].at \in 1..MaxTime
    BY <1>1, WriteFields
  <1>3. MayWrite(tx[a].read, tx[a].at, tx[a].new)
    BY <1>1 DEF TriggerKeepsSettings
  <1>4. /\ Leave(a, TRUE) \/ Leave(a, FALSE)
        /\ UNCHANGED <<now, life, runs, polledAt, requests, intent, crossed>>
    BY DEF TriggerCommits, TriggerCommitFails
  <1>6. /\ lastStart' \in [Schedules -> 0..MaxTime] /\ faults' \in 0..MaxFaults
        /\ touched' \subseteq Schedules
    <2>1. CASE TriggerCommits(a)
      <3>1. \/ UNCHANGED lastStart
            \/ \E x \in 0..MaxTime : lastStart' = [lastStart EXCEPT ![tx[a].sched] = x]
        <4>1. 0 \in 0..MaxTime /\ tx[a].at \in 0..MaxTime
          BY <1>2, SchedulerAssumption
        <4> QED
          BY <2>1, <4>1 DEF TriggerCommits
      <3> QED
        <4>1. lastStart' \in [Schedules -> 0..MaxTime]
          BY <1>2, <3>1, SchedulerAssumption DEF TypeOK
        <4>2. touched' \subseteq Schedules
          <5>1. touched' = touched \/ touched' = touched \cup {tx[a].sched}
            BY <2>1 DEF TriggerCommits
          <5>2. touched \subseteq Schedules
            BY DEF TypeOK
          <5> QED
            BY <1>2, <5>1, <5>2
        <4>3. faults' \in 0..MaxFaults
          BY <2>1 DEF TriggerCommits, TypeOK
        <4> QED
          BY <4>1, <4>2, <4>3
    <2>2. CASE TriggerCommitFails(a)
      BY <1>2, <2>2, SchedulerAssumption DEF TriggerCommitFails, TypeOK
    <2> QED
      BY <2>1, <2>2
  <1> DEFINE s == tx[a].sched
             w == WriteChanged(row[s], tx[a].read, tx[a].new)
  <1>7. row' = row \/ row' = [row EXCEPT ![s] = w]
    BY <1>2 DEF TriggerCommits, TriggerCommitFails, TypeOK
  <1>8. row[s] \in RowType
    BY <1>2 DEF TypeOK
  <1>9. /\ w \in RowType /\ w.freq = row[s].freq /\ w.start = row[s].start
        /\ w.end = row[s].end
        /\ w.active => row[s].active
        /\ w.next = IF tx[a].new.next # tx[a].read.next THEN tx[a].new.next ELSE row[s].next
        /\ w.active = IF tx[a].new.active # tx[a].read.active
                        THEN tx[a].new.active ELSE row[s].active
    BY <1>2, <1>3, <1>8, WriteChangedRow DEF MayWrite
  <1> HIDE DEF w
  <1>10. row' \in [Schedules -> RowType]
    BY <1>2, <1>7, <1>9 DEF TypeOK
  <1>13. SettingsKept
    BY <1>2, <1>7, <1>9 DEF TypeOK, SettingsKept
  <1>5. /\ tx' \in [Actors -> {NoTx} \cup ReadTx \cup WriteTx] /\ due' \in SUBSET Schedules
        /\ (PolledBeforeDue /\ TriggerKeepsSettings /\ ReadsMatchRows)'
    <2>1. PICK e \in BOOLEAN : Leave(a, e)
      BY <1>4
    <2>2. UNCHANGED <<polledAt, now, crossed>>
      BY <1>4
    <2> QED
      BY <1>13, <2>1, <2>2, LeaveKeeps
  <1>11. TypeOK'
    BY <1>4, <1>5, <1>6, <1>10 DEF TypeOK
  <1>12. EditsSurvive'
    <2> SUFFICES ASSUME NEW q \in Schedules
                 PROVE  /\ row'[q].freq = intent[q].freq
                        /\ row'[q].start = intent[q].start /\ row'[q].end = intent[q].end
                        /\ row'[q].active => intent[q].active
                        /\ q \notin crossed => FollowsSettings(q)'
      BY <1>4 DEF EditsSurvive
    <2>1. row'[q] = row[q] \/ (q = s /\ row'[q] = w)
      BY <1>2, <1>7 DEF TypeOK
    <2>2. /\ row[q].freq = intent[q].freq
          /\ row[q].start = intent[q].start /\ row[q].end = intent[q].end
          /\ row[q].active => intent[q].active
          /\ q \notin crossed => FollowsSettings(q)
      BY DEF EditsSurvive
    <2>3. CASE row'[q] = row[q]
      BY <1>4, <2>2, <2>3 DEF FollowsSettings, WindowEnded
    <2>4. CASE q = s /\ row'[q] = w
      <3>1. row'[q].active => row[q].active
        BY <1>9, <2>4
      <3>2. ASSUME q \notin crossed
            PROVE  FollowsSettings(q)'
        <4> DEFINE r == tx[a].read
                   n == tx[a].new
                   t == tx[a].at
                   c == row[q]
                   d == row'[q]
        <4>1. /\ c.freq = r.freq /\ c.start = r.start /\ c.end = r.end
              /\ c.active => r.active
              /\ t <= now
          BY <1>1, <2>4, <3>2 DEF ReadsMatchRows
        <4>2. /\ now \in Nat /\ now' = now /\ t \in 1..now
              /\ c \in RowType /\ r \in RowType /\ n \in RowType
          BY <1>2, <1>4, <1>8, <2>4, <4>1, NowTime
        <4>3. /\ d.freq = c.freq /\ d.start = c.start /\ d.end = c.end
              /\ d.active => c.active
              /\ d.next = IF n.next # r.next THEN n.next ELSE c.next
              /\ d.active = IF n.active # r.active THEN n.active ELSE c.active
          BY <1>9, <2>4
        <4>4. MayWrite(r, t, n)
          BY <1>3
        <4>5. /\ intent[q].active => c.active \/ WindowEnded(q)
              /\ \/ c.next = intent[q].next
                 \/ \E u \in 1..now : c.next = NextRun(TRUE, c, u, TRUE)
                 \/ c.next = 0 /\ ~c.active
          BY <2>2, <3>2 DEF FollowsSettings
        <4>6. /\ c.active \in BOOLEAN /\ r.active \in BOOLEAN /\ n.active \in BOOLEAN
              /\ c.end \in Nat
          BY <4>2, RowFields
        <4>7. \A u \in 1..now : NextRun(TRUE, d, u, TRUE) = NextRun(TRUE, c, u, TRUE)
          BY <4>3 DEF NextRun
        <4>8. NextRun(TRUE, d, t, TRUE) = NextRun(TRUE, r, t, TRUE)
          BY <4>1, <4>3 DEF NextRun
        <4>9. WindowEnded(q)' <=> (c.end # 0 /\ now > c.end)
          BY <4>2, <4>3 DEF WindowEnded
        <4>10. WindowEnded(q) <=> (c.end # 0 /\ now > c.end)
          BY DEF WindowEnded
        <4>11. intent[q]' = intent[q]
          BY <1>4
        <4> HIDE DEF r, n, t, c, d
        <4>12. intent[q].active => d.active \/ WindowEnded(q)'
          <5>1. CASE n.active # r.active
            <6>1. r.end # 0 /\ t > r.end
              BY <4>4, <5>1 DEF MayWrite
            <6> QED
              BY <4>1, <4>2, <4>6, <4>9, <6>1
          <5>2. CASE n.active = r.active
            BY <4>3, <4>5, <4>9, <4>10, <5>2
          <5> QED
            BY <5>1, <5>2
        <4>13. \/ d.next = intent[q].next
               \/ \E u \in 1..now : d.next = NextRun(TRUE, d, u, TRUE)
               \/ d.next = 0 /\ ~d.active
          <5>1. CASE n.next = r.next
            <6>1. d.next = c.next
              BY <4>3, <5>1
            <6> QED
              BY <4>3, <4>5, <4>7, <6>1
          <5>2. CASE n.next # r.next /\ n.next = NextRun(r.active, r, t, TRUE)
            <6>1. d.next = NextRun(r.active, r, t, TRUE)
              BY <4>3, <5>2
            <6>2. CASE r.active = TRUE
              BY <4>2, <4>8, <6>1, <6>2
            <6>3. CASE r.active = FALSE
              BY <4>1, <4>3, <6>1, <6>3, NoNextRun
            <6> QED
              BY <4>6, <6>2, <6>3
          <5>3. CASE n.next # r.next /\ n.next = 0 /\ ~n.active
            <6>1. ~d.active
              BY <4>1, <4>3, <4>6, <5>3
            <6> QED
              BY <4>3, <5>3, <6>1
          <5> QED
            BY <4>4, <5>1, <5>2, <5>3 DEF MayWrite
        <4> QED
          BY <4>2, <4>11, <4>12, <4>13 DEF FollowsSettings, d
      <3> QED
        BY <1>9, <2>2, <2>4, <3>1, <3>2
    <2> QED
      BY <2>1, <2>3, <2>4
  <1> QED
    BY <1>5, <1>11, <1>12

\* The loop polls, a run ends, the process restarts.
LEMMA OthersKeep ==
    ASSUME IInv, Poll \/ RunStep \/ Restart
    PROVE  IInv'
  <1> USE DEF IInv
  <1>1. CASE Poll
    <2>1. row' = row
      BY <1>1, RefreshChangesNothing DEF Poll, TypeOK
    <2>2. due' \in SUBSET Schedules /\ polledAt' \in 0..now
      BY <1>1 DEF Poll, TypeOK
    <2>3. TypeOK'
      BY <1>1, <2>1, <2>2 DEF Poll, TypeOK
    <2>4. PolledBeforeDue'
      BY <1>1 DEF Poll, TypeOK, PolledBeforeDue
    <2>5. EditsSurvive'
      BY <1>1, <2>1, NowTime, SameRows DEF Poll
    <2> QED
      BY <1>1, <2>1, <2>3, <2>4, <2>5 DEF Poll, TriggerKeepsSettings, ReadsMatchRows
  <1>2. CASE RunStep
    <2>1. PICK r \in DOMAIN runs, st \in {"finished", "rolledback"} : RunEnds(r, st)
      BY <1>2 DEF RunStep
    <2>2. runs' \in Seq({"running", "finished", "rolledback"}) /\ Len(runs') = Len(runs)
      BY <2>1 DEF RunEnds, TypeOK
    <2>3. TypeOK'
      BY <2>1, <2>2 DEF RunEnds, TypeOK
    <2>4. EditsSurvive'
      BY <2>1, NowTime, SameRows DEF RunEnds
    <2> QED
      BY <2>1, <2>3, <2>4 DEF RunEnds, PolledBeforeDue, TriggerKeepsSettings, ReadsMatchRows
  <1>3. CASE Restart
    <2>1. runs' \in Seq({"running", "finished", "rolledback"}) /\ Len(runs') = Len(runs)
      BY <1>3 DEF Restart, TypeOK
    <2>2. /\ tx' \in [Actors -> {NoTx} \cup ReadTx \cup WriteTx]
          /\ due' = {} /\ \A a \in Actors : tx'[a].phase = "none"
      BY <1>3 DEF Restart, NoTx
    <2>3. faults' \in 0..MaxFaults /\ lastStart' \in [Schedules -> 0..MaxTime]
      BY <1>3, SchedulerAssumption DEF Restart, TypeOK
    <2>4. TypeOK'
      BY <1>3, <2>1, <2>2, <2>3 DEF Restart, TypeOK
    <2>5. (PolledBeforeDue /\ TriggerKeepsSettings /\ ReadsMatchRows)'
      BY <2>2 DEF PolledBeforeDue, TriggerKeepsSettings, ReadsMatchRows, Actors
    <2>6. EditsSurvive'
      BY <1>3, NowTime, SameRows DEF Restart
    <2> QED
      BY <2>4, <2>5, <2>6
  <1> QED
    BY <1>1, <1>2, <1>3

-----------------------------------------------------------------------------
(* The theorems.                                                           *)

\* The parts of IInv support each other: what a trigger may write depends on
\* what it read, and the row on what is written.
THEOREM InductiveInvariant == Spec => []IInv
  <1>1. IInv /\ [Next]_vars => IInv'
    <2> SUFFICES ASSUME IInv, [Next]_vars PROVE IInv'
      OBVIOUS
    <2>1. CASE Tick
      BY <2>1, TickKeeps
    <2>2. CASE SchedulerStep
      BY <2>2, OthersKeep, OpeningsKeep, TriggersKeep, CommitsKeep DEF SchedulerStep, Actors
    <2>3. CASE ApiStep
      BY <2>3, HandlersKeep, OpeningsKeep, TriggersKeep, CommitsKeep DEF ApiStep, Actors
    <2>4. CASE RunStep
      BY <2>4, OthersKeep
    <2>5. CASE FaultStep
      BY <2>5, OthersKeep, TriggersKeep, CommitsKeep DEF FaultStep
    <2>6. CASE UNCHANGED vars
      <3>1. TypeOK' /\ PolledBeforeDue' /\ TriggerKeepsSettings'
        BY <2>6 DEF vars, IInv, TypeOK, PolledBeforeDue, TriggerKeepsSettings
      <3>2. ReadsMatchRows'
        BY <2>6 DEF vars, IInv, ReadsMatchRows
      <3>3. EditsSurvive'
        BY <2>6, NowTime, SameRows DEF vars, IInv
      <3> QED
        BY <3>1, <3>2, <3>3 DEF IInv
    <2> QED
      BY <2>1, <2>2, <2>3, <2>4, <2>5, <2>6 DEF Next
  <1> QED
    BY <1>1, InitIInv, PTL DEF Spec

\* Every variable keeps its shape, whatever the API, the loop and the faults do.
THEOREM TypeCorrect == Spec => []TypeOK
  <1>1. IInv => TypeOK
    BY DEF IInv
  <1> QED
    BY <1>1, InductiveInvariant, PTL

\* What the API set stays as EditsSurvive says: no trigger_schedule undoes an
\* edit, but for one that had read the schedule before that edit.
THEOREM TriggersRespectEdits == Spec => []EditsSurvive
  <1>1. IInv => EditsSurvive
    BY DEF IInv
  <1> QED
    BY <1>1, InductiveInvariant, PTL

-----------------------------------------------------------------------------
(* The frequency.                                                          *)

\* After a run the next one is at least the frequency away, or there is none.
LEMMA NextRunDelayed ==
    ASSUME NEW active \in BOOLEAN, NEW d, d.freq \in Nat, d.start \in Nat, d.end \in Nat,
           NEW t \in Nat
    PROVE  \/ NextRun(active, d, t, TRUE) = 0
           \/ NextRun(active, d, t, TRUE) >= t + d.freq
  BY DEF NextRun

(* A step keeps FInv if it forgets the last run of a schedule or leaves    *)
(* its row alone, adds nothing to the list, and leaves the loop's trigger  *)
(* alone or ends it.                                                       *)
LEMMA QuietStep ==
    ASSUME IInv, FInv,
           \A s \in Schedules : \/ lastStart'[s] = 0
                                \/ lastStart'[s] = lastStart[s] /\ row'[s] = row[s],
           due' \subseteq due, polledAt' = polledAt,
           tx'["scheduler"] = tx["scheduler"] \/ tx'["scheduler"].phase = "none"
    PROVE  FInv'
  <1>1. StartMovesNext' /\ TakenFromList'
    BY DEF FInv, StartMovesNext, TakenFromList
  <1>2. ASSUME NEW s \in Schedules, lastStart'[s] # 0
        PROVE  LET soonest == lastStart'[s] + row'[s].freq
               IN  /\ row'[s].next = 0 \/ row'[s].next >= soonest
                   /\ s \in due' => polledAt' >= soonest
                   /\ tx'["scheduler"].phase = "read" /\ tx'["scheduler"].sched = s =>
                         tx'["scheduler"].at >= soonest
    BY <1>2 DEF FInv, NothingTooEarly
  <1> QED
    BY <1>1, <1>2 DEF FInv, NothingTooEarly

\* The steps of the API, the runs and the faults are quiet.
LEMMA OtherStepsKeepFrequency ==
    ASSUME IInv, FInv, Tick \/ ApiStep \/ RunStep \/ FaultStep
    PROVE  FInv'
  <1> USE DEF IInv
  <1>1. Refresh(row) = row
    BY RefreshChangesNothing DEF TypeOK
  <1>2. CASE Tick \/ RunStep \/ Restart
    <2>1. /\ row' = row /\ polledAt' = polledAt /\ due' \subseteq due
          /\ \A s \in Schedules : lastStart'[s] = 0 \/ lastStart'[s] = lastStart[s]
          /\ tx'["scheduler"] = tx["scheduler"] \/ tx'["scheduler"].phase = "none"
      BY <1>2 DEF Tick, RunStep, RunEnds, Restart, NoTx, Actors
    <2> QED
      BY <2>1, QuietStep
  <1>3. ASSUME NEW s \in Schedules, NEW r, SetRow(s, r)
        PROVE  FInv'
    <2>1. \A q \in Schedules : \/ lastStart'[q] = 0
                               \/ lastStart'[q] = lastStart[q] /\ row'[q] = row[q]
      BY <1>3 DEF SetRow, TypeOK
    <2> QED
      BY <1>3, <2>1, QuietStep DEF SetRow
  <1>4. ASSUME NEW s \in Schedules, RunNow(s)
        PROVE  FInv'
    <2>1. /\ row' = row /\ polledAt' = polledAt /\ due' = due
          /\ tx'["scheduler"] = tx["scheduler"]
      BY <1>1, <1>4 DEF RunNow, Open, TypeOK, Actors
    <2>2. \A q \in Schedules : lastStart'[q] = 0 \/ lastStart'[q] = lastStart[q]
      BY <1>4 DEF RunNow, TypeOK
    <2> QED
      BY <2>1, <2>2, QuietStep
  <1>5. ASSUME TriggerStarts("api")
        PROVE  FInv'
    <2>1. tx'["scheduler"] = tx["scheduler"]
      BY <1>5 DEF TriggerStarts, TriggerWrites, TypeOK, Actors
    <2> QED
      BY <1>5, <2>1, QuietStep DEF TriggerStarts
  <1>6. ASSUME TriggerCommits("api")
        PROVE  FInv'
    <2>1. tx'["scheduler"] = tx["scheduler"] /\ due' \subseteq due
      BY <1>6 DEF TriggerCommits, Leave, TypeOK, Actors
    <2>2. \A q \in Schedules : \/ lastStart'[q] = 0
                               \/ lastStart'[q] = lastStart[q] /\ row'[q] = row[q]
      BY <1>6 DEF TriggerCommits, TypeOK
    <2> QED
      BY <1>6, <2>1, <2>2, QuietStep DEF TriggerCommits
  <1>7. ASSUME NEW a \in Actors, TriggerStartFails(a) \/ TriggerCommitFails(a)
        PROVE  FInv'
    <2>1. /\ tx'["scheduler"] = tx["scheduler"] \/ tx'["scheduler"].phase = "none"
          /\ due' \subseteq due
      BY <1>7 DEF TriggerStartFails, TriggerCommitFails, Leave, TypeOK, Actors, NoTx
    <2>2. \A q \in Schedules : lastStart'[q] = 0 \/ lastStart'[q] = lastStart[q]
      BY <1>7 DEF TriggerStartFails, TriggerCommitFails, TypeOK
    <2> QED
      BY <1>7, <2>1, <2>2, QuietStep DEF TriggerStartFails, TriggerCommitFails
  <1>8. CASE ApiStep
    <2>1. ASSUME NEW s \in Schedules, NEW d \in Settings, Create(s, d) \/ Update(s, d)
          PROVE  FInv'
      BY <1>3, <2>1 DEF Create, Update, Edit
    <2>2. ASSUME NEW s \in Schedules, Activate(s) \/ Deactivate(s) \/ Delete(s)
          PROVE  FInv'
      BY <1>3, <2>2 DEF Activate, Deactivate, Delete, Edit
    <2> QED
      BY <1>4, <1>5, <1>6, <1>8, <2>1, <2>2 DEF ApiStep
  <1> QED
    BY <1>2, <1>7, <1>8 DEF FaultStep

\* The loop lists the schedules that are due now.
LEMMA PollKeepsFrequency ==
    ASSUME IInv, FInv, Poll
    PROVE  FInv'
  <1> USE DEF IInv
  <1>1. row' = row /\ tx' = tx /\ lastStart' = lastStart /\ tx["scheduler"].phase = "none"
    BY RefreshChangesNothing DEF Poll, TypeOK
  <1>2. StartMovesNext' /\ TakenFromList'
    BY <1>1 DEF StartMovesNext, TakenFromList
  <1>3. ASSUME NEW s \in Schedules, lastStart[s] # 0, s \in due'
        PROVE  polledAt' >= lastStart[s] + row[s].freq
    <2>1. row[s].next # 0 /\ row[s].next <= polledAt'
      BY <1>3 DEF Poll, Due, DueAt
    <2>2. row[s].next >= lastStart[s] + row[s].freq
      BY <1>3, <2>1 DEF FInv, NothingTooEarly
    <2>3. row[s].next \in Nat /\ row[s].freq \in Nat /\ polledAt' \in Nat
            /\ lastStart[s] \in Nat
      BY RowFields, SchedulerAssumption DEF TypeOK, Poll
    <2> QED
      BY <2>1, <2>2, <2>3
  <1>4. NothingTooEarly'
    BY <1>1, <1>3 DEF FInv, NothingTooEarly
  <1> QED
    BY <1>2, <1>4 DEF FInv

\* The loop opens a trigger for a schedule of its list.
LEMMA TriggerDueKeepsFrequency ==
    ASSUME IInv, FInv, NEW s \in Schedules, TriggerDue(s)
    PROVE  FInv'
  <1> USE DEF IInv
  <1>1. /\ row' = row /\ lastStart' = lastStart /\ polledAt' = polledAt
        /\ due' \subseteq due
    BY RefreshChangesNothing DEF TriggerDue, Open, TypeOK
  <1>2. CASE life[s] = "stored"
    <2>1. /\ tx'["scheduler"].phase = "read" /\ tx'["scheduler"].sched = s
          /\ tx'["scheduler"].at = polledAt
      BY <1>2 DEF TriggerDue, Open, TypeOK, Actors
    <2>2. StartMovesNext'
      BY <2>1 DEF StartMovesNext
    <2>3. s \notin due' /\ s \in due
      BY <1>2 DEF TriggerDue
    <2>4. TakenFromList'
      BY <2>1, <2>3 DEF TakenFromList
    <2>5. NothingTooEarly'
      BY <1>1, <2>1, <2>3 DEF FInv, NothingTooEarly
    <2> QED
      BY <2>2, <2>4, <2>5 DEF FInv
  <1>3. CASE life[s] # "stored"
    <2>1. tx' = tx
      BY <1>3 DEF TriggerDue, Open
    <2> QED
      BY <1>1, <2>1, QuietStep
  <1> QED
    BY <1>2, <1>3

\* The loop's trigger decides; a run that it starts moves the next one on.
LEMMA DecisionKeepsFrequency ==
    ASSUME IInv, FInv,
           \/ TriggerRefused("scheduler") \/ TriggerExpired("scheduler")
           \/ TriggerStarts("scheduler")
    PROVE  FInv'
  <1> USE DEF IInv
  <1> DEFINE t == tx["scheduler"]
  <1>1. CASE TriggerRefused("scheduler")
    <2>1. tx'["scheduler"].phase = "none" /\ due' = due
      BY <1>1 DEF TriggerRefused, Leave, TypeOK, Actors, NoTx
    <2> QED
      BY <1>1, <2>1, QuietStep DEF TriggerRefused
  <1>2. CASE TriggerExpired("scheduler") \/ TriggerStarts("scheduler")
    <2>1. /\ t \in ReadTx /\ t.phase = "read" /\ t.read \in RowType /\ t.at \in Nat
      BY <1>2, TxShape, ReadFields DEF TriggerExpired, TriggerStarts, MayStart, Actors
    <2>2. /\ tx'["scheduler"].phase = "write" /\ tx'["scheduler"].sched = t.sched
          /\ tx'["scheduler"].at = t.at /\ tx'["scheduler"].read = t.read
      BY <1>2 DEF TriggerExpired, TriggerStarts, TriggerWrites, TypeOK, Actors
    <2>3. UNCHANGED <<row, due, polledAt, lastStart>>
      BY <1>2 DEF TriggerExpired, TriggerStarts
    <2>4. TakenFromList' /\ NothingTooEarly'
      BY <2>1, <2>2, <2>3 DEF FInv, TakenFromList, NothingTooEarly
    <2>5. StartMovesNext'
      <3> DEFINE next == NextAfter("scheduler")
                 n == tx'["scheduler"].new
      <3>1. next = 0 \/ next >= t.at + t.read.freq
        BY <2>1, RowFields, NextRunDelayed DEF NextAfter
      <3> HIDE DEF next
      <3>2. n.exec # t.read.exec => n.next = next /\ n.freq = t.read.freq
        <4>1. \/ n = [t.read EXCEPT !.active = FALSE, !.next = 0, !.status = "idle"]
              \/ n = [t.read EXCEPT !.status = "skipped",
                        !.next = IF t.read.active THEN next ELSE @]
              \/ n = [t.read EXCEPT !.status = "running", !.next = next,
                                    !.exec = Len(runs) + 1]
          BY <1>2 DEF TriggerExpired, TriggerStarts, TriggerWrites, TypeOK, Actors, next
        <4> HIDE DEF n
        <4> QED
          BY <2>1, <4>1 DEF RowType
      <3> QED
        BY <2>2, <3>1, <3>2 DEF StartMovesNext
    <2> QED
      BY <2>4, <2>5 DEF FInv
  <1> QED
    BY <1>1, <1>2

\* The loop's trigger commits: the time of its run is remembered with a next
\* run that is far enough.
LEMMA CommitKeepsFrequency ==
    ASSUME IInv, FInv, TriggerCommits("scheduler")
    PROVE  FInv'
  <1> USE DEF IInv
  <1> DEFINE t == tx["scheduler"]
             s == t.sched
  <1>1. /\ t \in WriteTx /\ t.phase = "write" /\ s \in Schedules
        /\ t.read \in RowType /\ t.new \in RowType /\ t.at \in Nat
    BY TxShape, WriteFields, SchedulerAssumption DEF TriggerCommits, Actors
  <1>2. tx'["scheduler"].phase = "none" /\ due' \subseteq due /\ polledAt' = polledAt
    BY DEF TriggerCommits, Leave, TypeOK, Actors, NoTx
  <1>3. CASE life[s] = "stored" /\ row[s] = t.read /\ t.new.exec # row[s].exec
    <2>1. s \notin due
      BY <1>1 DEF FInv, TakenFromList
    <2>2. t.new.next = 0 \/ t.new.next >= t.at + t.new.freq
      BY <1>1, <1>3 DEF FInv, StartMovesNext
    <2>3. /\ lastStart' = [lastStart EXCEPT ![s] = t.at]
          /\ row' = [row EXCEPT ![s] = WriteChanged(row[s], t.read, t.new)]
      BY <1>3 DEF TriggerCommits
    <2>4. WriteChanged(row[s], t.read, t.new).next = t.new.next
      BY <1>1, <1>3, RowFields DEF WriteChanged
    <2>5. WriteChanged(row[s], t.read, t.new).freq = t.new.freq
      BY <1>1, <1>3, RowFields DEF WriteChanged
    <2>6. /\ lastStart'[s] = t.at /\ row'[s].next = t.new.next /\ row'[s].freq = t.new.freq
          /\ \A q \in Schedules \ {s} : lastStart'[q] = lastStart[q] /\ row'[q] = row[q]
      BY <1>1, <2>3, <2>4, <2>5 DEF TypeOK
    <2>7. StartMovesNext' /\ TakenFromList'
      BY <1>2 DEF StartMovesNext, TakenFromList
    <2> HIDE DEF s, t
    <2>8. ASSUME NEW q \in Schedules, lastStart'[q] # 0
          PROVE  LET soonest == lastStart'[q] + row'[q].freq
                 IN  /\ row'[q].next = 0 \/ row'[q].next >= soonest
                     /\ q \in due' => polledAt' >= soonest
                     /\ tx'["scheduler"].phase = "read" /\ tx'["scheduler"].sched = q =>
                           tx'["scheduler"].at >= soonest
      <3>1. CASE q = s
        BY <1>2, <2>1, <2>2, <2>6, <3>1
      <3>2. CASE q # s
        BY <1>2, <2>6, <2>8, <3>2 DEF FInv, NothingTooEarly
      <3> QED
        BY <3>1, <3>2
    <2> QED
      BY <2>7, <2>8 DEF FInv, NothingTooEarly
  <1>4. CASE life[s] # "stored" \/ row[s] # t.read \/ t.new.exec = row[s].exec
    <2>1. \A q \in Schedules : \/ lastStart'[q] = 0
                               \/ lastStart'[q] = lastStart[q] /\ row'[q] = row[q]
      BY <1>1, <1>4 DEF TriggerCommits, TypeOK
    <2> QED
      BY <1>2, <2>1, QuietStep
  <1> QED
    BY <1>3, <1>4

\* Nothing ever points to a time before the next run.
LEMMA FrequencyInvariant == Spec => []FInv
  <1>1. Init => FInv
    BY DEF Init, FInv, StartMovesNext, TakenFromList, NothingTooEarly, NoTx, Actors
  <1>2. IInv /\ FInv /\ [Next]_vars => FInv'
    <2> SUFFICES ASSUME IInv, FInv, [Next]_vars PROVE FInv'
      OBVIOUS
    <2>1. CASE SchedulerStep
      BY <2>1, PollKeepsFrequency, TriggerDueKeepsFrequency, DecisionKeepsFrequency,
         CommitKeepsFrequency DEF SchedulerStep
    <2>2. CASE Tick \/ ApiStep \/ RunStep \/ FaultStep
      BY <2>2, OtherStepsKeepFrequency
    <2>3. CASE UNCHANGED vars
      BY <2>3 DEF vars, FInv, StartMovesNext, TakenFromList, NothingTooEarly
    <2> QED
      BY <2>1, <2>2, <2>3 DEF Next
  <1> QED
    BY <1>1, <1>2, InductiveInvariant, PTL DEF Spec

\* Two scheduled runs of a schedule are at least its frequency apart, unless
\* an edit, a manual run or a fault came in between.
THEOREM RunsAreSpaced == Spec => FrequencyKept
  <1>1. IInv /\ FInv /\ [Next]_vars =>
          [\A s \in Schedules : ScheduledStart(s) /\ lastStart[s] # 0 =>
                tx["scheduler"].at >= lastStart[s] + row[s].freq]_vars
    BY DEF FInv, NothingTooEarly, ScheduledStart
  <1> QED
    BY <1>1, FrequencyInvariant, InductiveInvariant, PTL DEF Spec, FrequencyKept

-----------------------------------------------------------------------------
(* The list of due schedules.                                              *)

\* What the list and the open trigger of the loop hold was due at the poll,
\* and still is unless the API changed it since.
ListIsTrue ==
    \A s \in Schedules :
        s \notin touched /\ (s \in due \/ (/\ tx["scheduler"].phase = "read"
                                           /\ tx["scheduler"].sched = s))
          => DueAt(s, polledAt)

(* A step keeps the list true if it leaves the rows alone that the API did *)
(* not touch, adds nothing to the list and opens no trigger of the loop.   *)
LEMMA ListStays ==
    ASSUME ListIsTrue, polledAt' = polledAt, touched \subseteq touched', due' \subseteq due,
           \A s \in Schedules : s \in touched' \/ row'[s] = row[s] \/ s \notin due',
           \/ /\ tx'["scheduler"] = tx["scheduler"]
              /\ \A s \in Schedules : s \in touched' \/ row'[s] = row[s]
           \/ tx'["scheduler"].phase # "read"
    PROVE  ListIsTrue'
  BY DEF ListIsTrue, DueAt

\* The steps that are not the loop's.
LEMMA OthersKeepList ==
    ASSUME IInv, ListIsTrue, Tick \/ ApiStep \/ RunStep \/ FaultStep
    PROVE  ListIsTrue'
  <1> USE DEF IInv
  <1>1. Refresh(row) = row
    BY RefreshChangesNothing DEF TypeOK
  <1>2. CASE Tick \/ RunStep \/ Restart
    <2>1. /\ row' = row /\ polledAt' = polledAt /\ due' \subseteq due /\ touched' = touched
          /\ tx'["scheduler"] = tx["scheduler"] \/ tx'["scheduler"].phase # "read"
      BY <1>2 DEF Tick, RunStep, RunEnds, Restart, NoTx, Actors
    <2> QED
      BY <2>1, ListStays
  <1>3. ASSUME NEW s \in Schedules, NEW r, SetRow(s, r)
        PROVE  ListIsTrue'
    <2>1. \A q \in Schedules : q \in touched' \/ row'[q] = row[q]
      BY <1>3 DEF SetRow, TypeOK
    <2>2. /\ polledAt' = polledAt /\ due' = due /\ tx' = tx
          /\ touched \subseteq touched'
      BY <1>3 DEF SetRow
    <2> QED
      BY <2>1, <2>2, ListStays
  <1>4. ASSUME NEW s \in Schedules, RunNow(s)
        PROVE  ListIsTrue'
    <2>1. /\ row' = row /\ polledAt' = polledAt /\ due' = due /\ touched' = touched
          /\ tx'["scheduler"] = tx["scheduler"]
      BY <1>1, <1>4 DEF RunNow, Open, TypeOK, Actors
    <2> QED
      BY <2>1, ListStays
  <1>5. ASSUME TriggerStarts("api")
        PROVE  ListIsTrue'
    <2>1. tx'["scheduler"] = tx["scheduler"]
      BY <1>5 DEF TriggerStarts, TriggerWrites, TypeOK, Actors
    <2>2. /\ row' = row /\ polledAt' = polledAt /\ due' = due /\ touched' = touched
      BY <1>5 DEF TriggerStarts
    <2> QED
      BY <2>1, <2>2, ListStays
  <1>6. ASSUME TriggerCommits("api")
        PROVE  ListIsTrue'
    <2>1. tx'["scheduler"] = tx["scheduler"] /\ due' \subseteq due /\ polledAt' = polledAt
      BY <1>6 DEF TriggerCommits, Leave, TypeOK, Actors
    <2>2. touched \subseteq touched'
      BY <1>6 DEF TriggerCommits
    <2>3. \A q \in Schedules : q \in touched' \/ row'[q] = row[q]
      BY <1>6 DEF TriggerCommits, TypeOK
    <2> QED
      BY <2>1, <2>2, <2>3, ListStays
  <1>7. ASSUME NEW a \in Actors, TriggerStartFails(a) \/ TriggerCommitFails(a)
        PROVE  ListIsTrue'
    <2>1. /\ tx'["scheduler"] = tx["scheduler"] \/ tx'["scheduler"].phase # "read"
          /\ due' \subseteq due
      BY <1>7 DEF TriggerStartFails, TriggerCommitFails, Leave, TypeOK, Actors, NoTx
    <2>2. /\ row' = row /\ polledAt' = polledAt /\ touched' = touched
      BY <1>7 DEF TriggerStartFails, TriggerCommitFails
    <2> QED
      BY <2>1, <2>2, ListStays
  <1>8. CASE ApiStep
    <2>1. ASSUME NEW s \in Schedules, NEW d \in Settings, Create(s, d) \/ Update(s, d)
          PROVE  ListIsTrue'
      BY <1>3, <2>1 DEF Create, Update, Edit
    <2>2. ASSUME NEW s \in Schedules, Activate(s) \/ Deactivate(s) \/ Delete(s)
          PROVE  ListIsTrue'
      BY <1>3, <2>2 DEF Activate, Deactivate, Delete, Edit
    <2> QED
      BY <1>4, <1>5, <1>6, <1>8, <2>1, <2>2 DEF ApiStep
  <1> QED
    BY <1>2, <1>7, <1>8 DEF FaultStep

\* The steps of the loop: a schedule leaves the list when its trigger opens.
LEMMA LoopKeepsList ==
    ASSUME IInv, FInv, ListIsTrue, SchedulerStep
    PROVE  ListIsTrue'
  <1> USE DEF IInv
  <1>1. Refresh(row) = row
    BY RefreshChangesNothing DEF TypeOK
  <1>2. CASE Poll
    BY <1>1, <1>2 DEF Poll, ListIsTrue, Due, DueAt
  <1>3. ASSUME NEW s \in Schedules, TriggerDue(s)
        PROVE  ListIsTrue'
    <2>1. /\ row' = row /\ polledAt' = polledAt /\ due' \subseteq due /\ touched' = touched
      BY <1>1, <1>3 DEF TriggerDue, Open
    <2>2. \/ tx'["scheduler"] = tx["scheduler"]
          \/ tx'["scheduler"].sched = s
      BY <1>3 DEF TriggerDue, Open, TypeOK, Actors
    <2>3. s \in due
      BY <1>3 DEF TriggerDue
    <2> QED
      BY <2>1, <2>2, <2>3 DEF ListIsTrue, DueAt
  <1>4. CASE TriggerRefused("scheduler")
    <2>1. tx'["scheduler"].phase # "read" /\ due' \subseteq due
      BY <1>4 DEF TriggerRefused, Leave, TypeOK, Actors, NoTx
    <2>2. row' = row /\ polledAt' = polledAt /\ touched' = touched
      BY <1>4 DEF TriggerRefused
    <2> QED
      BY <2>1, <2>2, ListStays
  <1>5. CASE TriggerExpired("scheduler") \/ TriggerStarts("scheduler")
    <2>1. tx'["scheduler"].phase # "read"
      BY <1>5 DEF TriggerExpired, TriggerStarts, TriggerWrites, TypeOK, Actors
    <2>2. row' = row /\ polledAt' = polledAt /\ touched' = touched /\ due' = due
      BY <1>5 DEF TriggerExpired, TriggerStarts
    <2> QED
      BY <2>1, <2>2, ListStays
  <1>6. CASE TriggerCommits("scheduler")
    <2>1. tx'["scheduler"].phase # "read" /\ due' \subseteq due
      BY <1>6 DEF TriggerCommits, Leave, TypeOK, Actors, NoTx
    <2>2. polledAt' = polledAt /\ touched' = touched
      BY <1>6 DEF TriggerCommits
    <2>3. tx["scheduler"].sched \notin due
      BY <1>6 DEF TriggerCommits, FInv, TakenFromList
    <2>4. \A q \in Schedules : q = tx["scheduler"].sched \/ row'[q] = row[q]
      BY <1>6 DEF TriggerCommits, TypeOK
    <2>5. \A q \in Schedules : q \in touched' \/ row'[q] = row[q] \/ q \notin due'
      BY <2>1, <2>3, <2>4
    <2> QED
      BY <2>1, <2>2, <2>5, ListStays
  <1> QED
    BY <1>2, <1>3, <1>4, <1>5, <1>6 DEF SchedulerStep

\* The loop starts runs of schedules only that were due when it polled, as
\* long as the API leaves them alone: no entry of the list is used twice or late.
THEOREM StaleListIsHarmless == Spec => StartsWhatIsDue
  <1>1. Init => ListIsTrue
    BY DEF Init, ListIsTrue, NoTx, Actors
  <1>2. IInv /\ FInv /\ ListIsTrue /\ [Next]_vars => ListIsTrue'
    <2> SUFFICES ASSUME IInv, FInv, ListIsTrue, [Next]_vars PROVE ListIsTrue'
      OBVIOUS
    <2>1. CASE SchedulerStep
      BY <2>1, LoopKeepsList
    <2>2. CASE Tick \/ ApiStep \/ RunStep \/ FaultStep
      BY <2>2, OthersKeepList
    <2>3. CASE UNCHANGED vars
      BY <2>3 DEF vars, ListIsTrue, DueAt
    <2> QED
      BY <2>1, <2>2, <2>3 DEF Next
  <1>3. ListIsTrue /\ [Next]_vars =>
          [\A s \in Schedules : ScheduledStart(s) /\ s \notin touched => DueAt(s, polledAt)]_vars
    BY DEF ListIsTrue, ScheduledStart
  <1> QED
    BY <1>1, <1>2, <1>3, InductiveInvariant, FrequencyInvariant, PTL DEF Spec, StartsWhatIsDue
=============================================================================

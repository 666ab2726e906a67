--------------------------- MODULE Backups_proofs ---------------------------
(* Proofs about Backups for every set of schedules, targets, expressions    *)
(* and requests, and every bound on the rows.                              *)
EXTENDS Backups, SequenceTheorems, TLAPS

\* What the fields of a request hold at each of its program counters.
Shape(r) ==
    /\ r.pc \in {"update", "schedule", "unschedule", "reschedule"} => r.s \in Schedules
    /\ r.pc \in {"find", "forget", "delete"} => r.t \in Targets /\ r.b \in Backups

SchedOK == sched \in [Schedules -> Schedule]
BkOK    == /\ bk \in [Backups -> Backup]
           /\ \A b \in Backups : ~Present(b) => bk[b].sched = None /\ bk[b].target = None
           /\ \A b \in Backups : Present(b) => bk[b].sched \in Schedules /\ bk[b].target \in Targets
EntryOK == /\ entry \in [Schedules -> [t : Targets \cup {None}, x : Exprs \cup {None}]]
           /\ due \in [Schedules -> Targets \cup {None}]
JobOK   == /\ job \in [Backups -> Job]
           /\ \A b \in Backups : job[b].pc # "none" => job[b].t \in Targets
ReqOK   == /\ req \in [Requests -> Local]
           /\ \A h \in Requests : Shape(req[h])
RepoOK  == repo \in [Targets -> Seq(Backups)]
TgtOK   == tgt \in [Targets -> {"unborn", "there", "deleted"}]
HistOK  == cut \subseteq Backups /\ made \subseteq Backups /\ raced \subseteq Schedules

\* The inductive strengthening of TypeOK.
TypeInv == SchedOK /\ BkOK /\ EntryOK /\ JobOK /\ ReqOK /\ RepoOK /\ TgtOK /\ HistOK

LEMMA NoneFresh ==
    None \notin Schedules /\ None \notin Targets /\ None \notin Exprs /\ None \notin Backups
BY ConstantsAssumption DEF ConstantsAssumption

LEMMA IdleType == Idle \in Local /\ Shape(Idle) /\ Idle.pc = "idle"
BY DEF Idle, Local, Shape

LEMMA NoJobType == NoJob \in Job /\ NoJob.pc = "none"
BY DEF NoJob, Job

LEMMA NoBackupType ==
    /\ NoBackup \in Backup /\ NoBackup.status = "unborn"
    /\ NoBackup.sched = None /\ NoBackup.target = None
BY DEF NoBackup, Backup, Gone

LEMMA NewReq ==
    ASSUME ReqOK, NEW h \in Requests, NEW r \in Local, Shape(r),
           req' = [req EXCEPT ![h] = r]
    PROVE  ReqOK'
BY DEF ReqOK

LEMMA FinishOK ==
    ASSUME ReqOK, NEW h \in Requests, Finish(h)
    PROVE  ReqOK'
BY IdleType, NewReq DEF Finish

\* The steps of one request that only move its program counter.
LEMMA PcOK ==
    ASSUME ReqOK, NEW h \in Requests,
           \/ req[h].pc = "reschedule" /\ req' = [req EXCEPT ![h].pc = "schedule"]
           \/ req[h].pc = "forget" /\ req' = [req EXCEPT ![h].pc = "delete"]
    PROVE  ReqOK'
<1>1. PICK l \in {"schedule", "delete"} :
          /\ req' = [req EXCEPT ![h].pc = l]
          /\ req[h].pc = (IF l = "schedule" THEN "reschedule" ELSE "forget")
  OBVIOUS
<1> DEFINE r == [req[h] EXCEPT !.pc = l]
<1>2. req[h] \in Local /\ Shape(req[h])
  BY DEF ReqOK
<1>3. r \in Local
  BY <1>2 DEF Local
<1>4. r.pc = l /\ r.s = req[h].s /\ r.t = req[h].t /\ r.b = req[h].b
  BY <1>2 DEF Local
<1>5. Shape(r)
  BY <1>1, <1>2, <1>4 DEF Shape
<1>6. req' = [req EXCEPT ![h] = r]
  BY <1>1 DEF ReqOK
<1> HIDE DEF r
<1> QED
  BY <1>3, <1>5, <1>6, NewReq

LEMMA ContinueOK ==
    ASSUME ReqOK, HistOK, NEW h \in Requests, NEW op \in AllOps, NEW s \in Schedules,
           NEW row \in Schedule,
           NEW pc \in {"idle", "update", "schedule", "unschedule", "reschedule"},
           Continue(h, op, s, row, pc)
    PROVE  ReqOK' /\ raced' \subseteq Schedules
<1> DEFINE r == IF pc = "idle" THEN Idle
                ELSE [Idle EXCEPT !.op = op, !.s = s, !.on = row.on, !.x = row.x, !.t = row.t,
                                  !.pc = pc]
<1>1. r \in Local
  BY IdleType DEF Local, Schedule
<1>2. pc # "idle" => r.pc = pc /\ r.s = s
  BY IdleType DEF Local
<1>3. Shape(r)
  BY <1>2, IdleType DEF Shape
<1>4. req' = [req EXCEPT ![h] = r] /\ raced' \subseteq Schedules
  BY DEF Continue, HistOK
<1> HIDE DEF r
<1> QED
  BY <1>1, <1>3, <1>4, NewReq

-----------------------------------------------------------------------------
(* One lemma for each table, for the steps that change it.                 *)

LEMMA WriteStatusOK ==
    ASSUME BkOK, NEW b \in Backups, NEW st \in Active \cup Finished, WriteStatus(b, st)
    PROVE  BkOK'
<1>1. \A c \in Backups : /\ bk'[c].sched = bk[c].sched /\ bk'[c].target = bk[c].target
                         /\ bk'[c].status \in Gone <=> bk[c].status \in Gone
  BY DEF WriteStatus, BkOK, Backup, Active, Finished, Gone
<1>2. bk' \in [Backups -> Backup]
  BY DEF WriteStatus, BkOK, Backup
<1> QED
  BY <1>1, <1>2 DEF BkOK, Present

LEMMA InsertOK ==
    ASSUME BkOK, JobOK, NEW b \in Backups, NEW s \in Schedules, NEW t \in Targets,
           InsertBackup(b, s, t)
    PROVE  BkOK' /\ JobOK'
<1> DEFINE r == [status |-> "PENDING", sched |-> s, target |-> t, sent |-> FALSE]
<1>1. r \in Backup /\ r.status \notin Gone /\ r.sched = s /\ r.target = t
  BY DEF Backup, Active, Gone
<1>2. bk' = [bk EXCEPT ![b] = r]
  BY DEF InsertBackup
<1> HIDE DEF r
<1>3. BkOK'
  BY <1>1, <1>2 DEF BkOK, Present
<1>4. JobOK'
  BY DEF InsertBackup, JobOK, Job
<1> QED BY <1>3, <1>4

LEMMA GoOK ==
    ASSUME JobOK, NEW b \in Backups, job[b].pc # "none",
           NEW l \in {"target", "restic", "size", "complete", "fail", "notify"}, Go(b, l)
    PROVE  JobOK'
BY DEF Go, JobOK, Job

LEMMA PerformType ==
    ASSUME TypeInv, NEW b \in Backups, PerformBackup(b)
    PROVE  TypeInv'
<1>1. JobOK'
  <2>1. CASE Notify(b)
    BY <2>1, NoJobType DEF Notify, TypeInv, JobOK
  <2>2. CASE \E l \in {"target", "restic", "size", "complete", "fail", "notify"} :
               job[b].pc # "none" /\ Go(b, l)
    BY <2>2, GoOK DEF TypeInv
  <2> QED
    BY <2>1, <2>2 DEF PerformBackup, BeginBackup, GetTarget, Restic, AfterRestic, Size, Complete,
       AfterComplete, MarkBackupFailed
<1>2. BkOK'
  <2>1. CASE Notify(b)
    BY <2>1 DEF Notify, TypeInv, BkOK, Backup, Present
  <2>2. CASE \E st \in Active \cup Finished : WriteStatus(b, st)
    BY <2>2, WriteStatusOK DEF TypeInv
  <2>3. CASE UNCHANGED bk
    BY <2>3 DEF TypeInv, BkOK, Present
  <2> QED
    BY <2>1, <2>2, <2>3 DEF PerformBackup, BeginBackup, GetTarget, Restic, Size, Complete,
       MarkBackupFailed, FailedStatus, Active, Finished
<1>3. RepoOK' /\ made' \subseteq Backups
  <2>1. CASE Restic(b)
    <3>1. job[b].t \in Targets
      BY <2>1 DEF Restic, TypeInv, JobOK
    <3>2. repo[job[b].t] \in Seq(Backups)
      BY <3>1 DEF TypeInv, RepoOK
    <3>3. Append(repo[job[b].t], b) \in Seq(Backups)
      BY <3>2, AppendProperties
    <3> QED
      BY <2>1, <3>1, <3>3 DEF Restic, TypeInv, RepoOK, HistOK
  <2>2. CASE UNCHANGED <<repo, made>>
    BY <2>2 DEF TypeInv, RepoOK, HistOK
  <2> QED
    BY <2>1, <2>2 DEF PerformBackup, BeginBackup, GetTarget, Size, Complete, MarkBackupFailed,
       Notify
<1>4. UNCHANGED <<tgt, sched, entry, due, req, cut, raced>>
  BY DEF PerformBackup, BeginBackup, GetTarget, Restic, Size, Complete, MarkBackupFailed, Notify
<1> QED
  BY <1>1, <1>2, <1>3, <1>4 DEF TypeInv, SchedOK, EntryOK, ReqOK, TgtOK, HistOK

LEMMA TablesType ==
    ASSUME TypeInv, Tables
    PROVE  TypeInv'
<1>1. ASSUME NEW t \in Targets, CreateBackupTarget(t) \/ DeleteBackupTarget(t) PROVE TypeInv'
  BY <1>1 DEF CreateBackupTarget, DeleteBackupTarget, TypeInv, SchedOK, BkOK, EntryOK, JobOK,
     ReqOK, RepoOK, TgtOK, HistOK, Present
<1>2. ASSUME NEW s \in Schedules, DeleteBackupSchedule(s) PROVE TypeInv'
  <2>1. SchedOK'
    BY <1>2 DEF DeleteBackupSchedule, TypeInv, SchedOK, Schedule
  <2> QED
    BY <1>2, <2>1 DEF DeleteBackupSchedule, TypeInv, BkOK, EntryOK, JobOK, ReqOK, RepoOK, TgtOK,
       HistOK, Present
<1>3. ASSUME NEW s \in Schedules, Fire(s) PROVE TypeInv'
  <2>1. EntryOK'
    BY <1>3 DEF Fire, TypeInv, EntryOK
  <2> QED
    BY <1>3, <2>1 DEF Fire, TypeInv, SchedOK, BkOK, JobOK, ReqOK, RepoOK, TgtOK, HistOK, Present
<1>4. ASSUME NEW s \in Schedules, CreateScheduledBackup(s) PROVE TypeInv'
  <2>1. due[s] \in Targets
    BY <1>4 DEF CreateScheduledBackup, TypeInv, EntryOK
  <2>2. BkOK' /\ JobOK'
    <3>1. CASE UNCHANGED <<bk, job>>
      BY <3>1 DEF TypeInv, BkOK, JobOK, Present
    <3> QED
      BY <1>4, <2>1, <3>1, InsertOK DEF CreateScheduledBackup, TypeInv
  <2>3. EntryOK'
    BY <1>4 DEF CreateScheduledBackup, TypeInv, EntryOK
  <2> QED
    BY <1>4, <2>2, <2>3 DEF CreateScheduledBackup, TypeInv, SchedOK, ReqOK, RepoOK, TgtOK, HistOK
<1>5. ASSUME NEW b \in Backups, NEW s \in Schedules, NEW t \in Targets, CreateBackup(b, s, t)
      PROVE  TypeInv'
  <2>1. BkOK' /\ JobOK'
    BY <1>5, InsertOK DEF CreateBackup, TypeInv
  <2> QED
    BY <1>5, <2>1 DEF CreateBackup, TypeInv, SchedOK, EntryOK, ReqOK, RepoOK, TgtOK, HistOK
<1> QED
  BY <1>1, <1>2, <1>3, <1>4, <1>5 DEF Tables

-----------------------------------------------------------------------------
(* Requests.                                                               *)

\* What a request does that writes the row of a schedule, or only reads it.
LEMMA ScheduleRowOK ==
    ASSUME TypeInv, SchedOK', ReqOK', raced' \subseteq Schedules,
           UNCHANGED <<tgt, bk, entry, due, job, repo, cut, made>>
    PROVE  TypeInv'
BY DEF TypeInv, BkOK, EntryOK, JobOK, RepoOK, TgtOK, HistOK, Present

LEMMA CreateScheduleType ==
    ASSUME TypeInv, NEW h \in Requests, NEW s \in Schedules, NEW t \in Targets, NEW x \in Exprs,
           NEW on \in BOOLEAN, CreateBackupSchedule(h, s, t, x, on)
    PROVE  TypeInv'
<1> DEFINE row == [state |-> "there", on |-> on, x |-> x, t |-> t]
<1>1. row \in Schedule
  BY DEF Schedule
<1>2. sched' = [sched EXCEPT ![s] = row]
      /\ \E pc \in {"schedule", "idle"} : Continue(h, "CreateSchedule", s, row, pc)
  BY DEF CreateBackupSchedule
<1> HIDE DEF row
<1>3. SchedOK' /\ ReqOK' /\ raced' \subseteq Schedules
  BY <1>1, <1>2, ContinueOK DEF TypeInv, SchedOK, AllOps
<1> QED
  BY <1>3, ScheduleRowOK DEF CreateBackupSchedule

LEMMA SwitchScheduleType ==
    ASSUME TypeInv, NEW h \in Requests, NEW s \in Schedules, NEW op \in {"Enable", "Disable"},
           NEW on \in BOOLEAN, SwitchRow(h, op, s, on)
    PROVE  TypeInv'
<1> DEFINE row == [sched[s] EXCEPT !.on = on]
<1>1. row \in Schedule
  BY DEF TypeInv, SchedOK, Schedule
<1>2. sched' = [sched EXCEPT ![s] = row]
      /\ \E pc \in {"schedule", "unschedule"} : Continue(h, op, s, row, pc)
  BY DEF SwitchRow
<1> HIDE DEF row
<1>3. SchedOK' /\ ReqOK' /\ raced' \subseteq Schedules
  BY <1>1, <1>2, ContinueOK DEF TypeInv, SchedOK, AllOps
<1> QED
  BY <1>3, ScheduleRowOK DEF SwitchRow

LEMMA BeginUpdateType ==
    ASSUME TypeInv, NEW h \in Requests, NEW s \in Schedules, BeginUpdate(h, s)
    PROVE  TypeInv'
<1>1. sched[s] \in Schedule
  BY DEF TypeInv, SchedOK
<1>2. SchedOK' /\ ReqOK' /\ raced' \subseteq Schedules
  BY <1>1, ContinueOK DEF BeginUpdate, TypeInv, SchedOK, AllOps
<1> QED
  BY <1>2, ScheduleRowOK DEF BeginUpdate

LEMMA UpdateScheduleType ==
    ASSUME TypeInv, NEW h \in Requests, NEW t \in Targets, NEW x \in Exprs, NEW on \in BOOLEAN,
           UpdateBackupSchedule(h, t, x, on)
    PROVE  TypeInv'
<1>1. req[h].s \in Schedules
  BY DEF UpdateBackupSchedule, TypeInv, ReqOK, Shape
<1>2. SchedOK' /\ ReqOK' /\ raced' \subseteq Schedules
  <2>1. CASE Finish(h) /\ UNCHANGED <<sched, raced>>
    BY <2>1, FinishOK DEF TypeInv, SchedOK, HistOK
  <2>2. CASE Exists(req[h].s) /\ tgt[t] = "there"
    <3> DEFINE row == [state |-> "there", on |-> on, x |-> x, t |-> t]
    <3>1. row \in Schedule
      BY DEF Schedule
    <3>2. sched' = [sched EXCEPT ![req[h].s] = row]
          /\ \E pc \in {"idle", "schedule", "unschedule", "reschedule"} :
               Continue(h, "UpdateSchedule", req[h].s, row, pc)
      BY <2>2 DEF UpdateBackupSchedule, AfterUpdate
    <3> HIDE DEF row
    <3> QED
      BY <1>1, <3>1, <3>2, ContinueOK DEF TypeInv, SchedOK, AllOps
  <2> QED
    BY <2>1, <2>2 DEF UpdateBackupSchedule
<1> QED
  BY <1>2, ScheduleRowOK DEF UpdateBackupSchedule

LEMMA EntryRequestType ==
    ASSUME TypeInv, NEW h \in Requests, Unschedule(h) \/ ScheduleBackup(h)
    PROVE  TypeInv'
<1>1. ReqOK'
  BY FinishOK, PcOK DEF Unschedule, ScheduleBackup, TypeInv
<1>2. req[h].t \in Targets \cup {None} /\ req[h].x \in Exprs \cup {None}
  BY DEF TypeInv, ReqOK, Local
<1>3. EntryOK'
  BY <1>2 DEF Unschedule, ScheduleBackup, TypeInv, EntryOK, Entry, NoEntry
<1> QED
  BY <1>1, <1>3 DEF Unschedule, ScheduleBackup, TypeInv, SchedOK, BkOK, JobOK, RepoOK, TgtOK,
     HistOK, Present

LEMMA ForgetType ==
    ASSUME TypeInv, NEW h \in Requests, ForgetSnapshot(h)
    PROVE  TypeInv'
<1>1. ReqOK'
  BY FinishOK, PcOK DEF ForgetSnapshot, TypeInv
<1>2. RepoOK'
  <2>1. CASE UNCHANGED repo
    BY <2>1 DEF TypeInv, RepoOK
  <2>2. CASE ~UNCHANGED repo
    <3> DEFINE snaps == repo[req[h].t]
    <3>1. PICK i \in DOMAIN snaps :
            repo' = [repo EXCEPT ![req[h].t] =
                       SubSeq(snaps, 1, i - 1) \o SubSeq(snaps, i + 1, Len(snaps))]
      BY <2>2 DEF ForgetSnapshot
    <3>2. req[h].t \in Targets
      BY DEF ForgetSnapshot, TypeInv, ReqOK, Shape
    <3>3. snaps \in Seq(Backups)
      BY <3>2 DEF TypeInv, RepoOK
    <3>4. Len(snaps) \in Nat /\ DOMAIN snaps = 1..Len(snaps)
      BY <3>3, LenProperties
    <3>5. \A j \in 1..Len(snaps) : snaps[j] \in Backups
      BY <3>3, ElementOfSeq
    <3> HIDE DEF snaps
    <3>6. /\ SubSeq(snaps, 1, i - 1) \in Seq(Backups)
          /\ SubSeq(snaps, i + 1, Len(snaps)) \in Seq(Backups)
      BY <3>1, <3>3, <3>4, <3>5, SubSeqProperties
    <3>7. SubSeq(snaps, 1, i - 1) \o SubSeq(snaps, i + 1, Len(snaps)) \in Seq(Backups)
      BY <3>6, ConcatProperties
    <3> QED
      BY <3>1, <3>2, <3>7 DEF TypeInv, RepoOK
  <2> QED BY <2>1, <2>2
<1> QED
  BY <1>1, <1>2 DEF ForgetSnapshot, TypeInv, SchedOK, BkOK, EntryOK, JobOK, TgtOK, HistOK, Present

LEMMA DeleteRequestType ==
    ASSUME TypeInv, NEW h \in Requests,
           (\E b \in Backups : BeginDelete(h, b)) \/ FindLatest(h) \/ DeleteBackup(h)
    PROVE  TypeInv'
<1>1. CASE \E b \in Backups : BeginDelete(h, b)
  <2>1. PICK b \in Backups : BeginDelete(h, b)
    BY <1>1
  <2> DEFINE r == [Idle EXCEPT !.op = "DeleteBackup", !.t = bk[b].target, !.b = b, !.pc = "find"]
  <2>2. bk[b].target \in Targets
    BY <2>1 DEF BeginDelete, TypeInv, BkOK
  <2>3. r \in Local /\ r.pc = "find" /\ r.t = bk[b].target /\ r.b = b
    BY <2>2, IdleType DEF Local, AllOps
  <2>4. Shape(r)
    BY <2>2, <2>3 DEF Shape
  <2>5. req' = [req EXCEPT ![h] = r]
    BY <2>1 DEF BeginDelete
  <2> HIDE DEF r
  <2>6. ReqOK'
    BY <2>3, <2>4, <2>5, NewReq DEF TypeInv
  <2> QED
    BY <2>1, <2>6 DEF BeginDelete, TypeInv, SchedOK, BkOK, EntryOK, JobOK, RepoOK, TgtOK, HistOK,
       Present
<1>2. CASE FindLatest(h)
  <2>1. ReqOK'
    <3>1. CASE Finish(h)
      BY <3>1, FinishOK DEF TypeInv
    <3>2. CASE ~Finish(h)
      <4> DEFINE snaps == repo[req[h].t]
      <4> DEFINE r == [req[h] EXCEPT !.snap = snaps[Len(snaps)], !.pc = "forget"]
      <4>1. req[h].t \in Targets /\ req[h].b \in Backups /\ req[h] \in Local
        BY <1>2 DEF FindLatest, TypeInv, ReqOK, Shape
      <4>2. snaps \in Seq(Backups) /\ snaps # <<>>
        BY <1>2, <3>2, <4>1 DEF FindLatest, TypeInv, RepoOK
      <4>3. Len(snaps) \in Nat \ {0}
        BY <4>2, EmptySeq
      <4>4. snaps[Len(snaps)] \in Backups
        BY <4>2, <4>3, ElementOfSeq
      <4>5. req' = [req EXCEPT ![h] = r]
        BY <1>2, <3>2 DEF FindLatest, TypeInv, ReqOK
      <4> HIDE DEF snaps
      <4>6. r \in Local
        BY <4>1, <4>4 DEF Local
      <4>7. r.pc = "forget" /\ r.t = req[h].t /\ r.b = req[h].b
        BY <4>1 DEF Local
      <4>8. Shape(r)
        BY <4>1, <4>7 DEF Shape
      <4> HIDE DEF r
      <4> QED
        BY <4>5, <4>6, <4>8, NewReq DEF TypeInv
    <3> QED BY <3>1, <3>2
  <2> QED
    BY <1>2, <2>1 DEF FindLatest, TypeInv, SchedOK, BkOK, EntryOK, JobOK, RepoOK, TgtOK, HistOK,
       Present
<1>3. CASE DeleteBackup(h)
  <2> DEFINE r == [NoBackup EXCEPT !.status = "deleted"]
  <2>1. r \in Backup /\ r.status \in Gone /\ r.sched = None /\ r.target = None
    BY NoBackupType DEF Backup, Gone
  <2>2. bk' = [bk EXCEPT ![req[h].b] = r]
    BY <1>3 DEF DeleteBackup
  <2> HIDE DEF r
  <2>3. BkOK'
    BY <2>1, <2>2 DEF TypeInv, BkOK, Present
  <2>4. ReqOK'
    BY <1>3, FinishOK DEF DeleteBackup, TypeInv
  <2> QED
    BY <1>3, <2>3, <2>4 DEF DeleteBackup, TypeInv, SchedOK, EntryOK, JobOK, RepoOK, TgtOK, HistOK
<1> QED
  BY <1>1, <1>2, <1>3

LEMMA RestartType ==
    ASSUME TypeInv, Restart
    PROVE  TypeInv'
<1>1. EntryOK'
  <2>1. \A s \in Schedules : Loaded(s) \in [t : Targets \cup {None}, x : Exprs \cup {None}]
    BY DEF Loaded, Entry, NoEntry, TypeInv, SchedOK, Schedule
  <2> QED
    BY <2>1 DEF Restart, EntryOK
<1>2. JobOK' /\ ReqOK'
  BY NoJobType, IdleType DEF Restart, JobOK, ReqOK
<1>3. HistOK'
  BY DEF Restart, TypeInv, HistOK
<1> QED
  BY <1>1, <1>2, <1>3 DEF Restart, TypeInv, SchedOK, BkOK, RepoOK, TgtOK, Present

LEMMA InitType == Init => TypeInv
<1> SUFFICES ASSUME Init PROVE TypeInv
  OBVIOUS
<1>1. SchedOK /\ EntryOK
  BY DEF Init, SchedOK, EntryOK, Schedule, NoEntry, Entry
<1>2. BkOK
  BY NoBackupType DEF Init, BkOK, Present, Gone
<1>3. JobOK /\ ReqOK
  BY NoJobType, IdleType DEF Init, JobOK, ReqOK
<1>4. RepoOK
  BY EmptySeq DEF Init, RepoOK
<1> QED
  BY <1>1, <1>2, <1>3, <1>4 DEF Init, TypeInv, TgtOK, HistOK

LEMMA NextType == TypeInv /\ [Next]_vars => TypeInv'
<1> SUFFICES ASSUME TypeInv, [Next]_vars PROVE TypeInv'
  OBVIOUS
<1>1. CASE UNCHANGED vars
  BY <1>1 DEF vars, TypeInv, SchedOK, BkOK, EntryOK, JobOK, ReqOK, RepoOK, TgtOK, HistOK, Present
<1>2. ASSUME NEW h \in Requests, Begin(h) PROVE TypeInv'
  BY <1>2, CreateScheduleType, SwitchScheduleType, BeginUpdateType, DeleteRequestType DEF Begin
<1>3. ASSUME NEW h \in Requests, Work(h) PROVE TypeInv'
  BY <1>3, UpdateScheduleType, EntryRequestType, ForgetType, DeleteRequestType DEF Work
<1> QED
  BY <1>1, <1>2, <1>3, TablesType, PerformType, RestartType DEF Next

(* Type correctness of the backup service, and that a row that is gone      *)
(* keeps no column.                                                        *)
THEOREM BackupsTypeCorrect == Spec => []TypeOK
<1>1. TypeInv => TypeOK
  BY DEF TypeInv, TypeOK, SchedOK, BkOK, EntryOK, JobOK, ReqOK, RepoOK, TgtOK, HistOK
<1> QED
  BY <1>1, InitType, NextType, PTL DEF Spec

-----------------------------------------------------------------------------
(* The status of a backup.  Sound says what its row may hold at each program *)
(* counter of its goroutine: an active status has a goroutine that has still *)
(* to write one, or that died; a goroutine past restic has its snapshot; and *)
(* nothing was notified before the end.                                      *)

Sound(row, pc, wrote, died) ==
    /\ row.status \in Active => pc \notin {"none", "notify"} \/ died
    /\ row.status = "COMPLETED" => wrote
    /\ pc \in {"size", "complete"} => wrote
    /\ pc \notin {"none", "notify"} => ~row.sent
    /\ pc = "notify" => row.status \notin Active
    /\ row.sent => row.status \notin Active

SoundInv == \A b \in Backups : Sound(bk[b], job[b].pc, b \in made, b \in cut)

LEMMA SoundKept ==
    ASSUME SoundInv, NEW c \in Backups, bk'[c] = bk[c], job'[c] = job[c],
           made \subseteq made', cut \subseteq cut'
    PROVE  Sound(bk'[c], job'[c].pc, c \in made', c \in cut')
BY DEF SoundInv, Sound

\* A goroutine only touches its own row, and what it writes is sound.
LEMMA PerformSound ==
    ASSUME TypeInv, SoundInv, NEW b \in Backups, PerformBackup(b)
    PROVE  SoundInv'
<1>1. made \subseteq made' /\ cut' = cut
  BY DEF PerformBackup, BeginBackup, GetTarget, Restic, Size, Complete, MarkBackupFailed, Notify
<1>2. \A c \in Backups \ {b} : bk'[c] = bk[c] /\ job'[c] = job[c]
  BY DEF PerformBackup, BeginBackup, GetTarget, Restic, Size, Complete, MarkBackupFailed, Notify,
     WriteStatus, Go, TypeInv, BkOK, JobOK
<1>3. bk[b] \in Backup /\ job[b] \in Job
  BY DEF TypeInv, BkOK, JobOK
<1>4. Sound(bk[b], job[b].pc, b \in made, b \in cut)
  BY DEF SoundInv
<1>5. ASSUME NEW l, Go(b, l) PROVE job'[b].pc = l
  BY <1>3, <1>5 DEF Go, TypeInv, JobOK, Job
<1>6. ASSUME NEW st, WriteStatus(b, st)
      PROVE  /\ bk'[b].status = (IF Present(b) THEN st ELSE bk[b].status)
             /\ bk'[b].sent = bk[b].sent
  BY <1>3, <1>6 DEF WriteStatus, TypeInv, BkOK, Backup, Present
<1>7. Sound(bk'[b], job'[b].pc, b \in made', b \in cut')
  <2>1. CASE BeginBackup(b)
    BY <2>1, <1>1, <1>4, <1>5, <1>6 DEF BeginBackup, Sound, Active, Present, Gone
  <2>2. CASE GetTarget(b)
    BY <2>2, <1>1, <1>4, <1>5 DEF GetTarget, Sound
  <2>3. CASE Restic(b)
    <3>1. PICK ok \in BOOLEAN, written \in BOOLEAN :
            /\ ok => written
            /\ Go(b, AfterRestic(ok))
            /\ made' = IF written THEN made \cup {b} ELSE made
      BY <2>3 DEF Restic
    <3>2. (job'[b].pc = "size" /\ b \in made') \/ job'[b].pc = "fail"
      BY <3>1, <1>5 DEF AfterRestic
    <3> QED
      BY <2>3, <3>2, <1>1, <1>4 DEF Restic, Sound
  <2>4. CASE Size(b)
    BY <2>4, <1>1, <1>4, <1>5 DEF Size, Sound
  <2>5. CASE Complete(b)
    BY <2>5, <1>1, <1>4, <1>5, <1>6 DEF Complete, AfterComplete, Sound, Active, Present, Gone
  <2>6. CASE MarkBackupFailed(b)
    BY <2>6, <1>1, <1>4, <1>5, <1>6 DEF MarkBackupFailed, FailedStatus, Sound, Active, Present, Gone
  <2>7. CASE Notify(b)
    <3>1. job'[b].pc = "none"
      BY <2>7, NoJobType DEF Notify, TypeInv, JobOK
    <3>2. bk'[b].status = bk[b].status
      BY <2>7, <1>3 DEF Notify, TypeInv, BkOK, Backup
    <3> QED
      BY <2>7, <3>1, <3>2, <1>1, <1>4 DEF Notify, Sound
  <2> QED
    BY <2>1, <2>2, <2>3, <2>4, <2>5, <2>6, <2>7 DEF PerformBackup
<1> QED
  BY <1>1, <1>2, <1>7, SoundKept DEF SoundInv

LEMMA InsertSound ==
    ASSUME TypeInv, SoundInv, NEW b \in Backups, NEW s, NEW t, InsertBackup(b, s, t),
           UNCHANGED <<cut, made>>
    PROVE  SoundInv'
<1>1. \A c \in Backups \ {b} : bk'[c] = bk[c] /\ job'[c] = job[c]
  BY DEF InsertBackup, TypeInv, BkOK, JobOK
<1>2. bk'[b].status = "PENDING" /\ bk'[b].sent = FALSE /\ job'[b].pc = "begin"
  BY DEF InsertBackup, TypeInv, BkOK, JobOK
<1>3. Sound(bk'[b], job'[b].pc, b \in made', b \in cut')
  BY <1>2 DEF Sound
<1> QED
  BY <1>1, <1>3, SoundKept DEF SoundInv

LEMMA DeleteSound ==
    ASSUME TypeInv, SoundInv, NEW h \in Requests, DeleteBackup(h)
    PROVE  SoundInv'
<1>1. req[h].b \in Backups
  BY DEF DeleteBackup, TypeInv, ReqOK, Shape
<1>2. \A c \in Backups \ {req[h].b} : bk'[c] = bk[c]
  BY DEF DeleteBackup, TypeInv, BkOK
<1>3. bk'[req[h].b].status = "deleted" /\ bk'[req[h].b].sent = FALSE
  BY <1>1 DEF DeleteBackup, TypeInv, BkOK, NoBackup
<1>4. Sound(bk'[req[h].b], job'[req[h].b].pc, req[h].b \in made', req[h].b \in cut')
  BY <1>1, <1>3 DEF DeleteBackup, SoundInv, Sound, Active
<1> QED
  BY <1>2, <1>4, SoundKept DEF DeleteBackup, SoundInv

LEMMA RestartSound ==
    ASSUME TypeInv, SoundInv, Restart
    PROVE  SoundInv'
<1> SUFFICES ASSUME NEW c \in Backups PROVE Sound(bk'[c], job'[c].pc, c \in made', c \in cut')
  BY DEF SoundInv
<1>1. job'[c].pc = "none" /\ bk'[c] = bk[c] /\ made' = made
  BY NoJobType DEF Restart
<1>2. job[c].pc # "none" => c \in cut'
  BY NoJobType DEF Restart
<1>3. c \in cut => c \in cut'
  BY DEF Restart
<1> QED
  BY <1>1, <1>2, <1>3 DEF SoundInv, Sound

LEMMA NextSound == TypeInv /\ SoundInv /\ [Next]_vars => SoundInv'
<1> SUFFICES ASSUME TypeInv, SoundInv, [Next]_vars PROVE SoundInv'
  OBVIOUS
<1>1. CASE UNCHANGED <<bk, job, made, cut>>
  BY <1>1 DEF SoundInv
<1>2. CASE Tables
  BY <1>1, <1>2, InsertSound DEF Tables, CreateBackupTarget, DeleteBackupTarget,
     DeleteBackupSchedule, Fire, CreateScheduledBackup, CreateBackup
<1>3. ASSUME NEW h \in Requests, Begin(h) PROVE SoundInv'
  BY <1>1, <1>3 DEF Begin, CreateBackupSchedule, SwitchRow, BeginUpdate, BeginDelete
<1>4. ASSUME NEW h \in Requests, Work(h) PROVE SoundInv'
  BY <1>1, <1>4, DeleteSound DEF Work, UpdateBackupSchedule, Unschedule, ScheduleBackup,
     FindLatest, ForgetSnapshot
<1> QED
  BY <1>1, <1>2, <1>3, <1>4, PerformSound, RestartSound DEF Next, vars

LEMMA InitSound == Init => SoundInv
BY NoJobType, NoBackupType DEF Init, SoundInv, Sound, NoBackup, Active

LEMMA SoundAlways == Spec => [](TypeInv /\ SoundInv)
BY InitType, NextType, InitSound, NextSound, PTL DEF Spec

(* Every error path of performBackup writes a final status: an active one   *)
(* has its goroutine, or the process died under it.                        *)
THEOREM BackupStatusAlwaysOwned == Spec => []BackupStatusOwned
<1>1. SoundInv => BackupStatusOwned
  BY DEF SoundInv, Sound, BackupStatusOwned
<1> QED
  BY <1>1, SoundAlways, PTL

(* COMPLETED is only written after restic has written the backup's own      *)
(* snapshot, and only a backup that has ended is recorded as notified.      *)
THEOREM StatusAlwaysTrue == Spec => []StatusIsTruth
<1>1. TypeInv /\ SoundInv => StatusIsTruth
  BY DEF TypeInv, BkOK, Backup, Present, SoundInv, Sound, StatusIsTruth
<1> QED
  BY <1>1, SoundAlways, PTL

-----------------------------------------------------------------------------
(* Foreign keys.  A step keeps the rows a row names when it drops no row     *)
(* that is named, and gives a new row only names of rows that are there.    *)


\* Steps that insert no backup and drop no schedule and no target.
LEMMA ResolveKept ==
    ASSUME TypeInv, RowsResolve, UNCHANGED tgt,
           \A s \in Schedules : sched[s].state = "there" => sched'[s].state = "there",
           \A s \in Schedules : sched'[s].state = "there" => tgt[sched'[s].t] = "there",
           \A b \in Backups : bk'[b].status \notin Gone =>
                /\ bk[b].status \notin Gone
                /\ bk'[b].sched = bk[b].sched /\ bk'[b].target = bk[b].target
    PROVE  RowsResolve'
BY DEF RowsResolve, Exists, Present, TypeInv, BkOK

LEMMA ResolveSame ==
    ASSUME TypeInv, RowsResolve, UNCHANGED <<tgt, sched, bk>>
    PROVE  RowsResolve'
BY DEF RowsResolve, Exists, Present

LEMMA InsertResolves ==
    ASSUME TypeInv, RowsResolve, NEW b \in Backups, NEW s \in Schedules, NEW t \in Targets,
           InsertBackup(b, s, t), UNCHANGED <<tgt, sched>>
    PROVE  RowsResolve'
<1>1. bk'[b].sched = s /\ bk'[b].target = t /\ Exists(s) /\ tgt[t] = "there"
  BY DEF InsertBackup, InsertRejected, TypeInv, BkOK
<1>2. \A c \in Backups \ {b} : bk'[c] = bk[c]
  BY DEF InsertBackup, TypeInv, BkOK
<1> QED
  BY <1>1, <1>2 DEF RowsResolve, Exists, Present

LEMMA TablesResolve ==
    ASSUME TypeInv, RowsResolve, Tables
    PROVE  RowsResolve'
<1>1. ASSUME NEW t \in Targets, CreateBackupTarget(t) PROVE RowsResolve'
  BY <1>1 DEF CreateBackupTarget, RowsResolve, Exists, Present, TypeInv, TgtOK
<1>2. ASSUME NEW t \in Targets, DeleteBackupTarget(t) PROVE RowsResolve'
  <2>1. \A u \in Targets \ {t} : tgt'[u] = tgt[u]
    BY <1>2 DEF DeleteBackupTarget, TypeInv, TgtOK
  <2>2. \A s \in Schedules : Exists(s) => sched[s].t \in Targets \cup {None} /\ sched[s].t # t
    BY <1>2 DEF DeleteBackupTarget, TargetInUse, TypeInv, SchedOK, Schedule
  <2>3. \A b \in Backups : Present(b) => bk[b].target \in Targets /\ bk[b].target # t
    BY <1>2 DEF DeleteBackupTarget, TargetInUse, TypeInv, BkOK
  <2>4. \A u : u # t => tgt'[u] = tgt[u]
    BY <1>2 DEF DeleteBackupTarget, TypeInv, TgtOK
  <2> QED
    BY <1>2, <2>1, <2>2, <2>3, <2>4 DEF DeleteBackupTarget, RowsResolve, Exists, Present
<1>3. ASSUME NEW s \in Schedules, DeleteBackupSchedule(s) PROVE RowsResolve'
  <2>1. \A k \in Schedules \ {s} : sched'[k] = sched[k]
    BY <1>3 DEF DeleteBackupSchedule, TypeInv, SchedOK
  <2>2. sched'[s].state = "deleted"
    BY <1>3 DEF DeleteBackupSchedule, TypeInv, SchedOK
  <2>3. \A b \in Backups : Present(b) => bk[b].sched \in Schedules /\ bk[b].sched # s
    BY <1>3 DEF DeleteBackupSchedule, ScheduleInUse, TypeInv, BkOK
  <2> QED
    BY <1>3, <2>1, <2>2, <2>3 DEF DeleteBackupSchedule, RowsResolve, Exists, Present
<1>4. ASSUME NEW s \in Schedules, Fire(s) PROVE RowsResolve'
  BY <1>4, ResolveSame DEF Fire
<1>5. ASSUME NEW s \in Schedules, CreateScheduledBackup(s) PROVE RowsResolve'
  <2>1. due[s] \in Targets
    BY <1>5 DEF CreateScheduledBackup, TypeInv, EntryOK
  <2> QED
    BY <1>5, <2>1, InsertResolves, ResolveSame DEF CreateScheduledBackup
<1>6. ASSUME NEW b \in Backups, NEW s \in Schedules, NEW t \in Targets, CreateBackup(b, s, t)
      PROVE  RowsResolve'
  BY <1>6, InsertResolves DEF CreateBackup
<1> QED
  BY <1>1, <1>2, <1>3, <1>4, <1>5, <1>6 DEF Tables

LEMMA RequestResolve ==
    ASSUME TypeInv, RowsResolve, NEW h \in Requests, Begin(h) \/ Work(h)
    PROVE  RowsResolve'
<1>1. ASSUME NEW s \in Schedules, NEW t \in Targets, NEW x \in Exprs, NEW on \in BOOLEAN,
             CreateBackupSchedule(h, s, t, x, on)
      PROVE  RowsResolve'
  <2> DEFINE row == [state |-> "there", on |-> on, x |-> x, t |-> t]
  <2>1. sched' = [sched EXCEPT ![s] = row] /\ tgt[t] = "there" /\ UNCHANGED <<tgt, bk>>
    BY <1>1 DEF CreateBackupSchedule
  <2>2. row.state = "there" /\ row.t = t
    OBVIOUS
  <2> HIDE DEF row
  <2> QED
    BY <2>1, <2>2, ResolveKept DEF RowsResolve, Exists, TypeInv, SchedOK
<1>2. ASSUME NEW s \in Schedules, NEW op, NEW on, SwitchRow(h, op, s, on) PROVE RowsResolve'
  <2>1. /\ \A k \in Schedules : sched'[k].state = sched[k].state /\ sched'[k].t = sched[k].t
        /\ UNCHANGED <<tgt, bk>>
    BY <1>2 DEF SwitchRow, TypeInv, SchedOK, Schedule
  <2> QED
    BY <2>1, ResolveKept DEF RowsResolve, Exists
<1>3. ASSUME NEW t \in Targets, NEW x \in Exprs, NEW on \in BOOLEAN,
             UpdateBackupSchedule(h, t, x, on)
      PROVE  RowsResolve'
  <2>1. CASE UNCHANGED sched
    BY <1>3, <2>1, ResolveSame DEF UpdateBackupSchedule
  <2>2. CASE ~UNCHANGED sched
    <3> DEFINE row == [state |-> "there", on |-> on, x |-> x, t |-> t]
    <3>1. /\ sched' = [sched EXCEPT ![req[h].s] = row] /\ tgt[t] = "there"
          /\ UNCHANGED <<tgt, bk>>
      BY <1>3, <2>2 DEF UpdateBackupSchedule
    <3>2. row.state = "there" /\ row.t = t
      OBVIOUS
    <3> HIDE DEF row
    <3> QED
      BY <3>1, <3>2, ResolveKept DEF RowsResolve, Exists, TypeInv, SchedOK
  <2> QED BY <2>1, <2>2
<1>4. CASE DeleteBackup(h)
  <2>1. req[h].b \in Backups
    BY <1>4 DEF DeleteBackup, TypeInv, ReqOK, Shape
  <2>2. bk'[req[h].b].status \in Gone
    BY <1>4, <2>1 DEF DeleteBackup, TypeInv, BkOK, NoBackup, Gone
  <2>3. \A c \in Backups \ {req[h].b} : bk'[c] = bk[c]
    BY <1>4 DEF DeleteBackup, TypeInv, BkOK
  <2> QED
    BY <1>4, <2>2, <2>3, ResolveKept DEF DeleteBackup, RowsResolve, Exists
<1>5. CASE UNCHANGED <<tgt, sched, bk>>
  BY <1>5, ResolveSame
<1> QED
  BY <1>1, <1>2, <1>3, <1>4, <1>5 DEF Begin, Work, BeginUpdate, BeginDelete, Unschedule,
     ScheduleBackup, FindLatest, ForgetSnapshot

LEMMA PerformResolve ==
    ASSUME TypeInv, RowsResolve, NEW b \in Backups, PerformBackup(b)
    PROVE  RowsResolve'
<1>1. UNCHANGED <<tgt, sched>>
  BY DEF PerformBackup, BeginBackup, GetTarget, Restic, Size, Complete, MarkBackupFailed, Notify
<1>2. \A c \in Backups : bk'[c].status \notin Gone =>
          /\ bk[c].status \notin Gone
          /\ bk'[c].sched = bk[c].sched /\ bk'[c].target = bk[c].target
  BY DEF PerformBackup, BeginBackup, GetTarget, Restic, Size, Complete, MarkBackupFailed, Notify,
     WriteStatus, TypeInv, BkOK, Backup
<1> QED
  BY <1>1, <1>2, ResolveKept DEF RowsResolve, Exists

LEMMA NextResolve == TypeInv /\ RowsResolve /\ [Next]_vars => RowsResolve'
<1> SUFFICES ASSUME TypeInv, RowsResolve, [Next]_vars PROVE RowsResolve'
  OBVIOUS
<1> QED
  BY TablesResolve, RequestResolve, PerformResolve, ResolveSame DEF Next, Restart, vars

(* No interleaving of deletes, updates and cron entries that outlive their   *)
(* schedule leaves a schedule without its target, or a backup without one.  *)
THEOREM RowsAlwaysResolve == Spec => []RowsResolve
<1>1. Init => RowsResolve
  BY DEF Init, RowsResolve, Exists, Present, NoBackup, Gone
<1> QED
  BY <1>1, InitType, NextType, NextResolve, PTL DEF Spec

-----------------------------------------------------------------------------
(* Rows and cron entries.  OnItsWay says what a request that works on a      *)
(* schedule nobody else worked on has still to do: the entry is as the row   *)
(* says until the row is replaced, and from then on the request carries the  *)
(* row that is there.                                                        *)

OnItsWay(r, s) ==
    \/ r.pc = "update" /\ entry[s] = Loaded(s) /\ r.on = sched[s].on
    \/ r.pc \in {"schedule", "reschedule"} /\ sched[s].on /\ r.x = sched[s].x /\ r.t = sched[s].t
    \/ r.pc = "unschedule" /\ ~sched[s].on

\* A row that is not there yet has no entry, and no request knows its id.
Untouched(s) == entry[s] = NoEntry /\ \A h \in Requests : req[h].s # s

AloneOn(s) == \A h, k \in Requests : req[h].s = s /\ req[k].s = s => h = k

SyncRow(s) ==
    /\ sched[s].state = "unborn" => Untouched(s)
    /\ Exists(s) /\ s \notin raced =>
          /\ AloneOn(s)
          /\ (\A h \in Requests : req[h].s # s) => entry[s] = Loaded(s)
          /\ \A h \in Requests : req[h].s = s => OnItsWay(req[h], s)

SchedulePcs == {"update", "schedule", "unschedule", "reschedule"}

SyncInv ==
    /\ \A h \in Requests : req[h].pc \notin SchedulePcs => req[h].s = None
    /\ \A s \in Schedules : SyncRow(s)

LEMMA SyncKept ==
    ASSUME NEW s \in Schedules, SyncRow(s), sched'[s] = sched[s], entry'[s] = entry[s],
           \A k \in Requests : req[k].s = s \/ req'[k].s = s => req'[k] = req[k],
           s \in raced' <=> s \in raced
    PROVE  SyncRow(s)'
<1>1. Loaded(s)' = Loaded(s) /\ Exists(s)' = Exists(s)
  BY DEF Loaded, Exists
<1>2. \A k \in Requests : req'[k].s = s <=> req[k].s = s
  OBVIOUS
<1>3. sched'[s].state = "unborn" => Untouched(s)'
  BY <1>2 DEF SyncRow, Untouched
<1>4. ASSUME Exists(s), s \notin raced
      PROVE  /\ AloneOn(s)'
             /\ (\A h \in Requests : req'[h].s # s) => entry'[s] = Loaded(s)'
  BY <1>1, <1>2, <1>4 DEF SyncRow, AloneOn
<1>5. ASSUME Exists(s), s \notin raced, NEW h \in Requests, req'[h].s = s
      PROVE  OnItsWay(req[h], s)'
  <2>1. req'[h] = req[h] /\ OnItsWay(req[h], s)
    BY <1>2, <1>5 DEF SyncRow
  <2> QED
    BY <1>1, <2>1 DEF OnItsWay
<1> QED
  BY <1>1, <1>3, <1>4, <1>5 DEF SyncRow

\* A step of a request that touches no entry, and at most one row: its own
\* schedule's.  What it leaves to do is written down with the row.
LEMMA ContinueSync ==
    ASSUME TypeInv, SyncInv, NEW h \in Requests, NEW op \in AllOps, NEW s \in Schedules,
           NEW row \in Schedule, NEW pc \in SchedulePcs \cup {"idle"},
           req[h].pc = "idle" \/ req[h].s = s, row.state = "there",
           sched' = [sched EXCEPT ![s] = row],
           Continue(h, op, s, row, pc), UNCHANGED entry,
           s \notin raced /\ (\A k \in Requests \ {h} : req[k].s # s) =>
               /\ pc \in {"idle", "update"} => entry[s] = Loaded(s)'
               /\ pc \in {"schedule", "reschedule"} => row.on
               /\ pc = "unschedule" => ~row.on
    PROVE  SyncInv'
<1> DEFINE r == IF pc = "idle" THEN Idle
                ELSE [Idle EXCEPT !.op = op, !.s = s, !.on = row.on, !.x = row.x, !.t = row.t,
                                  !.pc = pc]
<1>1. /\ pc # "idle" => /\ r.pc = pc /\ r.s = s /\ r.on = row.on
                        /\ r.x = row.x /\ r.t = row.t
      /\ pc = "idle" => r.pc = "idle" /\ r.s = None
  BY DEF Idle
<1>2. req' = [req EXCEPT ![h] = r]
      /\ raced' = raced \cup {k \in {s} : \E o \in Requests \ {h} : req[o].s = k}
  BY DEF Continue
<1> HIDE DEF r
<1>3. req'[h] = r /\ \A k \in Requests \ {h} : req'[k] = req[k]
  BY <1>2 DEF TypeInv, ReqOK
<1>4. sched'[s] = row /\ \A k \in Schedules \ {s} : sched'[k] = sched[k]
  BY DEF TypeInv, SchedOK
<1>5. req[h].s \in {s, None}
  BY DEF SyncInv, SchedulePcs
<1>6. None \notin Schedules
  BY NoneFresh
<1>7. ASSUME NEW k \in Schedules \ {s} PROVE SyncRow(k)'
  <2>1. SyncRow(k) /\ sched'[k] = sched[k] /\ entry'[k] = entry[k]
    BY <1>4 DEF SyncInv
  <2>2. \A j \in Requests : req[j].s = k \/ req'[j].s = k => req'[j] = req[j]
    BY <1>1, <1>3, <1>5, <1>6
  <2>3. k \in raced' <=> k \in raced
    BY <1>2
  <2> QED
    BY <2>1, <2>2, <2>3, SyncKept
<1>8. SyncRow(s)'
  <2>1. sched'[s].state # "unborn"
    BY <1>4
  <2>2. ASSUME s \notin raced'
        PROVE  /\ AloneOn(s)'
               /\ (\A k \in Requests : req'[k].s # s) => entry'[s] = Loaded(s)'
               /\ \A k \in Requests : req'[k].s = s => OnItsWay(req[k], s)'
    <3>1. s \notin raced /\ \A k \in Requests \ {h} : req[k].s # s
      BY <1>2, <2>2
    <3>2. \A k \in Requests : req'[k].s = s => k = h
      BY <1>3, <3>1
    <3>3. AloneOn(s)'
      BY <3>2 DEF AloneOn
    <3>4. (\A k \in Requests : req'[k].s # s) => entry'[s] = Loaded(s)'
      BY <1>1, <1>3, <3>1
    <3>5. req'[h].s = s => OnItsWay(req[h], s)'
      <4>1. SUFFICES ASSUME pc # "idle" PROVE OnItsWay(req[h], s)'
        BY <1>1, <1>3, <1>6
      <4> QED
        BY <1>1, <1>3, <1>4, <3>1, <4>1 DEF OnItsWay, SchedulePcs
    <3> QED
      BY <3>2, <3>3, <3>4, <3>5
  <2> QED
    BY <2>1, <2>2 DEF SyncRow
<1>9. \A k \in Requests : req'[k].pc \notin SchedulePcs => req'[k].s = None
  BY <1>1, <1>3 DEF SyncInv, SchedulePcs
<1> QED
  BY <1>7, <1>8, <1>9 DEF SyncInv

LEMMA BeginSync ==
    ASSUME TypeInv, SyncInv, NEW h \in Requests, NEW s \in Schedules,
           \/ \E t \in Targets, x \in Exprs, on \in BOOLEAN : CreateBackupSchedule(h, s, t, x, on)
           \/ SwitchRow(h, "Enable", s, TRUE) \/ SwitchRow(h, "Disable", s, FALSE)
           \/ BeginUpdate(h, s)
    PROVE  SyncInv'
<1>1. SyncRow(s) /\ sched[s] \in Schedule
  BY DEF SyncInv, TypeInv, SchedOK
<1>2. ASSUME NEW t \in Targets, NEW x \in Exprs, NEW on \in BOOLEAN,
             CreateBackupSchedule(h, s, t, x, on)
      PROVE  SyncInv'
  <2> DEFINE row == [state |-> "there", on |-> on, x |-> x, t |-> t]
             pc  == IF on THEN "schedule" ELSE "idle"
  <2>1. row \in Schedule /\ row.state = "there" /\ row.on = on
    BY DEF Schedule
  <2>2. /\ sched' = [sched EXCEPT ![s] = row] /\ Continue(h, "CreateSchedule", s, row, pc)
        /\ req[h].pc = "idle" /\ UNCHANGED entry /\ sched[s].state = "unborn"
    BY <1>2 DEF CreateBackupSchedule
  <2>3. pc \in SchedulePcs \cup {"idle"} /\ (pc = "schedule" <=> on) /\ (pc = "idle" <=> ~on)
    BY DEF SchedulePcs
  <2> HIDE DEF row, pc
  <2>4. sched'[s] = row
    BY <2>2 DEF TypeInv, SchedOK
  <2>5. ~on => entry[s] = Loaded(s)'
    BY <1>1, <2>1, <2>2, <2>4 DEF SyncRow, Untouched, Loaded
  <2> QED
    BY <2>1, <2>2, <2>3, <2>5, ContinueSync DEF AllOps
<1>3. ASSUME NEW op \in {"Enable", "Disable"}, NEW on \in BOOLEAN, SwitchRow(h, op, s, on)
      PROVE  SyncInv'
  <2> DEFINE row == [sched[s] EXCEPT !.on = on]
             pc  == IF on THEN "schedule" ELSE "unschedule"
  <2>1. row \in Schedule /\ row.state = "there" /\ row.on = on
    BY <1>1, <1>3 DEF Schedule, SwitchRow, Exists
  <2>2. /\ sched' = [sched EXCEPT ![s] = row] /\ Continue(h, op, s, row, pc)
        /\ req[h].pc = "idle" /\ UNCHANGED entry
    BY <1>3 DEF SwitchRow
  <2>3. pc \in SchedulePcs \cup {"idle"} /\ pc \notin {"idle", "update", "reschedule"}
        /\ (pc = "schedule" => on) /\ (pc = "unschedule" => ~on)
    BY DEF SchedulePcs
  <2> HIDE DEF row, pc
  <2>4. op \in AllOps
    BY DEF AllOps
  <2> QED
    BY <2>1, <2>2, <2>3, <2>4, ContinueSync
<1>4. CASE BeginUpdate(h, s)
  <2>1. /\ Exists(s) /\ req[h].pc = "idle" /\ UNCHANGED <<entry, sched>>
        /\ Continue(h, "UpdateSchedule", s, sched[s], "update")
    BY <1>4 DEF BeginUpdate
  <2>2. sched' = [sched EXCEPT ![s] = sched[s]] /\ sched[s].state = "there"
    BY <2>1 DEF TypeInv, SchedOK, Exists
  <2>3. req[h].s # s
    BY <2>1, NoneFresh DEF SyncInv, SchedulePcs
  <2>4. s \notin raced /\ (\A k \in Requests \ {h} : req[k].s # s) => entry[s] = Loaded(s)'
    BY <1>1, <2>1, <2>3 DEF SyncRow, Loaded, Exists
  <2>5. "update" \in SchedulePcs \cup {"idle"}
    BY DEF SchedulePcs
  <2> QED
    BY <1>1, <2>1, <2>2, <2>4, <2>5, ContinueSync DEF AllOps
<1> QED
  BY <1>2, <1>3, <1>4

LEMMA FinishSync ==
    ASSUME TypeInv, SyncInv, NEW h \in Requests, Finish(h), UNCHANGED <<sched, raced>>,
           NEW s \in Schedules \cup {None}, s = req[h].s,
           \A k \in Schedules \ {s} : entry'[k] = entry[k],
           s \in Schedules /\ Exists(s) /\ s \notin raced => entry'[s] = Loaded(s)
    PROVE  SyncInv'
<1>1. req'[h] = Idle /\ \A k \in Requests \ {h} : req'[k] = req[k]
  BY DEF Finish, TypeInv, ReqOK
<1>2. Idle.s = None /\ Idle.pc = "idle" /\ None \notin Schedules
  BY NoneFresh DEF Idle
<1>3. ASSUME NEW k \in Schedules \ {s} PROVE SyncRow(k)'
  BY <1>1, <1>2, <1>3, SyncKept DEF SyncInv
<1>4. ASSUME s \in Schedules PROVE SyncRow(s)'
  <2>1. SyncRow(s) /\ Loaded(s)' = Loaded(s)
    BY <1>4 DEF SyncInv, Loaded, Exists
  <2>2. sched'[s].state # "unborn"
    BY <2>1 DEF SyncRow, Untouched
  <2>3. ASSUME Exists(s), s \notin raced
        PROVE  entry'[s] = Loaded(s)' /\ \A k \in Requests : req'[k].s # s
    BY <1>1, <1>2, <1>4, <2>1, <2>3 DEF SyncRow, AloneOn
  <2> QED
    BY <2>2, <2>3 DEF SyncRow, AloneOn, Exists
<1>5. \A k \in Requests : req'[k].pc \notin SchedulePcs => req'[k].s = None
  BY <1>1, <1>2 DEF SyncInv
<1> QED
  BY <1>3, <1>4, <1>5 DEF SyncInv

LEMMA UpdateSync ==
    ASSUME TypeInv, SyncInv, NEW h \in Requests, NEW t \in Targets, NEW x \in Exprs,
           NEW on \in BOOLEAN, UpdateBackupSchedule(h, t, x, on)
    PROVE  SyncInv'
<1>1. PICK s \in Schedules : s = req[h].s /\ req[h].pc = "update" /\ UNCHANGED entry
  BY DEF UpdateBackupSchedule, TypeInv, ReqOK, Shape
<1>2. SyncRow(s)
  BY <1>1 DEF SyncInv
<1>3. Exists(s) /\ s \notin raced => entry[s] = Loaded(s) /\ req[h].on = sched[s].on
  BY <1>1, <1>2 DEF SyncRow, OnItsWay
<1>4. CASE Finish(h) /\ UNCHANGED <<sched, raced>>
  BY <1>1, <1>3, <1>4, FinishSync
<1>5. CASE Exists(s) /\ tgt[t] = "there"
  <2> DEFINE row == [state |-> "there", on |-> on, x |-> x, t |-> t]
             pc  == AfterUpdate(req[h].on, on)
  <2>1. row \in Schedule /\ row.state = "there" /\ row.on = on
    BY DEF Schedule
  <2>2. sched' = [sched EXCEPT ![s] = row] /\ Continue(h, "UpdateSchedule", s, row, pc)
    BY <1>1, <1>5 DEF UpdateBackupSchedule
  <2>3. req[h].on \in BOOLEAN
    BY DEF TypeInv, ReqOK, Local
  <2>4. /\ pc \in SchedulePcs \cup {"idle"} /\ pc # "update"
        /\ pc \in {"schedule", "reschedule"} <=> on
        /\ pc = "idle" => ~req[h].on
    BY <2>3 DEF SchedulePcs, AfterUpdate
  <2> HIDE DEF row, pc
  <2>5. sched'[s] = row
    BY <1>1, <2>2 DEF TypeInv, SchedOK
  <2>6. s \notin raced /\ pc = "idle" => entry[s] = Loaded(s)'
    BY <1>1, <1>3, <1>5, <2>1, <2>4, <2>5 DEF Loaded, Exists
  <2>7. s \notin raced /\ (\A k \in Requests \ {h} : req[k].s # s) =>
            /\ pc \in {"idle", "update"} => entry[s] = Loaded(s)'
            /\ pc \in {"schedule", "reschedule"} => row.on
            /\ pc = "unschedule" => ~row.on
    BY <2>1, <2>4, <2>6
  <2>8. "UpdateSchedule" \in AllOps
    BY DEF AllOps
  <2> QED
    BY <1>1, <2>1, <2>2, <2>4, <2>7, <2>8, ContinueSync
<1> QED
  BY <1>1, <1>4, <1>5 DEF UpdateBackupSchedule

LEMMA EntrySync ==
    ASSUME TypeInv, SyncInv, NEW h \in Requests, Unschedule(h) \/ ScheduleBackup(h)
    PROVE  SyncInv'
<1>1. PICK s \in Schedules : s = req[h].s /\ UNCHANGED <<sched, raced>>
  BY DEF Unschedule, ScheduleBackup, TypeInv, ReqOK, Shape
<1>2. SyncRow(s)
  BY <1>1 DEF SyncInv
<1>3. Exists(s) /\ s \notin raced => AloneOn(s) /\ OnItsWay(req[h], s)
  BY <1>1, <1>2 DEF SyncRow
<1>4. \A k \in Schedules \ {s} : entry'[k] = entry[k]
  BY <1>1 DEF Unschedule, ScheduleBackup, TypeInv, EntryOK
<1>5. CASE Unschedule(h) /\ req[h].pc = "unschedule"
  <2>1. Finish(h) /\ entry'[s] = NoEntry
    BY <1>1, <1>5 DEF Unschedule, TypeInv, EntryOK
  <2>2. Exists(s) /\ s \notin raced => entry'[s] = Loaded(s)
    BY <1>3, <1>5, <2>1 DEF OnItsWay, Loaded
  <2> QED
    BY <1>1, <1>4, <2>1, <2>2, FinishSync
<1>6. CASE ScheduleBackup(h)
  <2>1. /\ Finish(h) /\ req[h].pc = "schedule"
        /\ entry'[s] = IF req[h].x \in BadExprs THEN NoEntry ELSE Entry(req[h].t, req[h].x)
    BY <1>1, <1>6 DEF ScheduleBackup, TypeInv, EntryOK
  <2>2. Exists(s) /\ s \notin raced => entry'[s] = Loaded(s)
    BY <1>3, <2>1 DEF OnItsWay, Loaded
  <2> QED
    BY <1>1, <1>4, <2>1, <2>2, FinishSync
<1>7. CASE Unschedule(h) /\ req[h].pc = "reschedule"
  <2> DEFINE r == [req[h] EXCEPT !.pc = "schedule"]
  <2>1. req[h] \in Local
    BY DEF TypeInv, ReqOK
  <2>2. req' = [req EXCEPT ![h].pc = "schedule"]
    BY <1>7 DEF Unschedule
  <2>3. req'[h] = r /\ \A k \in Requests \ {h} : req'[k] = req[k]
    BY <2>2 DEF TypeInv, ReqOK
  <2>4. r.s = s /\ r.pc = "schedule" /\ r.x = req[h].x /\ r.t = req[h].t
    BY <1>1, <2>1 DEF Local
  <2> HIDE DEF r
  <2>5. ASSUME NEW k \in Schedules \ {s} PROVE SyncRow(k)'
    BY <1>1, <1>4, <2>3, <2>4, <2>5, SyncKept DEF SyncInv
  <2>6. SyncRow(s)'
    <3>1. sched'[s].state # "unborn"
      BY <1>1, <1>2 DEF SyncRow, Untouched
    <3>2. ASSUME Exists(s), s \notin raced
          PROVE  /\ AloneOn(s)' /\ req'[h].s = s
                 /\ \A k \in Requests : req'[k].s = s => OnItsWay(req[k], s)'
      <4>1. \A k \in Requests : req'[k].s = s => k = h
        BY <1>1, <1>3, <2>3, <3>2 DEF AloneOn
      <4>2. sched[s].on /\ req[h].x = sched[s].x /\ req[h].t = sched[s].t
        BY <1>3, <1>7, <3>2 DEF OnItsWay
      <4>3. OnItsWay(req[h], s)'
        BY <1>1, <2>3, <2>4, <4>2 DEF OnItsWay
      <4> QED
        BY <4>1, <4>3, <2>3, <2>4 DEF AloneOn, OnItsWay
    <3> QED
      BY <1>1, <3>1, <3>2 DEF SyncRow, Exists
  <2>7. \A k \in Requests : req'[k].pc \notin SchedulePcs => req'[k].s = None
    BY <2>3, <2>4 DEF SyncInv, SchedulePcs
  <2> QED
    BY <2>5, <2>6, <2>7 DEF SyncInv
<1> QED
  BY <1>5, <1>6, <1>7 DEF Unschedule

\* The steps of a backup and of its deletion: no schedule, no entry, and no
\* request that knows a schedule.
LEMMA OtherSync ==
    ASSUME TypeInv, SyncInv, UNCHANGED <<sched, entry, raced>>,
           \A k \in Requests : /\ req'[k].pc \notin SchedulePcs => req'[k].s = None
                               /\ req[k].s \in Schedules \/ req'[k].s \in Schedules =>
                                      req'[k] = req[k]
    PROVE  SyncInv'
<1>1. ASSUME NEW k \in Schedules PROVE SyncRow(k)'
  BY SyncKept DEF SyncInv
<1> QED
  BY <1>1 DEF SyncInv

LEMMA DeleteRequestSync ==
    ASSUME TypeInv, SyncInv, NEW h \in Requests,
           \/ \E b \in Backups : BeginDelete(h, b)
           \/ FindLatest(h) \/ ForgetSnapshot(h) \/ DeleteBackup(h)
    PROVE  SyncInv'
<1>1. req[h] \in Local /\ req[h].s = None
  BY DEF BeginDelete, FindLatest, ForgetSnapshot, DeleteBackup, SyncInv, SchedulePcs, TypeInv, ReqOK
<1>2. /\ req'[h].s = None /\ req'[h].pc \notin SchedulePcs
      /\ \A k \in Requests \ {h} : req'[k] = req[k]
  <2>1. CASE Finish(h)
    BY <2>1 DEF Finish, Idle, SchedulePcs, TypeInv, ReqOK
  <2>2. CASE \E b \in Backups : BeginDelete(h, b)
    BY <2>2, ZenonT(40) DEF BeginDelete, Idle, SchedulePcs, TypeInv, ReqOK
  <2>3. CASE \E snap : req' = [req EXCEPT ![h].snap = snap, ![h].pc = "forget"]
    BY <1>1, <2>3 DEF Local, SchedulePcs, TypeInv, ReqOK
  <2>4. CASE req' = [req EXCEPT ![h].pc = "delete"]
    BY <1>1, <2>4 DEF Local, SchedulePcs, TypeInv, ReqOK
  <2> QED
    BY <2>1, <2>2, <2>3, <2>4 DEF FindLatest, ForgetSnapshot, DeleteBackup
<1>3. UNCHANGED <<sched, entry, raced>>
  BY DEF BeginDelete, FindLatest, ForgetSnapshot, DeleteBackup
<1>4. \A k \in Requests : req'[k].pc \notin SchedulePcs => req'[k].s = None
  BY <1>2 DEF SyncInv
<1> QED
  BY <1>1, <1>2, <1>3, <1>4, NoneFresh, OtherSync

LEMMA TablesSync ==
    ASSUME TypeInv, SyncInv, Tables
    PROVE  SyncInv'
<1>1. ASSUME NEW s \in Schedules, DeleteBackupSchedule(s) PROVE SyncInv'
  <2>1. /\ UNCHANGED <<entry, req, raced>>
        /\ \A k \in Schedules \ {s} : sched'[k] = sched[k]
    BY <1>1 DEF DeleteBackupSchedule, TypeInv, SchedOK
  <2>2. sched'[s].state = "deleted"
    BY <1>1 DEF DeleteBackupSchedule, TypeInv, SchedOK
  <2>3. SyncRow(s)'
    BY <2>2 DEF SyncRow, Exists
  <2>4. ASSUME NEW k \in Schedules \ {s} PROVE SyncRow(k)'
    BY <2>1, <2>4, SyncKept DEF SyncInv
  <2> QED
    BY <2>1, <2>3, <2>4 DEF SyncInv
<1>2. CASE UNCHANGED <<sched, entry, req, raced>>
  BY <1>2, OtherSync DEF SyncInv
<1> QED
  BY <1>1, <1>2 DEF Tables, CreateBackupTarget, DeleteBackupTarget, Fire, CreateScheduledBackup,
     CreateBackup

LEMMA RestartSync ==
    ASSUME TypeInv, SyncInv, Restart
    PROVE  SyncInv'
<1>1. \A k \in Requests : req'[k].s = None /\ req'[k].pc = "idle"
  BY DEF Restart, Idle
<1>2. ASSUME NEW s \in Schedules PROVE SyncRow(s)'
  <2>1. entry'[s] = Loaded(s)' /\ sched' = sched
    BY <1>2 DEF Restart, Loaded, Exists
  <2>2. \A k \in Requests : req'[k].s # s
    BY <1>1, <1>2, NoneFresh
  <2>3. sched[s].state = "unborn" => Loaded(s)' = NoEntry
    BY <2>1 DEF Loaded, Exists
  <2> QED
    BY <2>1, <2>2, <2>3 DEF SyncRow, Untouched, AloneOn
<1> QED
  BY <1>1, <1>2 DEF SyncInv

LEMMA NextSync == TypeInv /\ SyncInv /\ [Next]_vars => SyncInv'
<1> SUFFICES ASSUME TypeInv, SyncInv, [Next]_vars PROVE SyncInv'
  OBVIOUS
<1>1. CASE UNCHANGED <<sched, entry, req, raced>>
  BY <1>1, OtherSync DEF SyncInv
<1>2. ASSUME NEW h \in Requests, Begin(h) PROVE SyncInv'
  BY <1>2, BeginSync, DeleteRequestSync DEF Begin
<1>3. ASSUME NEW h \in Requests, Work(h) PROVE SyncInv'
  BY <1>3, UpdateSync, EntrySync, DeleteRequestSync DEF Work
<1>4. ASSUME NEW b \in Backups, PerformBackup(b) PROVE SyncInv'
  BY <1>1, <1>4 DEF PerformBackup, BeginBackup, GetTarget, Restic, Size, Complete,
     MarkBackupFailed, Notify
<1> QED
  BY <1>1, <1>2, <1>3, <1>4, TablesSync, RestartSync DEF Next, vars

(* Whatever requests interleave, fail half way or die with the process, a   *)
(* schedule that two of them did not fight over has exactly the cron entry  *)
(* its row asks for as soon as nobody works on it.                          *)
THEOREM ScheduleAlwaysInSync == Spec => []ScheduleInSync
<1>1. Init => SyncInv
  BY NoneFresh DEF Init, SyncInv, SyncRow, Untouched, Exists, Idle, SchedulePcs
<1>2. SyncInv => ScheduleInSync
  BY DEF SyncInv, SyncRow, ScheduleInSync
<1> QED
  BY <1>1, <1>2, InitType, NextType, NextSync, PTL DEF Spec
-----------------------------------------------------------------------------
(* Backups implements BackupLife.  What the goroutine of a backup knows of   *)
(* its row: nobody else writes a status, so the row is where the goroutine   *)
(* left it or deleted; it writes one snapshot, of a backup not seen before;  *)
(* and it is not one the last process left behind.                           *)

Alive(row, j, wrote, died) ==
    /\ j.pc = "none" => j = NoJob
    /\ row.status = "unborn" => j.pc = "none" /\ ~wrote /\ ~died
    /\ j.pc # "none" => ~died
    /\ row.status \notin Gone /\ j.pc = "begin" => row.status = "PENDING"
    /\ row.status \notin Gone /\ j.pc \in {"target", "restic", "size", "complete", "fail"} =>
           row.status = "IN_PROGRESS"
    /\ j.pc \in {"begin", "target", "restic"} => ~wrote
    /\ row.status \in Gone => ~row.sent

AliveInv == \A b \in Backups : Alive(bk[b], job[b], b \in made, b \in cut)

\* A request to delete is about a row that was there.
WasThere == \A h \in Requests :
    req[h].pc \in {"find", "forget", "delete"} => bk[req[h].b].status # "unborn"

LifeInv == SoundInv /\ AliveInv /\ WasThere

LEMMA AliveKept ==
    ASSUME AliveInv, NEW c \in Backups, bk'[c] = bk[c], job'[c] = job[c],
           c \in made' <=> c \in made, c \in cut' <=> c \in cut
    PROVE  Alive(bk'[c], job'[c], c \in made', c \in cut')
BY DEF AliveInv, Alive

\* What a step of the goroutine does to its row, and to nothing else.
LEMMA PerformLocal ==
    ASSUME TypeInv, NEW b \in Backups, PerformBackup(b)
    PROVE  /\ \A c \in Backups \ {b} : bk'[c] = bk[c] /\ job'[c] = job[c]
           /\ made' \in {made, made \cup {b}} /\ cut' = cut /\ req' = req
BY DEF PerformBackup, BeginBackup, GetTarget, Restic, Size, Complete, MarkBackupFailed, Notify,
       WriteStatus, Go, TypeInv, BkOK, JobOK

LEMMA GoTo ==
    ASSUME TypeInv, NEW b \in Backups, NEW l, Go(b, l)
    PROVE  job'[b].pc = l
BY DEF Go, TypeInv, JobOK, Job

LEMMA Written ==
    ASSUME TypeInv, NEW b \in Backups, NEW st, WriteStatus(b, st)
    PROVE  /\ bk'[b].status = (IF Present(b) THEN st ELSE bk[b].status)
           /\ bk'[b].sent = bk[b].sent
BY DEF WriteStatus, TypeInv, BkOK, Backup, Present

LEMMA PerformAlive ==
    ASSUME TypeInv, AliveInv, NEW b \in Backups, PerformBackup(b)
    PROVE  AliveInv'
<1>1. Alive(bk[b], job[b], b \in made, b \in cut)
  BY DEF AliveInv
<1>2. \A c \in Backups \ {b} : Alive(bk'[c], job'[c], c \in made', c \in cut')
  BY PerformLocal, AliveKept
<1>3. bk[b].status \in Active \cup Finished \cup Gone
  BY DEF TypeInv, BkOK, Backup
<1>4. Alive(bk'[b], job'[b], b \in made', b \in cut')
  <2>1. CASE BeginBackup(b)
    BY <2>1, <1>1, <1>3, GoTo, Written DEF BeginBackup, Alive, Present, Gone
  <2>2. CASE GetTarget(b)
    BY <2>2, <1>1, <1>3, GoTo DEF GetTarget, Alive, Gone, Active, Finished
  <2>3. CASE Restic(b)
    <3>1. job'[b].pc \in {"size", "fail"}
      BY <2>3, GoTo DEF Restic, AfterRestic
    <3> QED
      BY <2>3, <3>1, <1>1, <1>3 DEF Restic, Alive, Gone, Active, Finished
  <2>4. CASE Size(b)
    <3>1. job'[b].pc \in {"complete", "fail"}
      BY <2>4, GoTo DEF Size
    <3> QED
      BY <2>4, <3>1, <1>1, <1>3 DEF Size, Alive, Gone, Active, Finished
  <2>5. CASE Complete(b)
    BY <2>5, <1>1, <1>3, GoTo, Written DEF Complete, AfterComplete, Alive, Present, Gone
  <2>6. CASE MarkBackupFailed(b)
    BY <2>6, <1>1, <1>3, GoTo, Written DEF MarkBackupFailed, FailedStatus, Alive, Present, Gone
  <2>7. CASE Notify(b)
    <3>1. /\ job'[b] = NoJob /\ NoJob.pc = "none" /\ bk'[b].status = bk[b].status
          /\ ~Present(b) => bk'[b].sent = bk[b].sent
      BY <2>7, NoJobType DEF Notify, TypeInv, JobOK, BkOK, Backup
    <3> QED
      BY <2>7, <3>1, <1>1 DEF Notify, Alive, Present
  <2> QED
    BY <2>1, <2>2, <2>3, <2>4, <2>5, <2>6, <2>7 DEF PerformBackup
<1> QED
  BY <1>2, <1>4 DEF AliveInv

LEMMA InsertAlive ==
    ASSUME TypeInv, AliveInv, NEW b \in Backups, NEW s, NEW t, InsertBackup(b, s, t),
           UNCHANGED <<cut, made>>
    PROVE  AliveInv'
<1>1. \A c \in Backups \ {b} : bk'[c] = bk[c] /\ job'[c] = job[c]
  BY DEF InsertBackup, TypeInv, BkOK, JobOK
<1>2. /\ bk'[b].status = "PENDING" /\ job'[b].pc = "begin" /\ bk[b].status = "unborn"
      /\ bk'[b].sent = FALSE
  BY DEF InsertBackup, TypeInv, BkOK, JobOK, Backups
<1>3. Alive(bk'[b], job'[b], b \in made', b \in cut')
  BY <1>2 DEF AliveInv, Alive
<1> QED
  BY <1>1, <1>3, AliveKept DEF AliveInv

LEMMA DeleteAlive ==
    ASSUME TypeInv, AliveInv, WasThere, NEW h \in Requests, DeleteBackup(h)
    PROVE  AliveInv'
<1>1. req[h].b \in Backups
  BY DEF DeleteBackup, TypeInv, ReqOK, Shape
<1>2. \A c \in Backups \ {req[h].b} : bk'[c] = bk[c]
  BY DEF DeleteBackup, TypeInv, BkOK
<1>3. bk'[req[h].b].status = "deleted" /\ bk'[req[h].b].sent = FALSE
  BY <1>1 DEF DeleteBackup, TypeInv, BkOK, NoBackup
<1>4. Alive(bk'[req[h].b], job'[req[h].b], req[h].b \in made', req[h].b \in cut')
  BY <1>1, <1>3 DEF DeleteBackup, AliveInv, Alive, Gone
<1> QED
  BY <1>2, <1>4, AliveKept DEF DeleteBackup, AliveInv

LEMMA RestartAlive ==
    ASSUME TypeInv, LifeInv, Restart
    PROVE  AliveInv'
<1> SUFFICES ASSUME NEW c \in Backups PROVE Alive(bk'[c], job'[c], c \in made', c \in cut')
  BY DEF AliveInv
<1>1. job'[c] = NoJob /\ NoJob.pc = "none" /\ bk'[c] = bk[c] /\ made' = made
  BY NoJobType DEF Restart
<1>2. c \in cut' <=> c \in cut \/ job[c] # NoJob
  BY DEF Restart
<1>3. job[c] # NoJob => bk[c].status # "unborn"
  BY DEF LifeInv, AliveInv, Alive
<1> QED
  BY <1>1, <1>2, <1>3 DEF LifeInv, AliveInv, Alive

LEMMA NextAlive == TypeInv /\ LifeInv /\ [Next]_vars => AliveInv'
<1> SUFFICES ASSUME TypeInv, LifeInv, [Next]_vars PROVE AliveInv'
  OBVIOUS
<1>1. CASE UNCHANGED <<bk, job, made, cut>>
  BY <1>1 DEF LifeInv, AliveInv
<1>2. CASE Tables
  BY <1>1, <1>2, InsertAlive DEF LifeInv, Tables, CreateBackupTarget, DeleteBackupTarget,
     DeleteBackupSchedule, Fire, CreateScheduledBackup, CreateBackup
<1>3. ASSUME NEW h \in Requests, Begin(h) PROVE AliveInv'
  BY <1>1, <1>3 DEF Begin, CreateBackupSchedule, SwitchRow, BeginUpdate, BeginDelete
<1>4. ASSUME NEW h \in Requests, Work(h) PROVE AliveInv'
  BY <1>1, <1>4, DeleteAlive DEF LifeInv, Work, UpdateBackupSchedule, Unschedule, ScheduleBackup,
     FindLatest, ForgetSnapshot
<1> QED
  BY <1>1, <1>2, <1>3, <1>4, PerformAlive, RestartAlive DEF LifeInv, Next, vars

LEMMA WasThereKept ==
    ASSUME TypeInv, WasThere,
           \A b \in Backups : bk[b].status # "unborn" => bk'[b].status # "unborn",
           \A h \in Requests : \/ req'[h] = req[h]
                               \/ req'[h].pc \notin {"find", "forget", "delete"}
                               \/ /\ req'[h].b = req[h].b
                                  /\ req[h].pc \in {"find", "forget", "delete"}
                               \/ bk'[req'[h].b].status # "unborn"
    PROVE  WasThere'
BY DEF WasThere, TypeInv, ReqOK, Shape

\* A row that was inserted stays, or is known to be deleted.
LEMMA NextBorn ==
    ASSUME TypeInv, [Next]_vars, NEW b \in Backups, bk[b].status # "unborn"
    PROVE  bk'[b].status # "unborn"
<1>1. CASE UNCHANGED bk
  BY <1>1
<1>2. ASSUME NEW c \in Backups, NEW s, NEW t, InsertBackup(c, s, t) PROVE bk'[b].status # "unborn"
  BY <1>2 DEF InsertBackup, TypeInv, BkOK
<1>3. ASSUME NEW c \in Backups, PerformBackup(c) PROVE bk'[b].status # "unborn"
  <2>1. CASE b = c
    BY <1>1, <1>3, <2>1, Written DEF PerformBackup, BeginBackup, GetTarget, Restic, Size, Complete,
       MarkBackupFailed, FailedStatus, Notify, TypeInv, BkOK, Backup
  <2> QED
    BY <1>3, <2>1, PerformLocal
<1>4. ASSUME NEW h \in Requests, DeleteBackup(h) PROVE bk'[b].status # "unborn"
  BY <1>4 DEF DeleteBackup, TypeInv, BkOK, NoBackup
<1>5. CASE Tables
  BY <1>1, <1>2, <1>5 DEF Tables, CreateBackupTarget, DeleteBackupTarget, DeleteBackupSchedule,
     Fire, CreateScheduledBackup, CreateBackup
<1>6. ASSUME NEW h \in Requests, Begin(h) PROVE UNCHANGED bk
  BY <1>6 DEF Begin, CreateBackupSchedule, SwitchRow, BeginUpdate, BeginDelete
<1>7. ASSUME NEW h \in Requests, Work(h) PROVE bk'[b].status # "unborn"
  BY <1>1, <1>4, <1>7 DEF Work, UpdateBackupSchedule, Unschedule, ScheduleBackup,
     FindLatest, ForgetSnapshot
<1> QED
  BY <1>1, <1>3, <1>5, <1>6, <1>7 DEF Next, Restart, vars

LEMMA NextWasThere == TypeInv /\ LifeInv /\ [Next]_vars => WasThere'
<1> SUFFICES ASSUME TypeInv, LifeInv, [Next]_vars PROVE WasThere'
  OBVIOUS
<1> DEFINE Asks(h) == \/ req'[h] = req[h]
                      \/ req'[h].pc \notin {"find", "forget", "delete"}
                      \/ /\ req'[h].b = req[h].b
                         /\ req[h].pc \in {"find", "forget", "delete"}
                      \/ bk'[req'[h].b].status # "unborn"
<1>1. CASE UNCHANGED req
  BY <1>1, NextBorn, WasThereKept DEF LifeInv
<1>2. ASSUME NEW h \in Requests, Begin(h) \/ Work(h) PROVE \A k \in Requests : Asks(k)
  <2>1. \A k \in Requests \ {h} : req'[k] = req[k]
    <3>1. \E r : req' = [req EXCEPT ![h] = r]
      <4>1. ASSUME NEW op, NEW s, NEW row, NEW pc, Continue(h, op, s, row, pc)
            PROVE  \E r : req' = [req EXCEPT ![h] = r]
        BY <4>1 DEF Continue
      <4>2. CASE Begin(h)
        BY <4>1, <4>2 DEF Begin, CreateBackupSchedule, SwitchRow, BeginUpdate, BeginDelete
      <4>3. CASE Work(h)
        BY <4>1, <4>3 DEF Work, UpdateBackupSchedule, Unschedule, ScheduleBackup, FindLatest,
           ForgetSnapshot, DeleteBackup, Finish
      <4> QED BY <1>2, <4>2, <4>3
    <3> QED
      BY <3>1 DEF TypeInv, ReqOK
  <2>2. Asks(h)
    <3>1. req[h] \in Local /\ req \in [Requests -> Local]
      BY DEF TypeInv, ReqOK
    <3>2. CASE Finish(h)
      BY <3>1, <3>2, IdleType DEF Finish
    <3>3. ASSUME NEW op, NEW s, NEW row, NEW pc, pc \notin {"find", "forget", "delete"},
                 Continue(h, op, s, row, pc)
          PROVE  req'[h].pc \notin {"find", "forget", "delete"}
      BY <3>1, <3>3, IdleType DEF Continue, Local
    <3>4. ASSUME NEW b \in Backups, BeginDelete(h, b) PROVE Asks(h)
      BY <3>1, <3>4, IdleType DEF BeginDelete, Local, Present, Gone
    <3>5. CASE Begin(h)
      <4>1. ASSUME NEW s \in Schedules, NEW t \in Targets, NEW x \in Exprs, NEW on \in BOOLEAN,
                   CreateBackupSchedule(h, s, t, x, on)
            PROVE  Asks(h)
        <5>1. CASE on
          BY <3>3, <4>1, <5>1 DEF CreateBackupSchedule
        <5>2. CASE ~on
          BY <3>3, <4>1, <5>2 DEF CreateBackupSchedule
        <5> QED BY <5>1, <5>2
      <4>2. ASSUME NEW op, NEW s \in Schedules, NEW on \in BOOLEAN, SwitchRow(h, op, s, on)
            PROVE  Asks(h)
        <5>1. CASE on
          BY <3>3, <4>2, <5>1 DEF SwitchRow
        <5>2. CASE ~on
          BY <3>3, <4>2, <5>2 DEF SwitchRow
        <5> QED BY <5>1, <5>2
      <4>3. ASSUME NEW s \in Schedules, BeginUpdate(h, s) PROVE Asks(h)
        BY <3>3, <4>3 DEF BeginUpdate
      <4> HIDE DEF Asks
      <4> QED
        BY <3>4, <3>5, <4>1, <4>2, <4>3 DEF Begin
    <3>6. CASE FindLatest(h) \/ ForgetSnapshot(h)
      BY <3>1, <3>2, <3>6, SMTT(20) DEF FindLatest, ForgetSnapshot, Local
    <3>7. CASE Unschedule(h) \/ ScheduleBackup(h) \/ DeleteBackup(h)
      BY <3>1, <3>2, <3>7 DEF Unschedule, ScheduleBackup, DeleteBackup, Local
    <3>8. CASE \E t \in Targets, x \in Exprs, on \in BOOLEAN : UpdateBackupSchedule(h, t, x, on)
      BY <3>2, <3>3, <3>8 DEF UpdateBackupSchedule, AfterUpdate
    <3> QED
      BY <1>2, <3>5, <3>6, <3>7, <3>8 DEF Work
  <2> QED BY <2>1, <2>2
<1>3. ASSUME NEW h \in Requests, Begin(h) \/ Work(h) PROVE WasThere'
  <2> HIDE DEF Asks
  <2> QED
    BY <1>2, <1>3, NextBorn, WasThereKept DEF LifeInv, Asks
<1>4. CASE Tables
  BY <1>1, <1>4 DEF Tables, CreateBackupTarget, DeleteBackupTarget, DeleteBackupSchedule,
     Fire, CreateScheduledBackup, CreateBackup
<1>5. CASE Restart
  BY <1>5, IdleType DEF Restart, WasThere
<1> QED
  BY <1>1, <1>3, <1>4, <1>5, PerformLocal DEF Next, vars

LEMMA InitLife == Init => LifeInv
<1>1. Init => AliveInv
  BY NoJobType, NoBackupType DEF Init, NoBackup, AliveInv, Alive
<1>2. Init => WasThere
  BY IdleType DEF Init, WasThere
<1> QED
  BY <1>1, <1>2, InitSound DEF LifeInv

LEMMA LifeAlways == Spec => [](TypeInv /\ LifeInv)
<1>1. TypeInv /\ LifeInv /\ [Next]_vars => LifeInv'
  BY NextSound, NextAlive, NextWasThere DEF LifeInv
<1> QED
  BY <1>1, InitType, NextType, InitLife, PTL DEF Spec

\* The abstract state: what is known of each backup, and of whom it was told.
LifeMap == [b \in Backups |-> LifeOf(b)]
ToldMap == {b \in Backups : bk[b].sent}

LifeVars == <<LifeMap, made, ToldMap>>

LEMMA LifeOfIs ==
    ASSUME TypeInv, NEW b \in Backups
    PROVE  /\ LifeOf(b) = "none" <=> bk[b].status = "unborn"
           /\ LifeOf(b) = "waiting" <=> bk[b].status = "PENDING" /\ b \notin cut
           /\ LifeOf(b) = "running" <=> bk[b].status = "IN_PROGRESS" /\ b \notin cut
           /\ LifeOf(b) = "cut" <=> bk[b].status \in Active /\ b \in cut
           /\ LifeOf(b) = "completed" <=> bk[b].status = "COMPLETED"
           /\ LifeOf(b) = "failed" <=> bk[b].status = "FAILED"
           /\ LifeOf(b) = "deleted" <=> bk[b].status = "deleted"
<1>1. bk[b].status \in Active \cup Finished \cup Gone
  BY DEF TypeInv, BkOK, Backup
<1> QED
  BY <1>1 DEF LifeOf, Active, Finished, Gone

LEMMA LifeKept ==
    ASSUME NEW c \in Backups, bk'[c] = bk[c], c \in cut' <=> c \in cut
    PROVE  LifeOf(c)' = LifeOf(c)
BY DEF LifeOf

\* One backup moves and the others keep their lives.
LEMMA OneMoves ==
    ASSUME NEW b \in Backups, NEW from, NEW to, LifeOf(b) \in from, LifeOf(b)' = to,
           \A c \in Backups \ {b} : bk'[c] = bk[c], bk'[b].sent = bk[b].sent,
           UNCHANGED <<made, cut>>
    PROVE  Abstract!Move(b, from, to)
<1>1. \A c \in Backups \ {b} : LifeOf(c)' = LifeOf(c)
  BY LifeKept
<1>2. LifeMap' = [LifeMap EXCEPT ![b] = to]
  BY <1>1 DEF LifeMap
<1>3. ToldMap' = ToldMap
  BY DEF ToldMap
<1> QED
  BY <1>2, <1>3 DEF Abstract!Move, LifeMap, ToldMap

LEMMA LifeStutters ==
    ASSUME UNCHANGED <<bk, made, cut>>
    PROVE  UNCHANGED LifeVars
<1>1. \A c \in Backups : LifeOf(c)' = LifeOf(c)
  BY LifeKept
<1> QED
  BY <1>1 DEF LifeVars, LifeMap, ToldMap

\* A write that a deleted row does not take.
LEMMA GoneStutters ==
    ASSUME TypeInv, NEW b \in Backups, NEW st, WriteStatus(b, st), ~Present(b),
           UNCHANGED <<made, cut>>
    PROVE  UNCHANGED LifeVars
<1>1. bk' = bk
  BY DEF WriteStatus, Present, TypeInv, BkOK, Backup
<1> QED
  BY <1>1, LifeStutters

LEMMA WriteMoves ==
    ASSUME TypeInv, TypeInv', NEW b \in Backups, NEW from, NEW to,
           NEW st, WriteStatus(b, st), Present(b),
           LifeOf(b) = from, LifeOf(b)' = to, UNCHANGED <<made, cut>>
    PROVE  Abstract!Move(b, {from}, to)
<1>1. \A c \in Backups \ {b} : bk'[c] = bk[c]
  BY DEF WriteStatus, TypeInv, BkOK
<1> QED
  BY <1>1, Written, OneMoves

LEMMA BeginRefines ==
    ASSUME TypeInv, TypeInv', LifeInv, NEW b \in Backups, BeginBackup(b)
    PROVE  Abstract!Start(b) \/ UNCHANGED LifeVars
<1>1. CASE Present(b)
  <2>1. LifeOf(b) = "waiting" /\ LifeOf(b)' = "running"
    <3>1. bk'[b].status = "IN_PROGRESS" /\ b \notin cut /\ cut' = cut
      BY <1>1, Written DEF BeginBackup, LifeInv, AliveInv, Alive
    <3>2. LifeOf(b)' = "running"
      BY <3>1 DEF LifeOf, Active
    <3> QED
      BY <1>1, <3>1, <3>2, LifeOfIs DEF BeginBackup, LifeInv, AliveInv, Alive, Present
  <2> QED
    BY <1>1, <2>1, WriteMoves DEF BeginBackup, Abstract!Start
<1>2. CASE ~Present(b)
  BY <1>2, GoneStutters DEF BeginBackup
<1> QED BY <1>1, <1>2

LEMMA CompleteRefines ==
    ASSUME TypeInv, TypeInv', LifeInv, NEW b \in Backups, Complete(b)
    PROVE  Abstract!Succeed(b) \/ UNCHANGED LifeVars
<1>1. CASE Present(b)
  <2>1. LifeOf(b) = "running" /\ LifeOf(b)' = "completed"
    <3>1. bk'[b].status = "COMPLETED" /\ b \notin cut /\ cut' = cut
      BY <1>1, Written DEF Complete, LifeInv, AliveInv, Alive
    <3>2. LifeOf(b)' = "completed"
      BY <3>1 DEF LifeOf, Active
    <3> QED
      BY <1>1, <3>1, <3>2, LifeOfIs DEF Complete, LifeInv, AliveInv, Alive, Present
  <2>2. b \in made
    BY DEF Complete, LifeInv, SoundInv, Sound
  <2> QED
    BY <1>1, <2>1, <2>2, WriteMoves DEF Complete, Abstract!Succeed
<1>2. CASE ~Present(b)
  BY <1>2, GoneStutters DEF Complete
<1> QED BY <1>1, <1>2

LEMMA FailRefines ==
    ASSUME TypeInv, TypeInv', LifeInv, NEW b \in Backups, MarkBackupFailed(b)
    PROVE  Abstract!Fail(b) \/ UNCHANGED LifeVars
<1>1. CASE Present(b)
  <2>1. LifeOf(b) = "running" /\ LifeOf(b)' = "failed"
    <3>1. bk'[b].status = "FAILED" /\ b \notin cut /\ cut' = cut
      BY <1>1, Written DEF MarkBackupFailed, FailedStatus, LifeInv, AliveInv, Alive
    <3>2. LifeOf(b)' = "failed"
      BY <3>1 DEF LifeOf, Active
    <3> QED
      BY <1>1, <3>1, <3>2, LifeOfIs DEF MarkBackupFailed, LifeInv, AliveInv, Alive, Present
  <2> QED
    BY <1>1, <2>1, WriteMoves DEF MarkBackupFailed, Abstract!Fail
<1>2. CASE ~Present(b)
  BY <1>2, GoneStutters DEF MarkBackupFailed
<1> QED BY <1>1, <1>2

\* The snapshot, written or not.
LEMMA ResticRefines ==
    ASSUME TypeInv, TypeInv', LifeInv, NEW b \in Backups, Restic(b)
    PROVE  Abstract!Save(b) \/ UNCHANGED LifeVars
<1>1. UNCHANGED <<bk, cut>>
  BY DEF Restic
<1>2. LifeMap' = LifeMap /\ ToldMap' = ToldMap
  <2>1. \A c \in Backups : LifeOf(c)' = LifeOf(c)
    BY <1>1, LifeKept
  <2> QED
    BY <1>1, <2>1 DEF LifeMap, ToldMap
<1>3. b \notin made /\ LifeOf(b) \in {"running", "deleted"}
  BY LifeOfIs DEF Restic, LifeInv, AliveInv, Alive, Gone
<1>4. made' = made \/ made' = made \cup {b}
  BY DEF Restic
<1> QED
  BY <1>2, <1>3, <1>4 DEF Abstract!Save, LifeVars, LifeMap, ToldMap

LEMMA NotifyRefines ==
    ASSUME TypeInv, TypeInv', LifeInv, NEW b \in Backups, Notify(b)
    PROVE  Abstract!Tell(b) \/ UNCHANGED LifeVars
<1>1. UNCHANGED <<made, cut>>
  BY DEF Notify
<1>2. \A c \in Backups : bk'[c].status = bk[c].status /\ (c # b => bk'[c] = bk[c])
  BY DEF Notify, TypeInv, BkOK, Backup
<1>3. LifeMap' = LifeMap
  <2>1. \A c \in Backups : LifeOf(c)' = LifeOf(c)
    BY <1>1, <1>2 DEF LifeOf
  <2> QED
    BY <2>1 DEF LifeMap
<1>4. PICK sent \in BOOLEAN : bk'[b].sent = (bk[b].sent \/ (sent /\ Present(b)))
  BY DEF Notify, TypeInv, BkOK, Backup
<1>5. CASE sent /\ Present(b)
  <2>1. LifeOf(b) \in Abstract!Outcomes
    BY <1>5, LifeOfIs DEF Abstract!Outcomes, Notify, LifeInv, SoundInv, Sound, Present, Gone,
       TypeInv, BkOK, Backup, Finished
  <2>2. ToldMap' = ToldMap \cup {b}
    BY <1>2, <1>4, <1>5 DEF ToldMap
  <2> QED
    BY <1>1, <1>3, <2>1, <2>2 DEF Abstract!Tell, LifeMap, ToldMap
<1>6. CASE ~(sent /\ Present(b))
  <2>1. bk'[b].sent <=> bk[b].sent
    BY <1>4, <1>6
  <2>2. ToldMap' = ToldMap
    BY <1>2, <2>1 DEF ToldMap
  <2> QED
    BY <1>1, <1>3, <2>2 DEF LifeVars
<1> QED BY <1>5, <1>6

LEMMA InsertRefines ==
    ASSUME TypeInv, LifeInv, NEW b \in Backups, NEW s, NEW t, InsertBackup(b, s, t),
           UNCHANGED <<made, cut>>
    PROVE  Abstract!Ask(b)
<1>1. \A c \in Backups \ {b} : bk'[c] = bk[c]
  BY DEF InsertBackup, TypeInv, BkOK
<1>2. bk'[b].status = "PENDING" /\ bk'[b].sent = FALSE /\ bk[b].status = "unborn"
  BY DEF InsertBackup, TypeInv, BkOK, Backups
<1>3. b \notin cut /\ bk[b].sent = FALSE
  BY <1>2 DEF LifeInv, AliveInv, Alive, Gone, TypeInv, BkOK, Backup
<1>4. LifeOf(b) = "none" /\ LifeOf(b)' = "waiting"
  BY <1>2, <1>3 DEF LifeOf, Active
<1>5. bk'[b].sent = bk[b].sent
  BY <1>2, <1>3
<1>6. Abstract!Move(b, {"none"}, "waiting")
  BY <1>1, <1>4, <1>5, OneMoves
<1> QED
  BY <1>6 DEF Abstract!Ask

\* Deleted twice, a backup is deleted once.
LEMMA DeleteRefines ==
    ASSUME TypeInv, LifeInv, NEW h \in Requests, DeleteBackup(h)
    PROVE  (\E b \in Backups : Abstract!Delete(b)) \/ UNCHANGED LifeVars
<1>1. PICK b \in Backups : b = req[h].b /\ bk[b].status # "unborn"
  BY DEF DeleteBackup, LifeInv, WasThere, TypeInv, ReqOK, Shape
<1>2. \A c \in Backups \ {b} : bk'[c] = bk[c]
  BY <1>1 DEF DeleteBackup, TypeInv, BkOK
<1>3. bk'[b].status = "deleted" /\ bk'[b].sent = FALSE
  BY <1>1 DEF DeleteBackup, TypeInv, BkOK, NoBackup
<1>4. UNCHANGED <<made, cut>>
  BY DEF DeleteBackup
<1>5. LifeOf(b)' = "deleted"
  BY <1>3 DEF LifeOf, Active
<1>6. \A c \in Backups \ {b} : LifeOf(c)' = LifeOf(c)
  BY <1>2, <1>4, LifeKept
<1>7. LifeMap' = [LifeMap EXCEPT ![b] = "deleted"]
  BY <1>1, <1>5, <1>6 DEF LifeMap
<1>8. ToldMap' = ToldMap \ {b}
  BY <1>1, <1>2, <1>3 DEF ToldMap
<1>9. CASE LifeOf(b) = "deleted"
  <2>1. b \notin ToldMap
    BY <1>1, <1>9, LifeOfIs DEF ToldMap, LifeInv, AliveInv, Alive, Gone
  <2> QED
    BY <1>1, <1>4, <1>9, <1>7, <1>8, <2>1 DEF LifeVars, LifeMap
<1>10. CASE LifeOf(b) # "deleted"
  BY <1>1, <1>4, <1>10, <1>7, <1>8, LifeOfIs DEF Abstract!Delete, LifeMap, ToldMap
<1> QED BY <1>9, <1>10

LEMMA RestartRefines ==
    ASSUME TypeInv, LifeInv, Restart
    PROVE  Abstract!CutOff
<1>1. UNCHANGED <<bk, made>> /\ cut' = cut \cup {b \in Backups : job[b] # NoJob}
  BY DEF Restart
<1>2. ASSUME NEW b \in Backups
      PROVE  LifeOf(b)' = IF LifeOf(b) \in {"waiting", "running"} THEN "cut" ELSE LifeOf(b)
  <2>1. bk[b].status \in Active => b \in cut'
    BY <1>1, NoJobType DEF LifeInv, SoundInv, Sound
  <2>2. CASE bk[b].status \in Active
    BY <1>1, <2>1, <2>2 DEF LifeOf, Active
  <2>3. CASE bk[b].status \notin Active
    BY <1>1, <2>3, LifeOfIs DEF LifeOf, Active
  <2> QED BY <2>2, <2>3
<1>3. LifeMap' = [b \in Backups |-> IF LifeMap[b] \in {"waiting", "running"} THEN "cut"
                                    ELSE LifeMap[b]]
  BY <1>2 DEF LifeMap
<1>4. ToldMap' = ToldMap
  BY <1>1 DEF ToldMap
<1> QED
  BY <1>1, <1>3, <1>4 DEF Abstract!CutOff, LifeMap, ToldMap

LEMMA StepRefines ==
    TypeInv /\ TypeInv' /\ LifeInv /\ [Next]_vars => [Abstract!LifeNext]_LifeVars
<1> SUFFICES ASSUME TypeInv, TypeInv', LifeInv, [Next]_vars
             PROVE  Abstract!LifeNext \/ UNCHANGED LifeVars
  OBVIOUS
<1>1. CASE UNCHANGED <<bk, made, cut>>
  BY <1>1, LifeStutters
<1>2. CASE Tables
  <2>1. ASSUME NEW b \in Backups, NEW s, NEW t, InsertBackup(b, s, t), UNCHANGED <<made, cut>>
        PROVE  Abstract!LifeNext
    BY <2>1, InsertRefines DEF Abstract!LifeNext
  <2> QED
    BY <1>1, <1>2, <2>1 DEF Tables, CreateBackupTarget, DeleteBackupTarget,
       DeleteBackupSchedule, Fire, CreateScheduledBackup, CreateBackup
<1>3. ASSUME NEW h \in Requests, Begin(h) PROVE UNCHANGED <<bk, made, cut>>
  BY <1>3 DEF Begin, CreateBackupSchedule, SwitchRow, BeginUpdate, BeginDelete
<1>4. ASSUME NEW h \in Requests, Work(h) PROVE Abstract!LifeNext \/ UNCHANGED LifeVars
  <2>1. CASE DeleteBackup(h)
    BY <2>1, DeleteRefines DEF Abstract!LifeNext
  <2> QED
    BY <1>1, <1>4, <2>1 DEF Work, UpdateBackupSchedule, Unschedule, ScheduleBackup, FindLatest,
       ForgetSnapshot
<1>5. ASSUME NEW b \in Backups, PerformBackup(b) PROVE Abstract!LifeNext \/ UNCHANGED LifeVars
  <2>1. CASE GetTarget(b) \/ Size(b)
    BY <1>1, <2>1 DEF GetTarget, Size
  <2> QED
    BY <1>5, <2>1, BeginRefines, ResticRefines, CompleteRefines, FailRefines, NotifyRefines
    DEF PerformBackup, Abstract!LifeNext
<1>6. CASE Restart
  BY <1>6, RestartRefines DEF Abstract!LifeNext
<1> QED
  BY <1>1, <1>2, <1>3, <1>4, <1>5, <1>6 DEF Next, vars

LEMMA InitRefines == Init => Abstract!LifeInit
<1> SUFFICES ASSUME Init PROVE Abstract!LifeInit
  OBVIOUS
<1>1. \A b \in Backups : bk[b].status = "unborn" /\ bk[b].sent = FALSE
  BY DEF Init, NoBackup
<1>2. \A b \in Backups : LifeOf(b) = "none"
  BY <1>1 DEF LifeOf, Active
<1> QED
  BY <1>1, <1>2 DEF Init, Abstract!LifeInit

(* The backup service implements BackupLife: whatever deletes, restarts and *)
(* failures race with its goroutine, a backup is begun once and has one     *)
(* outcome, which nothing rewrites, success comes after its own snapshot,   *)
(* and what the process left behind stays as it is.                         *)
THEOREM BackupRefinement == Spec => ImplementsBackupLife
<1>1. TypeInv /\ TypeInv' /\ LifeInv /\ [Next]_vars => [Abstract!LifeNext]_(Abstract!lifeVars)
  BY StepRefines DEF LifeVars, LifeMap, ToldMap, Abstract!lifeVars
<1> QED
  BY <1>1, InitRefines, LifeAlways, PTL DEF Spec, ImplementsBackupLife, Abstract!LifeSafety

-----------------------------------------------------------------------------
(* CompletedRestorable is false, since a deletion forgets the newest        *)
(* snapshot of the repository, whoever made it.  That is all that is wrong: *)
(* it holds as long as each deletion happens to meet its own snapshot, and  *)
(* the process does not die between a snapshot and its row.                 *)

Has(t, b)       == \E i \in DOMAIN repo[t] : repo[t][i] = b
BeingDeleted(b) == \E h \in Requests : req[h].pc = "delete" /\ req[h].b = b
Safe(b)         == Has(bk[b].target, b) \/ BeingDeleted(b)

ForgetsOwn   == \A h \in Requests : req[h].pc = "forget" => req[h].snap = req[h].b
DeletesWhole == Restart => \A h \in Requests : req[h].pc # "delete"

\* A goroutine writes to the target of its row, and what was written stays in
\* that repository until the backup is deleted.
Held(b) == Present(b) => /\ job[b].pc # "none" => job[b].t = bk[b].target
                         /\ b \in made => Safe(b)

HeldInv == \A b \in Backups : Held(b)

LEMMA HeldKept ==
    ASSUME HeldInv, NEW c \in Backups,
           Present(c)' => Present(c) /\ bk'[c].target = bk[c].target,
           job'[c].pc # "none" => job[c].pc # "none" /\ job'[c].t = job[c].t,
           c \in made' => c \in made,
           Present(c)' /\ Safe(c) => Safe(c)'
    PROVE  Held(c)'
BY DEF HeldInv, Held

LEMMA OthersDelete ==
    ASSUME NEW h \in Requests, req[h].pc # "delete", \A k \in Requests \ {h} : req'[k] = req[k],
           NEW c, BeingDeleted(c)
    PROVE  BeingDeleted(c)'
BY DEF BeingDeleted

\* restic adds a snapshot to the target of the goroutine.
LEMMA ResticWrites ==
    ASSUME TypeInv, NEW b \in Backups, PerformBackup(b), NEW t \in Targets
    PROVE  /\ \A c : Has(t, c) => Has(t, c)'
           /\ b \in made' => b \in made \/ (t = job[b].t => Has(t, b)')
<1>1. CASE repo' = repo /\ made' = made
  BY <1>1 DEF Has
<1>2. CASE repo' = [repo EXCEPT ![job[b].t] = Append(@, b)]
  <2>1. repo[t] \in Seq(Backups)
    BY DEF TypeInv, RepoOK
  <2>2. CASE t = job[b].t
    <3>1. repo'[t] = Append(repo[t], b)
      BY <1>2, <2>2 DEF TypeInv, RepoOK
    <3>2. /\ DOMAIN repo[t] = 1..Len(repo[t]) /\ DOMAIN repo'[t] = 1..(Len(repo[t]) + 1)
          /\ Len(repo[t]) \in Nat
      BY <2>1, <3>1, LenProperties, AppendProperties
    <3>3. \A i \in 1..Len(repo[t]) : repo'[t][i] = repo[t][i]
      BY <2>1, <3>1, AppendProperties
    <3>4. repo'[t][Len(repo[t]) + 1] = b
      BY <2>1, <3>1, AppendProperties
    <3> QED
      BY <3>2, <3>3, <3>4 DEF Has
  <2>3. CASE t # job[b].t
    BY <1>2, <2>3 DEF Has, TypeInv, RepoOK
  <2> QED BY <2>2, <2>3
<1> QED
  BY <1>1, <1>2 DEF PerformBackup, BeginBackup, GetTarget, Restic, Size, Complete,
     MarkBackupFailed, Notify

LEMMA PerformRow ==
    ASSUME TypeInv, NEW b \in Backups, PerformBackup(b)
    PROVE  /\ bk'[b].target = bk[b].target
           /\ Present(b)' <=> Present(b)
           /\ job'[b].pc # "none" => job[b].pc # "none" /\ job'[b].t = job[b].t
           /\ job[b].pc # "none"
<1>1. bk[b] \in Backup /\ job[b] \in Job
  BY DEF TypeInv, BkOK, JobOK
<1>2. job[b].pc # "none" /\ (job'[b].pc # "none" => job'[b].t = job[b].t)
  <2>1. ASSUME NEW l, Go(b, l) PROVE job'[b].t = job[b].t
    BY <1>1, <2>1 DEF Go, TypeInv, JobOK, Job
  <2> QED
    BY <1>1, <2>1, NoJobType DEF PerformBackup, BeginBackup, GetTarget, Restic, Size, Complete,
       MarkBackupFailed, Notify, TypeInv, JobOK
<1>3. ASSUME NEW st \in Active \cup Finished, WriteStatus(b, st)
      PROVE  bk'[b].target = bk[b].target /\ (Present(b)' <=> Present(b))
  BY <1>1, <1>3 DEF WriteStatus, TypeInv, BkOK, Backup, Present, Active, Finished, Gone
<1>4. bk'[b].target = bk[b].target /\ (Present(b)' <=> Present(b))
  <2>1. CASE UNCHANGED bk
    BY <2>1 DEF Present
  <2>2. CASE Notify(b)
    BY <1>1, <2>2 DEF Notify, TypeInv, BkOK, Backup, Present
  <2> QED
    BY <1>3, <2>1, <2>2 DEF PerformBackup, BeginBackup, GetTarget, Restic, Size, Complete,
       MarkBackupFailed, FailedStatus, Active, Finished
<1> QED
  BY <1>2, <1>4

LEMMA PerformHeld ==
    ASSUME TypeInv, HeldInv, NEW b \in Backups, PerformBackup(b)
    PROVE  HeldInv'
<1>1. \A c \in Backups : Present(c) => bk[c].target \in Targets
  BY DEF TypeInv, BkOK
<1>2. \A c \in Backups : BeingDeleted(c) => BeingDeleted(c)'
  BY PerformLocal DEF BeingDeleted
<1>3. ASSUME NEW c \in Backups, c # b PROVE Held(c)'
  <2>1. bk'[c] = bk[c] /\ job'[c] = job[c] /\ (c \in made' => c \in made)
    BY <1>3, PerformLocal
  <2>2. Present(c)' <=> Present(c)
    BY <2>1 DEF Present
  <2>3. Present(c) /\ Safe(c) => Safe(c)'
    <3>1. ASSUME NEW t \in Targets, t = bk[c].target, Has(t, c) PROVE Safe(c)'
      <4>1. Has(t, c)' /\ t = bk'[c].target
        BY <2>1, <3>1, ResticWrites
      <4> QED BY <4>1 DEF Safe, Has
    <3> QED BY <1>1, <1>2, <3>1 DEF Safe
  <2> QED
    BY <2>1, <2>2, <2>3, HeldKept
<1>4. Held(b)'
  <2> SUFFICES ASSUME Present(b), b \in made' PROVE Safe(b)'
    BY PerformRow DEF Held, HeldInv
  <2>1. bk[b].target \in Targets /\ bk'[b].target = bk[b].target /\ job[b].t = bk[b].target
    BY <1>1, PerformRow DEF HeldInv, Held
  <2>2. CASE b \in made
    BY <1>2, <2>1, <2>2, ResticWrites DEF HeldInv, Held, Safe, Has
  <2>3. CASE b \notin made
    BY <2>1, <2>3, ResticWrites DEF Safe, Has
  <2> QED BY <2>2, <2>3
<1> QED
  BY <1>3, <1>4 DEF HeldInv

\* A new backup has no snapshot yet.
LEMMA InsertHeld ==
    ASSUME TypeInv, AliveInv, HeldInv, NEW b \in Backups, NEW s, NEW t, InsertBackup(b, s, t),
           UNCHANGED <<repo, req, made>>
    PROVE  HeldInv'
<1>1. /\ bk[b].status = "unborn" /\ job'[b].t = t /\ bk'[b].target = t
      /\ \A c \in Backups \ {b} : bk'[c] = bk[c] /\ job'[c] = job[c]
  BY DEF InsertBackup, TypeInv, BkOK, JobOK, Backups
<1>2. b \notin made
  BY <1>1 DEF AliveInv, Alive
<1>3. Held(b)'
  BY <1>1, <1>2 DEF Held
<1>4. ASSUME NEW c \in Backups, c # b PROVE Held(c)'
  BY <1>1, <1>4, HeldKept DEF Present, Safe, Has, BeingDeleted
<1> QED
  BY <1>3, <1>4 DEF HeldInv

\* What a deletion takes from a repository is the snapshot of its backup.
LEMMA ForgetTakes ==
    ASSUME TypeInv, ForgetsOwn, NEW h \in Requests, ForgetSnapshot(h), NEW t \in Targets,
           NEW c, Has(t, c)
    PROVE  Has(t, c)' \/ (c = req[h].b /\ req'[h].pc = "delete" /\ req'[h].b = req[h].b)
<1> DEFINE snaps == repo[req[h].t]
<1>1. CASE UNCHANGED repo
  BY <1>1 DEF Has
<1>2. CASE /\ req' = [req EXCEPT ![h].pc = "delete"]
           /\ \E i \in DOMAIN snaps : /\ snaps[i] = req[h].snap
                                      /\ repo' = [repo EXCEPT ![req[h].t] =
                                           SubSeq(snaps, 1, i - 1) \o SubSeq(snaps, i + 1, Len(snaps))]
  <2>1. req[h].t \in Targets /\ req[h] \in Local /\ req[h].snap = req[h].b
    BY DEF ForgetSnapshot, TypeInv, ReqOK, Shape, ForgetsOwn
  <2>2. req'[h].pc = "delete" /\ req'[h].b = req[h].b
    BY <1>2, <2>1 DEF TypeInv, ReqOK, Local
  <2>3. CASE t # req[h].t
    BY <1>2, <2>3 DEF Has, TypeInv, RepoOK
  <2>4. CASE t = req[h].t /\ c # req[h].b
    <3>1. PICK i \in DOMAIN snaps :
             /\ snaps[i] = req[h].snap
             /\ repo' = [repo EXCEPT ![req[h].t] =
                           SubSeq(snaps, 1, i - 1) \o SubSeq(snaps, i + 1, Len(snaps))]
      BY <1>2
    <3>2. PICK j \in DOMAIN snaps : snaps[j] = c
      BY <2>4 DEF Has
    <3>3. snaps \in Seq(Backups)
      BY <2>1 DEF TypeInv, RepoOK
    <3> DEFINE n  == Len(snaps)
               s1 == SubSeq(snaps, 1, i - 1)
               s2 == SubSeq(snaps, i + 1, n)
    <3>4. repo'[t] = s1 \o s2
      BY <2>1, <2>4, <3>1 DEF TypeInv, RepoOK
    <3>5. n \in Nat /\ DOMAIN snaps = 1..n /\ \A k \in 1..n : snaps[k] \in Backups
      BY <3>3, LenProperties, ElementOfSeq
    <3>6. i # j
      BY <2>1, <2>4, <3>1, <3>2
    <3> HIDE DEF snaps, n
    <3>7. /\ s1 \in Seq(Backups) /\ Len(s1) = i - 1
          /\ \A k \in 1..(i - 1) : s1[k] = snaps[k]
      BY <3>1, <3>3, <3>5, SubSeqProperties DEF n
    <3>8. /\ s2 \in Seq(Backups) /\ Len(s2) = n - i
          /\ \A k \in 1..(n - i) : s2[k] = snaps[k + i]
      BY <3>1, <3>3, <3>5, SubSeqProperties DEF n
    <3> HIDE DEF s1, s2
    <3>9. /\ DOMAIN (s1 \o s2) = 1..(n - 1)
          /\ \A k \in 1..(n - 1) : (s1 \o s2)[k] = IF k <= i - 1 THEN s1[k] ELSE s2[k - (i - 1)]
      <4>1. i \in 1..n /\ Len(s1) + Len(s2) = n - 1
        BY <3>1, <3>5, <3>7, <3>8
      <4>2. s1 \o s2 \in Seq(Backups) /\ Len(s1 \o s2) = n - 1
        BY <3>7, <3>8, <4>1, ConcatProperties
      <4>3. \A k \in 1..(n - 1) : (s1 \o s2)[k] = IF k <= Len(s1) THEN s1[k] ELSE s2[k - Len(s1)]
        BY <3>7, <3>8, <4>1, ConcatProperties
      <4> QED BY <3>7, <4>2, <4>3, LenProperties
    <3>10. \E k \in 1..(n - 1) : (s1 \o s2)[k] = c
      <4>1. CASE j < i
        BY <3>1, <3>2, <3>5, <3>7, <3>9, <4>1
      <4>2. CASE j > i
        <5>1. j - 1 \in 1..(n - 1) /\ ~(j - 1 <= i - 1) /\ (j - 1) - (i - 1) = j - i
          BY <3>1, <3>2, <3>5, <4>2
        <5>2. s2[j - i] = snaps[j]
          BY <3>1, <3>2, <3>5, <3>8, <4>2
        <5>3. (s1 \o s2)[j - 1] = IF j - 1 <= i - 1 THEN s1[j - 1] ELSE s2[(j - 1) - (i - 1)]
          BY <3>9, <5>1
        <5>4. (s1 \o s2)[j - 1] = s2[(j - 1) - (i - 1)]
          BY <5>1, <5>3
        <5> QED BY <3>2, <5>1, <5>2, <5>4
      <4>3. i \in 1..n /\ j \in 1..n
        BY <3>5
      <4>4. j < i \/ j > i
        BY <3>5, <3>6, <4>3
      <4> QED BY <4>1, <4>2, <4>4
    <3> QED BY <3>4, <3>9, <3>10 DEF Has
  <2> QED BY <2>2, <2>3, <2>4
<1> QED
  BY <1>1, <1>2 DEF ForgetSnapshot

LEMMA ForgetHeld ==
    ASSUME TypeInv, ForgetsOwn, HeldInv, NEW h \in Requests, ForgetSnapshot(h)
    PROVE  HeldInv'
<1> SUFFICES ASSUME NEW c \in Backups PROVE Held(c)'
  BY DEF HeldInv
<1>1. UNCHANGED <<bk, job, made>> /\ req[h].pc = "forget"
  BY DEF ForgetSnapshot
<1>2. \A k \in Requests \ {h} : req'[k] = req[k]
  BY DEF ForgetSnapshot, Finish, TypeInv, ReqOK
<1>3. Present(c) /\ Safe(c) => Safe(c)'
  <2>1. BeingDeleted(c) => BeingDeleted(c)'
    BY <1>1, <1>2, OthersDelete
  <2>2. ASSUME Present(c), Has(bk[c].target, c) PROVE Safe(c)'
    <3>1. bk[c].target \in Targets /\ bk'[c].target = bk[c].target
      BY <1>1, <2>2 DEF TypeInv, BkOK
    <3> QED BY <2>2, <3>1, ForgetTakes DEF Safe, Has, BeingDeleted
  <2> QED BY <2>1, <2>2 DEF Safe
<1> QED
  BY <1>1, <1>3, HeldKept DEF Present

LEMMA DeleteHeld ==
    ASSUME TypeInv, HeldInv, NEW h \in Requests, DeleteBackup(h)
    PROVE  HeldInv'
<1> SUFFICES ASSUME NEW c \in Backups, Present(c)' PROVE Held(c)'
  BY DEF HeldInv, Held
<1>1. UNCHANGED <<repo, job, made>> /\ \A k \in Requests \ {h} : req'[k] = req[k]
  BY DEF DeleteBackup, Finish, TypeInv, ReqOK
<1>2. c # req[h].b /\ bk'[c] = bk[c]
  BY DEF DeleteBackup, Present, Gone, TypeInv, BkOK, NoBackup
<1>3. Safe(c) => Safe(c)'
  BY <1>1, <1>2 DEF Safe, Has, BeingDeleted
<1> QED
  BY <1>1, <1>2, <1>3, HeldKept DEF Present

LEMMA RestartHeld ==
    ASSUME TypeInv, HeldInv, DeletesWhole, Restart
    PROVE  HeldInv'
<1> SUFFICES ASSUME NEW c \in Backups PROVE Held(c)'
  BY DEF HeldInv
<1>1. UNCHANGED <<bk, repo, made>> /\ job'[c].pc = "none"
  BY NoJobType DEF Restart
<1>2. ~BeingDeleted(c)
  BY DEF BeingDeleted, DeletesWhole
<1> QED
  BY <1>1, <1>2, HeldKept DEF Present, Safe, Has

\* The steps that touch no row and no repository.
LEMMA QuietHeld ==
    ASSUME HeldInv, UNCHANGED <<bk, job, repo, made>>,
           \A h \in Requests : req'[h] # req[h] => req[h].pc # "delete"
    PROVE  HeldInv'
<1> SUFFICES ASSUME NEW c \in Backups PROVE Held(c)'
  BY DEF HeldInv
<1>1. BeingDeleted(c) => BeingDeleted(c)'
  BY DEF BeingDeleted
<1> QED
  BY <1>1, HeldKept DEF Present, Safe, Has

LEMMA NextHeld ==
    TypeInv /\ AliveInv /\ ForgetsOwn /\ HeldInv /\ [Next]_vars /\ [DeletesWhole]_vars => HeldInv'
<1> SUFFICES ASSUME TypeInv, AliveInv, ForgetsOwn, HeldInv, [Next]_vars, [DeletesWhole]_vars
             PROVE  HeldInv'
  OBVIOUS
<1>1. CASE UNCHANGED vars
  BY <1>1, QuietHeld DEF vars
<1>2. CASE Tables
  <2>1. CASE UNCHANGED <<bk, job, repo, made, req>>
    BY <2>1, QuietHeld
  <2> QED
    BY <1>2, <2>1, InsertHeld DEF Tables, CreateBackupTarget, DeleteBackupTarget,
       DeleteBackupSchedule, Fire, CreateScheduledBackup, CreateBackup
<1>3. ASSUME NEW h \in Requests, Begin(h) PROVE HeldInv'
  <2>1. /\ UNCHANGED <<bk, job, repo, made>> /\ req[h].pc = "idle"
        /\ \A k \in Requests \ {h} : req'[k] = req[k]
    <3>1. ASSUME NEW r, req' = [req EXCEPT ![h] = r] PROVE \A k \in Requests \ {h} : req'[k] = req[k]
      BY <3>1 DEF TypeInv, ReqOK
    <3>2. ASSUME NEW s \in Schedules, NEW t \in Targets, NEW x \in Exprs, NEW on \in BOOLEAN,
                 CreateBackupSchedule(h, s, t, x, on)
          PROVE  /\ UNCHANGED <<bk, job, repo, made>> /\ req[h].pc = "idle"
                 /\ \E r : req' = [req EXCEPT ![h] = r]
      BY <3>2, Zenon DEF CreateBackupSchedule, Continue
    <3>3. ASSUME NEW s \in Schedules, NEW op, NEW on, SwitchRow(h, op, s, on)
          PROVE  /\ UNCHANGED <<bk, job, repo, made>> /\ req[h].pc = "idle"
                 /\ \E r : req' = [req EXCEPT ![h] = r]
      BY <3>3, Zenon DEF SwitchRow, Continue
    <3>4. ASSUME NEW s \in Schedules, BeginUpdate(h, s)
          PROVE  /\ UNCHANGED <<bk, job, repo, made>> /\ req[h].pc = "idle"
                 /\ \E r : req' = [req EXCEPT ![h] = r]
      BY <3>4, Zenon DEF BeginUpdate, Continue
    <3>5. ASSUME NEW b \in Backups, BeginDelete(h, b)
          PROVE  /\ UNCHANGED <<bk, job, repo, made>> /\ req[h].pc = "idle"
                 /\ \E r : req' = [req EXCEPT ![h] = r]
      BY <3>5, Zenon DEF BeginDelete
    <3> QED BY <1>3, <3>1, <3>2, <3>3, <3>4, <3>5 DEF Begin
  <2> QED BY <2>1, QuietHeld
<1>4. ASSUME NEW h \in Requests, Work(h), ~ForgetSnapshot(h), ~DeleteBackup(h) PROVE HeldInv'
  <2>1. /\ UNCHANGED <<bk, job, repo, made>> /\ req[h].pc # "delete"
        /\ \A k \in Requests \ {h} : req'[k] = req[k]
    BY <1>4 DEF Work, UpdateBackupSchedule, Unschedule, ScheduleBackup, FindLatest, Continue,
       Finish, TypeInv, ReqOK
  <2> QED BY <2>1, QuietHeld
<1>5. CASE Restart
  BY <1>1, <1>5, RestartHeld
<1> QED
  BY <1>1, <1>2, <1>3, <1>4, <1>5, ForgetHeld, DeleteHeld, PerformHeld DEF Next

LEMMA InitHeld == Init => HeldInv
BY DEF Init, HeldInv, Held, Present, Gone, NoBackup

(* Every COMPLETED backup keeps its snapshot, whatever is deleted, fails    *)
(* and is killed, as long as the newest snapshot of the repository is, when *)
(* a deletion looks for it, the one of the backup it deletes, and a restart *)
(* does not come between a snapshot that is forgotten and its row: these    *)
(* two are the ways of DeleteBackup to lose a backup, and there is no other.*)
THEOREM CompletedStaysRestorable ==
    Spec /\ []ForgetsOwn /\ [][DeletesWhole]_vars => []CompletedRestorable
<1>1. TypeInv /\ SoundInv /\ HeldInv => CompletedRestorable
  <2> SUFFICES ASSUME TypeInv, SoundInv, HeldInv, \A h \in Requests : req[h].pc = "idle",
                      NEW b \in Backups, bk[b].status = "COMPLETED"
               PROVE  Has(bk[b].target, b)
    BY DEF CompletedRestorable, Has
  <2>1. Present(b) /\ b \in made
    BY DEF SoundInv, Sound, Present, Gone
  <2> QED BY <2>1 DEF HeldInv, Held, Safe, BeingDeleted
<1>2. TypeInv /\ LifeInv => AliveInv /\ SoundInv
  BY DEF LifeInv
<1> QED
  BY <1>1, <1>2, InitHeld, NextHeld, LifeAlways, PTL DEF Spec
=============================================================================

------------------------------ MODULE Backups ------------------------------
(***************************************************************************)
(* Scheduled and manual backups (pkg/backups/service).                     *)
(*                                                                         *)
(* Three tables, an in-memory cron scheduler with one entry per enabled    *)
(* schedule, one goroutine per backup that drives restic, and a restic     *)
(* repository per target.  A schedule row and its cron entry are written   *)
(* one after the other: the row by a SQL statement, the entry under        *)
(* BackupService.mu.  Only the entries are lost with the process; they are *)
(* rebuilt from the rows when it starts.                                   *)
(***************************************************************************)
EXTENDS Integers, Sequences

CONSTANTS
    Schedules,   \* ids a backup_schedules row can get (AUTOINCREMENT)
    Targets,     \* ids a backup_targets row can get, each with its repository
    MaxBackups,  \* BOUND: rows ever inserted into backups
    Exprs,       \* BOUND: cron expressions of clients
    BadExprs,    \* those the scheduler's parser rejects
    Requests,    \* BOUND: requests handled at the same time
    Ops,         \* BOUND: the operations each of those requests can be
    ResticFails, \* restic, disk and network can fail
    MayCrash,    \* the process can be killed and started again
    None

Backups == 1..MaxBackups
AllOps  == {"CreateTarget", "DeleteTarget", "CreateSchedule", "UpdateSchedule", "Enable",
            "Disable", "DeleteSchedule", "CreateBackup", "DeleteBackup"}

ASSUME ConstantsAssumption ==
    /\ MaxBackups \in Nat
    /\ BadExprs \subseteq Exprs
    /\ Ops \in [Requests -> SUBSET AllOps]
    /\ ResticFails \in BOOLEAN /\ MayCrash \in BOOLEAN
    /\ None \notin Schedules \cup Targets \cup Exprs \cup Backups

VARIABLES
    tgt,    \* backup_targets rows: there or not
    sched,  \* backup_schedules rows
    bk,     \* backups rows
    entry,  \* the cron entry of each schedule: the target it captured and its expression
    due,    \* cron goroutines that fired and have not inserted their backup yet
    job,    \* the goroutine of each backup, with the row it was started with
    repo,   \* external: the snapshots of each target's repository, oldest first
    req,    \* local state of each request in flight
    cut,    \* history: backups whose goroutine died with the process
    made,   \* history: backups whose snapshot restic has written
    raced   \* history: schedules on which two requests overlapped since the last start

vars == <<tgt, sched, bk, entry, due, job, repo, req, cut, made, raced>>

Active   == {"PENDING", "IN_PROGRESS"}
Finished == {"COMPLETED", "FAILED"}
Gone     == {"unborn", "deleted"}

NoBackup == [status |-> "unborn", sched |-> None, target |-> None, sent |-> FALSE]
NoJob    == [pc |-> "none", t |-> None]
Idle     == [op |-> "none", s |-> None, on |-> FALSE, x |-> None, t |-> None, b |-> None,
             snap |-> None, pc |-> "idle"]

Exists(s)  == sched[s].state = "there"
Present(b) == bk[b].status \notin Gone
Entry(t, x) == [t |-> t, x |-> x]
NoEntry     == Entry(None, None)

Init ==
    /\ tgt = [t \in Targets |-> "unborn"]
    /\ sched = [s \in Schedules |-> [state |-> "unborn", on |-> FALSE, x |-> None, t |-> None]]
    /\ bk = [b \in Backups |-> NoBackup]
    /\ entry = [s \in Schedules |-> NoEntry]
    /\ due = [s \in Schedules |-> None]
    /\ job = [b \in Backups |-> NoJob]
    /\ repo = [t \in Targets |-> <<>>]
    /\ req = [h \in Requests |-> Idle]
    /\ cut = {} /\ made = {} /\ raced = {}

-----------------------------------------------------------------------------
(* Foreign keys.  None has an ON DELETE action: a referenced row stays.    *)

TargetInUse(t) ==
    \/ \E s \in Schedules : Exists(s) /\ sched[s].t = t
    \/ \E b \in Backups : Present(b) /\ bk[b].target = t

ScheduleInUse(s) == \E b \in Backups : Present(b) /\ bk[b].sched = s

CreateBackupTarget(t) ==
    /\ \E h \in Requests : "CreateTarget" \in Ops[h]
    /\ tgt[t] = "unborn"
    /\ tgt' = [tgt EXCEPT ![t] = "there"]
    /\ UNCHANGED <<sched, bk, entry, due, job, repo, req, cut, made, raced>>

\* The repository is left as it is.
DeleteBackupTarget(t) ==
    /\ \E h \in Requests : "DeleteTarget" \in Ops[h]
    /\ tgt[t] = "there" /\ ~TargetInUse(t)
    /\ tgt' = [tgt EXCEPT ![t] = "deleted"]
    /\ UNCHANGED <<sched, bk, entry, due, job, repo, req, cut, made, raced>>

-----------------------------------------------------------------------------
(* Schedules: the row, then the cron entry.                                *)

Finish(h) == req' = [req EXCEPT ![h] = Idle]

\* The request goes on, with the row its statement returned, or returns.
Continue(h, op, s, row, pc) ==
    /\ req' = [req EXCEPT ![h] =
                 IF pc = "idle" THEN Idle
                 ELSE [Idle EXCEPT !.op = op, !.s = s, !.on = row.on, !.x = row.x, !.t = row.t,
                                   !.pc = pc]]
    /\ raced' = raced \cup {k \in {s} : \E o \in Requests \ {h} : req[o].s = k}

CreateBackupSchedule(h, s, t, x, on) ==
    LET row == [state |-> "there", on |-> on, x |-> x, t |-> t] IN
    /\ "CreateSchedule" \in Ops[h] /\ req[h].pc = "idle"
    /\ sched[s].state = "unborn" /\ tgt[t] = "there"
    /\ sched' = [sched EXCEPT ![s] = row]
    /\ Continue(h, "CreateSchedule", s, row, IF on THEN "schedule" ELSE "idle")
    /\ UNCHANGED <<tgt, bk, entry, due, job, repo, cut, made>>

\* EnableBackupSchedule, and the first statement of DisableBackupSchedule.
SwitchRow(h, op, s, on) ==
    LET row == [sched[s] EXCEPT !.on = on] IN
    /\ op \in Ops[h] /\ req[h].pc = "idle" /\ Exists(s)
    /\ sched' = [sched EXCEPT ![s] = row]
    /\ Continue(h, op, s, row, IF on THEN "schedule" ELSE "unschedule")
    /\ UNCHANGED <<tgt, bk, entry, due, job, repo, cut, made>>

\* UpdateBackupSchedule reads the row, replaces it, and acts on both.
BeginUpdate(h, s) ==
    /\ "UpdateSchedule" \in Ops[h] /\ req[h].pc = "idle" /\ Exists(s)
    /\ Continue(h, "UpdateSchedule", s, sched[s], "update")
    /\ UNCHANGED <<tgt, sched, bk, entry, due, job, repo, cut, made>>

\* Mutant: only a change of the enabled flag reaches the scheduler.
AfterUpdateFlagOnly(was, on) ==
    IF was # on THEN (IF on THEN "schedule" ELSE "unschedule") ELSE "idle"

AfterUpdate(was, on) ==
    IF on THEN (IF was THEN "reschedule" ELSE "schedule")
          ELSE (IF was THEN "unschedule" ELSE "idle")

UpdateBackupSchedule(h, t, x, on) ==
    LET s   == req[h].s
        row == [state |-> "there", on |-> on, x |-> x, t |-> t]
    IN
    /\ req[h].pc = "update"
    /\ IF Exists(s) /\ tgt[t] = "there"
         THEN /\ sched' = [sched EXCEPT ![s] = row]
              /\ Continue(h, "UpdateSchedule", s, row, AfterUpdate(req[h].on, on))
         ELSE Finish(h) /\ UNCHANGED <<sched, raced>>
    /\ UNCHANGED <<tgt, bk, entry, due, job, repo, cut, made>>

\* Removing the entry of a schedule; the first half of a reschedule.
Unschedule(h) ==
    /\ req[h].pc \in {"unschedule", "reschedule"}
    /\ entry' = [entry EXCEPT ![req[h].s] = NoEntry]
    /\ IF req[h].pc = "reschedule"
         THEN req' = [req EXCEPT ![h].pc = "schedule"]
         ELSE Finish(h)
    /\ UNCHANGED <<tgt, sched, bk, due, job, repo, cut, made, raced>>

\* scheduleBackup: any entry of the schedule goes; an expression that does
\* not parse is only logged.
ScheduleBackup(h) ==
    /\ req[h].pc = "schedule"
    /\ entry' = [entry EXCEPT ![req[h].s] =
                   IF req[h].x \in BadExprs THEN NoEntry ELSE Entry(req[h].t, req[h].x)]
    /\ Finish(h)
    /\ UNCHANGED <<tgt, sched, bk, due, job, repo, cut, made, raced>>

\* One DELETE: the cron entry is left behind.
DeleteBackupSchedule(s) ==
    /\ \E h \in Requests : "DeleteSchedule" \in Ops[h]
    /\ Exists(s) /\ ~ScheduleInUse(s)
    /\ sched' = [sched EXCEPT ![s] = [state |-> "deleted", on |-> FALSE, x |-> None, t |-> None]]
    /\ UNCHANGED <<tgt, bk, entry, due, job, repo, req, cut, made, raced>>

-----------------------------------------------------------------------------
(* Backups.  The row is inserted PENDING and its goroutine started.        *)

\* Mutant: backups.schedule_id without its foreign key.
InsertRejectedNoFK(s, t) == tgt[t] # "there"

InsertRejected(s, t) == ~Exists(s) \/ tgt[t] # "there"

InsertBackup(b, s, t) ==
    /\ \A c \in Backups : bk[c].status = "unborn" <=> c >= b
    /\ ~InsertRejected(s, t)
    /\ bk' = [bk EXCEPT ![b] = [status |-> "PENDING", sched |-> s, target |-> t, sent |-> FALSE]]
    /\ job' = [job EXCEPT ![b] = [pc |-> "begin", t |-> t]]

\* POST /backups.  Without a scheduleId the handler panics before the INSERT.
CreateBackup(b, s, t) ==
    /\ \E h \in Requests : "CreateBackup" \in Ops[h]
    /\ InsertBackup(b, s, t)
    /\ UNCHANGED <<tgt, sched, entry, due, repo, req, cut, made, raced>>

\* cron starts the closure of an entry, which keeps the row it captured.
Fire(s) ==
    /\ entry[s] # NoEntry /\ due[s] = None
    /\ due' = [due EXCEPT ![s] = entry[s].t]
    /\ UNCHANGED <<tgt, sched, bk, entry, job, repo, req, cut, made, raced>>

\* createScheduledBackup; an INSERT that fails ends it.
CreateScheduledBackup(s) ==
    /\ due[s] # None
    /\ due' = [due EXCEPT ![s] = None]
    /\ \/ \E b \in Backups : InsertBackup(b, s, due[s])
       \/ InsertRejected(s, due[s]) /\ UNCHANGED <<bk, job>>
    /\ UNCHANGED <<tgt, sched, entry, repo, req, cut, made, raced>>

-----------------------------------------------------------------------------
(* performBackup.  A backup can be deleted under its goroutine at any time: *)
(* an UPDATE ... RETURNING of a row that is gone is an error.               *)

WriteStatus(b, status) == bk' = [bk EXCEPT ![b].status = IF @ \in Gone THEN @ ELSE status]
Go(b, l) == job' = [job EXCEPT ![b].pc = l]

BeginBackup(b) ==
    /\ job[b].pc = "begin"
    /\ WriteStatus(b, "IN_PROGRESS")
    /\ Go(b, IF Present(b) THEN "target" ELSE "fail")
    /\ UNCHANGED <<tgt, sched, entry, due, repo, req, cut, made, raced>>

GetTarget(b) ==
    /\ job[b].pc = "target"
    /\ Go(b, IF tgt[job[b].t] = "there" THEN "restic" ELSE "fail")
    /\ UNCHANGED <<tgt, sched, bk, entry, due, repo, req, cut, made, raced>>

\* Mutant: the exit status of restic is not looked at.
AfterResticUnchecked(ok) == "size"

AfterRestic(ok) == IF ok THEN "size" ELSE "fail"

\* restic init, the copy of the database file and restic backup, which can
\* fail after the snapshot is written too.  Two that overlap are taken in
\* the order they end.
Restic(b) ==
    LET t == job[b].t IN
    /\ job[b].pc = "restic"
    /\ \E ok, written \in BOOLEAN :
          /\ ok => written
          /\ ok \/ ResticFails
          /\ Go(b, AfterRestic(ok))
          /\ repo' = IF written THEN [repo EXCEPT ![t] = Append(@, b)] ELSE repo
          /\ made' = IF written THEN made \cup {b} ELSE made
    /\ UNCHANGED <<tgt, sched, bk, entry, due, req, cut, raced>>

\* getBackupSize asks for the latest snapshot, whoever made it, and
\* UpdateBackupSize for the row.
Size(b) ==
    /\ job[b].pc = "size"
    /\ \/ repo[job[b].t] # <<>> /\ Present(b) /\ Go(b, "complete")
       \/ (ResticFails \/ repo[job[b].t] = <<>> \/ ~Present(b)) /\ Go(b, "fail")
    /\ UNCHANGED <<tgt, sched, bk, entry, due, repo, req, cut, made, raced>>

\* Mutant: the success path runs on into the error handling.
AfterCompleteFallsThrough(b) == "fail"

AfterComplete(b) == IF Present(b) THEN "notify" ELSE "fail"

Complete(b) ==
    /\ job[b].pc = "complete"
    /\ WriteStatus(b, "COMPLETED")
    /\ Go(b, AfterComplete(b))
    /\ UNCHANGED <<tgt, sched, entry, due, repo, req, cut, made, raced>>

\* Mutant: the failure is only notified.
FailedStatusUnmarked(b) == bk[b].status

FailedStatus(b) == "FAILED"

\* markBackupFailed, whose own error is dropped.
MarkBackupFailed(b) ==
    /\ job[b].pc = "fail"
    /\ WriteStatus(b, FailedStatus(b))
    /\ Go(b, "notify")
    /\ UNCHANGED <<tgt, sched, entry, due, repo, req, cut, made, raced>>

\* notifyBackupSuccess and notifyBackupFailure: without a provider, or when
\* sending fails, notification_sent stays as it is.
Notify(b) ==
    /\ job[b].pc = "notify"
    /\ \E sent \in BOOLEAN : bk' = [bk EXCEPT ![b].sent = @ \/ (sent /\ Present(b))]
    /\ job' = [job EXCEPT ![b] = NoJob]
    /\ UNCHANGED <<tgt, sched, entry, due, repo, req, cut, made, raced>>

-----------------------------------------------------------------------------
(* DeleteBackup: the latest snapshot of the target's repository is looked   *)
(* up and forgotten, then the row goes.  No status is checked.              *)

BeginDelete(h, b) ==
    /\ "DeleteBackup" \in Ops[h] /\ req[h].pc = "idle" /\ Present(b)
    /\ req' = [req EXCEPT ![h] = [Idle EXCEPT !.op = "DeleteBackup", !.t = bk[b].target,
                                              !.b = b, !.pc = "find"]]
    /\ UNCHANGED <<tgt, sched, bk, entry, due, job, repo, cut, made, raced>>

\* findLatestSnapshot: of all the snapshots of the repository.
FindLatest(h) ==
    LET snaps == repo[req[h].t] IN
    /\ req[h].pc = "find"
    /\ \/ /\ snaps # <<>>
          /\ req' = [req EXCEPT ![h].snap = snaps[Len(snaps)], ![h].pc = "forget"]
       \/ (snaps = <<>> \/ ResticFails) /\ Finish(h)
    /\ UNCHANGED <<tgt, sched, bk, entry, due, job, repo, cut, made, raced>>

\* restic forget; a snapshot that is no longer there may be an error or not.
ForgetSnapshot(h) ==
    LET snaps == repo[req[h].t]
        gone  == \A i \in DOMAIN snaps : snaps[i] # req[h].snap
    IN
    /\ req[h].pc = "forget"
    /\ \/ /\ \E i \in DOMAIN snaps :
                 /\ snaps[i] = req[h].snap
                 /\ repo' = [repo EXCEPT ![req[h].t] =
                               SubSeq(@, 1, i - 1) \o SubSeq(@, i + 1, Len(@))]
          /\ req' = [req EXCEPT ![h].pc = "delete"]
       \/ gone /\ UNCHANGED repo /\ req' = [req EXCEPT ![h].pc = "delete"]
       \/ (gone \/ ResticFails) /\ UNCHANGED repo /\ Finish(h)
    /\ UNCHANGED <<tgt, sched, bk, entry, due, job, cut, made, raced>>

DeleteBackup(h) ==
    /\ req[h].pc = "delete"
    /\ bk' = [bk EXCEPT ![req[h].b] = [NoBackup EXCEPT !.status = "deleted"]]
    /\ Finish(h)
    /\ UNCHANGED <<tgt, sched, entry, due, job, repo, cut, made, raced>>

-----------------------------------------------------------------------------
\* loadExistingSchedules: the entries a new process starts with.
Loaded(s) ==
    IF Exists(s) /\ sched[s].on /\ sched[s].x \notin BadExprs
      THEN Entry(sched[s].t, sched[s].x) ELSE NoEntry

(* The process is killed and started again: the goroutines, the requests    *)
(* and the entries are gone, the rows and the repositories stay.  Nothing   *)
(* looks at the backups that were PENDING or IN_PROGRESS.                   *)
Restart ==
    /\ MayCrash
    /\ entry' = [s \in Schedules |-> Loaded(s)]
    /\ due' = [s \in Schedules |-> None]
    /\ job' = [b \in Backups |-> NoJob]
    /\ req' = [h \in Requests |-> Idle]
    /\ cut' = cut \cup {b \in Backups : job[b] # NoJob}
    /\ raced' = {}
    /\ UNCHANGED <<tgt, sched, bk, repo, made>>

Tables ==
    \/ \E t \in Targets : CreateBackupTarget(t) \/ DeleteBackupTarget(t)
    \/ \E s \in Schedules : DeleteBackupSchedule(s) \/ Fire(s) \/ CreateScheduledBackup(s)
    \/ \E b \in Backups, s \in Schedules, t \in Targets : CreateBackup(b, s, t)

Begin(h) ==
    \/ \E s \in Schedules :
         \/ \E t \in Targets, x \in Exprs, on \in BOOLEAN : CreateBackupSchedule(h, s, t, x, on)
         \/ SwitchRow(h, "Enable", s, TRUE) \/ SwitchRow(h, "Disable", s, FALSE)
         \/ BeginUpdate(h, s)
    \/ \E b \in Backups : BeginDelete(h, b)

Work(h) ==
    \/ \E t \in Targets, x \in Exprs, on \in BOOLEAN : UpdateBackupSchedule(h, t, x, on)
    \/ Unschedule(h) \/ ScheduleBackup(h)
    \/ FindLatest(h) \/ ForgetSnapshot(h) \/ DeleteBackup(h)

PerformBackup(b) ==
    \/ BeginBackup(b) \/ GetTarget(b) \/ Restic(b) \/ Size(b) \/ Complete(b)
    \/ MarkBackupFailed(b) \/ Notify(b)

Next ==
    \/ Tables
    \/ \E h \in Requests : Begin(h) \/ Work(h)
    \/ \E b \in Backups : PerformBackup(b)
    \/ Restart

Spec == Init /\ [][Next]_vars

-----------------------------------------------------------------------------
Schedule == [state : {"unborn", "there", "deleted"}, on : BOOLEAN,
             x : Exprs \cup {None}, t : Targets \cup {None}]
Backup   == [status : Active \cup Finished \cup Gone, sched : Schedules \cup {None},
             target : Targets \cup {None}, sent : BOOLEAN]
Job      == [pc : {"none", "begin", "target", "restic", "size", "complete", "fail", "notify"},
             t : Targets \cup {None}]
Local    == [op : AllOps \cup {"none"}, s : Schedules \cup {None}, on : BOOLEAN,
             x : Exprs \cup {None}, t : Targets \cup {None}, b : Backups \cup {None},
             snap : Backups \cup {None},
             pc : {"idle", "update", "schedule", "unschedule", "reschedule", "find",
                   "forget", "delete"}]

(* Every variable has its type, and a row that is gone keeps no column.     *)
TypeOK ==
    /\ tgt \in [Targets -> {"unborn", "there", "deleted"}]
    /\ sched \in [Schedules -> Schedule]
    /\ bk \in [Backups -> Backup]
    /\ entry \in [Schedules -> [t : Targets \cup {None}, x : Exprs \cup {None}]]
    /\ due \in [Schedules -> Targets \cup {None}]
    /\ job \in [Backups -> Job]
    /\ repo \in [Targets -> Seq(Backups)]
    /\ req \in [Requests -> Local]
    /\ cut \subseteq Backups /\ made \subseteq Backups /\ raced \subseteq Schedules
    /\ \A b \in Backups : ~Present(b) => bk[b].sched = None /\ bk[b].target = None

(* A backup is PENDING or IN_PROGRESS only while its goroutine is still at   *)
(* work and will write a final status, or because the process died under    *)
(* it: every error path of performBackup ends in markBackupFailed.          *)
BackupStatusOwned ==
    \A b \in Backups : bk[b].status \in Active =>
        job[b].pc \notin {"none", "notify"} \/ b \in cut

(* A schedule that no two requests fought over runs exactly when its row    *)
(* says so: enabled with an expression that parses, it has one cron entry,  *)
(* with the target and the expression of the row; otherwise it has none.    *)
(* Rows and entries are written apart, and only the rows survive a restart. *)
ScheduleInSync ==
    \A s \in Schedules :
        Exists(s) /\ s \notin raced /\ (\A h \in Requests : req[h].s # s) => entry[s] = Loaded(s)

(* The schedule and the target of a backup, and the target of a schedule,   *)
(* are there, although the cron entry of a deleted schedule stays and keeps *)
(* firing, and a goroutine inserts with a row read long before.             *)
RowsResolve ==
    /\ \A s \in Schedules : Exists(s) => tgt[sched[s].t] = "there"
    /\ \A b \in Backups : Present(b) => Exists(bk[b].sched) /\ tgt[bk[b].target] = "there"

(* What a backup reports is true: COMPLETED means that restic wrote its own *)
(* snapshot, though the size check only asks for the latest one, and a      *)
(* notification is recorded only for a backup that has ended.               *)
StatusIsTruth ==
    \A b \in Backups :
        /\ bk[b].status = "COMPLETED" => b \in made
        /\ Present(b) /\ bk[b].sent => bk[b].status \in Finished

-----------------------------------------------------------------------------
(* The life of a backup, read off its row and what became of its goroutine. *)

LifeOf(b) ==
    CASE bk[b].status = "unborn"       -> "none"
      [] bk[b].status \in Active       -> IF b \in cut THEN "cut"
                                         ELSE IF bk[b].status = "PENDING" THEN "waiting" ELSE "running"
      [] bk[b].status = "COMPLETED"    -> "completed"
      [] bk[b].status = "FAILED"       -> "failed"
      [] OTHER                         -> "deleted"

Abstract == INSTANCE BackupLife WITH
    Runs <- Backups, life <- [b \in Backups |-> LifeOf(b)], saved <- made,
    told <- {b \in Backups : bk[b].sent}

(* Every step of the service is a step in the life of one backup, the end    *)
(* of all that run, or none: an outcome is never rewritten, although the     *)
(* goroutine writes the row without looking at its status; a deleted backup  *)
(* does not come back, although its goroutine runs on; and a backup that     *)
(* died with the process is not begun again.                                *)
ImplementsBackupLife == Abstract!LifeSafety

-----------------------------------------------------------------------------
(* What comments of the repository say of the code.                        *)

(* backups/http/handler.go:543 "Delete a backup and its associated files":   *)
(* when nothing is running, every COMPLETED backup still has its snapshot,   *)
(* whichever others were deleted.                                           *)
CompletedRestorable ==
    (\A h \in Requests : req[h].pc = "idle") /\ (\A b \in Backups : job[b] = NoJob) =>
        \A b \in Backups : bk[b].status = "COMPLETED" =>
            \E i \in DOMAIN repo[bk[b].target] : repo[bk[b].target][i] = b
=============================================================================

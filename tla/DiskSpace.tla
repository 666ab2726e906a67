----------------------------- MODULE DiskSpace -----------------------------
(***************************************************************************)
(* The disk space monitor (pkg/monitoring/diskspace.go): one goroutine     *)
(* that looks at the disk on a ticker, sends a warning when the threshold  *)
(* is exceeded, and keeps quiet for alertCooldown after a warning.         *)
(***************************************************************************)
EXTENDS Notifications

VARIABLES
    full,    \* external: the threshold is exceeded
    cooling, \* lastAlertTime is less than alertCooldown ago
    diskPc,  \* what the goroutine does: wait for the ticker, or send
    warned   \* history: how the last call to the notification service ended

diskVars == <<full, cooling, diskPc, warned>>

DiskSpaceTypeOK ==
    /\ full \in BOOLEAN /\ cooling \in BOOLEAN
    /\ diskPc \in {"wait", "send"}
    /\ warned \in {"never", "mail", "nobody", "failed"}

DiskSpaceInit ==
    /\ NotificationsInit
    /\ full = FALSE /\ cooling = FALSE
    /\ diskPc = "wait" /\ warned = "never"

ToggleDisk ==
    /\ full' = ~full
    /\ UNCHANGED <<cooling, diskPc, warned>>

CooldownPasses ==
    /\ cooling
    /\ cooling' = FALSE
    /\ UNCHANGED <<full, diskPc, warned>>

CheckDiskSpace ==
    /\ diskPc = "wait" /\ full /\ ~cooling
    /\ diskPc' = "send"
    /\ UNCHANGED <<full, cooling, warned>>

Outcome == IF SendFails("DISK_SPACE_WARNING") THEN "failed"
           ELSE IF Delivered("DISK_SPACE_WARNING") THEN "mail" ELSE "nobody"

\* Mutant: the cooldown starts whether or not the mail was sent.
SendDiskSpaceAlertOnce ==
    /\ diskPc = "send"
    /\ diskPc' = "wait"
    /\ warned' = Outcome
    /\ cooling' = TRUE
    /\ UNCHANGED full

\* lastAlertTime moves unless the call failed: with nobody to tell it moves too.
SendDiskSpaceAlert ==
    /\ diskPc = "send"
    /\ diskPc' = "wait"
    /\ warned' = Outcome
    /\ cooling' = (cooling \/ Outcome # "failed")
    /\ UNCHANGED full

DiskSpaceStep == ToggleDisk \/ CooldownPasses \/ CheckDiskSpace \/ SendDiskSpaceAlert

DiskSpaceNext ==
    \/ DiskSpaceStep /\ UNCHANGED notificationVars
    \/ NotificationsNext /\ UNCHANGED diskVars

\* The goroutine is scheduled and its ticker fires.
DiskSpaceFairness ==
    WF_<<diskVars, notificationVars>>
        ((CheckDiskSpace \/ SendDiskSpaceAlert) /\ UNCHANGED notificationVars)

DiskSpaceSpec ==
    /\ DiskSpaceInit /\ [][DiskSpaceNext]_<<diskVars, notificationVars>>
    /\ DiskSpaceFairness

-----------------------------------------------------------------------------
(* A warning whose mail failed does not start the cooldown: while the disk *)
(* stays full it is sent again, and goes out as soon as mail is back with  *)
(* a provider that takes it.                                               *)
FailedWarningIsRetried ==
    (full /\ warned = "failed" /\ Delivered("DISK_SPACE_WARNING"))
        ~> (warned # "failed" \/ ~full \/ ~Delivered("DISK_SPACE_WARNING"))
=============================================================================

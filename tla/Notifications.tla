--------------------------- MODULE Notifications ---------------------------
(***************************************************************************)
(* Notification providers (pkg/notifications/service/service.go).  A row   *)
(* says which topics the provider takes and whether it is the default one; *)
(* a notification goes to a default provider that takes its topic.         *)
(*                                                                         *)
(* Saving a default provider is two SQL statements: the flag is cleared    *)
(* on every row, then the row is written.  Nothing keeps two requests      *)
(* apart between them, and the second statement can fail on its own: the   *)
(* name is taken, the row is gone, the client went away.                   *)
(***************************************************************************)
EXTENDS Integers, FiniteSets

CONSTANTS
    Providers, \* ids a notification_providers row can get (AUTOINCREMENT)
    Topics,    \* the notify_ columns of a row
    Wanted,    \* BOUND: the sets of topics a request asks for
    Clients    \* BOUND: requests the providers API handles at the same time

VARIABLES
    provider,  \* notification_providers rows
    save,      \* local state of each create or update in flight
    overlapped,\* history: the last default was written over a concurrent one
    mailUp     \* external: whether the SMTP servers take mail

notificationVars == <<provider, save, overlapped, mailUp>>

ASSUME NotificationsAssumption == Wanted \subseteq SUBSET Topics

NoSave == [p |-> "none", def |-> FALSE, topics |-> {}, pc |-> "idle", raced |-> FALSE]

NotificationsTypeOK ==
    /\ provider \in [Providers -> [row    : {"unborn", "present", "deleted"},
                                   def    : BOOLEAN,
                                   topics : SUBSET Topics]]
    /\ save \in [Clients -> [p      : Providers \cup {"none"},
                             def    : BOOLEAN,
                             topics : SUBSET Topics,
                             pc     : {"idle", "unset", "write"},
                             raced  : BOOLEAN]]
    /\ overlapped \in BOOLEAN /\ mailUp \in BOOLEAN

\* A fresh installation has no provider; an older one can have a default.
NotificationsInit ==
    /\ \E installed \in {{}} \cup {{p} : p \in Providers} :
           provider = [p \in Providers |->
               [row    |-> IF p \in installed THEN "present" ELSE "unborn",
                def    |-> p \in installed,
                topics |-> IF p \in installed THEN Topics ELSE {}]]
    /\ save = [h \in Clients |-> NoSave]
    /\ overlapped = FALSE
    /\ mailUp = TRUE

Defaults == {p \in Providers : provider[p].row = "present" /\ provider[p].def}

\* GetDefaultNotificationProviderForType: LIMIT 1 picks any of them.
Receivers(topic) == {p \in Defaults : topic \in provider[p].topics}

\* What the Send functions return to their callers: no receiver is not an error.
SendFails(topic) == Receivers(topic) # {} /\ ~mailUp
Delivered(topic) == Receivers(topic) # {} /\ mailUp

-----------------------------------------------------------------------------
BeginSave(h, p, def, topics) ==
    /\ save[h].pc = "idle"
    /\ provider[p].row # "deleted"
    /\ save' = [save EXCEPT ![h] = [p |-> p, def |-> def, topics |-> topics, raced |-> FALSE,
                                    pc |-> IF def THEN "unset" ELSE "write"]]
    /\ UNCHANGED <<provider, overlapped, mailUp>>

\* Mutant: the flag of the others is cleared only when the row is new.
UnsetDefaultOnCreate(h) ==
    /\ save[h].pc = "unset"
    /\ provider' = IF provider[save[h].p].row = "unborn"
                   THEN [p \in Providers |-> [provider[p] EXCEPT !.def = FALSE]]
                   ELSE provider
    /\ save' = [save EXCEPT ![h].pc = "write"]
    /\ overlapped' = FALSE
    /\ UNCHANGED mailUp

\* One UPDATE over all rows with the flag.
UnsetDefault(h) ==
    /\ save[h].pc = "unset"
    /\ provider' = [p \in Providers |-> [provider[p] EXCEPT !.def = FALSE]]
    /\ save' = [save EXCEPT ![h].pc = "write"]
    /\ overlapped' = FALSE
    /\ UNCHANGED mailUp

\* The INSERT of CreateProvider, the UPDATE ... RETURNING of UpdateProvider.
WriteProvider(h) ==
    /\ save[h].pc = "write"
    /\ provider[save[h].p].row # "deleted"
    /\ provider' = [provider EXCEPT ![save[h].p] =
                       [row |-> "present", def |-> save[h].def, topics |-> save[h].topics]]
    /\ save' = [k \in Clients |->
                   IF k = h THEN NoSave
                   ELSE [save[k] EXCEPT !.raced = @ \/ (save[h].def /\ save[k].pc = "write")]]
    /\ overlapped' = (overlapped \/ (save[h].def /\ save[h].raced))
    /\ UNCHANGED mailUp

SaveFails(h) ==
    /\ save[h].pc # "idle"
    /\ save' = [save EXCEPT ![h] = NoSave]
    /\ UNCHANGED <<provider, overlapped, mailUp>>

DeleteProvider(p) ==
    /\ provider[p].row = "present"
    /\ provider' = [provider EXCEPT ![p] = [row |-> "deleted", def |-> FALSE, topics |-> {}]]
    /\ UNCHANGED <<save, overlapped, mailUp>>

ToggleMail ==
    /\ mailUp' = ~mailUp
    /\ UNCHANGED <<provider, save, overlapped>>

NotificationsNext ==
    \/ \E h \in Clients :
           \/ \E p \in Providers, def \in BOOLEAN, topics \in Wanted :
                  BeginSave(h, p, def, topics)
           \/ UnsetDefault(h) \/ WriteProvider(h) \/ SaveFails(h)
    \/ \E p \in Providers : DeleteProvider(p)
    \/ ToggleMail

NotificationsSpec == NotificationsInit /\ [][NotificationsNext]_notificationVars

-----------------------------------------------------------------------------
(* At most one provider is the default one (the statement of               *)
(* UnsetDefaultNotificationProvider), however creates, updates and failed  *)
(* saves follow each other: only two requests that overlap between their   *)
(* two statements can leave two, and the next save of a default repairs it.*)
OneDefault == Cardinality(Defaults) > 1 => overlapped
=============================================================================

------------------------------ MODULE Plugins ------------------------------
(***************************************************************************)
(* Plugins (pkg/plugin): a row per plugin with the status of its           *)
(* deployment, and the docker compose project of the same name.  Deploy,   *)
(* stop, resume and delete are sequences of statements and compose calls   *)
(* with the context of the request, and nothing keeps two of them apart.   *)
(* The parameters a stop or resume needs are stored by the first deploy    *)
(* that succeeds.                                                          *)
(***************************************************************************)
EXTENDS Integers, FiniteSets

CONSTANTS
    PluginNames, \* names of plugins (PRIMARY KEY), and of their compose projects
    Calls        \* BOUND: requests handled at the same time

ASSUME PluginsAssumption == "none" \notin PluginNames

VARIABLES
    plugin,  \* plugins rows
    project, \* external: the containers of each compose project
    sure,    \* history: no call overlapped, failed or broke off since one that ended well
    left,    \* history: the call that wrote the status broke off after it
    call     \* local state of each request

pluginVars == <<plugin, project, sure, left, call>>

NoRow     == [row |-> FALSE, status |-> "none", params |-> FALSE]
CallIdle  == [p |-> "none", op |-> "none", pc |-> "idle", alone |-> TRUE]

PluginsTypeOK ==
    /\ plugin \in [PluginNames ->
          [row : BOOLEAN, params : BOOLEAN,
           status : {"none", "deploying", "deployed", "failed", "stopped"}]]
    /\ project \in [PluginNames -> {"down", "part", "up"}]
    /\ sure \in [PluginNames -> BOOLEAN] /\ left \in [PluginNames -> BOOLEAN]
    /\ call \in [Calls ->
          [p : PluginNames \cup {"none"}, alone : BOOLEAN,
           op : {"none", "deploy", "stop", "resume", "delete"},
           pc : {"idle", "validate", "read", "deploying", "up", "params", "deployed",
                 "failed", "down", "stopped", "row"}]]

PluginsInit ==
    /\ plugin = [p \in PluginNames |-> NoRow]
    /\ project = [p \in PluginNames |-> "down"]
    /\ sure = [p \in PluginNames |-> TRUE]
    /\ left = [p \in PluginNames |-> FALSE]
    /\ call = [r \in Calls |-> CallIdle]

-----------------------------------------------------------------------------
CreatePlugin(p) ==
    /\ ~plugin[p].row
    /\ plugin' = [plugin EXCEPT ![p] = [row |-> TRUE, status |-> "none", params |-> FALSE]]
    /\ left' = [left EXCEPT ![p] = FALSE]
    /\ UNCHANGED <<project, sure, call>>

\* Mutant: only a deployment in progress counts as running.
RunningNarrow == {"deploying"}

\* What a delete stops first.
Running == {"deployed", "deploying"}

Others(r, p) == {k \in Calls \ {r} : call[k].p = p}

\* GetPlugin, and for a delete the status that decides whether to stop first.
BeginCall(r, op, p) ==
    LET busy == Others(r, p) # {} IN
    /\ call[r].pc = "idle"
    /\ plugin[p].row
    /\ call' = [k \in Calls |->
           IF k = r
           THEN [p |-> p, op |-> op, alone |-> ~busy,
                 pc |-> CASE op = "deploy" -> "validate"
                          [] op = "delete" -> IF plugin[p].status \in Running THEN "read" ELSE "row"
                          [] OTHER -> "read"]
           ELSE IF call[k].p = p THEN [call[k] EXCEPT !.alone = FALSE] ELSE call[k]]
    /\ sure' = [sure EXCEPT ![p] = @ /\ ~busy]
    /\ UNCHANGED <<plugin, project, left>>

CallTo(r, pc) == call' = [call EXCEPT ![r].pc = pc]
EndCall(r)    == call' = [call EXCEPT ![r] = CallIdle]
Doubt(p)      == sure' = [sure EXCEPT ![p] = FALSE]

\* A stop that fails; a delete only logs the error of its stop and goes on.
GiveUp(r) ==
    /\ IF call[r].op = "delete" THEN CallTo(r, "row") ELSE EndCall(r)
    /\ Doubt(call[r].p)

\* :exec, a missing row is not an error.
WriteStatus(p, status) ==
    /\ plugin' = IF plugin[p].row THEN [plugin EXCEPT ![p].status = status] ELSE plugin
    /\ left' = [left EXCEPT ![p] = FALSE]

\* The x-source parameters.  A project that cannot be built is an UpFails.
Validate(r) ==
    /\ call[r].pc = "validate"
    /\ CallTo(r, "deploying") \/ CallTo(r, "failed")
    /\ UNCHANGED <<plugin, project, sure, left>>

ReadParameters(r) ==
    /\ call[r].pc = "read"
    /\ \/ /\ plugin[call[r].p].row /\ plugin[call[r].p].params
          /\ CallTo(r, IF call[r].op = "resume" THEN "deploying" ELSE "down")
          /\ UNCHANGED sure
       \/ GiveUp(r)
    /\ UNCHANGED <<plugin, project, left>>

MarkDeploying(r) ==
    /\ call[r].pc = "deploying"
    /\ \/ WriteStatus(call[r].p, "deploying") /\ CallTo(r, "up")
       \/ call[r].op = "deploy" /\ CallTo(r, "failed") /\ UNCHANGED <<plugin, left>>
    /\ UNCHANGED <<project, sure>>

Up(r) ==
    /\ call[r].pc = "up"
    /\ project' = [project EXCEPT ![call[r].p] = "up"]
    /\ CallTo(r, IF call[r].op = "resume" THEN "deployed" ELSE "params")
    /\ UNCHANGED <<plugin, sure, left>>

\* Mutant: the error of compose is returned without a status.
UpFailsSilently(r) ==
    LET p == call[r].p IN
    /\ call[r].pc = "up"
    /\ \E state \in {project[p], "part"} : project' = [project EXCEPT ![p] = state]
    /\ EndCall(r)
    /\ UNCHANGED <<plugin, sure, left>>

UpFails(r) ==
    LET p == call[r].p IN
    /\ call[r].pc = "up"
    /\ \E state \in {project[p], "part"} : project' = [project EXCEPT ![p] = state]
    /\ CallTo(r, "failed")
    /\ UNCHANGED <<plugin, sure, left>>

UpdateDeploymentMetadata(r) ==
    LET p == call[r].p IN
    /\ call[r].pc = "params"
    /\ \/ /\ plugin' = IF plugin[p].row THEN [plugin EXCEPT ![p].params = TRUE] ELSE plugin
          /\ CallTo(r, "deployed")
       \/ plugin' = plugin /\ CallTo(r, "failed")
    /\ UNCHANGED <<project, sure, left>>

\* A deploy writes it where it fails and its handler once more.
MarkFailed(r) ==
    /\ call[r].pc = "failed"
    /\ WriteStatus(call[r].p, "failed")
    /\ Doubt(call[r].p)
    /\ EndCall(r) \/ (call[r].op = "deploy" /\ call' = call)
    /\ UNCHANGED project

MarkDeployed(r) ==
    LET p == call[r].p IN
    /\ call[r].pc = "deployed"
    /\ WriteStatus(p, "deployed")
    /\ EndCall(r)
    /\ sure' = [sure EXCEPT ![p] = @ \/ call[r].alone]
    /\ UNCHANGED project

Down(r) ==
    LET p == call[r].p IN
    /\ call[r].pc = "down"
    /\ project' = [project EXCEPT ![p] = "down"]
    /\ CallTo(r, "stopped")
    /\ UNCHANGED <<plugin, sure, left>>

DownFails(r) ==
    LET p == call[r].p IN
    /\ call[r].pc = "down"
    /\ \E state \in {project[p], "part"} :
           project' = [project EXCEPT ![p] = IF project[p] = "down" THEN "down" ELSE state]
    /\ GiveUp(r)
    /\ UNCHANGED <<plugin, left>>

MarkStopped(r) ==
    LET p == call[r].p IN
    /\ call[r].pc = "stopped"
    /\ WriteStatus(p, "stopped")
    /\ IF call[r].op = "delete" THEN CallTo(r, "row") ELSE EndCall(r)
    /\ sure' = [sure EXCEPT ![p] = @ \/ call[r].alone]
    /\ UNCHANGED project

DeletePlugin(r) ==
    /\ call[r].pc = "row"
    /\ plugin' = [plugin EXCEPT ![call[r].p] = NoRow]
    /\ EndCall(r)
    /\ UNCHANGED <<project, sure, left>>

\* The client goes away, the database fails or the process is killed: the later
\* statements of the call fail too, the write of "failed" among them.
BreakOff(r) ==
    LET c == call[r] IN
    /\ c.pc # "idle"
    /\ \E state \in {project[c.p], "part"} :
           project' = [project EXCEPT ![c.p] =
               IF c.pc = "up" \/ (c.pc = "down" /\ @ # "down") THEN state ELSE @]
    /\ Doubt(c.p)
    /\ left' = [left EXCEPT ![c.p] = @ \/ plugin[c.p].status = "deploying"]
    /\ EndCall(r)
    /\ UNCHANGED plugin

PluginsNext ==
    \/ \E p \in PluginNames : CreatePlugin(p)
    \/ \E r \in Calls :
           \/ \E p \in PluginNames, op \in {"deploy", "stop", "resume", "delete"} :
                  BeginCall(r, op, p)
           \/ Validate(r) \/ ReadParameters(r) \/ MarkDeploying(r)
           \/ Up(r) \/ UpFails(r) \/ UpdateDeploymentMetadata(r)
           \/ MarkFailed(r) \/ MarkDeployed(r)
           \/ Down(r) \/ DownFails(r) \/ MarkStopped(r)
           \/ DeletePlugin(r) \/ BreakOff(r)

PluginsSpec == PluginsInit /\ [][PluginsNext]_pluginVars

-----------------------------------------------------------------------------
(* A row says "deploying" only while a deploy or resume is between this    *)
(* status and its last one, unless one broke off there: whoever of two     *)
(* overlapping calls fails, one that ends writes how it ended.             *)
DeployingIsServed ==
    \A p \in PluginNames :
        plugin[p].status = "deploying" /\ ~left[p] =>
            \E r \in Calls : /\ call[r].p = p
                             /\ call[r].pc \in {"up", "params", "deployed", "failed"}

(* Where calls did not overlap and none failed or broke off since one that *)
(* ended well, the row tells the truth about the containers - also after a *)
(* delete, which has to stop first.                                        *)
StatusIsProject ==
    \A p \in PluginNames :
        sure[p] /\ (\A r \in Calls : call[r].p # p) =>
            /\ plugin[p].status = "deployed" => project[p] = "up"
            /\ plugin[p].status = "stopped" \/ ~plugin[p].row => project[p] = "down"
=============================================================================

---------------------------- MODULE UpdateHelper ----------------------------
(***************************************************************************)
(* The hand-over of an update, src/update/process.rs: the collector that   *)
(* is to be replaced, the helper it starts (a copy of itself), the updated *)
(* collector on probation, and the files they work on.                     *)
(*                                                                         *)
(* The helper is sequential; one action per file or process operation, in  *)
(* the order of ApplyUpdateCommand::run.  Any of them may fail, and the    *)
(* helper may die between any two.                                         *)
(***************************************************************************)
CONSTANTS
    Platforms,  \* the builds considered; they differ in the replacement only
    MayFail,    \* the helper's steps whose operation may fail
    MayDie      \* the helper may die

(* The helper's steps, in the order of run and the functions it calls.      *)
HelperSteps ==
    {"wait", "clear", "hash", "copy", "fill", "check", "backup", "save",
     "rename", "unstage", "launch", "watch", "stable", "forget", "discard",
     "terminate", "clean", "restore", "restart"}

ASSUME UpdateAssumption ==
    /\ Platforms \subseteq {"unix", "windows"}
    /\ MayFail \subseteq HelperSteps
    /\ MayDie \in BOOLEAN

VARIABLES
    pc,         \* the helper's next step; "none", "done", "failed" or "dead"
    executable, \* the files that hold an executable
    health,     \* the health file holds the helper's token
    parent,     \* the collector that handed over is running
    child,      \* the updated collector: "none", "starting", "acked" or "exited"
    restarted,  \* what the helper restarted: "none" or a content
    verdict     \* history: what the probation ended with

processes == <<parent, child, restarted>>
vars == <<pc, executable, health, processes, verdict>>

-----------------------------------------------------------------------------
Places == {"current", "install", "backup", "staged"}
Contents == {"absent", "partial", "old", "new"}

Put(place, content) == executable' = [executable EXCEPT ![place] = content]

(* fs::rename                                                               *)
Move(from, to) ==
    executable' = [executable EXCEPT ![to] = executable[from], ![from] = "absent"]

(* A download verified by its signature and hash is staged.                 *)
Init ==
    /\ pc = "none"
    /\ executable = [p \in Places |-> CASE p = "current" -> "old"
                                       [] p = "staged" -> "new"
                                       [] OTHER -> "absent"]
    /\ health = FALSE
    /\ parent = TRUE
    /\ child = "none"
    /\ restarted = "none"
    /\ verdict = "none"

(* UpdateHandoff::start.  (When it fails the collector goes on: Delivery.)  *)
HandOff ==
    /\ pc = "none"
    /\ executable["staged"] = "new"
    /\ pc' = "wait"
    /\ UNCHANGED <<executable, health, processes, verdict>>

(* The collector that handed over ends: UpdateHandoff::start of             *)
(* update/mod.rs leaves a thread that exits the process 250 ms later, and   *)
(* on Windows the window closes when its worker has stopped.                *)
ParentExits ==
    /\ pc # "none"
    /\ parent
    /\ parent' = FALSE
    /\ UNCHANGED <<pc, executable, health, child, restarted, verdict>>

(* The staged file is damaged after the hand-over.                          *)
StagedChanges ==
    /\ executable["staged"] = "new"
    /\ Put("staged", "partial")
    /\ UNCHANGED <<pc, health, processes, verdict>>

Advance(from, to) ==
    /\ pc = from
    /\ pc' = to

Same == UNCHANGED <<executable, health, processes, verdict>>

-----------------------------------------------------------------------------
(* The helper up to the replacement.                                        *)
WaitForParentExit ==
    /\ ~parent
    /\ Advance("wait", "clear")
    /\ Same

ClearHealth ==
    /\ Advance("clear", "hash")
    /\ health' = FALSE
    /\ UNCHANGED <<executable, processes, verdict>>

(* prepare_install_executable: the staged hash, the copy, its hash.         *)
HashStaged ==
    /\ Advance("hash", IF executable["staged"] = "new" THEN "copy" ELSE "restart")
    /\ Same

BeginCopy ==
    /\ Advance("copy", "fill")
    /\ Put("install", "partial")
    /\ UNCHANGED <<health, processes, verdict>>

FinishCopy ==
    /\ Advance("fill", "check")
    /\ Put("install", executable["staged"])
    /\ UNCHANGED <<health, processes, verdict>>

(* Mutant of HashInstalled: the hash of the staged file is trusted.         *)
TrustCopy ==
    /\ Advance("check", "backup")
    /\ Same

HashInstalled ==
    \/ /\ executable["install"] = "new"
       /\ Advance("check", "backup")
       /\ Same
    \/ /\ executable["install"] # "new"
       /\ Advance("check", "restart")
       /\ Put("install", "absent")
       /\ UNCHANGED <<health, processes, verdict>>

(* Mutant of BeginBackup: no backup is made.                                *)
SkipBackup ==
    /\ "unix" \in Platforms
    /\ Advance("backup", "rename")
    /\ Same

(* replace_current_executable.  Elsewhere than on Windows the backup is a   *)
(* copy, and the new executable is renamed over the current one.            *)
BeginBackup ==
    /\ "unix" \in Platforms
    /\ Advance("backup", "save")
    /\ Put("backup", "partial")
    /\ UNCHANGED <<health, processes, verdict>>

FinishBackup ==
    /\ Advance("save", "rename")
    /\ Put("backup", executable["current"])
    /\ UNCHANGED <<health, processes, verdict>>

Replace ==
    /\ Advance("rename", "unstage")
    /\ Move("install", "current")
    /\ UNCHANGED <<health, processes, verdict>>

ReplaceFile ==
    /\ "windows" \in Platforms
    /\ Advance("backup", "unstage")
    /\ executable' = [executable EXCEPT !["backup"] = executable["current"],
                                        !["current"] = executable["install"],
                                        !["install"] = "absent"]
    /\ UNCHANGED <<health, processes, verdict>>

RemoveStaged ==
    /\ Advance("unstage", "launch")
    /\ \/ Put("staged", "absent")
       \/ "unstage" \in MayFail /\ UNCHANGED executable
    /\ UNCHANGED <<health, processes, verdict>>

-----------------------------------------------------------------------------
(* The updated collector on probation.                                      *)
Launch ==
    /\ Advance("launch", "watch")
    /\ child' = "starting"
    /\ UNCHANGED <<executable, health, parent, restarted, verdict>>

Alive == child \in {"starting", "acked"}

(* acknowledge_startup: its credential is accepted and autostart is set up. *)
Acknowledge ==
    /\ child = "starting"
    /\ child' = "acked"
    /\ health' = TRUE
    /\ UNCHANGED <<pc, executable, parent, restarted, verdict>>

(* It crashes, or finds another instance running, or fails to start.        *)
ChildExits ==
    /\ Alive
    /\ child' = "exited"
    /\ UNCHANGED <<pc, executable, health, parent, restarted, verdict>>

SeesHealth ==
    /\ health
    /\ Advance("watch", "stable")
    /\ Same

(* It has exited, nothing was acknowledged within HEALTH_TIMEOUT, or one of *)
(* the two cannot be found out.                                             *)
Unhealthy ==
    /\ \/ pc = "watch"
       \/ pc = "stable" /\ (child = "exited" \/ "stable" \in MayFail)
    /\ pc' = "terminate"
    /\ verdict' = "unhealthy"
    /\ UNCHANGED <<executable, health, processes>>

Healthy ==
    /\ Alive
    /\ Advance("stable", "forget")
    /\ verdict' = "healthy"
    /\ UNCHANGED <<executable, health, processes>>

ForgetHealth ==
    /\ Advance("forget", "discard")
    /\ \/ health' = FALSE
       \/ "forget" \in MayFail /\ UNCHANGED health
    /\ UNCHANGED <<executable, processes, verdict>>

DiscardBackup ==
    /\ Advance("discard", "done")
    /\ \/ Put("backup", "absent")
       \/ "discard" \in MayFail /\ UNCHANGED executable
    /\ UNCHANGED <<health, processes, verdict>>

-----------------------------------------------------------------------------
(* The way back.                                                            *)
(* Mutant of Terminate: the kill is not waited for.                         *)
TerminateLater ==
    /\ Advance("terminate", "clean")
    /\ UNCHANGED <<executable, health, processes, verdict>>

Terminate ==
    /\ Advance("terminate", "clean")
    /\ child' = "exited"
    /\ UNCHANGED <<executable, health, parent, restarted, verdict>>

(* Mutant of CleanHealth: the helper ends with the unhealthy process.       *)
CleanAndStop ==
    /\ Advance("clean", "done")
    /\ health' = FALSE
    /\ UNCHANGED <<executable, processes, verdict>>

CleanHealth ==
    /\ Advance("clean", "restore")
    /\ health' = FALSE
    /\ UNCHANGED <<executable, processes, verdict>>

(* restore_backup                                                           *)
Restore ==
    /\ executable["backup"] \in {"old", "new"}
    /\ Advance("restore", "restart")
    /\ Move("backup", "current")
    /\ UNCHANGED <<health, processes, verdict>>

(* restart_current                                                          *)
Restart ==
    /\ executable["current"] # "absent"
    /\ Advance("restart", "done")
    /\ restarted' = executable["current"]
    /\ UNCHANGED <<executable, health, parent, child, verdict>>

-----------------------------------------------------------------------------
(* Failures.  Those of the preparation and of the replacement lead to a     *)
(* restart of the old collector, that of the launch to the way back.        *)
Fails(step) == pc = step /\ step \in MayFail

PrepareFails ==
    /\ \E step \in {"hash", "copy", "fill", "check"} : Fails(step)
    /\ pc' = "restart"
    /\ \/ UNCHANGED executable
       \/ pc \in {"copy", "fill"} /\ Put("install", "absent")
    /\ UNCHANGED <<health, processes, verdict>>

(* The install file is removed, and so is the backup if the rename failed.  *)
ReplaceFails ==
    /\ \E step \in {"backup", "save", "rename"} : Fails(step)
    /\ pc' = "restart"
    /\ executable' = [executable EXCEPT
                        !["install"] = "absent",
                        !["backup"] = IF pc = "rename" THEN "absent" ELSE @]
    /\ UNCHANGED <<health, processes, verdict>>

LaunchFails ==
    /\ Fails("launch")
    /\ pc' = "restore"
    /\ UNCHANGED <<executable, health, processes, verdict>>

(* The error ends the helper: the parent did not exit within 15 seconds, or *)
(* a step of the way back failed.                                           *)
GivesUp ==
    /\ \/ \E step \in {"wait", "clear", "terminate", "clean", "restore", "restart"} :
            Fails(step) /\ (step = "wait" => parent)
       \/ pc = "restore" /\ executable["backup"] \notin {"old", "new"}
       \/ pc = "restart" /\ executable["current"] = "absent"
    /\ pc' = "failed"
    /\ UNCHANGED <<executable, health, processes, verdict>>

Dies ==
    /\ MayDie
    /\ pc \in HelperSteps
    /\ pc' = "dead"
    /\ UNCHANGED <<executable, health, processes, verdict>>

Helper ==
    \/ WaitForParentExit \/ ClearHealth \/ HashStaged \/ BeginCopy \/ FinishCopy
    \/ HashInstalled \/ BeginBackup \/ FinishBackup \/ Replace \/ ReplaceFile
    \/ RemoveStaged \/ Launch \/ SeesHealth \/ Unhealthy \/ Healthy
    \/ ForgetHealth \/ DiscardBackup \/ Terminate \/ CleanHealth \/ Restore
    \/ Restart \/ PrepareFails \/ ReplaceFails \/ LaunchFails \/ GivesUp

Next ==
    \/ HandOff \/ ParentExits \/ StagedChanges
    \/ Helper
    \/ Acknowledge \/ ChildExits
    \/ Dies

Spec == Init /\ [][Next]_vars

(* The helper is a running process whose waits end, and the collector that  *)
(* handed over exits: schedule_portable_parent_exit, or the closing window. *)
FairSpec == Spec /\ WF_vars(HandOff) /\ WF_vars(ParentExits) /\ WF_vars(Helper)

-----------------------------------------------------------------------------
(* The helper is in one of its steps, and what it restarts without a        *)
(* probation is the old executable.                                         *)
TypeOK ==
    /\ pc \in HelperSteps \union {"none", "done", "failed", "dead"}
    /\ executable \in [Places -> Contents]
    /\ health \in BOOLEAN
    /\ parent \in BOOLEAN
    /\ child \in {"none", "starting", "acked", "exited"}
    /\ restarted \in {"none", "old"}
    /\ verdict \in {"none", "healthy", "unhealthy"}

(* The executable that runs today is given up only for one that has passed  *)
(* its probation: until then it is the installed one or, complete, in the   *)
(* backup, whatever fails and wherever the helper dies.                     *)
PreviousKept ==
    verdict # "healthy" =>
        executable["current"] = "old" \/ executable["backup"] = "old"

(* "failed to atomically replace collector executable" is all a failure can *)
(* be: autostart finds a complete executable at the installed path, the old *)
(* one or the one that was signed, at every moment.                         *)
AlwaysStartable == executable["current"] \in {"old", "new"}

(* The collector that hands over, the one on probation and the one that is  *)
(* restarted are never running together.                                    *)
OneCollector ==
    /\ ~(parent /\ Alive)
    /\ ~(parent /\ restarted # "none")
    /\ ~(Alive /\ restarted # "none")

(* A helper that ends without an error of its own leaves the new version    *)
(* after a passed probation, or the old one, running.                       *)
Settled ==
    pc = "done" =>
        \/ verdict = "healthy" /\ executable["current"] = "new"
        \/ verdict # "healthy" /\ executable["current"] = "old" /\ restarted = "old"

(* The probation is passed by a process that has acknowledged its start and *)
(* lives on: neither a marker a dead process left nor survival is enough.   *)
HealthyIsAlive ==
    [][verdict' = "healthy" /\ verdict # "healthy" => child = "acked"]_vars

=============================================================================

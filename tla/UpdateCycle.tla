---------------------------- MODULE UpdateCycle ----------------------------
(***************************************************************************)
(* One update after the other: the releases that are published, the        *)
(* release client that checks and stages one (src/update/release.rs), the  *)
(* coordinator that waits for its time and slot (src/update/coordinator.rs)*)
(* with what the desktop shows of it (src/diagnostics.rs), the hand-over   *)
(* (UpdateHelper), and the collector that runs after it and checks again.  *)
(*                                                                         *)
(* Contents of UpdateHelper become versions: "old" is base, the one that   *)
(* hands over, and "new" is target, the one that was staged.  The next     *)
(* hand-over begins when the helper of the last one has ended.             *)
(***************************************************************************)
EXTENDS UpdateHelper, Integers

CONSTANTS
    MaxVersion, \* versions are numbered; 1 is the one installed first
    Signed,     \* those whose manifest entry is signed with the release key
    Bad,        \* those that never acknowledge their start
    MaxReleases, \* bound: changes of the latest release
    MaxFaults   \* bound: failures of all kinds

Versions == 1 .. MaxVersion

ASSUME CycleAssumption ==
    /\ MaxVersion \in Nat \ {0} /\ MaxReleases \in Nat /\ MaxFaults \in Nat
    /\ Signed \subseteq Versions /\ Bad \subseteq Versions

VARIABLES
    release,    \* the version of releases/latest/download/manifest.json
    releases,   \* its changes so far
    base,       \* the version that runs and hands over
    target,     \* candidate.version of the update pending or staged last
    step,       \* the coordinator: "rest", then within one poll "check",
                \* "stage", "decide", "slot", "pause", "handoff"; "gone" after it
    pending,    \* UpdateCoordinator::pending is Some
    manual,     \* UpdateCoordinator::manual_install_requested
    checkDue,   \* next_check_at has passed
    ready,      \* ready_at has passed
    online,     \* CollectorApplication::realtime is Some
    requested,  \* Diagnostics::update_install_requested
    available,  \* RuntimeSnapshot: available_update_version is Some,
    installing, \* update_installing,
    waiting,    \* update_waiting_for_slot
    click,      \* request_update_install: "none", "seen", "stored"
    faults,     \* failures and deaths so far
    healthy     \* history: the last version that passed its probation

published == <<release, releases>>
versions == <<base, target>>
schedule == <<manual, checkDue, ready>>
coordinator == <<step, pending, schedule>>
shown == <<available, installing, waiting>>
desktop == <<requested, shown, click>>
history == <<faults, healthy>>
cycleVars ==
    <<vars, published, versions, coordinator, online, desktop, history>>

-----------------------------------------------------------------------------
VersionOf(content) ==
    CASE content = "old" -> base
      [] content = "new" -> target
      [] OTHER -> 0

Installed == VersionOf(executable["current"])

(* The processes and files before a hand-over by the installed executable.  *)
BeforeHandOff(staged) ==
    [p \in Places |-> CASE p = "current" -> "old"
                        [] p = "staged" -> staged
                        [] OTHER -> "absent"]

CycleInit ==
    /\ pc = "none" /\ executable = BeforeHandOff("absent") /\ health = FALSE
    /\ parent = TRUE /\ child = "none" /\ restarted = "none" /\ verdict = "none"
    /\ release = 1 /\ releases = 0 /\ base = 1 /\ target = 0
    /\ step = "rest" /\ pending = FALSE /\ manual = FALSE /\ checkDue = TRUE /\ ready = FALSE
    /\ online = FALSE /\ requested = FALSE /\ available = FALSE /\ installing = FALSE /\ waiting = FALSE
    /\ click = "none" /\ faults = 0 /\ healthy = 1

Fault == faults < MaxFaults /\ faults' = faults + 1 /\ UNCHANGED healthy

-----------------------------------------------------------------------------
(* The world around the coordinator.                                        *)

(* A release, or the withdrawal of one: "latest" may name an older one.      *)
Publish ==
    /\ releases < MaxReleases
    /\ \E version \in Versions \ {release} : release' = version
    /\ releases' = releases + 1
    /\ UNCHANGED <<vars, versions, coordinator, online, desktop, history>>

GoOnline ==
    /\ step = "rest" /\ ~online /\ online' = TRUE
    /\ UNCHANGED <<vars, published, versions, coordinator, desktop, history>>

GoOffline ==
    /\ step = "rest" /\ online /\ online' = FALSE
    /\ Fault
    /\ UNCHANGED <<vars, published, versions, coordinator, desktop>>

CheckTimePasses ==
    /\ step = "rest" /\ ~checkDue /\ checkDue' = TRUE
    /\ UNCHANGED <<vars, published, versions, step, pending, manual, ready,
                   online, desktop, history>>

ReadyTimePasses ==
    /\ step = "rest" /\ pending /\ ~ready /\ ready' = TRUE
    /\ UNCHANGED <<vars, published, versions, step, pending, manual, checkDue,
                   online, desktop, history>>

(* The button, and the three steps of request_update_install, which runs on *)
(* the thread of the desktop.                                               *)
SeeUpdate ==
    /\ click = "none" /\ step # "gone"
    /\ available /\ ~installing /\ ~waiting
    /\ click' = "seen"
    /\ UNCHANGED <<vars, published, versions, coordinator, online, requested, shown, history>>

StoreRequest ==
    /\ click = "seen"
    /\ click' = "stored" /\ requested' = TRUE
    /\ UNCHANGED <<vars, published, versions, coordinator, online, shown, history>>

ShowWaiting ==
    /\ click = "stored"
    /\ click' = "none" /\ waiting' = TRUE /\ installing' = FALSE
    /\ UNCHANGED <<vars, published, versions, coordinator, online, requested,
                   available, history>>

-----------------------------------------------------------------------------
(* UpdateCoordinator::poll, called at the end of a tick.                    *)
Poll ==
    /\ step = "rest"
    /\ LET due == checkDue \/ requested
           check == due /\ ~pending
       IN  /\ step' = IF check THEN "check" ELSE "decide"
           /\ checkDue' = (due /\ ~check)
    /\ requested' = FALSE
    /\ manual' = (manual \/ requested)
    /\ ready' = (ready \/ (pending /\ requested))
    /\ UNCHANGED <<vars, published, versions, pending, online, shown, click, history>>

(* Mutant of NotNewer: any other version is taken.                          *)
NotDifferent == release = base

NotNewer == release <= base

NoUpdate ==
    /\ step = "check" /\ NotNewer
    /\ step' = "decide"
    /\ manual' = FALSE /\ available' = FALSE /\ installing' = FALSE /\ waiting' = FALSE
    /\ UNCHANGED <<vars, published, versions, pending, checkDue, ready, online,
                   requested, click, history>>

Verified == release \in Signed

(* select_candidate finds a newer release.  Its staged file has a name of   *)
(* its own; the one of the same version may be there already.               *)
Candidate ==
    /\ step = "check" /\ ~NotNewer /\ Verified
    /\ step' = "stage"
    /\ target' = release
    /\ IF target = release
          THEN UNCHANGED executable
          ELSE Put("staged", "absent")
    /\ UNCHANGED <<pc, health, processes, verdict, published, base, pending, schedule,
                   online, desktop, history>>

(* defer_after_error; with a pending update before the poll the connection  *)
(* is given up as well.                                                     *)
Defer ==
    /\ step' = "rest"
    /\ ready' = FALSE
    /\ checkDue' = (checkDue /\ pending)
    /\ manual' = FALSE /\ installing' = FALSE /\ waiting' = FALSE
    /\ UNCHANGED <<published, versions, pending, requested, available, click>>

CheckFails ==
    /\ step = "check"
    /\ \/ ~NotNewer /\ ~Verified /\ UNCHANGED history
       \/ Fault
    /\ Defer
    /\ UNCHANGED <<vars, online>>

Staged ==
    /\ step' = "decide"
    /\ Put("staged", "new")
    /\ pending' = TRUE /\ available' = TRUE
    /\ ready' \in {manual, TRUE}
    /\ UNCHANGED <<pc, health, processes, verdict, published, versions, manual, checkDue,
                   online, requested, installing, waiting, click, history>>

(* Mutant of Stage: a staged file that exists is an error.                  *)
StageAnew ==
    /\ step = "stage"
    /\ executable["staged"] = "absent"
    /\ Staged

(* The staged file of an earlier attempt is removed, the artifact written   *)
(* beside it and renamed.                                                   *)
Stage == step = "stage" /\ Staged

StageFails ==
    /\ step = "stage"
    /\ Fault
    /\ \/ UNCHANGED executable
       \/ Put("staged", "absent")
    /\ Defer
    /\ UNCHANGED <<pc, health, processes, verdict, online>>

Rest ==
    /\ step' = "rest"
    /\ UNCHANGED <<vars, published, versions, pending, checkDue, online, requested,
                   available, click, history>>

(* The rest of poll: wait for delivery to be idle, for a pending update, for *)
(* its time, and without a connection for the user.                         *)
Wait(idle) ==
    /\ step = "decide"
    /\ \/ /\ ~idle /\ ~manual
          /\ UNCHANGED <<manual, installing>>
       \/ /\ idle \/ manual
          /\ ~pending
          /\ manual' = FALSE
          /\ installing' = (installing /\ ~manual)
       \/ /\ idle \/ manual
          /\ pending /\ (~ready \/ ~(online \/ manual))
          /\ UNCHANGED <<manual, installing>>
    /\ Rest
    /\ UNCHANGED <<ready, waiting>>

Proceed(idle) ==
    /\ step = "decide"
    /\ idle \/ manual
    /\ pending /\ ready
    /\ \/ online /\ step' = "slot"
       \/ ~online /\ manual /\ step' = "handoff"
    /\ UNCHANGED <<vars, published, versions, pending, schedule, online, desktop, history>>

Decide(idle) == Wait(idle) \/ Proceed(idle)

Grant ==
    /\ step = "slot"
    /\ step' = "pause"
    /\ installing' = TRUE /\ waiting' = FALSE
    /\ UNCHANGED <<vars, published, versions, pending, schedule, online, requested,
                   available, click, history>>

Deny ==
    /\ step = "slot"
    /\ ready' = FALSE
    /\ waiting' = TRUE /\ installing' = FALSE
    /\ Rest
    /\ UNCHANGED manual

Pause ==
    /\ step = "pause"
    /\ step' = "handoff"
    /\ UNCHANGED <<vars, published, versions, pending, schedule, online, desktop, history>>

CallFails ==
    /\ step \in {"slot", "pause"}
    /\ Fault
    /\ Defer
    /\ online' \in BOOLEAN
    /\ UNCHANGED vars

(* The request taken from the coordinator starts the helper, ...            *)
HandOver ==
    /\ step = "handoff"
    /\ HandOff
    /\ step' = "gone"
    /\ pending' = FALSE /\ manual' = FALSE /\ ready' = FALSE
    /\ available' = FALSE /\ waiting' = FALSE /\ installing' = TRUE
    /\ online' = FALSE
    /\ UNCHANGED <<published, versions, checkDue, requested, click, history>>

(* Mutant of RestoreHandoff: what the desktop shows is left as it is.       *)
RestoreUntold ==
    /\ step = "handoff"
    /\ \/ executable["staged"] # "new" /\ UNCHANGED history
       \/ Fault
    /\ step' = "rest"
    /\ manual' = FALSE /\ ready' = FALSE
    /\ available' = TRUE /\ installing' = TRUE /\ waiting' = FALSE
    /\ UNCHANGED <<vars, published, versions, pending, checkDue, online, requested, click>>

(* ... or is restored.                                                      *)
RestoreHandoff ==
    /\ step = "handoff"
    /\ \/ executable["staged"] # "new" /\ UNCHANGED history
       \/ Fault
    /\ step' = "rest"
    /\ manual' = FALSE /\ ready' = FALSE
    /\ available' = TRUE /\ installing' = FALSE /\ waiting' = FALSE
    /\ UNCHANGED <<vars, published, versions, pending, checkDue, online, requested, click>>

Coordinate ==
    \/ Poll \/ NoUpdate \/ Candidate \/ CheckFails \/ Stage \/ StageFails
    \/ \E idle \in BOOLEAN : Decide(idle)
    \/ Grant \/ Deny \/ Pause \/ CallFails \/ HandOver \/ RestoreHandoff

-----------------------------------------------------------------------------
(* The hand-over, with its failures counted.                                *)
Beside == <<published, versions, coordinator, online, desktop>>

StagedIsDamaged ==
    StagedChanges /\ Fault /\ UNCHANGED Beside

(* The steps of the helper that need no failure.                            *)
Orderly ==
    \/ WaitForParentExit \/ ClearHealth \/ HashStaged \/ BeginCopy \/ FinishCopy
    \/ HashInstalled \/ BeginBackup \/ FinishBackup \/ Replace \/ ReplaceFile
    \/ RemoveStaged \/ Launch \/ SeesHealth
    \/ (child = "exited" \/ target \in Bad) /\ Unhealthy
    \/ Healthy
    \/ ForgetHealth \/ DiscardBackup \/ Terminate \/ CleanHealth \/ Restore
    \/ Restart

HelperGoesOn ==
    /\ Orderly
    /\ healthy' = IF verdict' = "healthy" THEN target ELSE healthy
    /\ UNCHANGED <<Beside, faults>>

HelperFails ==
    /\ \/ PrepareFails \/ ReplaceFails \/ LaunchFails \/ GivesUp
       \/ child # "exited" /\ target \notin Bad /\ Unhealthy
       \/ Dies
    /\ Fault
    /\ UNCHANGED Beside

(* Whatever the worker and the window still do: see ParentExits.            *)
CollectorExits ==
    /\ ParentExits
    /\ UNCHANGED <<Beside, history>>

ChildAcknowledges ==
    /\ target \notin Bad
    /\ Acknowledge
    /\ UNCHANGED <<Beside, history>>

ChildDies ==
    /\ ChildExits
    /\ \/ target \in Bad /\ UNCHANGED history
       \/ Fault
    /\ UNCHANGED Beside

-----------------------------------------------------------------------------
(* A collector starts with a new coordinator, as from_build leaves it.      *)
Fresh ==
    /\ step' = "rest" /\ pending' = FALSE /\ manual' = FALSE /\ checkDue' = TRUE /\ ready' = FALSE
    /\ online' = FALSE /\ requested' = FALSE /\ available' = FALSE /\ installing' = FALSE /\ waiting' = FALSE
    /\ click' = "none"

(* The collector dies before a hand-over and is started again.              *)
CollectorRestarts ==
    /\ pc = "none"
    /\ Fault
    /\ Fresh
    /\ \/ UNCHANGED executable
       \/ step = "stage" /\ Put("staged", "absent")
    /\ UNCHANGED <<pc, health, processes, verdict, published, versions>>

(* The helper has ended; the collector it left running, or the one that     *)
(* autostart or the user finds installed, is the next to check.             *)
NextCycle ==
    /\ pc \in {"done", "failed", "dead"} /\ ~parent
    /\ Installed \notin Bad
    /\ base' = Installed
    /\ executable' = BeforeHandOff(executable["staged"])
    /\ pc' = "none" /\ health' = FALSE /\ parent' = TRUE
    /\ child' = "none" /\ restarted' = "none" /\ verdict' = "none"
    /\ Fresh
    /\ UNCHANGED <<published, target, history>>

CycleNext ==
    \/ Publish \/ GoOnline \/ GoOffline \/ CheckTimePasses \/ ReadyTimePasses
    \/ SeeUpdate \/ StoreRequest \/ ShowWaiting
    \/ Coordinate
    \/ StagedIsDamaged \/ HelperGoesOn \/ HelperFails
    \/ CollectorExits \/ ChildAcknowledges \/ ChildDies
    \/ CollectorRestarts \/ NextCycle

(* Ticks go on and what they call ends; times pass; the link comes back;    *)
(* delivery is idle and the service grants the slot again and again; the    *)
(* hand-over is as fair as in UpdateHelper: the collector that started a    *)
(* helper exits of itself, on every platform.                               *)
CycleSpec ==
    /\ CycleInit /\ [][CycleNext]_cycleVars
    /\ WF_cycleVars(Coordinate)
    /\ SF_cycleVars(CheckTimePasses) /\ SF_cycleVars(ReadyTimePasses)
    /\ SF_cycleVars(GoOnline)
    /\ WF_cycleVars(StoreRequest) /\ WF_cycleVars(ShowWaiting)
    /\ SF_cycleVars(Decide(TRUE)) /\ SF_cycleVars(Grant)
    /\ WF_cycleVars(HelperGoesOn) /\ WF_cycleVars(CollectorExits)
    /\ WF_cycleVars(ChildAcknowledges) /\ WF_cycleVars(NextCycle)

-----------------------------------------------------------------------------
(* Across hand-overs, failures, ways back and staged files left by earlier  *)
(* ones, what is installed is the first executable or one the release key   *)
(* signed, and no release that was withdrawn takes it behind the last one   *)
(* that passed its probation.                                               *)
InstalledIsEndorsed ==
    /\ Installed \in Signed \union {1}
    /\ Installed >= healthy

(* Once a good release stays the latest, the collector gets to it, over     *)
(* deaths after staging, versions that hang at their start, denied slots    *)
(* and failed hand-overs; unless a helper that was killed or gave up left   *)
(* such a version installed, or a pending staged file is damaged, which is  *)
(* never staged again.                                                      *)
EventuallyUpdated ==
    <>[](/\ release \in Signed \ Bad
         /\ ~(pending /\ executable["staged"] # "new")
         /\ ~(pc \in {"failed", "dead"} /\ Installed \in Bad))
        => <>[](Installed >= release)

(* The install button never stays disabled: "waiting for a slot" and        *)
(* "installing" are taken back after every failure and every race of the    *)
(* click with a poll, or the collector hands over.                          *)
ButtonComesBack ==
    waiting \/ installing ~> ~(waiting \/ installing) \/ step = "gone"
=============================================================================

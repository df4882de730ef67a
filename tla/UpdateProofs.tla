---------------------------- MODULE UpdateProofs ----------------------------
(***************************************************************************)
(* Safety of the hand-over of an update, whatever operation fails and      *)
(* wherever the helper dies, on either platform; and of one update after   *)
(* the other.                                                              *)
(*                                                                         *)
(* The inductive invariant of a hand-over says, for each step of the       *)
(* helper, where the two executables are and which collectors can be       *)
(* running.  That of the cycle adds which versions they can be.            *)
(***************************************************************************)
EXTENDS UpdateCycle, TLAPS

(* Before the replacement.                                                  *)
Preparing ==
    {"none", "wait", "clear", "hash", "copy", "fill", "check", "backup", "save",
     "rename"}

(* From the replacement to the verdict, and on the way back.                *)
Replaced ==
    {"unstage", "launch", "watch", "stable", "terminate", "clean", "restore"}

FilesInv ==
    /\ pc \in Preparing => executable["current"] = "old"
    /\ pc \in {"backup", "save", "rename"} => executable["install"] = "new"
    /\ pc = "rename" => executable["backup"] = "old"
    /\ pc \in Replaced =>
         executable["current"] = "new" /\ executable["backup"] = "old"
    /\ pc \in {"forget", "discard"} =>
         executable["current"] = "new" /\ verdict = "healthy"
    /\ pc = "restart" => executable["current"] = "old"

ProcessInv ==
    /\ pc \notin {"none", "wait", "failed", "dead"} => ~parent
    /\ pc \in Preparing \union {"unstage", "launch"} => child = "none"
    /\ pc \in {"clean", "restore", "restart"} => ~Alive
    /\ pc \notin {"done", "failed", "dead"} => restarted = "none"
    /\ parent => child = "none" /\ restarted = "none"
    /\ pc \notin {"forget", "discard", "done", "dead"} => verdict # "healthy"
    /\ health => child \in {"acked", "exited"}
    /\ pc = "stable" => child \in {"acked", "exited"}

HelperInv ==
    /\ TypeOK
    /\ FilesInv
    /\ ProcessInv
    /\ PreviousKept
    /\ AlwaysStartable
    /\ OneCollector
    /\ Settled

-----------------------------------------------------------------------------
LEMMA HelperInit == Init => HelperInv
  BY DEF Init, HelperInv, TypeOK, FilesInv, ProcessInv, PreviousKept,
         AlwaysStartable, OneCollector, Settled, Preparing, Replaced, Alive,
         Places, Contents, HelperSteps

LEMMA HelperStep == HelperInv /\ [Next]_vars => HelperInv'
<1> SUFFICES ASSUME HelperInv, [Next]_vars PROVE HelperInv'
  OBVIOUS
<1> USE DEF HelperInv, TypeOK, FilesInv, ProcessInv, PreviousKept,
            AlwaysStartable, OneCollector, Settled, Preparing, Replaced, Alive,
            Places, Contents, HelperSteps, processes, Advance, Same, Put, Move
<1>1. CASE HandOff
  BY <1>1 DEF HandOff
<1>2. CASE ParentExits
  BY <1>2 DEF ParentExits
<1>3. CASE StagedChanges
  BY <1>3 DEF StagedChanges
<1>4. CASE WaitForParentExit
  BY <1>4 DEF WaitForParentExit
<1>5. CASE ClearHealth
  BY <1>5 DEF ClearHealth
<1>6. CASE HashStaged
  BY <1>6 DEF HashStaged
<1>7. CASE BeginCopy
  BY <1>7 DEF BeginCopy
<1>8. CASE FinishCopy
  BY <1>8 DEF FinishCopy
<1>9. CASE HashInstalled
  BY <1>9 DEF HashInstalled
<1>10. CASE BeginBackup
  BY <1>10 DEF BeginBackup
<1>11. CASE FinishBackup
  BY <1>11 DEF FinishBackup
<1>12. CASE Replace
  BY <1>12 DEF Replace
<1>13. CASE ReplaceFile
  BY <1>13 DEF ReplaceFile
<1>14. CASE RemoveStaged
  BY <1>14 DEF RemoveStaged
<1>15. CASE Launch
  BY <1>15 DEF Launch
<1>16. CASE SeesHealth
  BY <1>16 DEF SeesHealth
<1>17. CASE Unhealthy
  BY <1>17 DEF Unhealthy
<1>18. CASE Healthy
  BY <1>18 DEF Healthy
<1>19. CASE ForgetHealth
  <2>1. CASE health' = FALSE
    BY <1>19, <2>1 DEF ForgetHealth
  <2>2. CASE UNCHANGED health
    BY <1>19, <2>2 DEF ForgetHealth
  <2> QED
    BY <1>19, <2>1, <2>2 DEF ForgetHealth
<1>20. CASE DiscardBackup
  BY <1>20 DEF DiscardBackup
<1>21. CASE Terminate
  BY <1>21 DEF Terminate
<1>22. CASE CleanHealth
  BY <1>22 DEF CleanHealth
<1>23. CASE Restore
  BY <1>23 DEF Restore
<1>24. CASE Restart
  BY <1>24 DEF Restart
<1>25. CASE PrepareFails
  BY <1>25 DEF PrepareFails, Fails
<1>26. CASE ReplaceFails
  BY <1>26 DEF ReplaceFails, Fails
<1>27. CASE LaunchFails
  BY <1>27 DEF LaunchFails, Fails
<1>28. CASE GivesUp
  BY <1>28 DEF GivesUp, Fails
<1>29. CASE Acknowledge
  BY <1>29 DEF Acknowledge
<1>30. CASE ChildExits
  BY <1>30 DEF ChildExits
<1>31. CASE Dies
  BY <1>31 DEF Dies
<1>32. CASE UNCHANGED vars
  BY <1>32 DEF vars
<1> QED
  BY <1>1, <1>2, <1>3, <1>4, <1>5, <1>6, <1>7, <1>8, <1>9, <1>10, <1>11,
     <1>12, <1>13, <1>14, <1>15, <1>16, <1>17, <1>18, <1>19, <1>20, <1>21, <1>22,
     <1>23, <1>24, <1>25, <1>26, <1>27, <1>28, <1>29, <1>30, <1>31, <1>32 DEF Next, Helper

LEMMA HelperInvariant == Spec => []HelperInv
  BY HelperInit, HelperStep, PTL DEF Spec

-----------------------------------------------------------------------------
(* The running executable is never lost: it is installed or in the backup   *)
(* until its successor has passed the probation.                            *)
THEOREM UpdateKeepsPrevious == Spec => []PreviousKept
<1>1. HelperInv => PreviousKept
  BY DEF HelperInv
<1> QED
  BY <1>1, HelperInvariant, PTL

(* There is a complete executable at the installed path at every moment.    *)
THEOREM UpdateStartable == Spec => []AlwaysStartable
<1>1. HelperInv => AlwaysStartable
  BY DEF HelperInv
<1> QED
  BY <1>1, HelperInvariant, PTL

(* No two collectors of a hand-over run together.                           *)
THEOREM UpdateOneCollector == Spec => []OneCollector
<1>1. HelperInv => OneCollector
  BY DEF HelperInv
<1> QED
  BY <1>1, HelperInvariant, PTL

(* A helper that ends in order leaves a collector that passed its probation *)
(* or the old one, restarted.                                               *)
THEOREM UpdateSettles == Spec => []Settled
<1>1. HelperInv => Settled
  BY DEF HelperInv
<1> QED
  BY <1>1, HelperInvariant, PTL

(* Only a process that has acknowledged its start and lives passes.         *)
THEOREM UpdateHealthyIsAlive == Spec => HealthyIsAlive
<1>1. HelperInv /\ [Next]_vars =>
        [verdict' = "healthy" /\ verdict # "healthy" => child = "acked"]_vars
  <2> SUFFICES ASSUME HelperInv, Next, verdict' = "healthy", verdict # "healthy"
               PROVE  child = "acked"
    BY DEF vars
  <2>1. Healthy
    BY DEF Next, Helper, HandOff, ParentExits, StagedChanges, WaitForParentExit,
           ClearHealth, HashStaged, BeginCopy, FinishCopy, HashInstalled,
           BeginBackup, FinishBackup, Replace, ReplaceFile, RemoveStaged, Launch,
           SeesHealth, Unhealthy, ForgetHealth, DiscardBackup, Terminate,
           CleanHealth, Restore, Restart, PrepareFails, ReplaceFails, LaunchFails,
           GivesUp, Acknowledge, ChildExits, Dies, Same, processes
  <2> QED
    BY <2>1 DEF Healthy, Advance, Alive, HelperInv, ProcessInv
<1> QED
  BY <1>1, HelperInvariant, PTL DEF Spec, HealthyIsAlive

-----------------------------------------------------------------------------
(* One update after the other.  What makes a version trusted is looked up   *)
(* when it is staged, and used two processes later: from its staging to the *)
(* end of its hand-over the target stays a signed version newer than the    *)
(* base, although releases come and go meanwhile; and a candidate is only   *)
(* looked for when none is pending.                                         *)
VersionsTyped ==
    /\ release \in Versions /\ base \in Versions /\ healthy \in Versions
    /\ target \in 0 .. MaxVersion

StepsInv ==
    /\ pc = "none" <=> step # "gone"
    /\ step \in {"check", "stage"} => ~pending
    /\ step \in {"slot", "pause", "handoff"} => pending

TargetInv ==
    pending \/ step \in {"stage", "gone"} => target \in Signed /\ target > base

BaseInv ==
    /\ base \in Signed \union {1}
    /\ verdict # "healthy" => base >= healthy
    /\ verdict = "healthy" => executable["current"] = "new" /\ healthy = target

CycleInv ==
    /\ HelperInv
    /\ VersionsTyped
    /\ StepsInv
    /\ TargetInv
    /\ BaseInv

LEMMA Endorsed == CycleInv => InstalledIsEndorsed
<1> SUFFICES ASSUME CycleInv PROVE InstalledIsEndorsed
  OBVIOUS
<1> USE CycleAssumption
        DEF CycleInv, VersionsTyped, StepsInv, TargetInv, BaseInv, Versions
<1>1. executable["current"] = "new" => target \in Signed /\ target > base
  BY DEF HelperInv, FilesInv, Preparing
<1>2. CASE executable["current"] = "old"
  <2>1. Installed = base
    BY <1>2 DEF Installed, VersionOf
  <2> QED
    BY <1>2, <2>1 DEF InstalledIsEndorsed
<1>3. CASE executable["current"] = "new"
  <2>1. Installed = target
    BY <1>3 DEF Installed, VersionOf
  <2>2. target >= healthy
    BY <1>1, <1>3
  <2> QED
    BY <1>1, <1>3, <2>1, <2>2 DEF InstalledIsEndorsed
<1> QED
  BY <1>2, <1>3 DEF HelperInv, AlwaysStartable

LEMMA CycleStart == CycleInit => CycleInv
<1> SUFFICES ASSUME CycleInit PROVE CycleInv
  OBVIOUS
<1>1. HelperInv
  BY DEF CycleInit, BeforeHandOff, HelperInv, TypeOK, FilesInv, ProcessInv, PreviousKept,
         AlwaysStartable, OneCollector, Settled, Preparing, Replaced, Alive, Places,
         Contents, HelperSteps
<1> QED
  BY <1>1, CycleAssumption
     DEF CycleInit, CycleInv, VersionsTyped, StepsInv, TargetInv, BaseInv, Versions

(* Before a hand-over only the staged file changes.                         *)
LEMMA StagedStep ==
    ASSUME HelperInv, pc = "none", NEW content \in Contents,
           \/ executable' = [executable EXCEPT !["staged"] = content]
           \/ executable' = executable,
           UNCHANGED <<pc, health, processes, verdict>>
    PROVE  HelperInv' /\ executable'["current"] = executable["current"]
BY DEF HelperInv, TypeOK, FilesInv, ProcessInv, PreviousKept, AlwaysStartable,
       OneCollector, Settled, Preparing, Replaced, Alive, Places, Contents, HelperSteps,
       processes

(* The world, the user and the steps of the coordinator that leave the      *)
(* files alone.                                                             *)
LEMMA QuietStep ==
    ASSUME CycleInv, UNCHANGED <<vars, versions>>, release' \in Versions,
           healthy' = healthy, StepsInv',
           pending' \/ step' \in {"stage", "gone"} => pending \/ step \in {"stage", "gone"}
    PROVE  CycleInv'
<1>1. HelperInv'
  BY HelperStep DEF CycleInv
<1> QED
  BY <1>1 DEF CycleInv, VersionsTyped, TargetInv, BaseInv, vars, versions

LEMMA CoordinateStep ==
    ASSUME CycleInv, Coordinate
    PROVE  CycleInv'
<1> USE DEF vars, published, versions, coordinator, schedule, desktop, shown, history,
            Fault, Defer, Rest
<1>0. CycleInv
  OBVIOUS
<1>1. CASE Poll
  <2>1. StepsInv'
    BY <1>0, <1>1 DEF Poll, CycleInv, StepsInv
  <2> QED
    BY <1>0, <1>1, <2>1, QuietStep DEF Poll, CycleInv, VersionsTyped
<1>2. CASE NoUpdate
  <2>1. StepsInv'
    BY <1>0, <1>2 DEF NoUpdate, CycleInv, StepsInv
  <2> QED
    BY <1>0, <1>2, <2>1, QuietStep DEF NoUpdate, CycleInv, VersionsTyped
<1>3. CASE Candidate
  <2>1. pc = "none" /\ ~pending
    BY <1>3 DEF Candidate, CycleInv, StepsInv
  <2>2. HelperInv' /\ executable'["current"] = executable["current"]
    BY <1>3, <2>1, StagedStep DEF Candidate, CycleInv, Put, Contents
  <2>3. target' = release /\ release \in Signed /\ release > base
    BY <1>3, CycleAssumption DEF Candidate, Verified, NotNewer, CycleInv, VersionsTyped,
       Versions
  <2>4. VersionsTyped'
    BY <1>3, <2>3, CycleAssumption DEF Candidate, CycleInv, VersionsTyped, Versions
  <2>5. StepsInv'
    BY <1>3, <2>1 DEF Candidate, StepsInv
  <2>6. BaseInv'
    BY <1>3, <2>1, <2>2 DEF Candidate, CycleInv, BaseInv, HelperInv, FilesInv, Preparing
  <2> QED
    BY <1>3, <2>2, <2>3, <2>4, <2>5, <2>6 DEF Candidate, CycleInv, TargetInv
<1>4. CASE CheckFails
  <2>1. StepsInv'
    BY <1>0, <1>4 DEF CheckFails, CycleInv, StepsInv
  <2> QED
    BY <1>0, <1>4, <2>1, QuietStep DEF CheckFails, CycleInv, VersionsTyped
<1>5. CASE Stage
  <2>1. pc = "none" /\ target \in Signed /\ target > base
    BY <1>5 DEF Stage, CycleInv, StepsInv, TargetInv
  <2>2. HelperInv' /\ executable'["current"] = executable["current"]
    BY <1>5, <2>1, StagedStep DEF Stage, Staged, CycleInv, Put, Contents
  <2>3. StepsInv' /\ TargetInv'
    BY <1>5, <2>1 DEF Stage, Staged, StepsInv, TargetInv
  <2>4. VersionsTyped' /\ BaseInv'
    BY <1>5, <2>2 DEF Stage, Staged, CycleInv, VersionsTyped, BaseInv
  <2> QED
    BY <2>2, <2>3, <2>4 DEF CycleInv
<1>6. CASE StageFails
  <2>1. pc = "none" /\ ~pending
    BY <1>6 DEF StageFails, CycleInv, StepsInv
  <2>2. HelperInv' /\ executable'["current"] = executable["current"]
    BY <1>6, <2>1, StagedStep DEF StageFails, CycleInv, Put, Contents
  <2>3. StepsInv' /\ TargetInv'
    BY <1>6, <2>1 DEF StageFails, StepsInv, TargetInv
  <2>4. VersionsTyped' /\ BaseInv'
    BY <1>6, <2>2 DEF StageFails, CycleInv, VersionsTyped, BaseInv
  <2> QED
    BY <2>2, <2>3, <2>4 DEF CycleInv
<1>7. ASSUME NEW idle \in BOOLEAN, Decide(idle) PROVE CycleInv'
  <2>1. StepsInv'
    BY <1>0, <1>7 DEF Decide, Wait, Proceed, CycleInv, StepsInv
  <2> QED
    BY <1>0, <1>7, <2>1, QuietStep DEF Decide, Wait, Proceed, CycleInv, VersionsTyped
<1>8. CASE Grant \/ Deny \/ Pause
  <2>1. StepsInv'
    BY <1>0, <1>8 DEF Grant, Deny, Pause, CycleInv, StepsInv
  <2> QED
    BY <1>0, <1>8, <2>1, QuietStep DEF Grant, Deny, Pause, CycleInv, VersionsTyped
<1>9. CASE CallFails
  <2>1. StepsInv'
    BY <1>0, <1>9 DEF CallFails, CycleInv, StepsInv
  <2> QED
    BY <1>0, <1>9, <2>1, QuietStep DEF CallFails, CycleInv, VersionsTyped
<1>10. CASE HandOver
  <2>1. pc = "none" /\ target \in Signed /\ target > base
    BY <1>10 DEF HandOver, CycleInv, StepsInv, TargetInv
  <2>2. HelperInv'
    BY <1>10, HelperStep DEF HandOver, CycleInv, Next
  <2>3. pc' = "wait" /\ UNCHANGED <<executable, verdict>>
    BY <1>10 DEF HandOver, HandOff
  <2>4. StepsInv' /\ TargetInv'
    BY <1>10, <2>1, <2>3 DEF HandOver, StepsInv, TargetInv
  <2>5. VersionsTyped' /\ BaseInv'
    BY <1>10, <2>3 DEF HandOver, CycleInv, VersionsTyped, BaseInv
  <2> QED
    BY <2>2, <2>4, <2>5 DEF CycleInv
<1>11. CASE RestoreHandoff
  <2>1. StepsInv'
    BY <1>0, <1>11 DEF RestoreHandoff, CycleInv, StepsInv
  <2> QED
    BY <1>0, <1>11, <2>1, QuietStep DEF RestoreHandoff, CycleInv, VersionsTyped
<1> QED
  BY <1>1, <1>2, <1>3, <1>4, <1>5, <1>6, <1>7, <1>8, <1>9, <1>10, <1>11 DEF Coordinate

(* A step of the hand-over: the verdict makes the target healthy, and stays. *)
LEMMA HandOverStep ==
    ASSUME CycleInv, Next, UNCHANGED Beside,
           pc = "none" <=> pc' = "none",
           verdict = "healthy" => verdict' = "healthy",
           pc' = "dead" => verdict' = verdict /\ executable'["current"] = executable["current"],
           healthy' = IF verdict' = "healthy" THEN target ELSE healthy
    PROVE  CycleInv'
<1> USE DEF Beside, published, versions, coordinator, schedule, desktop, shown
<1>1. HelperInv'
  BY HelperStep DEF CycleInv
<1>2. verdict' = "healthy" => executable'["current"] = "new"
  <2>1. verdict' = "healthy" => pc' \in {"forget", "discard", "done", "dead"}
    BY <1>1 DEF HelperInv, ProcessInv, TypeOK, HelperSteps
  <2>2. verdict' = "healthy" /\ pc' \in {"forget", "discard", "done"}
          => executable'["current"] = "new"
    BY <1>1 DEF HelperInv, FilesInv, Settled
  <2>3. verdict' = "healthy" /\ pc' = "dead" => executable'["current"] = "new"
    BY DEF CycleInv, BaseInv
  <2> QED
    BY <2>1, <2>2, <2>3
<1>3. verdict' = "healthy" => target \in Versions
  <2>1. verdict' = "healthy" => pc' # "none"
    BY <1>1 DEF HelperInv, ProcessInv
  <2>2. verdict' = "healthy" => target \in Signed
    BY <2>1 DEF CycleInv, StepsInv, TargetInv
  <2> QED
    BY <2>2, CycleAssumption
<1>4. VersionsTyped'
  BY <1>3 DEF CycleInv, VersionsTyped
<1>5. StepsInv' /\ TargetInv'
  BY DEF CycleInv, StepsInv, TargetInv
<1>6. BaseInv'
  BY <1>2 DEF CycleInv, BaseInv
<1> QED
  BY <1>1, <1>4, <1>5, <1>6 DEF CycleInv

(* What a step without a failure does to the verdict.                       *)
LEMMA OrderlyStep ==
    ASSUME HelperInv, Orderly
    PROVE  /\ pc \notin {"none", "dead"} /\ pc' \notin {"none", "dead"}
           /\ verdict = "healthy" => verdict' = "healthy"
<1> USE DEF Advance, Same
<1>1. CASE WaitForParentExit \/ ClearHealth \/ HashStaged \/ BeginCopy \/ FinishCopy
  BY <1>1 DEF WaitForParentExit, ClearHealth, HashStaged, BeginCopy, FinishCopy
<1>2. CASE HashInstalled \/ BeginBackup \/ FinishBackup \/ Replace \/ ReplaceFile \/
           RemoveStaged
  BY <1>2 DEF HashInstalled, BeginBackup, FinishBackup, Replace, ReplaceFile, RemoveStaged
<1>3. CASE Launch \/ SeesHealth \/ Unhealthy \/ Healthy
  BY <1>3 DEF Launch, SeesHealth, Unhealthy, Healthy, HelperInv, ProcessInv
<1>4. CASE ForgetHealth \/ DiscardBackup
  BY <1>4 DEF ForgetHealth, DiscardBackup
<1>5. CASE Terminate \/ CleanHealth \/ Restore \/ Restart
  BY <1>5 DEF Terminate, CleanHealth, Restore, Restart
<1> QED
  BY <1>1, <1>2, <1>3, <1>4, <1>5 DEF Orderly

LEMMA FailureStep ==
    ASSUME HelperInv, PrepareFails \/ ReplaceFails \/ LaunchFails \/ GivesUp \/ Unhealthy \/ Dies
    PROVE  /\ pc # "none" /\ pc' # "none"
           /\ verdict = "healthy" <=> verdict' = "healthy"
           /\ pc' = "dead" => verdict' = verdict /\ executable' = executable
<1>1. CASE PrepareFails \/ ReplaceFails \/ LaunchFails
  BY <1>1 DEF PrepareFails, ReplaceFails, LaunchFails, Fails
<1>2. CASE GivesUp
  BY <1>2 DEF GivesUp, Fails
<1>3. CASE Unhealthy
  BY <1>3 DEF Unhealthy, HelperInv, ProcessInv
<1>4. CASE Dies
  BY <1>4 DEF Dies, HelperSteps
<1> QED
  BY <1>1, <1>2, <1>3, <1>4

LEMMA CycleStep == CycleInv /\ [CycleNext]_cycleVars => CycleInv'
<1> SUFFICES ASSUME CycleInv, [CycleNext]_cycleVars PROVE CycleInv'
  OBVIOUS
<1> USE DEF vars, published, versions, coordinator, schedule, desktop, shown, history, Fault
<1>0. /\ CycleInv /\ HelperInv
      /\ verdict = "healthy" => healthy = target
  BY DEF CycleInv, BaseInv
<1>1. CASE Publish \/ GoOnline \/ GoOffline
  <2>1. StepsInv'
    BY <1>0, <1>1 DEF Publish, GoOnline, GoOffline, CycleInv, StepsInv
  <2> QED
    BY <1>0, <1>1, <2>1, QuietStep DEF Publish, GoOnline, GoOffline, CycleInv, VersionsTyped
<1>2. CASE CheckTimePasses \/ ReadyTimePasses
  <2>1. StepsInv'
    BY <1>0, <1>2 DEF CheckTimePasses, ReadyTimePasses, CycleInv, StepsInv
  <2> QED
    BY <1>0, <1>2, <2>1, QuietStep DEF CheckTimePasses, ReadyTimePasses, CycleInv, VersionsTyped
<1>3. CASE SeeUpdate \/ StoreRequest \/ ShowWaiting
  <2>1. StepsInv'
    BY <1>0, <1>3 DEF SeeUpdate, StoreRequest, ShowWaiting, CycleInv, StepsInv
  <2> QED
    BY <1>0, <1>3, <2>1, QuietStep DEF SeeUpdate, StoreRequest, ShowWaiting, CycleInv,
       VersionsTyped
<1>4. CASE Coordinate
  BY <1>4, CoordinateStep
<1>5. CASE StagedIsDamaged
  <2>1. /\ Next /\ UNCHANGED <<pc, verdict, healthy>>
        /\ executable'["current"] = executable["current"]
    BY <1>0, <1>5 DEF StagedIsDamaged, StagedChanges, Next, Put, HelperInv, TypeOK, Places
  <2> QED
    BY <1>0, <1>5, <2>1, HandOverStep DEF StagedIsDamaged
<1>6. CASE HelperGoesOn
  <2>1. Next
    BY <1>6 DEF HelperGoesOn, Orderly, Next, Helper
  <2> QED
    BY <1>0, <1>6, <2>1, OrderlyStep, HandOverStep DEF HelperGoesOn
<1>7. CASE HelperFails
  <2>1. /\ PrepareFails \/ ReplaceFails \/ LaunchFails \/ GivesUp \/ Unhealthy \/ Dies
        /\ healthy' = healthy /\ UNCHANGED Beside
    BY <1>7 DEF HelperFails
  <2>2. Next
    BY <2>1 DEF Next, Helper
  <2>3. healthy' = IF verdict' = "healthy" THEN target ELSE healthy
    BY <1>0, <2>1, FailureStep
  <2> QED
    BY <1>0, <2>1, <2>2, <2>3, FailureStep, HandOverStep
<1>8. CASE CollectorExits \/ ChildAcknowledges \/ ChildDies
  <2>1. /\ Next /\ UNCHANGED <<pc, executable, verdict, healthy>> /\ UNCHANGED Beside
    BY <1>8 DEF CollectorExits, ChildAcknowledges, ChildDies, ParentExits, Acknowledge,
       ChildExits, Next
  <2> QED
    BY <1>0, <2>1, HandOverStep
<1>9. CASE CollectorRestarts
  <2>1. pc = "none" /\ UNCHANGED <<pc, health, processes, verdict, published, versions,
                                   healthy>>
    BY <1>9 DEF CollectorRestarts
  <2>2. HelperInv' /\ executable'["current"] = executable["current"]
    BY <1>0, <1>9, <2>1, StagedStep DEF CollectorRestarts, Put, Contents
  <2>3. StepsInv' /\ TargetInv'
    BY <1>9, <2>1 DEF CollectorRestarts, Fresh, StepsInv, TargetInv
  <2>4. VersionsTyped' /\ BaseInv'
    BY <1>0, <2>1, <2>2 DEF CycleInv, VersionsTyped, BaseInv
  <2> QED
    BY <2>2, <2>3, <2>4 DEF CycleInv
<1>10. CASE NextCycle
  <2>1. /\ base' = Installed /\ executable' = BeforeHandOff(executable["staged"])
        /\ pc' = "none" /\ health' = FALSE /\ parent' = TRUE /\ child' = "none"
        /\ restarted' = "none" /\ verdict' = "none"
        /\ UNCHANGED <<published, target, healthy>>
    BY <1>10 DEF NextCycle
  <2>2. executable["staged"] \in Contents
    BY <1>0 DEF HelperInv, TypeOK, Places
  <2>3. HelperInv'
    BY <2>1, <2>2 DEF BeforeHandOff, HelperInv, TypeOK, FilesInv, ProcessInv, PreviousKept,
       AlwaysStartable, OneCollector, Settled, Preparing, Replaced, Alive, Places, Contents,
       HelperSteps
  <2>4. Installed \in Signed \union {1} /\ Installed >= healthy
    BY <1>0, Endorsed DEF InstalledIsEndorsed
  <2>5. VersionsTyped' /\ BaseInv'
    BY <1>0, <2>1, <2>4, CycleAssumption DEF CycleInv, VersionsTyped, BaseInv, Versions
  <2>6. StepsInv' /\ TargetInv'
    BY <1>10, <2>1 DEF NextCycle, Fresh, StepsInv, TargetInv
  <2> QED
    BY <2>3, <2>5, <2>6 DEF CycleInv
<1>11. CASE UNCHANGED cycleVars
  <2>1. StepsInv'
    BY <1>0, <1>11 DEF cycleVars, CycleInv, StepsInv
  <2> QED
    BY <1>0, <1>11, <2>1, QuietStep DEF cycleVars, CycleInv, VersionsTyped
<1> QED
  BY <1>1, <1>2, <1>3, <1>4, <1>5, <1>6, <1>7, <1>8, <1>9, <1>10, <1>11 DEF CycleNext

LEMMA CycleInvariant == CycleSpec => []CycleInv
  BY CycleStart, CycleStep, PTL DEF CycleSpec

(* Whatever releases are published or withdrawn while an update is staged,  *)
(* waits or is handed over, and whatever fails: the installed executable is *)
(* the first one or one the release key signed, and never older than the    *)
(* last version that passed its probation.                                  *)
THEOREM CycleEndorsed == CycleSpec => []InstalledIsEndorsed
  BY CycleInvariant, Endorsed, PTL

(* From one hand-over to the next, with the staged files, the verdicts and  *)
(* the ways back of the earlier ones, the safety of a single one remains.   *)
THEOREM CycleSafe ==
    CycleSpec => [](PreviousKept /\ AlwaysStartable /\ OneCollector /\ Settled)
<1>1. CycleInv => PreviousKept /\ AlwaysStartable /\ OneCollector /\ Settled
  BY DEF CycleInv, HelperInv
<1> QED
  BY <1>1, CycleInvariant, PTL
=============================================================================

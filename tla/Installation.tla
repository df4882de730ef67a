---------------------------- MODULE Installation ----------------------------
(***************************************************************************)
(* The stable per-user installation, src/platform/installation.rs: anyone  *)
(* who starts a downloaded collector makes it install itself, or reuse     *)
(* what is installed, by the version marker beside the executable.  The    *)
(* collector that runs from the installation records its version three     *)
(* seconds after its start, and replaces itself by updates (UpdateHelper). *)
(*                                                                         *)
(* An executable is its version; 0 stands for no file, and for a marker    *)
(* that is absent or does not parse.                                       *)
(***************************************************************************)
EXTENDS Integers

CONSTANTS
    Installers,  \* processes that install, concurrently
    MaxVersion,  \* bound: the versions there are
    MaxStarts,   \* bound: installers started
    MaxFailures, \* bound: operations that fail and processes that die
    ByPath       \* current_exe is the path the process was loaded from

ASSUME InstallationAssumption ==
    /\ {MaxVersion, MaxStarts, MaxFailures} \subseteq Nat
    /\ ByPath \in BOOLEAN

VARIABLES
    target,     \* the stable executable
    marker,     \* its version marker
    pc,         \* the next step of each installer; "none" when it is not running
    version,    \* its version
    temporary,  \* the complete copy it has made beside the target
    backup,     \* the executable it has moved out of the way
    leftover,   \* what earlier installers have left so
    collector,  \* the version of the collector that runs from the target
    fresh,      \* it has yet to record its version
    starts,     \* installers started so far
    failures,   \* failures so far
    known,      \* history: the version last recorded for the target
    overlapped, \* history: two installers ran at once
    outdone     \* history: a version was put beneath the marker of a newer one, and
                \* no true marker has been written since

installer == <<pc, version, temporary, backup>>
vars == <<target, marker, installer, leftover, collector, fresh, starts, failures, known,
          overlapped, outdone>>

Versions == 1 .. MaxVersion

Init ==
    /\ target = 0
    /\ marker = 0
    /\ pc = [i \in Installers |-> "none"]
    /\ version = [i \in Installers |-> 0]
    /\ temporary = [i \in Installers |-> 0]
    /\ backup = [i \in Installers |-> 0]
    /\ leftover = {}
    /\ collector = 0
    /\ fresh = FALSE
    /\ starts = 0
    /\ failures = 0
    /\ known = 0
    /\ overlapped = FALSE
    /\ outdone = FALSE

-----------------------------------------------------------------------------
(* An installer, step by step.                                              *)
Goto(i, step) == pc' = [pc EXCEPT ![i] = step]

Advance(i, from, to) ==
    /\ pc[i] = from
    /\ Goto(i, to)

Running == UNCHANGED <<leftover, collector, fresh, starts, failures, known,
                     overlapped, outdone>>

(* A collector of some version is started from outside the installation.    *)
Start(i) ==
    /\ starts < MaxStarts
    /\ starts' = starts + 1
    /\ Advance(i, "none", "inspect")
    /\ \E v \in Versions : version' = [version EXCEPT ![i] = v]
    /\ temporary' = [temporary EXCEPT ![i] = 0]
    /\ backup' = [backup EXCEPT ![i] = 0]
    /\ leftover' = leftover \union ({backup[i]} \ {0})
    /\ overlapped' = (overlapped \/ \E j \in Installers : pc[j] # "none")
    /\ UNCHANGED <<target, marker, collector, fresh, failures, known, outdone>>

(* ensure_installed: a marker of this version or a newer one is believed.   *)
Inspect(i) ==
    /\ Advance(i, "inspect",
               IF target # 0 /\ marker >= version[i] THEN "launch" ELSE "copy")
    /\ UNCHANGED <<target, marker, version, temporary, backup>>
    /\ Running

(* Mutant of Copy: the marker is written before the files are replaced.     *)
MarkFirst(i) ==
    /\ Advance(i, "copy", IF target # 0 THEN "move" ELSE "install")
    /\ temporary' = [temporary EXCEPT ![i] = version[i]]
    /\ marker' = version[i]
    /\ UNCHANGED <<target, version, backup>>
    /\ Running

Copy(i) ==
    /\ Advance(i, "copy", IF target # 0 THEN "move" ELSE "install")
    /\ temporary' = [temporary EXCEPT ![i] = version[i]]
    /\ UNCHANGED <<target, marker, version, backup>>
    /\ Running

(* Mutant of MoveAway: the old executable is removed instead.               *)
RemoveOld(i) ==
    /\ target # 0
    /\ Advance(i, "move", "activate")
    /\ target' = 0
    /\ UNCHANGED <<marker, version, temporary, backup>>
    /\ Running

(* move_existing_to_backup                                                  *)
MoveAway(i) ==
    /\ target # 0
    /\ Advance(i, "move", "activate")
    /\ backup' = [backup EXCEPT ![i] = target]
    /\ target' = 0
    /\ UNCHANGED <<marker, version, temporary>>
    /\ Running

(* The rename that makes the copy the target.                               *)
Activate(i) ==
    /\ pc[i] \in {"activate", "install"}
    /\ Goto(i, IF pc[i] = "activate" THEN "forget" ELSE "mark")
    /\ target' = version[i]
    /\ temporary' = [temporary EXCEPT ![i] = 0]
    /\ outdone' = (marker > version[i])
    /\ UNCHANGED <<marker, version, backup, leftover, collector, fresh, starts, failures,
                   known, overlapped>>

RemoveBackup(i) ==
    /\ Advance(i, "forget", "mark")
    /\ backup' = [backup EXCEPT ![i] = 0]
    /\ UNCHANGED <<target, marker, version, temporary>>
    /\ Running

(* write_version_marker truncates the marker and fills it.                  *)
BeginMark(i) ==
    /\ Advance(i, "mark", "marking")
    /\ marker' = 0
    /\ outdone' = FALSE
    /\ UNCHANGED <<target, version, temporary, backup, leftover, collector, fresh, starts,
                   failures, known, overlapped>>

FinishMark(i) ==
    /\ Advance(i, "marking", "launch")
    /\ marker' = version[i]
    /\ known' = IF target = version[i] THEN version[i] ELSE known
    /\ UNCHANGED <<target, version, temporary, backup, leftover, collector, fresh,
                   starts, failures, overlapped, outdone>>

(* launch_installed; a second collector ends at the instance guard.         *)
Launch(i) ==
    /\ target # 0
    /\ Advance(i, "launch", "none")
    /\ IF collector = 0
       THEN collector' = target /\ fresh' = TRUE
       ELSE UNCHANGED <<collector, fresh>>
    /\ UNCHANGED <<target, marker, version, temporary, backup, leftover, starts,
                   failures, known, overlapped, outdone>>

-----------------------------------------------------------------------------
(* Failures.                                                                *)
Fails ==
    /\ failures < MaxFailures
    /\ failures' = failures + 1

Ends(i) ==
    /\ Goto(i, "none")
    /\ Fails
    /\ UNCHANGED <<version, leftover, collector, fresh, starts, overlapped, outdone>>

(* Before the old executable is touched, or because it has gone.            *)
InstallFails(i) ==
    /\ pc[i] \in {"inspect", "copy", "install", "move"}
    /\ temporary' = [temporary EXCEPT ![i] = 0]
    /\ Ends(i)
    /\ UNCHANGED <<target, marker, backup, known>>

(* The old executable is put back, if that does not fail as well.           *)
ActivateFails(i) ==
    /\ pc[i] = "activate"
    /\ temporary' = [temporary EXCEPT ![i] = 0]
    /\ \/ /\ target' = backup[i]
          /\ backup' = [backup EXCEPT ![i] = 0]
       \/ UNCHANGED <<target, backup>>
    /\ Ends(i)
    /\ UNCHANGED <<marker, known>>

(* Removing the backup is not insisted upon; a marker that cannot be        *)
(* written, or a target that does not start, ends the installer.            *)
KeepsBackup(i) ==
    /\ Advance(i, "forget", "mark")
    /\ Fails
    /\ UNCHANGED <<target, marker, version, temporary, backup, leftover, collector,
                   fresh, starts, known, overlapped, outdone>>

LaunchFails(i) ==
    /\ pc[i] \in {"mark", "marking", "launch"}
    /\ Ends(i)
    /\ UNCHANGED <<target, marker, temporary, backup, known>>

Dies(i) ==
    /\ pc[i] # "none"
    /\ Ends(i)
    /\ UNCHANGED <<target, marker, temporary, backup, known>>

-----------------------------------------------------------------------------
(* The collector that runs from the installation.                           *)
Idle == UNCHANGED <<installer, leftover, starts, failures, overlapped>>

Autostart ==
    /\ collector = 0
    /\ target # 0
    /\ collector' = target
    /\ fresh' = TRUE
    /\ Idle
    /\ UNCHANGED <<target, marker, known, outdone>>

(* record_current_version, VERSION_MARKER_DELAY after the start, if the     *)
(* process still runs from the target.                                      *)
RecordVersion ==
    /\ fresh
    /\ fresh' = FALSE
    /\ IF target # 0 /\ (ByPath \/ target = collector)
       THEN /\ marker' = collector
            /\ known' = IF target = collector THEN collector ELSE known
            /\ outdone' = (outdone /\ target # collector)
       ELSE UNCHANGED <<marker, known, outdone>>
    /\ Idle
    /\ UNCHANGED <<target, collector>>

(* It ends, by itself or at the request of an installer.                    *)
CollectorStops ==
    /\ collector # 0
    /\ collector' = 0
    /\ fresh' = FALSE
    /\ Idle
    /\ UNCHANGED <<target, marker, known, outdone>>

(* A hand-over to a newer version that passes its probation.                *)
Update ==
    /\ collector # 0
    /\ target = collector
    /\ \E v \in Versions :
         /\ v > collector
         /\ target' = v
         /\ collector' = v
    /\ fresh' = TRUE
    /\ Idle
    /\ UNCHANGED <<marker, known, outdone>>

Next ==
    \/ \E i \in Installers :
         \/ Start(i) \/ Inspect(i) \/ Copy(i) \/ MoveAway(i) \/ Activate(i)
         \/ RemoveBackup(i) \/ BeginMark(i) \/ FinishMark(i) \/ Launch(i)
         \/ InstallFails(i) \/ ActivateFails(i) \/ KeepsBackup(i) \/ LaunchFails(i)
         \/ Dies(i)
    \/ Autostart \/ RecordVersion \/ CollectorStops \/ Update

Spec == Init /\ [][Next]_vars

-----------------------------------------------------------------------------
(* Each installer is in one of its steps, with a copy made when it needs it *)
(* and the old executable aside when the target is to be replaced.          *)
TypeOK ==
    /\ {target, marker, collector, known} \subseteq 0 .. MaxVersion
    /\ \A i \in Installers :
         /\ pc[i] \in {"none", "inspect", "copy", "move", "install", "activate",
                       "forget", "mark", "marking", "launch"}
         /\ pc[i] \in {"move", "install", "activate"} => temporary[i] = version[i]
         /\ pc[i] = "activate" => backup[i] # 0
    /\ fresh => collector # 0

(* What was installed is never gone altogether: it is at the installed path *)
(* or set aside.                                                            *)
SomeExecutable ==
    known # 0 =>
        target # 0 \/ leftover # {} \/ \E i \in Installers : backup[i] # 0

(* Whoever starts a version ends with that one or a newer one installed: a  *)
(* marker is believed only where the target is at least what it says, also  *)
(* when an installer died or failed between replacing the executable and    *)
(* marking it; but where that one put an older version beneath the marker,  *)
(* the marker stays the newer one's until the next is written.              *)
ReusedIsNewEnough ==
    [][~overlapped /\ ~outdone => \A i \in Installers :
          pc[i] = "inspect" /\ pc'[i] = "launch" => target >= version[i]]_vars
=============================================================================

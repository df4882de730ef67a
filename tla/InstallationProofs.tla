------------------------- MODULE InstallationProofs -------------------------
(***************************************************************************)
(* Safety of the stable installation, for any number of installers,        *)
(* versions, starts and failures.                                          *)
(*                                                                         *)
(* That an executable is left needs the place where it is while the target *)
(* has none: with an installer that will not discard it.  That the marker  *)
(* is to be believed wherever an installer ended needs to know that what   *)
(* it set aside, and may put back, is no older than the marker says.       *)
(***************************************************************************)
EXTENDS Installation, TLAPS

InstallSteps ==
    {"none", "inspect", "copy", "move", "install", "activate", "forget", "mark", "marking",
     "launch"}

Typed ==
    /\ {target, marker, collector, known} \subseteq 0 .. MaxVersion
    /\ pc \in [Installers -> InstallSteps]
    /\ version \in [Installers -> 0 .. MaxVersion]
    /\ temporary \in [Installers -> 0 .. MaxVersion]
    /\ backup \in [Installers -> 0 .. MaxVersion]
    /\ fresh \in BOOLEAN
    /\ overlapped \in BOOLEAN
    /\ outdone \in BOOLEAN
    /\ failures \in Nat

(* What an installer has in its step.                                       *)
InstallerInv ==
    /\ \A i \in Installers :
         /\ pc[i] # "none" => version[i] # 0
         /\ pc[i] \in {"move", "install", "activate"} => temporary[i] = version[i]
         /\ pc[i] = "activate" => backup[i] # 0
    /\ fresh => collector # 0

(* An installer that is about to discard its backup has replaced it by a    *)
(* target, and if that has gone since, then into the backup of another.     *)
PlaceInv ==
    known # 0 /\ target = 0 =>
        leftover # {} \/ \E i \in Installers : backup[i] # 0 /\ pc[i] # "forget"

(* With one installer at a time, the marker says too much only where that   *)
(* one, or one that ended before it came to the marking, put an older       *)
(* version beneath it.                                                      *)
MarkerInv ==
    ~ByPath /\ ~overlapped =>
        /\ \A i, j \in Installers : pc[i] # "none" /\ pc[j] # "none" => i = j
        /\ \A i \in Installers : pc[i] \in {"forget", "mark", "marking"} => version[i] <= target
        /\ \A i \in Installers : pc[i] = "activate" => target = 0
        /\ ~outdone =>
             /\ target # 0 => marker <= target
             /\ \A i \in Installers : pc[i] = "activate" => marker <= backup[i]

InstallationInv ==
    /\ Typed
    /\ InstallerInv
    /\ PlaceInv
    /\ MarkerInv

-----------------------------------------------------------------------------
LEMMA InstallerStep == Typed /\ InstallerInv /\ [Next]_vars => (Typed /\ InstallerInv)'
<1> SUFFICES ASSUME Typed, InstallerInv, [Next]_vars PROVE (Typed /\ InstallerInv)'
  OBVIOUS
<1> USE InstallationAssumption DEF Typed, InstallerInv, InstallSteps, installer, Advance,
           Goto, Running, Idle, Fails, Versions
<1>1. ASSUME NEW i \in Installers, Start(i) PROVE (Typed /\ InstallerInv)'
  BY <1>1 DEF Start
<1>2. ASSUME NEW i \in Installers, Inspect(i) PROVE (Typed /\ InstallerInv)'
  BY <1>2 DEF Inspect
<1>3. ASSUME NEW i \in Installers, Copy(i) PROVE (Typed /\ InstallerInv)'
  BY <1>3 DEF Copy
<1>4. ASSUME NEW i \in Installers, MoveAway(i) PROVE (Typed /\ InstallerInv)'
  BY <1>4 DEF MoveAway
<1>5. ASSUME NEW i \in Installers, Activate(i) PROVE (Typed /\ InstallerInv)'
  BY <1>5 DEF Activate
<1>6. ASSUME NEW i \in Installers, RemoveBackup(i) PROVE (Typed /\ InstallerInv)'
  BY <1>6 DEF RemoveBackup
<1>7. ASSUME NEW i \in Installers, BeginMark(i) PROVE (Typed /\ InstallerInv)'
  <2>1. 0 \in 0 .. MaxVersion
    OBVIOUS
  <2>2. Typed'
    BY <1>7, <2>1 DEF BeginMark
  <2>3. InstallerInv'
    BY <1>7 DEF BeginMark
  <2> QED
    BY <2>2, <2>3
<1>8. ASSUME NEW i \in Installers, FinishMark(i) PROVE (Typed /\ InstallerInv)'
  BY <1>8 DEF FinishMark
<1>9. ASSUME NEW i \in Installers, Launch(i) PROVE (Typed /\ InstallerInv)'
  BY <1>9 DEF Launch
<1>10. ASSUME NEW i \in Installers, InstallFails(i) PROVE (Typed /\ InstallerInv)'
  BY <1>10 DEF InstallFails, Ends
<1>11. ASSUME NEW i \in Installers, ActivateFails(i) PROVE (Typed /\ InstallerInv)'
  BY <1>11 DEF ActivateFails, Ends
<1>12. ASSUME NEW i \in Installers, KeepsBackup(i) PROVE (Typed /\ InstallerInv)'
  BY <1>12 DEF KeepsBackup
<1>13. ASSUME NEW i \in Installers, LaunchFails(i) PROVE (Typed /\ InstallerInv)'
  BY <1>13 DEF LaunchFails, Ends
<1>14. ASSUME NEW i \in Installers, Dies(i) PROVE (Typed /\ InstallerInv)'
  BY <1>14 DEF Dies, Ends
<1>15. CASE Autostart
  BY <1>15 DEF Autostart
<1>16. CASE RecordVersion
  BY <1>16 DEF RecordVersion
<1>17. CASE CollectorStops
  <2>1. 0 \in 0 .. MaxVersion
    OBVIOUS
  <2>2. Typed'
    BY <1>17, <2>1 DEF CollectorStops
  <2>3. InstallerInv'
    BY <1>17 DEF CollectorStops
  <2> QED
    BY <2>2, <2>3
<1>18. CASE Update
  BY <1>18 DEF Update
<1>19. CASE UNCHANGED vars
  BY <1>19 DEF vars
<1> QED
  BY <1>1, <1>2, <1>3, <1>4, <1>5, <1>6, <1>7, <1>8, <1>9, <1>10, <1>11, <1>12, <1>13,
     <1>14, <1>15, <1>16, <1>17, <1>18, <1>19 DEF Next

LEMMA PlaceStep == Typed /\ InstallerInv /\ PlaceInv /\ [Next]_vars => PlaceInv'
<1> SUFFICES ASSUME Typed, InstallerInv, PlaceInv, [Next]_vars PROVE PlaceInv'
  OBVIOUS
<1> USE InstallationAssumption DEF Typed, InstallerInv, InstallSteps, installer, Advance,
           Goto, Running, Idle, Fails, Versions, PlaceInv
<1>1. ASSUME NEW i \in Installers, Start(i) PROVE PlaceInv'
  BY <1>1 DEF Start
<1>2. ASSUME NEW i \in Installers, Inspect(i) PROVE PlaceInv'
  BY <1>2 DEF Inspect
<1>3. ASSUME NEW i \in Installers, Copy(i) PROVE PlaceInv'
  BY <1>3 DEF Copy
<1>4. ASSUME NEW i \in Installers, MoveAway(i) PROVE PlaceInv'
  BY <1>4 DEF MoveAway
<1>5. ASSUME NEW i \in Installers, Activate(i) PROVE PlaceInv'
  BY <1>5 DEF Activate
<1>6. ASSUME NEW i \in Installers, RemoveBackup(i) PROVE PlaceInv'
  BY <1>6 DEF RemoveBackup
<1>7. ASSUME NEW i \in Installers, BeginMark(i) PROVE PlaceInv'
  BY <1>7 DEF BeginMark
<1>8. ASSUME NEW i \in Installers, FinishMark(i) PROVE PlaceInv'
  BY <1>8 DEF FinishMark
<1>9. ASSUME NEW i \in Installers, Launch(i) PROVE PlaceInv'
  BY <1>9 DEF Launch
<1>10. ASSUME NEW i \in Installers, InstallFails(i) PROVE PlaceInv'
  BY <1>10 DEF InstallFails, Ends
<1>11. ASSUME NEW i \in Installers, ActivateFails(i) PROVE PlaceInv'
  BY <1>11 DEF ActivateFails, Ends
<1>12. ASSUME NEW i \in Installers, KeepsBackup(i) PROVE PlaceInv'
  BY <1>12 DEF KeepsBackup
<1>13. ASSUME NEW i \in Installers, LaunchFails(i) PROVE PlaceInv'
  BY <1>13 DEF LaunchFails, Ends
<1>14. ASSUME NEW i \in Installers, Dies(i) PROVE PlaceInv'
  BY <1>14 DEF Dies, Ends
<1>15. CASE Autostart
  BY <1>15 DEF Autostart
<1>16. CASE RecordVersion
  BY <1>16 DEF RecordVersion
<1>17. CASE CollectorStops
  BY <1>17 DEF CollectorStops
<1>18. CASE Update
  BY <1>18 DEF Update
<1>19. CASE UNCHANGED vars
  BY <1>19 DEF vars
<1> QED
  BY <1>1, <1>2, <1>3, <1>4, <1>5, <1>6, <1>7, <1>8, <1>9, <1>10, <1>11, <1>12, <1>13,
     <1>14, <1>15, <1>16, <1>17, <1>18, <1>19 DEF Next

LEMMA MarkerStep == Typed /\ InstallerInv /\ MarkerInv /\ [Next]_vars => MarkerInv'
<1> SUFFICES ASSUME Typed, InstallerInv, MarkerInv, [Next]_vars PROVE MarkerInv'
  OBVIOUS
<1> USE InstallationAssumption DEF Typed, InstallerInv, InstallSteps, installer, Advance,
           Goto, Running, Idle, Fails, Versions, MarkerInv
<1>1. ASSUME NEW i \in Installers, Start(i) PROVE MarkerInv'
  BY <1>1 DEF Start
<1>2. ASSUME NEW i \in Installers, Inspect(i) PROVE MarkerInv'
  BY <1>2 DEF Inspect
<1>3. ASSUME NEW i \in Installers, Copy(i) PROVE MarkerInv'
  BY <1>3 DEF Copy
<1>4. ASSUME NEW i \in Installers, MoveAway(i) PROVE MarkerInv'
  BY <1>4 DEF MoveAway
<1>5. ASSUME NEW i \in Installers, Activate(i) PROVE MarkerInv'
  <2>1. ~outdone' => marker <= version[i]
    <3>1. ~outdone' => ~(marker > version[i])
      BY <1>5, Zenon DEF Activate
    <3> QED
      BY <3>1
  <2>2. target' = version[i] /\ UNCHANGED <<marker, version, backup, overlapped>>
    BY <1>5 DEF Activate
  <2>3. ~ByPath /\ ~overlapped => \A j \in Installers : pc[j] # "none" => j = i
    BY <1>5 DEF Activate
  <2>4. pc'[i] \in {"forget", "mark"} /\ \A j \in Installers : j # i => pc'[j] = pc[j]
    BY <1>5 DEF Activate
  <2> QED
    BY <2>1, <2>2, <2>3, <2>4
<1>6. ASSUME NEW i \in Installers, RemoveBackup(i) PROVE MarkerInv'
  BY <1>6 DEF RemoveBackup
<1>7. ASSUME NEW i \in Installers, BeginMark(i) PROVE MarkerInv'
  BY <1>7 DEF BeginMark
<1>8. ASSUME NEW i \in Installers, FinishMark(i) PROVE MarkerInv'
  BY <1>8 DEF FinishMark
<1>9. ASSUME NEW i \in Installers, Launch(i) PROVE MarkerInv'
  BY <1>9 DEF Launch
<1>10. ASSUME NEW i \in Installers, InstallFails(i) PROVE MarkerInv'
  BY <1>10 DEF InstallFails, Ends
<1>11. ASSUME NEW i \in Installers, ActivateFails(i) PROVE MarkerInv'
  BY <1>11 DEF ActivateFails, Ends
<1>12. ASSUME NEW i \in Installers, KeepsBackup(i) PROVE MarkerInv'
  BY <1>12 DEF KeepsBackup
<1>13. ASSUME NEW i \in Installers, LaunchFails(i) PROVE MarkerInv'
  BY <1>13 DEF LaunchFails, Ends
<1>14. ASSUME NEW i \in Installers, Dies(i) PROVE MarkerInv'
  BY <1>14 DEF Dies, Ends
<1>15. CASE Autostart
  BY <1>15 DEF Autostart
<1>16. CASE RecordVersion
  <2>1. UNCHANGED <<target, installer, overlapped>>
    BY <1>16 DEF RecordVersion
  <2>2. CASE UNCHANGED <<marker, outdone>>
    BY <2>1, <2>2
  <2>3. CASE target # 0 /\ (~ByPath => marker' = target)
    BY <2>1, <2>3
  <2> QED
    BY <1>16, <2>2, <2>3 DEF RecordVersion
<1>17. CASE CollectorStops
  BY <1>17 DEF CollectorStops
<1>18. CASE Update
  BY <1>18 DEF Update
<1>19. CASE UNCHANGED vars
  BY <1>19 DEF vars
<1> QED
  BY <1>1, <1>2, <1>3, <1>4, <1>5, <1>6, <1>7, <1>8, <1>9, <1>10, <1>11, <1>12, <1>13,
     <1>14, <1>15, <1>16, <1>17, <1>18, <1>19 DEF Next

LEMMA InstallationInit == Init => InstallationInv
<1> SUFFICES ASSUME Init PROVE InstallationInv
  OBVIOUS
<1> USE InstallationAssumption DEF Init, Typed, InstallerInv, PlaceInv, MarkerInv, InstallSteps
<1>1. Typed
  <2>1. 0 \in 0 .. MaxVersion /\ 0 \in Nat
    OBVIOUS
  <2>2. {target, marker, collector, known} \subseteq 0 .. MaxVersion
    BY <2>1
  <2> QED
    BY <2>1, <2>2
<1>2. InstallerInv /\ PlaceInv
  OBVIOUS
<1>3. MarkerInv
  OBVIOUS
<1> QED
  BY <1>1, <1>2, <1>3 DEF InstallationInv

LEMMA InstallationStep == InstallationInv /\ [Next]_vars => InstallationInv'
  BY InstallerStep, PlaceStep, MarkerStep DEF InstallationInv

LEMMA InstallationInvariant == Spec => []InstallationInv
  BY InstallationInit, InstallationStep, PTL DEF Spec

-----------------------------------------------------------------------------
(* Each installer has in its step what the step uses.                       *)
THEOREM InstallationTypes == Spec => []TypeOK
<1>1. InstallationInv => TypeOK
  BY DEF InstallationInv, TypeOK, Typed, InstallerInv, InstallSteps
<1> QED
  BY <1>1, InstallationInvariant, PTL

(* An executable that was installed is at the installed path or set aside,  *)
(* wherever installers meet, fail or die.                                   *)
THEOREM InstallationKeepsExecutable == Spec => []SomeExecutable
<1>1. InstallationInv => SomeExecutable
  BY DEF InstallationInv, SomeExecutable, PlaceInv
<1> QED
  BY <1>1, InstallationInvariant, PTL

(* An installation that is reused is of the starter's version or a newer    *)
(* one, where a process sees that its executable has been moved: wherever   *)
(* installers that do not overlap fail or die, unless one put an older      *)
(* version beneath a newer one's marker and did not come to mark it.        *)
THEOREM InstallationReusesNewEnough == ~ByPath /\ Spec => ReusedIsNewEnough
<1> SUFFICES ASSUME ~ByPath PROVE Spec => ReusedIsNewEnough
  OBVIOUS
<1> DEFINE Reused ==
      ~overlapped /\ ~outdone => \A i \in Installers :
          pc[i] = "inspect" /\ pc'[i] = "launch" => target >= version[i]
<1>1. InstallationInv /\ [Next]_vars => Reused
  <2> SUFFICES ASSUME InstallationInv, [Next]_vars, ~overlapped, ~outdone,
                      NEW i \in Installers, pc[i] = "inspect", pc'[i] = "launch"
               PROVE  target >= version[i]
    OBVIOUS
  <2> USE DEF InstallationInv, Typed
  <2>1. Inspect(i)
    <3>1. PICK j \in Installers :
             \/ Start(j) \/ Inspect(j) \/ Copy(j) \/ MoveAway(j) \/ Activate(j)
             \/ RemoveBackup(j) \/ BeginMark(j) \/ FinishMark(j) \/ Launch(j)
             \/ InstallFails(j) \/ ActivateFails(j) \/ KeepsBackup(j) \/ LaunchFails(j)
             \/ Dies(j)
      BY DEF Next, vars, installer, Autostart, RecordVersion, CollectorStops, Update, Idle
    <3>2. j = i
      BY <3>1 DEF Start, Inspect, Copy, MoveAway, Activate, RemoveBackup, BeginMark, FinishMark,
                  Launch, InstallFails, ActivateFails, KeepsBackup, LaunchFails, Dies, Ends,
                  Advance, Goto
    <3> QED
      BY <3>1, <3>2 DEF Start, Copy, MoveAway, Activate, RemoveBackup, BeginMark, FinishMark,
                  Launch, InstallFails, ActivateFails, KeepsBackup, LaunchFails, Dies, Ends,
                  Advance, Goto
  <2>2. marker >= version[i]
    BY <2>1 DEF Inspect, Advance, Goto
  <2>3. version[i] # 0 /\ marker <= target
    BY <2>1, <2>2 DEF MarkerInv, InstallerInv, Inspect, Advance, Goto
  <2> QED
    BY <2>2, <2>3, InstallationAssumption
<1> QED
  BY <1>1, InstallationInvariant, PTL DEF Spec, ReusedIsNewEnough
=============================================================================

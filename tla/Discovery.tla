------------------------------ MODULE Discovery ------------------------------
(***************************************************************************)
(* Where the game's log is: what an inspection of the running processes    *)
(* shows (src/cristalix/process.rs) and which log is chosen from that, from *)
(* the user's preference and from the places that are known               *)
(* (src/cristalix/log_path.rs).                                            *)
(*                                                                         *)
(* A place is a root of an installation of the game with the log under it. *)
(* Places are numbers in the order of their paths.  A location is what an  *)
(* argument, the executable or the working directory of a process names: a *)
(* place, or None, and whether it lies in the game's own directory there.  *)
(***************************************************************************)
EXTENDS Naturals, Sequences, FiniteSetsExt

CONSTANTS
    Places,        \* the roots a log can be under
    KnownPlaces,   \* the roots that are looked at without evidence, in order
    Programs,      \* the processes there may be
    NameOf,        \* the name of each: "cristalix", "java" or "other"
    ParentOf,      \* the process that started it
    LocationsOf,   \* the locations that can be read of it
    MaxParentDepth,
    None

ASSUME DiscoveryAssumption ==
    /\ Places \subseteq Nat
    /\ KnownPlaces \in Seq(Places)
    /\ NameOf \in [Programs -> {"cristalix", "java", "other"}]
    /\ ParentOf \in [Programs -> Programs \union {None}]
    /\ LocationsOf \in [Programs -> SUBSET [place : Places \union {None}, game : BOOLEAN]]
    /\ MaxParentDepth \in Nat
    /\ None \notin Places
    /\ None \notin Programs

-----------------------------------------------------------------------------
(* inspect: a table is the set of the processes that run.                   *)
Launchers(table) == {p \in table : NameOf[p] = "cristalix"}

IsJava(p) == NameOf[p] = "java"

(* The process n steps up from p; a parent may have ended long ago.         *)
Ancestor(p, table) ==
    LET up[n \in 0 .. MaxParentDepth] ==
            IF n = 0 THEN p
            ELSE IF up[n - 1] \in table THEN ParentOf[up[n - 1]] ELSE None
    IN  up

DescendsFromLauncher(p, table) ==
    \E n \in 1 .. MaxParentDepth : Ancestor(p, table)[n] \in Launchers(table)

ReferencesGame(location) == location.place # None /\ location.game

Matches(p, table) ==
    \/ \E location \in LocationsOf[p] : ReferencesGame(location)
    \/ IsJava(p) /\ DescendsFromLauncher(p, table)

(* Every location of a process that matches is a candidate, those outside   *)
(* the game's own directory too.                                            *)
CandidatesOf(p) == {location.place : location \in LocationsOf[p]} \ {None}

Inspect(table) ==
    LET matching == {p \in table : Matches(p, table)}
    IN  [running    |-> matching # {},
         candidates |-> UNION {CandidatesOf(p) : p \in matching},
         java       |-> \E p \in table : IsJava(p)]

Snapshots == {Inspect(table) : table \in SUBSET Programs}

-----------------------------------------------------------------------------
(* Mutant of Discover: the known places come before the processes' ones.    *)
DiscoverKnownFirst(preference, candidates, logs) ==
    LET known == {i \in DOMAIN KnownPlaces : KnownPlaces[i] \in logs}
    IN  IF preference \in logs THEN preference
        ELSE IF known # {} THEN KnownPlaces[Min(known)]
        ELSE IF candidates \intersect logs # {} THEN Min(candidates \intersect logs)
        ELSE None

(* discover_latest_log.  The cached path it takes as well is forgotten with *)
(* every tailer, and is none whenever a log is looked for.                  *)
Discover(preference, candidates, logs) ==
    LET known == {i \in DOMAIN KnownPlaces : KnownPlaces[i] \in logs}
    IN  IF preference \in logs THEN preference
        ELSE IF candidates \intersect logs # {} THEN Min(candidates \intersect logs)
        ELSE IF known # {} THEN KnownPlaces[Min(known)]
        ELSE None
=============================================================================

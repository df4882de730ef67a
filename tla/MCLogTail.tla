------------------------------ MODULE MCLogTail ------------------------------
(***************************************************************************)
(* The log tailer of module LogTail with two installations of the game: at *)
(* place 2, where its log is known to be, and at place 1, which only a     *)
(* process can show.                                                       *)
(***************************************************************************)
EXTENDS LogTail

MCPlaces == {1, 2}

MCKnownPlaces == <<2>>

MCPrograms == {"launcher", "client", "helper", "custom", "editor"}

(* The client and its helper are started by the launcher and by a shell of  *)
(* it; the custom client has no launcher; the editor runs on Java too.      *)
MCNameOf ==
    [p \in MCPrograms |->
        CASE p = "launcher" -> "cristalix"
          [] p = "helper"   -> "other"
          [] OTHER          -> "java"]

MCParentOf ==
    [p \in MCPrograms |->
        CASE p = "helper" -> "launcher"
          [] p = "client" -> "helper"
          [] OTHER        -> None]

MCLocationsOf ==
    [p \in MCPrograms |->
        CASE p = "launcher" -> {[place |-> 2, game |-> FALSE]}
          [] p = "client"   -> {[place |-> None, game |-> TRUE]}
          [] p = "custom"   -> {[place |-> 1, game |-> TRUE]}
          [] OTHER          -> {}]
=============================================================================

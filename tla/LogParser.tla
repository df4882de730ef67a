------------------------------ MODULE LogParser ------------------------------
(***************************************************************************)
(* LogParser of src/parser/mod.rs: what one line of the game's log does to *)
(* the mode, and whether it is an event.  A line is its kind:              *)
(*                                                                         *)
(*   "reborn", "lobby"  Loading mod MasterSwordReborn, ... Lobby           *)
(*   "unload"           Unloading mod MasterSword...                       *)
(*   "event"            a drop, a booster, a global event, a raid with its *)
(*                      locations                                          *)
(*   "raid_open"        a raid that opens without naming its locations     *)
(*   "raid_close"       the end of a raid                                  *)
(*   "other"            everything else, what players say included         *)
(*                                                                         *)
(* pending_raid is left out: nothing adds a location to it, and flushing   *)
(* an empty one yields no event.                                           *)
(***************************************************************************)
EXTENDS SequencesExt

Modes == {"unknown", "lobby", "master_sword", "other"}

ModeKinds == {"reborn", "lobby", "unload"}

Activity == {"event", "raid_open", "raid_close"}

Kinds == ModeKinds \union Activity \union {"other"}

Accepts(mode) == mode \in {"unknown", "master_sword"}

(* update_mode                                                              *)
UpdateMode(mode, kind) ==
    CASE kind = "reborn" -> "master_sword"
      [] kind = "lobby"  -> "lobby"
      [] kind = "unload" -> "other"
      [] OTHER           -> mode

(* consume_context_line, for a line that was there before                   *)
ContextMode(mode, kind) ==
    IF kind \in Activity THEN "master_sword" ELSE UpdateMode(mode, kind)

(* consume_line, for a line that has just been written                      *)
LiveMode(mode, kind) ==
    IF kind \in {"event", "raid_open"} /\ Accepts(mode)
    THEN "master_sword"
    ELSE UpdateMode(mode, kind)

(* Mutant of IsEvent: the mode has to be known.                             *)
IsEventWhenSure(mode, kind) == kind = "event" /\ mode = "master_sword"

IsEvent(mode, kind) == kind = "event" /\ Accepts(mode)
=============================================================================

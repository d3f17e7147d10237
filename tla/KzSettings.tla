------------------------------ MODULE KzSettings ------------------------------
(***************************************************************************)
(* The settings and their profiles (src/src/settings.c), the page of       *)
(* src/src/kz_settings_menu.c that saves and loads them, the cheats        *)
(* (src/src/kz_cheats_menu.c) and what kz_main of src/src/kz.c does with   *)
(* them: the emergency reset and the speed of time.                        *)
(*                                                                         *)
(* Of the settings the model keeps the watches, the cheats and the turbo   *)
(* type.  The watches are brought into the settings only to save them: the *)
(* list in use is kz.watches.                                              *)
(***************************************************************************)
EXTENDS Integers, Sequences

CONSTANTS SETTINGS_MAX,   \* profiles
          WATCH_SLOTS,    \* WATCHES_MAX
          WatchLabels,    \* watches that can be told apart
          Cheats,         \* those that are modelled, and "turbo"
          CodeLength,     \* buttons of the emergency code
          GameSpeeds,     \* speeds of time the game sets
          FlashFound,     \* what the flash can hold when the program starts
          NO_SPEED        \* 0x80000000

ASSUME SettingsAssumption ==
    /\ SETTINGS_MAX \in Nat \ {0} /\ WATCH_SLOTS \in Nat \ {0}
    /\ NO_SPEED \notin GameSpeeds /\ 0 \in GameSpeeds
    /\ {"freeze", "turbo"} \subseteq Cheats /\ CodeLength \in Nat \ {0}
    /\ WatchLabels # {}

(* The version and the magic are on a profile only if kz wrote it.         *)
SettingsData == [watch_cnt : 0..WATCH_SLOTS, watches : [1..WATCH_SLOTS -> WatchLabels],
                 cheats : SUBSET Cheats, turbo_type : {"TOGGLE", "HOLD"}]
ASSUME FlashAssumption ==
    \A found \in FlashFound :
        /\ {found.version, found.valid} \subseteq BOOLEAN
        /\ found.version /\ found.valid => found.data \in SettingsData

VARIABLES
    settings_ready,     \* kz_main runs: the first profile has been loaded
    settings_info,      \* the settings, also as they lie in the flash
    flash,              \* the profiles
    settings_profile,
    kz_watches,         \* kz.watches
    timespeed, prev_timespeed,
    restriction,        \* z2_restriction_table allows every item
    turbo_command,      \* kz_commands[KZ_CMD_TURBO].type
    reset_pos,          \* buttons of the emergency code that were pressed
    last_saved          \* the settings and watches last saved to a profile

SettingsVars == <<settings_ready, settings_info, flash, settings_profile, kz_watches, timespeed,
                  prev_timespeed, restriction, turbo_command, reset_pos, last_saved>>

ProfilesOf == 0..(SETTINGS_MAX - 1)

(* A label that no watch needs any more stays where it was saved.          *)
WatchesIn(data) == SubSeq(data.watches, 1, data.watch_cnt)

-----------------------------------------------------------------------------
DefaultSettings(data) ==
    [data EXCEPT !.watch_cnt = 0, !.cheats = {}, !.turbo_type = "TOGGLE"]

CopiedSlip(data, list) ==
    [data EXCEPT !.watches = [i \in 1..WATCH_SLOTS |-> IF i <= Len(list) THEN list[i] ELSE @[i]]]
(* The watches of the list, in front of what was saved before.             *)
Copied(data, list) ==
    [data EXCEPT !.watch_cnt = Len(list),
                 !.watches = [i \in 1..WATCH_SLOTS |-> IF i <= Len(list) THEN list[i] ELSE @[i]]]

(* All profiles are read, one is replaced and all are written back.        *)
Written(data, list, profile) ==
    [flash EXCEPT ![profile] = [valid |-> TRUE, version |-> TRUE, data |-> Copied(data, list)]]

SavedNow(data, list) == [cheats |-> data.cheats, turbo_type |-> data.turbo_type, list |-> list]

save_settings_to_flashram(profile) ==
    /\ settings_info' = Copied(settings_info, kz_watches)
    /\ flash' = Written(settings_info, kz_watches, profile)
    /\ last_saved' = [last_saved EXCEPT ![profile] = SavedNow(settings_info, kz_watches)]

(* Pushed on an empty list: the menu's watches are cleared first.          *)
kz_apply_settings(data) == kz_watches' = WatchesIn(data)

Restored == IF prev_timespeed = NO_SPEED THEN 0 ELSE prev_timespeed

load_settings_from_flashram(profile) ==
    LET stored == flash[profile]
        thaws  == "freeze" \in settings_info.cheats /\ "freeze" \notin stored.data.cheats
    IN \/ /\ stored.version /\ stored.valid
          /\ settings_info' = stored.data
          /\ timespeed' = (IF thaws THEN Restored ELSE timespeed)
          /\ prev_timespeed' = (IF thaws THEN NO_SPEED ELSE prev_timespeed)
          /\ kz_apply_settings(stored.data)
          /\ UNCHANGED <<flash, last_saved>>
       \/ /\ stored.version /\ ~stored.valid
          /\ settings_info' = DefaultSettings(settings_info)
          /\ kz_apply_settings(DefaultSettings(settings_info))
          /\ UNCHANGED <<flash, last_saved, timespeed, prev_timespeed>>
       \/ /\ ~stored.version
          /\ LET defaults == Copied(DefaultSettings(settings_info), <<>>) IN
             /\ settings_info' = defaults
             /\ flash' = Written(defaults, <<>>, profile)
             /\ last_saved' = [last_saved EXCEPT ![profile] = SavedNow(defaults, <<>>)]
             /\ kz_apply_settings(defaults)
          /\ UNCHANGED <<timespeed, prev_timespeed>>

NoSettings == [watch_cnt |-> 0, watches |-> [i \in 1..WATCH_SLOTS |-> CHOOSE w \in WatchLabels : TRUE],
               cheats |-> {}, turbo_type |-> "TOGGLE"]

SettingsInit ==
    /\ settings_ready = FALSE
    /\ settings_info = NoSettings /\ kz_watches = <<>> /\ settings_profile = 0
    /\ flash \in [ProfilesOf -> FlashFound]
    /\ timespeed \in GameSpeeds /\ prev_timespeed = NO_SPEED
    /\ restriction = FALSE /\ turbo_command = "TOGGLE" /\ reset_pos = 0
    /\ last_saved = [p \in ProfilesOf |->
           SavedNow(flash[p].data, WatchesIn(flash[p].data))]

-----------------------------------------------------------------------------
(* At the start the first profile is loaded, with whatever the flash holds.*)
kz_init ==
    /\ ~settings_ready /\ settings_ready' = TRUE
    /\ load_settings_from_flashram(0)
    /\ UNCHANGED <<settings_profile, restriction, turbo_command, reset_pos>>

(* The settings page.                                                      *)
profile_dec == settings_profile' = (settings_profile + SETTINGS_MAX - 1) % SETTINGS_MAX
profile_inc == settings_profile' = (settings_profile + 1) % SETTINGS_MAX

ProfileSelected ==
    /\ profile_dec \/ profile_inc
    /\ UNCHANGED <<settings_info, flash, kz_watches, timespeed, prev_timespeed, restriction,
                   turbo_command, reset_pos, last_saved>>

save_profile_onactivate ==
    /\ save_settings_to_flashram(settings_profile)
    /\ UNCHANGED <<settings_profile, kz_watches, timespeed, prev_timespeed, restriction,
                   turbo_command, reset_pos>>

load_profile_onactivate ==
    /\ load_settings_from_flashram(settings_profile)
    /\ UNCHANGED <<settings_profile, restriction, turbo_command, reset_pos>>

default_settings_onactivate ==
    /\ settings_info' = DefaultSettings(settings_info)
    /\ kz_apply_settings(DefaultSettings(settings_info))
    /\ UNCHANGED <<flash, settings_profile, timespeed, prev_timespeed, restriction, turbo_command,
                   reset_pos, last_saved>>

(* Only the checkbox changes also the type of the command.                 *)
settings_switch_event ==
    /\ LET type == IF settings_info.turbo_type = "HOLD" THEN "TOGGLE" ELSE "HOLD" IN
       /\ settings_info' = [settings_info EXCEPT !.turbo_type = type]
       /\ turbo_command' = type
    /\ UNCHANGED <<flash, settings_profile, kz_watches, timespeed, prev_timespeed, restriction,
                   reset_pos, last_saved>>

(* A held turbo only sets link's velocity.                                 *)
command_turbo ==
    /\ settings_info.turbo_type = "TOGGLE"
    /\ settings_info' = [settings_info EXCEPT !.cheats =
           IF "turbo" \in @ THEN @ \ {"turbo"} ELSE @ \cup {"turbo"}]
    /\ UNCHANGED <<flash, settings_profile, kz_watches, timespeed, prev_timespeed, restriction,
                   turbo_command, reset_pos, last_saved>>

cheat_event ==
    \E cheat \in Cheats \ {"turbo"} :
        LET on == cheat \notin settings_info.cheats IN
        /\ settings_info' = [settings_info EXCEPT !.cheats =
               IF on THEN @ \cup {cheat} ELSE @ \ {cheat}]
        /\ restriction' = (IF cheat = "restriction" THEN on ELSE restriction)
        /\ IF cheat = "freeze"
           THEN /\ prev_timespeed' = (IF on THEN timespeed ELSE NO_SPEED)
                /\ timespeed' = (IF on THEN timespeed ELSE Restored)
           ELSE UNCHANGED <<prev_timespeed, timespeed>>
        /\ UNCHANGED <<flash, settings_profile, kz_watches, turbo_command, reset_pos, last_saved>>

(* The watches menu.                                                       *)
WatchesChange ==
    /\ \/ /\ Len(kz_watches) < WATCH_SLOTS
          /\ \E watch \in WatchLabels : kz_watches' = Append(kz_watches, watch)
       \/ /\ kz_watches # <<>> /\ kz_watches' = Tail(kz_watches)
    /\ UNCHANGED <<settings_info, flash, settings_profile, timespeed, prev_timespeed, restriction,
                   turbo_command, reset_pos, last_saved>>

(* A frame: a press of the next button of the code, of another one, or none*)
EmergencyCode ==
    /\ \/ /\ reset_pos < CodeLength - 1 /\ reset_pos' = reset_pos + 1
          /\ UNCHANGED <<settings_info, kz_watches>>
       \/ /\ reset_pos > 0 /\ reset_pos' = 0
          /\ UNCHANGED <<settings_info, kz_watches>>
       \/ /\ reset_pos = CodeLength - 1 /\ reset_pos' = 0
          /\ settings_info' = DefaultSettings(settings_info)
          /\ kz_apply_settings(DefaultSettings(settings_info))
    /\ UNCHANGED <<flash, settings_profile, timespeed, prev_timespeed, restriction, turbo_command,
                   last_saved>>

(* -5: as fast backwards as the game lets time go on.                      *)
Frozen == -5
ActivateCheats ==
    /\ "freeze" \in settings_info.cheats /\ timespeed # Frozen
    /\ timespeed' = Frozen
    /\ UNCHANGED <<settings_info, flash, settings_profile, kz_watches, prev_timespeed, restriction,
                   turbo_command, reset_pos, last_saved>>

(* A song.                                                                 *)
GameSetsSpeed ==
    /\ timespeed' \in GameSpeeds \ {timespeed}
    /\ UNCHANGED <<settings_info, flash, settings_profile, kz_watches, prev_timespeed, restriction,
                   turbo_command, reset_pos, last_saved>>

(* The console is switched off and on; what is in the flash stays.         *)
SwitchedOff ==
    /\ settings_ready /\ settings_ready' = FALSE
    /\ settings_info' = NoSettings /\ kz_watches' = <<>> /\ settings_profile' = 0
    /\ prev_timespeed' = NO_SPEED /\ timespeed' \in GameSpeeds
    /\ restriction' = FALSE /\ turbo_command' = "TOGGLE" /\ reset_pos' = 0
    /\ UNCHANGED <<flash, last_saved>>

Running ==
    /\ settings_ready /\ UNCHANGED settings_ready
    /\ \/ ProfileSelected \/ save_profile_onactivate \/ load_profile_onactivate
       \/ default_settings_onactivate \/ settings_switch_event \/ command_turbo \/ cheat_event
       \/ WatchesChange \/ EmergencyCode \/ ActivateCheats \/ GameSetsSpeed

SettingsNext == kz_init \/ Running \/ SwitchedOff
SettingsSpec == SettingsInit /\ [][SettingsNext]_SettingsVars

-----------------------------------------------------------------------------
(* A profile that is loaded, in this session or after the console was off, *)
(* brings back the settings and exactly the watches of the moment it was   *)
(* saved, whatever other profiles, defaults and watches came in between    *)
(* and also when it was rewritten with the defaults for its version.       *)
ProfileRestored ==
    [][LET profile == settings_profile
           loads == kz_init \/ (settings_ready /\ load_profile_onactivate)
       IN loads /\ flash[profile].version /\ flash[profile].valid =>
              SavedNow(settings_info', kz_watches') = last_saved[profile]]_SettingsVars
=============================================================================

--------------------------- MODULE FirmwareUpdate ---------------------------
(***************************************************************************)
(* Firmware update, start-up and rollback: ota_manager's download to the   *)
(* inactive slot, the two installers that use it (the console's OTA_UPDATE *)
(* in serial_gateway and the datagram handler of ota_announce), and        *)
(* app_main, which brings the components up, confirms a new image after    *)
(* the last of them and asks for a rollback when a critical one fails.     *)
(*                                                                         *)
(* The flash, the OTA data and the boot loader are ESP-IDF's and modelled  *)
(* from how the code uses them.  An image is its build number, whether it  *)
(* starts (sound) and whether its bytes are those of a manifest's SHA-256  *)
(* (digested).                                                             *)
(***************************************************************************)
EXTENDS Naturals, FiniteSets, Sequences

CONSTANTS MaxBuild      \* builds are 1 (the factory image) .. MaxBuild

ASSUME MaxBuildAssumption == MaxBuild \in Nat \ {0}

Slots   == {"ota_0", "ota_1"}
Clients == {"gateway", "announce"}
Nobody  == "nobody"

Image    == [build : 1..MaxBuild, sound : BOOLEAN, digested : BOOLEAN]
Blank    == [build |-> 0, sound |-> FALSE, digested |-> FALSE]
TestMode == {"NONE", "NO_CONFIRM_ONCE", "SELF_TEST_FAIL_ONCE"}

VARIABLES
    flash,     \* the image in each slot
    otadata,   \* esp_ota_img_states_t of each slot
    selected,  \* the slot the OTA data names
    running,   \* the slot of the running image
    boot_phase, \* "starting", "running", "diagnostic" or "halted"
    stage,     \* the start-up stage app_main is at
    up,        \* the components that are initialised
    pending_verify, \* what app_main read of the running image when it began
    testMode,  \* rb_test in NVS
    op_lock,   \* who holds ota_manager's op_lock
    session    \* what each installer is doing

updateVars == <<flash, otadata, selected, running, boot_phase, stage, up, pending_verify,
                testMode, op_lock, session>>
storage == <<flash, otadata, selected, testMode>>
startup == <<running, boot_phase, stage, up, pending_verify>>

other(s) == CHOOSE t \in Slots : t # s
unconfirmed == otadata[running] = "pending"

Idle == [at |-> "idle", image |-> Blank]
Session == [at : {"idle", "waiting", "checked", "writing", "verified", "prepared", "selected"},
            image : Image \cup {Blank}]

-----------------------------------------------------------------------------
(* The boot loader and esp_ota_ops, external.                              *)

Usable(f, o, s) == f[s] # Blank /\ o[s] \notin {"invalid", "aborted"}

\* An image that is still unconfirmed at a reset is given up.
Aborted(o) == [s \in Slots |-> IF o[s] = "pending" THEN "aborted" ELSE o[s]]

\* The selected slot if it may be started, else the other one.
BootSlot(f, o, s) == IF Usable(f, o, s) THEN s ELSE other(s)

\* The reset: the boot loader marks a new image pending and starts it.  A boot
\* state that app_main cannot read counts as confirmed.
Boot(f, o, sel) ==
    LET kept == Aborted(o)
    IN  /\ flash' = f
        /\ otadata' = [kept EXCEPT ![sel] = IF @ = "new" THEN "pending" ELSE @]
        /\ selected' = sel
        /\ running' = BootSlot(f, kept, sel)
        /\ boot_phase' = "starting" /\ stage' = 1 /\ up' = {}
        /\ pending_verify' \in {FALSE, otadata'[running'] = "pending"}
        /\ op_lock' = Nobody
        /\ session' = [c \in Clients |-> Idle]

\* esp_ota_check_rollback_is_possible
rollback_is_possible == Usable(flash, otadata, other(running))

\* esp_ota_mark_app_invalid_rollback_and_reboot, when it does not return
InvalidateAndReboot ==
    /\ rollback_is_possible
    /\ Boot(flash, [otadata EXCEPT ![running] = "invalid"], other(running))

\* esp_ota_begin refuses to erase a slot while the running image is unconfirmed.
ota_begin_allowed == ~unconfirmed

-----------------------------------------------------------------------------
(* app_main.                                                               *)

Stages == <<"nvs", "config_manager", "wifi_manager", "ota_manager", "robot_composition",
            "robot_control", "boot_stop", "composition_start", "ibus_receiver",
            "robot_safety", "control_plane", "ota_announce", "serial_gateway",
            "maintenance_lan", "confirm">>

\* A failure of these is logged and the robot starts without them.
Optional == {"wifi_manager", "ota_manager", "boot_stop", "ibus_receiver", "ota_announce",
             "maintenance_lan"}

\* The stages whose component app_main has to take down again.
Owned == {"config_manager", "wifi_manager", "ota_manager", "robot_composition",
          "robot_control", "ibus_receiver", "robot_safety", "control_plane",
          "ota_announce", "serial_gateway"}

\* The deinit calls that follow the failure of each critical stage.
taken_down(name) ==
    LET network == {"ota_manager", "wifi_manager", "config_manager"}
        drives  == network \cup {"robot_composition"}
        inputs  == drives \cup {"robot_control", "ibus_receiver"}
    IN  CASE name \in {"nvs", "config_manager"} -> {}
          [] name = "robot_composition"         -> network
          [] name = "robot_control"             -> drives
          [] name = "composition_start"         -> drives \cup {"robot_control"}
          [] name = "robot_safety"              -> inputs \cup {"robot_safety"}
          [] name = "control_plane"             -> inputs \cup {"robot_safety", "control_plane"}
          [] name = "serial_gateway"            -> Owned

\* ota_manager_init needs the Wi-Fi manager; ota_announce_init both.
stage_possible(name) ==
    CASE name = "ota_manager"  -> "wifi_manager" \in up
      [] name = "ota_announce" -> {"wifi_manager", "ota_manager"} \subseteq up
      [] OTHER                 -> TRUE

StartupInit ==
    /\ running = "ota_0" /\ boot_phase = "starting" /\ stage = 1 /\ up = {}
    /\ pending_verify = FALSE

AtStage(name) == boot_phase = "starting" /\ Stages[stage] = name

\* An image that does not start fails at some critical stage, the last at the latest.
StagePasses ==
    /\ boot_phase = "starting" /\ Stages[stage] # "confirm"
    /\ stage_possible(Stages[stage])
    /\ Stages[stage] = "serial_gateway" => flash[running].sound
    /\ stage' = stage + 1
    /\ up' = up \cup ({Stages[stage]} \cap (Owned \cup {"maintenance_lan"}))
    /\ UNCHANGED <<storage, running, boot_phase, pending_verify, op_lock, session>>

\* ESP_LOGW and on without the component
OptionalStageFails ==
    /\ boot_phase = "starting" /\ Stages[stage] \in Optional
    /\ stage' = stage + 1
    /\ UNCHANGED <<storage, running, boot_phase, up, pending_verify, op_lock, session>>

\* handle_startup_failure: a pending image asks for the rollback, which
\* reboots; otherwise app_main takes down what it built and returns.
CriticalStageFails ==
    /\ boot_phase = "starting" /\ Stages[stage] \notin Optional \cup {"confirm"}
    /\ IF pending_verify /\ rollback_is_possible
       THEN InvalidateAndReboot /\ UNCHANGED testMode
       ELSE /\ boot_phase' = "halted"
            /\ up' = up \ taken_down(Stages[stage])
            /\ UNCHANGED <<storage, running, stage, pending_verify, op_lock, session>>

\* start_safe_diagnostic_gateway: a valid profile that this firmware cannot
\* compose leaves a console that only reads.
StartDiagnosticGateway ==
    /\ AtStage("robot_composition") /\ ~pending_verify
    /\ \/ boot_phase' = "diagnostic" /\ up' = (up \ {"ota_manager"}) \cup {"serial_gateway"}
       \/ boot_phase' = "halted" /\ up' = up \ {"ota_manager", "wifi_manager", "config_manager"}
    /\ UNCHANGED <<storage, running, stage, pending_verify, op_lock, session>>

\* ota_manager_consume_rollback_test_mode: read, then erase and commit.
consume_rollback_test_mode(mode) == mode = testMode /\ testMode' = "NONE"

EnterService ==
    /\ boot_phase' = "running"
    /\ UNCHANGED <<flash, selected, running, stage, up, pending_verify, op_lock, session>>

\* rollback_pending_app: only a rollback that cannot be made returns.
RollBackOrStay ==
    IF rollback_is_possible THEN InvalidateAndReboot ELSE EnterService /\ UNCHANGED otadata

\* confirm_pending_app_after_self_test
Confirm ==
    /\ AtStage("confirm")
    /\ IF ~pending_verify
       THEN EnterService /\ UNCHANGED <<otadata, testMode>>
       ELSE \/ /\ RollBackOrStay /\ UNCHANGED testMode          \* NVS failed
            \/ \E mode \in TestMode :
                 /\ consume_rollback_test_mode(mode)
                 /\ CASE mode = "NO_CONFIRM_ONCE"     -> Boot(flash, otadata, selected)
                      [] mode = "SELF_TEST_FAIL_ONCE" -> RollBackOrStay
                      [] mode = "NONE" ->
                           \/ EnterService /\ otadata' = [otadata EXCEPT ![running] = "valid"]
                           \/ RollBackOrStay                    \* mark_app_valid failed

\* Power is lost and comes back at any time.
PowerCycle ==
    /\ Boot(flash, otadata, selected)
    /\ UNCHANGED testMode

-----------------------------------------------------------------------------
(* The installers: OTA_UPDATE and OTA_DOWNLOAD_TEST of the console, and the *)
(* update and download_test actions of an announce datagram.               *)

\* The announce task starts after app_main's last stage, the console before it.
client_runs(c) ==
    /\ "ota_manager" \in up
    /\ CASE c = "gateway"  -> boot_phase \in {"starting", "running"} /\ "serial_gateway" \in up
         [] c = "announce" -> boot_phase = "running" /\ "ota_announce" \in up

Proceed(c, at, image) == session' = [session EXCEPT ![c] = [at |-> at, image |-> image]]
End(c) == session' = [session EXCEPT ![c] = Idle]

\* Wi-Fi is connected and robot_control_is_safe_for_ota holds; op_lock is awaited.
RequestDownload(c) ==
    /\ client_runs(c) /\ session[c].at = "idle"
    /\ Proceed(c, "waiting", Blank)
    /\ UNCHANGED <<storage, startup, op_lock>>

ConsoleInstalls  == RequestDownload("gateway")
AnnounceInstalls == RequestDownload("announce")

\* Mutant: the builds are not compared.
manifest_offers_older(offered) == offered.digested

\* An image that is not newer than the running one is refused.
manifest_offers(offered) == offered.digested /\ offered.build > flash[running].build

\* ota_manager_download_to_inactive: the lock, then the manifest.
CheckManifest(c) ==
    /\ session[c].at = "waiting" /\ op_lock = Nobody
    /\ \/ \E offered \in Image :
            /\ manifest_offers(offered)
            /\ op_lock' = c
            /\ Proceed(c, "checked", offered)
       \/ End(c) /\ UNCHANGED op_lock
    /\ UNCHANGED <<storage, startup>>

\* OTA_BUSY after a minute
LockTimeout(c) ==
    /\ session[c].at = "waiting" /\ op_lock # Nobody
    /\ End(c)
    /\ UNCHANGED <<storage, startup, op_lock>>

\* esp_ota_begin erases the slot that is not running.
BeginDownload(c) ==
    /\ session[c].at = "checked"
    /\ IF ota_begin_allowed
       THEN /\ flash' = [flash EXCEPT ![other(running)] = Blank]
            /\ Proceed(c, "writing", session[c].image)
            /\ UNCHANGED op_lock
       ELSE End(c) /\ op_lock' = Nobody /\ UNCHANGED flash
    /\ UNCHANGED <<otadata, selected, testMode, startup>>

\* A whole image is written within seconds at the least; the installer that
\* has verified one selects it within the time of a stop request.
installing(d) == session[d].at \in {"verified", "prepared", "selected"}
InstallIsQuick(c) == \A d \in Clients \ {c} : ~installing(d)

\* The bytes the server sent are all written.  The lock is given back
\* before the slot is selected.
\* Mutant: a download that is complete counts as verified.
digest_matches_unread(received, announced) == TRUE

digest_matches(received, announced) ==
    received = [build |-> announced.build, sound |-> announced.sound]
FinishDownload(c) ==
    /\ session[c].at = "writing" /\ InstallIsQuick(c)
    /\ \E received \in [build : 1..MaxBuild, sound : BOOLEAN] :
         LET announced == session[c].image
             good == digest_matches(received, announced)
         IN  /\ flash' = [flash EXCEPT ![other(running)] =
                    [build |-> received.build, sound |-> received.sound,
                     digested |-> received.build = announced.build
                                  /\ received.sound = announced.sound]]
             /\ IF good THEN Proceed(c, "verified", session[c].image) ELSE End(c)
    /\ op_lock' = Nobody
    /\ UNCHANGED <<otadata, selected, testMode, startup>>

\* The download breaks off: a part of an image stays behind.
AbortDownload(c) ==
    /\ session[c].at \in {"checked", "writing"}
    /\ End(c)
    /\ op_lock' = Nobody
    /\ UNCHANGED <<storage, startup>>

\* robot_control_prepare_for_ota stops the motors; a download test ends here.
Prepare(c) ==
    /\ session[c].at = "verified"
    /\ \/ Proceed(c, "prepared", session[c].image)
       \/ End(c)
    /\ UNCHANGED <<storage, startup, op_lock>>

\* esp_ota_set_boot_partition validates what the slot holds now.
SetBoot(c) ==
    /\ session[c].at = "prepared"
    /\ IF flash[other(running)] # Blank
       THEN /\ selected' = other(running)
            /\ otadata' = [otadata EXCEPT ![other(running)] = "new"]
            /\ Proceed(c, "selected", session[c].image)
       ELSE End(c) /\ UNCHANGED <<selected, otadata>>
    /\ UNCHANGED <<flash, testMode, startup, op_lock>>

\* esp_restart, 250 ms later
Restart(c) ==
    /\ session[c].at = "selected"
    /\ Boot(flash, otadata, selected)
    /\ UNCHANGED testMode

\* OTA_ROLLBACK_TEST
SetTestMode(mode) ==
    /\ "serial_gateway" \in up /\ boot_phase \in {"starting", "running"}
    /\ testMode' = mode
    /\ UNCHANGED <<flash, otadata, selected, startup, op_lock, session>>

-----------------------------------------------------------------------------
UpdateInit ==
    /\ flash = [s \in Slots |-> IF s = "ota_0"
                                THEN [build |-> 1, sound |-> TRUE, digested |-> TRUE] ELSE Blank]
    /\ otadata = [s \in Slots |-> IF s = "ota_0" THEN "valid" ELSE "undefined"]
    /\ selected = "ota_0"
    /\ testMode = "NONE"
    /\ StartupInit
    /\ op_lock = Nobody
    /\ session = [c \in Clients |-> Idle]

ClientStep(c) ==
    \/ CheckManifest(c) \/ LockTimeout(c) \/ BeginDownload(c)
    \/ FinishDownload(c) \/ AbortDownload(c)
    \/ Prepare(c) \/ SetBoot(c) \/ Restart(c)

Startup == StagePasses \/ OptionalStageFails \/ CriticalStageFails \/ Confirm

UpdateNext ==
    \/ Startup
    \/ StartDiagnosticGateway
    \/ PowerCycle
    \/ ConsoleInstalls \/ AnnounceInstalls
    \/ \E c \in Clients : ClientStep(c)
    \/ \E mode \in TestMode : SetTestMode(mode)

\* app_main runs to its end, and every wait of an installer has a timeout.
Fairness == WF_updateVars(Startup) /\ \A c \in Clients : WF_updateVars(ClientStep(c))

UpdateSpec == UpdateInit /\ [][UpdateNext]_updateVars /\ Fairness

-----------------------------------------------------------------------------
UpdateTypeOK ==
    /\ flash \in [Slots -> Image \cup {Blank}]
    /\ otadata \in [Slots -> {"undefined", "new", "pending", "valid", "invalid", "aborted"}]
    /\ selected \in Slots /\ running \in Slots
    /\ boot_phase \in {"starting", "running", "diagnostic", "halted"}
    /\ stage \in DOMAIN Stages
    /\ up \subseteq Owned \cup {"maintenance_lan"} /\ pending_verify \in BOOLEAN
    /\ testMode \in TestMode
    /\ op_lock \in Clients \cup {Nobody}
    /\ session \in [Clients -> Session]

\* Whatever two installers, resets and rollbacks do between them, the running
\* slot holds the bytes that a manifest announced by their digest, and an
\* unconfirmed image has a slot to go back to (ota_manager.c:644-837: the
\* lock is released before the slot is selected, and the other slot is the
\* image to go back to).
RunsVerifiedAndCanReturn ==
    /\ flash[running].digested
    /\ unconfirmed => rollback_is_possible

\* Only an image that came through the whole start-up is confirmed (main.c:314-342).
ConfirmedImageStarts == otadata[running] = "valid" => flash[running].sound

\* A start-up that gives up leaves no component behind, whatever optional
\* ones were there (main.c:397-791).
HaltedIsClean == boot_phase = "halted" => up \cap (Owned \ {"config_manager"}) = {}

\* The build goes down only when an image is given up (parse_manifest and
\* handle_startup_failure).
OlderOnlyByRollback ==
    [][flash'[running'].build < flash[running].build =>
         otadata'[running] \in {"invalid", "aborted"}]_updateVars

\* An update that does not start is replaced by one that does (main.c:306-312);
\* app_main leaves that to the next reset when it could not read the boot state
\* (main.c:410).
BrokenUpdateGoesBack ==
    (~flash[running].sound /\ (unconfirmed => pending_verify)) ~> flash[running].sound

\* At every instant of an installation, a start-up or a rollback there is a
\* verified image to run and one to go back to, and a failure leaves nothing half up.
UpdateIsSafe == RunsVerifiedAndCanReturn /\ ConfirmedImageStarts /\ HaltedIsClean

\* Images follow each other upwards, except that one that does not start goes.
OnlyGoodUpdatesStay == OlderOnlyByRollback /\ BrokenUpdateGoesBack
=============================================================================

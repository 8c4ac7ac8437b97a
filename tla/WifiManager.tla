----------------------------- MODULE WifiManager -----------------------------
(***************************************************************************)
(* wifi_manager: the station's state, its reconnect supervisor, the event  *)
(* handlers, the connection timeout and the console commands that change   *)
(* the credentials in config_manager.  The radio (the driver of ESP-IDF)   *)
(* is external: it joins, drops and posts its events in order.             *)
(*                                                                         *)
(* The lock is waited for 100 ms.  An event handler or a timeout task that *)
(* does not get it drops what it came for; the other callers return an     *)
(* error and have changed nothing, and are taken to get it.  They read the *)
(* stored name just before the lock, here with it.                         *)
(***************************************************************************)
EXTENDS Naturals, Sequences

CONSTANTS Networks,      \* the networks an operator configures
          MaxRetries,    \* WIFI_MANAGER_MAX_RETRIES
          MaxEvents,     \* bound on the radio's undelivered events
          MaxCommands    \* bound on the console's commands

ASSUME WifiAssumption == /\ "" \notin Networks /\ MaxRetries \in Nat
                         /\ MaxEvents \in Nat \ {0} /\ MaxCommands \in Nat

Callers == {"supervisor", "console"}
None    == ""

VARIABLES
    ssid, password,     \* the stored credentials: whose name, whose password
    wifi_state,         \* wifi_manager_state_t
    named,              \* handle->ssid is not empty
    manual_disconnect, auto_connect_paused, retry_count,
    timer,              \* a timeout task of the current generation sleeps
    retry_ready,        \* the supervisor's back-off is over
    call,               \* where each caller of the manager is
    loaded,             \* the credentials that caller has read
    reconnect,          \* the event handler is about to call esp_wifi_connect
    dropping,           \* the timeout task is about to call esp_wifi_disconnect
    link,               \* "down", "joining" or "up"
    station,            \* the credentials the radio uses
    events,             \* what it has posted
    ap,                 \* the access points are there
    commands,           \* console commands given
    missed              \* history: the last event or timeout was dropped

stored  == <<ssid, password>>
manager == <<wifi_state, named, manual_disconnect, auto_connect_paused, retry_count, timer>>
radio   == <<link, station, events>>
wifiVars == <<stored, manager, retry_ready, call, loaded, reconnect, dropping, radio, ap, commands,
              missed>>

NoCredentials == [ssid |-> None, password |-> None]
Credentials == [ssid : Networks \cup {None}, password : Networks \cup {None}]
State == {"UNCONFIGURED", "DISCONNECTED", "CONNECTING", "CONNECTED", "FAILED"}

at(c, where) == call[c] = where
Go(c, where) == call' = [call EXCEPT ![c] = where]

-----------------------------------------------------------------------------
(* The radio, external.                                                    *)

can_join == ap /\ station.ssid = station.password /\ station.ssid # None

Post(e) == events' = Append(events, e)

\* esp_wifi_connect: FALSE stands for an error.
esp_wifi_connect(ok) ==
    /\ ok = (link # "joining")
    /\ link' = IF link = "down" THEN "joining" ELSE link
    /\ UNCHANGED <<station, events>>

\* esp_wifi_disconnect has an event only when there was a connection.
esp_wifi_disconnect ==
    /\ IF link = "down" THEN UNCHANGED <<link, events>> ELSE link' = "down" /\ Post("DISCONNECTED")
    /\ UNCHANGED station

RadioStep(joins) ==
    /\ Len(events) < MaxEvents
    /\ \/ link = "joining" /\ joins = can_join
       \/ link = "up" /\ ~ap /\ ~joins
    /\ link' = IF joins THEN "up" ELSE "down"
    /\ Post(IF joins THEN "GOT_IP" ELSE "DISCONNECTED")
    /\ UNCHANGED <<stored, manager, retry_ready, call, loaded, reconnect, dropping, station, ap,
                   commands, missed>>

AccessPoint ==
    /\ ap' = ~ap
    /\ UNCHANGED <<stored, manager, retry_ready, call, loaded, reconnect, dropping, radio,
                   commands, missed>>

-----------------------------------------------------------------------------
(* The event handlers and the timeout task.                                *)

\* Mutant: a connection that is lost is not looked at, only an attempt.
take_disconnected_of_attempts ==
    CASE manual_disconnect ->
           /\ wifi_state' = IF named THEN "DISCONNECTED" ELSE "UNCONFIGURED"
           /\ manual_disconnect' = FALSE
           /\ UNCHANGED <<retry_count, reconnect>>
      [] ~manual_disconnect /\ wifi_state = "CONNECTING" ->
           /\ retry_count' = IF retry_count < MaxRetries THEN retry_count + 1 ELSE retry_count
           /\ reconnect' = (retry_count < MaxRetries)
           /\ wifi_state' = IF retry_count < MaxRetries THEN wifi_state ELSE "FAILED"
           /\ UNCHANGED manual_disconnect
      [] OTHER -> UNCHANGED <<wifi_state, manual_disconnect, retry_count, reconnect>>

\* wifi_event_handler, under the lock
take_disconnected ==
    CASE manual_disconnect ->
           /\ wifi_state' = IF named THEN "DISCONNECTED" ELSE "UNCONFIGURED"
           /\ manual_disconnect' = FALSE
           /\ UNCHANGED <<retry_count, reconnect>>
      [] ~manual_disconnect /\ wifi_state = "CONNECTING" /\ retry_count < MaxRetries ->
           /\ retry_count' = retry_count + 1
           /\ reconnect' = TRUE
           /\ UNCHANGED <<wifi_state, manual_disconnect>>
      [] OTHER ->
           /\ wifi_state' = "FAILED"
           /\ UNCHANGED <<manual_disconnect, retry_count, reconnect>>

\* The handler has the lock, or gives up and the event is lost.
OnDisconnected ==
    /\ events # <<>> /\ Head(events) = "DISCONNECTED" /\ ~reconnect
    /\ events' = Tail(events)
    /\ missed' \in BOOLEAN
    /\ IF missed' THEN UNCHANGED <<wifi_state, manual_disconnect, retry_count, reconnect>>
       ELSE take_disconnected
    /\ UNCHANGED <<stored, named, auto_connect_paused, timer, retry_ready, call, loaded, dropping,
                   link, station, ap, commands>>

\* ... and the reconnection after it
HandlerReconnects ==
    /\ reconnect /\ reconnect' = FALSE
    /\ \E ok \in BOOLEAN :
         /\ esp_wifi_connect(ok)
         /\ wifi_state' = IF ok THEN wifi_state ELSE "FAILED"
    /\ UNCHANGED <<stored, named, manual_disconnect, auto_connect_paused, retry_count, timer,
                   retry_ready, call, loaded, dropping, ap, commands, missed>>

\* ip_event_handler, in the same event task
OnGotIp ==
    /\ events # <<>> /\ Head(events) = "GOT_IP" /\ ~reconnect
    /\ events' = Tail(events)
    /\ missed' \in BOOLEAN
    /\ wifi_state' = IF missed' THEN wifi_state ELSE "CONNECTED"
    /\ UNCHANGED <<stored, named, manual_disconnect, auto_connect_paused, retry_count, timer,
                   retry_ready, call, loaded, reconnect, dropping, link, station, ap, commands>>

\* connect_timeout_task, 15 s after the connection began: a join that can
\* succeed takes less.
ConnectTimeout ==
    /\ timer /\ ~dropping
    /\ wifi_state = "CONNECTING" => ~(link = "joining" /\ can_join) /\ events = <<>>
    /\ timer' = FALSE
    /\ \/ /\ wifi_state' = IF wifi_state = "CONNECTING" THEN "FAILED" ELSE wifi_state
          /\ dropping' = (wifi_state = "CONNECTING")
          /\ UNCHANGED missed
       \/ missed' = TRUE /\ UNCHANGED <<wifi_state, dropping>>
    /\ UNCHANGED <<stored, named, manual_disconnect, auto_connect_paused, retry_count, retry_ready,
                   call, loaded, reconnect, radio, ap, commands>>

TimeoutDisconnects ==
    /\ dropping /\ dropping' = FALSE
    /\ esp_wifi_disconnect
    /\ UNCHANGED <<stored, manager, retry_ready, call, loaded, reconnect, ap, commands, missed>>

-----------------------------------------------------------------------------
(* wifi_manager_connect.                                                   *)

\* What the caller does with the result: only the supervisor keeps it.
Finish(c, ready) ==
    /\ Go(c, "idle")
    /\ retry_ready' = IF c = "supervisor" THEN ready ELSE retry_ready

\* load_credentials reads name and password under two separate locks.
LoadSsid(c) ==
    /\ at(c, "load")
    /\ IF ssid = None
       THEN /\ wifi_state' = "UNCONFIGURED" /\ named' = FALSE
            /\ Finish(c, TRUE) /\ UNCHANGED loaded
       ELSE /\ loaded' = [loaded EXCEPT ![c] = [ssid |-> ssid, password |-> None]]
            /\ Go(c, "password") /\ UNCHANGED <<wifi_state, named, retry_ready>>
    /\ UNCHANGED <<stored, manual_disconnect, auto_connect_paused, retry_count, timer, reconnect,
                   dropping, radio, ap, commands, missed>>

LoadPassword(c) ==
    /\ at(c, "password")
    /\ loaded' = [loaded EXCEPT ![c].password = password]
    /\ Go(c, "mark")
    /\ UNCHANGED <<stored, manager, retry_ready, reconnect, dropping, radio, ap, commands,
                   missed>>

MarkConnecting(c) ==
    /\ at(c, "mark")
    /\ IF wifi_state \in {"CONNECTING", "CONNECTED"}
       THEN Finish(c, FALSE) /\ UNCHANGED manager
       ELSE /\ wifi_state' = "CONNECTING" /\ named' = TRUE /\ retry_count' = 0
            /\ manual_disconnect' = FALSE /\ auto_connect_paused' = FALSE
            /\ timer' = FALSE       \* connect_generation++
            /\ Go(c, "start") /\ UNCHANGED retry_ready
    /\ UNCHANGED <<stored, loaded, reconnect, dropping, radio, ap, commands, missed>>

\* esp_wifi_set_config, the timeout task and esp_wifi_connect, without the
\* lock; the configuration is refused while the radio is joining.
StartConnecting(c) ==
    /\ at(c, "start")
    /\ IF link = "joining"
       THEN wifi_state' = "FAILED" /\ UNCHANGED <<timer, radio>>
       ELSE /\ station' = loaded[c]
            /\ timer' = TRUE
            /\ link' = IF link = "down" THEN "joining" ELSE link
            /\ UNCHANGED <<wifi_state, events>>
    /\ loaded' = [loaded EXCEPT ![c] = NoCredentials]
    /\ Finish(c, FALSE)
    /\ UNCHANGED <<stored, named, manual_disconnect, auto_connect_paused, retry_count, reconnect,
                   dropping, ap, commands, missed>>

ConnectStep(c) == LoadSsid(c) \/ LoadPassword(c) \/ MarkConnecting(c) \/ StartConnecting(c)

-----------------------------------------------------------------------------
(* The supervisor.                                                         *)

\* wifi_manager_get_status follows the stored name, but only a name that it
\* finds after UNCONFIGURED is copied into the handle.
idle_state == wifi_state \notin {"CONNECTED", "CONNECTING"}
status == IF ~idle_state THEN wifi_state
          ELSE IF ssid = None THEN "UNCONFIGURED"
          ELSE IF wifi_state = "UNCONFIGURED" THEN "DISCONNECTED" ELSE wifi_state
status_named == IF ~idle_state THEN named
                ELSE ssid # None /\ (named \/ wifi_state = "UNCONFIGURED")

get_status == wifi_state' = status /\ named' = status_named

\* The back-off of five seconds and more outlasts an attempt of the radio.
radio_settled == link # "joining" /\ events = <<>> /\ ~reconnect

\* Mutant: a connection that failed is not tried again.
needs_retry_not_failed(s) == s = "DISCONNECTED"

needs_retry(s) == s \in {"DISCONNECTED", "FAILED"}

to_connect == needs_retry(status) /\ ~auto_connect_paused /\ status_named

Supervise ==
    /\ at("supervisor", "idle")
    /\ get_status
    /\ CASE status = "CONNECTED" -> retry_ready' = TRUE /\ UNCHANGED call
         [] status # "CONNECTED" /\ ~to_connect -> UNCHANGED <<retry_ready, call>>
         [] to_connect /\ ~retry_ready -> radio_settled /\ retry_ready' = TRUE /\ UNCHANGED call
         [] to_connect /\ retry_ready -> Go("supervisor", "load") /\ UNCHANGED retry_ready
    /\ UNCHANGED <<stored, manual_disconnect, auto_connect_paused, retry_count, timer, loaded,
                   reconnect, dropping, radio, ap, commands, missed>>

\* The console, the update task or the announcer asks for the status.
AskStatus ==
    /\ get_status
    /\ UNCHANGED <<stored, manual_disconnect, auto_connect_paused, retry_count, timer, retry_ready,
                   call, loaded, reconnect, dropping, radio, ap, commands, missed>>

-----------------------------------------------------------------------------
(* The console: WIFI_SET, WIFI_CLEAR, WIFI_CONNECT, WIFI_DISCONNECT.       *)

Command(where) ==
    /\ at("console", "idle") /\ commands < MaxCommands
    /\ commands' = commands + 1
    /\ Go("console", where)
    /\ UNCHANGED <<manager, retry_ready, loaded, reconnect, dropping, radio, ap, missed>>

WifiSet(n) == Command("set_disconnect") /\ ssid' = n /\ password' = n
WifiClear == Command("disconnect") /\ ssid' = None /\ password' = None
WifiConnect == Command("load") /\ UNCHANGED stored
WifiDisconnect == Command("disconnect") /\ UNCHANGED stored

\* wifi_manager_disconnect, under the lock
MarkDisconnected ==
    /\ call["console"] \in {"disconnect", "set_disconnect"}
    /\ timer' = FALSE               \* connect_generation++
    /\ manual_disconnect' = TRUE /\ auto_connect_paused' = TRUE
    /\ wifi_state' = IF ssid = None \/ wifi_state = "UNCONFIGURED"
                     THEN "UNCONFIGURED" ELSE "DISCONNECTED"
    /\ named' = (named /\ ssid # None)
    /\ Go("console", IF at("console", "disconnect") THEN "drop" ELSE "set_drop")
    /\ UNCHANGED <<stored, retry_count, retry_ready, loaded, reconnect, dropping, radio, ap,
                   commands, missed>>

DropLink ==
    /\ call["console"] \in {"drop", "set_drop"}
    /\ esp_wifi_disconnect
    /\ Go("console", IF at("console", "drop") THEN "idle" ELSE "unpause")
    /\ UNCHANGED <<stored, manager, retry_ready, loaded, reconnect, dropping, ap, commands,
                   missed>>

\* wifi_manager_set_auto_connect_paused(false) at the end of WIFI_SET
Unpause ==
    /\ at("console", "unpause")
    /\ auto_connect_paused' = FALSE /\ manual_disconnect' = FALSE
    /\ Go("console", "idle")
    /\ UNCHANGED <<stored, wifi_state, named, retry_count, timer, retry_ready, loaded, reconnect,
                   dropping, radio, ap, commands, missed>>

-----------------------------------------------------------------------------
WifiInit ==
    /\ \E n \in Networks \cup {None} : ssid = n /\ password = n
    /\ wifi_state = IF ssid = None THEN "UNCONFIGURED" ELSE "DISCONNECTED"
    /\ named = (ssid # None)
    /\ manual_disconnect = FALSE /\ auto_connect_paused = FALSE /\ retry_count = 0
    /\ timer = FALSE /\ retry_ready = TRUE
    /\ call = [c \in Callers |-> "idle"]
    /\ loaded = [c \in Callers |-> NoCredentials]
    /\ reconnect = FALSE /\ dropping = FALSE
    /\ link = "down" /\ station = NoCredentials /\ events = <<>>
    /\ ap \in BOOLEAN /\ commands = 0 /\ missed = FALSE

EventTask == OnDisconnected \/ OnGotIp \/ HandlerReconnects
TimeoutTask == ConnectTimeout \/ TimeoutDisconnects
ConsoleTask == ConnectStep("console") \/ MarkDisconnected \/ DropLink \/ Unpause
ConsoleCommand == WifiClear \/ WifiConnect \/ WifiDisconnect \/ \E n \in Networks : WifiSet(n)

WifiNext ==
    \/ \E joins \in BOOLEAN : RadioStep(joins)
    \/ AccessPoint
    \/ EventTask \/ TimeoutTask
    \/ Supervise \/ ConnectStep("supervisor") \/ AskStatus
    \/ ConsoleTask \/ ConsoleCommand

\* Every task is scheduled and the radio answers.
WifiFairness ==
    /\ \A joins \in BOOLEAN : WF_wifiVars(RadioStep(joins))
    /\ WF_wifiVars(EventTask) /\ WF_wifiVars(TimeoutTask)
    /\ WF_wifiVars(Supervise \/ ConnectStep("supervisor")) /\ WF_wifiVars(ConsoleTask)

WifiSpec == WifiInit /\ [][WifiNext]_wifiVars /\ WifiFairness

-----------------------------------------------------------------------------
WifiTypeOK ==
    /\ ssid \in Networks \cup {None} /\ password \in Networks \cup {None}
    /\ wifi_state \in State /\ named \in BOOLEAN
    /\ manual_disconnect \in BOOLEAN /\ auto_connect_paused \in BOOLEAN
    /\ retry_count \in 0..MaxRetries /\ timer \in BOOLEAN /\ retry_ready \in BOOLEAN
    /\ call \in [Callers -> {"idle", "load", "password", "mark", "start", "disconnect",
                             "set_disconnect", "drop", "set_drop", "unpause"}]
    /\ loaded \in [Callers -> Credentials]
    /\ reconnect \in BOOLEAN /\ dropping \in BOOLEAN
    /\ link \in {"down", "joining", "up"} /\ station \in Credentials
    /\ events \in Seq({"DISCONNECTED", "GOT_IP"})
    /\ ap \in BOOLEAN /\ commands \in 0..MaxCommands /\ missed \in BOOLEAN

\* The state says CONNECTED over a link that is down only while the event
\* that tells of it waits, or when its handler could not take the lock:
\* nobody downloads or answers on a connection that is long gone
\* (wifi_manager.c:181-245).
ConnectedIsTrue ==
    wifi_state = "CONNECTED" /\ events = <<>> /\ ~missed => link = "up"

\* Credentials are there, but the handle has no name: it was cleared with the
\* old ones, and only UNCONFIGURED copies the new one (line 618).
Nameless == wifi_state \in {"DISCONNECTED", "FAILED"} /\ ~named /\ ssid # None

\* Credentials are there, the operator has not paused the manager, the access
\* point stays and the handlers get the lock: the station is connected again
\* and again, whatever it was doing, unless it stays without the name
\* (wifi_manager.c:332-405).
ReachesNetwork ==
    <>[](ap /\ ssid # None /\ ~auto_connect_paused /\ ~missed)
        => []<>(wifi_state = "CONNECTED" /\ link = "up") \/ <>[]Nameless
=============================================================================

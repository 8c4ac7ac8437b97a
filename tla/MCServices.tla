------------------------------ MODULE MCServices ------------------------------
(***************************************************************************)
(* The network's services: firmware updates and the station.  Their models *)
(* share no state; focus says which one a behaviour is about, and the      *)
(* fairness of a service counts while it is the one.  The other rests      *)
(* where it began.                                                         *)
(***************************************************************************)
EXTENDS FirmwareUpdate, WifiManager

VARIABLE focus

servicesVars ==
    <<updateVars, wifiVars, focus>>

About(part) == focus = part /\ UNCHANGED focus

ServicesInit ==
    /\ focus \in {"update", "wifi"}
    /\ UpdateInit /\ WifiInit
    /\ focus # "wifi" => ssid = None /\ ~ap

ServicesNext ==
    \/ /\ About("update") /\ UpdateNext
       /\ UNCHANGED wifiVars
    \/ /\ About("wifi") /\ WifiNext
       /\ UNCHANGED updateVars

\* Fairness and WifiFairness, each of its service.
ServicesFairness ==
    /\ WF_updateVars(focus = "update" /\ Startup)
    /\ \A c \in Clients : WF_updateVars(focus = "update" /\ ClientStep(c))
    /\ \A joins \in BOOLEAN : WF_wifiVars(focus = "wifi" /\ RadioStep(joins))
    /\ WF_wifiVars(focus = "wifi" /\ EventTask)
    /\ WF_wifiVars(focus = "wifi" /\ TimeoutTask)
    /\ WF_wifiVars(focus = "wifi" /\ (Supervise \/ ConnectStep("supervisor")))
    /\ WF_wifiVars(focus = "wifi" /\ ConsoleTask)

ServicesSpec == ServicesInit /\ [][ServicesNext]_servicesVars /\ ServicesFairness

\* Every service keeps its types and bounds, and nobody believes in a connection
\* that is gone.
ServicesAreSound ==
    CASE focus = "update" -> UpdateTypeOK
      [] focus = "wifi"   -> WifiTypeOK /\ ConnectedIsTrue
=============================================================================

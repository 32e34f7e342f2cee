-------------------------- MODULE BootWifi_proofs --------------------------
(***************************************************************************)
(* Theorems about BootWifi: its types, and for any number of polls,        *)
(* commands and losses of power what the module offers to the network once *)
(* it has started.                                                         *)
(***************************************************************************)
EXTENDS BootWifi, TLAPS

(* The parts of TypeOK.                                                    *)
SettingsOK == stored \in Settings /\ read \in Settings

FlowOK ==
  /\ pc \in {"off", "settings", "reset", "setup", "connecting", "forced",
             "servers", "loop"}
  /\ tries \in 0..MaxTries
  /\ losses \in 0..MaxLosses /\ commands \in 0..MaxCommands

WifiOK ==
  /\ mode \in {"OFF", "STA", "AP"} /\ joined \in BOOLEAN
  /\ ap \in {"down", "own", "default"}
  /\ servers \subseteq {"web", "data", "dns"} \cup Announcers
  /\ safe \in BOOLEAN

LEMMA TypeParts == TypeOK <=> SettingsOK /\ FlowOK /\ WifiOK
  BY DEF TypeOK, SettingsOK, FlowOK, WifiOK

LEMMA DefaultsType == Defaults \in Settings
  BY DEF Defaults, Settings

LEMMA TypeInit == Init => TypeOK
<1> SUFFICES ASSUME Init PROVE TypeOK
  OBVIOUS
<1>1. SettingsOK
  BY DefaultsType DEF Init, SettingsOK
<1>2. FlowOK
  BY BootWifiAssumption DEF Init, FlowOK
<1>3. WifiOK
  BY DEF Init, WifiOK
<1>4. QED
  BY <1>1, <1>2, <1>3, TypeParts

(* A command changes one field of the settings, to a value of that field.  *)
LEMMA SetType == SettingsOK /\ (SetWifi \/ Set) => SettingsOK'
<1> SUFFICES ASSUME SettingsOK, SetWifi \/ Set PROVE SettingsOK'
  OBVIOUS
<1>1. CASE SetWifi
  BY <1>1 DEF SetWifi, SettingsOK, Settings
<1>2. CASE Set
  <2>1. PICK f \in DOMAIN stored, s \in Settings : stored' = [stored EXCEPT ![f] = s[f]]
    BY <1>2 DEF Set
  <2>2. f \in {"baud", "ports", "mode", "ap"}
    BY <2>1 DEF SettingsOK, Settings
  <2>3. stored' \in Settings
    BY <2>1, <2>2 DEF SettingsOK, Settings
  <2>4. QED
    BY <1>2, <2>3 DEF Set, SettingsOK
<1>3. QED
  BY <1>1, <1>2

LEMMA SettingsStep == SettingsOK /\ [Next]_vars => SettingsOK'
<1> SUFFICES ASSUME SettingsOK, [Next]_vars PROVE SettingsOK'
  OBVIOUS
<1>1. CASE Boot
  BY <1>1, DefaultsType
     DEF Boot, PowerOn, Started, CheckSettings, ResetSettings, AfterReset, Setup,
         SetupAP, SetupStation, Poll, Connected, NotConnected, EnableServers, SettingsOK
<1>2. CASE WifiOff \/ SafeMode \/ Restart \/ Reset \/ ResetButton
  BY <1>2, DefaultsType
     DEF WifiOff, SafeMode, Restart, Reset, ResetButton, Started, AfterReset, SettingsOK
<1>3. CASE SetWifi \/ Set
  BY <1>3, SetType
<1>4. CASE PowerLoss \/ UNCHANGED vars
  BY <1>4, DefaultsType DEF PowerLoss, Started, vars, SettingsOK
<1>5. QED
  BY <1>1, <1>2, <1>3, <1>4 DEF Next, Command

LEMMA FlowStep == FlowOK /\ [Next]_vars => FlowOK'
<1> SUFFICES ASSUME FlowOK, [Next]_vars PROVE FlowOK'
  OBVIOUS
<1>1. CASE Boot
  BY <1>1, BootWifiAssumption
     DEF Boot, At, PowerOn, Started, CheckSettings, ResetSettings, Setup, SetupAP,
         SetupStation, Poll, Connected, NotConnected, FallBack, EnableServers, FlowOK
<1>2. CASE Command
  BY <1>2, BootWifiAssumption
     DEF Command, Asked, WifiOff, SafeMode, Restart, Reset, ResetButton, SetWifi, Set,
         Started, FlowOK
<1>3. CASE PowerLoss \/ UNCHANGED vars
  BY <1>3, BootWifiAssumption DEF PowerLoss, Started, vars, FlowOK
<1>4. QED
  BY <1>1, <1>2, <1>3 DEF Next

LEMMA WifiStep == SettingsOK /\ WifiOK /\ [Next]_vars => WifiOK'
<1> SUFFICES ASSUME SettingsOK, WifiOK, [Next]_vars PROVE WifiOK'
  OBVIOUS
<1>1. CASE PowerOn \/ ResetSettings \/ Restart \/ PowerLoss
  BY <1>1 DEF PowerOn, ResetSettings, Restart, PowerLoss, Started, WifiOK
<1>2. CASE Setup
  BY <1>2 DEF Setup, SetupAP, SetupStation, Poll, Connected, NotConnected, wifiVars,
              WifiOK
<1>3. CASE EnableServers
  BY <1>3 DEF EnableServers, wifiVars, WifiOK
<1>4. CASE WifiOff
  BY <1>4 DEF WifiOff, Disabled, WifiOK
<1>5. CASE SafeMode
  BY <1>5 DEF SafeMode, WifiOK
<1>6. CASE CheckSettings \/ Reset \/ ResetButton \/ SetWifi \/ Set \/ UNCHANGED vars
  BY <1>6 DEF CheckSettings, Reset, ResetButton, SetWifi, Set, vars, wifiVars, WifiOK
<1>7. QED
  BY <1>1, <1>2, <1>3, <1>4, <1>5, <1>6 DEF Next, Boot, Command

LEMMA TypeStep == TypeOK /\ [Next]_vars => TypeOK'
<1>1. SettingsOK' /\ FlowOK' /\ WifiOK' => TypeOK'
  BY DEF TypeOK, SettingsOK, FlowOK, WifiOK
<1>2. QED
  BY <1>1, TypeParts, SettingsStep, FlowStep, WifiStep

(* Every variable keeps its type, the polls of the station's status within *)
(* their number included (WIFI_CONFIG::Setup, wificonf.cpp:361).           *)
THEOREM TypeCorrect == Spec => []TypeOK
  BY TypeInit, TypeStep, PTL DEF Spec

-----------------------------------------------------------------------------
(* What the network has, from the step on that asks for it.                *)

(* What Setup() has brought about when it has returned true.               *)
Joined == mode = "STA" => joined

Up == mode = "AP" => ap # "down" \/ read.ap = "refused"

(* A station is tried in its mode; servers start over what Setup() has     *)
(* left; Safe_Setup() is a matter of loop(), and of the reset that may     *)
(* follow it.                                                              *)
NetInv ==
  /\ pc = "connecting" => mode = "STA" /\ stored.mode # "AP"
  /\ pc = "servers" => mode # "OFF" /\ (mode = "STA" => read.mode # "AP")
  /\ pc \in {"servers", "loop"} => Joined /\ Up
  /\ safe => pc \in {"loop", "reset"}

OnOK == pc = "loop" /\ mode # "OFF" /\ ~safe => {"web", "data"} \subseteq servers

IInv == TypeOK /\ NetInv /\ OnOK /\ ServersFitMode

LEMMA NetInit == Init => NetInv /\ OnOK /\ ServersFitMode
  BY DEF Init, NetInv, OnOK, ServersFitMode, Joined, Up

(* setup().                                                                *)
LEMMA NetBoot == IInv /\ Boot => (NetInv /\ OnOK /\ ServersFitMode)'
<1> SUFFICES ASSUME IInv, Boot
             PROVE  (NetInv /\ OnOK /\ ServersFitMode)'
  OBVIOUS
<1> USE DEF IInv, NetInv, OnOK, ServersFitMode, Joined, Up, At
<1>1. CASE PowerOn \/ ResetSettings
  BY <1>1 DEF PowerOn, ResetSettings, Started
<1>2. CASE CheckSettings
  BY <1>2 DEF CheckSettings, wifiVars
<1>3. ASSUME NEW from \in {"setup", "forced"}, SetupAP(from)
      PROVE  (NetInv /\ OnOK /\ ServersFitMode)'
  <2>1. pc = from /\ pc' = "servers" /\ mode' = "AP" /\ read' = stored /\ safe' = safe
    BY <1>3 DEF SetupAP
  <2>2. ~safe
    BY <2>1
  <2>3. stored.ap \in {"ok", "refused"}
    BY DEF TypeOK, Settings
  <2>4. ap' = IF stored.ap = "ok" THEN "own" ELSE "down"
    BY <1>3 DEF SetupAP
  <2>5. ap' # "down" \/ read'.ap = "refused"
    BY <2>1, <2>3, <2>4
  <2>6. QED
    BY <2>1, <2>2, <2>5
<1>4. CASE SetupStation \/ Poll \/ NotConnected
  BY <1>4 DEF SetupStation, Poll, NotConnected, FallBack, wifiVars
<1>5. CASE Connected
  BY <1>5 DEF Connected
<1>6. CASE EnableServers
  <2>1. /\ pc = "servers" /\ pc' = "loop" /\ mode' = mode /\ joined' = joined
        /\ ap' = ap /\ read' = read /\ safe' = safe
    BY <1>6 DEF EnableServers, wifiVars
  <2>a. PICK announced \in SUBSET Announcers :
          servers' = {"web", "data"} \cup (IF mode = "STA" THEN {} ELSE {"dns"})
                       \cup (IF mode = "AP" THEN {} ELSE announced)
    BY <1>6 DEF EnableServers
  <2>2. mode # "OFF" /\ ~safe /\ mode \in {"STA", "AP"}
    BY <2>1 DEF TypeOK
  <2>3. /\ {"web", "data"} \subseteq servers'
        /\ "dns" \in servers' => mode = "AP"
        /\ servers' \cap Announcers # {} => mode = "STA"
    BY <2>2, <2>a DEF Announcers
  <2>4. QED
    BY <2>1, <2>2, <2>3
<1>7. QED
  BY <1>1, <1>2, <1>3, <1>4, <1>5, <1>6 DEF Boot, Setup

(* loop(), and losses of power.                                            *)
LEMMA NetLoop ==
  IInv /\ (Command \/ PowerLoss \/ UNCHANGED vars)
    => (NetInv /\ OnOK /\ ServersFitMode)'
<1> SUFFICES ASSUME IInv, Command \/ PowerLoss \/ UNCHANGED vars
             PROVE  (NetInv /\ OnOK /\ ServersFitMode)'
  OBVIOUS
<1> USE DEF IInv, NetInv, OnOK, ServersFitMode, Joined, Up
<1>1. CASE WifiOff
  BY <1>1 DEF WifiOff, Asked, Disabled
<1>2. CASE SafeMode
  BY <1>2 DEF SafeMode, Asked
<1>3. CASE Restart \/ PowerLoss
  BY <1>3 DEF Restart, PowerLoss, Started, Asked
<1>4. CASE Reset \/ ResetButton \/ SetWifi \/ Set
  BY <1>4 DEF Reset, ResetButton, SetWifi, Set, Asked, wifiVars
<1>5. CASE UNCHANGED vars
  BY <1>5 DEF vars, wifiVars
<1>6. QED
  BY <1>1, <1>2, <1>3, <1>4, <1>5 DEF Command

LEMMA Invariant == Spec => []IInv
<1>1. Init => IInv
  BY TypeInit, NetInit DEF IInv
<1>2. IInv /\ [Next]_vars => IInv'
  <2>1. IInv /\ [Next]_vars => TypeOK'
    BY TypeStep DEF IInv
  <2>2. QED
    BY <2>1, NetBoot, NetLoop DEF IInv, Next
<1>3. QED
  BY <1>1, <1>2, PTL DEF Spec

(* Whatever the settings, the network and the losses of power, a module    *)
(* that has come to loop() can be reached there: as a station that has     *)
(* joined, or at its access point unless the radio has refused it, with    *)
(* its servers on (setup(), esp3d.ino:157-174).                            *)
THEOREM ReachableAlways == Spec => []Reachable
<1>1. IInv => Reachable
  BY DEF IInv, NetInv, OnOK, Joined, Up, Reachable
<1>2. QED
  BY <1>1, Invariant, PTL

(* Once the module has started, the captive portal's name server runs only *)
(* beside an access point; announcers run only in a module started as a    *)
(* station, which is one still unless the safe mode took its network away; *)
(* with the radio off SSDP and mDNS may be left running, and nothing else  *)
(* (Enable_servers and Disable_servers, wificonf.cpp:410-499).             *)
THEOREM ServersFitModeAlways == Spec => []ServersFitMode
<1>1. IInv => ServersFitMode
  BY DEF IInv
<1>2. QED
  BY <1>1, Invariant, PTL
=============================================================================

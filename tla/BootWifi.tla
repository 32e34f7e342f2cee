------------------------------ MODULE BootWifi ------------------------------
(***************************************************************************)
(* From power on to loop(), and the network the module offers then:        *)
(* setup() of esp3d/esp3d.ino, Setup(), Safe_Setup(), Enable_servers() and *)
(* Disable_servers() of esp3d/wificonf.cpp, and the commands and the       *)
(* button that undo what they did.  Of the settings there is what decides  *)
(* the way; ConfigStore.tla has how they are kept.                         *)
(***************************************************************************)
EXTENDS Naturals

CONSTANTS
  MaxTries,      \* polls of the station's status: 40
  MaxLosses,     \* bound: losses of power
  MaxCommands    \* bound: commands and presses of the button

ASSUME BootWifiAssumption ==
  MaxTries \in Nat /\ MaxLosses \in Nat /\ MaxCommands \in Nat

(* The baud rate and the ports may be out of their ranges.  A password of  *)
(* less than eight characters, which isPasswordValid() lets pass, is       *)
(* refused by the radio.  Any other mode than AP is that of a station.     *)
Settings == [baud : {"ok", "bad"}, ports : {"ok", "bad"},
             mode : {"AP", "STA", "junk"}, ap : {"ok", "refused"}]

(* reset_config().                                                         *)
Defaults == [baud |-> "ok", ports |-> "ok", mode |-> "AP", ap |-> "ok"]

(* The servers that make a station known: names of NetBIOS and mDNS, SSDP. *)
Announcers == {"nbns", "ssdp", "mdns"}

VARIABLES
  stored,      \* the settings
  pc,          \* off, or the step of setup() that is next, or loop
  tries,
  mode,        \* WiFi.getMode()
  joined,      \* the station's network has answered
  ap,          \* the access point: down (or the SDK's), or up with its own
               \* or with the default name and password
  servers,     \* those that are on
  safe,        \* Safe_Setup() has run
  read,        \* history: the settings Setup() has read
  losses, commands

wifiVars == <<mode, joined, ap>>
vars == <<stored, pc, tries, wifiVars, servers, safe, read, losses, commands>>

(* What a start or a restart makes of all that is in RAM.                  *)
Started ==
  /\ tries' = 0 /\ mode' = "OFF" /\ joined' = FALSE /\ ap' = "down"
  /\ servers' = {} /\ safe' = FALSE /\ read' = Defaults

Init ==
  /\ stored \in Settings /\ pc = "off" /\ tries = 0
  /\ mode = "OFF" /\ joined = FALSE /\ ap = "down"
  /\ servers = {} /\ safe = FALSE /\ read = Defaults
  /\ losses = 0 /\ commands = 0

-----------------------------------------------------------------------------
(* setup().                                                                *)

At(step, next) == pc = step /\ pc' = next /\ UNCHANGED <<losses, commands>>

PowerOn == At("off", "settings") /\ Started /\ UNCHANGED stored

(* InitBaudrate() and InitExternalPorts() check what they read, and they   *)
(* only.                                                                   *)
Usable == stored.baud = "ok" /\ stored.ports = "ok"

CheckSettings ==
  /\ \/ Usable /\ At("settings", "setup")
     \/ ~Usable /\ At("settings", "reset")
  /\ UNCHANGED <<stored, tries, wifiVars, servers, safe, read>>

(* Mutant: the ports are left as they are.                                 *)
DefaultsButPorts == [Defaults EXCEPT !.ports = stored.ports]

AfterReset == Defaults

(* reset_config() and esp_restart().                                       *)
ResetSettings ==
  /\ At("reset", "settings") /\ stored' = AfterReset /\ Started

(* Setup() as an access point, because it is asked for or forced.  The     *)
(* result of softAP() is ignored; the reads cannot fail: so it is never    *)
(* said to have failed.                                                    *)
SetupAP(from) ==
  /\ At(from, "servers")
  /\ mode' = "AP" /\ read' = stored
  /\ ap' = IF stored.ap = "ok" THEN "own" ELSE "down"
  /\ UNCHANGED <<stored, tries, joined, servers, safe>>

SetupStation ==
  /\ stored.mode # "AP" /\ At("setup", "connecting")
  /\ mode' = "STA" /\ tries' = 0
  /\ UNCHANGED <<stored, joined, ap, servers, safe, read>>

(* Mutant: the polls are not counted.                                      *)
PollForEver ==
  /\ At("connecting", "connecting") /\ tries' = tries + 1
  /\ UNCHANGED <<stored, wifiVars, servers, safe, read>>

Poll ==
  /\ tries < MaxTries /\ At("connecting", "connecting") /\ tries' = tries + 1
  /\ UNCHANGED <<stored, wifiVars, servers, safe, read>>

Connected ==
  /\ At("connecting", "servers") /\ joined' = TRUE /\ read' = stored
  /\ UNCHANGED <<stored, tries, mode, ap, servers, safe>>

(* Mutant: the result of Setup() is not looked at.                         *)
StayStation == "servers"

FallBack == "forced"

NotConnected ==
  /\ tries = MaxTries /\ At("connecting", FallBack) /\ tries' = 0
  /\ UNCHANGED <<stored, wifiVars, servers, safe, read>>

Setup == \/ stored.mode = "AP" /\ SetupAP("setup")
         \/ SetupStation \/ Poll \/ Connected \/ NotConnected
         \/ SetupAP("forced")          \* Setup(true), "Safe mode 1"

(* Enable_servers(): the name server of the captive portal is for an       *)
(* access point, the announcers are for a station; one of these may fail   *)
(* to start, and only mDNS says so.                                        *)
EnableServers ==
  /\ At("servers", "loop")
  /\ \E announced \in SUBSET Announcers :
       servers' = {"web", "data"} \cup (IF mode = "STA" THEN {} ELSE {"dns"})
                    \cup (IF mode = "AP" THEN {} ELSE announced)
  /\ UNCHANGED <<stored, tries, wifiVars, safe, read>>

-----------------------------------------------------------------------------
(* What undoes it, while loop() runs.                                      *)

Asked == /\ pc = "loop" /\ commands < MaxCommands /\ commands' = commands + 1
         /\ UNCHANGED losses

(* Mutant: the captive portal's name server is stopped when the mode is    *)
(* that of an access point.                                                *)
DisabledInAp(m) ==
  servers \cap ({"ssdp", "mdns"} \cup (IF m = "AP" THEN {"nbns"} ELSE {"dns"}))

(* What Disable_servers() leaves on in the mode m.  It never stops SSDP    *)
(* and mDNS.                                                               *)
Disabled(m) ==
  servers \cap ({"ssdp", "mdns"}
                  \cup (IF m = "STA" THEN {"dns"} ELSE {})
                  \cup (IF m = "AP" THEN {"nbns"} ELSE {}))

(* [ESP110]OFF: the radio first, then the servers.                         *)
WifiOff ==
  /\ Asked /\ mode # "OFF" /\ mode' = "OFF" /\ ap' = "down" /\ joined' = FALSE
  /\ servers' = Disabled(mode')
  /\ UNCHANGED <<stored, pc, tries, safe, read>>

(* [ESP444]SAFEMODE: Safe_Setup().  It stops the captive portal, which is  *)
(* not started again, and leaves the other servers as they are.            *)
SafeMode ==
  /\ Asked /\ mode' = "AP" /\ joined' = FALSE /\ ap' = "default"
  /\ safe' = TRUE /\ servers' = servers \ {"dns"}
  /\ UNCHANGED <<stored, pc, tries, read>>

(* esp_restart(): [ESP110]ON when the radio is off, [ESP110]RESTART,       *)
(* [ESP444]RESTART, or a firmware that has been updated.                   *)
Restart == Asked /\ pc' = "settings" /\ Started /\ UNCHANGED stored

(* [ESP444]RESET.                                                          *)
Reset ==
  /\ Asked /\ stored' = AfterReset
  /\ UNCHANGED <<pc, tries, wifiVars, servers, safe, read>>

(* Board::resetSettings(), the button still held after 2.5 seconds.        *)
ResetButton ==
  /\ Asked /\ pc' = "reset"
  /\ UNCHANGED <<stored, tries, wifiVars, servers, safe, read>>

(* [ESP103] and [ESP106]: the mode is checked; of the access point's       *)
(* password the command says that it is invalid, and stores it all the     *)
(* same.                                                                   *)
SetWifi ==
  /\ Asked
  /\ \/ \E m \in {"AP", "STA"} : stored' = [stored EXCEPT !.mode = m]
     \/ \E t \in {"ok", "refused"} : stored' = [stored EXCEPT !.ap = t]
  /\ UNCHANGED <<pc, tries, wifiVars, servers, safe, read>>

(* [ESP401]: any byte of the settings, whatever it makes of them.          *)
Set ==
  /\ Asked
  /\ \E f \in DOMAIN stored, s \in Settings :
       stored' = [stored EXCEPT ![f] = s[f]]
  /\ UNCHANGED <<pc, tries, wifiVars, servers, safe, read>>

(* External: power fails.                                                  *)
PowerLoss ==
  /\ pc # "off" /\ losses < MaxLosses /\ losses' = losses + 1 /\ pc' = "off"
  /\ Started /\ UNCHANGED <<stored, commands>>

Boot == \/ PowerOn \/ CheckSettings \/ ResetSettings \/ Setup \/ EnableServers

Command == WifiOff \/ SafeMode \/ Restart \/ Reset \/ ResetButton
           \/ SetWifi \/ Set

Next == Boot \/ Command \/ PowerLoss

Spec == Init /\ [][Next]_vars /\ WF_vars(Boot)

-----------------------------------------------------------------------------
TypeOK ==
  /\ stored \in Settings /\ read \in Settings
  /\ pc \in {"off", "settings", "reset", "setup", "connecting", "forced",
             "servers", "loop"}
  /\ tries \in 0..MaxTries /\ mode \in {"OFF", "STA", "AP"}
  /\ joined \in BOOLEAN /\ ap \in {"down", "own", "default"}
  /\ servers \subseteq {"web", "data", "dns"} \cup Announcers
  /\ safe \in BOOLEAN
  /\ losses \in 0..MaxLosses /\ commands \in 0..MaxCommands

(* The module that has started offers a network whatever its settings and  *)
(* whatever its surroundings: it has joined one, or its access point is up *)
(* - unless the radio refuses the access point's password - and its        *)
(* servers are on, until the radio is switched off.                        *)
Reachable ==
  pc = "loop" /\ mode # "OFF" =>
    /\ mode = "STA" => joined
    /\ mode = "AP" => ap # "down" \/ read.ap = "refused"
    /\ ~safe => {"web", "data"} \subseteq servers

(* Once the module has started, the captive portal's name server runs only *)
(* beside an access point.  A module that runs an announcer was started as *)
(* a station; it is one still unless the safe mode took its network away,  *)
(* and with the radio off nothing runs but the two announcers that         *)
(* Disable_servers() forgets, SSDP and mDNS (wificonf.cpp:483).            *)
ServersFitMode ==
  pc = "loop" =>
    /\ "dns" \in servers => mode = "AP" /\ ~safe
    /\ servers \cap Announcers # {} =>
         /\ read.mode # "AP"
         /\ mode = "AP" => safe
    /\ mode = "OFF" => servers \subseteq {"ssdp", "mdns"}

(* "safe setup if no connection": when no network was joined and the       *)
(* access point is not up either, the safe setup has been tried.           *)
SafeIfNoConnection ==
  pc = "loop" /\ mode = "AP" /\ ap = "down" => safe

(* Every start ends in loop(), with any settings, one reset at most and    *)
(* any network.                                                            *)
BootEnds == pc # "loop" ~> pc = "loop"
=============================================================================

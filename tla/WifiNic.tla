------------------------------- MODULE WifiNic -------------------------------
(* The network interface objects of ports/rp2/mod_wifi_spi.c and their     *)
(* registration in modnetwork.c, over the WiFi module they all drive.      *)
(* The driver keeps what it believes (mode, nic) in a static and a root    *)
(* pointer, and in each object the interface it stands for (ifMode); the   *)
(* module's own state is espMode, espMux, joined and link.  nic_connected, *)
(* which only isconnected() reads, is left out: the module loses and joins *)
(* its access point without it.                                            *)
(* AT commands are taken by their contract (AtCommand): a call returns     *)
(* true exactly if the module performed the command.                       *)
EXTENDS Naturals, FiniteSets

CONSTANTS Nics,      \* objects made by network.WLAN_SPI(...)
          NoNic,     \* modnetwork_nic is NULL
          Addrs,     \* addresses of peers
          NoAddr,    \* no TCP link
          Losses     \* the access point or a peer may go away

ASSUME WifiNicConstants ==
    NoNic \notin Nics /\ NoAddr \notin Addrs /\ Losses \in BOOLEAN

Modes == {"STA", "AP"}

VARIABLES
    mode,       \* function-static of esp8285_active: modes asked for
    nic,        \* modnetwork_nic
    alive,      \* interface objects on the heap
    ifMode,     \* their self->mode: STA_IF, or taken for AP_IF
    settled,    \* history: the last call of active(...) or config(...) was
                \* an active(...) that did not raise OSError
    powered,    \* the module's power pins
    espMode,    \* the module's CWMODE, which it stores
    espMux,     \* its CIPMUX: links are numbered, which the driver never does
    joined,     \* the module is joined to an access point
    link        \* the peer of its TCP link, or NoAddr

nicVars == <<mode, nic, alive, ifMode, settled>>
espVars == <<powered, espMode, espMux, joined, link>>

(* The module comes with whatever mode it has stored.                      *)
NicInit ==
    /\ mode = {} /\ nic = NoNic /\ alive = {}
    /\ ifMode = [n \in Nics |-> "STA"] /\ settled = TRUE
    /\ powered = FALSE /\ espMode \in SUBSET Modes /\ espMux = FALSE
    /\ joined = FALSE /\ link = NoAddr

mask(n) == ifMode[n]

(* A module that is not in station mode has left its access point, and a   *)
(* module without an access point has no link.                             *)
EspKeeps(on) ==
    /\ joined' = (joined /\ on) /\ link' = IF joined /\ on THEN link ELSE NoAddr

esp8285_make_new(n) ==
    /\ n \notin alive /\ alive' = alive \cup {n}
    /\ \E idx \in Modes : ifMode' = [ifMode EXCEPT ![n] = idx]
    /\ UNCHANGED <<mode, nic, settled, espVars>>

(* eINIT: the first of its commands that fails ends it.  Those that change *)
(* the module are disableMUX, then sATCWMODE, then enableMUX if there is   *)
(* an access point to serve; the module refuses that while a link is up    *)
(* ("Link is builded").  leaveAP is not among them: its guard              *)
(* "!mode & SOFTAP_MODE" is never true.                                    *)
eINIT(m, ok) ==
    /\ \/ ok /\ espMode' = m /\ espMux' = ("AP" \in m)
       \/ ~ok /\ espMode' = espMode /\ espMux' \in {espMux, FALSE}
       \/ ~ok /\ espMode' = m /\ espMux' = FALSE
    /\ EspKeeps("STA" \in espMode')
    /\ espMux' => link' = NoAddr

(* Only the stored mode survives; the module may join again by itself.     *)
Restart == espMux' = FALSE /\ EspKeeps(FALSE) /\ UNCHANGED espMode

PowerOff == powered' = FALSE /\ Restart

mod_network_register_nic(n) == nic' = n

(* active(True) that asks for the mode of its own interface only.          *)
esp8285_activeOwn(n, on) ==
    /\ n \in alive
    /\ mode' = IF on THEN mode \cup {mask(n)} ELSE mode \ {mask(n)}
    /\ \/ /\ mode' # {} /\ powered' = TRUE
          /\ \E ok \in BOOLEAN : /\ eINIT({mask(n)}, ok) /\ settled' = ok
                                 /\ IF ok THEN mod_network_register_nic(n) ELSE UNCHANGED nic
       \/ mode' = {} /\ PowerOff /\ settled' = TRUE /\ UNCHANGED nic
    /\ UNCHANGED <<alive, ifMode>>
(* The mode is changed first; only if eINIT succeeds is the interface      *)
(* registered, and if it fails active raises OSError.                      *)
esp8285_active(n, on) ==
    /\ n \in alive
    /\ mode' = IF on THEN mode \cup {mask(n)} ELSE mode \ {mask(n)}
    /\ \/ /\ mode' # {} /\ powered' = TRUE
          /\ \E ok \in BOOLEAN : /\ eINIT(mode', ok) /\ settled' = ok
                                 /\ IF ok THEN mod_network_register_nic(n) ELSE UNCHANGED nic
       \/ mode' = {} /\ PowerOff /\ settled' = TRUE /\ UNCHANGED nic
    /\ UNCHANGED <<alive, ifMode>>

(* config(...).  Most parameters ask for an interface, req, which the      *)
(* object then stands for; the module is switched to that mode alone, and  *)
(* nobody looks whether it was.  When parameters of an access point are    *)
(* set, the module is switched to both modes before.  The static mode is   *)
(* not touched.                                                            *)
setOprToStation(req, m) == m = espMode \/ (powered /\ req # "none" /\ m = {req})
wifi_softap_set_config(m) == espMode' = m \/ (powered /\ espMode' = Modes)
esp8285_config(n, req, set) ==
    /\ n \in alive /\ (ifMode[n] = "STA" \/ powered)
    /\ ifMode' = IF req = "none" THEN ifMode ELSE [ifMode EXCEPT ![n] = req]
    /\ \E m \in SUBSET Modes :
          /\ setOprToStation(req, m)
          /\ IF set /\ ifMode'[n] = "AP" THEN wifi_softap_set_config(m) ELSE espMode' = m
          /\ EspKeeps("STA" \in m \cap espMode')
    /\ settled' = FALSE
    /\ UNCHANGED <<mode, nic, alive, powered, espMux>>

(* joinAP.  A module that fails to join has left where it was, or has not  *)
(* heard of the call.                                                      *)
esp8285_nic_connect(n) ==
    /\ n \in alive
    /\ \/ /\ powered /\ "STA" \in espMode
          /\ joined' = TRUE /\ link' = NoAddr
       \/ EspKeeps(FALSE)
       \/ UNCHANGED <<joined, link>>
    /\ UNCHANGED <<nicVars, powered, espMode, espMux>>

(* leaveAP; if it fails OSError is raised and nothing has changed.         *)
esp8285_nic_disconnect(n) ==
    /\ n \in alive
    /\ powered /\ EspKeeps(FALSE)
    /\ UNCHANGED <<nicVars, powered, espMode, espMux>>

(* AT+RST: the module starts anew.                                         *)
esp8285_nic_reset(n) ==
    /\ n \in alive /\ powered /\ Restart
    /\ UNCHANGED <<nicVars, powered>>

(* The access point or the peer of the link goes away; a module in station *)
(* mode joins the access point it has stored, unasked (external).          *)
ApLost ==
    /\ Losses /\ joined /\ EspKeeps(FALSE)
    /\ UNCHANGED <<nicVars, powered, espMode, espMux>>
Rejoins ==
    /\ powered /\ "STA" \in espMode /\ ~joined /\ joined' = TRUE
    /\ UNCHANGED <<nicVars, powered, espMode, espMux, link>>
PeerCloses ==
    /\ Losses /\ link # NoAddr /\ link' = NoAddr
    /\ UNCHANGED <<nicVars, powered, espMode, espMux, joined>>

NicNext ==
    \/ \E n \in Nics : \/ esp8285_make_new(n)
                        \/ \E on \in BOOLEAN : esp8285_active(n, on)
                        \/ \E req \in Modes \cup {"none"}, set \in BOOLEAN :
                              esp8285_config(n, req, set)
                        \/ esp8285_nic_connect(n)
                        \/ esp8285_nic_disconnect(n)
                        \/ esp8285_nic_reset(n)
    \/ ApLost
    \/ Rejoins
    \/ PeerCloses

(* main.c: gc_sweep_all deletes every object, the next turn of the loop    *)
(* takes the module's power away.  The static and modnetwork_nic stay:     *)
(* mod_network_init, which would clear it, is never called.  A new object  *)
(* may come to lie where modnetwork_nic points.                            *)
NicSoftReset == alive' = {} /\ PowerOff /\ UNCHANGED <<mode, nic, ifMode, settled>>

(***************************************************************************)
(* Properties.                                                             *)
(***************************************************************************)
(* The part of the interface and the module in TypeOK of Sockets.          *)
NicTypeOK ==
    /\ mode \subseteq Modes /\ espMode \subseteq Modes
    /\ nic \in Nics \cup {NoNic} /\ alive \subseteq Nics /\ ifMode \in [Nics -> Modes]
    /\ {settled, powered, espMux, joined} \subseteq BOOLEAN
    /\ link \in Addrs \cup {NoAddr}

(* Two interfaces share one module and one static: a powered module is in  *)
(* the mode that serves every active interface, whatever its stored mode   *)
(* was and through restarts and resets, unless the last active(...) raised *)
(* or config(...), which switches the module behind the static's back, was *)
(* called after it (esp8285_active).                                       *)
ModeSettled == powered /\ settled => mode # {} /\ espMode = mode
==============================================================================

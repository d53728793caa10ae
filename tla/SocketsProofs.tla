---------------------------- MODULE SocketsProofs ----------------------------
(* Proofs about the sockets and the interface under them, for any number   *)
(* of sockets, interfaces, addresses and descriptors.                      *)
EXTENDS Sockets, TLAPS

USE DEF nicVars, espVars, sockVars, vars

(* Operators that name a part of one action.                               *)
USE DEF Restart, mod_network_register_nic, mod_network_find_nic,
        socket_select_nic, esp8285_socket_connect, esp8285_socket_send,
        esp8285_socket_recv, Modes, OrphanStays

(***************************************************************************)
(* The interface keeps its types, whichever of its operations is called.   *)
(***************************************************************************)

(* EspKeeps, the way the module drops its access point and its link,       *)
(* leaves Booleans and addresses behind.                                   *)
LEMMA EspKeepsType ==
    ASSUME NicTypeOK, NEW on \in BOOLEAN, EspKeeps(on)
    PROVE  joined' \in BOOLEAN /\ link' \in Addrs \cup {NoAddr}
BY DEF NicTypeOK, EspKeeps

(* Every operation of the interface keeps its types (esp8285_active and    *)
(* the other functions of mod_wifi_spi.c).                                 *)
LEMMA NicTypeStep ==
    ASSUME NicTypeOK, NicNext, WifiNicConstants
    PROVE  NicTypeOK'
<1>1. CASE \E n \in Nics : esp8285_make_new(n)
  BY <1>1 DEF NicTypeOK, esp8285_make_new
<1>2. CASE \E n \in Nics, on \in BOOLEAN : esp8285_active(n, on)
  <2>1. PICK n \in Nics, on \in BOOLEAN : esp8285_active(n, on)
    BY <1>2
  <2>2. mask(n) \in {"STA", "AP"}
    BY DEF mask, NicTypeOK
  <2>3. mode' \subseteq {"STA", "AP"}
    BY Zenon, <2>1, <2>2 DEF NicTypeOK, esp8285_active
  <2>4. CASE mode' # {}
    <3>1. PICK ok \in BOOLEAN : /\ eINIT(mode', ok) /\ settled' = ok
                                /\ nic' = IF ok THEN n ELSE nic
      BY <2>1, <2>4 DEF esp8285_active
    <3>2. espMode' \subseteq {"STA", "AP"}
      BY Zenon, <3>1, <2>3 DEF NicTypeOK, eINIT
    <3>3. joined' \in BOOLEAN /\ link' \in Addrs \cup {NoAddr}
      <4> DEFINE stays == "STA" \in espMode'
      <4>1. EspKeeps(stays)
        BY <3>1 DEF eINIT
      <4>2. stays \in BOOLEAN
        OBVIOUS
      <4> HIDE DEF stays
      <4> QED
        BY <4>1, <4>2, EspKeepsType
    <3>4. powered' = TRUE /\ UNCHANGED <<alive, ifMode>>
      BY <2>1, <2>4 DEF esp8285_active
    <3>5. espMux' \in BOOLEAN
      <4>1. espMux \in BOOLEAN
        BY DEF NicTypeOK
      <4> DEFINE serves == "AP" \in mode'
      <4>2. espMux' = serves \/ espMux' \in {espMux, FALSE}
        BY Zenon, <3>1 DEF eINIT
      <4>3. serves \in BOOLEAN
        OBVIOUS
      <4> HIDE DEF serves
      <4> QED
        BY Zenon, <4>1, <4>2, <4>3
    <3> QED
      BY <2>3, <3>1, <3>2, <3>3, <3>4, <3>5 DEF NicTypeOK
  <2>5. CASE mode' = {}
    <3>1. PowerOff /\ settled' = TRUE /\ UNCHANGED <<nic, alive, ifMode>>
      BY <2>1, <2>5 DEF esp8285_active
    <3>2. joined' \in BOOLEAN /\ link' \in Addrs \cup {NoAddr}
      BY Zenon, <3>1, EspKeepsType DEF PowerOff
    <3> QED
      BY Zenon, <2>3, <3>1, <3>2 DEF NicTypeOK, PowerOff
  <2> QED
    BY <2>4, <2>5
<1>3. CASE \E n \in Nics : esp8285_nic_connect(n)
  BY Zenon, <1>3 DEF NicTypeOK, esp8285_nic_connect, EspKeeps
<1>4. CASE \E n \in Nics : esp8285_nic_disconnect(n)
  BY <1>4 DEF NicTypeOK, esp8285_nic_disconnect, EspKeeps
<1>5. CASE \E n \in Nics : esp8285_nic_reset(n)
  BY Zenon, <1>5 DEF NicTypeOK, esp8285_nic_reset, EspKeeps
<1>6. CASE ApLost
  BY <1>6 DEF NicTypeOK, ApLost, EspKeeps
<1>7. CASE PeerCloses \/ Rejoins
  BY Zenon, <1>7 DEF NicTypeOK, PeerCloses, Rejoins
<1>8. CASE \E n \in Nics, req \in {"STA", "AP"} \cup {"none"}, set \in BOOLEAN :
             esp8285_config(n, req, set)
  <2>1. PICK n \in Nics, req \in {"STA", "AP"} \cup {"none"}, set \in BOOLEAN :
               esp8285_config(n, req, set)
    BY <1>8
  <2>2. ifMode' \in [Nics -> {"STA", "AP"}]
    BY <2>1 DEF esp8285_config, NicTypeOK
  <2>3. PICK m \in SUBSET {"STA", "AP"} :
          /\ espMode' = m \/ espMode' = {"STA", "AP"}
          /\ EspKeeps("STA" \in m \cap espMode')
    BY <2>1 DEF esp8285_config, wifi_softap_set_config
  <2>4. espMode' \subseteq {"STA", "AP"}
    BY Zenon, <2>3
  <2>5. joined' \in BOOLEAN /\ link' \in Addrs \cup {NoAddr}
    BY <2>3 DEF EspKeeps, NicTypeOK
  <2> QED
    BY Zenon, <2>1, <2>2, <2>4, <2>5 DEF esp8285_config, NicTypeOK
<1> QED
  BY <1>1, <1>2, <1>3, <1>4, <1>5, <1>6, <1>7, <1>8 DEF NicNext

(* So does a restart of the interpreter (main.c).                          *)
LEMMA NicTypeReset ==
    ASSUME NicTypeOK, NicSoftReset
    PROVE  NicTypeOK'
BY Zenon DEF NicTypeOK, NicSoftReset, PowerOff, EspKeeps

(***************************************************************************)
(* Types and descriptors.                                                  *)
(***************************************************************************)

(* Every step of the program, of the collector and of the module keeps the *)
(* types (modusocket.c), so an int8_t is enough for any descriptor a       *)
(* socket ever has.                                                        *)
LEMMA TypeStep ==
    ASSUME TypeOK, [Next]_vars, WifiNicConstants, SocketsConstants
    PROVE  TypeOK'
<1> USE DEF TypeOK
<1>1. ASSUME NEW s \in Socks, socket_make_new(s)
      PROVE  TypeOK'
  <2>1. PICK b \in 0 .. FdBits - 1 :
          /\ fds' = fds \cup {b}
          /\ \/ /\ b < FdMax /\ fd' = [fd EXCEPT ![s] = b]
                /\ live' = live \cup {s} /\ held' = held \cup {s}
             \/ b >= FdMax /\ UNCHANGED <<fd, live, held>>
    BY <1>1 DEF socket_make_new
  <2>2. fd' \in [Socks -> -1 .. FdMax - 1]
    BY <2>1 DEF SocketsConstants
  <2> QED
    BY Zenon, <1>1, <2>1, <2>2 DEF socket_make_new, NicTypeOK
<1>2. ASSUME NEW s \in Socks, NEW a \in Addrs, socket_connect(s, a)
      PROVE  TypeOK'
  BY <1>2 DEF socket_connect, NicTypeOK
<1>3. ASSUME NEW s \in Socks, socket_send(s)
      PROVE  TypeOK'
  BY <1>3 DEF socket_send, NicTypeOK
<1>4. ASSUME NEW s \in Socks, socket_recv(s)
      PROVE  TypeOK'
  BY <1>4 DEF socket_recv, NicTypeOK
<1>5. ASSUME NEW s \in Socks, socket_close(s)
      PROVE  TypeOK'
  <2>1. fd' \in [Socks -> -1 .. FdMax - 1]
    BY <1>5 DEF socket_close, SocketsConstants
  <2> QED
    BY Zenon, <1>5, <2>1 DEF socket_close, releaseTCP, del_fd, NicTypeOK
<1>6. ASSUME NEW s \in Socks, Forget(s)
      PROVE  TypeOK'
  BY <1>6 DEF Forget, NicTypeOK
<1>7. ASSUME NEW S, S \subseteq Socks, Finalise(S), NicTypeOK', orphan' \in BOOLEAN
      PROVE  TypeOK'
  <2>1. fd' \in [Socks -> -1 .. FdMax - 1]
    BY <1>7 DEF Finalise, SocketsConstants
  <2> QED
    BY Zenon, <1>7, <2>1 DEF Finalise, del_fd
<1>8. ASSUME NEW s \in Socks, Collect(s)
      PROVE  TypeOK'
  <2>1. NicTypeOK' /\ orphan' \in BOOLEAN
    BY Zenon, <1>8 DEF Collect, releaseTCP, NicTypeOK
  <2> QED
    BY <1>7, <1>8, <2>1 DEF Collect
<1>9. CASE SoftReset
  BY <1>7, <1>9, NicTypeReset DEF SoftReset
<1>10. CASE NicNext /\ OrphanStays /\ UNCHANGED sockVars
  BY <1>10, NicTypeStep
<1>11. CASE UNCHANGED vars
  BY <1>11 DEF NicTypeOK
<1> QED
  BY <1>1, <1>2, <1>3, <1>4, <1>5, <1>6, <1>8, <1>9, <1>10, <1>11 DEF Next

(* The sockets in S give their descriptors back; those of the others stay  *)
(* theirs (socket_ioctl, del_fd).                                          *)
LEMMA FinaliseOwned ==
    ASSUME TypeOK, FdsOwned, NEW S, S \subseteq Socks, Finalise(S)
    PROVE  FdsOwned'
<1>1. /\ fds' = fds \ {fd[s] : s \in S \cap bound}
      /\ \A t \in Socks : fd'[t] = IF t \in S THEN -1 ELSE fd[t]
  BY DEF Finalise, del_fd
<1>2. ASSUME NEW t \in Socks, fd'[t] # -1
      PROVE  fd'[t] \in fds'
  <2>1. t \notin S /\ fd'[t] = fd[t]
    BY <1>1, <1>2
  <2>2. \A s \in S \cap bound : fd[s] # fd[t]
    BY <1>2, <2>1 DEF FdsOwned
  <2> QED
    BY <1>1, <1>2, <2>1, <2>2 DEF FdsOwned
<1>3. ASSUME NEW s \in Socks, NEW t \in Socks, s # t, fd'[s] = fd'[t]
      PROVE  fd'[s] = -1
  BY <1>1, <1>3 DEF FdsOwned
<1> QED
  BY <1>2, <1>3 DEF FdsOwned

(* Descriptors have one owner in every step: a new one is taken from the   *)
(* free bits only, a released one is forgotten by its socket in the same   *)
(* step (require_new_fd, socket_ioctl).                                    *)
LEMMA FdsOwnedStep ==
    ASSUME TypeOK, FdsOwned, [Next]_vars, SocketsConstants
    PROVE  FdsOwned'
<1>1. ASSUME NEW s \in Socks, socket_make_new(s)
      PROVE  FdsOwned'
  <2>1. PICK b \in 0 .. FdBits - 1 :
          /\ b \notin fds /\ fds' = fds \cup {b}
          /\ fd' = [fd EXCEPT ![s] = b] \/ fd' = fd
    BY <1>1 DEF socket_make_new, IsNewFd
  <2>2. b # -1
    BY DEF SocketsConstants
  <2>3. \A t \in Socks : fd'[t] = fd[t] \/ (t = s /\ fd'[t] = b)
    BY <2>1 DEF TypeOK
  <2>4. \A t \in Socks : fd[t] # b
    BY <2>1, <2>2 DEF FdsOwned
  <2> QED
    BY <2>1, <2>2, <2>3, <2>4 DEF FdsOwned
<1>2. ASSUME NEW s \in Socks, socket_close(s)
      PROVE  FdsOwned'
  <2>1. CASE s \in bound
    <3>1. /\ fds' = fds \ {fd[s]}
          /\ \A t \in Socks : fd'[t] = IF t = s THEN -1 ELSE fd[t]
      BY <1>2, <2>1 DEF socket_close, del_fd, TypeOK
    <3> QED
      BY <3>1 DEF FdsOwned
  <2>2. CASE s \notin bound
    BY <1>2, <2>2 DEF socket_close, del_fd, FdsOwned
  <2> QED
    BY <2>1, <2>2
<1>3. ASSUME NEW s \in Socks, Collect(s)
      PROVE  FdsOwned'
  BY <1>3, FinaliseOwned DEF Collect
<1>4. CASE SoftReset
  BY <1>4, FinaliseOwned DEF SoftReset, TypeOK
<1>5. CASE UNCHANGED <<fd, fds>>
  BY <1>5 DEF FdsOwned
<1> QED
  BY <1>1, <1>2, <1>3, <1>4, <1>5
     DEF Next, socket_connect, socket_send, socket_recv, Forget

(* Types for every number of sockets and descriptors (modusocket.c).       *)
THEOREM SocketTypes == Spec => []TypeOK
<1>1. WifiNicConstants /\ SocketsConstants
  BY WifiNicConstants, SocketsConstants
<1>2. Init => TypeOK
  <2>1. -1 \in -1 .. FdMax - 1
    BY <1>1 DEF SocketsConstants
  <2>2. Init => NicTypeOK
    BY Zenon DEF Init, NicInit, NicTypeOK
  <2>3. Init => lastSend \in [for : Addrs \cup {NoAddr}, to : Addrs \cup {NoAddr},
                                 over : BOOLEAN]
    BY DEF Init
  <2> QED
    BY Zenon, <2>1, <2>2, <2>3 DEF Init, TypeOK
<1>3. TypeOK /\ [Next]_vars => TypeOK'
  BY <1>1, TypeStep
<1> QED
  BY <1>2, <1>3, PTL DEF Spec

(* A descriptor never has two owners and is never free while owned,        *)
(* whatever the program, the collector, the module and restarts do         *)
(* (require_new_fd, del_fd).                                               *)
THEOREM SocketFds == Spec => []FdsOwned
<1>1. WifiNicConstants /\ SocketsConstants
  BY WifiNicConstants, SocketsConstants
<1>2. Init => FdsOwned
  BY DEF Init, FdsOwned
<1>3. TypeOK /\ FdsOwned /\ [Next]_vars => FdsOwned'
  BY <1>1, FdsOwnedStep
<1> QED
  BY <1>2, <1>3, SocketTypes, PTL DEF Spec

(***************************************************************************)
(* Whose link it is.                                                       *)
(***************************************************************************)

(* A program that connects one socket at a time and closes it.             *)
Tidy == OneAtATime /\ CloseFirst

(* The module alone only ever takes the link away (mod_wifi_spi.c).        *)
LEMMA NicLink ==
    ASSUME NicNext
    PROVE  link' \in {link, NoAddr}
<1>1. ASSUME NEW on, EspKeeps(on)
      PROVE  link' \in {link, NoAddr}
  BY <1>1 DEF EspKeeps
<1>2. ASSUME NEW n \in Nics, NEW on \in BOOLEAN, esp8285_active(n, on)
      PROVE  link' \in {link, NoAddr}
  BY Zenon, <1>2, <1>1 DEF esp8285_active, eINIT, PowerOff
<1> QED
  BY Zenon, <1>1, <1>2 DEF NicNext, esp8285_make_new, esp8285_config, esp8285_nic_connect,
     esp8285_nic_disconnect, esp8285_nic_reset, ApLost, PeerCloses, Rejoins

(* connect finds no link but one that a close failed to end                *)
(* (socket_connect).                                                       *)
LEMMA LinkConnect ==
    ASSUME TypeOK, LinkOwned, Tidy, WifiNicConstants,
           NEW s \in Socks, NEW a \in Addrs, socket_connect(s, a)
    PROVE  LinkOwned'
<1>1. bound \subseteq {s} /\ (s \in bound => peer[s] = NoAddr)
  BY DEF LinkOwned, Tidy, socket_connect, MayConnect
<1>2. link = NoAddr \/ orphan
  BY <1>1 DEF LinkOwned
<1>3. bound' = {s} /\ s \in held' /\ \A t \in Socks : t # s => peer'[t] = peer[t]
  BY <1>1 DEF socket_connect, TypeOK
<1>4. \A t \in Socks : peer[t] = NoAddr
  BY <1>1 DEF LinkOwned
<1>5. link' # NoAddr /\ ~orphan' => peer'[s] = link'
  BY <1>2 DEF socket_connect, TypeOK
<1> QED
  BY <1>3, <1>4, <1>5 DEF LinkOwned

(* A socket that ends takes the link with it, had none, or leaves an       *)
(* orphan (releaseTCP).                                                    *)
LEMMA LinkRelease ==
    ASSUME TypeOK, LinkOwned, Tidy, NEW S, S \subseteq Socks, releaseTCP(S),
           bound' = bound \ S, bound' \subseteq held',
           \A t \in Socks : peer'[t] = IF t \in S THEN NoAddr ELSE peer[t]
    PROVE  LinkOwned'
<1>1. \A t \in Socks : peer'[t] # NoAddr => t \in bound'
  BY DEF LinkOwned
<1>2. link' # NoAddr /\ ~orphan' => bound' = bound /\ link' = link /\ ~orphan
  BY Zenon DEF releaseTCP
<1>3. link' # NoAddr /\ ~orphan' => \E t \in bound' : peer'[t] = link'
  BY <1>2 DEF LinkOwned, TypeOK
<1> QED
  BY <1>1, <1>3 DEF LinkOwned

(* The link keeps its one owner in every step (modusocket.c).              *)
LEMMA LinkOwnedStep ==
    ASSUME TypeOK, LinkOwned, Tidy, WifiNicConstants, [Next]_vars
    PROVE  LinkOwned'
<1>1. ASSUME NEW s \in Socks, socket_make_new(s)
      PROVE  LinkOwned'
  <2>1. held \subseteq held'
    BY <1>1 DEF socket_make_new
  <2> QED
    BY <1>1, <2>1 DEF LinkOwned, socket_make_new
<1>2. ASSUME NEW s \in Socks, NEW a \in Addrs, socket_connect(s, a)
      PROVE  LinkOwned'
  BY <1>2, LinkConnect
<1>3. ASSUME NEW s \in Socks, socket_close(s)
      PROVE  LinkOwned'
  <2>1. \A t \in Socks : peer'[t] = IF t \in {s} THEN NoAddr ELSE peer[t]
    BY <1>3 DEF socket_close, TypeOK
  <2>2. bound' = bound \ {s} /\ bound' \subseteq held' /\ releaseTCP({s})
    BY <1>3 DEF socket_close, LinkOwned
  <2> QED
    BY <2>1, <2>2, LinkRelease
<1>4. ASSUME NEW s \in Socks, Forget(s)
      PROVE  LinkOwned'
  BY <1>4 DEF Forget, LinkOwned, Tidy
<1>5. ASSUME NEW s \in Socks, Collect(s)
      PROVE  LinkOwned'
  <2>1. \A t \in Socks : peer'[t] = IF t \in {s} THEN NoAddr ELSE peer[t]
    BY <1>5 DEF Collect, Finalise
  <2>2. bound' = bound \ {s} /\ bound' \subseteq held' /\ releaseTCP({s})
    BY <1>5 DEF Collect, Finalise, LinkOwned
  <2> QED
    BY <2>1, <2>2, LinkRelease
<1>6. CASE SoftReset
  <2>1. bound' = {} /\ \A t \in Socks : peer'[t] = NoAddr
    BY <1>6 DEF SoftReset, Finalise, TypeOK, LinkOwned
  <2>2. link' = NoAddr
    BY <1>6 DEF SoftReset, NicSoftReset, PowerOff, EspKeeps
  <2> QED
    BY <2>1, <2>2 DEF LinkOwned
<1>7. CASE /\ link' \in {link, NoAddr} /\ (OrphanStays \/ UNCHANGED orphan)
           /\ UNCHANGED <<bound, held, peer>>
  <2>1. link' # NoAddr /\ ~orphan' => link' = link /\ ~orphan
    BY <1>7, Zenon
  <2> QED
    BY <1>7, <2>1 DEF LinkOwned
<1>8. CASE NicNext /\ OrphanStays /\ UNCHANGED sockVars
  BY <1>7, <1>8, NicLink
<1> QED
  BY <1>1, <1>2, <1>3, <1>4, <1>5, <1>6, <1>7, <1>8
     DEF Next, socket_send, socket_recv

(* While the link has one owner, what that owner sends goes to its peer    *)
(* (socket_send).                                                          *)
LEMMA SendsHomeStep ==
    ASSUME TypeOK, LinkOwned, SendsHome, [Next]_vars
    PROVE  SendsHome'
<1>1. ASSUME NEW s \in Socks, socket_send(s)
      PROVE  SendsHome'
  <2>1. orphan \/ peer[s] = link
    BY <1>1 DEF socket_send, LinkOwned
  <2> QED
    BY <1>1, <2>1 DEF socket_send, SendsHome
<1>2. CASE UNCHANGED lastSend
  BY <1>2 DEF SendsHome
<1> QED
  BY Zenon, <1>1, <1>2 DEF Next, socket_make_new, socket_connect, socket_recv,
     socket_close, Forget, Collect, Finalise, SoftReset

(* The link has one owner, for any number of sockets (modusocket.c).       *)
THEOREM SocketLink == Tidy => (Spec => []LinkOwned)
<1> SUFFICES ASSUME Tidy PROVE Spec => []LinkOwned
  OBVIOUS
<1>1. WifiNicConstants
  BY WifiNicConstants
<1>2. Init => LinkOwned
  BY DEF Init, NicInit, LinkOwned
<1>3. TypeOK /\ LinkOwned /\ [Next]_vars => LinkOwned'
  BY <1>1, LinkOwnedStep
<1> QED
  BY <1>2, <1>3, SocketTypes, PTL DEF Spec

(* Data goes to the address its socket was connected to, through losses of *)
(* the link, failed calls and restarts, except over a link that a close    *)
(* failed to end (socket_send, sATCIPSTARTSingle).                         *)
THEOREM SocketSends == Tidy => (Spec => []SendsHome)
<1> SUFFICES ASSUME Tidy PROVE Spec => []SendsHome
  OBVIOUS
<1>1. Init => SendsHome
  BY DEF Init, SendsHome
<1>2. TypeOK /\ LinkOwned /\ SendsHome /\ [Next]_vars => SendsHome'
  BY SendsHomeStep
<1>3. Spec => []LinkOwned
  BY SocketLink
<1> QED
  BY <1>1, <1>2, <1>3, SocketTypes, PTL DEF Spec

(***************************************************************************)
(* The mode of the module.                                                 *)
(***************************************************************************)

(* A powered module is in the mode that serves every active interface, for *)
(* any number of interfaces, whatever mode it had stored and through       *)
(* restarts, unless the last active() raised or config() was called since  *)
(* (esp8285_active, eINIT).                                                *)
THEOREM NicMode == Spec => []ModeSettled
<1>1. Init => ModeSettled
  BY DEF Init, NicInit, ModeSettled
<1>2. ASSUME ModeSettled, [Next]_vars
      PROVE  ModeSettled'
  <2>1. ASSUME NEW n \in Nics, NEW on \in BOOLEAN, esp8285_active(n, on)
        PROVE  ModeSettled'
    <3>1. CASE mode' # {}
      <4>1. PICK ok \in BOOLEAN : powered' = TRUE /\ eINIT(mode', ok) /\ settled' = ok
        BY <2>1, <3>1 DEF esp8285_active
      <4>2. ok => espMode' = mode'
        BY <4>1 DEF eINIT
      <4> QED
        BY <3>1, <4>1, <4>2 DEF ModeSettled
    <3>2. CASE mode' = {}
      BY <2>1, <3>2 DEF esp8285_active, PowerOff, ModeSettled
    <3> QED
      BY <3>1, <3>2
  <2>2. CASE UNCHANGED <<mode, settled, powered, espMode>>
    BY <1>2, <2>2 DEF ModeSettled
  <2>3. ASSUME NEW n \in Nics, NEW req, NEW set, esp8285_config(n, req, set)
        PROVE  ModeSettled'
    BY <2>3 DEF esp8285_config, ModeSettled
  <2>4. CASE NicNext
    BY Zenon, <2>1, <2>2, <2>3, <2>4 DEF NicNext, esp8285_make_new, esp8285_nic_connect,
       esp8285_nic_disconnect, esp8285_nic_reset, ApLost, PeerCloses, Rejoins
  <2>5. CASE SoftReset
    BY <2>5 DEF SoftReset, NicSoftReset, PowerOff, ModeSettled
  <2> QED
    BY Zenon, <1>2, <2>2, <2>4, <2>5 DEF Next, socket_make_new, socket_connect, socket_send,
       socket_recv, socket_close, Forget, Collect
<1> QED
  BY <1>1, <1>2, PTL DEF Spec
==============================================================================

------------------------------- MODULE Sockets -------------------------------
(* The socket objects of ports/rp2/modusocket.c over the network interface *)
(* of WifiNic: their descriptors (g_fds), the interface they select, their *)
(* use of the module's only TCP link, and their end by close() or by the   *)
(* garbage collector, whose finaliser is close() as well.                  *)
EXTENDS WifiNic, Integers

CONSTANTS
    Socks,       \* places for socket objects
    FdBits,      \* bits of g_fds (160)
    FdMax,       \* descriptors that fit the int8_t they are kept in (128)
    OneAtATime,  \* the program connects one socket at a time
    CloseFirst,  \* it closes a socket before it gives it up
    SoftResets   \* the interpreter may be restarted

ASSUME SocketsConstants ==
    /\ FdBits \in Nat /\ FdMax \in Nat /\ FdMax <= FdBits
    /\ {OneAtATime, CloseFirst, SoftResets} \subseteq BOOLEAN

VARIABLES
    live,         \* socket objects on the heap
    held,         \* those the program still refers to
    bound,        \* those with an interface selected (self->nic)
    fd,           \* self->fd, negative once released
    peer,         \* the address the last successful connect was given
    peer_closed,  \* sockets that were told their peer has gone
    fds,          \* bits set in g_fds
    orphan,       \* history: the link is one that AT+CIPCLOSE failed to end
    lastSend      \* the last payload sent: for whom, to whom it went, and
                  \* whether over an orphan

sockVars == <<live, held, bound, fd, peer, peer_closed, fds, lastSend>>
vars == <<mode, nic, alive, ifMode, settled, powered, espMode, espMux, joined, link,
          live, held, bound, fd, peer, peer_closed, fds, orphan, lastSend>>

Init ==
    /\ NicInit
    /\ live = {} /\ held = {} /\ bound = {} /\ peer_closed = {}
    /\ fd = [s \in Socks |-> -1] /\ peer = [s \in Socks |-> NoAddr]
    /\ fds = {} /\ orphan = FALSE
    /\ lastSend = [for |-> NoAddr, to |-> NoAddr, over |-> FALSE]

(* An orphan is one until the link goes down.                              *)
OrphanStays == orphan' = (orphan /\ link' # NoAddr)

(* The lowest bit that is not set.                                         *)
IsNewFd(b) == /\ b \in 0 .. FdBits - 1 /\ b \notin fds
              /\ \A c \in 0 .. b - 1 : c \in fds

(* A bit beyond the range of int8_t is set, but the descriptor read back   *)
(* is negative: ENOMEM, and nothing will ever clear the bit.               *)
socket_make_new(s) ==
    /\ s \notin live
    /\ \E b \in 0 .. FdBits - 1 :
          /\ IsNewFd(b) /\ fds' = fds \cup {b}
          /\ \/ /\ b < FdMax /\ fd' = [fd EXCEPT ![s] = b]
                /\ live' = live \cup {s} /\ held' = held \cup {s}
             \/ b >= FdMax /\ UNCHANGED <<fd, live, held>>
    /\ UNCHANGED <<nicVars, espVars, bound, peer, peer_closed, orphan, lastSend>>

(* What the program promises about connect.                                *)
MayConnect(s) ==
    OneAtATime => /\ s \in bound => peer[s] = NoAddr
                  /\ held \cap bound \subseteq {s}

(* What happens with an interface that was deleted is undefined and not    *)
(* followed further.                                                       *)
mod_network_find_nic == nic \in alive

socket_select_nic(s) ==
    /\ s \in bound \/ mod_network_find_nic
    /\ bound' = bound \cup {s}

(* AT+CIPSTART.  With a link up the module answers ALREADY CONNECT, which  *)
(* counts as success; with CIPMUX=1 it misses the number of the link.      *)
esp8285_socket_connect(s, a) ==
    /\ peer_closed' = peer_closed \ {s}
    /\ \/ /\ joined /\ ~espMux /\ link' = IF link = NoAddr THEN a ELSE link
          /\ peer' = [peer EXCEPT ![s] = a]
       \/ UNCHANGED <<link, peer>>

socket_connect(s, a) ==
    /\ s \in held /\ MayConnect(s)
    /\ socket_select_nic(s) /\ esp8285_socket_connect(s, a) /\ OrphanStays
    /\ UNCHANGED <<nicVars, powered, espMode, espMux, joined,
                   live, held, fd, fds, lastSend>>

(* Without a link AT+CIPSEND fails: EPIPE.                                 *)
esp8285_socket_send(s) ==
    /\ s \notin peer_closed /\ link # NoAddr
    /\ lastSend' = [for |-> peer[s], to |-> link, over |-> orphan]

(* Both send and write.                                                    *)
socket_send(s) ==
    /\ s \in held \cap bound /\ esp8285_socket_send(s)
    /\ UNCHANGED <<nicVars, espVars, live, held, bound, fd, peer,
                   peer_closed, fds, orphan>>

(* As far as the socket changes: it finds CLOSED.                          *)
esp8285_socket_recv(s) ==
    /\ link = NoAddr /\ peer_closed' = peer_closed \cup {s}

(* Both recv and read.                                                     *)
socket_recv(s) ==
    /\ s \in held \cap bound /\ esp8285_socket_recv(s)
    /\ UNCHANGED <<nicVars, espVars, live, held, bound, fd, peer, fds,
                   orphan, lastSend>>

(* MP_STREAM_CLOSE of the sockets in S: AT+CIPCLOSE ends the link, whoever *)
(* uses it, if it does not fail, of which nobody takes notice; then the    *)
(* descriptor is released.  A socket that selected no interface is left as *)
(* it is, its descriptor with it.                                          *)
releaseNothing(S) == UNCHANGED <<link, orphan>>
releaseTCP(S) ==
    \/ S \cap bound # {} /\ link' = NoAddr /\ orphan' = FALSE
    \/ link' = link /\ orphan' = (link # NoAddr /\ (orphan \/ S \cap bound # {}))
del_fd(S) == fds' = fds \ {fd[s] : s \in S \cap bound}

(* close() that does not set fd to -1.                                     *)
socket_closeKeep(s) ==
    /\ s \in held
    /\ releaseTCP({s}) /\ del_fd({s}) /\ bound' = bound \ {s}
    /\ peer' = [peer EXCEPT ![s] = NoAddr]
    /\ UNCHANGED <<nicVars, powered, espMode, espMux, joined, live, held, fd, peer_closed,
                   lastSend>>
socket_close(s) ==
    /\ s \in held
    /\ releaseTCP({s}) /\ del_fd({s}) /\ bound' = bound \ {s}
    /\ fd' = IF s \in bound THEN [fd EXCEPT ![s] = -1] ELSE fd
    /\ peer' = [peer EXCEPT ![s] = NoAddr]
    /\ UNCHANGED <<nicVars, powered, espMode, espMux, joined, live, held, peer_closed,
                   lastSend>>

(* The program lets go of a socket.                                        *)
Forget(s) ==
    /\ s \in held /\ held' = held \ {s} /\ (CloseFirst => s \notin bound)
    /\ UNCHANGED <<nicVars, espVars, live, bound, fd, peer, peer_closed,
                   fds, orphan, lastSend>>

(* A finaliser that does not forget the interface.                         *)
FinaliseBound(S) ==
    /\ del_fd(S) /\ live' = live \ S /\ held' = held \ S /\ UNCHANGED bound
    /\ peer_closed' = peer_closed \ S
    /\ fd' = [s \in Socks |-> IF s \in S THEN -1 ELSE fd[s]]
    /\ peer' = [s \in Socks |-> IF s \in S THEN NoAddr ELSE peer[s]]
    /\ UNCHANGED lastSend
(* The sockets in S are closed by their finaliser and are no more.         *)
Finalise(S) ==
    /\ del_fd(S) /\ live' = live \ S /\ held' = held \ S /\ bound' = bound \ S
    /\ peer_closed' = peer_closed \ S
    /\ fd' = [s \in Socks |-> IF s \in S THEN -1 ELSE fd[s]]
    /\ peer' = [s \in Socks |-> IF s \in S THEN NoAddr ELSE peer[s]]
    /\ UNCHANGED lastSend

Collect(s) ==
    /\ s \in live \ held /\ releaseTCP({s}) /\ Finalise({s})
    /\ UNCHANGED <<nicVars, powered, espMode, espMux, joined>>

SoftReset == SoftResets /\ NicSoftReset /\ Finalise(live) /\ OrphanStays

Next ==
    \/ \E s \in Socks :
          \/ socket_make_new(s)
          \/ \E a \in Addrs : socket_connect(s, a)
          \/ socket_send(s)
          \/ socket_recv(s)
          \/ socket_close(s)
          \/ Forget(s)
          \/ Collect(s)
    \/ SoftReset
    \/ NicNext /\ OrphanStays /\ UNCHANGED sockVars

Spec == Init /\ [][Next]_vars

(***************************************************************************)
(* Properties.                                                             *)
(***************************************************************************)
(* Only sockets on the heap are held, have an interface or know of a       *)
(* closed peer, and no socket has a descriptor beyond int8_t               *)
(* (socket_make_new, the finaliser).                                       *)
TypeOK ==
    /\ NicTypeOK
    /\ live \subseteq Socks /\ held \subseteq live /\ bound \subseteq live
    /\ peer_closed \subseteq live
    /\ fd \in [Socks -> -1 .. FdMax - 1] /\ peer \in [Socks -> Addrs \cup {NoAddr}]
    /\ fds \subseteq 0 .. FdBits - 1
    /\ orphan \in BOOLEAN
    /\ lastSend \in [for : Addrs \cup {NoAddr}, to : Addrs \cup {NoAddr}, over : BOOLEAN]

(* No two sockets have the same descriptor, and the descriptor of a socket *)
(* is not free for another to take, through any order of connect, close,   *)
(* connect after close, collection and restart (require_new_fd, del_fd).   *)
FdsOwned ==
    /\ \A s \in Socks : fd[s] # -1 => fd[s] \in fds
    /\ \A s, t \in Socks : s # t /\ fd[s] = fd[t] => fd[s] = -1

(* What a socket sends goes to the address it was connected to, not to the *)
(* peer of another socket's link (sATCIPSTARTSingle takes ALREADY CONNECT  *)
(* for success), except over a link that a close() left up: AT+CIPCLOSE    *)
(* failed and esp8285_socket_close did not look.                           *)
SendsHome == ~lastSend.over => lastSend.for = lastSend.to

(* Why it does, for a program that connects one socket at a time and       *)
(* closes it: a link that no close() left up belongs to the one socket     *)
(* that has an interface, which the program still holds (socket_connect,   *)
(* socket_close).                                                          *)
LinkOwned ==
    /\ bound \subseteq held /\ \A s, t \in bound : s = t
    /\ \A s \in Socks : peer[s] # NoAddr => s \in bound
    /\ link # NoAddr /\ ~orphan => \E s \in bound : peer[s] = link
==============================================================================

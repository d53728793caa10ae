------------------------------ MODULE AtCommand ------------------------------
(* What the callers of ports/rp2/wifi_spi.c rely on: a command is issued,  *)
(* the WiFi module performs it or not, and the call returns true if it did *)
(* and false if not ("@retval true - success. @retval false - failure.",   *)
(* wifi_spi.h).                                                            *)
(* A command is performed while its call lasts, never after it returned.   *)
(* The sockets and the network interface (Sockets.tla) are built on this   *)
(* contract; AtLink shows when the exchange over the wire honours it.      *)

VARIABLES op,       \* the command being called, or "none"
          done,     \* the module has performed it (or the last one called)
          result,   \* what the last call returned, "none" while it runs
          joined,   \* the module is joined to an access point
          link      \* the module's only TCP link is up

vars == <<op, done, result, joined, link>>

Commands == {"AT", "CWJAP", "CWQAP", "RST", "CIPSTART", "CIPCLOSE", "CIPSEND"}

(* What performing command c makes of the module's state.                  *)
Joined(c, j) == CASE c = "CWJAP" -> TRUE
                  [] c \in {"CWQAP", "RST"} -> FALSE
                  [] OTHER -> j
Linked(c, l) == CASE c = "CIPSTART" -> TRUE
                  [] c \in {"CIPCLOSE", "CWQAP", "RST"} -> FALSE
                  [] OTHER -> l

Init == /\ op = "none" /\ result = "none" /\ done = FALSE
        /\ joined = FALSE /\ link = FALSE

Begin(c) == /\ op = "none"
            /\ op' = c /\ done' = FALSE /\ result' = "none"
            /\ UNCHANGED <<joined, link>>

Perform == /\ op # "none" /\ ~done
           /\ done' = TRUE
           /\ joined' = Joined(op, joined) /\ link' = Linked(op, link)
           /\ UNCHANGED <<op, result>>

Return(r) == /\ op # "none" /\ (r = "true" <=> done)
             /\ op' = "none" /\ result' = r
             /\ UNCHANGED <<done, joined, link>>

(* The peer goes away, the access point goes away or is joined again.      *)
Outside == /\ joined' \in BOOLEAN /\ link' \in {link, FALSE}
           /\ UNCHANGED <<op, done, result>>

Next == \/ \E c \in Commands : Begin(c)
        \/ Perform
        \/ \E r \in {"true", "false"} : Return(r)
        \/ Outside

Spec == Init /\ [][Next]_vars
==============================================================================

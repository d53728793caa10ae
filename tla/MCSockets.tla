------------------------------ MODULE MCSockets ------------------------------
(* Instances of Sockets for model checking; the values are in the          *)
(* configuration files.                                                    *)
EXTENDS Sockets, TLC

(* Sockets, addresses and interface objects are interchangeable.           *)
Symmetry == Permutations(Socks) \cup Permutations(Addrs) \cup Permutations(Nics)
==============================================================================

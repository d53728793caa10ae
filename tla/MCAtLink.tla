------------------------------ MODULE MCAtLink ------------------------------
(* Instances of AtLink for model checking; the values are in the           *)
(* configuration files.                                                    *)
EXTENDS AtLink
=============================================================================

------------------------------ MODULE MCServer ------------------------------
(* A small instance of Server.  make lets the administrator create a key, show lists the
   keys with that key, ask is completed under the administrator's, look asks for the health. *)
EXTENDS Server

CONSTANTS admin, make, ask, show, look

MCKind == [r \in Requests |-> CASE r = make -> "create" [] r = ask  -> "complete"
                                [] r = show -> "list"   [] r = look -> "health"]
MCKey  == [r \in Requests |-> IF r = show THEN make ELSE admin]
=============================================================================

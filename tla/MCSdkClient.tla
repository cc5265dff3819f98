------------------------------ MODULE MCSdkClient ------------------------------
(* One call creates something, the other one reads or uses a session.       *)
EXTENDS SdkClient

CONSTANTS c1, c2

MCMethods ==
    [c \in Call |-> IF c = c1 THEN {"create", "endpoint"} ELSE {"read", "submit", "bootstrap"}]
===============================================================================

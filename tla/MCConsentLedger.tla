--------------------------- MODULE MCConsentLedger ----------------------------
(***************************************************************************)
(* Small instances of ConsentLedger for TLC.                               *)
(***************************************************************************)
EXTENDS ConsentLedger, TLC

\* Keys that the state tells apart from the others.
Used == {k \in Key : idem[k] # None \/ \E c \in Call : req[c] # None /\ KeyOf(c) = k}

\* Of the keys that nothing distinguishes, a call begins with a fixed one.  To
\* exchange two of them in the rest of a behaviour makes a behaviour again, fair to
\* the same calls, so no history is lost but for the names of its keys; unlike
\* symmetry this is sound for liveness.
FreshKeysAlike ==
    \A c \in Call :
        pc[c] = "idle" /\ pc'[c] # "idle" =>
            \/ req'[c].key \in Used
            \/ req'[c].key = CHOOSE k \in Key \ Used : TRUE
===============================================================================

--------------------------- MODULE TunnelRegistry ---------------------------
(***************************************************************************)
(* What the tunnel layer promises JavaScript about tunnel ids (spec 4.6    *)
(* and the ProxyEngine contract): a tunnel is registered under a fresh id; *)
(* its id may then be issued to JavaScript (openWebSocket, connectTcp);    *)
(* an id that was never issued may be discarded by the call that created   *)
(* the tunnel; an issued id leaves the registry only when JavaScript       *)
(* closes it, and then leaves both at once.                                *)
(***************************************************************************)
CONSTANTS Ids

VARIABLES
    registry,  \* ids that resolve to a tunnel
    issued     \* ids JavaScript holds open

regVars == <<registry, issued>>

Init ==
    /\ registry = {}
    /\ issued = {}

\* A tunnel is stored under an id no tunnel has.
Register(t) ==
    /\ t \notin registry
    /\ registry' = registry \cup {t}
    /\ UNCHANGED issued

\* A registered tunnel's id is given to JavaScript.
Issue(t) ==
    /\ t \in registry
    /\ issued' = issued \cup {t}
    /\ UNCHANGED registry

\* A tunnel whose id JavaScript never got is dropped.
Discard(t) ==
    /\ t \notin issued
    /\ registry' = registry \ {t}
    /\ UNCHANGED issued

\* JavaScript closes an id: it stops resolving and is no longer held.
Withdraw(t) ==
    /\ registry' = registry \ {t}
    /\ issued' = issued \ {t}

Next == \E t \in Ids : Register(t) \/ Issue(t) \/ Discard(t) \/ Withdraw(t)

Spec == Init /\ [][Next]_regVars
=============================================================================

------------------------------ MODULE DrainGate ------------------------------
(***************************************************************************)
(* What TcpServer promises its callers (comment of close_all_clients() in  *)
(* src/net/tcp_server.h): a set of live clients behind a gate.  A client   *)
(* is admitted once, and only through an open gate.  A disconnect shuts    *)
(* the gate, waits until nobody is left, runs its callback with nobody     *)
(* inside, and opens the gate again.  Stopping closes it for good.         *)
(***************************************************************************)
CONSTANT Clients

VARIABLES live,    \* clients with a handler, or about to get one
          known,   \* clients ever admitted
          gate     \* "open", "shut", "callback" or "closed"

gvars == <<live, known, gate>>

Init == live = {} /\ known = {} /\ gate = "open"

Admit(c) ==
    /\ gate = "open" /\ c \notin known
    /\ live' = live \cup {c}
    /\ known' = known \cup {c}
    /\ UNCHANGED gate

Leave(c) ==
    /\ c \in live
    /\ live' = live \ {c}
    /\ UNCHANGED <<known, gate>>

Shut   == gate = "open" /\ gate' = "shut" /\ UNCHANGED <<live, known>>
Drain  == /\ gate = "shut" /\ live = {}
          /\ gate' = "callback" /\ UNCHANGED <<live, known>>
Reopen == gate = "callback" /\ gate' = "open" /\ UNCHANGED <<live, known>>
Close  == gate = "open" /\ gate' = "closed" /\ UNCHANGED <<live, known>>

Next ==
    \/ \E c \in Clients : Admit(c) \/ Leave(c)
    \/ Shut \/ Drain \/ Reopen \/ Close

Spec == Init /\ [][Next]_gvars
=============================================================================

--------------------------- MODULE ReverseChannel ---------------------------
(***************************************************************************)
(* The registry of /reverse sockets (src/airplay/reverse_channel.cpp): the *)
(* connection's own thread registers its socket under the session id the   *)
(* phone names (handle_reverse in src/airplay/routes.cpp) and unregisters  *)
(* that id when its read loop ends (handle_client in server.cpp), before   *)
(* the worker closes the descriptor.  Other threads look a session's       *)
(* descriptor up and send FCUP requests on it.  A descriptor is a number   *)
(* the kernel gives to the next connection once it is closed.              *)
(***************************************************************************)
EXTENDS Naturals

CONSTANTS Conns,     \* control connections, each used once
          Fds,       \* descriptors
          Ids,       \* X-Apple-Session-IDs
          Names,     \* the session ids the phone may name on each connection
          Unset

ASSUME ReverseAssumption ==
    /\ Names \in [Conns -> SUBSET Ids]
    /\ Unset \notin Conns \cup Fds \cup Ids

VARIABLES stage,    \* "away", "open", "ended" or "closed"
          fdOf,     \* the descriptor of an open connection
          lost,     \* connections whose read loop is over: the phone has
                    \* gone, or they were cancelled
          named,    \* session.reverse_session_id
          fds       \* fds_: the descriptor registered for a session id

registry == <<stage, fdOf, lost, named, fds>>

ReverseInit ==
    /\ stage = [c \in Conns |-> "away"]
    /\ fdOf = [c \in Conns |-> Unset]
    /\ lost = {}
    /\ named = [c \in Conns |-> Unset]
    /\ fds = [s \in Ids |-> Unset]

\* The descriptor is free.
Unused(f) == \A c \in Conns : fdOf[c] # f

Accepts(c, f) ==
    /\ stage[c] = "away" /\ Unused(f)
    /\ stage' = [stage EXCEPT ![c] = "open"]
    /\ fdOf' = [fdOf EXCEPT ![c] = f]
    /\ UNCHANGED <<lost, named, fds>>

PhoneGoes(c) ==
    /\ stage[c] = "open" /\ c \notin lost
    /\ lost' = lost \cup {c}
    /\ UNCHANGED <<stage, fdOf, named, fds>>

\* handle_reverse() and register_socket(): a newer entry replaces an older one.
Registers(c, s) ==
    /\ stage[c] = "open" /\ c \notin lost
    /\ s \in Names[c]
    /\ named' = [named EXCEPT ![c] = s]
    /\ fds' = [fds EXCEPT ![s] = fdOf[c]]
    /\ UNCHANGED <<stage, fdOf, lost>>

\* unregister_socket(reverse_session_id), whatever descriptor is registered.
\* A name with a suffix after _ is a mutated form of the definition that
\* follows it.
Erased_Kept(s) == fds
Erased(s) == IF s = Unset THEN fds ELSE [fds EXCEPT ![s] = Unset]

Unregisters(c) ==
    /\ stage[c] = "open" /\ c \in lost
    /\ stage' = [stage EXCEPT ![c] = "ended"]
    /\ fds' = Erased(named[c])
    /\ UNCHANGED <<fdOf, lost, named>>

\* The worker of TcpServer closes the descriptor.
Closes(c) ==
    /\ stage[c] = "ended"
    /\ stage' = [stage EXCEPT ![c] = "closed"]
    /\ fdOf' = [fdOf EXCEPT ![c] = Unset]
    /\ UNCHANGED <<lost, named, fds>>

ReverseNext ==
    \E c \in Conns :
       \/ \E f \in Fds : Accepts(c, f)
       \/ PhoneGoes(c)
       \/ \E s \in Ids : Registers(c, s)
       \/ Unregisters(c) \/ Closes(c)

ReverseSpec == ReverseInit /\ [][ReverseNext]_registry
ReverseFairSpec == ReverseSpec /\ \A c \in Conns : WF_registry(Unregisters(c)) /\ WF_registry(Closes(c))

-----------------------------------------------------------------------------
(* Properties.                                                             *)

ReverseTypeOK ==
    /\ stage \in [Conns -> {"away", "open", "ended", "closed"}]
    /\ fdOf \in [Conns -> Fds \cup {Unset}]
    /\ lost \subseteq Conns
    /\ named \in [Conns -> Ids \cup {Unset}]
    /\ fds \in [Ids -> Fds \cup {Unset}]

\* "The owning Server::handle_client thread keeps the socket alive and the
\* session-ID entry until the TCP connection closes" (reverse_channel.h): a
\* registered descriptor is the open socket of a connection that named the
\* session, never a number some other connection has got since.  It holds when
\* no connection names two sessions.
RegisteredIsOpen ==
    \A s \in Ids : fds[s] # Unset =>
        \E c \in Conns : fdOf[c] = fds[s] /\ stage[c] = "open" /\ named[c] = s

\* The inductive invariant behind RegisteredIsOpen: a connection has one
\* descriptor while it is open, and no two have the same.
DescriptorsFit ==
    /\ \A c \in Conns : fdOf[c] # Unset <=> stage[c] \in {"open", "ended"}
    /\ \A c, d \in Conns : fdOf[c] # Unset /\ fdOf[c] = fdOf[d] => c = d
    /\ \A c \in Conns : named[c] # Unset => named[c] \in Names[c]
    /\ \A c \in Conns : stage[c] = "away" => named[c] = Unset

OneName == \A c \in Conns : \A s, t \in Names[c] : s = t

ReverseIInv == ReverseTypeOK /\ DescriptorsFit /\ (OneName => RegisteredIsOpen)
=============================================================================

-------------------------- MODULE SessionAdmission --------------------------
(***************************************************************************)
(* From the command line to the processes a session admits: the binding    *)
(* that agent-secret session create asks for, by a flag or a profile       *)
(* (RequestBuilder), is what the daemon binds the session to, and what     *)
(* later callers are held against (SessionPeers).                          *)
(***************************************************************************)
EXTENDS RequestBuilder, SessionPeers

VARIABLE asked   \* the binding of the request the daemon has accepted, or None

admissionVars == <<requestVars, peerVars, asked>>

AdmissionInit == RequestInit /\ PeersInit /\ asked = None

\* HandleSessionCreate gets the request: of what the client knew only the binding
\* matters from now on.
Receive ==
    /\ step = "accepted"
    /\ command = "session create"
    /\ asked' = req.bind
    /\ step' = "received"
    /\ bind' = None /\ given' = <<>> /\ env' = Nothing /\ held' = Nothing
    /\ conf' = NoConf /\ only' = {} /\ secrets' = <<>> /\ req' = None
    /\ UNCHANGED <<command, changed, configVars, peerVars>>

Parse == RequestNext /\ UNCHANGED <<peerVars, asked>>

\* HandleSessionCreate binds once; a session that cannot be bound is not created.
Bind ==
    /\ asked # None
    /\ \E p \in Pids : BindSessionPeer(p, asked)
    /\ asked' = None
    /\ UNCHANGED requestVars

Admit ==
    /\ step = "received"
    /\ Processes \/ Authorizer
    /\ UNCHANGED <<requestVars, asked>>

AdmissionNext == Parse \/ Receive \/ Bind \/ Admit

AdmissionSpec == AdmissionInit /\ [][AdmissionNext]_admissionVars
=============================================================================

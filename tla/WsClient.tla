------------------------------ MODULE WsClient ------------------------------
(***************************************************************************)
(* The browser's connection to the server: WsClient's sockets and its two  *)
(* timers, and the sign-in request that app.mjs holds until a socket       *)
(* opens.                                                                  *)
(*                                                                         *)
(* All sockets share the timers, and the handlers of a socket that was     *)
(* given up still run when it closes at last, which may be after the next  *)
(* socket was created.  The browser and the network are external: a socket *)
(* created or caught while the network or the server is down is doomed     *)
(* unless the network saves it, and the browser reports a doomed socket    *)
(* sooner or later.                                                        *)
(*                                                                         *)
(* A definition Op_Variant is a fault: what Op would be with a plausible   *)
(* bug.                                                                    *)
(***************************************************************************)
EXTENDS Naturals, FiniteSets

CONSTANTS
    MaxOld,       \* bound on the given-up sockets that have not closed yet
    MaxAttempts   \* the attempts after which the delay grows no more

ASSUME WsClientAssumption == MaxOld \in Nat \ {0} /\ MaxAttempts \in Nat \ {0}

VARIABLES
    ws,         \* readyState of this.ws, "none" before the first
    old,        \* how many sockets that this.ws led to before are in a state
    connectTimer,   \* the connect timer runs
    reconnectTimer, \* this.reconnectTimer is set
    attempts,   \* reconnectAttempts, up to MaxAttempts
    pending,    \* state.pendingAuthRequest is set
    up,         \* the network works
    doomed      \* this.ws was caught by a network failure

vars == <<ws, old, connectTimer, reconnectTimer, attempts, pending, up, doomed>>

Live     == {"connecting", "open"}
Unclosed == Live \cup {"closing"}

\* A running connect timer belongs to a socket that is still connecting.
TypeOK ==
    /\ ws \in Unclosed \cup {"none", "closed"} /\ old \in [Unclosed -> 0..MaxOld]
    /\ connectTimer \in BOOLEAN /\ reconnectTimer \in BOOLEAN /\ pending \in BOOLEAN
    /\ up \in BOOLEAN /\ doomed \in BOOLEAN
    /\ attempts \in 0..MaxAttempts
    /\ connectTimer => ws = "connecting"

Init ==
    /\ ws = "none" /\ old = [s \in Unclosed |-> 0]
    /\ connectTimer = FALSE /\ reconnectTimer = FALSE /\ attempts = 0 /\ pending = FALSE
    /\ up \in BOOLEAN /\ doomed = FALSE

-----------------------------------------------------------------------------
(***************************************************************************)
(* connect() and scheduleReconnect(), called by what follows.              *)
(***************************************************************************)
Reusable_OpenOnly == ws = "open"
Reusable == ws \in Live

\* this.ws joins the given-up sockets unless it is closed.
Superseded == [s \in Unclosed |-> IF s = ws THEN old[s] + 1 ELSE old[s]]

Connect ==
    IF Reusable THEN UNCHANGED <<ws, old, connectTimer, doomed>>
    ELSE /\ \A s \in Unclosed : Superseded[s] <= MaxOld
         /\ ws' = "connecting" /\ connectTimer' = TRUE /\ doomed' = ~up
         /\ old' = Superseded

ScheduleReconnect ==
    /\ reconnectTimer' = TRUE
    /\ attempts' = IF reconnectTimer \/ attempts = MaxAttempts THEN attempts ELSE attempts + 1

-----------------------------------------------------------------------------
(***************************************************************************)
(* The application.                                                        *)
(***************************************************************************)
\* The page connects when it is loaded.
Load ==
    /\ ws = "none" /\ Connect
    /\ UNCHANGED <<reconnectTimer, attempts, pending, up>>

\* sendAuthRequest without an open socket: kept for the next one, which is
\* asked for at once.
SendAuthRequest ==
    /\ ws \notin {"none", "open"}
    /\ pending' = TRUE /\ Connect
    /\ UNCHANGED <<reconnectTimer, attempts, up>>

-----------------------------------------------------------------------------
(***************************************************************************)
(* Timers.                                                                 *)
(***************************************************************************)
ReconnectTimeout ==
    /\ reconnectTimer /\ reconnectTimer' = FALSE /\ Connect
    /\ UNCHANGED <<attempts, pending, up>>

\* The socket is closed; it reports that later.  On a working network it would
\* have opened in time.
ConnectTimeout ==
    /\ connectTimer /\ doomed /\ connectTimer' = FALSE
    /\ ws' = "closing" /\ ScheduleReconnect
    /\ UNCHANGED <<old, pending, up, doomed>>

-----------------------------------------------------------------------------
(***************************************************************************)
(* Events of the current socket.                                           *)
(***************************************************************************)
Opened_KeepTimer ==
    /\ ws = "connecting" /\ ~doomed /\ ws' = "open"
    /\ reconnectTimer' = FALSE /\ attempts' = 0 /\ pending' = FALSE
    /\ UNCHANGED <<old, connectTimer, up, doomed>>
Opened_NoFlush ==
    /\ ws = "connecting" /\ ~doomed /\ ws' = "open"
    /\ connectTimer' = FALSE /\ reconnectTimer' = FALSE /\ attempts' = 0
    /\ UNCHANGED <<old, pending, up, doomed>>
\* open: the timers are stopped, hello and the waiting request are sent.
Opened ==
    /\ ws = "connecting" /\ ~doomed /\ ws' = "open"
    /\ connectTimer' = FALSE /\ reconnectTimer' = FALSE /\ attempts' = 0 /\ pending' = FALSE
    /\ UNCHANGED <<old, up, doomed>>

\* close, after error if it never opened: the browser reports a doomed socket
\* or the end of the closing of one.
Closed_NoRetry ==
    /\ (ws \in Live /\ doomed) \/ ws = "closing"
    /\ ws' = "closed"
    /\ connectTimer' = FALSE /\ doomed' = FALSE
    /\ UNCHANGED <<old, reconnectTimer, attempts, pending, up>>
Closed ==
    /\ (ws \in Live /\ doomed) \/ ws = "closing"
    /\ ws' = "closed"
    /\ connectTimer' = FALSE /\ doomed' = FALSE /\ ScheduleReconnect
    /\ UNCHANGED <<old, pending, up>>

-----------------------------------------------------------------------------
\* close of a socket that was given up: the same handler, on the shared timers.
OldClosed(s) ==
    /\ old[s] > 0 /\ old' = [old EXCEPT ![s] = @ - 1]
    /\ connectTimer' = FALSE /\ ScheduleReconnect
    /\ UNCHANGED <<ws, pending, up, doomed>>

-----------------------------------------------------------------------------
(***************************************************************************)
(* The network, which may save or doom a socket.                           *)
(***************************************************************************)
NetworkDown == /\ up /\ up' = FALSE /\ doomed' = (ws \in Live)
               /\ UNCHANGED <<ws, old, connectTimer, reconnectTimer, attempts, pending>>
NetworkUp   == /\ ~up /\ up' = TRUE /\ doomed' \in {doomed, FALSE}
               /\ UNCHANGED <<ws, old, connectTimer, reconnectTimer, attempts, pending>>

Next ==
    \/ Load \/ SendAuthRequest
    \/ ReconnectTimeout \/ ConnectTimeout
    \/ Opened \/ Closed \/ \E s \in Unclosed : OldClosed(s)
    \/ NetworkDown \/ NetworkUp

\* The page loads, timers fire, and the browser reports what became of a socket.
Fairness ==
    /\ WF_vars(Load)
    /\ WF_vars(ReconnectTimeout) /\ WF_vars(ConnectTimeout)
    /\ WF_vars(Opened) /\ WF_vars(Closed) /\ WF_vars(\E s \in Unclosed : OldClosed(s))

Spec == Init /\ [][Next]_vars /\ Fairness

-----------------------------------------------------------------------------
\* No socket that was given up is live: the page has at most one connection, so
\* that the server does not take it for two (the guard of connect()).
OneLiveSocket == \A s \in Live : old[s] = 0

\* A page that was loaded never waits for nothing: without a live socket the
\* reconnect timer is set (scheduleReconnect in every handler that ends one).
NeverStranded == ws \in {"closing", "closed"} => reconnectTimer

\* Once the network stays up the page gets a connection and keeps it, and a
\* sign-in request that waited has been sent, whatever timers and late close
\* events did before.
Reconnects == <>[]up => <>[](ws = "open" /\ ~pending)
=============================================================================

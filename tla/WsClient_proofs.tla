--------------------------- MODULE WsClient_proofs ---------------------------
(***************************************************************************)
(* Proofs about WsClient: whatever the bounds on given-up sockets and on   *)
(* the growth of the delay, the page has at most one live socket and, once *)
(* loaded, never waits without a timer.  The three facts are inductive     *)
(* together: the types carry that a connect timer belongs to a socket that *)
(* is connecting.                                                          *)
(***************************************************************************)
EXTENDS WsClient, TLAPS

IInv == TypeOK /\ OneLiveSocket /\ NeverStranded

-----------------------------------------------------------------------------
\* connect() keeps the types and leaves no live socket behind: it gives up
\* this.ws only when that is not live.
LEMMA ConnectSafe ==
    ASSUME TypeOK, OneLiveSocket, Connect
    PROVE  /\ ws' \in Live /\ doomed' \in BOOLEAN
           /\ old' \in [Unclosed -> 0..MaxOld] /\ OneLiveSocket'
           /\ connectTimer' \in BOOLEAN /\ (connectTimer' => ws' = "connecting")
<1>1. CASE Reusable
  BY <1>1 DEF TypeOK, OneLiveSocket, Connect, Reusable, Live
<1>2. CASE ~Reusable
  <2>1. /\ ws' = "connecting" /\ connectTimer' = TRUE /\ doomed' = ~up
        /\ old' = Superseded /\ \A s \in Unclosed : Superseded[s] <= MaxOld
    BY <1>2 DEF Connect
  <2>2. \A s \in Unclosed : Superseded[s] \in Nat
    BY WsClientAssumption DEF TypeOK, Superseded
  <2>3. Superseded \in [Unclosed -> 0..MaxOld]
    <3>1. \A s \in Unclosed : Superseded[s] \in 0..MaxOld
      BY <2>1, <2>2, WsClientAssumption
    <3>2. Superseded = [s \in Unclosed |-> Superseded[s]]
      BY DEF Superseded
    <3> QED  BY <3>1, <3>2
  <2>4. \A s \in Live : old'[s] = 0
    BY <1>2, <2>1 DEF Superseded, Reusable, OneLiveSocket, Unclosed
  <2> QED  BY <2>1, <2>3, <2>4 DEF Live, TypeOK, OneLiveSocket
<1> QED  BY <1>1, <1>2

\* scheduleReconnect() leaves the timer set and the attempts within the bound.
LEMMA ScheduleSafe ==
    ASSUME TypeOK, ScheduleReconnect
    PROVE  reconnectTimer' = TRUE /\ attempts' \in 0..MaxAttempts
BY WsClientAssumption DEF TypeOK, ScheduleReconnect

-----------------------------------------------------------------------------
LEMMA InitSafe == Init => IInv
<1> SUFFICES ASSUME Init PROVE IInv
  OBVIOUS
<1>1. old \in [Unclosed -> 0..MaxOld] /\ OneLiveSocket
  BY WsClientAssumption DEF Init, OneLiveSocket, Live, Unclosed
<1>2. connectTimer = FALSE /\ ws = "none" /\ NeverStranded
  BY DEF Init, NeverStranded
<1>3. /\ reconnectTimer \in BOOLEAN /\ pending \in BOOLEAN
      /\ up \in BOOLEAN /\ doomed \in BOOLEAN
  BY DEF Init
<1>4. attempts \in 0..MaxAttempts
  BY WsClientAssumption DEF Init
<1> QED  BY <1>1, <1>2, <1>3, <1>4 DEF IInv, TypeOK

LEMMA StepSafe == IInv /\ [Next]_vars => IInv'
<1> SUFFICES ASSUME IInv, [Next]_vars PROVE IInv'
  OBVIOUS
<1> USE DEF IInv
<1>1. CASE Load
  <2>1. Connect /\ UNCHANGED <<reconnectTimer, attempts, pending, up>>
    BY <1>1 DEF Load
  <2> QED  BY <2>1, ConnectSafe DEF TypeOK, NeverStranded, Live, Unclosed
<1>2. CASE SendAuthRequest
  <2>1. Connect /\ pending' = TRUE /\ UNCHANGED <<reconnectTimer, attempts, up>>
    BY <1>2 DEF SendAuthRequest
  <2> QED  BY <2>1, ConnectSafe DEF TypeOK, NeverStranded, Live, Unclosed
<1>3. CASE ReconnectTimeout
  <2>1. Connect /\ reconnectTimer' = FALSE /\ UNCHANGED <<attempts, pending, up>>
    BY <1>3 DEF ReconnectTimeout
  <2> QED  BY <2>1, ConnectSafe DEF TypeOK, NeverStranded, Live, Unclosed
<1>4. CASE ConnectTimeout
  BY <1>4, ScheduleSafe
     DEF ConnectTimeout, TypeOK, OneLiveSocket, NeverStranded, Unclosed
<1>5. CASE Opened
  <2>1. /\ ws' = "open" /\ connectTimer' = FALSE /\ reconnectTimer' = FALSE
        /\ attempts' = 0 /\ pending' = FALSE /\ UNCHANGED <<old, up, doomed>>
    BY <1>5 DEF Opened
  <2>2. attempts' \in 0..MaxAttempts
    BY <2>1, WsClientAssumption
  <2> QED  BY <2>1, <2>2 DEF TypeOK, OneLiveSocket, NeverStranded, Live, Unclosed
<1>6. CASE Closed
  BY <1>6, ScheduleSafe DEF Closed, TypeOK, OneLiveSocket, NeverStranded
<1>7. ASSUME NEW s \in Unclosed, OldClosed(s) PROVE IInv'
  <2>1. /\ old[s] > 0 /\ old' = [old EXCEPT ![s] = @ - 1] /\ connectTimer' = FALSE
        /\ ScheduleReconnect /\ UNCHANGED <<ws, pending, up, doomed>>
    BY <1>7 DEF OldClosed
  <2>2. old' \in [Unclosed -> 0..MaxOld]
    BY <2>1, WsClientAssumption DEF TypeOK
  <2>3. OneLiveSocket'
    BY <2>1 DEF TypeOK, OneLiveSocket, Unclosed
  <2> QED  BY <2>1, <2>2, <2>3, ScheduleSafe DEF TypeOK, NeverStranded
<1>8. CASE NetworkDown
  <2>1. /\ up' = FALSE /\ doomed' = (ws \in Live)
        /\ UNCHANGED <<ws, old, connectTimer, reconnectTimer, attempts, pending>>
    BY <1>8 DEF NetworkDown
  <2>2. doomed' \in BOOLEAN
    BY <2>1
  <2>3. up' \in BOOLEAN
    BY <2>1
  <2> QED  BY <2>1, <2>2, <2>3 DEF TypeOK, OneLiveSocket, NeverStranded
<1>9. CASE NetworkUp
  <2>1. /\ up' = TRUE /\ doomed' \in BOOLEAN
        /\ UNCHANGED <<ws, old, connectTimer, reconnectTimer, attempts, pending>>
    BY <1>9 DEF NetworkUp, TypeOK
  <2> QED  BY <2>1 DEF TypeOK, OneLiveSocket, NeverStranded
<1>10. CASE UNCHANGED vars
  BY <1>10 DEF vars, TypeOK, OneLiveSocket, NeverStranded
<1> QED  BY <1>1, <1>2, <1>3, <1>4, <1>5, <1>6, <1>7, <1>8, <1>9, <1>10 DEF Next

-----------------------------------------------------------------------------
\* The state of the connection is well typed in every run of the page, and a
\* running connect timer belongs to the socket that is connecting.
THEOREM ClientTypeCorrect == Spec => []TypeOK
<1>1. IInv => TypeOK
  BY DEF IInv
<1> QED  BY InitSafe, StepSafe, <1>1, PTL DEF Spec

\* A socket that connect() gave up is never live: the page has at most one
\* connection, however timers and late close events interleave.
THEOREM OneLiveSocketEver == Spec => []OneLiveSocket
<1>1. IInv => OneLiveSocket
  BY DEF IInv
<1> QED  BY InitSafe, StepSafe, <1>1, PTL DEF Spec

\* A page without a live socket always has its reconnect timer set.
THEOREM NeverStrandedEver == Spec => []NeverStranded
<1>1. IInv => NeverStranded
  BY DEF IInv
<1> QED  BY InitSafe, StepSafe, <1>1, PTL DEF Spec
=============================================================================

----------------------------- MODULE MqttClient ------------------------------
(***************************************************************************)
(* The MQTT client of the transmitter, lib/MQTTClient.js, together with    *)
(* the listeners index.js puts on it: a socket to the broker, a session on *)
(* it, and one timer that pings the broker or notices that it is gone.     *)
(* The process exits when the session cannot be had or is lost; the client *)
(* never reconnects, somebody has to start the process again.              *)
(*                                                                         *)
(* Packets are abstracted to the event they cause.  The durations of the   *)
(* timer are not modelled: it may fire at any time while it is set.        *)
(***************************************************************************)
VARIABLES
    running,        \* the process is alive
    tcp,            \* the socket: "connecting", "open", or "ended"
    connected,      \* fields of the client
    sessionOpened,
    timer           \* self.timeout is set

mqVars == <<running, tcp, connected, sessionOpened, timer>>

MqTypeOK ==
    /\ running \in BOOLEAN
    /\ tcp \in {"connecting", "open", "ended"}
    /\ connected \in BOOLEAN
    /\ sessionOpened \in BOOLEAN
    /\ timer \in BOOLEAN

MqInit ==
    /\ running = TRUE
    /\ tcp = "connecting"
    /\ connected = FALSE
    /\ sessionOpened = FALSE
    /\ timer = TRUE

(* process.exit(1), or an exception that nobody catches.                   *)
Exit ==
    /\ running' = FALSE
    /\ tcp' = "ended"
    /\ connected' = FALSE /\ sessionOpened' = FALSE /\ timer' = FALSE

(* An operator starts the process again.                                   *)
StartProcess ==
    /\ ~running
    /\ running' = TRUE
    /\ tcp' = "connecting"
    /\ timer' = TRUE
    /\ UNCHANGED <<connected, sessionOpened>>

(* 'connect': the CONNECT packet is written at once.                       *)
SocketConnects ==
    /\ running
    /\ tcp = "connecting"
    /\ tcp' = "open"
    /\ connected' = TRUE
    /\ UNCHANGED <<running, sessionOpened, timer>>

(* 'error' has no listener, so it is thrown.                               *)
SocketFails ==
    /\ running
    /\ tcp \in {"connecting", "open"}
    /\ Exit

(* 'data', the four bytes of a CONNACK: the session is open.               *)
SessionOpens ==
    /\ running
    /\ tcp = "open"
    /\ ~sessionOpened
    /\ sessionOpened' = TRUE
    /\ timer' = TRUE
    /\ UNCHANGED <<running, tcp, connected>>

(* 'data', anything else before that: openSessionFailed.                   *)
SessionRefused ==
    /\ running
    /\ tcp = "open"
    /\ ~sessionOpened
    /\ Exit

BrokerEndsUnnoticed ==
    /\ running
    /\ tcp = "open"
    /\ tcp' = "ended"
    /\ UNCHANGED <<running, connected, sessionOpened, timer>>

(* 'end': the flags fall, the timer stays as it is.                        *)
BrokerEnds ==
    /\ running
    /\ tcp = "open"
    /\ tcp' = "ended"
    /\ connected' = FALSE
    /\ sessionOpened' = FALSE
    /\ UNCHANGED <<running, timer>>

(* timeUp: ping and set the timer again.                                   *)
TimeUpPings ==
    /\ running /\ timer
    /\ connected /\ sessionOpened
    /\ timer' = TRUE
    /\ UNCHANGED <<running, tcp, connected, sessionOpened>>

(* timeUp: connectTimeOut.                                                 *)
TimeUpExits ==
    /\ running /\ timer
    /\ ~connected
    /\ Exit

(* timeUp: the "Unknow state", connected without a session.                *)
TimeUpUnknown ==
    /\ running /\ timer
    /\ connected /\ ~sessionOpened
    /\ timer' = FALSE
    /\ UNCHANGED <<running, tcp, connected, sessionOpened>>

PublishClearsTimer ==
    /\ timer' = (timer /\ ~connected)
    /\ UNCHANGED <<running, tcp, connected, sessionOpened>>

(* publish: with a connection it writes and sets the timer again; without  *)
(* one it does nothing, and says nothing.                                  *)
Publish ==
    /\ timer' = (timer \/ connected)
    /\ UNCHANGED <<running, tcp, connected, sessionOpened>>

=============================================================================

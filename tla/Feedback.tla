------------------------------ MODULE Feedback -------------------------------
(***************************************************************************)
(* The class Feedback of lib/apn.js: once in an interval it connects to    *)
(* the feedback service, which writes one tuple for every device that is   *)
(* gone and closes the connection.  The tuples have a fixed length, and    *)
(* processData puts them together from the chunks that arrive, in one      *)
(* buffer for all connections.                                             *)
(*                                                                         *)
(* A byte is its connection and its position there.  The life of a socket  *)
(* is the one of ApnConnection, with the same handlers on self.socket but  *)
(* for 'secure', which is one of the pair.                                 *)
(***************************************************************************)
EXTENDS Integers, SequencesExt

CONSTANTS
    Connection,     \* bound: the sockets that can be opened
    Nobody,         \* undefined
    ResponseLength, \* responsePacketLength
    MaxTuples,      \* bound: tuples the service writes on a connection
    MaxLosses       \* bound: broken or rejected connections

ASSUME FeedbackAssumption ==
    /\ Nobody \notin Connection
    /\ ResponseLength \in Nat /\ ResponseLength > 1
    /\ MaxTuples \in Nat /\ MaxLosses \in Nat

VARIABLES
    alive,      \* the process runs
    files,      \* what was read of the certificate and the key
    interval,   \* the timer of the requests is set
    socket,     \* self.socket
    state,      \* of each connection: its readyState, and "gone" for a closed
                \* one whose close event was emitted
    listening,  \* connections that have the listeners of startSocket
    arrived,    \* of each connection: how many of its bytes arrived
    readBuffer, \* readBuffer, up to readLength
    decoded,    \* the bytes given to decodeResponse, one tuple after another
    received,   \* history: the bytes given to processData
    flaws,      \* history: "dropped" when processData forgot a byte, "cut"
                \* when a connection began behind a part of a tuple
    losses

fbVars == <<alive, files, interval, socket, state, listening, arrived,
            readBuffer, decoded, received, flaws, losses>>

File == {"cert", "key"}
Byte == Connection \X (1..(MaxTuples * ResponseLength))

FeedbackTypeOK ==
    /\ alive \in BOOLEAN /\ files \subseteq File /\ interval \in BOOLEAN
    /\ socket \in Connection \cup {Nobody}
    /\ state \in [Connection -> {"unused", "opening", "open", "closed", "gone"}]
    /\ listening \subseteq Connection
    /\ arrived \in [Connection -> 0..(MaxTuples * ResponseLength)]
    /\ readBuffer \in Seq(Byte)
    /\ decoded \in Seq(Byte) /\ received \in Seq(Byte)
    /\ flaws \subseteq {"dropped", "cut"}
    /\ losses \in Nat

FeedbackInit ==
    /\ alive = TRUE /\ files = {} /\ interval = TRUE
    /\ socket = Nobody
    /\ state = [c \in Connection |-> "unused"]
    /\ listening = {}
    /\ arrived = [c \in Connection |-> 0]
    /\ readBuffer = <<>> /\ decoded = <<>> /\ received = <<>>
    /\ flaws = {}
    /\ losses = 0

-----------------------------------------------------------------------------
(* startSocket: a fresh connection becomes self.socket.  The buffer stays  *)
(* as the last one left it.                                                *)
Start(c) ==
    /\ state[c] = "unused"
    /\ socket' = c
    /\ state' = [state EXCEPT ![c] = "opening"]
    /\ listening' = listening \cup {c}
    /\ flaws' = flaws \cup (IF readBuffer = <<>> THEN {} ELSE {"cut"})
    /\ UNCHANGED <<alive, arrived, readBuffer, decoded, received, losses>>

(* connect, made by invoke_after: the callback comes with the last of the  *)
(* delegates.                                                              *)
InvokeAfter(f, Callback) ==
    IF files \cup {f} = File THEN Callback
    ELSE UNCHANGED <<alive, socket, state, listening, arrived, readBuffer,
                     decoded, received, flaws, losses>>

(* The certificate or the key was read.                                    *)
ReadFile(f) ==
    /\ alive
    /\ f \notin files
    /\ files' = files \cup {f}
    /\ InvokeAfter(f, \E c \in Connection : Start(c))
    /\ UNCHANGED interval

ReadyToConnect == files = File

(* request, called by the interval timer.                                  *)
Request ==
    /\ alive /\ interval
    /\ ReadyToConnect
    /\ socket \in Connection => state[socket] = "closed"
    /\ \E c \in Connection : Start(c)
    /\ UNCHANGED <<files, interval>>

Cancel ==
    /\ alive /\ interval
    /\ interval' = FALSE
    /\ UNCHANGED <<alive, files, socket, state, listening, arrived, readBuffer,
                   decoded, received, flaws, losses>>

(* A closed socket emits its events before the network is asked again.     *)
Calm == alive /\ \A c \in Connection : state[c] # "closed"

Throws ==
    /\ losses < MaxLosses
    /\ losses' = losses + 1
    /\ alive' = FALSE
    /\ UNCHANGED <<files, interval, socket, state, listening, arrived, readBuffer,
                   decoded, received, flaws>>

(* A file cannot be read, or the socket is unauthorized.                   *)
Rejected(c) ==
    /\ alive
    /\ ~ReadyToConnect \/ (Calm /\ state[c] = "opening" /\ c = socket)
    /\ Throws

(* The listener of 'secure' is one of the pair, and no socket ever loses   *)
(* it.  It throws unless self.socket, whichever that is by then, is there  *)
(* and authorized; a socket is before it is open, not while it opens.      *)
SecureSocket(c) ==
    /\ Calm
    /\ state[c] = "opening"
    /\ IF socket = c \/ (socket # Nobody /\ state[socket] = "open")
       THEN state' = [state EXCEPT ![c] = "open"] /\ UNCHANGED alive
       ELSE alive' = FALSE /\ UNCHANGED state
    /\ UNCHANGED <<files, interval, socket, listening, arrived, readBuffer,
                   decoded, received, flaws, losses>>

ProcessFresh(data) ==
    LET whole == Len(data) - (Len(data) % ResponseLength)
        rest == SubSeq(data, whole + 1, Len(data))
    IN  /\ decoded' = decoded \o SubSeq(data, 1, whole)
        /\ readBuffer' = IF Len(rest) = 1 THEN <<>> ELSE rest
        /\ flaws' = flaws \cup (IF Len(rest) = 1 THEN {"dropped"} ELSE {})

(* processData.  Whole tuples are decoded, the first of them across the    *)
(* buffer; the rest is buffered, unless it is a single byte, which the     *)
(* loop, counting to length - 1, leaves behind.                            *)
ProcessData(data) ==
    LET all == readBuffer \o data
        whole == Len(all) - (Len(all) % ResponseLength)
        rest == SubSeq(all, whole + 1, Len(all))
    IN  /\ decoded' = decoded \o SubSeq(all, 1, whole)
        /\ readBuffer' = IF Len(rest) = 1 THEN <<>> ELSE rest
        /\ flaws' = flaws \cup (IF Len(rest) = 1 THEN {"dropped"} ELSE {})

(* 'data' on connection c, its next n bytes.                               *)
Delivers(c, n) ==
    /\ Calm
    /\ state[c] = "open" /\ c \in listening
    /\ n \in 1..(MaxTuples * ResponseLength - arrived[c])
    /\ LET data == [i \in 1..n |-> <<c, arrived[c] + i>>]
       IN  ProcessData(data) /\ received' = received \o data
    /\ arrived' = [arrived EXCEPT ![c] = @ + n]
    /\ UNCHANGED <<alive, files, interval, socket, state, listening, losses>>

(* The service has written whole tuples and ends the connection, or it is  *)
(* refused or lost.                                                        *)
Ends(c) ==
    /\ Calm
    /\ \/ /\ state[c] = "open"
          /\ c \in listening => arrived[c] % ResponseLength = 0
          /\ UNCHANGED losses
       \/ /\ state[c] \in {"opening", "open"}
          /\ losses < MaxLosses
          /\ losses' = losses + 1
    /\ state' = [state EXCEPT ![c] = "closed"]
    /\ UNCHANGED <<alive, files, interval, socket, listening, arrived, readBuffer,
                   decoded, received, flaws>>

(* The held socket loses its listeners and is forgotten.                   *)
ForgetSocket ==
    /\ listening' = listening \ {socket}
    /\ socket' = Nobody
    /\ UNCHANGED alive

(* 'close', or 'error' and 'close'.  The listeners use self.socket, which  *)
(* may be another one by then, or undefined: then they throw.  Nobody      *)
(* listens to an 'error' of a socket without listeners, which throws too.  *)
Closed(c) ==
    /\ alive
    /\ state[c] = "closed"
    /\ state' = [state EXCEPT ![c] = "gone"]
    /\ \/ c \notin listening /\ UNCHANGED <<alive, socket, listening>>
       \/ c \in listening /\ socket # Nobody /\ ForgetSocket
       \/ socket # c /\ alive' = FALSE /\ UNCHANGED <<socket, listening>>
    /\ UNCHANGED <<files, interval, arrived, readBuffer, decoded, received, flaws, losses>>

FeedbackNext ==
    \/ \E f \in File : ReadFile(f)
    \/ Request \/ Cancel
    \/ \E c \in Connection :
          \/ Rejected(c) \/ SecureSocket(c) \/ Ends(c) \/ Closed(c)
          \/ \E n \in 1..(MaxTuples * ResponseLength) : Delivers(c, n)

FeedbackSpec == FeedbackInit /\ [][FeedbackNext]_fbVars

-----------------------------------------------------------------------------
(* Chunks may be cut anywhere, also inside a tuple, and tuples may come on *)
(* several connections: unless processData forgot a byte or a connection   *)
(* ended inside a tuple, all that arrived was decoded or waits in the      *)
(* buffer, in order, and every decoded tuple begins where a tuple of the   *)
(* service begins and is of one connection.                                *)
TuplesInOrder ==
    flaws = {} =>
        /\ decoded \o readBuffer = received
        /\ Len(readBuffer) < ResponseLength
        /\ \A i \in DOMAIN decoded :
              IF i % ResponseLength = 1
              THEN decoded[i][2] % ResponseLength = 1
              ELSE decoded[i] = <<decoded[i-1][1], decoded[i-1][2] + 1>>

=============================================================================

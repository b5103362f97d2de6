---------------------------- MODULE ApnConnection -----------------------------
(***************************************************************************)
(* The connection of the transmitter to Apple's push gateway, the class    *)
(* Connection of lib/apn.js.  It holds one TLS socket at a time, opens it  *)
(* when it is needed, keeps what is sent meanwhile in offlineCache, and    *)
(* remembers the last notifications: when the gateway refuses one of them, *)
(* it has thrown away all that followed on that socket, and they have to   *)
(* be sent again.                                                          *)
(*                                                                         *)
(* One JavaScript thread: a step is one callback.  The handlers of every   *)
(* socket use self.socket, whichever socket that is by then.  A packet is  *)
(* the identifier in it; a notification is an object whose _uid is         *)
(* overwritten each time it is sent.                                       *)
(***************************************************************************)
EXTENDS Integers, SequencesExt

CONSTANTS
    Note,        \* the notification objects
    Big,         \* those whose payload is longer than 256 bytes
    Socket,      \* bound: the sockets that can be opened
    None,        \* undefined
    CacheLength, \* options.cacheLength
    MaxFaults    \* bound: broken or rejected connections

ASSUME ApnAssumption ==
    /\ Big \subseteq Note
    /\ None \notin Socket
    /\ CacheLength \in Nat \ {0}
    /\ MaxFaults \in Nat

VARIABLES
    alive,         \* the process runs
    ready,         \* certificate and key were read
    socket,        \* self.socket
    state,         \* of each socket: its readyState, and "gone" for a closed
                   \* one whose close event was emitted
    listening,     \* sockets that have the listeners of startSocket
    refused,       \* sockets on which the gateway refused a packet
    currentId,     \* the identifier of the next packet
    uid,           \* _uid of each notification, None before it is sent
    offlineCache,
    cachedNotes,
    ticks,         \* notifications that nextTick will send again
    unsent,        \* notifications the transmitter has yet to send
    faults,
    wire           \* what was written to each socket

apnVars == <<alive, ready, socket, state, listening, refused, currentId, uid,
             offlineCache, cachedNotes, ticks, unsent, faults, wire>>

ReadyState == {"unused", "opening", "open", "readOnly", "closed", "gone"}

(* The values of the variables; the cache keeps to its length.             *)
TypeOK ==
    /\ alive \in BOOLEAN /\ ready \in BOOLEAN
    /\ socket \in Socket \cup {None}
    /\ state \in [Socket -> ReadyState]
    /\ listening \subseteq Socket
    /\ refused \subseteq Socket
    /\ currentId \in Nat
    /\ uid \in [Note -> Nat \cup {-1}]
    /\ offlineCache \in Seq(Nat)
    /\ cachedNotes \in Seq(Note) /\ Len(cachedNotes) <= CacheLength
    /\ ticks \in Seq(Note)
    /\ unsent \subseteq Note
    /\ faults \in Nat
    /\ wire \in [Socket -> Seq(Nat)]

Init ==
    /\ alive = TRUE /\ ready = FALSE
    /\ socket = None
    /\ state = [s \in Socket |-> "unused"]
    /\ listening = {} /\ refused = {}
    /\ currentId = 0
    /\ uid = [n \in Note |-> -1]
    /\ offlineCache = <<>> /\ cachedNotes = <<>> /\ ticks = <<>>
    /\ unsent = Note
    /\ faults = 0
    /\ wire = [s \in Socket |-> <<>>]

-----------------------------------------------------------------------------
StartSocketMute(s) ==
    /\ state[s] = "unused"
    /\ socket' = s
    /\ state' = [state EXCEPT ![s] = "opening"]
    /\ UNCHANGED listening

(* startSocket: a fresh socket s becomes self.socket.                      *)
StartSocket(s) ==
    /\ state[s] = "unused"
    /\ socket' = s
    /\ state' = [state EXCEPT ![s] = "opening"]
    /\ listening' = listening \cup {s}

(* Both files were read.                                                   *)
FilesRead ==
    /\ alive /\ ~ready
    /\ ready' = TRUE
    /\ \E s \in Socket : StartSocket(s)
    /\ UNCHANGED <<alive, refused, currentId, uid, offlineCache, cachedNotes,
                   ticks, unsent, faults, wire>>

IsOpen == socket # None /\ state[socket] = "open"
MayReplace == ready /\ ~IsOpen
MayStart == ready /\ (socket = None \/ state[socket] = "closed")

RememberAll(n) == cachedNotes' = Append(cachedNotes, n)

(* tidyCachedNotes, after the push.                                        *)
Remember(n) ==
    LET notes == Append(cachedNotes, n)
    IN  cachedNotes' = IF Len(notes) > CacheLength THEN Tail(notes) ELSE notes

(* Write the packet id, or keep it and see to it that a socket opens.      *)
WriteOrKeep(id) ==
    IF IsOpen
    THEN /\ wire' = [wire EXCEPT ![socket] = Append(@, id)]
         /\ UNCHANGED <<socket, state, listening, offlineCache>>
    ELSE /\ offlineCache' = Append(offlineCache, id)
         /\ IF MayStart THEN \E s \in Socket : StartSocket(s)
            ELSE UNCHANGED <<socket, state, listening>>
         /\ UNCHANGED wire

SendNotification(n) ==
    IF n \in Big
    THEN UNCHANGED <<socket, state, listening, currentId, uid, offlineCache,
                     cachedNotes, wire>>
    ELSE /\ uid' = [uid EXCEPT ![n] = currentId]
         /\ currentId' = currentId + 1
         /\ Remember(n)
         /\ WriteOrKeep(currentId)

(* toApns of the transmitter; it ignores the error code.                   *)
ToApns(n) ==
    /\ alive
    /\ n \in unsent
    /\ unsent' = unsent \ {n}
    /\ SendNotification(n)
    /\ UNCHANGED <<alive, ready, refused, ticks, faults>>

(* A closure that handleTransmissionError gave to nextTick.                *)
SendAgain ==
    /\ alive
    /\ ticks # <<>>
    /\ ticks' = Tail(ticks)
    /\ SendNotification(Head(ticks))
    /\ UNCHANGED <<alive, ready, refused, unsent, faults>>

-----------------------------------------------------------------------------
(* The events of socket s.  An exception in a handler ends the process.    *)

queues == <<currentId, uid, offlineCache, cachedNotes, ticks, unsent, wire>>

(* A closed socket emits its events before the network is asked again, but *)
(* callbacks that are already due may send notifications first.            *)
Settled == \A s \in Socket : state[s] # "closed"

Fault == faults < MaxFaults /\ faults' = faults + 1

Dies ==
    /\ alive
    /\ Fault
    /\ alive' = FALSE
    /\ UNCHANGED <<ready, socket, state, listening, refused, queues>>

(* Certificate or key cannot be read.                                      *)
FileMissing == ~ready /\ Dies

(* The callback of tls.connect throws authorizationError.                  *)
Unauthorized(s) == Settled /\ state[s] = "opening" /\ s \in listening /\ Dies

SecureReversed(s) ==
    /\ alive /\ Settled
    /\ state[s] = "opening"
    /\ state' = [state EXCEPT ![s] = "open"]
    /\ IF s \in listening
       THEN /\ wire' = [wire EXCEPT ![socket] = @ \o Reverse(offlineCache)]
            /\ offlineCache' = <<>>
       ELSE UNCHANGED <<wire, offlineCache>>
    /\ UNCHANGED <<alive, ready, socket, listening, refused, currentId, uid,
                   cachedNotes, ticks, unsent, faults>>

SecureKeeps(s) ==
    /\ alive /\ Settled
    /\ state[s] = "opening"
    /\ state' = [state EXCEPT ![s] = "open"]
    /\ IF s \in listening
       THEN wire' = [wire EXCEPT ![socket] = @ \o offlineCache]
       ELSE UNCHANGED wire
    /\ UNCHANGED <<alive, ready, socket, listening, refused, currentId, uid,
                   offlineCache, cachedNotes, ticks, unsent, faults>>

(* The callback of tls.connect: write what was kept.                       *)
Secure(s) ==
    /\ alive /\ Settled
    /\ state[s] = "opening"
    /\ state' = [state EXCEPT ![s] = "open"]
    /\ IF s \in listening
       THEN /\ wire' = [wire EXCEPT ![socket] = @ \o offlineCache]
            /\ offlineCache' = <<>>
       ELSE UNCHANGED <<wire, offlineCache>>
    /\ UNCHANGED <<alive, ready, socket, listening, refused, currentId, uid,
                   cachedNotes, ticks, unsent, faults>>

Shut(s) ==
    /\ state' = [state EXCEPT ![s] = "closed"]
    /\ UNCHANGED <<alive, ready, socket, listening, refused, queues>>

(* The connection is refused or lost: the socket is closed at once.        *)
Breaks(s) ==
    /\ alive /\ Settled
    /\ state[s] \in {"opening", "open"}
    /\ Fault
    /\ Shut(s)

(* The other side answers the end() of handleTransmissionError.            *)
Ended(s) ==
    /\ alive /\ Settled
    /\ state[s] = "readOnly"
    /\ Shut(s)
    /\ UNCHANGED faults

(* 'close' of a socket: the held one loses its listeners and is forgotten. *)
Forget ==
    /\ listening' = listening \ {socket}
    /\ socket' = None
    /\ UNCHANGED alive

(* 'close' after an orderly end.                                           *)
Closes(s) ==
    /\ alive
    /\ state[s] = "closed"
    /\ state' = [state EXCEPT ![s] = "gone"]
    /\ IF s \notin listening THEN UNCHANGED <<alive, socket, listening>>
       ELSE IF socket = None THEN alive' = FALSE /\ UNCHANGED <<socket, listening>>
       ELSE Forget
    /\ UNCHANGED <<ready, refused, faults, queues>>

(* 'error' and then 'close'.  The first one forgets the held socket, so if *)
(* that was another one, s still listens and the second finds none.        *)
Fails(s) ==
    /\ alive
    /\ state[s] = "closed"
    /\ state' = [state EXCEPT ![s] = "gone"]
    /\ IF s \in listening /\ socket = s THEN Forget
       ELSE alive' = FALSE /\ UNCHANGED <<socket, listening>>
    /\ UNCHANGED <<ready, refused, faults, queues>>

-----------------------------------------------------------------------------
(* handleTransmissionError, for the packet id.                             *)

Position(id) == SelectInSeq(cachedNotes, LAMBDA n : uid[n] = id)

(* The notifications that follow the refused one; none when it is not in   *)
(* the cache.                                                              *)
Following(id) ==
    IF Position(id) = 0 THEN <<>>
    ELSE SubSeq(cachedNotes, Position(id) + 1, Len(cachedNotes))

(* The closures share the variable note: each will send the last one.      *)
Closures(notes) == [i \in DOMAIN notes |-> Last(notes)]

TransmissionError(s, id) ==
    /\ alive /\ Settled
    /\ state[s] = "open"
    /\ s \in listening
    /\ s \notin refused
    /\ id \in Range(wire[s])
    /\ refused' = refused \cup {s}
    /\ state' = [state EXCEPT ![socket] = "readOnly"]
    /\ cachedNotes' = <<>>
    /\ ticks' = ticks \o Closures(Following(id))
    /\ UNCHANGED <<alive, ready, socket, listening, currentId, uid,
                   offlineCache, unsent, faults, wire>>

-----------------------------------------------------------------------------
Next ==
    \/ FilesRead \/ FileMissing
    \/ \E n \in Note : ToApns(n)
    \/ SendAgain
    \/ \E s \in Socket :
          \/ Secure(s) \/ Unauthorized(s)
          \/ Breaks(s) \/ Ended(s) \/ Closes(s) \/ Fails(s)
          \/ \E id \in 0..currentId : TransmissionError(s, id)

Spec == Init /\ [][Next]_apnVars

-----------------------------------------------------------------------------
(* Safety.                                                                 *)

(* The handlers of a socket that is not closed yet use self.socket as if   *)
(* it were their own, and it is: the callback that writes what was kept,   *)
(* and the one that ends the socket a packet was refused on.               *)
Live == {"opening", "open", "readOnly"}
OwnSocket ==
    \A s \in listening : state[s] \in Live => socket = s

(* A packet never overtakes an earlier one: the identifiers on a socket    *)
(* grow, over the cache and the direct writes of sendNotification.         *)
Increasing(q) == \A i, j \in DOMAIN q : i < j => q[i] < q[j]
WireOrder ==
    /\ \A s \in Socket : Increasing(wire[s])
    /\ Increasing(offlineCache)

(* No packet is lost between the cache and the sockets, and none is        *)
(* written twice, however often the socket changes under sendNotification. *)
NothingLost ==
    \A id \in 0..(currentId - 1) :
        LET places == {s \in Socket : id \in Range(wire[s])}
        IN  IF id \in Range(offlineCache) THEN places = {}
            ELSE \E s \in Socket : places = {s}

(* The loss of the connection that is held never ends the process: only    *)
(* the events of a connection that was replaced can throw.                 *)
HeldMayFail ==
    [][\A s \in Socket : Closes(s) \/ (Fails(s) /\ socket = s)
          => alive']_apnVars

-----------------------------------------------------------------------------
(* The inductive invariant.                                                *)

(* The held socket has its listeners.  Only one socket at a time waits to  *)
(* emit its events, and if it has listeners a socket is held: itself, or   *)
(* the one that replaced it.                                               *)
SocketInv ==
    /\ ~ready => socket = None
    /\ socket # None => socket \in listening
    /\ \A s, t \in Socket : state[s] = "closed" /\ state[t] = "closed" => s = t
    /\ \A s \in listening : state[s] = "closed" => socket # None
    /\ \A s \in Socket : state[s] = "unused" => s \notin listening

(* Nothing is written before a socket is open, and identifiers are new.    *)
WireInv ==
    /\ \A s \in Socket : state[s] \in {"unused", "opening"} => wire[s] = <<>>
    /\ \A s \in Socket : \A id \in Range(wire[s]) : id < currentId
    /\ \A id \in Range(offlineCache) : id < currentId

IInv ==
    /\ TypeOK
    /\ OwnSocket
    /\ SocketInv
    /\ WireInv
    /\ WireOrder
    /\ NothingLost

-----------------------------------------------------------------------------
(* What a comment says, and the code does not do.                          *)

(* "Resend all following notifications": those behind the refused one are  *)
(* handed to nextTick.                                                     *)
ResendsFollowing ==
    [][\A s \in Socket, id \in 0..currentId :
          TransmissionError(s, id) => Range(Following(id)) \subseteq Range(ticks')
      ]_apnVars

=============================================================================

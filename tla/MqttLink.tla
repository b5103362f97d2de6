------------------------------ MODULE MqttLink -------------------------------
(***************************************************************************)
(* The development pair of andriod/mqtt: client.js with its copy of        *)
(* MQTTClient.js talks to the server of server.js and mqtt.js over a byte  *)
(* stream.  TCP keeps the order of the bytes but not the boundaries of the *)
(* writes: each 'data' event brings any prefix of what is under way.  The  *)
(* server puts the bytes together again (accumulate); the client takes     *)
(* every chunk for one packet.                                             *)
(*                                                                         *)
(* The life of the client is MqttClient, which the transmitter uses too.   *)
(* A byte is the kind of its packet and its position in it; a packet has   *)
(* as many as it takes to tell a header byte, a known length and a whole   *)
(* packet apart, and a published one enough to be cut behind its topic.    *)
(***************************************************************************)
EXTENDS MqttClient, Naturals, SequencesExt

CONSTANT MaxPings    \* bound: keep-alives the client sends

ASSUME LinkAssumption == MaxPings \in Nat

VARIABLES
    up, down,     \* bytes under way to the server and to the client
    serverUp,     \* the server's process runs
    buffer,       \* client.buffer of the server
    packet,       \* client.packet: "none", "bare" when only its header byte
                  \* was read, "sized" when its length is known
    discards,     \* timers that will throw client.packet away
    owed,         \* publications the server makes a second after a SUBSCRIBE
    written,      \* history: kinds of packets the client wrote
    handled,      \* history: kinds of packets the server handled
    emitted,      \* history: "genuine" or "garbled" for each mqttData
    publications, \* history: how many the server sent
    splitUp,      \* history: a chunk to the server ended inside a packet
    ragged        \* history: a chunk to the client was not just one packet

serverVars == <<serverUp, buffer, packet, discards, owed, handled>>
linkVars == <<mqVars, up, down, serverVars, written, emitted, publications,
              splitUp, ragged>>

ToServer == {"connect", "subscribe", "publish", "pingreq"}
ToClient == {"connack", "suback", "published", "pingresp"}
Length(kind) ==
    CASE kind \in {"pingreq", "pingresp"} -> 2
      [] kind = "published" -> 4
      [] OTHER -> 3

Bytes(kind) == [i \in 1..Length(kind) |-> <<kind, i>>]
Stream(kinds) == FlattenSeq([i \in DOMAIN kinds |-> Bytes(kinds[i])])

(* The packets that are whole in bytes, which start with a packet, and the *)
(* bytes behind the last of them.                                          *)
Completes(byte) == byte[2] = Length(byte[1])
Frames(bytes) ==
    FlattenSeq([i \in DOMAIN bytes |->
                   IF Completes(bytes[i]) THEN <<bytes[i][1]>> ELSE <<>>])
Rest(bytes) ==
    SubSeq(bytes, SelectLastInSeq(bytes, Completes) + 1, Len(bytes))

Tally(kind, kinds) == Cardinality({i \in DOMAIN kinds : kinds[i] = kind})

LinkTypeOK ==
    /\ MqTypeOK
    /\ up \in Seq(ToServer \X (1..4)) /\ down \in Seq(ToClient \X (1..4))
    /\ serverUp \in BOOLEAN
    /\ buffer \in Seq(ToServer \X (1..4))
    /\ packet \in {"none", "bare", "sized"}
    /\ discards \in Nat /\ owed \in 0..1
    /\ written \in Seq(ToServer) /\ handled \in Seq(ToServer)
    /\ emitted \in Seq({"genuine", "garbled"})
    /\ publications \in 0..1
    /\ splitUp \in BOOLEAN /\ ragged \in BOOLEAN

(* What the server knows of a new client.                                  *)
NewClient ==
    /\ buffer = <<>> /\ packet = "none"
    /\ discards = 0 /\ owed = 0

LinkInit ==
    /\ MqInit
    /\ up = <<>> /\ down = <<>>
    /\ serverUp = TRUE
    /\ NewClient
    /\ written = <<>> /\ handled = <<>> /\ emitted = <<>>
    /\ publications = 0
    /\ splitUp = FALSE /\ ragged = FALSE

-----------------------------------------------------------------------------
(* The server: accumulate, process, and the listeners of server.js.        *)

(* What the listeners write to the client at once.                         *)
Reply(kind) ==
    CASE kind = "connect" -> <<"connack">>
      [] kind = "subscribe" -> <<"suback">>
      [] kind = "pingreq" -> <<"pingresp">>
      [] OTHER -> <<>>
Replies(kinds) == FlattenSeq([i \in DOMAIN kinds |-> Reply(kinds[i])])

ProcessOwing(kinds) ==
    /\ handled' = handled \o kinds
    /\ down' = down \o Stream(Replies(kinds))
    /\ owed' = owed + Len(kinds)

(* process, for each of the packets in turn.  A SUBSCRIBE is followed by a *)
(* publication, a second later.                                            *)
Process(kinds) ==
    /\ handled' = handled \o kinds
    /\ down' = down \o Stream(Replies(kinds))
    /\ owed' = owed + Tally("subscribe", kinds)

Shape(bytes) ==
    CASE bytes = <<>> -> "none"
      [] Len(bytes) = 1 -> "bare"
      [] OTHER -> "sized"

AssembleUncleared(all) ==
    /\ packet = "none"
    /\ Process(Frames(all))
    /\ buffer' = Rest(all)
    /\ packet' = Shape(Rest(all))
    /\ discards' = discards + 1
    /\ UNCHANGED serverUp

(* No packet was begun: every whole one in all the bytes is handled, and   *)
(* its timer cleared; what is left begins a packet, under a timer.         *)
Assemble(all) ==
    /\ packet = "none"
    /\ Process(Frames(all))
    /\ buffer' = Rest(all)
    /\ packet' = Shape(Rest(all))
    /\ discards' = discards + (IF Rest(all) = <<>> THEN 0 ELSE 1)
    /\ UNCHANGED serverUp

(* A packet was begun and is not complete, or has no length: a header byte *)
(* that came alone is never looked at again, and no number of bytes reaches *)
(* a length that is undefined.                                             *)
KeepWaiting(all) ==
    /\ packet = "bare" \/ (packet = "sized" /\ Frames(all) = <<>>)
    /\ buffer' = all
    /\ discards' = discards + 1
    /\ UNCHANGED <<serverUp, packet, owed, handled, down>>

(* The rest of a begun packet arrives: the local variable packet was set   *)
(* by the call that began it, and is undefined in this one.                *)
Trip(all) ==
    /\ packet = "sized" /\ Frames(all) # <<>>
    /\ serverUp' = FALSE
    /\ buffer' = all
    /\ UNCHANGED <<packet, discards, owed, handled, down>>

(* 'data' at the server, the first n bytes under way.                      *)
Accumulate(n) ==
    /\ serverUp
    /\ n \in 1..Len(up)
    /\ up' = SubSeq(up, n + 1, Len(up))
    /\ splitUp' = (splitUp \/ ~Completes(up[n]))
    /\ LET all == buffer \o SubSeq(up, 1, n)
       IN  Assemble(all) \/ KeepWaiting(all) \/ Trip(all)
    /\ UNCHANGED <<mqVars, written, emitted, publications, ragged>>

DiscardAll ==
    /\ serverUp
    /\ discards > 0
    /\ discards' = discards - 1
    /\ packet' = "none"
    /\ buffer' = <<>>
    /\ UNCHANGED <<mqVars, up, down, serverUp, owed, handled, written, emitted,
                   publications, splitUp, ragged>>

(* A packetTimer fires; only the newest can be cleared.  The packet is     *)
(* forgotten, its bytes stay in the buffer until more arrive.              *)
Discard ==
    /\ serverUp
    /\ discards > 0
    /\ discards' = discards - 1
    /\ packet' = "none"
    /\ UNCHANGED <<mqVars, up, down, serverUp, buffer, owed, handled, written,
                   emitted, publications, splitUp, ragged>>

(* The timer of the 'subscribe' listener.                                  *)
ServerPublishes ==
    /\ serverUp
    /\ owed > 0
    /\ owed' = owed - 1
    /\ down' = down \o Bytes("published")
    /\ publications' = publications + 1
    /\ UNCHANGED <<mqVars, up, serverUp, buffer, packet, discards, handled,
                   written, emitted, splitUp, ragged>>

-----------------------------------------------------------------------------
(* The client.                                                             *)

Write(kinds) ==
    /\ up' = up \o Stream(kinds)
    /\ written' = written \o kinds

OpenSession == Write(<<"connect">>)

(* 'connect'.                                                              *)
Connects ==
    /\ SocketConnects
    /\ OpenSession
    /\ UNCHANGED <<down, serverVars, emitted, publications, splitUp, ragged>>

(* The n bytes that arrive are one packet of the kind.                     *)
Brings(n, kind) == SubSeq(down, 1, n) = Bytes(kind)

(* The listeners of client.js: it subscribes and publishes, or exits.      *)
OnSessionOpened == Write(<<"subscribe", "publish">>)
OnOpenSessionFailed == SessionRefused

(* Before the session is open: four bytes with a zero at the end are a     *)
(* CONNACK; anything else means that there will be no session.             *)
OpensSession(n) ==
    /\ ~sessionOpened
    /\ \/ Brings(n, "connack") /\ SessionOpens /\ OnSessionOpened
       \/ /\ ~Brings(n, "connack")
          /\ OnOpenSessionFailed /\ UNCHANGED <<up, written>>
    /\ UNCHANGED emitted

OnDataLonger(n) ==
    /\ sessionOpened
    /\ IF n > Length("published") /\ down[1] = <<"published", 1>>
       THEN emitted' = Append(emitted, "garbled")
       ELSE UNCHANGED emitted
    /\ UNCHANGED <<mqVars, up, written>>

(* onData, for the first n bytes.  Two bytes or less are dropped, and what *)
(* does not begin like a PUBLISH is ignored.  The payload is all that      *)
(* stands behind the topic, if the topic is whole.                         *)
OnData(n) ==
    /\ sessionOpened
    /\ IF n > 2 /\ down[1] = <<"published", 1>>
       THEN \/ emitted' = Append(emitted, IF Brings(n, "published")
                                          THEN "genuine" ELSE "garbled")
            \/ n < Length("published") /\ UNCHANGED emitted
       ELSE UNCHANGED emitted
    /\ UNCHANGED <<mqVars, up, written>>

(* 'data' at the client, the first n bytes under way.                      *)
Receives(n) ==
    /\ running /\ tcp = "open"
    /\ n \in 1..Len(down)
    /\ down' = SubSeq(down, n + 1, Len(down))
    /\ ragged' = (ragged \/ \A kind \in ToClient : ~Brings(n, kind))
    /\ OpensSession(n) \/ OnData(n)
    /\ UNCHANGED <<serverVars, publications, splitUp>>

Live ==
    /\ Tally("pingreq", written) < MaxPings
    /\ Write(<<"pingreq">>)

(* timeUp: the keep-alive, or the end of the process.                      *)
TimeUp ==
    /\ \/ TimeUpPings /\ Live
       \/ (TimeUpExits \/ TimeUpUnknown) /\ UNCHANGED <<up, written>>
    /\ UNCHANGED <<down, serverVars, emitted, publications, splitUp, ragged>>

(* The connection goes with the server's process, in order or not; what    *)
(* was still to be read is lost.                                           *)
ConnectionGoes ==
    /\ ~serverUp
    /\ BrokerEnds \/ SocketFails
    /\ down' = <<>>
    /\ UNCHANGED <<up, serverVars, written, emitted, publications, splitUp,
                   ragged>>

LinkNext ==
    \/ \E n \in 1..Len(up) : Accumulate(n)
    \/ \E n \in 1..Len(down) : Receives(n)
    \/ Discard
    \/ ServerPublishes
    \/ Connects
    \/ TimeUp
    \/ ConnectionGoes

LinkSpec == LinkInit /\ [][LinkNext]_linkVars

-----------------------------------------------------------------------------
(* While the server runs, it has handled exactly the packets that were     *)
(* written before those it holds or that are under way, in order: neither  *)
(* the timers that throw packets away nor a stuck header byte lose or      *)
(* repeat one.                                                             *)
FramesInOrder == serverUp => written = handled \o Frames(buffer \o up)

(* Only a chunk that ends inside a packet can hurt the server: as long as  *)
(* none has, whatever the number of packets in a chunk, it runs, holds no  *)
(* byte back, has no packet begun and leaves no timer behind.              *)
CleanUnlessSplit ==
    ~splitUp => /\ serverUp
                /\ buffer = <<>> /\ packet = "none"
                /\ discards = 0

(* As long as the chunks that reach the client are single packets, every   *)
(* publication it reports is one the server sent, whole and once; the      *)
(* others are still under way, or the connection has gone.                 *)
Pending == Tally("published", Frames(down))
DeliveredGenuine ==
    ~ragged => /\ "garbled" \notin Range(emitted)
               /\ Len(emitted) + Pending <= publications
               /\ (serverUp /\ sessionOpened
                    => Len(emitted) + Pending = publications)

=============================================================================

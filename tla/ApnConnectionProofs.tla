-------------------------- MODULE ApnConnectionProofs -------------------------
(***************************************************************************)
(* Proofs about ApnConnection, for any notifications, any number of        *)
(* sockets and any length of the cache.                                    *)
(***************************************************************************)
EXTENDS ApnConnection, SequenceTheorems, WellFoundedInduction, TLAPS

USE ApnAssumption

-----------------------------------------------------------------------------
(* Sequences of identifiers.                                               *)

(* A new identifier at the end keeps a sequence increasing.                *)
LEMMA AppendNew ==
    ASSUME NEW q \in Seq(Nat), NEW n \in Nat, Increasing(q),
           \A id \in Range(q) : id < n
    PROVE  /\ Append(q, n) \in Seq(Nat)
           /\ Increasing(Append(q, n))
           /\ Range(Append(q, n)) = Range(q) \cup {n}
<1>1. /\ Append(q, n) \in Seq(Nat)
      /\ Len(Append(q, n)) = Len(q) + 1
      /\ \A i \in 1..Len(q) : Append(q, n)[i] = q[i]
      /\ Append(q, n)[Len(q) + 1] = n
  BY AppendProperties
<1>2. DOMAIN q = 1..Len(q) /\ DOMAIN Append(q, n) = 1..(Len(q) + 1)
  BY <1>1, LenProperties
<1>3. \A i \in 1..Len(q) : q[i] \in Range(q)
  BY <1>2 DEF Range
<1>4. Increasing(Append(q, n))
  <2> SUFFICES ASSUME NEW i \in 1..(Len(q) + 1), NEW j \in 1..(Len(q) + 1),
                      i < j
               PROVE  Append(q, n)[i] < Append(q, n)[j]
    BY <1>2 DEF Increasing
  <2>1. i \in 1..Len(q) /\ Append(q, n)[i] = q[i] /\ q[i] < n
    BY <1>1, <1>3, LenProperties
  <2>2. CASE j = Len(q) + 1
    BY <2>1, <2>2, <1>1
  <2>3. CASE j # Len(q) + 1
    <3>1. j \in 1..Len(q) /\ Append(q, n)[j] = q[j]
      BY <2>3, <1>1, LenProperties
    <3> QED
      BY <2>1, <3>1, <1>2 DEF Increasing
  <2> QED
    BY <2>2, <2>3
<1>5. Range(Append(q, n)) = Range(q) \cup {n}
  <2>1. ASSUME NEW x \in Range(Append(q, n))
        PROVE  x \in Range(q) \cup {n}
    <3>1. PICK i \in 1..(Len(q) + 1) : x = Append(q, n)[i]
      BY <1>2 DEF Range
    <3> QED
      BY <3>1, <1>1, <1>3, LenProperties
  <2>2. Range(q) \subseteq Range(Append(q, n))
    BY <1>1, <1>2, LenProperties DEF Range
  <2>3. n \in Range(Append(q, n))
    BY <1>1, <1>2, LenProperties DEF Range
  <2> QED
    BY <2>1, <2>2, <2>3
<1> QED
  BY <1>1, <1>4, <1>5

(* A set of natural numbers that is not empty has a least element.         *)
LEMMA MinIsElement ==
    ASSUME NEW I \in SUBSET Nat, I # {}
    PROVE  Min(I) \in I
<1>1. PICK x \in I : \A y \in I : <<y, x>> \notin OpToRel(<, Nat)
  BY WFMin, NatLessThanWellFounded, Zenon
<1>2. \A y \in I : ~(y < x)
  BY <1>1, Zenon DEF OpToRel
<1>3. \A y \in I : x =< y
  BY <1>2
<1> QED
  BY <1>3 DEF Min

(* What follows a refused notification in the cache is a sequence.         *)
LEMMA FollowingIsSeq ==
    ASSUME TypeOK, NEW id \in Nat
    PROVE  Following(id) \in Seq(Note)
<1> DEFINE I == {i \in 1..Len(cachedNotes) : uid[cachedNotes[i]] = id}
<1>1. Position(id) = IF I # {} THEN Min(I) ELSE 0
  BY DEF Position, SelectInSeq
<1>2. CASE I = {}
  BY <1>1, <1>2, EmptySeq DEF Following
<1>3. CASE I # {}
  <2>1. I \in SUBSET Nat
    BY LenProperties DEF TypeOK
  <2>2. Min(I) \in I
    BY <1>3, <2>1, MinIsElement
  <2>3. Position(id) \in 1..Len(cachedNotes)
    BY <1>1, <1>3, <2>2
  <2>4. \A i \in (Position(id) + 1)..Len(cachedNotes) : cachedNotes[i] \in Note
    BY <2>3, LenProperties, ElementOfSeq DEF TypeOK
  <2>5. Len(cachedNotes) \in Nat
    BY LenProperties DEF TypeOK
  <2>6. SubSeq(cachedNotes, Position(id) + 1, Len(cachedNotes)) \in Seq(Note)
    BY <2>3, <2>4, <2>5, SubSeqProperties
  <2> QED
    BY <2>3, <2>6 DEF Following
<1> QED
  BY <1>2, <1>3

(* So is what nextTick will send again.                                    *)
LEMMA ClosuresIsSeq ==
    ASSUME NEW notes \in Seq(Note)
    PROVE  Closures(notes) \in Seq(Note)
<1>1. DOMAIN notes = 1..Len(notes) /\ Len(notes) \in Nat
  BY LenProperties
<1>2. \A i \in 1..Len(notes) : Last(notes) \in Note
  BY <1>1, ElementOfSeq DEF Last
<1> QED
  BY <1>1, <1>2, IsASeq DEF Closures

-----------------------------------------------------------------------------
LEMMA InitIInv == Init => IInv
<1> SUFFICES ASSUME Init
             PROVE  IInv
  OBVIOUS
<1>1. Range(<<>>) = {} /\ Increasing(<<>>)
  BY DEF Range, Increasing
<1>2. TypeOK
  <2>1. /\ offlineCache \in Seq(Nat) /\ ticks \in Seq(Note)
        /\ cachedNotes \in Seq(Note) /\ Len(cachedNotes) <= CacheLength
    BY EmptySeq DEF Init
  <2>2. wire \in [Socket -> Seq(Nat)]
    BY EmptySeq DEF Init
  <2>3. uid \in [Note -> Nat \cup {-1}]
    BY DEF Init
  <2> QED
    BY <2>1, <2>2, <2>3 DEF Init, TypeOK, ReadyState
<1>3. OwnSocket /\ SocketInv
  BY DEF Init, OwnSocket, SocketInv
<1>4. WireInv /\ WireOrder
  BY <1>1 DEF Init, WireInv, WireOrder
<1>5. NothingLost
  BY DEF Init, NothingLost
<1> QED
  BY <1>2, <1>3, <1>4, <1>5 DEF IInv

(* Starting a socket, when the held one is closed or there is none.        *)
LEMMA StartKeepsSockets ==
    ASSUME TypeOK, OwnSocket, SocketInv,
           socket = None \/ state[socket] = "closed",
           ready', NEW s \in Socket, StartSocket(s)
    PROVE  OwnSocket' /\ SocketInv'
BY DEF StartSocket, OwnSocket, SocketInv, TypeOK, Live, ReadyState

(* Remembering a notification.                                             *)
LEMMA RememberKeepsLength ==
    ASSUME TypeOK, NEW n \in Note, Remember(n)
    PROVE  cachedNotes' \in Seq(Note) /\ Len(cachedNotes') <= CacheLength
<1>1. /\ cachedNotes \in Seq(Note)
      /\ Len(cachedNotes) \in Nat /\ Len(cachedNotes) <= CacheLength
  BY LenProperties DEF TypeOK
<1>2. PICK notes : notes = Append(cachedNotes, n)
  OBVIOUS
<1>3. /\ notes \in Seq(Note)
      /\ notes # <<>>
      /\ Len(notes) = Len(cachedNotes) + 1
  BY <1>1, <1>2, AppendProperties
<1>4. Tail(notes) \in Seq(Note) /\ Len(Tail(notes)) = Len(notes) - 1
  BY <1>3, HeadTailProperties
<1>5. cachedNotes' = IF Len(notes) > CacheLength THEN Tail(notes) ELSE notes
  BY <1>2 DEF Remember
<1> QED
  BY <1>1, <1>3, <1>4, <1>5

(* Sending a notification: the packet has a new identifier, and goes to    *)
(* exactly one place.                                                      *)
LEMMA SendKeepsIInv ==
    ASSUME IInv, NEW n \in Note, SendNotification(n),
           alive' \in BOOLEAN, ready' = ready, refused' \subseteq Socket,
           ticks' \in Seq(Note), unsent' \subseteq Note, faults' \in Nat
    PROVE  IInv'
<1> USE DEF IInv
<1>1. CASE n \in Big
  <2>1. UNCHANGED <<socket, state, listening, currentId, uid, offlineCache,
                    cachedNotes, wire>>
    BY <1>1 DEF SendNotification
  <2>2. TypeOK'
    BY <2>1 DEF TypeOK
  <2>3. OwnSocket' /\ SocketInv'
    BY <2>1 DEF OwnSocket, SocketInv
  <2>4. WireInv' /\ WireOrder' /\ NothingLost'
    BY <2>1 DEF WireInv, WireOrder, NothingLost
  <2> QED
    BY <2>2, <2>3, <2>4
<1>2. CASE n \notin Big
  <2>1. /\ uid' = [uid EXCEPT ![n] = currentId]
        /\ currentId' = currentId + 1
        /\ Remember(n) /\ WriteOrKeep(currentId)
    BY <1>2 DEF SendNotification
  <2>2. currentId \in Nat /\ currentId' \in Nat
    BY <2>1 DEF TypeOK
  <2>3. uid' \in [Note -> Nat \cup {-1}]
    BY <2>1, <2>2 DEF TypeOK
  <2>4. cachedNotes' \in Seq(Note) /\ Len(cachedNotes') <= CacheLength
    BY <2>1, RememberKeepsLength
  <2>5. CASE IsOpen
    <3>1. /\ wire' = [wire EXCEPT ![socket] = Append(@, currentId)]
          /\ UNCHANGED <<socket, state, listening, offlineCache>>
      BY <2>1, <2>5 DEF WriteOrKeep
    <3>2. socket \in Socket /\ state[socket] = "open"
      BY <2>5 DEF IsOpen, TypeOK
    <3>3. /\ Append(wire[socket], currentId) \in Seq(Nat)
          /\ Increasing(Append(wire[socket], currentId))
          /\ Range(Append(wire[socket], currentId))
                = Range(wire[socket]) \cup {currentId}
      BY <3>2, <2>2, AppendNew DEF TypeOK, WireInv, WireOrder
    <3>4. /\ wire'[socket] = Append(wire[socket], currentId)
          /\ \A s \in Socket : s # socket => wire'[s] = wire[s]
          /\ wire' \in [Socket -> Seq(Nat)]
      BY <3>1, <3>2, <3>3 DEF TypeOK
    <3>5. TypeOK'
      BY <2>2, <2>3, <2>4, <3>1, <3>4 DEF TypeOK
    <3>6. OwnSocket' /\ SocketInv'
      BY <3>1 DEF OwnSocket, SocketInv
    <3>7. WireOrder'
      BY <3>1, <3>3, <3>4 DEF WireOrder
    <3>8. WireInv'
      <4>1. ASSUME NEW s \in Socket, state[s] \in {"unused", "opening"}
            PROVE  wire'[s] = <<>>
        BY <4>1, <3>2, <3>4 DEF WireInv
      <4>2. ASSUME NEW s \in Socket, NEW id \in Range(wire'[s])
            PROVE  id < currentId'
        <5>1. id \in Nat
          BY <3>4, RangeOfSeq
        <5>2. id \in Range(wire[s]) \/ id = currentId
          BY <3>3, <3>4
        <5>3. id \in Range(wire[s]) => id < currentId
          BY DEF WireInv
        <5> QED
          BY <5>1, <5>2, <5>3, <2>1, <2>2
      <4>3. ASSUME NEW id \in Range(offlineCache)
            PROVE  id < currentId'
        <5>1. Range(offlineCache) \subseteq Nat
          BY RangeOfSeq DEF TypeOK
        <5> QED
          BY <5>1, <2>1, <2>2 DEF WireInv
      <4> QED
        BY <4>1, <4>2, <4>3, <3>1 DEF WireInv
    <3>9. NothingLost'
      <4> SUFFICES ASSUME NEW id \in 0..currentId
                   PROVE  LET places == {s \in Socket : id \in Range(wire'[s])}
                          IN  IF id \in Range(offlineCache) THEN places = {}
                              ELSE \E s \in Socket : places = {s}
        BY <2>1, <2>2, <3>1 DEF NothingLost
      <4>1. CASE id = currentId
        <5>1. /\ id \notin Range(offlineCache)
              /\ \A s \in Socket : id \notin Range(wire[s])
          BY <4>1, <2>2 DEF WireInv
        <5>2. {s \in Socket : id \in Range(wire'[s])} = {socket}
          BY <5>1, <4>1, <3>2, <3>3, <3>4
        <5> QED
          BY <5>1, <5>2, <3>2
      <4>2. CASE id # currentId
        <5>1. id \in 0..(currentId - 1)
          BY <4>2, <2>2
        <5>2. \A s \in Socket :
                 id \in Range(wire'[s]) <=> id \in Range(wire[s])
          BY <4>2, <3>3, <3>4
        <5> QED
          BY <5>1, <5>2 DEF NothingLost
      <4> QED
        BY <4>1, <4>2
    <3> QED
      BY <3>5, <3>6, <3>7, <3>8, <3>9
  <2>6. CASE ~IsOpen
    <3>1. /\ offlineCache' = Append(offlineCache, currentId)
          /\ UNCHANGED wire
          /\ IF MayStart THEN \E s \in Socket : StartSocket(s)
             ELSE UNCHANGED <<socket, state, listening>>
      BY <2>1, <2>6 DEF WriteOrKeep
    <3>2. /\ offlineCache' \in Seq(Nat)
          /\ Increasing(offlineCache')
          /\ Range(offlineCache') = Range(offlineCache) \cup {currentId}
      BY <3>1, <2>2, AppendNew DEF TypeOK, WireInv, WireOrder
    <3>3. /\ OwnSocket' /\ SocketInv'
          /\ socket' \in Socket \cup {None} /\ listening' \subseteq Socket
          /\ state' \in [Socket -> ReadyState]
          /\ \A s \in Socket : state'[s] \in {"unused", "opening"}
                 => state[s] \in {"unused", "opening"}
      <4>1. CASE MayStart
        <5>1. PICK s \in Socket : StartSocket(s)
          BY <3>1, <4>1
        <5>2. OwnSocket' /\ SocketInv'
          BY <5>1, <4>1, StartKeepsSockets DEF MayStart
        <5> QED
          BY <5>1, <5>2 DEF StartSocket, TypeOK, ReadyState
      <4>2. CASE ~MayStart
        BY <3>1, <4>2 DEF OwnSocket, SocketInv, TypeOK
      <4> QED
        BY <4>1, <4>2
    <3>4. TypeOK'
      BY <2>2, <2>3, <2>4, <3>1, <3>2, <3>3 DEF TypeOK
    <3>5. WireOrder'
      BY <3>1, <3>2 DEF WireOrder
    <3>6. WireInv'
      <4>1. \A s \in Socket : Range(wire[s]) \subseteq Nat
        BY RangeOfSeq DEF TypeOK
      <4>2. Range(offlineCache) \subseteq Nat
        BY RangeOfSeq DEF TypeOK
      <4>3. \A s \in Socket : \A id \in Range(wire[s]) : id < currentId'
        BY <4>1, <2>1, <2>2 DEF WireInv
      <4>4. \A id \in Range(offlineCache') : id < currentId'
        BY <4>2, <3>2, <2>1, <2>2 DEF WireInv
      <4> QED
        BY <4>3, <4>4, <3>1, <3>3 DEF WireInv
    <3>7. NothingLost'
      <4> SUFFICES ASSUME NEW id \in 0..currentId
                   PROVE  LET places == {s \in Socket : id \in Range(wire[s])}
                          IN  IF id \in Range(offlineCache') THEN places = {}
                              ELSE \E s \in Socket : places = {s}
        BY <2>1, <2>2, <3>1 DEF NothingLost
      <4>1. CASE id = currentId
        <5>1. ~(id < currentId)
          BY <4>1, <2>2
        <5>2. \A s \in Socket : id \notin Range(wire[s])
          BY <5>1 DEF WireInv
        <5> QED
          BY <5>2, <4>1, <3>2
      <4>2. CASE id # currentId
        <5>1. id \in 0..(currentId - 1)
          BY <4>2, <2>2
        <5>2. id \in Range(offlineCache') <=> id \in Range(offlineCache)
          BY <4>2, <3>2
        <5> QED
          BY <5>1, <5>2 DEF NothingLost
      <4> QED
        BY <4>1, <4>2
    <3> QED
      BY <3>3, <3>4, <3>5, <3>6, <3>7
  <2> QED
    BY <2>5, <2>6
<1> QED
  BY <1>1, <1>2

-----------------------------------------------------------------------------
(* The steps that leave the queues alone.                                  *)

LEMMA QueuesKept ==
    ASSUME IInv, UNCHANGED <<currentId, wire, offlineCache>>,
           \A s \in Socket : state'[s] \in {"unused", "opening"}
              => state[s] \in {"unused", "opening"}
    PROVE  WireInv' /\ WireOrder' /\ NothingLost'
BY DEF IInv, WireInv, WireOrder, NothingLost

(* The callback of tls.connect moves what was kept to a new socket.        *)
LEMMA SecureKeepsIInv ==
    ASSUME IInv, NEW s \in Socket, Secure(s)
    PROVE  IInv'
<1> USE DEF IInv
<1>1. /\ state[s] = "opening" /\ Settled
      /\ state' = [state EXCEPT ![s] = "open"]
      /\ UNCHANGED <<alive, ready, socket, listening, refused, currentId, uid,
                     cachedNotes, ticks, unsent, faults>>
  BY DEF Secure
<1>2. wire[s] = <<>>
  BY <1>1 DEF WireInv
<1>3. OwnSocket' /\ SocketInv'
  BY <1>1 DEF OwnSocket, SocketInv, Live, TypeOK, ReadyState
<1>4. CASE s \in listening
  <2>1. socket = s
    BY <1>1, <1>4 DEF OwnSocket, Live
  <2>2. /\ offlineCache' = <<>>
        /\ wire' = [wire EXCEPT ![s] = <<>> \o offlineCache]
    BY <1>2, <1>4, <2>1 DEF Secure, TypeOK
  <2>3. <<>> \o offlineCache = offlineCache
    BY ConcatEmptySeq DEF TypeOK
  <2>4. /\ wire'[s] = offlineCache
        /\ \A t \in Socket : t # s => wire'[t] = wire[t]
        /\ wire' \in [Socket -> Seq(Nat)]
    BY <2>2, <2>3 DEF TypeOK
  <2>5. /\ offlineCache' \in Seq(Nat) /\ Range(offlineCache') = {}
        /\ Increasing(offlineCache')
    BY <2>2, EmptySeq DEF Range, Increasing
  <2>6. TypeOK'
    BY <1>1, <2>4, <2>5 DEF TypeOK, ReadyState
  <2>7. WireOrder'
    BY <2>4, <2>5 DEF WireOrder
  <2>8. WireInv'
    BY <1>1, <2>4, <2>5 DEF WireInv, TypeOK, ReadyState
  <2>9. NothingLost'
    <3> SUFFICES ASSUME NEW id \in 0..(currentId - 1)
                 PROVE  \E t \in Socket :
                           {r \in Socket : id \in Range(wire'[r])} = {t}
      BY <1>1, <2>5 DEF NothingLost
    <3>1. id \notin Range(wire[s])
      BY <1>2 DEF Range
    <3>2. CASE id \in Range(offlineCache)
      <4>1. \A t \in Socket : id \notin Range(wire[t])
        BY <3>2 DEF NothingLost
      <4>2. {r \in Socket : id \in Range(wire'[r])} = {s}
        BY <3>2, <4>1, <2>4
      <4> QED
        BY <4>2
    <3>3. CASE id \notin Range(offlineCache)
      <4>1. \A r \in Socket : id \in Range(wire'[r]) <=> id \in Range(wire[r])
        BY <3>1, <3>3, <2>4
      <4>2. PICK t \in Socket : {r \in Socket : id \in Range(wire[r])} = {t}
        BY <3>3 DEF NothingLost
      <4> QED
        BY <4>1, <4>2
    <3> QED
      BY <3>2, <3>3
  <2> QED
    BY <1>3, <2>6, <2>7, <2>8, <2>9
<1>5. CASE s \notin listening
  <2>1. UNCHANGED <<wire, offlineCache>>
    BY <1>5 DEF Secure
  <2>2. TypeOK'
    BY <1>1, <2>1 DEF TypeOK, ReadyState
  <2>3. WireInv' /\ WireOrder' /\ NothingLost'
    BY <1>1, <2>1, QueuesKept DEF TypeOK
  <2> QED
    BY <1>3, <2>2, <2>3
<1> QED
  BY <1>4, <1>5

(* A refused packet ends the socket it came on and fills the tick queue.   *)
LEMMA ErrorKeepsIInv ==
    ASSUME IInv, NEW s \in Socket, NEW id \in 0..currentId,
           TransmissionError(s, id)
    PROVE  IInv'
<1> USE DEF IInv
<1>1. /\ state[s] = "open" /\ s \in listening
      /\ state' = [state EXCEPT ![socket] = "readOnly"]
      /\ UNCHANGED <<alive, ready, socket, listening, currentId, uid,
                     offlineCache, unsent, faults, wire>>
  BY DEF TransmissionError
<1>2. socket = s
  BY <1>1 DEF OwnSocket, Live
<1>3. OwnSocket' /\ SocketInv'
  BY <1>1, <1>2 DEF OwnSocket, SocketInv, TypeOK, Live
<1>4. ticks' \in Seq(Note)
  <2>1. id \in Nat
    BY DEF TypeOK
  <2>2. Closures(Following(id)) \in Seq(Note)
    BY <2>1, FollowingIsSeq, ClosuresIsSeq
  <2> QED
    BY <2>2, ConcatProperties DEF TransmissionError, TypeOK
<1>5. cachedNotes' \in Seq(Note) /\ Len(cachedNotes') <= CacheLength
  BY EmptySeq DEF TransmissionError
<1>6. TypeOK'
  BY <1>1, <1>4, <1>5 DEF TransmissionError, TypeOK, ReadyState
<1>7. WireInv' /\ WireOrder' /\ NothingLost'
  BY <1>1, <1>2, QueuesKept DEF TypeOK
<1> QED
  BY <1>3, <1>6, <1>7

LEMMA NextIInv == IInv /\ [Next]_apnVars => IInv'
<1> SUFFICES ASSUME IInv, [Next]_apnVars
             PROVE  IInv'
  OBVIOUS
<1> USE DEF IInv
<1>1. CASE FilesRead
  <2>1. PICK s \in Socket : StartSocket(s)
    BY <1>1 DEF FilesRead
  <2>2. socket = None /\ ready'
    BY <1>1 DEF FilesRead, SocketInv
  <2>3. OwnSocket' /\ SocketInv'
    BY <2>1, <2>2, StartKeepsSockets
  <2>4. TypeOK'
    BY <1>1, <2>1 DEF FilesRead, StartSocket, TypeOK, ReadyState
  <2>5. WireInv' /\ WireOrder' /\ NothingLost'
    BY <1>1, <2>1, QueuesKept DEF FilesRead, StartSocket, TypeOK
  <2> QED
    BY <2>3, <2>4, <2>5
<1>2. ASSUME NEW n \in Note, ToApns(n)
      PROVE  IInv'
  BY <1>2, SendKeepsIInv DEF ToApns, TypeOK
<1>3. CASE SendAgain
  <2>1. Head(ticks) \in Note /\ Tail(ticks) \in Seq(Note)
    BY <1>3, HeadTailProperties DEF SendAgain, TypeOK
  <2> QED
    BY <1>3, <2>1, SendKeepsIInv DEF SendAgain, TypeOK
<1>4. ASSUME NEW s \in Socket, Secure(s)
      PROVE  IInv'
  BY <1>4, SecureKeepsIInv
<1>5. CASE Dies
  <2>1. TypeOK'
    <3>1. faults' \in Nat /\ alive' = FALSE
      BY <1>5 DEF Dies, Fault, TypeOK
    <3>2. UNCHANGED <<ready, socket, state, listening, refused, currentId, uid,
                      offlineCache, cachedNotes, ticks, unsent, wire>>
      BY <1>5 DEF Dies, queues
    <3> QED
      BY <3>1, <3>2 DEF TypeOK
  <2>2. OwnSocket' /\ SocketInv'
    BY <1>5 DEF Dies, OwnSocket, SocketInv
  <2>3. WireInv' /\ WireOrder' /\ NothingLost'
    BY <1>5, QueuesKept DEF Dies, queues
  <2> QED
    BY <2>1, <2>2, <2>3
<1>6. ASSUME NEW s \in Socket, Settled, Shut(s),
             state[s] \in {"opening", "open", "readOnly"}, faults' \in Nat
      PROVE  IInv'
  <2>1. TypeOK'
    BY <1>6 DEF Shut, queues, TypeOK, ReadyState
  <2>2. OwnSocket' /\ SocketInv'
    BY <1>6 DEF Shut, Settled, OwnSocket, SocketInv, TypeOK, Live
  <2>3. WireInv' /\ WireOrder' /\ NothingLost'
    BY <1>6, QueuesKept DEF Shut, queues, TypeOK
  <2> QED
    BY <2>1, <2>2, <2>3
<1>7. ASSUME NEW s \in Socket, Closes(s) \/ Fails(s)
      PROVE  IInv'
  <2>1. /\ state[s] = "closed" /\ state' = [state EXCEPT ![s] = "gone"]
        /\ UNCHANGED <<ready, refused, faults, queues>>
        /\ alive' \in BOOLEAN
        /\ \/ UNCHANGED <<socket, listening>> /\ s \notin listening
           \/ UNCHANGED <<socket, listening>> /\ socket # s
           \/ socket' = None /\ listening' = listening \ {socket}
    BY <1>7 DEF Closes, Fails, Forget, TypeOK
  <2>2. TypeOK'
    BY <2>1 DEF queues, TypeOK, ReadyState
  <2>3. OwnSocket' /\ SocketInv'
    BY <2>1 DEF OwnSocket, SocketInv, TypeOK, Live
  <2>4. WireInv' /\ WireOrder' /\ NothingLost'
    BY <2>1, QueuesKept DEF queues, TypeOK
  <2> QED
    BY <2>2, <2>3, <2>4
<1>8. ASSUME NEW s \in Socket, NEW id \in 0..currentId, TransmissionError(s, id)
      PROVE  IInv'
  BY <1>8, ErrorKeepsIInv
<1>9. CASE UNCHANGED apnVars
  <2>1. TypeOK' /\ OwnSocket' /\ SocketInv'
    BY <1>9 DEF apnVars, TypeOK, OwnSocket, SocketInv
  <2>2. WireInv' /\ WireOrder' /\ NothingLost'
    BY <1>9, QueuesKept DEF apnVars
  <2> QED
    BY <2>1, <2>2
<1>10. ASSUME NEW s \in Socket, Breaks(s) \/ Ended(s)
       PROVE  IInv'
  BY <1>6, <1>10 DEF Breaks, Ended, Fault, TypeOK
<1> QED
  BY <1>1, <1>2, <1>3, <1>4, <1>5, <1>7, <1>8, <1>9, <1>10
     DEF Next, FileMissing, Unauthorized

-----------------------------------------------------------------------------
(* The inductive invariant holds throughout.                               *)
THEOREM Safety == Spec => []IInv
BY InitIInv, NextIInv, PTL DEF Spec

(* Every variable keeps its type, and the cache its length.                *)
THEOREM TypeCorrect == Spec => []TypeOK
<1>1. IInv => TypeOK
  BY DEF IInv
<1> QED
  BY Safety, <1>1, PTL

(* A handler that uses self.socket as its own socket is right.             *)
THEOREM HandlersSeeOwnSocket == Spec => []OwnSocket
<1>1. IInv => OwnSocket
  BY DEF IInv
<1> QED
  BY Safety, <1>1, PTL

(* No packet overtakes an earlier one on a socket.                         *)
THEOREM PacketsInOrder == Spec => []WireOrder
<1>1. IInv => WireOrder
  BY DEF IInv
<1> QED
  BY Safety, <1>1, PTL

(* Every packet is in the cache or was written to one socket, once.        *)
THEOREM NoPacketLost == Spec => []NothingLost
<1>1. IInv => NothingLost
  BY DEF IInv
<1> QED
  BY Safety, <1>1, PTL

(* The loss of the held connection is survived.                            *)
THEOREM LossIsSurvived == Spec => HeldMayFail
<1>1. IInv => [\A s \in Socket : Closes(s) \/ (Fails(s) /\ socket = s)
                  => alive']_apnVars
  <2> SUFFICES ASSUME IInv, NEW s \in Socket,
                      Closes(s) \/ (Fails(s) /\ socket = s)
               PROVE  alive'
    OBVIOUS
  <2>1. CASE Closes(s)
    BY <2>1 DEF Closes, Forget, IInv, SocketInv
  <2>2. CASE Fails(s) /\ socket = s
    BY <2>2 DEF Fails, Forget, IInv, SocketInv
  <2> QED
    BY <2>1, <2>2
<1> QED
  BY Safety, <1>1, PTL DEF Spec, HeldMayFail
=============================================================================

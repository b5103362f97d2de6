---------------------------- MODULE StreamsProofs -----------------------------
(***************************************************************************)
(* Proofs about the two byte streams, MqttLink and Feedback, for chunks of *)
(* any size, any number of keep-alives, connections and tuples and any     *)
(* length of a tuple.  The link rests on what the bytes of a stretch say   *)
(* of the packets in it: Frames of a concatenation is the concatenation of *)
(* the Frames, and the Frames of what was written are the packets written. *)
(* Feedback rests on remainders: what is buffered is what the attached     *)
(* connection has sent of a tuple.                                         *)
(*                                                                         *)
(* FlattenSeq is recursive.  What is said of it is proved by contradiction *)
(* at a least counterexample (LeastElement, from the theorem that < is     *)
(* well-founded on Nat), not by induction.                                 *)
(***************************************************************************)
EXTENDS MCStreams, TLAPS, SequenceTheorems, FiniteSetTheorems,
        WellFoundedInduction

-----------------------------------------------------------------------------
(* The feedback client.                                                    *)

(* Nothing is opened before the certificate and the key were read.         *)
Unstarted ==
    files # File =>
        /\ listening = {} /\ socket = Nobody
        /\ \A c \in Connection : state[c] = "unused"

(* Only self.socket can bring bytes to processData.                        *)
Attached(c) == c \in listening /\ state[c] \in {"opening", "open"}
OneAttached == \A c \in Connection : Attached(c) => c = socket
NoneArrived == \A c \in Connection : state[c] = "unused" => arrived[c] = 0

(* A tuple begins wherever the bytes before are whole tuples, and goes on  *)
(* with the next byte of its connection.                                   *)
Aligned(bytes) ==
    \A i \in DOMAIN bytes :
        IF i % ResponseLength = 1
        THEN bytes[i][2] % ResponseLength = 1
        ELSE bytes[i] = <<bytes[i-1][1], bytes[i-1][2] + 1>>

(* The buffer holds what the attached connection has sent of a tuple, and  *)
(* ends where the connection is.                                           *)
Continues(c) ==
    /\ arrived[c] % ResponseLength = Len(readBuffer)
    /\ readBuffer # <<>> => received[Len(received)] = <<c, arrived[c]>>

Tuples ==
    flaws = {} =>
        /\ decoded \o readBuffer = received
        /\ Len(readBuffer) < ResponseLength
        /\ Len(decoded) % ResponseLength = 0
        /\ Aligned(received)
        /\ \A c \in Connection : Attached(c) => Continues(c)

FeedbackInv ==
    FeedbackTypeOK /\ Unstarted /\ OneAttached /\ NoneArrived /\ Tuples

-----------------------------------------------------------------------------
(* A quotient and a remainder are the ones of the division.                *)
LEMMA Remainder ==
    ASSUME NEW q \in Nat, NEW r \in Nat, r < ResponseLength
    PROVE  (ResponseLength * q + r) % ResponseLength = r
  BY FeedbackAssumption, SMT

LEMMA Division ==
    ASSUME NEW a \in Nat
    PROVE  \E q \in Nat, r \in Nat :
              /\ r < ResponseLength
              /\ a = ResponseLength * q + r
              /\ a % ResponseLength = r
<1>1. /\ a \div ResponseLength \in Nat
      /\ a % ResponseLength \in Nat /\ a % ResponseLength < ResponseLength
      /\ a = ResponseLength * (a \div ResponseLength) + (a % ResponseLength)
  BY FeedbackAssumption, SMT
<1> QED
  BY <1>1

(* Numbers that are congruent stay so when the same is added to them.      *)
LEMMA SameRemainder ==
    ASSUME NEW a \in Nat, NEW b \in Nat, NEW n \in Nat,
           a % ResponseLength = b % ResponseLength
    PROVE  (a + n) % ResponseLength = (b + n) % ResponseLength
<1>1. PICK p \in Nat, r \in Nat :
         /\ r < ResponseLength
         /\ a = ResponseLength * p + r /\ a % ResponseLength = r
  BY Division
<1>2. PICK q \in Nat, s \in Nat :
         /\ s < ResponseLength
         /\ b = ResponseLength * q + s /\ b % ResponseLength = s
  BY Division
<1>3. PICK k \in Nat, t \in Nat :
         /\ t < ResponseLength
         /\ r + n = ResponseLength * k + t
  <2>1. r + n \in Nat
    OBVIOUS
  <2> QED BY <2>1, Division
<1>4. /\ a + n = ResponseLength * (p + k) + t
      /\ b + n = ResponseLength * (q + k) + t
  <2>1. /\ ResponseLength * (p + k) = ResponseLength * p + ResponseLength * k
        /\ ResponseLength * (q + k) = ResponseLength * q + ResponseLength * k
        /\ ResponseLength * p \in Nat /\ ResponseLength * q \in Nat
        /\ ResponseLength * k \in Nat
    BY FeedbackAssumption, SMT
  <2> QED BY <1>1, <1>2, <1>3, <2>1
<1>5. p + k \in Nat /\ q + k \in Nat
  OBVIOUS
<1> QED
  BY <1>3, <1>4, <1>5, Remainder

(* What is left of a number after its remainder is a multiple.             *)
LEMMA WholePart ==
    ASSUME NEW a \in Nat
    PROVE  /\ a % ResponseLength \in 0..a
           /\ a % ResponseLength < ResponseLength
           /\ (a - (a % ResponseLength)) % ResponseLength = 0
<1>1. PICK q \in Nat, r \in Nat :
         /\ r < ResponseLength
         /\ a = ResponseLength * q + r /\ a % ResponseLength = r
  BY Division
<1>2. ResponseLength * q \in Nat
  BY FeedbackAssumption, SMT
<1>3. (ResponseLength * q + 0) % ResponseLength = 0
  BY Remainder, FeedbackAssumption
<1>4. a - r = ResponseLength * q + 0 /\ r <= a
  BY <1>1, <1>2
<1> QED
  BY <1>1, <1>3, <1>4

(* The first number after a multiple is the one with the remainder 1.      *)
LEMMA FirstAfter ==
    ASSUME NEW a \in Nat
    PROVE  (a + 1) % ResponseLength = 1 <=> a % ResponseLength = 0
<1>1. PICK q \in Nat, r \in Nat :
         /\ r < ResponseLength
         /\ a = ResponseLength * q + r /\ a % ResponseLength = r
  BY Division
<1>2. ResponseLength * q \in Nat /\ ResponseLength > 1 /\ ResponseLength \in Nat
  BY FeedbackAssumption, SMT
<1>3. CASE r + 1 < ResponseLength
  <2>1. (ResponseLength * q + (r + 1)) % ResponseLength = r + 1
    BY <1>3, Remainder
  <2>2. ResponseLength * q + (r + 1) = a + 1
    BY <1>1, <1>2
  <2> QED BY <1>1, <2>1, <2>2
<1>4. CASE ~(r + 1 < ResponseLength)
  <2>1. r + 1 = ResponseLength
    BY <1>1, <1>2, <1>4
  <2>2. (ResponseLength * (q + 1) + 0) % ResponseLength = 0
    BY <1>2, Remainder
  <2>3. ResponseLength * (q + 1) = ResponseLength * q + ResponseLength
    BY <1>2
  <2>4. a + 1 = ResponseLength * (q + 1) + 0
    BY <1>1, <1>2, <2>1, <2>3
  <2> QED BY <1>1, <1>2, <2>1, <2>2, <2>4
<1> QED
  BY <1>3, <1>4

-----------------------------------------------------------------------------
LEMMA InitFeedbackInv == FeedbackInit => FeedbackInv
<1> SUFFICES ASSUME FeedbackInit
             PROVE  FeedbackInv
  OBVIOUS
<1>1. FeedbackTypeOK
  BY FeedbackAssumption DEF FeedbackInit, FeedbackTypeOK
<1>2. Unstarted /\ OneAttached /\ NoneArrived
  BY DEF FeedbackInit, Unstarted, OneAttached, NoneArrived, Attached
<1>3. Tuples
  <2>1. /\ decoded = << >> /\ readBuffer = << >> /\ received = << >>
        /\ Len(decoded) = 0 /\ DOMAIN received = {}
    BY DEF FeedbackInit
  <2>2. decoded \o readBuffer = received
    BY <2>1
  <2>3. 0 % ResponseLength = 0
    BY WholePart
  <2> QED
    BY <2>1, <2>2, <2>3, FeedbackAssumption
       DEF Tuples, Aligned, Attached, FeedbackInit
<1> QED
  BY <1>1, <1>2, <1>3 DEF FeedbackInv

(* The steps that move no byte and attach no connection.                   *)
LEMMA NoByteMoves ==
    /\ FeedbackInv /\ FeedbackTypeOK' /\ Unstarted'
    /\ UNCHANGED <<arrived, readBuffer, decoded, received>>
    /\ flaws \subseteq flaws'
    /\ \A c \in Connection : Attached(c)' => Attached(c) /\ socket' = socket
    /\ \A c \in Connection : state'[c] = "unused" => state[c] = "unused"
    => FeedbackInv'
<1> SUFFICES ASSUME FeedbackInv, FeedbackTypeOK', Unstarted',
                    UNCHANGED <<arrived, readBuffer, decoded, received>>,
                    flaws \subseteq flaws',
                    \A c \in Connection : Attached(c)' => Attached(c) /\ socket' = socket,
                    \A c \in Connection : state'[c] = "unused" => state[c] = "unused"
             PROVE  FeedbackInv'
  OBVIOUS
<1>1. OneAttached'
  BY DEF FeedbackInv, OneAttached
<1>2. NoneArrived'
  BY DEF FeedbackInv, NoneArrived
<1>3. Tuples'
  BY DEF FeedbackInv, Tuples, Aligned, Continues
<1> QED
  BY <1>1, <1>2, <1>3 DEF FeedbackInv

(* startSocket, with no other connection attached that is not closed.      *)
LEMMA StartStep ==
    ASSUME FeedbackInv, NEW c \in Connection, Start(c),
           files' \subseteq File, files' = File, UNCHANGED interval,
           \A d \in Connection : ~Attached(d)
    PROVE  FeedbackInv'
<1>1. /\ state[c] = "unused" /\ socket' = c
      /\ state' = [state EXCEPT ![c] = "opening"]
      /\ listening' = listening \cup {c}
      /\ flaws' = flaws \cup (IF readBuffer = << >> THEN {} ELSE {"cut"})
      /\ UNCHANGED <<alive, arrived, readBuffer, decoded, received, losses>>
  BY DEF Start
<1>2. FeedbackTypeOK
  BY DEF FeedbackInv
<1>3. FeedbackTypeOK'
  BY <1>1, <1>2 DEF FeedbackTypeOK
<1>4. Unstarted'
  BY DEF Unstarted
<1>5. OneAttached'
  BY <1>1, <1>2 DEF OneAttached, Attached, FeedbackTypeOK
<1>6. NoneArrived'
  BY <1>1, <1>2 DEF FeedbackInv, NoneArrived, FeedbackTypeOK
<1>7. Tuples'
  <2> SUFFICES ASSUME flaws' = {}
               PROVE  /\ decoded \o readBuffer = received
                      /\ Len(readBuffer) < ResponseLength
                      /\ Len(decoded) % ResponseLength = 0
                      /\ Aligned(received)
                      /\ \A d \in Connection : Attached(d)' => Continues(d)'
    BY <1>1 DEF Tuples, Aligned
  <2>1. flaws = {} /\ readBuffer = << >>
    BY <1>1
  <2>2. \A d \in Connection : Attached(d)' => d = c
    BY <1>1, <1>2 DEF Attached, FeedbackTypeOK
  <2>3. arrived[c] = 0 /\ Len(readBuffer) = 0
    BY <1>1, <2>1 DEF FeedbackInv, NoneArrived
  <2>4. 0 % ResponseLength = 0
    BY WholePart
  <2>5. Continues(c)'
    BY <1>1, <2>1, <2>3, <2>4 DEF Continues
  <2> QED
    BY <2>1, <2>2, <2>5 DEF FeedbackInv, Tuples
<1> QED
  BY <1>3, <1>4, <1>5, <1>6, <1>7 DEF FeedbackInv

LEMMA ReadFileStep ==
    ASSUME FeedbackInv, NEW f \in File, ReadFile(f)
    PROVE  FeedbackInv'
<1>1. /\ f \notin files /\ files' = files \cup {f} /\ UNCHANGED interval
      /\ InvokeAfter(f, \E c \in Connection : Start(c))
  BY DEF ReadFile
<1>2. FeedbackTypeOK /\ files # File
  BY <1>1 DEF FeedbackInv
<1>3. \A d \in Connection : ~Attached(d)
  BY <1>2 DEF FeedbackInv, Unstarted, Attached
<1>4. CASE files \cup {f} = File
  <2>1. PICK c \in Connection : Start(c)
    BY <1>1, <1>4 DEF InvokeAfter
  <2> QED
    BY <1>1, <1>3, <1>4, <2>1, StartStep
<1>5. CASE files \cup {f} # File
  <2>1. UNCHANGED <<alive, socket, state, listening, arrived, readBuffer,
                    decoded, received, flaws, losses>>
    BY <1>1, <1>5 DEF InvokeAfter
  <2>2. FeedbackTypeOK'
    BY <1>1, <1>2, <2>1 DEF FeedbackTypeOK
  <2>3. Unstarted'
    BY <1>2, <2>1 DEF FeedbackInv, Unstarted
  <2>4. \A c \in Connection : Attached(c)' => Attached(c)
    BY <2>1 DEF Attached
  <2> QED
    BY <2>1, <2>2, <2>3, <2>4, NoByteMoves
<1> QED
  BY <1>4, <1>5

LEMMA RequestStep ==
    ASSUME FeedbackInv, Request
    PROVE  FeedbackInv'
<1>1. /\ files = File
      /\ socket \in Connection => state[socket] = "closed"
      /\ UNCHANGED <<files, interval>>
  BY DEF Request, ReadyToConnect
<1>2. PICK c \in Connection : Start(c)
  BY DEF Request
<1>3. \A d \in Connection : ~Attached(d)
  BY <1>1 DEF FeedbackInv, OneAttached, Attached
<1> QED
  BY <1>1, <1>2, <1>3, StartStep

(* The ones that only change one state, or end the process.                *)
LEMMA QuietStep ==
    ASSUME FeedbackInv,
           \/ Cancel
           \/ \E c \in Connection :
                 Rejected(c) \/ SecureSocket(c) \/ Ends(c) \/ Closed(c)
    PROVE  FeedbackInv'
<1>1. FeedbackTypeOK /\ Unstarted
  BY DEF FeedbackInv
<1>2. CASE Cancel
  <2>1. /\ interval' = FALSE
        /\ UNCHANGED <<alive, files, socket, state, listening, arrived, readBuffer,
                       decoded, received, flaws, losses>>
    BY <1>2 DEF Cancel
  <2>2. FeedbackTypeOK' /\ Unstarted'
    BY <1>1, <2>1 DEF FeedbackTypeOK, Unstarted
  <2> QED
    BY <2>1, <2>2, NoByteMoves DEF Attached
<1>3. ASSUME NEW c \in Connection, Rejected(c)
      PROVE  FeedbackInv'
  <2>1. /\ losses' = losses + 1 /\ alive' = FALSE
        /\ UNCHANGED <<files, interval, socket, state, listening, arrived,
                       readBuffer, decoded, received, flaws>>
    BY <1>3 DEF Rejected, Throws
  <2>2. losses' \in Nat
    BY <1>1, <2>1 DEF FeedbackTypeOK
  <2>3. FeedbackTypeOK'
    BY <1>1, <2>1, <2>2 DEF FeedbackTypeOK
  <2>4. Unstarted'
    BY <1>1, <2>1 DEF Unstarted
  <2> QED
    BY <2>1, <2>3, <2>4, NoByteMoves DEF Attached
<1>4. ASSUME NEW c \in Connection, SecureSocket(c) \/ Ends(c)
      PROVE  FeedbackInv'
  <2>1. /\ state[c] \in {"opening", "open"}
        /\ \/ state' = [state EXCEPT ![c] = "open"] /\ state[c] = "opening"
           \/ state' = [state EXCEPT ![c] = "closed"]
           \/ state' = state
        /\ alive' \in {alive, FALSE}
        /\ losses' \in {losses, losses + 1}
        /\ UNCHANGED <<files, interval, socket, listening, arrived,
                       readBuffer, decoded, received, flaws>>
    BY <1>4 DEF SecureSocket, Ends
  <2>2. losses' \in Nat
    BY <1>1, <2>1 DEF FeedbackTypeOK
  <2>3. FeedbackTypeOK'
    BY <1>1, <2>1, <2>2 DEF FeedbackTypeOK
  <2>4. Unstarted'
    BY <1>1, <2>1 DEF Unstarted
  <2>5. \A d \in Connection : Attached(d)' => Attached(d)
    BY <1>1, <2>1 DEF Attached, FeedbackTypeOK
  <2>6. \A d \in Connection : state'[d] = "unused" => state[d] = "unused"
    BY <1>1, <2>1 DEF FeedbackTypeOK
  <2> QED
    BY <2>1, <2>3, <2>4, <2>5, <2>6, NoByteMoves
<1>5. ASSUME NEW c \in Connection, Closed(c)
      PROVE  FeedbackInv'
  <2>1. /\ state[c] = "closed"
        /\ state' = [state EXCEPT ![c] = "gone"]
        /\ alive' \in {alive, FALSE}
        /\ \/ UNCHANGED <<socket, listening>>
           \/ /\ socket # Nobody /\ socket' = Nobody
              /\ listening' = listening \ {socket}
        /\ UNCHANGED <<files, interval, arrived, readBuffer, decoded, received,
                       flaws, losses>>
    BY <1>5 DEF Closed, ForgetSocket
  <2>2. FeedbackTypeOK' /\ Unstarted'
    BY <1>1, <2>1 DEF FeedbackTypeOK, Unstarted
  <2>3. \A d \in Connection : Attached(d)' => Attached(d) /\ socket' = socket
    BY <1>1, <2>1 DEF Attached, FeedbackTypeOK, FeedbackInv, OneAttached
  <2>4. \A d \in Connection : state'[d] = "unused" => state[d] = "unused"
    BY <1>1, <2>1 DEF FeedbackTypeOK
  <2> QED
    BY <2>1, <2>2, <2>3, <2>4, NoByteMoves
<1> QED
  BY <1>2, <1>3, <1>4, <1>5

-----------------------------------------------------------------------------
(* The bytes of the connection go on where those before them ended.        *)
LEMMA AlignedGrows ==
    ASSUME NEW bytes \in Seq(Byte), Aligned(bytes), NEW c \in Connection,
           NEW a \in Nat, NEW n \in Nat,
           NEW data \in Seq(Byte), Len(data) = n,
           \A i \in 1..n : data[i] = <<c, a + i>>,
           Len(bytes) % ResponseLength = a % ResponseLength,
           Len(bytes) % ResponseLength # 0 => bytes[Len(bytes)] = <<c, a>>
    PROVE  Aligned(bytes \o data)
<1>1. /\ bytes \o data \in Seq(Byte)
      /\ Len(bytes \o data) = Len(bytes) + n
      /\ \A i \in 1..Len(bytes) + n :
            (bytes \o data)[i] = IF i <= Len(bytes) THEN bytes[i]
                                 ELSE data[i - Len(bytes)]
      /\ Len(bytes) \in Nat
  <2>1. /\ bytes \o data \in Seq(Byte)
        /\ Len(bytes \o data) = Len(bytes) + Len(data)
        /\ \A i \in 1..Len(bytes) + Len(data) :
              (bytes \o data)[i] = IF i <= Len(bytes) THEN bytes[i]
                                   ELSE data[i - Len(bytes)]
    BY ConcatProperties
  <2>2. Len(bytes) \in Nat
    OBVIOUS
  <2> QED BY <2>1, <2>2
<1> DEFINE all == bytes \o data
           Good(s, i) == IF i % ResponseLength = 1
                         THEN s[i][2] % ResponseLength = 1
                         ELSE s[i] = <<s[i-1][1], s[i-1][2] + 1>>
<1>2. ASSUME NEW i \in 1..Len(bytes)
      PROVE  Good(all, i)
  <2>1. Good(bytes, i) /\ all[i] = bytes[i]
    BY <1>1 DEF Aligned
  <2>2. CASE i % ResponseLength = 1
    BY <2>1, <2>2
  <2>3. CASE i % ResponseLength # 1
    <3>1. i # 1
      <4>1. 0 % ResponseLength = 0
        BY WholePart
      <4>2. (0 + 1) % ResponseLength = 1
        BY <4>1, FirstAfter
      <4>3. 0 + 1 = 1
        OBVIOUS
      <4> QED BY <2>3, <4>2, <4>3
    <3>2. i - 1 \in 1..Len(bytes)
      BY <1>1, <3>1
    <3>3. all[i-1] = bytes[i-1]
      BY <1>1, <3>2
    <3> QED BY <2>1, <2>3, <3>3
  <2> QED BY <2>2, <2>3
<1>3. ASSUME NEW k \in 1..n
      PROVE  Good(all, Len(bytes) + k)
  <2> DEFINE i == Len(bytes) + k
  <2>1. i \in 1..Len(bytes) + n /\ i > Len(bytes) /\ i - Len(bytes) = k
    BY <1>1
  <2>2. all[i] = <<c, a + k>>
    BY <1>1, <2>1
  <2>3. i % ResponseLength = (a + k) % ResponseLength
    BY <1>1, SameRemainder
  <2>4. CASE i % ResponseLength = 1
    BY <2>2, <2>3, <2>4
  <2>5. CASE i % ResponseLength # 1
    <3>1. CASE k = 1
      <4>1. i = Len(bytes) + 1 /\ i - 1 = Len(bytes)
        BY <1>1, <3>1
      <4>2. Len(bytes) % ResponseLength # 0
        BY <1>1, <2>5, <4>1, FirstAfter
      <4>3. Len(bytes) # 0
        BY <4>2, WholePart
      <4>4. all[i-1] = bytes[Len(bytes)]
        BY <1>1, <4>1, <4>3
      <4>5. all[i-1] = <<c, a>>
        BY <4>2, <4>4
      <4> QED BY <2>2, <2>5, <3>1, <4>5
    <3>2. CASE k > 1
      <4>1. /\ i - 1 \in 1..Len(bytes) + n /\ i - 1 > Len(bytes)
            /\ (i - 1) - Len(bytes) = k - 1 /\ k - 1 \in 1..n
        BY <1>1, <3>2
      <4>2. all[i-1] = <<c, a + (k - 1)>>
        BY <1>1, <4>1
      <4>3. a + (k - 1) + 1 = a + k
        OBVIOUS
      <4> QED BY <2>2, <2>5, <4>2, <4>3
    <3>3. k = 1 \/ k > 1
      OBVIOUS
    <3> HIDE DEF Good, all
    <3> QED BY <3>1, <3>2, <3>3
  <2> QED BY <2>4, <2>5
<1>4. ASSUME NEW i \in DOMAIN all
      PROVE  Good(all, i)
  <2>1. i \in 1..Len(bytes) + n
    BY <1>1
  <2>2. CASE i <= Len(bytes)
    <3>1. i \in 1..Len(bytes)
      BY <1>1, <2>1, <2>2
    <3> HIDE DEF Good, all
    <3> QED BY <1>2, <3>1
  <2>3. CASE i > Len(bytes)
    <3>1. i - Len(bytes) \in 1..n /\ i = Len(bytes) + (i - Len(bytes))
      BY <1>1, <2>1, <2>3
    <3> HIDE DEF Good, all
    <3> QED BY <1>3, <3>1
  <2>4. i <= Len(bytes) \/ i > Len(bytes)
    BY <1>1, <2>1
  <2> HIDE DEF Good, all
  <2> QED BY <2>2, <2>3, <2>4
<1> QED
  BY <1>4 DEF Aligned

(* processData cuts the buffer and the new bytes into whole tuples and a   *)
(* rest.                                                                   *)
LEMMA ProcessDataFact ==
    ASSUME FeedbackTypeOK, NEW data \in Seq(Byte), ProcessData(data)
    PROVE  /\ decoded' \in Seq(Byte) /\ readBuffer' \in Seq(Byte)
           /\ flaws \subseteq flaws' /\ flaws' \subseteq flaws \cup {"dropped"}
           /\ flaws' = {} =>
                 /\ decoded' \o readBuffer' = (decoded \o readBuffer) \o data
                 /\ Len(readBuffer') = (Len(readBuffer) + Len(data)) % ResponseLength
                 /\ Len(decoded) % ResponseLength = 0
                       => Len(decoded') % ResponseLength = 0
<1> DEFINE all == readBuffer \o data
           n == Len(all)
           whole == n - (n % ResponseLength)
           begin == SubSeq(all, 1, whole)
           rest == SubSeq(all, whole + 1, n)
<1>1. /\ readBuffer \in Seq(Byte) /\ decoded \in Seq(Byte)
      /\ all \in Seq(Byte)
      /\ n = Len(readBuffer) + Len(data) /\ n \in Nat
      /\ Len(readBuffer) \in Nat /\ Len(data) \in Nat
      /\ DOMAIN all = 1..n
      /\ \A i \in 1..n : all[i] \in Byte
  BY ConcatProperties, ElementOfSeq DEF FeedbackTypeOK
<1>2. /\ whole \in 0..n /\ whole % ResponseLength = 0
      /\ n - whole = n % ResponseLength
  <2>1. n % ResponseLength \in 0..n
    BY <1>1, WholePart
  <2>2. whole % ResponseLength = 0
    BY <1>1, WholePart
  <2> DEFINE over == n % ResponseLength
  <2>3. over \in 0..n /\ n \in Nat
    BY <1>1, <2>1
  <2> HIDE DEF n, over
  <2>4. n - over \in 0..n /\ n - (n - over) = over
    BY <2>3
  <2> QED BY <2>2, <2>4 DEF over
<1>3. /\ begin \in Seq(Byte) /\ Len(begin) = whole
      /\ rest \in Seq(Byte) /\ Len(rest) = n - whole
  <2>1. /\ \A i \in 1..whole : all[i] \in Byte
        /\ \A i \in (whole + 1)..n : all[i] \in Byte
    BY <1>1, <1>2
  <2>2. whole \in Int /\ whole + 1 \in Int /\ n \in Int /\ 1 \in Int
    BY <1>1, <1>2
  <2> HIDE DEF whole, n, all
  <2>3. /\ begin \in Seq(Byte)
        /\ Len(begin) = IF 1 <= whole THEN whole - 1 + 1 ELSE 0
    BY <2>1, <2>2, SubSeqProperties
  <2>4. /\ rest \in Seq(Byte)
        /\ Len(rest) = IF whole + 1 <= n THEN n - (whole + 1) + 1 ELSE 0
    BY <2>1, <2>2, SubSeqProperties
  <2> QED
    BY <1>1, <1>2, <2>3, <2>4
<1>4. begin \o rest = all
  <2>1. /\ 1 \in 1..Len(all) + 1 /\ whole \in 1 - 1..Len(all)
        /\ n \in whole..Len(all)
    BY <1>1, <1>2
  <2> HIDE DEF whole, n, all
  <2>2. begin \o rest = SubSeq(all, 1, n)
    BY <1>1, <2>1, ConcatAdjacentSubSeq
  <2> QED
    BY <1>1, <2>2, SubSeqFull DEF n
<1>5. /\ decoded' = decoded \o begin
      /\ readBuffer' = IF Len(rest) = 1 THEN << >> ELSE rest
      /\ flaws' = flaws \cup (IF Len(rest) = 1 THEN {"dropped"} ELSE {})
  BY DEF ProcessData
<1> HIDE DEF begin, rest, whole, n
<1>6. decoded' \in Seq(Byte) /\ readBuffer' \in Seq(Byte)
  BY <1>1, <1>3, <1>5, ConcatProperties, EmptySeq
<1>7. ASSUME flaws' = {}
      PROVE  /\ decoded' \o readBuffer' = (decoded \o readBuffer) \o data
             /\ Len(readBuffer') = (Len(readBuffer) + Len(data)) % ResponseLength
             /\ Len(decoded) % ResponseLength = 0
                   => Len(decoded') % ResponseLength = 0
  <2>1. readBuffer' = rest
    BY <1>5, <1>7
  <2>2. (decoded \o begin) \o rest = decoded \o (begin \o rest)
    <3>1. decoded \in Seq(Byte) /\ begin \in Seq(Byte) /\ rest \in Seq(Byte)
      BY <1>1, <1>3
    <3> QED BY <3>1, ConcatAssociative
  <2>3. (decoded \o readBuffer) \o data = decoded \o all
    BY <1>1, ConcatAssociative
  <2>4. Len(decoded') = Len(decoded) + whole /\ Len(decoded) \in Nat
    BY <1>1, <1>3, <1>5, ConcatProperties
  <2>5. ASSUME Len(decoded) % ResponseLength = 0
        PROVE  Len(decoded') % ResponseLength = 0
    <3>1. 0 % ResponseLength = 0 /\ whole \in Nat /\ 0 + whole = whole
      BY <1>1, <1>2, WholePart
    <3>2. (Len(decoded) + whole) % ResponseLength = (0 + whole) % ResponseLength
      BY <2>4, <2>5, <3>1, SameRemainder
    <3> QED BY <1>2, <2>4, <3>1, <3>2
  <2> QED
    BY <1>1, <1>2, <1>3, <1>4, <1>5, <2>1, <2>2, <2>3, <2>5
<1> QED
  BY <1>5, <1>6, <1>7

(* A chunk arrives on the connection that is attached.                     *)
LEMMA DeliversStep ==
    ASSUME FeedbackInv, NEW c \in Connection,
           NEW n \in 1..(MaxTuples * ResponseLength), Delivers(c, n)
    PROVE  FeedbackInv'
<1> DEFINE data == [i \in 1..n |-> <<c, arrived[c] + i>>]
<1>1. /\ state[c] = "open" /\ c \in listening
      /\ n <= MaxTuples * ResponseLength - arrived[c]
      /\ ProcessData(data) /\ received' = received \o data
      /\ arrived' = [arrived EXCEPT ![c] = @ + n]
      /\ UNCHANGED <<alive, files, interval, socket, state, listening, losses>>
  <2>1. MaxTuples * ResponseLength \in Nat
    BY FeedbackAssumption, SMT
  <2>2. arrived[c] \in Nat
    BY DEF FeedbackInv, FeedbackTypeOK
  <2> QED
    BY <2>1, <2>2 DEF Delivers
<1>2. FeedbackTypeOK
  BY DEF FeedbackInv
<1>3. /\ arrived[c] \in Nat /\ arrived[c] + n \in 0..(MaxTuples * ResponseLength)
      /\ n \in Nat /\ n >= 1
      /\ MaxTuples * ResponseLength \in Nat
  <2>1. MaxTuples * ResponseLength \in Nat
    BY FeedbackAssumption, SMT
  <2>2. arrived[c] \in Nat
    BY <1>2 DEF FeedbackTypeOK
  <2> QED
    BY <1>1, <2>1, <2>2
<1>4. /\ data \in Seq(Byte) /\ Len(data) = n
      /\ \A i \in 1..n : data[i] = <<c, arrived[c] + i>>
  <2>1. \A i \in 1..n : <<c, arrived[c] + i>> \in Byte
    BY <1>3 DEF Byte
  <2> QED
    BY <1>3, <2>1
<1> HIDE DEF data
<1>5. /\ decoded' \in Seq(Byte) /\ readBuffer' \in Seq(Byte)
      /\ flaws \subseteq flaws' /\ flaws' \subseteq flaws \cup {"dropped"}
      /\ flaws' = {} =>
            /\ decoded' \o readBuffer' = (decoded \o readBuffer) \o data
            /\ Len(readBuffer') = (Len(readBuffer) + n) % ResponseLength
            /\ Len(decoded) % ResponseLength = 0
                  => Len(decoded') % ResponseLength = 0
  BY <1>1, <1>2, <1>4, ProcessDataFact
<1>6. received' \in Seq(Byte) /\ Len(received') = Len(received) + n
      /\ received'[Len(received')] = <<c, arrived[c] + n>>
  <2>1. /\ received \in Seq(Byte) /\ Len(received) \in Nat
    BY <1>2 DEF FeedbackTypeOK
  <2>2. /\ received \o data \in Seq(Byte)
        /\ Len(received \o data) = Len(received) + Len(data)
        /\ \A i \in 1..Len(received) + Len(data) :
              (received \o data)[i] = IF i <= Len(received) THEN received[i]
                                      ELSE data[i - Len(received)]
    BY <1>4, <2>1, ConcatProperties
  <2>3. (received \o data)[Len(received) + n] = data[n]
    BY <1>3, <1>4, <2>1, <2>2
  <2>4. data[n] = <<c, arrived[c] + n>>
    BY <1>3, <1>4
  <2> QED
    BY <1>1, <1>4, <2>2, <2>3, <2>4
<1>7. FeedbackTypeOK'
  BY <1>1, <1>2, <1>3, <1>5, <1>6 DEF FeedbackTypeOK
<1>8. Unstarted' /\ OneAttached'
  BY <1>1 DEF FeedbackInv, Unstarted, OneAttached, Attached
<1>9. NoneArrived'
  BY <1>1, <1>2 DEF FeedbackInv, NoneArrived, FeedbackTypeOK
<1>10. Tuples'
  <2> SUFFICES ASSUME flaws' = {}
               PROVE  /\ decoded' \o readBuffer' = received'
                      /\ Len(readBuffer') < ResponseLength
                      /\ Len(decoded') % ResponseLength = 0
                      /\ Aligned(received')
                      /\ \A d \in Connection : Attached(d)' => Continues(d)'
    BY DEF Tuples, Aligned
  <2>1. /\ decoded \o readBuffer = received
        /\ Len(readBuffer) < ResponseLength
        /\ Len(decoded) % ResponseLength = 0
        /\ Aligned(received)
        /\ Continues(c)
    BY <1>1, <1>5 DEF FeedbackInv, Tuples, Attached
  <2>2. /\ readBuffer \in Seq(Byte) /\ decoded \in Seq(Byte) /\ received \in Seq(Byte)
        /\ Len(readBuffer) \in Nat /\ Len(decoded) \in Nat
        /\ Len(received) = Len(decoded) + Len(readBuffer)
    <3>1. /\ readBuffer \in Seq(Byte) /\ decoded \in Seq(Byte) /\ received \in Seq(Byte)
      BY <1>2 DEF FeedbackTypeOK
    <3>2. Len(decoded \o readBuffer) = Len(decoded) + Len(readBuffer)
      BY <3>1, ConcatProperties
    <3> QED
      BY <2>1, <3>1, <3>2
  <2>3. Len(readBuffer) = arrived[c] % ResponseLength
    BY <2>1 DEF Continues
  <2>4. Len(received) % ResponseLength = Len(readBuffer) % ResponseLength
    <3>1. 0 % ResponseLength = 0
      BY WholePart
    <3>2. Len(decoded) % ResponseLength = 0 % ResponseLength
      BY <2>1, <3>1
    <3>3. (Len(decoded) + Len(readBuffer)) % ResponseLength
             = (0 + Len(readBuffer)) % ResponseLength
      BY <2>2, <3>2, SameRemainder
    <3>4. 0 + Len(readBuffer) = Len(readBuffer)
      BY <2>2
    <3> QED
      BY <2>2, <3>3, <3>4
  <2>5. Len(readBuffer) % ResponseLength = arrived[c] % ResponseLength
    <3>1. PICK q \in Nat, r \in Nat :
             /\ r < ResponseLength
             /\ arrived[c] = ResponseLength * q + r
             /\ arrived[c] % ResponseLength = r
      BY <1>3, Division
    <3>2. (ResponseLength * 0 + r) % ResponseLength = r
      BY <3>1, Remainder
    <3>3. ResponseLength * 0 + r = r
      BY FeedbackAssumption
    <3> QED
      BY <2>3, <3>1, <3>2, <3>3
  <2>6. Len(received) % ResponseLength # 0 => received[Len(received)] = <<c, arrived[c]>>
    <3>1. Len(received) % ResponseLength = Len(readBuffer)
      BY <2>3, <2>4, <2>5
    <3> QED
      BY <2>1, <2>2, <3>1 DEF Continues
  <2>7. Aligned(received')
    <3>1. /\ received \in Seq(Byte) /\ Aligned(received)
          /\ arrived[c] \in Nat /\ n \in Nat
          /\ data \in Seq(Byte) /\ Len(data) = n
          /\ Len(received) % ResponseLength = arrived[c] % ResponseLength
      BY <1>3, <1>4, <2>1, <2>2, <2>4, <2>5
    <3>2. Aligned(received \o data)
      BY <1>4, <2>6, <3>1, AlignedGrows
    <3> QED
      BY <1>1, <3>2
  <2>8. Len(readBuffer') = (arrived[c] + n) % ResponseLength
    <3>1. (Len(readBuffer) + n) % ResponseLength = (arrived[c] + n) % ResponseLength
      BY <1>3, <2>2, <2>5, SameRemainder
    <3> QED
      BY <1>5, <3>1
  <2>9. Len(readBuffer') < ResponseLength
    <3>1. arrived[c] + n \in Nat
      BY <1>3
    <3> QED
      BY <2>8, <3>1, WholePart
  <2>10. \A d \in Connection : Attached(d)' => d = c
    BY <1>1 DEF FeedbackInv, OneAttached, Attached
  <2>11. arrived'[c] = arrived[c] + n
    BY <1>1, <1>2 DEF FeedbackTypeOK
  <2>12. Continues(c)'
    BY <1>6, <2>8, <2>11 DEF Continues
  <2> QED
    BY <1>1, <1>5, <2>1, <2>7, <2>9, <2>10, <2>12
<1> QED
  BY <1>7, <1>8, <1>9, <1>10 DEF FeedbackInv

(* Every step keeps the invariant of the feedback client.                  *)
LEMMA StepFeedbackInv == FeedbackInv /\ [FeedbackNext]_fbVars => FeedbackInv'
<1> SUFFICES ASSUME FeedbackInv, [FeedbackNext]_fbVars
             PROVE  FeedbackInv'
  OBVIOUS
<1>1. CASE UNCHANGED fbVars
  <2>1. FeedbackTypeOK' /\ Unstarted'
    BY <1>1 DEF FeedbackInv, FeedbackTypeOK, Unstarted, fbVars
  <2> QED
    BY <1>1, <2>1, NoByteMoves DEF fbVars, Attached
<1>2. CASE FeedbackNext
  BY <1>2, ReadFileStep, RequestStep, QuietStep, DeliversStep DEF FeedbackNext
<1> QED
  BY <1>1, <1>2

(* What was decoded is the beginning of what arrived.                      *)
LEMMA FeedbackInvTuples == FeedbackInv => TuplesInOrder
<1> SUFFICES ASSUME FeedbackInv, flaws = {}
             PROVE  \A i \in DOMAIN decoded :
                       IF i % ResponseLength = 1
                       THEN decoded[i][2] % ResponseLength = 1
                       ELSE decoded[i] = <<decoded[i-1][1], decoded[i-1][2] + 1>>
  BY DEF FeedbackInv, Tuples, TuplesInOrder
<1>1. /\ decoded \in Seq(Byte) /\ readBuffer \in Seq(Byte)
      /\ decoded \o readBuffer = received
      /\ Aligned(received)
  BY DEF FeedbackInv, FeedbackTypeOK, Tuples
<1>2. /\ Len(decoded) \in Nat /\ Len(readBuffer) \in Nat
      /\ DOMAIN decoded = 1..Len(decoded)
      /\ DOMAIN received = 1..(Len(decoded) + Len(readBuffer))
      /\ \A i \in 1..Len(decoded) : received[i] = decoded[i]
  BY <1>1, ConcatProperties
<1> TAKE i \in DOMAIN decoded
<1>3. /\ i \in DOMAIN received /\ received[i] = decoded[i]
      /\ i \in Nat
  BY <1>2
<1>4. CASE i % ResponseLength = 1
  BY <1>1, <1>3, <1>4 DEF Aligned
<1>5. CASE i % ResponseLength # 1
  <2>1. i # 1
    <3>1. 0 % ResponseLength = 0
      BY WholePart
    <3>2. (0 + 1) % ResponseLength = 1
      BY <3>1, FirstAfter
    <3> QED
      BY <1>5, <3>2
  <2>2. received[i-1] = decoded[i-1]
    BY <1>2, <2>1
  <2>3. received[i] = <<received[i-1][1], received[i-1][2] + 1>>
    BY <1>1, <1>3, <1>5 DEF Aligned
  <2> QED
    BY <1>3, <1>5, <2>2, <2>3
<1> QED
  BY <1>4, <1>5
-----------------------------------------------------------------------------
(* The development pair of MQTT.                                           *)

(* The one subscription of the client is made when its session opens, and  *)
(* the connection is never made again.  For each SUBSCRIBE that was        *)
(* handled the server has made its publication, or owes it.                *)
Subscribed ==
    /\ Tally("subscribe", written) <= 1
    /\ Tally("subscribe", handled) <= 1
    /\ Tally("subscribe", written) # 0 => sessionOpened \/ tcp = "ended"
    /\ owed + publications = Tally("subscribe", handled)

LinkInv ==
    /\ LinkTypeOK
    /\ FramesInOrder
    /\ CleanUnlessSplit
    /\ Subscribed
    /\ DeliveredGenuine
-----------------------------------------------------------------------------
(* FlattenSeq joins sequences one after the other.                         *)
Joins(f, seqs, n) ==
    f = [i \in 1..n |-> IF i = 1 THEN seqs[i] ELSE f[i-1] \o seqs[i]]

(* A set of natural numbers that is not empty has a least element.         *)
LEMMA LeastElement ==
    ASSUME NEW I \in SUBSET Nat, I # {}
    PROVE  \E x \in I : \A y \in I : x <= y
<1>1. PICK x \in I : \A y \in I : <<y, x>> \notin OpToRel(<, Nat)
  BY WFMin, NatLessThanWellFounded, Zenon
<1>2. \A y \in I : ~(y < x)
  BY <1>1, Zenon DEF OpToRel
<1> QED
  BY <1>2

(* The function that joins them exists for each number of sequences.       *)
LEMMA JoinsExists ==
    ASSUME NEW seqs, NEW n \in Nat
    PROVE  \E f : Joins(f, seqs, n)
<1> DEFINE Bad == {k \in Nat : ~\E f : Joins(f, seqs, k)}
<1> SUFFICES ASSUME Bad # {}
             PROVE  FALSE
  OBVIOUS
<1>1. PICK k \in Bad : \A j \in Bad : k <= j
  BY LeastElement
<1>2. k # 0
  <2> DEFINE f == [i \in 1..0 |-> 0]
  <2>1. Joins(f, seqs, 0)
    BY DEF Joins
  <2> QED
    BY <2>1
<1>3. k - 1 \in Nat /\ k - 1 \notin Bad
  BY <1>1, <1>2
<1>4. PICK f : Joins(f, seqs, k - 1)
  BY <1>3
<1> DEFINE g == [i \in 1..k |-> IF i < k THEN f[i]
                                ELSE IF i = 1 THEN seqs[i] ELSE f[i-1] \o seqs[i]]
<1>5. \A i \in 1..k : g[i] = IF i = 1 THEN seqs[i] ELSE g[i-1] \o seqs[i]
  <2>1. \A i \in 1..(k-1) : f[i] = IF i = 1 THEN seqs[i] ELSE f[i-1] \o seqs[i]
    BY <1>4 DEF Joins
  <2> TAKE i \in 1..k
  <2>2. CASE i < k
    <3>1. i \in 1..(k-1) /\ g[i] = f[i]
      BY <1>3, <2>2
    <3>2. i # 1 => i - 1 \in 1..k /\ g[i-1] = f[i-1]
      BY <1>3, <2>2
    <3> QED
      BY <2>1, <3>1, <3>2
  <2>3. CASE i = k
    <3>1. i # 1 => i - 1 \in 1..k /\ g[i-1] = f[i-1]
      BY <1>3, <2>3
    <3> QED
      BY <2>3, <3>1
  <2> QED
    BY <1>3, <2>2, <2>3
<1>6. Joins(g, seqs, k)
  <2> DEFINE h == [i \in 1..k |-> IF i = 1 THEN seqs[i] ELSE g[i-1] \o seqs[i]]
  <2>1. \A i \in 1..k : g[i] = h[i]
    BY <1>5
  <2>2. g = h
    BY <2>1
  <2> QED
    BY <2>2 DEF Joins
<1> QED
  BY <1>1, <1>6

LEMMA JoinsAt ==
    ASSUME NEW S, NEW s \in Seq(Seq(S)), NEW n \in Nat, NEW f, Joins(f, s, n), NEW k \in 1..n
    PROVE  f[k] = IF k = 1 THEN s[k] ELSE f[k-1] \o s[k]
  BY DEF Joins

(* Sequences that agree up to some point are joined to the same up to it.  *)
LEMMA JoinsAgree ==
    ASSUME NEW S, NEW s \in Seq(Seq(S)), NEW t \in Seq(Seq(S)),
           NEW n \in Nat, NEW m \in Nat, n <= m,
           \A i \in 1..n : s[i] = t[i],
           NEW f, Joins(f, s, n), NEW g, Joins(g, t, m)
    PROVE  \A i \in 1..n : f[i] = g[i]
<1> DEFINE Bad == {i \in 1..n : f[i] # g[i]}
<1> SUFFICES ASSUME Bad # {}
             PROVE  FALSE
  OBVIOUS
<1>1. Bad \in SUBSET Nat
  OBVIOUS
<1>2. PICK k \in Bad : \A j \in Bad : k <= j
  BY <1>1, LeastElement
<1>3. k \in 1..n /\ k \in 1..m /\ f[k] # g[k]
  BY <1>2
<1>4. /\ f[k] = IF k = 1 THEN s[k] ELSE f[k-1] \o s[k]
      /\ g[k] = IF k = 1 THEN t[k] ELSE g[k-1] \o t[k]
  BY <1>3 DEF Joins
<1>5. k # 1 => f[k-1] = g[k-1]
  <2> SUFFICES ASSUME k # 1 PROVE f[k-1] = g[k-1]
    OBVIOUS
  <2>1. k - 1 \in 1..n /\ ~(k <= k - 1)
    BY <1>3
  <2>2. k - 1 \notin Bad
    BY <1>2, <2>1
  <2> QED
    BY <2>1, <2>2
<1> QED
  BY <1>3, <1>4, <1>5

LEMMA FlattenJoins ==
    ASSUME NEW S, NEW seqs \in Seq(Seq(S)), seqs # << >>
    PROVE  \E f : Joins(f, seqs, Len(seqs)) /\ FlattenSeq(seqs) = f[Len(seqs)]
<1>1. Len(seqs) \in Nat /\ Len(seqs) # 0
  OBVIOUS
<1>2. \E f : Joins(f, seqs, Len(seqs))
  BY <1>1, JoinsExists
<1> DEFINE f == CHOOSE f : Joins(f, seqs, Len(seqs))
<1>3. Joins(f, seqs, Len(seqs))
  BY <1>2
<1>4. FlattenSeq(seqs) = f[Len(seqs)]
  BY <1>1 DEF FlattenSeq, Joins
<1> QED
  BY <1>3, <1>4

(* Joining nothing gives nothing.                                          *)
LEMMA FlattenEmpty == FlattenSeq(<< >>) = << >>
  BY DEF FlattenSeq

(* What is joined from sequences over a set is a sequence over it.         *)
LEMMA FlattenType ==
    ASSUME NEW S, NEW seqs \in Seq(Seq(S))
    PROVE  FlattenSeq(seqs) \in Seq(S)
<1>1. CASE seqs = << >>
  BY <1>1, FlattenEmpty, EmptySeq
<1>2. CASE seqs # << >>
  <2>1. PICK f : Joins(f, seqs, Len(seqs)) /\ FlattenSeq(seqs) = f[Len(seqs)]
    BY <1>2, FlattenJoins
  <2>2. Len(seqs) \in Nat /\ Len(seqs) # 0 /\ \A i \in 1..Len(seqs) : seqs[i] \in Seq(S)
    BY <1>2
  <2> DEFINE Bad == {i \in 1..Len(seqs) : f[i] \notin Seq(S)}
  <2>3. Bad = {}
    <3> SUFFICES ASSUME Bad # {}
                 PROVE  FALSE
      OBVIOUS
    <3>1. Bad \in SUBSET Nat
      BY <2>2
    <3>2. PICK k \in Bad : \A j \in Bad : k <= j
      BY <3>1, LeastElement
    <3>3. k \in 1..Len(seqs) /\ f[k] \notin Seq(S)
      BY <3>2
    <3>4. f[k] = IF k = 1 THEN seqs[k] ELSE f[k-1] \o seqs[k]
      BY <2>1, <3>3 DEF Joins
    <3>5. k # 1
      BY <2>2, <3>3, <3>4
    <3>6. k - 1 \in 1..Len(seqs) /\ ~(k <= k - 1)
      BY <2>2, <3>3, <3>5
    <3>7. f[k-1] \in Seq(S)
      BY <3>2, <3>6
    <3>8. f[k-1] \o seqs[k] \in Seq(S)
      BY <2>2, <3>3, <3>7, ConcatProperties
    <3> QED
      BY <3>3, <3>4, <3>5, <3>8
  <2>4. f[Len(seqs)] \in Seq(S)
    BY <2>2, <2>3
  <2> QED
    BY <2>1, <2>4
<1> QED
  BY <1>1, <1>2

(* One sequence more.                                                      *)
LEMMA FlattenAppend ==
    ASSUME NEW S, NEW seqs \in Seq(Seq(S)), NEW x \in Seq(S)
    PROVE  FlattenSeq(Append(seqs, x)) = FlattenSeq(seqs) \o x
<1>1. PICK more \in Seq(Seq(S)), n \in Nat, m \in Nat :
         /\ more = Append(seqs, x) /\ n = Len(seqs) /\ m = Len(more)
         /\ more # << >> /\ m = n + 1 /\ more[m] = x
         /\ \A i \in 1..n : seqs[i] = more[i]
  <2>1. /\ Append(seqs, x) \in Seq(Seq(S))
        /\ Append(seqs, x) # << >>
        /\ Len(Append(seqs, x)) = Len(seqs) + 1
        /\ \A i \in 1..Len(seqs) : Append(seqs, x)[i] = seqs[i]
        /\ Append(seqs, x)[Len(seqs) + 1] = x
    BY AppendProperties
  <2>2. Len(seqs) \in Nat /\ Len(seqs) + 1 \in Nat
    OBVIOUS
  <2> QED
    BY <2>1, <2>2
<1>2. PICK g : Joins(g, more, m) /\ FlattenSeq(more) = g[m]
  BY <1>1, FlattenJoins
<1>3. CASE seqs = << >>
  <2>1. n = 0 /\ m = 1
    BY <1>1, <1>3
  <2>2. g[m] = x
    <3>1. Joins(g, more, m)
      BY <1>2
    <3>2. m \in 1..m
      BY <2>1
    <3>3. g[m] = IF m = 1 THEN more[m] ELSE g[m-1] \o more[m]
      BY <3>1, <3>2, JoinsAt
    <3> QED
      BY <1>1, <2>1, <3>3
  <2>3. << >> \o x = x
    BY ConcatEmptySeq
  <2> QED
    BY <1>1, <1>2, <1>3, <2>2, <2>3, FlattenEmpty
<1>4. CASE seqs # << >>
  <2>1. PICK f : Joins(f, seqs, n) /\ FlattenSeq(seqs) = f[n]
    BY <1>1, <1>4, FlattenJoins
  <2>2. m # 1
    BY <1>1, <1>4
  <2>3. g[m] = f[n] \o more[m]
    <3>1. /\ m = n + 1 /\ \A i \in 1..n : seqs[i] = more[i]
          /\ Joins(f, seqs, n) /\ Joins(g, more, m)
      BY <1>1, <1>2, <2>1
    <3>2. m \in 1..m /\ n <= m /\ n \in 1..n /\ m - 1 = n
      BY <2>2, <3>1
    <3>3. g[m] = IF m = 1 THEN more[m] ELSE g[m-1] \o more[m]
      BY <3>1, <3>2, JoinsAt
    <3>4. \A i \in 1..n : seqs[i] = more[i]
      BY <3>1
    <3>5. \A i \in 1..n : f[i] = g[i]
      BY <3>1, <3>2, <3>4, JoinsAgree
    <3>6. g[m-1] = f[n]
      BY <3>2, <3>5
    <3> QED
      BY <2>2, <3>3, <3>6
  <2> QED
    BY <1>1, <1>2, <2>1, <2>3
<1> QED
  BY <1>3, <1>4

(* The parts of a list of sequences can be joined first.                   *)
LEMMA FlattenConcat ==
    ASSUME NEW S, NEW s \in Seq(Seq(S)), NEW t \in Seq(Seq(S))
    PROVE  FlattenSeq(s \o t) = FlattenSeq(s) \o FlattenSeq(t)
<1> DEFINE Fails(u) == FlattenSeq(s \o u) # FlattenSeq(s) \o FlattenSeq(u)
           Bad == {k \in Nat : \E u \in Seq(Seq(S)) : Len(u) = k /\ Fails(u)}
<1> SUFFICES ASSUME Fails(t)
             PROVE  FALSE
  OBVIOUS
<1>1. Bad # {}
  <2>1. Len(t) \in Nat
    OBVIOUS
  <2> QED
    BY <2>1
<1>2. PICK k \in Bad : \A j \in Bad : k <= j
  BY <1>1, LeastElement
<1>3. PICK u \in Seq(Seq(S)) : Len(u) = k /\ Fails(u)
  BY <1>2
<1>4. FlattenSeq(s) \in Seq(S)
  BY FlattenType
<1>5. u # << >>
  <2>1. s \o << >> = s
    BY ConcatEmptySeq
  <2>2. FlattenSeq(s) \o << >> = FlattenSeq(s)
    BY <1>4, ConcatEmptySeq
  <2> QED
    BY <1>3, <2>1, <2>2, FlattenEmpty
<1>6. PICK v \in Seq(Seq(S)), x \in Seq(S) : u = Append(v, x)
  BY <1>3, <1>5, SequenceEmptyOrAppend
<1>7. Len(v) \in Nat /\ k = Len(v) + 1
  BY <1>3, <1>6, AppendProperties
<1>8. ~Fails(v)
  <2>1. Len(v) \notin Bad
    <3>1. ~(k <= Len(v))
      BY <1>7
    <3> HIDE DEF Bad
    <3> QED
      BY <1>2, <3>1
  <2> HIDE DEF Fails
  <2> QED
    BY <1>7, <2>1
<1>9. s \o u = Append(s \o v, x)
  <2>1. u = v \o <<x>>
    BY <1>6, AppendIsConcat
  <2>2. /\ s \in Seq(Seq(S)) /\ v \in Seq(Seq(S)) /\ s \o v \in Seq(Seq(S))
        /\ <<x>> \in Seq(Seq(S))
    BY ConcatProperties
  <2> DEFINE y == <<x>>
  <2> HIDE DEF y, Bad, Fails
  <2>3. (s \o v) \o y = s \o (v \o y)
    <3>1. y \in Seq(Seq(S))
      BY <2>2 DEF y
    <3> QED
      BY <2>2, <3>1, ConcatAssociative
  <2>4. Append(s \o v, x) = (s \o v) \o <<x>>
    BY <2>2, AppendIsConcat
  <2> QED
    BY <2>1, <2>3, <2>4 DEF y
<1>10. s \o v \in Seq(Seq(S))
  BY ConcatProperties
<1>11. FlattenSeq(s \o u) = (FlattenSeq(s) \o FlattenSeq(v)) \o x
  <2>1. FlattenSeq(Append(s \o v, x)) = FlattenSeq(s \o v) \o x
    BY <1>10, FlattenAppend
  <2>2. FlattenSeq(s \o v) = FlattenSeq(s) \o FlattenSeq(v)
    BY <1>8
  <2> QED
    BY <1>9, <2>1, <2>2
<1>12. FlattenSeq(v) \in Seq(S)
  BY FlattenType
<1>13. (FlattenSeq(s) \o FlattenSeq(v)) \o x = FlattenSeq(s) \o (FlattenSeq(v) \o x)
  <2> DEFINE a == FlattenSeq(s)
             b == FlattenSeq(v)
  <2>1. a \in Seq(S) /\ b \in Seq(S) /\ x \in Seq(S)
    BY <1>4, <1>6, <1>12
  <2> HIDE DEF a, b, Bad, Fails
  <2>2. (a \o b) \o x = a \o (b \o x)
    BY <2>1, ConcatAssociative
  <2> QED
    BY <2>2 DEF a, b
<1>14. FlattenSeq(u) = FlattenSeq(v) \o x
  BY <1>6, FlattenAppend
<1> QED
  BY <1>3, <1>11, <1>13, <1>14

-----------------------------------------------------------------------------
(* Packets and bytes.                                                      *)
Kind == ToServer \cup ToClient
Raw(K) == Seq(K \X (1..4))
Marks(bytes) ==
    [i \in DOMAIN bytes |-> IF Completes(bytes[i]) THEN <<bytes[i][1]>> ELSE <<>>]

LEMMA MarksType ==
    ASSUME NEW K, NEW bytes \in Raw(K)
    PROVE  /\ Marks(bytes) \in Seq(Seq(K))
           /\ Len(Marks(bytes)) = Len(bytes)
           /\ Frames(bytes) = FlattenSeq(Marks(bytes))
<1>1. /\ Len(bytes) \in Nat /\ DOMAIN bytes = 1..Len(bytes)
      /\ \A i \in 1..Len(bytes) : bytes[i] \in K \X (1..4)
  BY DEF Raw
<1>2. \A i \in 1..Len(bytes) : bytes[i][1] \in K
  BY <1>1
<1>3. \A i \in 1..Len(bytes) :
         (IF Completes(bytes[i]) THEN <<bytes[i][1]>> ELSE <<>>) \in Seq(K)
  BY <1>2
<1> QED
  BY <1>1, <1>3 DEF Marks, Frames

(* The packets of some bytes are of the kinds of these.                    *)
LEMMA FramesType ==
    ASSUME NEW K, NEW bytes \in Raw(K)
    PROVE  Frames(bytes) \in Seq(K)
  BY MarksType, FlattenType

(* The packets in two stretches of bytes are those of the first and those  *)
(* of the second.                                                          *)
LEMMA FramesConcat ==
    ASSUME NEW K, NEW a \in Raw(K), NEW b \in Raw(K)
    PROVE  /\ a \o b \in Raw(K)
           /\ Frames(a \o b) = Frames(a) \o Frames(b)
<1>1. a \in Seq(K \X (1..4)) /\ b \in Seq(K \X (1..4))
  BY DEF Raw
<1>2. /\ a \o b \in Seq(K \X (1..4))
      /\ Len(a \o b) = Len(a) + Len(b)
      /\ \A i \in 1..Len(a) + Len(b) :
            (a \o b)[i] = IF i <= Len(a) THEN a[i] ELSE b[i - Len(a)]
      /\ Len(a) \in Nat /\ Len(b) \in Nat
  BY <1>1, ConcatProperties
<1>3. /\ Marks(a) \in Seq(Seq(K)) /\ Marks(b) \in Seq(Seq(K))
      /\ Marks(a \o b) \in Seq(Seq(K))
      /\ Len(Marks(a)) = Len(a) /\ Len(Marks(b)) = Len(b)
      /\ Len(Marks(a \o b)) = Len(a) + Len(b)
  BY <1>2, MarksType DEF Raw
<1>4. /\ Marks(a) \o Marks(b) \in Seq(Seq(K))
      /\ Len(Marks(a) \o Marks(b)) = Len(a) + Len(b)
      /\ \A i \in 1..Len(a) + Len(b) :
            (Marks(a) \o Marks(b))[i] = IF i <= Len(a) THEN Marks(a)[i]
                                        ELSE Marks(b)[i - Len(a)]
  <2> DEFINE x == Marks(a)
             y == Marks(b)
  <2>1. x \in Seq(Seq(K)) /\ y \in Seq(Seq(K)) /\ Len(x) = Len(a) /\ Len(y) = Len(b)
    BY <1>3
  <2> HIDE DEF x, y
  <2>2. /\ x \o y \in Seq(Seq(K))
        /\ Len(x \o y) = Len(x) + Len(y)
        /\ \A i \in 1..Len(x) + Len(y) :
              (x \o y)[i] = IF i <= Len(x) THEN x[i] ELSE y[i - Len(x)]
    BY <2>1, ConcatProperties
  <2>3. /\ x \o y \in Seq(Seq(K))
        /\ Len(x \o y) = Len(a) + Len(b)
        /\ \A i \in 1..Len(a) + Len(b) :
              (x \o y)[i] = IF i <= Len(a) THEN x[i] ELSE y[i - Len(a)]
    BY <2>1, <2>2
  <2> QED
    BY <2>3 DEF x, y
<1>5. ASSUME NEW i \in 1..Len(a) + Len(b)
      PROVE  Marks(a \o b)[i] = (Marks(a) \o Marks(b))[i]
  <2>1. /\ DOMAIN (a \o b) = 1..Len(a) + Len(b)
        /\ DOMAIN a = 1..Len(a) /\ DOMAIN b = 1..Len(b)
    BY <1>1, <1>2
  <2>2. Marks(a \o b)[i] = IF Completes((a \o b)[i]) THEN <<(a \o b)[i][1]>> ELSE <<>>
    BY <2>1 DEF Marks
  <2>3. CASE i <= Len(a)
    <3>1. i \in 1..Len(a) /\ (a \o b)[i] = a[i]
      BY <1>2, <2>3
    <3>2. Marks(a)[i] = IF Completes(a[i]) THEN <<a[i][1]>> ELSE <<>>
      BY <2>1, <3>1 DEF Marks
    <3> QED
      BY <1>4, <2>2, <2>3, <3>1, <3>2
  <2>4. CASE i > Len(a)
    <3> DEFINE j == i - Len(a)
    <3>1. j \in 1..Len(b) /\ (a \o b)[i] = b[j] /\ ~(i <= Len(a))
      BY <1>2, <2>4
    <3>2. Marks(b)[j] = IF Completes(b[j]) THEN <<b[j][1]>> ELSE <<>>
      BY <2>1, <3>1 DEF Marks
    <3>3. (Marks(a) \o Marks(b))[i] = Marks(b)[j]
      BY <1>4, <3>1
    <3> QED
      BY <2>2, <3>1, <3>2, <3>3
  <2>5. i <= Len(a) \/ i > Len(a)
    BY <1>2
  <2> QED
    BY <2>3, <2>4, <2>5
<1>6. Marks(a \o b) = Marks(a) \o Marks(b)
  <2> DEFINE x == Marks(a \o b)
             y == Marks(a) \o Marks(b)
             n == Len(a) + Len(b)
  <2>1. /\ x \in Seq(Seq(K)) /\ y \in Seq(Seq(K))
        /\ Len(x) = n /\ Len(y) = n
        /\ \A i \in 1..n : x[i] = y[i]
    BY <1>3, <1>4, <1>5
  <2> HIDE DEF x, y, n
  <2>2. Len(x) = Len(y) /\ \A i \in 1..Len(x) : x[i] = y[i]
    BY <2>1
  <2>3. x = y
    BY <2>1, <2>2, SeqEqual
  <2> QED
    BY <2>3 DEF x, y
<1>7. FlattenSeq(Marks(a) \o Marks(b)) = FlattenSeq(Marks(a)) \o FlattenSeq(Marks(b))
  BY <1>3, FlattenConcat
<1>8. /\ Frames(a) = FlattenSeq(Marks(a)) /\ Frames(b) = FlattenSeq(Marks(b))
      /\ Frames(a \o b) = FlattenSeq(Marks(a \o b))
  BY DEF Marks, Frames
<1> QED
  BY <1>2, <1>6, <1>7, <1>8 DEF Raw

(* Where no byte completes a packet there is none.                         *)
LEMMA FramesNone ==
    ASSUME NEW K, NEW bytes \in Raw(K),
           \A i \in 1..Len(bytes) : ~Completes(bytes[i])
    PROVE  Frames(bytes) = << >>
<1>1. Len(bytes) \in Nat /\ DOMAIN bytes = 1..Len(bytes)
  BY DEF Raw
<1>2. \A i \in 1..Len(bytes) : Marks(bytes)[i] = << >>
  BY <1>1 DEF Marks
<1>3. Marks(bytes) \in Seq(Seq({}))
  <2>1. << >> \in Seq({})
    OBVIOUS
  <2>2. Marks(bytes) = [i \in 1..Len(bytes) |-> << >>]
    BY <1>1, <1>2 DEF Marks
  <2> QED
    BY <1>1, <2>1, <2>2
<1>4. FlattenSeq(Marks(bytes)) \in Seq({})
  BY <1>3, FlattenType
<1>5. \A s \in Seq({}) : s = << >>
  OBVIOUS
<1> QED
  BY <1>4, <1>5 DEF Marks, Frames

(* A single byte that completes a packet.                                  *)
LEMMA FramesOne ==
    ASSUME NEW K, NEW byte \in K \X (1..4), Completes(byte)
    PROVE  Frames(<<byte>>) = <<byte[1]>>
<1>1. byte[1] \in K
  OBVIOUS
<1>2. Marks(<<byte>>) = << <<byte[1]>> >>
  BY DEF Marks
<1>3. << <<byte[1]>> >> = Append(<< >>, <<byte[1]>>)
  OBVIOUS
<1>4. FlattenSeq(Append(<< >>, <<byte[1]>>)) = FlattenSeq(<< >>) \o <<byte[1]>>
  <2>1. << >> \in Seq(Seq(K)) /\ <<byte[1]>> \in Seq(K)
    BY <1>1
  <2> QED
    BY <2>1, FlattenAppend
<1>5. << >> \o <<byte[1]>> = <<byte[1]>>
  BY <1>1
<1> QED
  BY <1>2, <1>3, <1>4, <1>5, FlattenEmpty DEF Marks, Frames

(* The bytes of one packet are that packet.                                *)
LEMMA BytesFact ==
    ASSUME NEW K \in SUBSET Kind, NEW k \in K
    PROVE  /\ Bytes(k) \in Raw(K)
           /\ Len(Bytes(k)) = Length(k) /\ Length(k) \in 2..4
           /\ \A i \in 1..Length(k) : Bytes(k)[i] = <<k, i>>
           /\ Frames(Bytes(k)) = <<k>>
<1>1. Length(k) \in 2..4
  BY DEF Length
<1>2. PICK n \in 1..3 : Length(k) = n + 1
  BY <1>1
<1>3. /\ Bytes(k) = [i \in 1..Length(k) |-> <<k, i>>]
      /\ \A i \in 1..Length(k) : <<k, i>> \in K \X (1..4)
  BY <1>1 DEF Bytes
<1>4. /\ Bytes(k) \in Raw(K)
      /\ Len(Bytes(k)) = Length(k)
      /\ \A i \in 1..Length(k) : Bytes(k)[i] = <<k, i>>
  BY <1>1, <1>3 DEF Raw
<1> DEFINE first == [i \in 1..n |-> <<k, i>>]
           last == <<k, n + 1>>
<1>5. /\ first \in Raw(K) /\ last \in K \X (1..4) /\ <<last>> \in Raw(K)
      /\ Len(first) = n /\ \A i \in 1..n : first[i] = <<k, i>>
  BY <1>1, <1>2 DEF Raw
<1>6. Bytes(k) = first \o <<last>>
  <2>1. /\ first \o <<last>> \in Seq(K \X (1..4))
        /\ Len(first \o <<last>>) = n + 1
        /\ \A i \in 1..(n + 1) :
              (first \o <<last>>)[i] = IF i <= n THEN first[i] ELSE <<last>>[i - n]
    <3>1. first \in Seq(K \X (1..4)) /\ <<last>> \in Seq(K \X (1..4)) /\ Len(<<last>>) = 1
      BY <1>5 DEF Raw
    <3> HIDE DEF first, last
    <3> QED
      BY <1>5, <3>1, ConcatProperties
  <2>2. ASSUME NEW i \in 1..(n + 1)
        PROVE  (first \o <<last>>)[i] = Bytes(k)[i]
    <3>1. CASE i <= n
      BY <1>2, <1>4, <1>5, <2>1, <3>1
    <3>2. CASE i = n + 1
      <4>1. ~(i <= n) /\ i - n = 1
        BY <3>2
      <4>2. (first \o <<last>>)[i] = last
        <5> DEFINE both == first \o <<last>>
                   one == <<last>>
        <5>1. /\ both[i] = IF i <= n THEN first[i] ELSE one[i - n]
              /\ one[1] = last
          BY <2>1
        <5> HIDE DEF first, last, both, one
        <5>2. both[i] = last
          BY <4>1, <5>1
        <5> QED
          BY <5>2 DEF both
      <4>3. Bytes(k)[i] = <<k, n + 1>>
        BY <1>2, <1>4, <3>2
      <4> QED
        BY <4>2, <4>3
    <3>3. i <= n \/ i = n + 1
      OBVIOUS
    <3> QED
      BY <3>1, <3>2, <3>3
  <2>3. Bytes(k) \in Seq(K \X (1..4)) /\ Len(Bytes(k)) = n + 1
    BY <1>2, <1>4 DEF Raw
  <2> HIDE DEF first, last
  <2>4. /\ Len(Bytes(k)) = Len(first \o <<last>>)
        /\ \A i \in 1..Len(Bytes(k)) : Bytes(k)[i] = (first \o <<last>>)[i]
    BY <2>1, <2>2, <2>3
  <2> QED
    BY <2>1, <2>3, <2>4, SeqEqual
<1>7. Frames(first) = << >>
  <2>1. \A i \in 1..n : first[i] = <<k, i>> /\ i # Length(k)
    BY <1>2
  <2>2. \A i \in 1..Len(first) : ~Completes(first[i])
    BY <1>5, <2>1 DEF Completes
  <2> HIDE DEF first
  <2> QED
    BY <1>5, <2>2, FramesNone
<1>8. Frames(<<last>>) = <<k>>
  <2>1. Completes(last) /\ last[1] = k
    BY <1>2 DEF Completes
  <2> HIDE DEF last
  <2>2. Frames(<<last>>) = <<last[1]>>
    BY <1>5, <2>1, FramesOne
  <2> QED
    BY <2>1, <2>2
<1>9. Frames(first \o <<last>>) = Frames(first) \o Frames(<<last>>)
  <2> HIDE DEF first, last
  <2> QED
    BY <1>5, FramesConcat
<1>10. Frames(Bytes(k)) = <<k>>
  <2>1. << >> \o <<k>> = <<k>>
    <3>1. <<k>> \in Seq(K)
      OBVIOUS
    <3> QED
      BY <3>1, ConcatEmptySeq
  <2> HIDE DEF first, last
  <2> QED
    BY <1>6, <1>7, <1>8, <1>9, <2>1
<1> QED
  BY <1>1, <1>4, <1>10

Written(kinds) == [i \in DOMAIN kinds |-> Bytes(kinds[i])]

LEMMA WrittenType ==
    ASSUME NEW K \in SUBSET Kind, NEW kinds \in Seq(K)
    PROVE  /\ Written(kinds) \in Seq(Raw(K))
           /\ Len(Written(kinds)) = Len(kinds)
           /\ \A i \in 1..Len(kinds) : Written(kinds)[i] = Bytes(kinds[i])
<1>1. DOMAIN kinds = 1..Len(kinds) /\ Len(kinds) \in Nat
  OBVIOUS
<1>2. \A i \in 1..Len(kinds) : Bytes(kinds[i]) \in Raw(K)
  <2>1. \A i \in 1..Len(kinds) : kinds[i] \in K
    OBVIOUS
  <2> QED
    BY <2>1, BytesFact
<1> QED
  BY <1>1, <1>2 DEF Written

(* Writing more packets writes their bytes behind the others.              *)
LEMMA StreamFact ==
    ASSUME NEW K \in SUBSET Kind, NEW kinds \in Seq(K)
    PROVE  /\ Stream(kinds) \in Raw(K)
           /\ \A k \in K : Stream(Append(kinds, k)) = Stream(kinds) \o Bytes(k)
<1> DEFINE B == K \X (1..4)
<1>1. \A k \in K : Bytes(k) \in Seq(B)
  BY BytesFact DEF Raw
<1>2. \A ks \in Seq(K) :
         /\ Written(ks) \in Seq(Seq(B)) /\ Len(Written(ks)) = Len(ks)
         /\ \A i \in 1..Len(ks) : Written(ks)[i] = Bytes(ks[i])
  BY WrittenType DEF Raw
<1>3. Stream(kinds) \in Raw(K)
  <2>1. Written(kinds) \in Seq(Seq(B))
    BY <1>2
  <2> HIDE DEF B
  <2>2. FlattenSeq(Written(kinds)) \in Seq(B)
    BY <2>1, FlattenType
  <2> QED
    BY <2>2 DEF Stream, Written, Raw, B
<1>4. ASSUME NEW k \in K
      PROVE  Stream(Append(kinds, k)) = Stream(kinds) \o Bytes(k)
  <2>1. /\ Append(kinds, k) \in Seq(K)
        /\ Len(Append(kinds, k)) = Len(kinds) + 1 /\ Len(kinds) \in Nat
        /\ \A i \in 1..Len(kinds) : Append(kinds, k)[i] = kinds[i]
        /\ Append(kinds, k)[Len(kinds) + 1] = k
    BY AppendProperties
  <2> DEFINE x == Written(Append(kinds, k))
             y == Append(Written(kinds), Bytes(k))
             n == Len(kinds) + 1
  <2>2. /\ x \in Seq(Seq(B)) /\ Len(x) = n
        /\ \A i \in 1..n : x[i] = Bytes(Append(kinds, k)[i])
    BY <1>2, <2>1
  <2>3. /\ y \in Seq(Seq(B)) /\ Len(y) = n
        /\ \A i \in 1..(n - 1) : y[i] = Written(kinds)[i]
        /\ y[n] = Bytes(k)
    <3> DEFINE p == Written(kinds)
    <3>1. p \in Seq(Seq(B)) /\ Len(p) = Len(kinds) /\ Bytes(k) \in Seq(B)
      BY <1>1, <1>2
    <3> HIDE DEF p, B
    <3>2. /\ Append(p, Bytes(k)) \in Seq(Seq(B))
          /\ Len(Append(p, Bytes(k))) = Len(p) + 1
          /\ \A i \in 1..Len(p) : Append(p, Bytes(k))[i] = p[i]
          /\ Append(p, Bytes(k))[Len(p) + 1] = Bytes(k)
      BY <3>1, AppendProperties
    <3> QED
      BY <2>1, <3>1, <3>2 DEF p
  <2>4. \A i \in 1..n : x[i] = y[i]
    <3> TAKE i \in 1..n
    <3>1. CASE i = n
      BY <2>1, <2>2, <2>3, <3>1
    <3>2. CASE i # n
      <4>1. i \in 1..(n - 1) /\ i \in 1..Len(kinds) /\ i \in DOMAIN kinds
        BY <2>1, <3>2
      <4>2. y[i] = Written(kinds)[i] /\ Written(kinds)[i] = Bytes(kinds[i])
        <5> HIDE DEF y
        <5> QED
          BY <2>3, <4>1, WrittenType
      <4> QED
        BY <2>1, <2>2, <4>1, <4>2
    <3> QED
      BY <3>1, <3>2
  <2>5. x = y
    <3> HIDE DEF x, y, n, B
    <3>1. Len(x) = Len(y) /\ \A i \in 1..Len(x) : x[i] = y[i]
      BY <2>2, <2>3, <2>4
    <3> QED
      BY <2>2, <2>3, <3>1, SeqEqual
  <2>6. FlattenSeq(y) = FlattenSeq(Written(kinds)) \o Bytes(k)
    <3> DEFINE p == Written(kinds)
    <3>1. p \in Seq(Seq(B)) /\ Bytes(k) \in Seq(B)
      BY <1>1, <1>2
    <3> HIDE DEF p, B
    <3>2. FlattenSeq(Append(p, Bytes(k))) = FlattenSeq(p) \o Bytes(k)
      BY <3>1, FlattenAppend
    <3> QED
      BY <3>2 DEF p
  <2> QED
    BY <2>5, <2>6 DEF Stream, Written
<1> QED
  BY <1>3, <1>4

LEMMA StreamEmpty == Stream(<< >>) = << >>
<1>1. [i \in DOMAIN << >> |-> Bytes(<< >>[i])] = << >>
  OBVIOUS
<1> QED
  BY <1>1, FlattenEmpty DEF Stream

(* What is read of the bytes that were written is what was written.        *)
LEMMA FramesOfStream ==
    ASSUME NEW K \in SUBSET Kind, NEW kinds \in Seq(K)
    PROVE  Frames(Stream(kinds)) = kinds
<1> DEFINE Fails(ks) == Frames(Stream(ks)) # ks
           Bad == {n \in Nat : \E ks \in Seq(K) : Len(ks) = n /\ Fails(ks)}
<1> SUFFICES ASSUME Fails(kinds)
             PROVE  FALSE
  OBVIOUS
<1>1. Bad # {}
  <2>1. Len(kinds) \in Nat
    OBVIOUS
  <2> QED
    BY <2>1
<1>2. PICK n \in Bad : \A j \in Bad : n <= j
  BY <1>1, LeastElement
<1>3. PICK ks \in Seq(K) : Len(ks) = n /\ Fails(ks)
  BY <1>2
<1>4. ks # << >>
  <2>1. Frames(<< >>) = << >>
    <3>1. << >> \in Raw(K) /\ Len(<< >>) = 0
      BY DEF Raw
    <3> QED
      BY <3>1, FramesNone
  <2> QED
    BY <1>3, <2>1, StreamEmpty
<1>5. PICK js \in Seq(K), k \in K : ks = Append(js, k)
  BY <1>3, <1>4, SequenceEmptyOrAppend
<1>6. ~Fails(js)
  <2>1. ~(n <= Len(js)) /\ Len(js) \in Nat
    BY <1>3, <1>5, AppendProperties
  <2>2. Len(js) \notin Bad
    <3> HIDE DEF Bad
    <3> QED
      BY <1>2, <2>1
  <2> HIDE DEF Fails
  <2> QED
    BY <1>5, <2>1, <2>2
<1> HIDE DEF Bad
<1>7. Stream(ks) = Stream(js) \o Bytes(k)
  BY <1>5, StreamFact
<1>8. Frames(Stream(js) \o Bytes(k)) = Frames(Stream(js)) \o Frames(Bytes(k))
  <2>1. Stream(js) \in Raw(K) /\ Bytes(k) \in Raw(K)
    BY <1>5, StreamFact, BytesFact
  <2> QED
    BY <2>1, FramesConcat
<1>9. Frames(Bytes(k)) = <<k>>
  BY <1>5, BytesFact
<1>10. js \o <<k>> = Append(js, k)
  BY <1>5, AppendIsConcat
<1> QED
  BY <1>3, <1>5, <1>6, <1>7, <1>8, <1>9, <1>10

(* Behind the last whole packet none is complete; nothing is behind it if  *)
(* the last byte completes one.                                            *)
LEMMA RestFact ==
    ASSUME NEW K, NEW bytes \in Raw(K)
    PROVE  /\ Rest(bytes) \in Raw(K)
           /\ Frames(Rest(bytes)) = << >>
           /\ bytes # << >> /\ Completes(bytes[Len(bytes)]) => Rest(bytes) = << >>
<1> DEFINE n == Len(bytes)
           I == {i \in 1..n : Completes(bytes[i])}
           l == IF I # {} THEN Max(I) ELSE 0
           rest == SubSeq(bytes, l + 1, n)
<1>1. n \in Nat /\ \A i \in 1..n : bytes[i] \in K \X (1..4)
  BY DEF Raw
<1>2. /\ l \in 0..n
      /\ \A i \in 1..n : Completes(bytes[i]) => i <= l
  <2>1. CASE I = {}
    BY <1>1, <2>1
  <2>2. CASE I # {}
    <3> DEFINE J == {n - i : i \in I}
    <3>1. J \in SUBSET Nat /\ J # {}
      BY <1>1, <2>2
    <3>2. PICK x \in J : \A y \in J : x <= y
      BY <3>1, LeastElement
    <3>3. PICK m \in I : x = n - m
      BY <3>2
    <3>4. m \in 1..n /\ \A i \in I : i \in 1..n /\ n - i \in J
      BY <3>3
    <3>5. \A i \in I : m >= i
      <4> TAKE i \in I
      <4>1. n - m <= n - i
        BY <3>2, <3>3, <3>4
      <4>2. m \in Int /\ i \in Int /\ n \in Int
        BY <1>1, <3>4
      <4> HIDE DEF n
      <4> QED
        BY <4>1, <4>2
    <3>6. Max(I) \in I /\ \A i \in I : Max(I) >= i
      BY <3>3, <3>5 DEF Max
    <3>7. l = Max(I) /\ l \in 1..n
      BY <2>2, <3>6
    <3>8. \A i \in 1..n : Completes(bytes[i]) => i \in I
      OBVIOUS
    <3> HIDE DEF I, l
    <3> QED
      BY <1>1, <3>6, <3>7, <3>8
  <2> QED
    BY <2>1, <2>2
<1>3. Rest(bytes) = rest
  BY DEF Rest, SelectLastInSeq
<1> HIDE DEF l, I
<1>4. /\ rest \in Seq(K \X (1..4))
      /\ Len(rest) = n - l
      /\ \A i \in 1..(n - l) : rest[i] = bytes[l + i]
  <2>1. /\ l + 1 \in Int /\ n \in Int
        /\ \A i \in (l + 1)..n : bytes[i] \in K \X (1..4)
    BY <1>1, <1>2
  <2> HIDE DEF n
  <2>2. /\ SubSeq(bytes, l + 1, n) \in Seq(K \X (1..4))
        /\ Len(SubSeq(bytes, l + 1, n)) = IF l + 1 <= n THEN n - (l + 1) + 1 ELSE 0
        /\ \A i \in 1..(n - (l + 1) + 1) : SubSeq(bytes, l + 1, n)[i] = bytes[l + 1 + i - 1]
    BY <2>1, SubSeqProperties
  <2> QED
    BY <1>1, <1>2, <2>2
<1>5. \A i \in 1..Len(rest) : ~Completes(rest[i])
  <2> TAKE i \in 1..Len(rest)
  <2>1. rest[i] = bytes[l + i] /\ l + i \in 1..n /\ ~(l + i <= l)
    BY <1>1, <1>2, <1>4
  <2> QED
    BY <1>2, <2>1
<1>6. rest \in Raw(K)
  BY <1>4 DEF Raw
<1>7. Frames(rest) = << >>
  <2> HIDE DEF rest
  <2> QED
    BY <1>5, <1>6, FramesNone
<1>8. ASSUME bytes # << >>, Completes(bytes[n])
      PROVE  rest = << >>
  <2>1. n \in 1..n
    BY <1>1, <1>8 DEF Raw
  <2>2. l = n
    BY <1>1, <1>2, <1>8, <2>1
  <2>3. Len(rest) = 0
    BY <1>1, <1>4, <2>2
  <2> HIDE DEF rest
  <2> QED
    BY <1>4, <2>3
<1> QED
  BY <1>3, <1>6, <1>7, <1>8

-----------------------------------------------------------------------------
(* Counting the packets of a kind.                                         *)
LEMMA TallyType ==
    ASSUME NEW K, NEW kinds \in Seq(K), NEW k
    PROVE  /\ IsFiniteSet({i \in DOMAIN kinds : kinds[i] = k})
           /\ Tally(k, kinds) \in Nat
           /\ k \notin K => Tally(k, kinds) = 0
<1>1. IsFiniteSet(1..Len(kinds)) /\ DOMAIN kinds = 1..Len(kinds)
  <2>1. Len(kinds) \in Int /\ 1 \in Int
    OBVIOUS
  <2> QED
    BY <2>1, FS_Interval
<1>2. {i \in DOMAIN kinds : kinds[i] = k} \in SUBSET (1..Len(kinds))
  BY <1>1
<1>3. IsFiniteSet({i \in DOMAIN kinds : kinds[i] = k})
  BY <1>1, <1>2, FS_Subset
<1>4. k \notin K => {i \in DOMAIN kinds : kinds[i] = k} = {}
  OBVIOUS
<1> QED
  BY <1>3, <1>4, FS_CardinalityType, FS_EmptySet DEF Tally

LEMMA TallyConcat ==
    ASSUME NEW K, NEW a \in Seq(K), NEW b \in Seq(K), NEW k
    PROVE  Tally(k, a \o b) = Tally(k, a) + Tally(k, b)
<1> DEFINE m == Len(a)
           n == Len(b)
           A == {i \in DOMAIN a : a[i] = k}
           B == {i \in DOMAIN b : b[i] = k}
           C == {i \in DOMAIN (a \o b) : (a \o b)[i] = k}
           D == {i \in (m+1)..(m+n) : b[i - m] = k}
<1>1. /\ m \in Nat /\ n \in Nat
      /\ DOMAIN a = 1..m /\ DOMAIN b = 1..n /\ DOMAIN (a \o b) = 1..(m + n)
      /\ \A i \in 1..(m + n) : (a \o b)[i] = IF i <= m THEN a[i] ELSE b[i - m]
  BY ConcatProperties
<1>2. IsFiniteSet(A) /\ IsFiniteSet(B)
  BY TallyType
<1>3. C = A \cup D
  <2>1. ASSUME NEW i \in C PROVE i \in A \cup D
    BY <1>1
  <2>2. ASSUME NEW i \in A PROVE i \in C
    BY <1>1
  <2>3. ASSUME NEW i \in D PROVE i \in C
    BY <1>1
  <2> QED
    BY <2>1, <2>2, <2>3
<1>4. A \cap D = {}
  BY <1>1
<1>5. /\ IsFiniteSet(D) /\ Cardinality(D) = Cardinality(B)
  <2> DEFINE f == [i \in B |-> m + i]
  <2>1. f \in [B -> D]
    BY <1>1
  <2>2. \A i, j \in B : f[i] = f[j] => i = j
    BY <1>1
  <2>3. \A d \in D : d - m \in B /\ f[d - m] = d
    BY <1>1
  <2>4. f \in Bijection(B, D)
    <3> HIDE DEF B, D, f
    <3> QED
      BY <2>1, <2>2, <2>3 DEF Bijection, Injection, Surjection, IsInjective
  <2> QED
    BY <1>2, <2>4, FS_Bijection DEF ExistsBijection
<1> HIDE DEF A, B, C, D
<1>6. Cardinality(A \cup D) = Cardinality(A) + Cardinality(D) - Cardinality(A \cap D)
  BY <1>2, <1>5, FS_Union
<1>7. Cardinality(A \cap D) = 0 /\ Cardinality(A) \in Nat /\ Cardinality(D) \in Nat
  BY <1>2, <1>4, <1>5, FS_EmptySet, FS_CardinalityType
<1>8. Cardinality(C) = Cardinality(A) + Cardinality(B)
  BY <1>3, <1>5, <1>6, <1>7
<1> QED
  BY <1>8 DEF Tally, A, B, C

LEMMA TallyOne ==
    ASSUME NEW j, NEW k
    PROVE  /\ Tally(k, <<j>>) = IF j = k THEN 1 ELSE 0
           /\ Tally(k, << >>) = 0
<1>1. DOMAIN <<j>> = {1} /\ <<j>>[1] = j
  OBVIOUS
<1>2. ASSUME j = k
      PROVE  Tally(k, <<j>>) = 1
  <2>1. {i \in DOMAIN <<j>> : <<j>>[i] = k} = {1}
    BY <1>1, <1>2
  <2> QED
    BY <2>1, FS_Singleton DEF Tally
<1>3. ASSUME j # k
      PROVE  Tally(k, <<j>>) = 0
  <2>1. {i \in DOMAIN <<j>> : <<j>>[i] = k} = {}
    BY <1>1, <1>3
  <2> QED
    BY <2>1, FS_EmptySet DEF Tally
<1>4. Tally(k, << >>) = 0
  <2>1. {i \in DOMAIN << >> : << >>[i] = k} = {}
    OBVIOUS
  <2> QED
    BY <2>1, FS_EmptySet DEF Tally
<1> QED
  BY <1>2, <1>3, <1>4

-----------------------------------------------------------------------------
(* The types that the operators on bytes and packets ask for.              *)
LEMMA LinkTypes ==
    ASSUME LinkTypeOK
    PROVE  /\ up \in Raw(ToServer) /\ buffer \in Raw(ToServer)
           /\ down \in Raw(ToClient)
           /\ written \in Seq(ToServer) /\ handled \in Seq(ToServer)
           /\ buffer \o up \in Raw(ToServer)
           /\ Frames(buffer \o up) \in Seq(ToServer)
           /\ Frames(down) \in Seq(ToClient) /\ Pending \in Nat
           /\ Tally("subscribe", written) \in Nat
           /\ Tally("subscribe", handled) \in Nat
           /\ ToServer \in SUBSET Kind /\ ToClient \in SUBSET Kind
           /\ Len(emitted) \in Nat /\ publications \in Nat
<1>1. /\ up \in Raw(ToServer) /\ buffer \in Raw(ToServer)
      /\ down \in Raw(ToClient)
      /\ written \in Seq(ToServer) /\ handled \in Seq(ToServer)
      /\ Len(emitted) \in Nat /\ publications \in Nat
  BY DEF LinkTypeOK, Raw
<1>2. /\ buffer \o up \in Raw(ToServer) /\ Frames(down) \in Seq(ToClient)
  BY <1>1, FramesConcat, FramesType
<1>3. Frames(buffer \o up) \in Seq(ToServer)
  BY <1>2, FramesType
<1>4. /\ Pending \in Nat
      /\ Tally("subscribe", written) \in Nat
      /\ Tally("subscribe", handled) \in Nat
  BY <1>1, <1>2, TallyType DEF Pending
<1> QED
  BY <1>1, <1>2, <1>3, <1>4 DEF Kind

LEMMA InitLinkInv == LinkInit => LinkInv
<1> SUFFICES ASSUME LinkInit
             PROVE  LinkInv
  OBVIOUS
<1>1. LinkTypeOK
  <2>1. MqTypeOK
    BY DEF LinkInit, MqInit, MqTypeOK
  <2>2. /\ up = << >> /\ down = << >> /\ buffer = << >>
        /\ written = << >> /\ handled = << >> /\ emitted = << >>
        /\ packet = "none" /\ discards = 0 /\ owed = 0 /\ publications = 0
    BY DEF LinkInit, NewClient
  <2>3. serverUp \in BOOLEAN /\ splitUp \in BOOLEAN /\ ragged \in BOOLEAN
    BY DEF LinkInit
  <2>4. \A S : << >> \in Seq(S)
    OBVIOUS
  <2>5. discards \in Nat /\ owed \in 0..1 /\ publications \in 0..1
    BY <2>2
  <2> QED
    BY <2>1, <2>2, <2>3, <2>4, <2>5 DEF LinkTypeOK
<1>2. Frames(<< >>) = << >>
  <2>1. << >> \in Raw(ToServer) /\ Len(<< >>) = 0
    BY DEF Raw
  <2> QED
    BY <2>1, FramesNone
<1>3. << >> \o << >> = << >>
  OBVIOUS
<1>4. FramesInOrder
  BY <1>2, <1>3 DEF FramesInOrder, LinkInit, NewClient
<1>5. CleanUnlessSplit
  BY DEF CleanUnlessSplit, LinkInit, NewClient
<1>6. \A k : Tally(k, << >>) = 0
  BY TallyOne
<1>7. Subscribed
  BY <1>6 DEF Subscribed, LinkInit, NewClient
<1>8. DeliveredGenuine
  <2>1. Pending = 0 /\ Len(emitted) = 0 /\ publications = 0 /\ Range(emitted) = {}
    BY <1>2, <1>6 DEF Pending, LinkInit, Range
  <2> QED
    BY <2>1 DEF DeliveredGenuine
<1> QED
  BY <1>1, <1>4, <1>5, <1>7, <1>8 DEF LinkInv

(* The client writes: its packets are behind all that are under way.       *)
LEMMA WriteFact ==
    ASSUME LinkTypeOK, NEW kinds \in Seq(ToServer), Write(kinds)
    PROVE  /\ up' \in Raw(ToServer) /\ written' \in Seq(ToServer)
           /\ written = handled \o Frames(buffer \o up)
                 => written' = handled \o Frames(buffer \o up')
           /\ Tally("subscribe", written')
                 = Tally("subscribe", written) + Tally("subscribe", kinds)
<1>1. up' = up \o Stream(kinds) /\ written' = written \o kinds
  BY DEF Write
<1>2. /\ Stream(kinds) \in Raw(ToServer) /\ Frames(Stream(kinds)) = kinds
  BY StreamFact, FramesOfStream, LinkTypes
<1>3. up' \in Raw(ToServer)
  BY <1>1, <1>2, FramesConcat, LinkTypes
<1>4. written' \in Seq(ToServer)
  BY <1>1, ConcatProperties, LinkTypes
<1>5. Frames(buffer \o up') = Frames(buffer \o up) \o kinds
  <2>1. buffer \o (up \o Stream(kinds)) = (buffer \o up) \o Stream(kinds)
    <3> DEFINE s == Stream(kinds)
               B == ToServer \X (1..4)
    <3>1. buffer \in Seq(B) /\ up \in Seq(B) /\ s \in Seq(B)
      BY <1>2, LinkTypes DEF Raw
    <3> HIDE DEF s, B
    <3>2. (buffer \o up) \o s = buffer \o (up \o s)
      BY <3>1, ConcatAssociative
    <3> QED
      BY <3>2 DEF s
  <2>2. Frames((buffer \o up) \o Stream(kinds)) = Frames(buffer \o up) \o Frames(Stream(kinds))
    BY <1>2, FramesConcat, LinkTypes
  <2> QED
    BY <1>1, <1>2, <2>1, <2>2
<1>6. ASSUME written = handled \o Frames(buffer \o up)
      PROVE  written' = handled \o Frames(buffer \o up')
  <2> DEFINE f == Frames(buffer \o up)
  <2>1. handled \in Seq(ToServer) /\ f \in Seq(ToServer) /\ kinds \in Seq(ToServer)
    BY LinkTypes
  <2> HIDE DEF f
  <2>2. (handled \o f) \o kinds = handled \o (f \o kinds)
    BY <2>1, ConcatAssociative
  <2> QED
    BY <1>1, <1>5, <1>6, <2>2 DEF f
<1>7. Tally("subscribe", written \o kinds)
         = Tally("subscribe", written) + Tally("subscribe", kinds)
  BY TallyConcat, LinkTypes
<1> QED
  BY <1>1, <1>3, <1>4, <1>6, <1>7

(* Bytes are taken from what is under way.                                 *)
LEMMA TakeFact ==
    ASSUME NEW K, NEW bytes \in Raw(K), NEW n \in 1..Len(bytes)
    PROVE  /\ SubSeq(bytes, 1, n) \in Raw(K)
           /\ SubSeq(bytes, n + 1, Len(bytes)) \in Raw(K)
           /\ bytes = SubSeq(bytes, 1, n) \o SubSeq(bytes, n + 1, Len(bytes))
           /\ Len(SubSeq(bytes, 1, n)) = n
           /\ SubSeq(bytes, 1, n)[1] = bytes[1]
           /\ SubSeq(bytes, 1, n)[n] = bytes[n]
<1> DEFINE B == K \X (1..4)
           l == Len(bytes)
<1>1. /\ bytes \in Seq(B) /\ l \in Nat /\ n \in 1..l
      /\ \A i \in 1..l : bytes[i] \in B
  BY DEF Raw
<1> HIDE DEF B, l
<1>2. /\ SubSeq(bytes, 1, n) \in Seq(B)
      /\ Len(SubSeq(bytes, 1, n)) = n
      /\ \A i \in 1..n : SubSeq(bytes, 1, n)[i] = bytes[i]
  <2>1. 1 \in Int /\ n \in Int /\ \A i \in 1..n : bytes[i] \in B
    BY <1>1
  <2>2. /\ SubSeq(bytes, 1, n) \in Seq(B)
        /\ Len(SubSeq(bytes, 1, n)) = IF 1 <= n THEN n - 1 + 1 ELSE 0
        /\ \A i \in 1..(n - 1 + 1) : SubSeq(bytes, 1, n)[i] = bytes[1 + i - 1]
    BY <2>1, SubSeqProperties
  <2> QED
    BY <1>1, <2>2
<1>3. SubSeq(bytes, n + 1, l) \in Seq(B)
  <2>1. n + 1 \in Int /\ l \in Int /\ \A i \in (n + 1)..l : bytes[i] \in B
    BY <1>1
  <2> QED
    BY <2>1, SubSeqProperties
<1>4. SubSeq(bytes, 1, n) \o SubSeq(bytes, n + 1, l) = bytes
  <2>1. /\ 1 \in 1..(Len(bytes) + 1) /\ n \in (1 - 1)..Len(bytes)
        /\ l \in n..Len(bytes)
    BY <1>1 DEF l
  <2>2. SubSeq(bytes, 1, n) \o SubSeq(bytes, n + 1, l) = SubSeq(bytes, 1, l)
    BY <1>1, <2>1, ConcatAdjacentSubSeq
  <2>3. SubSeq(bytes, 1, l) = bytes
    BY <1>1, SubSeqFull DEF l
  <2> QED
    BY <2>2, <2>3
<1>5. 1 \in 1..n /\ n \in 1..n
  BY <1>1
<1> QED
  BY <1>2, <1>3, <1>4, <1>5 DEF Raw, B, l

(* The server gets a chunk.                                                *)
LEMMA AccumulateStep ==
    ASSUME LinkInv, NEW n \in 1..Len(up), Accumulate(n)
    PROVE  LinkInv'
<1> DEFINE chunk == SubSeq(up, 1, n)
           all == buffer \o chunk
<1>1. LinkTypeOK /\ FramesInOrder /\ CleanUnlessSplit /\ Subscribed /\ DeliveredGenuine
  BY DEF LinkInv
<1>2. /\ serverUp
      /\ up' = SubSeq(up, n + 1, Len(up))
      /\ splitUp' = (splitUp \/ ~Completes(up[n]))
      /\ Assemble(all) \/ KeepWaiting(all) \/ Trip(all)
      /\ UNCHANGED mqVars /\ UNCHANGED <<written, emitted, publications, ragged>>
  BY DEF Accumulate
<1>3. /\ up \in Raw(ToServer) /\ buffer \in Raw(ToServer) /\ down \in Raw(ToClient)
      /\ written \in Seq(ToServer) /\ handled \in Seq(ToServer)
  BY <1>1, LinkTypes
<1>4. /\ chunk \in Raw(ToServer) /\ up' \in Raw(ToServer)
      /\ up = chunk \o up'
      /\ Len(chunk) = n /\ chunk[n] = up[n]
  BY <1>2, <1>3, TakeFact
<1>5. all \in Raw(ToServer)
  BY <1>3, <1>4, FramesConcat
<1>6. buffer \o up = all \o up'
  <2> DEFINE B == ToServer \X (1..4)
  <2>1. buffer \in Seq(B) /\ chunk \in Seq(B) /\ up' \in Seq(B)
    BY <1>3, <1>4 DEF Raw
  <2> HIDE DEF chunk, B
  <2>2. (buffer \o chunk) \o up' = buffer \o (chunk \o up')
    BY <2>1, ConcatAssociative
  <2> QED
    BY <1>4, <2>2
<1>7. /\ Frames(all) \in Seq(ToServer) /\ Frames(up') \in Seq(ToServer)
      /\ Frames(buffer \o up) = Frames(all) \o Frames(up')
  BY <1>4, <1>5, <1>6, FramesConcat, FramesType
<1>8. written = handled \o (Frames(all) \o Frames(up'))
  BY <1>1, <1>2, <1>7 DEF FramesInOrder
<1> HIDE DEF chunk, all
<1>9. MqTypeOK'
  BY <1>1, <1>2 DEF LinkTypeOK, MqTypeOK, mqVars
<1>10. splitUp' \in BOOLEAN /\ ragged' \in BOOLEAN /\ publications' \in 0..1
  BY <1>1, <1>2 DEF LinkTypeOK
<1>11. sessionOpened' = sessionOpened /\ tcp' = tcp
  BY <1>2 DEF mqVars
<1>12. CASE Assemble(all)
  <2> DEFINE kinds == Frames(all)
  <2>1. /\ packet = "none"
        /\ handled' = handled \o kinds
        /\ down' = down \o Stream(Replies(kinds))
        /\ owed' = owed + Tally("subscribe", kinds)
        /\ buffer' = Rest(all)
        /\ packet' = Shape(Rest(all))
        /\ discards' = discards + (IF Rest(all) = << >> THEN 0 ELSE 1)
        /\ serverUp' = serverUp
    BY <1>12 DEF Assemble, Process
  <2>2. /\ buffer' \in Raw(ToServer) /\ Frames(buffer') = << >>
        /\ all # << >> /\ Completes(all[Len(all)]) => buffer' = << >>
    BY <1>5, <2>1, RestFact
  <2>3. handled' \in Seq(ToServer)
    BY <1>3, <1>7, <2>1, ConcatProperties
  <2>4. written = handled' \o Frames(up')
    <3> DEFINE later == Frames(up')
    <3>1. handled \in Seq(ToServer) /\ kinds \in Seq(ToServer) /\ later \in Seq(ToServer)
      BY <1>3, <1>7
    <3> HIDE DEF kinds, later
    <3>2. (handled \o kinds) \o later = handled \o (kinds \o later)
      BY <3>1, ConcatAssociative
    <3> QED
      BY <1>8, <2>1, <3>2 DEF kinds, later
  <2>5. FramesInOrder'
    <3>1. Frames(buffer' \o up') = Frames(buffer') \o Frames(up')
      BY <1>4, <2>2, FramesConcat
    <3>2. << >> \o Frames(up') = Frames(up')
      BY <1>7, ConcatEmptySeq
    <3> QED
      BY <1>2, <2>2, <2>4, <3>1, <3>2 DEF FramesInOrder
  <2>6. /\ Tally("subscribe", handled') = Tally("subscribe", handled) + Tally("subscribe", kinds)
        /\ Tally("subscribe", written)
              = Tally("subscribe", handled') + Tally("subscribe", Frames(up'))
        /\ Tally("subscribe", handled) \in Nat /\ Tally("subscribe", kinds) \in Nat
        /\ Tally("subscribe", Frames(up')) \in Nat
        /\ Tally("subscribe", written) \in Nat /\ Tally("subscribe", handled') \in Nat
    BY <1>3, <1>7, <2>1, <2>3, <2>4, TallyConcat, TallyType
  <2>7. /\ owed' \in 0..1 /\ owed' + publications = Tally("subscribe", handled')
        /\ Tally("subscribe", handled') <= 1
    <3>1. /\ owed \in Nat /\ publications \in Nat
          /\ owed + publications = Tally("subscribe", handled)
          /\ Tally("subscribe", written) <= 1
      BY <1>1 DEF LinkTypeOK, Subscribed
    <3> DEFINE before == Tally("subscribe", handled)
               now == Tally("subscribe", kinds)
               then == Tally("subscribe", handled')
               later == Tally("subscribe", Frames(up'))
               whole == Tally("subscribe", written)
    <3>2. /\ then = before + now /\ whole = then + later
          /\ before \in Nat /\ now \in Nat /\ then \in Nat
          /\ later \in Nat /\ whole \in Nat
      BY <2>6
    <3>3. owed + publications = before /\ whole <= 1 /\ owed' = owed + now
      BY <2>1, <3>1
    <3> HIDE DEF before, now, then, later, whole
    <3>4. owed' \in 0..1 /\ owed' + publications = then /\ then <= 1
      BY <3>1, <3>2, <3>3
    <3> QED
      BY <3>4 DEF then
  <2>8. Subscribed'
    BY <1>1, <1>2, <1>11, <2>7 DEF Subscribed
  <2>9. /\ Stream(Replies(kinds)) \in Raw({"connack", "suback", "pingresp"})
        /\ Stream(Replies(kinds)) \in Raw(ToClient)
    <3> DEFINE R == {"connack", "suback", "pingresp"}
               each == [i \in DOMAIN kinds |-> Reply(kinds[i])]
    <3>1. \A k \in ToServer : Reply(k) \in Seq(R)
      <4>1. /\ Reply("connect") = <<"connack">> /\ Reply("subscribe") = <<"suback">>
            /\ Reply("pingreq") = <<"pingresp">> /\ Reply("publish") = << >>
        BY DEF Reply
      <4>2. /\ <<"connack">> \in Seq(R) /\ <<"suback">> \in Seq(R)
            /\ <<"pingresp">> \in Seq(R) /\ << >> \in Seq(R)
        OBVIOUS
      <4> HIDE DEF R
      <4> QED
        BY <4>1, <4>2 DEF ToServer
    <3>2. each \in Seq(Seq(R))
      <4>1. DOMAIN kinds = 1..Len(kinds) /\ Len(kinds) \in Nat
            /\ \A i \in 1..Len(kinds) : kinds[i] \in ToServer
        BY <1>7
      <4> HIDE DEF kinds, R
      <4> QED
        BY <3>1, <4>1
    <3>3. Replies(kinds) \in Seq(R)
      <4> HIDE DEF R, each
      <4>1. FlattenSeq(each) \in Seq(R)
        BY <3>2, FlattenType
      <4> QED
        BY <4>1 DEF Replies, each
    <3>4. R \in SUBSET Kind /\ R \subseteq ToClient
      BY DEF Kind, ToClient
    <3>5. Stream(Replies(kinds)) \in Raw(R)
      <4> HIDE DEF R, kinds
      <4> QED
        BY <3>3, <3>4, StreamFact
    <3>6. Raw(R) \subseteq Raw(ToClient)
      <4>1. R \X (1..4) \subseteq ToClient \X (1..4)
        BY <3>4
      <4> HIDE DEF R
      <4> QED
        BY <4>1 DEF Raw
    <3> QED
      BY <3>5, <3>6
  <2> HIDE DEF kinds
  <2>10. down' \in Raw(ToClient) /\ Frames(down') = Frames(down) \o Frames(Stream(Replies(kinds)))
    BY <1>3, <2>1, <2>9, FramesConcat
  <2>11. Pending' = Pending
    <3> DEFINE new == Frames(Stream(Replies(kinds)))
    <3>1. new \in Seq({"connack", "suback", "pingresp"}) /\ new \in Seq(ToClient)
      BY <2>9, FramesType
    <3> HIDE DEF new
    <3>2. Tally("published", new) = 0
      <4>1. "published" \notin {"connack", "suback", "pingresp"}
        OBVIOUS
      <4> QED
        BY <3>1, <4>1, TallyType
    <3>3. Frames(down) \in Seq(ToClient)
      BY <1>3, FramesType
    <3>4. Tally("published", Frames(down) \o new)
             = Tally("published", Frames(down)) + Tally("published", new)
      BY <3>1, <3>3, TallyConcat
    <3>5. Tally("published", Frames(down)) \in Nat
      BY <3>3, TallyType
    <3> QED
      BY <2>10, <3>2, <3>4, <3>5 DEF Pending, new
  <2>12. DeliveredGenuine'
    BY <1>1, <1>2, <1>11, <2>1, <2>11 DEF DeliveredGenuine
  <2>13. CleanUnlessSplit'
    <3> SUFFICES ASSUME ~splitUp'
                 PROVE  /\ serverUp' /\ buffer' = << >>
                        /\ packet' = "none" /\ discards' = 0
      BY DEF CleanUnlessSplit
    <3>1. buffer = << >> /\ discards = 0 /\ Completes(up[n])
      BY <1>1, <1>2 DEF CleanUnlessSplit
    <3>2. all = chunk
      BY <1>4, <3>1 DEF all, Raw
    <3>3. all # << >> /\ Completes(all[Len(all)])
      BY <1>4, <3>1, <3>2
    <3> QED
      BY <1>2, <2>1, <2>2, <3>1, <3>3 DEF Shape
  <2>14. packet' \in {"none", "bare", "sized"} /\ discards' \in Nat /\ serverUp' \in BOOLEAN
    <3>1. packet' \in {"none", "bare", "sized"}
      BY <2>1 DEF Shape
    <3>2. discards' \in Nat
      BY <1>1, <2>1 DEF LinkTypeOK
    <3> QED
      BY <1>1, <2>1, <3>1, <3>2 DEF LinkTypeOK
  <2>15. LinkTypeOK'
    BY <1>1, <1>2, <1>4, <1>9, <1>10, <2>2, <2>3, <2>7, <2>10, <2>14 DEF LinkTypeOK, Raw
  <2> QED
    BY <2>5, <2>8, <2>12, <2>13, <2>15 DEF LinkInv
<1>13. CASE KeepWaiting(all) \/ Trip(all)
  <2>1. /\ packet # "none"
        /\ buffer' = all
        /\ discards' \in {discards, discards + 1}
        /\ serverUp' \in {serverUp, FALSE}
        /\ UNCHANGED <<packet, owed, handled, down>>
    BY <1>13 DEF KeepWaiting, Trip
  <2>2. FramesInOrder'
    BY <1>1, <1>2, <1>6, <2>1 DEF FramesInOrder
  <2>3. CleanUnlessSplit'
    BY <1>1, <1>2, <2>1 DEF CleanUnlessSplit
  <2>4. Subscribed'
    BY <1>1, <1>2, <1>11, <2>1 DEF Subscribed
  <2>5. DeliveredGenuine'
    BY <1>1, <1>2, <1>11, <2>1 DEF DeliveredGenuine, Pending
  <2>6. discards' \in Nat
    BY <1>1, <2>1 DEF LinkTypeOK
  <2>7. serverUp' \in BOOLEAN
    BY <1>1, <2>1 DEF LinkTypeOK
  <2>8. LinkTypeOK'
    BY <1>1, <1>2, <1>4, <1>5, <1>9, <1>10, <2>1, <2>6, <2>7 DEF LinkTypeOK, Raw
  <2> QED
    BY <2>2, <2>3, <2>4, <2>5, <2>8 DEF LinkInv
<1> QED
  BY <1>2, <1>12, <1>13

(* What the server's timers and the client's time-out change.              *)
LEMMA DiscardStep ==
    ASSUME LinkInv, Discard
    PROVE  LinkInv'
<1>1. LinkTypeOK /\ FramesInOrder /\ CleanUnlessSplit /\ Subscribed /\ DeliveredGenuine
  BY DEF LinkInv
<1>2. /\ serverUp /\ discards > 0 /\ discards' = discards - 1 /\ packet' = "none"
      /\ UNCHANGED <<running, tcp, connected, sessionOpened, timer>>
      /\ UNCHANGED <<up, down, serverUp, buffer, owed, handled, written,
                     emitted, publications, splitUp, ragged>>
  BY DEF Discard, mqVars
<1>3. discards' \in Nat
  BY <1>1, <1>2 DEF LinkTypeOK
<1>4. LinkTypeOK'
  BY <1>1, <1>2, <1>3 DEF LinkTypeOK, MqTypeOK
<1>5. FramesInOrder' /\ Subscribed'
  BY <1>1, <1>2 DEF FramesInOrder, Subscribed
<1>6. CleanUnlessSplit'
  <2>1. splitUp
    BY <1>1, <1>2 DEF CleanUnlessSplit
  <2> QED
    BY <1>2, <2>1 DEF CleanUnlessSplit
<1>7. DeliveredGenuine'
  BY <1>1, <1>2 DEF DeliveredGenuine, Pending
<1> QED
  BY <1>4, <1>5, <1>6, <1>7 DEF LinkInv

(* The server publishes what it owes.                                      *)
LEMMA ServerPublishesStep ==
    ASSUME LinkInv, ServerPublishes
    PROVE  LinkInv'
<1>1. LinkTypeOK /\ FramesInOrder /\ CleanUnlessSplit /\ Subscribed /\ DeliveredGenuine
  BY DEF LinkInv
<1>2. /\ serverUp /\ owed > 0 /\ owed' = owed - 1
      /\ down' = down \o Bytes("published")
      /\ publications' = publications + 1
      /\ UNCHANGED <<running, tcp, connected, sessionOpened, timer>>
      /\ UNCHANGED <<up, serverUp, buffer, packet, discards, handled, written,
                     emitted, splitUp, ragged>>
  BY DEF ServerPublishes, mqVars
<1>3. "published" \in ToClient /\ ToClient \in SUBSET Kind
  BY DEF ToClient, Kind
<1>4. /\ Bytes("published") \in Raw(ToClient)
      /\ Frames(Bytes("published")) = <<"published">>
  BY <1>3, BytesFact
<1>5. down \in Raw(ToClient) /\ Frames(down) \in Seq(ToClient)
  BY <1>1, LinkTypes
<1>6. /\ down' \in Raw(ToClient)
      /\ Frames(down') = Frames(down) \o <<"published">>
  BY <1>2, <1>4, <1>5, FramesConcat
<1>7. Pending' = Pending + 1 /\ Pending \in Nat
  <2>1. <<"published">> \in Seq(ToClient)
    BY <1>3
  <2>2. Tally("published", Frames(down) \o <<"published">>)
           = Tally("published", Frames(down)) + Tally("published", <<"published">>)
    BY <1>5, <2>1, TallyConcat
  <2>3. Tally("published", <<"published">>) = 1
    BY TallyOne
  <2> QED
    BY <1>1, <1>6, <2>2, <2>3, LinkTypes DEF Pending
<1>8. /\ owed \in 0..1 /\ publications \in 0..1
      /\ owed + publications = Tally("subscribe", handled)
      /\ Tally("subscribe", handled) <= 1
  BY <1>1 DEF LinkTypeOK, Subscribed
<1>9. /\ owed' \in 0..1 /\ publications' \in 0..1
      /\ owed' + publications' = owed + publications
  BY <1>2, <1>8
<1>10. LinkTypeOK'
  BY <1>1, <1>2, <1>6, <1>9 DEF LinkTypeOK, MqTypeOK, Raw
<1>11. FramesInOrder' /\ CleanUnlessSplit'
  BY <1>1, <1>2 DEF FramesInOrder, CleanUnlessSplit
<1>12. Subscribed'
  BY <1>1, <1>2, <1>9 DEF Subscribed
<1>13. DeliveredGenuine'
  <2>1. Len(emitted) \in Nat /\ publications \in Nat
    BY <1>1, LinkTypes
  <2> QED
    BY <1>1, <1>2, <1>7, <2>1 DEF DeliveredGenuine
<1> QED
  BY <1>10, <1>11, <1>12, <1>13 DEF LinkInv

(* The server has gone, and the connection goes.                           *)
LEMMA ConnectionGoesStep ==
    ASSUME LinkInv, ConnectionGoes
    PROVE  LinkInv'
<1>1. LinkTypeOK /\ FramesInOrder /\ CleanUnlessSplit /\ Subscribed /\ DeliveredGenuine
  BY DEF LinkInv
<1>2. /\ ~serverUp /\ down' = << >>
      /\ tcp' = "ended" /\ MqTypeOK'
      /\ UNCHANGED <<up, serverUp, buffer, packet, discards, owed, handled>>
      /\ UNCHANGED <<written, emitted, publications, splitUp, ragged>>
  BY <1>1 DEF ConnectionGoes, BrokerEnds, SocketFails, Exit, serverVars, LinkTypeOK, MqTypeOK
<1>3. Pending' = 0
  <2>1. << >> \in Raw(ToClient) /\ Len(<< >>) = 0
    BY DEF Raw
  <2>2. Frames(<< >>) = << >>
    BY <2>1, FramesNone
  <2> QED
    BY <1>2, <2>2, TallyOne DEF Pending
<1>4. LinkTypeOK'
  BY <1>1, <1>2 DEF LinkTypeOK
<1>5. FramesInOrder' /\ CleanUnlessSplit' /\ Subscribed'
  BY <1>1, <1>2 DEF FramesInOrder, CleanUnlessSplit, Subscribed
<1>6. DeliveredGenuine'
  <2>1. Len(emitted) \in Nat /\ publications \in Nat /\ Pending \in Nat
    BY <1>1, LinkTypes
  <2> QED
    BY <1>1, <1>2, <1>3, <2>1 DEF DeliveredGenuine
<1> QED
  BY <1>4, <1>5, <1>6 DEF LinkInv

(* The client writes something but a subscription, or nothing, and the     *)
(* session stays as it is, or the connection ends.                         *)
LEMMA ClientStep ==
    ASSUME LinkInv, MqTypeOK',
           \/ \E kind \in ToServer : kind # "subscribe" /\ Write(<<kind>>)
           \/ UNCHANGED <<up, written>>,
           \/ sessionOpened' = sessionOpened /\ (tcp' = tcp \/ tcp # "ended")
           \/ sessionOpened' = FALSE /\ tcp' = "ended",
           UNCHANGED <<down, serverVars, emitted, publications, splitUp, ragged>>
    PROVE  LinkInv'
<1>1. LinkTypeOK /\ FramesInOrder /\ CleanUnlessSplit /\ Subscribed /\ DeliveredGenuine
  BY DEF LinkInv
<1>2. UNCHANGED <<down, serverUp, buffer, packet, discards, owed, handled,
                  emitted, publications, splitUp, ragged>>
  BY DEF serverVars
<1>3. /\ up' \in Raw(ToServer) /\ written' \in Seq(ToServer)
      /\ written = handled \o Frames(buffer \o up)
            => written' = handled \o Frames(buffer \o up')
      /\ Tally("subscribe", written') = Tally("subscribe", written)
  <2>1. CASE UNCHANGED <<up, written>>
    BY <1>1, <2>1, LinkTypes
  <2>2. CASE \E kind \in ToServer : kind # "subscribe" /\ Write(<<kind>>)
    <3>1. PICK kind \in ToServer : kind # "subscribe" /\ Write(<<kind>>)
      BY <2>2
    <3>2. <<kind>> \in Seq(ToServer)
      BY <3>1
    <3>3. Tally("subscribe", <<kind>>) = 0
      BY <3>1, TallyOne
    <3>4. Tally("subscribe", written) \in Nat
      BY <1>1, LinkTypes
    <3>5. /\ up' \in Raw(ToServer) /\ written' \in Seq(ToServer)
          /\ written = handled \o Frames(buffer \o up)
                => written' = handled \o Frames(buffer \o up')
          /\ Tally("subscribe", written')
                = Tally("subscribe", written) + Tally("subscribe", <<kind>>)
      BY <1>1, <3>1, <3>2, WriteFact
    <3> QED
      BY <3>3, <3>4, <3>5
  <2> QED
    BY <2>1, <2>2
<1>4. LinkTypeOK'
  BY <1>1, <1>2, <1>3 DEF LinkTypeOK, Raw
<1>5. FramesInOrder' /\ CleanUnlessSplit'
  BY <1>1, <1>2, <1>3 DEF FramesInOrder, CleanUnlessSplit
<1>6. Subscribed'
  BY <1>1, <1>2, <1>3 DEF Subscribed
<1>7. DeliveredGenuine'
  <2>1. Len(emitted) \in Nat /\ publications \in Nat /\ Pending \in Nat
    BY <1>1, LinkTypes
  <2>2. Pending' = Pending
    BY <1>2 DEF Pending
  <2>3. sessionOpened' => sessionOpened
    OBVIOUS
  <2> QED
    BY <1>1, <1>2, <2>1, <2>2, <2>3 DEF DeliveredGenuine
<1> QED
  BY <1>4, <1>5, <1>6, <1>7 DEF LinkInv

(* The socket connects and CONNECT is written.                             *)
LEMMA ConnectsStep ==
    ASSUME LinkInv, Connects
    PROVE  LinkInv'
<1>1. MqTypeOK'
  BY DEF LinkInv, LinkTypeOK, MqTypeOK, Connects, SocketConnects
<1>2. sessionOpened' = sessionOpened /\ tcp # "ended"
  BY DEF Connects, SocketConnects
<1>3. "connect" \in ToServer /\ "connect" # "subscribe" /\ Write(<<"connect">>)
  BY DEF ToServer, Connects, OpenSession
<1>4. UNCHANGED <<down, serverVars, emitted, publications, splitUp, ragged>>
  BY DEF Connects
<1> QED
  BY <1>1, <1>2, <1>3, <1>4, ClientStep

(* The client's timer: a keep-alive, or the end of the process.            *)
LEMMA TimeUpStep ==
    ASSUME LinkInv, TimeUp
    PROVE  LinkInv'
<1>1. UNCHANGED <<down, serverVars, emitted, publications, splitUp, ragged>>
  BY DEF TimeUp
<1>2. CASE TimeUpPings /\ Live
  <2>1. MqTypeOK' /\ sessionOpened' = sessionOpened /\ tcp' = tcp
    BY <1>2 DEF LinkInv, LinkTypeOK, MqTypeOK, TimeUpPings
  <2>2. "pingreq" \in ToServer /\ "pingreq" # "subscribe" /\ Write(<<"pingreq">>)
    BY <1>2 DEF ToServer, Live
  <2> QED
    BY <1>1, <2>1, <2>2, ClientStep
<1>3. CASE (TimeUpExits \/ TimeUpUnknown) /\ UNCHANGED <<up, written>>
  <2>1. /\ MqTypeOK'
        /\ \/ sessionOpened' = sessionOpened /\ (tcp' = tcp \/ tcp # "ended")
           \/ sessionOpened' = FALSE /\ tcp' = "ended"
    BY <1>3 DEF LinkInv, LinkTypeOK, MqTypeOK, TimeUpExits, TimeUpUnknown, Exit
  <2> QED
    BY <1>1, <1>3, <2>1, ClientStep
<1> QED
  BY <1>2, <1>3 DEF TimeUp

(* What a chunk takes from the bytes that are under way to the client.  As *)
(* long as each was one packet, it is one packet.                          *)
LEMMA ChunkFact ==
    ASSUME LinkInv, NEW n \in 1..Len(down), Receives(n)
    PROVE  /\ down' \in Raw(ToClient) /\ Pending' \in Nat
           /\ ~ragged' => /\ ~ragged
                          /\ \E kind \in ToClient :
                                /\ Brings(n, kind) /\ n = Length(kind)
                                /\ down[1] = <<kind, 1>>
                                /\ Pending = (IF kind = "published" THEN 1 ELSE 0)
                                                + Pending'
<1> DEFINE chunk == SubSeq(down, 1, n)
<1>1. /\ down' = SubSeq(down, n + 1, Len(down))
      /\ ragged' = (ragged \/ \A kind \in ToClient : ~Brings(n, kind))
  BY DEF Receives
<1>2. down \in Raw(ToClient) /\ Frames(down) \in Seq(ToClient) /\ Pending \in Nat
  BY LinkTypes DEF LinkInv
<1>3. /\ chunk \in Raw(ToClient) /\ down' \in Raw(ToClient)
      /\ down = chunk \o down'
      /\ Len(chunk) = n /\ chunk[1] = down[1]
  BY <1>1, <1>2, TakeFact
<1> HIDE DEF chunk
<1>4. /\ Frames(down) = Frames(chunk) \o Frames(down')
      /\ Frames(chunk) \in Seq(ToClient) /\ Frames(down') \in Seq(ToClient)
  BY <1>3, FramesConcat, FramesType
<1>5. Tally("published", Frames(chunk) \o Frames(down'))
         = Tally("published", Frames(chunk)) + Tally("published", Frames(down'))
  BY <1>4, TallyConcat
<1>6. Pending = Tally("published", Frames(chunk)) + Pending'
  BY <1>4, <1>5 DEF Pending
<1>7. Pending' \in Nat
  BY <1>4, TallyType DEF Pending
<1>8. ASSUME ~ragged'
      PROVE  /\ ~ragged
             /\ \E kind \in ToClient :
                   /\ Brings(n, kind) /\ n = Length(kind)
                   /\ down[1] = <<kind, 1>>
                   /\ Pending = (IF kind = "published" THEN 1 ELSE 0) + Pending'
  <2>1. PICK kind \in ToClient : Brings(n, kind)
    BY <1>1, <1>8
  <2>2. chunk = Bytes(kind)
    BY <2>1 DEF Brings, chunk
  <2>3. ToClient \in SUBSET Kind
    BY DEF ToClient, Kind
  <2>4. /\ Len(chunk) = Length(kind) /\ Length(kind) \in 2..4
        /\ chunk[1] = <<kind, 1>>
        /\ Frames(chunk) = <<kind>>
    <3>1. /\ Len(Bytes(kind)) = Length(kind) /\ Length(kind) \in 2..4
          /\ \A i \in 1..Length(kind) : Bytes(kind)[i] = <<kind, i>>
          /\ Frames(Bytes(kind)) = <<kind>>
      BY <2>1, <2>3, BytesFact
    <3>2. 1 \in 1..Length(kind)
      BY <3>1
    <3> QED
      BY <2>2, <3>1, <3>2
  <2>5. Tally("published", Frames(chunk)) = IF kind = "published" THEN 1 ELSE 0
    BY <2>4, TallyOne
  <2>6. n = Length(kind) /\ down[1] = <<kind, 1>>
    BY <1>3, <2>4
  <2>7. Pending = (IF kind = "published" THEN 1 ELSE 0) + Pending'
    BY <1>6, <2>5
  <2> QED
    BY <1>1, <1>8, <2>1, <2>6, <2>7
<1> QED
  BY <1>3, <1>7, <1>8

(* The client gets a chunk.                                                *)
LEMMA ReceivesStep ==
    ASSUME LinkInv, NEW n \in 1..Len(down), Receives(n)
    PROVE  LinkInv'
<1>1. LinkTypeOK /\ FramesInOrder /\ CleanUnlessSplit /\ Subscribed /\ DeliveredGenuine
  BY DEF LinkInv
<1>2. /\ running /\ tcp = "open"
      /\ OpensSession(n) \/ OnData(n)
      /\ ragged' \in BOOLEAN
      /\ UNCHANGED <<serverUp, buffer, packet, discards, owed, handled,
                     publications, splitUp>>
  BY DEF Receives, serverVars
<1>3. /\ down' \in Raw(ToClient) /\ Pending' \in Nat
      /\ ~ragged' => /\ ~ragged
                     /\ \E kind \in ToClient :
                           /\ Brings(n, kind) /\ n = Length(kind)
                           /\ down[1] = <<kind, 1>>
                           /\ Pending = (IF kind = "published" THEN 1 ELSE 0)
                                           + Pending'
  BY ChunkFact
<1>4. /\ Len(emitted) \in Nat /\ publications \in Nat /\ Pending \in Nat
      /\ emitted \in Seq({"genuine", "garbled"})
  BY <1>1, LinkTypes DEF LinkTypeOK
<1>5. CleanUnlessSplit'
  BY <1>1, <1>2 DEF CleanUnlessSplit
<1>6. CASE OnData(n)
  <2>1. /\ UNCHANGED <<running, tcp, connected, sessionOpened, timer>>
        /\ UNCHANGED <<up, written>>
    BY <1>6 DEF OnData, mqVars
  <2>2. FramesInOrder' /\ Subscribed'
    BY <1>1, <1>2, <2>1 DEF FramesInOrder, Subscribed
  <2>3. emitted' \in Seq({"genuine", "garbled"})
    <3>1. \A e \in {"genuine", "garbled"} :
             Append(emitted, e) \in Seq({"genuine", "garbled"})
      BY <1>4
    <3>2. \/ emitted' = Append(emitted, "genuine")
          \/ emitted' = Append(emitted, "garbled")
          \/ emitted' = emitted
      BY <1>6 DEF OnData
    <3> QED
      BY <1>4, <3>1, <3>2
  <2>4. LinkTypeOK'
    BY <1>1, <1>2, <1>3, <2>1, <2>3 DEF LinkTypeOK, MqTypeOK, Raw
  <2>5. DeliveredGenuine'
    <3> SUFFICES ASSUME ~ragged'
                 PROVE  DeliveredGenuine'
      BY DEF DeliveredGenuine
    <3>1. PICK kind \in ToClient :
             /\ Brings(n, kind) /\ n = Length(kind)
             /\ down[1] = <<kind, 1>>
             /\ Pending = (IF kind = "published" THEN 1 ELSE 0) + Pending'
      BY <1>3
    <3>2. /\ "garbled" \notin Range(emitted)
          /\ Len(emitted) + Pending <= publications
          /\ serverUp /\ sessionOpened => Len(emitted) + Pending = publications
      BY <1>1, <1>3 DEF DeliveredGenuine
    <3>3. CASE kind = "published"
      <4>1. n = 4 /\ Length("published") = 4 /\ Brings(n, "published")
        BY <3>1, <3>3 DEF Length
      <4>2. emitted' = Append(emitted, "genuine")
        BY <1>6, <3>1, <3>3, <4>1 DEF OnData
      <4>3. /\ Len(emitted') = Len(emitted) + 1
            /\ \A i \in 1..Len(emitted) : emitted'[i] = emitted[i]
            /\ emitted'[Len(emitted) + 1] = "genuine"
        BY <1>4, <4>2
      <4>4. "garbled" \notin Range(emitted')
        <5>1. \A i \in DOMAIN emitted : emitted[i] # "garbled"
          BY <3>2 DEF Range
        <5>2. DOMAIN emitted = 1..Len(emitted) /\ DOMAIN emitted' = 1..Len(emitted')
          BY <1>4, <2>3
        <5>3. \A i \in 1..Len(emitted') : emitted'[i] # "garbled"
          <6> SUFFICES ASSUME NEW i \in 1..Len(emitted')
                       PROVE  emitted'[i] # "garbled"
            OBVIOUS
          <6>1. i \in 1..Len(emitted) \/ i = Len(emitted) + 1
            BY <1>4, <4>3
          <6> QED
            BY <4>3, <5>1, <5>2, <6>1
        <5> QED
          BY <5>2, <5>3 DEF Range
      <4>5. Len(emitted') + Pending' = Len(emitted) + Pending
        BY <1>3, <1>4, <3>1, <3>3, <4>3
      <4> QED
        BY <1>2, <2>1, <3>2, <4>4, <4>5 DEF DeliveredGenuine
    <3>4. CASE kind # "published"
      <4>1. down[1] # <<"published", 1>>
        BY <3>1, <3>4
      <4>2. emitted' = emitted
        BY <1>6, <4>1 DEF OnData
      <4>3. PICK later \in Nat : later = Pending'
        BY <1>3
      <4>4. Pending = 0 + later
        BY <3>1, <3>4, <4>3
      <4>5. 0 + later = later
        OBVIOUS
      <4>6. Pending' = Pending
        BY <4>3, <4>4, <4>5
      <4> QED
        BY <1>2, <2>1, <3>2, <4>2, <4>6 DEF DeliveredGenuine
    <3> QED
      BY <3>3, <3>4
  <2> QED
    BY <1>5, <2>2, <2>4, <2>5 DEF LinkInv
<1>7. CASE OpensSession(n)
  <2>1. ~sessionOpened /\ emitted' = emitted
    BY <1>7 DEF OpensSession
  <2>2. ASSUME ~ragged'
        PROVE  ~ragged /\ Pending' <= Pending
    <3>1. /\ ~ragged
          /\ \E d \in {0, 1} : Pending = d + Pending'
      BY <1>3, <2>2
    <3>2. PICK d \in {0, 1} : Pending = d + Pending'
      BY <3>1
    <3>3. PICK later \in Nat : later = Pending'
      BY <1>3
    <3>4. Pending = d + later
      BY <3>2, <3>3
    <3>5. later <= d + later
      OBVIOUS
    <3> QED
      BY <3>1, <3>3, <3>4, <3>5
  <2>3. CASE Brings(n, "connack") /\ SessionOpens /\ OnSessionOpened
    <3>1. /\ sessionOpened' = TRUE /\ tcp' = tcp /\ MqTypeOK'
          /\ Write(<<"subscribe", "publish">>)
      BY <1>1, <2>3 DEF SessionOpens, OnSessionOpened, LinkTypeOK, MqTypeOK
    <3>2. Tally("subscribe", <<"subscribe", "publish">>) = 1
      <4>1. /\ <<"subscribe">> \in Seq(ToServer) /\ <<"publish">> \in Seq(ToServer)
        BY DEF ToServer
      <4>2. Tally("subscribe", <<"subscribe">> \o <<"publish">>)
               = Tally("subscribe", <<"subscribe">>) + Tally("subscribe", <<"publish">>)
        BY <4>1, TallyConcat
      <4>3. /\ Tally("subscribe", <<"subscribe">>) = 1
            /\ Tally("subscribe", <<"publish">>) = 0
        BY TallyOne
      <4>4. Tally("subscribe", <<"subscribe">> \o <<"publish">>) = 1 + 0
        BY <4>2, <4>3, Zenon
      <4>5. 1 + 0 = 1
        OBVIOUS
      <4>6. Tally("subscribe", <<"subscribe">> \o <<"publish">>) = 1
        BY <4>4, <4>5
      <4>7. <<"subscribe", "publish">> = <<"subscribe">> \o <<"publish">>
        OBVIOUS
      <4> QED
        BY <4>6, <4>7, Zenon
    <3>3. Tally("subscribe", written) = 0
      BY <1>1, <1>2, <2>1 DEF Subscribed
    <3>4. /\ up' \in Raw(ToServer) /\ written' \in Seq(ToServer)
          /\ written = handled \o Frames(buffer \o up)
                => written' = handled \o Frames(buffer \o up')
          /\ Tally("subscribe", written') = Tally("subscribe", written)
                + Tally("subscribe", <<"subscribe", "publish">>)
      <4>1. <<"subscribe", "publish">> \in Seq(ToServer)
        BY DEF ToServer
      <4> QED
        BY <1>1, <3>1, <4>1, WriteFact
    <3>5. LinkTypeOK'
      BY <1>1, <1>2, <1>3, <2>1, <3>1, <3>4 DEF LinkTypeOK, Raw
    <3>6. FramesInOrder'
      BY <1>1, <1>2, <3>4 DEF FramesInOrder
    <3>7. Subscribed'
      BY <1>1, <1>2, <3>1, <3>2, <3>3, <3>4 DEF Subscribed
    <3>8. DeliveredGenuine'
      <4> SUFFICES ASSUME ~ragged'
                   PROVE  DeliveredGenuine'
        BY DEF DeliveredGenuine
      <4>1. /\ "garbled" \notin Range(emitted)
            /\ Len(emitted) + Pending <= publications
        BY <1>1, <2>2 DEF DeliveredGenuine
      <4>2. Len(emitted) + Pending' <= publications
        BY <1>3, <1>4, <2>2, <4>1
      <4>3. ASSUME serverUp
            PROVE  Len(emitted) + Pending' = publications
        <5>1. written = handled \o Frames(buffer \o up)
          BY <1>1, <4>3 DEF FramesInOrder
        <5>2. /\ Tally("subscribe", handled \o Frames(buffer \o up))
                    = Tally("subscribe", handled)
                         + Tally("subscribe", Frames(buffer \o up))
              /\ Tally("subscribe", Frames(buffer \o up)) \in Nat
              /\ Tally("subscribe", handled) \in Nat
          BY <1>1, LinkTypes, TallyConcat, TallyType
        <5>3. Tally("subscribe", handled) = 0
          BY <3>3, <5>1, <5>2
        <5>4. owed \in Nat /\ owed + publications = 0
          BY <1>1, <5>3 DEF Subscribed, LinkTypeOK
        <5> QED
          BY <1>3, <1>4, <4>2, <5>4
      <4> QED
        BY <1>2, <2>1, <4>1, <4>2, <4>3 DEF DeliveredGenuine
    <3> QED
      BY <1>5, <3>5, <3>6, <3>7, <3>8 DEF LinkInv
  <2>4. CASE ~Brings(n, "connack") /\ OnOpenSessionFailed /\ UNCHANGED <<up, written>>
    <3>1. sessionOpened' = FALSE /\ tcp' = "ended" /\ MqTypeOK'
      BY <1>1, <2>4 DEF OnOpenSessionFailed, SessionRefused, Exit, MqTypeOK
    <3>2. LinkTypeOK'
      BY <1>1, <1>2, <1>3, <2>1, <2>4, <3>1 DEF LinkTypeOK, Raw
    <3>3. FramesInOrder' /\ Subscribed'
      BY <1>1, <1>2, <2>4, <3>1 DEF FramesInOrder, Subscribed
    <3>4. DeliveredGenuine'
      <4> SUFFICES ASSUME ~ragged'
                   PROVE  DeliveredGenuine'
        BY DEF DeliveredGenuine
      <4>1. /\ "garbled" \notin Range(emitted)
            /\ Len(emitted) + Pending <= publications
        BY <1>1, <2>2 DEF DeliveredGenuine
      <4>2. Len(emitted) + Pending' <= publications
        BY <1>3, <1>4, <2>2, <4>1
      <4> QED
        BY <1>2, <2>1, <3>1, <4>1, <4>2 DEF DeliveredGenuine
    <3> QED
      BY <1>5, <3>2, <3>3, <3>4 DEF LinkInv
  <2> QED
    BY <1>7, <2>3, <2>4 DEF OpensSession
<1> QED
  BY <1>2, <1>6, <1>7

(* Every step of the link keeps the invariant.                             *)
LEMMA StepLinkInv ==
    LinkInv /\ [LinkNext]_linkVars => LinkInv'
<1> SUFFICES ASSUME LinkInv, [LinkNext]_linkVars
             PROVE  LinkInv'
  OBVIOUS
<1>1. CASE UNCHANGED linkVars
  <2>1. UNCHANGED <<running, tcp, connected, sessionOpened, timer, up, down,
                    serverUp, buffer, packet, discards, owed, handled, written,
                    emitted, publications, splitUp, ragged>>
    BY <1>1 DEF linkVars, mqVars, serverVars
  <2>2. /\ LinkTypeOK' <=> LinkTypeOK
        /\ FramesInOrder' <=> FramesInOrder
    BY <2>1 DEF LinkTypeOK, MqTypeOK, FramesInOrder
  <2>3. /\ CleanUnlessSplit' <=> CleanUnlessSplit
        /\ Subscribed' <=> Subscribed
        /\ DeliveredGenuine' <=> DeliveredGenuine
    BY <2>1 DEF CleanUnlessSplit, Subscribed, DeliveredGenuine, Pending
  <2> QED
    BY <2>2, <2>3 DEF LinkInv
<1>2. CASE \E n \in 1..Len(up) : Accumulate(n)
  BY <1>2, AccumulateStep
<1>3. CASE \E n \in 1..Len(down) : Receives(n)
  BY <1>3, ReceivesStep
<1>4. CASE Discard
  BY <1>4, DiscardStep
<1>5. CASE ServerPublishes
  BY <1>5, ServerPublishesStep
<1>6. CASE Connects
  BY <1>6, ConnectsStep
<1>7. CASE TimeUp
  BY <1>7, TimeUpStep
<1>8. CASE ConnectionGoes
  BY <1>8, ConnectionGoesStep
<1> QED
  BY <1>1, <1>2, <1>3, <1>4, <1>5, <1>6, <1>7, <1>8 DEF LinkNext

-----------------------------------------------------------------------------
(* Both streams.                                                           *)
StreamsInv == LinkInv /\ FeedbackInv

LEMMA InitStreamsInv == Init => StreamsInv
<1>1. Init => LinkInit /\ FeedbackInit
  BY DEF Init
<1> QED
  BY <1>1, InitLinkInv, InitFeedbackInv DEF StreamsInv

(* A step belongs to one of the streams and leaves the other one alone.    *)
LEMMA StepStreamsInv ==
    StreamsInv /\ [Next]_<<stream, linkVars, fbVars>> => StreamsInv'
<1>1. [Next]_<<stream, linkVars, fbVars>> => [LinkNext]_linkVars /\ [FeedbackNext]_fbVars
  BY DEF Next
<1> QED
  BY <1>1, StepLinkInv, StepFeedbackInv DEF StreamsInv

(* The inductive invariant holds of every behaviour.                       *)
THEOREM StreamsInvariance == Spec => []StreamsInv
<1> QED
  BY InitStreamsInv, StepStreamsInv, PTL DEF Spec

(* All variables of the two streams keep their types.                      *)
THEOREM StreamsTypeCorrect == Spec => []StreamsTypeOK
<1>1. StreamsInv => StreamsTypeOK
  BY DEF StreamsInv, LinkInv, FeedbackInv, StreamsTypeOK
<1> QED
  BY <1>1, StreamsInvariance, PTL

(* accumulate and the timers of the server lose, repeat and reorder no     *)
(* packet as long as the server runs, however the bytes are cut.           *)
THEOREM PacketsInOrder == Spec => []FramesInOrder
<1>1. StreamsInv => FramesInOrder
  BY DEF StreamsInv, LinkInv
<1> QED
  BY <1>1, StreamsInvariance, PTL

(* The server of the link runs and holds nothing back until a chunk ends   *)
(* inside a packet, whatever the number of packets in the chunks before.   *)
THEOREM ServerCleanUnlessSplit == Spec => []CleanUnlessSplit
<1>1. StreamsInv => CleanUnlessSplit
  BY DEF StreamsInv, LinkInv
<1> QED
  BY <1>1, StreamsInvariance, PTL

(* onData of the client reports the server's publications, whole and once, *)
(* while each chunk is one packet.                                         *)
THEOREM PublicationsGenuine == Spec => []DeliveredGenuine
<1>1. StreamsInv => DeliveredGenuine
  BY DEF StreamsInv, LinkInv
<1> QED
  BY <1>1, StreamsInvariance, PTL

(* processData decodes the tuples of every connection whole and in order,  *)
(* until it has dropped a byte or a connection began behind a part of one. *)
THEOREM TuplesStayInOrder == Spec => []TuplesInOrder
<1>1. StreamsInv => TuplesInOrder
  BY FeedbackInvTuples DEF StreamsInv
<1> QED
  BY <1>1, StreamsInvariance, PTL
===============================================================================

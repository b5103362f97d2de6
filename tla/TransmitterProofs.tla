-------------------------- MODULE TransmitterProofs --------------------------
(***************************************************************************)
(* Proofs about Transmitter, for every set of notifications, users and     *)
(* devices, every limit of a poll and every number of faults.  IInv is     *)
(* inductive: BatchInv keeps what a poll took apart from what is marked,   *)
(* EntitledInv carries the roster read over to the read of the clients.    *)
(***************************************************************************)
EXTENDS Transmitter, TLAPS

USE TransmitterAssumption

(* A poll takes only notifications that it found.                          *)
LEMMA FirstIsSubset == \A n, S : First(n, S) \subseteq S
  BY DEF First

(* The end of the process leaves the client fields typed.                  *)
LEMMA ExitKeepsTypes == Exit => MqTypeOK'
  BY DEF Exit, MqTypeOK

(* The initial states satisfy the inductive invariant.                     *)
LEMMA InitIInv == Init => IInv
<1> SUFFICES ASSUME Init PROVE IInv
  OBVIOUS
<1> USE DEF Init
<1>1. TypeOK
  BY DEF TypeOK, MqInit, MqTypeOK
<1>2. BatchInv /\ EntitledInv
  BY DEF BatchInv, EntitledInv
<1>3. OfferedIsMarked /\ SentToAll
  BY DEF OfferedIsMarked, SentToAll
<1> QED BY <1>1, <1>2, <1>3 DEF IInv

(* Every step preserves it, conjunct by conjunct.                          *)
LEMMA NextIInv == IInv /\ [Next]_vars => IInv'
<1> SUFFICES ASSUME IInv, [Next]_vars PROVE IInv'
  OBVIOUS
<1> USE DEF vars, mqVars, dbVars, loopVars, history
<1>1. ASSUME NEW m \in Msg, CreateMessage(m) PROVE IInv'
  <2> USE <1>1 DEF CreateMessage, Entitled
  <2>1. TypeOK'
    BY FirstIsSubset DEF IInv, TypeOK, MqTypeOK
  <2>2. BatchInv'
    BY FirstIsSubset DEF IInv, TypeOK, BatchInv
  <2>3. EntitledInv'
    BY FirstIsSubset DEF IInv, TypeOK, BatchInv, EntitledInv
  <2>4. OfferedIsMarked'
    BY DEF IInv, TypeOK, BatchInv, OfferedIsMarked
  <2>5. SentToAll'
    BY DEF IInv, TypeOK, BatchInv, EntitledInv, SentToAll
  <2> QED BY <2>1, <2>2, <2>3, <2>4, <2>5 DEF IInv
<1>2. ASSUME NEW m \in Msg, Expire(m) PROVE IInv'
  <2> USE <1>2 DEF Expire
  <2>1. TypeOK'
    BY FirstIsSubset DEF IInv, TypeOK, MqTypeOK
  <2>2. BatchInv'
    BY FirstIsSubset DEF IInv, TypeOK, BatchInv
  <2>3. EntitledInv'
    BY FirstIsSubset DEF IInv, TypeOK, BatchInv, EntitledInv
  <2>4. OfferedIsMarked'
    BY DEF IInv, TypeOK, BatchInv, OfferedIsMarked
  <2>5. SentToAll'
    BY DEF IInv, TypeOK, BatchInv, EntitledInv, SentToAll
  <2> QED BY <2>1, <2>2, <2>3, <2>4, <2>5 DEF IInv
<1>3. ASSUME NEW u \in User, Follow(u) PROVE IInv'
  <2> USE <1>3 DEF Follow, Churn
  <2>1. TypeOK'
    BY FirstIsSubset DEF IInv, TypeOK, MqTypeOK
  <2>2. BatchInv'
    BY FirstIsSubset DEF IInv, TypeOK, BatchInv
  <2>3. EntitledInv'
    BY FirstIsSubset DEF IInv, TypeOK, BatchInv, EntitledInv
  <2>4. OfferedIsMarked'
    BY DEF IInv, TypeOK, BatchInv, OfferedIsMarked
  <2>5. SentToAll'
    BY DEF IInv, TypeOK, BatchInv, EntitledInv, SentToAll
  <2> QED BY <2>1, <2>2, <2>3, <2>4, <2>5 DEF IInv
<1>4. ASSUME NEW u \in User, Unfollow(u) PROVE IInv'
  <2> USE <1>4 DEF Unfollow, Churn
  <2>1. TypeOK'
    BY FirstIsSubset DEF IInv, TypeOK, MqTypeOK
  <2>2. BatchInv'
    BY FirstIsSubset DEF IInv, TypeOK, BatchInv
  <2>3. EntitledInv'
    BY FirstIsSubset DEF IInv, TypeOK, BatchInv, EntitledInv
  <2>4. OfferedIsMarked'
    BY DEF IInv, TypeOK, BatchInv, OfferedIsMarked
  <2>5. SentToAll'
    BY DEF IInv, TypeOK, BatchInv, EntitledInv, SentToAll
  <2> QED BY <2>1, <2>2, <2>3, <2>4, <2>5 DEF IInv
<1>5. ASSUME NEW c \in Client, NEW u \in User, RegisterClient(c, u) PROVE IInv'
  <2> USE <1>5 DEF RegisterClient, Churn
  <2>1. TypeOK'
    BY FirstIsSubset DEF IInv, TypeOK, MqTypeOK
  <2>2. BatchInv'
    BY FirstIsSubset DEF IInv, TypeOK, BatchInv
  <2>3. EntitledInv'
    BY FirstIsSubset DEF IInv, TypeOK, BatchInv, EntitledInv
  <2>4. OfferedIsMarked'
    BY DEF IInv, TypeOK, BatchInv, OfferedIsMarked
  <2>5. SentToAll'
    BY DEF IInv, TypeOK, BatchInv, EntitledInv, SentToAll
  <2> QED BY <2>1, <2>2, <2>3, <2>4, <2>5 DEF IInv
<1>6. ASSUME NEW c \in Client, DelClient(c) PROVE IInv'
  <2> USE <1>6 DEF DelClient, Churn
  <2>1. TypeOK'
    BY FirstIsSubset DEF IInv, TypeOK, MqTypeOK
  <2>2. BatchInv'
    BY FirstIsSubset DEF IInv, TypeOK, BatchInv
  <2>3. EntitledInv'
    BY FirstIsSubset DEF IInv, TypeOK, BatchInv, EntitledInv
  <2>4. OfferedIsMarked'
    BY DEF IInv, TypeOK, BatchInv, OfferedIsMarked
  <2>5. SentToAll'
    BY DEF IInv, TypeOK, BatchInv, EntitledInv, SentToAll
  <2> QED BY <2>1, <2>2, <2>3, <2>4, <2>5 DEF IInv
<1>7. ASSUME Opens PROVE IInv'
  <2> USE <1>7 DEF Opens, SessionOpens
  <2>1. TypeOK'
    BY FirstIsSubset DEF IInv, TypeOK, MqTypeOK
  <2>2. BatchInv'
    BY FirstIsSubset DEF IInv, TypeOK, BatchInv
  <2>3. EntitledInv'
    BY FirstIsSubset DEF IInv, TypeOK, BatchInv, EntitledInv
  <2>4. OfferedIsMarked'
    BY DEF IInv, TypeOK, BatchInv, OfferedIsMarked
  <2>5. SentToAll'
    BY DEF IInv, TypeOK, BatchInv, EntitledInv, SentToAll
  <2> QED BY <2>1, <2>2, <2>3, <2>4, <2>5 DEF IInv
<1>8. ASSUME MqEvent PROVE IInv'
  <2> USE <1>8 DEF MqEvent, SocketConnects, BrokerEnds, TimeUpPings,
                   TimeUpUnknown
  <2>1. TypeOK'
    BY FirstIsSubset DEF IInv, TypeOK, MqTypeOK
  <2>2. BatchInv'
    BY FirstIsSubset DEF IInv, TypeOK, BatchInv
  <2>3. EntitledInv'
    BY FirstIsSubset DEF IInv, TypeOK, BatchInv, EntitledInv
  <2>4. OfferedIsMarked'
    BY DEF IInv, TypeOK, BatchInv, OfferedIsMarked
  <2>5. SentToAll'
    BY DEF IInv, TypeOK, BatchInv, EntitledInv, SentToAll
  <2> QED BY <2>1, <2>2, <2>3, <2>4, <2>5 DEF IInv
<1>9. ASSUME MqExits PROVE IInv'
  <2> USE <1>9 DEF MqExits, TimeUpExits, Exit, ProcessEnds
  <2>1. TypeOK'
    BY FirstIsSubset DEF IInv, TypeOK, MqTypeOK
  <2>2. BatchInv'
    BY FirstIsSubset DEF IInv, TypeOK, BatchInv
  <2>3. EntitledInv'
    BY FirstIsSubset DEF IInv, TypeOK, BatchInv, EntitledInv
  <2>4. OfferedIsMarked'
    BY DEF IInv, TypeOK, BatchInv, OfferedIsMarked
  <2>5. SentToAll'
    BY DEF IInv, TypeOK, BatchInv, EntitledInv, SentToAll
  <2> QED BY <2>1, <2>2, <2>3, <2>4, <2>5 DEF IInv
<1>10. ASSUME MqFails PROVE IInv'
  <2> USE <1>10 DEF MqFails, Fault, SocketFails, SessionRefused, Exit,
                    ProcessEnds
  <2>1. TypeOK'
    <3>1. MqTypeOK'
      BY ExitKeepsTypes
    <3>2. /\ faults' \in Nat /\ churn' \in Nat
          /\ created' \subseteq Msg /\ sent' \subseteq Msg
          /\ expired' \subseteq Msg /\ marks' \subseteq Msg
      BY DEF IInv, TypeOK
    <3>3. /\ roster' \subseteq User
          /\ owner' \in [Client -> User \cup {None}]
          /\ entitled' \in [Msg -> SUBSET Client]
      BY DEF IInv, TypeOK
    <3>4. /\ offered' \subseteq Msg \X Client
          /\ dropped' \subseteq Msg \X Client
          /\ excused' \subseteq Msg
      BY DEF IInv, TypeOK
    <3>5. phase' = "start" /\ batch' = {} /\ logins' = {}
      OBVIOUS
    <3> QED BY ONLY <3>1, <3>2, <3>3, <3>4, <3>5 DEF TypeOK
  <2>2. BatchInv'
    BY FirstIsSubset DEF IInv, TypeOK, BatchInv
  <2>3. EntitledInv'
    BY FirstIsSubset DEF IInv, TypeOK, BatchInv, EntitledInv
  <2>4. OfferedIsMarked'
    BY DEF IInv, TypeOK, BatchInv, OfferedIsMarked
  <2>5. SentToAll'
    BY DEF IInv, TypeOK, BatchInv, EntitledInv, SentToAll
  <2> QED BY <2>1, <2>2, <2>3, <2>4, <2>5 DEF IInv
<1>11. ASSUME Restart PROVE IInv'
  <2> USE <1>11 DEF Restart, StartProcess
  <2>1. TypeOK'
    BY FirstIsSubset DEF IInv, TypeOK, MqTypeOK
  <2>2. BatchInv'
    BY FirstIsSubset DEF IInv, TypeOK, BatchInv
  <2>3. EntitledInv'
    BY FirstIsSubset DEF IInv, TypeOK, BatchInv, EntitledInv
  <2>4. OfferedIsMarked'
    BY DEF IInv, TypeOK, BatchInv, OfferedIsMarked
  <2>5. SentToAll'
    BY DEF IInv, TypeOK, BatchInv, EntitledInv, SentToAll
  <2> QED BY <2>1, <2>2, <2>3, <2>4, <2>5 DEF IInv
<1>12. ASSUME FindReturns PROVE IInv'
  <2> USE <1>12 DEF FindReturns, Unsent
  <2>1. TypeOK'
    BY FirstIsSubset DEF IInv, TypeOK, MqTypeOK
  <2>2. BatchInv'
    BY FirstIsSubset DEF IInv, TypeOK, BatchInv
  <2>3. EntitledInv'
    BY FirstIsSubset DEF IInv, TypeOK, BatchInv, EntitledInv
  <2>4. OfferedIsMarked'
    BY DEF IInv, TypeOK, BatchInv, OfferedIsMarked
  <2>5. SentToAll'
    BY DEF IInv, TypeOK, BatchInv, EntitledInv, SentToAll
  <2> QED BY <2>1, <2>2, <2>3, <2>4, <2>5 DEF IInv
<1>13. ASSUME FindFails PROVE IInv'
  <2> USE <1>13 DEF FindFails, Fault
  <2>1. TypeOK'
    BY FirstIsSubset DEF IInv, TypeOK, MqTypeOK
  <2>2. BatchInv'
    BY FirstIsSubset DEF IInv, TypeOK, BatchInv
  <2>3. EntitledInv'
    BY FirstIsSubset DEF IInv, TypeOK, BatchInv, EntitledInv
  <2>4. OfferedIsMarked'
    BY DEF IInv, TypeOK, BatchInv, OfferedIsMarked
  <2>5. SentToAll'
    BY DEF IInv, TypeOK, BatchInv, EntitledInv, SentToAll
  <2> QED BY <2>1, <2>2, <2>3, <2>4, <2>5 DEF IInv
<1>14. ASSUME TimerFires PROVE IInv'
  <2> USE <1>14 DEF TimerFires
  <2>1. TypeOK'
    BY FirstIsSubset DEF IInv, TypeOK, MqTypeOK
  <2>2. BatchInv'
    BY FirstIsSubset DEF IInv, TypeOK, BatchInv
  <2>3. EntitledInv'
    BY FirstIsSubset DEF IInv, TypeOK, BatchInv, EntitledInv
  <2>4. OfferedIsMarked'
    BY DEF IInv, TypeOK, BatchInv, OfferedIsMarked
  <2>5. SentToAll'
    BY DEF IInv, TypeOK, BatchInv, EntitledInv, SentToAll
  <2> QED BY <2>1, <2>2, <2>3, <2>4, <2>5 DEF IInv
<1>15. ASSUME UsersReturns PROVE IInv'
  <2> USE <1>15 DEF UsersReturns
  <2>1. TypeOK'
    BY FirstIsSubset DEF IInv, TypeOK, MqTypeOK
  <2>2. BatchInv'
    BY FirstIsSubset DEF IInv, TypeOK, BatchInv
  <2>3. EntitledInv'
    BY FirstIsSubset DEF IInv, TypeOK, BatchInv, EntitledInv
  <2>4. OfferedIsMarked'
    BY DEF IInv, TypeOK, BatchInv, OfferedIsMarked
  <2>5. SentToAll'
    BY DEF IInv, TypeOK, BatchInv, EntitledInv, SentToAll
  <2> QED BY <2>1, <2>2, <2>3, <2>4, <2>5 DEF IInv
<1>16. ASSUME UsersFails PROVE IInv'
  <2> USE <1>16 DEF UsersFails, Fault, Exit, ProcessEnds
  <2>1. TypeOK'
    <3>1. MqTypeOK'
      BY ExitKeepsTypes
    <3>2. /\ faults' \in Nat /\ churn' \in Nat
          /\ created' \subseteq Msg /\ sent' \subseteq Msg
          /\ expired' \subseteq Msg /\ marks' \subseteq Msg
      BY DEF IInv, TypeOK
    <3>3. /\ roster' \subseteq User
          /\ owner' \in [Client -> User \cup {None}]
          /\ entitled' \in [Msg -> SUBSET Client]
      BY DEF IInv, TypeOK
    <3>4. /\ offered' \subseteq Msg \X Client
          /\ dropped' \subseteq Msg \X Client
          /\ excused' \subseteq Msg
      BY DEF IInv, TypeOK
    <3>5. phase' = "start" /\ batch' = {} /\ logins' = {}
      OBVIOUS
    <3> QED BY ONLY <3>1, <3>2, <3>3, <3>4, <3>5 DEF TypeOK
  <2>2. BatchInv'
    BY FirstIsSubset DEF IInv, TypeOK, BatchInv
  <2>3. EntitledInv'
    BY FirstIsSubset DEF IInv, TypeOK, BatchInv, EntitledInv
  <2>4. OfferedIsMarked'
    BY DEF IInv, TypeOK, BatchInv, OfferedIsMarked
  <2>5. SentToAll'
    BY DEF IInv, TypeOK, BatchInv, EntitledInv, SentToAll
  <2> QED BY <2>1, <2>2, <2>3, <2>4, <2>5 DEF IInv
<1>17. ASSUME NEW m \in Msg, ClientsReturns(m) PROVE IInv'
  <2> USE <1>17 DEF ClientsReturns, Current, Push, Docs, Publish, Done
  <2>1. TypeOK'
    BY FirstIsSubset DEF IInv, TypeOK, MqTypeOK
  <2>2. BatchInv'
    BY FirstIsSubset DEF IInv, TypeOK, BatchInv
  <2>3. EntitledInv'
    BY FirstIsSubset DEF IInv, TypeOK, BatchInv, EntitledInv
  <2>4. OfferedIsMarked'
    BY DEF IInv, TypeOK, BatchInv, OfferedIsMarked
  <2>5. SentToAll'
    BY DEF IInv, TypeOK, BatchInv, EntitledInv, SentToAll
  <2> QED BY <2>1, <2>2, <2>3, <2>4, <2>5 DEF IInv
<1>18. ASSUME NEW m \in Msg, ClientsFails(m) PROVE IInv'
  <2> USE <1>18 DEF ClientsFails, Fault, Current, Done
  <2>1. TypeOK'
    BY FirstIsSubset DEF IInv, TypeOK, MqTypeOK
  <2>2. BatchInv'
    BY FirstIsSubset DEF IInv, TypeOK, BatchInv
  <2>3. EntitledInv'
    BY FirstIsSubset DEF IInv, TypeOK, BatchInv, EntitledInv
  <2>4. OfferedIsMarked'
    BY DEF IInv, TypeOK, BatchInv, OfferedIsMarked
  <2>5. SentToAll'
    BY DEF IInv, TypeOK, BatchInv, EntitledInv, SentToAll
  <2> QED BY <2>1, <2>2, <2>3, <2>4, <2>5 DEF IInv
<1>19. ASSUME NEW m \in Msg, DiesPushing(m) PROVE IInv'
  <2> USE <1>19 DEF DiesPushing, Fault, Current, Push, Docs, Exit
  <2>1. TypeOK'
    <3>1. MqTypeOK'
      BY ExitKeepsTypes
    <3>2. /\ faults' \in Nat /\ churn' \in Nat
          /\ created' \subseteq Msg /\ sent' \subseteq Msg
          /\ expired' \subseteq Msg /\ marks' \subseteq Msg
      BY DEF IInv, TypeOK
    <3>3. /\ roster' \subseteq User
          /\ owner' \in [Client -> User \cup {None}]
          /\ entitled' \in [Msg -> SUBSET Client]
      BY DEF IInv, TypeOK
    <3>4. /\ offered' \subseteq Msg \X Client
          /\ dropped' \subseteq Msg \X Client
          /\ excused' \subseteq Msg
      BY DEF IInv, TypeOK
    <3>5. phase' = "start" /\ batch' = {} /\ logins' = {}
      OBVIOUS
    <3> QED BY ONLY <3>1, <3>2, <3>3, <3>4, <3>5 DEF TypeOK
  <2>2. BatchInv'
    BY FirstIsSubset DEF IInv, TypeOK, BatchInv
  <2>3. EntitledInv'
    BY FirstIsSubset DEF IInv, TypeOK, BatchInv, EntitledInv
  <2>4. OfferedIsMarked'
    BY DEF IInv, TypeOK, BatchInv, OfferedIsMarked
  <2>5. SentToAll'
    BY DEF IInv, TypeOK, BatchInv, EntitledInv, SentToAll
  <2> QED BY <2>1, <2>2, <2>3, <2>4, <2>5 DEF IInv
<1>20. ASSUME NEW m \in Msg, MarkApplied(m) PROVE IInv'
  <2> USE <1>20 DEF MarkApplied
  <2>1. TypeOK'
    BY FirstIsSubset DEF IInv, TypeOK, MqTypeOK
  <2>2. BatchInv'
    BY FirstIsSubset DEF IInv, TypeOK, BatchInv
  <2>3. EntitledInv'
    BY FirstIsSubset DEF IInv, TypeOK, BatchInv, EntitledInv
  <2>4. OfferedIsMarked'
    BY DEF IInv, TypeOK, BatchInv, OfferedIsMarked
  <2>5. SentToAll'
    BY DEF IInv, TypeOK, BatchInv, EntitledInv, SentToAll
  <2> QED BY <2>1, <2>2, <2>3, <2>4, <2>5 DEF IInv
<1>21. ASSUME NEW m \in Msg, MarkLost(m) PROVE IInv'
  <2> USE <1>21 DEF MarkLost, Fault
  <2>1. TypeOK'
    BY FirstIsSubset DEF IInv, TypeOK, MqTypeOK
  <2>2. BatchInv'
    BY FirstIsSubset DEF IInv, TypeOK, BatchInv
  <2>3. EntitledInv'
    BY FirstIsSubset DEF IInv, TypeOK, BatchInv, EntitledInv
  <2>4. OfferedIsMarked'
    BY DEF IInv, TypeOK, BatchInv, OfferedIsMarked
  <2>5. SentToAll'
    BY DEF IInv, TypeOK, BatchInv, EntitledInv, SentToAll
  <2> QED BY <2>1, <2>2, <2>3, <2>4, <2>5 DEF IInv
<1>22. CASE UNCHANGED vars
  BY <1>22 DEF IInv, TypeOK, MqTypeOK, BatchInv, EntitledInv,
               OfferedIsMarked, SentToAll
<1> QED
  BY <1>1, <1>2, <1>3, <1>4, <1>5, <1>6, <1>7, <1>8, <1>9, <1>10, <1>11,
     <1>12, <1>13, <1>14, <1>15, <1>16, <1>17, <1>18, <1>19, <1>20, <1>21,
     <1>22
     DEF Next, Others, Process, Send

(* The inductive invariant holds in every reachable state.                 *)
THEOREM Safety == Spec => []IInv
  BY InitIInv, NextIInv, PTL DEF Spec

(* Type correctness.                                                       *)
THEOREM TypeCorrect == Spec => []TypeOK
<1>1. IInv => TypeOK
  BY DEF IInv
<1> QED BY <1>1, Safety, PTL

(* What was offered to a device is marked, or a fault hit it.              *)
THEOREM OfferedMarked == Spec => []OfferedIsMarked
<1>1. IInv => OfferedIsMarked
  BY DEF IInv
<1> QED BY <1>1, Safety, PTL

(* What is marked sent went to every device entitled to it all the time.   *)
THEOREM NobodyLeftOut == Spec => []SentToAll
<1>1. IInv => SentToAll
  BY DEF IInv
<1> QED BY <1>1, Safety, PTL

(* No device is offered a notification twice, unless a fault hit it: what  *)
(* the poll still has to do is not marked, and what was offered is.        *)
THEOREM OfferedAtMostOnce == Spec => OfferedOnce
<1> DEFINE Once == \A m \in Msg : \A c \in Client :
                      ClientsReturns(m) /\ c \in Docs /\ m \notin excused
                         => <<m, c>> \notin offered \cup dropped
<1>1. IInv => Once
  <2> SUFFICES ASSUME IInv, NEW m \in Msg, NEW c \in Client,
                      ClientsReturns(m), m \notin excused
               PROVE  <<m, c>> \notin offered \cup dropped
    OBVIOUS
  <2>1. m \notin sent \cup marks
    BY DEF ClientsReturns, Current, IInv, BatchInv
  <2> QED BY <2>1 DEF IInv, OfferedIsMarked
<1>2. IInv /\ [Next]_vars => [Once]_vars
  BY <1>1
<1> QED
  BY <1>2, Safety, PTL DEF Spec, OfferedOnce

-----------------------------------------------------------------------------
(* The timer.                                                              *)

(* Once the client waits for no connection and no CONNACK, send() runs;    *)
(* until then the timer may be off.                                        *)
TimerInv ==
    /\ TimerIsSet
    /\ tcp = "connecting" => phase = "start"
    /\ connected /\ ~sessionOpened => phase = "start"
    /\ tcp # "open" => ~connected
    /\ ~running => phase = "start" /\ tcp = "ended"

(* Only timeUp without a session leaves the timer off, and then send() was *)
(* never called.                                                           *)
LEMMA NextTimerInv == IInv /\ TimerInv /\ [Next]_vars => TimerInv'
<1> SUFFICES ASSUME IInv, TimerInv, [Next]_vars PROVE TimerInv'
  OBVIOUS
<1> USE DEF TimerInv, TimerIsSet
<1>1. CASE Others
  BY <1>1 DEF Others, CreateMessage, Expire, Follow, Unfollow, RegisterClient,
              DelClient, Churn, mqVars, loopVars
<1>2. CASE Process
  <2>1. CASE Opens
    BY <1>2, <2>1 DEF Opens, SessionOpens
  <2>2. CASE MqEvent
    BY <1>2, <2>2 DEF MqEvent, SocketConnects, BrokerEnds, TimeUpPings,
                      TimeUpUnknown, loopVars
  <2>3. CASE MqExits \/ MqFails
    BY <1>2, <2>3 DEF MqExits, MqFails, TimeUpExits, SocketFails,
                      SessionRefused, Exit, ProcessEnds
  <2>4. CASE Restart
    BY <1>2, <2>4 DEF Restart, StartProcess, loopVars, IInv, TypeOK
  <2> QED BY <1>2, <2>1, <2>2, <2>3, <2>4 DEF Process
<1>3. CASE Send
  <2>1. CASE FindReturns \/ FindFails \/ TimerFires \/ UsersReturns
    BY <2>1 DEF FindReturns, FindFails, TimerFires, UsersReturns, mqVars
  <2>2. CASE UsersFails
    BY <2>2 DEF UsersFails, Exit, ProcessEnds
  <2>3. ASSUME NEW m \in Msg, ClientsReturns(m) PROVE TimerInv'
    BY <2>3 DEF ClientsReturns, Done, Publish, mqVars
  <2>4. ASSUME NEW m \in Msg, ClientsFails(m) PROVE TimerInv'
    BY <2>4 DEF ClientsFails, Done, mqVars
  <2>5. ASSUME NEW m \in Msg, DiesPushing(m) PROVE TimerInv'
    BY <2>5 DEF DiesPushing, Exit
  <2>6. ASSUME NEW m \in Msg, MarkApplied(m) \/ MarkLost(m) PROVE TimerInv'
    BY <2>6 DEF MarkApplied, MarkLost, mqVars, loopVars
  <2> QED BY <1>3, <2>1, <2>2, <2>3, <2>4, <2>5, <2>6 DEF Send
<1>4. CASE UNCHANGED vars
  BY <1>4 DEF vars, mqVars, loopVars
<1> QED BY <1>1, <1>2, <1>3, <1>4 DEF Next

(* Once its session was open, the client always has its timer set.         *)
THEOREM TimerStaysSet == Spec => []TimerIsSet
<1>1. Init => TimerInv
  BY DEF Init, MqInit, TimerInv, TimerIsSet
<1>2. TimerInv => TimerIsSet
  BY DEF TimerInv
<1> QED BY <1>1, <1>2, NextTimerInv, Safety, PTL DEF Spec

-----------------------------------------------------------------------------
(* The refinement.                                                         *)

(* The initial states of the loop are initial states of the promise.       *)
LEMMA InitRefines == Init => Promise!Init
  BY DEF Init, Promise!Init

(* Every step of the loop delivers a notification, is a fault of one, is a *)
(* change of what devices are entitled to, or does not show.               *)
LEMMA NextRefines ==
    IInv /\ [Next]_vars => [Promise!Next]_Promise!deliveryVars
<1> SUFFICES ASSUME IInv, [Next]_vars
             PROVE  Promise!Next \/ UNCHANGED Promise!deliveryVars
  OBVIOUS
<1> USE DEF Promise!deliveryVars, dbVars, history
<1>1. ASSUME NEW m \in Msg, CreateMessage(m) PROVE Promise!Next
  <2>1. Entitled(roster, owner) \in SUBSET Client
    BY DEF Entitled
  <2>2. Promise!Create(m)
    BY <1>1, <2>1 DEF CreateMessage, Promise!Create
  <2> QED BY <2>2 DEF Promise!Next
<1>2. ASSUME NEW m \in Msg, Expire(m) \/ MarkApplied(m)
      PROVE  UNCHANGED Promise!deliveryVars
  BY <1>2 DEF Expire, MarkApplied
<1>3. ASSUME NEW r, NEW o, Churn(r, o) PROVE Promise!Next
  <2>1. Promise!Loses
    BY <1>3 DEF Churn, Promise!Loses, IInv, TypeOK
  <2> QED BY <2>1 DEF Promise!Next
<1>4. CASE Others
  BY <1>1, <1>2, <1>3, <1>4
     DEF Others, Follow, Unfollow, RegisterClient, DelClient
<1>5. CASE Process
  <2>1. CASE MqFails
    BY <2>1 DEF MqFails, ProcessEnds
  <2>2. CASE Opens \/ MqEvent \/ MqExits \/ Restart
    BY <2>2 DEF Opens, MqEvent, MqExits, Restart, ProcessEnds
  <2> QED BY <1>5, <2>1, <2>2 DEF Process
<1>6. ASSUME NEW m \in Msg, ClientsReturns(m) PROVE Promise!Next
  <2>1. m \in created \ (sent \cup marks)
    BY <1>6 DEF ClientsReturns, Current, IInv, BatchInv
  <2>2. entitled[m] \subseteq Docs
    BY <1>6, <2>1 DEF ClientsReturns, Current, Docs, IInv, EntitledInv, TypeOK
  <2>3. m \notin excused => \A c \in Docs : <<m, c>> \notin offered \cup dropped
    BY <2>1 DEF IInv, OfferedIsMarked, Docs
  <2>4. (offered \cup dropped)' = offered \cup dropped \cup ({m} \X Docs)
    BY <1>6 DEF ClientsReturns, Push
  <2>5. (sent \cup marks)' = (sent \cup marks) \cup {m}
    BY <1>6 DEF ClientsReturns, Done
  <2>6. UNCHANGED <<created, excused, entitled>>
    BY <1>6 DEF ClientsReturns, Done
  <2>7. Docs \in SUBSET Client
    BY DEF Docs
  <2>8. Promise!Deliver(m)
    BY <2>1, <2>2, <2>3, <2>4, <2>5, <2>6, <2>7 DEF Promise!Deliver
  <2> QED BY <2>8 DEF Promise!Next
<1>7. ASSUME NEW m \in Msg, ClientsFails(m) \/ MarkLost(m) PROVE Promise!Next
  <2>1. m \in created
    BY <1>7 DEF ClientsFails, MarkLost, Current, IInv, BatchInv
  <2>2. (offered \cup dropped)' = offered \cup dropped \cup ({m} \X {})
    BY <1>7 DEF ClientsFails, MarkLost
  <2>3. (sent \cup marks)' \in {sent \cup marks, (sent \cup marks) \cup {m},
                                (sent \cup marks) \ {m}}
    BY <1>7 DEF ClientsFails, MarkLost, Done
  <2>4. excused' = excused \cup {m} /\ UNCHANGED <<created, entitled>>
    BY <1>7 DEF ClientsFails, MarkLost, Done
  <2>5. {} \in SUBSET Client
    OBVIOUS
  <2>6. Promise!Fault(m)
    BY <2>1, <2>2, <2>3, <2>4, <2>5 DEF Promise!Fault
  <2> QED BY <2>6 DEF Promise!Next
<1>8. ASSUME NEW m \in Msg, DiesPushing(m) PROVE Promise!Next
  <2>1. m \in created
    BY <1>8 DEF DiesPushing, Current, IInv, BatchInv
  <2>2. PICK D \in SUBSET Docs : Push(m, D)
    BY <1>8 DEF DiesPushing
  <2>3. (offered \cup dropped)' = offered \cup dropped \cup ({m} \X D)
    BY <2>2 DEF Push
  <2>4. D \in SUBSET Client
    BY <2>2 DEF Docs
  <2>5. /\ UNCHANGED <<created, entitled, sent, marks>>
        /\ excused' = excused \cup {m}
    BY <1>8 DEF DiesPushing
  <2>6. Promise!Fault(m)
    BY <2>1, <2>3, <2>4, <2>5 DEF Promise!Fault
  <2> QED BY <2>6 DEF Promise!Next
<1>9. CASE FindReturns \/ FindFails \/ TimerFires \/ UsersReturns \/ UsersFails
  BY <1>9 DEF FindReturns, FindFails, TimerFires, UsersReturns, UsersFails,
              ProcessEnds
<1>10. CASE UNCHANGED vars
  BY <1>10 DEF vars
<1> QED
  BY <1>2, <1>4, <1>5, <1>6, <1>7, <1>8, <1>9, <1>10 DEF Next, Send

(* The transmitter implements Delivery: each notification is handed over   *)
(* once, to everybody who was entitled to it, in what looks like one step, *)
(* for any limit of a poll, any number of faults and any churn.            *)
THEOREM Implements == Spec => ImplementsDelivery
<1> QED BY InitRefines, NextRefines, Safety, PTL
        DEF Spec, ImplementsDelivery, Promise!Spec

=============================================================================

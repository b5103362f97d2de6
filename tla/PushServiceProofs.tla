-------------------------- MODULE PushServiceProofs --------------------------
(***************************************************************************)
(* Proofs about PushService, for every set of connections and every bound  *)
(* on broadcasts and crashes.  IInv is inductive; the safety properties    *)
(* are conjuncts of it, and the action property follows from ConnectInv.   *)
(***************************************************************************)
EXTENDS PushService, TLAPS

USE ConstantsAssumption DEF Thread, Main

(* A broadcast that is taken off the queue leaves a queue.                 *)
LEMMA TailIsSeq ==
  ASSUME NEW S, NEW s \in Seq(S), s # <<>>
  PROVE  Tail(s) \in Seq(S)
  OBVIOUS

(* The service starts in a state that satisfies the inductive invariant.   *)
LEMMA InitIInv == Init => IInv
<1> SUFFICES ASSUME Init PROVE IInv
  OBVIOUS
<1> USE DEF Init
<1>1. TypeOK
  <2>1. pc \in [Thread -> Label] /\ pc[Main] \in MainLabel
    BY DEF Label, MainLabel, LostLabel
  <2>2. \A c \in Conn : pc[c] \in LostLabel
    BY DEF LostLabel
  <2>3. client \in [Conn -> {"closed", "up", "broken"}]
    OBVIOUS
  <2>4. broadcasts \in Seq(BOOLEAN)
    OBVIOUS
  <2> QED BY <2>1, <2>2, <2>3, <2>4 DEF TypeOK
<1>2. LockInv
  BY DEF LockInv, Locked
<1>3. DeadInv
  BY DEF DeadInv
<1>4. ConnectInv /\ StopInv
  BY DEF ConnectInv, ConnectLabel, StopInv, Stopping
<1> QED
  BY <1>1, <1>2, <1>3, <1>4
     DEF IInv, StoppedIsDisconnected, RestoresWhatRan, ReceiverIsRegistered,
         StoppedHasNoRetry

(* Every step preserves it: the variables keep their types, and then the   *)
(* other conjuncts follow from the conjuncts before the step.              *)
LEMMA NextIInv == IInv /\ [Next]_vars => IInv'
<1> SUFFICES ASSUME IInv, [Next]_vars PROVE IInv'
  OBVIOUS
<1> USE DEF vars, prefs, alarms, network, service, Goto, TypeOK
<1> USE DEF IInv, LockInv, DeadInv, ConnectInv, StopInv,
            StoppedIsDisconnected, RestoresWhatRan, ReceiverIsRegistered,
            StoppedHasNoRetry, Stopping, ConnectLabel, Locked
<1>1. ASSUME NetworkChanges PROVE IInv'
  <2> USE <1>1 DEF NetworkChanges
  <2>1. TypeOK'
    BY DEF MainLabel, LostLabel, Label
  <2> QED BY <2>1
<1>2. ASSUME SaveToken PROVE IInv'
  <2> USE <1>2 DEF SaveToken
  <2>1. TypeOK'
    BY DEF MainLabel, LostLabel, Label
  <2> QED BY <2>1
<1>3. ASSUME KeepAliveAlarmFires PROVE IInv'
  <2> USE <1>3 DEF KeepAliveAlarmFires
  <2>1. TypeOK'
    BY DEF MainLabel, LostLabel, Label
  <2> QED BY <2>1
<1>4. ASSUME ReconnectAlarmFires PROVE IInv'
  <2> USE <1>4 DEF ReconnectAlarmFires
  <2>1. TypeOK'
    <3>1. pending' \subseteq {"KEEP_ALIVE", "RECONNECT"}
      OBVIOUS
    <3> QED BY <3>1
  <2> QED BY <2>1
<1>5. ASSUME Crash PROVE IInv'
  <2> USE <1>5 DEF Crash, ProcessDies
  <2>1. TypeOK'
    <3>1. pc' \in [Thread -> Label] /\ pc'[Main] \in MainLabel
      BY DEF MainLabel, Label
    <3>2. \A d \in Conn : pc'[d] \in LostLabel
      BY DEF LostLabel
    <3>3. client' \in [Conn -> {"closed", "up", "broken"}]
      OBVIOUS
    <3>4. crashes' \in Nat
      OBVIOUS
    <3>5. /\ UNCHANGED <<prefs, alarms, pending, network>>
          /\ alive' = FALSE /\ registered' = FALSE /\ starting' = FALSE
          /\ stopping' = "no" /\ mStarted' = FALSE /\ orphans' = {}
          /\ mConnection' = None /\ fresh' = None /\ lock' = None
      OBVIOUS
    <3> HIDE <1>5
    <3> QED BY <3>1, <3>2, <3>3, <3>4, <3>5
  <2> QED BY <2>1
<1>6. ASSUME BroadcastMissed PROVE IInv'
  <2> USE <1>6 DEF BroadcastMissed
  <2>1. TypeOK'
    BY DEF MainLabel, LostLabel, Label
  <2> QED BY <2>1
<1>7. ASSUME NEW c \in Conn, LinkBreaks(c) PROVE IInv'
  <2> USE <1>7 DEF LinkBreaks
  <2>1. TypeOK'
    BY DEF MainLabel, LostLabel, Label
  <2> QED BY <2>1
<1>8. ASSUME NEW c \in Conn, LostStopsKeepAlives(c) PROVE IInv'
  <2> USE <1>8 DEF LostStopsKeepAlives
  <2>1. TypeOK'
    BY DEF MainLabel, LostLabel, Label
  <2> QED BY <2>1
<1>9. ASSUME NEW c \in Conn, LostForgets(c) PROVE IInv'
  <2> USE <1>9 DEF LostForgets
  <2>1. TypeOK'
    BY DEF MainLabel, LostLabel, Label
  <2> QED BY <2>1
<1>10. ASSUME NEW c \in Conn, LostReconnects(c) PROVE IInv'
  <2> USE <1>10 DEF LostReconnects, ReconnectIfNecessary, EnterConnect
  <2>1. TypeOK'
    <3>1. pc' \in [Thread -> Label] /\ pc'[Main] \in MainLabel
      BY DEF LostLabel, MainLabel, Label
    <3>2. \A d \in Conn : pc'[d] \in LostLabel
      BY DEF LostLabel
    <3> QED BY <3>1, <3>2
  <2> QED BY <2>1
<1>11. ASSUME NEW t \in Thread, ConnectWithoutToken(t) PROVE IInv'
  <2> USE <1>11 DEF ConnectWithoutToken, ConnectReturns
  <2>1. TypeOK'
    BY DEF MainLabel, LostLabel, Label
  <2> QED BY <2>1
<1>12. ASSUME NEW t \in Thread, ConnectFails(t) PROVE IInv'
  <2> USE <1>12 DEF ConnectFails, ConnectReturns, SetStarted
  <2>1. TypeOK'
    BY DEF MainLabel, LostLabel, Label
  <2> QED BY <2>1
<1>13. ASSUME NEW t \in Thread, NEW c \in Conn, ConnectOpens(t, c) PROVE IInv'
  <2> USE <1>13 DEF ConnectOpens
  <2>1. TypeOK'
    BY DEF MainLabel, LostLabel, Label
  <2> QED BY <2>1
<1>14. ASSUME NEW t \in Thread, SubscribeFails(t) PROVE IInv'
  <2> USE <1>14 DEF SubscribeFails, ConnectReturns, SetStarted
  <2>1. TypeOK'
    BY DEF MainLabel, LostLabel, Label
  <2> QED BY <2>1
<1>15. ASSUME NEW t \in Thread, Subscribes(t) PROVE IInv'
  <2> USE <1>15 DEF Subscribes
  <2>1. TypeOK'
    BY DEF MainLabel, LostLabel, Label
  <2> QED BY <2>1
<1>16. ASSUME NEW t \in Thread, ConnectAssigns(t) PROVE IInv'
  <2> USE <1>16 DEF ConnectAssigns, ConnectReturns, SetStarted
  <2>1. TypeOK'
    BY DEF MainLabel, LostLabel, Label
  <2> QED BY <2>1
<1>17. ASSUME Create PROVE IInv'
  <2> USE <1>17 DEF Create, EnterConnect
  <2>1. TypeOK'
    BY DEF MainLabel, LostLabel, Label
  <2> QED BY <2>1
<1>18. ASSUME Start PROVE IInv'
  <2> USE <1>18 DEF Start, MainIdle, EnterConnect
  <2>1. TypeOK'
    BY DEF MainLabel, LostLabel, Label
  <2> QED BY <2>1
<1>19. ASSUME Reconnect PROVE IInv'
  <2> USE <1>19 DEF Reconnect, MainIdle, ReconnectIfNecessary, EnterConnect
  <2>1. TypeOK'
    BY DEF MainLabel, LostLabel, Label
  <2> QED BY <2>1
<1>20. ASSUME KeepAlive PROVE IInv'
  <2> USE <1>20 DEF KeepAlive, MainIdle
  <2>1. TypeOK'
    BY DEF MainLabel, LostLabel, Label
  <2> QED BY <2>1
<1>21. ASSUME KeepAliveSent PROVE IInv'
  <2> USE <1>21 DEF KeepAliveSent
  <2>1. TypeOK'
    BY DEF MainLabel, LostLabel, Label
  <2> QED BY <2>1
<1>22. ASSUME KeepAliveThrows PROVE IInv'
  <2> USE <1>22 DEF KeepAliveThrows
  <2>1. TypeOK'
    BY DEF MainLabel, LostLabel, Label
  <2> QED BY <2>1
<1>23. ASSUME KeepAliveDisconnects PROVE IInv'
  <2> USE <1>23 DEF KeepAliveDisconnects, DisconnectStep, Disconnect
  <2>1. TypeOK'
    BY DEF MainLabel, LostLabel, Label
  <2> QED BY <2>1
<1>24. ASSUME ReceiverDisconnects PROVE IInv'
  <2> USE <1>24 DEF ReceiverDisconnects, DisconnectStep, Disconnect
  <2>1. TypeOK'
    BY DEF MainLabel, LostLabel, Label
  <2> QED BY <2>1
<1>25. ASSUME StopDisconnects PROVE IInv'
  <2> USE <1>25 DEF StopDisconnects, DisconnectStep, Disconnect
  <2>1. TypeOK'
    BY DEF MainLabel, LostLabel, Label
  <2> QED BY <2>1
<1>26. ASSUME KeepAliveForgets PROVE IInv'
  <2> USE <1>26 DEF KeepAliveForgets
  <2>1. TypeOK'
    BY DEF MainLabel, LostLabel, Label
  <2> QED BY <2>1
<1>27. ASSUME ReceiveOnline PROVE IInv'
  <2> USE <1>27 DEF ReceiveOnline, MainIdle, ReconnectIfNecessary, EnterConnect
  <2>1. TypeOK'
    <3>1. broadcasts' \in Seq(BOOLEAN)
      BY TailIsSeq
    <3>2. pc' \in [Thread -> Label] /\ pc'[Main] \in MainLabel
      BY DEF MainLabel, Label
    <3>3. \A d \in Conn : pc'[d] \in LostLabel
      OBVIOUS
    <3> QED BY <3>1, <3>2, <3>3
  <2> QED BY <2>1
<1>28. ASSUME ReceiveOffline PROVE IInv'
  <2> USE <1>28 DEF ReceiveOffline, MainIdle
  <2>1. TypeOK'
    <3>1. broadcasts' \in Seq(BOOLEAN)
      BY TailIsSeq
    <3>2. pc' \in [Thread -> Label] /\ pc'[Main] \in MainLabel
      BY DEF MainLabel, Label
    <3>3. \A d \in Conn : pc'[d] \in LostLabel
      OBVIOUS
    <3> QED BY <3>1, <3>2, <3>3
  <2> QED BY <2>1
<1>29. ASSUME ReceiverForgets PROVE IInv'
  <2> USE <1>29 DEF ReceiverForgets
  <2>1. TypeOK'
    BY DEF MainLabel, LostLabel, Label
  <2> QED BY <2>1
<1>30. ASSUME Stop PROVE IInv'
  <2> USE <1>30 DEF Stop, MainIdle, BeginStop, SetStarted
  <2>1. TypeOK'
    BY DEF MainLabel, LostLabel, Label
  <2> QED BY <2>1
<1>31. ASSUME StopCancelsTimers PROVE IInv'
  <2> USE <1>31 DEF StopCancelsTimers
  <2>1. TypeOK'
    <3>1. pc' \in [Thread -> Label] /\ pc'[Main] \in MainLabel
      BY DEF MainLabel, Label
    <3>2. \A d \in Conn : pc'[d] \in LostLabel
      OBVIOUS
    <3> QED BY <3>1, <3>1, <3>2
  <2> QED BY <2>1
<1>32. ASSUME StopForgets PROVE IInv'
  <2> USE <1>32 DEF StopForgets
  <2>1. TypeOK'
    BY DEF MainLabel, LostLabel, Label
  <2> QED BY <2>1
<1>33. ASSUME DestroyStops PROVE IInv'
  <2> USE <1>33 DEF DestroyStops, MainIdle, BeginStop, SetStarted
  <2>1. TypeOK'
    BY DEF MainLabel, LostLabel, Label
  <2> QED BY <2>1
<1>34. ASSUME Destroy PROVE IInv'
  <2> USE <1>34 DEF Destroy
  <2>1. TypeOK'
    BY DEF MainLabel, LostLabel, Label
  <2>2. lock # Main
    OBVIOUS
  <2>3. ASSUME NEW c \in Conn, lock = c PROVE FALSE
    <3>1. pc[c] \in ConnectLabel
      BY <2>3 DEF LostLabel
    <3> QED BY <3>1, <2>3
  <2> QED BY <2>1, <2>2, <2>3
<1>35. ASSUME NullDereference PROVE IInv'
  <2> USE <1>35 DEF NullDereference, ProcessDies
  <2>1. TypeOK'
    <3>1. pc' \in [Thread -> Label] /\ pc'[Main] \in MainLabel
      BY DEF MainLabel, Label
    <3>2. \A d \in Conn : pc'[d] \in LostLabel
      BY DEF LostLabel
    <3>3. client' \in [Conn -> {"closed", "up", "broken"}]
      OBVIOUS
    <3> QED BY <3>1, <3>2, <3>3
  <2> QED BY <2>1
<1>36. CASE UNCHANGED vars
  BY <1>36
<1> QED
  BY <1>1, <1>2, <1>3, <1>4, <1>5, <1>6, <1>7, <1>8, <1>9, <1>10, <1>11,
     <1>12, <1>13, <1>14, <1>15, <1>16, <1>17, <1>18, <1>19, <1>20, <1>21,
     <1>22, <1>23, <1>24, <1>25, <1>26, <1>27, <1>28, <1>29, <1>30, <1>31,
     <1>32, <1>33, <1>34, <1>35, <1>36
     DEF Next, World, MainStep, Connect, ConnectionLost

(* The inductive invariant holds in every reachable state.                 *)
THEOREM Safety == Spec => []IInv
  BY InitIInv, NextIInv, PTL DEF Spec

(* Type correctness.                                                       *)
THEOREM TypeCorrect == Spec => []TypeOK
<1>1. IInv => TypeOK
  BY DEF IInv
<1> QED BY <1>1, Safety, PTL

(* A service that is not started holds no connection: the claim about      *)
(* stop(), connect() and connectionLost() racing on mConnection.           *)
THEOREM StoppedDisconnected == Spec => []StoppedIsDisconnected
<1>1. IInv => StoppedIsDisconnected
  BY DEF IInv
<1> QED BY <1>1, Safety, PTL

(* What onCreate restores after a crash is what was running.               *)
THEOREM CrashSafe == Spec => []RestoresWhatRan
<1>1. IInv => RestoresWhatRan
  BY DEF IInv
<1> QED BY <1>1, Safety, PTL

(* stop() never unregisters a receiver that is not registered.             *)
THEOREM UnregisterSafe == Spec => []ReceiverIsRegistered
<1>1. IInv => ReceiverIsRegistered
  BY DEF IInv
<1> QED BY <1>1, Safety, PTL

(* Without a crash, stop() leaves no reconnect alarm behind.               *)
THEOREM StopCancelsRetry == Spec => []StoppedHasNoRetry
<1>1. IInv => StoppedHasNoRetry
  BY DEF IInv
<1> QED BY <1>1, Safety, PTL

(* No connect() replaces a connection that the service still holds: every  *)
(* assignment happens under the monitor, after a test that was not undone. *)
THEOREM NoOverwrite == Spec => NeverOverwritesConnection
<1>1. ASSUME IInv, [Next]_vars
      PROVE  [mConnection # None => mConnection' \in {mConnection, None}]_vars
  <2> USE DEF vars, prefs, alarms, network, service
  <2>1. ASSUME NEW t \in Thread, Connect(t)
        PROVE  mConnection # None => mConnection' = mConnection
    <3>1. pc[t] = "assign" => mConnection = None
      BY <1>1 DEF IInv, ConnectInv, ConnectLabel
    <3> QED
      BY <2>1, <3>1
         DEF Connect, ConnectWithoutToken, ConnectFails, ConnectOpens,
             SubscribeFails, Subscribes, ConnectAssigns
  <2>2. CASE World
    BY <2>2 DEF World, NetworkChanges, LinkBreaks, SaveToken,
                KeepAliveAlarmFires, ReconnectAlarmFires, Crash, ProcessDies,
                BroadcastMissed
  <2>3. CASE MainStep
    BY <2>3 DEF MainStep, Create, Start, Reconnect, ReceiveOnline,
                ReceiveOffline, KeepAlive, KeepAliveSent, KeepAliveThrows,
                KeepAliveDisconnects, DisconnectStep, KeepAliveForgets,
                ReceiverDisconnects, ReceiverForgets, Stop,
                StopCancelsTimers, StopDisconnects, StopForgets,
                DestroyStops, Destroy, NullDereference, ProcessDies
  <2>4. ASSUME NEW c \in Conn, ConnectionLost(c)
        PROVE  mConnection' \in {mConnection, None}
    BY <2>4 DEF ConnectionLost, LostStopsKeepAlives, LostForgets,
                LostReconnects
  <2> QED BY <1>1, <2>1, <2>2, <2>3, <2>4 DEF Next
<1> QED
  BY <1>1, Safety, PTL DEF Spec, NeverOverwritesConnection
=============================================================================

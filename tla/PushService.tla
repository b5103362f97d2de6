----------------------------- MODULE PushService -----------------------------
(***************************************************************************)
(* The Android push service, PushService.java: one background service that *)
(* keeps one MQTT connection to the broker while the user is logged in.    *)
(*                                                                         *)
(* Two kinds of threads run its code.  The main thread of the application  *)
(* runs the life-cycle callbacks, the intents and the connectivity         *)
(* receiver, one at a time.  The thread of each MQTT client runs           *)
(* connectionLost.  start, stop, connect, keepAlive and                    *)
(* reconnectIfNecessary are synchronized; connectionLost and the           *)
(* connectivity receiver are not, so both touch mConnection without the    *)
(* lock.  A step of the model is a stretch of Java that no other thread    *)
(* can observe half done.                                                  *)
(*                                                                         *)
(* Retry delays are in RetryBackoff; here a timer may fire at any time.    *)
(***************************************************************************)
EXTENDS Naturals, Sequences, FiniteSets

CONSTANTS
    Conn,           \* the MQTTConnection objects
    None,           \* Java null; also "nobody" for the lock
    MaxBroadcasts,  \* bound: undelivered connectivity broadcasts
    MaxCrashes      \* bound: times the system kills the process

Main == "main"
Thread == {Main} \cup Conn

ASSUME ConstantsAssumption ==
    /\ None \notin Thread
    /\ Main \notin Conn
    /\ MaxBroadcasts \in Nat
    /\ MaxCrashes \in Nat

VARIABLES
    prefStarted,     \* PREF_STARTED in the shared preferences
    prefToken,       \* is PREF_TOKEN in the shared preferences?
    keepAliveAlarm,  \* AlarmManager: the repeating KEEP_ALIVE alarm is set
    reconnectAlarm,  \* AlarmManager: the one-shot RECONNECT alarm is set
    pending,         \* intents of fired alarms, not yet delivered
    online,          \* what isNetworkAvailable() answers
    broadcasts,      \* connectivity broadcasts, not yet delivered
    crashes,         \* times the process was killed so far
    alive,           \* a PushService instance exists
    mStarted,        \* its fields
    mConnection,
    registered,      \* mConnectivityChanged is registered
    starting,        \* start() is running (it registers the receiver last)
    stopping,        \* stopSelf was called ("asked"), onDestroy runs ("dying")
    fresh,           \* the client under construction in connect()
    lock,            \* the thread inside a synchronized method
    pc,              \* what each thread is about to do
    client,          \* the state of each MQTT client
    orphans          \* clients whose service instance was destroyed

prefs   == <<prefStarted, prefToken>>
alarms  == <<keepAliveAlarm, reconnectAlarm>>
network == <<online, broadcasts>>
service == <<alive, registered, starting, stopping>>
vars == <<prefs, alarms, pending, network, crashes, service, mStarted,
          mConnection, fresh, lock, pc, client, orphans>>

(* Labels of code that runs inside a synchronized method.                  *)
Locked == {"connect", "opened", "assign", "keepAlive", "kaFailed", "kaNull",
           "stopTimers", "stopDisconnect", "stopNull"}
MainLabel == {"idle", "drop", "dropNull"} \cup Locked
LostLabel == {"idle", "lost", "reconnect", "connect", "opened", "assign"}
Label == MainLabel \cup LostLabel

(* The values of the variables.                                            *)
TypeOK ==
    /\ prefStarted \in BOOLEAN /\ prefToken \in BOOLEAN
    /\ keepAliveAlarm \in BOOLEAN /\ reconnectAlarm \in BOOLEAN
    /\ pending \subseteq {"KEEP_ALIVE", "RECONNECT"}
    /\ online \in BOOLEAN /\ broadcasts \in Seq(BOOLEAN)
    /\ crashes \in Nat
    /\ alive \in BOOLEAN /\ registered \in BOOLEAN /\ starting \in BOOLEAN
    /\ stopping \in {"no", "asked", "dying"}
    /\ mStarted \in BOOLEAN
    /\ mConnection \in Conn \cup {None}
    /\ fresh \in Conn \cup {None}
    /\ lock \in Thread \cup {None}
    /\ pc \in [Thread -> Label]
    /\ pc[Main] \in MainLabel
    /\ \A c \in Conn : pc[c] \in LostLabel
    /\ client \in [Conn -> {"closed", "up", "broken"}]
    /\ orphans \subseteq Conn

(* No service yet; the token is saved by the first login.                  *)
Init ==
    /\ prefStarted = FALSE /\ prefToken = FALSE
    /\ keepAliveAlarm = FALSE /\ reconnectAlarm = FALSE
    /\ pending = {}
    /\ online \in BOOLEAN /\ broadcasts = <<>>
    /\ crashes = 0
    /\ alive = FALSE /\ registered = FALSE /\ starting = FALSE
    /\ stopping = "no" /\ mStarted = FALSE
    /\ mConnection = None /\ fresh = None /\ lock = None
    /\ pc = [t \in Thread |-> "idle"]
    /\ client = [c \in Conn |-> "closed"]
    /\ orphans = {}

Goto(t, label) == pc' = [pc EXCEPT ![t] = label]

SetStartedInMemory(b) == mStarted' = b /\ UNCHANGED prefStarted

SetStarted(b) == mStarted' = b /\ prefStarted' = b

(* MQTTConnection.disconnect: no callback of c begins after it.            *)
Disconnect(c) ==
    /\ keepAliveAlarm' = FALSE
    /\ client' = [client EXCEPT ![c] = "closed"]

-----------------------------------------------------------------------------
(* The world around the service.                                           *)

NetworkChanges ==
    /\ Len(broadcasts) < MaxBroadcasts
    /\ online' = ~online
    /\ broadcasts' = Append(broadcasts, online')
    /\ UNCHANGED <<prefs, alarms, pending, crashes, service, mStarted,
                   mConnection, fresh, lock, pc, client, orphans>>

LinkBreaks(c) ==
    /\ client[c] = "up"
    /\ client' = [client EXCEPT ![c] = "broken"]
    /\ UNCHANGED <<prefs, alarms, pending, network, crashes, service,
                   mStarted, mConnection, fresh, lock, pc, orphans>>

(* The activity stores the token it registered before it sends START.      *)
SaveToken ==
    /\ prefToken' = TRUE
    /\ UNCHANGED <<prefStarted, alarms, pending, network, crashes, service,
                   mStarted, mConnection, fresh, lock, pc, client, orphans>>

KeepAliveAlarmFires ==
    /\ keepAliveAlarm
    /\ pending' = pending \cup {"KEEP_ALIVE"}
    /\ UNCHANGED <<prefs, alarms, network, crashes, service, mStarted,
                   mConnection, fresh, lock, pc, client, orphans>>

ReconnectAlarmFires ==
    /\ reconnectAlarm
    /\ reconnectAlarm' = FALSE
    /\ pending' = pending \cup {"RECONNECT"}
    /\ UNCHANGED <<prefs, keepAliveAlarm, network, crashes, service, mStarted,
                   mConnection, fresh, lock, pc, client, orphans>>

(* The memory of the process is lost; preferences and alarms are not.      *)
ProcessDies ==
    /\ alive' = FALSE /\ registered' = FALSE /\ starting' = FALSE
    /\ stopping' = "no" /\ mStarted' = FALSE
    /\ mConnection' = None /\ fresh' = None /\ lock' = None
    /\ pc' = [t \in Thread |-> "idle"]
    /\ client' = [c \in Conn |-> "closed"]
    /\ orphans' = {}
    /\ UNCHANGED <<prefs, alarms, pending, network>>

Crash ==
    /\ crashes < MaxCrashes
    /\ crashes' = crashes + 1
    /\ ProcessDies

(* A broadcast nobody is registered for is dropped by the system.          *)
BroadcastMissed ==
    /\ broadcasts # <<>>
    /\ ~alive \/ ~registered
    /\ broadcasts' = Tail(broadcasts)
    /\ UNCHANGED <<prefs, alarms, pending, online, crashes, service, mStarted,
                   mConnection, fresh, lock, pc, client, orphans>>

-----------------------------------------------------------------------------
(* connect(), on thread t, which holds the lock.                           *)

ConnectReturns(t) ==
    /\ lock' = None
    /\ Goto(t, "idle")
    /\ registered' = (registered \/ (t = Main /\ starting))
    /\ starting' = (starting /\ t # Main)
    /\ UNCHANGED <<alive, stopping>>

ConnectWithoutToken(t) ==
    /\ pc[t] = "connect"
    /\ ~prefToken
    /\ ConnectReturns(t)
    /\ UNCHANGED <<prefs, alarms, pending, network, crashes, mStarted,
                   mConnection, fresh, client, orphans>>

(* MqttClient.connect throws.                                              *)
ConnectFails(t) ==
    /\ pc[t] = "connect"
    /\ prefToken
    /\ reconnectAlarm' = (reconnectAlarm \/ online)
    /\ SetStarted(TRUE)
    /\ ConnectReturns(t)
    /\ UNCHANGED <<prefToken, keepAliveAlarm, pending, network, crashes,
                   mConnection, fresh, client, orphans>>

Unused(c) ==
    /\ client[c] = "closed"
    /\ pc[c] = "idle"
    /\ c # mConnection
    /\ c \notin orphans

(* The broker closes the older sessions of the same client id.             *)
ConnectOpens(t, c) ==
    /\ pc[t] = "connect"
    /\ prefToken
    /\ online
    /\ Unused(c)
    /\ client' = [d \in Conn |-> IF d = c THEN "up"
                                 ELSE IF client[d] = "up" THEN "broken"
                                 ELSE client[d]]
    /\ fresh' = c
    /\ Goto(t, "opened")
    /\ UNCHANGED <<prefs, alarms, pending, network, crashes, service,
                   mStarted, mConnection, lock, orphans>>

(* The constructor throws after MqttClient.connect: the client stays up.   *)
SubscribeFails(t) ==
    /\ pc[t] = "opened"
    /\ fresh' = None
    /\ reconnectAlarm' = (reconnectAlarm \/ online)
    /\ SetStarted(TRUE)
    /\ ConnectReturns(t)
    /\ UNCHANGED <<prefToken, keepAliveAlarm, pending, network, crashes,
                   mConnection, client, orphans>>

(* On a link that is already down subscribeToTopic only logs.              *)
Subscribes(t) ==
    /\ pc[t] = "opened"
    /\ keepAliveAlarm' = TRUE
    /\ Goto(t, "assign")
    /\ UNCHANGED <<prefs, reconnectAlarm, pending, network, crashes, service,
                   mStarted, mConnection, fresh, lock, client, orphans>>

ConnectAssigns(t) ==
    /\ pc[t] = "assign"
    /\ mConnection' = fresh
    /\ fresh' = None
    /\ SetStarted(TRUE)
    /\ ConnectReturns(t)
    /\ UNCHANGED <<prefToken, alarms, pending, network, crashes, client,
                   orphans>>

Connect(t) ==
    \/ ConnectWithoutToken(t)
    \/ ConnectFails(t)
    \/ \E c \in Conn : ConnectOpens(t, c)
    \/ SubscribeFails(t)
    \/ Subscribes(t)
    \/ ConnectAssigns(t)

EnterConnect(t) == lock' = t /\ Goto(t, "connect")

ReconnectAlways(t) ==
    /\ lock = None
    /\ IF mStarted THEN EnterConnect(t)
       ELSE lock' = None /\ Goto(t, "idle")

ReconnectQueuesAgain(t) ==
    /\ lock = None
    /\ IF mStarted /\ mConnection = None
       THEN EnterConnect(t)
       ELSE lock' = None /\ Goto(t, "reconnect")

(* The lock is free: the test and the call of connect() are one step.      *)
ReconnectIfNecessary(t) ==
    /\ lock = None
    /\ IF mStarted /\ mConnection = None
       THEN EnterConnect(t)
       ELSE lock' = None /\ Goto(t, "idle")

-----------------------------------------------------------------------------
(* Callbacks on the main thread.                                           *)

MainIdle == alive /\ pc[Main] = "idle" /\ stopping # "dying"

CreateConnects ==
    /\ ~alive
    /\ alive' = TRUE
    /\ IF prefStarted
       THEN keepAliveAlarm' = FALSE /\ EnterConnect(Main)
       ELSE UNCHANGED <<keepAliveAlarm, lock, pc>>
    /\ UNCHANGED <<prefs, reconnectAlarm, pending, network, crashes, starting,
                   registered, stopping, mStarted, mConnection, fresh, client,
                   orphans>>

CreateForgets ==
    /\ ~alive
    /\ alive' = TRUE
    /\ UNCHANGED <<prefs, alarms, pending, network, crashes, starting,
                   registered, stopping, mStarted, mConnection, fresh, lock,
                   pc, client, orphans>>

(* onCreate and handleCrashedService.                                      *)
Create ==
    /\ ~alive
    /\ alive' = TRUE
    /\ IF prefStarted
       THEN keepAliveAlarm' = FALSE /\ starting' = TRUE /\ EnterConnect(Main)
       ELSE UNCHANGED <<keepAliveAlarm, starting, lock, pc>>
    /\ UNCHANGED <<prefs, reconnectAlarm, pending, network, crashes,
                   registered, stopping, mStarted, mConnection, fresh, client,
                   orphans>>

(* onStart, ACTION_START.                                                  *)
Start ==
    /\ MainIdle
    /\ lock = None
    /\ ~mStarted
    /\ starting' = TRUE
    /\ EnterConnect(Main)
    /\ UNCHANGED <<prefs, alarms, pending, network, crashes, alive, registered,
                   stopping, mStarted, mConnection, fresh, client, orphans>>

ReconnectInverted ==
    /\ MainIdle
    /\ "RECONNECT" \in pending
    /\ pending' = pending \ {"RECONNECT"}
    /\ IF online THEN UNCHANGED <<lock, pc>> ELSE ReconnectIfNecessary(Main)
    /\ UNCHANGED <<prefs, alarms, network, crashes, service, mStarted,
                   mConnection, fresh, client, orphans>>

(* onStart, ACTION_RECONNECT.                                              *)
Reconnect ==
    /\ MainIdle
    /\ "RECONNECT" \in pending
    /\ pending' = pending \ {"RECONNECT"}
    /\ IF online THEN ReconnectIfNecessary(Main) ELSE UNCHANGED <<lock, pc>>
    /\ UNCHANGED <<prefs, alarms, network, crashes, service, mStarted,
                   mConnection, fresh, client, orphans>>

(* onStart, ACTION_KEEPALIVE.                                              *)
KeepAlive ==
    /\ MainIdle
    /\ lock = None
    /\ "KEEP_ALIVE" \in pending
    /\ pending' = pending \ {"KEEP_ALIVE"}
    /\ IF mStarted /\ mConnection # None
       THEN lock' = Main /\ Goto(Main, "keepAlive")
       ELSE UNCHANGED <<lock, pc>>
    /\ UNCHANGED <<prefs, alarms, network, crashes, service, mStarted,
                   mConnection, fresh, client, orphans>>

(* A client that knows it is closed only logs.                             *)
KeepAliveSent ==
    /\ pc[Main] = "keepAlive"
    /\ mConnection # None
    /\ lock' = None
    /\ Goto(Main, "idle")
    /\ UNCHANGED <<prefs, alarms, pending, network, crashes, service, mStarted,
                   mConnection, fresh, client, orphans>>

(* The write fails on a link whose loss was not reported yet.              *)
KeepAliveThrows ==
    /\ pc[Main] = "keepAlive"
    /\ mConnection # None
    /\ client[mConnection] = "broken"
    /\ Goto(Main, "kaFailed")
    /\ UNCHANGED <<prefs, alarms, pending, network, crashes, service, mStarted,
                   mConnection, fresh, lock, client, orphans>>

(* The catch block of keepAlive, the receiver without connectivity and     *)
(* stop() all end in: disconnect the connection, then forget it.           *)
DisconnectStep(here, next) ==
    /\ pc[Main] = here
    /\ mConnection # None
    /\ Disconnect(mConnection)
    /\ Goto(Main, next)
    /\ UNCHANGED <<prefs, reconnectAlarm, pending, network, crashes, service,
                   mStarted, mConnection, fresh, lock, orphans>>

KeepAliveDisconnects == DisconnectStep("kaFailed", "kaNull")
ReceiverDisconnects  == DisconnectStep("drop", "dropNull")
StopDisconnects      == DisconnectStep("stopDisconnect", "stopNull")

KeepAliveForgets ==
    /\ pc[Main] = "kaNull"
    /\ mConnection' = None
    /\ reconnectAlarm' = FALSE
    /\ lock' = None
    /\ Goto(Main, "idle")
    /\ UNCHANGED <<prefs, keepAliveAlarm, pending, network, crashes, service,
                   mStarted, fresh, client, orphans>>

(* mConnectivityChanged.onReceive, told that there is connectivity.        *)
ReceiveOnline ==
    /\ MainIdle
    /\ registered
    /\ broadcasts # <<>>
    /\ Head(broadcasts)
    /\ broadcasts' = Tail(broadcasts)
    /\ ReconnectIfNecessary(Main)
    /\ UNCHANGED <<prefs, alarms, pending, online, crashes, service, mStarted,
                   mConnection, fresh, client, orphans>>

(* The same, told that there is none; no lock is taken.                    *)
ReceiveOffline ==
    /\ MainIdle
    /\ registered
    /\ broadcasts # <<>>
    /\ ~Head(broadcasts)
    /\ broadcasts' = Tail(broadcasts)
    /\ IF mConnection # None THEN Goto(Main, "drop") ELSE UNCHANGED pc
    /\ UNCHANGED <<prefs, alarms, pending, online, crashes, service, mStarted,
                   mConnection, fresh, lock, client, orphans>>

ReceiverForgets ==
    /\ pc[Main] = "dropNull"
    /\ reconnectAlarm' = FALSE
    /\ mConnection' = None
    /\ Goto(Main, "idle")
    /\ UNCHANGED <<prefs, keepAliveAlarm, pending, network, crashes, service,
                   mStarted, fresh, lock, client, orphans>>

(* stop(), from its test of mStarted to the saved preference.              *)
BeginStop ==
    /\ lock = None
    /\ SetStarted(FALSE)
    /\ lock' = Main
    /\ Goto(Main, "stopTimers")

(* onStart, ACTION_STOP: stop() and stopSelf().  Intents that were sent    *)
(* meanwhile are still delivered to this instance before onDestroy.        *)
Stop ==
    /\ MainIdle
    /\ lock = None
    /\ stopping' = "asked"
    /\ IF mStarted THEN BeginStop
       ELSE UNCHANGED <<mStarted, prefStarted, lock, pc>>
    /\ UNCHANGED <<prefToken, alarms, pending, network, crashes, alive,
                   registered, starting, mConnection, fresh, client, orphans>>

StopKeepsTimers ==
    /\ pc[Main] = "stopTimers"
    /\ registered' = FALSE
    /\ IF mConnection # None
       THEN Goto(Main, "stopDisconnect") /\ UNCHANGED lock
       ELSE Goto(Main, "idle") /\ lock' = None
    /\ UNCHANGED <<prefs, alarms, pending, network, crashes, alive, starting,
                   stopping, mStarted, mConnection, fresh, client, orphans>>

StopCancelsTimers ==
    /\ pc[Main] = "stopTimers"
    /\ registered' = FALSE
    /\ reconnectAlarm' = FALSE
    /\ IF mConnection # None
       THEN Goto(Main, "stopDisconnect") /\ UNCHANGED lock
       ELSE Goto(Main, "idle") /\ lock' = None
    /\ UNCHANGED <<prefs, keepAliveAlarm, pending, network, crashes, alive,
                   starting, stopping, mStarted, mConnection, fresh, client,
                   orphans>>

StopKeepsConnection ==
    /\ pc[Main] = "stopNull"
    /\ lock' = None
    /\ Goto(Main, "idle")
    /\ UNCHANGED <<prefs, alarms, pending, network, crashes, service, mStarted,
                   mConnection, fresh, client, orphans>>

StopForgets ==
    /\ pc[Main] = "stopNull"
    /\ mConnection' = None
    /\ lock' = None
    /\ Goto(Main, "idle")
    /\ UNCHANGED <<prefs, alarms, pending, network, crashes, service, mStarted,
                   fresh, client, orphans>>

(* onDestroy of an instance that was started again meanwhile.              *)
DestroyStops ==
    /\ MainIdle
    /\ stopping = "asked"
    /\ mStarted
    /\ stopping' = "dying"
    /\ BeginStop
    /\ UNCHANGED <<prefToken, alarms, pending, network, crashes, alive,
                   registered, starting, mConnection, fresh, client, orphans>>

(* The end of onDestroy.  The instance goes, its clients do not: a         *)
(* callback that is still running finds a stopped instance and ends.       *)
Destroy ==
    /\ alive
    /\ pc[Main] = "idle"
    /\ stopping # "no"
    /\ ~mStarted
    /\ alive' = FALSE /\ registered' = FALSE /\ stopping' = "no"
    /\ pc' = [t \in Thread |-> "idle"]
    /\ orphans' = {c \in Conn : client[c] # "closed"}
    /\ mConnection' = None
    /\ UNCHANGED <<prefs, alarms, pending, network, crashes, starting,
                   mStarted, fresh, lock, client>>

(* The field mConnection is read again after the test that it is not null. *)
NullDereference ==
    /\ pc[Main] \in {"keepAlive", "kaFailed", "drop", "stopDisconnect"}
    /\ mConnection = None
    /\ ProcessDies
    /\ UNCHANGED crashes

MainStep ==
    \/ Create \/ Start \/ Reconnect \/ ReceiveOnline \/ ReceiveOffline
    \/ KeepAlive \/ KeepAliveSent \/ KeepAliveThrows \/ KeepAliveDisconnects
    \/ KeepAliveForgets \/ ReceiverDisconnects \/ ReceiverForgets
    \/ Stop \/ StopCancelsTimers \/ StopDisconnects \/ StopForgets
    \/ DestroyStops \/ Destroy \/ NullDereference

-----------------------------------------------------------------------------
(* connectionLost, on the thread of client c.                              *)

LostStopsKeepAlives(c) ==
    /\ client[c] = "broken"
    /\ pc[c] = "idle"
    /\ client' = [client EXCEPT ![c] = "closed"]
    /\ keepAliveAlarm' = FALSE
    /\ orphans' = orphans \ {c}
    /\ Goto(c, IF c \in orphans THEN "idle" ELSE "lost")
    /\ UNCHANGED <<prefs, reconnectAlarm, pending, network, crashes, service,
                   mStarted, mConnection, fresh, lock>>

(* Whichever connection mConnection holds, it is set to null.              *)
LostForgets(c) ==
    /\ pc[c] = "lost"
    /\ mConnection' = None
    /\ Goto(c, "reconnect")
    /\ UNCHANGED <<prefs, alarms, pending, network, crashes, service, mStarted,
                   fresh, lock, client, orphans>>

LostReconnects(c) ==
    /\ pc[c] = "reconnect"
    /\ IF online THEN ReconnectIfNecessary(c)
       ELSE Goto(c, "idle") /\ UNCHANGED lock
    /\ UNCHANGED <<prefs, alarms, pending, network, crashes, service, mStarted,
                   mConnection, fresh, client, orphans>>

ConnectionLost(c) ==
    LostStopsKeepAlives(c) \/ LostForgets(c) \/ LostReconnects(c)

-----------------------------------------------------------------------------
World ==
    \/ NetworkChanges
    \/ \E c \in Conn : LinkBreaks(c)
    \/ SaveToken
    \/ KeepAliveAlarmFires
    \/ ReconnectAlarmFires
    \/ Crash
    \/ BroadcastMissed

Next ==
    \/ World
    \/ MainStep
    \/ \E t \in Thread : Connect(t)
    \/ \E c \in Conn : ConnectionLost(c)

Spec == Init /\ [][Next]_vars

(* Every thread keeps running what it is in the middle of: a connect ends  *)
(* or throws, a thread that waits for the monitor gets it, alarms go off   *)
(* and their intents are delivered, and the system recreates a service it  *)
(* killed.  Nothing is assumed of the user, of the network, or of the      *)
(* outcome of a connect.                                                   *)
Fairness ==
    /\ \A t \in Thread : WF_vars(Connect(t))
    /\ \A c \in Conn : WF_vars(LostStopsKeepAlives(c) \/ LostForgets(c))
    /\ \A c \in Conn : SF_vars(LostReconnects(c))
    /\ WF_vars(\/ KeepAliveSent \/ KeepAliveThrows \/ KeepAliveDisconnects
               \/ KeepAliveForgets \/ ReceiverDisconnects \/ ReceiverForgets
               \/ StopCancelsTimers \/ StopDisconnects \/ StopForgets
               \/ Destroy \/ NullDereference)
    /\ WF_vars(Create)
    /\ WF_vars(ReconnectAlarmFires)
    /\ SF_vars(Reconnect) /\ SF_vars(ReceiveOnline) /\ SF_vars(ReceiveOffline)

FairSpec == Spec /\ Fairness

(* The looper delivers whatever else is queued, and keep-alives go off.    *)
LooperFairness ==
    /\ SF_vars(KeepAlive) /\ SF_vars(DestroyStops)
    /\ WF_vars(KeepAliveAlarmFires)

FairestSpec == FairSpec /\ LooperFairness

-----------------------------------------------------------------------------
(* Safety.                                                                 *)

Stopping == pc[Main] \in {"stopTimers", "stopDisconnect", "stopNull"}

(* A service that is not started holds no connection (stop, start and      *)
(* connect against connectionLost, reconnectIfNecessary and the receiver). *)
StoppedIsDisconnected ==
    alive /\ ~mStarted /\ ~Stopping => mConnection = None

(* What a crash would restore is what was running: outside start() the     *)
(* saved PREF_STARTED is the field mStarted (setStarted, wasStarted,       *)
(* handleCrashedService), and it is only ever saved with a token.          *)
RestoresWhatRan ==
    /\ alive /\ ~starting => mStarted = prefStarted
    /\ prefStarted => prefToken

(* stop() unregisters the connectivity receiver unconditionally, which     *)
(* throws unless start() got as far as registering it.                     *)
ReceiverIsRegistered ==
    (alive /\ mStarted /\ ~starting) \/ pc[Main] = "stopTimers" => registered

(* "Any existing reconnect timers should be removed, since we explicitly   *)
(* stopping the service": unless the process was killed inside stop(), a   *)
(* stopped service has no reconnect alarm that could bring it back.        *)
StoppedHasNoRetry ==
    ~prefStarted /\ ~Stopping /\ crashes = 0 => ~reconnectAlarm

(* No connection is overwritten by another: a connect() that starts while  *)
(* the field holds a connection would leave that one open and unowned.     *)
NeverOverwritesConnection ==
    [][mConnection # None => mConnection' \in {mConnection, None}]_vars

-----------------------------------------------------------------------------
(* The inductive invariant.                                                *)

ConnectLabel == {"connect", "opened", "assign"}

(* The monitor: whoever runs synchronized code holds the lock.             *)
LockInv == \A t \in Thread : lock = t <=> pc[t] \in Locked

(* There is nothing of an instance that does not exist.                    *)
DeadInv ==
    ~alive => /\ ~mStarted /\ ~starting /\ ~registered
              /\ stopping = "no" /\ mConnection = None
              /\ \A t \in Thread : pc[t] = "idle"
              /\ \A c \in Conn : client[c] # "closed" => c \in orphans

(* Inside connect() there is a token and no connection, and the service is *)
(* started unless this is start() on the main thread.                      *)
ConnectInv ==
    /\ \A t \in Thread : pc[t] \in ConnectLabel =>
           /\ mConnection = None
           /\ pc[t] # "connect" => prefToken
           /\ mStarted \/ (t = Main /\ starting)
    /\ starting => /\ pc[Main] \in ConnectLabel
                   /\ ~mStarted /\ stopping # "dying"

(* Inside stop() the service is not started, and past cancelReconnect the  *)
(* retry alarm is off, unless an earlier crash left one.                   *)
StopInv ==
    /\ Stopping => ~mStarted /\ ~prefStarted
    /\ stopping = "dying" => ~mStarted
    /\ pc[Main] \in {"stopDisconnect", "stopNull"} /\ crashes = 0
           => ~reconnectAlarm

IInv ==
    /\ TypeOK
    /\ LockInv
    /\ DeadInv
    /\ ConnectInv
    /\ StopInv
    /\ StoppedIsDisconnected
    /\ RestoresWhatRan
    /\ ReceiverIsRegistered
    /\ StoppedHasNoRetry

-----------------------------------------------------------------------------
(* Liveness.                                                               *)

(* "If our process was reaped by the system for any reason we need to      *)
(* restore our state with merely a call to onCreate."                      *)
ResumesAfterCrash == prefStarted /\ ~alive ~> mStarted \/ ~prefStarted

Connecting == \E t \in Thread : pc[t] = "connect"

(* The alarm that a failed connect sets is not lost: while the service is  *)
(* started and online without a connection, it leads to another attempt.   *)
RetryIsAttempted ==
    mStarted /\ mConnection = None /\ reconnectAlarm
        ~> Connecting \/ mConnection # None \/ ~mStarted \/ ~online

Working == mConnection # None /\ client[mConnection] = "up"

(* "This the application level keep-alive interval [...] to keep the       *)
(* connection active": a started service that stays online and without a   *)
(* working connection makes another attempt to connect.                    *)
KeepsConnectionActive ==
    mStarted /\ online /\ ~Working
        ~> Connecting \/ Working \/ ~mStarted \/ ~online
=============================================================================

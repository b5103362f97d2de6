----------------------------- MODULE Transmitter -----------------------------
(***************************************************************************)
(* The transmitter, transmitter/index.js: it polls the database for new    *)
(* notifications, looks up the users of the node of each one and then the  *)
(* clients of these users, hands the notification to APNs or to the MQTT   *)
(* client, and marks it sent.                                              *)
(*                                                                         *)
(* One node and its subscribers are modelled.  The process is a single     *)
(* JavaScript thread: a step is one callback, and everything else happens  *)
(* between callbacks.  The web and the API change the database meanwhile.  *)
(***************************************************************************)
EXTENDS Naturals, FiniteSets, MqttClient

CONSTANTS
    Msg,            \* notifications, as their _id: a set of numbers
    User,
    Client,         \* registered devices
    Ios,            \* those reached through APNs; the rest use MQTT
    None,           \* the owner of a device that is not registered
    Limit,          \* how many notifications a poll takes (10)
    UsersCallsBack, \* does nodes.users call the callback it is given?
    MaxChurn,       \* bound: changes of roster and clients
    MaxFaults       \* bound: crashes, database errors and lost updates

ASSUME TransmitterAssumption ==
    /\ Msg \subseteq Nat
    /\ Ios \subseteq Client
    /\ None \notin User
    /\ Limit \in Nat \ {0}
    /\ UsersCallsBack \in BOOLEAN
    /\ MaxChurn \in Nat /\ MaxFaults \in Nat

VARIABLES
    created,    \* the notifications in the database
    sent,       \* those with the field sent
    expired,    \* those createdAt longer ago than the delay
    roster,     \* the users of the node
    owner,      \* clients: the user of each registered device
    phase,      \* what the process waits for
    batch,      \* notifications of this poll that are still to be done
    logins,     \* result of nodes.users
    marks,      \* updates {sent: true} on their way to the database
    churn, faults,
    offered,    \* history: <<m, c>> handed to APNs or written to MQTT
    dropped,    \* history: <<m, c>> published without a connection
    excused,    \* history: notifications whose delivery met a fault
    entitled    \* history: devices whose user was on the roster ever since m
                \* was created, the same user all the time

dbVars   == <<created, sent, expired, roster, owner, marks>>
loopVars == <<phase, batch, logins>>
history  == <<offered, dropped, excused, entitled>>
vars == <<mqVars, dbVars, loopVars, churn, faults, history>>

(* The values of the variables.                                            *)
TypeOK ==
    /\ MqTypeOK
    /\ created \subseteq Msg /\ sent \subseteq Msg /\ expired \subseteq Msg
    /\ roster \subseteq User
    /\ owner \in [Client -> User \cup {None}]
    /\ phase \in {"start", "find", "users", "clients", "timer"}
    /\ batch \subseteq Msg /\ logins \subseteq User /\ marks \subseteq Msg
    /\ churn \in Nat /\ faults \in Nat
    /\ offered \subseteq Msg \X Client /\ dropped \subseteq Msg \X Client
    /\ excused \subseteq Msg
    /\ entitled \in [Msg -> SUBSET Client]

Init ==
    /\ MqInit
    /\ created = {} /\ sent = {} /\ expired = {} /\ marks = {}
    /\ roster \in SUBSET User
    /\ owner \in [Client -> User \cup {None}]
    /\ phase = "start" /\ batch = {} /\ logins = {}
    /\ churn = 0 /\ faults = 0
    /\ offered = {} /\ dropped = {} /\ excused = {}
    /\ entitled = [m \in Msg |-> {}]

Entitled(r, o) == {c \in Client : o[c] \in r}

-----------------------------------------------------------------------------
(* The web, the API and the mail server, on the same database.             *)

CreateMessage(m) ==
    /\ m \notin created
    /\ created' = created \cup {m}
    /\ entitled' = [entitled EXCEPT ![m] = Entitled(roster, owner)]
    /\ UNCHANGED <<mqVars, sent, expired, roster, owner, marks, loopVars,
                   churn, faults, offered, dropped, excused>>

Expire(m) ==
    /\ m \in created \ expired
    /\ expired' = expired \cup {m}
    /\ UNCHANGED <<mqVars, created, sent, roster, owner, marks, loopVars,
                   churn, faults, history>>

(* follow or unfollow; register_client or del_client.                      *)
Churn(r, o) ==
    /\ churn < MaxChurn
    /\ churn' = churn + 1
    /\ roster' = r
    /\ owner' = o
    /\ entitled' = [m \in Msg |->
                      {c \in entitled[m] : o[c] = owner[c] /\ o[c] \in r}]
    /\ UNCHANGED <<mqVars, created, sent, expired, marks, loopVars, faults,
                   offered, dropped, excused>>

Follow(u)   == u \notin roster /\ Churn(roster \cup {u}, owner)
Unfollow(u) == u \in roster /\ Churn(roster \ {u}, owner)
RegisterClient(c, u) ==
    owner[c] # u /\ Churn(roster, [owner EXCEPT ![c] = u])
DelClient(c) ==
    owner[c] # None /\ Churn(roster, [owner EXCEPT ![c] = None])

-----------------------------------------------------------------------------
(* The MQTT client and the process.                                        *)

Fault == faults < MaxFaults /\ faults' = faults + 1

(* The listener of sessionOpened calls send().                             *)
Opens ==
    /\ SessionOpens
    /\ phase' = "find"
    /\ UNCHANGED <<dbVars, batch, logins, churn, faults, history>>

MqEvent ==
    /\ \/ SocketConnects \/ BrokerEnds \/ TimeUpPings \/ TimeUpUnknown
    /\ UNCHANGED <<dbVars, loopVars, churn, faults, history>>

ProcessEnds ==
    /\ phase' = "start" /\ batch' = {} /\ logins' = {}
    /\ UNCHANGED <<dbVars, churn, offered, dropped, entitled>>

MqExits ==
    /\ TimeUpExits
    /\ ProcessEnds
    /\ UNCHANGED <<faults, excused>>

MqFails ==
    /\ Fault
    /\ SocketFails \/ SessionRefused
    /\ ProcessEnds
    /\ UNCHANGED excused

Restart ==
    /\ StartProcess
    /\ UNCHANGED <<dbVars, loopVars, churn, faults, history>>

-----------------------------------------------------------------------------
(* send() and its callbacks.                                               *)

(* Not sent and not too old.  Updates and queries share one connection to  *)
(* the database, so the updates written before the query come first.       *)
Unsent == created \ (sent \cup expired)

First(n, S) == {m \in S : Cardinality({k \in S : k < m}) < n}

FindDoesNotWait ==
    /\ phase = "find"
    /\ batch' = First(Limit, Unsent)
    /\ phase' = IF batch' = {} THEN "timer" ELSE "users"
    /\ UNCHANGED <<mqVars, dbVars, logins, churn, faults, history>>

FindStopsPolling ==
    /\ phase = "find"
    /\ marks = {}
    /\ batch' = First(Limit, Unsent)
    /\ phase' = "users"
    /\ UNCHANGED <<mqVars, dbVars, logins, churn, faults, history>>

FindReturns ==
    /\ phase = "find"
    /\ marks = {}
    /\ batch' = First(Limit, Unsent)
    /\ phase' = IF batch' = {} THEN "timer" ELSE "users"
    /\ UNCHANGED <<mqVars, dbVars, logins, churn, faults, history>>

FindFails ==
    /\ Fault
    /\ phase = "find"
    /\ phase' = "timer"
    /\ UNCHANGED <<mqVars, dbVars, batch, logins, churn, history>>

(* delaySend                                                               *)
TimerFires ==
    /\ phase = "timer"
    /\ phase' = "find"
    /\ UNCHANGED <<mqVars, dbVars, batch, logins, churn, faults, history>>

UsersCached ==
    /\ phase = "users"
    /\ UsersCallsBack
    /\ logins' = IF logins = {} THEN roster ELSE logins
    /\ phase' = "clients"
    /\ UNCHANGED <<mqVars, dbVars, batch, churn, faults, history>>

(* The callback given to nodes.users.                                      *)
UsersReturns ==
    /\ phase = "users"
    /\ UsersCallsBack
    /\ logins' = roster
    /\ phase' = "clients"
    /\ UNCHANGED <<mqVars, dbVars, batch, churn, faults, history>>

(* With an error it dereferences docs, which is undefined.                 *)
UsersFails ==
    /\ Fault
    /\ phase = "users"
    /\ UsersCallsBack
    /\ Exit
    /\ ProcessEnds
    /\ UNCHANGED excused

Current(m) == m \in batch /\ \A n \in batch : m <= n

Docs == {c \in Client : owner[c] \in logins}

PushSwapped(m, D) ==
    LET reached == {c \in D : c \in Ios \/ connected}
    IN  /\ offered' = offered \cup (reached \X {m})
        /\ dropped' = dropped \cup ({m} \X (D \ reached))

(* Hand m to the devices of D: APNs takes it always, MQTT if connected.    *)
Push(m, D) ==
    LET reached == {c \in D : c \in Ios \/ connected}
    IN  /\ offered' = offered \cup ({m} \X reached)
        /\ dropped' = dropped \cup ({m} \X (D \ reached))

DoneUnmarked(m) ==
    /\ batch' = batch \ {m}
    /\ phase' = IF batch' = {} THEN "timer" ELSE "users"
    /\ UNCHANGED <<created, sent, expired, roster, owner, marks, logins>>

(* The end of the iteration for m: mark it, and go on to the next one.     *)
Done(m) ==
    /\ marks' = marks \cup {m}
    /\ batch' = batch \ {m}
    /\ phase' = IF batch' = {} THEN "timer" ELSE "users"
    /\ UNCHANGED <<created, sent, expired, roster, owner, logins>>

ClientsReturns(m) ==
    /\ phase = "clients"
    /\ Current(m)
    /\ Push(m, Docs)
    /\ IF Docs \subseteq Ios THEN UNCHANGED mqVars ELSE Publish
    /\ Done(m)
    /\ UNCHANGED <<churn, faults, excused, entitled>>

(* With an error it pushes nothing, and marks it sent all the same.        *)
ClientsFails(m) ==
    /\ Fault
    /\ phase = "clients"
    /\ Current(m)
    /\ Done(m)
    /\ excused' = excused \cup {m}
    /\ UNCHANGED <<mqVars, churn, offered, dropped, entitled>>

(* The process dies among its writes: some devices have m, no mark.        *)
DiesPushing(m) ==
    /\ Fault
    /\ phase = "clients"
    /\ Current(m)
    /\ \E D \in SUBSET Docs : Push(m, D)
    /\ excused' = excused \cup {m}
    /\ Exit
    /\ phase' = "start" /\ batch' = {} /\ logins' = {}
    /\ UNCHANGED <<dbVars, churn, entitled>>

(* The update is not acknowledged: it is applied, or lost in silence.      *)
MarkApplied(m) ==
    /\ m \in marks
    /\ marks' = marks \ {m}
    /\ sent' = sent \cup {m}
    /\ UNCHANGED <<mqVars, created, expired, roster, owner, loopVars, churn,
                   faults, history>>

MarkLost(m) ==
    /\ Fault
    /\ m \in marks
    /\ marks' = marks \ {m}
    /\ excused' = excused \cup {m}
    /\ UNCHANGED <<mqVars, created, sent, expired, roster, owner, loopVars,
                   churn, offered, dropped, entitled>>

-----------------------------------------------------------------------------
Others ==
    \/ \E m \in Msg : CreateMessage(m) \/ Expire(m)
    \/ \E u \in User : Follow(u) \/ Unfollow(u)
    \/ \E c \in Client : DelClient(c) \/ \E u \in User : RegisterClient(c, u)

Process == Opens \/ MqEvent \/ MqExits \/ MqFails \/ Restart

Send ==
    \/ FindReturns \/ FindFails \/ TimerFires \/ UsersReturns \/ UsersFails
    \/ \E m \in Msg : \/ ClientsReturns(m) \/ ClientsFails(m)
                      \/ DiesPushing(m)
                      \/ MarkApplied(m) \/ MarkLost(m)

Next == Others \/ Process \/ Send

Spec == Init /\ [][Next]_vars

(* The database answers sooner or later, and timers fire.  Nothing in the  *)
(* repository starts the process again by itself.                          *)
Fairness ==
    /\ WF_vars(FindReturns) /\ WF_vars(TimerFires) /\ WF_vars(UsersReturns)
    /\ \A m \in Msg : WF_vars(ClientsReturns(m)) /\ WF_vars(MarkApplied(m))
    /\ WF_vars(MqExits)

FairSpec == Spec /\ Fairness

-----------------------------------------------------------------------------
(* Safety.                                                                 *)

(* Once its session was open, the client always has its timer set, so it   *)
(* will find out when the broker ends the connection (BrokerEnds leaves    *)
(* the timer alone, timeUp and publish set it again).                      *)
TimerIsSet == phase # "start" => timer

(* What a device was offered is marked sent, or about to be, unless a      *)
(* fault hit that very notification.                                       *)
OfferedIsMarked ==
    \A m \in Msg, c \in Client :
        <<m, c>> \in offered \cup dropped => m \in sent \cup marks \cup excused

(* No device is offered a notification twice, unless a fault hit that      *)
(* very notification: a poll never picks up what an earlier one has done.  *)
OfferedOnce ==
    [][\A m \in Msg : \A c \in Client :
          ClientsReturns(m) /\ c \in Docs /\ m \notin excused
              => <<m, c>> \notin offered \cup dropped]_vars

(* Nobody is left out: a notification is marked sent only after it was     *)
(* pushed to every device that was entitled to it all the time, although   *)
(* users and clients are read in two steps while both change.              *)
SentToAll ==
    \A m \in (sent \cup marks) \ excused : \A c \in entitled[m] :
        <<m, c>> \in offered \cup dropped

-----------------------------------------------------------------------------
(* The abstract specification: a notification is done once its mark is on  *)
(* the way, and given when it was handed to APNs or to the MQTT client.    *)
Promise == INSTANCE Delivery WITH
    done <- sent \cup marks, given <- offered \cup dropped

(* The loop, with its reads, updates, restarts and the database that       *)
(* changes under it, does nothing that Delivery does not allow.            *)
ImplementsDelivery == Promise!Spec

-----------------------------------------------------------------------------
(* The inductive invariant.                                                *)

(* What is still to be done in this poll is in the database, not marked.   *)
BatchInv ==
    /\ sent \cup marks \subseteq created
    /\ batch \subseteq created \ (sent \cup marks)

(* Entitlement is current, and between the two reads the first one still   *)
(* covers it: whoever was entitled all the time is among the users read.   *)
EntitledInv ==
    /\ \A m \in Msg : \A c \in entitled[m] :
          m \in created /\ owner[c] \in roster
    /\ phase = "clients" =>
          \A m \in batch : \A c \in entitled[m] : owner[c] \in logins

IInv == TypeOK /\ BatchInv /\ EntitledInv /\ OfferedIsMarked /\ SentToAll

-----------------------------------------------------------------------------
(* Liveness.                                                               *)

(* A notification in the database is sent, as long as it is not too old    *)
(* and the process with its open session goes on.                          *)
NotificationIsSent ==
    \A m \in Msg :
        m \in created /\ phase # "start"
            ~> m \in sent \cup expired \/ phase = "start"

(* A process without a connection, because it is not there yet or because  *)
(* the broker ended it, gets one or exits: connect, end and timeUp of      *)
(* MQTTClient.js.  Excepted is one whose timer went off while it waited    *)
(* for the CONNACK ("Unknow state"): nothing sets the timer again before   *)
(* the session is open, and without it the process stays.                  *)
ConnectedOrExits ==
    running /\ tcp # "open" /\ (timer \/ phase # "start")
        ~> tcp = "open" \/ ~running
=============================================================================

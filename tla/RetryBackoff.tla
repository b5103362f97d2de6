----------------------------- MODULE RetryBackoff -----------------------------
(***************************************************************************)
(* When the Android push service tries to connect again: scheduleReconnect *)
(* of PushService.java, with the wall clock, the alarm it sets, and the    *)
(* start time it measures from.  PushService has the rest of the service   *)
(* and lets the alarm fire at any time; here there is one thread, because  *)
(* scheduleReconnect only runs inside the monitor.                         *)
(***************************************************************************)
EXTENDS Integers

CONSTANTS
    Initial,     \* INITIAL_RETRY_INTERVAL
    Maximum,     \* MAXIMUM_RETRY_INTERVAL
    None,        \* no alarm is set
    MaxTime,     \* bound: the wall clock
    MaxSetBacks  \* bound: times somebody sets the clock back

ASSUME RetryAssumption ==
    /\ Initial \in Nat \ {0}
    /\ Maximum \in Nat /\ Initial <= Maximum
    /\ None \notin Int
    /\ MaxTime \in Nat
    /\ MaxSetBacks \in Nat

VARIABLES
    now,        \* System.currentTimeMillis()
    alive,      \* a service instance exists
    connected,  \* it has a connection
    mStartTime,
    retry,      \* PREF_RETRY in the shared preferences
    alarm,      \* when the RECONNECT alarm goes off, or None
    setBacks,
    measured    \* history: mStartTime when the alarm was set; None when the
                \* clock was set back after it, or the instance is another one

retryVars ==
    <<now, alive, connected, mStartTime, retry, alarm, setBacks, measured>>

(* The values of the variables.                                            *)
TypeOK ==
    /\ now \in Nat
    /\ alive \in BOOLEAN /\ connected \in BOOLEAN
    /\ mStartTime \in Nat
    /\ retry \in Nat
    /\ alarm \in Nat \cup {None}
    /\ setBacks \in Nat
    /\ measured \in Nat \cup {None}

Init ==
    /\ now = 0
    /\ alive = FALSE /\ connected = FALSE
    /\ mStartTime = 0
    /\ retry = Initial
    /\ alarm = None /\ measured = None
    /\ setBacks = 0

-----------------------------------------------------------------------------
(* The clock.                                                              *)

Tick ==
    /\ now < MaxTime
    /\ now' = now + 1
    /\ UNCHANGED <<alive, connected, mStartTime, retry, alarm, setBacks,
                   measured>>

SetBack(time) ==
    /\ setBacks < MaxSetBacks
    /\ time < now
    /\ now' = time
    /\ setBacks' = setBacks + 1
    /\ measured' = None
    /\ UNCHANGED <<alive, connected, mStartTime, retry, alarm>>

-----------------------------------------------------------------------------
(* The service.                                                            *)

Create ==
    /\ ~alive
    /\ alive' = TRUE
    /\ mStartTime' = now
    /\ UNCHANGED <<now, connected, retry, alarm, setBacks, measured>>

(* The process is killed or the service destroyed.                         *)
Ends ==
    /\ alive
    /\ alive' = FALSE /\ connected' = FALSE
    /\ measured' = None
    /\ UNCHANGED <<now, mStartTime, retry, alarm, setBacks>>

IntervalUncapped ==
    IF now - mStartTime < retry THEN retry * 4 ELSE Initial

IntervalKept ==
    IF now - mStartTime < retry
    THEN IF retry * 4 <= Maximum THEN retry * 4 ELSE Maximum
    ELSE retry

Interval ==
    IF now - mStartTime < retry
    THEN IF retry * 4 <= Maximum THEN retry * 4 ELSE Maximum
    ELSE Initial

ScheduleReconnect ==
    /\ retry' = Interval
    /\ alarm' = now + Interval
    /\ measured' = IF mStartTime <= now THEN mStartTime ELSE None

(* connect() in the service, for another reason than the alarm: a start, a *)
(* broadcast, a lost connection, a restart.                                *)
Fails ==
    /\ alive /\ ~connected
    /\ ScheduleReconnect
    /\ UNCHANGED <<now, alive, connected, mStartTime, setBacks>>

(* It does not cancel the alarm of an earlier attempt.                     *)
Succeeds ==
    /\ alive /\ ~connected
    /\ connected' = TRUE
    /\ mStartTime' = now
    /\ UNCHANGED <<now, alive, retry, alarm, setBacks, measured>>

(* connectionLost                                                          *)
Lost ==
    /\ connected
    /\ connected' = FALSE
    /\ UNCHANGED <<now, alive, mStartTime, retry, alarm, setBacks, measured>>

(* cancelReconnect, from stop, keepAlive or the connectivity receiver.     *)
CancelReconnect ==
    /\ alarm # None
    /\ alarm' = None /\ measured' = None
    /\ UNCHANGED <<now, alive, connected, mStartTime, retry, setBacks>>

AlarmDue == alarm # None /\ alarm <= now /\ alive

(* The alarm goes off, and the attempt it leads to fails.                  *)
AlarmFails ==
    /\ AlarmDue
    /\ ~connected
    /\ ScheduleReconnect
    /\ UNCHANGED <<now, alive, connected, mStartTime, setBacks>>

(* The same, but it succeeds, or nothing is to be done.                    *)
AlarmEnds ==
    /\ AlarmDue
    /\ alarm' = None /\ measured' = None
    /\ connected' \in BOOLEAN
    /\ connected => connected'
    /\ mStartTime' = IF connected' /\ ~connected THEN now ELSE mStartTime
    /\ UNCHANGED <<now, alive, retry, setBacks>>

Next ==
    \/ Tick
    \/ \E time \in 0..MaxTime : SetBack(time)
    \/ Create \/ Ends \/ Fails \/ Succeeds \/ Lost
    \/ CancelReconnect \/ AlarmFails \/ AlarmEnds

Spec == Init /\ [][Next]_retryVars

-----------------------------------------------------------------------------
(* The saved interval stays between the two constants, through restarts    *)
(* and whatever the clock does (PREF_RETRY, scheduleReconnect).            *)
RetryInRange == Initial <= retry /\ retry <= Maximum

(* Unless somebody sets the clock back, the next attempt is never further  *)
(* away than MAXIMUM_RETRY_INTERVAL.                                       *)
AlarmIsNear == alarm # None /\ setBacks = 0 => alarm <= now + Maximum

(* The interval does not grow from one alarm to the next: when the alarm   *)
(* goes off, at least the saved interval has passed since the start time   *)
(* the next one is measured from, so it is INITIAL_RETRY_INTERVAL again    *)
(* (unless the service reconnected, was restarted or the clock set back    *)
(* meanwhile).                                                             *)
AlarmRetryResets ==
    [][AlarmFails /\ measured = mStartTime => retry' = Initial]_retryVars

(* The inductive invariant: the alarm is at least the saved interval after *)
(* the start time it was measured from.                                    *)
MeasuredInv ==
    measured # None =>
        /\ alarm # None
        /\ measured + retry <= alarm
        /\ measured <= mStartTime /\ mStartTime <= now

StartedInv == setBacks = 0 => mStartTime <= now

IInv ==
    /\ TypeOK
    /\ RetryInRange
    /\ AlarmIsNear
    /\ MeasuredInv
    /\ StartedInv
=============================================================================

-------------------------- MODULE RetryBackoffProofs --------------------------
(***************************************************************************)
(* Proofs about RetryBackoff: whatever the two intervals are, the saved    *)
(* interval stays between them and the retries do not slow down.           *)
(***************************************************************************)
EXTENDS RetryBackoff, TLAPS

(* The interval that scheduleReconnect computes is in range.               *)
LEMMA IntervalInRange ==
    ASSUME IInv
    PROVE  Interval \in Nat /\ Initial <= Interval /\ Interval <= Maximum
BY RetryAssumption DEF Interval, IInv, TypeOK, RetryInRange

LEMMA InitIInv == Init => IInv
<1> SUFFICES ASSUME Init
             PROVE  IInv
  OBVIOUS
<1>1. TypeOK
  BY RetryAssumption DEF Init, TypeOK
<1>2. RetryInRange
  BY RetryAssumption DEF Init, RetryInRange
<1>3. AlarmIsNear /\ MeasuredInv /\ StartedInv
  BY DEF Init, AlarmIsNear, MeasuredInv, StartedInv
<1> QED
  BY <1>1, <1>2, <1>3 DEF IInv

(* What a failed attempt does to the invariant, whoever made it.           *)
LEMMA ScheduleKeepsIInv ==
    ASSUME IInv, ScheduleReconnect,
           UNCHANGED <<now, alive, connected, mStartTime, setBacks>>
    PROVE  IInv'
<1>1. PICK i \in Nat : i = Interval /\ Initial <= i /\ i <= Maximum
  BY IntervalInRange
<1>2. retry' = i /\ alarm' = now + i
  BY <1>1 DEF ScheduleReconnect
<1>3. TypeOK' /\ RetryInRange'
  BY <1>1, <1>2 DEF ScheduleReconnect, IInv, TypeOK, RetryInRange
<1>4. AlarmIsNear' /\ StartedInv'
  BY <1>1, <1>2, RetryAssumption DEF IInv, TypeOK, AlarmIsNear, StartedInv
<1>5. MeasuredInv'
  BY <1>1, <1>2, RetryAssumption
     DEF ScheduleReconnect, IInv, TypeOK, MeasuredInv
<1> QED
  BY <1>3, <1>4, <1>5 DEF IInv

LEMMA NextIInv == IInv /\ [Next]_retryVars => IInv'
<1> SUFFICES ASSUME IInv, [Next]_retryVars
             PROVE  IInv'
  OBVIOUS
<1> USE RetryAssumption
        DEF IInv, TypeOK, RetryInRange, AlarmIsNear, MeasuredInv, StartedInv
<1>1. CASE Tick
  BY <1>1 DEF Tick
<1>2. ASSUME NEW time \in 0..MaxTime, SetBack(time)
      PROVE  IInv'
  BY <1>2 DEF SetBack
<1>3. CASE Create
  BY <1>3 DEF Create
<1>4. CASE Ends
  BY <1>4 DEF Ends
<1>5. CASE Fails
  BY <1>5, ScheduleKeepsIInv DEF Fails
<1>6. CASE Succeeds
  BY <1>6 DEF Succeeds
<1>7. CASE Lost
  BY <1>7 DEF Lost
<1>8. CASE CancelReconnect
  BY <1>8 DEF CancelReconnect
<1>9. CASE AlarmFails
  BY <1>9, ScheduleKeepsIInv DEF AlarmFails
<1>10. CASE AlarmEnds
  BY <1>10 DEF AlarmEnds
<1>11. CASE UNCHANGED retryVars
  BY <1>11 DEF retryVars
<1> QED
  BY <1>1, <1>2, <1>3, <1>4, <1>5, <1>6, <1>7, <1>8, <1>9, <1>10, <1>11
     DEF Next

(* The inductive invariant holds throughout.                               *)
THEOREM Safety == Spec => []IInv
BY InitIInv, NextIInv, PTL DEF Spec

(* PREF_RETRY stays between INITIAL_ and MAXIMUM_RETRY_INTERVAL.           *)
THEOREM RetryStaysInRange == Spec => []RetryInRange
<1>1. IInv => RetryInRange
  BY DEF IInv
<1> QED
  BY Safety, <1>1, PTL

(* With a clock that only goes forward, the next attempt is near.          *)
THEOREM NextRetryIsNear == Spec => []AlarmIsNear
<1>1. IInv => AlarmIsNear
  BY DEF IInv
<1> QED
  BY Safety, <1>1, PTL

(* From one alarm to the next, the interval never grows.                   *)
THEOREM AlarmsDoNotBackOff == Spec => AlarmRetryResets
<1>1. IInv /\ [Next]_retryVars
         => [AlarmFails /\ measured = mStartTime => retry' = Initial]_retryVars
  <2> SUFFICES ASSUME IInv, AlarmFails, measured = mStartTime
               PROVE  retry' = Initial
    OBVIOUS
  <2>1. mStartTime + retry <= alarm /\ alarm <= now
    BY RetryAssumption DEF IInv, TypeOK, MeasuredInv, AlarmFails, AlarmDue
  <2>2. ~(now - mStartTime < retry)
    BY <2>1, RetryAssumption DEF IInv, TypeOK, AlarmFails, AlarmDue
  <2> QED
    BY <2>2 DEF AlarmFails, ScheduleReconnect, Interval
<1> QED
  BY Safety, <1>1, PTL DEF Spec, AlarmRetryResets
=============================================================================

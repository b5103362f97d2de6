------------------------------ MODULE Delivery -------------------------------
(***************************************************************************)
(* What the transmitter promises, without its polling, its two reads, its  *)
(* connections and its process: each notification is done once, in one     *)
(* step, and then every device that was entitled to it has it.  Only a     *)
(* fault that hits the notification itself excuses it.  Transmitter        *)
(* implements this.                                                        *)
(***************************************************************************)
CONSTANTS Msg, Client

VARIABLES
    created,   \* the notifications there are
    done,      \* those that need no more work
    given,     \* <<m, c>>: m was handed over for device c
    excused,   \* those that were hit by a fault
    entitled   \* the devices entitled to m, from its creation on

deliveryVars == <<created, done, given, excused, entitled>>

Init ==
    /\ created = {} /\ done = {} /\ given = {} /\ excused = {}
    /\ entitled = [m \in Msg |-> {}]

Create(m) ==
    /\ m \notin created
    /\ created' = created \cup {m}
    /\ \E D \in SUBSET Client : entitled' = [entitled EXCEPT ![m] = D]
    /\ UNCHANGED <<done, given, excused>>

(* Users and devices change: entitlement is lost, and not won again.       *)
Loses ==
    /\ entitled' \in [Msg -> SUBSET Client]
    /\ \A m \in Msg : entitled'[m] \subseteq entitled[m]
    /\ UNCHANGED <<created, done, given, excused>>

(* Every device that is entitled gets m, perhaps others do, and none that  *)
(* has it already, unless a fault excuses that.                            *)
Deliver(m) ==
    /\ m \in created \ done
    /\ \E D \in SUBSET Client :
          /\ entitled[m] \subseteq D
          /\ m \notin excused => \A c \in D : <<m, c>> \notin given
          /\ given' = given \cup ({m} \X D)
    /\ done' = done \cup {m}
    /\ UNCHANGED <<created, excused, entitled>>

(* Some devices get m or none does, and it is done, undone or as before.   *)
Fault(m) ==
    /\ m \in created
    /\ excused' = excused \cup {m}
    /\ \E D \in SUBSET Client : given' = given \cup ({m} \X D)
    /\ done' \in {done, done \cup {m}, done \ {m}}
    /\ UNCHANGED <<created, entitled>>

Next ==
    \/ \E m \in Msg : Create(m) \/ Deliver(m) \/ Fault(m)
    \/ Loses

Spec == Init /\ [][Next]_deliveryVars
=============================================================================

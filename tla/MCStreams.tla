------------------------------ MODULE MCStreams ------------------------------
(* The two byte streams of the repository, which have nothing to do with   *)
(* each other: one behaviour belongs to one of them, the other one keeps   *)
(* its initial state, so that the state spaces add up.                     *)
EXTENDS MqttLink, Feedback

VARIABLE stream

StreamsTypeOK == LinkTypeOK /\ FeedbackTypeOK

Init == LinkInit /\ FeedbackInit /\ stream \in {"link", "feedback"}
Next ==
    \/ stream = "link" /\ LinkNext /\ UNCHANGED <<stream, fbVars>>
    \/ stream = "feedback" /\ FeedbackNext /\ UNCHANGED <<stream, linkVars>>
Spec == Init /\ [][Next]_<<stream, linkVars, fbVars>>
==============================================================================

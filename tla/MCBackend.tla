------------------------------ MODULE MCBackend ------------------------------
(* One behaviour is about two requests at a time while the mail server      *)
(* rests, or about one request at a time beside the mail server.            *)
EXTENDS Backend, TLC
CONSTANT Founder
VARIABLE part

OneOwner == [n \in Node |-> Founder]
Symmetry == Permutations(Request) \cup Permutations(Session)

BackendInit == Init /\ part \in {"requests", "mail"}
BackendNext ==
    /\ UNCHANGED part
    /\ \/ /\ RosterNext /\ UNCHANGED mailVars
          /\ part = "mail" => \E r \in Request :
                \A q \in Request \ {r} : task'[q] = Idle
       \/ part = "mail" /\ MailNext
BackendSpec == BackendInit /\ [][BackendNext]_<<vars, part>>

(* What decides how a request goes on: op is read until the node and its   *)
(* users are, user and owned only by unfollow, login only by what is about *)
(* a user.                                                                 *)
Used(t) ==
    LET reads == t.at \in {"node", "users"}
        about == {"share", "shareNode", "initNode", "unfollow", "unfollowing"}
    IN  IF reads /\ t.op = "unfollow" THEN t
        ELSE [t EXCEPT !.op = IF reads THEN @ ELSE "post",
                       !.login = IF t.at \in about \/ t.op = "share"
                                 THEN @ ELSE Founder,
                       !.user = Founder, !.owned = TRUE]

(* States that differ only in what nothing reads any more count as one:    *)
(* they have the same successors, and the properties do not tell them      *)
(* apart.                                                                  *)
View ==
    <<part, nodes, roster, messages, cut, torn, resurrected, late, rcpts,
      IF \E s \in Session : rcpts[s] # {} THEN held ELSE NoNode,
      [r \in Request |-> IF task[r] = Idle THEN Idle ELSE Used(task[r])]>>
=============================================================================

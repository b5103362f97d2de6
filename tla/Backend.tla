------------------------------- MODULE Backend -------------------------------
(***************************************************************************)
(* The web site, the API server and the mail plugin on one database: the   *)
(* requests of Roster beside the SMTP sessions of push/plugins/message.js. *)
(* The mail server runs in one process, and every session calls the same   *)
(* plugin object, whose field __node they share.                           *)
(***************************************************************************)
EXTENDS Roster

CONSTANTS
    Session,  \* bound: SMTP connections at a time
    NoNode    \* no node

ASSUME BackendAssumption == NoNode \notin Node

VARIABLES
    rcpts,    \* the recipients each session has been granted
    held      \* the field __node of the plugin

mailVars == <<rcpts, held>>
vars == <<rosterVars, mailVars>>

(* The values of the variables.                                            *)
TypeOK ==
    /\ RosterTypeOK
    /\ rcpts \in [Session -> SUBSET Node]
    /\ held \in Node \cup {NoNode}

Init ==
    /\ RosterInit
    /\ rcpts = [s \in Session |-> {}]
    /\ held = NoNode

-----------------------------------------------------------------------------
(* The look-up of a recipient returns a node, and the key in the address   *)
(* is right, or the node has none.                                         *)
RcptAccepted(s, n) ==
    /\ nodes[n] # "none"
    /\ held' = n
    /\ rcpts' = [rcpts EXCEPT ![s] = @ \cup {n}]
    /\ UNCHANGED rosterVars

(* The data of a mail that has a text.                                     *)
DataPost(s) ==
    /\ rcpts[s] # {}
    /\ CreateMessage(held)
    /\ rcpts' = [rcpts EXCEPT ![s] = {}]
    /\ UNCHANGED <<nodes, roster, task, cut, torn, resurrected, held>>

(* The session ends, begins again, or sends a mail without a text.         *)
Resets(s) ==
    /\ rcpts[s] # {}
    /\ rcpts' = [rcpts EXCEPT ![s] = {}]
    /\ UNCHANGED <<rosterVars, held>>

(* The process of the mail server is replaced.                             *)
MailRestarts ==
    /\ held # NoNode
    /\ rcpts' = [s \in Session |-> {}]
    /\ held' = NoNode
    /\ UNCHANGED rosterVars

MailNext ==
    \/ \E s \in Session :
          \/ \E n \in Node : RcptAccepted(s, n)
          \/ DataPost(s) \/ Resets(s)
    \/ MailRestarts

Next == (RosterNext /\ UNCHANGED mailVars) \/ MailNext

Spec == Init /\ [][Next]_vars

-----------------------------------------------------------------------------
(* A mail that has a recipient finds a node in the plugin, whatever the    *)
(* other sessions do.                                                      *)
HeldWhenNeeded == \A s \in Session : rcpts[s] # {} => held # NoNode

(* A node without all its fields was inserted by rename.                   *)
GhostIsResurrected ==
    \A n \in Node :
        nodes[n] \in {"ghost", "keyless"} => n \in resurrected

(* A page that read such a node, and the removal of an owner that only     *)
(* such a page can lead to.                                                *)
PageOfGhost ==
    \A r \in Request :
        task[r] # Idle =>
            /\ ~task[r].owned => task[r].node \in resurrected
            /\ task[r].at \in {"unfollow", "unfollowing"}
                   /\ task[r].login = Owner[task[r].node]
                   => task[r].node \in resurrected

(* The requests that create or import are about the owner.                 *)
InitByOwner ==
    \A r \in Request :
        task[r] # Idle /\ task[r].at \in {"insert", "update", "init"}
            => task[r].login = Owner[task[r].node]

(* A subscription that is not torn: inserts or removals of it are under    *)
(* way, never both; a half insert has written its first row, and a removal *)
(* has still to remove every row that there is.                            *)
Intact(u, n) ==
    LET s == <<u, n>>
    IN  /\ \/ s \in roster <=> <<n, u>> \in roster
           \/ UnderWay(s, Inserting \cup Removing)
        /\ UnderWay(s, Inserting) => s \in roster
        /\ \A r \in Request :
              At(r, s, Removing) => roster \cap {s, <<n, u>>} \subseteq task[r].left
        /\ ~(UnderWay(s, Inserting) /\ UnderWay(s, Removing))

IntactUnlessTorn == \A u \in User, n \in Node : <<u, n>> \in torn \/ Intact(u, n)

(* The inductive invariant.                                                *)
IInv ==
    /\ TypeOK
    /\ OwnerKeepsNode
    /\ DeletedTakesMessages
    /\ HeldWhenNeeded
    /\ GhostIsResurrected
    /\ PageOfGhost
    /\ InitByOwner
    /\ IntactUnlessTorn

-----------------------------------------------------------------------------
(* The message of a mail is stored for a recipient of that mail: node is   *)
(* the node it belongs to (doc/data.md), and push/plugins/message.js takes *)
(* it from a field that another session may have set since.                *)
MailToRecipient ==
    [][\A s \in Session : DataPost(s) => held \in rcpts[s]]_vars
=============================================================================

------------------------------- MODULE Roster --------------------------------
(***************************************************************************)
(* Nodes and their subscribers in the database: the helpers of web/db.js   *)
(* and the requests of web/routes/node.js and api/index.js that call them. *)
(* A subscription is kept twice, as a row of the user and as a row of the  *)
(* node; web and API read the first, the transmitter reads the second.     *)
(*                                                                         *)
(* A request runs from one database operation to the next, and requests of *)
(* several processes interleave between them.  An insert of several rows   *)
(* and a removal of several rows are no unit in the database: each row is  *)
(* a step, and other requests run between two of them.  The name of a node *)
(* begins with the login of its owner, so Owner is fixed; labels are left  *)
(* out, and so are the rows of the services event and status, which        *)
(* nodes.users drops and nothing else reads.                               *)
(***************************************************************************)
EXTENDS Naturals, Sequences

CONSTANTS
    User,
    Node,
    Owner,       \* the user in the name of a node
    Nobody,      \* the field user of a row that has none
    Request,     \* bound: requests that run at a time
    Idle         \* a request that does not run

Operation == {"create", "import", "rename", "share", "unfollow", "destroy",
              "post", "genRoster"}
Label == {"insert", "update", "init", "initNode", "node", "users",
          "rename", "renameNode", "renameRow", "share", "shareNode",
          "unfollow", "unfollowing", "dropRoster", "dropping", "dropNode",
          "dropMessages", "store"}

Row == (User \cup Node \cup {Nobody}) \X (User \cup Node)

(* user: who sends the request; login: the user it is about; at: the       *)
(* database operation that is next or half done; owned: the node that was  *)
(* read has the field user; left: the rows that a removal has found and    *)
(* not yet removed.                                                        *)
Task == [op : Operation, user : User, login : User, node : Node, at : Label,
         owned : BOOLEAN, left : SUBSET Row]

ASSUME RosterAssumption ==
    /\ Owner \in [Node -> User]
    /\ User \cap Node = {}
    /\ Nobody \notin User \cup Node
    /\ Idle \notin Task

VARIABLES
    nodes,       \* "none", "whole", "ghost" (neither user nor apikey), or
                 \* "keyless" (no apikey)
    roster,      \* rows <<user, jid>>
    messages,    \* the nodes that have messages
    task,        \* what each request does
    cut,         \* history: nodes that a request was cut short on, since
                 \* they were last deleted
    torn,        \* history: subscriptions <<user, node>> inserted and removed
                 \* at a time, or cut half way, and not removed since
    resurrected, \* history: nodes that rename inserted
    late         \* history: deleted nodes with a message stored since

rosterVars == <<nodes, roster, messages, task, cut, torn,
                resurrected, late>>

(* The values of the variables.                                            *)
RosterTypeOK ==
    /\ nodes \in [Node -> {"none", "ghost", "keyless", "whole"}]
    /\ roster \subseteq Row
    /\ messages \subseteq Node
    /\ task \in [Request -> Task \cup {Idle}]
    /\ cut \subseteq Node
    /\ torn \subseteq User \X Node
    /\ resurrected \subseteq Node
    /\ late \subseteq Node

RosterInit ==
    /\ nodes = [n \in Node |-> "none"]
    /\ roster = {} /\ messages = {}
    /\ task = [r \in Request |-> Idle]
    /\ cut = {} /\ torn = {} /\ resurrected = {} /\ late = {}

-----------------------------------------------------------------------------
(* How a request proceeds.                                                 *)

Runs(r, label) == task[r] # Idle /\ task[r].at = label

Proceed(r, label) == task' = [task EXCEPT ![r].at = label]

Finish(r) == task' = [task EXCEPT ![r] = Idle]

historyVars == <<cut, torn, resurrected, late>>

-----------------------------------------------------------------------------
(* A request begins with what it looks up first; one that is turned away   *)
(* then leaves no trace.                                                   *)

Begin(r, op, u, l, n, label) ==
    /\ task[r] = Idle
    /\ task' = [task EXCEPT ![r] = [op |-> op, user |-> u, login |-> l,
                    node |-> n, at |-> label, owned |-> TRUE, left |-> {}]]
    /\ UNCHANGED <<nodes, roster, messages, historyVars>>

(* The check that the name is free looks for a field nodes do not have.    *)
Create(r, n) == Begin(r, "create", Owner[n], Owner[n], n, "insert")

Import(r, n) == Begin(r, "import", Owner[n], Owner[n], n,
                      IF nodes[n] = "none" THEN "insert" ELSE "update")

(* The task genRoster.js, for each node it found of its user.              *)
GenRoster(r, n) ==
    /\ nodes[n] \in {"keyless", "whole"}
    /\ Begin(r, "genRoster", Owner[n], Owner[n], n, "init")

(* A request for a page of the node, from its owner or a follower; share   *)
(* and unfollow are about any user.                                        *)
Open(r, op, u, l, n) ==
    /\ op \in {"share", "unfollow"} \/ (op \in {"rename", "destroy"} /\ l = u)
    /\ u = Owner[n] \/ <<u, n>> \in roster
    /\ Begin(r, op, u, l, n, "node")

(* send_notification and send_status; only a node with an apikey answers   *)
(* to its name.                                                            *)
Post(r, n) ==
    /\ nodes[n] = "whole"
    /\ Begin(r, "post", Owner[n], Owner[n], n, "store")

-----------------------------------------------------------------------------
(* The subscriptions that a request inserts or removes, and whether some   *)
(* request is half way through those of s.                                 *)

Subscriptions(t) ==
    {<<u, t.node>> : u \in IF t.at \in {"dropRoster", "dropping"}
                           THEN User ELSE {t.login}}

At(r, s, labels) ==
    task[r] # Idle /\ task[r].at \in labels /\ s \in Subscriptions(task[r])

UnderWay(s, labels) == \E r \in Request : At(r, s, labels)

Half(s) == ~(s \in roster <=> <<s[2], s[1]>> \in roster)

Inserting == {"initNode", "shareNode"}
Removing == {"unfollowing", "dropping"}

(* An operation fails, or the process of the request ends, or the database *)
(* ends between two rows.  Nothing looks for what is left half done.       *)
Abort(r) ==
    /\ task[r] # Idle
    /\ cut' = IF task[r].at \in {"init", "dropping", "dropNode", "dropMessages"}
              THEN cut \cup {task[r].node} ELSE cut
    /\ torn' = IF task[r].at \in Inserting \cup Removing
               THEN torn \cup {s \in Subscriptions(task[r]) : Half(s)} ELSE torn
    /\ Finish(r)
    /\ UNCHANGED <<nodes, roster, messages, resurrected, late>>

-----------------------------------------------------------------------------
(* Inserts into the roster, row by row.  An insert ends at the first row   *)
(* that exists, and nobody is told.                                        *)

InsertRow(r, label, row, next) ==
    LET s == <<task[r].login, task[r].node>>
    IN  /\ Runs(r, label)
        /\ roster' = roster \cup {row}
        /\ torn' = IF /\ row \notin roster /\ label \in {"init", "share"}
                      /\ UnderWay(s, Removing)
                   THEN torn \cup {s} ELSE torn
        /\ IF row \in roster \/ next = "end" THEN Finish(r) ELSE Proceed(r, next)
        /\ UNCHANGED <<nodes, messages, cut, resurrected, late>>

InitRosterOfStored(r) ==
    LET n == task[r].node
        u == IF nodes[n] \in {"none", "ghost"} THEN Nobody ELSE task[r].login
    IN  \/ InsertRow(r, "init", <<u, n>>, "initNode")
        \/ InsertRow(r, "initNode", <<n, u>>, "end")

InitRoster(r) ==
    LET u == task[r].login
        n == task[r].node
    IN  \/ InsertRow(r, "init", <<u, n>>, "initNode")
        \/ InsertRow(r, "initNode", <<n, u>>, "end")

Follow(r) ==
    LET u == task[r].login
        n == task[r].node
    IN  \/ InsertRow(r, "share", <<u, n>>, "shareNode")
        \/ InsertRow(r, "shareNode", <<n, u>>, "end")

-----------------------------------------------------------------------------
(* Removals from the roster, row by row.  A removal meets every row that   *)
(* it matched when it began, in any order, and passes over one that is     *)
(* gone; one that is inserted meanwhile it may meet or miss.               *)

MatchedOneWay(t) ==
    {row \in roster :
        IF t.at \in {"dropRoster", "dropping"}
        THEN row[1] = t.node \/ row[2] = t.node
        ELSE row = <<t.login, t.node>>}

Matched(t) ==
    {row \in roster :
        IF t.at \in {"dropRoster", "dropping"}
        THEN row[1] = t.node \/ row[2] = t.node
        ELSE row \in {<<t.login, t.node>>, <<t.node, t.login>>}}

(* A subscription that is half inserted is torn from here on; a torn one   *)
(* that no other request is half way through is mended.                    *)
RemovalBegins(r, label, next) ==
    LET ours == Subscriptions(task[r])
    IN  /\ Runs(r, label)
        /\ task' = [task EXCEPT ![r].at = next, ![r].left = Matched(task[r])]
        /\ torn' = (torn \ {s \in ours : ~UnderWay(s, Removing)})
                        \cup {s \in ours : UnderWay(s, Inserting)}
        /\ UNCHANGED <<nodes, roster, messages, cut, resurrected, late>>

RemoveRow(r, label) ==
    /\ Runs(r, label)
    /\ \E row \in Matched(task[r]) \cup (task[r].left \ roster) :
          /\ roster' = roster \ {row}
          /\ task' = [task EXCEPT ![r].left = @ \ {row}]
    /\ UNCHANGED <<nodes, messages, historyVars>>

RemovalEnds(r, label) ==
    /\ Runs(r, label)
    /\ task[r].left = {}
    /\ UNCHANGED <<nodes, roster, messages, historyVars>>

Unfollow(r) ==
    \/ RemovalBegins(r, "unfollow", "unfollowing")
    \/ RemoveRow(r, "unfollowing")
    \/ RemovalEnds(r, "unfollowing") /\ Finish(r)

DropRoster(r) ==
    \/ RemovalBegins(r, "dropRoster", "dropping")
    \/ RemoveRow(r, "dropping")
    \/ RemovalEnds(r, "dropping") /\ Proceed(r, "dropNode")

-----------------------------------------------------------------------------
(* Creating and importing.  An insert of a name that exists does nothing,  *)
(* and the request goes on as if it had.                                   *)

CreateNode(r) ==
    LET n == task[r].node
        gone == nodes[n] = "none"
    IN  /\ Runs(r, "insert")
        /\ nodes' = [nodes EXCEPT ![n] = IF gone THEN "whole" ELSE @]
        /\ late' = late \ {n}
        /\ Proceed(r, "init")
        /\ UNCHANGED <<roster, messages, cut, torn, resurrected>>

UpdateNode(r) ==
    LET n == task[r].node
    IN  /\ Runs(r, "update")
        /\ nodes' = [nodes EXCEPT ![n] = IF @ = "ghost" THEN "keyless" ELSE @]
        /\ Proceed(r, "init")
        /\ UNCHANGED <<roster, messages, historyVars>>

-----------------------------------------------------------------------------
(* The pages of a node read the node and then its users.                   *)

ReadNode(r) ==
    LET n == task[r].node
    IN  /\ Runs(r, "node")
        /\ IF nodes[n] = "none" THEN Finish(r)
           ELSE task' = [task EXCEPT ![r].at = "users",
                                     ![r].owned = nodes[n] # "ghost"]
        /\ UNCHANGED <<nodes, roster, messages, historyVars>>

MayUnfollowAny(t) ==
    <<t.node, t.login>> \in roster /\ (t.user = Owner[t.node] \/ t.login = t.user)

(* unfollow: users remove themselves, and the owner the others.            *)
MayUnfollow(t) ==
    /\ <<t.node, t.login>> \in roster
    /\ IF t.owned /\ t.user = Owner[t.node]
       THEN t.login # Owner[t.node] ELSE t.login = t.user

ReadUsers(r) ==
    /\ Runs(r, "users")
    /\ \/ task[r].op \in {"rename", "share"} /\ Proceed(r, task[r].op)
       \/ task[r].op = "destroy" /\ Proceed(r, "dropRoster")
       \/ /\ task[r].op = "unfollow"
          /\ IF MayUnfollow(task[r]) THEN Proceed(r, "unfollow") ELSE Finish(r)
    /\ UNCHANGED <<nodes, roster, messages, historyVars>>

(* rename starts both updates at once, and both insert what they do not    *)
(* find: a node with nothing but name and label, and a row of nobody.      *)
RenameNode(r) ==
    LET n == task[r].node
        gone == nodes[n] = "none"
    IN  /\ Runs(r, "rename") \/ Runs(r, "renameNode")
        /\ nodes' = [nodes EXCEPT ![n] = IF gone THEN "ghost" ELSE @]
        /\ resurrected' = IF gone THEN resurrected \cup {n} ELSE resurrected
        /\ IF task[r].at = "rename" THEN Proceed(r, "renameRow") ELSE Finish(r)
        /\ late' = late \ {n}
        /\ UNCHANGED <<roster, messages, cut, torn>>

RenameRow(r) ==
    LET n == task[r].node
    IN  /\ Runs(r, "rename") \/ Runs(r, "renameRow")
        /\ roster' = IF \E row \in roster : row[2] = n
                     THEN roster ELSE roster \cup {<<Nobody, n>>}
        /\ IF task[r].at = "rename" THEN Proceed(r, "renameNode") ELSE Finish(r)
        /\ UNCHANGED <<nodes, messages, historyVars>>

DropNodeOnly(r) ==
    /\ Runs(r, "dropNode")
    /\ nodes' = [nodes EXCEPT ![task[r].node] = "none"]
    /\ Finish(r)
    /\ UNCHANGED <<roster, messages, historyVars>>

DropNode(r) ==
    LET n == task[r].node
    IN  /\ Runs(r, "dropNode")
        /\ nodes' = [nodes EXCEPT ![n] = "none"]
        /\ cut' = cut \ {n}
        /\ Proceed(r, "dropMessages")
        /\ UNCHANGED <<roster, messages, torn, resurrected, late>>

(* One step also where it takes several: a message that the removal misses *)
(* was stored while it ran, and is as good as stored after it.             *)
DropMessages(r) ==
    LET n == task[r].node
    IN  /\ Runs(r, "dropMessages")
        /\ messages' = messages \ {n}
        /\ late' = late \ {n}
        /\ Finish(r)
        /\ UNCHANGED <<nodes, roster, cut, torn, resurrected>>

-----------------------------------------------------------------------------
(* Messages.                                                               *)

CreateMessage(n) ==
    /\ messages' = messages \cup {n}
    /\ late' = IF nodes[n] = "none" THEN late \cup {n} ELSE late

StoreMessage(r) ==
    /\ Runs(r, "store")
    /\ CreateMessage(task[r].node)
    /\ Finish(r)
    /\ UNCHANGED <<nodes, roster, cut, torn, resurrected>>

-----------------------------------------------------------------------------
RequestBegins(r) ==
    \E n \in Node :
        \/ Create(r, n) \/ Import(r, n) \/ GenRoster(r, n) \/ Post(r, n)
        \/ \E op \in Operation, u, l \in User : Open(r, op, u, l, n)

RequestProceeds(r) ==
    \/ InitRoster(r) \/ Follow(r) \/ Unfollow(r)
    \/ CreateNode(r) \/ UpdateNode(r)
    \/ ReadNode(r) \/ ReadUsers(r)
    \/ RenameNode(r) \/ RenameRow(r)
    \/ DropRoster(r) \/ DropNode(r) \/ DropMessages(r)
    \/ StoreMessage(r)

RosterNext ==
    \E r \in Request : RequestBegins(r) \/ RequestProceeds(r) \/ Abort(r)

-----------------------------------------------------------------------------
(* What holds of the database.                                             *)

Pending(n, labels) ==
    \E r \in Request :
        task[r] # Idle /\ task[r].node = n /\ task[r].at \in labels

(* The two rows of a subscription are there together or not at all, though *)
(* the inserts and removals of web/db.js check neither of them first and   *)
(* several of them run at a time; except while one of them is half done,   *)
(* and after an insert and a removal of it ran at a time or one was cut    *)
(* short between two rows.                                                 *)
RosterSymmetric ==
    \A u \in User, n \in Node :
        \/ <<u, n>> \in roster <=> <<n, u>> \in roster
        \/ <<u, n>> \in torn
        \/ UnderWay(<<u, n>>, Inserting \cup Removing)

(* A node is in the roster of its owner, so the pages of web and API show  *)
(* it; except while a request creates or deletes it, after one was cut     *)
(* short there, and after rename inserted it.                              *)
OwnerKeepsNode ==
    \A n \in Node :
        \/ nodes[n] # "whole"
        \/ <<Owner[n], n>> \in roster
        \/ n \in cut \cup resurrected
        \/ Pending(n, {"init", "dropping", "dropNode"})

(* Deleting a node takes its messages along; except those that were        *)
(* stored after it, by a sender that had been let in before.               *)
DeletedTakesMessages ==
    \A n \in Node :
        nodes[n] = "none" /\ n \in messages =>
            n \in late \cup cut \/ Pending(n, {"dropMessages"})
=============================================================================

---------------------------- MODULE BackendProofs ----------------------------
(***************************************************************************)
(* Proofs about Backend: for any users, nodes, requests and sessions, and  *)
(* wherever they are cut short, the two rows of a subscription come and go *)
(* together unless an insert met a removal, nodes stay in the roster of    *)
(* their owner, and deleted nodes take their messages along.               *)
(***************************************************************************)
EXTENDS Backend, TLAPS

-----------------------------------------------------------------------------
(* Types.                                                                  *)

(* The record of a request that runs.                                      *)
LEMMA TaskType ==
    ASSUME RosterTypeOK, NEW r \in Request, task[r] # Idle
    PROVE  /\ task[r] \in Task
           /\ task[r].user \in User /\ task[r].login \in User
           /\ task[r].node \in Node /\ task[r].at \in Label
           /\ task[r].owned \in BOOLEAN /\ task[r].op \in Operation
           /\ task[r].left \subseteq Row
BY DEF RosterTypeOK, Task

LEMMA ProceedType ==
    ASSUME RosterTypeOK, NEW r \in Request, task[r] # Idle,
           NEW label \in Label, Proceed(r, label)
    PROVE  task' \in [Request -> Task \cup {Idle}]
<1>1. [task[r] EXCEPT !.at = label] \in Task
  BY TaskType DEF Task
<1> QED
  BY <1>1 DEF RosterTypeOK, Proceed

LEMMA FinishType ==
    ASSUME RosterTypeOK, NEW r \in Request, Finish(r)
    PROVE  task' \in [Request -> Task \cup {Idle}]
BY DEF RosterTypeOK, Finish

LEMMA BeginType ==
    ASSUME RosterTypeOK, NEW r \in Request, NEW op \in Operation,
           NEW u \in User, NEW l \in User, NEW n \in Node, NEW label \in Label,
           Begin(r, op, u, l, n, label)
    PROVE  RosterTypeOK'
<1>1. [op |-> op, user |-> u, login |-> l, node |-> n, at |-> label,
       owned |-> TRUE, left |-> {}] \in Task
  BY DEF Task
<1> QED
  BY <1>1 DEF Begin, historyVars, RosterTypeOK

LEMMA InitType == Init => TypeOK
BY RosterAssumption DEF Init, RosterInit, TypeOK, RosterTypeOK

LEMMA BeginsType ==
    ASSUME RosterTypeOK, NEW r \in Request, RequestBegins(r)
    PROVE  RosterTypeOK'
<1> USE RosterAssumption
<1>1. PICK n \in Node :
        \/ Create(r, n) \/ Import(r, n) \/ GenRoster(r, n) \/ Post(r, n)
        \/ \E op \in Operation, u, l \in User : Open(r, op, u, l, n)
  BY DEF RequestBegins
<1>2. Owner[n] \in User
  OBVIOUS
<1>3. CASE Create(r, n)
  BY <1>2, <1>3, BeginType DEF Create, Operation, Label
<1>4. CASE Import(r, n)
  <2>1. (IF nodes[n] = "none" THEN "insert" ELSE "update") \in Label
    BY DEF Label
  <2> QED
    BY <1>2, <1>4, <2>1, BeginType DEF Import, Operation
<1>5. CASE Post(r, n)
  BY <1>2, <1>5, BeginType DEF Post, Operation, Label
<1>7. CASE GenRoster(r, n)
  BY <1>2, <1>7, BeginType DEF GenRoster, Operation, Label
<1>6. ASSUME NEW op \in Operation, NEW u \in User, NEW l \in User,
             Open(r, op, u, l, n)
      PROVE  RosterTypeOK'
  BY <1>6, BeginType DEF Open, Label
<1> QED
  BY <1>1, <1>3, <1>4, <1>5, <1>6, <1>7

(* Each step of a request is one of a request that runs.                   *)
LEMMA RunsStep ==
    ASSUME NEW r \in Request, RequestProceeds(r)
    PROVE  task[r] # Idle
BY DEF RequestProceeds, InitRoster, InsertRow, Follow, Unfollow, DropRoster,
   RemovalBegins, RemoveRow, RemovalEnds, CreateNode, UpdateNode, ReadNode,
   ReadUsers, RenameNode, RenameRow, DropNode, DropMessages, StoreMessage, Runs

LEMMA InsertType ==
    ASSUME RosterTypeOK, NEW r \in Request, task[r] # Idle,
           InitRoster(r) \/ Follow(r)
    PROVE  RosterTypeOK'
<1> DEFINE u == task[r].login
           n == task[r].node
<1>1. u \in User /\ n \in Node
  BY TaskType
<1>2. <<u, n>> \in Row /\ <<n, u>> \in Row /\ <<u, n>> \in User \X Node
  BY <1>1 DEF Row
<1>3. PICK label \in {"init", "initNode", "share", "shareNode"}, row \in Row,
           next \in {"initNode", "shareNode", "end"} :
        InsertRow(r, label, row, next)
  <2>1. CASE InitRoster(r)
    BY <1>2, <2>1 DEF InitRoster
  <2>2. CASE Follow(r)
    BY <1>2, <2>2 DEF Follow
  <2> QED
    BY <2>1, <2>2
<1>4. task' \in [Request -> Task \cup {Idle}]
  <2>1. CASE Finish(r)
    BY <2>1, FinishType
  <2>2. CASE next \in Label /\ Proceed(r, next)
    BY <2>2, ProceedType
  <2> QED
    BY <1>3, <2>1, <2>2 DEF InsertRow, Label
<1>5. torn' \subseteq User \X Node
  BY <1>2, <1>3 DEF InsertRow, RosterTypeOK
<1> QED
  BY <1>3, <1>4, <1>5 DEF InsertRow, RosterTypeOK

(* The parts of a removal.                                                 *)
Starts(r) ==
    \/ RemovalBegins(r, "unfollow", "unfollowing")
    \/ RemovalBegins(r, "dropRoster", "dropping")

Removes(r) == RemoveRow(r, "unfollowing") \/ RemoveRow(r, "dropping")

Ends(r) ==
    \/ RemovalEnds(r, "unfollowing") /\ Finish(r)
    \/ RemovalEnds(r, "dropping") /\ Proceed(r, "dropNode")

LEMMA RemovalParts ==
    ASSUME NEW r \in Request, Unfollow(r) \/ DropRoster(r)
    PROVE  Starts(r) \/ Removes(r) \/ Ends(r)
BY DEF Unfollow, DropRoster, Starts, Removes, Ends

LEMMA SubscriptionsType ==
    ASSUME RosterTypeOK, NEW r \in Request, task[r] # Idle
    PROVE  Subscriptions(task[r]) \subseteq User \X Node
BY TaskType DEF Subscriptions

LEMMA RemovalType ==
    ASSUME RosterTypeOK, NEW r \in Request, task[r] # Idle,
           Unfollow(r) \/ DropRoster(r)
    PROVE  RosterTypeOK'
<1>1. task[r] \in Task /\ task[r].left \subseteq Row
  BY TaskType
<1>2. CASE Starts(r)
  <2>1. PICK next \in Label :
          /\ task' = [task EXCEPT ![r].at = next, ![r].left = Matched(task[r])]
          /\ UNCHANGED <<nodes, roster, messages, cut, resurrected, late>>
          /\ torn' \subseteq torn \cup Subscriptions(task[r])
    BY <1>2 DEF Starts, RemovalBegins, Label
  <2>2. Matched(task[r]) \subseteq Row
    BY DEF Matched, RosterTypeOK
  <2>3. [task[r] EXCEPT !.at = next, !.left = Matched(task[r])] \in Task
    BY <1>1, <2>2 DEF Task
  <2>4. task' \in [Request -> Task \cup {Idle}]
    BY <2>1, <2>3 DEF RosterTypeOK
  <2> QED
    BY <2>1, <2>4, SubscriptionsType DEF RosterTypeOK
<1>3. CASE Removes(r)
  <2>1. PICK row : /\ roster' = roster \ {row}
                   /\ task' = [task EXCEPT ![r].left = @ \ {row}]
                   /\ UNCHANGED <<nodes, messages, historyVars>>
    BY <1>3 DEF Removes, RemoveRow
  <2>2. [task[r] EXCEPT !.left = @ \ {row}] \in Task
    BY <1>1 DEF Task
  <2> QED
    BY <2>1, <2>2 DEF RosterTypeOK, historyVars
<1>4. CASE Ends(r)
  <2>1. task' \in [Request -> Task \cup {Idle}]
    BY <1>4, FinishType, ProceedType DEF Ends, Label
  <2> QED
    BY <1>4, <2>1 DEF Ends, RemovalEnds, RosterTypeOK, historyVars
<1> QED
  BY <1>2, <1>3, <1>4, RemovalParts

LEMMA ProceedsType ==
    ASSUME RosterTypeOK, NEW r \in Request, RequestProceeds(r)
    PROVE  RosterTypeOK'
<1> USE RosterAssumption DEF Runs, historyVars
<1> DEFINE n == task[r].node
<1>1. task[r] # Idle
  BY RunsStep
<1>2. /\ task[r].user \in User /\ task[r].login \in User
      /\ n \in Node /\ task[r].op \in Operation
  BY <1>1, TaskType
<1>3. ASSUME Finish(r) PROVE task' \in [Request -> Task \cup {Idle}]
  BY <1>3, FinishType
<1>4. ASSUME NEW label \in Label, Proceed(r, label)
      PROVE  task' \in [Request -> Task \cup {Idle}]
  BY <1>1, <1>4, ProceedType
<1>5. CASE InitRoster(r) \/ Follow(r)
  BY <1>1, <1>5, InsertType
<1>6. CASE Unfollow(r) \/ DropRoster(r)
  BY <1>1, <1>6, RemovalType
<1>8. CASE CreateNode(r)
  BY <1>2, <1>4, <1>8 DEF CreateNode, Label, RosterTypeOK
<1>9. CASE UpdateNode(r)
  BY <1>2, <1>4, <1>9 DEF UpdateNode, Label, RosterTypeOK
<1>10. CASE ReadNode(r)
  <2> DEFINE owned == nodes[n] # "ghost"
  <2>0. owned \in BOOLEAN /\ "users" \in Label
    BY DEF Label
  <2> HIDE DEF owned
  <2>1. [task[r] EXCEPT !.at = "users", !.owned = owned] \in Task
    BY <1>1, <2>0, TaskType, Zenon DEF Task
  <2>3. [task[r] EXCEPT !.at = "users", !.owned = nodes[n] # "ghost"] \in Task
    BY <2>1 DEF owned
  <2> QED
    BY <1>3, <1>10, <2>3 DEF ReadNode, RosterTypeOK
<1>11. CASE ReadUsers(r)
  <2>1. task' \in [Request -> Task \cup {Idle}]
    <3>1. CASE task[r].op \in {"rename", "share"} /\ Proceed(r, task[r].op)
      BY <1>4, <3>1 DEF Label
    <3>2. CASE Proceed(r, "dropRoster") \/ Proceed(r, "unfollow")
      BY <1>4, <3>2 DEF Label
    <3> QED
      BY <1>3, <1>11, <3>1, <3>2 DEF ReadUsers
  <2> QED
    BY <1>11, <2>1 DEF ReadUsers, RosterTypeOK
<1>12. CASE RenameNode(r)
  BY <1>2, <1>3, <1>4, <1>12 DEF RenameNode, Label, RosterTypeOK
<1>13. CASE RenameRow(r)
  BY <1>2, <1>3, <1>4, <1>13 DEF RenameRow, Label, Row, RosterTypeOK
<1>15. CASE DropNode(r)
  BY <1>2, <1>4, <1>15 DEF DropNode, Label, RosterTypeOK
<1>16. CASE DropMessages(r)
  BY <1>3, <1>16 DEF DropMessages, RosterTypeOK
<1>17. CASE StoreMessage(r)
  BY <1>2, <1>3, <1>17 DEF StoreMessage, CreateMessage, RosterTypeOK
<1> QED
  BY <1>5, <1>6, <1>8, <1>9, <1>10, <1>11, <1>12, <1>13, <1>15, <1>16, <1>17
     DEF RequestProceeds

LEMMA AbortType ==
    ASSUME RosterTypeOK, NEW r \in Request, Abort(r)
    PROVE  RosterTypeOK'
<1>1. task' \in [Request -> Task \cup {Idle}]
  BY FinishType DEF Abort
<1>2. task[r].node \in Node
  BY TaskType DEF Abort
<1> QED
  BY <1>1, <1>2, SubscriptionsType DEF Abort, RosterTypeOK

-----------------------------------------------------------------------------
(* What a request changes of the tasks.                                    *)

OthersStay(r) == \A q \in Request \ {r} : task'[q] = task[q]

LEMMA BeginStep ==
    ASSUME RosterTypeOK, NEW r \in Request, NEW op \in Operation,
           NEW u \in User, NEW l \in User, NEW n \in Node,
           NEW label \in {"insert", "update", "init", "node", "store"},
           Begin(r, op, u, l, n, label),
           label \in {"insert", "update", "init"} => l = Owner[n]
    PROVE  /\ UNCHANGED <<nodes, roster, messages, historyVars>>
           /\ OthersStay(r) /\ task[r] = Idle /\ task'[r].owned = TRUE
           /\ task'[r].at \in {"insert", "update", "init", "node", "store"}
           /\ task'[r].at \in {"insert", "update", "init"} =>
                  task'[r].login = Owner[task'[r].node]
BY DEF Begin, RosterTypeOK, OthersStay

LEMMA BeginsStep ==
    ASSUME RosterTypeOK, NEW r \in Request, RequestBegins(r)
    PROVE  /\ UNCHANGED <<nodes, roster, messages, historyVars>>
           /\ OthersStay(r) /\ task[r] = Idle /\ task'[r].owned = TRUE
           /\ task'[r].at \in {"insert", "update", "init", "node", "store"}
           /\ task'[r].at \in {"insert", "update", "init"} =>
                  task'[r].login = Owner[task'[r].node]
<1>1. PICK n \in Node :
        \/ Create(r, n) \/ Import(r, n) \/ GenRoster(r, n) \/ Post(r, n)
        \/ \E op \in Operation, u, l \in User : Open(r, op, u, l, n)
  BY DEF RequestBegins
<1>2. Owner[n] \in User
  BY RosterAssumption
<1>3. CASE Create(r, n)
  BY <1>2, <1>3, BeginStep DEF Create, Operation
<1>4. CASE Import(r, n)
  <2>1. (IF nodes[n] = "none" THEN "insert" ELSE "update")
          \in {"insert", "update", "init", "node", "store"}
    OBVIOUS
  <2> QED
    BY <1>2, <1>4, <2>1, BeginStep DEF Import, Operation
<1>5. CASE Post(r, n)
  BY <1>2, <1>5, BeginStep DEF Post, Operation
<1>7. CASE GenRoster(r, n)
  BY <1>2, <1>7, BeginStep DEF GenRoster, Operation
<1>6. CASE \E op \in Operation, u, l \in User : Open(r, op, u, l, n)
  BY <1>6, BeginStep DEF Open
<1> QED
  BY <1>1, <1>3, <1>4, <1>5, <1>6, <1>7

LEMMA ProceedStep ==
    ASSUME RosterTypeOK, NEW r \in Request, task[r] # Idle, NEW label \in Label,
           Proceed(r, label)
    PROVE  /\ OthersStay(r) /\ task'[r] # Idle /\ task'[r].at = label
           /\ task'[r].node = task[r].node /\ task'[r].login = task[r].login
           /\ task'[r].owned = task[r].owned /\ task'[r].left = task[r].left
<1>1. OthersStay(r) /\ task'[r] = [task[r] EXCEPT !.at = label]
  BY DEF Proceed, RosterTypeOK, OthersStay
<1>2. task[r] \in Task
  BY TaskType
<1>3. task'[r] \in Task
  BY <1>1, <1>2 DEF Task
<1> QED
  BY <1>1, <1>2, <1>3, RosterAssumption DEF Task

LEMMA FinishStep ==
    ASSUME RosterTypeOK, NEW r \in Request, Finish(r)
    PROVE  OthersStay(r) /\ task'[r] = Idle
BY DEF Finish, RosterTypeOK, OthersStay

(* Reading the node.                                                       *)
LEMMA ReadStep ==
    ASSUME RosterTypeOK, NEW r \in Request, ReadNode(r)
    PROVE  /\ OthersStay(r)
           /\ \/ task'[r] = Idle
              \/ /\ nodes[task[r].node] # "none" /\ task'[r] # Idle
                 /\ task'[r].at = "users" /\ task'[r].node = task[r].node
                 /\ task'[r].owned <=> nodes[task[r].node] # "ghost"
<1>1. task[r] # Idle /\ task[r] \in Task
  BY TaskType DEF ReadNode, Runs
<1>2. CASE Finish(r)
  BY <1>2, FinishStep
<1>3. CASE /\ nodes[task[r].node] # "none"
           /\ task' = [task EXCEPT ![r].at = "users",
                                   ![r].owned = nodes[task[r].node] # "ghost"]
  <2> DEFINE owned == nodes[task[r].node] # "ghost"
  <2>1. OthersStay(r) /\ task'[r] = [task[r] EXCEPT !.at = "users", !.owned = owned]
    BY <1>3 DEF RosterTypeOK, OthersStay
  <2>2. owned \in BOOLEAN
    OBVIOUS
  <2> HIDE DEF owned
  <2>3. task'[r] \in Task
    BY <1>1, <2>1, <2>2, Zenon DEF Task, Label
  <2>4. task'[r].at = "users" /\ task'[r].node = task[r].node
        /\ task'[r].owned = owned
    BY <1>1, <2>1, Zenon DEF Task
  <2>5. task'[r] # Idle
    BY <2>3, RosterAssumption
  <2> QED
    BY <1>3, <2>1, <2>4, <2>5 DEF owned
<1> QED
  BY <1>2, <1>3 DEF ReadNode

(* The rows of an insert: the first one is the user's, the second one the  *)
(* node's.                                                                 *)
LEMMA InsertStep ==
    ASSUME RosterTypeOK, NEW r \in Request, InitRoster(r) \/ Follow(r),
           NEW u, u = task[r].login, NEW n, n = task[r].node
    PROVE  /\ task[r] # Idle /\ OthersStay(r)
           /\ UNCHANGED <<nodes, messages, cut, resurrected, late>>
           /\ \/ /\ task[r].at \in {"init", "share"} /\ <<u, n>> \in roster
                 /\ roster' = roster /\ torn' = torn /\ task'[r] = Idle
              \/ /\ task[r].at \in {"init", "share"} /\ <<u, n>> \notin roster
                 /\ roster' = roster \cup {<<u, n>>}
                 /\ torn' = IF UnderWay(<<u, n>>, Removing)
                            THEN torn \cup {<<u, n>>} ELSE torn
                 /\ task'[r] # Idle /\ task'[r].at \in Inserting
                 /\ task'[r].login = u /\ task'[r].node = n
                 /\ task'[r].owned = task[r].owned
              \/ /\ task[r].at \in Inserting /\ task'[r] = Idle
                 /\ roster' = roster \cup {<<n, u>>} /\ torn' = torn
<1> USE DEF Inserting, Runs, Label
<1>1. task[r] # Idle
  BY DEF InitRoster, Follow, InsertRow
<1>2. CASE \/ InsertRow(r, "init", <<u, n>>, "initNode")
           \/ InsertRow(r, "share", <<u, n>>, "shareNode")
  <2>1. CASE <<u, n>> \in roster
    <3>1. Finish(r) /\ roster' = roster /\ torn' = torn
      BY <1>2, <2>1 DEF InsertRow
    <3> QED
      BY <1>1, <1>2, <2>1, <3>1, FinishStep DEF InsertRow
  <2>2. CASE <<u, n>> \notin roster
    <3>1. PICK next \in Inserting : Proceed(r, next)
      BY <1>2, <2>2 DEF InsertRow
    <3>2. /\ OthersStay(r) /\ task'[r] # Idle /\ task'[r].at \in Inserting
          /\ task'[r].login = u /\ task'[r].node = n
          /\ task'[r].owned = task[r].owned
      BY <1>1, <3>1, ProceedStep
    <3>3. /\ roster' = roster \cup {<<u, n>>}
          /\ torn' = IF UnderWay(<<u, n>>, Removing)
                     THEN torn \cup {<<u, n>>} ELSE torn
      BY <1>2, <2>2 DEF InsertRow
    <3> QED
      BY <1>1, <1>2, <2>2, <3>2, <3>3 DEF InsertRow
  <2> QED
    BY <2>1, <2>2
<1>3. CASE \/ InsertRow(r, "initNode", <<n, u>>, "end")
           \/ InsertRow(r, "shareNode", <<n, u>>, "end")
  BY <1>1, <1>3, FinishStep DEF InsertRow
<1> QED
  BY <1>2, <1>3 DEF InitRoster, Follow

LEMMA StartsStep ==
    ASSUME RosterTypeOK, NEW r \in Request, Starts(r)
    PROVE  /\ task[r] # Idle /\ OthersStay(r) /\ task'[r] # Idle
           /\ task[r].at \in {"unfollow", "dropRoster"}
           /\ task'[r].at = (IF task[r].at = "unfollow" THEN "unfollowing"
                             ELSE "dropping")
           /\ task'[r].node = task[r].node /\ task'[r].login = task[r].login
           /\ task'[r].owned = task[r].owned
           /\ task'[r].left = Matched(task[r])
           /\ UNCHANGED <<nodes, roster, messages, cut, resurrected, late>>
<1>1. PICK next \in Label :
        /\ task[r] # Idle /\ task[r].at \in {"unfollow", "dropRoster"}
        /\ next = (IF task[r].at = "unfollow" THEN "unfollowing" ELSE "dropping")
        /\ task' = [task EXCEPT ![r].at = next, ![r].left = Matched(task[r])]
        /\ UNCHANGED <<nodes, roster, messages, cut, resurrected, late>>
  BY DEF Starts, RemovalBegins, Runs, Label
<1>2. task[r] \in Task /\ Matched(task[r]) \subseteq Row
  BY <1>1, TaskType DEF Matched, RosterTypeOK
<1>3. /\ OthersStay(r)
      /\ task'[r] = [task[r] EXCEPT !.at = next, !.left = Matched(task[r])]
  BY <1>1 DEF RosterTypeOK, OthersStay
<1>4. task'[r] \in Task
  BY <1>2, <1>3 DEF Task
<1>5. task'[r] # Idle
  BY <1>4, RosterAssumption
<1>6. /\ task'[r].at = next
      /\ task'[r].node = task[r].node /\ task'[r].login = task[r].login
      /\ task'[r].owned = task[r].owned
  BY <1>2, <1>3 DEF Task
<1>7. task'[r].left = Matched(task[r])
  BY <1>2, <1>3 DEF Task
<1> QED
  BY <1>1, <1>3, <1>5, <1>6, <1>7

LEMMA RemovesStep ==
    ASSUME RosterTypeOK, NEW r \in Request, Removes(r)
    PROVE  \E row \in Matched(task[r]) \cup (task[r].left \ roster) :
             /\ task[r] # Idle /\ OthersStay(r) /\ task'[r] # Idle
             /\ task[r].at \in Removing /\ task'[r].at = task[r].at
             /\ task'[r].node = task[r].node /\ task'[r].login = task[r].login
             /\ task'[r].owned = task[r].owned
             /\ task'[r].left = task[r].left \ {row}
             /\ roster' = roster \ {row}
             /\ UNCHANGED <<nodes, messages, historyVars>>
<1>1. PICK row \in Matched(task[r]) \cup (task[r].left \ roster) :
        /\ task[r] # Idle /\ task[r].at \in Removing
        /\ roster' = roster \ {row}
        /\ task' = [task EXCEPT ![r].left = @ \ {row}]
        /\ UNCHANGED <<nodes, messages, historyVars>>
  BY DEF Removes, RemoveRow, Runs, Removing
<1>2. task[r] \in Task
  BY <1>1, TaskType
<1>3. OthersStay(r) /\ task'[r] = [task[r] EXCEPT !.left = @ \ {row}]
  BY <1>1 DEF RosterTypeOK, OthersStay
<1>4. task'[r] \in Task
  BY <1>2, <1>3 DEF Task
<1>5. /\ task'[r] # Idle /\ task'[r].at = task[r].at
      /\ task'[r].node = task[r].node /\ task'[r].login = task[r].login
      /\ task'[r].owned = task[r].owned
      /\ task'[r].left = task[r].left \ {row}
  BY <1>2, <1>3, <1>4, RosterAssumption DEF Task
<1> QED
  BY <1>1, <1>3, <1>5

LEMMA EndsStep ==
    ASSUME RosterTypeOK, NEW r \in Request, Ends(r)
    PROVE  /\ task[r] # Idle /\ OthersStay(r)
           /\ task[r].at \in Removing /\ task[r].left = {}
           /\ UNCHANGED <<nodes, roster, messages, historyVars>>
           /\ \/ task[r].at = "unfollowing" /\ task'[r] = Idle
              \/ /\ task[r].at = "dropping" /\ task'[r] # Idle
                 /\ task'[r].at = "dropNode" /\ task'[r].node = task[r].node
                 /\ task'[r].login = task[r].login
                 /\ task'[r].owned = task[r].owned
<1>1. task[r] # Idle
  BY DEF Ends, RemovalEnds, Runs
<1>2. CASE RemovalEnds(r, "unfollowing") /\ Finish(r)
  BY <1>1, <1>2, FinishStep DEF RemovalEnds, Runs, Removing
<1>3. CASE RemovalEnds(r, "dropping") /\ Proceed(r, "dropNode")
  BY <1>1, <1>3, ProceedStep DEF RemovalEnds, Runs, Removing, Label
<1> QED
  BY <1>2, <1>3 DEF Ends

-----------------------------------------------------------------------------
(* The two rows of a subscription.                                         *)

Another(r, s, labels) == \E q \in Request \ {r} : At(q, s, labels)

LEMMA UnderWaySplit ==
    ASSUME NEW r \in Request, NEW s, NEW labels
    PROVE  UnderWay(s, labels) <=> At(r, s, labels) \/ Another(r, s, labels)
BY DEF UnderWay, Another

LEMMA UnderWaySplitNext ==
    ASSUME NEW r \in Request, OthersStay(r), NEW s, NEW labels
    PROVE  UnderWay(s, labels)' <=> At(r, s, labels)' \/ Another(r, s, labels)
BY DEF UnderWay, Another, At, OthersStay, Subscriptions

(* The subscription that an insert is about.                               *)
LEMMA OneSubscription ==
    ASSUME NEW t, t.at \notin {"dropRoster", "dropping"}
    PROVE  Subscriptions(t) = {<<t.login, t.node>>}
BY DEF Subscriptions

(* What a removal matches are rows of its subscriptions.                   *)
LEMMA MatchedRows ==
    ASSUME RosterTypeOK, NEW r \in Request, task[r] # Idle,
           NEW u \in User, NEW n \in Node
    PROVE  /\ <<u, n>> \in Matched(task[r]) <=>
                  <<u, n>> \in roster /\ <<u, n>> \in Subscriptions(task[r])
           /\ <<n, u>> \in Matched(task[r]) <=>
                  <<n, u>> \in roster /\ <<u, n>> \in Subscriptions(task[r])
<1>1. task[r].login \in User /\ task[r].node \in Node
  BY TaskType
<1>2. CASE task[r].at \in {"dropRoster", "dropping"}
  BY <1>1, <1>2, RosterAssumption DEF Matched, Subscriptions
<1>3. CASE task[r].at \notin {"dropRoster", "dropping"}
  BY <1>1, <1>3, RosterAssumption DEF Matched, Subscriptions
<1> QED
  BY <1>2, <1>3

(* A step that leaves both rows alone and puts its request into no half    *)
(* insert or removal.                                                      *)
LEMMA IntactQuiet ==
    ASSUME NEW r \in Request, NEW u \in User, NEW n \in Node, Intact(u, n),
           OthersStay(r),
           <<u, n>> \in roster' <=> <<u, n>> \in roster,
           <<n, u>> \in roster' <=> <<n, u>> \in roster,
           ~At(r, <<u, n>>, Inserting \cup Removing)',
           At(r, <<u, n>>, Inserting \cup Removing)
               => (<<u, n>> \in roster <=> <<n, u>> \in roster)
    PROVE  Intact(u, n)'
<1> DEFINE s == <<u, n>>
<1> HIDE DEF s
<1>0. /\ s \in roster' <=> s \in roster
      /\ \/ s \in roster <=> <<n, u>> \in roster
         \/ UnderWay(s, Inserting \cup Removing)
      /\ UnderWay(s, Inserting) => s \in roster
      /\ \A q \in Request :
            At(q, s, Removing) => roster \cap {s, <<n, u>>} \subseteq task[q].left
      /\ ~(UnderWay(s, Inserting) /\ UnderWay(s, Removing))
      /\ ~At(r, s, Inserting \cup Removing)'
      /\ At(r, s, Inserting \cup Removing)
            => (s \in roster <=> <<n, u>> \in roster)
  BY DEF Intact, s
<1>1. ~At(r, s, Inserting)' /\ ~At(r, s, Removing)'
  BY <1>0 DEF At
<1>2. /\ UnderWay(s, Inserting)' => UnderWay(s, Inserting)
      /\ UnderWay(s, Removing)' => UnderWay(s, Removing)
  BY <1>1, UnderWaySplit, UnderWaySplitNext
<1>3. \/ s \in roster' <=> <<n, u>> \in roster'
      \/ UnderWay(s, Inserting \cup Removing)'
  BY <1>0, UnderWaySplit, UnderWaySplitNext
<1>4. ASSUME NEW q \in Request, At(q, s, Removing)'
      PROVE  roster' \cap {s, <<n, u>>} \subseteq task'[q].left
  <2>1. q # r /\ task'[q] = task[q]
    BY <1>1, <1>4 DEF OthersStay
  <2>2. At(q, s, Removing)
    BY <1>4, <2>1 DEF At, Subscriptions
  <2> QED
    BY <1>0, <2>1, <2>2
<1> QED
  BY <1>0, <1>2, <1>3, <1>4 DEF Intact, s

LEMMA InsertIntact ==
    ASSUME RosterTypeOK, IntactUnlessTorn, NEW r \in Request,
           InitRoster(r) \/ Follow(r)
    PROVE  IntactUnlessTorn'
<1> SUFFICES ASSUME NEW u \in User, NEW n \in Node, <<u, n>> \notin torn'
             PROVE  Intact(u, n)'
  BY DEF IntactUnlessTorn
<1> DEFINE s == <<u, n>>
<1>1. PICK l, m : l = task[r].login /\ m = task[r].node
  OBVIOUS
<1>2. /\ task[r] # Idle /\ OthersStay(r)
      /\ \/ /\ task[r].at \in {"init", "share"} /\ <<l, m>> \in roster
            /\ roster' = roster /\ torn' = torn /\ task'[r] = Idle
         \/ /\ task[r].at \in {"init", "share"} /\ <<l, m>> \notin roster
            /\ roster' = roster \cup {<<l, m>>}
            /\ torn' = IF UnderWay(<<l, m>>, Removing)
                       THEN torn \cup {<<l, m>>} ELSE torn
            /\ task'[r] # Idle /\ task'[r].at \in Inserting
            /\ task'[r].login = l /\ task'[r].node = m
            /\ task'[r].owned = task[r].owned
         \/ /\ task[r].at \in Inserting /\ task'[r] = Idle
            /\ roster' = roster \cup {<<m, l>>} /\ torn' = torn
  BY <1>1, InsertStep
<1>3. l \in User /\ m \in Node
  BY <1>1, <1>2, TaskType
<1>4. Intact(u, n)
  BY <1>2 DEF IntactUnlessTorn
<1>5. <<u, n>> # <<m, l>> /\ <<n, u>> # <<l, m>>
  BY <1>3, RosterAssumption
<1>6. task[r].at \in Inserting => Subscriptions(task[r]) = {<<l, m>>}
  BY <1>1, OneSubscription DEF Inserting
<1>7. CASE /\ task[r].at \in {"init", "share"} /\ task'[r] = Idle
           /\ roster' = roster
  BY <1>2, <1>4, <1>7, IntactQuiet DEF At, Inserting, Removing
<1>8. CASE /\ task[r].at \in Inserting /\ task'[r] = Idle
           /\ roster' = roster \cup {<<m, l>>} /\ torn' = torn
  <2>1. CASE s = <<l, m>>
    <3>1. At(r, s, Inserting)
      BY <1>2, <1>6, <1>8, <2>1 DEF At
    <3>2. s \in roster /\ ~UnderWay(s, Removing)
      BY <1>4, <3>1 DEF Intact, UnderWay
    <3>3. s \in roster' /\ <<n, u>> \in roster'
      BY <1>8, <2>1, <3>2
    <3>4. ~At(r, s, Removing)'
      BY <1>8 DEF At
    <3>5. ~UnderWay(s, Removing)'
      BY <1>2, <3>2, <3>4, UnderWaySplit, UnderWaySplitNext
    <3> QED
      BY <3>3, <3>5 DEF Intact, UnderWay
  <2>2. CASE s # <<l, m>>
    <3>1. ~At(r, s, Inserting \cup Removing)
      BY <1>6, <1>8, <2>2 DEF At
    <3>2. ~At(r, s, Inserting \cup Removing)'
      BY <1>8 DEF At
    <3>3. <<n, u>> # <<m, l>>
      BY <2>2
    <3> QED
      BY <1>2, <1>4, <1>5, <1>8, <3>1, <3>2, <3>3, IntactQuiet
  <2> QED
    BY <2>1, <2>2
<1>9. CASE /\ task[r].at \in {"init", "share"}
           /\ roster' = roster \cup {<<l, m>>}
           /\ torn' = IF UnderWay(<<l, m>>, Removing)
                      THEN torn \cup {<<l, m>>} ELSE torn
           /\ task'[r] # Idle /\ task'[r].at \in Inserting
           /\ task'[r].login = l /\ task'[r].node = m
  <2>1. Subscriptions(task[r])' = {<<l, m>>}
    BY <1>9 DEF Subscriptions, Inserting
  <2>2. CASE s = <<l, m>>
    <3>1. At(r, s, Inserting)'
      BY <1>9, <2>1, <2>2 DEF At
    <3>2. ~UnderWay(s, Removing)
      BY <1>9, <2>2
    <3>3. ~At(r, s, Removing)'
      BY <1>9 DEF At, Inserting, Removing
    <3>4. ~UnderWay(s, Removing)'
      BY <1>2, <3>2, <3>3, UnderWaySplit, UnderWaySplitNext
    <3>5. UnderWay(s, Inserting \cup Removing)' /\ s \in roster'
      BY <1>9, <2>2, <3>1 DEF UnderWay, At
    <3> QED
      BY <3>4, <3>5 DEF Intact, UnderWay
  <2>3. CASE s # <<l, m>>
    <3>1. ~At(r, s, Inserting \cup Removing)'
      BY <2>1, <2>3 DEF At
    <3>2. ~At(r, s, Inserting \cup Removing)
      BY <1>9 DEF At, Inserting, Removing
    <3> QED
      BY <1>2, <1>4, <1>5, <1>9, <2>3, <3>1, <3>2, IntactQuiet
  <2> QED
    BY <2>2, <2>3
<1> QED
  BY <1>2, <1>7, <1>8, <1>9

LEMMA StartsIntact ==
    ASSUME RosterTypeOK, IntactUnlessTorn, NEW r \in Request, Starts(r)
    PROVE  IntactUnlessTorn'
<1> SUFFICES ASSUME NEW u \in User, NEW n \in Node, <<u, n>> \notin torn'
             PROVE  Intact(u, n)'
  BY DEF IntactUnlessTorn
<1> DEFINE s == <<u, n>>
<1>1. /\ task[r] # Idle /\ OthersStay(r) /\ task'[r] # Idle
      /\ task[r].at \in {"unfollow", "dropRoster"}
      /\ task'[r].at = (IF task[r].at = "unfollow" THEN "unfollowing"
                        ELSE "dropping")
      /\ task'[r].node = task[r].node /\ task'[r].login = task[r].login
      /\ task'[r].left = Matched(task[r])
      /\ roster' = roster
  BY StartsStep
<1>2. Subscriptions(task[r])' = Subscriptions(task[r])
  BY <1>1 DEF Subscriptions
<1>3. torn' = (torn \ {x \in Subscriptions(task[r]) : ~UnderWay(x, Removing)})
                  \cup {x \in Subscriptions(task[r]) : UnderWay(x, Inserting)}
  BY DEF Starts, RemovalBegins
<1>4. ~At(r, s, Inserting \cup Removing)
  BY <1>1 DEF At, Inserting, Removing
<1>5. CASE s \notin Subscriptions(task[r])
  <2>1. s \notin torn
    BY <1>3, <1>5
  <2>2. ~At(r, s, Inserting \cup Removing)'
    BY <1>2, <1>5 DEF At
  <2> QED
    BY <1>1, <1>4, <2>1, <2>2, IntactQuiet DEF IntactUnlessTorn
<1>6. CASE s \in Subscriptions(task[r])
  <2>1. ~UnderWay(s, Inserting) /\ (s \in torn => ~UnderWay(s, Removing))
    BY <1>3, <1>6
  <2>2. At(r, s, Removing)' /\ ~At(r, s, Inserting)'
    BY <1>1, <1>2, <1>6 DEF At, Inserting, Removing
  <2>3. ~UnderWay(s, Inserting)'
    BY <1>1, <2>1, <2>2, UnderWaySplit, UnderWaySplitNext
  <2>4. UnderWay(s, Inserting \cup Removing)'
    BY <2>2 DEF UnderWay, At
  <2>5. roster' \cap {s, <<n, u>>} \subseteq task'[r].left
    BY <1>1, <1>6, MatchedRows
  <2>6. ASSUME NEW q \in Request \ {r}, At(q, s, Removing)'
        PROVE  roster' \cap {s, <<n, u>>} \subseteq task'[q].left
    <3>1. task'[q] = task[q] /\ At(q, s, Removing)
      BY <1>1, <2>6 DEF OthersStay, At, Subscriptions
    <3>2. s \notin torn
      BY <2>1, <3>1 DEF UnderWay
    <3>3. roster \cap {s, <<n, u>>} \subseteq task[q].left
      BY <3>1, <3>2 DEF IntactUnlessTorn, Intact
    <3> QED
      BY <1>1, <3>1, <3>3
  <2>7. \A q \in Request :
           At(q, s, Removing)' => roster' \cap {s, <<n, u>>} \subseteq task'[q].left
    BY <2>5, <2>6
  <2> QED
    BY <2>3, <2>4, <2>7 DEF Intact
<1> QED
  BY <1>5, <1>6

LEMMA RemovesIntact ==
    ASSUME RosterTypeOK, IntactUnlessTorn, NEW r \in Request, Removes(r)
    PROVE  IntactUnlessTorn'
<1> SUFFICES ASSUME NEW u \in User, NEW n \in Node, <<u, n>> \notin torn'
             PROVE  Intact(u, n)'
  BY DEF IntactUnlessTorn
<1> DEFINE s == <<u, n>>
<1>1. PICK row \in Matched(task[r]) \cup (task[r].left \ roster) :
        /\ task[r] # Idle /\ OthersStay(r) /\ task'[r] # Idle
        /\ task[r].at \in Removing /\ task'[r].at = task[r].at
        /\ task'[r].node = task[r].node /\ task'[r].login = task[r].login
        /\ task'[r].left = task[r].left \ {row}
        /\ roster' = roster \ {row}
        /\ torn' = torn
  BY RemovesStep DEF historyVars
<1>2. Intact(u, n)
  BY <1>1 DEF IntactUnlessTorn
<1>3. Subscriptions(task[r])' = Subscriptions(task[r])
  BY <1>1 DEF Subscriptions
<1>4. ASSUME NEW labels PROVE At(r, s, labels)' <=> At(r, s, labels)
  BY <1>1, <1>3 DEF At
<1>5. ASSUME NEW labels PROVE UnderWay(s, labels)' <=> UnderWay(s, labels)
  BY <1>1, <1>4, UnderWaySplit, UnderWaySplitNext
<1>6. ASSUME NEW q \in Request, At(q, s, Removing)'
      PROVE  roster' \cap {s, <<n, u>>} \subseteq task'[q].left
  <2>1. At(q, s, Removing)
    BY <1>1, <1>4, <1>6 DEF At, Subscriptions, OthersStay
  <2>2. roster \cap {s, <<n, u>>} \subseteq task[q].left
    BY <1>2, <2>1 DEF Intact
  <2>3. task'[q].left = task[q].left \/ task'[q].left = task[q].left \ {row}
    BY <1>1 DEF OthersStay
  <2> QED
    BY <1>1, <2>2, <2>3
<1>7. CASE row \notin roster \/ (row # s /\ row # <<n, u>>)
  <2>1. /\ s \in roster' <=> s \in roster
        /\ <<n, u>> \in roster' <=> <<n, u>> \in roster
    BY <1>1, <1>7
  <2> QED
    BY <1>2, <1>5, <1>6, <2>1 DEF Intact
<1>8. CASE row \in roster /\ (row = s \/ row = <<n, u>>)
  <2>1. row \in Matched(task[r])
    BY <1>8
  <2>2. s \in Subscriptions(task[r])
    BY <1>1, <1>8, <2>1, MatchedRows
  <2>3. At(r, s, Removing)
    BY <1>1, <2>2 DEF At
  <2>4. UnderWay(s, Removing) /\ UnderWay(s, Inserting \cup Removing)
    BY <2>3 DEF UnderWay, At
  <2>5. ~UnderWay(s, Inserting)
    BY <1>2, <2>4 DEF Intact
  <2> QED
    BY <1>5, <1>6, <2>4, <2>5 DEF Intact
<1> QED
  BY <1>7, <1>8

LEMMA EndsIntact ==
    ASSUME RosterTypeOK, IntactUnlessTorn, NEW r \in Request, Ends(r)
    PROVE  IntactUnlessTorn'
<1> SUFFICES ASSUME NEW u \in User, NEW n \in Node, <<u, n>> \notin torn'
             PROVE  Intact(u, n)'
  BY DEF IntactUnlessTorn
<1> DEFINE s == <<u, n>>
<1>1. /\ task[r] # Idle /\ OthersStay(r)
      /\ task[r].at \in Removing /\ task[r].left = {}
      /\ roster' = roster /\ torn' = torn
      /\ task'[r] = Idle \/ task'[r].at = "dropNode"
  BY EndsStep DEF historyVars
<1>2. Intact(u, n)
  BY <1>1 DEF IntactUnlessTorn
<1>3. ~At(r, s, Inserting \cup Removing)'
  BY <1>1 DEF At, Inserting, Removing
<1>4. At(r, s, Inserting \cup Removing) => roster \cap {s, <<n, u>>} = {}
  BY <1>1, <1>2 DEF Intact, At
<1> QED
  BY <1>1, <1>2, <1>3, <1>4, IntactQuiet

LEMMA AbortIntact ==
    ASSUME RosterTypeOK, IntactUnlessTorn, NEW r \in Request, Abort(r)
    PROVE  IntactUnlessTorn'
<1> SUFFICES ASSUME NEW u \in User, NEW n \in Node, <<u, n>> \notin torn'
             PROVE  Intact(u, n)'
  BY DEF IntactUnlessTorn
<1> DEFINE s == <<u, n>>
<1>1. task[r] # Idle /\ OthersStay(r) /\ task'[r] = Idle /\ roster' = roster
  BY FinishStep DEF Abort
<1>2. /\ s \notin torn
      /\ At(r, s, Inserting \cup Removing) => ~Half(s)
  BY DEF Abort, At
<1>3. At(r, s, Inserting \cup Removing)
          => (s \in roster <=> <<n, u>> \in roster)
  BY <1>2 DEF Half
<1>4. ~At(r, s, Inserting \cup Removing)'
  BY <1>1 DEF At
<1> QED
  BY <1>1, <1>2, <1>3, <1>4, IntactQuiet DEF IntactUnlessTorn

(* The steps that neither begin nor end half way through a subscription.   *)
LEMMA QuietIntact ==
    ASSUME IntactUnlessTorn, NEW r \in Request, OthersStay(r), torn' = torn,
           \A u \in User, n \in Node :
               /\ <<u, n>> \in roster' <=> <<u, n>> \in roster
               /\ <<n, u>> \in roster' <=> <<n, u>> \in roster,
           task[r] # Idle => task[r].at \notin Inserting \cup Removing,
           task'[r] # Idle => task'[r].at \notin Inserting \cup Removing
    PROVE  IntactUnlessTorn'
<1> SUFFICES ASSUME NEW u \in User, NEW n \in Node, <<u, n>> \notin torn'
             PROVE  Intact(u, n)'
  BY DEF IntactUnlessTorn
<1>1. /\ ~At(r, <<u, n>>, Inserting \cup Removing)
      /\ ~At(r, <<u, n>>, Inserting \cup Removing)'
  BY DEF At
<1> QED
  BY <1>1, IntactQuiet DEF IntactUnlessTorn

(* The steps of a request that insert or remove nothing.                   *)
Elsewhere(r) ==
    \/ CreateNode(r) \/ UpdateNode(r) \/ ReadNode(r) \/ ReadUsers(r)
    \/ RenameNode(r) \/ RenameRow(r)
    \/ DropNode(r) \/ DropMessages(r) \/ StoreMessage(r)

LEMMA ProceedsParts ==
    ASSUME NEW r \in Request, RequestProceeds(r)
    PROVE  InitRoster(r) \/ Follow(r) \/ Starts(r) \/ Removes(r) \/ Ends(r)
               \/ Elsewhere(r)
BY RemovalParts DEF RequestProceeds, Elsewhere

Quiet == Label \ {"initNode", "shareNode", "unfollowing", "dropping"}

LEMMA ElsewhereStep ==
    ASSUME RosterTypeOK, NEW r \in Request, Elsewhere(r)
    PROVE  /\ OthersStay(r) /\ task[r] # Idle /\ task[r].at \in Quiet
           /\ task'[r] # Idle => task'[r].at \in Quiet
<1> DEFINE Changes == /\ OthersStay(r) /\ task[r] # Idle
                      /\ task'[r] # Idle => task'[r].at \in Quiet
<1>0. task[r] # Idle /\ task[r].at \in Quiet
  BY DEF Elsewhere, CreateNode, UpdateNode, ReadNode, ReadUsers, RenameNode,
     RenameRow, DropNode, DropMessages, StoreMessage, Runs, Quiet, Label
<1>1. ASSUME Finish(r) PROVE Changes
  BY <1>0, <1>1, FinishStep
<1>2. ASSUME NEW label \in Quiet, Proceed(r, label) PROVE Changes
  BY <1>0, <1>2, ProceedStep DEF Quiet
<1>3. CASE ReadNode(r)
  BY <1>0, <1>3, ReadStep DEF Quiet, Label
<1> HIDE DEF Changes
<1>4. CASE DropMessages(r) \/ StoreMessage(r)
  <2>1. Changes
    BY <1>1, <1>4 DEF DropMessages, StoreMessage
  <2> QED
    BY <1>0, <2>1 DEF Changes
<1>5. CASE CreateNode(r) \/ UpdateNode(r) \/ DropNode(r)
  <2>1. "init" \in Quiet /\ "dropMessages" \in Quiet
    BY DEF Quiet, Label
  <2>2. Changes
    BY <1>2, <1>5, <2>1 DEF CreateNode, UpdateNode, DropNode
  <2> QED
    BY <1>0, <2>2 DEF Changes
<1>6. CASE ReadUsers(r)
  <2>1. {"rename", "share", "dropRoster", "unfollow"} \subseteq Quiet
    BY DEF Quiet, Label
  <2>2. Changes
    BY <1>1, <1>2, <1>6, <2>1 DEF ReadUsers
  <2> QED
    BY <1>0, <2>2 DEF Changes
<1>7. CASE RenameNode(r) \/ RenameRow(r)
  <2>1. "renameRow" \in Quiet /\ "renameNode" \in Quiet
    BY DEF Quiet, Label
  <2>2. Changes
    BY <1>1, <1>2, <1>7, <2>1 DEF RenameNode, RenameRow
  <2> QED
    BY <1>0, <2>2 DEF Changes
<1> QED
  BY <1>0, <1>3, <1>4, <1>5, <1>6, <1>7 DEF Elsewhere, Changes

LEMMA ProceedsIntact ==
    ASSUME RosterTypeOK, IntactUnlessTorn, NEW r \in Request,
           RequestProceeds(r)
    PROVE  IntactUnlessTorn'
<1>1. CASE Elsewhere(r)
  <2>1. torn' = torn
    BY <1>1 DEF Elsewhere, CreateNode, UpdateNode, ReadNode, ReadUsers,
       RenameNode, RenameRow, DropNode, DropMessages, StoreMessage, historyVars
  <2>2. roster' = roster \/ \E n : roster' = roster \cup {<<Nobody, n>>}
    BY <1>1 DEF Elsewhere, CreateNode, UpdateNode, ReadNode, ReadUsers,
       RenameNode, RenameRow, DropNode, DropMessages, StoreMessage
  <2>3. \A u \in User, n \in Node :
           /\ <<u, n>> \in roster' <=> <<u, n>> \in roster
           /\ <<n, u>> \in roster' <=> <<n, u>> \in roster
    BY <2>2, RosterAssumption
  <2> QED
    BY <1>1, <2>1, <2>3, ElsewhereStep, QuietIntact
       DEF Quiet, Inserting, Removing
<1> QED
  BY <1>1, ProceedsParts, InsertIntact, StartsIntact, RemovesIntact, EndsIntact

-----------------------------------------------------------------------------
(* The owner and the messages of a node.                                   *)

(* What another request has pending stays pending.                         *)
LEMMA PendingStays ==
    ASSUME NEW r \in Request, OthersStay(r), NEW n, NEW labels,
           Pending(n, labels),
           task[r] = Idle \/ task[r].node # n \/ task[r].at \notin labels
    PROVE  Pending(n, labels)'
BY DEF Pending, OthersStay

LEMMA ProceedsStep ==
    ASSUME RosterTypeOK, NEW r \in Request, RequestProceeds(r)
    PROVE  /\ OthersStay(r) /\ task[r] # Idle
           /\ resurrected \subseteq resurrected'
           /\ \A n \in Node : n \in cut \ cut' => nodes'[n] = "none"
<1> DEFINE n == task[r].node
<1>1. OthersStay(r) /\ task[r] # Idle
  BY InsertStep, StartsStep, RemovesStep, EndsStep, ElsewhereStep, ProceedsParts
<1>2. CASE InitRoster(r) \/ Follow(r) \/ Starts(r) \/ Removes(r) \/ Ends(r)
  BY <1>1, <1>2, InsertStep, StartsStep, RemovesStep, EndsStep DEF historyVars
<1>3. CASE DropNode(r)
  <2>1. n \in Node
    BY <1>1, TaskType
  <2> QED
    BY <1>1, <1>3, <2>1 DEF DropNode, RosterTypeOK
<1>4. CASE Elsewhere(r) /\ ~DropNode(r)
  BY <1>1, <1>4 DEF Elsewhere, CreateNode, UpdateNode, ReadNode, ReadUsers,
     RenameNode, RenameRow, DropMessages, StoreMessage, historyVars
<1> QED
  BY <1>2, <1>3, <1>4, ProceedsParts

(* The roster of the owner.                                                *)
LEMMA OwnerProceeds ==
    ASSUME RosterTypeOK, OwnerKeepsNode, InitByOwner, PageOfGhost,
           GhostIsResurrected, NEW r \in Request, RequestProceeds(r)
    PROVE  OwnerKeepsNode'
<1> DEFINE Labels == {"init", "dropping", "dropNode"}
<1> SUFFICES ASSUME NEW m \in Node, nodes'[m] = "whole",
                    m \notin cut' \cup resurrected',
                    <<Owner[m], m>> \notin roster'
             PROVE  Pending(m, Labels)'
  BY DEF OwnerKeepsNode
<1> DEFINE n == task[r].node
<1>1. OthersStay(r) /\ task[r] # Idle /\ n \in Node /\ Owner[m] \in User
  BY ProceedsStep, TaskType, RosterAssumption
<1>2. m \notin cut \cup resurrected
  BY ProceedsStep
<1>3. ASSUME nodes[m] = "whole", <<Owner[m], m>> \notin roster,
             n # m \/ task[r].at \notin Labels
      PROVE  Pending(m, Labels)'
  <2>1. Pending(m, Labels)
    BY <1>2, <1>3 DEF OwnerKeepsNode
  <2> QED
    BY <1>1, <1>3, <2>1, PendingStays
<1>4. ASSUME task'[r] # Idle, task'[r].node = m, task'[r].at \in Labels
      PROVE  Pending(m, Labels)'
  BY <1>4 DEF Pending
<1>5. CASE InitRoster(r) \/ Follow(r)
  <2>1. /\ nodes' = nodes /\ roster \subseteq roster'
        /\ task[r].at = "init" => <<task[r].login, n>> \in roster'
        /\ task[r].at \in {"init", "share"} \cup Inserting
    BY <1>5, InsertStep DEF Inserting
  <2>2. CASE n = m /\ task[r].at = "init"
    <3>1. task[r].login = Owner[m]
      BY <1>1, <2>2 DEF InitByOwner
    <3> QED
      BY <2>1, <2>2, <3>1
  <2>3. CASE n # m \/ task[r].at # "init"
    BY <1>3, <2>1, <2>3 DEF Inserting
  <2> QED
    BY <2>2, <2>3
<1>6. CASE Starts(r)
  BY <1>3, <1>6, StartsStep
<1>7. CASE Removes(r)
  <2>1. PICK row \in Matched(task[r]) \cup (task[r].left \ roster) :
          /\ task'[r] # Idle /\ task[r].at \in Removing
          /\ task'[r].at = task[r].at /\ task'[r].node = n
          /\ roster' = roster \ {row} /\ nodes' = nodes
    BY <1>7, RemovesStep
  <2>2. CASE n = m /\ task[r].at = "dropping"
    BY <1>4, <2>1, <2>2
  <2>3. CASE /\ n # m \/ task[r].at # "dropping"
             /\ <<Owner[m], m>> \notin roster
    BY <1>3, <2>1, <2>3 DEF Removing
  <2>4. CASE /\ n # m \/ task[r].at # "dropping"
             /\ <<Owner[m], m>> \in roster
    <3>1. <<Owner[m], m>> \in Matched(task[r])
      BY <2>1, <2>4
    <3>2. <<Owner[m], m>> \in Subscriptions(task[r])
      BY <1>1, <3>1, MatchedRows
    <3>3. task[r].at = "unfollowing" /\ n = m /\ task[r].login = Owner[m]
      BY <2>1, <2>4, <3>2 DEF Subscriptions, Removing
    <3> QED
      BY <1>1, <1>2, <3>3 DEF PageOfGhost
  <2> QED
    BY <2>2, <2>3, <2>4
<1>8. CASE Ends(r)
  BY <1>3, <1>4, <1>8, EndsStep DEF Removing
<1>9. CASE CreateNode(r) \/ UpdateNode(r)
  <2>1. CASE n = m
    <3>1. Proceed(r, "init")
      BY <1>9 DEF CreateNode, UpdateNode
    <3> QED
      BY <1>1, <1>4, <2>1, <3>1, ProceedStep DEF Label
  <2>2. CASE n # m
    BY <1>3, <1>9, <2>2 DEF CreateNode, UpdateNode, RosterTypeOK
  <2> QED
    BY <2>1, <2>2
<1>10. CASE RenameNode(r)
  BY <1>1, <1>3, <1>10 DEF RenameNode, Runs, RosterTypeOK
<1>11. CASE RenameRow(r)
  BY <1>3, <1>11 DEF RenameRow, Runs
<1>12. CASE DropNode(r)
  BY <1>1, <1>3, <1>12 DEF DropNode, RosterTypeOK
<1>13. CASE ReadNode(r) \/ ReadUsers(r) \/ DropMessages(r) \/ StoreMessage(r)
  BY <1>3, <1>13 DEF ReadNode, ReadUsers, DropMessages, StoreMessage, Runs
<1> QED
  BY <1>5, <1>6, <1>7, <1>8, <1>9, <1>10, <1>11, <1>12, <1>13, ProceedsParts
     DEF Elsewhere

(* The messages of a node that was deleted.                                *)
LEMMA MessagesProceed ==
    ASSUME RosterTypeOK, DeletedTakesMessages, NEW r \in Request,
           RequestProceeds(r)
    PROVE  DeletedTakesMessages'
<1> SUFFICES ASSUME NEW m \in Node, nodes'[m] = "none", m \in messages',
                    m \notin late' \cup cut'
             PROVE  Pending(m, {"dropMessages"})'
  BY DEF DeletedTakesMessages
<1> DEFINE n == task[r].node
<1>1. OthersStay(r) /\ task[r] # Idle /\ n \in Node
  BY ProceedsStep, TaskType
<1>2. ASSUME nodes[m] = "none", m \in messages, m \notin late \cup cut,
             n # m \/ task[r].at # "dropMessages"
      PROVE  Pending(m, {"dropMessages"})'
  <2>1. Pending(m, {"dropMessages"})
    BY <1>2 DEF DeletedTakesMessages
  <2> QED
    BY <1>1, <1>2, <2>1, PendingStays
<1>3. CASE InitRoster(r) \/ Follow(r)
  BY <1>2, <1>3, InsertStep DEF Inserting
<1>4. CASE Starts(r) \/ Removes(r) \/ Ends(r)
  BY <1>2, <1>4, StartsStep, RemovesStep, EndsStep DEF Removing, historyVars
<1>5. CASE ReadNode(r) \/ ReadUsers(r) \/ RenameRow(r)
  BY <1>2, <1>5 DEF ReadNode, ReadUsers, RenameRow, Runs, historyVars
<1>6. CASE CreateNode(r) \/ UpdateNode(r)
  BY <1>1, <1>2, <1>6
     DEF CreateNode, UpdateNode, Runs, historyVars, RosterTypeOK
<1>7. CASE RenameNode(r)
  BY <1>1, <1>2, <1>7 DEF RenameNode, Runs, RosterTypeOK
<1>8. CASE DropNode(r)
  <2>1. CASE n = m
    <3>1. Proceed(r, "dropMessages")
      BY <1>8 DEF DropNode
    <3> QED
      BY <1>1, <2>1, <3>1, ProceedStep DEF Label, Pending
  <2>2. CASE n # m
    BY <1>2, <1>8, <2>2 DEF DropNode, RosterTypeOK
  <2> QED
    BY <2>1, <2>2
<1>9. CASE DropMessages(r)
  BY <1>2, <1>9 DEF DropMessages
<1>10. CASE StoreMessage(r)
  BY <1>1, <1>2, <1>10 DEF StoreMessage, CreateMessage, Runs
<1> QED
  BY <1>3, <1>4, <1>5, <1>6, <1>7, <1>8, <1>9, <1>10, ProceedsParts
     DEF Elsewhere

(* What requests remember of the nodes they read.                          *)
LEMMA GhostProceeds ==
    ASSUME RosterTypeOK, GhostIsResurrected, NEW r \in Request,
           RequestProceeds(r)
    PROVE  GhostIsResurrected'
<1>1. task[r] # Idle => task[r].node \in Node
  BY TaskType
<1>2. CASE CreateNode(r) \/ UpdateNode(r)
  BY <1>1, <1>2 DEF CreateNode, UpdateNode, Runs, historyVars, RosterTypeOK,
     GhostIsResurrected
<1>3. CASE RenameNode(r) \/ DropNode(r)
  BY <1>1, <1>3 DEF RenameNode, DropNode, Runs, RosterTypeOK, GhostIsResurrected
<1>4. CASE UNCHANGED <<nodes, resurrected>>
  BY <1>4 DEF GhostIsResurrected
<1>5. CASE InitRoster(r) \/ Follow(r) \/ Starts(r) \/ Removes(r) \/ Ends(r)
  BY <1>4, <1>5, InsertStep, StartsStep, RemovesStep, EndsStep DEF historyVars
<1> QED
  BY <1>2, <1>3, <1>4, <1>5, ProceedsParts DEF Elsewhere, ReadNode, ReadUsers,
     RenameRow, DropMessages, StoreMessage, historyVars

LEMMA PageProceeds ==
    ASSUME RosterTypeOK, GhostIsResurrected, PageOfGhost, NEW r \in Request,
           RequestProceeds(r)
    PROVE  PageOfGhost'
<1> DEFINE n == task[r].node
           Labels == {"unfollow", "unfollowing"}
<1>1. /\ OthersStay(r) /\ task[r] # Idle /\ n \in Node /\ task[r].owned \in BOOLEAN
      /\ resurrected \subseteq resurrected'
  BY ProceedsStep, TaskType
<1> SUFFICES ASSUME task'[r] # Idle
             PROVE  /\ ~task'[r].owned => task'[r].node \in resurrected'
                    /\ task'[r].at \in Labels
                           /\ task'[r].login = Owner[task'[r].node]
                           => task'[r].node \in resurrected'
  BY <1>1 DEF PageOfGhost, OthersStay
<1>2. CASE ReadNode(r)
  BY <1>1, <1>2, ReadStep DEF GhostIsResurrected, RosterTypeOK
<1>3. CASE ReadUsers(r) /\ Proceed(r, "unfollow")
  <2>1. /\ task'[r].at = "unfollow" /\ task'[r].node = n
        /\ task'[r].login = task[r].login /\ task'[r].owned = task[r].owned
    BY <1>1, <1>3, ProceedStep DEF Label
  <2>2. task[r].op = "unfollow" /\ MayUnfollow(task[r])
    <3>1. ~Finish(r)
      BY FinishStep
    <3>2. ASSUME NEW label \in Label \ {"unfollow"}, Proceed(r, label)
          PROVE  FALSE
      BY <1>1, <2>1, <3>2, ProceedStep
    <3> QED
      BY <1>3, <3>1, <3>2 DEF ReadUsers, Label
  <2> QED
    BY <1>1, <2>1, <2>2 DEF MayUnfollow, PageOfGhost
<1>4. CASE /\ task'[r].at \in Labels => task[r].at \in Labels
           /\ task'[r].login = task[r].login
           /\ task'[r].owned = task[r].owned /\ task'[r].node = n
  BY <1>1, <1>4 DEF PageOfGhost
<1>5. ASSUME Finish(r) PROVE FALSE
  BY <1>5, FinishStep
<1>6. ASSUME NEW label \in Label \ Labels, Proceed(r, label)
      PROVE  /\ task'[r].at \notin Labels /\ task'[r].login = task[r].login
             /\ task'[r].owned = task[r].owned /\ task'[r].node = n
  BY <1>1, <1>6, ProceedStep
<1>7. CASE ReadUsers(r)
  BY <1>3, <1>4, <1>5, <1>6, <1>7 DEF ReadUsers, Label
<1>8. CASE InitRoster(r) \/ Follow(r)
  BY <1>4, <1>8, InsertStep DEF Inserting
<1>9. CASE Starts(r) \/ Removes(r) \/ Ends(r)
  BY <1>4, <1>9, StartsStep, RemovesStep, EndsStep DEF Removing
<1>10. CASE DropMessages(r) \/ StoreMessage(r)
  BY <1>5, <1>10 DEF DropMessages, StoreMessage
<1>11. CASE CreateNode(r) \/ UpdateNode(r) \/ DropNode(r)
  BY <1>4, <1>6, <1>11 DEF CreateNode, UpdateNode, DropNode, Label
<1>12. CASE RenameNode(r) \/ RenameRow(r)
  BY <1>4, <1>5, <1>6, <1>12 DEF RenameNode, RenameRow, Label
<1> QED
  BY <1>2, <1>7, <1>8, <1>9, <1>10, <1>11, <1>12, ProceedsParts DEF Elsewhere

LEMMA InitProceeds ==
    ASSUME RosterTypeOK, InitByOwner, NEW r \in Request, RequestProceeds(r)
    PROVE  InitByOwner'
<1> DEFINE Creating == {"insert", "update", "init"}
<1>1. OthersStay(r) /\ task[r] # Idle
  BY ProceedsStep
<1> SUFFICES ASSUME task'[r] # Idle, task'[r].at \in Creating
             PROVE  task'[r].login = Owner[task'[r].node]
  BY <1>1 DEF InitByOwner, OthersStay
<1>2. ASSUME Finish(r) PROVE FALSE
  BY <1>2, FinishStep
<1>3. ASSUME NEW label \in Label, Proceed(r, label)
      PROVE  task'[r].at = label /\ task'[r].login = task[r].login
             /\ task'[r].node = task[r].node
  BY <1>1, <1>3, ProceedStep
<1>4. CASE InitRoster(r) \/ Follow(r) \/ Starts(r) \/ Removes(r) \/ Ends(r)
  BY <1>4, InsertStep, StartsStep, RemovesStep, EndsStep DEF Inserting, Removing
<1>5. CASE ReadNode(r)
  BY <1>5, ReadStep
<1>6. CASE ReadUsers(r)
  BY <1>2, <1>3, <1>6 DEF ReadUsers, Label
<1>7. CASE DropMessages(r) \/ StoreMessage(r)
  BY <1>2, <1>7 DEF DropMessages, StoreMessage
<1>8. CASE CreateNode(r) \/ UpdateNode(r)
  BY <1>1, <1>3, <1>8 DEF CreateNode, UpdateNode, Label, Runs, InitByOwner
<1>9. CASE DropNode(r)
  BY <1>3, <1>9 DEF DropNode, Label
<1>10. CASE RenameNode(r) \/ RenameRow(r)
  BY <1>2, <1>3, <1>10 DEF RenameNode, RenameRow, Label
<1> QED
  BY <1>4, <1>5, <1>6, <1>7, <1>8, <1>9, <1>10, ProceedsParts DEF Elsewhere

-----------------------------------------------------------------------------
(* The inductive invariant.                                                *)

LEMMA InitIInv == Init => IInv
<1> SUFFICES ASSUME Init
             PROVE  IInv
  OBVIOUS
<1> USE DEF Init, RosterInit
<1>1. TypeOK
  BY InitType
<1>2. OwnerKeepsNode /\ DeletedTakesMessages
  BY DEF OwnerKeepsNode, DeletedTakesMessages
<1>3. HeldWhenNeeded /\ GhostIsResurrected /\ PageOfGhost /\ InitByOwner
  BY DEF HeldWhenNeeded, GhostIsResurrected, PageOfGhost, InitByOwner
<1>4. IntactUnlessTorn
  BY DEF IntactUnlessTorn, Intact, UnderWay, At
<1> QED
  BY <1>1, <1>2, <1>3, <1>4 DEF IInv

LEMMA IntactStays ==
    ASSUME IntactUnlessTorn, UNCHANGED <<roster, task, torn>>
    PROVE  IntactUnlessTorn'
<1>1. ASSUME NEW q, NEW s, NEW labels
      PROVE  At(q, s, labels)' <=> At(q, s, labels)
  BY DEF At, Subscriptions
<1>2. ASSUME NEW s, NEW labels
      PROVE  UnderWay(s, labels)' <=> UnderWay(s, labels)
  BY <1>1 DEF UnderWay
<1>3. ASSUME NEW u \in User, NEW n \in Node, Intact(u, n)
      PROVE  Intact(u, n)'
  BY <1>1, <1>2, <1>3 DEF Intact
<1> QED
  BY <1>3 DEF IntactUnlessTorn

LEMMA MailStays ==
    ASSUME IInv, RosterTypeOK', UNCHANGED mailVars
    PROVE  TypeOK' /\ HeldWhenNeeded'
BY DEF IInv, TypeOK, HeldWhenNeeded, mailVars

LEMMA BeginsIInv ==
    ASSUME IInv, NEW r \in Request, RequestBegins(r), UNCHANGED mailVars
    PROVE  IInv'
<1>1. RosterTypeOK /\ RosterTypeOK'
  BY BeginsType DEF IInv, TypeOK
<1>2. /\ UNCHANGED <<nodes, roster, messages, historyVars>>
      /\ OthersStay(r) /\ task[r] = Idle /\ task'[r].owned = TRUE
      /\ task'[r].at \in {"insert", "update", "init", "node", "store"}
      /\ task'[r].at \in {"insert", "update", "init"} =>
             task'[r].login = Owner[task'[r].node]
  BY <1>1, BeginsStep
<1>3. GhostIsResurrected'
  BY <1>2 DEF IInv, GhostIsResurrected, historyVars
<1>4. IntactUnlessTorn'
  BY <1>2, QuietIntact DEF IInv, Inserting, Removing, historyVars
<1>5. \A n, labels : Pending(n, labels) => Pending(n, labels)'
  BY <1>2, PendingStays
<1>6. OwnerKeepsNode' /\ DeletedTakesMessages'
  BY <1>2, <1>5 DEF IInv, OwnerKeepsNode, DeletedTakesMessages, historyVars
<1>7. PageOfGhost' /\ InitByOwner'
  BY <1>2 DEF IInv, PageOfGhost, InitByOwner, OthersStay, historyVars
<1> QED
  BY <1>1, <1>3, <1>4, <1>6, <1>7, MailStays DEF IInv

LEMMA ProceedsIInv ==
    ASSUME IInv, NEW r \in Request, RequestProceeds(r), UNCHANGED mailVars
    PROVE  IInv'
<1>1. RosterTypeOK /\ RosterTypeOK'
  BY ProceedsType DEF IInv, TypeOK
<1>2. IntactUnlessTorn' /\ OwnerKeepsNode' /\ DeletedTakesMessages'
  BY <1>1, ProceedsIntact, OwnerProceeds, MessagesProceed DEF IInv
<1>3. GhostIsResurrected' /\ PageOfGhost' /\ InitByOwner'
  BY <1>1, GhostProceeds, PageProceeds, InitProceeds DEF IInv
<1> QED
  BY <1>1, <1>2, <1>3, MailStays DEF IInv

LEMMA AbortIInv ==
    ASSUME IInv, NEW r \in Request, Abort(r), UNCHANGED mailVars
    PROVE  IInv'
<1>1. RosterTypeOK /\ RosterTypeOK' /\ task[r] # Idle
  BY AbortType DEF IInv, TypeOK, Abort
<1>2. OthersStay(r) /\ task'[r] = Idle
  BY <1>1, FinishStep DEF Abort
<1>3. /\ UNCHANGED <<nodes, roster, messages, resurrected, late>>
      /\ cut \subseteq cut'
      /\ task[r].at \in {"init", "dropping", "dropNode", "dropMessages"} =>
             task[r].node \in cut'
  BY DEF Abort
<1>4. GhostIsResurrected' /\ IntactUnlessTorn'
  BY <1>1, <1>3, AbortIntact DEF IInv, GhostIsResurrected
<1>5. OwnerKeepsNode'
  <2> DEFINE Labels == {"init", "dropping", "dropNode"}
  <2> SUFFICES ASSUME NEW n \in Node, Pending(n, Labels), n \notin cut'
               PROVE  Pending(n, Labels)'
    BY <1>3 DEF IInv, OwnerKeepsNode
  <2> QED
    BY <1>2, <1>3, PendingStays
<1>6. DeletedTakesMessages'
  <2> SUFFICES ASSUME NEW n \in Node, Pending(n, {"dropMessages"}),
                      n \notin cut'
               PROVE  Pending(n, {"dropMessages"})'
    BY <1>3 DEF IInv, DeletedTakesMessages
  <2> QED
    BY <1>2, <1>3, PendingStays
<1>7. PageOfGhost' /\ InitByOwner'
  BY <1>2, <1>3 DEF IInv, PageOfGhost, InitByOwner, OthersStay
<1> QED
  BY <1>1, <1>4, <1>5, <1>6, <1>7, MailStays DEF IInv

LEMMA MailIInv == IInv /\ MailNext => IInv'
<1> SUFFICES ASSUME IInv, MailNext
             PROVE  IInv'
  OBVIOUS
<1>1. UNCHANGED <<nodes, roster, task, cut, torn, resurrected>>
  BY DEF MailNext, RcptAccepted, DataPost, Resets, MailRestarts, rosterVars
<1>2. GhostIsResurrected' /\ PageOfGhost' /\ InitByOwner' /\ OwnerKeepsNode'
  BY <1>1 DEF IInv, GhostIsResurrected, PageOfGhost, InitByOwner,
     OwnerKeepsNode, Pending
<1>3. IntactUnlessTorn'
  BY <1>1, IntactStays DEF IInv
<1>4. TypeOK' /\ HeldWhenNeeded' /\ DeletedTakesMessages'
  <2> USE BackendAssumption DEF IInv, TypeOK, RosterTypeOK, HeldWhenNeeded
  <2>1. ASSUME NEW s \in Session, NEW n \in Node, RcptAccepted(s, n)
        PROVE  TypeOK' /\ HeldWhenNeeded' /\ DeletedTakesMessages'
    BY <2>1 DEF RcptAccepted, rosterVars, DeletedTakesMessages, Pending
  <2>2. ASSUME NEW s \in Session, DataPost(s)
        PROVE  TypeOK' /\ HeldWhenNeeded' /\ DeletedTakesMessages'
    BY <2>2 DEF DataPost, CreateMessage, DeletedTakesMessages, Pending
  <2>3. ASSUME NEW s \in Session, Resets(s)
        PROVE  TypeOK' /\ HeldWhenNeeded' /\ DeletedTakesMessages'
    BY <2>3 DEF Resets, rosterVars, DeletedTakesMessages, Pending
  <2>4. CASE MailRestarts
    BY <2>4 DEF MailRestarts, rosterVars, DeletedTakesMessages, Pending
  <2> QED
    BY <2>1, <2>2, <2>3, <2>4 DEF MailNext
<1> QED
  BY <1>2, <1>3, <1>4 DEF IInv

LEMMA NextIInv == IInv /\ [Next]_vars => IInv'
<1> SUFFICES ASSUME IInv, [Next]_vars
             PROVE  IInv'
  OBVIOUS
<1>1. CASE RosterNext /\ UNCHANGED mailVars
  BY <1>1, BeginsIInv, ProceedsIInv, AbortIInv DEF RosterNext
<1>2. CASE MailNext
  BY <1>2, MailIInv
<1>3. CASE UNCHANGED vars
  <2> USE <1>3 DEF vars, rosterVars, mailVars, IInv
  <2>1. TypeOK' /\ HeldWhenNeeded'
    BY DEF TypeOK, RosterTypeOK, HeldWhenNeeded
  <2>2. OwnerKeepsNode' /\ DeletedTakesMessages'
    BY DEF OwnerKeepsNode, DeletedTakesMessages, Pending
  <2>3. GhostIsResurrected' /\ PageOfGhost' /\ InitByOwner'
    BY DEF GhostIsResurrected, PageOfGhost, InitByOwner
  <2>4. IntactUnlessTorn'
    BY IntactStays
  <2> QED
    BY <2>1, <2>2, <2>3, <2>4
<1> QED
  BY <1>1, <1>2, <1>3 DEF Next

(* The inductive invariant of requests, cuts and mails holds: but for the  *)
(* subscriptions that are torn, a half insert has its first row, a half    *)
(* removal has found every row, and no subscription has both.              *)
THEOREM Safety == Spec => []IInv
BY InitIInv, NextIInv, PTL DEF Spec

(* The two rows of a subscription come and go together, although each is   *)
(* written and removed for itself, unless an insert met a removal of it or *)
(* one of them was cut half way.                                           *)
THEOREM SubscriptionsAreSymmetric == Spec => []RosterSymmetric
<1>1. IInv => RosterSymmetric
  BY DEF IInv, IntactUnlessTorn, Intact, RosterSymmetric
<1> QED
  BY <1>1, Safety, PTL

(* A node stays in the roster of its owner, but for the exceptions that    *)
(* OwnerKeepsNode names.                                                   *)
THEOREM NodesStayWithOwner == Spec => []OwnerKeepsNode
<1>1. IInv => OwnerKeepsNode
  BY DEF IInv
<1> QED
  BY <1>1, Safety, PTL

(* A node that is deleted takes its messages along.                        *)
THEOREM MessagesGoWithNode == Spec => []DeletedTakesMessages
<1>1. IInv => DeletedTakesMessages
  BY DEF IInv
<1> QED
  BY <1>1, Safety, PTL

(* The variables keep their types; the field of the plugin is never        *)
(* missing when a mail is stored.                                          *)
THEOREM TypeCorrect == Spec => []TypeOK
<1>1. IInv => TypeOK
  BY DEF IInv
<1> QED
  BY <1>1, Safety, PTL
=============================================================================

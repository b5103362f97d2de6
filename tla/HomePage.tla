------------------------------ MODULE HomePage -------------------------------
(***************************************************************************)
(* The home page of the web site, the function home of web/index.js: a     *)
(* visitor walks from page to page by the links of the view while          *)
(* messages arrive and the roster changes, as in Feed.  A page is read in  *)
(* three steps, the nodes of the user, their messages and the metrics of   *)
(* the charts, and is counted from the newest message there is.  The page  *)
(* of one node is the same with that node alone.                           *)
(***************************************************************************)
EXTENDS Feed

NotReading == [page |-> 0, step |-> "none", nodes |-> {}, messages |-> <<>>]

VARIABLES
    reading,  \* the page that is being made, what is read for it next, and
              \* the nodes and messages that were read
    at,       \* the page the visitor sees, 0 for none
    full,     \* it has as many messages as fit: there is a link to the next
    seen,     \* history: the messages shown since the first page
    due,      \* history: those there were when the first page was read
    shrunk    \* history: a node has left the user's roster since then

homeVars == <<reading, at, full, seen, due, shrunk>>

HomeTypeOK ==
    /\ reading.page \in 0..(MaxId + 1)
    /\ reading.step \in {"none", "messages", "charts"}
    /\ reading.nodes \subseteq Node /\ reading.messages \in Seq(Id)
    /\ at \in 0..(MaxId + 1)
    /\ full \in BOOLEAN
    /\ seen \subseteq Id /\ due \subseteq Id
    /\ shrunk \in BOOLEAN

HomeInit ==
    /\ reading = NotReading
    /\ at = 0 /\ full = FALSE
    /\ seen = {} /\ due = {}
    /\ shrunk = FALSE

(* The links of the view: the first page, the newer and the older one.     *)
Linked(p) ==
    \/ p = 1
    \/ at > 1 /\ p = at - 1
    \/ at > 0 /\ full /\ p = at + 1

(* users.nodes.  With the first page a new walk begins.                    *)
HomeNodes(p) ==
    /\ reading = NotReading
    /\ Linked(p)
    /\ reading' = [page |-> p, step |-> "messages", nodes |-> followed,
                    messages |-> <<>>]
    /\ IF p = 1
       THEN at' = 0 /\ full' = FALSE /\ seen' = {} /\ due' = {} /\ shrunk' = FALSE
       ELSE UNCHANGED <<at, full, seen, due, shrunk>>
    /\ UNCHANGED feedVars

SkipOneMore(p) == p * Count
Skip(p) == (p - 1) * Count

(* messages.find of the nodes that were read, newest first.                *)
HomeMessages ==
    LET found == {i \in DOMAIN stored : stored[i] \in reading.nodes}
    IN  /\ reading.step = "messages"
        /\ reading' = [reading EXCEPT !.step = "charts",
                                     !.messages = Page(found, Skip(reading.page))]
        /\ due' = IF reading.page = 1 THEN found ELSE due
        /\ UNCHANGED <<at, full, seen, shrunk, feedVars>>

(* fillChart puts charts on some of the messages, from the metrics of      *)
(* their nodes, and leaves all of them where they are; the page is shown.  *)
FillChart ==
    /\ reading.step = "charts"
    /\ reading' = NotReading
    /\ at' = reading.page
    /\ full' = (Len(reading.messages) = Count)
    /\ seen' = seen \cup ToSet(reading.messages)
    /\ UNCHANGED <<due, shrunk, feedVars>>

(* An error of the database: the visitor may go back to the page he saw.   *)
HomeFails ==
    /\ reading # NotReading
    /\ reading' = NotReading
    /\ UNCHANGED <<at, full, seen, due, shrunk, feedVars>>

Elsewhere ==
    /\ \/ \E i \in Id, n \in Node : CreateMessage(i, n)
       \/ \E n \in Node : RosterChanges(n)
    /\ shrunk' = (shrunk \/ ~(followed \subseteq followed'))
    /\ UNCHANGED <<reading, at, full, seen, due>>

HomeNext ==
    \/ \E p \in 1..(MaxId + 1) : HomeNodes(p)
    \/ HomeMessages \/ FillChart
    \/ HomeFails
    \/ Elsewhere

HomeSpec == Init /\ HomeInit /\ [][HomeNext]_<<feedVars, homeVars>>

-----------------------------------------------------------------------------
(* Who walks through the pages to the last one has seen every message      *)
(* there was at the start: arrivals push messages to later pages and make  *)
(* some appear twice, but hide none; unless a node left the roster, whose  *)
(* messages go and pull others to pages that were already read.            *)
PagesMissNothing == shrunk \/ (at > 0 /\ ~full => due \subseteq seen)

=============================================================================

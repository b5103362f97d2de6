--------------------------------- MODULE Feed ---------------------------------
(***************************************************************************)
(* The message list of the Android client against the messages endpoint:   *)
(* API.java keeps two cursors and a page number, api/index.js answers from *)
(* the roster and the messages as they are then, NodebusActivity.java puts *)
(* the answer into its list.  The client blocks while it asks; what the    *)
(* database goes through between two of its requests is unrestricted.      *)
(*                                                                         *)
(* Ids of messages are object ids: they come from a clock, and processes   *)
(* that store messages in the same second may store them out of order.     *)
(***************************************************************************)
EXTENDS Naturals, Sequences, SequencesExt, FiniteSetsExt

CONSTANTS
    Node,
    Count,        \* COUNT, the messages of a page
    MaxId,        \* bound: messages
    MaxChanges,   \* bound: changes of the roster
    MaxFailures   \* bound: requests that fail once the page number moved

ASSUME FeedAssumption ==
    /\ Count \in Nat \ {0}
    /\ MaxId \in Nat /\ MaxChanges \in Nat /\ MaxFailures \in Nat

Id == 1..MaxId

(* The cursor before any message was seen: the empty string.               *)
Nothing == 0

VARIABLES
    stored,    \* the messages: the node of each id, in a partial function
    followed,  \* the nodes in the roster of the user
    changes,
    failures,
    last,      \* mLastMessageId
    since,     \* mSinceMessageId
    page,      \* mMessagePage
    finished,  \* mMessageFinished
    list,      \* mListItems
    flaws      \* history: what happened to the list since the log-in

serverVars == <<stored, followed, changes>>
cursors == <<last, since, page, finished>>
feedVars == <<serverVars, failures, cursors, list, flaws>>

(* moved: messages at or below a cursor came or went.  skipped: a page was *)
(* not shown, or a refresh did not reach down to the last one.  unanchored: *)
(* a page was read before there was a cursor.  reversed: a refresh brought *)
(* several messages.                                                       *)
Flaw == {"moved", "skipped", "unanchored", "reversed"}

(* The values of the variables; a page is asked for only while the last    *)
(* one was full or failed.                                                 *)
TypeOK ==
    /\ DOMAIN stored \subseteq Id /\ \A i \in DOMAIN stored : stored[i] \in Node
    /\ followed \subseteq Node
    /\ changes \in 0..MaxChanges /\ failures \in 0..MaxFailures
    /\ last \in Id \cup {Nothing} /\ since \in Id \cup {Nothing}
    /\ page \in 1..(MaxId + MaxFailures + 2)
    /\ finished \in BOOLEAN
    /\ list \in Seq(Id)
    /\ flaws \subseteq Flaw

Init ==
    /\ stored = << >>
    /\ followed \in SUBSET Node
    /\ changes = 0 /\ failures = 0
    /\ last = Nothing /\ since = Nothing
    /\ page = 1 /\ finished = FALSE
    /\ list = << >> /\ flaws = {}

-----------------------------------------------------------------------------
(* The server.                                                             *)

Visible == {i \in DOMAIN stored : stored[i] \in followed}

CreateMessage(i, n) ==
    /\ i \notin DOMAIN stored
    /\ stored' = [j \in DOMAIN stored \cup {i} |-> IF j = i THEN n ELSE stored[j]]
    /\ flaws' = IF n \in followed /\ i <= since
                THEN flaws \cup {"moved"} ELSE flaws
    /\ UNCHANGED <<followed, changes, failures, cursors, list>>

(* follow or unfollow; unfollow stands for the end of the node as well.    *)
RosterChanges(n) ==
    /\ changes < MaxChanges
    /\ changes' = changes + 1
    /\ followed' = IF n \in followed THEN followed \ {n} ELSE followed \cup {n}
    /\ flaws' = IF \E i \in DOMAIN stored : stored[i] = n /\ i <= since
                THEN flaws \cup {"moved"} ELSE flaws
    /\ UNCHANGED <<stored, failures, cursors, list>>

(* A sort by descending id: the k-th message is one of k as new as it.     *)
Rank(i, ids) == Cardinality({j \in ids : j >= i})
Newest(ids) == [k \in 1..Cardinality(ids) |-> CHOOSE i \in ids : Rank(i, ids) = k]

(* What find gives with sort, skip and limit.                              *)
Page(ids, skip) ==
    SubSeq(Newest(ids), skip + 1, Min({skip + Count, Cardinality(ids)}))

(* GET messages: page p of the visible messages among ids, newest first.   *)
Messages(p, ids) == Page(Visible \cap ids, (p - 1) * Count)

-----------------------------------------------------------------------------
(* The client.                                                             *)

(* The request: a cursor that is empty is left out.                        *)
GetMessages(p, maxId, sinceId) ==
    Messages(p, {i \in Id : (maxId = Nothing \/ i <= maxId) /\ i > sinceId})

AddMessagesBelow(messages, isNew) == list' = list \o messages

(* Messages go to the bottom of the list, or each to the top in its turn.  *)
AddMessages(messages, isNew) ==
    list' = IF isNew THEN Reverse(messages) \o list ELSE list \o messages

(* doLogin, once the client is registered: an empty list, no cursors.      *)
Reset ==
    /\ page' = 1
    /\ UNCHANGED <<serverVars, failures>>

Login ==
    LET messages == GetMessages(1, Nothing, Nothing)
        first == IF messages = << >> THEN Nothing ELSE Head(messages)
    IN  /\ Reset
        /\ last' = first /\ since' = first
        /\ finished' = (Len(messages) < Count)
        /\ list' = messages /\ flaws' = {}

LoginFails ==
    /\ Reset
    /\ last' = Nothing /\ since' = Nothing
    /\ finished' = FALSE
    /\ list' = << >> /\ flaws' = {}

GetMoreUnguarded ==
    LET messages == GetMessages(page + 1, last, Nothing)
    IN  /\ page' = page + 1
        /\ finished' = (Len(messages) < Count)
        /\ AddMessages(messages, FALSE)
        /\ UNCHANGED <<serverVars, failures, last, since, flaws>>

GetMoreWithoutMax ==
    LET messages == GetMessages(page + 1, Nothing, Nothing)
    IN  /\ ~finished
        /\ page' = page + 1
        /\ finished' = (Len(messages) < Count)
        /\ AddMessages(messages, FALSE)
        /\ flaws' = IF last = Nothing THEN flaws \cup {"unanchored"} ELSE flaws
        /\ UNCHANGED <<serverVars, failures, last, since>>

GetMoreMessages ==
    LET messages == GetMessages(page + 1, last, Nothing)
    IN  /\ ~finished
        /\ page' = page + 1
        /\ finished' = (Len(messages) < Count)
        /\ AddMessages(messages, FALSE)
        /\ flaws' = IF last = Nothing THEN flaws \cup {"unanchored"} ELSE flaws
        /\ UNCHANGED <<serverVars, failures, last, since>>

(* The page number moves before the request is made, and stays.            *)
GetMoreFails ==
    /\ ~finished
    /\ failures < MaxFailures
    /\ failures' = failures + 1
    /\ page' = page + 1
    /\ flaws' = flaws \cup {"skipped"}
    /\ UNCHANGED <<serverVars, last, since, finished, list>>

GetNewFinishes ==
    LET messages == GetMessages(1, Nothing, since)
        newest == Head(messages)
        more == Cardinality({i \in Visible : i > since}) > Count
    IN  /\ messages # << >>
        /\ since' = newest
        /\ last' = IF last = Nothing THEN newest ELSE last
        /\ finished' = (finished \/ Len(messages) < Count)
        /\ AddMessages(messages, TRUE)
        /\ flaws' = flaws
               \cup (IF Len(messages) > 1 THEN {"reversed"} ELSE {})
               \cup (IF more /\ (last # Nothing \/ finished)
                     THEN {"skipped"} ELSE {})
        /\ UNCHANGED <<serverVars, failures, page>>

(* A refresh; the first one may stand in for a log-in that failed.         *)
GetNewMessages ==
    LET messages == GetMessages(1, Nothing, since)
        newest == Head(messages)
        more == Cardinality({i \in Visible : i > since}) > Count
    IN  /\ messages # << >>
        /\ since' = newest
        /\ last' = IF last = Nothing THEN newest ELSE last
        /\ finished' = (finished \/ (last = Nothing /\ Len(messages) < Count))
        /\ AddMessages(messages, TRUE)
        /\ flaws' = flaws
               \cup (IF Len(messages) > 1 THEN {"reversed"} ELSE {})
               \cup (IF more /\ (last # Nothing \/ finished)
                     THEN {"skipped"} ELSE {})
        /\ UNCHANGED <<serverVars, failures, page>>

Next ==
    \/ \E i \in Id, n \in Node : CreateMessage(i, n)
    \/ \E n \in Node : RosterChanges(n)
    \/ Login \/ LoginFails
    \/ GetMoreMessages \/ GetMoreFails
    \/ GetNewMessages

Spec == Init /\ [][Next]_feedVars

-----------------------------------------------------------------------------
(* What the list shows.                                                    *)

Spoiled(kinds) == flaws \cap kinds # {}

(* No message is in the list twice, however refreshes, pages, failed       *)
(* requests and new messages alternate; unless older messages move.        *)
EachOnce == Spoiled({"moved", "unanchored"}) \/ IsInjective(list)

(* When there are no more pages, the list has every message up to the      *)
(* cursor; unless a page or a part of a refresh was skipped.               *)
NothingMissed ==
    Spoiled({"moved", "unanchored", "skipped"})
        \/ (finished => ToSet(list) = {i \in Visible : i <= since})

(* The newest message comes first; unless a refresh brought several.       *)
NewestFirst ==
    \/ Spoiled({"moved", "unanchored", "reversed"})
    \/ \A j, k \in DOMAIN list : j < k => list[j] > list[k]
=============================================================================

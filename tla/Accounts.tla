------------------------------ MODULE Accounts -------------------------------
(***************************************************************************)
(* The accounts and who uses them.  The web site signs users up and in     *)
(* (routes/user.js, middleware/currentUser.js), a task changes passwords,  *)
(* and the devices log in and out by registering themselves with the API   *)
(* server (register_client, del_client).  The activity of the device waits *)
(* for the answer of each request, and gives up after a time; what it gave *)
(* up on may still reach the server.                                       *)
(*                                                                         *)
(* A login name stands for one that passed the form's checks.  The unique  *)
(* index over the login names and the one over devices hold.               *)
(***************************************************************************)
EXTENDS Naturals

CONSTANTS
    LoginName,    \* login names that are not reserved
    Password,
    Browser,
    Device,
    NoOne,        \* no user, or no request
    MaxIds,       \* bound: sign-ups that come to their insert
    MaxGivenUp    \* bound: requests a device gives up on

ASSUME AccountsAssumption ==
    /\ NoOne \notin LoginName \cup {"register", "unregister"}
    /\ NoOne \notin LoginName \X Password
    /\ MaxIds \in Nat /\ MaxGivenUp \in Nat

(* The _id of a user; the first one is still to come.                      *)
NoId == 0

VARIABLES
    uid,        \* users: _id of each login name
    password,   \* users: its password
    lastId,
    session,    \* req.session.uid of each browser
    signup,     \* the validated form of a sign-up before its insert
    proven,     \* history: accounts the browser's session may belong to
    clients,    \* the registry: user of each device
    name,       \* of each device: the saved login name and password
    secret,
    loggedIn,   \* and KEY_LOGGED_IN
    waiting,    \* the request a device waits for
    late,       \* requests that were given up but are still under way
    givenUp,
    stale       \* history: devices whose registration went wrong since the
                \* last one that was accepted

webVars == <<uid, password, lastId, session, signup, proven>>
deviceVars == <<clients, name, secret, loggedIn, waiting, late, givenUp, stale>>
accountsVars == <<webVars, deviceVars>>

Kind == {"register", "unregister"}
Call == [device : Device, kind : Kind, login : LoginName, password : Password]

AccountsTypeOK ==
    /\ uid \in [LoginName -> 0..MaxIds] /\ password \in [LoginName -> Password]
    /\ lastId \in 0..MaxIds
    /\ session \in [Browser -> 0..MaxIds]
    /\ signup \in [Browser -> (LoginName \X Password) \cup {NoOne}]
    /\ proven \in [Browser -> SUBSET LoginName]
    /\ clients \in [Device -> LoginName \cup {NoOne}]
    /\ name \in [Device -> LoginName \cup {NoOne}]
    /\ secret \in [Device -> Password]
    /\ loggedIn \in [Device -> BOOLEAN]
    /\ waiting \in [Device -> Kind \cup {NoOne}]
    /\ late \subseteq Call
    /\ givenUp \in Nat
    /\ stale \subseteq Device

AccountsInit ==
    /\ uid = [l \in LoginName |-> NoId]
    /\ password \in [LoginName -> Password]
    /\ lastId = NoId
    /\ session = [b \in Browser |-> NoId]
    /\ signup = [b \in Browser |-> NoOne]
    /\ proven = [b \in Browser |-> {}]
    /\ clients = [d \in Device |-> NoOne]
    /\ name = [d \in Device |-> NoOne]
    /\ secret \in [Device -> Password]
    /\ loggedIn = [d \in Device |-> FALSE]
    /\ waiting = [d \in Device |-> NoOne]
    /\ late = {} /\ givenUp = 0
    /\ stale = {}

(* The basic authentication of the API server, with its answers and their  *)
(* codes, and the check of the form of the web site.                       *)
ResponseCode == [success |-> 2201, auth |-> 1101, user |-> 1103]
Answer(l, p) ==
    CASE uid[l] = NoId -> "user"
      [] uid[l] # NoId /\ password[l] = p -> "success"
      [] OTHER -> "auth"
Authenticates(l, p) == Answer(l, p) = "success"

-----------------------------------------------------------------------------
(* The web site.                                                           *)

FindUser(id) == {l \in LoginName : uid[l] = id}

(* currentUser: the user whose _id is in the session, if there is one.     *)
CurrentUser(b) == IF session[b] = NoId THEN {} ELSE FindUser(session[b])

RetreatWhenLogin(b) == CurrentUser(b) = {}

(* req.login and req.logout: another session, or none.                     *)
ReqLogin(b, id) == session' = [session EXCEPT ![b] = id]
ReqLogout(b) == session' = [session EXCEPT ![b] = NoId]

(* The form of a visitor without a user passes; its name was free when it  *)
(* was looked up.                                                          *)
SignupValidated(b, l, p) ==
    /\ RetreatWhenLogin(b)
    /\ signup[b] = NoOne
    /\ uid[l] = NoId
    /\ signup' = [signup EXCEPT ![b] = <<l, p>>]
    /\ UNCHANGED <<uid, password, lastId, session, proven, deviceVars>>

IdOfLogin(l, id) == IF uid[l] = NoId THEN id ELSE uid[l]

(* What req.login gets: the _id that the driver made for the document.     *)
IdOfUser(l, id) == id

(* The insert is not acknowledged: when the name was taken meanwhile, the  *)
(* index refuses the document, nobody hears of it, and the visitor is      *)
(* logged in with an _id that is not in the collection.                    *)
SignupInserts(b) ==
    /\ signup[b] # NoOne
    /\ lastId < MaxIds
    /\ lastId' = lastId + 1
    /\ signup' = [signup EXCEPT ![b] = NoOne]
    /\ LET l == signup[b][1]
           free == uid[l] = NoId
       IN  /\ ReqLogin(b, IdOfUser(l, lastId'))
           /\ uid' = IF free THEN [uid EXCEPT ![l] = lastId'] ELSE uid
           /\ password' = IF free THEN [password EXCEPT ![l] = signup[b][2]]
                          ELSE password
           /\ proven' = [proven EXCEPT ![b] = IF free THEN {l} ELSE {}]
    /\ UNCHANGED deviceVars

(* The insert reports an error: the error page, and no session.            *)
SignupFails(b) ==
    /\ signup[b] # NoOne
    /\ signup' = [signup EXCEPT ![b] = NoOne]
    /\ UNCHANGED <<uid, password, lastId, session, proven, deviceVars>>

SignsIn(b, l, p) ==
    /\ Authenticates(l, p)
    /\ ReqLogin(b, uid[l])
    /\ proven' = [proven EXCEPT ![b] = {l}]
    /\ UNCHANGED <<uid, password, lastId, signup, deviceVars>>

(* The visitor logs out, or his cookie ends after five hours.              *)
SignsOut(b) ==
    /\ session[b] # NoId
    /\ ReqLogout(b)
    /\ proven' = [proven EXCEPT ![b] = {}]
    /\ UNCHANGED <<uid, password, lastId, signup, deviceVars>>

CookieEnds(b) == SignsOut(b)

(* The task change_pwd.js; nothing removes a user between its two steps.   *)
ChangePassword(l, p) ==
    /\ uid[l] # NoId /\ password[l] # p
    /\ password' = [password EXCEPT ![l] = p]
    /\ UNCHANGED <<uid, lastId, session, signup, proven, deviceVars>>

-----------------------------------------------------------------------------
(* The API server: register_client is an upsert on the device, del_client  *)
(* removes the device of this user only.                                   *)

UnregisterAny(d, l) == [clients EXCEPT ![d] = NoOne]
Unregister(d, l) == IF clients[d] = l THEN [clients EXCEPT ![d] = NoOne] ELSE clients

Serve(kind, d, l) ==
    clients' = IF kind = "register" THEN [clients EXCEPT ![d] = l]
               ELSE Unregister(d, l)

(* The request of d that is under way.                                     *)
Asked(d) == [device |-> d, kind |-> waiting[d], login |-> name[d],
             password |-> secret[d]]
Accepted(d) == Authenticates(name[d], secret[d])

(* An error that is about the credentials: 1101 or more.                   *)
Rejects(d) ==
    LET answer == Answer(name[d], secret[d])
    IN  answer # "success" /\ ResponseCode[answer] >= 1101

-----------------------------------------------------------------------------
(* The device.                                                             *)

(* doLogin from the dialog, which is shown while nobody is logged in.      *)
LogsIn(d, l, p) ==
    /\ waiting[d] = NoOne
    /\ ~loggedIn[d]
    /\ name' = [name EXCEPT ![d] = l]
    /\ secret' = [secret EXCEPT ![d] = p]
    /\ waiting' = [waiting EXCEPT ![d] = "register"]
    /\ UNCHANGED <<webVars, clients, loggedIn, late, givenUp, stale>>

(* onCreate logs the saved user in again; doLogout asks for the removal.   *)
Asks(d, kind) ==
    /\ waiting[d] = NoOne
    /\ name[d] # NoOne
    /\ kind = "unregister" => loggedIn[d]
    /\ waiting' = [waiting EXCEPT ![d] = kind]
    /\ UNCHANGED <<webVars, clients, name, secret, loggedIn, late, givenUp, stale>>

(* clearUser.                                                              *)
ClearUser(d) ==
    /\ name' = [name EXCEPT ![d] = NoOne]
    /\ loggedIn' = [loggedIn EXCEPT ![d] = FALSE]
    /\ UNCHANGED secret

(* The answer comes.  A registration that is refused for its credentials   *)
(* clears the user, a removal does so whatever the answer is.              *)
Answered(d) ==
    /\ waiting[d] # NoOne
    /\ waiting' = [waiting EXCEPT ![d] = NoOne]
    /\ IF Accepted(d) THEN Serve(waiting[d], d, name[d]) ELSE UNCHANGED clients
    /\ IF waiting[d] = "unregister" \/ Rejects(d) THEN ClearUser(d)
       ELSE loggedIn' = [loggedIn EXCEPT ![d] = TRUE] /\ UNCHANGED <<name, secret>>
    /\ stale' = IF ~Accepted(d) THEN stale \cup {d}
                ELSE IF waiting[d] = "register" THEN stale \ {d} ELSE stale
    /\ UNCHANGED <<webVars, late, givenUp>>

(* The device sees an error that says nothing of its credentials: the      *)
(* request failed, was served without an answer, or is still under way.    *)
(* A removal whose answer says that it succeeded may come to the same: the *)
(* API server does not have it acknowledged by the database.               *)
NoAnswer(d) ==
    /\ waiting[d] # NoOne
    /\ givenUp < MaxGivenUp
    /\ givenUp' = givenUp + 1
    /\ waiting' = [waiting EXCEPT ![d] = NoOne]
    /\ \/ UNCHANGED <<clients, late>>
       \/ Accepted(d) /\ Serve(waiting[d], d, name[d]) /\ UNCHANGED late
       \/ late' = late \cup {Asked(d)} /\ UNCHANGED clients
    /\ stale' = IF waiting[d] = "register" /\ loggedIn[d] THEN stale
                ELSE stale \cup {d}
    /\ UNCHANGED webVars

(* doLogin keeps the user for the next time, doLogout clears it.           *)
GivesUp(d) ==
    /\ NoAnswer(d)
    /\ IF waiting[d] = "unregister" THEN ClearUser(d)
       ELSE UNCHANGED <<name, secret, loggedIn>>

(* The process of the device ends while it waits.                          *)
Killed(d) == NoAnswer(d) /\ UNCHANGED <<name, secret, loggedIn>>

(* A request that was given up reaches the server after all.  It hurts     *)
(* when it registers another user, or removes the present one.             *)
ServedLate(call) ==
    /\ call \in late
    /\ late' = late \ {call}
    /\ IF Authenticates(call.login, call.password)
       THEN Serve(call.kind, call.device, call.login) ELSE UNCHANGED clients
    /\ stale' = IF (call.kind = "register") = (call.login # name[call.device])
                THEN stale \cup {call.device} ELSE stale
    /\ UNCHANGED <<webVars, name, secret, loggedIn, waiting, givenUp>>

AccountsNext ==
    \/ \E b \in Browser :
          \/ SignupInserts(b) \/ SignupFails(b) \/ SignsOut(b) \/ CookieEnds(b)
          \/ \E l \in LoginName, p \in Password :
                SignupValidated(b, l, p) \/ SignsIn(b, l, p)
    \/ \E l \in LoginName, p \in Password : ChangePassword(l, p)
    \/ \E d \in Device :
          \/ \E l \in LoginName, p \in Password : LogsIn(d, l, p)
          \/ \E kind \in Kind : Asks(d, kind)
          \/ Answered(d) \/ GivesUp(d) \/ Killed(d)
    \/ \E call \in late : ServedLate(call)

AccountsSpec == AccountsInit /\ [][AccountsNext]_accountsVars

-----------------------------------------------------------------------------
(* A session that belongs to a user is one of a browser that gave this     *)
(* user's password, or made the account: the loser of two sign-ups for one *)
(* name is logged in as nobody, and never as the winner.                   *)
SessionIsProven == \A b \in Browser : CurrentUser(b) \subseteq proven[b]

(* A device is registered for the user who is logged in on it, and for     *)
(* nobody when no one is, over requests that come late, users who follow   *)
(* each other on the device, and passwords that change; unless the device  *)
(* gave up on a log-in or a log-out, its user was refused, or a late       *)
(* request registered another user or removed the present one.  Then the   *)
(* next registration that is accepted puts it right.                       *)
RegisteredForUser ==
    \A d \in Device \ stale :
        waiting[d] = NoOne
            => clients[d] = IF loggedIn[d] THEN name[d] ELSE NoOne

=============================================================================

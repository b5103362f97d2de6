---------------------------- MODULE AccountsProofs ----------------------------
(***************************************************************************)
(* Proofs about Accounts, for any number of names, passwords, browsers and *)
(* devices.  The sessions rest on the _ids: the driver makes a new one for *)
(* each document, so that no session that is already there comes to belong *)
(* to the user of a later document.  The devices rest on what holds while  *)
(* a request is under way: a log-in that waits has left the device with    *)
(* nobody or with the user who logs in, and a removal is asked for by a    *)
(* user who is logged in.                                                  *)
(***************************************************************************)
EXTENDS Accounts, TLAPS

(* No document and no session has an _id that is still to come, and no two *)
(* documents have the same one.                                            *)
IdsFresh ==
    /\ \A l \in LoginName : uid[l] <= lastId
    /\ \A b \in Browser : session[b] <= lastId
IdsUnique ==
    \A l, k \in LoginName : uid[l] = uid[k] /\ uid[l] # NoId => l = k

(* Who is logged in or waits has a name, and only who is logged in asks to *)
(* be removed.                                                             *)
NamedAt(d) ==
    /\ loggedIn[d] \/ waiting[d] # NoOne => name[d] # NoOne
    /\ waiting[d] = "unregister" => loggedIn[d]

(* What the registry holds of a device that is not stale, at all times.    *)
InStepAt(d) ==
    d \notin stale =>
        /\ loggedIn[d] => clients[d] = name[d]
        /\ ~loggedIn[d] => clients[d] \in {NoOne, name[d]}
        /\ ~loggedIn[d] /\ waiting[d] = NoOne => name[d] = NoOne

SessionInv == IdsFresh /\ IdsUnique /\ SessionIsProven
DeviceInv == \A d \in Device : NamedAt(d) /\ InStepAt(d)
IInv == AccountsTypeOK /\ SessionInv /\ DeviceInv

-----------------------------------------------------------------------------
(* The actions of the web site and of the devices, which change nothing of *)
(* each other's state.                                                     *)
WebStep ==
    \/ \E b \in Browser :
          \/ SignupInserts(b) \/ SignupFails(b) \/ SignsOut(b) \/ CookieEnds(b)
          \/ \E l \in LoginName, p \in Password :
                SignupValidated(b, l, p) \/ SignsIn(b, l, p)
    \/ \E l \in LoginName, p \in Password : ChangePassword(l, p)
DeviceStep ==
    \/ \E d \in Device :
          \/ \E l \in LoginName, p \in Password : LogsIn(d, l, p)
          \/ \E kind \in Kind : Asks(d, kind)
          \/ Answered(d) \/ GivesUp(d) \/ Killed(d)
    \/ \E call \in late : ServedLate(call)

(* The server accepts just the present password of a user it knows.        *)
LEMMA AuthenticatesFact ==
    ASSUME NEW l, NEW p
    PROVE  Authenticates(l, p) <=> uid[l] # NoId /\ password[l] = p
<1>1. CASE uid[l] = NoId
  BY <1>1 DEF Authenticates, Answer
<1>2. CASE uid[l] # NoId /\ password[l] = p
  BY <1>2 DEF Authenticates, Answer
<1>3. CASE uid[l] # NoId /\ password[l] # p
  BY <1>3 DEF Authenticates, Answer
<1>4. QED BY <1>1, <1>2, <1>3

(* Only a request that is not accepted is refused for its credentials.     *)
LEMMA RejectsFact == ASSUME NEW d, Rejects(d) PROVE ~Accepted(d)
  BY DEF Rejects, Accepted, Authenticates

-----------------------------------------------------------------------------
(* Each step of the site keeps the types.                                  *)
LEMMA WebTypes == AccountsTypeOK /\ WebStep => AccountsTypeOK'
<1> SUFFICES ASSUME AccountsTypeOK, WebStep PROVE AccountsTypeOK'
  OBVIOUS
<1> USE DEF AccountsTypeOK, deviceVars, NoId
<1>1. ASSUME NEW b \in Browser, SignupInserts(b) PROVE AccountsTypeOK'
  <2>1. /\ signup[b] \in LoginName \X Password
        /\ lastId' \in 0..MaxIds
    BY <1>1, AccountsAssumption DEF SignupInserts
  <2>2. /\ signup[b][1] \in LoginName
        /\ signup[b][2] \in Password
    BY <2>1
  <2>3. /\ uid' \in [LoginName -> 0..MaxIds]
        /\ password' \in [LoginName -> Password]
        /\ session' \in [Browser -> 0..MaxIds]
        /\ proven' \in [Browser -> SUBSET LoginName]
        /\ signup' \in [Browser -> (LoginName \X Password) \cup {NoOne}]
    BY <1>1, <2>1, <2>2 DEF SignupInserts, ReqLogin, IdOfUser
  <2>4. QED BY <1>1, <2>1, <2>3 DEF SignupInserts
<1>2. ASSUME NEW b \in Browser, SignupFails(b) PROVE AccountsTypeOK'
  BY <1>2 DEF SignupFails
<1>3. ASSUME NEW b \in Browser, SignsOut(b) PROVE AccountsTypeOK'
  BY <1>3, AccountsAssumption DEF SignsOut, ReqLogout
<1>4. ASSUME NEW b \in Browser, NEW l \in LoginName, NEW p \in Password,
             SignupValidated(b, l, p)
      PROVE  AccountsTypeOK'
  BY <1>4 DEF SignupValidated
<1>5. ASSUME NEW b \in Browser, NEW l \in LoginName, NEW p \in Password,
             SignsIn(b, l, p)
      PROVE  AccountsTypeOK'
  BY <1>5 DEF SignsIn, ReqLogin
<1>6. ASSUME NEW l \in LoginName, NEW p \in Password, ChangePassword(l, p)
      PROVE  AccountsTypeOK'
  BY <1>6 DEF ChangePassword
<1>7. QED BY <1>1, <1>2, <1>3, <1>4, <1>5, <1>6 DEF WebStep, CookieEnds

(* What the registry holds after a request was served.                     *)
LEMMA ServeTypes ==
    ASSUME AccountsTypeOK, NEW kind, NEW d \in Device,
           NEW l \in LoginName \cup {NoOne}, Serve(kind, d, l)
    PROVE  clients' \in [Device -> LoginName \cup {NoOne}]
  BY DEF AccountsTypeOK, Serve, Unregister

(* An answer that does not come leaves the types of what it changes.       *)
LEMMA NoAnswerTypes ==
    ASSUME AccountsTypeOK, DeviceInv, NEW d \in Device, NoAnswer(d)
    PROVE  /\ clients' \in [Device -> LoginName \cup {NoOne}]
           /\ waiting' \in [Device -> Kind \cup {NoOne}]
           /\ late' \subseteq Call
           /\ givenUp' \in Nat
           /\ stale' \subseteq Device
<1>1. waiting[d] \in Kind /\ name[d] \in LoginName /\ secret[d] \in Password
  BY DEF NoAnswer, AccountsTypeOK, DeviceInv, NamedAt
<1>2. Asked(d) \in Call
  BY <1>1 DEF Asked, Call
<1>3. clients' \in [Device -> LoginName \cup {NoOne}]
  BY <1>1, ServeTypes DEF NoAnswer, AccountsTypeOK
<1>4. late' \subseteq Call
  BY <1>2 DEF NoAnswer, AccountsTypeOK
<1>5. waiting' \in [Device -> Kind \cup {NoOne}] /\ stale' \subseteq Device
  BY DEF NoAnswer, AccountsTypeOK
<1>6. givenUp' \in Nat
  <2>1. givenUp \in Nat
    BY DEF AccountsTypeOK
  <2>2. QED BY <2>1 DEF NoAnswer
<1>7. QED BY <1>3, <1>4, <1>5, <1>6

(* Each step of a device keeps the types.                                  *)
LEMMA DeviceTypes == AccountsTypeOK /\ DeviceInv /\ DeviceStep => AccountsTypeOK'
<1> SUFFICES ASSUME AccountsTypeOK, DeviceInv, DeviceStep PROVE AccountsTypeOK'
  OBVIOUS
<1> USE DEF webVars
<1>1. ASSUME NEW d \in Device, NEW l \in LoginName, NEW p \in Password,
             LogsIn(d, l, p)
      PROVE  AccountsTypeOK'
  BY <1>1 DEF LogsIn, AccountsTypeOK, Kind
<1>2. ASSUME NEW d \in Device, NEW kind \in Kind, Asks(d, kind)
      PROVE  AccountsTypeOK'
  BY <1>2 DEF Asks, AccountsTypeOK
<1>3. ASSUME NEW d \in Device, Answered(d) PROVE AccountsTypeOK'
  <2>1. clients' \in [Device -> LoginName \cup {NoOne}]
    BY <1>3, ServeTypes DEF Answered, AccountsTypeOK
  <2>2. /\ name' \in [Device -> LoginName \cup {NoOne}]
        /\ loggedIn' \in [Device -> BOOLEAN]
        /\ secret' \in [Device -> Password]
    BY <1>3 DEF Answered, ClearUser, AccountsTypeOK
  <2>3. /\ waiting' \in [Device -> Kind \cup {NoOne}]
        /\ stale' \subseteq Device
    BY <1>3 DEF Answered, AccountsTypeOK
  <2>4. QED BY <1>3, <2>1, <2>2, <2>3 DEF Answered, AccountsTypeOK
<1>4. ASSUME NEW d \in Device, GivesUp(d) PROVE AccountsTypeOK'
  <2>1. /\ name' \in [Device -> LoginName \cup {NoOne}]
        /\ loggedIn' \in [Device -> BOOLEAN]
        /\ secret' \in [Device -> Password]
    BY <1>4 DEF GivesUp, ClearUser, AccountsTypeOK
  <2>2. QED BY <1>4, <2>1, NoAnswerTypes DEF GivesUp, NoAnswer, AccountsTypeOK
<1>5. ASSUME NEW d \in Device, Killed(d) PROVE AccountsTypeOK'
  BY <1>5, NoAnswerTypes DEF Killed, NoAnswer, AccountsTypeOK
<1>6. ASSUME NEW call \in late, ServedLate(call) PROVE AccountsTypeOK'
  <2>1. call.device \in Device /\ call.login \in LoginName
    BY DEF AccountsTypeOK, Call
  <2>2. clients' \in [Device -> LoginName \cup {NoOne}]
    BY <1>6, <2>1, ServeTypes DEF ServedLate, AccountsTypeOK
  <2>3. late' \subseteq Call /\ stale' \subseteq Device
    BY <1>6, <2>1 DEF ServedLate, AccountsTypeOK
  <2>4. QED BY <1>6, <2>2, <2>3 DEF ServedLate, AccountsTypeOK
<1>7. QED BY <1>1, <1>2, <1>3, <1>4, <1>5, <1>6 DEF DeviceStep

-----------------------------------------------------------------------------
(* A session belongs to whom it is proven of, in each step of the site.    *)
LEMMA SessionStep == AccountsTypeOK /\ SessionInv /\ WebStep => SessionInv'
<1> SUFFICES ASSUME AccountsTypeOK, SessionInv, WebStep PROVE SessionInv'
  OBVIOUS
<1>0. /\ uid \in [LoginName -> 0..MaxIds] /\ lastId \in Nat
      /\ session \in [Browser -> 0..MaxIds]
      /\ proven \in [Browser -> SUBSET LoginName]
  BY AccountsAssumption DEF AccountsTypeOK
<1> USE <1>0 DEF SessionInv, IdsFresh, IdsUnique, SessionIsProven, CurrentUser,
                 FindUser, NoId
<1>1. ASSUME NEW b \in Browser, SignupInserts(b) PROVE SessionInv'
  <2> DEFINE l == signup[b][1]
  <2>1. l \in LoginName /\ lastId' = lastId + 1
    BY <1>1, AccountsAssumption DEF SignupInserts, AccountsTypeOK
  <2>2. /\ session' = [session EXCEPT ![b] = lastId + 1]
        /\ uid' = IF uid[l] = 0 THEN [uid EXCEPT ![l] = lastId + 1] ELSE uid
        /\ proven' = [proven EXCEPT ![b] = IF uid[l] = 0 THEN {l} ELSE {}]
    BY <1>1, <2>1 DEF SignupInserts, ReqLogin, IdOfUser
  <2> HIDE DEF l
  <2>3. IdsFresh' /\ IdsUnique'
    BY <2>1, <2>2
  <2>4. ASSUME NEW c \in Browser PROVE CurrentUser(c)' \subseteq proven'[c]
    <3>1. CASE c = b
      BY <3>1, <2>1, <2>2
    <3>2. CASE c # b
      BY <3>2, <2>1, <2>2
    <3>3. QED BY <3>1, <3>2
  <2>5. QED BY <2>3, <2>4
<1>2. ASSUME NEW b \in Browser, SignupFails(b) PROVE SessionInv'
  BY <1>2 DEF SignupFails
<1>3. ASSUME NEW b \in Browser, SignsOut(b) PROVE SessionInv'
  <2>1. /\ session' = [session EXCEPT ![b] = 0]
        /\ proven' = [proven EXCEPT ![b] = {}]
        /\ uid' = uid /\ lastId' = lastId
    BY <1>3 DEF SignsOut, ReqLogout
  <2>2. IdsFresh' /\ IdsUnique'
    BY <2>1
  <2>3. ASSUME NEW c \in Browser PROVE CurrentUser(c)' \subseteq proven'[c]
    BY <2>1
  <2>4. QED BY <2>2, <2>3
<1>4. ASSUME NEW b \in Browser, NEW l \in LoginName, NEW p \in Password,
             SignupValidated(b, l, p)
      PROVE  SessionInv'
  BY <1>4 DEF SignupValidated
<1>5. ASSUME NEW b \in Browser, NEW l \in LoginName, NEW p \in Password,
             SignsIn(b, l, p)
      PROVE  SessionInv'
  <2>1. /\ session' = [session EXCEPT ![b] = uid[l]]
        /\ proven' = [proven EXCEPT ![b] = {l}]
        /\ uid[l] # 0 /\ uid' = uid /\ lastId' = lastId
    BY <1>5, AuthenticatesFact DEF SignsIn, ReqLogin
  <2>2. IdsFresh' /\ IdsUnique'
    BY <2>1
  <2>3. ASSUME NEW c \in Browser PROVE CurrentUser(c)' \subseteq proven'[c]
    BY <2>1
  <2>4. QED BY <2>2, <2>3
<1>6. ASSUME NEW l \in LoginName, NEW p \in Password, ChangePassword(l, p)
      PROVE  SessionInv'
  BY <1>6 DEF ChangePassword
<1>7. QED BY <1>1, <1>2, <1>3, <1>4, <1>5, <1>6 DEF WebStep, CookieEnds

-----------------------------------------------------------------------------
(* A device whose state a step leaves alone stays as it was, or gets stale. *)
LEMMA Undisturbed ==
    ASSUME DeviceInv, NEW c \in Device,
           clients'[c] = clients[c], name'[c] = name[c], waiting'[c] = waiting[c],
           loggedIn'[c] = loggedIn[c], c \in stale => c \in stale'
    PROVE  NamedAt(c)' /\ InStepAt(c)'
  BY DEF DeviceInv, NamedAt, InStepAt

(* A request is served for its own device only.                            *)
LEMMA ServeFact ==
    ASSUME AccountsTypeOK, NEW kind, NEW d \in Device, NEW l, Serve(kind, d, l)
    PROVE  /\ \A c \in Device : c # d => clients'[c] = clients[c]
           /\ kind = "register" => clients'[d] = l
           /\ kind # "register" =>
                clients'[d] = IF clients[d] = l THEN NoOne ELSE clients[d]
  BY DEF AccountsTypeOK, Serve, Unregister

(* The answer.  Only a registration that was accepted brings a device back *)
(* into step, for the user that is then logged in.                         *)
LEMMA AnsweredStep ==
    ASSUME AccountsTypeOK, DeviceInv, NEW d \in Device, Answered(d)
    PROVE  DeviceInv'
<1>1. /\ NamedAt(d) /\ InStepAt(d)
      /\ waiting[d] \in Kind /\ waiting[d] # NoOne /\ name[d] # NoOne
  BY DEF DeviceInv, Answered, AccountsTypeOK, NamedAt
<1>2. waiting' = [waiting EXCEPT ![d] = NoOne] /\ waiting'[d] = NoOne
  BY DEF Answered, AccountsTypeOK
<1>3. ASSUME NEW c \in Device, c # d PROVE NamedAt(c)' /\ InStepAt(c)'
  <2>1. clients'[c] = clients[c]
    BY <1>3, ServeFact DEF Answered
  <2>2. name'[c] = name[c] /\ loggedIn'[c] = loggedIn[c] /\ waiting'[c] = waiting[c]
    BY <1>3 DEF Answered, ClearUser, AccountsTypeOK
  <2>3. c \in stale => c \in stale'
    BY <1>3 DEF Answered
  <2>4. QED BY <2>1, <2>2, <2>3, Undisturbed
<1>4. CASE waiting[d] = "unregister"
  <2>1. loggedIn[d] /\ ~loggedIn'[d] /\ name'[d] = NoOne
    BY <1>1, <1>4 DEF NamedAt, Answered, ClearUser, AccountsTypeOK
  <2>2. d \notin stale' => Accepted(d) /\ d \notin stale
    BY <1>4 DEF Answered
  <2>3. d \notin stale' => clients'[d] = NoOne
    <3> SUFFICES ASSUME d \notin stale' PROVE clients'[d] = NoOne
      OBVIOUS
    <3>1. Serve(waiting[d], d, name[d])
      BY <2>2 DEF Answered
    <3>2. clients[d] = name[d]
      BY <1>1, <2>1, <2>2 DEF InStepAt
    <3>3. QED BY <1>4, <3>1, <3>2, ServeFact
  <2>4. NamedAt(d)' /\ InStepAt(d)'
    BY <1>2, <2>1, <2>3, AccountsAssumption DEF NamedAt, InStepAt
  <2>5. QED BY <1>3, <2>4 DEF DeviceInv
<1>5. CASE waiting[d] = "register" /\ Accepted(d)
  <2>1. loggedIn'[d] /\ name'[d] = name[d]
    BY <1>5, RejectsFact DEF Answered, AccountsTypeOK
  <2>2. clients'[d] = name[d]
    BY <1>5, ServeFact DEF Answered
  <2>3. NamedAt(d)' /\ InStepAt(d)'
    BY <1>1, <1>2, <2>1, <2>2, AccountsAssumption DEF NamedAt, InStepAt
  <2>4. QED BY <1>3, <2>3 DEF DeviceInv
<1>6. CASE waiting[d] = "register" /\ ~Accepted(d)
  <2>1. d \in stale'
    BY <1>6 DEF Answered
  <2>2. loggedIn'[d] => name'[d] = name[d]
    BY <1>6 DEF Answered, ClearUser, AccountsTypeOK
  <2>3. NamedAt(d)' /\ InStepAt(d)'
    BY <1>1, <1>2, <2>1, <2>2, AccountsAssumption DEF NamedAt, InStepAt
  <2>4. QED BY <1>3, <2>3 DEF DeviceInv
<1>7. QED BY <1>1, <1>4, <1>5, <1>6 DEF Kind

(* A device that gets no answer goes stale, unless it was logged in and    *)
(* registered once more.                                                   *)
LEMMA NoAnswerStep ==
    ASSUME AccountsTypeOK, DeviceInv, NEW d \in Device, NoAnswer(d),
           \/ waiting[d] = "unregister" /\ ClearUser(d)
           \/ UNCHANGED <<name, secret, loggedIn>>
    PROVE  DeviceInv'
<1>1. /\ NamedAt(d) /\ InStepAt(d) /\ name[d] # NoOne
      /\ waiting' = [waiting EXCEPT ![d] = NoOne] /\ waiting'[d] = NoOne
  BY DEF DeviceInv, NoAnswer, AccountsTypeOK, NamedAt
<1>2. ASSUME NEW c \in Device, c # d PROVE NamedAt(c)' /\ InStepAt(c)'
  <2>1. clients'[c] = clients[c]
    BY <1>2, ServeFact DEF NoAnswer
  <2>2. name'[c] = name[c] /\ loggedIn'[c] = loggedIn[c] /\ waiting'[c] = waiting[c]
    BY <1>2 DEF NoAnswer, ClearUser, AccountsTypeOK
  <2>3. c \in stale => c \in stale'
    BY DEF NoAnswer
  <2>4. QED BY <2>1, <2>2, <2>3, Undisturbed
<1>3. NamedAt(d)'
  <2>1. loggedIn'[d] => name'[d] = name[d]
    BY DEF ClearUser, AccountsTypeOK
  <2>2. QED BY <1>1, <2>1, AccountsAssumption DEF NamedAt
<1>4. InStepAt(d)'
  <2> SUFFICES ASSUME d \notin stale' PROVE InStepAt(d)'
    BY DEF InStepAt
  <2>1. waiting[d] = "register" /\ loggedIn[d] /\ d \notin stale
    BY DEF NoAnswer
  <2>2. name'[d] = name[d] /\ loggedIn'[d]
    BY <2>1
  <2>3. clients'[d] = name[d]
    BY <1>1, <2>1, ServeFact DEF NoAnswer, InStepAt
  <2>4. QED BY <2>2, <2>3 DEF InStepAt
<1>5. QED BY <1>2, <1>3, <1>4 DEF DeviceInv

(* A late request leaves a device in step that it does not make stale: it  *)
(* registers the user of the device again, or removes one who is not.      *)
LEMMA ServedLateStep ==
    ASSUME AccountsTypeOK, DeviceInv, NEW call \in late, ServedLate(call)
    PROVE  DeviceInv'
<1> DEFINE d == call.device
<1>1. d \in Device /\ call.login \in LoginName /\ call.kind \in Kind
  BY DEF AccountsTypeOK, Call
<1>2. NamedAt(d) /\ InStepAt(d)
  BY <1>1 DEF DeviceInv
<1>3. ASSUME NEW c \in Device, c # d PROVE NamedAt(c)' /\ InStepAt(c)'
  <2>1. clients'[c] = clients[c]
    <3>1. CASE Serve(call.kind, call.device, call.login)
      BY <1>1, <1>3, <3>1, ServeFact
    <3>2. CASE clients' = clients
      BY <3>2
    <3>3. QED BY <3>1, <3>2 DEF ServedLate
  <2>2. name' = name /\ loggedIn' = loggedIn /\ waiting' = waiting
    BY DEF ServedLate
  <2>3. c \in stale => c \in stale'
    BY DEF ServedLate
  <2>4. QED BY <2>1, <2>2, <2>3, Undisturbed
<1>4. NamedAt(d)'
  BY <1>2 DEF ServedLate, NamedAt
<1>5. InStepAt(d)'
  <2> SUFFICES ASSUME d \notin stale' PROVE InStepAt(d)'
    BY DEF InStepAt
  <2>1. d \notin stale /\ ((call.kind = "register") # (call.login # name[d]))
    BY DEF ServedLate
  <2>2. clients[d] \in {NoOne, name[d]}
    BY <1>2, <2>1 DEF InStepAt
  <2>3. CASE call.kind = "register" /\ call.login = name[d]
    <3>1. clients'[d] = clients[d] \/ clients'[d] = name[d]
      BY <1>1, <2>3, ServeFact DEF ServedLate
    <3>2. QED BY <1>2, <2>1, <3>1 DEF InStepAt, ServedLate
  <2>4. CASE call.kind # "register" /\ call.login # name[d]
    <3>1. clients'[d] = clients[d]
      BY <1>1, <2>2, <2>4, AccountsAssumption, ServeFact DEF ServedLate
    <3>2. QED BY <1>2, <2>1, <3>1 DEF InStepAt, ServedLate
  <2>5. QED BY <2>1, <2>3, <2>4
<1>6. QED BY <1>1, <1>3, <1>4, <1>5 DEF DeviceInv

(* Each step of a device keeps it in step.                                 *)
LEMMA DeviceInvStep == AccountsTypeOK /\ DeviceInv /\ DeviceStep => DeviceInv'
<1> SUFFICES ASSUME AccountsTypeOK, DeviceInv, DeviceStep PROVE DeviceInv'
  OBVIOUS
<1>1. ASSUME NEW d \in Device, NEW l \in LoginName, NEW p \in Password,
             LogsIn(d, l, p)
      PROVE  DeviceInv'
  <2>1. /\ waiting'[d] = "register" /\ name'[d] = l /\ clients' = clients
        /\ loggedIn' = loggedIn /\ stale' = stale /\ ~loggedIn[d]
    BY <1>1 DEF LogsIn, AccountsTypeOK
  <2>2. InStepAt(d) /\ waiting[d] = NoOne
    BY <1>1 DEF LogsIn, DeviceInv
  <2>3. NamedAt(d)' /\ InStepAt(d)'
    BY <2>1, <2>2, AccountsAssumption DEF NamedAt, InStepAt
  <2>4. ASSUME NEW c \in Device, c # d PROVE NamedAt(c)' /\ InStepAt(c)'
    BY <1>1, <2>4, Undisturbed DEF LogsIn, AccountsTypeOK
  <2>5. QED BY <2>3, <2>4 DEF DeviceInv
<1>2. ASSUME NEW d \in Device, NEW kind \in Kind, Asks(d, kind)
      PROVE  DeviceInv'
  <2>1. /\ waiting'[d] = kind /\ kind # NoOne /\ name[d] # NoOne
        /\ waiting[d] = NoOne /\ (kind = "unregister" => loggedIn[d])
    BY <1>2, AccountsAssumption DEF Asks, AccountsTypeOK, Kind
  <2>2. NamedAt(d)' /\ InStepAt(d)'
    BY <1>2, <2>1 DEF Asks, DeviceInv, NamedAt, InStepAt
  <2>3. ASSUME NEW c \in Device, c # d PROVE NamedAt(c)' /\ InStepAt(c)'
    BY <1>2, <2>3, Undisturbed DEF Asks, AccountsTypeOK
  <2>4. QED BY <2>2, <2>3 DEF DeviceInv
<1>3. ASSUME NEW d \in Device, GivesUp(d) PROVE DeviceInv'
  BY <1>3, NoAnswerStep DEF GivesUp
<1>4. ASSUME NEW d \in Device, Killed(d) PROVE DeviceInv'
  BY <1>4, NoAnswerStep DEF Killed
<1>5. QED BY <1>1, <1>2, <1>3, <1>4, AnsweredStep, ServedLateStep DEF DeviceStep

-----------------------------------------------------------------------------
(* The inductive invariant holds at first, and each step keeps it.         *)
LEMMA InitIInv == AccountsInit => IInv
<1> SUFFICES ASSUME AccountsInit PROVE IInv
  OBVIOUS
<1>1. AccountsTypeOK
  BY AccountsAssumption DEF AccountsInit, AccountsTypeOK, NoId
<1>2. SessionInv
  BY DEF AccountsInit, SessionInv, IdsFresh, IdsUnique, SessionIsProven, CurrentUser, NoId
<1>3. DeviceInv
  BY AccountsAssumption DEF AccountsInit, DeviceInv, NamedAt, InStepAt
<1>4. QED BY <1>1, <1>2, <1>3 DEF IInv

(* The same for the steps: those of the site and those of the devices.     *)
LEMMA StepIInv == IInv /\ [AccountsNext]_accountsVars => IInv'
<1> SUFFICES ASSUME IInv, [AccountsNext]_accountsVars PROVE IInv'
  OBVIOUS
<1>1. AccountsTypeOK /\ SessionInv /\ DeviceInv
  BY DEF IInv
<1>2. CASE UNCHANGED accountsVars
  <2>1. UNCHANGED webVars /\ UNCHANGED deviceVars
    BY <1>2 DEF accountsVars
  <2>2. AccountsTypeOK'
    BY <1>1, <2>1 DEF AccountsTypeOK, webVars, deviceVars
  <2>3. SessionInv'
    BY <1>1, <2>1 DEF SessionInv, IdsFresh, IdsUnique, SessionIsProven, CurrentUser,
                      FindUser, webVars
  <2>4. DeviceInv'
    BY <1>1, <2>1 DEF DeviceInv, NamedAt, InStepAt, deviceVars
  <2>5. QED BY <2>2, <2>3, <2>4 DEF IInv
<1>3. CASE WebStep
  <2>1. UNCHANGED deviceVars
    BY <1>3 DEF WebStep, SignupInserts, SignupFails, SignsOut, CookieEnds,
                SignupValidated, SignsIn, ChangePassword
  <2>2. DeviceInv'
    BY <1>1, <2>1 DEF DeviceInv, NamedAt, InStepAt, deviceVars
  <2>3. QED BY <1>1, <1>3, <2>2, WebTypes, SessionStep DEF IInv
<1>4. CASE DeviceStep
  <2>1. UNCHANGED webVars
    BY <1>4 DEF DeviceStep, LogsIn, Asks, Answered, GivesUp, Killed, NoAnswer,
                ServedLate
  <2>2. SessionInv'
    BY <1>1, <2>1 DEF SessionInv, IdsFresh, IdsUnique, SessionIsProven, CurrentUser,
                      FindUser, webVars
  <2>3. QED BY <1>1, <1>4, <2>2, DeviceTypes, DeviceInvStep DEF IInv
<1>5. QED BY <1>2, <1>3, <1>4 DEF AccountsNext, WebStep, DeviceStep

(* The inductive invariant is an invariant.                                *)
THEOREM Invariance == AccountsSpec => []IInv
<1>1. QED BY InitIInv, StepIInv, PTL DEF AccountsSpec

(* The variables of the accounts keep their types.                         *)
THEOREM TypeCorrect == AccountsSpec => []AccountsTypeOK
<1>1. IInv => AccountsTypeOK
  BY DEF IInv
<1>2. QED BY <1>1, Invariance, PTL

(* No browser is logged in as a user whose password it did not give and    *)
(* whose account it did not make.                                          *)
THEOREM SessionsProven == AccountsSpec => []SessionIsProven
<1>1. IInv => SessionIsProven
  BY DEF IInv, SessionInv
<1>2. QED BY <1>1, Invariance, PTL

(* A device that is not stale is registered for the user it shows.         *)
THEOREM DevicesRegistered == AccountsSpec => []RegisteredForUser
<1>1. IInv => RegisteredForUser
  BY DEF IInv, DeviceInv, InStepAt, RegisteredForUser
<1>2. QED BY <1>1, Invariance, PTL

===============================================================================

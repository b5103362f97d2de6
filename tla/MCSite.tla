-------------------------------- MODULE MCSite --------------------------------
(* What the clients and the visitors of the site see: the message list of   *)
(* the device, the home page of the site, and the accounts of both.  One    *)
(* behaviour is about one of the three, the others keep their initial       *)
(* state, so that the state spaces add up.                                  *)
EXTENDS HomePage, Accounts, TLC

VARIABLE part

SiteTypeOK == TypeOK /\ HomeTypeOK /\ AccountsTypeOK

(* One of the initial states of the part that rests is enough.             *)
SiteInit ==
    /\ Init /\ HomeInit /\ AccountsInit
    /\ part \in {"list", "home", "accounts"}
    /\ IF part = "accounts" THEN followed = {}
       ELSE \E p \in Password : /\ password = [l \in LoginName |-> p]
                                /\ secret = [d \in Device |-> p]
SiteNext ==
    \/ part = "list" /\ Next /\ UNCHANGED <<part, homeVars, accountsVars>>
    \/ part = "home" /\ HomeNext /\ UNCHANGED <<part, accountsVars>>
    \/ part = "accounts" /\ AccountsNext /\ UNCHANGED <<part, feedVars, homeVars>>
SiteSpec == SiteInit /\ [][SiteNext]_<<part, feedVars, homeVars, accountsVars>>

Symmetry ==
    Permutations(Node) \cup Permutations(Browser) \cup Permutations(Password)
===============================================================================

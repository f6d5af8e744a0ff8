------------------------------- MODULE Tokens -------------------------------
(***************************************************************************)
(* What an invitation promises: a token that admits at most one account,   *)
(* and none once it has been withdrawn.  Nobody joins without a token.     *)
(***************************************************************************)
CONSTANTS Invites, Emails, Founders, None

VARIABLES
    open,      \* the tokens that have been issued and still admit
    holder,    \* per token: the account it has admitted
    accounts   \* the accounts there are

vars == <<open, holder, accounts>>

Init ==
    /\ open = {}
    /\ holder = [i \in Invites |-> None]
    /\ accounts = Founders

Issue(i) ==
    /\ i \notin open /\ holder[i] = None
    /\ open' = open \cup {i}
    /\ UNCHANGED <<holder, accounts>>

Admit(i, e) ==
    /\ i \in open /\ e \notin accounts
    /\ open' = open \ {i}
    /\ holder' = [holder EXCEPT ![i] = e]
    /\ accounts' = accounts \cup {e}

Withdraw(i) ==
    /\ i \in open
    /\ open' = open \ {i}
    /\ UNCHANGED <<holder, accounts>>

Next ==
    \E i \in Invites :
        Issue(i) \/ Withdraw(i) \/ \E e \in Emails : Admit(i, e)

Spec == Init /\ [][Next]_vars
=============================================================================

----------------------------- MODULE Invitation -----------------------------
(***************************************************************************)
(* What an invitation is worth, without saying how: a code is offered      *)
(* once, makes at most one member, and after that, or once withdrawn, none.*)
(* Module Enrolment is the detailed specification of it.                   *)
(***************************************************************************)

CONSTANTS Code, Member, NULL

VARIABLES
    open,        \* codes offered and not yet redeemed
    withdrawn,   \* codes nobody redeemed in time
    redeemed     \* redeemed[c]: the member code c has made, or NULL

vars == <<open, withdrawn, redeemed>>

Init == /\ open = {} /\ withdrawn = {}
        /\ redeemed = [c \in Code |-> NULL]

(* Offering a code withdraws what has expired by then.                     *)
Offer(C, c) == /\ C \subseteq open
               /\ c \notin open \cup withdrawn /\ redeemed[c] = NULL
               /\ open' = (open \ C) \cup {c}
               /\ withdrawn' = withdrawn \cup C
               /\ UNCHANGED redeemed

(* A member is made by one code.                                           *)
Redeem(c, m) == /\ c \in open
                /\ \A d \in Code : redeemed[d] # m
                /\ redeemed' = [redeemed EXCEPT ![c] = m]
                /\ open' = open \ {c}
                /\ UNCHANGED withdrawn

Withdraw(C) == /\ C \subseteq open
               /\ open' = open \ C
               /\ withdrawn' = withdrawn \cup C
               /\ UNCHANGED redeemed

Next == \/ \E C \in SUBSET Code, c \in Code : Offer(C, c)
        \/ \E c \in Code, m \in Member : Redeem(c, m)
        \/ \E C \in SUBSET Code : Withdraw(C)

Spec == Init /\ [][Next]_vars

-----------------------------------------------------------------------------
(* A code that has made a member has made that member for good.            *)
Settled == \A c \in Code : redeemed[c] # NULL => redeemed'[c] = redeemed[c]

(* No two codes have made the same member, and a code is open, withdrawn   *)
(* or spent, and only one of them.                                         *)
Distinct ==
    /\ \A c, d \in Code : redeemed[c] # NULL /\ redeemed[c] = redeemed[d] => c = d
    /\ \A c \in Code : c \in open \cup withdrawn => redeemed[c] = NULL
    /\ open \cap withdrawn = {}
=============================================================================

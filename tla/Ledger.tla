------------------------------- MODULE Ledger -------------------------------
(***************************************************************************)
(* What ccledger promises about usage, without saying how: every API       *)
(* request is counted once, for the member whose token first delivered it, *)
(* and a member who has been revoked can be charged only by work that was  *)
(* admitted while the token was still good.  Module Ingest is the detailed *)
(* specification of it.                                                    *)
(***************************************************************************)

CONSTANTS
    Member,     \* people holding a token
    Id,         \* request ids: the primary key of the requests table
    Ticket,     \* one admission: a request the server has authenticated
    Holder,     \* Holder[t]: the member whose token admitted ticket t
    NULL

VARIABLES
    counted,    \* counted[i]: the member request i is counted for, or NULL
    retired,    \* members whose access has been withdrawn
    admitted    \* tickets authenticated and not yet settled

vars == <<counted, retired, admitted>>

Init == /\ counted = [i \in Id |-> NULL]
        /\ retired = {}
        /\ admitted = {}

(* The token is looked up, and only a member in good standing gets in.     *)
Admit(t) == /\ Holder[t] \notin retired
            /\ admitted' = admitted \cup {t}
            /\ UNCHANGED <<counted, retired>>

(* A ticket counts the ids of S that nobody has counted yet.               *)
Record(t, S) ==
    /\ t \in admitted
    /\ counted' = [i \in Id |-> IF i \in S /\ counted[i] = NULL
                                  THEN Holder[t] ELSE counted[i]]
    /\ admitted' = admitted \ {t}
    /\ UNCHANGED retired

(* Tickets end without counting anything: refused, failed, or lost.        *)
Abandon(T) == /\ admitted' = admitted \ T
              /\ UNCHANGED <<counted, retired>>

Retire(m) == /\ retired' = retired \cup {m}
             /\ UNCHANGED <<counted, admitted>>

Next == \/ \E t \in Ticket : Admit(t)
        \/ \E t \in Ticket, S \in SUBSET Id : Record(t, S)
        \/ \E T \in SUBSET Ticket : Abandon(T)
        \/ \E m \in Member : Retire(m)

Spec == Init /\ [][Next]_vars

-----------------------------------------------------------------------------
(* A counted request stays counted, for the same member, forever.          *)
AppendOnly == \A i \in Id : counted[i] # NULL => counted'[i] = counted[i]

(* Nothing new is counted for a retired member who has no ticket left.     *)
Fenced == \A i \in Id :
              counted'[i] # counted[i] =>
                 \E t \in admitted : Holder[t] = counted'[i]
=============================================================================

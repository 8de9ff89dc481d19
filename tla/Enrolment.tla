----------------------------- MODULE Enrolment ------------------------------
(***************************************************************************)
(* Join codes: an admin issues one, a teammate's setup posts it to /join,  *)
(* and a server spends it and creates the member it was issued for.        *)
(*                                                                         *)
(* Several processes work on one database file: two servers while one is   *)
(* being replaced, and `ccledger invite`.  Each server remembers codes     *)
(* whose fate it believes final.  A join is two steps, because another     *)
(* process may come between them: the look at the code, and the            *)
(* transaction (BEGIN IMMEDIATE) that creates the member and spends it.    *)
(* An attempt is one POST /join.  The clock is the machine's: it may be    *)
(* set back.                                                               *)
(***************************************************************************)
EXTENDS Integers, FiniteSets

CONSTANTS
    Server, Code, Member, Attempt,
    CodeOf,      \* CodeOf[a]: the code an attempt posts
    NULL,
    Ttl,         \* JOIN_CODE_TTL_MS
    MaxCached,   \* MAX_CACHED_CODES
    MaxClock,    \* bound: the last instant of a behaviour
    MaxFaults    \* bound: crashes, failed transactions, clocks set back

ASSUME EnrolAttempts == CodeOf \in [Attempt -> Code]
ASSUME EnrolBounds ==
    /\ Ttl \in Nat \ {0} /\ MaxCached \in Nat \ {0}
    /\ MaxClock \in Nat /\ MaxFaults \in Nat
ASSUME EnrolNull ==
    /\ NULL \notin Member
    /\ NULL \notin [expires : Nat, usedBy : Member \cup {NULL}]
    /\ NULL \notin [attempt : Attempt, now : Nat]

VARIABLES
    codes,      \* the join_codes table: code -> row, or NULL
    issued,     \* the codes ever handed out: a random code never recurs
    members,    \* the ids in the members table
    settled,    \* settled[p][c]: what server p remembers of code c, or NULL
    call,       \* the join a server is in the middle of, or NULL
    phase,      \* what became of each attempt
    grant,      \* the member whose token answered an attempt, or NULL
    clock,
    latest,     \* the latest the clock has ever been
    undone,     \* codes whose spending was remembered and then rolled back
    faults

vars == <<codes, issued, members, settled, call, phase, grant, clock, latest, undone, faults>>
database == <<codes, issued, members>>
time == <<clock, latest>>

-----------------------------------------------------------------------------
(* A row's usedBy stands for used_at and member_id, which are set together.*)
StatusOf(row, now) ==
    IF row.usedBy # NULL THEN "used" ELSE IF row.expires <= now THEN "expired" ELSE "open"

(* remember: only what is final, and a full cache is emptied first.        *)
Remember(known, c, row, now) ==
    IF StatusOf(row, now) = "open" THEN known
    ELSE IF Cardinality({d \in Code : known[d] # NULL}) >= MaxCached
         THEN [d \in Code |-> IF d = c THEN row ELSE NULL]
         ELSE [known EXCEPT ![c] = row]

(* lookup: from the cache, else from the table, remembering what is final. *)
RowSeen(known, c) == IF known[c] # NULL THEN known[c] ELSE codes[c]
StatusSeen(known, c, now) ==
    IF RowSeen(known, c) = NULL THEN "unknown" ELSE StatusOf(RowSeen(known, c), now)
AfterLook(known, c, now) ==
    IF known[c] # NULL \/ codes[c] = NULL THEN known ELSE Remember(known, c, codes[c], now)

\* mutant of Spendable: WHERE code = ? AND expires_at > ?
SpendableTwice(c, now) == codes[c] # NULL /\ codes[c].expires > now

(* The predicate of the UPDATE that spends a code.                         *)
Spendable(c, now) ==
    codes[c] # NULL /\ codes[c].usedBy = NULL /\ codes[c].expires > now

Forget(known, c) == [known EXCEPT ![c] = NULL]

-----------------------------------------------------------------------------
Init ==
    /\ codes = [c \in Code |-> NULL] /\ issued = {} /\ members = {}
    /\ settled = [p \in Server |-> [c \in Code |-> NULL]]
    /\ call = [p \in Server |-> NULL]
    /\ phase = [a \in Attempt |-> "new"]
    /\ grant = [a \in Attempt |-> NULL]
    /\ clock = 0 /\ latest = 0
    /\ undone = {} /\ faults = 0

Fault == faults < MaxFaults /\ faults' = faults + 1

\* mutant of Stale: spent codes are pruned too
AnyExpired(c) == codes[c] # NULL /\ codes[c].expires <= clock

Stale(c) == codes[c] # NULL /\ codes[c].usedBy = NULL /\ codes[c].expires <= clock

Pruned == [c \in Code |-> IF Stale(c) THEN NULL ELSE codes[c]]

\* mutant of ExpiryOf: a lifetime in the wrong unit
ExpiryLate(now) == now + 2 * Ttl

ExpiryOf(now) == now + Ttl

(* `ccledger invite` and POST /api/invites: prune, then issue a fresh code.*)
Invite(c) ==
    /\ c \notin issued
    /\ issued' = issued \cup {c}
    /\ codes' = [Pruned EXCEPT ![c] = [expires |-> ExpiryOf(clock), usedBy |-> NULL]]
    /\ UNCHANGED <<members, settled, call, phase, grant, time, undone, faults>>

(* GET /api/invites, and the boot of a server.                             *)
Prune ==
    /\ codes' = Pruned
    /\ UNCHANGED <<issued, members, settled, call, phase, grant, time, undone, faults>>

(* joinWithCode takes the time and looks: a code that cannot be spent is   *)
(* refused at once (404 unknown, 410 expired, 409 used).                   *)
Preview(p, a) ==
    /\ call[p] = NULL /\ phase[a] = "new"
    /\ LET c == CodeOf[a]
           status == StatusSeen(settled[p], c, clock)
       IN  /\ settled' = [settled EXCEPT ![p] = AfterLook(settled[p], c, clock)]
           /\ phase' = [phase EXCEPT ![a] = status]
           /\ call' = IF status # "open" THEN call
                      ELSE [call EXCEPT ![p] = [attempt |-> a, now |-> clock]]
    /\ UNCHANGED <<database, grant, time, undone, faults>>

Joining(p) == call[p] # NULL
Now(p) == call[p].now
CodeAt(p) == CodeOf[call[p].attempt]
Answer(p, status) == phase' = [phase EXCEPT ![call[p].attempt] = status]

LooksOpen(p) == StatusSeen(settled[p], CodeAt(p), Now(p)) = "open"
SpentRow(p, m) == [RowSeen(settled[p], CodeAt(p)) EXCEPT !.usedBy = m]

CreateMember(m) == members \cup {m}

(* The transaction, won: the UPDATE changes one row, and the claim is      *)
(* remembered before the commit.                                           *)
Claim(p) ==
    /\ Joining(p) /\ LooksOpen(p) /\ Spendable(CodeAt(p), Now(p))
    /\ \E m \in Member \ members :
          /\ members' = CreateMember(m)
          /\ codes' = [codes EXCEPT ![CodeAt(p)].usedBy = m]
          /\ settled' = [settled EXCEPT ![p] =
                 Remember(settled[p], CodeAt(p), SpentRow(p, m), Now(p))]
          /\ grant' = [grant EXCEPT ![call[p].attempt] = m]
    /\ Answer(p, "token")
    /\ call' = [call EXCEPT ![p] = NULL]
    /\ UNCHANGED <<issued, time, undone, faults>>

\* mutants of MembersAfterLoss and Verdict: no rollback; no second look
KeepsMember(p) == members \cup {CHOOSE m \in Member : m \notin members}
AlwaysUsed(p) == "used"

MembersAfterLoss(p) == members

(* Not open when looked at again, or open by the cache alone: then what    *)
(* was cached is forgotten and the table says why.                         *)
Verdict(p) ==
    IF ~LooksOpen(p) THEN StatusSeen(settled[p], CodeAt(p), Now(p))
    ELSE LET status == StatusSeen(Forget(settled[p], CodeAt(p)), CodeAt(p), Now(p))
         IN  IF status = "open" THEN "used" ELSE status

\* mutant of CacheAfterLoss: remembered before the UPDATE is known to have won
RemembersFirst(p) ==
    IF ~LooksOpen(p) THEN AfterLook(settled[p], CodeAt(p), Now(p))
    ELSE Remember(settled[p], CodeAt(p), SpentRow(p, CHOOSE m \in Member : TRUE), Now(p))

CacheAfterLoss(p) ==
    IF ~LooksOpen(p) THEN AfterLook(settled[p], CodeAt(p), Now(p))
    ELSE AfterLook(Forget(settled[p], CodeAt(p)), CodeAt(p), Now(p))

(* The transaction, lost: rolled back, and refused with the reason.        *)
Lose(p) ==
    /\ Joining(p) /\ ~(LooksOpen(p) /\ Spendable(CodeAt(p), Now(p)))
    /\ members' = MembersAfterLoss(p)
    /\ settled' = [settled EXCEPT ![p] = CacheAfterLoss(p)]
    /\ Answer(p, Verdict(p))
    /\ call' = [call EXCEPT ![p] = NULL]
    /\ UNCHANGED <<codes, issued, grant, time, undone, faults>>

(* The transaction cannot be written (a lock held too long, a full disk):  *)
(* 500, and no row changes.  If it is the commit that fails, the claim has *)
(* been remembered by then.                                                *)
StoreFails(p) ==
    /\ Fault /\ Joining(p)
    /\ \/ UNCHANGED <<settled, undone>>
       \/ /\ LooksOpen(p) /\ Spendable(CodeAt(p), Now(p))
          /\ \E m \in Member \ members :
                settled' = [settled EXCEPT ![p] =
                    Remember(settled[p], CodeAt(p), SpentRow(p, m), Now(p))]
          /\ undone' = undone \cup {CodeAt(p)}
    /\ Answer(p, "error")
    /\ call' = [call EXCEPT ![p] = NULL]
    /\ UNCHANGED <<database, grant, time>>

(* A server dies and starts again, remembering nothing.                    *)
Restart(p) ==
    /\ Fault
    /\ settled' = [settled EXCEPT ![p] = [c \in Code |-> NULL]]
    /\ call' = [call EXCEPT ![p] = NULL]
    /\ IF Joining(p) THEN Answer(p, "error") ELSE UNCHANGED phase
    /\ UNCHANGED <<database, grant, time, undone>>

Tick ==
    /\ clock < MaxClock
    /\ clock' = clock + 1
    /\ latest' = IF clock' > latest THEN clock' ELSE latest
    /\ UNCHANGED <<database, settled, call, phase, grant, undone, faults>>

SetBack ==
    /\ Fault /\ clock > 0
    /\ clock' = clock - 1
    /\ UNCHANGED <<database, settled, call, phase, grant, latest, undone>>

Next ==
    \/ \E c \in Code : Invite(c)
    \/ Prune
    \/ \E p \in Server :
          \/ \E a \in Attempt : Preview(p, a)
          \/ Claim(p) \/ Lose(p) \/ StoreFails(p) \/ Restart(p)
    \/ Tick \/ SetBack

Spec == Init /\ [][Next]_vars

-----------------------------------------------------------------------------
Row == [expires : 0 .. MaxClock + Ttl, usedBy : Member \cup {NULL}]

TypeOK ==
    /\ codes \in [Code -> Row \cup {NULL}] /\ issued \subseteq Code /\ members \subseteq Member
    /\ settled \in [Server -> [Code -> Row \cup {NULL}]]
    /\ call \in [Server -> [attempt : Attempt, now : 0 .. MaxClock] \cup {NULL}]
    /\ phase \in [Attempt -> {"new", "open", "token", "unknown", "expired", "used", "error"}]
    /\ grant \in [Attempt -> Member \cup {NULL}]
    /\ clock \in 0 .. MaxClock /\ latest \in 0 .. MaxClock
    /\ undone \subseteq Code /\ faults \in 0 .. MaxFaults

(* A token that was handed out is backed: its member is in the table, and  *)
(* the code it was asked with names that member and will name no other.    *)
(* So no code makes two people, whichever servers they ask.                *)
TokensAreBacked ==
    /\ \A a \in Attempt : grant[a] # NULL =>
          /\ grant[a] \in members
          /\ codes[CodeOf[a]] # NULL /\ codes[CodeOf[a]].usedBy = grant[a]
    /\ \A a, b \in Attempt : grant[a] # NULL /\ grant[a] = grant[b] => a = b

(* Every member came by a code of their own: a transaction that lost the   *)
(* race, or failed, leaves nobody behind.                                  *)
MembersAreInvited ==
    /\ \A m \in members : \E c \in Code : codes[c] # NULL /\ codes[c].usedBy = m
    /\ \A c, d \in Code :
          /\ codes[c] # NULL /\ codes[d] # NULL
          /\ codes[c].usedBy # NULL /\ codes[c].usedBy = codes[d].usedBy
          => c = d

(* A refusal gives the true reason, though it may come from a cache: 404   *)
(* for a code not in the table, 410 for one past its time, 409 for one     *)
(* that made a member, unless a commit failed on it.                       *)
RefusalsAreTrue ==
    [][\A a \in Attempt : phase'[a] # phase[a] =>
          LET row == codes[CodeOf[a]] IN
          /\ phase'[a] = "unknown" => row = NULL
          /\ phase'[a] = "expired" =>
                CodeOf[a] \in issued /\ (row = NULL \/ row.expires <= latest)
          /\ phase'[a] = "used" =>
                (row # NULL /\ row.usedBy # NULL) \/ CodeOf[a] \in undone]_vars

(* What a server remembers of a code as spent is in the table: "it caches  *)
(* only conclusions that can never be revoked: a code that has been        *)
(* claimed stays claimed" (the header of db/joincodes.ts).                 *)
CacheIsFinal ==
    \A p \in Server, c \in Code :
        settled[p][c] # NULL /\ settled[p][c].usedBy # NULL =>
            codes[c] # NULL /\ codes[c].usedBy = settled[p][c].usedBy

(* The same, but for a claim whose commit failed; and an expiry remembered *)
(* is the one in the table.                                                *)
CacheAgrees ==
    \A p \in Server, c \in Code : settled[p][c] # NULL =>
        /\ codes[c] # NULL => settled[p][c].expires = codes[c].expires
        /\ settled[p][c].usedBy # NULL /\ c \notin undone =>
              codes[c] # NULL /\ codes[c].usedBy = settled[p][c].usedBy

Invitation == INSTANCE Invitation WITH
    open      <- {c \in Code : codes[c] # NULL /\ codes[c].usedBy = NULL},
    withdrawn <- {c \in issued : codes[c] = NULL},
    redeemed  <- [c \in Code |-> IF codes[c] = NULL THEN NULL ELSE codes[c].usedBy]

(* Races, crashes, failed commits, caches and clocks set back              *)
(* notwithstanding, an invitation is worth one member at most.             *)
RedeemedOnce == Invitation!Spec
=============================================================================

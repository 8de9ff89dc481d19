------------------------------- MODULE Ingest -------------------------------
(***************************************************************************)
(* POST /v1/logs: an exporter that delivers at least once, a server that   *)
(* authenticates before it reads the body and stores a batch in one        *)
(* transaction, and the two tables the batch lands in.                     *)
(*                                                                         *)
(* A delivery is one HTTP request: a copy of a batch in one of the slots   *)
(* an exporter and the server may have open for it at a time.  Its phase   *)
(* says where it is: on its way ("sent"), past the onRequest hooks         *)
(* ("admitted"), or answered ("ok" 200, "refused" 4xx, "failed" 5xx) with  *)
(* the answer on its way back.                                             *)
(***************************************************************************)
EXTENDS Integers, Sequences

CONSTANTS
    Member, Install, Event, Batch, Slot,
    Sender,      \* Sender[b]: the member whose token the exporter of b holds
    Events,      \* Events[b]: the events of b, in order
    Body,        \* Body[b]: "otlp" if b can be read, else why it cannot
    Os,          \* what an install may say of itself (os_type, cc_version, ...)
    NULL,
    MaxClock,    \* bound: the last instant of a behaviour, and of a timestamp
    MaxTokens,   \* Number.MAX_SAFE_INTEGER, the clamp of nonNegative
    MaxFaults    \* bound: losses, timeouts, storage failures and crashes

(* An event as parseOtlpLogsPayload hands it over.  A missing field is     *)
(* NULL, a missing timestamp 0.                                            *)
ASSUME EventAssumption ==
    \A e \in Event :
        /\ e.api \in BOOLEAN
        /\ e.install \in Install \cup {NULL}
        /\ e.os \in Os \cup {NULL}
        /\ e.ts \in 0 .. MaxClock
        /\ e.tokens \in Int

ASSUME BatchAssumption ==
    /\ Sender \in [Batch -> Member]
    /\ Events \in [Batch -> Seq(Event)]
    /\ Body \in [Batch -> {"otlp", "malformed", "protobuf"}]

ASSUME BoundAssumption ==
    /\ MaxClock \in Nat \ {0} /\ MaxTokens \in Nat /\ MaxFaults \in Nat
    /\ NULL \notin Member \cup Slot \cup Os \cup Nat
    /\ NULL \notin [member : Member, install : Install \cup {NULL},
                    ts : 0 .. MaxClock, tokens : 0 .. MaxTokens]
    /\ NULL \notin [member : Member, os : Os \cup {NULL},
                    firstSeen : 0 .. MaxClock, lastSeen : 0 .. MaxClock]

VARIABLES
    requests,    \* the requests table: row id -> row, or NULL
    installs,    \* the installs table: install id -> row, or NULL
    revokedAt,   \* members.revoked_at
    phase,       \* where each delivery is
    exporter,    \* what the exporter holds each batch to be
    awaiting,    \* the slot whose answer the exporter is waiting for, or NULL
    clock,
    faults

vars == <<requests, installs, revokedAt, phase, exporter, awaiting, clock, faults>>
tables == <<requests, installs>>
client == <<exporter, awaiting>>

Delivery == Batch \X Slot

-----------------------------------------------------------------------------
(* What a batch does to the tables                                         *)

Least(S) == CHOOSE n \in S : \A k \in S : n <= k
Greatest(S) == CHOOSE n \in S : \A k \in S : k <= n

(* The row id: client_request_id, else request_id, else a digest of the    *)
(* fields that identify the call.  sha256 is modelled as injective.        *)
RequestRowId(e) ==
    IF e.clientRequestId # NULL THEN e.clientRequestId
    ELSE IF e.requestId # NULL THEN e.requestId
    ELSE IF e.sessionId # NULL THEN <<e.sessionId, e.ts, e.tokens>>
    ELSE NULL

Storable(e) == e.api /\ RequestRowId(e) # NULL
RowId == {RequestRowId(e) : e \in {f \in Event : Storable(f)}}

\* mutant of NonNegative: store what was sent
AsSent(n) == n

NonNegative(n) == IF n <= 0 THEN 0 ELSE IF n > MaxTokens THEN MaxTokens ELSE n

RowOf(m, e) == [member |-> m, install |-> e.install, ts |-> e.ts,
                tokens |-> NonNegative(e.tokens)]

(* The places in a batch where id i occurs; the first is the one stored.   *)
Places == [b \in Batch |-> [i \in RowId |->
              {k \in DOMAIN Events[b] :
                  Storable(Events[b][k]) /\ RequestRowId(Events[b][k]) = i}]]

\* mutant of Chosen: a later copy within the batch wins
LastCopy(S) == Greatest(S)

Chosen(S) == Least(S)

\* mutant of InsertRequests: INSERT OR REPLACE
ReplaceRequests(b) ==
    [i \in RowId |-> IF Places[b][i] = {} THEN requests[i]
                     ELSE RowOf(Sender[b], Events[b][Chosen(Places[b][i])])]

(* INSERT OR IGNORE: an id already present keeps the row it has.           *)
InsertRequests(b) ==
    [i \in RowId |-> IF requests[i] # NULL \/ Places[b][i] = {} THEN requests[i]
                     ELSE RowOf(Sender[b], Events[b][Chosen(Places[b][i])])]

(* The events of a batch that name install x, and when it was seen then:   *)
(* an event without a usable timestamp is seen now.                        *)
Mentions == [b \in Batch |-> [x \in Install |->
                {k \in DOMAIN Events[b] : Events[b][k].install = x}]]
SeenAt(e) == IF e.ts > 0 THEN e.ts ELSE clock
Sightings(b, x) == {SeenAt(Events[b][k]) : k \in Mentions[b][x]}

\* mutants of KnownOs and KnownSightings: what was stored is forgotten
ForgetOs(x) == NULL
ForgetSightings(x) == {}

KnownOs(x) == IF installs[x] = NULL THEN NULL ELSE installs[x].os
KnownSightings(x) == IF installs[x] = NULL THEN {}
                     ELSE {installs[x].firstSeen, installs[x].lastSeen}

(* COALESCE keeps what an event omits; the seen-window only widens; the    *)
(* member sending is the owner from now on.                                *)
InstallRow(b, x) ==
    LET told == {k \in Mentions[b][x] : Events[b][k].os # NULL}
        seen == KnownSightings(x) \cup Sightings(b, x)
    IN  [member    |-> Sender[b],
         os        |-> IF told = {} THEN KnownOs(x) ELSE Events[b][Greatest(told)].os,
         firstSeen |-> Least(seen),
         lastSeen  |-> Greatest(seen)]

UpsertInstalls(b) ==
    [x \in Install |-> IF Mentions[b][x] = {} THEN installs[x] ELSE InstallRow(b, x)]

(* Statement by statement: each event upserts its install and inserts its  *)
(* request, in the order of the batch.  The loop holds the tables as they  *)
(* are after its first n events.                                           *)
Upserted(m, row, e) ==
    IF row = NULL THEN [member |-> m, os |-> e.os, firstSeen |-> SeenAt(e), lastSeen |-> SeenAt(e)]
    ELSE [member    |-> m,
          os        |-> IF e.os = NULL THEN row.os ELSE e.os,
          firstSeen |-> IF SeenAt(e) < row.firstSeen THEN SeenAt(e) ELSE row.firstSeen,
          lastSeen  |-> IF SeenAt(e) > row.lastSeen THEN SeenAt(e) ELSE row.lastSeen]
WriteEvent(m, t, e) ==
    [requests |-> [i \in RowId |-> IF Storable(e) /\ i = RequestRowId(e) /\ t.requests[i] = NULL
                                   THEN RowOf(m, e) ELSE t.requests[i]],
     installs |-> [x \in Install |-> IF e.install = x THEN Upserted(m, t.installs[x], e)
                                     ELSE t.installs[x]]]
WriteBatch(b) ==
    LET f[n \in 0 .. Len(Events[b])] ==
            IF n = 0 THEN [requests |-> requests, installs |-> installs]
            ELSE WriteEvent(Sender[b], f[n - 1], Events[b][n])
    IN  f

-----------------------------------------------------------------------------
Init ==
    /\ requests = [i \in RowId |-> NULL]
    /\ installs = [x \in Install |-> NULL]
    /\ revokedAt = [m \in Member |-> NULL]
    /\ phase = [d \in Delivery |-> "idle"]
    /\ exporter = [b \in Batch |-> "queued"]
    /\ awaiting = [b \in Batch |-> NULL]
    /\ clock = 1
    /\ faults = 0

Fault == faults < MaxFaults /\ faults' = faults + 1

(* The exporter posts a batch it has not had an answer for.                *)
Export(b, s) ==
    /\ exporter[b] = "queued" /\ awaiting[b] = NULL
    /\ phase[<<b, s>>] = "idle"
    /\ phase' = [phase EXCEPT ![<<b, s>>] = "sent"]
    /\ awaiting' = [awaiting EXCEPT ![b] = s]
    /\ UNCHANGED <<tables, revokedAt, exporter, clock, faults>>

AuthenticateMemberToken(m) == IF revokedAt[m] = NULL THEN "ok" ELSE "revoked"
RequireMember(m) == AuthenticateMemberToken(m) = "ok"

(* requireMember and the content-type check run before the body is read:   *)
(* 403 to a revoked member, 415 to protobuf.                               *)
Authenticate(b, s) ==
    /\ phase[<<b, s>>] = "sent"
    /\ phase' = [phase EXCEPT ![<<b, s>>] =
           IF ~RequireMember(Sender[b]) \/ Body[b] = "protobuf"
             THEN "refused" ELSE "admitted"]
    /\ UNCHANGED <<tables, revokedAt, client, clock, faults>>

(* The handler: the body arrives, and either cannot be parsed (400) or is  *)
(* written in one transaction, for the member found by Authenticate.       *)
Handle(b, s) ==
    /\ phase[<<b, s>>] = "admitted"
    /\ IF Body[b] = "otlp"
         THEN /\ requests' = InsertRequests(b)
              /\ installs' = UpsertInstalls(b)
              /\ phase' = [phase EXCEPT ![<<b, s>>] = "ok"]
         ELSE /\ phase' = [phase EXCEPT ![<<b, s>>] = "refused"]
              /\ UNCHANGED tables
    /\ UNCHANGED <<revokedAt, client, clock, faults>>

\* mutants of FailureAnswer: a storage failure answered 200, or 4xx
FailureAnswered200 == "ok"
FailureAnswered400 == "refused"

FailureAnswer == "failed"

(* SQLite refuses the transaction: nothing is written and the answer is a  *)
(* 500, which an exporter retries.                                         *)
StoreFails(b, s) ==
    /\ Fault
    /\ phase[<<b, s>>] = "admitted" /\ Body[b] = "otlp"
    /\ phase' = [phase EXCEPT ![<<b, s>>] = FailureAnswer]
    /\ UNCHANGED <<tables, revokedAt, client, clock>>

Answered == {"ok", "refused", "failed"}

(* The answer reaches the exporter.  2xx settles the batch, 4xx drops it,  *)
(* 5xx leaves it queued.  An answer nobody waits for is discarded.         *)
Receive(b, s) ==
    /\ phase[<<b, s>>] \in Answered
    /\ phase' = [phase EXCEPT ![<<b, s>>] = "idle"]
    /\ IF awaiting[b] = s
         THEN /\ awaiting' = [awaiting EXCEPT ![b] = NULL]
              /\ exporter' = [exporter EXCEPT ![b] =
                     CASE phase[<<b, s>>] = "ok"      -> "acked"
                       [] phase[<<b, s>>] = "refused" -> "dropped"
                       [] OTHER                   -> exporter[b]]
         ELSE UNCHANGED client
    /\ UNCHANGED <<tables, revokedAt, clock, faults>>

(* The exporter stops waiting; the delivery goes on without it.            *)
TimeOut(b) ==
    /\ Fault
    /\ awaiting[b] # NULL
    /\ awaiting' = [awaiting EXCEPT ![b] = NULL]
    /\ UNCHANGED <<tables, revokedAt, phase, exporter, clock>>

(* A request or an answer is lost, and its exporter sees the connection go.*)
Lose(b, s) ==
    /\ Fault
    /\ phase[<<b, s>>] \in {"sent"} \cup Answered
    /\ phase' = [phase EXCEPT ![<<b, s>>] = "idle"]
    /\ awaiting' = [awaiting EXCEPT ![b] = IF @ = s THEN NULL ELSE @]
    /\ UNCHANGED <<tables, revokedAt, exporter, clock>>

(* The server dies: every delivery with it, no committed row.              *)
Crash ==
    /\ Fault
    /\ phase' = [d \in Delivery |-> "idle"]
    /\ awaiting' = [b \in Batch |-> NULL]
    /\ UNCHANGED <<tables, revokedAt, exporter, clock>>

(* Revocation by the admin, or POST /leave by the member: the first one    *)
(* sets the time and no later one moves it.                                *)
RevokeMember(m) ==
    /\ revokedAt[m] = NULL
    /\ revokedAt' = [revokedAt EXCEPT ![m] = clock]
    /\ UNCHANGED <<tables, phase, client, clock, faults>>

Tick == /\ clock < MaxClock
        /\ clock' = clock + 1
        /\ UNCHANGED <<tables, revokedAt, phase, client, faults>>

Advance(b, s) == Authenticate(b, s) \/ Handle(b, s) \/ Receive(b, s)

Next ==
    \/ \E b \in Batch, s \in Slot :
          \/ Export(b, s) \/ Authenticate(b, s) \/ Handle(b, s)
          \/ StoreFails(b, s) \/ Receive(b, s) \/ Lose(b, s)
    \/ \E b \in Batch : TimeOut(b)
    \/ \E m \in Member : RevokeMember(m)
    \/ Crash
    \/ Tick

(* The exporter keeps sending, the server keeps serving and an answer that *)
(* is not lost arrives.  Faults, revocations and time owe nothing.         *)
Fairness ==
    \A b \in Batch :
        /\ WF_vars(\E s \in Slot : Export(b, s))
        /\ \A s \in Slot : WF_vars(Advance(b, s))

Spec == Init /\ [][Next]_vars
FairSpec == Spec /\ Fairness

-----------------------------------------------------------------------------
Row == [member : Member, install : Install \cup {NULL},
        ts : 0 .. MaxClock, tokens : 0 .. MaxTokens]
Machine == [member : Member, os : Os \cup {NULL},
            firstSeen : 0 .. MaxClock, lastSeen : 0 .. MaxClock]

(* Every variable has its type: in particular no stored count is negative  *)
(* or past the largest exact integer (nonNegative).                        *)
TypeOK ==
    /\ requests \in [RowId -> Row \cup {NULL}]
    /\ installs \in [Install -> Machine \cup {NULL}]
    /\ revokedAt \in [Member -> 0 .. MaxClock \cup {NULL}]
    /\ phase \in [Delivery -> {"idle", "sent", "admitted"} \cup Answered]
    /\ exporter \in [Batch -> {"queued", "acked", "dropped"}]
    /\ awaiting \in [Batch -> Slot \cup {NULL}]
    /\ clock \in 0 .. MaxClock
    /\ faults \in 0 .. MaxFaults

Stored(b) == \A i \in RowId : Places[b][i] # {} => requests[i] # NULL

(* A batch the exporter was told is stored is stored, whatever was lost,   *)
(* repeated or restarted around it: a 200 is sent after the commit and a   *)
(* failed transaction never answers one.                                   *)
AckedIsStored ==
    /\ \A b \in Batch : exporter[b] = "acked" => Stored(b)
    /\ \A b \in Batch, s \in Slot : phase[<<b, s>>] = "ok" => Stored(b)

(* The dashboard's seen-window of a machine covers every request stored    *)
(* from it, in whatever order batches arrived (min/max in the upsert).     *)
SeenWindowCovers ==
    \A i \in RowId : requests[i] # NULL =>
        LET r == requests[i] IN
        r.install # NULL /\ r.ts > 0 =>
            /\ installs[r.install] # NULL
            /\ installs[r.install].firstSeen <= r.ts
            /\ r.ts <= installs[r.install].lastSeen

(* What is known of a machine is never lost: a row does not go away, its   *)
(* window never narrows, and a field an event omits keeps its value.       *)
KnowledgeKept ==
    [][\A x \in Install : installs[x] # NULL =>
          /\ installs'[x] # NULL
          /\ installs'[x].firstSeen <= installs[x].firstSeen
          /\ installs'[x].lastSeen >= installs[x].lastSeen
          /\ installs[x].os # NULL => installs'[x].os # NULL]_vars

(* A readable batch is counted in the end, through any finite number of    *)
(* losses, crashes and failed transactions, unless its member is revoked:  *)
(* only an answer that a retry cannot improve makes an exporter drop it.   *)
EventuallyCounted ==
    \A b \in Batch : Body[b] = "otlp" =>
        <>(Stored(b) \/ revokedAt[Sender[b]] # NULL)

(* What a batch does to the tables all at once is what the loop does that  *)
(* takes its events in order, each statement on what the one before it     *)
(* left (ingestEvents): the first copy of an id counts, the last field     *)
(* that is not missing stands.                                             *)
BatchIsTheLoop ==
    \A b \in Batch :
        WriteBatch(b)[Len(Events[b])] = [requests |-> InsertRequests(b), installs |-> UpsertInstalls(b)]

(* The ledger this implements.                                             *)
Ledger == INSTANCE Ledger WITH
    Id       <- RowId,
    Ticket   <- Delivery,
    Holder   <- [d \in Delivery |-> Sender[d[1]]],
    counted  <- [i \in RowId |-> IF requests[i] = NULL THEN NULL
                                 ELSE requests[i].member],
    retired  <- {m \in Member : revokedAt[m] # NULL},
    admitted <- {d \in Delivery : phase[d] = "admitted"}

(* Redelivery, reordering, crashes and revocation notwithstanding, each    *)
(* request is counted once, for the member who first delivered it, and a   *)
(* revoked member only by requests authenticated beforehand.               *)
CountsOnce == Ledger!Spec
=============================================================================

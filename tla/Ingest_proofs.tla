---------------------------- MODULE Ingest_proofs ----------------------------
(***************************************************************************)
(* What Ingest promises, for every number of members, machines, batches    *)
(* and slots, every content of the batches and every bound.                *)
(***************************************************************************)
EXTENDS Ingest, Counting

LEMMA LeastIsLeast ==
    ASSUME NEW S, S \subseteq Nat, S # {}
    PROVE  Least(S) \in S /\ \A k \in S : Least(S) <= k
BY NatHasLeast DEF Least

(* A bounded one has a greatest: the least of the distances to the bound.  *)
LEMMA GreatestIsGreatest ==
    ASSUME NEW n \in Nat, NEW S, S \subseteq 0 .. n, S # {}
    PROVE  Greatest(S) \in S /\ \A k \in S : k <= Greatest(S)
<1> DEFINE D == {n - k : k \in S}
<1>1. D \subseteq Nat /\ D # {}
  <2>1. PICK k \in S : TRUE
    OBVIOUS
  <2>2. n - k \in D
    OBVIOUS
  <2>3. D \subseteq Nat
    OBVIOUS
  <2> QED  BY <2>2, <2>3
<1>2. Least(D) \in D /\ \A d \in D : Least(D) <= d
  BY <1>1, LeastIsLeast
<1>3. PICK g \in S : Least(D) = n - g
  BY <1>2
<1>4. \A k \in S : k <= g
  <2> TAKE k \in S
  <2>1. n - g <= n - k
    BY <1>2, <1>3
  <2> QED  BY <2>1
<1> QED  BY <1>4 DEF Greatest

-----------------------------------------------------------------------------
(* The events of a batch are events, and a row id of a batch has a first   *)
(* place in it.                                                            *)
LEMMA EventOfBatch ==
    ASSUME NEW b \in Batch, NEW k \in DOMAIN Events[b]
    PROVE  k \in Nat /\ Events[b][k] \in Event
<1>1. Events[b] \in Seq(Event)
  BY BatchAssumption
<1> QED  BY <1>1

LEMMA ChosenPlace ==
    ASSUME NEW b \in Batch, NEW i \in RowId, Places[b][i] # {}
    PROVE  /\ Chosen(Places[b][i]) \in DOMAIN Events[b]
           /\ Chosen(Places[b][i]) \in Places[b][i]
<1>1. Places[b][i] \subseteq DOMAIN Events[b]
  BY DEF Places
<1>2. Places[b][i] \subseteq Nat
  BY <1>1, EventOfBatch
<1>3. Chosen(Places[b][i]) \in Places[b][i]
  BY <1>2, LeastIsLeast DEF Chosen
<1> QED  BY <1>1, <1>3

(* What a batch writes into the requests table is a row.                   *)
LEMMA RowType ==
    ASSUME NEW b \in Batch, NEW k \in DOMAIN Events[b]
    PROVE  RowOf(Sender[b], Events[b][k]) \in Row
<1>1. Events[b][k] \in Event
  BY EventOfBatch
<1>2. NonNegative(Events[b][k].tokens) \in 0 .. MaxTokens
  BY <1>1, EventAssumption, BoundAssumption DEF NonNegative
<1> QED  BY <1>1, <1>2, EventAssumption, BatchAssumption DEF RowOf, Row

LEMMA NewRow ==
    ASSUME NEW b \in Batch, NEW i \in RowId, Places[b][i] # {}
    PROVE  /\ RowOf(Sender[b], Events[b][Chosen(Places[b][i])]) \in Row
           /\ RowOf(Sender[b], Events[b][Chosen(Places[b][i])]) # NULL
<1>1. RowOf(Sender[b], Events[b][Chosen(Places[b][i])]) \in Row
  BY ChosenPlace, RowType
<1>2. NULL \notin Row
  BY BoundAssumption DEF Row
<1> QED  BY <1>1, <1>2

LEMMA InsertType ==
    ASSUME requests \in [RowId -> Row \cup {NULL}], NEW b \in Batch
    PROVE  InsertRequests(b) \in [RowId -> Row \cup {NULL}]
BY NewRow DEF InsertRequests

(* Rows are only added: those of the batch that were missing.              *)
LEMMA InsertKeeps ==
    ASSUME NEW b \in Batch, NEW i \in RowId
    PROVE  /\ requests[i] # NULL => InsertRequests(b)[i] = requests[i]
           /\ Places[b][i] = {} => InsertRequests(b)[i] = requests[i]
           /\ Places[b][i] # {} => InsertRequests(b)[i] # NULL
BY NewRow DEF InsertRequests

-----------------------------------------------------------------------------
(* The window of a machine after a batch spans what was known of it and    *)
(* every sighting of the batch.                                            *)
LEMMA SeenType ==
    ASSUME TypeOK, NEW b \in Batch, NEW x \in Install
    PROVE  /\ Sightings(b, x) \subseteq 0 .. MaxClock
           /\ KnownSightings(x) \subseteq 0 .. MaxClock
<1>1. ASSUME NEW k \in Mentions[b][x]
      PROVE  SeenAt(Events[b][k]) \in 0 .. MaxClock
  <2>1. k \in DOMAIN Events[b]
    BY DEF Mentions
  <2>2. Events[b][k].ts \in 0 .. MaxClock
    BY <2>1, EventOfBatch, EventAssumption
  <2> QED  BY <2>2 DEF SeenAt, TypeOK
<1>2. Sightings(b, x) \subseteq 0 .. MaxClock
  BY <1>1 DEF Sightings
<1>3. KnownSightings(x) \subseteq 0 .. MaxClock
  BY DEF KnownSightings, TypeOK, Machine
<1> QED  BY <1>2, <1>3

LEMMA InstallWindow ==
    ASSUME TypeOK, NEW b \in Batch, NEW x \in Install, Mentions[b][x] # {}
    PROVE  /\ InstallRow(b, x).firstSeen \in 0 .. MaxClock
           /\ InstallRow(b, x).lastSeen \in 0 .. MaxClock
           /\ \A t \in KnownSightings(x) \cup Sightings(b, x) :
                 InstallRow(b, x).firstSeen <= t /\ t <= InstallRow(b, x).lastSeen
<1> DEFINE seen == KnownSightings(x) \cup Sightings(b, x)
<1>1. seen \subseteq 0 .. MaxClock
  BY SeenType
<1>2. seen # {}
  <2>1. PICK k \in Mentions[b][x] : TRUE
    OBVIOUS
  <2>2. SeenAt(Events[b][k]) \in Sightings(b, x)
    BY <2>1 DEF Sightings
  <2> QED  BY <2>2
<1>3. seen \subseteq Nat /\ MaxClock \in Nat
  BY <1>1, BoundAssumption
<1>4. InstallRow(b, x).firstSeen = Least(seen) /\ InstallRow(b, x).lastSeen = Greatest(seen)
  BY DEF InstallRow
<1> HIDE DEF seen
<1>5. Least(seen) \in seen /\ \A t \in seen : Least(seen) <= t
  BY <1>2, <1>3, LeastIsLeast
<1>6. Greatest(seen) \in seen /\ \A t \in seen : t <= Greatest(seen)
  BY <1>1, <1>2, <1>3, GreatestIsGreatest
<1>7. \A t \in seen : InstallRow(b, x).firstSeen <= t /\ t <= InstallRow(b, x).lastSeen
  BY <1>4, <1>5, <1>6
<1> QED  BY <1>1, <1>4, <1>5, <1>6, <1>7 DEF seen

LEMMA InstallRowType ==
    ASSUME TypeOK, NEW b \in Batch, NEW x \in Install, Mentions[b][x] # {}
    PROVE  InstallRow(b, x) \in Machine /\ InstallRow(b, x) # NULL
<1> DEFINE told == {k \in Mentions[b][x] : Events[b][k].os # NULL}
<1>1. told # {} => Greatest(told) \in told
  <2>1. Events[b] \in Seq(Event)
    BY BatchAssumption
  <2>2. told \subseteq 0 .. Len(Events[b]) /\ Len(Events[b]) \in Nat
    BY <2>1 DEF Mentions
  <2> QED  BY <2>2, GreatestIsGreatest
<1>2. told # {} => Events[b][Greatest(told)].os \in Os \cup {NULL}
  <2>1. \A k \in told : k \in DOMAIN Events[b]
    BY DEF Mentions
  <2> QED  BY <1>1, <2>1, EventOfBatch, EventAssumption
<1>3. KnownOs(x) \in Os \cup {NULL}
  BY DEF KnownOs, TypeOK, Machine
<1>4. InstallRow(b, x) =
        [member    |-> Sender[b],
         os        |-> IF told = {} THEN KnownOs(x) ELSE Events[b][Greatest(told)].os,
         firstSeen |-> InstallRow(b, x).firstSeen,
         lastSeen  |-> InstallRow(b, x).lastSeen]
  BY DEF InstallRow
<1>5. Sender[b] \in Member
  BY BatchAssumption
<1> HIDE DEF told
<1>6. InstallRow(b, x) \in Machine
  BY <1>2, <1>3, <1>4, <1>5, InstallWindow DEF Machine
<1> QED  BY <1>6, BoundAssumption DEF Machine

LEMMA InstallType ==
    ASSUME TypeOK, NEW b \in Batch
    PROVE  UpsertInstalls(b) \in [Install -> Machine \cup {NULL}]
BY InstallRowType DEF UpsertInstalls, TypeOK

-----------------------------------------------------------------------------
LEMMA TypeInit == Init => TypeOK
BY BoundAssumption DEF Init, TypeOK, Delivery, Answered

LEMMA TypeStep == TypeOK /\ [Next]_vars => TypeOK'
<1> SUFFICES ASSUME TypeOK, [Next]_vars PROVE TypeOK'
  OBVIOUS
<1> USE DEF TypeOK, tables, client
<1>1. CASE \E b \in Batch, s \in Slot : Export(b, s)
  BY <1>1 DEF Export, Delivery
<1>2. CASE \E b \in Batch, s \in Slot : Authenticate(b, s)
  BY <1>2 DEF Authenticate, Delivery, Answered
<1>3. CASE \E b \in Batch, s \in Slot : Handle(b, s)
  <2> PICK b \in Batch, s \in Slot : Handle(b, s)
    BY <1>3
  <2>1. requests' \in [RowId -> Row \cup {NULL}]
    BY InsertType DEF Handle
  <2>2. installs' \in [Install -> Machine \cup {NULL}]
    BY InstallType DEF Handle
  <2>3. phase' \in [Delivery -> {"idle", "sent", "admitted"} \cup Answered]
    BY DEF Handle, Delivery, Answered
  <2> QED  BY <2>1, <2>2, <2>3 DEF Handle
<1>4. CASE \E b \in Batch, s \in Slot : StoreFails(b, s)
  BY <1>4, BoundAssumption DEF StoreFails, Fault, FailureAnswer, Delivery, Answered
<1>5. CASE \E b \in Batch, s \in Slot : Receive(b, s)
  <2> PICK b \in Batch, s \in Slot : Receive(b, s)
    BY <1>5
  <2>1. exporter' \in [Batch -> {"queued", "acked", "dropped"}]
    BY DEF Receive
  <2>2. awaiting' \in [Batch -> Slot \cup {NULL}]
    BY DEF Receive
  <2>3. phase' \in [Delivery -> {"idle", "sent", "admitted"} \cup Answered]
    BY DEF Receive, Delivery
  <2> QED  BY <2>1, <2>2, <2>3 DEF Receive
<1>6. CASE \E b \in Batch, s \in Slot : Lose(b, s)
  BY <1>6, BoundAssumption DEF Lose, Fault, Delivery
<1>7. CASE \E b \in Batch : TimeOut(b)
  BY <1>7, BoundAssumption DEF TimeOut, Fault
<1>8. CASE \E m \in Member : RevokeMember(m)
  BY <1>8 DEF RevokeMember
<1>9. CASE Crash
  BY <1>9, BoundAssumption DEF Crash, Fault, Delivery
<1>10. CASE Tick
  BY <1>10, BoundAssumption DEF Tick
<1>11. CASE UNCHANGED vars
  BY <1>11 DEF vars
<1> QED
  BY <1>1, <1>2, <1>3, <1>4, <1>5, <1>6, <1>7, <1>8, <1>9, <1>10, <1>11 DEF Next

(* Every reachable state is well typed: rows stay within the clamp of      *)
(* nonNegative and within the seen-window's instants.                      *)
THEOREM TypeCorrect == Spec => []TypeOK
BY TypeInit, TypeStep, PTL DEF Spec

-----------------------------------------------------------------------------
(* What a step may do to the tables: nothing, or store a readable batch.   *)
LEMMA TablesStep ==
    ASSUME [Next]_vars
    PROVE  \/ UNCHANGED tables
           \/ \E b \in Batch, s \in Slot : Handle(b, s) /\ Body[b] = "otlp"
<1> USE DEF tables
<1>1. CASE Next
  <2>1. ASSUME NEW b \in Batch, NEW s \in Slot,
               \/ Export(b, s) \/ Authenticate(b, s) \/ StoreFails(b, s)
               \/ Receive(b, s) \/ Lose(b, s)
        PROVE  UNCHANGED tables
    BY <2>1 DEF Export, Authenticate, StoreFails, Receive, Lose
  <2>2. ASSUME NEW b \in Batch, NEW s \in Slot, Handle(b, s), Body[b] # "otlp"
        PROVE  UNCHANGED tables
    BY <2>2 DEF Handle
  <2>3. ASSUME \/ \E b \in Batch : TimeOut(b)
               \/ \E m \in Member : RevokeMember(m)
               \/ Crash \/ Tick
        PROVE  UNCHANGED tables
    BY <2>3 DEF TimeOut, RevokeMember, Crash, Tick
  <2> QED  BY <1>1, <2>1, <2>2, <2>3 DEF Next
<1>2. CASE UNCHANGED vars
  BY <1>2 DEF vars
<1> QED  BY <1>1, <1>2

(* A row once stored is there for good.                                    *)
LEMMA RowsStay ==
    ASSUME TypeOK, [Next]_vars
    PROVE  \A i \in RowId : requests[i] # NULL => requests'[i] = requests[i]
<1>1. CASE UNCHANGED tables
  BY <1>1 DEF tables
<1>2. CASE \E b \in Batch, s \in Slot : Handle(b, s) /\ Body[b] = "otlp"
  BY <1>2, InsertKeeps DEF Handle
<1> QED  BY <1>1, <1>2, TablesStep

LEMMA StoredStays ==
    ASSUME TypeOK, [Next]_vars, NEW b \in Batch, Stored(b)
    PROVE  Stored(b)'
BY RowsStay DEF Stored

LEMMA AckedStep == TypeOK /\ AckedIsStored /\ [Next]_vars => AckedIsStored'
<1> SUFFICES ASSUME TypeOK, AckedIsStored, [Next]_vars PROVE AckedIsStored'
  OBVIOUS
<1> USE DEF TypeOK
<1>1. ASSUME NEW b \in Batch, NEW s \in Slot, phase'[<<b, s>>] = "ok"
      PROVE  Stored(b)'
  <2>1. CASE phase[<<b, s>>] = "ok"
    BY <2>1, StoredStays DEF AckedIsStored
  <2>2. CASE Handle(b, s) /\ Body[b] = "otlp"
    BY <2>2, InsertKeeps DEF Handle, Stored
  <2>3. ASSUME phase[<<b, s>>] # "ok", ~(Handle(b, s) /\ Body[b] = "otlp")
        PROVE  FALSE
    <3> USE DEF Delivery
    <3>1. ASSUME NEW c \in Batch, NEW t \in Slot,
                 \/ Export(c, t) \/ Authenticate(c, t) \/ Handle(c, t)
                 \/ StoreFails(c, t) \/ Receive(c, t) \/ Lose(c, t)
          PROVE  FALSE
      BY <1>1, <2>3, <3>1
      DEF Export, Authenticate, Handle, StoreFails, Receive, Lose, FailureAnswer
    <3>2. ASSUME \/ \E c \in Batch : TimeOut(c)
                 \/ \E m \in Member : RevokeMember(m)
                 \/ Crash \/ Tick \/ UNCHANGED vars
          PROVE  FALSE
      BY <1>1, <2>3, <3>2 DEF TimeOut, RevokeMember, Crash, Tick, vars
    <3> QED  BY <3>1, <3>2 DEF Next
  <2> QED  BY <2>1, <2>2, <2>3
<1>2. ASSUME NEW b \in Batch, exporter'[b] = "acked"
      PROVE  Stored(b)'
  <2>1. CASE exporter[b] = "acked"
    BY <2>1, StoredStays DEF AckedIsStored
  <2>2. CASE \E s \in Slot : Receive(b, s) /\ phase[<<b, s>>] = "ok"
    BY <2>2, StoredStays DEF AckedIsStored
  <2>3. ASSUME exporter[b] # "acked",
               ~ \E s \in Slot : Receive(b, s) /\ phase[<<b, s>>] = "ok"
        PROVE  FALSE
    <3> USE DEF client
    <3>1. ASSUME NEW c \in Batch, NEW t \in Slot,
                 \/ Export(c, t) \/ Authenticate(c, t) \/ Handle(c, t)
                 \/ StoreFails(c, t) \/ Lose(c, t)
          PROVE  FALSE
      BY <1>2, <2>3, <3>1 DEF Export, Authenticate, Handle, StoreFails, Lose
    <3>2. ASSUME NEW c \in Batch, NEW t \in Slot, Receive(c, t)
          PROVE  FALSE
      BY <1>2, <2>3, <3>2 DEF Receive
    <3>3. ASSUME \/ \E c \in Batch : TimeOut(c)
                 \/ \E m \in Member : RevokeMember(m)
                 \/ Crash \/ Tick \/ UNCHANGED vars
          PROVE  FALSE
      BY <1>2, <2>3, <3>3 DEF TimeOut, RevokeMember, Crash, Tick, vars
    <3> QED  BY <3>1, <3>2, <3>3 DEF Next
  <2> QED  BY <2>1, <2>2, <2>3
<1> QED  BY <1>1, <1>2 DEF AckedIsStored

(* A batch answered 200 is in the requests table, whatever was lost,       *)
(* repeated or restarted: the handler answers after the commit.            *)
THEOREM AckedStored == Spec => []AckedIsStored
<1>1. Init => AckedIsStored
  BY DEF Init, AckedIsStored, Delivery
<1> QED  BY <1>1, AckedStep, TypeCorrect, PTL DEF Spec

-----------------------------------------------------------------------------
(* A new row from a machine is one of the sightings the same batch folds   *)
(* into the machine's window.                                              *)
LEMMA NewRowIsSeen ==
    ASSUME TypeOK, NEW b \in Batch, NEW i \in RowId, requests[i] = NULL,
           InsertRequests(b)[i] # NULL,
           InsertRequests(b)[i].install # NULL, InsertRequests(b)[i].ts > 0
    PROVE  /\ InsertRequests(b)[i].install \in Install
           /\ Mentions[b][InsertRequests(b)[i].install] # {}
           /\ InsertRequests(b)[i].ts \in Sightings(b, InsertRequests(b)[i].install)
<1> DEFINE k == Chosen(Places[b][i])
<1> DEFINE e == Events[b][k]
<1>1. Places[b][i] # {} /\ InsertRequests(b)[i] = RowOf(Sender[b], e)
  BY DEF InsertRequests
<1>2. k \in DOMAIN Events[b]
  BY <1>1, ChosenPlace
<1> HIDE DEF k
<1>3. e \in Event
  BY <1>2, EventOfBatch
<1>4. InsertRequests(b)[i].install = e.install /\ InsertRequests(b)[i].ts = e.ts
  BY <1>1 DEF RowOf
<1>5. e.install \in Install
  BY <1>3, <1>4, EventAssumption
<1>6. k \in Mentions[b][e.install]
  BY <1>2, <1>5 DEF Mentions
<1>7. SeenAt(e) = e.ts
  BY <1>4 DEF SeenAt
<1>8. e.ts \in Sightings(b, e.install)
  BY <1>6, <1>7 DEF Sightings
<1> QED  BY <1>4, <1>5, <1>6, <1>8

(* Windows only widen.                                                     *)
LEMMA WindowsWiden ==
    ASSUME TypeOK, NEW b \in Batch, NEW x \in Install, installs[x] # NULL
    PROVE  /\ UpsertInstalls(b)[x] # NULL
           /\ UpsertInstalls(b)[x].firstSeen <= installs[x].firstSeen
           /\ installs[x].lastSeen <= UpsertInstalls(b)[x].lastSeen
<1>1. installs[x] \in Machine
  BY DEF TypeOK
<1>2. CASE Mentions[b][x] = {}
  BY <1>1, <1>2, BoundAssumption DEF UpsertInstalls, Machine
<1>3. CASE Mentions[b][x] # {}
  <2>1. UpsertInstalls(b)[x] = InstallRow(b, x)
    BY <1>3 DEF UpsertInstalls
  <2>2. installs[x].firstSeen \in KnownSightings(x) /\ installs[x].lastSeen \in KnownSightings(x)
    BY DEF KnownSightings
  <2>3. InstallRow(b, x) # NULL
    BY <1>3, InstallRowType
  <2> QED  BY <1>3, <2>1, <2>2, <2>3, InstallWindow
<1> QED  BY <1>2, <1>3

LEMMA SeenStep == TypeOK /\ SeenWindowCovers /\ [Next]_vars => SeenWindowCovers'
<1> SUFFICES ASSUME TypeOK, SeenWindowCovers, [Next]_vars,
                    NEW i \in RowId, requests'[i] # NULL,
                    requests'[i].install # NULL, requests'[i].ts > 0
             PROVE  /\ installs'[requests'[i].install] # NULL
                    /\ installs'[requests'[i].install].firstSeen <= requests'[i].ts
                    /\ requests'[i].ts <= installs'[requests'[i].install].lastSeen
  BY DEF SeenWindowCovers
<1>1. CASE UNCHANGED tables
  BY <1>1 DEF tables, SeenWindowCovers
<1>2. CASE \E b \in Batch, s \in Slot : Handle(b, s) /\ Body[b] = "otlp"
  <2> PICK b \in Batch, s \in Slot : Handle(b, s) /\ Body[b] = "otlp"
    BY <1>2
  <2>1. requests' = InsertRequests(b) /\ installs' = UpsertInstalls(b)
    BY DEF Handle
  <2>2. CASE requests[i] # NULL
    <3> DEFINE r == requests[i]
    <3>1. requests'[i] = r
      BY <2>1, <2>2, InsertKeeps
    <3>2. r \in Row /\ r.install \in Install
      BY <2>2, <3>1 DEF TypeOK, Row
    <3>3. /\ installs[r.install] # NULL
          /\ installs[r.install].firstSeen <= r.ts
          /\ r.ts <= installs[r.install].lastSeen
      BY <2>2, <3>1 DEF SeenWindowCovers
    <3>4. /\ UpsertInstalls(b)[r.install] # NULL
          /\ UpsertInstalls(b)[r.install].firstSeen <= installs[r.install].firstSeen
          /\ installs[r.install].lastSeen <= UpsertInstalls(b)[r.install].lastSeen
      BY <3>2, <3>3, WindowsWiden
    <3>5. installs[r.install] \in Machine /\ UpsertInstalls(b)[r.install] \in Machine
      BY <3>2, <3>3, <3>4, InstallType DEF TypeOK
    <3> QED
      BY <2>1, <3>1, <3>2, <3>3, <3>4, <3>5, BoundAssumption DEF Row, Machine
  <2>3. CASE requests[i] = NULL
    <3> DEFINE r == InsertRequests(b)[i]
    <3>1. /\ r.install \in Install
          /\ Mentions[b][r.install] # {}
          /\ r.ts \in Sightings(b, r.install)
      BY <2>1, <2>3, NewRowIsSeen
    <3>2. UpsertInstalls(b)[r.install] = InstallRow(b, r.install)
      BY <3>1 DEF UpsertInstalls
    <3>3. InstallRow(b, r.install) # NULL
      BY <3>1, InstallRowType
    <3>4. InstallRow(b, r.install).firstSeen <= r.ts /\ r.ts <= InstallRow(b, r.install).lastSeen
      BY <3>1, InstallWindow
    <3> QED  BY <2>1, <3>2, <3>3, <3>4
  <2> QED  BY <2>2, <2>3
<1> QED  BY <1>1, <1>2, TablesStep

(* The seen-window of a machine covers every request stored from it.       *)
THEOREM WindowCovers == Spec => []SeenWindowCovers
<1>1. Init => SeenWindowCovers
  BY DEF Init, SeenWindowCovers
<1> QED  BY <1>1, SeenStep, TypeCorrect, PTL DEF Spec

-----------------------------------------------------------------------------
(* A field known of a machine keeps a value through any batch.             *)
LEMMA OsKept ==
    ASSUME TypeOK, NEW b \in Batch, NEW x \in Install,
           installs[x] # NULL, installs[x].os # NULL
    PROVE  UpsertInstalls(b)[x].os # NULL
<1>1. CASE Mentions[b][x] = {}
  BY <1>1 DEF UpsertInstalls
<1>2. CASE Mentions[b][x] # {}
  <2> DEFINE told == {k \in Mentions[b][x] : Events[b][k].os # NULL}
  <2>1. UpsertInstalls(b)[x].os = IF told = {} THEN KnownOs(x)
                                  ELSE Events[b][Greatest(told)].os
    BY <1>2 DEF UpsertInstalls, InstallRow
  <2>2. told # {} => Greatest(told) \in told
    <3>1. Events[b] \in Seq(Event)
      BY BatchAssumption
    <3>2. told \subseteq 0 .. Len(Events[b]) /\ Len(Events[b]) \in Nat
      BY <3>1 DEF Mentions
    <3> QED  BY <3>2, GreatestIsGreatest
  <2> QED  BY <2>1, <2>2 DEF KnownOs
<1> QED  BY <1>1, <1>2

(* Nothing known of a machine is lost in any step.                         *)
THEOREM KnowledgeIsKept == Spec => KnowledgeKept
<1> DEFINE Kept == \A x \in Install : installs[x] # NULL =>
          /\ installs'[x] # NULL
          /\ installs'[x].firstSeen <= installs[x].firstSeen
          /\ installs'[x].lastSeen >= installs[x].lastSeen
          /\ installs[x].os # NULL => installs'[x].os # NULL
<1>1. ASSUME TypeOK, [Next]_vars PROVE Kept
  <2>1. CASE UNCHANGED tables
    <3>1. \A x \in Install : installs[x] # NULL => installs[x] \in Machine
      BY <1>1 DEF TypeOK
    <3> QED  BY <2>1, <3>1, BoundAssumption DEF tables, Machine
  <2>2. ASSUME NEW b \in Batch, NEW s \in Slot, Handle(b, s), Body[b] = "otlp"
        PROVE  Kept
    <3> SUFFICES ASSUME NEW x \in Install, installs[x] # NULL
                 PROVE  /\ installs'[x] # NULL
                        /\ installs'[x].firstSeen <= installs[x].firstSeen
                        /\ installs'[x].lastSeen >= installs[x].lastSeen
                        /\ installs[x].os # NULL => installs'[x].os # NULL
      OBVIOUS
    <3>1. installs' = UpsertInstalls(b)
      BY <2>2 DEF Handle
    <3>2. installs[x] \in Machine /\ UpsertInstalls(b)[x] \in Machine
      BY <1>1, InstallType, WindowsWiden DEF TypeOK
    <3>3. UpsertInstalls(b)[x].lastSeen >= installs[x].lastSeen
      BY <1>1, <3>2, WindowsWiden, BoundAssumption DEF Machine
    <3> QED  BY <1>1, <3>1, <3>3, WindowsWiden, OsKept
  <2> QED  BY <1>1, <2>1, <2>2, TablesStep
<1>2. TypeOK /\ [Next]_vars => [Kept]_vars
  BY <1>1
<1> QED  BY <1>2, TypeCorrect, PTL DEF Spec, KnowledgeKept

-----------------------------------------------------------------------------
(* A batch all at once, and event by event.  After(b, n) is what the first *)
(* n events of b make of the tables, by the definitions that take them all *)
(* at once; the loop makes the same of each event after the ones before.   *)
Upto(S, n) == {k \in S : k <= n}
RequestAfter(b, i, n) ==
    IF requests[i] # NULL \/ Upto(Places[b][i], n) = {} THEN requests[i]
    ELSE RowOf(Sender[b], Events[b][Chosen(Upto(Places[b][i], n))])
Told(b, x, n) == {k \in Upto(Mentions[b][x], n) : Events[b][k].os # NULL}
Seen(b, x, n) == KnownSightings(x) \cup {SeenAt(Events[b][k]) : k \in Upto(Mentions[b][x], n)}
InstallAfter(b, x, n) ==
    IF Upto(Mentions[b][x], n) = {} THEN installs[x]
    ELSE [member    |-> Sender[b],
          os        |-> IF Told(b, x, n) = {} THEN KnownOs(x) ELSE Events[b][Greatest(Told(b, x, n))].os,
          firstSeen |-> Least(Seen(b, x, n)),
          lastSeen  |-> Greatest(Seen(b, x, n))]
After(b, n) == [requests |-> [i \in RowId |-> RequestAfter(b, i, n)],
                installs |-> [x \in Install |-> InstallAfter(b, x, n)]]

(* A seen-window is a window.                                              *)
Spans == \A x \in Install : installs[x] # NULL => installs[x].firstSeen <= installs[x].lastSeen

LEMMA SpansStep == TypeOK /\ Spans /\ [Next]_vars => Spans'
<1> SUFFICES ASSUME TypeOK, Spans, [Next]_vars,
                    NEW x \in Install, installs'[x] # NULL
             PROVE  installs'[x].firstSeen <= installs'[x].lastSeen
  BY DEF Spans
<1>1. CASE UNCHANGED tables
  BY <1>1 DEF tables, Spans
<1>2. ASSUME NEW b \in Batch, NEW s \in Slot, Handle(b, s), Body[b] = "otlp"
      PROVE  installs'[x].firstSeen <= installs'[x].lastSeen
  <2>1. installs' = UpsertInstalls(b)
    BY <1>2 DEF Handle
  <2>2. CASE Mentions[b][x] = {}
    BY <2>1, <2>2 DEF UpsertInstalls, Spans
  <2>3. CASE Mentions[b][x] # {}
    <3>1. installs'[x] = InstallRow(b, x)
      BY <2>1, <2>3 DEF UpsertInstalls
    <3>2. PICK k \in Mentions[b][x] : TRUE
      BY <2>3
    <3>3. SeenAt(Events[b][k]) \in Sightings(b, x)
      BY <3>2 DEF Sightings
    <3>4. SeenAt(Events[b][k]) \in 0 .. MaxClock /\ MaxClock \in Nat
      BY <3>3, SeenType, BoundAssumption
    <3> QED  BY <2>3, <3>1, <3>3, <3>4, InstallWindow
  <2> QED  BY <2>2, <2>3
<1> QED  BY <1>1, <1>2, TablesStep

(* One more element of a set.                                              *)
LEMMA LeastOfMore ==
    ASSUME NEW S, S \subseteq Nat, S # {}, NEW a \in Nat
    PROVE  Least(S \cup {a}) = IF a < Least(S) THEN a ELSE Least(S)
<1>1. Least(S) \in S /\ \A k \in S : Least(S) <= k
  BY LeastIsLeast
<1>2. Least(S \cup {a}) \in S \cup {a} /\ \A k \in S \cup {a} : Least(S \cup {a}) <= k
  <2>1. S \cup {a} \subseteq Nat /\ S \cup {a} # {}
    OBVIOUS
  <2> QED  BY <2>1, LeastIsLeast
<1> DEFINE l == Least(S)
           m == Least(S \cup {a})
<1>3. l \in Nat /\ m \in Nat /\ m <= a /\ m <= l /\ (m = a \/ l <= m)
  BY <1>1, <1>2
<1> HIDE DEF l, m
<1>4. m = IF a < l THEN a ELSE l
  BY <1>3
<1> QED  BY <1>4 DEF l, m

LEMMA GreatestOfMore ==
    ASSUME NEW n \in Nat, NEW S, S \subseteq 0 .. n, S # {}, NEW a \in 0 .. n
    PROVE  Greatest(S \cup {a}) = IF a > Greatest(S) THEN a ELSE Greatest(S)
<1>1. Greatest(S) \in S /\ \A k \in S : k <= Greatest(S)
  BY GreatestIsGreatest
<1>2. Greatest(S \cup {a}) \in S \cup {a} /\ \A k \in S \cup {a} : k <= Greatest(S \cup {a})
  <2>1. S \cup {a} \subseteq 0 .. n /\ S \cup {a} # {}
    OBVIOUS
  <2> QED  BY <2>1, GreatestIsGreatest
<1> DEFINE l == Greatest(S)
           m == Greatest(S \cup {a})
<1>3. l \in Nat /\ m \in Nat /\ a <= m /\ l <= m /\ (m = a \/ m <= l)
  <2>1. S \cup {a} \subseteq Nat
    OBVIOUS
  <2>2. l \in S /\ m \in S \cup {a}
    BY <1>1, <1>2
  <2>3. l <= m /\ a <= m
    BY <1>2, <2>2
  <2>4. m = a \/ m <= l
    BY <1>1, <2>2
  <2> HIDE DEF l, m
  <2> QED  BY <2>1, <2>2, <2>3, <2>4
<1> HIDE DEF l, m
<1>4. m = IF a > l THEN a ELSE l
  BY <1>3
<1> QED  BY <1>4 DEF l, m

LEMMA Single ==
    ASSUME NEW a \in Nat
    PROVE  Least({a}) = a /\ Greatest({a}) = a
BY DEF Least, Greatest

(* What is before place n, and n.                                          *)
LEMMA UptoNext ==
    ASSUME NEW S, S \subseteq Nat, NEW n \in Nat, n > 0
    PROVE  /\ n \in S => Upto(S, n) = Upto(S, n - 1) \cup {n}
           /\ n \notin S => Upto(S, n) = Upto(S, n - 1)
           /\ Upto(S, n - 1) \subseteq 0 .. (n - 1)
<1>1. \A k \in S : k <= n <=> k <= n - 1 \/ k = n
  OBVIOUS
<1>2. Upto(S, n - 1) \subseteq 0 .. (n - 1)
  <2> SUFFICES ASSUME NEW k \in Upto(S, n - 1) PROVE k \in 0 .. (n - 1)
    OBVIOUS
  <2>1. k \in Nat /\ k <= n - 1
    BY DEF Upto
  <2> QED  BY <2>1
<1>3. n \in S => Upto(S, n) = Upto(S, n - 1) \cup {n}
  BY <1>1 DEF Upto
<1>4. n \notin S => Upto(S, n) = Upto(S, n - 1)
  BY <1>1 DEF Upto
<1> QED  BY <1>2, <1>3, <1>4

LEMMA PlacesOfBatch ==
    ASSUME NEW b \in Batch
    PROVE  /\ Len(Events[b]) \in Nat /\ DOMAIN Events[b] = 1 .. Len(Events[b])
           /\ \A i \in RowId : Places[b][i] \subseteq 1 .. Len(Events[b])
           /\ \A x \in Install : Mentions[b][x] \subseteq 1 .. Len(Events[b])
<1>1. Events[b] \in Seq(Event)
  BY BatchAssumption
<1> QED  BY <1>1 DEF Places, Mentions

LEMMA AfterNone ==
    ASSUME TypeOK, NEW b \in Batch
    PROVE  After(b, 0) = [requests |-> requests, installs |-> installs]
<1>1. \A i \in RowId : Upto(Places[b][i], 0) = {}
  BY PlacesOfBatch DEF Upto
<1>2. \A x \in Install : Upto(Mentions[b][x], 0) = {}
  BY PlacesOfBatch DEF Upto
<1> QED  BY <1>1, <1>2 DEF After, RequestAfter, InstallAfter, TypeOK

LEMMA AfterAll ==
    ASSUME NEW b \in Batch
    PROVE  After(b, Len(Events[b])) = [requests |-> InsertRequests(b), installs |-> UpsertInstalls(b)]
<1> DEFINE n == Len(Events[b])
<1>1. \A i \in RowId : Upto(Places[b][i], n) = Places[b][i]
  BY PlacesOfBatch DEF Upto
<1>2. \A x \in Install : Upto(Mentions[b][x], n) = Mentions[b][x]
  BY PlacesOfBatch DEF Upto
<1>3. \A i \in RowId : RequestAfter(b, i, n) = InsertRequests(b)[i]
  BY <1>1 DEF RequestAfter, InsertRequests
<1>4. \A x \in Install : InstallAfter(b, x, n) = UpsertInstalls(b)[x]
  BY <1>2 DEF InstallAfter, UpsertInstalls, InstallRow, Told, Seen, Sightings
<1>5. InsertRequests(b) = [i \in RowId |-> InsertRequests(b)[i]]
  BY DEF InsertRequests
<1>6. UpsertInstalls(b) = [x \in Install |-> UpsertInstalls(b)[x]]
  BY DEF UpsertInstalls
<1> HIDE DEF n
<1> QED  BY <1>3, <1>4, <1>5, <1>6 DEF After, n

(* The next event's request: the first copy of an id counts.               *)
LEMMA RequestNext ==
    ASSUME TypeOK, NEW b \in Batch, NEW n \in 1 .. Len(Events[b]), NEW i \in RowId
    PROVE  RequestAfter(b, i, n) =
             LET e == Events[b][n] r == RequestAfter(b, i, n - 1)
             IN  IF Storable(e) /\ i = RequestRowId(e) /\ r = NULL THEN RowOf(Sender[b], e) ELSE r
<1> DEFINE e == Events[b][n]
           S == Places[b][i]
<1>1. n \in Nat /\ n > 0 /\ S \subseteq Nat /\ n \in DOMAIN Events[b]
  BY PlacesOfBatch
<1>2. n \in S <=> Storable(e) /\ i = RequestRowId(e)
  BY <1>1 DEF Places
<1>3. /\ n \in S => Upto(S, n) = Upto(S, n - 1) \cup {n}
      /\ n \notin S => Upto(S, n) = Upto(S, n - 1)
      /\ Upto(S, n - 1) \subseteq 0 .. (n - 1)
  BY <1>1, UptoNext
<1>4. CASE requests[i] # NULL
  BY <1>4 DEF RequestAfter
<1>5. CASE requests[i] = NULL /\ n \notin S
  BY <1>2, <1>3, <1>5 DEF RequestAfter
<1>6. CASE requests[i] = NULL /\ n \in S /\ Upto(S, n - 1) = {}
  <2>1. Upto(S, n) = {n} /\ Chosen({n}) = n
    BY <1>1, <1>3, <1>6, Single DEF Chosen
  <2>2. RequestAfter(b, i, n) = RowOf(Sender[b], e) /\ RequestAfter(b, i, n - 1) = NULL
    BY <1>6, <2>1 DEF RequestAfter
  <2> QED  BY <1>2, <1>6, <2>2
<1>7. CASE requests[i] = NULL /\ n \in S /\ Upto(S, n - 1) # {}
  <2> DEFINE k == Chosen(Upto(S, n - 1))
  <2>1. k \in Upto(S, n - 1) /\ k < n
    BY <1>1, <1>3, <1>7, LeastIsLeast DEF Chosen
  <2>2. Chosen(Upto(S, n)) = k
    BY <1>1, <1>3, <1>7, <2>1, LeastOfMore DEF Chosen
  <2>3. RequestAfter(b, i, n) = RowOf(Sender[b], Events[b][k]) /\ RequestAfter(b, i, n - 1) = RowOf(Sender[b], Events[b][k])
    BY <1>3, <1>7, <2>2 DEF RequestAfter
  <2>4. k \in DOMAIN Events[b]
    BY <2>1 DEF Upto, Places
  <2>5. RowOf(Sender[b], Events[b][k]) # NULL
    <3>1. RowOf(Sender[b], Events[b][k]) \in Row
      BY <2>4, RowType
    <3> QED  BY <3>1, BoundAssumption DEF Row
  <2> QED  BY <2>3, <2>5
<1> QED  BY <1>4, <1>5, <1>6, <1>7

(* The sightings and the fields told, up to a place.                       *)
LEMMA UptoTypes ==
    ASSUME TypeOK, NEW b \in Batch, NEW n \in 0 .. Len(Events[b]), NEW x \in Install
    PROVE  /\ Seen(b, x, n) \subseteq 0 .. MaxClock
           /\ Told(b, x, n) \subseteq 0 .. Len(Events[b])
           /\ \A k \in Told(b, x, n) : Events[b][k].os \in Os /\ k <= n
<1>1. \A k \in Mentions[b][x] : k \in DOMAIN Events[b] /\ Events[b][k] \in Event
  BY EventOfBatch DEF Mentions
<1>2. \A k \in Mentions[b][x] : SeenAt(Events[b][k]) \in Sightings(b, x)
  BY DEF Sightings
<1>3. Seen(b, x, n) \subseteq 0 .. MaxClock
  BY <1>2, SeenType DEF Seen, Upto
<1>4. Told(b, x, n) \subseteq 0 .. Len(Events[b])
  BY PlacesOfBatch DEF Told, Upto
<1>5. \A k \in Told(b, x, n) : Events[b][k].os \in Os /\ k <= n
  BY <1>1, EventAssumption DEF Told, Upto
<1> QED  BY <1>3, <1>4, <1>5

(* What the upsert finds: nothing, or the row of what came before.         *)
LEMMA InstallBefore ==
    ASSUME TypeOK, Spans, NEW b \in Batch, NEW n \in 0 .. Len(Events[b]), NEW x \in Install
    PROVE  LET r == InstallAfter(b, x, n)
           IN  \/ /\ r = NULL /\ Told(b, x, n) = {} /\ Seen(b, x, n) = {} /\ KnownOs(x) = NULL
               \/ /\ r # NULL /\ Seen(b, x, n) # {}
                  /\ r.os = IF Told(b, x, n) = {} THEN KnownOs(x) ELSE Events[b][Greatest(Told(b, x, n))].os
                  /\ r.firstSeen = Least(Seen(b, x, n)) /\ r.lastSeen = Greatest(Seen(b, x, n))
<1> DEFINE U == Upto(Mentions[b][x], n)
           r == InstallAfter(b, x, n)
<1>1. CASE U = {} /\ installs[x] = NULL
  BY <1>1 DEF InstallAfter, Told, Seen, KnownSightings, KnownOs
<1>2. CASE U = {} /\ installs[x] # NULL
  <2> DEFINE f == installs[x].firstSeen
             l == installs[x].lastSeen
  <2>1. r = installs[x] /\ Told(b, x, n) = {} /\ Seen(b, x, n) = {f, l}
    BY <1>2 DEF InstallAfter, Told, Seen, KnownSightings
  <2>2. f \in Nat /\ l \in Nat /\ f <= l
    BY <1>2, BoundAssumption DEF TypeOK, Machine, Spans
  <2> HIDE DEF f, l
  <2> DEFINE A == {f, l}
  <2>3. A # {} /\ A \subseteq Nat /\ A \subseteq 0 .. l
    BY <2>2
  <2>4. Least({f, l}) = f
    <3>1. Least(A) \in A /\ \A k \in A : Least(A) <= k
      <4> HIDE DEF A
      <4> QED  BY <2>3, LeastIsLeast
    <3> QED  BY <2>2, <3>1
  <2>5. Greatest({f, l}) = l
    <3>1. Greatest(A) \in A /\ \A k \in A : k <= Greatest(A)
      <4> HIDE DEF A
      <4> QED  BY <2>2, <2>3, GreatestIsGreatest
    <3> QED  BY <2>2, <3>1
  <2> QED  BY <1>2, <2>1, <2>4, <2>5 DEF f, l, KnownOs
<1>3. CASE U # {}
  <2> DEFINE T == Told(b, x, n)
             S == Seen(b, x, n)
             os == IF T = {} THEN KnownOs(x) ELSE Events[b][Greatest(T)].os
  <2>1. r = [member |-> Sender[b], os |-> os, firstSeen |-> Least(S), lastSeen |-> Greatest(S)]
    BY <1>3 DEF InstallAfter
  <2>2. S # {}
    <3>1. PICK k \in U : TRUE
      BY <1>3
    <3>2. SeenAt(Events[b][k]) \in S
      BY <3>1 DEF Seen
    <3> QED  BY <3>2
  <2>3. os \in Os \cup {NULL}
    <3>1. KnownOs(x) \in Os \cup {NULL}
      BY DEF KnownOs, TypeOK, Machine
    <3>2. T # {} => Greatest(T) \in T
      BY UptoTypes, PlacesOfBatch, GreatestIsGreatest
    <3> QED  BY <3>1, <3>2, UptoTypes
  <2>4. Least(S) \in 0 .. MaxClock /\ Greatest(S) \in 0 .. MaxClock
    <3>1. S \subseteq 0 .. MaxClock /\ S \subseteq Nat /\ MaxClock \in Nat
      BY UptoTypes, BoundAssumption
    <3> HIDE DEF S
    <3> QED  BY <2>2, <3>1, LeastIsLeast, GreatestIsGreatest
  <2> HIDE DEF T, S, os
  <2>5. r \in Machine /\ r # NULL
    BY <2>1, <2>3, <2>4, BatchAssumption, BoundAssumption DEF Machine
  <2> QED  BY <2>1, <2>2, <2>5 DEF T, S, os
<1> QED  BY <1>1, <1>2, <1>3

(* The next event's install: the seen-window widens, and the last field    *)
(* that is not missing stands.                                             *)
LEMMA InstallNext ==
    ASSUME TypeOK, Spans, NEW b \in Batch, NEW n \in 1 .. Len(Events[b]), NEW x \in Install
    PROVE  InstallAfter(b, x, n) =
             LET e == Events[b][n] r == InstallAfter(b, x, n - 1)
             IN  IF e.install = x THEN Upserted(Sender[b], r, e) ELSE r
<1> DEFINE e == Events[b][n]
           M == Mentions[b][x]
           r == InstallAfter(b, x, n - 1)
           at == SeenAt(e)
           T == Told(b, x, n - 1)
           S == Seen(b, x, n - 1)
<1>1. n \in Nat /\ n > 0 /\ M \subseteq Nat /\ n \in DOMAIN Events[b] /\ n - 1 \in 0 .. Len(Events[b])
  BY PlacesOfBatch
<1>2. n \in M <=> e.install = x
  BY <1>1 DEF Mentions
<1>3. /\ n \in M => Upto(M, n) = Upto(M, n - 1) \cup {n}
      /\ n \notin M => Upto(M, n) = Upto(M, n - 1)
  BY <1>1, UptoNext
<1>4. CASE n \notin M
  BY <1>2, <1>3, <1>4 DEF InstallAfter, Told, Seen
<1>5. CASE n \in M
  <2>1. Upto(M, n) # {} /\ Seen(b, x, n) = S \cup {at}
    BY <1>3, <1>5 DEF Seen
  <2>2. Told(b, x, n) = IF e.os = NULL THEN T ELSE T \cup {n}
    BY <1>3, <1>5 DEF Told
  <2>3. at \in 0 .. MaxClock /\ MaxClock \in Nat /\ S \subseteq 0 .. MaxClock /\ S \subseteq Nat
    <3>1. at \in Sightings(b, x)
      BY <1>5 DEF Sightings
    <3>2. Sightings(b, x) \subseteq 0 .. MaxClock
      BY SeenType
    <3>3. S \subseteq 0 .. MaxClock
      BY <1>1, UptoTypes
    <3>4. MaxClock \in Nat
      BY BoundAssumption
    <3>5. 0 .. MaxClock \subseteq Nat
      OBVIOUS
    <3> HIDE DEF S, at
    <3> QED  BY <3>1, <3>2, <3>3, <3>4, <3>5
  <2>4. T \cup {n} \subseteq 0 .. n /\ T \subseteq 0 .. n
    BY <1>1, UptoTypes
  <2>5. Greatest(T \cup {n}) = n
    <3>1. \A k \in T \cup {n} : k <= n
      BY <1>1, <2>4
    <3>2. Greatest(T \cup {n}) \in T \cup {n} /\ \A k \in T \cup {n} : k <= Greatest(T \cup {n})
      BY <1>1, <2>4, GreatestIsGreatest
    <3>3. T \cup {n} \subseteq Nat /\ n \in T \cup {n}
      BY <1>1, <2>4
    <3> DEFINE g == Greatest(T \cup {n})
    <3>4. g \in T \cup {n} /\ n <= g
      BY <3>2, <3>3
    <3> HIDE DEF T, g
    <3>5. g \in Nat /\ g <= n
      BY <3>1, <3>3, <3>4
    <3>6. g = n
      BY <1>1, <3>4, <3>5
    <3> QED  BY <3>6 DEF g
  <2>6. InstallAfter(b, x, n) =
           [member |-> Sender[b],
            os |-> IF e.os # NULL THEN e.os ELSE IF T = {} THEN KnownOs(x) ELSE Events[b][Greatest(T)].os,
            firstSeen |-> Least(S \cup {at}), lastSeen |-> Greatest(S \cup {at})]
    <3>1. InstallAfter(b, x, n) =
             [member |-> Sender[b],
              os |-> IF Told(b, x, n) = {} THEN KnownOs(x) ELSE Events[b][Greatest(Told(b, x, n))].os,
              firstSeen |-> Least(Seen(b, x, n)), lastSeen |-> Greatest(Seen(b, x, n))]
      BY <2>1 DEF InstallAfter
    <3>2. (IF Told(b, x, n) = {} THEN KnownOs(x) ELSE Events[b][Greatest(Told(b, x, n))].os)
             = IF e.os # NULL THEN e.os ELSE IF T = {} THEN KnownOs(x) ELSE Events[b][Greatest(T)].os
      <4>1. CASE e.os = NULL
        BY <2>2, <4>1
      <4>2. CASE e.os # NULL
        BY <2>2, <2>5, <4>2
      <4> QED  BY <4>1, <4>2
    <3> QED  BY <2>1, <3>1, <3>2
  <2>7. CASE r = NULL
    <3>1. T = {} /\ S = {} /\ KnownOs(x) = NULL
      BY <1>1, <2>7, InstallBefore
    <3>2. Least(S \cup {at}) = at /\ Greatest(S \cup {at}) = at
      <4>1. S \cup {at} = {at} /\ at \in Nat
        BY <2>3, <3>1
      <4> HIDE DEF S, at
      <4> QED  BY <4>1, Single
    <3> QED  BY <1>2, <1>5, <2>6, <2>7, <3>1, <3>2 DEF Upserted
  <2>8. CASE r # NULL
    <3>1. /\ S # {} /\ r.firstSeen = Least(S) /\ r.lastSeen = Greatest(S)
          /\ r.os = IF T = {} THEN KnownOs(x) ELSE Events[b][Greatest(T)].os
      BY <1>1, <2>8, InstallBefore
    <3>2. Least(S \cup {at}) = IF at < r.firstSeen THEN at ELSE r.firstSeen
      <4>1. at \in Nat
        BY <2>3
      <4> HIDE DEF S, at
      <4> QED  BY <2>3, <3>1, <4>1, LeastOfMore
    <3>3. Greatest(S \cup {at}) = IF at > r.lastSeen THEN at ELSE r.lastSeen
      <4> HIDE DEF S, at
      <4> QED  BY <2>3, <3>1, GreatestOfMore
    <3>4. Upserted(Sender[b], r, e) =
             [member |-> Sender[b], os |-> IF e.os = NULL THEN r.os ELSE e.os,
              firstSeen |-> IF at < r.firstSeen THEN at ELSE r.firstSeen,
              lastSeen |-> IF at > r.lastSeen THEN at ELSE r.lastSeen]
      BY <2>8 DEF Upserted
    <3>5. (IF e.os # NULL THEN e.os ELSE IF T = {} THEN KnownOs(x) ELSE Events[b][Greatest(T)].os)
             = IF e.os = NULL THEN r.os ELSE e.os
      BY <3>1
    <3> QED  BY <1>2, <1>5, <2>6, <3>2, <3>3, <3>4, <3>5
  <2> QED  BY <2>7, <2>8
<1> QED  BY <1>4, <1>5

LEMMA AfterNext ==
    ASSUME TypeOK, Spans, NEW b \in Batch, NEW n \in 1 .. Len(Events[b])
    PROVE  After(b, n) = WriteEvent(Sender[b], After(b, n - 1), Events[b][n])
<1> DEFINE e == Events[b][n]
<1>1. \A i \in RowId : After(b, n - 1).requests[i] = RequestAfter(b, i, n - 1)
  BY DEF After
<1>2. \A x \in Install : After(b, n - 1).installs[x] = InstallAfter(b, x, n - 1)
  BY DEF After
<1>3. \A i \in RowId : RequestAfter(b, i, n) =
         IF Storable(e) /\ i = RequestRowId(e) /\ RequestAfter(b, i, n - 1) = NULL
           THEN RowOf(Sender[b], e) ELSE RequestAfter(b, i, n - 1)
  BY RequestNext
<1>4. \A x \in Install : InstallAfter(b, x, n) =
         IF e.install = x THEN Upserted(Sender[b], InstallAfter(b, x, n - 1), e)
           ELSE InstallAfter(b, x, n - 1)
  BY InstallNext
<1> HIDE DEF e
<1>5. After(b, n) = [requests |-> [i \in RowId |-> RequestAfter(b, i, n)],
                     installs |-> [x \in Install |-> InstallAfter(b, x, n)]]
  BY DEF After
<1>6. WriteEvent(Sender[b], After(b, n - 1), e) =
         [requests |-> [i \in RowId |-> IF Storable(e) /\ i = RequestRowId(e) /\ RequestAfter(b, i, n - 1) = NULL
                                           THEN RowOf(Sender[b], e) ELSE RequestAfter(b, i, n - 1)],
          installs |-> [x \in Install |-> IF e.install = x THEN Upserted(Sender[b], InstallAfter(b, x, n - 1), e)
                                           ELSE InstallAfter(b, x, n - 1)]]
  BY <1>1, <1>2 DEF WriteEvent
<1> QED  BY <1>3, <1>4, <1>5, <1>6 DEF e

(* The loop is what makes of every event what it should make of it: there  *)
(* is such a function, After, and by the least place at which another one  *)
(* would differ there is no other.                                         *)
LEMMA LoopIsAfter ==
    ASSUME TypeOK, Spans, NEW b \in Batch
    PROVE  \A n \in 0 .. Len(Events[b]) : WriteBatch(b)[n] = After(b, n)
<1> DEFINE N == 0 .. Len(Events[b])
           Next_(f, n) == IF n = 0 THEN [requests |-> requests, installs |-> installs]
                          ELSE WriteEvent(Sender[b], f[n - 1], Events[b][n])
           Is(f) == f = [n \in N |-> Next_(f, n)]
           a == [n \in N |-> After(b, n)]
<1>1. \A n \in N : n = 0 \/ (n \in 1 .. Len(Events[b]) /\ n - 1 \in N)
  BY PlacesOfBatch
<1>2. Is(a)
  <2>1. \A n \in N : a[n] = Next_(a, n)
    <3> SUFFICES ASSUME NEW n \in N PROVE a[n] = Next_(a, n)
      OBVIOUS
    <3>1. CASE n = 0
      BY <3>1, AfterNone
    <3>2. CASE n # 0
      <4>1. n \in 1 .. Len(Events[b]) /\ n - 1 \in N
        BY <1>1, <3>2
      <4>2. a[n] = After(b, n) /\ a[n - 1] = After(b, n - 1)
        BY <4>1
      <4> QED  BY <3>2, <4>1, <4>2, AfterNext
    <3> QED  BY <3>1, <3>2
  <2>2. a = [n \in N |-> a[n]]
    OBVIOUS
  <2> HIDE DEF a, N, Next_
  <2> QED  BY <2>1, <2>2
<1>3. WriteBatch(b) = CHOOSE f : Is(f)
  BY DEF WriteBatch
<1>4. Is(WriteBatch(b))
  <2> HIDE DEF Is, a
  <2>1. Is(CHOOSE f : Is(f))
    BY <1>2
  <2> QED  BY <1>3, <2>1
<1> DEFINE w == WriteBatch(b)
           Differ == {n \in N : w[n] # a[n]}
<1>5. Differ = {}
  <2> SUFFICES ASSUME Differ # {} PROVE FALSE
    OBVIOUS
  <2>1. Differ \subseteq Nat
    BY PlacesOfBatch
  <2>2. PICK n \in Differ : \A k \in Differ : n <= k
    <3> HIDE DEF Differ
    <3> QED  BY <2>1, NatHasLeast
  <2>3. w[n] = Next_(w, n) /\ a[n] = Next_(a, n) /\ n \in N
    <3> HIDE DEF Next_, a, w
    <3> QED  BY <1>2, <1>4 DEF w
  <2>4. n # 0
    BY <2>2, <2>3
  <2>5. n - 1 \in N /\ n - 1 \notin Differ
    <3>1. n \in Nat /\ ~(n <= n - 1)
      BY <2>1, <2>2
    <3> HIDE DEF Differ
    <3> QED  BY <1>1, <2>2, <2>3, <2>4, <3>1
  <2>6. w[n - 1] = a[n - 1]
    <3> HIDE DEF N, w, a
    <3> QED  BY <2>5
  <2> HIDE DEF N, w, a
  <2> QED  BY <2>2, <2>3, <2>4, <2>6
<1> QED  BY <1>5

(* The effect of a batch on the tables, which the model states all at      *)
(* once, is that of the loop of ingestEvents over its events.              *)
THEOREM BatchesAreLoops == Spec => []BatchIsTheLoop
<1>1. TypeOK /\ Spans => BatchIsTheLoop
  <2> SUFFICES ASSUME TypeOK, Spans, NEW b \in Batch
               PROVE  WriteBatch(b)[Len(Events[b])]
                         = [requests |-> InsertRequests(b), installs |-> UpsertInstalls(b)]
    BY DEF BatchIsTheLoop
  <2>1. Len(Events[b]) \in 0 .. Len(Events[b])
    BY PlacesOfBatch
  <2> QED  BY <2>1, LoopIsAfter, AfterAll
<1>2. Init => Spans
  BY DEF Init, Spans
<1> QED  BY <1>1, <1>2, SpansStep, TypeCorrect, PTL DEF Spec

-----------------------------------------------------------------------------
(* Ingest implements Ledger: each step is a step of it or leaves it alone. *)
LEMMA LedgerInit == Init => Ledger!Init
BY DEF Init, Ledger!Init, Delivery

LEMMA LedgerStep == TypeOK /\ [Next]_vars => [Ledger!Next]_(Ledger!vars)
<1> SUFFICES ASSUME TypeOK, [Next]_vars PROVE Ledger!Next \/ UNCHANGED Ledger!vars
  OBVIOUS
<1> USE DEF Ledger!vars, tables, client, TypeOK, Delivery
<1>1. ASSUME NEW b \in Batch, NEW s \in Slot,
             Export(b, s) \/ Receive(b, s) \/ Lose(b, s)
      PROVE  UNCHANGED Ledger!vars
  BY <1>1 DEF Export, Receive, Lose, Answered
<1>2. ASSUME NEW b \in Batch, NEW s \in Slot, Authenticate(b, s)
      PROVE  Ledger!Next \/ UNCHANGED Ledger!vars
  <2>1. CASE revokedAt[Sender[b]] # NULL \/ Body[b] = "protobuf"
    BY <1>2, <2>1 DEF Authenticate, RequireMember, AuthenticateMemberToken
  <2>2. CASE ~(revokedAt[Sender[b]] # NULL \/ Body[b] = "protobuf")
    <3>1. Ledger!Admit(<<b, s>>)
      BY <1>2, <2>2 DEF Authenticate, RequireMember, AuthenticateMemberToken, Ledger!Admit
    <3> QED  BY <3>1 DEF Ledger!Next
  <2> QED  BY <2>1, <2>2
<1>3. ASSUME NEW b \in Batch, NEW s \in Slot, Handle(b, s)
      PROVE  Ledger!Next
  <2>1. CASE Body[b] = "otlp"
    <3> DEFINE S == {i \in RowId : Places[b][i] # {}}
    <3>1. S \in SUBSET RowId
      OBVIOUS
    <3>2. \A i \in RowId : (IF requests'[i] = NULL THEN NULL ELSE requests'[i].member) =
                 IF i \in S /\ (IF requests[i] = NULL THEN NULL ELSE requests[i].member) = NULL
                   THEN Sender[b]
                   ELSE IF requests[i] = NULL THEN NULL ELSE requests[i].member
      <4> TAKE i \in RowId
      <4>1. requests' = InsertRequests(b)
        BY <1>3, <2>1 DEF Handle
      <4>2. requests[i] # NULL => requests[i].member # NULL
        BY BoundAssumption DEF Row
      <4> QED  BY <4>1, <4>2, NewRow, BatchAssumption DEF InsertRequests, RowOf
    <3>3. Ledger!Record(<<b, s>>, S)
      BY <1>3, <2>1, <3>2 DEF Handle, Ledger!Record
    <3> QED  BY <3>1, <3>3 DEF Ledger!Next
  <2>2. CASE Body[b] # "otlp"
    <3>1. Ledger!Abandon({<<b, s>>})
      BY <1>3, <2>2 DEF Handle, Ledger!Abandon
    <3> QED  BY <3>1 DEF Ledger!Next
  <2> QED  BY <2>1, <2>2
<1>4. ASSUME NEW b \in Batch, NEW s \in Slot, StoreFails(b, s)
      PROVE  Ledger!Next
  <2>1. Ledger!Abandon({<<b, s>>})
    BY <1>4 DEF StoreFails, FailureAnswer, Ledger!Abandon
  <2> QED  BY <2>1 DEF Ledger!Next
<1>5. ASSUME Crash PROVE Ledger!Next
  <2>1. Ledger!Abandon(Delivery)
    BY <1>5 DEF Crash, Ledger!Abandon
  <2> QED  BY <2>1 DEF Ledger!Next
<1>6. ASSUME NEW m \in Member, RevokeMember(m)
      PROVE  Ledger!Next
  <2>1. clock # NULL
    BY BoundAssumption
  <2>2. Ledger!Retire(m)
    BY <1>6, <2>1 DEF RevokeMember, Ledger!Retire
  <2> QED  BY <2>2 DEF Ledger!Next
<1>7. ASSUME (\E b \in Batch : TimeOut(b)) \/ Tick \/ UNCHANGED vars
      PROVE  UNCHANGED Ledger!vars
  BY <1>7 DEF TimeOut, Tick, vars
<1> QED  BY <1>1, <1>2, <1>3, <1>4, <1>5, <1>6, <1>7 DEF Next

(* Through redelivery, reordering, losses, crashes and revocation, Ingest  *)
(* counts each request once, and for a member whose token was good.        *)
THEOREM ImplementsLedger == Spec => CountsOnce
BY LedgerInit, LedgerStep, TypeCorrect, PTL DEF Spec, CountsOnce, Ledger!Spec

-----------------------------------------------------------------------------
(* The promise itself, of whatever keeps it.                               *)
CONSTANTS Id, Ticket, Holder
VARIABLES counted, retired, admitted
Promise == INSTANCE Ledger

(* A request once counted stays counted, for the member it was counted for *)
(* (INSERT OR IGNORE: no delivery replaces a row).                         *)
THEOREM CountedForGood == Promise!Spec => [][Promise!AppendOnly]_(Promise!vars)
<1>1. [Promise!Next]_(Promise!vars) => [Promise!AppendOnly]_(Promise!vars)
  BY DEF Promise!Next, Promise!vars, Promise!AppendOnly, Promise!Admit, Promise!Record, Promise!Abandon, Promise!Retire
<1> QED  BY <1>1, PTL DEF Promise!Spec

(* Nothing is counted for a member unless a ticket that member's token     *)
(* admitted is still open (requireMember runs before the handler).         *)
THEOREM CountedOnTicket == Promise!Spec => [][Promise!Fenced]_(Promise!vars)
<1>1. [Promise!Next]_(Promise!vars) => [Promise!Fenced]_(Promise!vars)
  BY DEF Promise!Next, Promise!vars, Promise!Fenced, Promise!Admit, Promise!Record, Promise!Abandon, Promise!Retire
<1> QED  BY <1>1, PTL DEF Promise!Spec

-----------------------------------------------------------------------------
(***************************************************************************)
(* The parser: what is read from an array of attributes.                   *)
(***************************************************************************)
CONSTANTS Empty, JsonText, ApiRequest, DroppedKeys, NanosPerMilli, MaxSafe, BodyLimit,
          MaxInflation, ProtobufTypes, NumberIn(_), DateIn(_), Rendered(_)
Parser == INSTANCE Otlp

(* The usable among the first n entries, their keys, the last of each, and *)
(* what they make of what was there.                                       *)
UsableTo(items, n) == {i \in Parser!Usable(items) : i <= n}
EntriesOf(items, n, k) == {i \in UsableTo(items, n) : Parser!KeyOf(items[i]) = k}
KeysTo(items, n) == {Parser!KeyOf(items[i]) : i \in UsableTo(items, n)}
KeptTo(items, n) == KeysTo(items, n) \ DroppedKeys
ValueAt(items, i) == Parser!AttributeValue(Parser!Field(items[i], "value"))
LastOf(items, n, k) == Parser!Standing(EntriesOf(items, n, k))
Written(items, target, n) ==
    [k \in DOMAIN target \cup KeptTo(items, n) |->
        IF k \in KeptTo(items, n) THEN ValueAt(items, LastOf(items, n, k)) ELSE target[k]]
AmissAt(raw) == IF raw # NULL /\ ~Parser!Is(raw, "arr") THEN 1 ELSE 0
Collected(raw, items, target, n) ==
    [attributes |-> Written(items, target, n), seen |-> KeysTo(items, n),
     issues |-> AmissAt(raw) + n - Cardinality(KeysTo(items, n))]

(* The entry just read stands for its key, whatever came before it.        *)
LEMMA LastIsLast ==
    ASSUME NEW S, NEW n \in Int, n \in S, \A i \in S : i \in Int /\ i <= n
    PROVE  Parser!Standing(S) = n
<1>1. Parser!Standing(S) = CHOOSE x \in S : \A y \in S : x >= y
  BY DEF Parser!Standing, Parser!Max
<1>2. \A y \in S : n >= y
  OBVIOUS
<1>3. \A x \in S : (\A y \in S : x >= y) => x = n
  OBVIOUS
<1> QED  BY <1>1, <1>2, <1>3

(* What an entry that cannot be used adds, and one that can.               *)
LEMMA UnusableAdds ==
    ASSUME NEW items, NEW n \in Nat, DOMAIN items \subseteq Int, n + 1 \notin Parser!Usable(items)
    PROVE  UsableTo(items, n + 1) = UsableTo(items, n)
<1>1. Parser!Usable(items) \subseteq Int
  BY DEF Parser!Usable
<1> QED  BY <1>1 DEF UsableTo

LEMMA UsableAdds ==
    ASSUME NEW items, NEW n \in Nat, DOMAIN items \subseteq Int, n + 1 \in Parser!Usable(items),
           NEW key, key = Parser!KeyOf(items[n + 1])
    PROVE  /\ UsableTo(items, n + 1) = UsableTo(items, n) \cup {n + 1}
           /\ KeysTo(items, n + 1) = KeysTo(items, n) \cup {key}
           /\ LastOf(items, n + 1, key) = n + 1
           /\ \A k : k # key => LastOf(items, n + 1, k) = LastOf(items, n, k)
<1>1. Parser!Usable(items) \subseteq Int
  BY DEF Parser!Usable
<1>2. UsableTo(items, n + 1) = UsableTo(items, n) \cup {n + 1}
  BY <1>1 DEF UsableTo
<1>3. KeysTo(items, n + 1) = KeysTo(items, n) \cup {key}
  BY <1>2 DEF KeysTo
<1>4. LastOf(items, n + 1, key) = n + 1
  <2>1. n + 1 \in EntriesOf(items, n + 1, key)
    BY <1>2 DEF EntriesOf
  <2>2. \A i \in EntriesOf(items, n + 1, key) : i \in Int /\ i <= n + 1
    BY <1>1 DEF EntriesOf, UsableTo
  <2> QED  BY <2>1, <2>2, LastIsLast DEF LastOf
<1>5. ASSUME NEW k, k # key PROVE LastOf(items, n + 1, k) = LastOf(items, n, k)
  <2>1. EntriesOf(items, n + 1, k) = EntriesOf(items, n, k)
    BY <1>2, <1>5 DEF EntriesOf
  <2> QED  BY <2>1 DEF LastOf
<1> QED  BY <1>2, <1>3, <1>4, <1>5

LEMMA KeysAreFew ==
    ASSUME NEW items, NEW n \in Nat, DOMAIN items \subseteq 1 .. n, NEW m \in 0 .. n
    PROVE  IsFiniteSet(KeysTo(items, m)) /\ Cardinality(KeysTo(items, m)) \in Nat
<1>1. UsableTo(items, m) \subseteq 1 .. n
  BY DEF UsableTo, Parser!Usable
<1>2. IsFiniteSet(UsableTo(items, m))
  <2>1. PICK U : U = UsableTo(items, m)
    OBVIOUS
  <2>2. IsFiniteSet(1 .. n)
    BY FS_Interval
  <2> QED  BY <1>1, <2>1, <2>2, FS_Subset
<1>3. PICK f : f = [i \in UsableTo(items, m) |-> Parser!KeyOf(items[i])]
  OBVIOUS
<1>4. KeysTo(items, m) = {f[i] : i \in UsableTo(items, m)}
  BY <1>3 DEF KeysTo
<1>5. IsFiniteSet(KeysTo(items, m))
  BY <1>2, <1>4, ImageIsFinite
<1> QED  BY <1>5, FS_CardinalityType

(* One entry more.                                                         *)
LEMMA EntryCollects ==
    ASSUME NEW raw, NEW items, NEW target, NEW len \in Nat, DOMAIN items = 1 .. len,
           NEW n \in Nat, n + 1 \in DOMAIN items
    PROVE  Collected(raw, items, target, n + 1)
               = Parser!SetAttribute(Collected(raw, items, target, n), items[n + 1])
<1>1. PICK s, entry, key, value, K :
          /\ s = Collected(raw, items, target, n) /\ entry = items[n + 1]
          /\ key = Parser!KeyOf(entry) /\ value = Parser!AttributeValue(Parser!Field(entry, "value"))
          /\ K = KeysTo(items, n)
  OBVIOUS
<1>2. n + 1 \in Parser!Usable(items) <=> Parser!Is(entry, "obj") /\ key # NULL /\ value # NULL
  BY <1>1 DEF Parser!Usable
<1>3. /\ s.attributes = Written(items, target, n) /\ s.seen = K
      /\ s.issues = AmissAt(raw) + n - Cardinality(K)
      /\ s = [attributes |-> s.attributes, seen |-> s.seen, issues |-> s.issues]
  BY <1>1 DEF Collected
<1>4. IsFiniteSet(K) /\ Cardinality(K) \in Nat /\ AmissAt(raw) \in Int
  <2>1. n \in 0 .. len
    OBVIOUS
  <2>2. DOMAIN items \subseteq 1 .. len
    OBVIOUS
  <2> QED  BY <1>1, <2>1, <2>2, KeysAreFew DEF AmissAt
<1>5. DOMAIN items \subseteq Int
  OBVIOUS
<1>6. CASE n + 1 \notin Parser!Usable(items)
  <2>1. UsableTo(items, n + 1) = UsableTo(items, n)
    BY <1>5, <1>6, UnusableAdds
  <2>2. KeysTo(items, n + 1) = K /\ \A k : LastOf(items, n + 1, k) = LastOf(items, n, k)
    BY <1>1, <2>1 DEF KeysTo, LastOf, EntriesOf
  <2>3. Written(items, target, n + 1) = s.attributes
    <3>1. KeptTo(items, n + 1) = KeptTo(items, n)
      BY <1>1, <2>2 DEF KeptTo
    <3>2. Written(items, target, n + 1) = Written(items, target, n)
      BY <2>2, <3>1 DEF Written
    <3> QED  BY <1>3, <3>2
  <2>4. Collected(raw, items, target, n + 1)
            = [attributes |-> s.attributes, seen |-> s.seen, issues |-> s.issues + 1]
    <3>1. AmissAt(raw) + (n + 1) - Cardinality(K) = s.issues + 1
      BY <1>3, <1>4
    <3> QED  BY <1>3, <2>2, <2>3, <3>1 DEF Collected
  <2>5. Parser!SetAttribute(s, entry) = [s EXCEPT !.issues = s.issues + 1]
    BY <1>2, <1>1, <1>6 DEF Parser!SetAttribute
  <2>6. [s EXCEPT !.issues = s.issues + 1] = [attributes |-> s.attributes, seen |-> s.seen, issues |-> s.issues + 1]
    BY <1>3
  <2> QED  BY <1>1, <2>4, <2>5, <2>6
<1>7. CASE n + 1 \in Parser!Usable(items)
  <2>1. /\ KeysTo(items, n + 1) = K \cup {key}
        /\ LastOf(items, n + 1, key) = n + 1
        /\ \A k : k # key => LastOf(items, n + 1, k) = LastOf(items, n, k)
    BY <1>1, <1>5, <1>7, UsableAdds
  <2>2. ValueAt(items, n + 1) = value
    BY <1>1 DEF ValueAt
  <2> DEFINE more == [k \in DOMAIN s.attributes \cup {key} |-> IF k = key THEN value ELSE s.attributes[k]]
             kept == IF key \in DroppedKeys THEN s.attributes ELSE more
             new == s.issues + (IF key \in s.seen THEN 1 ELSE 0)
  <2>3. Parser!SetAttribute(s, entry) = [attributes |-> kept, seen |-> s.seen \cup {key}, issues |-> new]
    BY <1>1, <1>7, <1>2 DEF Parser!SetAttribute
  <2>4. new = AmissAt(raw) + (n + 1) - Cardinality(K \cup {key})
    <3>1. CASE key \in K
      <4>1. PICK T : T = K \cup {key} /\ T = K
        BY <3>1
      <4>2. PICK a, c \in Int : a = AmissAt(raw) /\ c = Cardinality(K)
        BY <1>4
      <4>3. s.issues = a + n - c /\ new = s.issues + 1
        BY <1>3, <3>1, <4>2
      <4> HIDE DEF new, kept, more
      <4>4. Cardinality(K \cup {key}) = c
        BY <4>1, <4>2
      <4>5. new = a + (n + 1) - c
        BY <4>3
      <4> QED  BY <4>2, <4>4, <4>5
    <3>2. CASE key \notin K
      <4>1. Cardinality(K \cup {key}) = Cardinality(K) + 1
        BY <1>4, <3>2, FS_AddElement
      <4> QED  BY <1>3, <1>4, <3>2, <4>1
    <3> QED  BY <3>1, <3>2
  <2> HIDE DEF new
  <2>5. Written(items, target, n + 1) = kept
    <3>1. CASE key \in DroppedKeys
      <4>1. KeptTo(items, n + 1) = KeptTo(items, n)
        BY <1>1, <2>1, <3>1 DEF KeptTo
      <4>2. \A k \in KeptTo(items, n) : LastOf(items, n + 1, k) = LastOf(items, n, k)
        BY <1>1, <2>1, <3>1 DEF KeptTo
      <4> QED  BY <1>3, <3>1, <4>1, <4>2 DEF Written
    <3>2. CASE key \notin DroppedKeys
      <4>1. KeptTo(items, n + 1) = KeptTo(items, n) \cup {key}
        BY <1>1, <2>1, <3>2 DEF KeptTo
      <4>2. DOMAIN s.attributes = DOMAIN target \cup KeptTo(items, n)
        BY <1>3 DEF Written
      <4>3. ASSUME NEW k \in DOMAIN target \cup KeptTo(items, n + 1)
            PROVE  (IF k \in KeptTo(items, n + 1) THEN ValueAt(items, LastOf(items, n + 1, k)) ELSE target[k])
                       = IF k = key THEN value ELSE s.attributes[k]
        <5>1. CASE k = key
          BY <2>1, <2>2, <4>1, <5>1
        <5>2. CASE k # key
          <6>1. k \in KeptTo(items, n + 1) <=> k \in KeptTo(items, n)
            BY <4>1, <5>2
          <6>2. s.attributes[k] = IF k \in KeptTo(items, n) THEN ValueAt(items, LastOf(items, n, k)) ELSE target[k]
            BY <1>3, <4>3, <6>1 DEF Written
          <6> QED  BY <2>1, <5>2, <6>1, <6>2
        <5> QED  BY <5>1, <5>2
      <4>4. DOMAIN target \cup KeptTo(items, n + 1) = DOMAIN s.attributes \cup {key}
        BY <4>1, <4>2
      <4>5. Written(items, target, n + 1) = more
        BY <4>3, <4>4 DEF Written
      <4> QED  BY <3>2, <4>5
    <3> QED  BY <3>1, <3>2
  <2>6. Collected(raw, items, target, n + 1) = [attributes |-> kept, seen |-> K \cup {key}, issues |-> new]
    BY <2>1, <2>4, <2>5 DEF Collected
  <2> QED  BY <1>1, <1>3, <2>3, <2>6
<1> QED  BY <1>6, <1>7

(* However many entries there are and whatever is in them, the attributes  *)
(* are those that the loop of collectAttributes leaves, and so is the      *)
(* number of issues.                                                       *)
THEOREM CollectedAsTheLoop ==
    ASSUME NEW raw, Len(Parser!Items(raw)) \in Nat,
           DOMAIN Parser!Items(raw) = 1 .. Len(Parser!Items(raw)),
           NEW target, target = [k \in DOMAIN target |-> target[k]]
    PROVE  LET all  == Parser!CollectAttributes(raw, target)
               each == Parser!CollectOneByOne(raw, target)
           IN  all.attributes = each.attributes /\ all.issues = each.issues
<1>1. PICK items, len : items = Parser!Items(raw) /\ len = Len(items) /\ len \in Nat /\ DOMAIN items = 1 .. len
  OBVIOUS
<1>2. PICK first : first = [attributes |-> target, seen |-> {}, issues |-> AmissAt(raw)]
  OBVIOUS
<1> DEFINE Step(f, n) == IF n = 0 THEN first ELSE Parser!SetAttribute(f[n - 1], items[n])
           Loop(f) == f = [n \in 0 .. len |-> Step(f, n)]
           g == [n \in 0 .. len |-> Collected(raw, items, target, n)]
<1>3. Parser!CollectOneByOne(raw, target) = (CHOOSE f : Loop(f))[len]
  BY <1>1, <1>2 DEF Parser!CollectOneByOne, AmissAt
<1>4. Collected(raw, items, target, 0) = first
  <2>1. UsableTo(items, 0) = {}
    BY <1>1 DEF UsableTo, Parser!Usable
  <2>2. KeysTo(items, 0) = {} /\ KeptTo(items, 0) = {}
    BY <2>1 DEF KeysTo, KeptTo
  <2>3. Written(items, target, 0) = target
    BY <2>2 DEF Written
  <2>4. AmissAt(raw) + 0 - Cardinality({}) = AmissAt(raw)
    BY FS_EmptySet DEF AmissAt
  <2> QED  BY <1>2, <2>2, <2>3, <2>4 DEF Collected
<1>5. ASSUME NEW n \in 1 .. len
      PROVE  Collected(raw, items, target, n) = Parser!SetAttribute(Collected(raw, items, target, n - 1), items[n])
  <2>1. PICK m \in Nat : n = m + 1 /\ n - 1 = m
    OBVIOUS
  <2> QED  BY <1>1, <2>1, EntryCollects
<1>6. Loop(g)
  <2>1. ASSUME NEW n \in 0 .. len PROVE Collected(raw, items, target, n) = Step(g, n)
    <3>1. CASE n = 0
      BY <1>4, <3>1
    <3>2. CASE n # 0
      <4>1. n \in 1 .. len /\ n - 1 \in 0 .. len
        BY <1>1, <3>2
      <4>2. g[n - 1] = Collected(raw, items, target, n - 1)
        BY <4>1
      <4> QED  BY <1>5, <3>2, <4>1, <4>2
    <3> QED  BY <3>1, <3>2
  <2> QED  BY <2>1
<1>7. ASSUME NEW f, Loop(f) PROVE f[len] = g[len]
  <2> DEFINE C == {n \in Nat : n <= len => f[n] = g[n]}
  <2>1. \A n \in 0 .. len : f[n] = Step(f, n) /\ g[n] = Step(g, n)
    BY <1>6, <1>7
  <2> HIDE DEF g
  <2>2. 0 \in C
    <3>1. 0 \in 0 .. len
      BY <1>1
    <3> QED  BY <2>1, <3>1
  <2>3. ASSUME NEW n \in Nat, n \in C PROVE n + 1 \in C
    <3>1. CASE n + 1 <= len
      <4>1. n \in 0 .. len /\ n + 1 \in 0 .. len /\ n + 1 # 0 /\ (n + 1) - 1 = n /\ n <= len
        BY <1>1, <3>1
      <4>2. f[n] = g[n]
        BY <2>3, <4>1
      <4> QED  BY <2>1, <4>1, <4>2
    <3>2. CASE ~(n + 1 <= len)
      BY <3>2
    <3> QED  BY <3>1, <3>2
  <2> HIDE DEF C
  <2>4. len \in C
    BY <1>1, <2>2, <2>3, ByNumber
  <2> USE DEF C
  <2> QED  BY <1>1, <2>4
<1>8. Parser!CollectOneByOne(raw, target) = Collected(raw, items, target, len)
  <2>1. g[len] = Collected(raw, items, target, len)
    BY <1>1
  <2> HIDE DEF g
  <2>2. Loop(CHOOSE f : Loop(f))
    BY <1>6
  <2> HIDE DEF Loop
  <2> QED  BY <1>3, <1>7, <2>1, <2>2
<1>9. UsableTo(items, len) = Parser!Usable(items)
  BY <1>1 DEF UsableTo, Parser!Usable
<1>10. Parser!CollectAttributes(raw, target).attributes = Written(items, target, len)
  BY <1>1, <1>9 DEF Parser!CollectAttributes, Parser!Keys, Written, KeptTo, KeysTo, LastOf, EntriesOf, ValueAt
<1>11. Parser!CollectAttributes(raw, target).issues = AmissAt(raw) + len - Cardinality(KeysTo(items, len))
  <2>1. PICK K : K = KeysTo(items, len) /\ K = Parser!Keys(items)
    BY <1>9 DEF KeysTo, Parser!Keys
  <2>2. Parser!CollectAttributes(raw, target).issues = AmissAt(raw) + len - Cardinality(Parser!Keys(items))
    BY <1>1 DEF Parser!CollectAttributes, Parser!Cardinality, Cardinality, AmissAt
  <2> QED  BY <2>1, <2>2
<1> QED  BY <1>8, <1>10, <1>11 DEF Collected

(* The greatest of some places, wherever they are.                         *)
LEMMA StandingIs ==
    ASSUME NEW S, NEW n \in Nat, S \subseteq 1 .. n, S # {}
    PROVE  Parser!Standing(S) \in S /\ \A i \in S : i <= Parser!Standing(S)
<1> DEFINE D == {n - i : i \in S}
<1>1. D \subseteq Nat /\ D # {}
  <2>1. PICK i \in S : TRUE
    OBVIOUS
  <2>2. n - i \in D
    OBVIOUS
  <2>3. D \subseteq Nat
    OBVIOUS
  <2> QED  BY <2>2, <2>3
<1>2. PICK d \in D : \A e \in D : d <= e
  BY <1>1, NatHasLeast
<1>3. PICK g \in S : d = n - g
  BY <1>2
<1>4. ASSUME NEW i \in S PROVE g >= i
  <2>1. n - g <= n - i
    BY <1>2, <1>3
  <2> QED  BY <2>1
<1>5. Parser!Standing(S) = CHOOSE x \in S : \A y \in S : x >= y
  BY DEF Parser!Standing, Parser!Max
<1>6. Parser!Standing(S) \in S /\ \A i \in S : Parser!Standing(S) >= i
  BY <1>4, <1>5
<1> QED  BY <1>6

(* An entry that cannot be used takes nothing with it: without such        *)
(* entries, those that are left give the same attributes                   *)
(* (collectAttributes' continue).                                          *)
THEOREM UnusableTakesNothing ==
    ASSUME NEW raw, NEW clean, NEW target, NEW place, NEW len \in Nat, NEW left \in Nat,
           DOMAIN Parser!Items(raw) = 1 .. len, DOMAIN Parser!Items(clean) = 1 .. left,
           place \in [1 .. left -> Parser!Usable(Parser!Items(raw))],
           \A i \in Parser!Usable(Parser!Items(raw)) : \E j \in 1 .. left : place[j] = i,
           \A i, j \in 1 .. left : i < j => place[i] < place[j],
           \A j \in 1 .. left : Parser!Items(clean)[j] = Parser!Items(raw)[place[j]]
    PROVE  Parser!CollectAttributes(clean, target).attributes
               = Parser!CollectAttributes(raw, target).attributes
<1>1. PICK all, some : all = Parser!Items(raw) /\ some = Parser!Items(clean)
  OBVIOUS
<1> DEFINE Of(items, k) == {i \in Parser!Usable(items) : Parser!KeyOf(items[i]) = k}
           Value(items, k) == ValueAt(items, Parser!Standing(Of(items, k)))
           Kept(items) == Parser!Keys(items) \ DroppedKeys
<1>2. Parser!Usable(all) \subseteq 1 .. len
  BY <1>1 DEF Parser!Usable
<1>3. Parser!Usable(some) = 1 .. left
  <2>1. \A j \in 1 .. left : place[j] \in Parser!Usable(all) /\ some[j] = all[place[j]]
    BY <1>1
  <2> QED  BY <1>1, <2>1 DEF Parser!Usable
<1>4. Parser!Keys(some) = Parser!Keys(all)
  <2>1. \A items, x : x \in Parser!Keys(items) <=> \E i \in Parser!Usable(items) : x = Parser!KeyOf(items[i])
    BY DEF Parser!Keys
  <2>2. ASSUME NEW j \in 1 .. left
        PROVE  \E i \in Parser!Usable(all) : Parser!KeyOf(some[j]) = Parser!KeyOf(all[i])
    BY <1>1
  <2>3. ASSUME NEW i \in Parser!Usable(all)
        PROVE  \E j \in 1 .. left : Parser!KeyOf(some[j]) = Parser!KeyOf(all[i])
    BY <1>1
  <2>4. ASSUME NEW x \in Parser!Keys(some) PROVE x \in Parser!Keys(all)
    <3>1. PICK j \in 1 .. left : x = Parser!KeyOf(some[j])
      BY <1>3, <2>1
    <3> QED  BY <2>1, <2>2, <3>1
  <2>5. ASSUME NEW x \in Parser!Keys(all) PROVE x \in Parser!Keys(some)
    <3>1. PICK i \in Parser!Usable(all) : x = Parser!KeyOf(all[i])
      BY <2>1
    <3>2. PICK j \in 1 .. left : x = Parser!KeyOf(some[j])
      BY <2>3, <3>1
    <3> QED  BY <1>3, <2>1, <3>2
  <2> QED  BY <2>4, <2>5
<1>5. ASSUME NEW k \in Parser!Keys(all) PROVE Value(some, k) = Value(all, k)
  <2>1. PICK S, T : S = Of(some, k) /\ T = Of(all, k)
    OBVIOUS
  <2>2. S \subseteq 1 .. left /\ S # {}
    BY <1>3, <1>4, <1>5, <2>1 DEF Parser!Keys
  <2>3. T \subseteq 1 .. len /\ T # {}
    BY <1>2, <1>5, <2>1 DEF Parser!Keys
  <2>4. PICK s, t : s = Parser!Standing(S) /\ t = Parser!Standing(T)
    OBVIOUS
  <2>5. s \in S /\ \A j \in S : j <= s
    BY <2>2, <2>4, StandingIs
  <2>6. t \in T /\ \A i \in T : i <= t
    BY <2>3, <2>4, StandingIs
  <2>7. PICK j \in 1 .. left : place[j] = t
    BY <1>1, <2>1, <2>6
  <2>8. j \in S
    BY <1>1, <1>3, <2>1, <2>6, <2>7
  <2>9. place[s] \in T
    BY <1>1, <1>3, <2>1, <2>2, <2>5
  <2>10. j = s
    <3>1. j <= s /\ place[s] <= place[j] /\ s \in 1 .. left
      BY <2>2, <2>5, <2>6, <2>7, <2>8, <2>9
    <3>2. j < s => place[j] < place[s]
      BY <3>1
    <3>3. place[s] \in Int /\ place[j] \in Int
      <4>1. \A i \in T : i \in Int
        BY <2>3
      <4> QED  BY <2>6, <2>7, <2>9, <4>1
    <3> QED  BY <3>1, <3>2, <3>3
  <2>11. some[s] = all[t]
    BY <1>1, <2>7, <2>10
  <2> QED  BY <2>1, <2>4, <2>11 DEF ValueAt
<1>6. PICK K : K = Kept(all) /\ K = Kept(some)
  BY <1>4
<1>7. Parser!CollectAttributes(raw, target).attributes
          = [k \in DOMAIN target \cup K |-> IF k \in K THEN Value(all, k) ELSE target[k]]
  BY <1>1, <1>6 DEF Parser!CollectAttributes, ValueAt
<1>8. Parser!CollectAttributes(clean, target).attributes
          = [k \in DOMAIN target \cup K |-> IF k \in K THEN Value(some, k) ELSE target[k]]
  BY <1>1, <1>6 DEF Parser!CollectAttributes, ValueAt
<1>9. \A k \in K : Value(some, k) = Value(all, k)
  BY <1>5, <1>6
<1> HIDE DEF Value
<1> QED  BY <1>7, <1>8, <1>9
=============================================================================

------------------------------ MODULE Queries ------------------------------
(***************************************************************************)
(* The reads of /api: each answer is a few aggregates over the rows of     *)
(* `requests' in a half-open range, under a source filter (db/queries.ts,  *)
(* server/api.ts).                                                         *)
(*                                                                         *)
(* A row is [id, member, at, tokens, source, model, session, profile,      *)
(* host]; the token columns and the cost, summed alike, are its `tokens'.  *)
(***************************************************************************)
EXTENDS Integers, FiniteSets, FiniteSetsExt, SequencesExt, Functions

CONSTANTS
    NULL,
    Overhead,        \* OVERHEAD_QUERY_SOURCES
    SourceNone,      \* SOURCE_NONE, which asks for the rows without a source
    Placeholder,     \* the unattributed member
    Before(_, _),    \* the order of ids and names, which breaks ties
    SessionsLimit,   \* MEMBER_SESSIONS_LIMIT
    Hour, DayLong,   \* BUCKET_MS
    HourlyUnder,     \* HOURLY_UNDER_MS
    DefaultRange     \* DEFAULT_RANGE_MS

ASSUME QueriesAssumption ==
    /\ Hour \in Nat \ {0} /\ DayLong \in Nat \ {0} /\ HourlyUnder \in Nat /\ DefaultRange \in Nat
    /\ SessionsLimit \in Nat /\ NULL \notin Overhead

Passes(r, filter) ==
    /\ filter.group = "overhead" => r.source \in Overhead
    /\ filter.group = "work" => r.source \notin Overhead
    /\ filter.source # NULL => r.source = IF filter.source = SourceNone THEN NULL ELSE filter.source

\* mutant of Selected: BETWEEN, which takes the end in
SelectedToEnd(rows, q) ==
    {r \in rows : q.range.from <= r.at /\ r.at <= q.range.to /\ Passes(r, q.filter)}

Selected(rows, q) ==
    {r \in rows : q.range.from <= r.at /\ r.at < q.range.to /\ Passes(r, q.filter)}

Tokens(rows) == SumFunction([r \in rows |-> r.tokens])
Totals(rows) ==
    [tokens |-> Tokens(rows), requests |-> Cardinality(rows),
     sessions |-> Cardinality({r.session : r \in rows} \ {NULL})]

(* The members of S, first those that R, a set of pairs, puts before the   *)
(* others: the place of each is after all those before it.  The empty      *)
(* sequence makes TLC work the others out once.                            *)
InOrder(S, R) ==
    LET place == [x \in S |-> Cardinality({y \in S : <<y, x>> \in R}) + 1]
    IN  <<>> \o [i \in 1..Cardinality(S) |-> CHOOSE x \in S : place[x] = i]
(* The items of a sequence at some of its places, in their order.          *)
Kept(seq, places) ==
    LET at == InOrder(places, {p \in places \X places : p[1] < p[2]})
    IN  [i \in DOMAIN at |-> seq[at[i]]]

(* GROUP BY, heaviest first.                                               *)
Heavier(g, h) ==
    \/ g.totals.tokens > h.totals.tokens
    \/ g.totals.tokens = h.totals.tokens /\ Before(g.key, h.key)
Heaviest(groups) == InOrder(groups, {p \in groups \X groups : Heavier(p[1], p[2])})
GroupBy(rows, Key(_)) ==
    {[key |-> k, totals |-> Totals({r \in rows : Key(r) = k})] : k \in {Key(r) : r \in rows}}

(* A member with no rows is a row of the table too, unless revoked.        *)
MemberUsage(db, q) ==
    LET Own(m) == {r \in Selected(db.rows, q) : r.member = m}
        listed == {m \in DOMAIN db.revoked :
                     Own(m) # {} \/ (~db.revoked[m] /\ m # Placeholder)}
    IN  Heaviest({[key |-> m, totals |-> Totals(Own(m))] : m \in listed})

SourceUsage(db, range) ==
    GroupBy(Selected(db.rows, [range |-> range, filter |-> [group |-> "all", source |-> NULL]]),
            LAMBDA r : <<r.source, r.source \in Overhead>>)
ModelUsage(rows, q) == GroupBy(Selected(rows, q), LAMBDA r : r.model)
ProfileUsage(db, q) == GroupBy(Selected(db.rows, q), LAMBDA r : <<r.member, r.host, r.profile>>)

(* Every member but the placeholder, which is listed when it has rows.     *)
MemberList(db) ==
    {m \in DOMAIN db.revoked : m # Placeholder \/ \E r \in db.rows : r.member = m}

SessionUsage(db, m, q) ==
    LET all == Heaviest(GroupBy({r \in Selected(db.rows, q) : r.member = m}, LAMBDA r : r.session))
    IN  SubSeq(all, 1, IF Len(all) < SessionsLimit THEN Len(all) ELSE SessionsLimit)

(* Instants are shifted by the viewer's offset, divided and shifted back.  *)
BucketStart(t, width, offset) == ((t + offset) \div width) * width - offset
ResolveBucket(range) == IF range.to - range.from < HourlyUnder THEN Hour ELSE DayLong

(* A range may leave its ends out, and must not be empty.                  *)
ResolveRange(range, now) ==
    LET to   == IF range.to = NULL THEN now ELSE range.to
        from == IF range.from = NULL THEN to - DefaultRange ELSE range.from
    IN  IF from >= to THEN NULL ELSE [from |-> from, to |-> to]

-----------------------------------------------------------------------------
(* The bodies.                                                             *)
TimeseriesMembers(rows) == Heaviest(GroupBy(rows, LAMBDA r : r.member))
TimeseriesPoints(rows, width, offset) ==
    GroupBy(rows, LAMBDA r : <<BucketStart(r.at, width, offset), r.member>>)

Summary(db, q) ==
    [totals |-> Totals(Selected(db.rows, q)), members |-> MemberUsage(db, q),
     sources |-> SourceUsage(db, q.range)]

Timeseries(db, q) ==
    LET width == ResolveBucket(q.range)
        rows  == Selected(db.rows, q)
    IN  [range |-> q.range, width |-> width, offset |-> q.offset,
         members |-> TimeseriesMembers(rows), points |-> TimeseriesPoints(rows, width, q.offset)]

Models(db, q) ==
    [totals |-> Totals(Selected(db.rows, q)), models |-> Heaviest(ModelUsage(db.rows, q))]
Profiles(db, q) == [totals |-> Totals(Selected(db.rows, q)), profiles |-> ProfileUsage(db, q)]

(* One member: their row of the table, their sessions and their models.    *)
MemberDetail(db, q, m) ==
    LET table == MemberUsage(db, q)
        own   == {i \in DOMAIN table : table[i].key = m}
        usage == IF own = {} THEN Totals({}) ELSE table[CHOOSE i \in own : TRUE].totals
    IN  [totals |-> usage, sessions |-> SessionUsage(db, m, q), sessions_total |-> usage.sessions,
         models |-> ModelUsage({r \in db.rows : r.member = m}, q)]
=============================================================================

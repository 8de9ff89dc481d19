------------------------------- MODULE Charts -------------------------------
(***************************************************************************)
(* What the dashboard makes of the answers of /api before it draws them:   *)
(* the stacked chart, the trends and shares of the table, the bars of the  *)
(* models, the colours (web/src/lib).                                      *)
(***************************************************************************)
EXTENDS Queries

CONSTANTS
    Others,      \* OTHER_KEY, OTHER_MODEL_KEY
    MaxBands,    \* MAX_BANDS
    MaxBars,     \* MAX_BARS
    MaxGrid,     \* MAX_GRID_POINTS
    Scale,       \* the units a column of shares adds up to
    SlotCount,   \* SLOT_COUNT
    Hash(_)      \* hash32 of a member id

ASSUME ChartsAssumption ==
    /\ MaxBands \in Nat \ {0} /\ MaxBars \in Nat \ {0} /\ MaxGrid \in Nat
    /\ Scale \in Nat /\ SlotCount \in Nat \ {0}

\* mutant of BucketGrid: the grid begins where the range does
GridFromStart(range, width, offset) ==
    LET whole == (range.to - range.from + width - 1) \div width
    IN  [i \in 1 .. (IF whole < MaxGrid THEN whole ELSE MaxGrid) |-> range.from + (i - 1) * width]

BucketGrid(range, width, offset) ==
    LET first == BucketStart(range.from, width, offset)
        whole == (range.to - first + width - 1) \div width
    IN  [i \in 1 .. (IF whole < MaxGrid THEN whole ELSE MaxGrid) |-> first + (i - 1) * width]

(* The first by name, the tail folded into one.                            *)
Named(seq, most) == IF Len(seq) > most THEN SubSeq(seq, 1, most - 1) ELSE seq
Folded(seq, most) == SubSeq(seq, Len(Named(seq, most)) + 1, Len(seq))

Weight(groups) == SumFunction([g \in groups |-> g.totals.tokens])

Bands(ts) ==
    {g.key : g \in ToSet(Named(ts.members, MaxBands))}
        \cup (IF Folded(ts.members, MaxBands) = <<>> THEN {} ELSE {Others})
KeyOf(ts, m) == IF m \in Bands(ts) THEN m ELSE Others

(* buildSeries: a row per bucket, of the grid or of a point.  Tokens of a  *)
(* key that has no band are not drawn.                                     *)
SeriesRows(ts) ==
    LET buckets == ToSet(BucketGrid(ts.range, ts.width, ts.offset)) \cup {p.key[1] : p \in ts.points}
    IN  [b \in buckets |-> [k \in Bands(ts) |->
            Weight({p \in ts.points : p.key[1] = b /\ KeyOf(ts, p.key[2]) = k})]]
SeriesTotal(ts) ==
    LET rows == SeriesRows(ts) IN SumFunction([b \in DOMAIN rows |-> SumFunction(rows[b])])

(* memberTrends: by the position in the grid; other points are skipped.    *)
Trend(ts, m) ==
    LET grid == BucketGrid(ts.range, ts.width, ts.offset)
    IN  [i \in DOMAIN grid |-> Weight({p \in ts.points : p.key = <<grid[i], m>>})]

(* roundSharesPreservingTotal: every share is floored to a unit, and the   *)
(* units left go to those who lost most.                                   *)
Shares(table) ==
    LET total == Weight(ToSet(table))
        units == [i \in DOMAIN table |-> (Scale * table[i].totals.tokens) \div total]
        loss  == [i \in DOMAIN table |-> (Scale * table[i].totals.tokens) % total]
        owed  == Scale - SumFunction(units)
        Rank(i) == Cardinality({j \in DOMAIN table : loss[j] > loss[i] \/ (loss[j] = loss[i] /\ j < i)})
    IN  IF total = 0 THEN [i \in DOMAIN table |-> 0]
        ELSE [i \in DOMAIN table |-> units[i] + IF Rank(i) < owed THEN 1 ELSE 0]

(* assignSlots, over the members in the order they joined: the slot of the *)
(* hash or the next one not taken; a full palette starts over.             *)
FreeSlot(m, taken) ==
    CHOOSE s \in 0..SlotCount - 1 : \E step \in 0..SlotCount - 1 :
        /\ s = (Hash(m) + step) % SlotCount /\ s \notin taken
        /\ \A n \in 0..step - 1 : (Hash(m) + n) % SlotCount \in taken
AssignSlots(joined) ==
    LET taken[n \in 0..Len(joined)] ==
            IF n = 0 THEN {}
            ELSE LET all == taken[n - 1] \cup {FreeSlot(joined[n], taken[n - 1])}
                 IN  IF Cardinality(all) = SlotCount THEN {} ELSE all
    IN  [i \in DOMAIN joined |-> FreeSlot(joined[i], taken[i - 1])]

(* buildModelBars.                                                         *)
Bars(models) ==
    [i \in DOMAIN Named(models, MaxBars) |-> models[i].totals.tokens]
        \o (IF Folded(models, MaxBars) = <<>> THEN <<>>
            ELSE <<Weight(ToSet(Folded(models, MaxBars)))>>)

-----------------------------------------------------------------------------
Of(table, m) ==
    SumFunction([i \in DOMAIN table |-> IF table[i].key = m THEN table[i].totals.tokens ELSE 0])

(* One answer, whatever its range and filter: tiles, table, filter, bars   *)
(* and profiles add up to the same; the shares shown add up to 100 and are *)
(* each within a unit of what they stand for; a member's page agrees with  *)
(* the member's row.                                                       *)
TableAddsUp(db, q) ==
    LET s      == Summary(db, q)
        models == Models(db, q).models
        shares == Shares(s.members)
    IN  /\ Weight(ToSet(s.members)) = s.totals.tokens
        /\ q.filter.group = "all" /\ q.filter.source = NULL
             => Weight(s.sources) = s.totals.tokens
        /\ Weight(s.sources) >= s.totals.tokens
        /\ SumFunction(Bars(models)) = s.totals.tokens /\ Len(Bars(models)) <= MaxBars
        /\ Weight(Profiles(db, q).profiles) = s.totals.tokens
        /\ s.totals.tokens > 0 =>
              /\ SumFunction(shares) = Scale
              /\ \A i \in DOMAIN shares :
                    LET err == shares[i] * s.totals.tokens - Scale * s.members[i].totals.tokens
                    IN  -s.totals.tokens < err /\ err < s.totals.tokens
        /\ \A m \in DOMAIN db.revoked :
              LET d == MemberDetail(db, q, m)
              IN  d.totals.tokens = Of(s.members, m) /\ Weight(d.models) = d.totals.tokens

(* The chart: no token is lost between the points and the stack, neither   *)
(* by the fold nor at the edges of the grid; a trend adds up to its        *)
(* member, and the buckets of the range are all there.                     *)
ChartAddsUp(ts) ==
    /\ SeriesTotal(ts) = Weight(ts.points)
    /\ Cardinality(Bands(ts)) <= MaxBands
    /\ \A i \in DOMAIN ts.members :
          SumFunction(Trend(ts, ts.members[i].key)) = ts.members[i].totals.tokens
    /\ \A t \in ts.range.from .. ts.range.to - 1 :
          BucketStart(t, ts.width, ts.offset) \in DOMAIN SeriesRows(ts)
=============================================================================

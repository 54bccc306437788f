---------------------------- MODULE TimeSeries -----------------------------
(***************************************************************************)
(* The two diagnostics made from a data table                              *)
(* (src/src/engine/assets/diagnostics): the resampled time series, which   *)
(* divides an axis into buckets of one width, and the timeframe summary,   *)
(* which divides a range of frames.  Both can be viewed as a data table    *)
(* again.  Doubles are whole counts of 1/PerOne, the last decimal that     *)
(* std::to_string() prints, or not finite; frame numbers and numbers of    *)
(* buckets are words of the machine.                                       *)
(***************************************************************************)
EXTENDS TextTables

CONSTANT Word    \* 2^32 in the code: a uint32_t counts modulo Word

ASSUME WordAssumption == Word \in Nat \ {0}

WordAdd(a, b) == (a + b) % Word
CeilDiv(a, b) == (a + b - 1) \div b
Least(S) == CHOOSE x \in S : \A y \in S : x <= y
Greatest(S) == CHOOSE x \in S : \A y \in S : y <= x

-----------------------------------------------------------------------------
(* Doubles *)

Less(a, b) ==
    \/ a \in Int /\ b \in Int /\ a < b
    \/ a = NegInf /\ b \in Int \cup {PosInf}
    \/ a \in Int /\ b = PosInf
AtMost(a, b) == Less(a, b) \/ (a = b /\ a # NaN)

Plus(a, b) ==
    IF a \in Int /\ b \in Int THEN a + b
    ELSE IF NaN \in {a, b} \/ {PosInf, NegInf} = {a, b} THEN NaN
    ELSE IF PosInf \in {a, b} THEN PosInf ELSE NegInf
Minus(a, b) ==
    Plus(a, IF b \in Int THEN -b ELSE IF b = PosInf THEN NegInf ELSE IF b = NegInf THEN PosInf ELSE NaN)

\* std::ceil() and std::floor() of a quotient by a finite positive number.
Ceil(v, w) == IF v \in Int THEN CeilDiv(v, w) ELSE v
Floor(v, w) == IF v \in Int THEN v \div w ELSE v

\* Rounded to the nearest unit.
Mean(sum, n) == IF sum \in Int THEN (2 * sum + n) \div (2 * n) ELSE sum

\* static_cast<uint32_t>(double) is undefined when the number does not fit: the
\* instruction leaves the low word of a 64-bit conversion, or all ones.
Casts == {"lowWord", "allOnes"}
Cast(how, v) ==
    IF v \in 0..Word - 1 THEN v
    ELSE IF how = "allOnes" THEN Word - 1
    ELSE IF v \in Int THEN v % Word ELSE 0

-----------------------------------------------------------------------------
ColumnsFound(t, names) == \A i \in DOMAIN names : ColumnIndex(t, names[i]) # 0
Cell(t, r, name) == t.rows[r][ColumnIndex(t, name)]

-----------------------------------------------------------------------------
(* Accumulator: the statistics of one metric in one bucket *)

NoStats == [sample_count |-> 0, sum |-> 0, min |-> 0, max |-> 0, first |-> 0, last |-> 0,
            min_axis |-> 0, max_axis |-> 0, first_axis |-> 0, last_axis |-> 0,
            min_source_row |-> 0, max_source_row |-> 0,
            first_source_row |-> 0, last_source_row |-> 0]

AddSample(acc, value, axis, row) ==
    LET none == acc.sample_count = 0
        lower == none \/ Less(value, acc.min)
        higher == none \/ Less(acc.max, value)
        earlier == none \/ Less(axis, acc.first_axis)
        later == none \/ AtMost(acc.last_axis, axis)
    IN [sample_count |-> acc.sample_count + 1,
        sum |-> Plus(acc.sum, value),
        min |-> IF lower THEN value ELSE acc.min,
        max |-> IF higher THEN value ELSE acc.max,
        first |-> IF earlier THEN value ELSE acc.first,
        last |-> IF later THEN value ELSE acc.last,
        min_axis |-> IF lower THEN axis ELSE acc.min_axis,
        max_axis |-> IF higher THEN axis ELSE acc.max_axis,
        first_axis |-> IF earlier THEN axis ELSE acc.first_axis,
        last_axis |-> IF later THEN axis ELSE acc.last_axis,
        min_source_row |-> IF lower THEN row ELSE acc.min_source_row,
        max_source_row |-> IF higher THEN row ELSE acc.max_source_row,
        first_source_row |-> IF earlier THEN row ELSE acc.first_source_row,
        last_source_row |-> IF later THEN row ELSE acc.last_source_row]

\* The statistics of the rows of S, added in their order: value v and axis x of
\* each row.
SampleStats(S, v, x) ==
    MapThenFoldSet(LAMBDA r, acc : AddSample(acc, v[r], x[r], r - 1), NoStats, LAMBDA r : r, Max, S)

-----------------------------------------------------------------------------
(* resample_table() *)

DescAccepted(d) ==
    /\ d.axis # <<>> /\ d.metrics # <<>>
    /\ \A m \in DOMAIN d.metrics : d.metrics[m] # <<>>
    /\ d.width > 0
    /\ d.use_range => d.end > d.start

\* What becomes of a row.  A row outside the range is dropped before its
\* metrics are looked at, and is not counted as skipped.  NaN is not outside.
RowFate(t, d, r) ==
    IF Len(t.rows[r]) # Len(t.columns) \/ ~IsNumber(Cell(t, r, d.axis)) THEN "skipped"
    ELSE LET axis == NumberIn(Cell(t, r, d.axis)) IN
         IF d.use_range /\ (Less(axis, d.start) \/ Less(d.end, axis)) THEN "outside"
         ELSE IF \A m \in DOMAIN d.metrics : IsNumber(Cell(t, r, d.metrics[m])) THEN "observed"
         ELSE "skipped"

\* std::min() and std::max() over the observed rows: a NaN stays when it comes
\* first, and is passed over otherwise.
Extreme(S, x, Beyond(_, _)) ==
    LET known == {x[r] : r \in S} \ {NaN} IN
    IF x[Least(S)] = NaN THEN NaN ELSE CHOOSE v \in known : \A u \in known : ~Beyond(u, v)
Lowest(S, x) == Extreme(S, x, Less)
Highest(S, x) == Extreme(S, x, LAMBDA u, v : Less(v, u))

HowMany(how, range, width) ==
    LET count == Cast(how, Ceil(range, width)) IN IF count = 0 THEN 1 ELSE count

BucketPastEnd(how, axis, start, end, width, count) == Cast(how, Floor(Minus(axis, start), width))

\* The bucket of an axis value, counted from 0; the end of the range belongs
\* to the last bucket.
BucketOf(how, axis, start, end, width, count) ==
    LET b == Cast(how, Floor(Minus(axis, start), width)) IN
    IF (axis = end /\ axis # NaN) \/ b >= count THEN count - 1 ELSE b

NoSeries == [source_start |-> 0, source_end |-> 0, parsed |-> 0, skipped |-> 0, buckets |-> <<>>]

Resample(t, d, how) ==
    LET rows == DOMAIN t.rows
        seen == {r \in rows : RowFate(t, d, r) = "observed"}
        skipped == Cardinality({r \in rows : RowFate(t, d, r) = "skipped"})
        axis == [r \in seen |-> NumberIn(Cell(t, r, d.axis))]
        start == IF d.use_range THEN d.start ELSE Lowest(seen, axis)
        wanted == IF d.use_range THEN d.end ELSE Highest(seen, axis)
        end == IF AtMost(wanted, start) THEN Plus(start, d.width) ELSE wanted
        count == HowMany(how, Minus(end, start), d.width)
        members(b) == {r \in seen : /\ ~Less(axis[r], start) /\ ~Less(end, axis[r])
                                    /\ BucketOf(how, axis[r], start, end, d.width, count) = b}
        values(b, m) == [r \in members(b) |-> NumberIn(Cell(t, r, m))]
        bucket(b) == [start |-> Plus(start, b * d.width),
                      end |-> IF b + 1 = count THEN end ELSE Plus(start, (b + 1) * d.width),
                      source_row_count |-> Cardinality(members(b)),
                      metrics |-> [m \in DOMAIN d.metrics |->
                                     SampleStats(members(b), values(b, d.metrics[m]), axis)]]
    IN IF seen = {} THEN [NoSeries EXCEPT !.skipped = skipped]
       ELSE [source_start |-> start, source_end |-> end,
             parsed |-> Cardinality(seen), skipped |-> skipped,
             buckets |-> [i \in 1..count |-> bucket(i - 1)]]

CanResample(t, d) ==
    DescAccepted(d) /\ TableValid(t) /\ ColumnsFound(t, <<d.axis>> \o d.metrics)
SeriesValid(s) == \A i \in DOMAIN s.buckets : ~AtMost(s.buckets[i].end, s.buckets[i].start)

\* make_data_table(): one row per bucket.
Named(name) == <<name>>
MetricColumns(metrics, suffixes) ==
    FlattenSeq([m \in DOMAIN metrics |-> [i \in DOMAIN suffixes |-> Append(metrics[m], suffixes[i])]])

MeanOf(a) == IF a.sample_count = 0 THEN 0 ELSE Mean(a.sum, a.sample_count)

SeriesTable(s, d) ==
    [columns |-> <<Named("bucket_index"), Named("bucket_start"), Named("bucket_end"),
                   Named("source_row_count")>>
                 \o MetricColumns(d.metrics,
                      <<"_sample_count", "_min", "_max", "_mean", "_first", "_last",
                        "_min_axis", "_max_axis", "_first_axis", "_last_axis",
                        "_min_source_row", "_max_source_row",
                        "_first_source_row", "_last_source_row">>),
     rows |-> [i \in DOMAIN s.buckets |->
                 LET b == s.buckets[i] IN
                 <<Shown(i - 1), ShownReal(b.start), ShownReal(b.end), Shown(b.source_row_count)>>
                 \o FlattenSeq([m \in DOMAIN b.metrics |->
                      LET a == b.metrics[m] IN
                      <<Shown(a.sample_count), ShownReal(a.min), ShownReal(a.max), ShownReal(MeanOf(a)),
                        ShownReal(a.first), ShownReal(a.last),
                        ShownReal(a.min_axis), ShownReal(a.max_axis),
                        ShownReal(a.first_axis), ShownReal(a.last_axis),
                        Shown(a.min_source_row), Shown(a.max_source_row),
                        Shown(a.first_source_row), Shown(a.last_source_row)>>])]]

-----------------------------------------------------------------------------
(* summarize() *)

FrameDescAccepted(d) == d.frame # <<>> /\ d.metrics # <<>> /\ d.frame_end >= d.frame_start

CanSummarize(t, d) ==
    FrameDescAccepted(d) /\ TableValid(t) /\ ColumnsFound(t, <<d.frame>> \o d.metrics)

\* parse_frame_index() refuses what is negative and keeps the low word.
IsFrame(cell) == IsWhole(cell) /\ WholeIn(cell) >= 0
FrameIn(cell) == WholeIn(cell) % Word

BucketCount(d) ==
    LET range == d.frame_end - d.frame_start IN
    IF d.fpb = 0 \/ range = 0 THEN 1 ELSE CeilDiv(range, d.fpb)

FrameBucket(d, frame) ==
    IF d.fpb = 0 THEN 0
    ELSE LET b == (frame - d.frame_start) \div d.fpb IN
         IF b < BucketCount(d) THEN b ELSE BucketCount(d) - 1

FirstFrame(d, b) == IF d.fpb = 0 THEN d.frame_start ELSE WordAdd(d.frame_start, b * d.fpb)
LastFrame(d, b) ==
    IF d.fpb = 0 THEN d.frame_end
    ELSE LET last == WordAdd(FirstFrame(d, b), d.fpb - 1) IN
         IF last < d.frame_end THEN last ELSE d.frame_end

\* MetricAccumulator: the samples come in the order of the rows, whatever their
\* frame numbers.
AddValue(acc, value) == AddSample(acc, value, acc.sample_count + 1, 0)
ValueStats(S, v) ==
    MapThenFoldSet(LAMBDA r, acc : AddValue(acc, v[r]), NoStats, LAMBDA r : r, Max, S)

InFrames(t, d, r) ==
    /\ Len(t.rows[r]) = Len(t.columns)
    /\ IsFrame(Cell(t, r, d.frame))
    /\ FrameIn(Cell(t, r, d.frame)) \in d.frame_start..d.frame_end

\* A row whose metric is no number still counts as a row.
Summarize(t, d) ==
    LET used == {r \in DOMAIN t.rows : InFrames(t, d, r)}
        members(b) == {r \in used : FrameBucket(d, FrameIn(Cell(t, r, d.frame))) = b}
        samples(b, m) == {r \in members(b) : IsNumber(Cell(t, r, m))}
        values(b, m) == [r \in samples(b, m) |-> NumberIn(Cell(t, r, m))]
    IN [buckets |-> [i \in 1..BucketCount(d) |->
          [frame_start |-> FirstFrame(d, i - 1), frame_end |-> LastFrame(d, i - 1),
           row_count |-> Cardinality(members(i - 1)),
           metrics |-> [m \in DOMAIN d.metrics |->
                          ValueStats(samples(i - 1, d.metrics[m]), values(i - 1, d.metrics[m]))]]]]

SummaryTable(s, d) ==
    [columns |-> <<Named("bucket_index"), Named("frame_start"), Named("frame_end"), Named("row_count")>>
                 \o MetricColumns(d.metrics,
                      <<"_sample_count", "_min", "_max", "_mean", "_first", "_last", "_delta">>),
     rows |-> [i \in DOMAIN s.buckets |->
                 LET b == s.buckets[i] IN
                 <<Shown(i - 1), Shown(b.frame_start), Shown(b.frame_end), Shown(b.row_count)>>
                 \o FlattenSeq([m \in DOMAIN b.metrics |->
                      LET a == b.metrics[m] IN
                      <<Shown(a.sample_count), ShownShort(a.min), ShownShort(a.max),
                        ShownShort(MeanOf(a)), ShownShort(a.first), ShownShort(a.last),
                        ShownShort(Minus(a.last, a.first))>>])]]

-----------------------------------------------------------------------------
(* What the two promise, said without buckets being computed from rows or   *)
(* rows being visited in an order.                                          *)

\* The sum of the values v of the rows of S.
Total(S, v) == MapThenSumSet(LAMBDA r : v[r], S)

\* a holds the statistics of the rows of S: value v and axis x of each row.
StatsDescribe(a, S, v, x) ==
    /\ a.sample_count = Cardinality(S)
    /\ a.sum = Total(S, v)
    /\ S # {} =>
        /\ \A r \in S : v[r] \in a.min..a.max
        /\ {a.min, a.max} \subseteq {v[r] : r \in S}
        /\ LET early == {r \in S : \A q \in S : x[r] <= x[q]}
               late  == {r \in S : \A q \in S : x[q] <= x[r]}
           IN /\ a.first = v[Least(early)] /\ a.first_axis = x[Least(early)]
              /\ a.last = v[Greatest(late)] /\ a.last_axis = x[Greatest(late)]

\* The rows that the source rows of the statistics point at are those rows.
SourcesDescribe(a, S, v, x) ==
    S # {} =>
        /\ {a.min_source_row + 1, a.max_source_row + 1,
            a.first_source_row + 1, a.last_source_row + 1} \subseteq S
        /\ v[a.min_source_row + 1] = a.min /\ x[a.min_source_row + 1] = a.min_axis
        /\ v[a.max_source_row + 1] = a.max /\ x[a.max_source_row + 1] = a.max_axis
        /\ x[a.first_source_row + 1] = a.first_axis /\ x[a.last_source_row + 1] = a.last_axis

\* Every observed row is in one bucket.  When the range is finite and its
\* buckets can be counted, the rows of a bucket are those whose axis value it
\* covers, and the first or the last bucket has the rows without such a value
\* too; the statistics of a bucket whose numbers are finite are those of its
\* rows.
SeriesAccounts(t, d, s) ==
    LET usable(r, names) == \A i \in DOMAIN names : IsNumber(Cell(t, r, names[i]))
        dated == {r \in DOMAIN t.rows : usable(r, <<d.axis>>)}
        x == [r \in dated |-> NumberIn(Cell(t, r, d.axis))]
        outside == {r \in dated : d.use_range /\ (Less(x[r], d.start) \/ Less(d.end, x[r]))}
        observed == {r \in dated \ outside : usable(r, d.metrics)}
        placed == {r \in observed : x[r] # NaN}
        final == Len(s.buckets)
        covers(i) == {r \in placed : \/ AtMost(s.buckets[i].start, x[r]) /\ Less(x[r], s.buckets[i].end)
                                     \/ i = final /\ x[r] = s.source_end}
        members(i, stray) == covers(i) \cup (IF i = stray THEN observed \ placed ELSE {})
        finite == s.source_start \in Int /\ s.source_end \in Int
    IN /\ s.parsed = Cardinality(observed)
       /\ s.parsed + s.skipped + Cardinality(outside) = Len(t.rows)
       /\ Total(1..final, [i \in 1..final |-> s.buckets[i].source_row_count]) = s.parsed
       /\ \A i \in 1..final : \A m \in DOMAIN d.metrics :
             s.buckets[i].metrics[m].sample_count = s.buckets[i].source_row_count
       /\ observed # {} /\ finite =>
             /\ s.buckets[1].start = s.source_start /\ s.buckets[final].end = s.source_end
             /\ \A i \in 1..final - 1 : s.buckets[i].end = s.buckets[i + 1].start
       /\ observed # {} /\ finite /\ CeilDiv(s.source_end - s.source_start, d.width) < Word =>
             /\ \A r \in placed : \E i \in 1..final : r \in covers(i)
             /\ \E stray \in {1, final} : \A i \in 1..final :
                 /\ s.buckets[i].source_row_count = Cardinality(members(i, stray))
                 /\ \A m \in DOMAIN d.metrics :
                     LET S == members(i, stray)
                         v == [r \in S |-> NumberIn(Cell(t, r, d.metrics[m]))]
                         a == s.buckets[i].metrics[m]
                     IN (\A r \in S : v[r] \in Int /\ x[r] \in Int)
                        => StatsDescribe(a, S, v, x) /\ SourcesDescribe(a, S, v, x)

\* The last bucket also takes the rows of frame_end, which its own label leaves
\* out when the width divides the range.
SummaryAccounts(t, d, s) ==
    LET framed == {r \in DOMAIN t.rows : IsFrame(Cell(t, r, d.frame))}
        x == [r \in framed |-> FrameIn(Cell(t, r, d.frame))]
        inRange == {r \in framed : x[r] \in d.frame_start..d.frame_end}
        final == Len(s.buckets)
        covers(i) == {r \in inRange : \/ x[r] \in s.buckets[i].frame_start..s.buckets[i].frame_end
                                      \/ i = final /\ x[r] = d.frame_end}
    IN /\ s.buckets[1].frame_start = d.frame_start
       /\ \A i \in 1..final - 1 : s.buckets[i].frame_end + 1 = s.buckets[i + 1].frame_start
       /\ s.buckets[final].frame_end \in {d.frame_end - 1, d.frame_end}
       /\ \A r \in inRange : \E i \in 1..final : r \in covers(i)
       /\ \A i \in 1..final :
           /\ s.buckets[i].row_count = Cardinality(covers(i))
           /\ \A m \in DOMAIN d.metrics :
               LET S == {r \in covers(i) : IsNumber(Cell(t, r, d.metrics[m]))}
                   v == [r \in S |-> NumberIn(Cell(t, r, d.metrics[m]))]
                   place == [r \in S |-> Cardinality({q \in S : q <= r})]
                   a == s.buckets[i].metrics[m]
               IN /\ a.sample_count = Cardinality(S)
                  /\ (\A r \in S : v[r] \in Int) => StatsDescribe(a, S, v, place)
=============================================================================

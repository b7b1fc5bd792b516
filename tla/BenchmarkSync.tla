-------------------------- MODULE BenchmarkSync --------------------------
(* The daily closes of one benchmark index.  A worker asks the market's source for them *)
(* in bounded windows, at eight and at twenty o'clock: first the last weeks again, whose  *)
(* closes may have appeared since, then whatever the oldest account needs and no window   *)
(* has covered.  A window that was fetched covers all its days, also those without a       *)
(* close, and readers take a covered day without a close for a holiday.                    *)
(*                                                                                         *)
(* Time is counted in slots, two to a day; what happens between two slots is in one.       *)
EXTENDS Integers, FiniteSets, Sequences, SequencesExt, FiniteSetsExt

CONSTANTS
    Trading,        \* the days with a close
    AssetDays,      \* days on which an account may have its first asset
    Queries,        \* ranges of the curves that are asked for
    Refresh,        \* days that are fetched again in each slot (45)
    Lookback,       \* days before the first asset that are needed too (30)
    WindowDays,     \* the length of a window (5 years, or 2)
    Attempts,       \* failures after which a slot is given up (3)
    Lag,            \* bound: days after which a close has been published
    MaxOutage,      \* days without a refresh that the refreshed days allow for
    FirstSlot,      \* bound: the slot in which the service is started for the first time
    MaxSlots,       \* bound: the last slot
    Nil             \* no asset, no items, nothing asked

Day(slot) == (slot + 1) \div 2

ASSUME BenchmarkAssumption ==
    /\ Trading \subseteq Nat \ {0} /\ AssetDays \subseteq Nat \ {0}
    /\ Queries \subseteq [from : Int, to : Int]
    /\ {Refresh, Lookback, WindowDays, Attempts} \subseteq Nat \ {0}
    /\ {Lag, MaxSlots} \subseteq Nat /\ FirstSlot \in 1 .. MaxSlots
    /\ MaxOutage \in Nat \ {0}     \* a tick may see the day change
    /\ Nil \notin Nat
    /\ Refresh < WindowDays
    /\ MaxOutage + Lag <= Refresh /\ MaxOutage + Lag <= Lookback

VARIABLES
    now,            \* the slot it is
    published,      \* the days whose close the source knows
    earliest,       \* the first day of an account with an asset
    coverage,       \* benchmark_coverage: windows [from, to]
    closes,         \* benchmark_closes: days that are stored
    success,        \* benchmark_sync_status: the slot of last_success_at, 0 before
    tick,           \* the worker's tick: what it is at, its range, and the windows to come
    retries, slot,  \* the worker's memory: failures in the slot it saw last
    reader,         \* a request for a curve, between its queries
    refreshed,      \* history: the slot of the last refresh that went through
    steady          \* history: no outage was longer than MaxOutage

store == <<coverage, closes, success>>
worker == <<tick, retries, slot, refreshed>>
benchmarkVars == <<now, published, earliest, store, worker, reader, steady>>

Interval(from, to) == [from |-> from, to |-> to]
Days(w) == w.from .. w.to
Covered == UNION {Days(w) : w \in coverage}
Greater(x, y) == IF x > y THEN x ELSE y
Lesser(x, y) == IF x < y THEN x ELSE y

\* ORDER BY from_date, to_date.
Precedes(v, w) == v.from < w.from \/ (v.from = w.from /\ v.to < w.to)
Ordered(windows) ==
    [n \in 1 .. Cardinality(windows) |->
        CHOOSE w \in windows : Cardinality({v \in windows : Precedes(v, w)}) = n - 1]

\* previousDays: no day lies before the first.
Before(day, count) == Greater(1, day - count)

-----------------------------------------------------------------------------
\* Mutant: a window that begins before the cursor moves it back.
CursorAfter(cursor, w) == w.to + 1
Cursor(cursor, w) == Greater(cursor, w.to + 1)

\* Missing: one pass over the windows that touch the range, in the order of their days.
Missing(from, to) ==
    LET touching == {w \in coverage : w.to >= from /\ w.from <= to}
        Pass(acc, w) == [cursor |-> Cursor(acc.cursor, w),
                         gaps |-> IF w.from > acc.cursor
                                  THEN Append(acc.gaps, Interval(acc.cursor, w.from - 1))
                                  ELSE acc.gaps]
        end == FoldLeft(Pass, [cursor |-> from, gaps |-> <<>>], Ordered(touching))
    IN  IF end.cursor <= to THEN Append(end.gaps, Interval(end.cursor, to)) ELSE end.gaps

\* syncRange: the windows of a range.
Windows(w) ==
    [n \in 1 .. (w.to - w.from + WindowDays) \div WindowDays |->
        Interval(w.from + (n - 1) * WindowDays, Lesser(w.to, w.from + n * WindowDays - 1))]

Idle == [at |-> "idle"]
Tick(at, range, plan) == [at |-> at, range |-> range, plan |-> plan, items |-> Nil]

\* Mutant: only the last day is asked for again.
RecentToday(range) == range.to
Recent(range) == Greater(range.from, Before(range.to, Refresh))

-----------------------------------------------------------------------------
\* The clock.  A close is published within Lag days, a tick outlasts one slot at most, and a
\* request none.  Nothing bounds the time without a refresh; steady tells whether it was short.
Advance ==
    /\ now < MaxSlots
    /\ \A d \in Trading : d + Lag < Day(now + 1) => d \in published
    /\ tick # Idle => slot = now
    /\ reader = Nil
    /\ now' = now + 1
    /\ steady' = (steady /\ (coverage # {} => Day(now + 1) - Day(refreshed) <= MaxOutage))
    /\ UNCHANGED <<published, earliest, store, worker, reader>>

\* The source publishes the close of a day in its evening or later.
Publish(d) ==
    /\ d \notin published
    /\ 2 * d <= now
    /\ published' = published \cup {d}
    /\ UNCHANGED <<now, earliest, store, worker, reader, steady>>

\* Assets are entered, moved and voided.
SetEarliest(d) ==
    /\ d # earliest
    /\ earliest' = d
    /\ UNCHANGED <<now, published, store, worker, reader, steady>>

-----------------------------------------------------------------------------
\* Tick: a new slot forgets the failures of the last; without an asset nothing is needed.
StartTick ==
    LET failures == IF slot = now THEN retries ELSE 0
        today == Day(now)
        range == Interval(Before(Lesser(earliest, today), Lookback), today)
    IN  /\ tick = Idle
        /\ earliest # Nil
        /\ failures < Attempts
        /\ slot' = now
        /\ retries' = failures
        /\ tick' = IF success < now
                   THEN Tick("refresh", range, Windows(Interval(Recent(range), today)))
                   ELSE Tick("asking", range, <<>>)
        /\ refreshed' = IF coverage = {} THEN now ELSE refreshed
        /\ UNCHANGED <<now, published, earliest, store, reader, steady>>

AtWindow == tick # Idle /\ tick.plan # <<>>

\* The closes of a window, as far as the source knows them.  It may know none (for the
\* American index, whose source refuses such an answer, this is a failure).
Answer(w) == published \cap Days(w)

\* FetchWindow
FetchWindow ==
    /\ AtWindow /\ tick.items = Nil
    /\ tick' = [tick EXCEPT !.items = Answer(Head(tick.plan))]
    /\ UNCHANGED <<now, published, earliest, store, retries, slot, refreshed, reader, steady>>

\* The window lies beyond all that is covered, with days between that are not.
Leaps(w) == \A v \in coverage : v.to + 1 < w.from

\* SaveWindow: items, coverage and status in one transaction, at the time of the saving.
SaveWindow ==
    /\ AtWindow /\ tick.items # Nil
    /\ closes' = closes \cup tick.items
    /\ coverage' = coverage \cup {Head(tick.plan)}
    /\ success' = now
    /\ tick' = [tick EXCEPT !.plan = Tail(@), !.items = Nil]
    /\ reader' = IF reader # Nil /\ reader.at \in {"missing", "closes"} /\ Leaps(Head(tick.plan))
                 THEN [reader EXCEPT !.leapt = TRUE]
                 ELSE reader
    /\ UNCHANGED <<now, published, earliest, retries, slot, refreshed, steady>>

\* The source or the database fails, at a window or at the question for what is missing; or
\* the index before this one has failed, and this one is asked for nothing to refresh (the
\* loop over the indices has one err).  The tick ends, what was saved stays.
FailTick ==
    /\ AtWindow \/ (tick # Idle /\ tick.at = "asking")
    /\ retries' = retries + 1
    /\ tick' = Idle
    /\ UNCHANGED <<now, published, earliest, store, slot, refreshed, reader, steady>>

Refreshed ==
    /\ tick # Idle /\ tick.at = "refresh" /\ tick.plan = <<>>
    /\ tick' = [tick EXCEPT !.at = "asking"]
    /\ refreshed' = slot
    /\ UNCHANGED <<now, published, earliest, store, retries, slot, reader, steady>>

AskMissing ==
    /\ tick # Idle /\ tick.at = "asking"
    /\ LET gaps == Missing(tick.range.from, tick.range.to)
           plan == FlattenSeq([n \in DOMAIN gaps |-> Windows(gaps[n])])
       IN tick' = IF plan = <<>> THEN Idle ELSE Tick("gaps", tick.range, plan)
    /\ UNCHANGED <<now, published, earliest, store, retries, slot, refreshed, reader, steady>>

EndTick ==
    /\ tick # Idle /\ tick.at = "gaps" /\ tick.plan = <<>>
    /\ tick' = Idle
    /\ UNCHANGED <<now, published, earliest, store, retries, slot, refreshed, reader, steady>>

Crash ==
    /\ tick' = Idle /\ retries' = 0 /\ slot' = 0
    /\ reader' = Nil
    /\ UNCHANGED <<now, published, earliest, store, refreshed, steady>>

-----------------------------------------------------------------------------
\* StoredBenchmarks.Fetch: four queries, and windows may be saved between them.
\* leapt is history: a window was saved that leaps ahead, since the end of the range was read.
Reading(at, q, through, items) ==
    [at |-> at, q |-> q, through |-> through, items |-> items, leapt |-> FALSE]

FirstCovered(q) == \E w \in coverage : q.from \in Days(w)

\* Mutant: a covered first day is taken for a covered range.
GaplessUnasked(from, through) == through >= from
Gapless(from, through) == Missing(from, through) = <<>>

AskCurve(q) ==
    /\ reader = Nil
    /\ FirstCovered(q)
    /\ reader' = Reading("latest", q, 0, {})
    /\ UNCHANGED <<now, published, earliest, store, worker, steady>>

ReadLatest ==
    LET reaching == {w.to : w \in {v \in coverage : v.to >= reader.q.from}}
    IN  /\ reader # Nil /\ reader.at = "latest"
        /\ reader' = [reader EXCEPT !.at = "missing",
                                    !.through = Lesser(reader.q.to, Max({0} \cup reaching))]
        /\ UNCHANGED <<now, published, earliest, store, worker, steady>>

ReadMissing ==
    /\ reader # Nil /\ reader.at = "missing"
    /\ reader' = IF Gapless(reader.q.from, reader.through)
                 THEN [reader EXCEPT !.at = "closes"]
                 ELSE Nil
    /\ UNCHANGED <<now, published, earliest, store, worker, steady>>

ReadCloses ==
    /\ reader # Nil /\ reader.at = "closes"
    /\ reader' = [reader EXCEPT !.at = "done", !.items = closes \cap Days(reader.q)]
    /\ UNCHANGED <<now, published, earliest, store, worker, steady>>

AnswerCurve ==
    /\ reader # Nil /\ reader.at = "done"
    /\ reader' = Nil
    /\ UNCHANGED <<now, published, earliest, store, worker, steady>>

-----------------------------------------------------------------------------
BenchmarkInit ==
    /\ now = FirstSlot
    /\ published = {d \in Trading : d + Lag < Day(FirstSlot)}
    /\ earliest \in AssetDays \cup {Nil}
    /\ coverage = {} /\ closes = {} /\ success = 0
    /\ tick = Idle /\ retries = 0 /\ slot = 0
    /\ reader = Nil
    /\ refreshed = 0 /\ steady = TRUE

BenchmarkNext ==
    \/ Advance
    \/ \E d \in Trading : Publish(d)
    \/ \E d \in AssetDays \cup {Nil} : SetEarliest(d)
    \/ StartTick \/ FetchWindow \/ SaveWindow \/ FailTick \/ Refreshed \/ AskMissing \/ EndTick
    \/ Crash
    \/ \E q \in Queries : AskCurve(q)
    \/ ReadLatest \/ ReadMissing \/ ReadCloses \/ AnswerCurve

BenchmarkSpec == BenchmarkInit /\ [][BenchmarkNext]_benchmarkVars

-----------------------------------------------------------------------------
\* The gaps that are fetched are exactly the days no window covers, each once and in order,
\* whatever windows overlap, touch or lie within each other.
MissingIsComplement ==
    \A from, to \in 1 .. Day(MaxSlots) : from <= to =>
        LET gaps == Missing(from, to)
        IN  /\ UNION {Days(gaps[n]) : n \in DOMAIN gaps} = (from .. to) \ Covered
            /\ \A n \in DOMAIN gaps : /\ gaps[n].from <= gaps[n].to
                                      /\ n > 1 => gaps[n - 1].to < gaps[n].from

\* A close that appeared after its day was covered is not lost, as long as no outage outlasts
\* the refreshed days: while it is missing, it is young enough for the refreshes to come, through
\* failures, restarts, ticks that outlast their slot and assets that are moved.
NoCloseLost ==
    steady => \A d \in Covered \cap published : d \notin closes => d >= Day(now) - Refresh

Answered == reader # Nil /\ reader.at = "done" /\ reader.items # {}

Span == reader.q.from .. Max(reader.items)

\* A curve that is answered has no hole, although windows are saved between its queries: each day
\* from its first to its last close has been fetched, unless a window that leaps ahead of the
\* others was saved between the query for the last day and the query for the closes.  As long as
\* no outage outlasts the refreshed days none does, and the curve has each close but those that the
\* next refresh is to bring.
CurveHasNoHole ==
    Answered =>
        /\ ~reader.leapt => Span \subseteq Covered
        /\ steady => \A d \in published \cap Span :
                        d \notin reader.items => d >= Day(now) - Refresh

\* The days of a curve that is answered have all been fetched: a gap that is not synchronized is
\* not bridged.  The code breaks this: after an outage that outlasts the refreshed days the
\* worker saves the last weeks before it fills the gap, while a reader that has asked for
\* gaps reads the closes beyond it.
CurveIsCovered == Answered => Span \subseteq Covered

\* A slow backfill does not postpone the close of the day: once a tick of this slot has ended
\* without a failure, the last days have been asked for in this slot.
CloseNotPostponed == tick = Idle /\ slot = now /\ retries = 0 => refreshed = now
=============================================================================

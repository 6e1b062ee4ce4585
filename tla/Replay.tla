------------------------------- MODULE Replay -------------------------------
(***************************************************************************)
(* Temporal replay (replay.rs): what an evaluation may know of the past,   *)
(* and the paper metrics of what followed.  A row is [at, value]; Unknown  *)
(* stands for a NULL value.                                                *)
(***************************************************************************)
EXTENDS Integers, Sequences, SequencesExt, FiniteSets, FiniteSetsExt

Unknown == -1

\* Mutant: the newest row, whenever it was observed.
UsableAny(rows, time) == rows

\* The rows observed at or before the evaluation time.
Usable(rows, time) == {r \in rows : r.at <= time}

\* market_at, wallet_score_at and gmgn_token_at: the newest usable row.
LatestAt(rows, time) ==
  IF Usable(rows, time) = {} THEN {}
  ELSE {r \in Usable(rows, time) : \A q \in Usable(rows, time) : q.at <= r.at}

\* telegram_mentions_at: every usable mention; its time is that of the message
\* version it was parsed from.
MentionsAt(mentions, messages, time) ==
  {m \in mentions : \E v \in messages : v.id = m.id /\ v.version = m.version /\ v.at <= time}

\* guard.
Guard(at, time) == IF at = Unknown THEN "unavailable" ELSE IF at <= time THEN "usable" ELSE "excluded"

\* A metric keeps the first value it was given; NULL gives it none.
KeepFirst(metric, value) == IF metric = Unknown THEN value ELSE metric

\* The snapshots paper_metrics reads, by their place in the order the database
\* delivers them: the oldest ones after the signal, at most limit of them.
Read(rows, signal, limit) ==
  LET after == {i \in DOMAIN rows : rows[i].at > signal}
  IN {i \in after : Cardinality({j \in after : j <= i}) <= limit}

\* What the n-th snapshot makes of the metric of horizon h.
Measured(rows, read, signal, h, metric, n) ==
  IF n \in read /\ rows[n].at - signal <= h THEN KeepFirst(metric, rows[n].value) ELSE metric

MetricOf(rows, read, signal, h) ==
  LET metric[n \in 0..Len(rows)] ==
        IF n = 0 THEN Unknown ELSE Measured(rows, read, signal, h, metric[n - 1], n)
  IN metric[Len(rows)]

\* paper_metrics.
SnapshotLimit == 50
PaperMetrics(rows, signal) ==
  LET within(h) == MetricOf(rows, Read(rows, signal, SnapshotLimit), signal, h)
  IN [m1 |-> within(60), m5 |-> within(300), m15 |-> within(900)]

-----------------------------------------------------------------------------

\* Replay never looks ahead: an answer for a time is the same whatever was
\* observed after it, and what it uses passes the guard.
NoLookAhead(x) ==
  LET past == {r \in x.rows : r.at <= x.time}
      seen == {v \in x.messages : v.at <= x.time}
  IN /\ LatestAt(x.rows, x.time) = LatestAt(past, x.time)
     /\ \A r \in LatestAt(x.rows, x.time) : Guard(r.at, x.time) = "usable"
     /\ MentionsAt(x.mentions, x.messages, x.time) = MentionsAt(x.mentions, seen, x.time)

\* A metric is the first liquidity known after the signal and within its
\* horizon, unless the limit cut it off; a longer horizon never forgets what a
\* shorter one found.
MetricsAreFirstKnown(x) ==
  LET m == PaperMetrics(x.rows, x.signal)
      known(h) == {i \in DOMAIN x.rows : /\ x.rows[i].at > x.signal /\ x.rows[i].at - x.signal <= h
                                         /\ x.rows[i].value # Unknown}
      before(i) == {j \in DOMAIN x.rows : x.rows[j].at > x.signal /\ x.rows[j].at <= x.rows[i].at}
      first(metric, h) ==
        IF metric = Unknown THEN \A i \in known(h) : Cardinality(before(i)) > SnapshotLimit
        ELSE \E i \in known(h) : /\ x.rows[i].value = metric
                                 /\ \A j \in known(h) : x.rows[i].at <= x.rows[j].at
  IN /\ first(m.m1, 60) /\ first(m.m5, 300) /\ first(m.m15, 900)
     /\ m.m1 # Unknown => m.m5 = m.m1
     /\ m.m5 # Unknown => m.m15 = m.m5
=============================================================================

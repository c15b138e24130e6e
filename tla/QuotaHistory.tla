---------------------------- MODULE QuotaHistory ----------------------------
(***************************************************************************)
(* The series the quota dashboard draws from the stored samples of a       *)
(* metric: retain_history of telemetry-server/src/quota.rs, which thins    *)
(* the samples of a time range to some per bucket and breaks the line      *)
(* where samples are missing or change between percentages and amounts.    *)
(***************************************************************************)
EXTENDS QuotaResets

CONSTANTS
  Gap,     \* 600 seconds in the code
  Buckets  \* the bucket widths queried

ASSUME GapAssumption == Gap \in Nat /\ Buckets \subseteq Nat \ {0}

Points == [sample : Samples, segment : Nat]

(* The newest point read, with its bucket and whether it began a segment   *)
(* (and is shown already).                                                 *)
Pending == [point : Points, bucket : Int, head : BOOLEAN]

ASSUME PendingAssumption == None \notin Pending

(* What was read so far: the points shown, and the newest one.             *)
NoHistory == [shown |-> <<>>, pending |-> None]

Splits(previous, s) ==
  s.at - previous.at > Gap \/ previous.percent # s.percent

Begun(s, segment, bucket, head) ==
  [point |-> [sample |-> s, segment |-> segment], bucket |-> bucket, head |-> head]

(* Mutant: the gap is that to the last point shown.                        *)
WithRowAfterShown(h, s, bucket) ==
  IF h.pending = None
  THEN LET first == Begun(s, 1, bucket, TRUE) IN [shown |-> <<first.point>>, pending |-> first]
  ELSE LET last == h.pending
           split == Splits(Last(h.shown).sample, s)
           next == Begun(s, last.point.segment + (IF split THEN 1 ELSE 0), bucket, split)
           closed == IF (split \/ bucket # last.bucket) /\ ~last.head
                     THEN Append(h.shown, last.point) ELSE h.shown
       IN [shown |-> IF split THEN Append(closed, next.point) ELSE closed, pending |-> next]

WithRow(h, s, bucket) ==
  IF h.pending = None
  THEN LET first == Begun(s, 1, bucket, TRUE) IN [shown |-> <<first.point>>, pending |-> first]
  ELSE LET last == h.pending
           split == Splits(last.point.sample, s)
           next == Begun(s, last.point.segment + (IF split THEN 1 ELSE 0), bucket, split)
           closed == IF (split \/ bucket # last.bucket) /\ ~last.head
                     THEN Append(h.shown, last.point) ELSE h.shown
       IN [shown |-> IF split THEN Append(closed, next.point) ELSE closed, pending |-> next]

Finished(h) ==
  IF h.pending = None \/ h.pending.head THEN h.shown ELSE Append(h.shown, h.pending.point)

BucketOf(s, from, width) == (s.at - from) \div width

(* The rows come ordered by time and id.                                   *)
HistoryRead(samples, from, width) ==
  LET read[S \in SUBSET samples] ==
        IF S = {} THEN NoHistory
        ELSE WithRow(read[S \ {Newest(S)}], Newest(S), BucketOf(Newest(S), from, width))
  IN read[samples]

RetainHistory(samples, from, width) == Finished(HistoryRead(samples, from, width))

InRange(from, to) == {s \in stored : from <= s.at /\ s.at <= to}

-----------------------------------------------------------------------------
(* Properties.                                                             *)

Times == {c.at : c \in Contents}

Adjacent(S, s, t) == Before(s, t) /\ ~\E u \in S : Before(s, u) /\ Before(u, t)

(* However coarse the buckets, the last sample of each is a point of the   *)
(* series (auto_bucket_returns_last_real_value).                           *)
BucketEndsShown ==
  \A from, to \in Times, width \in Buckets :
    LET S == InRange(from, to)
        shown == ToSet(RetainHistory(S, from, width))
    IN \A s \in S :
         (\A t \in S : Before(s, t) => BucketOf(t, from, width) # BucketOf(s, from, width))
           => \E p \in shown : p.sample = s

(* Neighbouring points are joined exactly if no two samples in a row       *)
(* between them break the line: a gap never disappears in a bucket, and    *)
(* dense samples never come apart because most of them are left out        *)
(* (raw_continuity_preserves_600_second_boundary_inside_large_buckets,     *)
(* dense_raw_samples_remain_connected_across_coarse_buckets).              *)
GapsShown ==
  \A from, to \in Times, width \in Buckets :
    LET S == InRange(from, to)
        shown == RetainHistory(S, from, width)
    IN \A i \in 1 .. Len(shown) - 1 :
         LET p == shown[i]  q == shown[i + 1]
             between == {s \in S : ~Before(s, p.sample) /\ ~Before(q.sample, s)}
         IN /\ Before(p.sample, q.sample)
            /\ p.segment = q.segment <=>
                 \A s, t \in between : Adjacent(S, s, t) => ~Splits(s, t)

(* What is drawn is faithful to what is stored, at every bucket width.     *)
HistoryFaithful == BucketEndsShown /\ GapsShown
=============================================================================

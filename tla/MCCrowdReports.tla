--------------------------- MODULE MCCrowdReports ---------------------------
(* Small instances of CrowdReports: a bucket of two ticks, a day of four, a *)
(* week of eight, and midnight at tick 44.                                  *)
EXTENDS CrowdReports, TLC

CONSTANTS c1, c2, a1, p1, p2, p3, p4   \* p1 to p4 have reported before

Grid(step) == [t \in 0..MaxTime |-> t - (t % step)]

MCBucket == Grid(2)
MCDay    == Grid(4)
MCSlot   == [t \in 0..MaxTime |-> (t % 8) \div 2]

Made(who, t) == [who |-> who, hash |-> t - (t % 4), at |-> t]

\* Four reports already in the quarter that began with tick 44.
Early == {Made(p1, 44), Made(p2, 44), Made(p3, 44), Made(p4, 44)}

\* Before midnight without a past; after it, with reports as old as the
\* look-back, at its edge, older than what is kept, and of last week.
Pasts  == {{}, {Made(p1, 12)}, {Made(p1, 10), Made(p2, 13)},
           {Made(p1, 12), Made(p1, 36), Made(p2, 36)}}
Starts == {[now |-> 43, rows |-> {}]} \cup
          {[now |-> 44, rows |-> Early \cup past] : past \in Pasts}

Interchangeable == Permutations(Requests)

=============================================================================

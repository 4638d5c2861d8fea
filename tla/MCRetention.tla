---------------------------- MODULE MCRetention ----------------------------
(* Small instances of Retention: quarters, hours and days of a few ticks. *)
EXTENDS Retention

CONSTANTS Ticks, Quarters, Hours   \* per quarter, per hour, per day

Grid(step) == [t \in 0..MaxTime |-> t - (t % step)]

MCQuarter == Grid(Ticks)
MCHour    == Grid(Ticks * Quarters)
MCDay     == Grid(Ticks * Quarters * Hours)

\* Every check succeeds, or two ticks of different days may bring something else.
AllUp == [t \in 0..MaxTime |-> {"up"}]
Gaps  == [t \in 0..MaxTime |-> CASE t = 3  -> {"up", "down", "none"}
                                 [] t = 13 -> {"up", "none"}
                                 [] OTHER  -> {"up"}]

Short == {{3, 4}}
Long  == {1..11}
Mixed == Short \cup Long

=============================================================================

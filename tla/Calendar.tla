------------------------------ MODULE Calendar ------------------------------
(***************************************************************************)
(* The sequence calendar (app/agents/_calendar.py), pure functions.        *)
(*                                                                         *)
(* A channel is a record with a platform and its share pct of the budget, a *)
(* cap one with platform, per and limit.  A touch is                       *)
(*   [platform |-> ..., day |-> ..., position |-> ...]                     *)
(* with day counted from the campaign's start_date (every touch is laid    *)
(* down at 09:00, so whole days are enough), position its rank in the       *)
(* order of creation; positions differ, so a calendar is a set of touches. *)
(* Caps come in the order the query returns them.                          *)
(***************************************************************************)
EXTENDS Integers, Sequences, SequencesExt, FiniteSets, FiniteSetsExt

CapWindow == [day |-> 1, week |-> 7, month |-> 30]
FrequencyCap == 3
FrequencyWindow == 7

\* Python's round(n / d) for n >= 0, d > 0: a half goes to the even neighbour.
RoundHalfEven(n, d) ==
  LET q == n \div d
      r == n % d
  IN  IF 2 * r > d \/ (2 * r = d /\ q % 2 = 1) THEN q + 1 ELSE q

\* _index_hard_caps: of several caps of a platform the last one counts.
CapsOf(platform, caps) == {i \in DOMAIN caps : caps[i].platform = platform}

\* Mutant of MaxTouchesForCap: one touch more than the cap lets in.
MaxTouchesRoundedUp(cap, duration) ==
  (duration * cap.limit) \div CapWindow[cap.per] + 1

\* _max_touches_for_cap
MaxTouchesForCap(cap, duration) ==
  Max({1, (duration * cap.limit) \div CapWindow[cap.per]})

\* The touches a channel gets: one per campaign week, weighted by its share, no
\* more than its cap fits into the campaign, and at least one.
TouchCount(channel, duration, caps) ==
  LET wanted == Max({1, RoundHalfEven(channel.pct * duration, 700)})
      own == CapsOf(channel.platform, caps)
  IN  IF own = {} THEN wanted
      ELSE Max({1, Min({wanted, MaxTouchesForCap(caps[Max(own)], duration)})})

\* Mutant of Distribute: the last touch falls on the day after end_date.
DistributePastTheEnd(count, duration) ==
  IF count = 1 THEN <<duration \div 2>>
  ELSE [i \in 1..count |-> RoundHalfEven((i - 1) * duration, count - 1)]

\* _distribute: the days of count touches, spread evenly over the campaign.
Distribute(count, duration) ==
  IF count = 1 THEN <<duration \div 2>>
  ELSE [i \in 1..count |-> RoundHalfEven((i - 1) * (duration - 1), count - 1)]

\* The touches generate_calendar lays down, before it enforces the caps.
LaidDown(channels, duration, caps) ==
  LET planned == SelectSeq(channels, LAMBDA c : c.pct > 0)
      count(i) == TouchCount(planned[i], duration, caps)
      before(i) == FoldLeft(LAMBDA n, j : n + count(j), 0, [j \in 1..(i - 1) |-> j])
  IN  UNION {{[platform |-> planned[i].platform,
               day      |-> Distribute(count(i), duration)[k],
               position |-> before(i) + k - 1] : k \in 1..count(i)} :
             i \in DOMAIN planned}

\* Mutant of WithinHardCaps: the window is closed on both sides.
WithinHardCapsClosed(touches, caps) ==
  \A i \in DOMAIN caps : \A anchor \in touches :
    anchor.platform = caps[i].platform =>
      Cardinality({t \in touches : /\ t.platform = anchor.platform
                                   /\ t.day - anchor.day \in 0..CapWindow[caps[i].per]})
        <= caps[i].limit

\* enforce_hard_caps raises nothing: the window that starts at any touch holds at
\* most `limit` touches of its platform.
WithinHardCaps(touches, caps) ==
  \A i \in DOMAIN caps : \A anchor \in touches :
    anchor.platform = caps[i].platform =>
      Cardinality({t \in touches : /\ t.platform = anchor.platform
                                   /\ t.day - anchor.day \in 0..CapWindow[caps[i].per] - 1})
        <= caps[i].limit

Abs(n) == IF n < 0 THEN -n ELSE n

\* The rank of t in its audience's touches, sorted by time.
Rank(t, touches) ==
  Cardinality({u \in touches : u.day < t.day \/ (u.day = t.day /\ u.position < t.position)})

\* Mutant of FrequencyWarnings: only the neighbour on each side is looked at.
FrequencyWarningsOfNeighbours(touches) ==
  {t \in touches :
     Cardinality({u \in touches : /\ Abs(Rank(u, touches) - Rank(t, touches)) <= 1
                                  /\ Abs(u.day - t.day) < FrequencyWindow}) > FrequencyCap}

\* detect_frequency_warnings: the touches with too many others around them, of
\* which only the 2 * cap before and after are looked at.
FrequencyWarnings(touches) ==
  {t \in touches :
     Cardinality({u \in touches :
                    /\ Abs(Rank(u, touches) - Rank(t, touches)) <= 2 * FrequencyCap
                    /\ Abs(u.day - t.day) < FrequencyWindow}) > FrequencyCap}
-----------------------------------------------------------------------------
\* generate_calendar "should pass when the cap is satisfiable" (_calendar.py,
\* generate_calendar): with one cap per platform what it lays down never breaks
\* the caps it then enforces, lies between start_date and end_date, and gives
\* every channel that has a share at least one touch.
SoundCalendar(channels, duration, caps) ==
  LET touches == LaidDown(channels, duration, caps)
  IN  /\ WithinHardCaps(touches, caps)
      /\ \A t \in touches : t.day \in 0..duration - 1
      /\ \A i \in DOMAIN channels : channels[i].pct > 0 =>
           \E t \in touches : t.platform = channels[i].platform

\* "Given two touches land on the same audience within the frequency cap ... they
\* are flagged" (E05-campaign-strategist.md): looking at the nearest touches only
\* flags the same ones as looking at all of them.
FlaggedByDefinition(touches) ==
  FrequencyWarnings(touches) =
    {t \in touches :
       Cardinality({u \in touches : Abs(u.day - t.day) < FrequencyWindow}) > FrequencyCap}
=============================================================================

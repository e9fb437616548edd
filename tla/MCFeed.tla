------------------------------- MODULE MCFeed -------------------------------
(***************************************************************************)
(* Two shapes of tapes: two sources whose few events come in every order,  *)
(* with ties and undated events among them, and one source that crosses    *)
(* an edge of the sessions, for each day of several years and for the      *)
(* weeks of Easter of many.                                                *)
(***************************************************************************)
EXTENDS ReplayFeed

CONSTANTS Years, EasterYears

MCSources == {1, 2}

\* A Friday in session, the same evening and the Monday after.
MCFriday == Date(2024, 7, 12) * Day
MCInstants == {MCFriday + HoursMinutes(15, 0),
               MCFriday + HoursMinutes(23, 0),
               MCFriday + 3 * Day + HoursMinutes(15, 0)}

UpTo(n, S) == UNION {[1..k -> S] : k \in 0..n}

MCShort == [MCSources -> UpTo(2, MCInstants \cup {Untimed})]
MCLong == {[i \in MCSources |-> IF i = 1 THEN a ELSE b] :
             a \in [1..3 -> MCInstants], b \in UpTo(1, MCInstants)}

One(s) == [i \in MCSources |-> IF i = 1 THEN s ELSE <<>>]

\* 09:30, 16:00 and 17:00, by New York's clock in summer, in winter and by the fixed one.
MCEdges == {HoursMinutes(13, 30), HoursMinutes(14, 30), HoursMinutes(20, 0),
            HoursMinutes(21, 0), HoursMinutes(22, 0)}

\* Both sides of each edge.
MCDays ==
  {One(<<date * Day + edge - 1, date * Day + edge>>) :
     date \in UNION {Date(y, 1, 1) .. Date(y, 12, 31) : y \in Years}, edge \in MCEdges}

\* Every day Good Friday can fall on, at noon.
MCEaster ==
  {One(<<date * Day + HoursMinutes(17, 0)>>) :
     date \in UNION {Date(y, 3, 20) .. Date(y, 4, 23) : y \in EasterYears}}

MCTapes == MCShort \cup MCLong \cup MCDays \cup MCEaster

MCTimes == UNION {UNION {Range(t[i]) : i \in MCSources} : t \in MCTapes} \ {Untimed}

\* A leap year with a holiday on a Saturday, and the first year of Juneteenth,
\* whose New Year's Day is a Saturday and whose Christmas is a Sunday.
MCYears == {2020, 2022}

MCEasterYears == 1975..2035

MCWallClock == {Date(2026, 1, 1) * Day, Date(2026, 1, 2) * Day + HoursMinutes(15, 0)}
=============================================================================

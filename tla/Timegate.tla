------------------------------ MODULE Timegate ------------------------------
(***************************************************************************)
(* Time negotiation (TimegateController): which version of a datasource    *)
(* answers a request for a date.  A timemap is a sequence of versions, each *)
(* with the datasource that holds it and the interval in which it was the  *)
(* current one.  A date is a number, or NaN for an invalid date: what the  *)
(* empty string makes as the end of a version.                             *)
(***************************************************************************)
EXTENDS Integers, Sequences, FiniteSets

CONSTANT Second  \* the number of clock ticks in a second

ASSUME TimegateAssumption == Second \in Nat \ {0}

NaN == -1        \* the time of an invalid date: no comparison with it holds
Dates == Nat \cup {NaN}

AtMost(a, b) == a # NaN /\ b # NaN /\ a <= b

NoMemento == [datasource |-> "none", start |-> NaN, end |-> NaN]

\* Mutant: the timemap stays in the order of the configuration.
TimemapAsConfigured(versions) == versions

\* The versions by start date; those with the same one keep their order.
SortTimemap(versions) ==
  LET Before(i, j) == \/ versions[i].start < versions[j].start
                      \/ versions[i].start = versions[j].start /\ i < j
      Place(i) == 1 + Cardinality({j \in DOMAIN versions : Before(j, i)})
  IN  [k \in DOMAIN versions |-> versions[CHOOSE i \in DOMAIN versions : Place(i) = k]]

\* Mutant: a version that starts on the very date is already too late.
ClosestMementoStrictly(timemap, date) ==
  LET last == timemap[Len(timemap)]
      Stops(i) == timemap[i].end # NaN /\ (timemap[i].start >= date \/ timemap[i].end >= date)
      i == CHOOSE j \in DOMAIN timemap : Stops(j) /\ \A k \in 1 .. j - 1 : ~Stops(k)
  IN  IF timemap = <<>> \/ date = NaN THEN NoMemento
      ELSE IF date <= timemap[1].start THEN timemap[1]
      ELSE IF AtMost(last.end, date) THEN last
      ELSE IF ~\E j \in DOMAIN timemap : Stops(j) THEN NoMemento
      ELSE IF timemap[i].start >= date THEN timemap[i - 1] ELSE timemap[i]

\* The version of a sorted timemap that answers for a date: the first one
\* before its start, the last one from its end, and otherwise the first
\* version of which the interval holds the date, or the one before a gap.
ClosestMemento(timemap, date) ==
  LET last == timemap[Len(timemap)]
      Stops(i) == timemap[i].end # NaN /\ (timemap[i].start > date \/ timemap[i].end >= date)
      i == CHOOSE j \in DOMAIN timemap : Stops(j) /\ \A k \in 1 .. j - 1 : ~Stops(k)
  IN  IF timemap = <<>> \/ date = NaN THEN NoMemento
      ELSE IF date <= timemap[1].start THEN timemap[1]
      ELSE IF AtMost(last.end, date) THEN last
      ELSE IF ~\E j \in DOMAIN timemap : Stops(j) THEN NoMemento
      ELSE IF timemap[i].start > date THEN timemap[i - 1] ELSE timemap[i]

\* A date as the headers write it (toUTCString): without fractions of seconds.
HeaderDate(date) == date - (date % Second)

\* The date that the answers of datasource d announce as theirs: the start of
\* the last version that it holds, if it holds one.
MementoDatetime(timemap, d) ==
  LET versions == {i \in DOMAIN timemap : timemap[i].datasource = d}
  IN  IF versions = {} THEN NaN
      ELSE HeaderDate(timemap[CHOOSE i \in versions : \A j \in versions : j <= i].start)

-----------------------------------------------------------------------------
(* What a timegate is meant to do.                                         *)

\* Intervals as one configures them: all of them end, and none before one
\* that started earlier.  They may overlap, and leave gaps.
Orderly(timemap) ==
  /\ \A i \in DOMAIN timemap : timemap[i].start <= timemap[i].end
  /\ \A i, j \in DOMAIN timemap :
       timemap[i].start <= timemap[j].start => timemap[i].end <= timemap[j].end

\* No two versions share a date or a datasource.
Separate(timemap) ==
  /\ Orderly(timemap)
  /\ \A i, j \in DOMAIN timemap : i # j =>
       /\ timemap[i].end < timemap[j].start \/ timemap[j].end < timemap[i].start
       /\ timemap[i].datasource # timemap[j].datasource

\* The versions held by some datasources start on whole seconds.
StartsWhole(timemap, datasources) ==
  \A i \in DOMAIN timemap :
    timemap[i].datasource \in datasources => timemap[i].start % Second = 0

Covers(version, date) == version.start <= date /\ date <= version.end

\* A version for the date: one whose interval holds it; if there is none, the
\* last one that had started by then; and for a date before all, the first.
IsClosest(timemap, version, date) ==
  LET versions == {timemap[i] : i \in DOMAIN timemap}
      started == {v \in versions : v.start <= date}
  IN  /\ version \in versions
      /\ IF started = {}
           THEN \A v \in versions : version.start <= v.start
           ELSE \/ Covers(version, date)
                \/ /\ version \in started
                   /\ \A v \in started : v.start <= version.start /\ ~Covers(v, date)
=============================================================================

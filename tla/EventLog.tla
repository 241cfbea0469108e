------------------------------ MODULE EventLog ------------------------------
(***************************************************************************)
(* The bounded in-memory transcript of one session: src/src/event_log.rs   *)
(* and compact_event_log of the session server.                            *)
(*                                                                         *)
(* A log is a record.  "entries" is the resident vector and "base" the     *)
(* logical position ("seq") of its first entry.  An entry is the identity  *)
(* of an event - the how-many-th event of the session it is, counted from  *)
(* 0 - or Marker, the CompactedSummary that stands for a trimmed front.    *)
(* What the events say is left out: nothing here depends on it.            *)
(*                                                                         *)
(* These are pure operators; TranscriptStream uses them in its actions.    *)
(***************************************************************************)
EXTENDS Integers, Sequences

CONSTANT Marker \* the CompactedSummary entry

\* It is no event, and no position either: a feed starts at the one before its first.
ASSUME MarkerAssumption == Marker \notin Int

Entry == Nat \cup {Marker}

Log == [base : Nat, entries : Seq(Entry)]

Smaller(a, b) == IF a < b THEN a ELSE b

Larger(a, b) == IF a > b THEN a ELSE b

\* from_recovered(Vec::new(), base): nothing resident, everything below base is
\* on disk only.
EmptyFrom(base) == [base |-> base, entries |-> << >>]

\* tip_seq: one past the last logical position.
Tip(log) == log.base + Len(log.entries)

\* push: append at the tip.
Pushed(log, e) == [log EXCEPT !.entries = Append(@, e)]

\* The low-water mark a compaction drops down to: three quarters of the cap.
LowWater(cap) == Smaller(Larger((cap * 3) \div 4, 1), cap - 1)

\* trim: how many entries leave the front.  Nothing does while the log is within
\* the cap, and never an entry at or past the floor.  The code's "no floor",
\* u64::MAX, is the floor Tip(log): both let every resident entry go.
Droppable(log, floor) == Smaller(Larger(floor - log.base, 0), Len(log.entries))

Dropped(log, cap, target, floor) ==
    IF Len(log.entries) <= cap
    THEN 0
    ELSE Smaller(Len(log.entries) - target, Droppable(log, floor))

\* trim: drain the front.
Drained(log, n) ==
    [base |-> log.base + n, entries |-> SubSeq(log.entries, n + 1, Len(log.entries))]

\* Mutant of Prepended: base is left where the drain put it.
PrependedInPlace(log) == [log EXCEPT !.entries = <<Marker>> \o @]

\* prepend: the marker takes over the slot of the last dropped entry, so base
\* steps back by one (saturating) and no survivor changes its position.
Prepended(log) ==
    [base |-> Larger(log.base - 1, 0), entries |-> <<Marker>> \o log.entries]

\* compact_event_log: trim to the low-water mark, then put the marker in front.
Compacted(log, cap, floor) ==
    LET n == Dropped(log, cap, LowWater(cap), floor)
    IN  IF n = 0 THEN log ELSE Prepended(Drained(log, n))

(***************************************************************************)
(* resolve_cursor.  A cursor <<generation, acked>> says "I hold all of     *)
(* generation's positions below acked"; NoCursor asks for everything.      *)
(***************************************************************************)
NoCursor == << >>

FromBase(log, cursor, generation) ==
    \/ cursor = NoCursor
    \/ cursor[1] # generation
    \/ cursor[2] < log.base
    \/ cursor[2] > Tip(log)

\* Mutant of VecIndex: acked is taken for the last position held, not the first
\* one missing.
VecIndexPastAcked(log, cursor, generation) ==
    IF FromBase(log, cursor, generation) THEN 0 ELSE cursor[2] - log.base + 1

\* Mutant of VecIndex: a reader at the tip is sent the last entry again.
VecIndexOfTip(log, cursor, generation) ==
    IF FromBase(log, cursor, generation) \/ log.entries = << >> THEN 0
    ELSE Smaller(cursor[2] - log.base, Len(log.entries) - 1)

\* initial_vec_index of the resolution: how many resident entries are skipped.
VecIndex(log, cursor, generation) ==
    IF FromBase(log, cursor, generation) THEN 0 ELSE cursor[2] - log.base

\* tail_from: the resident entries after the first vecIndex.
TailFrom(log, vecIndex) ==
    SubSeq(log.entries, vecIndex + 1, Len(log.entries))
=============================================================================

---------------------------- MODULE ReplayPump_proofs ----------------------------
(***************************************************************************)
(* Theorems about ReplayPump, for every budget, replay, number of events   *)
(* and of turns.                                                           *)
(*                                                                         *)
(* What is recorded, at hand and on its way is one stream.  A step appends *)
(* to it, cuts off its end (a worker that dies) or takes something out of  *)
(* its middle (Send); the proofs say what can be taken out: nothing that   *)
(* was said live, because the fence is up only before the marker, and all  *)
(* that was replayed, because the marker is behind it.                     *)
(***************************************************************************)
EXTENDS ReplayPump, Selections_proofs

(***************************************************************************)
(* Sequences.                                                              *)
(***************************************************************************)

\* A prefix, element by element.
LEMMA PrefixElements ==
    ASSUME NEW S, NEW s \in Seq(S), NEW t \in Seq(S)
    PROVE  IsPrefix(s, t) <=> Len(s) <= Len(t) /\ \A i \in 1 .. Len(s) : s[i] = t[i]
  <1>1. Len(s) \in Nat /\ Len(t) \in Nat /\ SubSeq(s, 1, Len(s)) = s
    BY SubSeqFull
  <1>2. ASSUME Len(s) <= Len(t)
        PROVE  /\ SubSeq(t, 1, Len(s)) \in Seq(S)
               /\ Len(SubSeq(t, 1, Len(s))) = Len(s)
               /\ \A i \in 1 .. Len(s) : SubSeq(t, 1, Len(s))[i] = t[i]
    <2>1. \A i \in 1 .. Len(s) : t[i] \in S
      BY <1>1, <1>2
    <2> QED
      BY <1>1, <2>1, SubSeqProperties
  <1>3. ASSUME Len(s) <= Len(t), \A i \in 1 .. Len(s) : s[i] = t[i]
        PROVE  s = SubSeq(t, 1, Len(s))
    BY <1>1, <1>2, <1>3, SeqEqual
  <1> QED
    BY <1>1, <1>2, <1>3 DEF IsPrefix

\* What is left of a prefix when its end is cut off.
LEMMA PrefixCut ==
    ASSUME NEW S, NEW s \in Seq(S), NEW u \in Seq(S), NEW t \in Seq(S), IsPrefix(s \o u, t)
    PROVE  IsPrefix(s, t)
  <1>1. /\ s \o u \in Seq(S)
        /\ Len(s \o u) = Len(s) + Len(u)
        /\ \A i \in 1 .. Len(s) : (s \o u)[i] = s[i]
        /\ Len(s) \in Nat /\ Len(u) \in Nat /\ Len(t) \in Nat
    BY ConcatProperties
  <1>2. Len(s \o u) <= Len(t) /\ \A i \in 1 .. Len(s \o u) : (s \o u)[i] = t[i]
    BY <1>1, PrefixElements
  <1>3. Len(s) <= Len(t) /\ \A i \in 1 .. Len(s) : s[i] = t[i]
    BY <1>1, <1>2
  <1> QED
    BY <1>3, PrefixElements

(***************************************************************************)
(* Types.                                                                  *)
(***************************************************************************)

\* The events there are (AcpEvent).
LEMMA EventTypes ==
    /\ Marker \in Events
    /\ \A n \in Nat : /\ Event("replayed", n, "none") \in Events
                      /\ Event("chunk", n, "none") \in Events
                      /\ \A outcome \in Outcomes : Event("settled", n, outcome) \in Events
  BY DEF Marker, Event, Events, OfKinds

\* What a resumed agent emits first (load_session).
Replays(n) == [i \in 1 .. n |-> Event("replayed", i, "none")]

\* It is made of events of one kind.
LEMMA ReplaysAreEvents ==
    ASSUME NEW n \in Nat
    PROVE  /\ Replays(n) \in Seq(Events)
           /\ \A e \in ToSet(Replays(n)) : e.kind = "replayed"
  <1>1. \A i \in 1 .. n : Event("replayed", i, "none") \in Events
    BY EventTypes
  <1>2. \A i : Event("replayed", i, "none").kind = "replayed"
    BY DEF Event
  <1> DEFINE e(i) == Event("replayed", i, "none")
             s == [i \in 1 .. n |-> e(i)]
  <1> HIDE DEF e
  <1>3. s \in Seq(Events) /\ DOMAIN s = 1 .. n /\ \A i \in 1 .. n : s[i] = e(i)
    BY <1>1 DEF e
  <1>4. \A i \in 1 .. n : s[i].kind = "replayed"
    BY <1>2, <1>3 DEF e
  <1> QED
    BY <1>3, <1>4 DEF ToSet, Replays, e

\* The first state is well typed.
LEMMA InitTypes == Init => TypeOK
  <1> SUFFICES ASSUME Init
               PROVE  TypeOK
    OBVIOUS
  <1>1. forward \in Seq(Events)
    <2>1. CASE ~ resumed
      BY <2>1 DEF Init
    <2>2. CASE resumed
      <3>1. PICK r \in 0 .. MaxReplay :
                forward = [i \in 1 .. r |-> Event("replayed", i, "none")] \o <<Marker>>
        BY <2>2 DEF Init
      <3>2. r \in Nat
        BY <3>1, PumpAssumption
      <3>3. [i \in 1 .. r |-> Event("replayed", i, "none")] \in Seq(Events)
        BY <3>2, EventTypes
      <3>4. <<Marker>> \in Seq(Events)
        BY EventTypes
      <3> QED
        BY <3>1, <3>3, <3>4
    <2> QED
      BY <2>1, <2>2
  <1>2. /\ << >> \in Seq(Events) /\ << >> \in Seq(Outcomes) /\ Len(<< >>) = 0
        /\ << >> \in Seq([turns : Nat, outcome : Outcomes])
    OBVIOUS
  <1>3. 0 \in 0 .. MaxChunks /\ 0 \in 0 .. MaxTurns /\ 0 <= Budget + 1
    BY PumpAssumption
  <1>4. resumed \in BOOLEAN /\ connected \in BOOLEAN /\ superseded \in BOOLEAN
    BY DEF Init
  <1>5. up \in BOOLEAN
    BY <1>4 DEF Init, Armed
  <1>6. /\ reply = << >> /\ batch = << >> /\ recorded = << >> /\ reported = << >>
        /\ settledAs = << >> /\ turns = 0 /\ chunks = 0 /\ seen = 0 /\ last = 0
        /\ owed = {} /\ settled = {}
        /\ more = FALSE /\ fenceDone = FALSE /\ gone = FALSE /\ pc = "check"
        /\ turnBase \in Bases
    BY DEF Init
  <1>7. /\ chunks \in 0 .. MaxChunks /\ turns \in 0 .. MaxTurns
        /\ owed \subseteq 1 .. turns /\ seen \in 0 .. turns /\ last \in 0 .. seen
        /\ settled \subseteq [count : 1 .. turns, outcome : Outcomes]
    BY <1>3, <1>6
  <1>8. /\ reply \in Seq(Events) /\ batch \in Seq(Events) /\ recorded \in Seq(Events)
        /\ settledAs \in Seq(Outcomes) /\ Len(settledAs) = turns /\ Len(batch) <= Budget + 1
        /\ reported \in Seq([turns : Nat, outcome : Outcomes])
    <2>1. reply \in Seq(Events) /\ batch \in Seq(Events) /\ recorded \in Seq(Events)
      BY <1>2, <1>6
    <2>2. settledAs \in Seq(Outcomes) /\ reported \in Seq([turns : Nat, outcome : Outcomes])
      BY <1>2, <1>6
    <2> QED
      BY <1>2, <1>3, <1>6, <2>1, <2>2
  <1> QED
    BY <1>1, <1>4, <1>5, <1>6, <1>7, <1>8 DEF TypeOK

\* What a cycle has at hand (the tail drained once a turn has ended included).
LEMMA CollectedTypes ==
    ASSUME TypeOK
    PROVE  /\ Collected \in Seq(Events)
           /\ Visible \in Seq(Events)
           /\ ToSet(Visible) \subseteq ToSet(Collected)
           /\ TurnEnded \in BOOLEAN
  <1>1. Collected \in Seq(Events)
    BY DEF TypeOK, Collected
  <1> QED
    BY <1>1, SelectElements DEF Visible, TurnEnded

\* The place of the marker is its first one.
LEMMA MarkerPlace ==
    ASSUME TypeOK
    PROVE  /\ MarkerIndex \in 0 .. Len(Visible)
           /\ MarkerIndex = 0 => Marker \notin ToSet(Visible)
           /\ MarkerIndex # 0 =>
                /\ Visible[MarkerIndex] = Marker
                /\ \A i \in 1 .. MarkerIndex - 1 : Visible[i] # Marker
  <1> DEFINE s == Visible
             I == {i \in 1 .. Len(s) : s[i] = Marker}
  <1>1. s \in Seq(Events) /\ Len(s) \in Nat /\ DOMAIN s = 1 .. Len(s)
    BY CollectedTypes
  <1>2. MarkerIndex = IF I # {} THEN Min(I) ELSE 0
    BY DEF MarkerIndex, SelectInSeq
  <1> HIDE DEF s
  <1>3. CASE I = {}
    BY <1>1, <1>2, <1>3 DEF ToSet, s
  <1>4. CASE I # {}
    <2>0. I \in SUBSET Nat
      BY <1>1
    <2>1. PICK m \in I : \A i \in I : m <= i
      <3> HIDE DEF I
      <3> QED
        BY <1>4, <2>0, SmallestMember
    <2>2. \A i \in I : (\A j \in I : i <= j) => i = m
      BY <1>1, <2>1
    <2>3. Min(I) = m
      BY <2>1, <2>2 DEF Min
    <2>4. MarkerIndex = m
      BY <1>2, <1>4, <2>3
    <2>5. \A i \in 1 .. m - 1 : i \notin I
      BY <1>1, <2>1
    <2> QED
      BY <1>1, <2>1, <2>4, <2>5 DEF s
  <1> QED
    BY <1>3, <1>4

\* What the fence lets through of a batch, and what it drops before it: only while it is
\* up, and never the marker (ReplayFence::on_batch).
LEMMA PassedOrDropped ==
    ASSUME TypeOK
    PROVE  /\ Passed \in Seq(Events)
           /\ \E d \in Seq(Events) :
                /\ Visible = d \o Passed
                /\ Marker \notin ToSet(d)
                /\ ~ up => d = << >>
           /\ up /\ MarkerIndex # 0 => Passed # << >> /\ Head(Passed) = Marker
           /\ up /\ ~ Clears => Passed = << >>
  <1> DEFINE s == Visible
             m == MarkerIndex
  <1>1. s \in Seq(Events) /\ Len(s) \in Nat /\ DOMAIN s = 1 .. Len(s)
    BY CollectedTypes
  <1>2. m \in 0 .. Len(s) /\ (m = 0 => Marker \notin ToSet(s))
        /\ (m # 0 => s[m] = Marker /\ \A i \in 1 .. m - 1 : s[i] # Marker)
    BY MarkerPlace
  <1>3. << >> \in Seq(Events) /\ << >> \o s = s /\ s \o << >> = s /\ ToSet(<< >>) = {}
    BY <1>1, ConcatEmptySeq DEF ToSet
  <1>4. TurnEnded \in BOOLEAN /\ up \in BOOLEAN
    BY CollectedTypes DEF TypeOK
  <1>5. Passed = IF ~ up THEN s ELSE IF m # 0 THEN SubSeq(s, m, Len(s))
                 ELSE IF TurnEnded THEN s ELSE << >>
    BY <1>4 DEF Passed, FromMarker
  <1>6. Clears <=> m # 0 \/ TurnEnded
    BY DEF Clears
  <1> HIDE DEF s, m
  <1>7. CASE up /\ m # 0
    <2> DEFINE d == SubSeq(s, 1, m - 1)
               p == SubSeq(s, m, Len(s))
    <2>1. /\ d \in Seq(Events) /\ Len(d) = m - 1 /\ \A i \in 1 .. m - 1 : d[i] = s[i]
      <3>1. \A i \in 1 .. m - 1 : s[i] \in Events
        BY <1>1, <1>2, <1>7
      <3>2. m - 1 \in Int /\ m - 1 >= 0
        BY <1>1, <1>2, <1>7
      <3> QED
        BY <1>1, <1>2, <1>7, <3>1, <3>2, SubSeqProperties
    <2>2. /\ p \in Seq(Events) /\ Len(p) = Len(s) - m + 1 /\ p[1] = s[m]
      <3>1. \A i \in m .. Len(s) : s[i] \in Events
        BY <1>1, <1>2, <1>7
      <3>2. m \in Int /\ Len(s) \in Int /\ m <= Len(s) /\ 1 \in 1 .. Len(s) - m + 1
        BY <1>1, <1>2, <1>7
      <3>3. /\ p \in Seq(Events) /\ Len(p) = Len(s) - m + 1
            /\ \A i \in 1 .. Len(s) - m + 1 : p[i] = s[m + i - 1]
        BY <3>1, <3>2, SubSeqProperties
      <3>4. m + 1 - 1 = m
        BY <3>2
      <3> QED
        BY <3>2, <3>3, <3>4
    <2>3. d \o p = s
      <3>1. 1 \in 1 .. Len(s) + 1 /\ m - 1 \in 1 - 1 .. Len(s) /\ Len(s) \in m - 1 .. Len(s)
        BY <1>1, <1>2, <1>7
      <3>2. SubSeq(s, 1, m - 1) \o SubSeq(s, (m - 1) + 1, Len(s)) = SubSeq(s, 1, Len(s))
        BY <1>1, <3>1, ConcatAdjacentSubSeq
      <3>3. (m - 1) + 1 = m /\ SubSeq(s, 1, Len(s)) = s
        BY <1>1, <1>2, SubSeqFull
      <3> QED
        BY <3>2, <3>3
    <2>4. Passed = p
      BY <1>5, <1>7
    <2> HIDE DEF d, p
    <2>5. Marker \notin ToSet(d)
      BY <1>2, <1>7, <2>1 DEF ToSet
    <2>6. p # << >> /\ Head(p) = Marker
      BY <1>1, <1>2, <1>7, <2>2
    <2> QED
      BY <1>6, <1>7, <2>1, <2>2, <2>3, <2>4, <2>5, <2>6 DEF s, m
  <1>8. CASE up /\ m = 0 /\ ~ TurnEnded
    <2>1. Passed = << >>
      BY <1>5, <1>8
    <2> QED
      BY <1>1, <1>2, <1>3, <1>8, <2>1 DEF s, m
  <1>9. CASE ~ up \/ (m = 0 /\ TurnEnded)
    <2>1. Passed = s
      BY <1>5, <1>9
    <2> QED
      BY <1>1, <1>3, <1>6, <1>9, <2>1 DEF s, m
  <1> QED
    BY <1>4, <1>7, <1>8, <1>9

(***************************************************************************)
(* The outcomes.                                                           *)
(***************************************************************************)

\* A TurnSettled says how its turn ended.
Truthful(e) == e.kind = "settled" => e.n \in 1 .. turns /\ e.outcome = settledAs[e.n]

TruthInv ==
    /\ \A e \in ToSet(forward) \cup ToSet(reply) \cup ToSet(batch) : Truthful(e)
    /\ \A s \in settled : s.outcome = settledAs[s.count]
    /\ \A r \in ToSet(reported) : r.outcome # "failed" =>
          /\ r.turns - turnBase \in 1 .. turns
          /\ r.outcome = settledAs[r.turns - turnBase]

\* The outcomes at hand are those of their turns (settled_outcomes).
LEMMA KnownTruth ==
    ASSUME TypeOK, TruthInv
    PROVE  /\ Known \subseteq [count : 1 .. turns, outcome : Outcomes]
           /\ \A s \in Known : s.outcome = settledAs[s.count]
           /\ OutcomeSeen \in Outcomes
           /\ OutcomeSeen # "failed" => seen \in 1 .. turns /\ OutcomeSeen = settledAs[seen]
  <1>1. ToSet(Collected) \subseteq ToSet(batch) \cup ToSet(reply)
    <2>1. batch \in Seq(Events) /\ reply \in Seq(Events)
      BY DEF TypeOK
    <2>2. ToSet(batch \o reply) = ToSet(batch) \cup ToSet(reply)
      BY <2>1, ElementsConcat
    <2>3. batch \o << >> = batch
      BY <2>1
    <2> QED
      BY <2>2, <2>3 DEF Collected
  <1>2. \A i \in 1 .. turns : settledAs[i] \in Outcomes
    BY DEF TypeOK
  <1>3. \A e \in ToSet(Collected) : e.kind = "settled" =>
            e.n \in 1 .. turns /\ e.outcome = settledAs[e.n]
    BY <1>1 DEF TruthInv, Truthful
  <1>4. \A s \in Known : s \in [count : 1 .. turns, outcome : Outcomes]
                         /\ s.outcome = settledAs[s.count]
    <2> TAKE s \in Known
    <2>1. CASE s \in settled
      BY <2>1 DEF TypeOK, TruthInv
    <2>2. ASSUME NEW e \in ToSet(Collected), e.kind = "settled",
                 s = [count |-> e.n, outcome |-> e.outcome]
          PROVE  s \in [count : 1 .. turns, outcome : Outcomes] /\ s.outcome = settledAs[s.count]
      BY <1>2, <1>3, <2>2
    <2> QED
      BY <2>1, <2>2 DEF Known
  <1>5. CASE seen = last + 1 /\ \E s \in Known : s.count = seen
    <2> DEFINE c == CHOOSE s \in Known : s.count = seen
    <2>1. c \in Known /\ c.count = seen
      BY <1>5
    <2>2. OutcomeSeen = c.outcome
      BY <1>5 DEF OutcomeSeen
    <2> HIDE DEF c
    <2>3. c \in [count : 1 .. turns, outcome : Outcomes] /\ c.outcome = settledAs[c.count]
      BY <1>4, <2>1
    <2> QED
      BY <1>4, <2>1, <2>2, <2>3
  <1>6. CASE ~ (seen = last + 1 /\ \E s \in Known : s.count = seen)
    <2>1. OutcomeSeen = "failed"
      BY <1>6 DEF OutcomeSeen
    <2> QED
      BY <1>4, <2>1 DEF Outcomes
  <1> QED
    BY <1>4, <1>5, <1>6

(***************************************************************************)
(* Types and outcomes hold together: a TurnSettled names a turn because it *)
(* says how that turn ended.                                               *)
(***************************************************************************)

\* What a worker's event adds to what is on its way.
LEMMA EmitSound ==
    ASSUME TypeOK, TruthInv, NEW e \in Events, Emit(e), Truthful(e),
           UNCHANGED <<reply, batch, turns, settledAs>>
    PROVE  /\ forward' \in Seq(Events)
           /\ \A f \in (ToSet(forward) \cup ToSet(reply) \cup ToSet(batch))' : Truthful(f)'
  <1>1. forward' \in Seq(Events) /\ ToSet(forward') = ToSet(forward) \cup {e}
    BY AppendElements DEF Emit, TypeOK
  <1> QED
    BY <1>1 DEF TruthInv, Truthful

\* The worker's steps and those of its surroundings.
LEMMA WorkerSound ==
    ASSUME TypeOK, TruthInv,
           \/ Chunk \/ (\E outcome \in Outcomes : TurnEnds(outcome))
           \/ (\E count \in owed : Settle(count))
           \/ Forward \/ WorkerExits \/ Supersede \/ UNCHANGED vars
    PROVE  TypeOK' /\ TruthInv'
  <1> USE DEF workerVars, queues, cycle, pump, inlet
  <1>1. CASE Chunk
    <2>1. Event("chunk", chunks', "none") \in Events /\ chunks' \in 0 .. MaxChunks
      BY <1>1, EventTypes, PumpAssumption DEF Chunk, TypeOK
    <2>2. Truthful(Event("chunk", chunks', "none"))
      BY DEF Truthful, Event
    <2>3. UNCHANGED <<reply, batch, turns, settledAs, settled, reported, turnBase>>
      BY <1>1 DEF Chunk
    <2>4. /\ forward' \in Seq(Events)
          /\ \A f \in (ToSet(forward) \cup ToSet(reply) \cup ToSet(batch))' : Truthful(f)'
      BY <1>1, <2>1, <2>2, <2>3, EmitSound DEF Chunk
    <2>5. TruthInv'
      BY <2>3, <2>4 DEF TruthInv
    <2> QED
      BY <1>1, <2>1, <2>4, <2>5 DEF Chunk, TypeOK
  <1>2. ASSUME NEW outcome \in Outcomes, TurnEnds(outcome)
        PROVE  TypeOK' /\ TruthInv'
    <2>1. /\ turns' = turns + 1 /\ turns \in Nat /\ turns' \in 0 .. MaxTurns
          /\ UNCHANGED <<resumed, turnBase, chunks, connected, queues, superseded, cycle,
                         pump, inlet>>
          /\ owed' = owed \cup {turns'}
      BY <1>2, PumpAssumption DEF TurnEnds, TypeOK
    <2>2. /\ settledAs' \in Seq(Outcomes) /\ Len(settledAs') = turns'
          /\ \A i \in 1 .. turns : settledAs'[i] = settledAs[i]
      BY <1>2, <2>1 DEF TurnEnds, TypeOK
    <2>3. 1 .. turns \subseteq 1 .. turns' /\ 0 .. turns \subseteq 0 .. turns'
      BY <2>1
    <2>4. TypeOK'
      <3>1. settled' \subseteq [count : 1 .. turns', outcome : Outcomes]
        <4>1. settled \subseteq [count : 1 .. turns, outcome : Outcomes]
          BY DEF TypeOK
        <4>2. [count : 1 .. turns, outcome : Outcomes] \subseteq [count : 1 .. turns', outcome : Outcomes]
          BY <2>3
        <4> QED
          BY <2>1, <4>1, <4>2
      <3>2. owed' \subseteq 1 .. turns'
        BY <2>1, <2>3 DEF TypeOK
      <3> QED
        BY <2>1, <2>2, <2>3, <3>1, <3>2 DEF TypeOK
    <2>5. \A e \in ToSet(forward) \cup ToSet(reply) \cup ToSet(batch) : Truthful(e)'
      BY <2>2, <2>3 DEF TruthInv, Truthful
    <2>6. \A t \in settled : t.outcome = settledAs'[t.count]
      BY <2>2 DEF TruthInv, TypeOK
    <2>7. \A r \in ToSet(reported) : r.outcome # "failed" =>
              r.turns - turnBase \in 1 .. turns' /\ r.outcome = settledAs'[r.turns - turnBase]
      BY <2>2, <2>3 DEF TruthInv
    <2> QED
      BY <2>1, <2>4, <2>5, <2>6, <2>7 DEF TruthInv
  <1>3. ASSUME NEW count \in owed, Settle(count)
        PROVE  TypeOK' /\ TruthInv'
    <2>1. count \in 1 .. turns /\ settledAs[count] \in Outcomes /\ count \in Nat
      BY DEF TypeOK
    <2>2. Event("settled", count, settledAs[count]) \in Events
      BY <2>1, EventTypes
    <2>3. Truthful(Event("settled", count, settledAs[count]))
      BY <2>1 DEF Truthful, Event
    <2>4. UNCHANGED <<reply, batch, turns, settledAs, settled, reported, turnBase>>
      BY <1>3 DEF Settle
    <2>5. /\ forward' \in Seq(Events)
          /\ \A f \in (ToSet(forward) \cup ToSet(reply) \cup ToSet(batch))' : Truthful(f)'
      BY <1>3, <2>2, <2>3, <2>4, EmitSound DEF Settle
    <2>6. TruthInv'
      BY <2>4, <2>5 DEF TruthInv
    <2> QED
      BY <1>3, <2>5, <2>6 DEF Settle, TypeOK
  <1>4. CASE Forward
    <2>1. /\ forward \in Seq(Events) /\ forward # << >> /\ reply \in Seq(Events)
          /\ forward' = Tail(forward) /\ reply' = Append(reply, Head(forward))
          /\ UNCHANGED <<turns, settledAs, settled, reported, turnBase, batch>>
      BY <1>4 DEF Forward, TypeOK
    <2>2. Head(forward) \in Events /\ forward' \in Seq(Events) /\ reply' \in Seq(Events)
      BY <2>1
    <2>3. ToSet(forward) = ToSet(forward') \cup {Head(forward)}
      BY <2>1, TailElements
    <2>4. ToSet(reply') = ToSet(reply) \cup {Head(forward)}
      BY <2>1, <2>2, AppendElements
    <2>5. TruthInv'
      BY <2>1, <2>3, <2>4 DEF TruthInv, Truthful
    <2> QED
      BY <1>4, <2>2, <2>5 DEF Forward, TypeOK
  <1>5. CASE WorkerExits
    <2>1. forward' = << >> /\ << >> \in Seq(Events) /\ ToSet(<< >>) = {}
      BY <1>5 DEF WorkerExits, ToSet
    <2>2. TruthInv'
      BY <1>5, <2>1 DEF WorkerExits, TruthInv, Truthful
    <2> QED
      BY <1>5, <2>1, <2>2 DEF WorkerExits, TypeOK
  <1>6. CASE Supersede \/ UNCHANGED vars
    <2>1. UNCHANGED <<workerVars, queues, cycle, pump, inlet>> /\ superseded' \in BOOLEAN
      BY <1>6 DEF Supersede, vars, TypeOK
    <2>2. TypeOK'
      BY <2>1 DEF TypeOK
    <2> QED
      BY <2>1, <2>2 DEF TruthInv, Truthful
  <1> QED
    BY <1>1, <1>2, <1>3, <1>4, <1>5, <1>6

\* What a drain takes and leaves (drain up to the budget).
LEMMA DrainParts ==
    ASSUME TypeOK, Drain
    PROVE  /\ batch' \in Seq(Events) /\ Len(batch') <= Budget + 1
           /\ reply' \in Seq(Events)
           /\ ToSet(batch') \subseteq ToSet(reply) /\ ToSet(reply') \subseteq ToSet(reply)
           /\ batch' \o reply' = reply
  <1>1. reply \in Seq(Events) /\ Len(reply) \in Nat /\ Budget \in Nat
    BY PumpAssumption DEF TypeOK
  <1>2. Taken \in 0 .. Len(reply) /\ Taken <= Budget + 1
    BY <1>1 DEF Taken
  <1>3. batch' = SubSeq(reply, 1, Taken) /\ reply' = SubSeq(reply, Taken + 1, Len(reply))
    BY DEF Drain, Drained
  <1>4. SubSeq(reply, 1, Taken) \in Seq(Events) /\ ToSet(SubSeq(reply, 1, Taken)) \subseteq ToSet(reply)
    BY <1>1, <1>2, ElementsPart
  <1>5. /\ SubSeq(reply, Taken + 1, Len(reply)) \in Seq(Events)
        /\ ToSet(SubSeq(reply, Taken + 1, Len(reply))) \subseteq ToSet(reply)
    <2>1. Taken + 1 \in 1 .. Len(reply) + 1 /\ Len(reply) \in 0 .. Len(reply)
      BY <1>1, <1>2
    <2> QED
      BY <1>1, <2>1, ElementsPart
  <1>6. Len(SubSeq(reply, 1, Taken)) = Taken
    BY <1>1, <1>2
  <1>7. SubSeq(reply, 1, Taken) \o SubSeq(reply, Taken + 1, Len(reply)) = reply
    <2>1. 1 \in 1 .. Len(reply) + 1 /\ Taken \in 1 - 1 .. Len(reply) /\ Len(reply) \in Taken .. Len(reply)
      BY <1>1, <1>2
    <2>2. SubSeq(reply, 1, Taken) \o SubSeq(reply, Taken + 1, Len(reply)) = SubSeq(reply, 1, Len(reply))
      BY <1>1, <2>1, ConcatAdjacentSubSeq
    <2> QED
      BY <1>1, <2>2, SubSeqFull
  <1> QED
    BY <1>2, <1>3, <1>4, <1>5, <1>6, <1>7

\* The pump's steps.
LEMMA PumpSound ==
    ASSUME TypeOK, TruthInv, PumpStep
    PROVE  TypeOK' /\ TruthInv'
  <1> USE DEF workerVars, queues, cycle, pump, inlet
  <1>1. CASE Check
    <2>1. /\ UNCHANGED <<workerVars, queues, superseded, batch, more, seen, pump, recorded,
                         reported, fenceDone>>
          /\ pc' \in {"done", "drain"} /\ gone' \in BOOLEAN
      BY <1>1 DEF Check
    <2> QED
      BY <2>1 DEF TypeOK, TruthInv, Truthful
  <1>2. CASE Drain
    <2>1. UNCHANGED <<workerVars, forward, superseded, seen, pump, inlet>>
          /\ pc' = "count" /\ more' \in BOOLEAN
      BY <1>2 DEF Drain
    <2>2. /\ batch' \in Seq(Events) /\ Len(batch') <= Budget + 1 /\ reply' \in Seq(Events)
          /\ ToSet(batch') \subseteq ToSet(reply) /\ ToSet(reply') \subseteq ToSet(reply)
      BY <1>2, DrainParts
    <2>3. TypeOK'
      BY <2>1, <2>2 DEF TypeOK
    <2>4. TruthInv'
      BY <2>1, <2>2 DEF TruthInv, Truthful
    <2> QED
      BY <2>3, <2>4
  <1>3. CASE Count
    <2>1. UNCHANGED <<workerVars, queues, superseded, batch, more, pump, inlet>>
          /\ pc' = "emit" /\ seen' = turns
      BY <1>3 DEF Count
    <2>2. TypeOK'
      BY <2>1 DEF TypeOK
    <2> QED
      BY <2>1, <2>2 DEF TruthInv, Truthful
  <1>4. CASE Send
    <2>1. /\ UNCHANGED <<workerVars, forward, superseded, seen, gone>>
          /\ pc' = "check" /\ batch' = << >> /\ more' = FALSE
          /\ up' \in BOOLEAN /\ fenceDone' \in BOOLEAN
      BY <1>4 DEF Send, Clears, TypeOK
    <2>2. << >> \in Seq(Events) /\ Len(<< >>) = 0 /\ 0 <= Budget + 1 /\ ToSet(<< >>) = {}
      BY PumpAssumption DEF ToSet
    <2>3. reply' \in Seq(Events) /\ ToSet(reply') \subseteq ToSet(reply)
      BY <1>4, <2>2 DEF Send, TypeOK
    <2>4. recorded' \in Seq(Events)
      BY <1>4, PassedOrDropped DEF Send, TypeOK
    <2>5. /\ Known \subseteq [count : 1 .. turns, outcome : Outcomes]
          /\ \A s \in Known : s.outcome = settledAs[s.count]
          /\ OutcomeSeen \in Outcomes
          /\ OutcomeSeen # "failed" => seen \in 1 .. turns /\ OutcomeSeen = settledAs[seen]
      BY KnownTruth
    <2>6. settled' \subseteq Known
      BY <1>4 DEF Send
    <2>7. turnBase \in Nat /\ seen \in Nat
      BY PumpAssumption DEF TypeOK
    <2> DEFINE r == [turns |-> turnBase + seen, outcome |-> OutcomeSeen]
    <2>8. r \in [turns : Nat, outcome : Outcomes]
          /\ r.turns - turnBase = seen /\ r.outcome = OutcomeSeen
      BY <2>5, <2>7
    <2>9. reported' = reported \/ reported' = Append(reported, r)
      BY <1>4 DEF Send
    <2> HIDE DEF r
    <2>10. reported' \in Seq([turns : Nat, outcome : Outcomes])
           /\ ToSet(reported') \subseteq ToSet(reported) \cup {r}
      <3> DEFINE T == [turns : Nat, outcome : Outcomes]
      <3>1. reported \in Seq(T) /\ r \in T
        BY <2>8 DEF TypeOK
      <3> HIDE DEF T
      <3>2. Append(reported, r) \in Seq(T) /\ ToSet(Append(reported, r)) = ToSet(reported) \cup {r}
        BY <3>1, AppendElements
      <3>3. reported' \in Seq(T) /\ ToSet(reported') \subseteq ToSet(reported) \cup {r}
        BY <2>9, <3>1, <3>2
      <3> QED
        BY <3>3 DEF T
    <2>11. last' \in 0 .. seen
      BY <1>4, <2>7 DEF Send, TypeOK
    <2>12. TypeOK'
      <3>1. batch' \in Seq(Events) /\ Len(batch') <= Budget + 1
        BY <2>1, <2>2
      <3>2. settled' \subseteq [count : 1 .. turns, outcome : Outcomes]
        BY <2>5, <2>6
      <3> QED
        BY <2>1, <2>3, <2>4, <2>10, <2>11, <3>1, <3>2 DEF TypeOK
    <2>13. \A e \in (ToSet(forward) \cup ToSet(reply) \cup ToSet(batch))' : Truthful(e)'
      <3>1. UNCHANGED <<turns, settledAs, forward>> /\ ToSet(batch') = {}
        BY <2>1, <2>2
      <3> QED
        BY <2>3, <3>1 DEF TruthInv, Truthful
    <2>14. \A s \in settled' : s.outcome = settledAs'[s.count]
      BY <2>1, <2>5, <2>6
    <2>15. \A t \in ToSet(reported') : t.outcome # "failed" =>
              t.turns - turnBase \in 1 .. turns /\ t.outcome = settledAs[t.turns - turnBase]
      BY <2>5, <2>8, <2>10 DEF TruthInv
    <2> QED
      BY <2>1, <2>12, <2>13, <2>14, <2>15 DEF TruthInv
  <1> QED
    BY <1>1, <1>2, <1>3, <1>4 DEF PumpStep

\* So every step keeps them.
LEMMA SoundStep ==
    ASSUME TypeOK, TruthInv, [Next]_vars
    PROVE  TypeOK' /\ TruthInv'
  BY WorkerSound, PumpSound DEF Next

\* The types and the outcomes hold throughout.
LEMMA SoundAlways == Spec => [](TypeOK /\ TruthInv)
  <1>1. Init => TruthInv
    <2> SUFFICES ASSUME Init
                 PROVE  TruthInv
      OBVIOUS
    <2>1. reply = << >> /\ batch = << >> /\ reported = << >> /\ settled = {} /\ ToSet(<< >>) = {}
      BY DEF Init, ToSet
    <2>2. \A e \in ToSet(forward) : e.kind # "settled"
      <3>1. CASE ~ resumed
        BY <2>1, <3>1 DEF Init
      <3>2. CASE resumed
        <4>1. PICK n \in 0 .. MaxReplay :
                forward = [i \in 1 .. n |-> Event("replayed", i, "none")] \o <<Marker>>
          BY <3>2 DEF Init
        <4>2. n \in Nat
          BY <4>1, PumpAssumption
        <4> DEFINE s == Replays(n)
                   m == <<Marker>>
        <4>3. s \in Seq(Events) /\ \A e \in ToSet(s) : e.kind = "replayed"
          BY <4>2, ReplaysAreEvents
        <4>4. m \in Seq(Events) /\ ToSet(m) = {Marker}
          BY EventTypes DEF ToSet
        <4>5. forward = s \o m
          BY <4>1 DEF Replays
        <4> HIDE DEF s, m
        <4>6. ToSet(s \o m) = ToSet(s) \cup ToSet(m)
          BY <4>3, <4>4, ElementsConcat
        <4>7. Marker.kind = "marker"
          BY DEF Marker, Event
        <4> QED
          BY <4>3, <4>4, <4>5, <4>6, <4>7
      <3> QED
        BY <3>1, <3>2
    <2> QED
      BY <2>1, <2>2 DEF TruthInv, Truthful
  <1>2. TypeOK /\ TruthInv /\ [Next]_vars => (TypeOK /\ TruthInv)'
    BY SoundStep
  <1> QED
    BY InitTypes, <1>1, <1>2, PTL DEF Spec

\* The types, and the most a cycle takes (PUMP_EVENT_BUDGET).
THEOREM PumpTypes == Spec => []TypeOK
  BY SoundAlways, PTL

\* A turn is never reported to have ended as another one did (take_settled_outcome).
THEOREM OutcomesAreTheTurns == Spec => []OutcomeIsTheTurns
  <1>1. TruthInv => OutcomeIsTheTurns
    BY DEF TruthInv, OutcomeIsTheTurns
  <1> QED
    BY <1>1, SoundAlways, PTL

(***************************************************************************)
(* The stream.                                                             *)
(***************************************************************************)

\* One sequence after another; kept unexpanded below, where only the laws matter.
Join(s, t) == s \o t

\* The laws of joining.
LEMMA JoinLaws ==
    ASSUME NEW S
    PROVE  /\ << >> \in Seq(S)
           /\ \A s, t \in Seq(S) : Join(s, t) \in Seq(S)
           /\ \A s \in Seq(S) : Join(<< >>, s) = s /\ Join(s, << >>) = s
           /\ \A s, t, u \in Seq(S) : Join(Join(s, t), u) = Join(s, Join(t, u))
  <1>1. \A s, t \in Seq(S) : Join(s, t) \in Seq(S)
    BY DEF Join
  <1>2. \A s \in Seq(S) : Join(<< >>, s) = s /\ Join(s, << >>) = s
    BY ConcatEmptySeq DEF Join
  <1>3. \A s, t, u \in Seq(S) : Join(Join(s, t), u) = Join(s, Join(t, u))
    BY ConcatAssociative DEF Join
  <1>4. << >> \in Seq(S)
    OBVIOUS
  <1> QED
    BY <1>1, <1>2, <1>3, <1>4

\* What is selected of two sequences is selected of each.
LEMMA SelectJoin ==
    ASSUME NEW S, NEW T
    PROVE  /\ \A s \in Seq(S) : Select(s, T) \in Seq(S)
           /\ \A s, t \in Seq(S) : Select(Join(s, t), T) = Join(Select(s, T), Select(t, T))
  <1>1. ASSUME NEW s \in Seq(S)
        PROVE  Select(s, T) \in Seq(S)
    BY SelectElements
  <1>2. ASSUME NEW s \in Seq(S), NEW t \in Seq(S)
        PROVE  Select(Join(s, t), T) = Join(Select(s, T), Select(t, T))
    <2>1. Select(s \o t, T) = Select(s, T) \o Select(t, T)
      BY SelectConcat
    <2> QED
      BY <2>1 DEF Join
  <1> QED
    BY <1>1, <1>2

\* An element more.
LEMMA AppendJoin ==
    ASSUME NEW S, NEW e \in S
    PROVE  /\ <<e>> \in Seq(S)
           /\ \A s \in Seq(S) : Append(s, e) = Join(s, <<e>>)
  <1>1. <<e>> \in Seq(S)
    OBVIOUS
  <1>2. ASSUME NEW s \in Seq(S)
        PROVE  Append(s, e) = Join(s, <<e>>)
    BY AppendIsConcat DEF Join
  <1> QED
    BY <1>1, <1>2

\* What is recorded, at hand and on its way.
Stream == Join(recorded, Join(batch, Join(reply, forward)))

\* A cycle has nothing at hand before it drains.
CycleInv == pc \in {"check", "drain", "done"} => batch = << >>

\* The sequences the stream is made of.
LEMMA StreamParts ==
    ASSUME TypeOK
    PROVE  /\ recorded \in Seq(Events)
           /\ batch \in Seq(Events)
           /\ reply \in Seq(Events)
           /\ forward \in Seq(Events)
           /\ Stream \in Seq(Events)
  <1>1. recorded \in Seq(Events) /\ batch \in Seq(Events)
        /\ reply \in Seq(Events) /\ forward \in Seq(Events)
    BY DEF TypeOK
  <1> QED
    BY <1>1, JoinLaws, Zenon DEF Stream

\* What is selected of the stream is selected of its parts.
LEMMA SelectStream ==
    ASSUME TypeOK, NEW T
    PROVE  /\ Select(Stream, T) = Join(Select(recorded, T), Join(Select(batch, T),
                                      Join(Select(reply, T), Select(forward, T))))
           /\ Select(Stream, T) = Select(recorded, T) \o Select(batch, T) \o
                                      Select(reply, T) \o Select(forward, T)
  <1> DEFINE a == recorded
             b == batch
             c == reply
             d == forward
             f(s) == Select(s, T)
  <1>1. a \in Seq(Events) /\ b \in Seq(Events) /\ c \in Seq(Events) /\ d \in Seq(Events)
    BY StreamParts
  <1>2. \A s \in Seq(Events) : f(s) \in Seq(Events)
    BY SelectJoin
  <1>3. \A s, t \in Seq(Events) : f(Join(s, t)) = Join(f(s), f(t))
    BY SelectJoin
  <1>4. \A s, t \in Seq(Events) : Join(s, t) \in Seq(Events)
    BY JoinLaws
  <1>5. \A s, t, u \in Seq(Events) : Join(Join(s, t), u) = Join(s, Join(t, u))
    BY JoinLaws
  <1>6. Stream = Join(a, Join(b, Join(c, d)))
    BY DEF Stream
  <1> HIDE DEF a, b, c, d, f
  <1>7. Join(c, d) \in Seq(Events) /\ Join(b, Join(c, d)) \in Seq(Events)
    BY <1>1, <1>4
  <1>8. f(Stream) = Join(f(a), Join(f(b), Join(f(c), f(d))))
    BY <1>1, <1>3, <1>6, <1>7
  <1>9. f(a) \in Seq(Events) /\ f(b) \in Seq(Events) /\ f(c) \in Seq(Events) /\ f(d) \in Seq(Events)
    BY <1>1, <1>2
  <1>10. Join(Join(Join(f(a), f(b)), f(c)), f(d)) = Join(f(a), Join(f(b), Join(f(c), f(d))))
    BY <1>4, <1>5, <1>9
  <1>11. f(a) \o f(b) \o f(c) \o f(d) = Join(Join(Join(f(a), f(b)), f(c)), f(d))
    BY DEF Join
  <1> QED
    BY <1>8, <1>10, <1>11 DEF a, b, c, d, f

\* An event emitted comes last.
LEMMA EmitStream ==
    ASSUME TypeOK, NEW e \in Events, Emit(e), UNCHANGED <<recorded, batch, reply>>
    PROVE  Stream' = Join(Stream, <<e>>)
  <1> DEFINE u == <<e>>
  <1>1. recorded \in Seq(Events) /\ batch \in Seq(Events)
        /\ reply \in Seq(Events) /\ forward \in Seq(Events)
    BY StreamParts
  <1>2. u \in Seq(Events) /\ forward' = Join(forward, u)
    BY <1>1, AppendJoin DEF Emit
  <1> HIDE DEF u
  <1>3. /\ \A s, t \in Seq(Events) : Join(s, t) \in Seq(Events)
        /\ \A s, t, v \in Seq(Events) : Join(Join(s, t), v) = Join(s, Join(t, v))
    BY JoinLaws
  <1> DEFINE rf == Join(reply, forward)
             brf == Join(batch, rf)
  <1>5. rf \in Seq(Events) /\ Join(reply, forward') = Join(rf, u)
    BY <1>1, <1>2, <1>3
  <1> HIDE DEF rf
  <1>6. brf \in Seq(Events) /\ Join(batch, Join(rf, u)) = Join(brf, u)
    BY <1>1, <1>2, <1>3, <1>5
  <1> HIDE DEF brf
  <1>7. Join(recorded, Join(brf, u)) = Join(Join(recorded, brf), u)
    BY <1>1, <1>2, <1>3, <1>6
  <1>8. Stream' = Join(recorded, Join(batch, Join(reply, forward')))
    BY DEF Stream
  <1> QED
    BY <1>5, <1>6, <1>7, <1>8 DEF Stream, rf, brf, u

\* What is selected of the stream then.
LEMMA EmitSelected ==
    ASSUME TypeOK, NEW e \in Events, Emit(e), UNCHANGED <<recorded, batch, reply>>, NEW T
    PROVE  Select(Stream', T) = IF e \in T THEN Append(Select(Stream, T), e) ELSE Select(Stream, T)
  <1>1. Stream \in Seq(Events)
    BY StreamParts
  <1>2. Stream' = Append(Stream, e)
    <2>1. Stream' = Join(Stream, <<e>>)
      BY EmitStream
    <2> QED
      BY <1>1, <2>1, AppendJoin
  <1>3. \A s \in Seq(Events) :
           Select(Append(s, e), T) = IF e \in T THEN Append(Select(s, T), e) ELSE Select(s, T)
    BY SelectAppend
  <1> QED
    BY <1>1, <1>2, <1>3, Zenon

\* A worker that dies cuts the stream.
LEMMA ExitStream ==
    ASSUME TypeOK, WorkerExits
    PROVE  Stream' \in Seq(Events) /\ Stream = Join(Stream', forward)
  <1>1. recorded \in Seq(Events) /\ batch \in Seq(Events)
        /\ reply \in Seq(Events) /\ forward \in Seq(Events)
    BY StreamParts
  <1>2. recorded' = recorded /\ batch' = batch /\ reply' = reply /\ forward' = << >>
    BY DEF WorkerExits, inlet, cycle
  <1>3. /\ \A s, t \in Seq(Events) : Join(s, t) \in Seq(Events)
        /\ \A s, t, v \in Seq(Events) : Join(Join(s, t), v) = Join(s, Join(t, v))
        /\ \A s \in Seq(Events) : Join(s, << >>) = s
    BY JoinLaws
  <1>4. Stream' = Join(recorded, Join(batch, reply))
    BY <1>1, <1>2, <1>3 DEF Stream
  <1> QED
    BY <1>1, <1>3, <1>4 DEF Stream

\* The other steps but Send leave it as it is.
LEMMA SameStream ==
    ASSUME TypeOK, CycleInv,
           \/ \E outcome \in Outcomes : TurnEnds(outcome)
           \/ Forward \/ Supersede \/ Check \/ Drain \/ Count \/ UNCHANGED vars
    PROVE  Stream' = Stream
  <1>1. recorded \in Seq(Events) /\ batch \in Seq(Events)
        /\ reply \in Seq(Events) /\ forward \in Seq(Events)
    BY StreamParts
  <1>2. /\ \A s, t \in Seq(Events) : Join(s, t) \in Seq(Events)
        /\ \A s, t, v \in Seq(Events) : Join(Join(s, t), v) = Join(s, Join(t, v))
        /\ \A s \in Seq(Events) : Join(<< >>, s) = s
    BY JoinLaws
  <1>3. CASE \/ \E outcome \in Outcomes : TurnEnds(outcome)
             \/ Supersede \/ Check \/ Count \/ UNCHANGED vars
    <2>1. recorded' = recorded /\ batch' = batch /\ reply' = reply /\ forward' = forward
      BY <1>3 DEF TurnEnds, Supersede, Check, Count, vars, queues, cycle, inlet
    <2> QED
      BY <2>1 DEF Stream
  <1>4. CASE Forward
    <2>1. /\ forward # << >> /\ forward' = Tail(forward)
          /\ reply' = Append(reply, Head(forward)) /\ recorded' = recorded /\ batch' = batch
      BY <1>4 DEF Forward, cycle, inlet
    <2> DEFINE h == <<Head(forward)>>
               t == Tail(forward)
    <2>2. h \in Seq(Events) /\ t \in Seq(Events) /\ forward = Join(h, t)
      BY <1>1, <2>1 DEF Join
    <2>3. reply' = Join(reply, h)
      <3>1. Head(forward) \in Events
        BY <1>1, <2>1
      <3> QED
        BY <1>1, <2>1, <3>1, AppendJoin
    <2>4. forward' = t
      BY <2>1
    <2> HIDE DEF h, t
    <2>5. Join(reply', forward') = Join(reply, forward)
      BY <1>1, <1>2, <2>2, <2>3, <2>4
    <2> QED
      BY <2>1, <2>5 DEF Stream
  <1>5. CASE Drain
    <2>1. batch = << >> /\ recorded' = recorded /\ forward' = forward
      BY <1>5 DEF Drain, CycleInv, inlet
    <2>2. batch' \in Seq(Events) /\ reply' \in Seq(Events) /\ Join(batch', reply') = reply
      BY <1>5, DrainParts DEF Join
    <2>3. Join(batch', Join(reply', forward)) = Join(batch, Join(reply, forward))
      BY <1>1, <1>2, <2>1, <2>2
    <2> QED
      BY <2>1, <2>3 DEF Stream
  <1> QED
    BY <1>3, <1>4, <1>5

(***************************************************************************)
(* The fence.                                                              *)
(***************************************************************************)

\* It is up only before anything is recorded; down without a turn's end, the marker was
\* recorded first.
FenceInv ==
    /\ up => Armed /\ recorded = << >>
    /\ Armed /\ ~ up /\ reported = << >> => recorded # << >> /\ Head(recorded) = Marker

\* A cycle's end keeps that.
LEMMA SendFence ==
    ASSUME TypeOK, FenceInv, Send
    PROVE  FenceInv'
  <1>1. /\ recorded \in Seq(Events) /\ Passed \in Seq(Events)
        /\ up /\ MarkerIndex # 0 => Passed # << >> /\ Head(Passed) = Marker
        /\ up /\ ~ Clears => Passed = << >>
    BY PassedOrDropped DEF TypeOK
  <1>2. recorded' = recorded \o Passed /\ up' = (up /\ ~ Clears) /\ Armed' = Armed
    BY DEF Send, Armed, workerVars
  <1>3. up \in BOOLEAN /\ (Clears <=> MarkerIndex # 0 \/ TurnEnded)
    BY DEF TypeOK, Clears
  <1>4. up' => Armed' /\ recorded' = << >>
    <2>1. << >> \o << >> = << >>
      OBVIOUS
    <2>2. ASSUME up'
          PROVE  Armed /\ recorded = << >> /\ Passed = << >>
      BY <1>1, <1>2, <2>2 DEF FenceInv
    <2> QED
      BY <1>2, <2>1, <2>2
  <1>5. ASSUME Armed', ~ up', reported' = << >>
        PROVE  recorded' # << >> /\ Head(recorded') = Marker
    <2>1. ~ TurnEnded /\ reported = << >>
      <3>1. CASE TurnEnded
        <4> DEFINE r == [turns |-> turnBase + seen, outcome |-> OutcomeSeen]
                   T == [turns : Nat, outcome : Outcomes]
        <4>1. reported' = Append(reported, r)
          BY <3>1 DEF Send
        <4>2. reported \in Seq(T)
          BY DEF TypeOK
        <4> HIDE DEF r, T
        <4> QED
          BY <1>5, <4>1, <4>2
      <3>2. CASE ~ TurnEnded
        BY <1>5, <3>2 DEF Send
      <3> QED
        BY <3>1, <3>2
    <2>2. CASE ~ up
      <3>1. recorded # << >> /\ Head(recorded) = Marker
        BY <1>2, <1>5, <2>1, <2>2 DEF FenceInv
      <3> QED
        BY <1>1, <1>2, <3>1
    <2>3. CASE up
      <3>1. MarkerIndex # 0 /\ recorded = << >>
        BY <1>2, <1>3, <1>5, <2>1, <2>3 DEF FenceInv
      <3>2. << >> \o Passed = Passed
        BY <1>1, ConcatEmptySeq
      <3> QED
        BY <1>1, <1>2, <2>3, <3>1, <3>2
    <2> QED
      BY <1>3, <2>2, <2>3
  <1> QED
    BY <1>4, <1>5 DEF FenceInv

\* A cycle's end takes out of the stream what the fence drops, and nothing of it was
\* recorded before; of what a batch shows nothing else is taken.
LEMMA SendStream ==
    ASSUME TypeOK, FenceInv, Send, NEW T, T \subseteq OfKinds({"replayed", "marker", "chunk"})
    PROVE  /\ Stream' \in Seq(Events)
           /\ \E d \in Seq(Events) :
                /\ Marker \notin ToSet(d)
                /\ d # << >> => up
                /\ Select(Stream, T) = Join(Select(d, T), Select(Stream', T))
  <1> DEFINE rest == Join(reply', forward)
             a == recorded
             p == Passed
             v == Visible
             c == Collected
             f(s) == Select(s, T)
  <1>1. /\ a \in Seq(Events) /\ batch \in Seq(Events)
        /\ reply \in Seq(Events) /\ forward \in Seq(Events)
    BY StreamParts
  <1>2. PICK d \in Seq(Events) :
           v = Join(d, p) /\ Marker \notin ToSet(d) /\ (~ up => d = << >>)
    BY PassedOrDropped DEF Join
  <1>3. p \in Seq(Events)
    BY PassedOrDropped
  <1>4. c \in Seq(Events) /\ TurnEnded \in BOOLEAN
    BY CollectedTypes
  <1>5. f(v) = f(c)
    BY <1>4, SelectTwice DEF Visible
  <1>6. /\ << >> \in Seq(Events)
        /\ \A s, t \in Seq(Events) : Join(s, t) \in Seq(Events)
        /\ \A s, t, u \in Seq(Events) : Join(Join(s, t), u) = Join(s, Join(t, u))
        /\ \A s \in Seq(Events) : Join(s, << >>) = s /\ Join(<< >>, s) = s
    BY JoinLaws
  <1>7. /\ \A s \in Seq(Events) : f(s) \in Seq(Events)
        /\ \A s, t \in Seq(Events) : f(Join(s, t)) = Join(f(s), f(t))
    BY SelectJoin
  <1>8. f(<< >>) = << >>
    BY SelectNothing
  <1>9. /\ reply' = IF TurnEnded THEN << >> ELSE reply
        /\ c = Join(batch, IF TurnEnded THEN reply ELSE << >>)
        /\ recorded' = Join(a, p) /\ batch' = << >> /\ forward' = forward
    BY DEF Send, Collected, Join
  <1>10. d # << >> => a = << >>
    BY <1>2 DEF FenceInv
  <1> HIDE DEF a, p, v, c, f
  <1>11. reply' \in Seq(Events) /\ Join(batch, Join(reply, forward)) = Join(c, Join(reply', forward))
    <2>1. CASE TurnEnded
      BY <1>1, <1>6, <1>9, <2>1
    <2>2. CASE ~ TurnEnded
      BY <1>1, <1>6, <1>9, <2>2
    <2> QED
      BY <2>1, <2>2
  <1>12. rest \in Seq(Events)
    BY <1>1, <1>6, <1>11
  <1>13. Stream = Join(a, Join(c, rest))
    BY <1>11 DEF Stream, a
  <1>14. Stream' = Join(Join(a, p), Join(<< >>, Join(reply', forward)))
    BY <1>9 DEF Stream
  <1> HIDE DEF rest
  <1>15. Stream' = Join(a, Join(p, rest))
    BY <1>1, <1>3, <1>6, <1>12, <1>14 DEF rest
  <1>16. Stream' \in Seq(Events)
    BY <1>1, <1>3, <1>6, <1>12, <1>15
  <1>17. f(Stream) = Join(f(a), Join(Join(f(d), f(p)), f(rest)))
    <2>1. f(c) = Join(f(d), f(p))
      BY <1>2, <1>3, <1>5, <1>7
    <2>2. Join(c, rest) \in Seq(Events)
      BY <1>4, <1>6, <1>12
    <2>3. f(Join(c, rest)) = Join(f(c), f(rest))
      BY <1>4, <1>7, <1>12
    <2> QED
      BY <1>1, <1>7, <1>13, <2>1, <2>2, <2>3
  <1>18. f(Stream') = Join(f(a), Join(f(p), f(rest)))
    <2>1. Join(p, rest) \in Seq(Events) /\ f(Join(p, rest)) = Join(f(p), f(rest))
      BY <1>3, <1>6, <1>7, <1>12
    <2> QED
      BY <1>1, <1>7, <1>15, <2>1
  <1>19. f(a) \in Seq(Events) /\ f(d) \in Seq(Events) /\ f(p) \in Seq(Events) /\ f(rest) \in Seq(Events)
    BY <1>1, <1>3, <1>7, <1>12
  <1>20. f(Stream) = Join(f(d), f(Stream'))
    <2>1. Join(Join(f(d), f(p)), f(rest)) = Join(f(d), Join(f(p), f(rest)))
          /\ Join(f(p), f(rest)) \in Seq(Events)
      BY <1>6, <1>19
    <2>2. CASE d = << >>
      BY <1>6, <1>8, <1>17, <1>18, <1>19, <2>1, <2>2
    <2>3. CASE d # << >>
      BY <1>6, <1>8, <1>10, <1>17, <1>18, <1>19, <2>1, <2>3
    <2> QED
      BY <2>2, <2>3
  <1> QED
    BY <1>2, <1>16, <1>20 DEF f

(***************************************************************************)
(* What is said live.                                                      *)
(***************************************************************************)

\* The live events of a worker, without the marker.
Said(n) == [i \in 1 .. n |-> Event("chunk", i, "none")]

\* What it has said grows at its end.
LEMMA EmittedGrows ==
    ASSUME NEW n \in Nat
    PROVE  /\ Said(n) \in Seq(Events)
           /\ Said(n + 1) = Append(Said(n), Event("chunk", n + 1, "none"))
           /\ Said(0) = << >>
  <1> DEFINE e(i) == Event("chunk", i, "none")
             s(m) == [i \in 1 .. m |-> e(i)]
  <1>1. \A i \in Nat : e(i) \in Events
    BY EventTypes
  <1> HIDE DEF e
  <1>2. s(n) \in Seq(Events) /\ Len(s(n)) = n
    BY <1>1
  <1>3. s(n + 1) = Append(s(n), e(n + 1))
    <2>1. s(n + 1) \in Seq(Events) /\ Len(s(n + 1)) = n + 1
      BY <1>1
    <2>2. Append(s(n), e(n + 1)) \in Seq(Events) /\ Len(Append(s(n), e(n + 1))) = n + 1
      BY <1>1, <1>2
    <2>3. \A i \in 1 .. n + 1 : s(n + 1)[i] = Append(s(n), e(n + 1))[i]
      BY <1>1, <1>2
    <2> HIDE DEF s
    <2> QED
      BY <2>1, <2>2, <2>3, SeqEqual
  <1>4. s(0) = << >>
    OBVIOUS
  <1> QED
    BY <1>2, <1>3, <1>4 DEF Said, e

\* The kinds a selection tells apart.
LEMMA Kinds ==
    ASSUME NEW kinds, NEW n \in Nat, NEW outcome \in Outcomes
    PROVE  /\ Event("replayed", n, "none") \in OfKinds(kinds) <=> "replayed" \in kinds
           /\ Event("chunk", n, "none") \in OfKinds(kinds) <=> "chunk" \in kinds
           /\ Event("settled", n, outcome) \in OfKinds(kinds) <=> "settled" \in kinds
           /\ Marker \in OfKinds(kinds) <=> "marker" \in kinds
  BY DEF Event, OfKinds, Marker

\* NothingLiveLost, said of the stream.
LiveInv ==
    /\ IsPrefix(Live(Stream), Emitted)
    /\ connected => Live(Stream) = Emitted

\* The sequences it compares.
LEMMA LiveTypes ==
    ASSUME TypeOK
    PROVE  /\ Live(Stream) \in Seq(Events)
           /\ Emitted \in Seq(Events)
           /\ IsPrefix(Emitted, Emitted)
           /\ resumed => Emitted # << >> /\ Head(Emitted) = Marker
  <1>1. Live(Stream) \in Seq(Events)
    BY StreamParts, SelectElements DEF Live
  <1>2. Said(chunks) \in Seq(Events)
    BY EmittedGrows DEF TypeOK
  <1>3. Emitted = (IF resumed THEN <<Marker>> ELSE << >>) \o Said(chunks)
    BY DEF Emitted, Said
  <1>4. Marker \in Events
    BY EventTypes
  <1>5. Emitted \in Seq(Events) /\ (resumed => Emitted # << >> /\ Head(Emitted) = Marker)
    <2> DEFINE s == Said(chunks)
    <2>1. s \in Seq(Events) /\ Emitted = (IF resumed THEN <<Marker>> ELSE << >>) \o s
      BY <1>2, <1>3
    <2> HIDE DEF s
    <2> QED
      BY <1>4, <2>1
  <1>6. IsPrefix(Emitted, Emitted)
    BY <1>5, PrefixElements
  <1> QED
    BY <1>1, <1>5, <1>6

\* It says what NothingLiveLost says.
LEMMA LiveIsNothingLost ==
    ASSUME TypeOK
    PROVE  LiveInv <=> NothingLiveLost
  <1>1. Live(Stream) = Live(recorded) \o Live(batch) \o Live(reply) \o Live(forward)
    BY SelectStream DEF Live
  <1> QED
    BY <1>1 DEF LiveInv, NothingLiveLost

\* At the start only a marker may be on its way.
LEMMA LiveInit ==
    ASSUME Init
    PROVE  LiveInv
  <1>1. TypeOK
    BY InitTypes
  <1>2. Stream = forward /\ forward \in Seq(Events) /\ chunks = 0 /\ resumed \in BOOLEAN
    <2>1. recorded = << >> /\ batch = << >> /\ reply = << >>
      BY DEF Init
    <2>2. forward \in Seq(Events)
      BY <1>1, StreamParts
    <2> QED
      BY <2>1, <2>2, JoinLaws DEF Stream, Init
  <1>3. Live(forward) = IF resumed THEN <<Marker>> ELSE << >>
    <2>1. CASE ~ resumed
      BY <2>1, SelectNothing DEF Init, Live
    <2>2. CASE resumed
      <3>1. PICK n \in 0 .. MaxReplay :
                forward = [i \in 1 .. n |-> Event("replayed", i, "none")] \o <<Marker>>
        BY <2>2 DEF Init
      <3> DEFINE s == Replays(n)
                 T == OfKinds({"marker", "chunk"})
      <3>2. s \in Seq(Events) /\ \A e \in ToSet(s) : e.kind = "replayed"
        BY <3>1, PumpAssumption, ReplaysAreEvents
      <3>3. ToSet(s) \cap T = {}
        BY <3>2 DEF OfKinds
      <3>4. Marker \in T /\ Marker \in Events
        BY EventTypes, Kinds DEF Marker, Event, OfKinds
      <3>5. forward = Append(s, Marker)
        <4>1. forward = s \o <<Marker>>
          BY <3>1 DEF Replays
        <4> HIDE DEF s
        <4> QED
          BY <3>2, <3>4, <4>1, AppendIsConcat
      <3>6. Select(s, T) = << >>
        BY <3>2, <3>3, SelectNone
      <3>7. Select(Append(s, Marker), T) = Append(Select(s, T), Marker)
        BY <3>2, <3>4, SelectAppend
      <3>8. Append(<< >>, Marker) = <<Marker>>
        OBVIOUS
      <3> QED
        BY <2>2, <3>5, <3>6, <3>7, <3>8 DEF Live
    <2> QED
      BY <1>2, <2>1, <2>2
  <1>4. Emitted = IF resumed THEN <<Marker>> ELSE << >>
    <2>1. Said(0) = << >>
      BY EmittedGrows
    <2>2. Emitted = (IF resumed THEN <<Marker>> ELSE << >>) \o << >>
      BY <1>2, <2>1 DEF Emitted, Said
    <2>3. <<Marker>> \o << >> = <<Marker>> /\ << >> \o << >> = << >>
      OBVIOUS
    <2> QED
      BY <1>2, <2>2, <2>3
  <1>5. Live(Stream) = Emitted
    BY <1>2, <1>3, <1>4
  <1>6. IsPrefix(Emitted, Emitted)
    BY <1>1, LiveTypes
  <1> QED
    BY <1>5, <1>6 DEF LiveInv

\* A sequence is a prefix of itself.
LEMMA PrefixSelf ==
    ASSUME NEW S, NEW s \in Seq(S)
    PROVE  IsPrefix(s, s)
  BY PrefixElements

\* An event of the worker: a chunk is live, a TurnSettled is not.
LEMMA LiveEvents ==
    ASSUME TypeOK, LiveInv, Chunk \/ \E count \in owed : Settle(count)
    PROVE  LiveInv'
  <1> DEFINE T == OfKinds({"marker", "chunk"})
  <1>1. /\ Stream \in Seq(Events) /\ Select(Stream, T) = Emitted /\ Emitted \in Seq(Events)
        /\ connected' = connected
    BY StreamParts, LiveTypes DEF LiveInv, Chunk, Settle, Live
  <1>2. SUFFICES Select(Stream', T) = Emitted' /\ Emitted' \in Seq(Events)
    <2>1. ASSUME Emitted' \in Seq(Events)
          PROVE  IsPrefix(Emitted', Emitted')
      BY <2>1, PrefixSelf
    <2> QED
      BY <2>1 DEF LiveInv, Live
  <1>3. ASSUME NEW e \in Events, Emit(e), UNCHANGED <<recorded, batch, reply>>
        PROVE  Select(Stream', T) = IF e \in T THEN Append(Emitted, e) ELSE Emitted
    BY <1>1, <1>3, EmitSelected
  <1>4. CASE Chunk
    <2> DEFINE e == Event("chunk", chunks + 1, "none")
               m == IF resumed THEN <<Marker>> ELSE << >>
               s == Said(chunks)
    <2>1. chunks \in Nat /\ chunks + 1 \in Nat
      BY DEF TypeOK
    <2>2. e \in Events
      BY <2>1, EventTypes
    <2>3. e \in T
      BY <2>1 DEF Event, OfKinds
    <2>4. chunks' = chunks + 1 /\ resumed' = resumed /\ Emit(e)
          /\ UNCHANGED <<recorded, batch, reply>>
      BY <1>4 DEF Chunk, cycle, inlet
    <2>5. s \in Seq(Events) /\ Said(chunks + 1) = Append(s, e)
      BY <2>1, EmittedGrows
    <2>6. m \in Seq(Events)
      BY EventTypes
    <2>7. Emitted = m \o s /\ Emitted' = m \o Said(chunks + 1)
      BY <2>4 DEF Emitted, Said
    <2> HIDE DEF m, s, e, T
    <2>8. m \o Append(s, e) = Append(m \o s, e) /\ Append(m \o s, e) \in Seq(Events)
      <3>1. /\ \A x, y \in Seq(Events) : Join(x, y) \in Seq(Events)
            /\ \A x, y, z \in Seq(Events) : Join(Join(x, y), z) = Join(x, Join(y, z))
        BY JoinLaws
      <3>2. /\ <<e>> \in Seq(Events)
            /\ \A x \in Seq(Events) : Append(x, e) = Join(x, <<e>>)
        BY <2>2, AppendJoin
      <3> DEFINE u == <<e>>
      <3>3. u \in Seq(Events) /\ \A x \in Seq(Events) : Append(x, e) = Join(x, u)
        BY <3>2
      <3> HIDE DEF u
      <3>4. Join(m, s) \in Seq(Events) /\ Join(m, Join(s, u)) = Join(Join(m, s), u)
            /\ Join(Join(m, s), u) \in Seq(Events)
        BY <2>5, <2>6, <3>1, <3>3
      <3>5. Append(s, e) = Join(s, u) /\ Append(Join(m, s), e) = Join(Join(m, s), u)
        BY <2>5, <3>4, <3>3
      <3> QED
        BY <3>4, <3>5 DEF Join
    <2>9. Select(Stream', T) = Append(Emitted, e)
      BY <1>3, <2>2, <2>3, <2>4
    <2> QED
      BY <2>5, <2>7, <2>8, <2>9
  <1>5. ASSUME NEW count \in owed, Settle(count)
        PROVE  Select(Stream', T) = Emitted' /\ Emitted' \in Seq(Events)
    <2> DEFINE e == Event("settled", count, settledAs[count])
    <2>1. count \in Nat /\ settledAs[count] \in Outcomes
      BY DEF TypeOK
    <2>2. e \in Events
      BY <2>1, EventTypes
    <2>3. e \notin T
      BY DEF Event, OfKinds
    <2>4. Emit(e) /\ UNCHANGED <<recorded, batch, reply, resumed, chunks>>
      BY <1>5 DEF Settle, cycle, inlet
    <2>5. Emitted' = Emitted
      BY <2>4 DEF Emitted
    <2> HIDE DEF e, T
    <2>6. Select(Stream', T) = Emitted
      BY <1>3, <2>2, <2>3, <2>4
    <2> QED
      BY <1>1, <2>5, <2>6
  <1> QED
    BY <1>4, <1>5

\* A worker that dies cuts off the end.
LEMMA LiveExit ==
    ASSUME TypeOK, LiveInv, WorkerExits
    PROVE  LiveInv'
  <1> DEFINE T == OfKinds({"marker", "chunk"})
  <1>1. Emitted' = Emitted /\ ~ connected' /\ Emitted \in Seq(Events)
    BY LiveTypes DEF WorkerExits, Emitted
  <1>2. Stream' \in Seq(Events) /\ Stream = Join(Stream', forward) /\ forward \in Seq(Events)
    BY ExitStream, StreamParts
  <1>3. /\ Select(Stream', T) \in Seq(Events) /\ Select(forward, T) \in Seq(Events)
        /\ Select(Stream, T) = Join(Select(Stream', T), Select(forward, T))
    BY <1>2, SelectJoin
  <1>4. IsPrefix(Select(Stream, T), Emitted)
    BY DEF LiveInv, Live
  <1>5. IsPrefix(Select(Stream', T), Emitted)
    <2> DEFINE s == Select(Stream', T)
               u == Select(forward, T)
    <2>1. s \in Seq(Events) /\ u \in Seq(Events) /\ IsPrefix(s \o u, Emitted)
      BY <1>3, <1>4 DEF Join
    <2> HIDE DEF s, u
    <2>2. IsPrefix(s, Emitted)
      BY <1>1, <2>1, PrefixCut
    <2> QED
      BY <2>2 DEF s
  <1> QED
    BY <1>1, <1>5 DEF LiveInv, Live

\* A cycle's end: what the fence drops has nothing live in it, for the marker would be
\* the first of it.
LEMMA LiveSend ==
    ASSUME TypeOK, LiveInv, FenceInv, Send
    PROVE  LiveInv'
  <1> DEFINE T == OfKinds({"marker", "chunk"})
  <1>1. Emitted' = Emitted /\ connected' = connected /\ Emitted \in Seq(Events)
        /\ (resumed => Emitted # << >> /\ Head(Emitted) = Marker)
    BY LiveTypes DEF Send, Emitted, workerVars
  <1>2. T \subseteq OfKinds({"replayed", "marker", "chunk"})
    BY DEF OfKinds
  <1>3. PICK d \in Seq(Events) :
           /\ Marker \notin ToSet(d)
           /\ d # << >> => up
           /\ Select(Stream, T) = Join(Select(d, T), Select(Stream', T))
    BY <1>2, SendStream
  <1>4. Stream' \in Seq(Events)
    BY <1>2, SendStream
  <1>5. Select(Stream', T) \in Seq(Events) /\ Select(Stream, T) \in Seq(Events)
    BY <1>4, StreamParts, SelectElements
  <1>6. IsPrefix(Select(Stream, T), Emitted) /\ (connected => Select(Stream, T) = Emitted)
    BY DEF LiveInv, Live
  <1>7. Select(d, T) \in Seq(Events) /\ ToSet(Select(d, T)) \subseteq ToSet(d)
    BY SelectElements
  <1>8. Select(d, T) = << >>
    <2> DEFINE x == Select(d, T)
               y == Select(Stream', T)
    <2>1. SUFFICES ASSUME x # << >>
                   PROVE  FALSE
      OBVIOUS
    <2>2. d # << >>
      BY <2>1, SelectNothing
    <2>3. resumed
      BY <1>3, <2>2 DEF FenceInv, Armed
    <2>4. x \in Seq(Events) /\ y \in Seq(Events) /\ ToSet(x) \subseteq ToSet(d)
          /\ IsPrefix(x \o y, Emitted)
      BY <1>3, <1>5, <1>6, <1>7 DEF Join
    <2> HIDE DEF x, y
    <2>5. IsPrefix(x, Emitted)
      BY <1>1, <2>4, PrefixCut
    <2>6. Len(x) \in Nat /\ Len(x) >= 1 /\ \A i \in 1 .. Len(x) : x[i] = Emitted[i]
      BY <1>1, <2>1, <2>4, <2>5, PrefixElements
    <2>7. x[1] \in ToSet(x)
      BY <2>4, <2>6 DEF ToSet
    <2>8. Head(Emitted) = Emitted[1]
      BY <1>1, <2>3
    <2> QED
      BY <1>1, <1>3, <2>3, <2>4, <2>6, <2>7, <2>8
  <1>9. Select(Stream, T) = Select(Stream', T)
    BY <1>3, <1>5, <1>8, JoinLaws
  <1> QED
    BY <1>1, <1>6, <1>9 DEF LiveInv, Live

(***************************************************************************)
(* What is replayed.                                                       *)
(***************************************************************************)

\* The history an agent emits again, and the marker behind it.
HistoryKinds == OfKinds({"replayed", "marker"})

\* Nothing of it comes after the marker.
MarkerLast(h) == \A i \in 1 .. Len(h) : h[i] = Marker => i = Len(h)

HistoryInv == MarkerLast(Select(Stream, HistoryKinds))

\* A part of such a history is such a history.
LEMMA MarkerLastParts ==
    ASSUME NEW S, NEW s \in Seq(S), NEW t \in Seq(S), MarkerLast(s \o t)
    PROVE  MarkerLast(s) /\ MarkerLast(t)
  <1>1. /\ Len(s) \in Nat /\ Len(t) \in Nat
        /\ Len(s \o t) = Len(s) + Len(t)
        /\ \A i \in 1 .. Len(s) + Len(t) :
              (s \o t)[i] = IF i <= Len(s) THEN s[i] ELSE t[i - Len(s)]
    BY ConcatProperties, LenProperties
  <1>2. ASSUME NEW i \in 1 .. Len(s), s[i] = Marker
        PROVE  i = Len(s)
    <2>1. i \in 1 .. Len(s) + Len(t) /\ (s \o t)[i] = Marker
      BY <1>1, <1>2
    <2>2. i = Len(s) + Len(t)
      BY <1>1, <2>1 DEF MarkerLast
    <2> QED
      BY <1>1, <2>2
  <1>3. ASSUME NEW i \in 1 .. Len(t), t[i] = Marker
        PROVE  i = Len(t)
    <2>1. i + Len(s) \in 1 .. Len(s) + Len(t) /\ (i + Len(s)) - Len(s) = i /\ ~ (i + Len(s) <= Len(s))
      BY <1>1
    <2>2. (s \o t)[i + Len(s)] = Marker
      BY <1>1, <1>3, <2>1
    <2>3. i + Len(s) = Len(s) + Len(t)
      BY <1>1, <2>1, <2>2 DEF MarkerLast
    <2> QED
      BY <1>1, <2>3
  <1> QED
    BY <1>2, <1>3 DEF MarkerLast

\* At the start the history of a resumed agent is on its way, the marker behind it.
LEMMA HistoryInit ==
    ASSUME Init
    PROVE  HistoryInv
  <1>1. TypeOK
    BY InitTypes
  <1>2. Stream = forward /\ forward \in Seq(Events) /\ resumed \in BOOLEAN
    <2>1. recorded = << >> /\ batch = << >> /\ reply = << >>
      BY DEF Init
    <2>2. forward \in Seq(Events)
      BY <1>1, StreamParts
    <2> QED
      BY <2>1, <2>2, JoinLaws DEF Stream, Init
  <1>3. CASE ~ resumed
    <2>1. Select(forward, HistoryKinds) = << >>
      BY <1>3, SelectNothing DEF Init
    <2> QED
      BY <1>2, <2>1 DEF HistoryInv, MarkerLast
  <1>4. CASE resumed
    <2>1. PICK n \in 0 .. MaxReplay :
             forward = [i \in 1 .. n |-> Event("replayed", i, "none")] \o <<Marker>>
      BY <1>4 DEF Init
    <2> DEFINE s == Replays(n)
    <2>2. n \in Nat /\ s \in Seq(Events) /\ \A e \in ToSet(s) : e.kind = "replayed"
      BY <2>1, PumpAssumption, ReplaysAreEvents
    <2>3. Marker \in HistoryKinds /\ Marker \in Events /\ Marker.kind = "marker"
      BY EventTypes DEF Marker, Event, OfKinds, HistoryKinds
    <2>4. forward = Append(s, Marker)
      <3>1. forward = s \o <<Marker>>
        BY <2>1 DEF Replays
      <3> HIDE DEF s
      <3> QED
        BY <2>2, <2>3, <3>1, AppendIsConcat
    <2>5. ToSet(s) \subseteq HistoryKinds
      <3>1. ToSet(s) \subseteq Events
        BY <2>2 DEF ToSet
      <3> QED
        BY <2>2, <3>1 DEF HistoryKinds, Events, OfKinds
    <2>6. Select(Append(s, Marker), HistoryKinds) = Append(Select(s, HistoryKinds), Marker)
      BY <2>2, <2>3, SelectAppend
    <2>7. Select(s, HistoryKinds) = s
      BY <2>2, <2>5, SelectAll
    <2>8. \A i \in 1 .. Len(s) : s[i] # Marker
      BY <2>2, <2>3 DEF ToSet
    <2> HIDE DEF s
    <2>9. MarkerLast(Append(s, Marker))
      <3>1. Len(Append(s, Marker)) = Len(s) + 1 /\ Len(s) \in Nat
            /\ \A i \in 1 .. Len(s) : Append(s, Marker)[i] = s[i]
        BY <2>2, <2>3
      <3> QED
        BY <2>8, <3>1 DEF MarkerLast
    <2> QED
      BY <1>2, <2>4, <2>6, <2>7, <2>9 DEF HistoryInv
  <1> QED
    BY <1>2, <1>3, <1>4

\* An event of the worker is no history.
LEMMA HistoryEvents ==
    ASSUME TypeOK, HistoryInv, Chunk \/ \E count \in owed : Settle(count)
    PROVE  HistoryInv'
  <1>1. PICK e \in Events : e.kind \in {"chunk", "settled"} /\ Emit(e)
    <2>1. CASE Chunk
      <3>1. chunks + 1 \in Nat /\ chunks' = chunks + 1
        BY <2>1 DEF Chunk, TypeOK
      <3>2. Event("chunk", chunks + 1, "none") \in Events
        BY <3>1, EventTypes
      <3>3. Event("chunk", chunks + 1, "none").kind = "chunk"
        BY DEF Event
      <3> QED
        BY <2>1, <3>1, <3>2, <3>3 DEF Chunk
    <2>2. ASSUME NEW count \in owed, Settle(count)
          PROVE  \E e \in Events : e.kind \in {"chunk", "settled"} /\ Emit(e)
      <3>1. count \in Nat /\ settledAs[count] \in Outcomes
        BY DEF TypeOK
      <3>2. Event("settled", count, settledAs[count]) \in Events
        BY <3>1, EventTypes
      <3>3. Event("settled", count, settledAs[count]).kind = "settled"
        BY DEF Event
      <3> QED
        BY <2>2, <3>2, <3>3 DEF Settle
    <2> QED
      BY <2>1, <2>2
  <1>2. UNCHANGED <<recorded, batch, reply>>
    BY DEF Chunk, Settle, cycle, inlet
  <1>3. e \notin HistoryKinds
    BY <1>1 DEF HistoryKinds, OfKinds
  <1>4. Select(Stream', HistoryKinds) = Select(Stream, HistoryKinds)
    BY <1>1, <1>2, <1>3, EmitSelected
  <1> QED
    BY <1>4 DEF HistoryInv, HistoryKinds

\* A worker that dies and a cycle's end take something out of it.
LEMMA HistoryCut ==
    ASSUME TypeOK, HistoryInv, FenceInv, WorkerExits \/ Send
    PROVE  HistoryInv'
  <1>1. HistoryKinds \subseteq OfKinds({"replayed", "marker", "chunk"})
    BY DEF HistoryKinds, OfKinds
  <1>2. \E x, y \in Seq(Events) :
           /\ Select(Stream, HistoryKinds) = x \o y
           /\ Select(Stream', HistoryKinds) \in {x, y}
    <2>1. CASE WorkerExits
      <3>1. Stream' \in Seq(Events) /\ Stream = Join(Stream', forward) /\ forward \in Seq(Events)
        BY <2>1, ExitStream, StreamParts
      <3>2. /\ Select(Stream', HistoryKinds) \in Seq(Events)
            /\ Select(forward, HistoryKinds) \in Seq(Events)
            /\ Select(Stream, HistoryKinds) =
                  Join(Select(Stream', HistoryKinds), Select(forward, HistoryKinds))
        BY <3>1, SelectJoin
      <3> QED
        BY <3>2 DEF Join
    <2>2. CASE Send
      <3>1. Stream' \in Seq(Events)
        BY <1>1, <2>2, SendStream
      <3>2. PICK d \in Seq(Events) :
               Select(Stream, HistoryKinds) =
                  Join(Select(d, HistoryKinds), Select(Stream', HistoryKinds))
        BY <1>1, <2>2, SendStream
      <3>3. Select(d, HistoryKinds) \in Seq(Events) /\ Select(Stream', HistoryKinds) \in Seq(Events)
        BY <3>1, SelectElements
      <3> QED
        BY <3>2, <3>3 DEF Join
    <2> QED
      BY <2>1, <2>2
  <1>3. PICK x \in Seq(Events), y \in Seq(Events) :
           /\ Select(Stream, HistoryKinds) = x \o y
           /\ Select(Stream', HistoryKinds) \in {x, y}
    BY <1>2
  <1>4. MarkerLast(x) /\ MarkerLast(y)
    BY <1>3, MarkerLastParts DEF HistoryInv
  <1> QED
    BY <1>3, <1>4 DEF HistoryInv, HistoryKinds

\* Behind a marker that was recorded first nothing of the history is recorded.
LEMMA MarkerFirst ==
    ASSUME TypeOK, HistoryInv, recorded # << >>, Head(recorded) = Marker
    PROVE  \A e \in ToSet(recorded) : e.kind # "replayed"
  <1> DEFINE rest == Tail(recorded)
             m == <<Marker>>
             f(s) == Select(s, HistoryKinds)
  <1>1. recorded \in Seq(Events) /\ batch \in Seq(Events) /\ reply \in Seq(Events) /\ forward \in Seq(Events)
    BY StreamParts
  <1>2. rest \in Seq(Events) /\ m \in Seq(Events) /\ recorded = m \o rest
    BY <1>1, EventTypes
  <1>3. f(m) = m /\ ToSet(m) = {Marker}
    <2>1. ToSet(m) = {Marker}
      BY DEF ToSet
    <2>2. Marker \in HistoryKinds
      BY DEF Marker, Event, OfKinds, HistoryKinds
    <2> QED
      BY <1>2, <2>1, <2>2, SelectAll
  <1> HIDE DEF rest, m
  <1>4. f(recorded) = m \o f(rest) /\ f(rest) \in Seq(Events)
    <2>1. f(m \o rest) = f(m) \o f(rest)
      BY <1>2, SelectConcat
    <2> QED
      BY <1>2, <1>3, <2>1, SelectElements
  <1>5. MarkerLast(f(recorded))
    <2> DEFINE x == f(recorded)
               y == Join(f(batch), Join(f(reply), f(forward)))
    <2>1. f(Stream) = Join(x, y)
      BY SelectStream
    <2>2. x \in Seq(Events)
      BY <1>1, SelectElements
    <2>3. f(batch) \in Seq(Events) /\ f(reply) \in Seq(Events) /\ f(forward) \in Seq(Events)
      BY <1>1, SelectElements
    <2>4. y \in Seq(Events)
      <3> HIDE DEF f
      <3> QED
        BY <2>3, JoinLaws, Zenon
    <2>5. MarkerLast(f(Stream))
      BY DEF HistoryInv
    <2> HIDE DEF x, y, f
    <2>6. MarkerLast(x)
      BY <2>1, <2>2, <2>4, <2>5, MarkerLastParts DEF Join
    <2> QED
      BY <2>6 DEF x
  <1>6. f(rest) = << >>
    <2> HIDE DEF f
    <2>1. m \in Seq(Events) /\ Len(m) = 1 /\ m[1] = Marker
      BY <1>2 DEF m
    <2>2. Len(m \o f(rest)) = 1 + Len(f(rest)) /\ (m \o f(rest))[1] = Marker /\ Len(f(rest)) \in Nat
      <3> DEFINE y == f(rest)
      <3>1. y \in Seq(Events)
        BY <1>4
      <3> HIDE DEF y
      <3>2. /\ Len(m \o y) = Len(m) + Len(y) /\ Len(y) \in Nat
            /\ \A i \in 1 .. Len(m) + Len(y) :
                  (m \o y)[i] = IF i <= Len(m) THEN m[i] ELSE y[i - Len(m)]
        BY <2>1, <3>1, ConcatProperties, LenProperties
      <3> QED
        BY <2>1, <3>2 DEF y
    <2>3. MarkerLast(m \o f(rest))
      BY <1>4, <1>5
    <2>4. 1 = 1 + Len(f(rest))
      BY <2>2, <2>3 DEF MarkerLast
    <2> QED
      BY <1>4, <2>2, <2>4
  <1>7. ToSet(rest) \cap HistoryKinds = {}
    BY <1>2, <1>6, SelectNone
  <1>8. ToSet(recorded) = {Marker} \cup ToSet(rest) /\ ToSet(rest) \subseteq Events
    <2>1. ToSet(m \o rest) = ToSet(m) \cup ToSet(rest)
      BY <1>2, ElementsConcat
    <2>2. ToSet(rest) \subseteq Events
      BY <1>2 DEF ToSet
    <2> QED
      BY <1>2, <1>3, <2>1, <2>2
  <1> QED
    BY <1>7, <1>8 DEF Events, OfKinds, HistoryKinds, Marker, Event

(***************************************************************************)
(* The fence and the stream together.                                      *)
(***************************************************************************)

StreamInv == CycleInv /\ FenceInv /\ LiveInv /\ HistoryInv

\* Every step keeps them.
LEMMA StreamStep ==
    ASSUME TypeOK, StreamInv, [Next]_vars
    PROVE  StreamInv'
  <1>1. CASE Chunk \/ \E count \in owed : Settle(count)
    <2>1. CycleInv' /\ FenceInv'
      BY <1>1 DEF Chunk, Settle, StreamInv, CycleInv, FenceInv, Armed, cycle, pump, inlet
    <2> QED
      BY <1>1, <2>1, LiveEvents, HistoryEvents DEF StreamInv
  <1>2. CASE WorkerExits
    <2>1. CycleInv' /\ FenceInv'
      BY <1>2 DEF WorkerExits, StreamInv, CycleInv, FenceInv, Armed, cycle, pump, inlet
    <2> QED
      BY <1>2, <2>1, LiveExit, HistoryCut DEF StreamInv
  <1>3. CASE Send
    <2>1. CycleInv'
      BY <1>3 DEF Send, CycleInv
    <2> QED
      BY <1>3, <2>1, SendFence, LiveSend, HistoryCut DEF StreamInv
  <1>4. CASE \/ \E outcome \in Outcomes : TurnEnds(outcome)
             \/ Forward \/ Supersede \/ Check \/ Drain \/ Count \/ UNCHANGED vars
    <2>1. CycleInv'
      BY <1>4 DEF TurnEnds, Forward, Supersede, Check, Drain, Count, vars, cycle,
                  StreamInv, CycleInv
    <2>2. UNCHANGED <<resumed, turnBase, chunks, connected, up, recorded, reported>>
      BY <1>4 DEF TurnEnds, Forward, Supersede, Check, Drain, Count, vars, workerVars, pump, inlet
    <2>3. FenceInv' /\ Emitted' = Emitted
      BY <2>2 DEF StreamInv, FenceInv, Armed, Emitted
    <2>4. Stream' = Stream
      BY <1>4, SameStream DEF StreamInv
    <2>5. LiveInv'
      BY <2>2, <2>3, <2>4 DEF StreamInv, LiveInv, Live
    <2>6. HistoryInv'
      BY <2>4 DEF StreamInv, HistoryInv
    <2> QED
      BY <2>1, <2>3, <2>5, <2>6 DEF StreamInv
  <1> QED
    BY <1>1, <1>2, <1>3, <1>4 DEF Next, PumpStep

\* They hold throughout.
LEMMA StreamAlways == Spec => [](TypeOK /\ StreamInv)
  <1>1. Init => StreamInv
    <2> SUFFICES ASSUME Init
                 PROVE  StreamInv
      OBVIOUS
    <2>1. CycleInv /\ FenceInv
      BY DEF Init, CycleInv, FenceInv, Armed
    <2> QED
      BY <2>1, LiveInit, HistoryInit DEF StreamInv
  <1>2. TypeOK /\ StreamInv /\ [Next]_vars => StreamInv'
    BY StreamStep
  <1> QED
    BY SoundAlways, <1>1, <1>2, PTL DEF Spec

\* What the agent says live is recorded once and in order, whatever the budget and
\* wherever the fence is cleared (spawn_pump_thread, ReplayFence::on_batch).
THEOREM LiveIsNeverLost == Spec => []NothingLiveLost
  <1>1. TypeOK /\ StreamInv => NothingLiveLost
    BY LiveIsNothingLost DEF StreamInv
  <1> QED
    BY <1>1, StreamAlways, PTL

\* A resumed agent's history is not recorded again, unless a turn's end clears the fence
\* before the marker comes (ReplayFence, initial_replay_fence).
THEOREM ReplayIsAlwaysDiscarded == Spec => []ReplayIsDiscarded
  <1>1. TypeOK /\ StreamInv => ReplayIsDiscarded
    <2> SUFFICES ASSUME TypeOK, StreamInv, Armed, ~ Forced
                 PROVE  \A e \in ToSet(recorded) : e.kind # "replayed"
      BY DEF ReplayIsDiscarded
    <2>1. CASE recorded = << >>
      BY <2>1 DEF ToSet
    <2>2. CASE recorded # << >>
      <3>1. Head(recorded) = Marker
        BY <2>2 DEF Forced, StreamInv, FenceInv
      <3> QED
        BY <2>2, <3>1, MarkerFirst DEF StreamInv
    <2> QED
      BY <2>1, <2>2
  <1> QED
    BY <1>1, StreamAlways, PTL
=============================================================================

------------------------ MODULE TranscriptFold_proofs ------------------------
(***************************************************************************)
(* Theorems about TranscriptFold, for any number of texts, prompts,        *)
(* chunks, notes, generations and losses, and any limit on pending echoes. *)
(*                                                                         *)
(* What the session logs is one half of the argument: which generation a   *)
(* note bears, and which note stands beside it.  What one note does to a   *)
(* tile is the other (FoldStep).  The three properties then follow the     *)
(* tile through the log, whatever comes between two notes.                 *)
(***************************************************************************)
EXTENDS TranscriptFold, Selections_proofs

(***************************************************************************)
(* Notes.                                                                  *)
(***************************************************************************)

\* The fields of a note by its kind (SessionNote, AgentEventKind).
LEMMA NoteFields ==
    ASSUME NEW n \in Notes
    PROVE  /\ n.kind \in Canonical => n.generation \in Nat /\ n.turn \in Nat
           /\ n.kind \in {"UserMessage", "UserPrompt", "ReplyUserMessage"} => n.text \in Texts
           /\ n.kind \in {"Chunk", "ReplyChunk"} => n.id \in Nat
           /\ n.kind = "TurnEnded" => n.generation \in Nat /\ n.count \in Nat
  <1>1. CASE n \in [kind : {"Opened", "ReplayEnd", "AgentEnded"}, generation : Nat, turn : Nat]
    BY <1>1 DEF Canonical
  <1>2. CASE n \in [kind : {"UserMessage"}, generation : Nat, turn : Nat, text : Texts]
    BY <1>2 DEF Canonical
  <1>3. CASE n \in [kind : {"Chunk"}, generation : Nat, turn : Nat, id : Nat]
    BY <1>3 DEF Canonical
  <1>4. CASE n \in [kind : {"UserPrompt", "ReplyUserMessage"}, text : Texts]
    BY <1>4 DEF Canonical
  <1>5. CASE n \in [kind : {"ReplyChunk"}, id : Nat]
    BY <1>5 DEF Canonical
  <1>6. CASE n \in [kind : {"TurnEnded"}, generation : Nat, count : Nat]
    BY <1>6 DEF Canonical
  <1>7. CASE n \in [kind : {"ReplayComplete", "PromptRejected", "SessionDetached"}]
    BY <1>7 DEF Canonical
  <1> QED
    BY <1>1, <1>2, <1>3, <1>4, <1>5, <1>6, <1>7 DEF Notes

\* The notes of a kind that Select selects.
LEMMA RepliesByKind == \A n \in Notes : n \in Replies <=> n.kind = "ReplyChunk"
  <1> SUFFICES ASSUME NEW n \in Notes, n.kind = "ReplyChunk"
               PROVE  n \in Replies
    BY DEF Replies
  <1>1. CASE n \in [kind : {"ReplyChunk"}, id : Nat]
    BY <1>1 DEF Replies
  <1>2. CASE n \notin [kind : {"ReplyChunk"}, id : Nat]
    BY <1>2 DEF Notes
  <1> QED
    BY <1>1, <1>2

\* What the session writes is notes (record, record_agent).
LEMMA NotesWritten ==
    ASSUME generation \in Nat, turns \in Nat
    PROVE  /\ \A k \in {"Opened", "ReplayEnd", "AgentEnded"} : Envelope(k) \in Notes
           /\ \A t \in Texts : Mention(t) \in Notes
           /\ \A k \in {"UserPrompt", "ReplyUserMessage"}, t \in Texts :
                 [kind |-> k, text |-> t] \in Notes
           /\ \A i \in Nat :
                 /\ [kind |-> "Chunk", generation |-> generation, turn |-> turns, id |-> i] \in Notes
                 /\ [kind |-> "ReplyChunk", id |-> i] \in Notes
                 /\ [kind |-> "TurnEnded", generation |-> generation, count |-> i] \in Notes
           /\ \A k \in {"ReplayComplete", "PromptRejected", "SessionDetached"} :
                 [kind |-> k] \in Notes
  <1>1. \A k \in {"Opened", "ReplayEnd", "AgentEnded"} : Envelope(k) \in Notes
    BY DEF Envelope, Notes
  <1>2. \A t \in Texts : Mention(t) \in Notes
    BY DEF Mention, Notes
  <1>3. \A k \in {"UserPrompt", "ReplyUserMessage"}, t \in Texts :
            [kind |-> k, text |-> t] \in Notes
    BY DEF Notes
  <1>4. ASSUME NEW i \in Nat
        PROVE  [kind |-> "Chunk", generation |-> generation, turn |-> turns, id |-> i] \in Notes
    BY DEF Notes
  <1>5. ASSUME NEW i \in Nat
        PROVE  [kind |-> "ReplyChunk", id |-> i] \in Notes
    BY DEF Notes
  <1>6. ASSUME NEW i \in Nat
        PROVE  [kind |-> "TurnEnded", generation |-> generation, count |-> i] \in Notes
    BY DEF Notes
  <1>7. \A k \in {"ReplayComplete", "PromptRejected", "SessionDetached"} : [kind |-> k] \in Notes
    BY DEF Notes
  <1> QED
    BY <1>1, <1>2, <1>3, <1>4, <1>5, <1>6, <1>7

(***************************************************************************)
(* The log.                                                                *)
(***************************************************************************)

\* The log a step leaves is the one it found, and more.
Grows ==
    /\ log' \in Seq(Notes)
    /\ Len(log) <= Len(log')
    /\ \A i \in DOMAIN log : i \in DOMAIN log' /\ log'[i] = log[i]

\* The places of what the step wrote.
Written == Len(log) + 1 .. Len(log')

\* What a record does to the log (ManagedSession::record).
LEMMA RecordGrows ==
    ASSUME log \in Seq(Notes), NEW notes \in Seq(Notes), Record(notes)
    PROVE  /\ Grows
           /\ Len(log') = Len(log) + Len(notes)
           /\ \A i \in 1 .. Len(notes) : log'[Len(log) + i] = notes[i]
  <1>1. /\ log' = log \o notes /\ log' \in Seq(Notes)
        /\ Len(log) \in Nat /\ Len(notes) \in Nat
        /\ Len(log') = Len(log) + Len(notes)
        /\ DOMAIN log = 1 .. Len(log) /\ DOMAIN log' = 1 .. Len(log')
        /\ \A i \in 1 .. Len(log) + Len(notes) :
              log'[i] = IF i <= Len(log) THEN log[i] ELSE notes[i - Len(log)]
    BY ConcatProperties, LenProperties DEF Record
  <1>2. \A i \in DOMAIN log : i \in DOMAIN log' /\ log'[i] = log[i]
    BY <1>1
  <1>3. \A i \in 1 .. Len(notes) : log'[Len(log) + i] = notes[i]
    <2> TAKE i \in 1 .. Len(notes)
    <2>1. /\ Len(log) + i \in 1 .. Len(log) + Len(notes) /\ ~ (Len(log) + i <= Len(log))
          /\ (Len(log) + i) - Len(log) = i
      BY <1>1
    <2> QED
      BY <1>1, <2>1
  <1> QED
    BY <1>1, <1>2, <1>3 DEF Grows

\* A step that writes nothing.
LEMMA NothingWritten ==
    ASSUME log \in Seq(Notes), UNCHANGED log
    PROVE  Grows /\ Written = {} /\ DOMAIN log' = DOMAIN log
  <1>1. Len(log) \in Nat
    OBVIOUS
  <1> QED
    BY <1>1 DEF Grows, Written

\* One note.
LEMMA OneWritten ==
    ASSUME log \in Seq(Notes), NEW a \in Notes, Record(<<a>>)
    PROVE  /\ Grows
           /\ Len(log') = Len(log) + 1
           /\ log'[Len(log) + 1] = a
           /\ Written = {Len(log) + 1}
  <1>1. <<a>> \in Seq(Notes) /\ Len(<<a>>) = 1 /\ <<a>>[1] = a
    OBVIOUS
  <1>2. /\ Grows
        /\ Len(log') = Len(log) + 1
        /\ \A i \in 1 .. 1 : log'[Len(log) + i] = <<a>>[i]
    BY <1>1, RecordGrows
  <1>3. Len(log) \in Nat
    OBVIOUS
  <1> QED
    BY <1>1, <1>2, <1>3 DEF Written

\* An event of the canonical stream and its twin of the legacy one.
LEMMA PairWritten ==
    ASSUME log \in Seq(Notes), NEW a \in Notes, NEW b \in Notes, Record(<<a, b>>)
    PROVE  /\ Grows
           /\ Len(log') = Len(log) + 2
           /\ log'[Len(log) + 1] = a
           /\ log'[Len(log) + 2] = b
           /\ Written = {Len(log) + 1, Len(log) + 2}
  <1>1. <<a, b>> \in Seq(Notes) /\ Len(<<a, b>>) = 2 /\ <<a, b>>[1] = a /\ <<a, b>>[2] = b
    OBVIOUS
  <1>2. /\ Grows
        /\ Len(log') = Len(log) + 2
        /\ \A i \in 1 .. 2 : log'[Len(log) + i] = <<a, b>>[i]
    BY <1>1, RecordGrows
  <1>3. Len(log) \in Nat
    OBVIOUS
  <1> QED
    BY <1>1, <1>2, <1>3 DEF Written

\* What handle_spawn_failed writes ends with the SessionDetached.
LEMMA DeathWritten ==
    ASSUME TypeOK, AgentDies
    PROVE  /\ Grows
           /\ Len(log) < Len(log')
           /\ log'[Len(log')].kind = "SessionDetached"
           /\ \A i \in Written : log'[i].kind \in {"PromptRejected", "SessionDetached"}
  <1> DEFINE n == IF Waiting THEN Len(owed) ELSE 0
             r == [kind |-> "PromptRejected"]
             d == [kind |-> "SessionDetached"]
             rs == [i \in 1 .. n |-> r]
             notes == rs \o <<d>>
  <1>1. n \in Nat /\ Len(log) \in Nat /\ log \in Seq(Notes)
    BY DEF TypeOK
  <1>2. r \in Notes /\ d \in Notes
    BY DEF Notes
  <1>3. Record(notes)
    BY DEF AgentDies
  <1> HIDE DEF n
  <1>4. rs \in Seq(Notes) /\ Len(rs) = n /\ \A i \in 1 .. n : rs[i] = r
    <2> HIDE DEF r
    <2> QED
      BY <1>1, <1>2
  <1>5. /\ notes \in Seq(Notes) /\ Len(notes) = n + 1
        /\ notes[n + 1] = d
        /\ \A i \in 1 .. n : notes[i] = r
    <2> HIDE DEF r, d, rs
    <2> QED
      BY <1>1, <1>2, <1>4
  <1> HIDE DEF notes, rs
  <1>6. /\ Grows
        /\ Len(log') = Len(log) + (n + 1)
        /\ \A i \in 1 .. n + 1 : log'[Len(log) + i] = notes[i]
    BY <1>1, <1>3, <1>5, RecordGrows
  <1>7. log'[Len(log')] = d
    BY <1>1, <1>5, <1>6
  <1>8. ASSUME NEW i \in Written
        PROVE  log'[i] = r \/ log'[i] = d
    <2>1. i - Len(log) \in 1 .. n + 1 /\ i = Len(log) + (i - Len(log))
      BY <1>1, <1>6 DEF Written
    <2>2. log'[i] = notes[i - Len(log)]
      BY <1>6, <2>1
    <2> QED
      BY <1>1, <1>5, <2>1, <2>2
  <1> QED
    BY <1>1, <1>6, <1>7, <1>8

(***************************************************************************)
(* The tile.                                                               *)
(***************************************************************************)

\* What the reconciler remembers is on the screen.
RemembersShown(g) ==
    \A t \in Texts : t \in ToSet(g.pendingLocal) \/ t \in g.lastInserted => g.asked[t] > 0

\* No row was taken away.
KeepsRows(g, h) == \A t \in Texts : g.asked[t] <= h.asked[t]

\* A new tile (AgentState::new).
LEMMA EmptyTileIs ==
    /\ EmptyTile \in Tiles /\ EmptyTile.generation = 0 /\ EmptyTile.said = << >>
    /\ EmptyTile.authoritative = FALSE /\ EmptyTile.awaiting = FALSE /\ EmptyTile.finalized = {}
    /\ RemembersShown(EmptyTile)
  <1>1. EmptyTile \in Tiles
    <2>1. << >> \in Seq(Texts) /\ << >> \in Seq(Nat)
      OBVIOUS
    <2>2. [t \in Texts |-> 0] \in [Texts -> Nat]
      OBVIOUS
    <2> QED
      BY <2>1, <2>2 DEF EmptyTile, Tiles
  <1>2. ToSet(<< >>) = {}
    BY DEF ToSet
  <1> QED
    BY <1>1, <1>2 DEF EmptyTile, RemembersShown

\* What begin_server_generation leaves alone and what it clears.
LEMMA RebasedTile ==
    ASSUME NEW g \in Tiles, NEW gen \in Nat
    PROVE  /\ Rebased(g, gen) \in Tiles
           /\ gen <= g.generation => Rebased(g, gen) = g
           /\ gen > g.generation =>
                 /\ Rebased(g, gen).generation = gen
                 /\ ~ Rebased(g, gen).authoritative
                 /\ ~ Rebased(g, gen).awaiting
                 /\ Rebased(g, gen).finalized = {}
           /\ Rebased(g, gen).said = g.said
           /\ Rebased(g, gen).asked = g.asked
           /\ RemembersShown(g) => RemembersShown(Rebased(g, gen))
  <1>0. g.generation \in Nat
    BY DEF Tiles
  <1>1. CASE gen <= g.generation
    BY <1>0, <1>1 DEF Rebased
  <1>2. CASE ~ (gen <= g.generation)
    <2> DEFINE h == [g EXCEPT !.generation = gen, !.awaiting = FALSE, !.lastSeen = 0,
                              !.pendingLocal = << >>, !.lastInserted = {},
                              !.finalized = {}, !.authoritative = FALSE]
    <2>1. Rebased(g, gen) = h
      BY <1>2 DEF Rebased
    <2>2. << >> \in Seq(Texts) /\ ToSet(<< >>) = {}
      BY DEF ToSet
    <2>3. /\ h \in Tiles /\ h.generation = gen /\ h.authoritative = FALSE /\ h.awaiting = FALSE
          /\ h.finalized = {} /\ h.said = g.said /\ h.asked = g.asked
          /\ h.pendingLocal = << >> /\ h.lastInserted = {}
      BY <2>2 DEF Tiles
    <2> HIDE DEF h
    <2>4. RemembersShown(h)
      BY <2>2, <2>3 DEF RemembersShown
    <2> QED
      BY <1>0, <1>2, <2>1, <2>3, <2>4
  <1> QED
    BY <1>1, <1>2

\* Removing an echo from the queue adds nothing to it (pending_local.remove).
LEMMA RemoveFirstElements ==
    ASSUME NEW S, NEW s \in Seq(S), NEW e
    PROVE  RemoveFirst(s, e) \in Seq(S) /\ ToSet(RemoveFirst(s, e)) \subseteq ToSet(s)
  <1>1. CASE \E i \in 1 .. Len(s) : s[i] = e
    <2> DEFINE I == {i \in 1 .. Len(s) : s[i] = e}
               m == Min(I)
    <2>1. RemoveFirst(s, e) = SubSeq(s, 1, m - 1) \o SubSeq(s, m + 1, Len(s))
      BY <1>1 DEF RemoveFirst, RemoveAt, SelectInSeq
    <2>2. m \in 1 .. Len(s)
      <3>1. I \in SUBSET Nat /\ I # {}
        BY <1>1
      <3>2. PICK n \in I : \A k \in I : n <= k
        BY <3>1, SmallestMember
      <3>3. m \in I
        BY <3>2 DEF Min
      <3> QED
        BY <3>3
    <2> HIDE DEF m
    <2>3. Len(s) \in Nat /\ m - 1 \in 0 .. Len(s) /\ m + 1 \in 1 .. Len(s) + 1
          /\ 1 \in 1 .. Len(s) + 1 /\ Len(s) \in 0 .. Len(s)
      BY <2>2
    <2>4. /\ SubSeq(s, 1, m - 1) \in Seq(S) /\ ToSet(SubSeq(s, 1, m - 1)) \subseteq ToSet(s)
          /\ SubSeq(s, m + 1, Len(s)) \in Seq(S)
          /\ ToSet(SubSeq(s, m + 1, Len(s))) \subseteq ToSet(s)
      BY <2>3, ElementsPart
    <2> DEFINE a == SubSeq(s, 1, m - 1)
               b == SubSeq(s, m + 1, Len(s))
    <2> HIDE DEF a, b
    <2>5. a \in Seq(S) /\ b \in Seq(S) /\ ToSet(a) \subseteq ToSet(s) /\ ToSet(b) \subseteq ToSet(s)
      BY <2>4 DEF a, b
    <2>6. ToSet(a \o b) = ToSet(a) \cup ToSet(b) /\ a \o b \in Seq(S)
      BY <2>5, ElementsConcat, ConcatProperties
    <2> QED
      BY <2>1, <2>5, <2>6 DEF a, b
  <1>2. CASE ~ \E i \in 1 .. Len(s) : s[i] = e
    BY <1>2 DEF RemoveFirst
  <1> QED
    BY <1>1, <1>2

\* What the reconciler's answer to an echo does (reconcile): the prompt is on the screen.
LEMMA EchoedTile ==
    ASSUME NEW g \in Tiles, NEW t \in Texts
    PROVE  /\ Echoed(g, t) \in Tiles
           /\ Echoed(g, t).generation = g.generation
           /\ Echoed(g, t).authoritative = g.authoritative
           /\ Echoed(g, t).awaiting = g.awaiting
           /\ Echoed(g, t).finalized = g.finalized
           /\ Echoed(g, t).said = g.said
           /\ KeepsRows(g, Echoed(g, t))
           /\ RemembersShown(g) => RemembersShown(Echoed(g, t)) /\ Echoed(g, t).asked[t] > 0
  <1>0. /\ g.pendingLocal \in Seq(Texts) /\ g.asked \in [Texts -> Nat]
        /\ Len(g.pendingLocal) \in Nat
    BY DEF Tiles
  <1>1. CASE Contains(g.pendingLocal, t)
    <2> DEFINE q == RemoveFirst(g.pendingLocal, t)
               h == [g EXCEPT !.pendingLocal = q, !.lastInserted = {t}]
    <2>1. Echoed(g, t) = h
      BY <1>1 DEF Echoed
    <2>2. q \in Seq(Texts) /\ ToSet(q) \subseteq ToSet(g.pendingLocal)
      BY <1>0, RemoveFirstElements
    <2> HIDE DEF q
    <2>3. /\ h \in Tiles /\ h.generation = g.generation /\ h.authoritative = g.authoritative
          /\ h.awaiting = g.awaiting /\ h.finalized = g.finalized /\ h.said = g.said
          /\ h.asked = g.asked /\ h.pendingLocal = q /\ h.lastInserted = {t}
      BY <2>2 DEF Tiles
    <2> HIDE DEF h
    <2>4. t \in ToSet(g.pendingLocal)
      BY <1>0, <1>1 DEF Contains, ToSet
    <2>5. RemembersShown(g) => RemembersShown(h) /\ h.asked[t] > 0
      BY <2>2, <2>3, <2>4 DEF RemembersShown
    <2>6. KeepsRows(g, h)
      BY <1>0, <2>3 DEF KeepsRows
    <2> QED
      BY <2>1, <2>3, <2>5, <2>6
  <1>2. CASE ~ Contains(g.pendingLocal, t) /\ t \in g.lastInserted
    <2>1. Echoed(g, t) = g
      BY <1>2 DEF Echoed
    <2>2. KeepsRows(g, g)
      BY <1>0 DEF KeepsRows
    <2>3. RemembersShown(g) => g.asked[t] > 0
      BY <1>2 DEF RemembersShown
    <2> QED
      BY <2>1, <2>2, <2>3
  <1>3. CASE ~ Contains(g.pendingLocal, t) /\ t \notin g.lastInserted
    <2> DEFINE f == [g.asked EXCEPT ![t] = @ + 1]
               h == [g EXCEPT !.asked[t] = @ + 1, !.lastInserted = {t}]
    <2>1. Echoed(g, t) = h
      BY <1>3 DEF Echoed
    <2>2. /\ f \in [Texts -> Nat] /\ f[t] = g.asked[t] + 1 /\ g.asked[t] \in Nat
          /\ \A u \in Texts : g.asked[u] \in Nat /\ (u # t => f[u] = g.asked[u])
      BY <1>0
    <2>3. /\ h \in Tiles /\ h.generation = g.generation /\ h.authoritative = g.authoritative
          /\ h.awaiting = g.awaiting /\ h.finalized = g.finalized /\ h.said = g.said
          /\ h.asked = f /\ h.pendingLocal = g.pendingLocal /\ h.lastInserted = {t}
      BY <2>2 DEF Tiles
    <2> HIDE DEF h, f
    <2>4. KeepsRows(g, h)
      BY <2>2, <2>3 DEF KeepsRows
    <2>5. RemembersShown(g) => RemembersShown(h) /\ h.asked[t] > 0
      BY <2>2, <2>3 DEF RemembersShown
    <2> QED
      BY <2>1, <2>3, <2>4, <2>5
  <1> QED
    BY <1>1, <1>2, <1>3

\* What the end of a turn does to the ledger and the phase (finalize_agent_turn_idem).
LEMMA FinalizedTile ==
    ASSUME NEW g \in Tiles, NEW gen \in Nat, NEW turn \in Nat
    PROVE  /\ Finalized(g, gen, turn) \in Tiles
           /\ Finalized(g, gen, turn).generation = g.generation
           /\ Finalized(g, gen, turn).authoritative = g.authoritative
           /\ Finalized(g, gen, turn).said = g.said
           /\ Finalized(g, gen, turn).asked = g.asked
           /\ RemembersShown(g) => RemembersShown(Finalized(g, gen, turn))
           /\ \A key \in Finalized(g, gen, turn).finalized :
                 key \in g.finalized \/ key[2] = turn
           /\ Finalized(g, gen, turn).awaiting =>
                 /\ g.awaiting
                 /\ <<gen, turn>> \in g.finalized
                 /\ Finalized(g, gen, turn).finalized = g.finalized
  <1>1. CASE <<gen, turn>> \in g.finalized
    BY <1>1 DEF Finalized
  <1>2. CASE <<gen, turn>> \notin g.finalized
    <2> DEFINE h == [g EXCEPT !.finalized = @ \cup {<<gen, turn>>}, !.awaiting = FALSE]
    <2>1. Finalized(g, gen, turn) = h
      BY <1>2 DEF Finalized
    <2> DEFINE keys == g.finalized \cup {<<gen, turn>>}
               k == [g EXCEPT !.finalized = keys, !.awaiting = FALSE]
    <2>4. keys \in SUBSET (Nat \X Nat)
      BY DEF Tiles
    <2> HIDE DEF keys
    <2>5. /\ k \in Tiles /\ k.generation = g.generation /\ k.authoritative = g.authoritative
          /\ k.said = g.said /\ k.asked = g.asked /\ k.pendingLocal = g.pendingLocal
          /\ k.lastInserted = g.lastInserted
          /\ k.finalized = keys /\ k.awaiting = FALSE
      BY <2>4 DEF Tiles
    <2>6. h = k
      BY DEF keys
    <2> HIDE DEF h, k
    <2>2. /\ h \in Tiles /\ h.generation = g.generation /\ h.authoritative = g.authoritative
          /\ h.said = g.said /\ h.asked = g.asked /\ h.pendingLocal = g.pendingLocal
          /\ h.lastInserted = g.lastInserted
          /\ h.finalized = g.finalized \cup {<<gen, turn>>} /\ h.awaiting = FALSE
      BY <2>5, <2>6 DEF keys
    <2>3. RemembersShown(g) => RemembersShown(h)
      BY <2>2 DEF RemembersShown
    <2> QED
      BY <2>1, <2>2, <2>3
  <1> QED
    BY <1>1, <1>2

(***************************************************************************)
(* What one note does to the tile (apply_server_batch), whichever it is:   *)
(* of note n, tile g becomes h.                                            *)
(***************************************************************************)

\* The generation and the gate.
GateFollows(n, g, h) ==
    /\ h.generation = IF n.kind \in Canonical /\ n.generation > g.generation
                      THEN n.generation ELSE g.generation
    /\ h.authoritative =>
          \/ g.authoritative /\ h.generation = g.generation
          \/ n.kind \in Boundaries /\ n.generation = h.generation
    /\ g.authoritative /\ h.generation = g.generation => h.authoritative
    /\ n.kind = "ReplayEnd" /\ n.generation >= g.generation => h.authoritative

\* What the agent said.
SaidFollows(n, g, h) ==
    h.said = IF \/ n.kind = "Chunk" /\ Listens(g, n)
                \/ n.kind = "ReplyChunk" /\ ~ g.authoritative
             THEN Append(g.said, n.id)
             ELSE g.said

\* What the user said.
RowsFollow(n, g, h) ==
    /\ KeepsRows(g, h)
    /\ RemembersShown(g) => RemembersShown(h)
    /\ RemembersShown(g) /\ n.kind = "UserPrompt" => h.asked[n.text] > 0

\* The ledger and the phase.
TurnsFollow(n, g, h) ==
    /\ \A key \in h.finalized :
          \/ key \in g.finalized
          \/ n.kind = "AgentEnded" /\ key[2] = n.turn
          \/ n.kind = "TurnEnded" /\ key[2] = n.count - 1
          \/ n.kind = "ReplayComplete" /\ ~ g.authoritative
    /\ h.awaiting =>
          /\ g.awaiting
          /\ h.generation = g.generation
          /\ h.finalized \subseteq g.finalized
          /\ n.kind \notin {"PromptRejected", "SessionDetached"}
          /\ n.kind = "TurnEnded" => \E key \in g.finalized : key[2] = n.count - 1

Follows(n, g, h) ==
    /\ h \in Tiles
    /\ GateFollows(n, g, h)
    /\ SaidFollows(n, g, h)
    /\ RowsFollow(n, g, h)
    /\ TurnsFollow(n, g, h)

\* The turns the notes name are turns that ended.
CountsInv ==
    \A i \in DOMAIN log :
        /\ log[i].kind = "AgentEnded" => log[i].turn < turns
        /\ log[i].kind = "TurnEnded" => log[i].count \in 1 .. turns

\* What every fold does beside the tile.
LEMMA ReadStep ==
    ASSUME TypeOK, NEW kind, Read(kind)
    PROVE  /\ online /\ folded < Len(log) /\ folded' = folded + 1
           /\ folded + 1 \in DOMAIN log /\ Note \in Notes /\ Note.kind = kind /\ tile \in Tiles
           /\ tile.generation \in Nat
           /\ UNCHANGED <<log, sessionVars, wireVars, kept, prompted>>
  <1>1. log \in Seq(Notes) /\ folded \in Nat /\ Len(log) \in Nat /\ tile \in Tiles
    BY DEF TypeOK
  <1>2. folded + 1 \in DOMAIN log
    BY <1>1 DEF Read
  <1>3. log[folded + 1] \in Notes
    BY <1>1, <1>2
  <1> QED
    BY <1>1, <1>2, <1>3 DEF Read, Note, Tiles

\* A tile left as it is.
LEMMA SameTile ==
    ASSUME NEW n \in Notes, NEW g \in Tiles,
           ~ (n.kind \in Canonical /\ n.generation > g.generation),
           ~ (n.kind = "ReplayEnd" /\ n.generation >= g.generation),
           n.kind = "Chunk" => ~ Listens(g, n),
           n.kind = "ReplyChunk" => g.authoritative,
           n.kind \notin {"UserPrompt", "TurnEnded", "PromptRejected", "SessionDetached"}
    PROVE  Follows(n, g, g)
  <1>1. g.asked \in [Texts -> Nat]
    BY DEF Tiles
  <1>2. KeepsRows(g, g)
    BY <1>1 DEF KeepsRows
  <1> QED
    BY <1>2 DEF Follows, GateFollows, SaidFollows, RowsFollow, TurnsFollow

\* A canonical event the gate or the straggler test refuses.
LEMMA Unlistened ==
    ASSUME NEW n \in Notes, NEW g \in Tiles, n.kind \in Canonical, ~ Listens(g, n)
    PROVE  Follows(n, g, g)
  <1>1. n.generation \in Nat /\ g.generation \in Nat
    BY NoteFields DEF Tiles
  <1>2. ~ (n.generation > g.generation)
    BY <1>1 DEF Listens
  <1>3. ~ (n.kind = "ReplayEnd" /\ n.generation >= g.generation)
    BY <1>1 DEF Listens, Boundaries
  <1> QED
    BY <1>2, <1>3, SameTile DEF Canonical

\* The tile a canonical event finds that is listened to.
LEMMA BegunTile ==
    ASSUME NEW n \in Notes, NEW g \in Tiles, n.kind \in Canonical, Listens(g, n)
    PROVE  LET b == Rebased(g, n.generation)
           IN  /\ n.generation \in Nat /\ g.generation \in Nat /\ n.generation >= g.generation
               /\ b \in Tiles
               /\ b.generation = n.generation
               /\ n.generation = g.generation => b = g
               /\ n.generation > g.generation =>
                      ~ b.authoritative /\ ~ b.awaiting /\ b.finalized = {}
               /\ b.said = g.said
               /\ KeepsRows(g, b)
               /\ RemembersShown(g) => RemembersShown(b)
  <1>1. n.generation \in Nat /\ g.generation \in Nat /\ g.asked \in [Texts -> Nat]
    BY NoteFields DEF Tiles
  <1>2. n.generation >= g.generation
    BY DEF Listens
  <1> DEFINE b == Rebased(g, n.generation)
  <1>3. /\ b \in Tiles
        /\ n.generation <= g.generation => b = g
        /\ n.generation > g.generation =>
              /\ b.generation = n.generation /\ ~ b.authoritative /\ ~ b.awaiting
              /\ b.finalized = {}
        /\ b.said = g.said /\ b.asked = g.asked
        /\ RemembersShown(g) => RemembersShown(b)
    BY <1>1, RebasedTile
  <1> HIDE DEF b
  <1>4. KeepsRows(g, b)
    BY <1>1, <1>3 DEF KeepsRows
  <1> QED
    BY <1>1, <1>2, <1>3, <1>4 DEF b

\* Rows only come.
LEMMA RowsCompose ==
    ASSUME NEW g \in Tiles, NEW h \in Tiles, NEW k \in Tiles, KeepsRows(g, h), KeepsRows(h, k)
    PROVE  KeepsRows(g, k)
  <1>1. /\ \A t \in Texts : g.asked[t] \in Nat /\ h.asked[t] \in Nat /\ k.asked[t] \in Nat
    BY DEF Tiles
  <1> QED
    BY <1>1 DEF KeepsRows

\* The boundary of a turn puts the canonical stream in charge.
LEMMA InCharge ==
    ASSUME NEW g \in Tiles, NEW seen \in Nat
    PROVE  LET h == [g EXCEPT !.authoritative = TRUE, !.lastInserted = {}, !.lastSeen = seen]
               k == [g EXCEPT !.authoritative = TRUE, !.lastInserted = {}]
           IN  /\ h \in Tiles /\ h.authoritative /\ h.generation = g.generation
               /\ h.awaiting = g.awaiting /\ h.finalized = g.finalized /\ h.said = g.said
               /\ h.asked = g.asked /\ h.pendingLocal = g.pendingLocal /\ h.lastInserted = {}
               /\ k \in Tiles /\ k.authoritative /\ k.generation = g.generation
               /\ k.awaiting = g.awaiting /\ k.finalized = g.finalized /\ k.said = g.said
               /\ k.asked = g.asked /\ k.pendingLocal = g.pendingLocal /\ k.lastInserted = {}
  <1> DEFINE h == [g EXCEPT !.authoritative = TRUE, !.lastInserted = {}, !.lastSeen = seen]
             k == [g EXCEPT !.authoritative = TRUE, !.lastInserted = {}]
  <1>1. /\ h \in Tiles /\ h.authoritative /\ h.generation = g.generation
        /\ h.awaiting = g.awaiting /\ h.finalized = g.finalized /\ h.said = g.said
        /\ h.asked = g.asked /\ h.pendingLocal = g.pendingLocal /\ h.lastInserted = {}
    BY DEF Tiles
  <1>2. /\ k \in Tiles /\ k.authoritative /\ k.generation = g.generation
        /\ k.awaiting = g.awaiting /\ k.finalized = g.finalized /\ k.said = g.said
        /\ k.asked = g.asked /\ k.pendingLocal = g.pendingLocal /\ k.lastInserted = {}
    BY DEF Tiles
  <1> QED
    BY <1>1, <1>2

\* The canonical events of apply_agent_event.
LEMMA CanonicalFolds ==
    ASSUME TypeOK, CountsInv,
           FoldOpened \/ FoldUserMessage \/ FoldChunk \/ FoldReplayEnd \/ FoldAgentEnded
    PROVE  Follows(Note, tile, tile')
  <1>0. PICK kind \in Canonical : Read(kind)
    BY DEF FoldOpened, FoldUserMessage, FoldChunk, FoldReplayEnd, FoldAgentEnded, Canonical
  <1>1. Note \in Notes /\ Note.kind = kind /\ tile \in Tiles
    BY <1>0, ReadStep
  <1>2. CASE ~ Listens(tile, Note)
    <2>1. tile' = tile
      BY <1>2 DEF FoldOpened, FoldUserMessage, FoldChunk, FoldReplayEnd, FoldAgentEnded, Canonically
    <2>2. Follows(Note, tile, tile)
      BY <1>0, <1>1, <1>2, Unlistened
    <2> QED
      BY <2>1, <2>2
  <1>3. CASE Listens(tile, Note)
    <2> DEFINE n == Note
               g == tile
               b == Begun
    <2>0. n \in Notes /\ g \in Tiles /\ n.kind \in Canonical /\ n.kind = kind
      BY <1>0, <1>1
    <2>1. /\ n.generation \in Nat /\ g.generation \in Nat /\ n.generation >= g.generation
          /\ b \in Tiles
          /\ b.generation = n.generation
          /\ n.generation = g.generation => b = g
          /\ n.generation > g.generation =>
                 ~ b.authoritative /\ ~ b.awaiting /\ b.finalized = {}
          /\ b.said = g.said
          /\ KeepsRows(g, b)
          /\ RemembersShown(g) => RemembersShown(b)
      BY <1>3, <2>0, BegunTile DEF Begun
    <2>2. /\ n.generation = n.generation
          /\ b.generation = IF n.kind \in Canonical /\ n.generation > g.generation
                            THEN n.generation ELSE g.generation
      BY <2>0, <2>1
    <2>3. /\ b.authoritative => g.authoritative /\ b.generation = g.generation
          /\ g.authoritative /\ b.generation = g.generation => b.authoritative
      BY <2>1
    <2>4. /\ b.awaiting => g.awaiting /\ b.generation = g.generation
          /\ b.finalized \subseteq g.finalized
      BY <2>1
    <2>5. n.kind \notin Boundaries => g.authoritative \/ n.generation > g.generation
      BY <1>3 DEF Listens
    <2>6. CASE FoldOpened
      <3>1. tile' = b /\ n.kind = "Opened"
        BY <1>3, <2>6, ReadStep DEF FoldOpened, Canonically
      <3> HIDE DEF n, g, b
      <3>2. /\ GateFollows(n, g, b) /\ SaidFollows(n, g, b) /\ RowsFollow(n, g, b)
            /\ TurnsFollow(n, g, b)
        BY <2>1, <2>2, <2>3, <2>4, <3>1 DEF GateFollows, SaidFollows, RowsFollow, TurnsFollow
      <3> QED
        BY <2>1, <3>1, <3>2 DEF Follows, n, g
    <2>7. CASE FoldUserMessage
      <3> DEFINE h == Echoed(b, n.text)
      <3>1. tile' = h /\ n.kind = "UserMessage"
        BY <1>3, <2>7, ReadStep DEF FoldUserMessage, Canonically
      <3>2. n.text \in Texts
        BY <2>0, <3>1, NoteFields
      <3> HIDE DEF n, g, b
      <3>3. /\ h \in Tiles
            /\ h.generation = b.generation
            /\ h.authoritative = b.authoritative
            /\ h.awaiting = b.awaiting
            /\ h.finalized = b.finalized
            /\ h.said = b.said
            /\ KeepsRows(b, h)
            /\ RemembersShown(b) => RemembersShown(h)
        BY <2>1, <3>2, EchoedTile
      <3> HIDE DEF h
      <3>4. KeepsRows(g, h)
        BY <2>0, <2>1, <3>3, RowsCompose
      <3>5. /\ GateFollows(n, g, h) /\ SaidFollows(n, g, h) /\ RowsFollow(n, g, h)
            /\ TurnsFollow(n, g, h)
        BY <2>1, <2>2, <2>3, <2>4, <3>1, <3>3, <3>4
        DEF GateFollows, SaidFollows, RowsFollow, TurnsFollow
      <3> QED
        BY <3>1, <3>3, <3>5 DEF Follows, n, g
    <2>8. CASE FoldChunk
      <3> DEFINE h == [b EXCEPT !.said = Append(@, n.id)]
      <3>1. tile' = h /\ n.kind = "Chunk"
        BY <1>3, <2>8, ReadStep DEF FoldChunk, Canonically
      <3>2. n.id \in Nat
        BY <2>0, <3>1, NoteFields
      <3>6. Listens(g, n)
        BY <1>3
      <3> HIDE DEF n, g, b
      <3>7. b.said \in Seq(Nat)
        BY <2>1 DEF Tiles
      <3>3. /\ h \in Tiles
            /\ h.generation = b.generation
            /\ h.authoritative = b.authoritative
            /\ h.awaiting = b.awaiting
            /\ h.finalized = b.finalized
            /\ h.said = Append(b.said, n.id)
            /\ h.asked = b.asked
            /\ h.pendingLocal = b.pendingLocal
            /\ h.lastInserted = b.lastInserted
        <4> DEFINE s == Append(b.said, n.id)
        <4>1. s \in Seq(Nat)
          BY <3>2, <3>7
        <4>2. h = [b EXCEPT !.said = s]
          OBVIOUS
        <4> HIDE DEF s
        <4> QED
          BY <2>1, <4>1, <4>2 DEF Tiles, s
      <3> HIDE DEF h
      <3>4. KeepsRows(g, h) /\ (RemembersShown(b) => RemembersShown(h))
        BY <2>1, <3>3 DEF KeepsRows, RemembersShown
      <3>5. /\ GateFollows(n, g, h) /\ SaidFollows(n, g, h) /\ RowsFollow(n, g, h)
            /\ TurnsFollow(n, g, h)
        BY <2>1, <2>2, <2>3, <2>4, <3>1, <3>3, <3>4, <3>6
        DEF GateFollows, SaidFollows, RowsFollow, TurnsFollow
      <3> QED
        BY <3>1, <3>3, <3>5 DEF Follows, n, g
    <2>9. CASE FoldReplayEnd
      <3> DEFINE h == [b EXCEPT !.authoritative = TRUE, !.lastInserted = {}]
      <3>1. tile' = h /\ n.kind = "ReplayEnd"
        BY <1>3, <2>9, ReadStep DEF FoldReplayEnd, Canonically
      <3> HIDE DEF n, g, b
      <3>3. /\ h \in Tiles /\ h.authoritative /\ h.generation = b.generation
            /\ h.awaiting = b.awaiting /\ h.finalized = b.finalized /\ h.said = b.said
            /\ h.asked = b.asked /\ h.pendingLocal = b.pendingLocal /\ h.lastInserted = {}
        BY <2>1, InCharge
      <3> HIDE DEF h
      <3>4. KeepsRows(g, h) /\ (RemembersShown(b) => RemembersShown(h))
        BY <2>1, <3>3 DEF KeepsRows, RemembersShown
      <3>5. /\ GateFollows(n, g, h) /\ SaidFollows(n, g, h) /\ RowsFollow(n, g, h)
            /\ TurnsFollow(n, g, h)
        BY <2>1, <2>2, <2>3, <2>4, <3>1, <3>3, <3>4
        DEF GateFollows, SaidFollows, RowsFollow, TurnsFollow, Boundaries
      <3> QED
        BY <3>1, <3>3, <3>5 DEF Follows, n, g
    <2>10. CASE FoldAgentEnded
      <3> DEFINE c == [b EXCEPT !.authoritative = TRUE, !.lastInserted = {}, !.lastSeen = n.turn]
                 h == Finalized(c, n.generation, n.turn)
      <3>1. tile' = h /\ n.kind = "AgentEnded"
        BY <1>3, <2>10, ReadStep DEF FoldAgentEnded, Canonically
      <3>2. n.turn \in Nat
        BY <2>0, <3>1, NoteFields
      <3> HIDE DEF n, g, b
      <3>3. /\ c \in Tiles /\ c.authoritative /\ c.generation = b.generation
            /\ c.awaiting = b.awaiting /\ c.finalized = b.finalized /\ c.said = b.said
            /\ c.asked = b.asked /\ c.pendingLocal = b.pendingLocal /\ c.lastInserted = {}
        BY <2>1, <3>2, InCharge
      <3> HIDE DEF c
      <3>4. KeepsRows(g, c) /\ (RemembersShown(b) => RemembersShown(c))
        BY <2>1, <3>3 DEF KeepsRows, RemembersShown
      <3>5. /\ h \in Tiles
            /\ h.generation = c.generation
            /\ h.authoritative = c.authoritative
            /\ h.said = c.said
            /\ h.asked = c.asked
            /\ RemembersShown(c) => RemembersShown(h)
            /\ \A key \in h.finalized : key \in c.finalized \/ key[2] = n.turn
            /\ h.awaiting => c.awaiting /\ h.finalized = c.finalized
        <4>1. c \in Tiles /\ n.generation \in Nat /\ n.turn \in Nat
          BY <2>1, <3>2, <3>3
        <4> QED
          BY <4>1, FinalizedTile, Zenon
      <3> HIDE DEF h
      <3>6. KeepsRows(g, h)
        BY <3>4, <3>5 DEF KeepsRows
      <3>7. GateFollows(n, g, h) /\ SaidFollows(n, g, h) /\ RowsFollow(n, g, h)
        BY <2>1, <2>2, <2>3, <3>1, <3>3, <3>4, <3>5, <3>6
        DEF GateFollows, SaidFollows, RowsFollow, Boundaries
      <3>8. TurnsFollow(n, g, h)
        BY <2>1, <2>4, <3>1, <3>3, <3>5 DEF TurnsFollow
      <3> QED
        BY <3>1, <3>5, <3>7, <3>8 DEF Follows, n, g
    <2> QED
      BY <2>6, <2>7, <2>8, <2>9, <2>10
  <1> QED
    BY <1>2, <1>3

\* A tile whose reconciler has seen the turn progress (note_turn_progressed), and one that
\* no longer waits.
LEMMA Progressed ==
    ASSUME NEW g \in Tiles, NEW seen \in Nat
    PROVE  LET h == [g EXCEPT !.lastInserted = {}, !.lastSeen = seen]
               k == [g EXCEPT !.lastInserted = {}]
               l == [g EXCEPT !.awaiting = FALSE]
           IN  /\ \A x \in {h, k, l} :
                     /\ x \in Tiles /\ x.generation = g.generation
                     /\ x.authoritative = g.authoritative
                     /\ x.finalized = g.finalized /\ x.said = g.said /\ x.asked = g.asked
                     /\ x.pendingLocal = g.pendingLocal
                     /\ x.lastInserted \subseteq g.lastInserted
                     /\ x.lastSeen \in Nat
               /\ h.awaiting = g.awaiting /\ k.awaiting = g.awaiting /\ l.awaiting = FALSE
  <1> DEFINE h == [g EXCEPT !.lastInserted = {}, !.lastSeen = seen]
             k == [g EXCEPT !.lastInserted = {}]
             l == [g EXCEPT !.awaiting = FALSE]
             Like(x) == /\ x \in Tiles /\ x.generation = g.generation
                        /\ x.authoritative = g.authoritative
                        /\ x.finalized = g.finalized /\ x.said = g.said /\ x.asked = g.asked
                        /\ x.pendingLocal = g.pendingLocal
                        /\ x.lastInserted \subseteq g.lastInserted
                        /\ x.lastSeen \in Nat
  <1>1. Like(h) /\ h.awaiting = g.awaiting
    BY DEF Tiles
  <1>2. Like(k) /\ k.awaiting = g.awaiting
    BY DEF Tiles
  <1>3. Like(l) /\ l.awaiting = FALSE
    BY DEF Tiles
  <1> QED
    BY <1>1, <1>2, <1>3

\* The legacy notes (apply_server_batch, apply_reply_events).
LEMMA LegacyFolds ==
    ASSUME TypeOK, CountsInv,
           \/ FoldUserPrompt \/ FoldTurnEnded \/ FoldReplyUserMessage \/ FoldReplyChunk
           \/ FoldReplayComplete \/ FoldRejection \/ FoldDetached
    PROVE  Follows(Note, tile, tile')
  <1> DEFINE Kinds == {"UserPrompt", "TurnEnded", "ReplyUserMessage", "ReplyChunk",
                       "ReplayComplete", "PromptRejected", "SessionDetached"}
             n == Note
             g == tile
  <1>0. PICK kind \in Kinds : Read(kind)
    BY DEF FoldUserPrompt, FoldTurnEnded, FoldReplyUserMessage, FoldReplyChunk,
           FoldReplayComplete, FoldRejection, FoldDetached
  <1>1. /\ n \in Notes /\ n.kind \in Kinds /\ n.kind = kind /\ g \in Tiles
        /\ g.generation \in Nat /\ g.lastSeen \in Nat
        /\ folded + 1 \in DOMAIN log
    BY <1>0, ReadStep DEF Tiles
  <1>2. n.kind \notin Canonical
    BY <1>1 DEF Canonical
  <1>3. CASE FoldUserPrompt \/ (FoldReplyUserMessage /\ ~ tile.authoritative)
    <2> DEFINE h == Echoed(g, n.text)
    <2>1. tile' = h /\ n.kind \in {"UserPrompt", "ReplyUserMessage"}
      BY <1>3, ReadStep DEF FoldUserPrompt, FoldReplyUserMessage, Legacy
    <2>2. n.text \in Texts
      BY <1>1, <2>1, NoteFields
    <2> HIDE DEF n, g
    <2>3. /\ h \in Tiles
          /\ h.generation = g.generation
          /\ h.authoritative = g.authoritative
          /\ h.awaiting = g.awaiting
          /\ h.finalized = g.finalized
          /\ h.said = g.said
          /\ KeepsRows(g, h)
          /\ RemembersShown(g) => RemembersShown(h) /\ h.asked[n.text] > 0
      BY <1>1, <2>2, EchoedTile
    <2> HIDE DEF h
    <2>4. /\ GateFollows(n, g, h) /\ SaidFollows(n, g, h) /\ RowsFollow(n, g, h)
          /\ TurnsFollow(n, g, h)
      BY <1>2, <2>1, <2>3 DEF GateFollows, SaidFollows, RowsFollow, TurnsFollow, Canonical
    <2> QED
      BY <2>1, <2>3, <2>4 DEF Follows, n, g
  <1>4. CASE /\ tile.authoritative
             /\ FoldReplyUserMessage \/ FoldReplyChunk \/ FoldReplayComplete
    <2>1. /\ tile' = tile
          /\ n.kind \notin {"UserPrompt", "TurnEnded", "PromptRejected", "SessionDetached"}
      BY <1>4, ReadStep
      DEF FoldReplyUserMessage, FoldReplyChunk, FoldReplayComplete, Legacy
    <2>2. Follows(n, g, g)
      BY <1>1, <1>2, <1>4, <2>1, SameTile DEF Canonical
    <2> QED
      BY <2>1, <2>2
  <1>5. CASE FoldTurnEnded
    <2> DEFINE c == [g EXCEPT !.lastInserted = {}, !.lastSeen = n.count]
               gen == IF n.generation > 0 THEN n.generation ELSE g.generation
               h == Finalized(c, gen, n.count - 1)
    <2>1. tile' = h /\ n.kind = "TurnEnded"
      BY <1>5, ReadStep DEF FoldTurnEnded
    <2>2. n.generation \in Nat /\ n.count \in Nat
      BY <1>1, <2>1, NoteFields
    <2>3. n.count - 1 \in Nat
      <3>1. n.count \in 1 .. turns
        BY <1>1, <2>1 DEF CountsInv, Note
      <3>2. turns \in Nat
        BY DEF TypeOK
      <3> QED
        BY <2>2, <3>1, <3>2
    <2> HIDE DEF n, g
    <2>4. gen \in Nat
      BY <1>1, <2>2
    <2>5. /\ c \in Tiles /\ c.generation = g.generation /\ c.authoritative = g.authoritative
          /\ c.finalized = g.finalized /\ c.said = g.said /\ c.asked = g.asked
          /\ c.pendingLocal = g.pendingLocal /\ c.lastInserted \subseteq g.lastInserted
          /\ c.awaiting = g.awaiting
      BY <1>1, <2>2, Progressed
    <2> HIDE DEF c, gen
    <2>6. RemembersShown(g) => RemembersShown(c)
      BY <2>5 DEF RemembersShown
    <2>7. /\ h \in Tiles
          /\ h.generation = c.generation
          /\ h.authoritative = c.authoritative
          /\ h.said = c.said
          /\ h.asked = c.asked
          /\ RemembersShown(c) => RemembersShown(h)
          /\ \A key \in h.finalized : key \in c.finalized \/ key[2] = n.count - 1
          /\ h.awaiting => /\ c.awaiting
                           /\ <<gen, n.count - 1>> \in c.finalized
                           /\ h.finalized = c.finalized
      <3>1. c \in Tiles /\ gen \in Nat /\ n.count - 1 \in Nat
        BY <2>3, <2>4, <2>5
      <3> QED
        BY <3>1, FinalizedTile, Zenon
    <2> HIDE DEF h
    <2>8. KeepsRows(g, h)
      <3>1. g.asked \in [Texts -> Nat]
        BY <1>1 DEF Tiles
      <3> QED
        BY <2>5, <2>7, <3>1 DEF KeepsRows
    <2>9. GateFollows(n, g, h) /\ SaidFollows(n, g, h) /\ RowsFollow(n, g, h)
      BY <1>2, <2>1, <2>5, <2>6, <2>7, <2>8
      DEF GateFollows, SaidFollows, RowsFollow, Canonical
    <2>10. h.awaiting => \E key \in g.finalized : key[2] = n.count - 1
      BY <2>5, <2>7
    <2>11. TurnsFollow(n, g, h)
      BY <2>1, <2>5, <2>7, <2>10 DEF TurnsFollow
    <2> QED
      BY <2>1, <2>7, <2>9, <2>11 DEF Follows, n, g
  <1>6. CASE FoldReplyChunk /\ ~ tile.authoritative
    <2> DEFINE h == [g EXCEPT !.said = Append(@, n.id)]
    <2>1. tile' = h /\ n.kind = "ReplyChunk"
      BY <1>6, ReadStep DEF FoldReplyChunk, Legacy
    <2>2. n.id \in Nat /\ ~ g.authoritative
      BY <1>1, <1>6, <2>1, NoteFields
    <2> HIDE DEF n, g
    <2>3. g.said \in Seq(Nat) /\ g.asked \in [Texts -> Nat]
      BY <1>1 DEF Tiles
    <2>4. /\ h \in Tiles /\ h.generation = g.generation /\ h.authoritative = g.authoritative
          /\ h.awaiting = g.awaiting /\ h.finalized = g.finalized
          /\ h.said = Append(g.said, n.id)
          /\ h.asked = g.asked /\ h.pendingLocal = g.pendingLocal
          /\ h.lastInserted = g.lastInserted
      <3> DEFINE s == Append(g.said, n.id)
      <3>1. s \in Seq(Nat)
        BY <2>2, <2>3
      <3>2. h = [g EXCEPT !.said = s]
        OBVIOUS
      <3> HIDE DEF s
      <3> QED
        BY <1>1, <3>1, <3>2 DEF Tiles, s
    <2> HIDE DEF h
    <2>5. KeepsRows(g, h) /\ (RemembersShown(g) => RemembersShown(h))
      BY <2>3, <2>4 DEF KeepsRows, RemembersShown
    <2>6. /\ GateFollows(n, g, h) /\ SaidFollows(n, g, h) /\ RowsFollow(n, g, h)
          /\ TurnsFollow(n, g, h)
      BY <1>2, <2>1, <2>2, <2>4, <2>5
      DEF GateFollows, SaidFollows, RowsFollow, TurnsFollow, Canonical
    <2> QED
      BY <2>1, <2>4, <2>6 DEF Follows, n, g
  <1>7. CASE FoldReplayComplete /\ ~ tile.authoritative
    <2> DEFINE c == [g EXCEPT !.lastInserted = {}]
               h == Finalized(c, g.generation, g.lastSeen)
    <2>1. tile' = h /\ n.kind = "ReplayComplete" /\ ~ g.authoritative
      BY <1>7, ReadStep DEF FoldReplayComplete, Legacy
    <2> HIDE DEF n, g
    <2>5. /\ c \in Tiles /\ c.generation = g.generation /\ c.authoritative = g.authoritative
          /\ c.finalized = g.finalized /\ c.said = g.said /\ c.asked = g.asked
          /\ c.pendingLocal = g.pendingLocal /\ c.lastInserted \subseteq g.lastInserted
          /\ c.awaiting = g.awaiting
      BY <1>1, Progressed
    <2> HIDE DEF c
    <2>6. RemembersShown(g) => RemembersShown(c)
      BY <2>5 DEF RemembersShown
    <2>7. /\ h \in Tiles
          /\ h.generation = c.generation
          /\ h.authoritative = c.authoritative
          /\ h.said = c.said
          /\ h.asked = c.asked
          /\ RemembersShown(c) => RemembersShown(h)
          /\ h.awaiting => c.awaiting /\ h.finalized = c.finalized
      <3>1. c \in Tiles /\ g.generation \in Nat /\ g.lastSeen \in Nat
        BY <1>1, <2>5
      <3> QED
        BY <3>1, FinalizedTile, Zenon
    <2> HIDE DEF h
    <2>8. KeepsRows(g, h)
      <3>1. g.asked \in [Texts -> Nat]
        BY <1>1 DEF Tiles
      <3> QED
        BY <2>5, <2>7, <3>1 DEF KeepsRows
    <2>9. GateFollows(n, g, h) /\ SaidFollows(n, g, h) /\ RowsFollow(n, g, h)
      BY <1>2, <2>1, <2>5, <2>6, <2>7, <2>8
      DEF GateFollows, SaidFollows, RowsFollow, Canonical
    <2>11. TurnsFollow(n, g, h)
      BY <2>1, <2>5, <2>7 DEF TurnsFollow
    <2> QED
      BY <2>1, <2>7, <2>9, <2>11 DEF Follows, n, g
  <1>8. CASE FoldRejection \/ FoldDetached
    <2> DEFINE h == [g EXCEPT !.awaiting = FALSE]
    <2>1. tile' = h /\ n.kind \in {"PromptRejected", "SessionDetached"}
      BY <1>8, ReadStep DEF FoldRejection, FoldDetached
    <2> HIDE DEF n, g
    <2>4. /\ h \in Tiles /\ h.generation = g.generation /\ h.authoritative = g.authoritative
          /\ h.awaiting = FALSE /\ h.finalized = g.finalized /\ h.said = g.said
          /\ h.asked = g.asked /\ h.pendingLocal = g.pendingLocal
          /\ h.lastInserted \subseteq g.lastInserted
      BY <1>1, Progressed
    <2> HIDE DEF h
    <2>5. KeepsRows(g, h) /\ (RemembersShown(g) => RemembersShown(h))
      <3>1. g.asked \in [Texts -> Nat]
        BY <1>1 DEF Tiles
      <3> QED
        BY <2>4, <3>1 DEF KeepsRows, RemembersShown
    <2>6. /\ GateFollows(n, g, h) /\ SaidFollows(n, g, h) /\ RowsFollow(n, g, h)
          /\ TurnsFollow(n, g, h)
      BY <1>2, <2>1, <2>4, <2>5
      DEF GateFollows, SaidFollows, RowsFollow, TurnsFollow, Canonical
    <2> QED
      BY <2>1, <2>4, <2>6 DEF Follows, n, g
  <1> QED
    BY <1>3, <1>4, <1>5, <1>6, <1>7, <1>8

\* Every fold reads one note and does to the tile what that note does.
LEMMA FoldStep ==
    ASSUME TypeOK, CountsInv, FoldNext
    PROVE  /\ online /\ folded < Len(log) /\ folded' = folded + 1
           /\ folded + 1 \in DOMAIN log /\ Note \in Notes /\ tile \in Tiles
           /\ UNCHANGED <<log, sessionVars, wireVars, kept, prompted>>
           /\ Follows(Note, tile, tile')
  <1>1. \E kind : Read(kind)
    BY DEF FoldNext, FoldOpened, FoldUserMessage, FoldChunk, FoldReplayEnd, FoldAgentEnded,
           FoldUserPrompt, FoldTurnEnded, FoldReplyUserMessage, FoldReplyChunk,
           FoldReplayComplete, FoldRejection, FoldDetached
  <1>2. Follows(Note, tile, tile')
    BY CanonicalFolds, LegacyFolds DEF FoldNext
  <1> QED
    BY <1>1, <1>2, ReadStep

(***************************************************************************)
(* Types.                                                                  *)
(***************************************************************************)

SessionTypes ==
    /\ log \in Seq(Notes)
    /\ lifecycle \in {"Spawning", "Live", "Restarting", "Disconnected"}
    /\ generation \in Nat
    /\ turns \in Nat
    /\ owed \in Seq(Texts)
    /\ resumes \in BOOLEAN
    /\ marker \in BOOLEAN
    /\ echoed \in BOOLEAN

WireTypes ==
    /\ sent \in Seq([text : Texts, link : Nat])
    /\ refused \in Nat
    /\ online \in BOOLEAN
    /\ lost \in Nat

GuiTypes ==
    /\ folded \in 0 .. Len(log)
    /\ tile \in Tiles
    /\ kept \in Nat

\* The types, part by part.
LEMMA TypesByPart ==
    /\ TypeOK <=> SessionTypes /\ WireTypes /\ GuiTypes /\ prompted \in [Texts -> Nat]
    /\ TypeOK' <=> (SessionTypes /\ WireTypes /\ GuiTypes /\ prompted \in [Texts -> Nat])'
  BY DEF TypeOK, SessionTypes, WireTypes, GuiTypes

TypeInv == TypeOK /\ CountsInv

\* The first state (do_create).
LEMMA InitTypes == Init => TypeInv
  <1> SUFFICES ASSUME Init
               PROVE  TypeInv
    OBVIOUS
  <1>1. << >> \in Seq(Notes) /\ << >> \in Seq(Texts) /\ << >> \in Seq([text : Texts, link : Nat])
    OBVIOUS
  <1>2. SessionTypes /\ WireTypes
    BY <1>1 DEF Init, SessionTypes, WireTypes
  <1>3. GuiTypes /\ prompted \in [Texts -> Nat]
    BY EmptyTileIs DEF Init, GuiTypes
  <1>4. CountsInv
    BY DEF Init, CountsInv
  <1> QED
    BY <1>2, <1>3, <1>4, TypesByPart DEF TypeInv

\* The GUI does not see a log grow before it folds what came.
LEMMA GuiTypesLag ==
    ASSUME TypeOK, Grows, UNCHANGED guiVars
    PROVE  GuiTypes'
  <1>1. log \in Seq(Notes) /\ folded \in 0 .. Len(log) /\ tile \in Tiles /\ kept \in Nat
    BY DEF TypeOK
  <1>2. Len(log) \in Nat /\ Len(log') \in Nat
    BY <1>1 DEF Grows
  <1> QED
    BY <1>1, <1>2 DEF Grows, GuiTypes, guiVars

\* What is admitted is written as a pair (enqueue_prompt).
LEMMA AdmittedWrites ==
    ASSUME TypeOK, NEW t \in Texts, Admitted(t)
    PROVE  /\ Grows /\ Len(log') = Len(log) + 2 /\ Written = {Len(log) + 1, Len(log) + 2}
           /\ log'[Len(log) + 1] = [kind |-> "UserPrompt", text |-> t]
           /\ log'[Len(log) + 2] = Mention(t)
           /\ owed' \in Seq(Texts) /\ owed' # << >>
  <1>1. log \in Seq(Notes) /\ generation \in Nat /\ turns \in Nat /\ owed \in Seq(Texts)
    BY DEF TypeOK
  <1>2. Mention(t) \in Notes /\ [kind |-> "UserPrompt", text |-> t] \in Notes
    BY <1>1, NotesWritten
  <1>3. owed' \in Seq(Texts) /\ owed' # << >>
    BY <1>1 DEF Admitted
  <1> QED
    BY <1>1, <1>2, <1>3, PairWritten DEF Admitted

\* The prompt the actor reads next.
LEMMA HeadSent ==
    ASSUME TypeOK, sent # << >>
    PROVE  /\ Head(sent).text \in Texts /\ Tail(sent) \in Seq([text : Texts, link : Nat])
           /\ \A i \in DOMAIN sent : i = 1 \/ (i - 1 \in DOMAIN Tail(sent) /\ Tail(sent)[i - 1] = sent[i])
           /\ 1 \in DOMAIN sent /\ Head(sent) = sent[1]
  <1> DEFINE R == [text : Texts, link : Nat]
  <1>1. sent \in Seq(R)
    BY DEF TypeOK
  <1> HIDE DEF R
  <1>2. Head(sent) \in R
    BY <1>1
  <1>3. Tail(sent) \in Seq(R) /\ Len(Tail(sent)) = Len(sent) - 1 /\ Len(sent) \in Nat
        /\ \A i \in 1 .. Len(sent) - 1 : Tail(sent)[i] = sent[i + 1]
    BY <1>1
  <1>4. \A i \in DOMAIN sent : i = 1 \/ (i - 1 \in DOMAIN Tail(sent) /\ Tail(sent)[i - 1] = sent[i])
    BY <1>1, <1>3
  <1>5. Head(sent) = sent[1] /\ 1 \in DOMAIN sent
    BY <1>1, <1>3
  <1> QED
    BY <1>2, <1>3, <1>4, <1>5 DEF R

\* What each step of the session writes, by its kind.
Writes ==
    \/ /\ \E t \in Texts : log'[Len(log) + 1] = [kind |-> "UserPrompt", text |-> t]
                            /\ log'[Len(log) + 2] = Mention(t)
       /\ Written = {Len(log) + 1, Len(log) + 2}
       /\ UNCHANGED <<generation, lifecycle, turns>>
    \/ /\ lifecycle = "Live"
       /\ \E i \in Nat :
             /\ log'[Len(log) + 1] = [kind |-> "Chunk", generation |-> generation,
                                      turn |-> turns, id |-> i]
             /\ log'[Len(log) + 2] = [kind |-> "ReplyChunk", id |-> i]
       /\ Written = {Len(log) + 1, Len(log) + 2}
       /\ UNCHANGED <<generation, lifecycle, turns>>
    \/ /\ \E t \in Texts : log'[Len(log) + 1] = Mention(t)
                            /\ log'[Len(log) + 2] = [kind |-> "ReplyUserMessage", text |-> t]
       /\ Written = {Len(log) + 1, Len(log) + 2}
       /\ UNCHANGED <<generation, lifecycle, turns>>
    \/ /\ log'[Len(log) + 1] = Envelope("AgentEnded")
       /\ log'[Len(log) + 2] = [kind |-> "TurnEnded", generation |-> generation,
                                count |-> turns + 1]
       /\ Written = {Len(log) + 1, Len(log) + 2}
       /\ turns' = turns + 1
       /\ UNCHANGED <<generation, lifecycle>>
    \/ /\ log'[Len(log) + 1] = Envelope("ReplayEnd")
       /\ log'[Len(log) + 2] = [kind |-> "ReplayComplete"]
       /\ Written = {Len(log) + 1, Len(log) + 2}
       /\ UNCHANGED <<generation, lifecycle, turns>>
    \/ /\ log'[Len(log) + 1] = Envelope("Opened")
       /\ Written = {Len(log) + 1}
       /\ lifecycle' = "Live"
       /\ UNCHANGED <<generation, turns>>
    \/ /\ \A i \in Written : log'[i].kind \in {"PromptRejected", "SessionDetached"}
       /\ lifecycle' = "Disconnected"
       /\ UNCHANGED <<generation, turns>>
    \/ /\ UNCHANGED <<log, turns>>
       /\ lifecycle' \in {"Spawning", "Restarting"}
    \/ UNCHANGED <<log, generation, lifecycle, turns>>

\* A greatest member is one.
LEMMA MaxIsGreatest ==
    ASSUME NEW S \in SUBSET Nat, NEW b \in Nat, S # {}, \A x \in S : x <= b
    PROVE  Max(S) \in S /\ \A x \in S : x <= Max(S)
  <1> DEFINE U == {u \in Nat : \A x \in S : x <= u}
  <1>1. U \in SUBSET Nat /\ U # {}
    OBVIOUS
  <1>2. PICK u \in U : \A v \in U : u <= v
    BY <1>1, SmallestMember
  <1>3. u \in S
    <2> SUFFICES ASSUME u \notin S
                 PROVE  FALSE
      OBVIOUS
    <2>1. \A x \in S : x <= u /\ x # u /\ x \in Nat
      BY <1>2
    <2>4. PICK x \in S : TRUE
      OBVIOUS
    <2>2. x \in Nat /\ u \in Nat /\ x < u
      BY <1>2, <2>1, <2>4
    <2>3. u - 1 \in U
      BY <1>2, <2>1, <2>2
    <2> QED
      BY <1>2, <2>3
  <1>4. \E x \in S : \A y \in S : x >= y
    BY <1>2, <1>3
  <1>5. Max(S) \in S /\ \A y \in S : Max(S) >= y
    BY <1>4, Zenon DEF Max
  <1> QED
    BY <1>5

\* The generations of a log are bounded by that of the session.
GenerationsBelow == \A i \in DOMAIN log : log[i].kind \in Canonical => log[i].generation <= generation

\* A session recovered from its log begins a generation the log has not seen (recover_one).
LEMMA RecoveredGeneration ==
    ASSUME TypeOK, GenerationsBelow, Crash
    PROVE  /\ generation' \in Nat
           /\ \A i \in DOMAIN log : log[i].kind \in Canonical => log[i].generation <= generation'
  <1> DEFINE seen == {log[i].generation : i \in {j \in DOMAIN log : log[j].kind \in Canonical}}
  <1>0. log \in Seq(Notes) /\ generation \in Nat
    BY DEF TypeOK
  <1>1. \A i \in DOMAIN log : log[i] \in Notes
    BY <1>0
  <1>2. \A i \in DOMAIN log : log[i].kind \in Canonical => log[i].generation \in Nat
    BY <1>1, NoteFields
  <1>3. seen \in SUBSET Nat /\ \A x \in seen : x <= generation
    BY <1>2 DEF GenerationsBelow
  <1>4. generation' = IF seen = {} THEN 0 ELSE Max(seen) + 1
    BY DEF Crash
  <1>5. \A i \in DOMAIN log : log[i].kind \in Canonical => log[i].generation \in seen
    OBVIOUS
  <1> HIDE DEF seen
  <1>6. CASE seen = {}
    BY <1>4, <1>5, <1>6
  <1>7. CASE seen # {}
    <2>1. Max(seen) \in seen /\ \A x \in seen : x <= Max(seen)
      BY <1>0, <1>3, <1>7, MaxIsGreatest
    <2>2. Max(seen) \in Nat /\ generation' = Max(seen) + 1
      BY <1>3, <1>4, <1>7, <2>1
    <2>3. \A x \in seen : x \in Nat /\ x <= Max(seen)
      BY <1>3, <2>1
    <2> QED
      BY <1>5, <2>2, <2>3
  <1> QED
    BY <1>6, <1>7

\* Prompts come in by the GUI or elsewhere (enqueue_prompt).
LEMMA AdmitStep ==
    ASSUME TypeOK, Admit \/ Refuse \/ \E t \in Texts : PromptElsewhere(t)
    PROVE  SessionTypes' /\ WireTypes' /\ Grows /\ Writes /\ UNCHANGED guiVars
           /\ prompted' \in [Texts -> Nat]
  <1>0. SessionTypes /\ WireTypes /\ prompted \in [Texts -> Nat]
    BY TypesByPart
  <1>1. CASE Admit
    <2> DEFINE t == Head(sent).text
    <2>1. t \in Texts /\ Admitted(t) /\ sent' = Tail(sent)
          /\ sent' \in Seq([text : Texts, link : Nat])
      BY <1>1, HeadSent DEF Admit
    <2> HIDE DEF t
    <2>2. /\ Grows /\ Written = {Len(log) + 1, Len(log) + 2}
          /\ log'[Len(log) + 1] = [kind |-> "UserPrompt", text |-> t]
          /\ log'[Len(log) + 2] = Mention(t)
          /\ owed' \in Seq(Texts)
      BY <2>1, AdmittedWrites
    <2>3. SessionTypes' /\ WireTypes'
      BY <1>0, <1>1, <2>1, <2>2 DEF Admit, Admitted, Grows, SessionTypes, WireTypes
    <2>4. Writes
      BY <1>1, <2>1, <2>2 DEF Admit, Admitted, Writes
    <2> QED
      BY <1>0, <1>1, <2>2, <2>3, <2>4 DEF Admit
  <1>2. CASE Refuse
    <2>1. Grows
      BY <1>0, <1>2, NothingWritten DEF Refuse, SessionTypes
    <2>2. sent' \in Seq([text : Texts, link : Nat]) /\ refused' \in Nat
      BY <1>0, <1>2, HeadSent DEF Refuse, WireTypes
    <2>3. SessionTypes' /\ WireTypes'
      BY <1>0, <1>2, <2>2 DEF Refuse, SessionTypes, WireTypes, sessionVars
    <2>4. Writes
      BY <1>2 DEF Refuse, Writes, sessionVars
    <2> QED
      BY <1>0, <1>2, <2>1, <2>3, <2>4 DEF Refuse
  <1>3. ASSUME NEW t \in Texts, PromptElsewhere(t)
        PROVE  SessionTypes' /\ WireTypes' /\ Grows /\ Writes /\ UNCHANGED guiVars
               /\ prompted' \in [Texts -> Nat]
    <2>1. Admitted(t)
      BY <1>3 DEF PromptElsewhere
    <2>2. /\ Grows /\ Written = {Len(log) + 1, Len(log) + 2}
          /\ log'[Len(log) + 1] = [kind |-> "UserPrompt", text |-> t]
          /\ log'[Len(log) + 2] = Mention(t)
          /\ owed' \in Seq(Texts)
      BY <2>1, AdmittedWrites
    <2>3. SessionTypes' /\ WireTypes'
      BY <1>0, <1>3, <2>2
      DEF PromptElsewhere, Admitted, Grows, SessionTypes, WireTypes, wireVars
    <2>4. Writes
      BY <1>3, <2>1, <2>2 DEF PromptElsewhere, Admitted, Writes
    <2>5. prompted' \in [Texts -> Nat]
      BY <1>0, <1>3 DEF PromptElsewhere, Type
    <2> QED
      BY <1>3, <2>2, <2>3, <2>4, <2>5 DEF PromptElsewhere
  <1> QED
    BY <1>1, <1>2, <1>3

\* The agent speaks, echoes, ends a turn or a replay (Command::Record, Command::TurnCount).
LEMMA AgentStep ==
    ASSUME TypeOK, Say \/ EchoPrompt \/ EndTurn \/ MarkReplayEnd
    PROVE  SessionTypes' /\ Grows /\ Writes /\ UNCHANGED guiVars /\ UNCHANGED wireVars
           /\ UNCHANGED prompted
  <1>0. SessionTypes
    BY TypesByPart
  <1>1. /\ log \in Seq(Notes) /\ Len(log) \in Nat /\ generation \in Nat /\ turns \in Nat
        /\ turns + 1 \in Nat /\ owed \in Seq(Texts)
        /\ owed # << >> => Head(owed) \in Texts /\ Tail(owed) \in Seq(Texts)
    BY <1>0 DEF SessionTypes
  <1>2. CASE Say
    <2> DEFINE id == Len(Select(log, Replies)) + 1
               a == [kind |-> "Chunk", generation |-> generation, turn |-> turns, id |-> id]
               b == [kind |-> "ReplyChunk", id |-> id]
    <2>1. Record(<<a, b>>)
      BY <1>2 DEF Say
    <2>2. id \in Nat
      <3>1. Select(log, Replies) \in Seq(Notes)
        BY <1>1, SelectElements
      <3> QED
        BY <3>1
    <2> HIDE DEF id
    <2>3. a \in Notes /\ b \in Notes
      BY <1>1, <2>2, NotesWritten
    <2>4. /\ Grows /\ Written = {Len(log) + 1, Len(log) + 2}
          /\ log'[Len(log) + 1] = a /\ log'[Len(log) + 2] = b
      <3> HIDE DEF a, b
      <3> QED
        BY <1>1, <2>1, <2>3, PairWritten
    <2>5. Writes
      BY <1>2, <2>2, <2>4 DEF Writes, Say, Speaking, sessionVars
    <2> QED
      BY <1>0, <1>2, <2>4, <2>5 DEF Say, sessionVars, SessionTypes, Grows
  <1>3. CASE EchoPrompt
    <2> DEFINE t == Head(owed)
               a == Mention(t)
               b == [kind |-> "ReplyUserMessage", text |-> t]
    <2>1. Record(<<a, b>>)
      BY <1>3 DEF EchoPrompt
    <2>2. t \in Texts
      BY <1>1, <1>3 DEF EchoPrompt, Running, Speaking
    <2> HIDE DEF t
    <2>3. a \in Notes /\ b \in Notes
      BY <1>1, <2>2, NotesWritten
    <2>4. /\ Grows /\ Written = {Len(log) + 1, Len(log) + 2}
          /\ log'[Len(log) + 1] = a /\ log'[Len(log) + 2] = b
      <3> HIDE DEF a, b
      <3> QED
        BY <1>1, <2>1, <2>3, PairWritten
    <2>5. Writes
      BY <1>3, <2>2, <2>4 DEF Writes, EchoPrompt
    <2> QED
      BY <1>0, <1>3, <2>4, <2>5 DEF EchoPrompt, SessionTypes, Grows
  <1>4. CASE EndTurn
    <2> DEFINE a == Envelope("AgentEnded")
               b == [kind |-> "TurnEnded", generation |-> generation, count |-> turns + 1]
    <2>1. Record(<<a, b>>)
      BY <1>4 DEF EndTurn
    <2>3. a \in Notes /\ b \in Notes
      BY <1>1, NotesWritten
    <2>4. /\ Grows /\ Written = {Len(log) + 1, Len(log) + 2}
          /\ log'[Len(log) + 1] = a /\ log'[Len(log) + 2] = b
      <3> HIDE DEF a, b
      <3> QED
        BY <1>1, <2>1, <2>3, PairWritten
    <2>5. Writes
      BY <1>4, <2>4 DEF Writes, EndTurn
    <2>6. owed' \in Seq(Texts)
      BY <1>1, <1>4 DEF EndTurn, Running, Speaking
    <2> QED
      BY <1>0, <1>1, <1>4, <2>4, <2>5, <2>6 DEF EndTurn, SessionTypes, Grows
  <1>5. CASE MarkReplayEnd
    <2> DEFINE a == Envelope("ReplayEnd")
               b == [kind |-> "ReplayComplete"]
    <2>1. Record(<<a, b>>)
      BY <1>5 DEF MarkReplayEnd
    <2>3. a \in Notes /\ b \in Notes
      BY <1>1, NotesWritten
    <2>4. /\ Grows /\ Written = {Len(log) + 1, Len(log) + 2}
          /\ log'[Len(log) + 1] = a /\ log'[Len(log) + 2] = b
      <3> HIDE DEF a, b
      <3> QED
        BY <1>1, <2>1, <2>3, PairWritten
    <2>5. Writes
      BY <1>5, <2>4 DEF Writes, MarkReplayEnd
    <2> QED
      BY <1>0, <1>5, <2>4, <2>5 DEF MarkReplayEnd, SessionTypes, Grows
  <1> QED
    BY <1>2, <1>3, <1>4, <1>5

\* A channel comes, goes or is replaced, or the server dies.
LEMMA ChannelStep ==
    ASSUME TypeOK, GenerationsBelow, Publish \/ AgentDies \/ Restart \/ Crash
    PROVE  SessionTypes' /\ WireTypes' /\ Grows /\ Writes /\ UNCHANGED guiVars
           /\ UNCHANGED prompted
  <1>0. SessionTypes /\ WireTypes
    BY TypesByPart
  <1>1. /\ log \in Seq(Notes) /\ Len(log) \in Nat /\ generation \in Nat /\ turns \in Nat
        /\ owed \in Seq(Texts) /\ << >> \in Seq(Texts)
        /\ << >> \in Seq([text : Texts, link : Nat])
    BY <1>0 DEF SessionTypes
  <1>2. CASE Publish
    <2> DEFINE a == Envelope("Opened")
    <2>1. Record(<<a>>) /\ a \in Notes
      BY <1>1, <1>2, NotesWritten DEF Publish
    <2>2. /\ Grows /\ Written = {Len(log) + 1} /\ log'[Len(log) + 1] = a
      <3> HIDE DEF a
      <3> QED
        BY <1>1, <2>1, OneWritten
    <2>3. PICK n \in 0 .. Len(owed) :
             /\ owed' = SubSeq(owed, 1, n)
             /\ refused' = IF online THEN refused + (Len(owed) - n) ELSE refused
      BY <1>2 DEF Publish
    <2>4. owed' \in Seq(Texts)
      <3>1. Len(owed) \in Nat /\ 1 \in 1 .. Len(owed) + 1
        BY <1>1
      <3> QED
        BY <1>1, <2>3, <3>1, ElementsPart
    <2>5. refused' \in Nat
      BY <1>0, <1>1, <2>3 DEF WireTypes
    <2>6. Writes
      BY <1>2, <2>2 DEF Writes, Publish
    <2> QED
      BY <1>0, <1>2, <2>2, <2>4, <2>5, <2>6 DEF Publish, SessionTypes, WireTypes, Grows
  <1>3. CASE AgentDies
    <2>1. Grows /\ \A i \in Written : log'[i].kind \in {"PromptRejected", "SessionDetached"}
      BY <1>3, DeathWritten
    <2>2. Writes
      BY <1>3, <2>1 DEF Writes, AgentDies
    <2> QED
      BY <1>0, <1>1, <1>3, <2>1, <2>2
      DEF AgentDies, SessionTypes, WireTypes, wireVars, Grows
  <1>4. CASE Restart
    <2>1. Grows
      BY <1>1, <1>4, NothingWritten DEF Restart
    <2>2. resumes' \in BOOLEAN
      BY <1>4 DEF Restart, Forgets
    <2>3. Writes
      BY <1>4 DEF Writes, Restart
    <2>4. owed' \in Seq(Texts)
      BY <1>1, <1>4 DEF Restart
    <2>6. /\ log' = log /\ lifecycle' = "Restarting" /\ marker' = FALSE /\ echoed' = FALSE
          /\ generation' = generation + 1 /\ turns' = turns /\ UNCHANGED wireVars
      BY <1>4 DEF Restart
    <2>8. log' \in Seq(Notes) /\ generation' \in Nat /\ turns' \in Nat
      BY <1>1, <2>6
    <2>9. /\ lifecycle' \in {"Spawning", "Live", "Restarting", "Disconnected"}
          /\ marker' \in BOOLEAN /\ echoed' \in BOOLEAN
      BY <2>6, Zenon
    <2>7. SessionTypes'
      BY <2>2, <2>4, <2>8, <2>9, Zenon DEF SessionTypes
    <2>5. WireTypes'
      BY <1>0, <2>6 DEF WireTypes, wireVars
    <2> QED
      BY <1>4, <2>1, <2>3, <2>5, <2>7 DEF Restart
  <1>5. CASE Crash
    <2>1. Grows
      BY <1>1, <1>5, NothingWritten DEF Crash
    <2>2. resumes' \in BOOLEAN
      BY <1>5 DEF Crash, Forgets
    <2>3. Writes
      BY <1>5 DEF Writes, Crash
    <2>4. owed' \in Seq(Texts)
      BY <1>1, <1>5 DEF Crash
    <2>5. generation' \in Nat
      BY <1>5, RecoveredGeneration
    <2>6. /\ log' = log /\ lifecycle' = "Spawning" /\ marker' = FALSE /\ echoed' = FALSE
          /\ sent' = << >> /\ refused' = 0 /\ online' = FALSE /\ lost' = lost + 1
          /\ turns' = turns /\ UNCHANGED guiVars /\ UNCHANGED prompted
      BY <1>5 DEF Crash
    <2>7. SessionTypes'
      BY <1>1, <2>2, <2>4, <2>5, <2>6 DEF SessionTypes
    <2>11. refused' \in Nat /\ lost' \in Nat
      BY <1>0, <2>6 DEF WireTypes
    <2>9. online' \in BOOLEAN /\ refused' \in Nat /\ lost' \in Nat
      BY <2>6, <2>11, Zenon
    <2>10. sent' \in Seq([text : Texts, link : Nat])
      BY <1>1, <2>6, Zenon
    <2>8. WireTypes'
      BY <2>9, <2>10, Zenon DEF WireTypes
    <2> QED
      BY <2>1, <2>3, <2>6, <2>7, <2>8
  <1> QED
    BY <1>2, <1>3, <1>4, <1>5

\* Every step of the session, in short.
LEMMA SessionStep ==
    ASSUME TypeOK, GenerationsBelow, SessionNext
    PROVE  SessionTypes' /\ WireTypes' /\ Grows /\ Writes /\ UNCHANGED guiVars
           /\ prompted' \in [Texts -> Nat]
  <1>1. SessionTypes /\ WireTypes /\ prompted \in [Texts -> Nat]
    BY TypesByPart
  <1>2. CASE Admit \/ Refuse \/ \E t \in Texts : PromptElsewhere(t)
    BY <1>2, AdmitStep
  <1>3. CASE Say \/ EchoPrompt \/ EndTurn \/ MarkReplayEnd
    <2>1. SessionTypes' /\ Grows /\ Writes /\ UNCHANGED guiVars /\ UNCHANGED wireVars
          /\ UNCHANGED prompted
      BY <1>3, AgentStep
    <2>2. WireTypes'
      BY <1>1, <2>1 DEF WireTypes, wireVars
    <2> QED
      BY <1>1, <2>1, <2>2
  <1>4. CASE Publish \/ AgentDies \/ Restart \/ Crash
    BY <1>1, <1>4, ChannelStep
  <1> QED
    BY <1>2, <1>3, <1>4 DEF SessionNext

(***************************************************************************)
(* What the log is like.                                                   *)
(***************************************************************************)

\* A chunk's two notes stand side by side, and so do the two of a replay's end.
PairsInv ==
    \A i \in DOMAIN log :
        /\ log[i].kind = "Chunk" =>
              /\ i + 1 \in DOMAIN log
              /\ log[i + 1].kind = "ReplyChunk" /\ log[i + 1].id = log[i].id
        /\ log[i].kind = "ReplyChunk" => i - 1 \in DOMAIN log /\ log[i - 1].kind = "Chunk"
        /\ log[i].kind = "ReplayComplete" =>
              i - 1 \in DOMAIN log /\ log[i - 1].kind = "ReplayEnd"

\* Generations only go up.
GenerationsRise ==
    \A i, j \in DOMAIN log :
        i < j /\ log[i].kind \in Canonical /\ log[j].kind \in Canonical =>
            log[i].generation <= log[j].generation

\* A live channel was opened in the log, and so was every channel that spoke.
OpenedBefore ==
    /\ lifecycle = "Live" =>
          \E i \in DOMAIN log : log[i].kind = "Opened" /\ log[i].generation = generation
    /\ \A i \in DOMAIN log : log[i].kind = "Chunk" =>
          \E j \in DOMAIN log :
              j < i /\ log[j].kind = "Opened" /\ log[j].generation = log[i].generation

LogInv == CountsInv /\ PairsInv /\ GenerationsBelow /\ GenerationsRise /\ OpenedBefore

\* What is said of the notes of one step.
NewNotes ==
    \A i \in Written :
        /\ log'[i].kind \in Canonical => log'[i].generation = generation /\ generation' = generation
        /\ log'[i].kind = "Chunk" =>
              /\ lifecycle = "Live" /\ i + 1 \in Written
              /\ log'[i + 1].kind = "ReplyChunk" /\ log'[i + 1].id = log'[i].id
        /\ log'[i].kind = "ReplyChunk" => i - 1 \in Written /\ log'[i - 1].kind = "Chunk"
        /\ log'[i].kind = "ReplayComplete" => i - 1 \in Written /\ log'[i - 1].kind = "ReplayEnd"
        /\ log'[i].kind = "AgentEnded" => log'[i].turn < turns'
        /\ log'[i].kind = "TurnEnded" => log'[i].count \in 1 .. turns'

\* The same for every step of the session.
LEMMA WritesNew ==
    ASSUME TypeOK, Grows, Writes
    PROVE  /\ NewNotes
           /\ turns <= turns'
           /\ lifecycle' = "Live" =>
                 /\ generation' = generation
                 /\ \/ lifecycle = "Live"
                    \/ \E i \in Written : log'[i].kind = "Opened" /\ log'[i].generation = generation
  <1> DEFINE L == Len(log)
             Opens == lifecycle' = "Live" =>
                        /\ generation' = generation
                        /\ \/ lifecycle = "Live"
                           \/ \E i \in Written : /\ log'[i].kind = "Opened"
                                                 /\ log'[i].generation = generation
  <1>0. L \in Nat /\ log \in Seq(Notes) /\ turns \in Nat
    BY DEF TypeOK
  <1> HIDE DEF L
  <1>1. ASSUME NEW t \in Texts,
               log'[L + 1] = [kind |-> "UserPrompt", text |-> t], log'[L + 2] = Mention(t),
               Written = {L + 1, L + 2}, UNCHANGED <<generation, lifecycle, turns>>
        PROVE  NewNotes /\ turns <= turns' /\ Opens
    <2>1. log'[L + 1].kind = "UserPrompt" /\ log'[L + 2].kind = "UserMessage"
          /\ log'[L + 2].generation = generation
      BY <1>1 DEF Mention
    <2> QED
      BY <1>0, <1>1, <2>1 DEF NewNotes, Canonical
  <1>2. ASSUME NEW n \in Nat, lifecycle = "Live",
               log'[L + 1] = [kind |-> "Chunk", generation |-> generation, turn |-> turns, id |-> n],
               log'[L + 2] = [kind |-> "ReplyChunk", id |-> n],
               Written = {L + 1, L + 2}, UNCHANGED <<generation, lifecycle, turns>>
        PROVE  NewNotes /\ turns <= turns' /\ Opens
    <2>1. /\ log'[L + 1].kind = "Chunk" /\ log'[L + 2].kind = "ReplyChunk"
          /\ log'[L + 1].generation = generation
          /\ log'[L + 1].id = n /\ log'[L + 2].id = n
      BY <1>2
    <2> QED
      BY <1>0, <1>2, <2>1 DEF NewNotes, Canonical
  <1>3. ASSUME NEW t \in Texts,
               log'[L + 1] = Mention(t), log'[L + 2] = [kind |-> "ReplyUserMessage", text |-> t],
               Written = {L + 1, L + 2}, UNCHANGED <<generation, lifecycle, turns>>
        PROVE  NewNotes /\ turns <= turns' /\ Opens
    <2>1. log'[L + 2].kind = "ReplyUserMessage" /\ log'[L + 1].kind = "UserMessage"
          /\ log'[L + 1].generation = generation
      BY <1>3 DEF Mention
    <2> QED
      BY <1>0, <1>3, <2>1 DEF NewNotes, Canonical
  <1>4. ASSUME log'[L + 1] = Envelope("AgentEnded"),
               log'[L + 2] = [kind |-> "TurnEnded", generation |-> generation, count |-> turns + 1],
               Written = {L + 1, L + 2}, turns' = turns + 1, UNCHANGED <<generation, lifecycle>>
        PROVE  NewNotes /\ turns <= turns' /\ Opens
    <2>1. /\ log'[L + 1].kind = "AgentEnded" /\ log'[L + 1].generation = generation
          /\ log'[L + 1].turn = turns
          /\ log'[L + 2].kind = "TurnEnded" /\ log'[L + 2].count = turns + 1
      BY <1>4 DEF Envelope
    <2> QED
      BY <1>0, <1>4, <2>1 DEF NewNotes, Canonical
  <1>5. ASSUME log'[L + 1] = Envelope("ReplayEnd"), log'[L + 2] = [kind |-> "ReplayComplete"],
               Written = {L + 1, L + 2}, UNCHANGED <<generation, lifecycle, turns>>
        PROVE  NewNotes /\ turns <= turns' /\ Opens
    <2>1. /\ log'[L + 1].kind = "ReplayEnd" /\ log'[L + 1].generation = generation
          /\ log'[L + 2].kind = "ReplayComplete"
      BY <1>5 DEF Envelope
    <2> QED
      BY <1>0, <1>5, <2>1 DEF NewNotes, Canonical
  <1>6. ASSUME log'[L + 1] = Envelope("Opened"), Written = {L + 1},
               UNCHANGED <<generation, turns>>
        PROVE  NewNotes /\ turns <= turns' /\ Opens
    <2>1. log'[L + 1].kind = "Opened" /\ log'[L + 1].generation = generation
      BY <1>6 DEF Envelope
    <2> QED
      BY <1>0, <1>6, <2>1 DEF NewNotes, Canonical
  <1>7. ASSUME \A i \in Written : log'[i].kind \in {"PromptRejected", "SessionDetached"},
               lifecycle' = "Disconnected", UNCHANGED <<generation, turns>>
        PROVE  NewNotes /\ turns <= turns' /\ Opens
    BY <1>0, <1>7 DEF NewNotes, Canonical
  <1>8. ASSUME UNCHANGED <<log, turns>>, lifecycle' \in {"Spawning", "Restarting"}
        PROVE  NewNotes /\ turns <= turns' /\ Opens
    <2>1. Written = {}
      BY <1>0, <1>8, NothingWritten
    <2> QED
      BY <1>0, <1>8, <2>1 DEF NewNotes
  <1>9. ASSUME UNCHANGED <<log, generation, lifecycle, turns>>
        PROVE  NewNotes /\ turns <= turns' /\ Opens
    <2>1. Written = {}
      BY <1>0, <1>9, NothingWritten
    <2> QED
      BY <1>0, <1>9, <2>1 DEF NewNotes
  <1> QED
    BY <1>1, <1>2, <1>3, <1>4, <1>5, <1>6, <1>7, <1>8, <1>9 DEF Writes, L

\* A place of the next log is an old one or one of the step's.
LEMMA OldOrNew ==
    ASSUME TypeOK, Grows
    PROVE  /\ \A i \in DOMAIN log' : i \in DOMAIN log \/ i \in Written
           /\ \A i \in DOMAIN log : i \in DOMAIN log' /\ log'[i] = log[i] /\ i \in Nat
           /\ \A i \in Written : i \in DOMAIN log' /\ i \in Nat
           /\ \A i \in DOMAIN log, j \in Written : i < j
           /\ DOMAIN log = 1 .. Len(log) /\ Len(log) \in Nat /\ Len(log') \in Nat
           /\ DOMAIN log' = 1 .. Len(log') /\ Len(log) <= Len(log')
           /\ \A i \in DOMAIN log : log[i] \in Notes
           /\ \A i \in DOMAIN log' : log'[i] \in Notes
  <1>1. log \in Seq(Notes) /\ log' \in Seq(Notes) /\ Len(log) <= Len(log')
    BY DEF TypeOK, Grows
  <1>2. /\ Len(log) \in Nat /\ Len(log') \in Nat
        /\ DOMAIN log = 1 .. Len(log) /\ DOMAIN log' = 1 .. Len(log')
        /\ \A i \in DOMAIN log : log[i] \in Notes
        /\ \A i \in DOMAIN log' : log'[i] \in Notes
    BY <1>1
  <1> QED
    BY <1>1, <1>2 DEF Grows, Written

\* A step that writes nothing and leaves the generation and the state of the channel.
LEMMA LogSame ==
    ASSUME LogInv, UNCHANGED <<log, generation, lifecycle, turns>>
    PROVE  LogInv'
  BY DEF LogInv, CountsInv, PairsInv, GenerationsBelow, GenerationsRise, OpenedBefore

\* Whatever the session does, the log stays like that.
LEMMA LogStep ==
    ASSUME TypeOK, LogInv, SessionNext
    PROVE  LogInv'
  <1>0. GenerationsBelow /\ GenerationsRise /\ OpenedBefore /\ PairsInv /\ CountsInv
    BY DEF LogInv
  <1>1. SessionTypes' /\ Grows /\ Writes
    BY <1>0, SessionStep
  <1>2. /\ NewNotes
        /\ turns <= turns'
        /\ lifecycle' = "Live" =>
              /\ generation' = generation
              /\ \/ lifecycle = "Live"
                 \/ \E i \in Written : log'[i].kind = "Opened" /\ log'[i].generation = generation
    BY <1>1, WritesNew
  <1>3. /\ \A i \in DOMAIN log' : i \in DOMAIN log \/ i \in Written
        /\ \A i \in DOMAIN log : i \in DOMAIN log' /\ log'[i] = log[i] /\ i \in Nat
        /\ \A i \in Written : i \in DOMAIN log' /\ i \in Nat
        /\ \A i \in DOMAIN log, j \in Written : i < j
        /\ \A i \in DOMAIN log : log[i] \in Notes
    BY <1>1, OldOrNew
  <1>4. turns \in Nat /\ turns' \in Nat /\ generation \in Nat /\ generation' \in Nat
    BY <1>1 DEF TypeOK, SessionTypes
  <1>5. CountsInv'
    <2>1. \A i \in DOMAIN log : log[i].kind = "AgentEnded" => log[i].turn \in Nat
      BY <1>3, NoteFields DEF Canonical
    <2>2. ASSUME NEW i \in DOMAIN log'
          PROVE  /\ log'[i].kind = "AgentEnded" => log'[i].turn < turns'
                 /\ log'[i].kind = "TurnEnded" => log'[i].count \in 1 .. turns'
      <3>1. CASE i \in DOMAIN log
        BY <1>0, <1>2, <1>3, <1>4, <2>1, <3>1 DEF CountsInv
      <3>2. CASE i \in Written
        BY <1>2, <3>2 DEF NewNotes
      <3> QED
        BY <1>3, <3>1, <3>2
    <2> QED
      BY <2>2 DEF CountsInv
  <1>6. PairsInv'
    <2>1. ASSUME NEW i \in DOMAIN log'
          PROVE  /\ log'[i].kind = "Chunk" =>
                       /\ i + 1 \in DOMAIN log'
                       /\ log'[i + 1].kind = "ReplyChunk" /\ log'[i + 1].id = log'[i].id
                 /\ log'[i].kind = "ReplyChunk" =>
                       i - 1 \in DOMAIN log' /\ log'[i - 1].kind = "Chunk"
                 /\ log'[i].kind = "ReplayComplete" =>
                       i - 1 \in DOMAIN log' /\ log'[i - 1].kind = "ReplayEnd"
      <3>1. CASE i \in DOMAIN log
        BY <1>0, <1>3, <3>1 DEF PairsInv
      <3>2. CASE i \in Written
        BY <1>2, <1>3, <3>2 DEF NewNotes
      <3> QED
        BY <1>3, <3>1, <3>2
    <2> QED
      BY <2>1 DEF PairsInv
  <1>7. \A i \in DOMAIN log : log[i].kind \in Canonical => log[i].generation \in Nat
    BY <1>3, NoteFields
  <1>8. \A i \in DOMAIN log : log[i].kind \in Canonical => log[i].generation <= generation'
    <2>1. CASE generation' = generation
      BY <1>0, <2>1 DEF GenerationsBelow
    <2>2. CASE Restart
      <3>1. generation' = generation + 1
        BY <2>2 DEF Restart
      <3> QED
        BY <1>0, <1>4, <1>7, <3>1 DEF GenerationsBelow
    <2>3. CASE Crash
      BY <1>0, <2>3, RecoveredGeneration
    <2>4. generation' = generation \/ Restart \/ Crash
      BY DEF SessionNext, Admit, Refuse, PromptElsewhere, Say, EchoPrompt, EndTurn, AgentDies,
             Publish, MarkReplayEnd, sessionVars
    <2> QED
      BY <2>1, <2>2, <2>3, <2>4
  <1>9. GenerationsBelow'
    <2>1. ASSUME NEW i \in DOMAIN log', log'[i].kind \in Canonical
          PROVE  log'[i].generation <= generation'
      <3>1. CASE i \in DOMAIN log
        BY <1>3, <1>8, <2>1, <3>1
      <3>2. CASE i \in Written
        BY <1>2, <1>4, <2>1, <3>2 DEF NewNotes
      <3> QED
        BY <1>3, <3>1, <3>2
    <2> QED
      BY <2>1 DEF GenerationsBelow
  <1>10. GenerationsRise'
    <2>1. ASSUME NEW i \in DOMAIN log', NEW j \in DOMAIN log', i < j,
                 log'[i].kind \in Canonical, log'[j].kind \in Canonical
          PROVE  log'[i].generation <= log'[j].generation
      <3>1. CASE i \in DOMAIN log /\ j \in DOMAIN log
        BY <1>0, <1>3, <2>1, <3>1 DEF GenerationsRise
      <3>2. CASE i \in DOMAIN log /\ j \in Written
        BY <1>2, <1>3, <1>4, <1>8, <2>1, <3>2 DEF NewNotes
      <3>3. CASE i \in Written /\ j \in Written
        BY <1>2, <1>4, <2>1, <3>3 DEF NewNotes
      <3>4. ~ (i \in Written /\ j \in DOMAIN log)
        <4> SUFFICES ASSUME i \in Written, j \in DOMAIN log
                     PROVE  FALSE
          OBVIOUS
        <4>1. j < i /\ i \in Nat /\ j \in Nat
          BY <1>3
        <4> QED
          BY <2>1, <4>1
      <3> QED
        BY <1>3, <3>1, <3>2, <3>3, <3>4
    <2> QED
      BY <2>1 DEF GenerationsRise
  <1>11. OpenedBefore'
    <2>1. ASSUME lifecycle' = "Live"
          PROVE  \E i \in DOMAIN log' :
                    log'[i].kind = "Opened" /\ log'[i].generation = generation'
      <3>1. CASE lifecycle = "Live"
        BY <1>0, <1>2, <1>3, <2>1, <3>1 DEF OpenedBefore
      <3>2. CASE lifecycle # "Live"
        BY <1>2, <1>3, <2>1, <3>2
      <3> QED
        BY <3>1, <3>2
    <2>2. ASSUME NEW i \in DOMAIN log', log'[i].kind = "Chunk"
          PROVE  \E j \in DOMAIN log' :
                    j < i /\ log'[j].kind = "Opened" /\ log'[j].generation = log'[i].generation
      <3>1. CASE i \in DOMAIN log
        BY <1>0, <1>3, <2>2, <3>1 DEF OpenedBefore
      <3>2. CASE i \in Written
        <4>1. lifecycle = "Live" /\ log'[i].generation = generation
          BY <1>2, <2>2, <3>2 DEF NewNotes, Canonical
        <4>2. PICK j \in DOMAIN log : log[j].kind = "Opened" /\ log[j].generation = generation
          BY <1>0, <4>1 DEF OpenedBefore
        <4> QED
          BY <1>3, <3>2, <4>1, <4>2
      <3> QED
        BY <1>3, <3>1, <3>2
    <2> QED
      BY <2>1, <2>2 DEF OpenedBefore
  <1> QED
    BY <1>5, <1>6, <1>9, <1>10, <1>11 DEF LogInv

(***************************************************************************)
(* What the GUI and the connection do beside folding.                      *)
(***************************************************************************)

\* A tile that differs in its rows and in what it waits for.
Alike(g, h) ==
    /\ h \in Tiles
    /\ h.generation = g.generation
    /\ h.authoritative = g.authoritative
    /\ h.finalized = g.finalized
    /\ h.said = g.said
    /\ KeepsRows(g, h)
    /\ RemembersShown(g) => RemembersShown(h)

\* The queue of pending submits at its limit (reconcile of a Local).
LEMMA PendElements ==
    ASSUME NEW q \in Seq(Texts), NEW t \in Texts
    PROVE  Pend(q, t) \in Seq(Texts) /\ ToSet(Pend(q, t)) \subseteq ToSet(q) \cup {t}
  <1> DEFINE r == IF Len(q) >= MaxPendingEchoes THEN Tail(q) ELSE q
  <1>1. MaxPendingEchoes \in Nat \ {0}
    BY BoundsAssumption
  <1>2. r \in Seq(Texts) /\ ToSet(r) \subseteq ToSet(q)
    <2>1. CASE Len(q) >= MaxPendingEchoes
      <3>1. q # << >>
        BY <1>1, <2>1
      <3>2. ToSet(q) = ToSet(Tail(q)) \cup {Head(q)} /\ Tail(q) \in Seq(Texts)
        BY <3>1, TailElements
      <3> QED
        BY <2>1, <3>2
    <2>2. CASE ~ (Len(q) >= MaxPendingEchoes)
      BY <2>2
    <2> QED
      BY <2>1, <2>2
  <1>3. Pend(q, t) = Append(r, t)
    BY DEF Pend
  <1> HIDE DEF r
  <1>4. Append(r, t) \in Seq(Texts) /\ ToSet(Append(r, t)) = ToSet(r) \cup {t}
    BY <1>2, AppendElements
  <1> QED
    BY <1>2, <1>3, <1>4

\* A submit shows the prompt, and remembers only that (send_prompt_to_session).
LEMMA SubmitStep ==
    ASSUME TypeOK, NEW t \in Texts, Submit(t)
    PROVE  /\ online /\ Alike(tile, tile')
           /\ sent' = Append(sent, [text |-> t, link |-> lost])
           /\ WireTypes' /\ prompted' \in [Texts -> Nat]
           /\ UNCHANGED <<log, sessionVars, refused, online, lost, folded, kept>>
  <1>0. /\ WireTypes /\ prompted \in [Texts -> Nat] /\ tile \in Tiles
        /\ tile.pendingLocal \in Seq(Texts) /\ tile.asked \in [Texts -> Nat]
    BY TypesByPart DEF GuiTypes, Tiles
  <1> DEFINE f == [tile.asked EXCEPT ![t] = @ + 1]
             q == Pend(tile.pendingLocal, t)
             h == [tile EXCEPT !.asked = f, !.pendingLocal = q, !.lastInserted = {t},
                               !.awaiting = TRUE]
  <1>1. tile' = h
    BY DEF Submit
  <1>2. /\ f \in [Texts -> Nat] /\ f[t] > 0
        /\ \A u \in Texts : tile.asked[u] \in Nat /\ f[u] \in Nat /\ tile.asked[u] <= f[u]
    BY <1>0
  <1>3. q \in Seq(Texts) /\ ToSet(q) \subseteq ToSet(tile.pendingLocal) \cup {t}
    BY <1>0, PendElements
  <1> HIDE DEF f, q
  <1>4. /\ h \in Tiles /\ h.generation = tile.generation /\ h.authoritative = tile.authoritative
        /\ h.finalized = tile.finalized /\ h.said = tile.said
        /\ h.asked = f /\ h.pendingLocal = q /\ h.lastInserted = {t}
    BY <1>0, <1>2, <1>3 DEF Tiles
  <1> HIDE DEF h
  <1>5. KeepsRows(tile, h)
    BY <1>2, <1>4 DEF KeepsRows
  <1>6. RemembersShown(tile) => RemembersShown(h)
    BY <1>2, <1>3, <1>4 DEF RemembersShown
  <1>7. Alike(tile, tile')
    BY <1>1, <1>4, <1>5, <1>6 DEF Alike
  <1>8. sent' = Append(sent, [text |-> t, link |-> lost])
    BY DEF Submit
  <1>9. sent' \in Seq([text : Texts, link : Nat])
    <2> DEFINE R == [text : Texts, link : Nat]
               r == [text |-> t, link |-> lost]
    <2>1. r \in R /\ sent \in Seq(R)
      BY <1>0 DEF WireTypes
    <2> HIDE DEF R, r
    <2>2. Append(sent, r) \in Seq(R)
      BY <2>1
    <2> QED
      BY <1>8, <2>2 DEF R, r
  <1>10. WireTypes'
    BY <1>0, <1>9 DEF WireTypes, Submit
  <1>11. prompted' \in [Texts -> Nat]
    BY <1>0 DEF Submit, Type
  <1> QED
    BY <1>7, <1>8, <1>10, <1>11 DEF Submit

\* The refusal of a prompt ends the wait (PromptRejected beside the log).
LEMMA HearStep ==
    ASSUME TypeOK, HearRefusal
    PROVE  /\ Alike(tile, tile') /\ tile'.awaiting = FALSE
           /\ WireTypes'
           /\ UNCHANGED <<log, sessionVars, sent, online, lost, folded, kept, prompted>>
  <1>0. WireTypes /\ tile \in Tiles /\ tile.lastSeen \in Nat /\ tile.asked \in [Texts -> Nat]
    BY TypesByPart DEF GuiTypes, Tiles
  <1> DEFINE h == [tile EXCEPT !.awaiting = FALSE]
  <1>1. tile' = h
    BY DEF HearRefusal
  <1>2. /\ h \in Tiles /\ h.generation = tile.generation /\ h.authoritative = tile.authoritative
        /\ h.finalized = tile.finalized /\ h.said = tile.said /\ h.asked = tile.asked
        /\ h.pendingLocal = tile.pendingLocal
        /\ h.lastInserted \subseteq tile.lastInserted
        /\ h.awaiting = FALSE
    BY <1>0, Progressed
  <1> HIDE DEF h
  <1>3. KeepsRows(tile, h) /\ (RemembersShown(tile) => RemembersShown(h))
    BY <1>0, <1>2 DEF KeepsRows, RemembersShown
  <1>4. WireTypes'
    <2>1. refused' \in Nat
      BY <1>0 DEF HearRefusal, WireTypes
    <2> QED
      BY <1>0, <2>1 DEF HearRefusal, WireTypes
  <1> QED
    BY <1>1, <1>2, <1>3, <1>4 DEF Alike, HearRefusal

\* The tile a reconnect begins with (reset_for_replay).
LEMMA ReconnectStep ==
    ASSUME TypeOK, Reconnect
    PROVE  /\ online' = TRUE /\ folded' = 0 /\ kept' = tile.generation
           /\ tile' \in Tiles
           /\ tile'.generation = tile.generation
           /\ tile'.authoritative = FALSE
           /\ tile'.awaiting = FALSE
           /\ tile'.finalized = {}
           /\ tile'.said = << >>
           /\ RemembersShown(tile')
           /\ UNCHANGED <<log, sessionVars, sent, refused, lost, prompted>>
  <1>0. tile.generation \in Nat
    BY DEF TypeOK, Tiles
  <1> DEFINE h == [EmptyTile EXCEPT !.generation = tile.generation]
  <1>1. tile' = h
    BY DEF Reconnect
  <1>2. EmptyTile \in Tiles /\ ToSet(<< >>) = {}
    BY EmptyTileIs DEF ToSet
  <1>3. /\ h \in Tiles /\ h.generation = tile.generation /\ h.authoritative = FALSE
        /\ h.awaiting = FALSE /\ h.finalized = {} /\ h.said = << >>
        /\ h.pendingLocal = << >> /\ h.lastInserted = {}
    <2> HIDE DEF h
    <2>1. h.generation = tile.generation /\ h.authoritative = FALSE
          /\ h.awaiting = FALSE /\ h.finalized = {} /\ h.said = << >>
          /\ h.pendingLocal = << >> /\ h.lastInserted = {}
      BY DEF h, EmptyTile
    <2>2. h \in Tiles
      BY <1>0, <1>2 DEF h, Tiles
    <2> QED
      BY <2>1, <2>2
  <1> HIDE DEF h
  <1>4. RemembersShown(h)
    BY <1>2, <1>3 DEF RemembersShown
  <1> QED
    BY <1>1, <1>3, <1>4 DEF Reconnect

BaseInv == TypeOK /\ LogInv

\* The first state has an empty log.
LEMMA InitBase == Init => BaseInv
  <1> SUFFICES ASSUME Init
               PROVE  BaseInv
    OBVIOUS
  <1>1. log = << >> /\ lifecycle = "Spawning"
    BY DEF Init
  <1>2. PairsInv /\ GenerationsBelow /\ GenerationsRise /\ OpenedBefore
    BY <1>1 DEF PairsInv, GenerationsBelow, GenerationsRise, OpenedBefore
  <1> QED
    BY <1>2, InitTypes DEF BaseInv, LogInv, TypeInv

\* Types and log through every step.
LEMMA BaseStep ==
    ASSUME BaseInv, [Next]_vars
    PROVE  BaseInv'
  <1>0. /\ TypeOK /\ LogInv /\ CountsInv /\ GenerationsBelow
        /\ SessionTypes /\ WireTypes /\ GuiTypes /\ prompted \in [Texts -> Nat]
    BY TypesByPart DEF BaseInv, LogInv
  <1>1. CASE SessionNext
    <2>1. SessionTypes' /\ WireTypes' /\ Grows /\ UNCHANGED guiVars
          /\ prompted' \in [Texts -> Nat]
      BY <1>0, <1>1, SessionStep
    <2>2. GuiTypes'
      BY <1>0, <2>1, GuiTypesLag
    <2>3. LogInv'
      BY <1>0, <1>1, LogStep
    <2> QED
      BY <2>1, <2>2, <2>3, TypesByPart DEF BaseInv
  <1>2. CASE UNCHANGED <<log, sessionVars>>
             /\ (WireTypes /\ GuiTypes /\ prompted \in [Texts -> Nat])'
    <2>1. SessionTypes'
      BY <1>0, <1>2 DEF SessionTypes, sessionVars
    <2>2. LogInv'
      BY <1>0, <1>2, LogSame DEF sessionVars
    <2> QED
      BY <1>2, <2>1, <2>2, TypesByPart DEF BaseInv
  <1>3. CASE Drop
    <2>1. sent' \in Seq([text : Texts, link : Nat])
      <3>1. << >> \in Seq([text : Texts, link : Nat])
        OBVIOUS
      <3> QED
        BY <1>0, <1>3, <3>1 DEF Drop, WireTypes
    <2>2. refused' \in Nat /\ lost' \in Nat
      BY <1>0, <1>3 DEF Drop, WireTypes
    <2>5. online' \in BOOLEAN
      BY <1>3, Zenon DEF Drop
    <2>3. WireTypes'
      BY <2>1, <2>2, <2>5, Zenon DEF WireTypes
    <2>4. GuiTypes' /\ prompted' \in [Texts -> Nat]
      BY <1>0, <1>3 DEF Drop, GuiTypes, guiVars
    <2> QED
      BY <1>2, <1>3, <2>3, <2>4 DEF Drop
  <1>4. CASE Reconnect
    <2>1. /\ online' = TRUE /\ folded' = 0 /\ kept' = tile.generation /\ tile' \in Tiles
          /\ UNCHANGED <<log, sessionVars, sent, refused, lost, prompted>>
      BY <1>0, <1>4, ReconnectStep
    <2>5. online' \in BOOLEAN
      BY <2>1, Zenon
    <2>2. WireTypes'
      BY <1>0, <2>1, <2>5 DEF WireTypes
    <2>3. kept' \in Nat
      BY <1>0, <2>1 DEF GuiTypes, Tiles
    <2>4. 0 \in 0 .. Len(log)
      BY <1>0 DEF SessionTypes
    <2>6. GuiTypes' /\ prompted' \in [Texts -> Nat]
      BY <1>0, <2>1, <2>3, <2>4 DEF GuiTypes
    <2> QED
      BY <1>2, <2>1, <2>2, <2>6
  <1>5. ASSUME NEW t \in Texts, Submit(t)
        PROVE  BaseInv'
    <2>1. /\ tile' \in Tiles /\ WireTypes' /\ prompted' \in [Texts -> Nat]
          /\ UNCHANGED <<log, sessionVars, folded, kept>>
      BY <1>0, <1>5, SubmitStep DEF Alike
    <2>2. GuiTypes'
      BY <1>0, <2>1 DEF GuiTypes
    <2> QED
      BY <1>2, <2>1, <2>2
  <1>6. CASE HearRefusal
    <2>1. tile' \in Tiles /\ WireTypes' /\ UNCHANGED <<log, sessionVars, folded, kept, prompted>>
      BY <1>0, <1>6, HearStep DEF Alike
    <2>2. GuiTypes' /\ prompted' \in [Texts -> Nat]
      BY <1>0, <2>1 DEF GuiTypes
    <2> QED
      BY <1>2, <2>1, <2>2
  <1>7. CASE FoldNext
    <2>1. /\ folded < Len(log) /\ folded' = folded + 1
          /\ UNCHANGED <<log, sessionVars, wireVars, kept, prompted>>
          /\ tile' \in Tiles
      BY <1>0, <1>7, FoldStep DEF Follows
    <2>2. folded' \in 0 .. Len(log')
      BY <1>0, <2>1 DEF GuiTypes, SessionTypes
    <2>3. GuiTypes' /\ prompted' \in [Texts -> Nat]
      BY <1>0, <2>1, <2>2 DEF GuiTypes
    <2>4. WireTypes'
      BY <1>0, <2>1 DEF WireTypes, wireVars
    <2> QED
      BY <1>2, <2>1, <2>3, <2>4
  <1>8. CASE UNCHANGED vars
    <2>1. WireTypes' /\ GuiTypes' /\ prompted' \in [Texts -> Nat]
      BY <1>0, <1>8 DEF vars, WireTypes, GuiTypes, wireVars, guiVars
    <2> QED
      BY <1>2, <1>8, <2>1 DEF vars
  <1> QED
    BY <1>1, <1>3, <1>4, <1>5, <1>6, <1>7, <1>8 DEF Next

(***************************************************************************)
(* Three kinds of step: the log grows and the tile lags, the tile is wiped *)
(* or a note is folded.                                                    *)
(***************************************************************************)

\* What is folded and kept stays, though rows may come.
Lags == Grows /\ UNCHANGED <<folded, kept>> /\ Alike(tile, tile')

\* Every step is one of the three.
LEMMA ThreeWays ==
    ASSUME BaseInv, [Next]_vars
    PROVE  Lags \/ Reconnect \/ FoldNext
  <1>0. TypeOK /\ GenerationsBelow /\ log \in Seq(Notes) /\ tile \in Tiles
    BY DEF BaseInv, LogInv, TypeOK
  <1>1. Alike(tile, tile)
    <2>1. tile.asked \in [Texts -> Nat]
      BY <1>0 DEF Tiles
    <2> QED
      BY <1>0, <2>1 DEF Alike, KeepsRows
  <1>2. CASE SessionNext
    BY <1>0, <1>1, <1>2, SessionStep DEF Lags, guiVars
  <1>3. CASE Drop \/ UNCHANGED vars
    <2>1. Grows /\ UNCHANGED guiVars
      BY <1>0, <1>3, NothingWritten DEF Drop, vars
    <2> QED
      BY <1>1, <2>1 DEF Lags, guiVars
  <1>4. ASSUME NEW t \in Texts, Submit(t)
        PROVE  Lags
    <2>1. Alike(tile, tile') /\ UNCHANGED <<log, folded, kept>>
      BY <1>0, <1>4, SubmitStep
    <2> QED
      BY <1>0, <2>1, NothingWritten DEF Lags
  <1>5. CASE HearRefusal
    <2>1. Alike(tile, tile') /\ UNCHANGED <<log, folded, kept>>
      BY <1>0, <1>5, HearStep
    <2> QED
      BY <1>0, <2>1, NothingWritten DEF Lags
  <1> QED
    BY <1>2, <1>3, <1>4, <1>5 DEF Next

\* A log that grows, seen from the places already folded.
LEMMA LagPlaces ==
    ASSUME BaseInv, Lags
    PROVE  /\ folded' = folded /\ kept' = kept
           /\ \A i \in 1 .. folded : i \in DOMAIN log /\ log'[i] = log[i]
           /\ \A i \in DOMAIN log : i \in DOMAIN log' /\ log'[i] = log[i]
           /\ folded \in Nat
           /\ folded > 0 => folded \in 1 .. folded
  <1>1. folded \in 0 .. Len(log) /\ log \in Seq(Notes)
    BY DEF BaseInv, TypeOK
  <1>2. \A i \in 1 .. folded : i \in DOMAIN log
    BY <1>1
  <1> QED
    BY <1>1, <1>2 DEF Lags, Grows

\* The notes that are folded and the one that is.
LEMMA FoldPlaces ==
    ASSUME BaseInv, FoldNext
    PROVE  /\ log' = log /\ kept' = kept /\ folded' = folded + 1
           /\ online' = online
           /\ folded \in Nat /\ folded + 1 \in DOMAIN log
           /\ 1 .. folded' = 1 .. folded \cup {folded + 1}
           /\ \A i \in 1 .. folded : i \in DOMAIN log /\ i < folded + 1
           /\ Note = log[folded + 1] /\ Note \in Notes
           /\ tile \in Tiles /\ tile.generation \in Nat
           /\ \A i \in DOMAIN log : log[i].kind \in Canonical => log[i].generation \in Nat
           /\ Follows(Note, tile, tile')
  <1>1. TypeOK /\ CountsInv /\ folded \in 0 .. Len(log) /\ log \in Seq(Notes)
    BY DEF BaseInv, LogInv, TypeOK
  <1>2. /\ folded < Len(log) /\ folded' = folded + 1
        /\ folded + 1 \in DOMAIN log /\ Note \in Notes /\ tile \in Tiles
        /\ UNCHANGED <<log, sessionVars, wireVars, kept, prompted>>
        /\ Follows(Note, tile, tile')
    BY <1>1, FoldStep
  <1>3. folded \in Nat /\ Len(log) \in Nat /\ DOMAIN log = 1 .. Len(log)
    BY <1>1
  <1>4. \A i \in DOMAIN log : log[i] \in Notes
    BY <1>1
  <1>5. \A i \in DOMAIN log : log[i].kind \in Canonical => log[i].generation \in Nat
    BY <1>4, NoteFields
  <1> QED
    BY <1>2, <1>3, <1>5 DEF Note, Tiles, wireVars

(***************************************************************************)
(* Every prompt is shown.                                                  *)
(***************************************************************************)

ShownInv == EveryPromptIsShown /\ RemembersShown(tile)

\* Nothing that was folded, and nothing the reconciler remembers, leaves the screen
\* without the other being forgotten with it.
LEMMA ShownStep ==
    ASSUME BaseInv, ShownInv, [Next]_vars
    PROVE  ShownInv'
  <1>0. /\ EveryPromptIsShown /\ RemembersShown(tile)
        /\ tile \in Tiles /\ log \in Seq(Notes)
        /\ BaseInv'
    BY BaseStep DEF ShownInv, BaseInv, TypeOK
  <1>1. /\ \A t \in Texts : tile.asked[t] \in Nat
        /\ \A t \in Texts : tile'.asked[t] \in Nat
    <2>1. tile' \in Tiles
      BY <1>0 DEF BaseInv, TypeOK
    <2> QED
      BY <1>0, <2>1 DEF Tiles
  <1>2. \A i \in DOMAIN log : log[i].kind = "UserPrompt" => log[i].text \in Texts
    <2>1. \A i \in DOMAIN log : log[i] \in Notes
      BY <1>0
    <2> QED
      BY <2>1, NoteFields
  <1>3. CASE Lags
    <2>1. /\ folded' = folded
          /\ \A i \in 1 .. folded : i \in DOMAIN log /\ log'[i] = log[i]
      BY <1>3, LagPlaces
    <2>2. KeepsRows(tile, tile') /\ RemembersShown(tile')
      BY <1>0, <1>3 DEF Lags, Alike
    <2>3. ASSUME NEW i \in 1 .. folded', log'[i].kind = "UserPrompt"
          PROVE  tile'.asked[log'[i].text] > 0
      <3>1. i \in 1 .. folded /\ log'[i] = log[i] /\ log[i].text \in Texts
        BY <1>2, <2>1, <2>3
      <3>2. tile.asked[log[i].text] > 0
        BY <1>0, <2>3, <3>1 DEF EveryPromptIsShown
      <3> QED
        BY <1>1, <2>2, <3>1, <3>2 DEF KeepsRows
    <2>4. RemembersShown(tile)'
      BY <2>2 DEF RemembersShown
    <2> QED
      BY <2>3, <2>4 DEF ShownInv, EveryPromptIsShown
  <1>4. CASE Reconnect
    <2>1. folded' = 0 /\ RemembersShown(tile')
      BY <1>4, ReconnectStep DEF BaseInv
    <2>2. RemembersShown(tile)'
      BY <2>1 DEF RemembersShown
    <2> QED
      BY <2>1, <2>2 DEF ShownInv, EveryPromptIsShown
  <1>5. CASE FoldNext
    <2>1. /\ log' = log /\ folded' = folded + 1
          /\ 1 .. folded' = 1 .. folded \cup {folded + 1}
          /\ \A i \in 1 .. folded : i \in DOMAIN log
          /\ Note = log[folded + 1] /\ folded + 1 \in DOMAIN log
          /\ Follows(Note, tile, tile')
      BY <1>5, FoldPlaces
    <2>2. /\ KeepsRows(tile, tile') /\ RemembersShown(tile')
          /\ Note.kind = "UserPrompt" => tile'.asked[Note.text] > 0
      BY <1>0, <2>1 DEF Follows, RowsFollow
    <2>3. ASSUME NEW i \in 1 .. folded', log'[i].kind = "UserPrompt"
          PROVE  tile'.asked[log'[i].text] > 0
      <3>1. CASE i \in 1 .. folded
        <4>1. log[i].text \in Texts /\ tile.asked[log[i].text] > 0
          BY <1>0, <1>2, <2>1, <2>3, <3>1 DEF EveryPromptIsShown
        <4> QED
          BY <1>1, <2>1, <2>2, <4>1 DEF KeepsRows
      <3>2. CASE i = folded + 1
        BY <2>1, <2>2, <2>3, <3>2
      <3> QED
        BY <2>1, <3>1, <3>2
    <2>4. RemembersShown(tile)'
      BY <2>2 DEF RemembersShown
    <2> QED
      BY <2>3, <2>4 DEF ShownInv, EveryPromptIsShown
  <1> QED
    BY <1>3, <1>4, <1>5, ThreeWays

\* The types of TranscriptFold hold for any number of texts, prompts, chunks, notes,
\* generations and losses (ManagedSession's transcript, AgentState).
THEOREM FoldTypes == Spec => []TypeOK
  <1>1. Init => BaseInv
    BY InitBase
  <1>2. BaseInv /\ [Next]_vars => BaseInv'
    BY BaseStep
  <1>3. BaseInv => TypeOK
    BY DEF BaseInv
  <1> QED
    BY <1>1, <1>2, <1>3, PTL DEF Spec

\* Every prompt the session logged, and the GUI folded, is on the screen, also after a
\* reconnect wiped it (UserTurnReconciler, reset_for_replay).
THEOREM PromptsAreShown == Spec => []EveryPromptIsShown
  <1>1. Init => BaseInv /\ ShownInv
    <2> SUFFICES ASSUME Init
                 PROVE  BaseInv /\ ShownInv
      OBVIOUS
    <2>1. BaseInv
      BY InitBase
    <2>2. folded = 0 /\ tile = EmptyTile
      BY DEF Init
    <2>3. EveryPromptIsShown /\ RemembersShown(tile)
      BY <2>2, EmptyTileIs DEF EveryPromptIsShown
    <2> QED
      BY <2>1, <2>3 DEF ShownInv
  <1>2. BaseInv /\ ShownInv /\ [Next]_vars => BaseInv' /\ ShownInv'
    BY BaseStep, ShownStep
  <1>3. ShownInv => EveryPromptIsShown
    BY DEF ShownInv
  <1> QED
    BY <1>1, <1>2, <1>3, PTL DEF Spec

(***************************************************************************)
(* The answers come once and in order.                                     *)
(***************************************************************************)

\* The tile's generation is the greatest it has folded, or the one it kept; the canonical
\* stream is in charge only of a generation that was folded.
GateInv ==
    /\ \A i \in 1 .. folded :
          log[i].kind \in Canonical => log[i].generation <= tile.generation
    /\ tile.authoritative =>
          \E i \in 1 .. folded :
              log[i].kind \in Canonical /\ log[i].generation = tile.generation
    /\ \/ tile.generation = kept
       \/ \E i \in 1 .. folded :
              log[i].kind \in Canonical /\ log[i].generation = tile.generation
    /\ \/ tile.generation = 0
       \/ \E i \in DOMAIN log :
              log[i].kind \in Canonical /\ log[i].generation >= tile.generation
    /\ kept <= tile.generation

\* begin_server_generation and reset_for_replay keep it so.
LEMMA GateStep ==
    ASSUME BaseInv, GateInv, [Next]_vars
    PROVE  GateInv'
  <1>0. /\ tile \in Tiles /\ tile.generation \in Nat /\ kept \in Nat
        /\ TypeOK
    BY DEF BaseInv, TypeOK, Tiles
  <1>1. CASE Lags
    <2>1. /\ folded' = folded /\ kept' = kept
          /\ \A i \in 1 .. folded : i \in DOMAIN log /\ log'[i] = log[i]
          /\ \A i \in DOMAIN log : i \in DOMAIN log' /\ log'[i] = log[i]
      BY <1>1, LagPlaces
    <2>2. tile'.generation = tile.generation /\ tile'.authoritative = tile.authoritative
      BY <1>1 DEF Lags, Alike
    <2> QED
      BY <2>1, <2>2 DEF GateInv
  <1>2. CASE Reconnect
    <2>1. /\ folded' = 0 /\ kept' = tile.generation /\ log' = log
          /\ tile'.generation = tile.generation /\ tile'.authoritative = FALSE
      BY <1>0, <1>2, ReconnectStep
    <2> QED
      BY <1>0, <2>1 DEF GateInv
  <1>3. CASE FoldNext
    <2> DEFINE n == Note
               G == tile.generation
               H == tile'.generation
    <2>1. /\ log' = log /\ kept' = kept /\ folded' = folded + 1
          /\ folded \in Nat /\ folded + 1 \in DOMAIN log
          /\ 1 .. folded' = 1 .. folded \cup {folded + 1}
          /\ \A i \in 1 .. folded : i \in DOMAIN log /\ i < folded + 1
          /\ n = log[folded + 1]
          /\ \A i \in DOMAIN log : log[i].kind \in Canonical => log[i].generation \in Nat
      BY <1>3, FoldPlaces
    <2>2. /\ H = IF n.kind \in Canonical /\ n.generation > G THEN n.generation ELSE G
          /\ tile'.authoritative =>
                \/ tile.authoritative /\ H = G
                \/ n.kind \in Boundaries /\ n.generation = H
      BY <1>3, FoldPlaces DEF Follows, GateFollows
    <2>3. n.kind \in Canonical => n.generation \in Nat
      BY <2>1
    <2>4. H \in Nat /\ G \in Nat /\ G <= H /\ (n.kind \in Canonical => n.generation <= H)
          /\ (H = G \/ (n.kind \in Canonical /\ n.generation = H))
      BY <1>0, <2>2, <2>3
    <2>5. Boundaries \subseteq Canonical
      BY DEF Boundaries, Canonical
    <2> HIDE DEF n, G, H
    <2>6. \A i \in 1 .. folded' : log'[i].kind \in Canonical => log'[i].generation <= H
      <3> SUFFICES ASSUME NEW i \in 1 .. folded', log[i].kind \in Canonical
                   PROVE  log[i].generation <= H
        BY <2>1
      <3>1. CASE i \in 1 .. folded
        <4>1. log[i].generation <= G /\ log[i].generation \in Nat
          BY <2>1, <3>1 DEF GateInv, G
        <4>2. G \in Nat /\ H \in Nat /\ G <= H
          BY <2>4
        <4> QED
          BY <4>1, <4>2
      <3>2. CASE i = folded + 1
        BY <2>1, <2>4, <3>2
      <3> QED
        BY <2>1, <3>1, <3>2
    <2>7. ASSUME H = G, \E i \in 1 .. folded :
                          log[i].kind \in Canonical /\ log[i].generation = G
          PROVE  \E i \in 1 .. folded' :
                    log'[i].kind \in Canonical /\ log'[i].generation = H
      BY <2>1, <2>7
    <2>8. ASSUME n.kind \in Canonical, n.generation = H
          PROVE  \E i \in 1 .. folded' :
                    log'[i].kind \in Canonical /\ log'[i].generation = H
      BY <2>1, <2>8
    <2>9. tile'.authoritative =>
             \E i \in 1 .. folded' :
                log'[i].kind \in Canonical /\ log'[i].generation = H
      BY <2>2, <2>5, <2>7, <2>8 DEF GateInv, G
    <2>10. \/ H = kept'
           \/ \E i \in 1 .. folded' :
                 log'[i].kind \in Canonical /\ log'[i].generation = H
      BY <2>1, <2>4, <2>7, <2>8 DEF GateInv, G
    <2>11. \/ H = 0
           \/ \E i \in DOMAIN log' :
                 log'[i].kind \in Canonical /\ log'[i].generation >= H
      <3>1. CASE H = G
        BY <2>1, <3>1 DEF GateInv, G
      <3>2. CASE n.kind \in Canonical /\ n.generation = H
        BY <2>1, <2>4, <3>2
      <3> QED
        BY <2>4, <3>1, <3>2
    <2>12. kept' <= H
      <3>1. kept \in Nat /\ kept' = kept /\ kept <= G
        BY <1>0, <2>1 DEF GateInv, G
      <3>2. G \in Nat /\ H \in Nat /\ G <= H
        BY <2>4
      <3> QED
        BY <3>1, <3>2
    <2> QED
      BY <2>6, <2>9, <2>10, <2>11, <2>12 DEF GateInv, H
  <1> QED
    BY <1>1, <1>2, <1>3, ThreeWays

\* The numbers of some replies.
Ids(s) == [i \in DOMAIN s |-> s[i].id]

LEMMA IdsAppend ==
    ASSUME NEW s \in Seq(Notes), NEW n \in Notes
    PROVE  Ids(Append(s, n)) = Append(Ids(s), n.id)
  <1> DEFINE t == Append(s, n)
             l == Len(s)
  <1>1. /\ l \in Nat /\ DOMAIN s = 1 .. l /\ DOMAIN t = 1 .. l + 1
        /\ t[l + 1] = n /\ \A i \in 1 .. l : t[i] = s[i]
    OBVIOUS
  <1> HIDE DEF t, l
  <1> DEFINE u == [i \in 1 .. l |-> s[i].id]
  <1>2. Ids(s) = u /\ Ids(t) = [i \in 1 .. l + 1 |-> t[i].id]
    BY <1>1 DEF Ids
  <1>3. Append(u, n.id) = [i \in 1 .. l + 1 |-> IF i <= l THEN s[i].id ELSE n.id]
    <2>1. Len(u) = l
      BY <1>1
    <2>2. Append(u, n.id) = [i \in 1 .. Len(u) + 1 |-> IF i = Len(u) + 1 THEN n.id ELSE u[i]]
      <3> DEFINE V == {s[i].id : i \in 1 .. l} \cup {n.id}
      <3>1. u \in Seq(V) /\ n.id \in V
        BY <1>1
      <3> HIDE DEF u, V
      <3> QED
        BY <3>1
    <2> HIDE DEF u
    <2>3. \A i \in 1 .. l : u[i] = s[i].id
      BY DEF u
    <2>4. \A i \in 1 .. l + 1 :
             (IF i = l + 1 THEN n.id ELSE u[i]) = (IF i <= l THEN s[i].id ELSE n.id)
      BY <1>1, <2>3
    <2> QED
      BY <2>1, <2>2, <2>4
  <1>4. \A i \in 1 .. l + 1 : t[i].id = IF i <= l THEN s[i].id ELSE n.id
    BY <1>1
  <1> QED
    BY <1>2, <1>3, <1>4 DEF t

\* What the legacy stream says, folded one note further.
LEMMA SaidOneMore ==
    ASSUME log \in Seq(Notes), folded \in Nat, folded + 1 \in DOMAIN log,
           log' = log, folded' = folded + 1
    PROVE  /\ log[folded + 1].kind = "ReplyChunk" =>
                  SaidByLog' = Append(SaidByLog, log[folded + 1].id)
           /\ log[folded + 1].kind # "ReplyChunk" => SaidByLog' = SaidByLog
  <1> DEFINE n == log[folded + 1]
  <1>1. n \in Notes /\ Folded \in Seq(Notes) /\ folded \in 0 .. Len(log)
    <2>1. 1 \in 1 .. Len(log) + 1 /\ folded \in 0 .. Len(log)
      OBVIOUS
    <2>2. SubSeq(log, 1, folded) \in Seq(Notes)
      BY <2>1, ElementsPart
    <2> QED
      BY <2>1, <2>2 DEF Folded
  <1>2. Folded' = Append(Folded, n)
    <2> DEFINE a == SubSeq(log, 1, folded)
               b == SubSeq(log, 1, folded + 1)
    <2>1. Len(log) \in Nat /\ folded + 1 \in 1 .. Len(log)
      OBVIOUS
    <2>2. \A i \in 1 .. folded + 1 : log[i] \in Notes
      BY <2>1
    <2>3. /\ a \in Seq(Notes) /\ Len(a) = folded /\ \A i \in 1 .. folded : a[i] = log[i]
          /\ b \in Seq(Notes) /\ Len(b) = folded + 1 /\ \A i \in 1 .. folded + 1 : b[i] = log[i]
      BY <2>1, <2>2
    <2> HIDE DEF a, b, n
    <2>4. b = Append(a, n)
      <3>1. /\ Append(a, n) \in Seq(Notes) /\ Len(Append(a, n)) = folded + 1
            /\ \A i \in 1 .. folded + 1 : Append(a, n)[i] = log[i]
        BY <1>1, <2>3 DEF n
      <3> QED
        BY <2>3, <3>1
    <2> QED
      BY <2>4 DEF Folded, a, b
  <1>3. SaidByLog = Ids(Select(Folded, Replies)) /\ SaidByLog' = Ids(Select(Folded, Replies)')
    BY DEF SaidByLog, Ids
  <1>4. Select(Folded, Replies)' =
            IF n \in Replies THEN Append(Select(Folded, Replies), n) ELSE Select(Folded, Replies)
    <2>1. Select(Folded, Replies)' = Select(Append(Folded, n), Replies)
      BY <1>2 DEF Replies
    <2> HIDE DEF n
    <2>2. Select(Append(Folded, n), Replies) =
              IF n \in Replies THEN Append(Select(Folded, Replies), n) ELSE Select(Folded, Replies)
      BY <1>1, SelectAppend
    <2> QED
      BY <2>1, <2>2
  <1>5. n \in Replies <=> n.kind = "ReplyChunk"
    BY <1>1, RepliesByKind
  <1>6. Select(Folded, Replies) \in Seq(Notes)
    BY <1>1, SelectElements
  <1> QED
    BY <1>1, <1>3, <1>4, <1>5, <1>6, IdsAppend

\* What was folded stays what it was when the log grows.
LEMMA SaidLags ==
    ASSUME BaseInv, Lags
    PROVE  SaidByLog' = SaidByLog
  <1>1. /\ log \in Seq(Notes) /\ log' \in Seq(Notes) /\ folded' = folded
        /\ folded \in 0 .. Len(log) /\ Len(log) <= Len(log')
        /\ \A i \in 1 .. folded : log'[i] = log[i]
    BY LagPlaces DEF BaseInv, TypeOK, Lags, Grows
  <1> DEFINE a == SubSeq(log, 1, folded)
             b == SubSeq(log', 1, folded)
  <1>2. \A i \in 1 .. folded : log[i] \in Notes /\ log'[i] \in Notes
    BY <1>1
  <1>3. /\ a \in Seq(Notes) /\ Len(a) = folded /\ \A i \in 1 .. folded : a[i] = log[i]
        /\ b \in Seq(Notes) /\ Len(b) = folded /\ \A i \in 1 .. folded : b[i] = log'[i]
    BY <1>1, <1>2
  <1> HIDE DEF a, b
  <1>4. a = b
    BY <1>1, <1>3
  <1>5. Folded' = Folded
    BY <1>1, <1>4 DEF Folded, a, b
  <1> QED
    BY <1>5 DEF SaidByLog, Replies

\* An empty tile has said nothing of an unfolded log.
LEMMA SaidNothing ==
    ASSUME log \in Seq(Notes), folded = 0
    PROVE  SaidByLog = << >>
  <1>1. Folded = << >>
    BY DEF Folded
  <1>2. Select(Folded, Replies) = << >>
    BY <1>1, SelectNothing
  <1>3. Ids(<< >>) = << >>
    <2>1. DOMAIN << >> = {}
      OBVIOUS
    <2> QED
      BY <2>1 DEF Ids
  <1> QED
    BY <1>2, <1>3 DEF SaidByLog, Ids

\* Ahead of the legacy stream by the chunk just folded, if the canonical one is in charge.
SaidInv ==
    IF folded > 0 /\ log[folded].kind = "Chunk" /\ tile.authoritative
    THEN tile.said = Append(SaidByLog, log[folded].id)
    ELSE tile.said = SaidByLog

\* The canonical note of a chunk is folded if and only if its stream is in charge: the
\* chunk's channel was opened earlier in the log, so it begins no generation.
LEMMA ChunkGate ==
    ASSUME BaseInv, GateInv, FoldNext, Note.kind = "Chunk"
    PROVE  /\ Listens(tile, Note) <=> tile.authoritative
           /\ tile'.authoritative <=> tile.authoritative
  <1> DEFINE n == Note
             G == tile.generation
  <1>1. /\ folded \in Nat /\ folded + 1 \in DOMAIN log
        /\ \A i \in 1 .. folded : i \in DOMAIN log /\ i < folded + 1
        /\ n = log[folded + 1] /\ G \in Nat
        /\ \A i \in DOMAIN log : log[i].kind \in Canonical => log[i].generation \in Nat
        /\ Follows(n, tile, tile')
    BY FoldPlaces
  <1>2. GenerationsRise /\ OpenedBefore /\ log \in Seq(Notes)
    BY DEF BaseInv, LogInv, TypeOK
  <1>3. n.generation \in Nat /\ n.generation <= G
    <2>1. PICK j \in DOMAIN log :
             j < folded + 1 /\ log[j].kind = "Opened" /\ log[j].generation = n.generation
      BY <1>1, <1>2 DEF OpenedBefore
    <2>2. j \in 1 .. folded
      BY <1>1, <1>2, <2>1
    <2> QED
      BY <1>1, <2>1, <2>2 DEF GateInv, Canonical
  <1>4. tile.authoritative => n.generation = G
    <2> SUFFICES ASSUME tile.authoritative
                 PROVE  n.generation = G
      OBVIOUS
    <2>1. PICK i \in 1 .. folded : log[i].kind \in Canonical /\ log[i].generation = G
      BY DEF GateInv
    <2>2. log[i].generation <= n.generation
      BY <1>1, <1>2, <2>1 DEF GenerationsRise, Canonical
    <2> QED
      BY <1>1, <1>3, <2>1, <2>2
  <1>5. Listens(tile, n) <=> tile.authoritative
    BY <1>1, <1>3, <1>4 DEF Listens, Boundaries
  <1>6. tile'.generation = G
    BY <1>1, <1>3 DEF Follows, GateFollows
  <1>7. tile'.authoritative <=> tile.authoritative
    BY <1>1, <1>6 DEF Follows, GateFollows, Boundaries
  <1> QED
    BY <1>5, <1>7

\* Of two notes of a chunk exactly one is folded.
LEMMA SaidStep ==
    ASSUME BaseInv, GateInv, SaidInv, [Next]_vars
    PROVE  SaidInv'
  <1>0. log \in Seq(Notes) /\ folded \in 0 .. Len(log) /\ tile.authoritative \in BOOLEAN
    BY DEF BaseInv, TypeOK, Tiles
  <1>1. CASE Lags
    <2>1. /\ folded' = folded
          /\ \A i \in 1 .. folded : log'[i] = log[i]
          /\ folded > 0 => folded \in 1 .. folded
      BY <1>1, LagPlaces
    <2>2. tile'.said = tile.said /\ tile'.authoritative = tile.authoritative
      BY <1>1 DEF Lags, Alike
    <2>3. SaidByLog' = SaidByLog
      BY <1>1, SaidLags
    <2> QED
      BY <2>1, <2>2, <2>3 DEF SaidInv
  <1>2. CASE Reconnect
    <2>1. folded' = 0 /\ log' = log /\ tile'.said = << >>
      BY <1>2, ReconnectStep DEF BaseInv
    <2>2. SaidByLog' = << >>
      <3>1. Folded' = << >>
        BY <1>0, <2>1 DEF Folded
      <3>2. Select(Folded, Replies)' = << >>
        BY <3>1, SelectNothing
      <3>3. Ids(<< >>) = << >>
        <4>1. DOMAIN << >> = {}
          OBVIOUS
        <4> QED
          BY <4>1 DEF Ids
      <3> QED
        BY <3>2, <3>3 DEF SaidByLog, Ids
    <2> QED
      BY <2>1, <2>2 DEF SaidInv
  <1>3. CASE FoldNext
    <2> DEFINE n == Note
    <2>1. /\ log' = log /\ folded' = folded + 1 /\ folded \in Nat /\ folded + 1 \in DOMAIN log
          /\ n = log[folded + 1]
          /\ SaidFollows(n, tile, tile')
      BY <1>3, FoldPlaces DEF Follows
    <2>2. /\ n.kind = "ReplyChunk" => SaidByLog' = Append(SaidByLog, n.id)
          /\ n.kind # "ReplyChunk" => SaidByLog' = SaidByLog
      BY <1>0, <2>1, SaidOneMore
    <2>3. log'[folded'] = n /\ folded' > 0
      BY <2>1
    <2>4. PairsInv
      BY DEF BaseInv, LogInv
    <2>5. folded > 0 => folded \in DOMAIN log
      BY <1>0
    <2>6. CASE n.kind = "Chunk"
      <3>1. /\ Listens(tile, n) <=> tile.authoritative
            /\ tile'.authoritative <=> tile.authoritative
        BY <1>3, <2>6, ChunkGate
      <3>2. tile.said = SaidByLog
        <4>1. ~ (folded > 0 /\ log[folded].kind = "Chunk")
          BY <2>1, <2>4, <2>5, <2>6 DEF PairsInv
        <4> QED
          BY <4>1 DEF SaidInv
      <3>3. tile'.said = IF tile.authoritative THEN Append(SaidByLog, n.id) ELSE SaidByLog
        BY <2>1, <2>6, <3>1, <3>2 DEF SaidFollows
      <3>4. SaidByLog' = SaidByLog
        BY <2>2, <2>6
      <3> QED
        BY <2>3, <2>6, <3>1, <3>3, <3>4 DEF SaidInv
    <2>7. CASE n.kind = "ReplyChunk"
      <3>1. /\ folded > 0 /\ log[folded].kind = "Chunk" /\ log[folded].id = n.id
        <4>1. folded + 1 - 1 \in DOMAIN log /\ log[folded + 1 - 1].kind = "Chunk"
          BY <2>1, <2>4, <2>7 DEF PairsInv
        <4>2. folded + 1 - 1 = folded
          BY <2>1
        <4>3. folded \in DOMAIN log /\ log[folded].kind = "Chunk"
          BY <4>1, <4>2
        <4>4. log[folded + 1].id = log[folded].id
          BY <2>4, <4>3 DEF PairsInv
        <4> QED
          BY <1>0, <2>1, <4>3, <4>4
      <3>2. tile.said = IF tile.authoritative THEN Append(SaidByLog, n.id) ELSE SaidByLog
        BY <3>1 DEF SaidInv
      <3>3. tile'.said = IF tile.authoritative THEN tile.said ELSE Append(tile.said, n.id)
        BY <2>1, <2>7 DEF SaidFollows
      <3>4. tile'.said = Append(SaidByLog, n.id)
        BY <3>2, <3>3
      <3> QED
        BY <2>2, <2>3, <2>7, <3>4 DEF SaidInv
    <2>8. CASE n.kind \notin {"Chunk", "ReplyChunk"}
      <3>1. tile.said = SaidByLog
        <4>1. ~ (folded > 0 /\ log[folded].kind = "Chunk")
          BY <2>1, <2>4, <2>5, <2>8 DEF PairsInv
        <4> QED
          BY <4>1 DEF SaidInv
      <3>2. tile'.said = tile.said
        BY <2>1, <2>8 DEF SaidFollows
      <3> QED
        BY <2>2, <2>3, <2>8, <3>1, <3>2 DEF SaidInv
    <2> QED
      BY <2>6, <2>7, <2>8
  <1> QED
    BY <1>1, <1>2, <1>3, ThreeWays

\* In the first state nothing is folded.
LEMMA InitGate == Init => GateInv /\ SaidInv
  <1> SUFFICES ASSUME Init
               PROVE  GateInv /\ SaidInv
    OBVIOUS
  <1>1. log = << >> /\ folded = 0 /\ kept = 0 /\ tile = EmptyTile
    BY DEF Init
  <1>2. tile.generation = 0 /\ tile.authoritative = FALSE /\ tile.said = << >>
    BY <1>1, EmptyTileIs
  <1>3. GateInv
    BY <1>1, <1>2 DEF GateInv
  <1>4. log \in Seq(Notes)
    BY <1>1
  <1> QED
    BY <1>1, <1>2, <1>3, <1>4, SaidNothing DEF SaidInv

\* What the agent said is shown once, whole and in order, whichever of the two streams is
\* folded (agent_stream_authoritative in apply_server_batch).
THEOREM AnswersAreShownOnce == Spec => []AnswersOnceInOrder
  <1>1. Init => BaseInv /\ GateInv /\ SaidInv
    BY InitBase, InitGate
  <1>2. BaseInv /\ GateInv /\ SaidInv /\ [Next]_vars => BaseInv' /\ GateInv' /\ SaidInv'
    BY BaseStep, GateStep, SaidStep
  <1>3. SaidInv => AnswersOnceInOrder
    BY DEF SaidInv, AnswersOnceInOrder
  <1> QED
    BY <1>1, <1>2, <1>3, PTL DEF Spec

(***************************************************************************)
(* The tile does not stay on "thinking".                                   *)
(***************************************************************************)

\* No replay ended under a generation older than the one the tile kept.
ReplaysAreNew == \A i \in DOMAIN log : log[i].kind = "ReplayEnd" => log[i].generation >= kept

\* The ledger has turns that ended, and a replay's end took none of its entries: the
\* stream that brings it is in charge when the legacy note of it comes.
LedgerInv ==
    ReplaysAreNew =>
        /\ \A key \in tile.finalized : key[2] < turns
        /\ folded > 0 /\ log[folded].kind = "ReplayEnd" => tile.authoritative

\* A note that ends the wait of tile g when it is folded.
Relieves(n, g) ==
    \/ n.kind \in {"PromptRejected", "SessionDetached"}
    \/ n.kind \in Canonical /\ n.generation > g.generation
    \/ n.kind = "TurnEnded" /\ \A key \in g.finalized : key[2] # n.count - 1

\* A note to come ends the wait.
NoteComes == \E i \in DOMAIN log : i > folded /\ Relieves(log[i], tile)

\* A prompt of this connection is still on its way to the actor.
PromptUnread == \E i \in DOMAIN sent : sent[i].link = lost

\* What is on its way to a tile that waits.
Relief ==
    \/ ~ online
    \/ refused > 0
    \/ PromptUnread
    \/ owed # << >>
    \/ Waiting /\ tile.generation < generation
    \/ NoteComes

ReliefInv == ReplaysAreNew /\ tile.awaiting => Relief

\* The count of turns only goes up.
LEMMA TurnsGrow ==
    ASSUME BaseInv, [Next]_vars
    PROVE  turns <= turns'
  <1>0. TypeOK /\ GenerationsBelow /\ turns \in Nat
    BY DEF BaseInv, LogInv, TypeOK
  <1>1. CASE SessionNext
    BY <1>0, <1>1, SessionStep, WritesNew
  <1>2. CASE ~ SessionNext
    <2>1. turns' = turns
      <3>1. CASE FoldNext
        BY <1>0, <3>1, FoldStep DEF BaseInv, LogInv, sessionVars
      <3>2. CASE ~ FoldNext
        BY <1>2, <3>2 DEF Next, Drop, Reconnect, Submit, HearRefusal, vars, sessionVars
      <3> QED
        BY <3>1, <3>2
    <2> QED
      BY <1>0, <2>1
  <1> QED
    BY <1>1, <1>2

\* What was true of the replays of a longer log and a later wipe was true before.
LEMMA ReplaysWereNew ==
    ASSUME BaseInv, GateInv, [Next]_vars, ReplaysAreNew'
    PROVE  ReplaysAreNew
  <1>0. kept \in Nat /\ tile.generation \in Nat /\ log \in Seq(Notes) /\ TypeOK
    BY DEF BaseInv, TypeOK, Tiles
  <1>1. \A i \in DOMAIN log : log[i].kind = "ReplayEnd" => log[i].generation \in Nat
    <2>1. \A i \in DOMAIN log : log[i] \in Notes
      BY <1>0
    <2> QED
      BY <2>1, NoteFields DEF Canonical
  <1>2. /\ \A i \in DOMAIN log : i \in DOMAIN log' /\ log'[i] = log[i]
        /\ kept' \in Nat /\ kept <= kept'
    <2>1. CASE Lags
      BY <1>0, <2>1, LagPlaces
    <2>2. CASE Reconnect
      BY <1>0, <2>2, ReconnectStep DEF GateInv
    <2>3. CASE FoldNext
      BY <1>0, <2>3, FoldPlaces
    <2> QED
      BY <2>1, <2>2, <2>3, ThreeWays
  <1>3. ASSUME NEW i \in DOMAIN log, log[i].kind = "ReplayEnd"
        PROVE  log[i].generation >= kept
    <2>1. log[i].generation >= kept' /\ log[i].generation \in Nat
      BY <1>1, <1>2, <1>3 DEF ReplaysAreNew
    <2> QED
      BY <1>0, <1>2, <2>1
  <1> QED
    BY <1>3 DEF ReplaysAreNew

\* A ledger entry is taken by a turn that ended (settle_agent_effect).
LEMMA LedgerStep ==
    ASSUME BaseInv, GateInv, LedgerInv, [Next]_vars
    PROVE  LedgerInv'
  <1> SUFFICES ASSUME ReplaysAreNew'
               PROVE  /\ \A key \in tile'.finalized : key[2] < turns'
                      /\ folded' > 0 /\ log'[folded'].kind = "ReplayEnd" => tile'.authoritative
    BY DEF LedgerInv
  <1>0. /\ ReplaysAreNew /\ turns <= turns' /\ turns \in Nat /\ turns' \in Nat
        /\ tile \in Tiles /\ kept \in Nat /\ log \in Seq(Notes)
        /\ folded \in 0 .. Len(log)
        /\ PairsInv /\ CountsInv /\ GenerationsRise
        /\ TypeOK
    <2>1. BaseInv'
      BY BaseStep
    <2> QED
      BY <2>1, ReplaysWereNew, TurnsGrow DEF BaseInv, TypeOK, LogInv
  <1>1. /\ \A key \in tile.finalized : key[2] < turns /\ key[2] \in Nat
        /\ folded > 0 /\ log[folded].kind = "ReplayEnd" => tile.authoritative
    <2>1. \A key \in tile.finalized : key \in Nat \X Nat
      BY <1>0 DEF Tiles
    <2> QED
      BY <1>0, <2>1 DEF LedgerInv
  <1>2. CASE Lags
    <2>1. /\ folded' = folded
          /\ \A i \in 1 .. folded : log'[i] = log[i]
          /\ folded > 0 => folded \in 1 .. folded
      BY <1>2, LagPlaces
    <2>2. tile'.finalized = tile.finalized /\ tile'.authoritative = tile.authoritative
      BY <1>2 DEF Lags, Alike
    <2> QED
      BY <1>0, <1>1, <2>1, <2>2
  <1>3. CASE Reconnect
    <2>1. folded' = 0 /\ tile'.finalized = {}
      BY <1>0, <1>3, ReconnectStep
    <2> QED
      BY <2>1
  <1>4. CASE FoldNext
    <2> DEFINE n == Note
               G == tile.generation
    <2>1. /\ log' = log /\ folded' = folded + 1 /\ folded \in Nat /\ folded + 1 \in DOMAIN log
          /\ n = log[folded + 1] /\ n \in Notes /\ G \in Nat
          /\ \A i \in 1 .. folded : i \in DOMAIN log /\ i < folded + 1
          /\ GateFollows(n, tile, tile') /\ TurnsFollow(n, tile, tile')
      BY <1>4, FoldPlaces DEF Follows
    <2>2. ASSUME NEW key \in tile'.finalized
          PROVE  key[2] < turns'
      <3>1. CASE key \in tile.finalized
        BY <1>0, <1>1, <3>1
      <3>2. CASE n.kind = "AgentEnded" /\ key[2] = n.turn
        <4>1. n.turn < turns /\ n.turn \in Nat
          BY <1>0, <2>1, <3>2, NoteFields DEF CountsInv, Canonical
        <4> QED
          BY <1>0, <3>2, <4>1
      <3>3. CASE n.kind = "TurnEnded" /\ key[2] = n.count - 1
        <4>1. n.count \in 1 .. turns
          BY <1>0, <2>1, <3>3 DEF CountsInv
        <4> QED
          BY <1>0, <3>3, <4>1
      <3>4. ~ (n.kind = "ReplayComplete" /\ ~ tile.authoritative)
        <4> SUFFICES ASSUME n.kind = "ReplayComplete", ~ tile.authoritative
                     PROVE  FALSE
          OBVIOUS
        <4>4. PairsInv /\ folded + 1 \in DOMAIN log /\ log[folded + 1].kind = "ReplayComplete"
          BY <1>0, <2>1
        <4>5. \A i \in DOMAIN log : log[i].kind = "ReplayComplete" =>
                 i - 1 \in DOMAIN log /\ log[i - 1].kind = "ReplayEnd"
          BY <4>4 DEF PairsInv
        <4>6. PICK j \in DOMAIN log : j = folded + 1 /\ log[j].kind = "ReplayComplete"
          BY <4>4
        <4>1. j - 1 \in DOMAIN log /\ log[j - 1].kind = "ReplayEnd"
          BY <4>5, <4>6
        <4>2. j - 1 = folded
          BY <2>1, <4>6
        <4>3. folded > 0
          BY <1>0, <2>1, <4>1, <4>2
        <4> QED
          BY <1>1, <4>1, <4>2, <4>3
      <3> QED
        BY <2>1, <3>1, <3>2, <3>3, <3>4 DEF TurnsFollow
    <2>3. ASSUME n.kind = "ReplayEnd"
          PROVE  tile'.authoritative
      <3>1. n.generation \in Nat /\ n.kind \in Canonical
        BY <2>1, <2>3, NoteFields DEF Canonical
      <3>2. n.generation >= G
        <4>1. CASE G = kept
          BY <1>0, <2>1, <2>3, <4>1 DEF ReplaysAreNew
        <4>2. CASE \E i \in 1 .. folded : log[i].kind \in Canonical /\ log[i].generation = G
          <5>1. PICK i \in 1 .. folded : log[i].kind \in Canonical /\ log[i].generation = G
            BY <4>2
          <5>2. log[i].generation <= n.generation
            BY <1>0, <2>1, <3>1, <5>1 DEF GenerationsRise
          <5> QED
            BY <2>1, <3>1, <5>1, <5>2
        <4> QED
          BY <4>1, <4>2 DEF GateInv
      <3> QED
        BY <2>1, <2>3, <3>2 DEF GateFollows
    <2> QED
      BY <2>1, <2>2, <2>3
  <1> QED
    BY <1>2, <1>3, <1>4, ThreeWays

\* A note on its way stays on its way while the tile lags.
LEMMA NoteStaysAhead ==
    ASSUME BaseInv, Lags, NoteComes
    PROVE  NoteComes'
  <1>1. /\ folded' = folded
        /\ \A i \in DOMAIN log : i \in DOMAIN log' /\ log'[i] = log[i]
        /\ tile'.generation = tile.generation /\ tile'.finalized = tile.finalized
    BY LagPlaces DEF Lags, Alike
  <1>2. PICK i \in DOMAIN log : i > folded /\ Relieves(log[i], tile)
    BY DEF NoteComes
  <1>3. Relieves(log[i], tile')
    BY <1>1, <1>2 DEF Relieves
  <1> QED
    BY <1>1, <1>2, <1>3 DEF NoteComes

\* So does one that a step of the session writes.
LEMMA NoteWritten ==
    ASSUME BaseInv, Grows, UNCHANGED guiVars, NEW i \in Written, Relieves(log'[i], tile)
    PROVE  NoteComes'
  <1>1. folded \in 0 .. Len(log) /\ TypeOK
    BY DEF BaseInv, TypeOK
  <1>2. i \in DOMAIN log' /\ i > folded
    <2>1. i \in DOMAIN log' /\ Len(log) \in Nat /\ Len(log') \in Nat
      BY <1>1, OldOrNew
    <2> QED
      BY <1>1, <2>1 DEF Written
  <1>3. Relieves(log'[i], tile')
    BY DEF guiVars
  <1> QED
    BY <1>1, <1>2, <1>3 DEF NoteComes, guiVars

\* A prompt on its way to the actor is admitted, refused or still on its way
\* (enqueue_prompt, Request::Prompt).
LEMMA PromptMoves ==
    ASSUME BaseInv, online, SessionNext, ~ Crash, PromptUnread
    PROVE  (PromptUnread \/ owed # << >> \/ refused > 0)'
  <1>0. /\ TypeOK /\ sent \in Seq([text : Texts, link : Nat]) /\ refused \in Nat
        /\ GenerationsBelow
    BY DEF BaseInv, LogInv, TypeOK
  <1>1. PICK i \in DOMAIN sent : sent[i].link = lost
    BY DEF PromptUnread
  <1>2. sent # << >>
    BY <1>1
  <1>3. CASE Admit
    <2>1. owed' # << >>
      BY <1>0, <1>3, HeadSent, AdmittedWrites DEF Admit
    <2> QED
      BY <2>1
  <1>4. CASE Refuse
    <2>1. /\ i = 1 \/ (i - 1 \in DOMAIN Tail(sent) /\ Tail(sent)[i - 1] = sent[i])
          /\ Head(sent) = sent[1]
      BY <1>0, <1>1, <1>2, HeadSent
    <2>2. CASE i = 1
      <3>1. refused' = refused + 1
        BY <1>1, <1>4, <2>1, <2>2 DEF Refuse
      <3> QED
        BY <1>0, <3>1
    <2>3. CASE i - 1 \in DOMAIN Tail(sent) /\ Tail(sent)[i - 1] = sent[i]
      <3>1. sent' = Tail(sent) /\ lost' = lost
        BY <1>4 DEF Refuse
      <3>2. PromptUnread'
        BY <1>1, <2>3, <3>1 DEF PromptUnread
      <3> QED
        BY <3>2
    <2> QED
      BY <2>1, <2>2, <2>3
  <1>5. CASE UNCHANGED <<sent, lost>>
    <2>1. PromptUnread'
      BY <1>1, <1>5 DEF PromptUnread
    <2> QED
      BY <2>1
  <1>6. Admit \/ Refuse \/ UNCHANGED <<sent, lost>>
    BY DEF SessionNext, PromptElsewhere, Say, EchoPrompt, EndTurn, AgentDies, Restart, Publish,
           MarkReplayEnd, wireVars
  <1> QED
    BY <1>3, <1>4, <1>5, <1>6

\* A prompt whose turn has not ended is answered, refused, lost with its agent in the log,
\* or its agent is being replaced (Command::TurnCount, handle_spawn_failed, do_restart).
LEMMA OwedMoves ==
    ASSUME BaseInv, GateInv, online, SessionNext, ~ Crash, owed # << >>,
           \A key \in tile.finalized : key[2] < turns
    PROVE  (owed # << >> \/ refused > 0 \/ (Waiting /\ tile.generation < generation)
               \/ NoteComes)'
  <1>0. /\ TypeOK /\ GenerationsBelow /\ owed \in Seq(Texts) /\ refused \in Nat
        /\ generation \in Nat /\ turns \in Nat /\ tile \in Tiles /\ tile.generation \in Nat
        /\ log \in Seq(Notes) /\ Len(log) \in Nat /\ Len(owed) \in Nat
    <2>1. /\ TypeOK /\ GenerationsBelow /\ owed \in Seq(Texts) /\ refused \in Nat
          /\ generation \in Nat /\ turns \in Nat /\ tile \in Tiles /\ log \in Seq(Notes)
      BY DEF BaseInv, LogInv, TypeOK
    <2>2. tile.generation \in Nat
      BY <2>1 DEF Tiles
    <2>3. Len(log) \in Nat /\ Len(owed) \in Nat
      BY <2>1
    <2> QED
      BY <2>1, <2>2, <2>3
  <1>1. CASE Admit \/ \E t \in Texts : PromptElsewhere(t)
    <2>1. \E t \in Texts : Admitted(t)
      BY <1>0, <1>1, HeadSent DEF Admit, PromptElsewhere
    <2>2. owed' # << >>
      BY <1>0, <2>1, AdmittedWrites
    <2> QED
      BY <2>2
  <1>2. CASE UNCHANGED owed
    BY <1>2
  <1>3. CASE EndTurn
    <2> DEFINE a == Envelope("AgentEnded")
               b == [kind |-> "TurnEnded", generation |-> generation, count |-> turns + 1]
    <2>1. a \in Notes /\ b \in Notes /\ Record(<<a, b>>) /\ UNCHANGED guiVars
      <3>1. turns + 1 \in Nat
        BY <1>0
      <3> QED
        BY <1>0, <1>3, <3>1, NotesWritten DEF EndTurn
    <2>2. b.kind = "TurnEnded" /\ b.count = turns + 1
      OBVIOUS
    <2> HIDE DEF a, b
    <2>3. Grows /\ Written = {Len(log) + 1, Len(log) + 2} /\ log'[Len(log) + 2] = b
      BY <1>0, <2>1, PairWritten
    <2>4. \A key \in tile.finalized : key[2] # b.count - 1
      BY <1>0, <2>2
    <2>5. Relieves(log'[Len(log) + 2], tile) /\ Len(log) + 2 \in Written
      BY <2>2, <2>3, <2>4 DEF Relieves
    <2>6. NoteComes'
      BY <2>1, <2>3, <2>5, NoteWritten
    <2> QED
      BY <2>6
  <1>4. CASE AgentDies
    <2>1. Grows /\ Len(log) < Len(log') /\ log'[Len(log')].kind = "SessionDetached"
      BY <1>0, <1>4, DeathWritten
    <2>2. Len(log') \in Written /\ Relieves(log'[Len(log')], tile)
      <3>1. Len(log') \in Nat
        BY <1>0, <2>1, OldOrNew
      <3> QED
        BY <1>0, <2>1, <3>1 DEF Written, Relieves
    <2>3. NoteComes'
      BY <1>4, <2>1, <2>2, NoteWritten DEF AgentDies
    <2> QED
      BY <2>3
  <1>5. CASE Restart
    <2>1. tile.generation <= generation
      <3>1. CASE tile.generation = 0
        BY <1>0, <3>1
      <3>2. CASE \E i \in DOMAIN log :
                    log[i].kind \in Canonical /\ log[i].generation >= tile.generation
        <4>1. PICK i \in DOMAIN log :
                    log[i].kind \in Canonical /\ log[i].generation >= tile.generation
          BY <3>2
        <4>2. log[i].generation \in Nat
          <5>1. log[i] \in Notes
            BY <1>0
          <5> QED
            BY <4>1, <5>1, NoteFields
        <4>3. log[i].generation <= generation
          BY <1>0, <4>1 DEF GenerationsBelow
        <4> QED
          BY <1>0, <4>1, <4>2, <4>3
      <3> QED
        BY <3>1, <3>2 DEF GateInv
    <2>2. /\ generation' = generation + 1 /\ tile' = tile
          /\ lifecycle' = "Restarting"
      BY <1>5 DEF Restart, guiVars
    <2>3. (Waiting /\ tile.generation < generation)'
      BY <1>0, <2>1, <2>2 DEF Waiting
    <2> QED
      BY <2>3
  <1>6. CASE Publish
    <2>1. PICK n \in 0 .. Len(owed) :
             /\ owed' = SubSeq(owed, 1, n)
             /\ refused' = IF online THEN refused + (Len(owed) - n) ELSE refused
      BY <1>6 DEF Publish
    <2>2. CASE n < Len(owed)
      <3>1. refused' > 0
        BY <1>0, <2>1, <2>2
      <3> QED
        BY <3>1
    <2>3. CASE n = Len(owed)
      <3>1. owed' = owed
        BY <1>0, <2>1, <2>3
      <3> QED
        BY <3>1
    <2> QED
      BY <1>0, <2>1, <2>2, <2>3
  <1>7. \/ Admit \/ (\E t \in Texts : PromptElsewhere(t)) \/ UNCHANGED owed
        \/ EndTurn \/ AgentDies \/ Restart \/ Publish
    BY DEF SessionNext, Refuse, Say, EchoPrompt, MarkReplayEnd, sessionVars
  <1> QED
    BY <1>1, <1>2, <1>3, <1>4, <1>5, <1>6, <1>7

\* A generation that is being started is announced in the log, or ends in it
\* (apply_channel_state, handle_spawn_failed, do_restart).
LEMMA WaitingMoves ==
    ASSUME BaseInv, online, SessionNext, ~ Crash, Waiting, tile.generation < generation
    PROVE  ((Waiting /\ tile.generation < generation) \/ NoteComes)'
  <1>0. /\ TypeOK /\ generation \in Nat /\ turns \in Nat /\ tile \in Tiles
        /\ tile.generation \in Nat /\ log \in Seq(Notes)
    <2>1. TypeOK /\ generation \in Nat /\ turns \in Nat /\ tile \in Tiles /\ log \in Seq(Notes)
      BY DEF BaseInv, TypeOK
    <2> QED
      BY <2>1 DEF Tiles
  <1>1. CASE UNCHANGED <<lifecycle, generation, tile>>
    BY <1>1 DEF Waiting
  <1>2. CASE Publish
    <2> DEFINE a == Envelope("Opened")
    <2>1. a \in Notes /\ Record(<<a>>) /\ UNCHANGED guiVars
      BY <1>0, <1>2, NotesWritten DEF Publish
    <2>2. a.kind \in Canonical /\ a.generation = generation
      BY DEF Envelope, Canonical
    <2> HIDE DEF a
    <2>3. Grows /\ Written = {Len(log) + 1} /\ log'[Len(log) + 1] = a
      BY <1>0, <2>1, OneWritten
    <2>4. Len(log) + 1 \in Written /\ Relieves(log'[Len(log) + 1], tile)
      BY <1>0, <2>2, <2>3 DEF Relieves
    <2>5. NoteComes'
      BY <2>1, <2>3, <2>4, NoteWritten
    <2> QED
      BY <2>5
  <1>3. CASE AgentDies
    <2>1. Grows /\ Len(log) < Len(log') /\ log'[Len(log')].kind = "SessionDetached"
      BY <1>0, <1>3, DeathWritten
    <2>2. Len(log') \in Written /\ Relieves(log'[Len(log')], tile)
      <3>1. Len(log) \in Nat /\ Len(log') \in Nat
        BY <1>0, <2>1, OldOrNew
      <3> QED
        BY <2>1, <3>1 DEF Written, Relieves
    <2>3. NoteComes'
      BY <1>3, <2>1, <2>2, NoteWritten DEF AgentDies
    <2> QED
      BY <2>3
  <1>4. CASE Restart
    <2>1. generation' = generation + 1 /\ tile' = tile /\ lifecycle' = "Restarting"
      BY <1>4 DEF Restart, guiVars
    <2>2. (Waiting /\ tile.generation < generation)'
      BY <1>0, <2>1 DEF Waiting
    <2> QED
      BY <2>2
  <1>5. ~ (Say \/ EchoPrompt \/ EndTurn \/ MarkReplayEnd)
    BY DEF Waiting, Say, EchoPrompt, EndTurn, MarkReplayEnd, Running, Speaking
  <1>6. \/ UNCHANGED <<lifecycle, generation, tile>> \/ Publish \/ AgentDies \/ Restart
    BY <1>5 DEF SessionNext, Admit, Refuse, PromptElsewhere, sessionVars, guiVars
  <1> QED
    BY <1>1, <1>2, <1>3, <1>4, <1>6

\* The session takes nothing back that is on its way to a tile that waits.
LEMMA SessionRelieves ==
    ASSUME BaseInv, GateInv, SessionNext, Relief,
           \A key \in tile.finalized : key[2] < turns
    PROVE  Relief'
  <1>0. TypeOK /\ GenerationsBelow /\ refused \in Nat /\ owed \in Seq(Texts)
    BY DEF BaseInv, LogInv, TypeOK
  <1>1. CASE Crash
    BY <1>1 DEF Crash, Relief
  <1>2. CASE ~ online
    <2>1. ~ online'
      BY <1>2 DEF SessionNext, Admit, Refuse, PromptElsewhere, Say, EchoPrompt, EndTurn,
                  AgentDies, Restart, Publish, MarkReplayEnd, Crash, wireVars
    <2> QED
      BY <2>1 DEF Relief
  <1>3. CASE ~ Crash /\ refused > 0
    <2>1. CASE Publish
      <3>1. PICK n \in 0 .. Len(owed) :
               refused' = IF online THEN refused + (Len(owed) - n) ELSE refused
        BY <2>1 DEF Publish
      <3>2. Len(owed) \in Nat
        BY <1>0
      <3>3. refused' > 0
        BY <1>0, <1>3, <3>1, <3>2
      <3> QED
        BY <3>3 DEF Relief
    <2>2. CASE Refuse
      <3>1. refused' > 0
        BY <1>0, <1>3, <2>2 DEF Refuse
      <3> QED
        BY <3>1 DEF Relief
    <2>3. CASE ~ Publish /\ ~ Refuse
      <3>1. refused' = refused
        BY <1>3, <2>3 DEF SessionNext, Admit, PromptElsewhere, Say, EchoPrompt, EndTurn,
                          AgentDies, Restart, MarkReplayEnd, wireVars
      <3> QED
        BY <1>3, <3>1 DEF Relief
    <2> QED
      BY <2>1, <2>2, <2>3
  <1>4. CASE ~ Crash /\ online /\ PromptUnread
    BY <1>4, PromptMoves DEF Relief
  <1>5. CASE ~ Crash /\ online /\ owed # << >>
    BY <1>5, OwedMoves DEF Relief
  <1>6. CASE ~ Crash /\ online /\ Waiting /\ tile.generation < generation
    BY <1>6, WaitingMoves DEF Relief
  <1>7. CASE NoteComes
    <2>1. Grows /\ UNCHANGED guiVars
      BY <1>0, SessionStep
    <2>2. Alike(tile, tile)
      <3>1. tile \in Tiles /\ tile.asked \in [Texts -> Nat]
        BY <1>0 DEF TypeOK, Tiles
      <3> QED
        BY <3>1 DEF Alike, KeepsRows
    <2>3. Lags
      BY <2>1, <2>2 DEF Lags, guiVars
    <2>4. NoteComes'
      BY <1>7, <2>3, NoteStaysAhead
    <2> QED
      BY <2>4 DEF Relief
  <1> QED
    BY <1>1, <1>2, <1>3, <1>4, <1>5, <1>6, <1>7 DEF Relief

\* A note that leaves the tile waiting is not the one it waits for.
LEMMA FoldRelieves ==
    ASSUME BaseInv, FoldNext, tile'.awaiting, tile.awaiting => Relief
    PROVE  Relief'
  <1> DEFINE n == Note
  <1>1. /\ log' = log /\ folded' = folded + 1 /\ folded \in Nat /\ n = log[folded + 1]
        /\ n \in Notes /\ tile.generation \in Nat
        /\ \A i \in DOMAIN log : i \in Nat
        /\ GateFollows(n, tile, tile') /\ TurnsFollow(n, tile, tile')
    <2>1. log \in Seq(Notes)
      BY DEF BaseInv, TypeOK
    <2>2. \A i \in DOMAIN log : i \in Nat
      BY <2>1
    <2> QED
      BY <2>2, FoldPlaces DEF Follows
  <1>2. /\ tile.awaiting
        /\ tile'.generation = tile.generation
        /\ tile'.finalized \subseteq tile.finalized
        /\ n.kind \notin {"PromptRejected", "SessionDetached"}
        /\ n.kind = "TurnEnded" => \E key \in tile.finalized : key[2] = n.count - 1
    BY <1>1 DEF TurnsFollow
  <1>3. UNCHANGED <<sessionVars, wireVars>>
    BY FoldStep DEF BaseInv, LogInv
  <1>4. ~ Relieves(n, tile)
    <2>1. ~ (n.kind \in Canonical /\ n.generation > tile.generation)
      <3> SUFFICES ASSUME n.kind \in Canonical, n.generation > tile.generation
                   PROVE  FALSE
        OBVIOUS
      <3>1. tile'.generation = n.generation /\ n.generation \in Nat
        BY <1>1, NoteFields DEF GateFollows
      <3> QED
        BY <1>1, <1>2, <3>1
    <2> QED
      BY <1>2, <2>1 DEF Relieves
  <1> HIDE DEF n
  <1>5. CASE NoteComes
    <2>1. PICK i \in DOMAIN log : i > folded /\ Relieves(log[i], tile)
      BY <1>5 DEF NoteComes
    <2>2. i > folded + 1
      <3>1. i # folded + 1
        BY <1>1, <1>4, <2>1
      <3> QED
        BY <1>1, <2>1, <3>1
    <2>3. Relieves(log[i], tile')
      BY <1>2, <2>1 DEF Relieves
    <2>4. NoteComes'
      BY <1>1, <2>2, <2>3 DEF NoteComes
    <2> QED
      BY <2>4 DEF Relief
  <1>6. CASE ~ NoteComes
    <2>1. \/ ~ online \/ refused > 0 \/ PromptUnread \/ owed # << >>
          \/ Waiting /\ tile.generation < generation
      BY <1>2, <1>6 DEF Relief
    <2>2. (PromptUnread <=> PromptUnread') /\ (Waiting <=> Waiting')
      BY <1>3 DEF PromptUnread, Waiting, wireVars, sessionVars
    <2> QED
      BY <1>2, <1>3, <2>1, <2>2 DEF Relief, wireVars, sessionVars
  <1> QED
    BY <1>5, <1>6

\* What a waiting tile waits for stays on its way until it comes.
LEMMA ReliefStep ==
    ASSUME BaseInv, GateInv, LedgerInv, ReliefInv, [Next]_vars
    PROVE  ReliefInv'
  <1> SUFFICES ASSUME ReplaysAreNew', tile'.awaiting
               PROVE  Relief'
    BY DEF ReliefInv
  <1>1. /\ ReplaysAreNew
        /\ tile.awaiting => Relief
        /\ \A key \in tile.finalized : key[2] < turns
        /\ TypeOK
    BY ReplaysWereNew DEF ReliefInv, LedgerInv, BaseInv
  <1>2. CASE SessionNext
    <2>1. tile' = tile
      BY <1>1, <1>2, SessionStep DEF guiVars, BaseInv, LogInv
    <2> QED
      BY <1>1, <1>2, <2>1, SessionRelieves
  <1>3. CASE Drop
    BY <1>3 DEF Drop, Relief
  <1>4. CASE Reconnect
    <2>1. ~ tile'.awaiting
      BY <1>1, <1>4, ReconnectStep
    <2> QED
      BY <2>1
  <1>5. ASSUME NEW t \in Texts, Submit(t)
        PROVE  Relief'
    <2>1. sent' = Append(sent, [text |-> t, link |-> lost]) /\ lost' = lost
      BY <1>1, <1>5, SubmitStep
    <2>2. sent \in Seq([text : Texts, link : Nat]) /\ lost \in Nat
      BY <1>1 DEF TypeOK
    <2> DEFINE p == [text |-> t, link |-> lost]
    <2>3. p \in [text : Texts, link : Nat] /\ p.link = lost
      BY <2>2
    <2> HIDE DEF p
    <2>4. Len(sent) + 1 \in DOMAIN Append(sent, p) /\ Append(sent, p)[Len(sent) + 1] = p
      BY <2>2, <2>3
    <2>5. sent' = Append(sent, p)
      BY <2>1 DEF p
    <2>6. PromptUnread'
      BY <2>1, <2>3, <2>4, <2>5 DEF PromptUnread
    <2> QED
      BY <2>6 DEF Relief
  <1>6. CASE HearRefusal
    <2>1. tile'.awaiting = FALSE
      BY <1>1, <1>6, HearStep
    <2> QED
      BY <2>1
  <1>7. CASE FoldNext
    BY <1>1, <1>7, FoldRelieves
  <1>8. CASE UNCHANGED vars
    <2>1. /\ tile' = tile /\ (NoteComes <=> NoteComes') /\ (PromptUnread <=> PromptUnread')
          /\ (Waiting <=> Waiting')
          /\ UNCHANGED <<online, refused, owed, generation>>
      BY <1>8 DEF vars, guiVars, sessionVars, wireVars, NoteComes, PromptUnread, Waiting
    <2> QED
      BY <1>1, <2>1 DEF Relief
  <1> QED
    BY <1>2, <1>3, <1>4, <1>5, <1>6, <1>7, <1>8 DEF Next

\* In the first state nothing is waited for.
LEMMA InitRelief == Init => LedgerInv /\ ReliefInv
  <1> SUFFICES ASSUME Init
               PROVE  LedgerInv /\ ReliefInv
    OBVIOUS
  <1>1. folded = 0 /\ tile.awaiting = FALSE /\ tile.finalized = {}
    BY DEF Init, EmptyTile
  <1> QED
    BY <1>1 DEF LedgerInv, ReliefInv

\* A session that has settled has nothing on its way.
LEMMA NothingOnItsWay ==
    ASSUME BaseInv, Settled
    PROVE  ~ Relief
  <1>1. ~ PromptUnread
    <2>1. DOMAIN sent = {}
      BY DEF Settled
    <2> QED
      BY <2>1 DEF PromptUnread
  <1>2. ~ NoteComes
    <2>1. log \in Seq(Notes)
      BY DEF BaseInv, TypeOK
    <2>2. \A i \in DOMAIN log : ~ (i > Len(log))
      BY <2>1
    <2> QED
      BY <2>2 DEF NoteComes, Settled
  <1> QED
    BY <1>1, <1>2 DEF Relief, Settled

\* A tile does not stay on "thinking" once all it waited for is answered, refused or lost
\* with its agent, and it has heard so, replays of older generations excepted
\* (finalize_agent_turn_idem, begin_server_generation, settle_agent_effect).
THEOREM ThinkingStops == Spec => []ThinkingEnds
  <1>1. Init => BaseInv /\ GateInv /\ LedgerInv /\ ReliefInv
    BY InitBase, InitGate, InitRelief
  <1>2. BaseInv /\ GateInv /\ LedgerInv /\ ReliefInv /\ [Next]_vars
            => BaseInv' /\ GateInv' /\ LedgerInv' /\ ReliefInv'
    BY BaseStep, GateStep, LedgerStep, ReliefStep
  <1>3. BaseInv /\ ReliefInv => ThinkingEnds
    BY NothingOnItsWay DEF ReliefInv, ReplaysAreNew, ThinkingEnds
  <1> QED
    BY <1>1, <1>2, <1>3, PTL DEF Spec
=============================================================================

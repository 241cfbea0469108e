----------------------------- MODULE SessionWal -----------------------------
(***************************************************************************)
(* The write-ahead log of one session (session_wal.rs) and the session     *)
(* actor's use of it (yalda-session-server/main.rs): appends that fail     *)
(* part of the way, a process that dies between two of them, a power loss  *)
(* that takes what was not synced, and the recovery that follows.          *)
(*                                                                         *)
(* The file is a sequence of lines.  A line holds what was written since   *)
(* the newline before it: one record as a rule, the remains of several     *)
(* after a torn write.  An event of the transcript is its number; a prompt *)
(* is its id; a record stands for the pair of records (legacy and Agent)   *)
(* the actor writes of one event.  The header is on disk from the start:   *)
(* creation is left out.                                                   *)
(***************************************************************************)
EXTENDS Naturals, Sequences, SequencesExt, FiniteSets, FiniteSetsExt, Selections

CONSTANTS
    MaxEvents,   \* bound: events logged
    MaxPrompts,  \* bound: prompt ids
    MaxLines,    \* bound: lines in the file before an operation begins
    MaxFailures, \* bound: appends that fail
    MaxStops     \* bound: crashes and power losses

ASSUME BoundsAssumption ==
    /\ MaxEvents \in Nat /\ MaxPrompts \in Nat /\ MaxLines \in Nat
    /\ MaxFailures \in Nat /\ MaxStops \in Nat

VARIABLES
    file,       \* lines, [fragments, ended]
    synced,     \* lines on stable storage

    mode,       \* of the server: "up", "down", or "skipped": up without the session
    open,       \* wal: the handle is held
    log,        \* the events of the transcript, as the actor counts them
    archived,
    pending,    \* pending_prompts
    nextPrompt, \* next_prompt_id
    task,       \* what the actor's operation under way does next, [kind, id]

    logged,     \* history: events so far
    kept,       \* history: events whose append was synced and succeeded
    admitted,   \* history: prompts admitted
    settled,    \* history: prompts delivered, rejected or cancelled
    torn,       \* history: an append through this handle left an unended line
    faults,     \* history: [failed, glued]: appends failed; one followed a torn one
    stops       \* history: crashes and power losses

disk == <<file, synced>>
server == <<mode, open, log, archived, pending, nextPrompt, task>>
history == <<logged, kept, admitted, settled, torn, faults, stops>>
vars == <<disk, server, history>>

EventRecord(n) == [kind |-> "event", n |-> n]
Intent(id) == [kind |-> "intent", n |-> id]
Terminal(id) == [kind |-> "terminal", n |-> id]
ArchiveRecord(b) == [kind |-> IF b THEN "archive" ELSE "unarchive", n |-> 0]

Records == [kind : {"event", "intent", "terminal", "archive", "unarchive"}, n : Nat]
Lines == [fragments : Seq([record : Records, whole : BOOLEAN]), ended : BOOLEAN]

Idle == [kind |-> "idle", id |-> 0]

\* Types, and that no prompt has an id still to be given.  (ManagedSession,
\* RecoveredSession.next_prompt_id.)
TypeOK ==
    /\ file \in Seq(Lines) /\ synced \in 0 .. Len(file)
    /\ mode \in {"up", "down", "skipped"}
    /\ open \in BOOLEAN /\ archived \in BOOLEAN
    /\ log \in Seq(1 .. logged)
    /\ nextPrompt \in Nat
    /\ pending \in Seq(1 .. nextPrompt - 1)
    /\ task \in [kind : {"idle", "deliver", "log", "cancel"}, id : Nat]
    /\ logged \in 0 .. MaxEvents
    /\ kept \subseteq 1 .. logged
    /\ admitted \subseteq 1 .. MaxPrompts /\ settled \subseteq 1 .. MaxPrompts
    /\ torn \in BOOLEAN
    /\ faults \in [failed : 0 .. MaxFailures, glued : BOOLEAN]
    /\ stops \in 0 .. MaxStops

Init ==
    /\ file = << >> /\ synced = 0
    /\ mode = "up" /\ open = TRUE
    /\ log = << >> /\ archived = FALSE
    /\ pending = << >> /\ nextPrompt = 1 /\ task = Idle
    /\ logged = 0 /\ kept = {} /\ admitted = {} /\ settled = {}
    /\ torn = FALSE /\ faults = [failed |-> 0, glued |-> FALSE] /\ stops = 0

(***************************************************************************)
(* Reading: walk_wal and recover_one.                                      *)
(***************************************************************************)

Parses(line) == Len(line.fragments) = 1 /\ line.fragments[1].whole

\* Only an unended last line may fail to parse.
Readable(f) == \A i \in DOMAIN f : Parses(f[i]) \/ (i = Len(f) /\ ~ f[i].ended)

RecordsOf(f) ==
    LET parsed == Select(f, {line \in Lines : Parses(line)})
    IN  [i \in DOMAIN parsed |-> parsed[i].fragments[1].record]

OfKind(f, kinds) == Select(RecordsOf(f), [kind : kinds, n : Nat])

Numbers(records) == [i \in DOMAIN records |-> records[i].n]

EventsOf(f) == Numbers(OfKind(f, {"event"}))

TerminalsOf(f) == {r.n : r \in ToSet(OfKind(f, {"terminal"}))}

\* Intents without a terminal record, in their order.
PendingOf(f) ==
    Numbers(Select(OfKind(f, {"intent"}), [kind : {"intent"}, n : Nat \ TerminalsOf(f)]))

\* Mutant of ArchivedOf: an archived session stays archived.
EverArchived(f) == OfKind(f, {"archive"}) # << >>

\* The last transition wins.
ArchivedOf(f) ==
    LET marks == OfKind(f, {"archive", "unarchive"})
    IN  marks # << >> /\ Last(marks).kind = "archive"

PromptIds(f) == {r.n : r \in ToSet(OfKind(f, {"intent", "terminal"}))}

NextPrompt(f) == IF PromptIds(f) = {} THEN 1 ELSE Max(PromptIds(f)) + 1

(***************************************************************************)
(* Writing: write_record, reopen.                                          *)
(***************************************************************************)

Torn(f) == f # << >> /\ ~ Last(f).ended

\* f after a write of r that got so far: part of the record, all of it, or its
\* newline too.
Written(f, r, whole, ended) ==
    LET fragment == [record |-> r, whole |-> whole]
    IN  IF Torn(f)
        THEN Append(Front(f), [fragments |-> Append(Last(f).fragments, fragment),
                               ended |-> ended])
        ELSE Append(f, [fragments |-> <<fragment>>, ended |-> ended])

\* Mutant of Repaired: the file is opened as it is.
Unrepaired(f) == f

\* repair_torn_tail: a record that lacks its newline gets it, any other tail goes.
Repaired(f) ==
    IF ~ Torn(f) THEN f
    ELSE IF Parses(Last(f)) THEN Append(Front(f), [Last(f) EXCEPT !.ended = TRUE])
    ELSE Front(f)

\* What it repairs it syncs.
Resynced == IF Torn(file) THEN Len(Repaired(file)) ELSE synced

\* An append of r to f, of which s lines are synced, through a handle that may have torn
\* the file, succeeds.
Appends(f, s, was, r, sync) ==
    /\ file' = Written(f, r, TRUE, TRUE)
    /\ synced' = IF sync THEN Len(file') ELSE s
    /\ torn' = FALSE
    /\ faults' = [faults EXCEPT !.glued = @ \/ was]

\* It fails: nothing, a part or all of the record is written, or it is written and
\* the sync fails.  A later append goes on behind what was written.
AppendFails(f, s, was, r, sync) ==
    /\ faults.failed < MaxFailures
    /\ file' \in {f, Written(f, r, FALSE, FALSE), Written(f, r, TRUE, FALSE)}
           \cup IF sync THEN {Written(f, r, TRUE, TRUE)} ELSE {}
    /\ synced' = s
    /\ torn' = Torn(file')
    /\ faults' = [failed |-> faults.failed + 1, glued |-> faults.glued \/ (was /\ file' # f)]

\* An append whose failure is logged and otherwise ignored.
AppendTolerant(r, sync) ==
    Appends(file, synced, torn, r, sync) \/ AppendFails(file, synced, torn, r, sync)

(***************************************************************************)
(* The actor.                                                              *)
(***************************************************************************)

Ready(kind) == mode = "up" /\ task.kind = kind

\* An operation that begins.
Begins == Ready("idle") /\ open /\ Len(file) < MaxLines

\* Mutant of Synced: no event is synced.
NeverSynced(boundary) == FALSE

\* wal_append: the boundaries of a turn are synced.
Synced(boundary) == boundary

\* push_event, for a boundary of a turn or for what is streamed in between.
Push(boundary) ==
    /\ logged < MaxEvents
    /\ logged' = logged + 1
    /\ log' = Append(log, logged')
    /\ \/ /\ Appends(file, synced, torn, EventRecord(logged'), Synced(boundary))
          /\ kept' = IF boundary THEN kept \cup {logged'} ELSE kept
       \/ /\ AppendFails(file, synced, torn, EventRecord(logged'), Synced(boundary))
          /\ kept' = kept

Record(boundary) ==
    /\ Begins
    /\ Push(boundary)
    /\ UNCHANGED <<mode, open, archived, pending, nextPrompt, task, admitted, settled, stops>>

\* enqueue_prompt up to begin_prompt_intent: the prompt is handed to the agent or
\* queued for it.
Admit ==
    /\ Begins
    /\ nextPrompt <= MaxPrompts
    /\ \/ /\ Appends(file, synced, torn, Intent(nextPrompt), TRUE)
          /\ nextPrompt' = nextPrompt + 1
          /\ admitted' = admitted \cup {nextPrompt}
          /\ \/ /\ pending = << >>
                /\ task' = [kind |-> "deliver", id |-> nextPrompt]
                /\ UNCHANGED pending
             \/ /\ pending' = Append(pending, nextPrompt)
                /\ task' = [kind |-> "log", id |-> nextPrompt]
       \/ /\ AppendFails(file, synced, torn, Intent(nextPrompt), TRUE)
          /\ UNCHANGED <<nextPrompt, admitted, pending, task>>
    /\ UNCHANGED <<mode, open, log, archived, logged, kept, settled, stops>>

\* finish_prompt_intent.
Finish(id) ==
    /\ AppendTolerant(Terminal(id), TRUE)
    /\ settled' = settled \cup {id}

\* The prompt was sent, or refused: a refused one is not logged.
Deliver ==
    /\ Ready("deliver")
    /\ Finish(task.id)
    /\ task' \in {[task EXCEPT !.kind = "log"], Idle}
    /\ UNCHANGED <<mode, open, log, archived, pending, nextPrompt, logged, kept, admitted, stops>>

\* The optimistic transcript fact.
LogPrompt ==
    /\ Ready("log")
    /\ IF logged < MaxEvents THEN Push(TRUE) ELSE UNCHANGED <<disk, log, logged, kept, torn, faults>>
    /\ task' = Idle
    /\ UNCHANGED <<mode, open, archived, pending, nextPrompt, admitted, settled, stops>>

\* apply_channel_state, handle_spawn_failed: a queued prompt is handed over or refused.
HandOver ==
    /\ Begins
    /\ pending # << >>
    /\ pending' = Tail(pending)
    /\ Finish(Head(pending))
    /\ UNCHANGED <<mode, open, log, archived, nextPrompt, task, logged, kept, admitted, stops>>

\* do_set_archived(true).
Archive ==
    /\ Begins
    /\ \/ /\ Appends(file, synced, torn, ArchiveRecord(TRUE), TRUE)
          /\ archived' = TRUE
          /\ task' = [kind |-> "cancel", id |-> 0]
       \/ /\ AppendFails(file, synced, torn, ArchiveRecord(TRUE), TRUE)
          /\ UNCHANGED <<archived, task>>
    /\ UNCHANGED <<mode, open, log, pending, nextPrompt, logged, kept, admitted, settled, stops>>

\* The queued prompts are cancelled, and the handle is dropped.
Cancel ==
    /\ Ready("cancel")
    /\ IF pending # << >>
       THEN /\ Finish(Head(pending))
            /\ pending' = Tail(pending)
            /\ UNCHANGED <<open, task>>
       ELSE /\ open' = FALSE
            /\ task' = Idle
            /\ torn' = FALSE
            /\ UNCHANGED <<disk, pending, settled, faults>>
    /\ UNCHANGED <<mode, log, archived, nextPrompt, logged, kept, admitted, stops>>

\* do_set_archived(false).
Unarchive ==
    /\ Ready("idle") /\ archived /\ ~ open
    /\ Len(file) < MaxLines
    /\ \/ /\ Appends(Repaired(file), Resynced, FALSE, ArchiveRecord(FALSE), TRUE)
          /\ archived' = FALSE
          /\ open' = TRUE
       \/ /\ AppendFails(Repaired(file), Resynced, FALSE, ArchiveRecord(FALSE), TRUE)
          /\ UNCHANGED <<archived, open>>
    /\ UNCHANGED <<mode, log, pending, nextPrompt, task, logged, kept, admitted, settled, stops>>

(***************************************************************************)
(* The end of the process, and recovery.                                   *)
(***************************************************************************)

Stop ==
    /\ stops < MaxStops
    /\ stops' = stops + 1
    /\ mode' = "down"
    /\ open' = FALSE /\ log' = << >> /\ archived' = FALSE
    /\ pending' = << >> /\ nextPrompt' = 1 /\ task' = Idle
    /\ torn' = FALSE
    /\ UNCHANGED <<logged, kept, admitted, settled, faults>>

\* The process dies; the page cache stays.
Crash ==
    /\ mode = "up"
    /\ Stop
    /\ UNCHANGED disk

\* What a power loss may leave of a line.
Cuts(line) ==
    {[fragments |-> Append(SubSeq(line.fragments, 1, j - 1),
                           [line.fragments[j] EXCEPT !.whole = @ /\ w]),
      ended |-> FALSE] : j \in DOMAIN line.fragments, w \in BOOLEAN}

\* What was not synced is lost from some byte on.
PowerLoss ==
    /\ Stop
    /\ \E n \in synced .. Len(file) :
          file' \in {SubSeq(file, 1, n)}
                        \cup IF n = Len(file) THEN {}
                             ELSE {Append(SubSeq(file, 1, n), cut) : cut \in Cuts(file[n + 1])}
    /\ synced' = Len(file')

\* restore_seed_from_dir: a file that cannot be read is skipped; any other is the
\* session again, its file repaired and open unless it is archived.
Recover ==
    /\ mode = "down"
    /\ IF Readable(file)
       THEN /\ mode' = "up"
            /\ log' = EventsOf(file)
            /\ archived' = ArchivedOf(file)
            /\ pending' = PendingOf(file)
            /\ nextPrompt' = NextPrompt(file)
            /\ open' = ~ archived'
            /\ file' = IF archived' THEN file ELSE Repaired(file)
            /\ synced' = IF archived' THEN synced ELSE Resynced
       ELSE /\ mode' = "skipped"
            /\ UNCHANGED <<disk, log, archived, pending, nextPrompt, open>>
    /\ UNCHANGED <<task, history>>

Next ==
    \/ \E boundary \in BOOLEAN : Record(boundary)
    \/ Admit
    \/ Deliver
    \/ LogPrompt
    \/ HandOver
    \/ Archive
    \/ Cancel
    \/ Unarchive
    \/ Crash
    \/ PowerLoss
    \/ Recover

Spec == Init /\ [][Next]_vars

(***************************************************************************)
(* Properties.                                                             *)
(***************************************************************************)

\* The file can always be recovered, at whatever byte a stop cut it and however
\* often it was reopened.  The one way to lose it: an append that failed part of
\* the way is followed by another one through the same handle, and the two become
\* one line that no reader takes.  (walk_wal, repair_torn_tail, write_record.)
AlwaysReadable == ~ faults.glued => Readable(file) /\ mode # "skipped"

Stable == SubSeq(file, 1, synced)

\* What was promised is on stable storage: every boundary event whose append
\* succeeded, with all that was recorded before it, and every prompt admitted and
\* not settled yet.  (wal_append, begin_prompt_intent, finish_prompt_intent.)
PromisesSurvive ==
    ~ faults.glued =>
        /\ kept \subseteq ToSet(EventsOf(Stable))
        /\ admitted \ settled \subseteq ToSet(PendingOf(Stable))

\* As long as no append failed the file says what the actor believes: the events
\* logged are on disk at the positions the actor gives them, before and after an
\* archive or a recovery; the prompts recovery would find unsettled are those that wait
\* and the one being handed over, in their order; the session is archived on disk if
\* it is in memory; and a prompt id is given once.  (push_event, enqueue_prompt,
\* do_set_archived, restore_seed_from_dir.)
DiskFollowsActor ==
    mode = "up" /\ faults.failed = 0 =>
        /\ EventsOf(file) = log
        /\ PendingOf(file) = IF task.kind = "deliver" THEN <<task.id>> ELSE pending
        /\ ArchivedOf(file) = archived
        /\ open # (archived /\ task = Idle)
        /\ LET intents == OfKind(file, {"intent"})
           IN  /\ IsInjective(intents)
               /\ \A r \in ToSet(intents) : r.n < nextPrompt
=============================================================================

----------------------------- MODULE CogDelivery -----------------------------
(***************************************************************************)
(* Runtime delivery: the coordinator that leases a host from Cog, claims   *)
(* attempts, hands them to an agent and reports the results                *)
(* (cog_runtime/coordinator.rs), the journal it recovers from              *)
(* (cog_runtime/journal.rs) and the supervisor that drives it              *)
(* (yalda-session-server/cog_runtime.rs).                                  *)
(*                                                                         *)
(* An operation of the coordinator holds its mutex and is a sequence of    *)
(* requests to Cog; op is the operation under way and the attempts it has  *)
(* still to handle.  Between two requests Cog moves on, a provider's turn  *)
(* may end and the process may die.  Any request or response may be lost.  *)
(*                                                                         *)
(* Cog itself is external: modelled as far as the coordinator reads its    *)
(* answers.  An address has one open attempt at a time, so attempts stand  *)
(* for their addresses.  A claim of an attempt is numbered by its fence;   *)
(* a dispatch, and the idempotency key drawn for it, by the claim it       *)
(* follows.  The journal's claimed record and the dispatch_started record  *)
(* that follows it are one: everything that reads them treats them alike.  *)
(***************************************************************************)
EXTENDS Naturals, Sequences, SequencesExt, FiniteSets, Selections

CONSTANTS
    MaxAttempts,   \* attempts Cog has for this host's addresses
    Capacity,      \* max_attempts: attempts in flight at once
    Takeover,      \* allow_takeover of the configuration
    MaxClaims,     \* bound: claims Cog grants in all; the last one never expires
    MaxOutside,    \* bound: attempts that end without this host
    MaxHostFence,  \* bound: host leases Cog grants, ours and others'
    MaxIncarnation \* bound: starts of the server; the last one does not die

ASSUME BoundsAssumption ==
    /\ MaxAttempts \in Nat /\ Capacity \in Nat /\ MaxClaims \in Nat
    /\ MaxOutside \in Nat /\ MaxHostFence \in Nat /\ MaxIncarnation \in Nat
ASSUME TakeoverAssumption == Takeover \in BOOLEAN

Attempts == 1 .. MaxAttempts

\* AttemptStatus as the coordinator tells it apart.  "open": Recoverable, or not
\* claimed yet.  "failed": RetryWait or Blocked.
Statuses == {"open", "claimed", "completed", "failed", "superseded"}
Ended == {"completed", "failed", "superseded"}

\* JournalState.  "started": Claimed or DispatchStarted.
Results == {"succeeded", "failed"}
LocallyTerminal == {"cog_completed", "cog_failed", "observed"}
Settled == Results \cup LocallyTerminal
JournalStates == {"none", "started", "released"} \cup Settled

\* InflightPhase; "none": not in flight.
Phases == {"none", "awaiting"} \cup Results

\* A dispatch whose provider turn has not begun: admitted by the claim under way,
\* or forgotten with it.
Turns == {"none", "admitted", "forgotten"}

VARIABLES
    status,      \* Cog: the status of each attempt
    fence,       \* Cog: claims made of each attempt
    applied,     \* Cog: the terminal request of this host it carried out
    lease,       \* Cog: the host lease, [fence, live, holder]

    journal,     \* disk: the latest record of each attempt, [state, key]

    incarnation, \* instance_id
    mode,        \* of the supervisor
    hostFence,   \* the host fence the coordinator believes in; 0: None
    inflight,    \* [phase, fence, key, turn] of each attempt
    op,          \* [kind, rest]: the operation that holds the mutex

    running      \* turns of each attempt whose result is not recorded yet

cogVars == <<status, fence, applied, lease>>
supervisorVars == <<incarnation, mode>>
vars == <<cogVars, journal, supervisorVars, hostFence, inflight, op, running>>

NoRequest == [kind |-> "none", key |-> 0]

NotInflight == [phase |-> "none", fence |-> 0, key |-> 0, turn |-> "none"]

NoOp == [kind |-> "none", rest |-> << >>]

OpKinds == {"none", "reconcile", "claim", "renew", "flush", "stop_flush",
            "stop_release", "stop_host"}

\* "down": no server process.  "stopping": run_active left its loop, "quitting":
\* because the server shuts down; "stopped", "exiting": shutdown has returned.
Modes == {"down", "inactive", "active", "stopping", "stopped", "quitting", "exiting"}

\* run_active holds the receiving end of the results.
Receiving == mode \in {"active", "stopping", "quitting"}

\* Types.  (The fields of CogClient, DeliveryCoordinator and DeliveryJournal.)
TypeOK ==
    /\ status \in [Attempts -> Statuses]
    /\ fence \in [Attempts -> Nat]
    /\ applied \in [Attempts -> [kind : {"none"} \cup Results, key : Nat]]
    /\ lease \in [fence : Nat, live : BOOLEAN, holder : Nat]
    /\ journal \in [Attempts -> [state : JournalStates, key : Nat]]
    /\ incarnation \in Nat
    /\ mode \in Modes
    /\ hostFence \in Nat
    /\ inflight \in [Attempts -> [phase : Phases, fence : Nat, key : Nat, turn : Turns]]
    /\ op \in [kind : OpKinds, rest : Seq(Attempts)]
    /\ running \in [Attempts -> Nat]

Init ==
    /\ status = [a \in Attempts |-> "open"]
    /\ fence = [a \in Attempts |-> 0]
    /\ applied = [a \in Attempts |-> NoRequest]
    /\ lease = [fence |-> 0, live |-> FALSE, holder |-> 0]
    /\ journal = [a \in Attempts |-> [state |-> "none", key |-> 0]]
    /\ incarnation = 0
    /\ mode = "down"
    /\ hostFence = 0
    /\ inflight = [a \in Attempts |-> NotInflight]
    /\ op = NoOp
    /\ running = [a \in Attempts |-> 0]

(***************************************************************************)
(* Cog, as far as this host can tell (external).                           *)
(***************************************************************************)

\* Does Cog take this coordinator for the holder of the host lease?
Current == lease.live /\ lease.holder = incarnation /\ lease.fence = hostFence

\* A new host fence takes every claim back.
Reopened == [a \in Attempts |-> IF status[a] = "claimed" THEN "open" ELSE status[a]]

\* Claims made so far.
Claims == FoldFunction(+, 0, fence)

AttemptExpires(a) ==
    /\ status[a] = "claimed" /\ Claims < MaxClaims
    /\ status' = [status EXCEPT ![a] = "open"]
    /\ UNCHANGED <<fence, applied, lease>>

EndOutside(a, end) ==
    /\ Cardinality({b \in Attempts : status[b] \in Ended /\ applied[b] = NoRequest})
          < MaxOutside
    /\ status' = [status EXCEPT ![a] = end]
    /\ UNCHANGED <<fence, applied, lease>>

\* ChatLeft, AddressRetired, OperatorSkip.
Supersede(a) == status[a] \notin Ended /\ EndOutside(a, "superseded")

\* The host lease runs out.
LeaseLapses ==
    /\ lease.live
    /\ lease.fence < MaxHostFence
    /\ lease' = [lease EXCEPT !.live = FALSE]
    /\ UNCHANGED <<status, fence, applied>>

\* Another server of the same host_id takes the lease over.
OtherTakesOver ==
    /\ lease.fence < MaxHostFence
    /\ lease' = [fence |-> lease.fence + 1, live |-> TRUE, holder |-> 0]
    /\ status' = Reopened
    /\ UNCHANGED <<fence, applied>>

\* It claims and completes an attempt.
OtherCompletes(a) ==
    /\ lease.live /\ lease.holder = 0 /\ lease.fence > 0
    /\ status[a] = "open" /\ EndOutside(a, "completed")

CogMoves ==
    /\ \/ LeaseLapses
       \/ OtherTakesOver
       \/ \E a \in Attempts : AttemptExpires(a) \/ Supersede(a) \/ OtherCompletes(a)
    /\ UNCHANGED <<journal, supervisorVars, hostFence, inflight, op, running>>

\* What Cog may answer to a request about a: "terminal" (AttemptAlreadyTerminal,
\* RetiredAddress), "stale" (StaleHostFence), "lost" (AttemptLeaseExpired,
\* StaleAttemptFence), or "ok".
Answers(a) ==
    LET refusals == (IF status[a] \in Ended THEN {"terminal"} ELSE {})
                        \cup (IF Current THEN {} ELSE {"stale"})
        held == status[a] = "claimed" /\ fence[a] = inflight[a].fence
    IN  IF refusals # {} THEN refusals ELSE IF held THEN {"ok"} ELSE {"lost"}

(***************************************************************************)
(* The steps of an operation.                                              *)
(***************************************************************************)

\* The attempts of a set, in the order of a BTreeMap.
InOrder(S) == Ascending(MaxAttempts, S)

Inflight == {a \in Attempts : inflight[a].phase # "none"}

Reported == {a \in Attempts : inflight[a].phase \in Results}

\* The next attempt of the operation under way is a.
At(kinds, a) == op.kind \in kinds /\ op.rest # << >> /\ Head(op.rest) = a

Done(kind) == op.kind = kind /\ op.rest = << >>

Proceed == op' = [op EXCEPT !.rest = Tail(@)]

StopKinds == {"stop_flush", "stop_release", "stop_host"}

\* shutdown returned, whatever it returned.
Stopped == IF mode = "quitting" THEN "exiting" ELSE "stopped"

Retold(from, to) ==
    [a \in Attempts |-> IF inflight[a].turn = from
                        THEN [inflight[a] EXCEPT !.turn = to] ELSE inflight[a]]

\* claim_available drops the dispatches it collected when a later attempt of the
\* batch fails; the attempts stay in flight.
ForgetAdmitted == Retold("admitted", "forgotten")

\* The operation returns an error.
Fail ==
    /\ op' = NoOp
    /\ inflight' = ForgetAdmitted
    /\ mode' = IF op.kind \in StopKinds THEN Stopped ELSE mode

\* No answer arrives.
Unanswered ==
    /\ Fail
    /\ UNCHANGED <<journal, hostFence, incarnation>>

\* validate_transition: the states that may follow a state.
MayFollow(state) ==
    CASE state = "none" -> {"started"}
      [] state = "started" -> {"started", "released", "observed"} \cup Results
      [] state = "released" -> {"started", "observed"}
      [] state = "succeeded" -> {"cog_completed", "observed"}
      [] state = "failed" -> {"cog_failed", "observed"}
      [] OTHER -> {}

\* journal.append of a record for a.  It refuses a record that may not follow the
\* latest one; AppendNeverRefused says that there is none such.
Record(a, state, key) == journal' = [journal EXCEPT ![a] = [state |-> state, key |-> key]]

Forget(a) == inflight' = [inflight EXCEPT ![a] = NotInflight]

\* observe_terminal, release_local: drop the attempt, then record why.
Conclude(a, state) ==
    /\ Forget(a)
    /\ Record(a, state, journal[a].key)
    /\ Proceed
    /\ UNCHANGED mode

CogStays == UNCHANGED cogVars

OnlyModeChanges ==
    CogStays /\ UNCHANGED <<journal, incarnation, hostFence, inflight, op, running>>

OnlyOpChanges ==
    CogStays /\ UNCHANGED <<journal, supervisorVars, hostFence, inflight, running>>

(***************************************************************************)
(* activate.                                                               *)
(***************************************************************************)

\* The host lease may be asked for: nobody else holds it, or may be replaced.
Acquirable == lease.live /\ lease.holder # incarnation => Takeover

Unsettled == {a \in Attempts : journal[a].state \notin LocallyTerminal \cup {"none"}}

\* Up to the lease: the capabilities match and the lease is ours, renewed or new.
Acquire ==
    /\ mode = "inactive" /\ op = NoOp
    /\ Acquirable
    /\ IF lease.live /\ lease.holder = incarnation
       THEN UNCHANGED <<status, lease>>
       ELSE /\ lease.fence < MaxHostFence
            /\ lease' = [fence |-> lease.fence + 1, live |-> TRUE,
                         holder |-> incarnation]
            /\ status' = Reopened
    /\ \/ /\ hostFence' = lease'.fence
          /\ op' = [kind |-> "reconcile", rest |-> InOrder(Unsettled)]
       \/ UNCHANGED <<hostFence, op>> \* the response is lost
    /\ UNCHANGED <<fence, applied, journal, supervisorVars, inflight, running>>

\* Mutant of Verdict: an attempt Cog has ended ended as this host meant it to.
VerdictAlwaysOurs(a) ==
    CASE journal[a].state = "succeeded" /\ status[a] \in Ended -> "cog_completed"
      [] journal[a].state = "failed" /\ status[a] \in Ended -> "cog_failed"
      [] status[a] \in Ended -> "observed"
      [] OTHER -> journal[a].state

\* reconcile_journal_terminals: what Cog's view of an attempt makes of its record.
Verdict(a) ==
    CASE journal[a].state = "succeeded" /\ status[a] = "completed" -> "cog_completed"
      [] journal[a].state = "failed" /\ status[a] = "failed" -> "cog_failed"
      [] status[a] \in Ended -> "observed"
      [] OTHER -> journal[a].state

Reconcile(a) ==
    /\ At({"reconcile"}, a)
    /\ \/ /\ Record(a, Verdict(a), journal[a].key)
          /\ Proceed
          /\ UNCHANGED <<mode, hostFence, incarnation, inflight>>
       \/ Unanswered
    /\ CogStays
    /\ UNCHANGED running

\* activate returns and run_active begins.
Activate ==
    /\ Done("reconcile")
    /\ op' = NoOp
    /\ mode' = "active"
    /\ CogStays
    /\ UNCHANGED <<journal, incarnation, hostFence, inflight, running>>

(***************************************************************************)
(* claim_available, and dispatch_batch for what it returns.                *)
(***************************************************************************)

Claimable == {a \in Attempts \ Inflight : status[a] = "open"}

Claim ==
    /\ mode = "active" /\ op = NoOp
    /\ Current
    /\ \E S \in SUBSET Claimable :
          /\ S # {} /\ Cardinality(S) + Cardinality(Inflight) <= Capacity
          /\ Claims + Cardinality(S) <= MaxClaims
          /\ status' = [a \in Attempts |-> IF a \in S THEN "claimed" ELSE status[a]]
          /\ fence' = [a \in Attempts |-> IF a \in S THEN fence[a] + 1 ELSE fence[a]]
          /\ \/ \E order \in SetToSeqs(S) : op' = [kind |-> "claim", rest |-> order]
             \/ op' = NoOp \* the response is lost
    /\ UNCHANGED <<applied, lease, journal, supervisorVars, hostFence, inflight, running>>

\* Mutant of Redispatchable: a failure on record is tried again.
RedispatchFailures(a) == journal[a].state # "succeeded"

\* admit_claimed_attempt: is there no result on record to report instead?
Redispatchable(a) == journal[a].state \notin Results

\* admit_claimed_attempt, up to the request that reports a recorded result.
Admit(a) ==
    /\ At({"claim"}, a) /\ inflight[a].phase = "none"
    /\ IF journal[a].state \in LocallyTerminal
       THEN /\ Proceed
            /\ UNCHANGED <<journal, inflight>>
       ELSE IF Redispatchable(a)
       THEN /\ Record(a, "started", fence[a])
            /\ inflight' = [inflight EXCEPT ![a] =
                    [phase |-> "awaiting", fence |-> fence[a], key |-> fence[a],
                     turn |-> "admitted"]]
            /\ Proceed
       ELSE /\ inflight' = [inflight EXCEPT ![a] =
                    [phase |-> journal[a].state, fence |-> fence[a],
                     key |-> journal[a].key, turn |-> "none"]]
            /\ UNCHANGED <<journal, op>>
    /\ CogStays
    /\ UNCHANGED <<supervisorVars, hostFence, running>>

\* Mutant of Admitted: the batch ends at its first dispatch.
FirstAdmitted == LET S == {a \in Attempts : inflight[a].turn = "admitted"}
                 IN  {a \in S : \A b \in S : a <= b}

Admitted == {a \in Attempts : inflight[a].turn = "admitted"}

\* dispatch_batch: every admitted dispatch becomes a provider turn.
Dispatch ==
    /\ Done("claim")
    /\ op' = NoOp
    /\ running' = [a \in Attempts |->
                        IF a \in Admitted THEN running[a] + 1 ELSE running[a]]
    /\ inflight' = Retold("admitted", "none")
    /\ CogStays
    /\ UNCHANGED <<journal, supervisorVars, hostFence>>

(***************************************************************************)
(* The provider, record_provider_result and flush_terminal.                *)
(***************************************************************************)

\* Mutant of Recorded: the result reaches Cog before it reaches the disk.
RecordedLate(a, outcome) == journal' = journal

Recorded(a, outcome) == Record(a, outcome, inflight[a].key)

\* A turn of a has ended and its result is received: record_provider_result up to
\* the request.  A result nobody waits for is an error; any other is made durable
\* and then reported.  (Between the end of a turn and here the result waits in
\* result_rx, where nobody can tell it from a turn yet to end.)
RecordResult(a, outcome) ==
    /\ Receiving /\ op = NoOp
    /\ running[a] > 0
    /\ running' = [running EXCEPT ![a] = @ - 1]
    /\ IF inflight[a].phase = "awaiting"
       THEN /\ Recorded(a, outcome)
            /\ inflight' = [inflight EXCEPT ![a].phase = outcome, ![a].turn = "none"]
            /\ op' = [kind |-> "flush", rest |-> <<a>>]
       ELSE UNCHANGED <<journal, inflight, op>>
    /\ CogStays
    /\ UNCHANGED <<supervisorVars, hostFence>>

Request(a) == [kind |-> inflight[a].phase, key |-> inflight[a].key]

\* Cog answers an exact replay with what it answered first.
FlushAnswers(a) ==
    IF applied[a] = Request(a) THEN {"ok"} \cup Answers(a) ELSE Answers(a)

\* flush_terminal: complete or fail a, and record what Cog says of it.
Flush(a) ==
    /\ At({"claim", "flush", "stop_flush"}, a) /\ a \in Reported
    /\ LET outcome == inflight[a].phase
           accepted == "ok" \in FlushAnswers(a)
           ended == IF outcome = "succeeded" THEN "completed" ELSE "failed"
       IN  \/ /\ accepted
              /\ status' = [status EXCEPT ![a] = ended]
              /\ applied' = [applied EXCEPT ![a] = Request(a)]
              /\ \/ Conclude(a, IF outcome = "succeeded"
                                THEN "cog_completed" ELSE "cog_failed")
                 \/ Fail /\ UNCHANGED journal \* the response is lost
           \/ /\ UNCHANGED <<status, applied>>
              /\ \/ "terminal" \in FlushAnswers(a) /\ Conclude(a, "observed")
                 \/ Fail /\ UNCHANGED journal
    /\ UNCHANGED <<fence, lease, incarnation, hostFence, running>>

(***************************************************************************)
(* Renewals.                                                               *)
(***************************************************************************)

\* The tick that renews every attempt and then retries the reports.
StartRenewal ==
    /\ mode = "active" /\ op = NoOp
    /\ Inflight # {}
    /\ op' = [kind |-> "renew", rest |-> InOrder(Inflight)]
    /\ OnlyOpChanges

\* Mutant of Lose: a claim lost takes the result on record with it.
LoseResult(a) == Conclude(a, "released")

\* renew_attempts, for a claim Cog no longer honours: a result on record stays the
\* latest record.
Lose(a) ==
    IF inflight[a].phase = "awaiting"
    THEN Conclude(a, "released")
    ELSE /\ Forget(a)
         /\ Proceed
         /\ UNCHANGED <<journal, mode>>

\* renew_attempts, for one attempt in flight.
Renew(a) ==
    /\ At({"renew"}, a) /\ a \in Inflight
    /\ \/ /\ "ok" \in Answers(a)
          /\ Proceed
          /\ UNCHANGED <<journal, inflight, mode>>
       \/ "terminal" \in Answers(a) /\ Conclude(a, "observed")
       \/ "lost" \in Answers(a) /\ Lose(a)
       \/ Fail /\ UNCHANGED journal
    /\ CogStays
    /\ UNCHANGED <<incarnation, hostFence, running>>

\* Mutant of ToRetry: a report is made once.
NothingToRetry == {}

ToRetry == Reported

\* retry_terminal_mutations follows.
StartRetry ==
    /\ Done("renew")
    /\ op' = [kind |-> "flush", rest |-> InOrder(ToRetry)]
    /\ OnlyOpChanges

EndFlush ==
    /\ Done("flush")
    /\ op' = NoOp
    /\ OnlyOpChanges

(***************************************************************************)
(* The end of run_active, shutdown, and the end of the process.            *)
(***************************************************************************)

\* run_active leaves its loop once nothing is in flight, when renew_host fails or
\* revalidate_capabilities finds them withdrawn or out of reach: the one needs no
\* more than a lost answer, the other is up to Cog.  In between it makes no
\* claims, which nobody can tell from a claim tick yet to come.
GiveUp ==
    /\ mode = "active" /\ op = NoOp
    /\ Inflight = {}
    /\ mode' = "stopping"
    /\ OnlyModeChanges

\* The server is told to shut down.
Quit ==
    /\ mode \in {"inactive", "active"} /\ op = NoOp
    /\ incarnation < MaxIncarnation
    /\ mode' = "quitting"
    /\ OnlyModeChanges

\* No result is waiting: shutdown begins.
StartShutdown ==
    /\ mode \in {"stopping", "quitting"} /\ op = NoOp
    /\ IF hostFence = 0
       THEN mode' = Stopped /\ op' = op
       ELSE mode' = mode /\ op' = [kind |-> "stop_flush", rest |-> InOrder(Reported)]
    /\ CogStays
    /\ UNCHANGED <<journal, incarnation, hostFence, inflight, running>>

\* The next part of shutdown: the attempts left are released, then the host.
ContinueShutdown ==
    /\ \/ Done("stop_flush")
          /\ op' = [kind |-> "stop_release", rest |-> InOrder(Inflight)]
       \/ Done("stop_release") /\ op' = [kind |-> "stop_host", rest |-> << >>]
    /\ OnlyOpChanges

\* release_attempt for a.
Release(a) ==
    /\ At({"stop_release"}, a) /\ a \in Inflight
    /\ \/ /\ "ok" \in Answers(a)
          /\ status' = [status EXCEPT ![a] = "open"]
          /\ \/ Conclude(a, "released")
             \/ Fail /\ UNCHANGED journal
       \/ /\ UNCHANGED status
          /\ \/ "terminal" \in Answers(a) /\ Conclude(a, "observed")
             \/ Fail /\ UNCHANGED journal
    /\ UNCHANGED <<fence, applied, lease, incarnation, hostFence, running>>

\* release_host_lease, the last request.
ReleaseHost ==
    /\ op.kind = "stop_host"
    /\ op' = NoOp
    /\ mode' = Stopped
    /\ \/ Current /\ lease' = [lease EXCEPT !.live = FALSE]
       \/ UNCHANGED lease
    /\ hostFence' \in {hostFence, 0}
    /\ hostFence' = 0 => Current
    /\ UNCHANGED <<status, fence, applied, journal, incarnation, inflight, running>>

\* run_active returns to the supervisor; a turn still under way has no one left to
\* report to.
Deactivate ==
    /\ mode = "stopped"
    /\ mode' = "inactive"
    /\ running' = [a \in Attempts |-> 0]
    /\ CogStays
    /\ UNCHANGED <<journal, incarnation, hostFence, inflight, op>>

\* The process exits, or dies at any step; its agents die with it.
ProcessEnds ==
    /\ mode # "down"
    /\ incarnation < MaxIncarnation \/ mode = "exiting"
    /\ mode' = "down"
    /\ hostFence' = 0
    /\ inflight' = [a \in Attempts |-> NotInflight]
    /\ op' = NoOp
    /\ running' = [a \in Attempts |-> 0]
    /\ CogStays
    /\ UNCHANGED <<journal, incarnation>>

\* A new process has a new instance_id and replays the journal.
ProcessStarts ==
    /\ mode = "down" /\ incarnation < MaxIncarnation
    /\ incarnation' = incarnation + 1
    /\ mode' = "inactive"
    /\ CogStays
    /\ UNCHANGED <<journal, hostFence, inflight, op, running>>

Handle(a) ==
    \/ Reconcile(a)
    \/ Admit(a)
    \/ Flush(a)
    \/ Renew(a)
    \/ Release(a)

Operate ==
    \/ \E a \in Attempts : Handle(a)
    \/ Activate
    \/ Dispatch
    \/ StartRetry
    \/ EndFlush
    \/ ContinueShutdown
    \/ ReleaseHost

Next ==
    \/ CogMoves
    \/ Acquire
    \/ Operate
    \/ Claim
    \/ \E a \in Attempts : \E outcome \in Results : RecordResult(a, outcome)
    \/ StartRenewal
    \/ GiveUp
    \/ Quit
    \/ StartShutdown
    \/ Deactivate
    \/ ProcessEnds
    \/ ProcessStarts

(***************************************************************************)
(* Fairness: the supervisor, its ticks and the calls under way go on; a    *)
(* call that is made again and again is answered in the end; Cog offers    *)
(* again what is open, takes back the claim of an attempt nobody renews    *)
(* and lets the lease of a host that is gone run out.                      *)
(***************************************************************************)

\* Cog grants a and its response arrives.
Offered(a) == Claim /\ op' # NoOp /\ status[a] = "open" /\ status'[a] = "claimed"

Proceeds ==
    \/ Operate
    \/ StartShutdown
    \/ Deactivate
    \/ ProcessStarts
    \/ mode = "exiting" /\ ProcessEnds
    \/ ~ Current /\ GiveUp

UnrenewedExpires ==
    CogMoves /\ lease' = lease
             /\ \E a \in Attempts \ Inflight : status[a] = "claimed" /\ status'[a] = "open"

OtherLapses == CogMoves /\ lease.holder # incarnation /\ ~ lease'.live

Fairness ==
    /\ WF_vars(Proceeds)
    /\ WF_vars(Acquire /\ op' # NoOp)
    /\ WF_vars(StartRenewal)
    /\ SF_vars(\E a \in Attempts : Offered(a))
    /\ SF_vars(\E a \in Attempts : Flush(a) /\ op' # NoOp)
    /\ \A a \in Attempts : SF_vars((Reconcile(a) \/ Renew(a)) /\ op' # NoOp)
    /\ WF_vars(UnrenewedExpires)
    /\ WF_vars(OtherLapses)

Spec == Init /\ [][Next]_vars /\ Fairness

(***************************************************************************)
(* Properties.                                                             *)
(***************************************************************************)

\* What the coordinator holds in memory of an attempt in flight is what it would
\* recover from its journal: a crash at any step loses no decision and revives
\* none.  (admit_claimed_attempt, record_provider_result, renew_attempts,
\* reconcile_journal_terminals.)
InflightIsJournaled ==
    \A a \in Inflight :
        /\ journal[a].key = inflight[a].key
        /\ journal[a].state =
              IF inflight[a].phase = "awaiting" THEN "started" ELSE inflight[a].phase

\* Whatever Cog was told of an attempt was on this host's disk first, and is still
\* there: the same outcome under the same idempotency key, as long as Cog has not
\* concluded it.  So every retry, before or after a crash, is the identical
\* request.  (record_provider_result, flush_terminal.)
AppliedIsOnRecord ==
    \A a \in Attempts : applied[a] # NoRequest =>
        /\ journal[a].key = applied[a].key
        /\ journal[a].state \in
              {applied[a].kind, "observed",
               IF applied[a].kind = "succeeded" THEN "cog_completed" ELSE "cog_failed"}

\* The journal leads: neither the coordinator's memory nor Cog is ever ahead of what
\* a crash would leave.
JournalLeads == InflightIsJournaled /\ AppliedIsOnRecord

\* A record that calls an attempt concluded agrees with Cog, for ever after.
\* (flush_terminal, reconcile_journal_terminals, observe_terminal.)
JournalBelievesCog ==
    \A a \in Attempts :
        /\ journal[a].state = "cog_completed" => status[a] = "completed"
        /\ journal[a].state = "cog_failed" => status[a] = "failed"
        /\ journal[a].state = "observed" => status[a] \in Ended

\* While results are received, an attempt that awaits its provider has a turn under
\* way that will bring one; the one exception is a dispatch that claim_available
\* forgot.  (claim_available, dispatch_batch, record_provider_result.)
AwaitingHasATurn ==
    Receiving /\ op.kind # "claim" =>
    \A a \in Attempts : inflight[a].phase = "awaiting" =>
        inflight[a].turn = "forgotten" \/ running[a] > 0

\* Once an attempt's result is on record it stays there until Cog has concluded it,
\* and no later claim, lease or process hands the attempt to a provider again.
\* (admit_claimed_attempt, renew_attempts.)
NeverRedispatched ==
    [][\A a \in Attempts : journal[a].state \in Settled =>
          journal'[a].state \in Settled /\ running'[a] <= running[a]]_vars

\* No order of claims, losses, results, crashes and reports makes the coordinator
\* append a record that validate_transition would refuse: a refusal would fail the
\* operation for good, and so would a journal that held such a record on replay.
AppendNeverRefused ==
    [][\A a \in Attempts : journal'[a] # journal[a] =>
          journal'[a].state \in MayFollow(journal[a].state)]_vars

\* An attempt in flight keeps run_active in its loop, and a lease lost meanwhile is
\* asked for only outside it: the adapter then neither reports nor gives up.
Wedged == mode = "active" /\ Inflight # {} /\ ~ Current

\* The bounds leave no claim, or no lease, to report a's result under.
OutOfBounds(a) ==
    \/ Claims = MaxClaims /\ a \notin Inflight
    \/ lease.fence = MaxHostFence /\ ~ Current

\* A result on record is not forgotten: again and again Cog has every such attempt
\* concluded, whatever calls are lost and processes die, unless the adapter is
\* wedged.  (renew_attempts keeps the record of a lost claim, admit_claimed_attempt
\* and retry_terminal_mutations report it, activate reconciles it.)
ResultIsReported ==
    []<>(\A a \in Attempts : journal[a].state \in Results =>
            status[a] \in Ended \/ Wedged \/ OutOfBounds(a))
=============================================================================

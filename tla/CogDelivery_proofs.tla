--------------------------- MODULE CogDelivery_proofs ---------------------------
(***************************************************************************)
(* Theorems about CogDelivery, for every number of attempts, claims, host  *)
(* leases and processes.                                                   *)
(*                                                                         *)
(* The journal leads (JournalLeads) only because of what the operations    *)
(* may not interleave with.  ModeInv says which operation runs in which    *)
(* mode, and that nothing is in flight when the journal is reconciled;     *)
(* RestInv what an operation has still to handle; TurnInv how far the      *)
(* dispatch of an attempt in flight has come; AppliedInv what Cog made of  *)
(* the reports it carried out.                                             *)
(***************************************************************************)
EXTENDS CogDelivery, Selections_proofs, FiniteSetTheorems

(***************************************************************************)
(* Types.                                                                  *)
(***************************************************************************)

InflightType == [phase : Phases, fence : Nat, key : Nat, turn : Turns]

\* An operation's attempts are attempts, in the order of their addresses, each once.
LEMMA InOrderMembers ==
    ASSUME NEW T \in SUBSET Attempts
    PROVE  /\ InOrder(T) \in Seq(Attempts)
           /\ ToSet(InOrder(T)) = T
           /\ Distinct(InOrder(T))
  <1>1. MaxAttempts \in Nat
    BY BoundsAssumption
  <1> QED
    BY <1>1, AscendingMembers DEF InOrder, Attempts

\* A claim's attempts are those it asked for, each once.
LEMMA ClaimOrder ==
    ASSUME NEW T \in SUBSET Attempts, NEW order \in SetToSeqs(T)
    PROVE  order \in Seq(Attempts)
  <1>1. IsFiniteSet(Attempts)
    BY BoundsAssumption, FS_Interval DEF Attempts
  <1>2. Cardinality(T) \in Nat
    BY <1>1, FS_Subset, FS_CardinalityType
  <1>3. order \in [1 .. Cardinality(T) -> Attempts]
    BY DEF SetToSeqs
  <1> QED
    BY <1>2, <1>3

\* Forgetting dispatches changes no phase, fence or key (claim_available).
LEMMA RetoldFields ==
    ASSUME inflight \in [Attempts -> InflightType], NEW from, NEW to \in Turns
    PROVE  /\ Retold(from, to) \in [Attempts -> InflightType]
           /\ \A a \in Attempts :
                /\ Retold(from, to)[a].phase = inflight[a].phase
                /\ Retold(from, to)[a].fence = inflight[a].fence
                /\ Retold(from, to)[a].key = inflight[a].key
                /\ Retold(from, to)[a].turn =
                      IF inflight[a].turn = from THEN to ELSE inflight[a].turn
  BY DEF Retold, InflightType

\* What the rest of an operation is after its first attempt was handled.
LEMMA ProceedRest ==
    ASSUME op \in [kind : OpKinds, rest : Seq(Attempts)], op.rest # << >>, Proceed
    PROVE  /\ op' \in [kind : OpKinds, rest : Seq(Attempts)]
           /\ op'.kind = op.kind
           /\ op'.rest = Tail(op.rest)
  BY DEF Proceed

\* Steps of Cog keep the types (external).
LEMMA CogMovesTypes ==
    ASSUME TypeOK, CogMoves
    PROVE  TypeOK'
  <1>1. \A a \in Attempts, end \in Statuses : EndOutside(a, end) => status' \in [Attempts -> Statuses]
    BY DEF EndOutside, TypeOK
  <1>2. /\ Reopened \in [Attempts -> Statuses]
        /\ "superseded" \in Statuses /\ "completed" \in Statuses
    BY DEF Reopened, Statuses, TypeOK
  <1>3. status' \in [Attempts -> Statuses]
    <2>1. CASE LeaseLapses
      BY <2>1 DEF LeaseLapses, TypeOK
    <2>2. CASE OtherTakesOver
      BY <2>2, <1>2 DEF OtherTakesOver
    <2>3. ASSUME NEW a \in Attempts, AttemptExpires(a)
          PROVE  status' \in [Attempts -> Statuses]
      BY <2>3 DEF AttemptExpires, TypeOK, Statuses
    <2>4. ASSUME NEW a \in Attempts, Supersede(a)
          PROVE  status' \in [Attempts -> Statuses]
      BY <2>4, <1>1, <1>2 DEF Supersede
    <2>5. ASSUME NEW a \in Attempts, OtherCompletes(a)
          PROVE  status' \in [Attempts -> Statuses]
      BY <2>5, <1>1, <1>2 DEF OtherCompletes
    <2> QED
      BY <2>1, <2>2, <2>3, <2>4, <2>5 DEF CogMoves
  <1>4. /\ fence' = fence /\ applied' = applied
        /\ lease' \in [fence : Nat, live : BOOLEAN, holder : Nat]
    <2>1. CASE LeaseLapses
      BY <2>1 DEF LeaseLapses, TypeOK
    <2>2. CASE OtherTakesOver
      BY <2>2 DEF OtherTakesOver, TypeOK
    <2>3. CASE \E a \in Attempts : AttemptExpires(a) \/ Supersede(a) \/ OtherCompletes(a)
      BY <2>3 DEF AttemptExpires, Supersede, OtherCompletes, EndOutside, TypeOK
    <2> QED
      BY <2>1, <2>2, <2>3 DEF CogMoves
  <1> QED
    BY <1>3, <1>4 DEF CogMoves, TypeOK, supervisorVars

\* A record of one attempt keeps the type of the journal.
LEMMA RecordTypes ==
    ASSUME TypeOK, NEW a \in Attempts, NEW state \in JournalStates, NEW key \in Nat,
           Record(a, state, key)
    PROVE  /\ journal' \in [Attempts -> [state : JournalStates, key : Nat]]
           /\ journal'[a] = [state |-> state, key |-> key]
           /\ \A b \in Attempts : b # a => journal'[b] = journal[b]
  BY DEF Record, TypeOK

\* So does forgetting it.
LEMMA ForgetTypes ==
    ASSUME TypeOK, NEW a \in Attempts, Forget(a)
    PROVE  /\ inflight' \in [Attempts -> InflightType]
           /\ inflight'[a] = NotInflight
           /\ \A b \in Attempts : b # a => inflight'[b] = inflight[b]
  BY DEF Forget, TypeOK, InflightType, NotInflight, Phases, Turns, Results

\* A failed operation leaves no operation, and no dispatch that is only admitted.
LEMMA FailTypes ==
    ASSUME TypeOK, Fail
    PROVE  /\ op' = NoOp /\ NoOp \in [kind : OpKinds, rest : Seq(Attempts)]
           /\ inflight' = Retold("admitted", "forgotten")
           /\ inflight' \in [Attempts -> InflightType]
           /\ mode' \in Modes
  <1>1. << >> \in Seq(Attempts)
    OBVIOUS
  <1>2. inflight \in [Attempts -> InflightType]
    BY DEF TypeOK, InflightType
  <1>3. Retold("admitted", "forgotten") \in [Attempts -> InflightType]
    BY <1>2, RetoldFields DEF Turns
  <1> QED
    BY <1>1, <1>3 DEF Fail, NoOp, OpKinds, ForgetAdmitted, Stopped, Modes, TypeOK

\* Concluding an attempt keeps the types (observe_terminal, release_local).
LEMMA ConcludeTypes ==
    ASSUME TypeOK, NEW a \in Attempts, NEW state \in JournalStates,
           op.rest # << >>, Conclude(a, state)
    PROVE  /\ journal' \in [Attempts -> [state : JournalStates, key : Nat]]
           /\ inflight' \in [Attempts -> InflightType]
           /\ op' \in [kind : OpKinds, rest : Seq(Attempts)]
           /\ mode' = mode
  <1>1. journal[a].key \in Nat
    BY DEF TypeOK
  <1>2. op \in [kind : OpKinds, rest : Seq(Attempts)]
    BY DEF TypeOK
  <1> QED
    BY <1>1, <1>2, RecordTypes, ForgetTypes, ProceedRest DEF Conclude

\* The types, with the records of the attempts in flight by their name.
LEMMA TypeFields ==
    TypeOK <=>
        /\ status \in [Attempts -> Statuses]
        /\ fence \in [Attempts -> Nat]
        /\ applied \in [Attempts -> [kind : {"none"} \cup Results, key : Nat]]
        /\ lease \in [fence : Nat, live : BOOLEAN, holder : Nat]
        /\ journal \in [Attempts -> [state : JournalStates, key : Nat]]
        /\ incarnation \in Nat
        /\ mode \in Modes
        /\ hostFence \in Nat
        /\ inflight \in [Attempts -> InflightType]
        /\ op \in [kind : OpKinds, rest : Seq(Attempts)]
        /\ running \in [Attempts -> Nat]
  BY DEF TypeOK, InflightType

\* The first types of the specification.
LEMMA InitTypes == Init => TypeOK
  <1>1. << >> \in Seq(Attempts)
    OBVIOUS
  <1> QED
    BY <1>1 DEF Init, TypeOK, Statuses, NoRequest, JournalStates, Modes, NotInflight, Phases,
                Turns, NoOp, OpKinds

\* The requests about one attempt keep the types.
LEMMA HandleTypes ==
    ASSUME TypeOK, NEW a \in Attempts, Handle(a)
    PROVE  TypeOK'
  <1>0. /\ op \in [kind : OpKinds, rest : Seq(Attempts)]
        /\ inflight \in [Attempts -> InflightType]
        /\ journal[a] \in [state : JournalStates, key : Nat]
        /\ fence[a] \in Nat
    BY DEF TypeOK, InflightType
  <1>1. CASE Reconcile(a)
    <2>1. op.rest # << >> /\ CogStays /\ running' = running /\ incarnation' = incarnation
          /\ hostFence' = hostFence
      BY <1>1 DEF Reconcile, At, Unanswered
    <2>2. Verdict(a) \in JournalStates
      BY <1>0 DEF Verdict, JournalStates, Settled, LocallyTerminal
    <2>3. CASE Unanswered
      BY <2>1, <2>3, FailTypes DEF Unanswered, TypeOK, InflightType, CogStays, cogVars
    <2>4. CASE /\ Record(a, Verdict(a), journal[a].key)
               /\ Proceed
               /\ UNCHANGED <<mode, hostFence, incarnation, inflight>>
      BY <1>0, <2>1, <2>2, <2>4, RecordTypes, ProceedRest DEF TypeOK, CogStays, cogVars
    <2> QED
      BY <1>1, <2>3, <2>4 DEF Reconcile
  <1>2. CASE Admit(a)
    <2>1. op.rest # << >> /\ CogStays /\ UNCHANGED <<supervisorVars, hostFence, running>>
      BY <1>2 DEF Admit, At
    <2>2. CASE journal[a].state \in LocallyTerminal
      BY <1>0, <1>2, <2>1, <2>2, ProceedRest
         DEF Admit, TypeOK, CogStays, cogVars, supervisorVars
    <2>3. CASE journal[a].state \notin LocallyTerminal /\ Redispatchable(a)
      <3>1. "started" \in JournalStates
        BY DEF JournalStates
      <3>2. journal' \in [Attempts -> [state : JournalStates, key : Nat]]
        BY <1>0, <1>2, <2>3, <3>1, RecordTypes DEF Admit
      <3>3. inflight' \in [Attempts -> InflightType]
        <4>1. [phase |-> "awaiting", fence |-> fence[a], key |-> fence[a], turn |-> "admitted"]
                  \in InflightType
          BY <1>0 DEF InflightType, Phases, Turns
        <4> QED
          BY <1>0, <1>2, <2>3, <4>1 DEF Admit
      <3> QED
        BY <1>0, <1>2, <2>1, <2>3, <3>2, <3>3, ProceedRest
           DEF Admit, TypeOK, InflightType, CogStays, cogVars, supervisorVars
    <2>4. CASE journal[a].state \notin LocallyTerminal /\ ~ Redispatchable(a)
      <3>1. [phase |-> journal[a].state, fence |-> fence[a], key |-> journal[a].key,
             turn |-> "none"] \in InflightType
        BY <1>0, <2>4 DEF Redispatchable, InflightType, Phases, Turns
      <3>2. inflight' \in [Attempts -> InflightType] /\ UNCHANGED <<journal, op>>
        BY <1>0, <1>2, <2>4, <3>1 DEF Admit
      <3> QED
        BY <2>1, <3>2 DEF TypeOK, InflightType, CogStays, cogVars, supervisorVars
    <2> QED
      BY <2>2, <2>3, <2>4
  <1>3. CASE Flush(a)
    <2>1. /\ op.rest # << >> /\ UNCHANGED <<fence, lease, incarnation, hostFence, running>>
          /\ inflight[a].phase \in Results
      BY <1>3 DEF Flush, At, Reported
    <2>2. Request(a) \in [kind : {"none"} \cup Results, key : Nat]
      BY <1>0, <2>1 DEF Request, InflightType
    <2>3. status' \in [Attempts -> Statuses]
      BY <1>3 DEF Flush, TypeOK, Statuses
    <2>4. applied' \in [Attempts -> [kind : {"none"} \cup Results, key : Nat]]
      BY <1>3, <2>2 DEF Flush, TypeOK
    <2>5. \/ Fail /\ UNCHANGED journal
          \/ Conclude(a, "cog_completed")
          \/ Conclude(a, "cog_failed")
          \/ Conclude(a, "observed")
      BY <1>3 DEF Flush
    <2>6. {"cog_completed", "cog_failed", "observed"} \subseteq JournalStates
      BY DEF JournalStates, Settled, LocallyTerminal
    <2>7. /\ journal' \in [Attempts -> [state : JournalStates, key : Nat]]
          /\ inflight' \in [Attempts -> InflightType]
          /\ op' \in [kind : OpKinds, rest : Seq(Attempts)]
          /\ mode' \in Modes
      <3>1. CASE Fail /\ UNCHANGED journal
        BY <3>1, FailTypes DEF TypeOK
      <3>2. ASSUME NEW state \in {"cog_completed", "cog_failed", "observed"}, Conclude(a, state)
            PROVE  /\ journal' \in [Attempts -> [state : JournalStates, key : Nat]]
                   /\ inflight' \in [Attempts -> InflightType]
                   /\ op' \in [kind : OpKinds, rest : Seq(Attempts)]
                   /\ mode' = mode
        BY <2>1, <2>6, <3>2, ConcludeTypes
      <3> QED
        BY <2>5, <3>1, <3>2 DEF TypeOK
    <2> QED
      BY <2>1, <2>3, <2>4, <2>7 DEF TypeOK, InflightType
  <1>4. CASE Renew(a) \/ Release(a)
    <2>1. /\ op.rest # << >> /\ UNCHANGED <<fence, applied, lease, incarnation, hostFence, running>>
      BY <1>4 DEF Renew, Release, At, CogStays, cogVars
    <2>2. status' \in [Attempts -> Statuses]
      BY <1>4 DEF Renew, Release, TypeOK, Statuses, CogStays, cogVars
    <2>3. \/ Fail /\ UNCHANGED journal
          \/ Conclude(a, "released")
          \/ Conclude(a, "observed")
          \/ Proceed /\ (Forget(a) \/ UNCHANGED inflight) /\ UNCHANGED <<journal, mode>>
      BY <1>4 DEF Renew, Lose, Release
    <2>4. {"released", "observed"} \subseteq JournalStates
      BY DEF JournalStates, Settled, LocallyTerminal
    <2>5. /\ journal' \in [Attempts -> [state : JournalStates, key : Nat]]
          /\ inflight' \in [Attempts -> InflightType]
          /\ op' \in [kind : OpKinds, rest : Seq(Attempts)]
          /\ mode' \in Modes
      <3>1. CASE Fail /\ UNCHANGED journal
        BY <3>1, FailTypes DEF TypeOK
      <3>2. ASSUME NEW state \in {"released", "observed"}, Conclude(a, state)
            PROVE  /\ journal' \in [Attempts -> [state : JournalStates, key : Nat]]
                   /\ inflight' \in [Attempts -> InflightType]
                   /\ op' \in [kind : OpKinds, rest : Seq(Attempts)]
                   /\ mode' = mode
        BY <2>1, <2>4, <3>2, ConcludeTypes
      <3>3. CASE Proceed /\ (Forget(a) \/ UNCHANGED inflight) /\ UNCHANGED <<journal, mode>>
        <4>1. inflight' \in [Attempts -> InflightType]
          BY <1>0, <3>3, ForgetTypes
        <4> QED
          BY <1>0, <2>1, <3>3, <4>1, ProceedRest DEF TypeOK
      <3> QED
        BY <2>3, <3>1, <3>2, <3>3 DEF TypeOK
    <2> QED
      BY <2>1, <2>2, <2>5 DEF TypeOK, InflightType
  <1> QED
    BY <1>1, <1>2, <1>3, <1>4 DEF Handle

\* So does every step.
LEMMA TypeStep ==
    ASSUME TypeOK, [Next]_vars
    PROVE  TypeOK'
  <1> USE DEF cogVars, supervisorVars
  <1>0. /\ op \in [kind : OpKinds, rest : Seq(Attempts)]
        /\ inflight \in [Attempts -> InflightType]
        /\ NoOp \in [kind : OpKinds, rest : Seq(Attempts)]
        /\ \A kind \in OpKinds, T \in SUBSET Attempts :
              [kind |-> kind, rest |-> InOrder(T)] \in [kind : OpKinds, rest : Seq(Attempts)]
    <2>1. << >> \in Seq(Attempts)
      OBVIOUS
    <2> QED
      BY <2>1, InOrderMembers DEF TypeOK, InflightType, NoOp, OpKinds
  <1>1. CASE CogMoves
    BY <1>1, CogMovesTypes
  <1>2. CASE Acquire
    <2>1. /\ lease' \in [fence : Nat, live : BOOLEAN, holder : Nat]
          /\ status' \in [Attempts -> Statuses]
      <3>1. Reopened \in [Attempts -> Statuses]
        BY DEF Reopened, Statuses, TypeOK
      <3>2. lease.fence + 1 \in Nat /\ incarnation \in Nat
        BY DEF TypeOK
      <3>3. [fence |-> lease.fence + 1, live |-> TRUE, holder |-> incarnation]
                \in [fence : Nat, live : BOOLEAN, holder : Nat]
        BY <3>2
      <3>4. CASE lease.live /\ lease.holder = incarnation
        BY <1>2, <3>4 DEF Acquire, TypeOK
      <3>5. CASE ~ (lease.live /\ lease.holder = incarnation)
        BY <1>2, <3>1, <3>3, <3>5 DEF Acquire
      <3> QED
        BY <3>4, <3>5
    <2>2. op' \in [kind : OpKinds, rest : Seq(Attempts)] /\ hostFence' \in Nat
      <3>1. Unsettled \in SUBSET Attempts /\ "reconcile" \in OpKinds
        BY DEF Unsettled, OpKinds
      <3> QED
        BY <1>0, <1>2, <2>1, <3>1 DEF Acquire, TypeOK
    <2> QED
      BY <1>2, <2>1, <2>2 DEF Acquire, TypeOK
  <1>3. ASSUME NEW a \in Attempts, Handle(a)
        PROVE  TypeOK'
    BY <1>3, HandleTypes
  <1>4. CASE Activate \/ EndFlush \/ ReleaseHost \/ Deactivate \/ GiveUp \/ Quit
    <2>1. op' \in [kind : OpKinds, rest : Seq(Attempts)] /\ mode' \in Modes
      BY <1>0, <1>4 DEF Activate, EndFlush, ReleaseHost, Deactivate, GiveUp, Quit, OnlyOpChanges,
         OnlyModeChanges, Modes, Stopped, TypeOK
    <2>2. /\ lease' \in [fence : Nat, live : BOOLEAN, holder : Nat]
          /\ hostFence' \in Nat
          /\ running' \in [Attempts -> Nat]
      <3>1. CASE ReleaseHost
        <4>1. /\ lease \in [fence : Nat, live : BOOLEAN, holder : Nat]
              /\ [lease EXCEPT !.live = FALSE] \in [fence : Nat, live : BOOLEAN, holder : Nat]
              /\ hostFence \in Nat /\ running \in [Attempts -> Nat]
          BY DEF TypeOK
        <4>2. /\ lease' = lease \/ lease' = [lease EXCEPT !.live = FALSE]
              /\ hostFence' = hostFence \/ hostFence' = 0
              /\ running' = running
          BY <3>1 DEF ReleaseHost
        <4> DEFINE released == [lease EXCEPT !.live = FALSE]
        <4> HIDE DEF released
        <4>3. lease' = lease \/ lease' = released
          BY <4>2 DEF released
        <4>4. released \in [fence : Nat, live : BOOLEAN, holder : Nat]
          BY <4>1 DEF released
        <4>5. lease' \in [fence : Nat, live : BOOLEAN, holder : Nat]
          BY <4>1, <4>3, <4>4, Zenon
        <4>6. hostFence' \in Nat /\ running' \in [Attempts -> Nat]
          BY <4>1, <4>2
        <4> QED
          BY <4>5, <4>6, Zenon
      <3>2. CASE Deactivate
        BY <3>2 DEF Deactivate, CogStays, TypeOK
      <3>3. CASE Activate \/ EndFlush \/ GiveUp \/ Quit
        BY <3>3 DEF Activate, EndFlush, GiveUp, Quit, OnlyOpChanges, OnlyModeChanges, CogStays,
                    TypeOK
      <3> QED
        BY <1>4, <3>1, <3>2, <3>3
    <2> QED
      BY <1>4, <2>1, <2>2
         DEF Activate, EndFlush, ReleaseHost, Deactivate, GiveUp, Quit, OnlyOpChanges,
             OnlyModeChanges, CogStays, TypeOK
  <1>5. CASE StartRetry \/ StartRenewal \/ StartShutdown \/ ContinueShutdown
    <2>1. /\ ToRetry \in SUBSET Attempts /\ Reported \in SUBSET Attempts
          /\ Inflight \in SUBSET Attempts
          /\ {"flush", "renew", "stop_flush", "stop_release", "stop_host"} \subseteq OpKinds
      BY DEF ToRetry, Reported, Inflight, OpKinds
    <2>2. << >> \in Seq(Attempts)
      OBVIOUS
    <2>3. op' \in [kind : OpKinds, rest : Seq(Attempts)] /\ mode' \in Modes
      <3>1. CASE StartRetry \/ StartRenewal
        BY <1>0, <2>1, <3>1 DEF StartRetry, StartRenewal, OnlyOpChanges, TypeOK
      <3>2. CASE StartShutdown
        BY <1>0, <2>1, <3>2 DEF StartShutdown, Stopped, Modes, TypeOK
      <3>3. CASE ContinueShutdown
        <4>1. [kind |-> "stop_host", rest |-> << >>] \in [kind : OpKinds, rest : Seq(Attempts)]
          BY <2>1, <2>2
        <4> QED
          BY <1>0, <2>1, <3>3, <4>1 DEF ContinueShutdown, OnlyOpChanges, TypeOK
      <3> QED
        BY <1>5, <3>1, <3>2, <3>3
    <2> QED
      BY <1>5, <2>3
         DEF StartRetry, StartRenewal, StartShutdown, ContinueShutdown, OnlyOpChanges, CogStays,
             TypeOK
  <1>6. CASE Dispatch
    <2>1. inflight' \in [Attempts -> InflightType]
      BY <1>0, <1>6, RetoldFields DEF Dispatch, Turns
    <2>2. running' \in [Attempts -> Nat] /\ op' \in [kind : OpKinds, rest : Seq(Attempts)]
      BY <1>0, <1>6 DEF Dispatch, TypeOK
    <2> QED
      BY <1>6, <2>1, <2>2 DEF Dispatch, CogStays, TypeOK, InflightType
  <1>7. CASE Claim
    <2>1. PICK T \in SUBSET Claimable :
            /\ status' = [a \in Attempts |-> IF a \in T THEN "claimed" ELSE status[a]]
            /\ fence' = [a \in Attempts |-> IF a \in T THEN fence[a] + 1 ELSE fence[a]]
            /\ \/ \E order \in SetToSeqs(T) : op' = [kind |-> "claim", rest |-> order]
               \/ op' = NoOp
      BY <1>7 DEF Claim
    <2>2. T \in SUBSET Attempts
      BY DEF Claimable
    <2>3. op' \in [kind : OpKinds, rest : Seq(Attempts)]
      BY <1>0, <2>1, <2>2, ClaimOrder DEF OpKinds
    <2>4. status' \in [Attempts -> Statuses] /\ fence' \in [Attempts -> Nat]
      BY <2>1 DEF TypeOK, Statuses
    <2> QED
      BY <1>7, <2>3, <2>4 DEF Claim, TypeOK
  <1>8. ASSUME NEW a \in Attempts, NEW outcome \in Results, RecordResult(a, outcome)
        PROVE  TypeOK'
    <2>1. running' \in [Attempts -> Nat]
      BY <1>8 DEF RecordResult, TypeOK
    <2>2. outcome \in JournalStates /\ inflight[a].key \in Nat
      BY <1>0 DEF JournalStates, Settled, InflightType
    <2>3. journal' \in [Attempts -> [state : JournalStates, key : Nat]]
      BY <1>8, <2>2, RecordTypes DEF RecordResult, Recorded, TypeOK
    <2>4. inflight' \in [Attempts -> InflightType]
      <3>1. [inflight EXCEPT ![a].phase = outcome, ![a].turn = "none"]
                \in [Attempts -> InflightType]
        BY <1>0 DEF InflightType, Phases, Turns
      <3> QED
        BY <1>0, <1>8, <3>1 DEF RecordResult
    <2>5. op' \in [kind : OpKinds, rest : Seq(Attempts)]
      <3>1. <<a>> \in Seq(Attempts) /\ "flush" \in OpKinds
        BY DEF OpKinds
      <3>2. [kind |-> "flush", rest |-> <<a>>] \in [kind : OpKinds, rest : Seq(Attempts)]
        BY <3>1
      <3> QED
        BY <1>0, <1>8, <3>2 DEF RecordResult
    <2> QED
      BY <1>8, <2>1, <2>3, <2>4, <2>5 DEF RecordResult, CogStays, TypeOK, InflightType
  <1>9. CASE ProcessEnds \/ ProcessStarts
    <2>1. op' \in [kind : OpKinds, rest : Seq(Attempts)]
      BY <1>0, <1>9 DEF ProcessEnds, ProcessStarts
    <2>2. inflight' \in [Attempts -> InflightType] /\ running' \in [Attempts -> Nat]
      <3>1. NotInflight \in InflightType
        BY DEF NotInflight, InflightType, Phases, Turns
      <3>2. CASE ProcessEnds
        BY <3>1, <3>2 DEF ProcessEnds
      <3>3. CASE ProcessStarts
        BY <1>0, <3>3 DEF ProcessStarts, TypeOK
      <3> QED
        BY <1>9, <3>2, <3>3
    <2> QED
      BY <1>9, <2>1, <2>2
         DEF ProcessEnds, ProcessStarts, CogStays, TypeOK, InflightType, Modes
  <1>10. CASE UNCHANGED vars
    BY <1>10 DEF vars, TypeOK
  <1> QED
    BY <1>1, <1>2, <1>3, <1>4, <1>5, <1>6, <1>7, <1>8, <1>9, <1>10 DEF Next, Operate

\* The types hold throughout (CogClient, DeliveryCoordinator, DeliveryJournal).
THEOREM DeliveryTypes == Spec => []TypeOK
  <1>1. TypeOK /\ [Next]_vars => TypeOK'
    BY TypeStep
  <1> QED
    BY InitTypes, <1>1, PTL DEF Spec

(***************************************************************************)
(* The inductive invariant.                                                *)
(***************************************************************************)

\* Which operation runs in which mode.  Nothing is in flight before run_active claims
\* and after it has given up; only a server that quits leaves attempts behind.
ModeInv ==
    /\ mode \in {"down", "inactive", "stopping", "stopped"} => Inflight = {}
    /\ op.kind \in {"claim", "renew"} => mode = "active"
    /\ op.kind = "reconcile" => mode = "inactive"
    /\ op.kind = "flush" => mode \in {"active", "quitting"}
    /\ op.kind \in StopKinds => mode \in {"stopping", "quitting"}

\* How far the dispatch of an attempt in flight has come: admitted by the claim under
\* way, forgotten with it, or a turn.
TurnInv ==
    \A a \in Attempts :
        /\ inflight[a].turn # "none" => inflight[a].phase = "awaiting"
        /\ inflight[a].phase = "awaiting" => inflight[a].turn # "none" \/ running[a] > 0
        /\ inflight[a].turn = "admitted" => op.kind = "claim"

\* The status Cog gives an attempt whose result it took.
EndOf(kind) == IF kind = "succeeded" THEN "completed" ELSE "failed"

\* Cog keeps what it was told.
AppliedInv ==
    \A a \in Attempts : applied[a] # NoRequest =>
        applied[a].kind \in Results /\ status[a] = EndOf(applied[a].kind)

\* What an operation has still to handle: every report not made before a shutdown
\* releases, and no attempt twice that the journal settles.
RestInv ==
    /\ op.kind = "stop_flush" => Reported \subseteq ToSet(op.rest)
    /\ op.kind = "stop_release" => Reported = {}
    /\ op.kind = "reconcile" =>
          /\ Distinct(op.rest)
          /\ \A a \in ToSet(op.rest) : journal[a].state \notin LocallyTerminal \cup {"none"}

DeliveryInv ==
    /\ TypeOK /\ ModeInv /\ TurnInv /\ AppliedInv /\ RestInv
    /\ InflightIsJournaled /\ AppliedIsOnRecord /\ JournalBelievesCog

(***************************************************************************)
(* What the steps of an operation do.                                      *)
(***************************************************************************)

\* The parts of the invariant speak of an attempt in flight through these.
SamePhases ==
    \A a \in Attempts :
        /\ inflight'[a].phase = inflight[a].phase
        /\ inflight'[a].key = inflight[a].key

\* An operation that fails: no attempt leaves or enters, no dispatch stays admitted.
LEMMA FailEffect ==
    ASSUME TypeOK, Fail
    PROVE  /\ op' = NoOp
           /\ SamePhases
           /\ \A a \in Attempts :
                inflight'[a].turn = IF inflight[a].turn = "admitted" THEN "forgotten"
                                    ELSE inflight[a].turn
           /\ mode' = IF op.kind \in StopKinds THEN Stopped ELSE mode
  <1>1. inflight \in [Attempts -> InflightType] /\ "forgotten" \in Turns
    BY DEF TypeOK, InflightType, Turns
  <1> QED
    BY <1>1, RetoldFields DEF Fail, ForgetAdmitted, SamePhases

\* An attempt that is forgotten: the others stay as they are.
LEMMA ForgetEffect ==
    ASSUME TypeOK, NEW a \in Attempts, Forget(a)
    PROVE  /\ inflight'[a].phase = "none" /\ inflight'[a].turn = "none"
           /\ \A b \in Attempts : b # a => inflight'[b] = inflight[b]
  BY ForgetTypes DEF NotInflight

\* An attempt that is concluded: it is forgotten and its last record written.
LEMMA ConcludeEffect ==
    ASSUME TypeOK, NEW a \in Attempts, NEW state, op.rest # << >>, Conclude(a, state)
    PROVE  /\ inflight'[a].phase = "none" /\ inflight'[a].turn = "none"
           /\ journal'[a] = [state |-> state, key |-> journal[a].key]
           /\ \A b \in Attempts : b # a => inflight'[b] = inflight[b] /\ journal'[b] = journal[b]
           /\ op'.kind = op.kind /\ op'.rest = Tail(op.rest)
           /\ mode' = mode
  <1>1. op \in [kind : OpKinds, rest : Seq(Attempts)]
    BY DEF TypeOK
  <1>2. journal'[a] = [state |-> state, key |-> journal[a].key]
        /\ \A b \in Attempts : b # a => journal'[b] = journal[b]
    BY DEF Conclude, Record, TypeOK
  <1> QED
    BY <1>1, <1>2, ForgetEffect, ProceedRest DEF Conclude

\* The steps of the operations under way, by what they do to an attempt: how it ends
\* for this host, and what Cog says of it meanwhile.
Ends(a) ==
    \/ Fail /\ UNCHANGED journal
    \/ /\ Conclude(a, "cog_completed") \/ Conclude(a, "cog_failed")
       /\ op.kind \in {"claim", "flush", "stop_flush"} /\ a \in Reported
    \/ Conclude(a, "observed")
    \/ Conclude(a, "released") /\ inflight[a].phase = "awaiting"
    \/ /\ op.kind = "renew"
       /\ Proceed /\ (Forget(a) \/ UNCHANGED inflight) /\ UNCHANGED <<journal, mode>>

\* Flushing, renewing and releasing are such steps.
LEMMA EndsOf ==
    ASSUME TypeOK, RestInv, NEW a \in Attempts, Flush(a) \/ Renew(a) \/ Release(a)
    PROVE  /\ Ends(a)
           /\ a \in Inflight
           /\ op.rest # << >> /\ Head(op.rest) = a
           /\ op.kind \in {"claim", "flush", "stop_flush", "renew", "stop_release"}
           /\ UNCHANGED <<fence, lease, incarnation, hostFence, running>>
           /\ Flush(a) \/ applied' = applied
  <1>1. CASE Flush(a)
    BY <1>1 DEF Flush, At, Ends, Reported, Inflight, Results
  <1>2. CASE Renew(a)
    <2>1. op.kind = "renew" /\ op.rest # << >> /\ Head(op.rest) = a /\ a \in Inflight
      BY <1>2 DEF Renew, At
    <2>2. Ends(a)
      BY <1>2, <2>1 DEF Renew, Lose, Ends
    <2> QED
      BY <1>2, <2>1, <2>2 DEF Renew, CogStays, cogVars
  <1>3. CASE Release(a)
    <2>1. op.kind = "stop_release" /\ a \in Inflight /\ op.rest # << >> /\ Head(op.rest) = a
      BY <1>3 DEF Release, At
    <2>2. Reported = {}
      BY <2>1 DEF RestInv
    <2>3. inflight[a].phase = "awaiting"
      BY <2>1, <2>2 DEF Reported, Inflight, TypeOK, Phases
    <2>4. Ends(a)
      BY <1>3, <2>3 DEF Release, Ends
    <2> QED
      BY <1>3, <2>1, <2>4 DEF Release
  <1> QED
    BY <1>1, <1>2, <1>3

\* Such a step fails, or drops its attempt, or leaves it in flight.
Failed ==
    /\ op' = NoOp
    /\ SamePhases
    /\ \A a \in Attempts :
          inflight'[a].turn = IF inflight[a].turn = "admitted" THEN "forgotten"
                              ELSE inflight[a].turn
    /\ mode' = IF op.kind \in StopKinds THEN Stopped ELSE mode
    /\ journal' = journal

Proceeded == op'.kind = op.kind /\ op'.rest = Tail(op.rest) /\ mode' = mode

Dropped(a) ==
    /\ Proceeded
    /\ inflight'[a].phase = "none" /\ inflight'[a].turn = "none"
    /\ journal'[a].key = journal[a].key
    /\ \A b \in Attempts : b # a => inflight'[b] = inflight[b] /\ journal'[b] = journal[b]

Stayed == Proceeded /\ op.kind = "renew" /\ inflight' = inflight /\ journal' = journal

\* What the step does to the attempts in flight (the callers of observe_terminal and
\* release_local).
LEMMA EndsEffect ==
    ASSUME TypeOK, NEW a \in Attempts, Ends(a), op.rest # << >>
    PROVE  Failed \/ Dropped(a) \/ Stayed
  <1>0. op \in [kind : OpKinds, rest : Seq(Attempts)]
    BY DEF TypeOK
  <1>1. CASE Fail /\ UNCHANGED journal
    BY <1>1, FailEffect DEF Failed
  <1>2. ASSUME NEW state, Conclude(a, state)
        PROVE  Dropped(a)
    <2>1. /\ inflight'[a].phase = "none" /\ inflight'[a].turn = "none"
          /\ journal'[a] = [state |-> state, key |-> journal[a].key]
          /\ \A b \in Attempts : b # a => inflight'[b] = inflight[b] /\ journal'[b] = journal[b]
          /\ op'.kind = op.kind /\ op'.rest = Tail(op.rest) /\ mode' = mode
      BY <1>2, ConcludeEffect
    <2>2. journal'[a].key = journal[a].key
      BY <2>1
    <2> QED
      BY <2>1, <2>2 DEF Dropped, Proceeded
  <1>3. CASE Proceed /\ Forget(a) /\ UNCHANGED <<journal, mode>>
    BY <1>0, <1>3, ForgetEffect, ProceedRest DEF Dropped, Proceeded
  <1>4. CASE op.kind = "renew" /\ Proceed /\ UNCHANGED <<inflight, journal, mode>>
    BY <1>0, <1>4, ProceedRest DEF Stayed, Proceeded
  <1> QED
    BY <1>1, <1>2, <1>3, <1>4 DEF Ends

\* The steps that leave every attempt in flight and every record alone.
Quiet ==
    \/ CogMoves \/ Acquire \/ Activate \/ StartRetry \/ EndFlush \/ ContinueShutdown
    \/ ReleaseHost \/ Claim \/ StartRenewal \/ GiveUp \/ Quit \/ StartShutdown
    \/ Deactivate \/ ProcessStarts \/ UNCHANGED vars

\* What they leave alone.
LEMMA QuietEffect ==
    ASSUME Quiet
    PROVE  UNCHANGED <<applied, journal, inflight>>
  BY DEF Quiet, CogMoves, Acquire, Activate, StartRetry, EndFlush, ContinueShutdown,
         ReleaseHost, Claim, StartRenewal, GiveUp, Quit, StartShutdown, Deactivate,
         ProcessStarts, OnlyOpChanges, OnlyModeChanges, CogStays, LeaseLapses,
         OtherTakesOver, AttemptExpires, Supersede, OtherCompletes, EndOutside, cogVars, vars

\* The steps, by kind.
LEMMA StepKinds ==
    ASSUME [Next]_vars
    PROVE  \/ Quiet
           \/ Dispatch
           \/ ProcessEnds
           \/ \E a \in Attempts : Reconcile(a)
           \/ \E a \in Attempts : Admit(a)
           \/ \E a \in Attempts : Flush(a) \/ Renew(a) \/ Release(a)
           \/ \E a \in Attempts : \E outcome \in Results : RecordResult(a, outcome)
  BY DEF Next, Operate, Handle, Quiet

(***************************************************************************)
(* What Cog has ended stays ended.                                         *)
(***************************************************************************)

\* No step gives an attempt that has ended another status (external, but for the
\* reports and releases of flush_terminal and release_attempt).
LEMMA EndedStays ==
    ASSUME DeliveryInv, [Next]_vars, NEW b \in Attempts, status[b] \in Ended
    PROVE  status'[b] = status[b]
  <1>1. TypeOK /\ RestInv
    BY DEF DeliveryInv
  <1>2. CASE CogMoves
    <2>1. CASE LeaseLapses
      BY <2>1 DEF LeaseLapses
    <2>2. CASE OtherTakesOver
      BY <2>2, <1>1 DEF OtherTakesOver, Reopened, Ended
    <2>3. ASSUME NEW a \in Attempts, AttemptExpires(a) \/ Supersede(a) \/ OtherCompletes(a)
          PROVE  status'[b] = status[b]
      BY <2>3, <1>1 DEF AttemptExpires, Supersede, OtherCompletes, EndOutside, Ended, TypeOK
    <2> QED
      BY <1>2, <2>1, <2>2, <2>3 DEF CogMoves
  <1>3. CASE Acquire
    BY <1>3, <1>1 DEF Acquire, Reopened, Ended
  <1>4. CASE Claim
    <2>1. PICK T \in SUBSET Claimable :
            status' = [a \in Attempts |-> IF a \in T THEN "claimed" ELSE status[a]]
      BY <1>4 DEF Claim
    <2>2. b \notin T
      BY DEF Claimable, Ended
    <2> QED
      BY <2>1, <2>2
  <1>5. ASSUME NEW a \in Attempts, Flush(a)
        PROVE  status'[b] = status[b]
    <2>1. CASE status' = status
      BY <2>1
    <2>2. CASE /\ "ok" \in FlushAnswers(a)
               /\ status' = [status EXCEPT ![a] = IF inflight[a].phase = "succeeded"
                                                  THEN "completed" ELSE "failed"]
      <3>1. CASE b # a
        BY <1>1, <2>2, <3>1 DEF TypeOK
      <3>2. CASE b = a
        <4>1. "ok" \notin Answers(a)
          BY <3>2 DEF Answers
        <4>2. applied[a] = Request(a)
          BY <2>2, <4>1 DEF FlushAnswers
        <4>3. a \in Reported
          BY <1>5 DEF Flush
        <4>4. applied[a] # NoRequest
          BY <4>2, <4>3 DEF Request, NoRequest, Reported, Results
        <4>5. status[a] = EndOf(inflight[a].phase)
          BY <4>2, <4>4 DEF Request, DeliveryInv, AppliedInv
        <4> QED
          BY <1>1, <2>2, <3>2, <4>5 DEF EndOf, TypeOK
      <3> QED
        BY <3>1, <3>2
    <2> QED
      BY <1>5, <2>1, <2>2 DEF Flush
  <1>6. ASSUME NEW a \in Attempts, Release(a)
        PROVE  status'[b] = status[b]
    <2>1. CASE status' = status
      BY <2>1
    <2>2. CASE "ok" \in Answers(a) /\ status' = [status EXCEPT ![a] = "open"]
      <3>1. b # a
        BY <2>2 DEF Answers
      <3> QED
        BY <1>1, <2>2, <3>1 DEF TypeOK
    <2> QED
      BY <1>6, <2>1, <2>2 DEF Release
  <1>7. ASSUME NEW a \in Attempts, Reconcile(a) \/ Admit(a) \/ Renew(a)
        PROVE  status'[b] = status[b]
    BY <1>7 DEF Reconcile, Admit, Renew, CogStays, cogVars
  <1>8. ASSUME NEW a \in Attempts, NEW outcome \in Results, RecordResult(a, outcome)
        PROVE  status'[b] = status[b]
    BY <1>8 DEF RecordResult, CogStays, cogVars
  <1>9. CASE \/ Activate \/ StartRetry \/ EndFlush \/ ContinueShutdown \/ ReleaseHost
             \/ StartRenewal \/ GiveUp \/ Quit \/ StartShutdown \/ Deactivate
             \/ ProcessStarts \/ ProcessEnds \/ Dispatch \/ UNCHANGED vars
    BY <1>9 DEF Activate, StartRetry, EndFlush, ContinueShutdown, ReleaseHost, StartRenewal,
                GiveUp, Quit, StartShutdown, Deactivate, ProcessStarts, ProcessEnds, Dispatch,
                OnlyOpChanges, OnlyModeChanges, CogStays, cogVars, vars
  <1> QED
    BY <1>2, <1>3, <1>4, <1>5, <1>6, <1>7, <1>8, <1>9 DEF Next, Operate, Handle

(***************************************************************************)
(* The parts of the invariant, one by one.                                 *)
(***************************************************************************)

\* Operations keep to their modes (cog_runtime.rs: activate, run_active, shutdown).
LEMMA ModeStep ==
    ASSUME DeliveryInv, [Next]_vars
    PROVE  ModeInv'
  <1>0. /\ TypeOK /\ ModeInv /\ RestInv
        /\ op.kind \in OpKinds
        /\ NoOp.kind = "none"
    BY DEF DeliveryInv, TypeOK, NoOp
  <1> USE DEF StopKinds
  <1>1. CASE Quiet
    <2>1. Inflight' = Inflight
      BY <1>1, QuietEffect DEF Inflight
    <2>2. CASE CogMoves \/ Acquire \/ Activate \/ StartRetry \/ EndFlush \/ Claim \/ StartRenewal
      BY <1>0, <2>1, <2>2
         DEF CogMoves, Acquire, Activate, StartRetry, EndFlush, Claim, StartRenewal,
             OnlyOpChanges, supervisorVars, ModeInv, Done
    <2>3. CASE ContinueShutdown \/ ReleaseHost \/ StartShutdown \/ GiveUp \/ Quit \/ Deactivate
      BY <1>0, <2>1, <2>3
         DEF ContinueShutdown, ReleaseHost, StartShutdown, GiveUp, Quit, Deactivate, Stopped,
             OnlyOpChanges, OnlyModeChanges, supervisorVars, ModeInv, Done
    <2>4. CASE ProcessStarts
      BY <1>0, <2>1, <2>4 DEF ProcessStarts, ModeInv
    <2>5. CASE UNCHANGED vars
      BY <1>0, <2>1, <2>5 DEF vars, supervisorVars, ModeInv
    <2> QED
      BY <1>1, <2>2, <2>3, <2>4, <2>5 DEF Quiet
  <1>2. CASE Dispatch
    <2>1. inflight \in [Attempts -> InflightType]
      BY <1>0 DEF TypeOK, InflightType
    <2>2. Inflight' = Inflight
      BY <1>2, <2>1, RetoldFields DEF Inflight, Dispatch, Turns
    <2> QED
      BY <1>0, <1>2, <2>2 DEF Dispatch, supervisorVars, ModeInv
  <1>3. CASE ProcessEnds
    <2>1. Inflight' = {}
      BY <1>3 DEF ProcessEnds, Inflight, NotInflight
    <2> QED
      BY <1>0, <1>3, <2>1 DEF ProcessEnds, ModeInv
  <1>4. ASSUME NEW a \in Attempts, Reconcile(a)
        PROVE  ModeInv'
    <2>1. op.kind = "reconcile" /\ op.rest # << >>
      BY <1>4 DEF Reconcile, At
    <2>2. CASE Unanswered
      <3>1. op' = NoOp /\ SamePhases /\ mode' = mode
        BY <1>0, <2>1, <2>2, FailEffect DEF Unanswered
      <3>2. Inflight' = Inflight
        BY <3>1 DEF SamePhases, Inflight
      <3> QED
        BY <1>0, <3>1, <3>2 DEF ModeInv
    <2>3. CASE Proceed /\ UNCHANGED <<mode, hostFence, incarnation, inflight>>
      <3>1. Inflight' = Inflight
        BY <2>3 DEF Inflight
      <3>2. op'.kind = op.kind
        BY <1>0, <2>1, <2>3, ProceedRest DEF TypeOK
      <3> QED
        BY <1>0, <2>1, <2>3, <3>1, <3>2 DEF ModeInv
    <2> QED
      BY <1>4, <2>2, <2>3 DEF Reconcile
  <1>5. ASSUME NEW a \in Attempts, Admit(a)
        PROVE  ModeInv'
    <2>1. op.kind = "claim" /\ op.rest # << >> /\ mode' = mode /\ (Proceed \/ op' = op)
      BY <1>5 DEF Admit, At, supervisorVars
    <2>2. op'.kind = op.kind
      BY <1>0, <2>1, ProceedRest DEF TypeOK
    <2> QED
      BY <1>0, <2>1, <2>2 DEF ModeInv
  <1>6. ASSUME NEW a \in Attempts, Flush(a) \/ Renew(a) \/ Release(a)
        PROVE  ModeInv'
    <2>1. Failed \/ Dropped(a) \/ Stayed
      BY <1>0, <1>6, EndsOf, EndsEffect
    <2>2. Inflight' \subseteq Inflight
      BY <2>1 DEF Failed, SamePhases, Dropped, Stayed, Inflight
    <2>3. \/ op'.kind = "none" /\ mode' = IF op.kind \in StopKinds THEN Stopped ELSE mode
          \/ op'.kind = op.kind /\ mode' = mode
      BY <1>0, <2>1 DEF Failed, Dropped, Stayed, Proceeded
    <2> QED
      BY <1>0, <2>2, <2>3 DEF ModeInv, Stopped
  <1>7. ASSUME NEW a \in Attempts, NEW outcome \in Results, RecordResult(a, outcome)
        PROVE  ModeInv'
    <2>1. mode' = mode /\ mode \in {"active", "stopping", "quitting"}
      BY <1>7 DEF RecordResult, Receiving, supervisorVars
    <2>2. CASE inflight[a].phase = "awaiting"
      <3>1. a \in Inflight
        BY <2>2 DEF Inflight
      <3>2. mode \in {"active", "quitting"}
        BY <1>0, <2>1, <3>1 DEF ModeInv
      <3>3. op'.kind = "flush"
        BY <1>7, <2>2 DEF RecordResult
      <3> QED
        BY <2>1, <3>2, <3>3 DEF ModeInv
    <2>3. CASE inflight[a].phase # "awaiting"
      <3>1. inflight' = inflight /\ op' = op
        BY <1>7, <2>3 DEF RecordResult
      <3>2. Inflight' = Inflight
        BY <3>1 DEF Inflight
      <3> QED
        BY <1>0, <2>1, <3>1, <3>2 DEF ModeInv
    <2> QED
      BY <2>2, <2>3
  <1> QED
    BY <1>1, <1>2, <1>3, <1>4, <1>5, <1>6, <1>7, StepKinds

\* A dispatch is admitted, then a turn, or forgotten (claim_available, dispatch_batch).
LEMMA TurnStep ==
    ASSUME DeliveryInv, [Next]_vars
    PROVE  TurnInv'
  <1>0. /\ TypeOK /\ TurnInv /\ RestInv /\ ModeInv
        /\ inflight \in [Attempts -> InflightType]
        /\ running \in [Attempts -> Nat]
        /\ NoOp.kind = "none"
    BY DEF DeliveryInv, TypeOK, NoOp, InflightType
  <1>1. CASE Quiet
    <2>1. inflight' = inflight
      BY <1>1, QuietEffect
    <2>2. CASE Deactivate
      <3>1. Inflight = {}
        BY <1>0, <2>2 DEF Deactivate, ModeInv
      <3>2. \A a \in Attempts : inflight[a].phase = "none"
        BY <3>1 DEF Inflight
      <3> QED
        BY <1>0, <2>1, <3>2 DEF TurnInv
    <2>3. CASE ~ Deactivate
      <3>1. running' = running
        BY <1>1, <2>3 DEF Quiet, CogMoves, Acquire, Activate, StartRetry, EndFlush,
              ContinueShutdown, ReleaseHost, Claim, StartRenewal, GiveUp, Quit, StartShutdown,
              ProcessStarts, OnlyOpChanges, OnlyModeChanges, vars
      <3>2. op' = op \/ op.kind # "claim"
        BY <1>0, <1>1, <2>3 DEF Quiet, CogMoves, Acquire, Activate, StartRetry, EndFlush,
              ContinueShutdown, ReleaseHost, Claim, StartRenewal, GiveUp, Quit, StartShutdown,
              ProcessStarts, OnlyOpChanges, OnlyModeChanges, vars, Done
      <3> QED
        BY <1>0, <2>1, <3>1, <3>2 DEF TurnInv
    <2> QED
      BY <2>2, <2>3
  <1>2. CASE Dispatch
    <2>1. \A a \in Attempts :
             /\ inflight'[a].phase = inflight[a].phase
             /\ inflight'[a].turn = IF inflight[a].turn = "admitted" THEN "none"
                                    ELSE inflight[a].turn
      BY <1>0, <1>2, RetoldFields DEF Dispatch, Turns
    <2>2. \A a \in Attempts :
             running'[a] = IF inflight[a].turn = "admitted" THEN running[a] + 1 ELSE running[a]
      BY <1>0, <1>2 DEF Dispatch, Admitted
    <2> QED
      BY <1>0, <2>1, <2>2 DEF TurnInv
  <1>3. CASE ProcessEnds
    BY <1>3 DEF ProcessEnds, TurnInv, NotInflight
  <1>4. ASSUME NEW a \in Attempts, Reconcile(a)
        PROVE  TurnInv'
    <2>1. op.kind = "reconcile" /\ running' = running /\ (Fail \/ inflight' = inflight)
      BY <1>4 DEF Reconcile, At, Unanswered
    <2>2. CASE Fail
      BY <1>0, <2>1, <2>2, FailEffect DEF SamePhases, TurnInv
    <2>3. CASE inflight' = inflight
      BY <1>0, <2>1, <2>3 DEF TurnInv
    <2> QED
      BY <2>1, <2>2, <2>3
  <1>5. ASSUME NEW a \in Attempts, Admit(a)
        PROVE  TurnInv'
    <2>1. op.kind = "claim" /\ op.rest # << >> /\ running' = running /\ (Proceed \/ op' = op)
      BY <1>5 DEF Admit, At
    <2>2. op'.kind = "claim"
      BY <1>0, <2>1, ProceedRest DEF TypeOK
    <2>3. \A b \in Attempts : b # a => inflight'[b] = inflight[b]
      BY <1>0, <1>5 DEF Admit
    <2>4. \/ inflight'[a] = inflight[a]
          \/ inflight'[a].phase = "awaiting" /\ inflight'[a].turn = "admitted"
          \/ inflight'[a].phase \in Results /\ inflight'[a].turn = "none"
      BY <1>0, <1>5 DEF Admit, Redispatchable
    <2> QED
      BY <1>0, <2>1, <2>2, <2>3, <2>4 DEF TurnInv, Results
  <1>6. ASSUME NEW a \in Attempts, Flush(a) \/ Renew(a) \/ Release(a)
        PROVE  TurnInv'
    <2>1. running' = running /\ (Failed \/ Dropped(a) \/ Stayed)
      BY <1>0, <1>6, EndsOf, EndsEffect
    <2>2. CASE Failed
      BY <1>0, <2>1, <2>2 DEF Failed, SamePhases, TurnInv
    <2>3. CASE Dropped(a)
      BY <1>0, <2>1, <2>3 DEF Dropped, Proceeded, TurnInv
    <2>4. CASE Stayed
      BY <1>0, <2>1, <2>4 DEF Stayed, Proceeded, TurnInv
    <2> QED
      BY <2>1, <2>2, <2>3, <2>4
  <1>7. ASSUME NEW a \in Attempts, NEW outcome \in Results, RecordResult(a, outcome)
        PROVE  TurnInv'
    <2>1. op.kind = "none"
      BY <1>0, <1>7 DEF RecordResult
    <2>2. \A b \in Attempts : inflight[b].turn # "admitted"
      BY <1>0, <2>1 DEF TurnInv
    <2>3. \A b \in Attempts : b # a => running'[b] = running[b]
      BY <1>0, <1>7 DEF RecordResult
    <2>4. \A b \in Attempts : b # a => inflight'[b] = inflight[b]
      BY <1>0, <1>7 DEF RecordResult
    <2>5. \/ inflight'[a] = inflight[a] /\ inflight[a].phase # "awaiting"
          \/ inflight'[a].phase = outcome /\ inflight'[a].turn = "none"
      BY <1>0, <1>7 DEF RecordResult, InflightType
    <2> QED
      BY <1>0, <2>2, <2>3, <2>4, <2>5 DEF TurnInv, Results
  <1> QED
    BY <1>1, <1>2, <1>3, <1>4, <1>5, <1>6, <1>7, StepKinds

\* A report that Cog carries out is one it accepted now or carried out before
\* (flush_terminal).
LEMMA AppliedStep ==
    ASSUME DeliveryInv, [Next]_vars
    PROVE  AppliedInv'
  <1>0. TypeOK /\ AppliedInv /\ RestInv
    BY DEF DeliveryInv
  <1>1. \A b \in Attempts : status[b] \in Ended => status'[b] = status[b]
    BY EndedStays
  <1>2. CASE applied' = applied
    BY <1>0, <1>1, <1>2 DEF AppliedInv, EndOf, Ended
  <1>3. ASSUME NEW a \in Attempts, Flush(a), applied' # applied
        PROVE  AppliedInv'
    <2>1. /\ status' = [status EXCEPT ![a] = IF inflight[a].phase = "succeeded"
                                             THEN "completed" ELSE "failed"]
          /\ applied' = [applied EXCEPT ![a] = Request(a)]
          /\ a \in Reported
      BY <1>3 DEF Flush
    <2>2. applied'[a].kind = inflight[a].phase /\ inflight[a].phase \in Results
      BY <1>0, <2>1 DEF Request, Reported, TypeOK
    <2>3. status'[a] = EndOf(inflight[a].phase)
      BY <1>0, <2>1 DEF EndOf, TypeOK
    <2>4. \A b \in Attempts : b # a => applied'[b] = applied[b] /\ status'[b] = status[b]
      BY <1>0, <2>1 DEF TypeOK
    <2> QED
      BY <1>0, <2>2, <2>3, <2>4 DEF AppliedInv
  <1>4. \/ applied' = applied
        \/ \E a \in Attempts : Flush(a)
    <2>1. CASE Quiet
      BY <2>1, QuietEffect
    <2>2. ASSUME NEW a \in Attempts, Flush(a) \/ Renew(a) \/ Release(a)
          PROVE  Flush(a) \/ applied' = applied
      BY <1>0, <2>2, EndsOf
    <2>3. CASE \/ Dispatch \/ ProcessEnds
               \/ \E a \in Attempts : Reconcile(a) \/ Admit(a)
               \/ \E a \in Attempts : \E outcome \in Results : RecordResult(a, outcome)
      BY <2>3 DEF Dispatch, ProcessEnds, Reconcile, Admit, RecordResult, CogStays, cogVars
    <2> QED
      BY <2>1, <2>2, <2>3, StepKinds
  <1> QED
    BY <1>2, <1>3, <1>4

\* Every report is made before a shutdown releases, and the journal is reconciled one
\* attempt at a time (shutdown, reconcile_journal_terminals).
LEMMA RestStep ==
    ASSUME DeliveryInv, [Next]_vars
    PROVE  RestInv'
  <1>0. /\ TypeOK /\ RestInv /\ ModeInv
        /\ op \in [kind : OpKinds, rest : Seq(Attempts)]
        /\ NoOp.kind = "none"
    BY DEF DeliveryInv, TypeOK, NoOp
  <1>1. CASE Quiet
    <2>1. inflight' = inflight /\ journal' = journal /\ Reported' = Reported
      BY <1>1, QuietEffect DEF Reported
    <2>2. CASE Acquire
      <3>1. CASE op' = op
        BY <1>0, <2>1, <3>1 DEF RestInv
      <3>2. CASE op' = [kind |-> "reconcile", rest |-> InOrder(Unsettled)]
        <4>1. Unsettled \in SUBSET Attempts
          BY DEF Unsettled
        <4>2. ToSet(op'.rest) = Unsettled /\ Distinct(op'.rest) /\ op'.kind = "reconcile"
          BY <3>2, <4>1, InOrderMembers
        <4>3. \A a \in ToSet(op'.rest) : journal'[a].state \notin LocallyTerminal \cup {"none"}
          BY <2>1, <4>2 DEF Unsettled
        <4> QED
          BY <4>2, <4>3 DEF RestInv
      <3> QED
        BY <2>2, <3>1, <3>2 DEF Acquire
    <2>3. CASE StartShutdown
      <3>1. CASE op' = op
        BY <1>0, <2>1, <3>1 DEF RestInv
      <3>2. CASE op' = [kind |-> "stop_flush", rest |-> InOrder(Reported)]
        <4>1. Reported \in SUBSET Attempts
          BY DEF Reported
        <4>2. ToSet(op'.rest) = Reported /\ op'.kind = "stop_flush"
          BY <3>2, <4>1, InOrderMembers
        <4> QED
          BY <2>1, <4>2 DEF RestInv
      <3> QED
        BY <2>3, <3>1, <3>2 DEF StartShutdown
    <2>4. CASE ContinueShutdown
      <3>1. CASE Done("stop_flush") /\ op' = [kind |-> "stop_release", rest |-> InOrder(Inflight)]
        <4>1. ToSet(op.rest) = {}
          BY <3>1 DEF Done, ToSet
        <4>2. Reported = {}
          BY <1>0, <3>1, <4>1 DEF Done, RestInv
        <4>3. op'.kind = "stop_release"
          BY <3>1
        <4> QED
          BY <2>1, <4>2, <4>3 DEF RestInv
      <3>2. CASE op' = [kind |-> "stop_host", rest |-> << >>]
        BY <3>2 DEF RestInv
      <3> QED
        BY <2>4, <3>1, <3>2 DEF ContinueShutdown
    <2>5. CASE ~ (Acquire \/ StartShutdown \/ ContinueShutdown)
      <3>1. op' = op \/ op'.kind \in {"none", "flush", "claim", "renew"}
        BY <1>0, <1>1, <2>5 DEF Quiet, CogMoves, Activate, StartRetry, EndFlush, ReleaseHost,
              Claim, StartRenewal, GiveUp, Quit, Deactivate, ProcessStarts, OnlyOpChanges,
              OnlyModeChanges, vars
      <3> QED
        BY <1>0, <2>1, <3>1 DEF RestInv
    <2> QED
      BY <2>2, <2>3, <2>4, <2>5
  <1>2. CASE Dispatch \/ ProcessEnds
    BY <1>0, <1>2 DEF Dispatch, ProcessEnds, RestInv
  <1>3. ASSUME NEW a \in Attempts, Reconcile(a)
        PROVE  RestInv'
    <2>1. op.kind = "reconcile" /\ op.rest # << >> /\ Head(op.rest) = a
      BY <1>3 DEF Reconcile, At
    <2>2. CASE Fail
      <3>1. op'.kind = "none"
        BY <1>0, <2>2, FailEffect
      <3> QED
        BY <3>1 DEF RestInv
    <2>3. CASE Record(a, Verdict(a), journal[a].key) /\ Proceed
      <3>1. op'.kind = "reconcile" /\ op'.rest = Tail(op.rest)
        BY <1>0, <2>1, <2>3, ProceedRest
      <3>2. /\ Distinct(op'.rest) /\ a \notin ToSet(op'.rest)
            /\ ToSet(op'.rest) \subseteq ToSet(op.rest)
            /\ ToSet(op.rest) \subseteq Attempts
        <4>1. op.rest \in Seq(Attempts) /\ Distinct(op.rest)
          BY <1>0, <2>1 DEF RestInv
        <4>2. ToSet(op.rest) \subseteq Attempts
          BY <4>1 DEF ToSet
        <4> QED
          BY <2>1, <3>1, <4>1, <4>2, TailElements
      <3>3. \A b \in Attempts : b # a => journal'[b] = journal[b]
        BY <1>0, <2>3 DEF Record, TypeOK
      <3>4. \A b \in ToSet(op'.rest) : journal'[b].state \notin LocallyTerminal \cup {"none"}
        BY <1>0, <2>1, <3>2, <3>3 DEF RestInv
      <3> QED
        BY <3>1, <3>2, <3>4 DEF RestInv
    <2> QED
      BY <1>3, <2>2, <2>3 DEF Reconcile, Unanswered
  <1>4. ASSUME NEW a \in Attempts, Admit(a)
        PROVE  RestInv'
    <2>1. op.kind = "claim" /\ op.rest # << >> /\ (Proceed \/ op' = op)
      BY <1>4 DEF Admit, At
    <2>2. op'.kind = "claim"
      BY <1>0, <2>1, ProceedRest
    <2> QED
      BY <2>2 DEF RestInv
  <1>5. ASSUME NEW a \in Attempts, Flush(a) \/ Renew(a) \/ Release(a)
        PROVE  RestInv'
    <2>1. /\ Failed \/ Dropped(a) \/ Stayed
          /\ a \in Inflight
          /\ op.rest # << >> /\ Head(op.rest) = a
          /\ op.kind \in {"claim", "flush", "stop_flush", "renew", "stop_release"}
      BY <1>0, <1>5, EndsOf, EndsEffect
    <2>2. CASE Failed
      <3>1. op'.kind = "none"
        BY <1>0, <2>2 DEF Failed
      <3> QED
        BY <3>1 DEF RestInv
    <2>3. CASE Dropped(a)
      <3>1. op'.kind = op.kind /\ op'.rest = Tail(op.rest)
        BY <2>3 DEF Dropped, Proceeded
      <3>2. Reported' \subseteq Reported \ {a}
        BY <2>3 DEF Dropped, Reported, Results
      <3>3. ToSet(op.rest) = ToSet(op'.rest) \cup {a}
        BY <1>0, <2>1, <3>1, TailElements
      <3> QED
        BY <1>0, <2>1, <3>1, <3>2, <3>3 DEF RestInv
    <2>4. CASE Stayed
      <3>1. op.kind = "renew"
        BY <2>4 DEF Stayed
      <3> QED
        BY <2>4, <3>1 DEF Stayed, Proceeded, RestInv
    <2> QED
      BY <2>1, <2>2, <2>3, <2>4
  <1>6. ASSUME NEW a \in Attempts, NEW outcome \in Results, RecordResult(a, outcome)
        PROVE  RestInv'
    <2>1. op'.kind \in {"none", "flush"}
      BY <1>0, <1>6 DEF RecordResult
    <2> QED
      BY <2>1 DEF RestInv
  <1> QED
    BY <1>1, <1>2, <1>3, <1>4, <1>5, <1>6, StepKinds

\* What the coordinator holds of an attempt in flight is what its journal says
\* (admit_claimed_attempt, record_provider_result, renew_attempts).
LEMMA JournaledStep ==
    ASSUME DeliveryInv, [Next]_vars
    PROVE  InflightIsJournaled'
  <1>0. /\ TypeOK /\ ModeInv /\ RestInv /\ InflightIsJournaled
        /\ inflight \in [Attempts -> InflightType]
        /\ journal \in [Attempts -> [state : JournalStates, key : Nat]]
    BY DEF DeliveryInv, TypeOK, InflightType
  <1> DEFINE Agree(b) ==
          /\ journal[b].key = inflight[b].key
          /\ journal[b].state =
                IF inflight[b].phase = "awaiting" THEN "started" ELSE inflight[b].phase
  <1>a. \A b \in Attempts : inflight[b].phase # "none" => Agree(b)
    BY <1>0 DEF InflightIsJournaled, Inflight
  <1>b. (\A b \in Attempts : inflight'[b].phase # "none" => Agree(b)') => InflightIsJournaled'
    BY DEF InflightIsJournaled, Inflight
  <1>1. CASE Quiet
    <2>1. inflight' = inflight /\ journal' = journal
      BY <1>1, QuietEffect
    <2> QED
      BY <1>a, <1>b, <2>1
  <1>2. CASE Dispatch
    <2>1. /\ \A b \in Attempts : /\ inflight'[b].phase = inflight[b].phase
                                 /\ inflight'[b].key = inflight[b].key
          /\ journal' = journal
      BY <1>0, <1>2, RetoldFields DEF Dispatch, Turns
    <2> QED
      BY <1>a, <1>b, <2>1
  <1>3. CASE ProcessEnds
    <2>1. \A b \in Attempts : inflight'[b].phase = "none"
      BY <1>3 DEF ProcessEnds, NotInflight
    <2> QED
      BY <1>b, <2>1
  <1>4. ASSUME NEW a \in Attempts, Reconcile(a)
        PROVE  InflightIsJournaled'
    <2>1. Inflight = {}
      BY <1>0, <1>4 DEF Reconcile, At, ModeInv
    <2>2. SamePhases
      <3>1. Fail \/ inflight' = inflight
        BY <1>4 DEF Reconcile, Unanswered
      <3> QED
        BY <1>0, <3>1, FailEffect DEF SamePhases
    <2>3. \A b \in Attempts : inflight'[b].phase = "none"
      BY <2>1, <2>2 DEF SamePhases, Inflight
    <2> QED
      BY <1>b, <2>3
  <1>5. ASSUME NEW a \in Attempts, Admit(a)
        PROVE  InflightIsJournaled'
    <2>1. inflight[a].phase = "none"
      BY <1>5 DEF Admit
    <2>2. \A b \in Attempts : b # a => inflight'[b] = inflight[b] /\ journal'[b] = journal[b]
      BY <1>0, <1>5 DEF Admit, Record
    <2>3. CASE journal[a].state \in LocallyTerminal
      BY <1>5, <1>a, <1>b, <2>3 DEF Admit
    <2>4. CASE journal[a].state \notin LocallyTerminal /\ Redispatchable(a)
      <3>1. /\ journal'[a] = [state |-> "started", key |-> fence[a]]
            /\ inflight'[a] = [phase |-> "awaiting", fence |-> fence[a], key |-> fence[a],
                               turn |-> "admitted"]
        BY <1>0, <1>5, <2>4 DEF Admit, Record
      <3> QED
        BY <1>a, <1>b, <2>2, <3>1
    <2>5. CASE journal[a].state \notin LocallyTerminal /\ ~ Redispatchable(a)
      <3>1. /\ journal' = journal
            /\ inflight'[a] = [phase |-> journal[a].state, fence |-> fence[a],
                               key |-> journal[a].key, turn |-> "none"]
            /\ journal[a].state \in Results
        BY <1>0, <1>5, <2>5 DEF Admit, Redispatchable
      <3> QED
        BY <1>a, <1>b, <2>2, <3>1 DEF Results
    <2> QED
      BY <2>3, <2>4, <2>5
  <1>6. ASSUME NEW a \in Attempts, Flush(a) \/ Renew(a) \/ Release(a)
        PROVE  InflightIsJournaled'
    <2>1. Failed \/ Dropped(a) \/ Stayed
      BY <1>0, <1>6, EndsOf, EndsEffect
    <2>2. CASE Failed
      BY <1>a, <1>b, <2>2 DEF Failed, SamePhases
    <2>3. CASE Dropped(a)
      BY <1>a, <1>b, <2>3 DEF Dropped
    <2>4. CASE Stayed
      BY <1>a, <1>b, <2>4 DEF Stayed
    <2> QED
      BY <2>1, <2>2, <2>3, <2>4
  <1>7. ASSUME NEW a \in Attempts, NEW outcome \in Results, RecordResult(a, outcome)
        PROVE  InflightIsJournaled'
    <2>1. CASE inflight[a].phase # "awaiting"
      BY <1>7, <1>a, <1>b, <2>1 DEF RecordResult
    <2>2. CASE inflight[a].phase = "awaiting"
      <3>1. \A b \in Attempts : b # a => inflight'[b] = inflight[b] /\ journal'[b] = journal[b]
        BY <1>0, <1>7 DEF RecordResult, Recorded, Record
      <3>2. journal'[a] = [state |-> outcome, key |-> inflight[a].key]
        BY <1>0, <1>7, <2>2 DEF RecordResult, Recorded, Record
      <3>3. inflight'[a].phase = outcome /\ inflight'[a].key = inflight[a].key
        BY <1>0, <1>7, <2>2 DEF RecordResult, InflightType
      <3> QED
        BY <1>a, <1>b, <3>1, <3>2, <3>3 DEF Results
    <2> QED
      BY <2>1, <2>2
  <1> QED
    BY <1>1, <1>2, <1>3, <1>4, <1>5, <1>6, <1>7, StepKinds

\* Whatever Cog was told stays on record (record_provider_result, flush_terminal).
LEMMA OnRecordStep ==
    ASSUME DeliveryInv, [Next]_vars
    PROVE  AppliedIsOnRecord'
  <1>0. /\ TypeOK /\ RestInv /\ InflightIsJournaled /\ AppliedIsOnRecord /\ AppliedInv
        /\ inflight \in [Attempts -> InflightType]
        /\ journal \in [Attempts -> [state : JournalStates, key : Nat]]
        /\ applied \in [Attempts -> [kind : {"none"} \cup Results, key : Nat]]
    BY DEF DeliveryInv, TypeOK, InflightType
  <1> DEFINE OnRecord(b) ==
          /\ journal[b].key = applied[b].key
          /\ journal[b].state \in
                {applied[b].kind, "observed",
                 IF applied[b].kind = "succeeded" THEN "cog_completed" ELSE "cog_failed"}
  <1>a. \A b \in Attempts : applied[b] # NoRequest =>
            OnRecord(b) /\ applied[b].kind \in Results /\ journal[b].state \in Settled
    BY <1>0 DEF AppliedIsOnRecord, AppliedInv, Settled, LocallyTerminal
  <1>b. (\A b \in Attempts : applied'[b] # NoRequest => OnRecord(b)') => AppliedIsOnRecord'
    BY DEF AppliedIsOnRecord
  <1>c. \A b \in Attempts : inflight[b].phase = "awaiting" => applied[b] = NoRequest
    <2>1. \A b \in Attempts : inflight[b].phase = "awaiting" => journal[b].state = "started"
      BY <1>0 DEF InflightIsJournaled, Inflight
    <2>2. "started" \notin Settled
      BY DEF Settled, Results, LocallyTerminal
    <2> QED
      BY <1>a, <2>1, <2>2
  <1>1. CASE applied' = applied /\ journal' = journal
    BY <1>1, <1>a, <1>b
  <1>2. CASE Quiet \/ Dispatch \/ ProcessEnds
    <2>1. applied' = applied /\ journal' = journal
      BY <1>2, QuietEffect DEF Dispatch, ProcessEnds, CogStays, cogVars
    <2> QED
      BY <1>1, <2>1
  <1>3. ASSUME NEW a \in Attempts, Reconcile(a)
        PROVE  AppliedIsOnRecord'
    <2>1. applied' = applied
      BY <1>3 DEF Reconcile, CogStays, cogVars
    <2>2. CASE journal' = journal
      BY <1>1, <2>1, <2>2
    <2>3. CASE Record(a, Verdict(a), journal[a].key)
      <3>1. journal'[a] = [state |-> Verdict(a), key |-> journal[a].key]
        BY <1>0, <2>3 DEF Record
      <3>2. \A b \in Attempts : b # a => journal'[b] = journal[b]
        BY <1>0, <2>3 DEF Record
      <3>3. \/ Verdict(a) \in {journal[a].state, "observed"}
            \/ journal[a].state = "succeeded" /\ Verdict(a) = "cog_completed"
            \/ journal[a].state = "failed" /\ Verdict(a) = "cog_failed"
        BY DEF Verdict
      <3>4. applied[a] # NoRequest => OnRecord(a)'
        BY <1>a, <2>1, <3>1, <3>3 DEF Results
      <3> QED
        BY <1>a, <1>b, <2>1, <3>2, <3>4
    <2> QED
      BY <1>3, <2>2, <2>3 DEF Reconcile, Unanswered
  <1>4. ASSUME NEW a \in Attempts, Admit(a)
        PROVE  AppliedIsOnRecord'
    <2>1. applied' = applied
      BY <1>4 DEF Admit, CogStays, cogVars
    <2>2. CASE journal[a].state \notin Settled
      <3>1. applied[a] = NoRequest
        BY <1>a, <2>2
      <3>2. \A b \in Attempts : b # a => journal'[b] = journal[b]
        BY <1>0, <1>4 DEF Admit, Record
      <3> QED
        BY <1>a, <1>b, <2>1, <3>1, <3>2
    <2>3. CASE journal[a].state \in Settled
      <3>1. journal' = journal
        BY <1>4, <2>3 DEF Admit, Redispatchable, Settled
      <3> QED
        BY <1>1, <2>1, <3>1
    <2> QED
      BY <2>2, <2>3
  <1>5. ASSUME NEW a \in Attempts, Flush(a)
        PROVE  AppliedIsOnRecord'
    <2>1. /\ a \in Reported /\ a \in Inflight /\ op.rest # << >>
          /\ inflight[a].phase \in Results
      BY <1>5 DEF Flush, Reported, Inflight, Results, At
    <2>2. journal[a].key = inflight[a].key /\ journal[a].state = inflight[a].phase
      BY <1>0, <2>1 DEF InflightIsJournaled, Results
    <2>3. \A b \in Attempts : b # a => journal'[b] = journal[b] /\ applied'[b] = applied[b]
      BY <1>0, <1>5 DEF Flush, Conclude, Record
    <2>4. /\ journal'[a].key = journal[a].key
          /\ \/ journal'[a].state \in {journal[a].state, "observed"}
             \/ /\ applied' = [applied EXCEPT ![a] = Request(a)]
                /\ journal'[a].state = IF inflight[a].phase = "succeeded"
                                       THEN "cog_completed" ELSE "cog_failed"
      <3>1. CASE journal' = journal
        BY <3>1
      <3>2. ASSUME NEW state, Conclude(a, state)
            PROVE  journal'[a].key = journal[a].key /\ journal'[a].state = state
        <4>1. journal'[a] = [state |-> state, key |-> journal[a].key]
          BY <1>0, <2>1, <3>2, ConcludeEffect
        <4> QED
          BY <4>1
      <3> QED
        BY <1>5, <3>1, <3>2 DEF Flush
    <2>5. CASE applied' = [applied EXCEPT ![a] = Request(a)]
      <3>1. applied'[a].key = inflight[a].key /\ applied'[a].kind = inflight[a].phase
        BY <1>0, <2>5 DEF Request
      <3>2. OnRecord(a)'
        BY <2>2, <2>4, <3>1
      <3> QED
        BY <1>a, <1>b, <2>3, <3>2
    <2>6. CASE applied' = applied
      <3>1. CASE journal'[a].state \in {journal[a].state, "observed"}
        BY <1>a, <1>b, <2>3, <2>4, <2>6, <3>1
      <3>2. CASE applied' = [applied EXCEPT ![a] = Request(a)]
        BY <2>5, <3>2
      <3> QED
        BY <2>4, <3>1, <3>2
    <2> QED
      BY <1>5, <2>5, <2>6 DEF Flush
  <1>6. ASSUME NEW a \in Attempts, Renew(a) \/ Release(a)
        PROVE  AppliedIsOnRecord'
    <2>1. /\ applied' = applied /\ op.rest # << >>
          /\ Fail \/ Proceed
      BY <1>6 DEF Renew, Release, Lose, Conclude, At, CogStays, cogVars
    <2>2. CASE journal' = journal
      BY <1>1, <2>1, <2>2
    <2>3. ASSUME NEW state, Conclude(a, state),
                 state = "observed" \/ inflight[a].phase = "awaiting"
          PROVE  AppliedIsOnRecord'
      <3>1. /\ journal'[a] = [state |-> state, key |-> journal[a].key]
            /\ \A b \in Attempts : b # a => journal'[b] = journal[b]
        BY <1>0, <2>1, <2>3, ConcludeEffect
      <3> QED
        BY <1>a, <1>b, <1>c, <2>1, <2>3, <3>1
    <2>4. Ends(a)
      BY <1>0, <1>6, EndsOf
    <2>5. \/ journal' = journal
          \/ Conclude(a, "observed")
          \/ Conclude(a, "released") /\ inflight[a].phase = "awaiting"
      <3>1. CASE Renew(a)
        BY <3>1 DEF Renew, Lose
      <3>2. CASE Release(a)
        <4>1. op.kind = "stop_release"
          BY <3>2 DEF Release, At
        <4> QED
          BY <2>4, <4>1 DEF Ends
      <3> QED
        BY <1>6, <3>1, <3>2
    <2> QED
      BY <2>2, <2>3, <2>5
  <1>7. ASSUME NEW a \in Attempts, NEW outcome \in Results, RecordResult(a, outcome)
        PROVE  AppliedIsOnRecord'
    <2>1. applied' = applied
      BY <1>7 DEF RecordResult, CogStays, cogVars
    <2>2. CASE journal' = journal
      BY <1>1, <2>1, <2>2
    <2>3. CASE inflight[a].phase = "awaiting"
      <3>1. \A b \in Attempts : b # a => journal'[b] = journal[b]
        BY <1>0, <1>7, <2>3 DEF RecordResult, Recorded, Record
      <3> QED
        BY <1>a, <1>b, <1>c, <2>1, <2>3, <3>1
    <2> QED
      BY <1>7, <2>2, <2>3 DEF RecordResult
  <1> QED
    BY <1>2, <1>3, <1>4, <1>5, <1>6, <1>7, StepKinds

\* The step records of an attempt what Cog says of it by then (flush_terminal,
\* observe_terminal, reconcile_journal_terminals).
LEMMA BelievesStep ==
    ASSUME DeliveryInv, [Next]_vars
    PROVE  JournalBelievesCog'
  <1>0. /\ TypeOK /\ RestInv /\ JournalBelievesCog
        /\ journal \in [Attempts -> [state : JournalStates, key : Nat]]
        /\ status \in [Attempts -> Statuses]
    BY DEF DeliveryInv, TypeOK
  <1>a. \A b \in Attempts : status[b] \in Ended => status'[b] = status[b]
    BY EndedStays
  <1> DEFINE Believes(b) ==
          /\ journal[b].state = "cog_completed" => status[b] = "completed"
          /\ journal[b].state = "cog_failed" => status[b] = "failed"
          /\ journal[b].state = "observed" => status[b] \in Ended
  <1>b. \A b \in Attempts : journal'[b] = journal[b] => Believes(b)'
    BY <1>0, <1>a DEF JournalBelievesCog, Ended
  <1>c. (\A b \in Attempts : Believes(b)') => JournalBelievesCog'
    BY DEF JournalBelievesCog
  <1>1. CASE journal' = journal
    BY <1>1, <1>b, <1>c
  <1>2. CASE Quiet \/ Dispatch \/ ProcessEnds
    BY <1>1, <1>2, QuietEffect DEF Dispatch, ProcessEnds
  <1>3. ASSUME NEW a \in Attempts, Reconcile(a)
        PROVE  JournalBelievesCog'
    <2>1. status' = status
      BY <1>3 DEF Reconcile, CogStays, cogVars
    <2>2. CASE Record(a, Verdict(a), journal[a].key)
      <3>1. \A b \in Attempts : b # a => journal'[b] = journal[b]
        BY <1>0, <2>2 DEF Record
      <3>2. journal'[a].state = Verdict(a)
        BY <1>0, <2>2 DEF Record
      <3>3. Believes(a)
        BY <1>0 DEF JournalBelievesCog
      <3>4. Believes(a)'
        BY <2>1, <3>2, <3>3 DEF Verdict, Ended
      <3> QED
        BY <1>b, <1>c, <3>1, <3>4
    <2> QED
      BY <1>1, <1>3, <2>2 DEF Reconcile, Unanswered
  <1>4. ASSUME NEW a \in Attempts, Admit(a)
        PROVE  JournalBelievesCog'
    <2>1. CASE Record(a, "started", fence[a])
      <3>1. \A b \in Attempts : b # a => journal'[b] = journal[b]
        BY <1>0, <2>1 DEF Record
      <3>2. journal'[a].state = "started"
        BY <1>0, <2>1 DEF Record
      <3> QED
        BY <1>b, <1>c, <3>1, <3>2
    <2> QED
      BY <1>1, <1>4, <2>1 DEF Admit
  <1>5. ASSUME NEW a \in Attempts, NEW state, Conclude(a, state), op.rest # << >>,
               \/ state = "released"
               \/ state = "observed" /\ status'[a] \in Ended
               \/ state = "cog_completed" /\ status'[a] = "completed"
               \/ state = "cog_failed" /\ status'[a] = "failed"
        PROVE  JournalBelievesCog'
    <2>1. /\ journal'[a] = [state |-> state, key |-> journal[a].key]
          /\ \A b \in Attempts : b # a => journal'[b] = journal[b]
      BY <1>0, <1>5, ConcludeEffect
    <2>2. journal'[a].state = state
      BY <2>1
    <2>3. Believes(a)'
      BY <1>5, <2>2
    <2> QED
      BY <1>b, <1>c, <2>1, <2>3
  <1>6. ASSUME NEW a \in Attempts, Flush(a)
        PROVE  JournalBelievesCog'
    <2>1. op.rest # << >>
      BY <1>6 DEF Flush, At
    <2>2. CASE /\ status' = [status EXCEPT ![a] = IF inflight[a].phase = "succeeded"
                                                  THEN "completed" ELSE "failed"]
               /\ Conclude(a, IF inflight[a].phase = "succeeded"
                              THEN "cog_completed" ELSE "cog_failed")
      <3>1. status'[a] = IF inflight[a].phase = "succeeded" THEN "completed" ELSE "failed"
        BY <1>0, <2>2
      <3>2. CASE inflight[a].phase = "succeeded"
        BY <1>5, <2>1, <2>2, <3>1, <3>2
      <3>3. CASE inflight[a].phase # "succeeded"
        BY <1>5, <2>1, <2>2, <3>1, <3>3
      <3> QED
        BY <3>2, <3>3
    <2>3. CASE "terminal" \in FlushAnswers(a) /\ Conclude(a, "observed")
      <3>1. status[a] \in Ended
        BY <2>3 DEF FlushAnswers, Answers
      <3>2. status'[a] \in Ended
        BY <1>a, <3>1
      <3> QED
        BY <1>5, <2>1, <2>3, <3>2
    <2> QED
      BY <1>1, <1>6, <2>2, <2>3 DEF Flush
  <1>7. ASSUME NEW a \in Attempts, Renew(a) \/ Release(a)
        PROVE  JournalBelievesCog'
    <2>1. op.rest # << >>
      BY <1>7 DEF Renew, Release, At
    <2>2. CASE "terminal" \in Answers(a) /\ Conclude(a, "observed")
      <3>1. status[a] \in Ended
        BY <2>2 DEF Answers
      <3>2. status'[a] \in Ended
        BY <1>a, <3>1
      <3> QED
        BY <1>5, <2>1, <2>2, <3>2
    <2>3. CASE Conclude(a, "released")
      BY <1>5, <2>1, <2>3
    <2> QED
      BY <1>1, <1>7, <2>2, <2>3 DEF Renew, Release, Lose
  <1>8. ASSUME NEW a \in Attempts, NEW outcome \in Results, RecordResult(a, outcome)
        PROVE  JournalBelievesCog'
    <2>1. CASE Recorded(a, outcome)
      <3>1. \A b \in Attempts : b # a => journal'[b] = journal[b]
        BY <1>0, <2>1 DEF Recorded, Record
      <3>2. journal'[a].state = outcome
        BY <1>0, <2>1 DEF Recorded, Record
      <3>3. Believes(a)'
        BY <3>2 DEF Results
      <3> QED
        BY <1>b, <1>c, <3>1, <3>3
    <2> QED
      BY <1>1, <1>8, <2>1 DEF RecordResult
  <1> QED
    BY <1>2, <1>3, <1>4, <1>6, <1>7, <1>8, StepKinds

(***************************************************************************)
(* The theorems.                                                           *)
(***************************************************************************)

\* The invariant holds at first.
LEMMA DeliveryInit == Init => DeliveryInv
  <1> SUFFICES ASSUME Init
               PROVE  DeliveryInv
    OBVIOUS
  <1>1. TypeOK
    BY InitTypes
  <1>2. \A a \in Attempts : inflight[a].phase = "none" /\ inflight[a].turn = "none"
    BY DEF Init, NotInflight
  <1>3. Inflight = {}
    BY <1>2 DEF Inflight
  <1>4. ModeInv /\ RestInv /\ InflightIsJournaled
    BY <1>3 DEF Init, NoOp, ModeInv, RestInv, StopKinds, InflightIsJournaled
  <1>5. TurnInv
    BY <1>2 DEF TurnInv
  <1>6. AppliedInv /\ AppliedIsOnRecord /\ JournalBelievesCog
    BY DEF Init, AppliedInv, AppliedIsOnRecord, JournalBelievesCog
  <1> QED
    BY <1>1, <1>4, <1>5, <1>6 DEF DeliveryInv

\* Every step keeps it.
LEMMA DeliveryStep ==
    ASSUME DeliveryInv, [Next]_vars
    PROVE  DeliveryInv'
  <1>1. TypeOK'
    BY TypeStep DEF DeliveryInv
  <1> QED
    BY <1>1, ModeStep, TurnStep, AppliedStep, RestStep, JournaledStep, OnRecordStep,
       BelievesStep DEF DeliveryInv

\* The inductive invariant, for every specification step.
LEMMA DeliveryAlways == Spec => []DeliveryInv
  <1>1. DeliveryInv /\ [Next]_vars => DeliveryInv'
    BY DeliveryStep
  <1> QED
    BY DeliveryInit, <1>1, PTL DEF Spec

\* The journal leads: neither the coordinator's memory nor Cog is ever ahead of what a
\* crash would leave (record_provider_result, admit_claimed_attempt, flush_terminal).
THEOREM JournalAlwaysLeads == Spec => []JournalLeads
  <1>1. DeliveryInv => JournalLeads
    BY DEF DeliveryInv, JournalLeads
  <1> QED
    BY <1>1, DeliveryAlways, PTL

\* A record that calls an attempt concluded agrees with Cog (flush_terminal,
\* reconcile_journal_terminals, observe_terminal).
THEOREM JournalAlwaysBelievesCog == Spec => []JournalBelievesCog
  <1>1. DeliveryInv => JournalBelievesCog
    BY DEF DeliveryInv
  <1> QED
    BY <1>1, DeliveryAlways, PTL

\* While results are received, an attempt that awaits its provider has a turn that will
\* bring one, or its dispatch was forgotten (claim_available, dispatch_batch).
THEOREM AwaitingAlwaysHasATurn == Spec => []AwaitingHasATurn
  <1>1. ASSUME DeliveryInv
        PROVE  AwaitingHasATurn
    <2> SUFFICES ASSUME op.kind # "claim", NEW a \in Attempts, inflight[a].phase = "awaiting"
                 PROVE  inflight[a].turn = "forgotten" \/ running[a] > 0
      BY DEF AwaitingHasATurn
    <2>1. inflight[a].turn \in Turns
      BY <1>1 DEF DeliveryInv, TypeOK
    <2> QED
      BY <1>1, <2>1 DEF DeliveryInv, TurnInv, Turns
  <1> QED
    BY <1>1, DeliveryAlways, PTL

\* The record of an attempt in flight (InflightIsJournaled, by cases).
LEMMA RecordInFlight ==
    ASSUME DeliveryInv, NEW a \in Inflight
    PROVE  /\ inflight[a].phase = "awaiting" => journal[a].state = "started"
           /\ inflight[a].phase # "awaiting" =>
                 journal[a].state = inflight[a].phase /\ inflight[a].phase \in Results
  BY DEF DeliveryInv, InflightIsJournaled, TypeOK, Inflight, Phases

\* A record that a step changes may follow the one before it (validate_transition).
LEMMA AppendStep ==
    ASSUME DeliveryInv, [Next]_vars, NEW b \in Attempts, journal'[b] # journal[b]
    PROVE  journal'[b].state \in MayFollow(journal[b].state)
  <1>0. /\ TypeOK /\ RestInv
        /\ journal \in [Attempts -> [state : JournalStates, key : Nat]]
        /\ op \in [kind : OpKinds, rest : Seq(Attempts)]
    BY DEF DeliveryInv, TypeOK
  <1>1. /\ MayFollow("none") = {"started"}
        /\ MayFollow("started") = {"started", "released", "observed"} \cup Results
        /\ MayFollow("released") = {"started", "observed"}
        /\ MayFollow("succeeded") = {"cog_completed", "observed"}
        /\ MayFollow("failed") = {"cog_failed", "observed"}
    BY DEF MayFollow
  <1>2. \A a \in Attempts : \A state, key : Record(a, state, key) =>
            /\ b = a
            /\ journal'[b] = [state |-> state, key |-> key]
            /\ journal'[b].state = state
    BY <1>0 DEF Record
  <1>3. ~ Quiet /\ ~ Dispatch /\ ~ ProcessEnds
    BY QuietEffect DEF Dispatch, ProcessEnds
  <1>4. ASSUME NEW a \in Attempts, Reconcile(a)
        PROVE  journal'[b].state \in MayFollow(journal[b].state)
    <2>1. Record(a, Verdict(a), journal[a].key)
      BY <1>4 DEF Reconcile, Unanswered
    <2>2. b = a /\ journal'[b] = [state |-> Verdict(a), key |-> journal[a].key]
      BY <1>2, <2>1
    <2>3. journal[b].state # Verdict(a) /\ journal'[b].state = Verdict(a)
      BY <1>0, <2>2
    <2>4. a \in ToSet(op.rest)
      <3>1. op.rest # << >> /\ Head(op.rest) = a
        BY <1>4 DEF Reconcile, At
      <3> QED
        BY <1>0, <3>1, TailElements
    <2>5. journal[b].state \in {"started", "released", "succeeded", "failed"}
      BY <1>0, <1>4, <2>2, <2>4 DEF RestInv, Reconcile, At, JournalStates, Settled, Results
    <2>6. \/ Verdict(a) = "observed"
          \/ journal[b].state = "succeeded" /\ Verdict(a) = "cog_completed"
          \/ journal[b].state = "failed" /\ Verdict(a) = "cog_failed"
      BY <2>2, <2>3 DEF Verdict
    <2> QED
      BY <1>1, <2>3, <2>5, <2>6
  <1>5. ASSUME NEW a \in Attempts, Admit(a)
        PROVE  journal'[b].state \in MayFollow(journal[b].state)
    <2>1. Record(a, "started", fence[a]) /\ journal[a].state \notin Results \cup LocallyTerminal
      BY <1>5 DEF Admit, Redispatchable
    <2>2. b = a /\ journal'[b].state = "started"
      BY <1>2, <2>1
    <2>3. journal[b].state \in {"none", "started", "released"}
      BY <1>0, <2>1, <2>2 DEF JournalStates, Settled
    <2> QED
      BY <1>1, <2>2, <2>3
  <1>6. ASSUME NEW a \in Attempts, Flush(a) \/ Renew(a) \/ Release(a)
        PROVE  journal'[b].state \in MayFollow(journal[b].state)
    <2>1. a \in Inflight /\ Ends(a)
      BY <1>0, <1>6, EndsOf
    <2>2. /\ inflight[a].phase = "awaiting" => journal[a].state = "started"
          /\ inflight[a].phase # "awaiting" =>
                journal[a].state = inflight[a].phase /\ inflight[a].phase \in Results
      BY <2>1, RecordInFlight
    <2>3. \A state : Conclude(a, state) => b = a /\ journal'[b].state = state
      BY <1>2 DEF Conclude
    <2>4. CASE Conclude(a, "observed")
      BY <1>1, <2>2, <2>3, <2>4 DEF Results
    <2>5. CASE Conclude(a, "released") /\ inflight[a].phase = "awaiting"
      BY <1>1, <2>2, <2>3, <2>5
    <2>6. CASE Flush(a) /\ ~ Conclude(a, "observed")
      <3>1. /\ inflight[a].phase \in Results
            /\ Conclude(a, IF inflight[a].phase = "succeeded"
                           THEN "cog_completed" ELSE "cog_failed")
        BY <2>6 DEF Flush, Reported
      <3>2. b = a /\ journal[a].state = inflight[a].phase
        BY <2>2, <2>3, <3>1 DEF Results
      <3>3. journal'[b].state = IF inflight[a].phase = "succeeded"
                                THEN "cog_completed" ELSE "cog_failed"
        BY <2>3, <3>1
      <3> QED
        BY <1>1, <3>1, <3>2, <3>3 DEF Results
    <2>7. CASE Renew(a) \/ Release(a)
      <3>1. op.kind \in {"renew", "stop_release"}
        BY <2>7 DEF Renew, Release, At
      <3>2. Conclude(a, "observed") \/ (Conclude(a, "released") /\ inflight[a].phase = "awaiting")
        BY <2>1, <3>1 DEF Ends
      <3> QED
        BY <2>4, <2>5, <3>2
    <2> QED
      BY <1>6, <2>4, <2>6, <2>7
  <1>7. ASSUME NEW a \in Attempts, NEW outcome \in Results, RecordResult(a, outcome)
        PROVE  journal'[b].state \in MayFollow(journal[b].state)
    <2>1. Record(a, outcome, inflight[a].key) /\ inflight[a].phase = "awaiting"
      BY <1>7 DEF RecordResult, Recorded
    <2>2. b = a /\ journal'[b].state = outcome
      BY <1>2, <2>1
    <2>3. journal[a].state = "started"
      BY <2>1, RecordInFlight DEF Inflight
    <2> QED
      BY <1>1, <2>2, <2>3
  <1> QED
    BY <1>3, <1>4, <1>5, <1>6, <1>7, StepKinds

\* No order of claims, losses, results, crashes and reports makes the coordinator append
\* a record that validate_transition would refuse (journal.append).
THEOREM NoAppendRefused == Spec => AppendNeverRefused
  <1>1. DeliveryInv /\ [Next]_vars =>
          [\A a \in Attempts : journal'[a] # journal[a] =>
              journal'[a].state \in MayFollow(journal[a].state)]_vars
    BY AppendStep
  <1> QED
    BY <1>1, DeliveryAlways, PTL DEF Spec, AppendNeverRefused

\* A result on record is handed to no provider again (admit_claimed_attempt,
\* dispatch_batch).
LEMMA SettledStep ==
    ASSUME DeliveryInv, [Next]_vars, NEW b \in Attempts, journal[b].state \in Settled
    PROVE  journal'[b].state \in Settled /\ running'[b] <= running[b]
  <1>0. /\ TypeOK
        /\ running \in [Attempts -> Nat]
        /\ inflight \in [Attempts -> InflightType]
    BY DEF DeliveryInv, TypeOK, InflightType
  <1>1. journal'[b].state \in Settled
    <2>1. CASE journal'[b] = journal[b]
      BY <2>1
    <2>2. CASE journal'[b] # journal[b]
      <3>1. journal'[b].state \in MayFollow(journal[b].state)
        BY <2>2, AppendStep
      <3> QED
        BY <3>1 DEF MayFollow, Settled, Results, LocallyTerminal
    <2> QED
      BY <2>1, <2>2
  <1>2. inflight[b].turn # "admitted"
    <2>1. inflight[b].phase # "awaiting"
      <3>1. b \in Inflight /\ inflight[b].phase = "awaiting" => journal[b].state = "started"
        BY RecordInFlight
      <3> QED
        BY <3>1 DEF Inflight, Settled, Results, LocallyTerminal
    <2> QED
      BY <2>1 DEF DeliveryInv, TurnInv
  <1>3. CASE Dispatch
    <2>1. b \notin Admitted
      BY <1>2 DEF Admitted
    <2> QED
      BY <1>0, <1>1, <1>3, <2>1 DEF Dispatch
  <1>4. CASE ProcessEnds \/ Deactivate
    BY <1>0, <1>1, <1>4 DEF ProcessEnds, Deactivate
  <1>5. ASSUME NEW a \in Attempts, NEW outcome \in Results, RecordResult(a, outcome)
        PROVE  running'[b] <= running[b]
    BY <1>0, <1>5 DEF RecordResult
  <1>6. CASE running' = running
    BY <1>0, <1>1, <1>6
  <1>7. \/ Dispatch \/ ProcessEnds \/ Deactivate
        \/ \E a \in Attempts : \E outcome \in Results : RecordResult(a, outcome)
        \/ running' = running
    BY DEF Next, Operate, Handle, CogMoves, Acquire, Activate, StartRetry, EndFlush,
           ContinueShutdown, ReleaseHost, Claim, StartRenewal, GiveUp, Quit, StartShutdown,
           ProcessStarts, OnlyOpChanges, OnlyModeChanges, Reconcile, Admit, Flush, Renew,
           Release, vars
  <1> QED
    BY <1>1, <1>3, <1>4, <1>5, <1>6, <1>7

\* Once an attempt's result is on record, no later claim, lease or process hands the
\* attempt to a provider again (admit_claimed_attempt, renew_attempts).
THEOREM ResultIsNeverRedispatched == Spec => NeverRedispatched
  <1>1. DeliveryInv /\ [Next]_vars =>
          [\A a \in Attempts : journal[a].state \in Settled =>
              journal'[a].state \in Settled /\ running'[a] <= running[a]]_vars
    BY SettledStep
  <1> QED
    BY <1>1, DeliveryAlways, PTL DEF Spec, NeverRedispatched
=============================================================================

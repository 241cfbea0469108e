----------------------- MODULE TranscriptStream_proofs -----------------------
(***************************************************************************)
(* Safety of TranscriptStream for any number of connections, attaches and  *)
(* events, any cap and any high-water mark.  The inductive invariant       *)
(* StreamInv adds to the properties what the actor relies on without       *)
(* saying so: a batch in flight was cut at a tip between its forwarder's   *)
(* position and the present tip.                                           *)
(*                                                                         *)
(* The second half is about what a client is sent.  Never an event twice   *)
(* or out of order, however many connections attach to the session:        *)
(* OrderInv follows each forwarder from its grant - what it wrote lies     *)
(* below its position, what it is writing between its position and the     *)
(* tip it was cut at.  And, if no other connection attaches, everything    *)
(* but what a marker stands for: FeedInv follows the newest forwarder, and *)
(* the stream implements TranscriptFeed.                                   *)
(***************************************************************************)
EXTENDS MCTranscriptStream, SequenceTheorems, TLAPS

(***************************************************************************)
(* What the operators of EventLog do to any log.                           *)
(***************************************************************************)

\* A push moves the tip by one and leaves every resident entry in place.
LEMMA PushedLog ==
    ASSUME NEW resident \in Log, NEW e \in Entry
    PROVE  /\ Pushed(resident, e) \in Log
           /\ Pushed(resident, e).base = resident.base
           /\ Len(Pushed(resident, e).entries) = Len(resident.entries) + 1
           /\ Tip(Pushed(resident, e)) = Tip(resident) + 1
           /\ \A i \in 1 .. Len(resident.entries) :
                 Pushed(resident, e).entries[i] = resident.entries[i]
           /\ Pushed(resident, e).entries[Len(resident.entries) + 1] = e
  <1>1. resident.entries \in Seq(Entry) /\ resident.base \in Nat
    BY DEF Log
  <1>2. /\ Pushed(resident, e).base = resident.base
        /\ Pushed(resident, e).entries = Append(resident.entries, e)
    BY DEF Pushed, Log
  <1>3. Append(resident.entries, e) \in Seq(Entry)
    BY <1>1
  <1>4. Pushed(resident, e) \in Log
    BY <1>3 DEF Pushed, Log
  <1>5. /\ Len(Append(resident.entries, e)) = Len(resident.entries) + 1
        /\ \A i \in 1 .. Len(resident.entries) :
              Append(resident.entries, e)[i] = resident.entries[i]
        /\ Append(resident.entries, e)[Len(resident.entries) + 1] = e
    BY <1>1
  <1>6. Tip(Pushed(resident, e)) = Tip(resident) + 1
    BY <1>1, <1>2, <1>5 DEF Tip
  <1> QED
    BY <1>2, <1>4, <1>5, <1>6

\* The low-water mark leaves room for the marker under the cap.
LEMMA LowWaterBelowCap ==
    ASSUME NEW cap \in Nat, cap >= 2
    PROVE  LowWater(cap) \in 1 .. cap - 1
  BY DEF LowWater, Smaller, Larger

\* How much a compaction drops: enough to reach the low-water mark or to reach
\* the floor, and never more than either.
LEMMA DroppedBounds ==
    ASSUME NEW resident \in Log, NEW cap \in Nat, cap >= 2, NEW floor \in Nat
    PROVE  LET n == Dropped(resident, cap, LowWater(cap), floor)
           IN  /\ n \in 0 .. Len(resident.entries)
               /\ n > 0 => resident.base + n <= floor
               /\ \/ Len(resident.entries) <= cap /\ n = 0
                  \/ n = Len(resident.entries) - LowWater(cap)
                  \/ n = floor - resident.base
                  \/ n = 0 /\ floor <= resident.base
                  \/ n = Len(resident.entries) /\ n < Len(resident.entries) - LowWater(cap)
  <1>1. Len(resident.entries) \in Nat /\ resident.base \in Nat
    BY DEF Log
  <1> DEFINE len == Len(resident.entries)
             low == LowWater(cap)
             most == Droppable(resident, floor)
             n == Dropped(resident, cap, low, floor)
  <1>2. low \in 1 .. cap - 1
    BY LowWaterBelowCap
  <1>3. /\ most \in 0 .. len
        /\ most > 0 => resident.base + most <= floor
        /\ \/ most = floor - resident.base
           \/ most = 0 /\ floor <= resident.base
           \/ most = len
    BY <1>1 DEF Droppable, Smaller, Larger
  <1>4. \/ len <= cap /\ n = 0
        \/ len > cap /\ n = len - low /\ len - low <= most
        \/ len > cap /\ n = most /\ most < len - low
    <2> HIDE DEF low, most
    <2>1. most \in Int /\ low \in Int /\ len \in Int
      BY <1>1, <1>2, <1>3
    <2> QED
      BY <2>1 DEF Dropped, Smaller, most
  <1> HIDE DEF len, low, most, n
  <1>5. CASE len <= cap /\ n = 0
    BY <1>1, <1>5 DEF len, low, n
  <1>6. CASE len > cap /\ n = len - low /\ len - low <= most
    <2>1. n \in 1 .. len /\ resident.base + n <= floor
      BY <1>1, <1>2, <1>3, <1>6 DEF len
    <2> QED
      BY <1>6, <2>1 DEF len, low, n
  <1>7. CASE len > cap /\ n = most /\ most < len - low
    <2>1. /\ n \in 0 .. len
          /\ n > 0 => resident.base + n <= floor
          /\ \/ n = floor - resident.base
             \/ n = 0 /\ floor <= resident.base
             \/ n = len /\ n < len - low
      BY <1>3, <1>7
    <2> QED
      BY <2>1 DEF len, low, n
  <1> QED
    BY <1>4, <1>5, <1>6, <1>7

\* A compaction changes nothing, or drops n entries and puts the marker in the
\* slot of the last of them: the tip and the positions of the others stay.
LEMMA CompactedLog ==
    ASSUME NEW resident \in Log, NEW cap \in Nat, cap >= 2, NEW floor \in Nat
    PROVE  /\ Compacted(resident, cap, floor) \in Log
           /\ Tip(Compacted(resident, cap, floor)) = Tip(resident)
           /\ LET n == Dropped(resident, cap, LowWater(cap), floor)
                  new == Compacted(resident, cap, floor)
              IN  /\ n = 0 => new = resident
                  /\ n > 0 =>
                      /\ new.base = resident.base + n - 1
                      /\ Len(new.entries) = Len(resident.entries) - n + 1
                      /\ new.entries[1] = Marker
                      /\ \A i \in 2 .. Len(new.entries) :
                            new.entries[i] = resident.entries[i + n - 1]
  <1> DEFINE n == Dropped(resident, cap, LowWater(cap), floor)
             new == Compacted(resident, cap, floor)
             kept == SubSeq(resident.entries, n + 1, Len(resident.entries))
  <1>1. /\ Len(resident.entries) \in Nat
        /\ resident.base \in Nat
        /\ resident.entries \in Seq(Entry)
    BY DEF Log
  <1>2. n \in 0 .. Len(resident.entries)
    BY DroppedBounds
  <1> HIDE DEF n
  <1>3. CASE n = 0
    <2>1. new = resident
      BY <1>3 DEF Compacted, n
    <2> QED
      BY <2>1, <1>3 DEF n
  <1>4. CASE n > 0
    <2>1. new = Prepended(Drained(resident, n))
      BY <1>4 DEF Compacted, n
    <2>2. /\ new.base = resident.base + n - 1
          /\ new.entries = <<Marker>> \o kept
          /\ new = [base |-> resident.base + n - 1, entries |-> <<Marker>> \o kept]
      <3>1. /\ Drained(resident, n).base = resident.base + n
            /\ Drained(resident, n).entries = kept
        BY DEF Drained
      <3>2. Prepended(Drained(resident, n)) =
              [base |-> (resident.base + n) - 1, entries |-> <<Marker>> \o kept]
        <4>1. Larger((resident.base + n) - 1, 0) = (resident.base + n) - 1
          BY <1>1, <1>2, <1>4 DEF Larger
        <4> QED
          BY <3>1, <4>1 DEF Prepended
      <3>3. new = [base |-> resident.base + n - 1, entries |-> <<Marker>> \o kept]
        <4>1. (resident.base + n) - 1 = resident.base + n - 1
          BY <1>1, <1>2
        <4> QED
          BY <2>1, <3>2, <4>1
      <3> HIDE DEF new, kept
      <3> QED
        BY <3>3
    <2>3. /\ kept \in Seq(Entry)
          /\ Len(kept) = Len(resident.entries) - n
          /\ \A i \in 1 .. Len(kept) : kept[i] = resident.entries[i + n]
      <3>1. \A i \in n + 1 .. Len(resident.entries) : resident.entries[i] \in Entry
        BY <1>1, <1>2, ElementOfSeq
      <3>2. n + 1 \in Int /\ Len(resident.entries) \in Int
        BY <1>1, <1>2
      <3>3. /\ kept \in Seq(Entry)
            /\ Len(kept) = IF n + 1 <= Len(resident.entries)
                           THEN Len(resident.entries) - (n + 1) + 1 ELSE 0
            /\ \A i \in 1 .. Len(resident.entries) - (n + 1) + 1 :
                  kept[i] = resident.entries[(n + 1) + i - 1]
        BY <3>1, <3>2, SubSeqProperties
      <3> HIDE DEF kept
      <3> QED
        BY <3>3, <1>1, <1>2
    <2> HIDE DEF kept
    <2>4. <<Marker>> \in Seq(Entry) /\ Len(<<Marker>>) = 1 /\ <<Marker>>[1] = Marker
      BY DEF Entry
    <2>5. /\ <<Marker>> \o kept \in Seq(Entry)
          /\ Len(<<Marker>> \o kept) = 1 + Len(kept)
          /\ (<<Marker>> \o kept)[1] = Marker
          /\ \A i \in 2 .. Len(<<Marker>> \o kept) :
                (<<Marker>> \o kept)[i] = kept[i - 1]
      BY <2>3, <2>4
    <2>6. new \in Log
      BY <2>2, <2>5, <1>1, <1>2, <1>4 DEF Log
    <2>7. Len(new.entries) = Len(resident.entries) - n + 1
      BY <2>2, <2>3, <2>5, <1>1, <1>2
    <2>8. Tip(new) = Tip(resident)
      BY <2>2, <2>7, <1>1, <1>2 DEF Tip
    <2>9. \A i \in 2 .. Len(new.entries) : new.entries[i] = resident.entries[i + n - 1]
      BY <2>2, <2>3, <2>5, <2>7, <1>1, <1>2, <1>4
    <2> QED
      BY <2>2, <2>5, <2>6, <2>7, <2>8, <2>9, <1>4 DEF n
  <1> QED
    BY <1>2, <1>3, <1>4

\* A cursor resolves to an index inside the resident log (or just past it).
LEMMA VecIndexInRange ==
    ASSUME NEW resident \in Log, NEW current \in Nat,
           NEW cursor \in {NoCursor} \cup (Nat \X Nat)
    PROVE  VecIndex(resident, cursor, current) \in 0 .. Len(resident.entries)
  <1>1. Len(resident.entries) \in Nat /\ resident.base \in Nat
    BY DEF Log
  <1>2. CASE FromBase(resident, cursor, current)
    BY <1>1, <1>2 DEF VecIndex
  <1>3. CASE ~ FromBase(resident, cursor, current)
    <2>1. cursor \in Nat \X Nat /\ cursor[2] >= resident.base /\ cursor[2] <= Tip(resident)
      BY <1>3, <1>1 DEF FromBase, Tip
    <2> QED
      BY <2>1, <1>1, <1>3 DEF VecIndex, Tip
  <1> QED
    BY <1>2, <1>3

(***************************************************************************)
(* The steps of TranscriptStream.                                          *)
(***************************************************************************)

USE CapAssumption, HighWaterAssumption, BoundsAssumption, ConnsAssumption

\* Typing is inductive on its own.
LEMMA TypeStep ==
    ASSUME TypeOK, [Next]_vars
    PROVE  TypeOK'
  <1>1. CASE Push
    <2> DEFINE grown == Pushed(log, pushed)
               handle == IF Wedged(grown) THEN NoForwarder ELSE Pruned
    <2>1. pushed \in Entry /\ grown \in Log
      BY PushedLog DEF TypeOK, Entry
    <2>2. Tip(grown) \in Nat
      BY <2>1 DEF Tip, Log
    <2>3. Pruned \in Forwarders \cup {NoForwarder} /\ handle \in Forwarders \cup {NoForwarder}
      BY DEF TypeOK, Pruned, NoForwarder
    <2>4. Floor(grown, handle) \in Nat
      BY <2>2, <2>3 DEF Floor, TypeOK
    <2>5. log' \in Log
      BY <1>1, <2>1, <2>4, CompactedLog DEF Push
    <2>6. evicted' \in [Forwarders -> BOOLEAN]
      BY <1>1 DEF Push, TypeOK
    <2>7. registered' \in Forwarders \cup {NoForwarder}
      BY <1>1, <2>3 DEF Push
    <2>8. fresh' \in [Forwarders -> BOOLEAN]
      BY <1>1 DEF Push, Publish, TypeOK
    <2>9. pushed' \in Nat /\ recovered' \in Nat
      BY <1>1 DEF Push, TypeOK
    <2> QED
      BY <1>1, <2>5, <2>6, <2>7, <2>8, <2>9
      DEF Push, TypeOK, grantVars, streamVars, connVars
  <1>2. ASSUME NEW c \in Conns, NEW cursor \in Cursors, Attach(c, cursor)
        PROVE  TypeOK'
    <2>1. log \in Log /\ log.base \in Nat /\ Tip(log) \in Nat
      BY DEF TypeOK, Log, Tip
    <2>2. cursor \in {NoCursor} \cup (Nat \X Nat)
      BY <2>1 DEF Cursors, TypeOK
    <2>3. VecIndex(log, cursor, generation) \in Nat
      <3>1. generation \in Nat /\ Len(log.entries) \in Nat
        BY DEF TypeOK, Log
      <3>2. VecIndex(log, cursor, generation) \in 0 .. Len(log.entries)
        BY <2>1, <2>2, <3>1, VecIndexInRange
      <3> QED
        BY <3>1, <3>2
    <2>4. FromBase(log, cursor, generation) \/ cursor[2] \in Nat
      BY <2>2 DEF FromBase
    <2>5. granted + 1 \in Forwarders /\ granted + 1 \in 0 .. MaxAttach
      BY <1>2 DEF Attach, TypeOK, Forwarders
    <2>6. /\ registered' \in Forwarders \cup {NoForwarder}
          /\ granted' \in 0 .. MaxAttach
          /\ pc' \in [Forwarders -> Pcs]
          /\ owner' \in [Forwarders -> Conns]
          /\ handler' \in [Conns -> {"idle", "attach", "detach", "teardown"}]
      BY <1>2, <2>5 DEF Attach, TypeOK, Pcs
    <2>7. sent' \in [Forwarders -> Nat]
      BY <1>2, <2>1, <2>3, <2>5 DEF Attach, TypeOK
    <2>8. prefix' \in [Forwarders -> Nat \X Nat]
      BY <1>2, <2>5 DEF Attach, TypeOK
    <2>9. start' \in [Forwarders -> Nat]
      BY <1>2, <2>4, <2>5 DEF Attach, TypeOK
    <2> QED
      BY <1>2, <2>6, <2>7, <2>8, <2>9 DEF Attach, TypeOK, sessionVars
  <1>3. ASSUME NEW c \in Conns, ActorDetach(c)
        PROVE  TypeOK'
    BY <1>3 DEF ActorDetach, TypeOK, sessionVars, handleVars, grantVars, streamVars
  <1>4. CASE Archive
    <2>1. log' \in Log /\ prefixLen' \in Nat
      BY <1>4 DEF Archive, TypeOK, EmptyFrom, Log, Tip
    <2>2. fresh' \in [Forwarders -> BOOLEAN]
      BY <1>4 DEF Archive, Publish, TypeOK
    <2> QED
      BY <1>4, <2>1, <2>2 DEF Archive, TypeOK, grantVars, streamVars, connVars
  <1>5. CASE Unarchive
    BY <1>5 DEF Unarchive, TypeOK, handleVars, grantVars, streamVars, connVars
  <1>6. CASE Restart
    BY <1>6 DEF Restart, TypeOK, handleVars, grantVars, streamVars, connVars
  <1>7. ASSUME NEW c \in Conns, NEW f \in Forwarders, Spawn(c, f)
        PROVE  TypeOK'
    <2>1. pc' \in [Forwarders -> Pcs]
      BY <1>7 DEF Spawn, TypeOK, Pcs
    <2>2. /\ batch' \in [Forwarders -> Seq(Entry)]
          /\ batchTip' \in [Forwarders -> Nat]
          /\ out' \in [Forwarders -> Seq(Entry)]
      BY <1>7 DEF Spawn, DropBatch, TypeOK
    <2> QED
      BY <1>7, <2>1, <2>2 DEF Spawn, TypeOK, sessionVars, handleVars, grantVars
  <1>8. ASSUME NEW c \in Conns, Abort(c)
        PROVE  /\ pc' \in [Forwarders -> Pcs]
               /\ batch' \in [Forwarders -> Seq(Entry)]
               /\ batchTip' \in [Forwarders -> Nat]
    BY <1>8 DEF Abort, DropBatch, TypeOK, Pcs
  <1>9. ASSUME NEW c \in Conns, Detach(c)
        PROVE  TypeOK'
    BY <1>8, <1>9 DEF Detach, TypeOK, sessionVars, handleVars, grantVars
  <1>10. ASSUME NEW c \in Conns, DropForArchive(c)
         PROVE  TypeOK'
    BY <1>8, <1>10 DEF DropForArchive, TypeOK, sessionVars, handleVars, grantVars
  <1>11. ASSUME NEW c \in Conns, Hangup(c)
         PROVE  TypeOK'
    <2>1. /\ pc' \in [Forwarders -> Pcs]
          /\ batch' \in [Forwarders -> Seq(Entry)]
          /\ batchTip' \in [Forwarders -> Nat]
      BY <1>8, <1>11 DEF Hangup, TypeOK
    <2> QED
      BY <1>11, <2>1 DEF Hangup, TypeOK, sessionVars, handleVars, grantVars
  <1>12. ASSUME NEW c \in Conns, Connect(c)
         PROVE  TypeOK'
    BY <1>12 DEF Connect, TypeOK, sessionVars, handleVars, grantVars, streamVars
  <1>13. ASSUME NEW f \in Forwarders, ObserveStop(f)
         PROVE  TypeOK'
    BY <1>13 DEF ObserveStop, TypeOK, Pcs, sessionVars, handleVars, grantVars, streamVars
  <1>14. ASSUME NEW f \in Forwarders, StreamPrefix(f)
         PROVE  TypeOK'
    <2>1. prefix[f][1] \in Nat /\ prefix[f] \in Nat \X Nat
      BY DEF TypeOK
    <2>2. (prefix[f][1] + 1) - 1 \in Entry
      BY <2>1 DEF Entry
    <2>3. CASE pc' = [pc EXCEPT ![f] = "first"] /\ UNCHANGED <<handleVars, streamVars, socket>>
      BY <1>14, <2>3 DEF StreamPrefix, TypeOK, Pcs, sessionVars, handleVars, grantVars, streamVars
    <2>4. CASE ObserveStop(f)
      BY <1>13, <2>4
    <2>5. CASE /\ out' = [out EXCEPT ![f] = Append(@, (prefix[f][1] + 1) - 1)]
               /\ prefix' = [prefix EXCEPT ![f] = <<prefix[f][1] + 1, @[2]>>]
               /\ UNCHANGED <<pc, batch, batchTip, handleVars, socket>>
      <3>1. out' \in [Forwarders -> Seq(Entry)]
        BY <2>2, <2>5 DEF TypeOK
      <3>2. prefix' \in [Forwarders -> Nat \X Nat]
        BY <2>1, <2>5 DEF TypeOK
      <3> QED
        BY <1>14, <2>5, <3>1, <3>2 DEF StreamPrefix, TypeOK, sessionVars, handleVars, grantVars
    <2> QED
      BY <1>14, <2>3, <2>4, <2>5 DEF StreamPrefix
  <1>15. ASSUME NEW f \in Forwarders, WriteEnds(f)
         PROVE  pc' \in [Forwarders -> Pcs]
    BY <1>15 DEF WriteEnds, TypeOK, Pcs
  <1>16. ASSUME NEW f \in Forwarders, FailPrefix(f)
         PROVE  TypeOK'
    BY <1>15, <1>16 DEF FailPrefix, TypeOK, sessionVars, handleVars, grantVars, streamVars, connVars
  <1>17. ASSUME NEW f \in Forwarders, CutTail(f)
         PROVE  TypeOK'
    <2>1. CASE Stopped(f)
      BY <1>13, <1>17, <2>1 DEF CutTail
    <2>2. CASE ~ Stopped(f)
      <3> DEFINE i == VecIndex(log, <<generation, sent[f]>>, generation)
                 tail == TailFrom(log, i)
      <3>1. i \in 0 .. Len(log.entries)
        BY VecIndexInRange DEF TypeOK
      <3> HIDE DEF i
      <3>2. tail \in Seq(Entry)
        <4>1. log.entries \in Seq(Entry) /\ Len(log.entries) \in Nat
          BY DEF TypeOK, Log
        <4>2. \A j \in i + 1 .. Len(log.entries) : log.entries[j] \in Entry
          BY <3>1, <4>1, ElementOfSeq
        <4>3. i + 1 \in Int /\ Len(log.entries) \in Int
          BY <3>1, <4>1
        <4> QED
          BY <4>2, <4>3, SubSeqProperties DEF TailFrom
      <3>3. Tip(log) \in Nat
        BY DEF TypeOK, Log, Tip
      <3>4. /\ pc' = [pc EXCEPT ![f] = IF tail = << >> THEN "waiting" ELSE "writing"]
            /\ batch' = [batch EXCEPT ![f] = tail]
            /\ batchTip' = [batchTip EXCEPT ![f] = IF tail = << >> THEN 0 ELSE Tip(log)]
            /\ fresh' = [fresh EXCEPT ![f] = FALSE]
            /\ UNCHANGED <<sessionVars, registered, handleVars, grantVars, prefix, out, connVars>>
        BY <1>17, <2>2 DEF CutTail, i
      <3> HIDE DEF tail
      <3> QED
        BY <3>2, <3>3, <3>4 DEF TypeOK, Pcs, sessionVars, handleVars, grantVars, connVars
    <2> QED
      BY <2>1, <2>2
  <1>18. ASSUME NEW f \in Forwarders, WriteDone(f)
         PROVE  TypeOK'
    <2>1. out[f] \o batch[f] \in Seq(Entry) /\ << >> \in Seq(Entry)
      BY DEF TypeOK
    <2> QED
      BY <1>18, <2>1 DEF WriteDone, NoBatch, TypeOK, Pcs, sessionVars, grantVars, connVars
  <1>19. ASSUME NEW f \in Forwarders, WriteFailed(f)
         PROVE  TypeOK'
    <2>1. \A n \in 0 .. Len(batch[f]) : out[f] \o SubSeq(batch[f], 1, n) \in Seq(Entry)
      <3> SUFFICES ASSUME NEW n \in 0 .. Len(batch[f])
                   PROVE  out[f] \o SubSeq(batch[f], 1, n) \in Seq(Entry)
        OBVIOUS
      <3>1. out[f] \in Seq(Entry) /\ batch[f] \in Seq(Entry)
        BY DEF TypeOK
      <3>2. \A i \in 1 .. n : batch[f][i] \in Entry
        BY <3>1, ElementOfSeq
      <3>3. n \in Int
        BY <3>1
      <3>4. SubSeq(batch[f], 1, n) \in Seq(Entry)
        BY <3>2, <3>3, SubSeqProperties
      <3> QED
        BY <3>1, <3>4
    <2>2. out' \in [Forwarders -> Seq(Entry)]
      BY <1>19, <2>1 DEF WriteFailed, TypeOK
    <2> QED
      BY <1>15, <1>19, <2>2
      DEF WriteFailed, NoBatch, TypeOK, sessionVars, handleVars, grantVars, connVars
  <1>20. CASE CrashAndRecover
    <2>1. log' \in Log
      BY <1>20 DEF CrashAndRecover, TypeOK, EmptyFrom, Log
    <2> QED
      BY <1>20, <2>1 DEF CrashAndRecover, TypeOK, Pcs, handleVars, grantVars, NoForwarder
  <1>21. CASE UNCHANGED vars
    BY <1>21 DEF TypeOK, vars, sessionVars, handleVars, grantVars, streamVars, connVars
  <1> QED
    BY <1>1, <1>2, <1>3, <1>4, <1>5, <1>6, <1>7, <1>9, <1>10, <1>11, <1>12, <1>14,
       <1>16, <1>17, <1>18, <1>19, <1>20, <1>21
    DEF Next, ActorStep, HandlerStep, ForwarderStep

LEMMA InitTyped ==
    ASSUME Init
    PROVE  TypeOK
  <1>1. log \in Log
    <2>1. << >> \in Seq(Entry)
      OBVIOUS
    <2> QED
      BY <2>1 DEF Init, EmptyFrom, Log
  <1>2. owner \in [Forwarders -> Conns]
    <2>1. (CHOOSE c \in Conns : TRUE) \in Conns
      OBVIOUS
    <2> QED
      BY <2>1 DEF Init
  <1>3. 0 \in 0 .. MaxAttach /\ << >> \in Seq(Entry)
    OBVIOUS
  <1> QED
    BY <1>1, <1>2, <1>3 DEF Init, TypeOK, Pcs, NoForwarder

\* The type invariant (TypeOK) holds of every behaviour of the model: handles,
\* tasks, positions and batches keep their shape under every step.
THEOREM TypeCorrect == Spec => []TypeOK
  <1>1. Init => TypeOK
    BY InitTyped
  <1>2. TypeOK /\ [Next]_vars => TypeOK'
    BY TypeStep
  <1> QED
    BY <1>1, <1>2, PTL DEF Spec

(***************************************************************************)
(* The inductive invariant.                                                *)
(***************************************************************************)

\* What a forwarder is writing was cut at a tip the log has reached and, as long
\* as the actor still listens to its position, not behind that position.
BatchInFlight ==
    \A f \in Forwarders : pc[f] = "writing" =>
        /\ batchTip[f] <= Tip(log)
        /\ registered = f => sent[f] <= batchTip[f]

StreamInv ==
    /\ TypeOK
    /\ SeqStable
    /\ MemoryBounded
    /\ FloorHeld
    /\ PrefixMeetsResident
    /\ BatchInFlight

\* The steps that leave the log, its prefix and every position alone, start no
\* write and bring no forwarder to life.
Quiet ==
    /\ UNCHANGED <<log, pushed, prefixLen, sent>>
    /\ archived' => archived
    /\ registered' \in {registered, NoForwarder}
    /\ Live' \subseteq Live
    /\ \A f \in Forwarders : pc'[f] = "writing" =>
          pc[f] = "writing" /\ batchTip'[f] = batchTip[f]

LEMMA QuietStep ==
    ASSUME StreamInv, TypeOK', Quiet
    PROVE  StreamInv'
  <1>1. NoForwarder \notin Live /\ NoForwarder \notin Forwarders
    BY DEF Live, Forwarders, NoForwarder
  <1>2. FloorHeld'
    BY <1>1 DEF StreamInv, FloorHeld, Quiet
  <1>3. BatchInFlight'
    BY <1>1 DEF StreamInv, BatchInFlight, Quiet
  <1> QED
    BY <1>2, <1>3 DEF StreamInv, SeqStable, MemoryBounded, PrefixMeetsResident, Quiet

\* The steps of a handler or a forwarder that are quiet.
LEMMA HandlerStepsAreQuiet ==
    ASSUME TypeOK, NEW c \in Conns,
           \/ ActorDetach(c)
           \/ \E f \in Forwarders : Spawn(c, f)
           \/ Detach(c) \/ DropForArchive(c) \/ Hangup(c) \/ Connect(c)
    PROVE  Quiet
  <1>1. CASE ActorDetach(c)
    BY <1>1 DEF ActorDetach, Quiet, Live, Exited, sessionVars, handleVars, streamVars
  <1>2. ASSUME NEW f \in Forwarders, Spawn(c, f)
        PROVE  Quiet
    <2>1. \A g \in Forwarders :
             /\ pc'[g] # pc[g] => pc[g] # "unused" /\ (g = f \/ pc'[g] = "ended")
             /\ pc'[g] = "writing" => pc[g] = "writing" /\ g \notin Ended(c)
      BY <1>2 DEF Spawn, Ended, Live, Exited, TypeOK
    <2>2. Live' \subseteq Live
      BY <1>2, <2>1 DEF Spawn, Live, Exited
    <2> QED
      BY <1>2, <2>1, <2>2 DEF Spawn, DropBatch, Quiet, TypeOK, sessionVars, handleVars
  <1>3. ASSUME Abort(c)
        PROVE  /\ Live' \subseteq Live
               /\ \A f \in Forwarders : pc'[f] = "writing" =>
                     pc[f] = "writing" /\ batchTip'[f] = batchTip[f]
    BY <1>3 DEF Abort, DropBatch, Ended, Live, Exited, TypeOK
  <1>4. CASE Detach(c)
    BY <1>3, <1>4 DEF Detach, Quiet, sessionVars, handleVars
  <1>5. CASE DropForArchive(c)
    BY <1>3, <1>5 DEF DropForArchive, Quiet, sessionVars, handleVars
  <1>6. CASE Hangup(c)
    <2>1. CASE task[c] = NoForwarder
      BY <1>6, <2>1 DEF Hangup, Quiet, Live, Exited, sessionVars, handleVars
    <2>2. CASE task[c] # NoForwarder
      BY <1>3, <1>6, <2>2 DEF Hangup, Quiet, sessionVars, handleVars
    <2> QED
      BY <2>1, <2>2
  <1>7. CASE Connect(c)
    BY <1>7 DEF Connect, Quiet, Live, Exited, sessionVars, handleVars, streamVars
  <1> QED
    BY <1>1, <1>2, <1>4, <1>5, <1>6, <1>7

LEMMA ForwarderStepsAreQuiet ==
    ASSUME TypeOK, NEW f \in Forwarders,
           \/ ObserveStop(f) /\ pc[f] # "unused"
           \/ StreamPrefix(f) \/ FailPrefix(f) \/ WriteFailed(f)
    PROVE  Quiet
  <1>1. ASSUME ObserveStop(f) /\ pc[f] # "unused"
        PROVE  Quiet
    BY <1>1 DEF ObserveStop, Quiet, Live, Exited, TypeOK, sessionVars, handleVars, streamVars
  <1>2. CASE StreamPrefix(f)
    <2>1. pc[f] = "prefix"
      BY <1>2 DEF StreamPrefix
    <2>2. CASE ObserveStop(f)
      BY <1>1, <2>1, <2>2
    <2>3. CASE ~ ObserveStop(f)
      BY <1>2, <2>1, <2>3
      DEF StreamPrefix, Quiet, Live, Exited, TypeOK, sessionVars, handleVars, streamVars
    <2> QED
      BY <2>2, <2>3
  <1>3. ASSUME WriteEnds(f), pc[f] # "unused"
        PROVE  /\ Live' \subseteq Live
               /\ \A g \in Forwarders : pc'[g] = "writing" => pc[g] = "writing" /\ g # f
    BY <1>3 DEF WriteEnds, Live, Exited, TypeOK
  <1>4. CASE FailPrefix(f)
    BY <1>3, <1>4 DEF FailPrefix, Quiet, sessionVars, handleVars, streamVars
  <1>5. CASE WriteFailed(f)
    BY <1>3, <1>5 DEF WriteFailed, NoBatch, Quiet, TypeOK, sessionVars, handleVars
  <1> QED
    BY <1>1, <1>2, <1>4, <1>5

\* Every step preserves the inductive invariant.
LEMMA StreamStep ==
    ASSUME StreamInv, [Next]_vars
    PROVE  StreamInv'
  <1>1. TypeOK /\ TypeOK'
    BY TypeStep DEF StreamInv
  <1>2. NoForwarder \notin Live /\ NoForwarder \notin Live' /\ NoForwarder \notin Forwarders
    BY DEF Live, Forwarders, NoForwarder
  <1>3. /\ log.base \in Nat /\ Len(log.entries) \in Nat /\ Tip(log) \in Nat
        /\ log.entries \in Seq(Entry) /\ log \in Log
        /\ Tip(log) = log.base + Len(log.entries)
    <2>1. log \in Log
      BY <1>1 DEF TypeOK
    <2>2. log.base \in Nat /\ log.entries \in Seq(Entry) /\ Len(log.entries) \in Nat
      BY <2>1 DEF Log
    <2> QED
      BY <2>1, <2>2 DEF Tip
  <1>4. CASE Push
    <2> DEFINE grown == Pushed(log, pushed)
               handle == IF Wedged(grown) THEN NoForwarder ELSE Pruned
               floor == Floor(grown, handle)
               n == Dropped(grown, Cap, LowWater(Cap), floor)
    <2>1. /\ grown \in Log
          /\ grown.base = log.base
          /\ Len(grown.entries) = Len(log.entries) + 1
          /\ Tip(grown) = Tip(log) + 1
          /\ \A i \in 1 .. Len(log.entries) : grown.entries[i] = log.entries[i]
          /\ grown.entries[Len(log.entries) + 1] = pushed
      BY <1>1, PushedLog DEF TypeOK, Entry
    <2> HIDE DEF grown
    <2>2. /\ pushed' = pushed + 1 /\ ~ archived /\ UNCHANGED <<pc, sent, batchTip, prefixLen>>
          /\ registered' = handle
          /\ log' = Compacted(grown, Cap, floor)
          /\ archived' = archived
      BY <1>4 DEF Push, grown, streamVars
    <2>3. handle \in {registered, NoForwarder} /\ handle \in Forwarders \cup {NoForwarder}
      BY <1>1 DEF Pruned, TypeOK
    <2>4. handle # NoForwarder => handle = Pruned /\ ~ Wedged(grown)
      OBVIOUS
    <2>5. floor = IF handle = NoForwarder THEN Tip(grown) ELSE sent[handle]
      BY DEF Floor
    <2> HIDE DEF handle, floor
    <2>6. floor \in Nat /\ Tip(grown) \in Nat /\ Tip(grown) - floor <= HighWater
      <3>1. Tip(grown) \in Nat
        BY <1>3, <2>1
      <3>2. CASE handle = NoForwarder
        BY <2>5, <3>1, <3>2
      <3>3. CASE handle # NoForwarder
        <4>1. floor = sent[Pruned] /\ floor \in Nat
          BY <1>1, <2>3, <2>4, <2>5, <3>3 DEF TypeOK
        <4>2. ~ (Tip(grown) - sent[Pruned] > HighWater)
          BY <2>4, <3>3 DEF Wedged
        <4> QED
          BY <3>1, <4>1, <4>2
      <3> QED
        BY <3>2, <3>3
    <2>7. LowWater(Cap) \in 1 .. Cap - 1
      BY LowWaterBelowCap
    <2>8. /\ n \in 0 .. Len(grown.entries)
          /\ n > 0 => log.base + n <= floor
          /\ \/ Len(grown.entries) <= Cap /\ n = 0
             \/ n = Len(grown.entries) - LowWater(Cap)
             \/ n = floor - log.base
             \/ n = 0 /\ floor <= log.base
             \/ n = Len(grown.entries) /\ n < Len(grown.entries) - LowWater(Cap)
      BY <2>1, <2>6, DroppedBounds
    <2>9. /\ Tip(log') = Tip(grown)
          /\ n = 0 => log' = grown
          /\ n > 0 => /\ log'.base = log.base + n - 1
                      /\ Len(log'.entries) = Len(grown.entries) - n + 1
                      /\ log'.entries[1] = Marker
                      /\ \A i \in 2 .. Len(log'.entries) :
                            log'.entries[i] = grown.entries[i + n - 1]
      BY <2>1, <2>2, <2>6, CompactedLog
    <2> HIDE DEF n
    <2>10. SeqStable'
      <3>1. Tip(log') = pushed'
        BY <2>1, <2>2, <2>9 DEF StreamInv, SeqStable
      <3>2. pushed = log.base + Len(log.entries)
        BY <1>3 DEF StreamInv, SeqStable
      <3>3. \A i \in 1 .. Len(grown.entries) :
               \/ grown.entries[i] = log.base + i - 1
               \/ i = 1 /\ grown.entries[i] = Marker
        <4>1. \A i \in 1 .. Len(log.entries) :
                 \/ log.entries[i] = log.base + i - 1
                 \/ i = 1 /\ log.entries[i] = Marker
          BY <1>3 DEF StreamInv, SeqStable
        <4>2. grown.entries[Len(log.entries) + 1] = log.base + (Len(log.entries) + 1) - 1
          BY <1>3, <2>1, <3>2
        <4>3. \A i \in 1 .. Len(grown.entries) :
                 i \in 1 .. Len(log.entries) \/ i = Len(log.entries) + 1
          BY <1>3, <2>1
        <4> QED
          BY <2>1, <4>1, <4>2, <4>3
      <3>4. DOMAIN log'.entries = 1 .. Len(log'.entries)
        BY <1>1 DEF TypeOK, Log
      <3>5. CASE n = 0
        BY <2>1, <2>9, <3>1, <3>3, <3>4, <3>5 DEF SeqStable
      <3>6. CASE n > 0
        <4> SUFFICES ASSUME NEW i \in 1 .. Len(log'.entries)
                     PROVE  \/ log'.entries[i] = log'.base + i - 1
                            \/ i = 1 /\ log'.entries[i] = Marker
          BY <3>1, <3>4 DEF SeqStable
        <4>1. CASE i = 1
          BY <2>9, <3>6, <4>1
        <4>2. CASE i # 1
          <5>1. i \in 2 .. Len(log'.entries) /\ i + n - 1 \in 2 .. Len(grown.entries)
            BY <2>1, <2>8, <2>9, <1>3, <3>6, <4>2
          <5>2. log'.entries[i] = log.base + (i + n - 1) - 1
            BY <2>9, <3>3, <3>6, <5>1
          <5> QED
            BY <1>3, <2>8, <2>1, <2>9, <3>6, <5>2
        <4> QED
          BY <4>1, <4>2
      <3> QED
        BY <3>5, <3>6, <2>8, <2>1
    <2>11. MemoryBounded'
      <3>1. Len(grown.entries) \in Nat /\ Tip(grown) = log.base + Len(grown.entries)
        BY <1>3, <2>1
      <3>2. Len(log'.entries) = IF n = 0 THEN Len(grown.entries)
                                         ELSE Len(grown.entries) - n + 1
        BY <2>8, <2>9, <3>1
      <3>3. Len(log'.entries) <= HighWater + 1
        <4>1. CASE Len(grown.entries) <= Cap /\ n = 0
          BY <3>1, <3>2, <4>1
        <4>2. CASE n = Len(grown.entries) - LowWater(Cap)
          <5>1. Len(log'.entries) <= Cap
            BY <2>7, <3>1, <3>2, <4>2
          <5> QED
            BY <3>1, <3>2, <2>8, <5>1
        <4>3. CASE n = floor - log.base \/ (n = 0 /\ floor <= log.base)
          BY <1>3, <2>8, <2>6, <3>1, <3>2, <4>3
        <4>4. CASE n = Len(grown.entries) /\ n < Len(grown.entries) - LowWater(Cap)
          BY <2>7, <3>1, <4>4
        <4> QED
          BY <2>8, <4>1, <4>2, <4>3, <4>4
      <3> QED
        BY <3>3 DEF MemoryBounded
    <2>12. FloorHeld'
      <3> SUFFICES ASSUME handle # NoForwarder, registered \in Live
                   PROVE  sent[registered] \in log'.base .. Tip(log')
        BY <1>2, <2>2, <2>3 DEF FloorHeld, Live, Exited
      <3>1. handle = registered /\ floor = sent[registered] /\ sent[registered] \in log.base .. Tip(log)
        BY <2>3, <2>5 DEF StreamInv, FloorHeld
      <3> QED
        BY <1>3, <2>1, <2>8, <2>9, <2>6, <3>1
    <2>13. PrefixMeetsResident'
      <3>1. CASE n = 0
        <4>1. prefixLen < log.base => log'.entries # << >> /\ log'.entries[1] = Marker
          <5> SUFFICES ASSUME prefixLen < log.base
                       PROVE  log'.entries # << >> /\ log'.entries[1] = Marker
            OBVIOUS
          <5>1. Len(log.entries) >= 1 /\ log.entries[1] = Marker
            BY <1>3 DEF StreamInv, PrefixMeetsResident
          <5>2. log'.entries[1] = Marker /\ Len(log'.entries) > 0
            BY <5>1, <2>1, <2>9, <3>1, <1>3
          <5> QED
            BY <5>2
        <4> QED
          BY <2>1, <2>2, <2>9, <3>1, <4>1 DEF StreamInv, PrefixMeetsResident
      <3>2. CASE n > 0
        <4>1. Len(log'.entries) > 0 /\ log'.entries[1] = Marker
          BY <1>3, <2>1, <2>8, <2>9, <3>2
        <4>2. prefixLen <= log.base /\ log'.base >= log.base
          BY <1>3, <2>1, <2>8, <2>9, <3>2 DEF StreamInv, PrefixMeetsResident
        <4>3. prefixLen' <= log'.base
          BY <4>2, <2>2, <1>1, <1>3, <2>1, <2>8, <2>9, <3>2 DEF TypeOK
        <4> QED
          BY <4>1, <4>3, <2>2 DEF PrefixMeetsResident
      <3> QED
        BY <3>1, <3>2, <2>1, <2>8
    <2>14. BatchInFlight'
      <3> SUFFICES ASSUME NEW f \in Forwarders, pc[f] = "writing"
                   PROVE  /\ batchTip[f] <= Tip(log')
                          /\ handle = f => sent[f] <= batchTip[f]
        BY <2>2 DEF BatchInFlight
      <3>1. batchTip[f] <= Tip(log) /\ (registered = f => sent[f] <= batchTip[f])
        BY DEF StreamInv, BatchInFlight
      <3>2. batchTip[f] \in Nat
        BY <1>1 DEF TypeOK
      <3>3. batchTip[f] <= Tip(log')
        BY <1>3, <2>1, <2>9, <3>1, <3>2
      <3> QED
        BY <1>2, <2>3, <3>1, <3>3
    <2> QED
      BY <1>1, <2>10, <2>11, <2>12, <2>13, <2>14 DEF StreamInv
  <1>5. ASSUME NEW c \in Conns, NEW cursor \in Cursors, Attach(c, cursor)
        PROVE  StreamInv'
    <2> DEFINE f == granted + 1
    <2>1. VecIndex(log, cursor, generation) \in 0 .. Len(log.entries)
      <3>1. cursor \in {NoCursor} \cup (Nat \X Nat) /\ generation \in Nat
        BY <1>1, <1>3 DEF Cursors, TypeOK
      <3> QED
        BY <1>3, <3>1, VecIndexInRange
    <2>2. f \in Forwarders
      BY <1>1, <1>5 DEF Attach, TypeOK, Forwarders
    <2>3. /\ UNCHANGED <<log, pushed, archived, prefixLen, batchTip>>
          /\ registered' = f
          /\ pc' = [pc EXCEPT ![f] = "granted"]
          /\ sent' = [sent EXCEPT ![f] = log.base + VecIndex(log, cursor, generation)]
      BY <1>5 DEF Attach, sessionVars
    <2> HIDE DEF f
    <2>4. sent'[f] \in log.base .. Tip(log)
      <3>1. sent'[f] = log.base + VecIndex(log, cursor, generation)
        BY <1>1, <2>2, <2>3 DEF TypeOK
      <3> QED
        BY <1>3, <2>1, <3>1
    <2>5. FloorHeld'
      BY <2>3, <2>4 DEF FloorHeld
    <2>6. BatchInFlight'
      BY <1>1, <2>2, <2>3 DEF StreamInv, BatchInFlight, TypeOK
    <2> QED
      BY <1>1, <2>3, <2>5, <2>6
      DEF StreamInv, SeqStable, MemoryBounded, PrefixMeetsResident
  <1>6. ASSUME NEW tip \in Nat, tip = Tip(log), log' = EmptyFrom(tip), prefixLen' = tip,
               pushed' = pushed, registered' = NoForwarder,
               \A f \in Forwarders : pc'[f] = "writing" =>
                  pc[f] = "writing" /\ batchTip'[f] = batchTip[f]
        PROVE  StreamInv'
    <2>1. /\ log'.base = tip /\ log'.entries = << >> /\ Len(log'.entries) = 0
          /\ Tip(log') = tip
      BY <1>6 DEF EmptyFrom, Tip
    <2>2. SeqStable' /\ MemoryBounded' /\ PrefixMeetsResident'
      BY <1>6, <2>1 DEF StreamInv, SeqStable, MemoryBounded, PrefixMeetsResident
    <2>3. FloorHeld' /\ BatchInFlight'
      BY <1>2, <1>6, <2>1 DEF StreamInv, FloorHeld, BatchInFlight
    <2> QED
      BY <1>1, <2>2, <2>3 DEF StreamInv
  <1>7. CASE Archive
    BY <1>3, <1>6, <1>7 DEF Archive, streamVars
  <1>8. CASE CrashAndRecover
    <2>1. Tip(log) = pushed
      BY DEF StreamInv, SeqStable
    <2> QED
      BY <1>3, <1>6, <1>8, <2>1 DEF CrashAndRecover
  <1>9. ASSUME NEW f \in Forwarders, CutTail(f)
        PROVE  StreamInv'
    <2>1. pc[f] \in {"first", "waiting"}
      BY <1>9 DEF CutTail
    <2>2. CASE Stopped(f)
      <3>1. ObserveStop(f) /\ pc[f] # "unused"
        BY <1>9, <2>1, <2>2 DEF CutTail
      <3> QED
        BY <1>1, <3>1, ForwarderStepsAreQuiet, QuietStep
    <2>3. CASE ~ Stopped(f)
      <3> DEFINE tail == TailFrom(log, VecIndex(log, <<generation, sent[f]>>, generation))
      <3>1. /\ pc' = [pc EXCEPT ![f] = IF tail = << >> THEN "waiting" ELSE "writing"]
            /\ batchTip' = [batchTip EXCEPT ![f] = IF tail = << >> THEN 0 ELSE Tip(log)]
            /\ UNCHANGED <<log, pushed, archived, prefixLen, registered, sent>>
        BY <1>9, <2>3 DEF CutTail, sessionVars, handleVars
      <3> HIDE DEF tail
      <3>2. Live' \subseteq Live /\ f \in Live
        BY <1>1, <2>1, <3>1 DEF Live, Exited, TypeOK
      <3>3. FloorHeld'
        BY <3>1, <3>2 DEF StreamInv, FloorHeld
      <3>4. registered = f => sent[f] <= Tip(log)
        BY <1>3, <3>2 DEF StreamInv, FloorHeld
      <3>5. BatchInFlight'
        <4> SUFFICES ASSUME NEW g \in Forwarders, pc'[g] = "writing"
                     PROVE  /\ batchTip'[g] <= Tip(log)
                            /\ registered = g => sent[g] <= batchTip'[g]
          BY <3>1 DEF BatchInFlight
        <4>1. CASE g = f
          BY <1>1, <1>3, <3>1, <3>4, <4>1 DEF TypeOK
        <4>2. CASE g # f
          BY <1>1, <3>1, <4>2 DEF StreamInv, BatchInFlight, TypeOK
        <4> QED
          BY <4>1, <4>2
      <3> QED
        BY <1>1, <3>1, <3>3, <3>5
        DEF StreamInv, SeqStable, MemoryBounded, PrefixMeetsResident
    <2> QED
      BY <2>2, <2>3
  <1>10. ASSUME NEW f \in Forwarders, WriteDone(f)
         PROVE  StreamInv'
    <2>1. /\ pc[f] = "writing"
          /\ pc' = [pc EXCEPT ![f] = "waiting"]
          /\ sent' = [sent EXCEPT ![f] = batchTip[f]]
          /\ batchTip' = [batchTip EXCEPT ![f] = 0]
          /\ UNCHANGED <<log, pushed, archived, prefixLen, registered>>
      BY <1>10 DEF WriteDone, NoBatch, sessionVars
    <2>2. f \in Live /\ Live' \subseteq Live
      BY <1>1, <2>1 DEF Live, Exited, TypeOK
    <2>3. registered = f => batchTip[f] \in log.base .. Tip(log)
      <3> SUFFICES ASSUME registered = f
                   PROVE  batchTip[f] \in log.base .. Tip(log)
        OBVIOUS
      <3>1. /\ sent[f] \in log.base .. Tip(log)
            /\ sent[f] <= batchTip[f] /\ batchTip[f] <= Tip(log)
        BY <2>1, <2>2 DEF StreamInv, FloorHeld, BatchInFlight
      <3>2. batchTip[f] \in Nat
        BY <1>1 DEF TypeOK
      <3> QED
        BY <1>3, <3>1, <3>2
    <2>4. FloorHeld'
      BY <1>1, <2>1, <2>2, <2>3 DEF StreamInv, FloorHeld, TypeOK
    <2>5. BatchInFlight'
      BY <1>1, <2>1 DEF StreamInv, BatchInFlight, TypeOK
    <2> QED
      BY <1>1, <2>1, <2>4, <2>5
      DEF StreamInv, SeqStable, MemoryBounded, PrefixMeetsResident
  <1>11. CASE Unarchive
    BY <1>1, <1>11, QuietStep
    DEF Unarchive, Quiet, Live, Exited, handleVars, streamVars
  <1>12. CASE Restart
    BY <1>1, <1>12, QuietStep
    DEF Restart, Quiet, Live, Exited, handleVars, streamVars
  <1>13. CASE UNCHANGED vars
    BY <1>1, <1>13, QuietStep
    DEF vars, Quiet, Live, Exited, sessionVars, handleVars, streamVars
  <1>14. ASSUME NEW c \in Conns, ActorDetach(c) \/ HandlerStep
         PROVE  StreamInv'
    BY <1>1, <1>14, HandlerStepsAreQuiet, QuietStep DEF HandlerStep
  <1>15. CASE HandlerStep
    BY <1>14, <1>15 DEF HandlerStep
  <1>16. ASSUME NEW f \in Forwarders, StreamPrefix(f) \/ FailPrefix(f) \/ WriteFailed(f)
         PROVE  StreamInv'
    BY <1>1, <1>16, ForwarderStepsAreQuiet, QuietStep
  <1> QED
    BY <1>4, <1>5, <1>7, <1>8, <1>9, <1>10, <1>11, <1>12, <1>13, <1>14, <1>15, <1>16
    DEF Next, ActorStep, ForwarderStep

LEMMA StreamInvariant == Spec => []StreamInv
  <1>1. Init => StreamInv
    <2> SUFFICES ASSUME Init
                 PROVE  StreamInv
      OBVIOUS
    <2>1. /\ log.base = 0 /\ log.entries = << >> /\ Len(log.entries) = 0 /\ Tip(log) = 0
          /\ DOMAIN log.entries = {}
      BY DEF Init, EmptyFrom, Tip
    <2>2. TypeOK
      BY InitTyped
    <2>3. SeqStable /\ MemoryBounded /\ PrefixMeetsResident
      BY <2>1 DEF Init, SeqStable, MemoryBounded, PrefixMeetsResident
    <2>4. FloorHeld /\ BatchInFlight
      BY DEF Init, FloorHeld, BatchInFlight, Live, Forwarders, NoForwarder
    <2> QED
      BY <2>2, <2>3, <2>4 DEF StreamInv
  <1>2. StreamInv /\ [Next]_vars => StreamInv'
    BY StreamStep
  <1> QED
    BY <1>1, <1>2, PTL DEF Spec

\* Positions never move (event_log.rs): whatever the pushes, the compactions, the
\* archives and the crashes, a resident entry sits at its own number, so a cursor
\* a client kept names the same event ever after.
THEOREM PositionsAreStable == Spec => []SeqStable
  <1>1. StreamInv => SeqStable
    BY DEF StreamInv
  <1> QED
    BY <1>1, StreamInvariant, PTL

\* enforce_high_water bounds the resident log, for every cap and high-water mark,
\* however many subscribers stall and for however long.
THEOREM MemoryIsBounded == Spec => []MemoryBounded
  <1>1. StreamInv => MemoryBounded
    BY DEF StreamInv
  <1> QED
    BY <1>1, StreamInvariant, PTL

\* The compaction floor holds (compaction_floor): what the registered forwarder
\* has not sent is resident, although it moves its position with no lock held.
THEOREM FloorIsHeld == Spec => []FloorHeld
  <1>1. StreamInv => FloorHeld
    BY DEF StreamInv
  <1> QED
    BY <1>1, StreamInvariant, PTL

\* The durable prefix an attach is granted and the resident log meet without
\* overlap (do_attach), through archive, unarchive and recovery.
THEOREM PrefixAndResidentMeet == Spec => []PrefixMeetsResident
  <1>1. StreamInv => PrefixMeetsResident
    BY DEF StreamInv
  <1> QED
    BY <1>1, StreamInvariant, PTL

\* A forwarder loses its connection's write half only for lagging more than
\* HighWater events behind (enforce_high_water), never for an archive (bug-0028).
THEOREM EvictionIsEarned == Spec => EvictedOnlyWhenWedged
  <1> DEFINE A == \A f \in Forwarders : evicted'[f] /\ ~ evicted[f] =>
                     pushed' - sent[f] > HighWater
  <1>1. StreamInv /\ [Next]_vars => [A]_vars
    <2> SUFFICES ASSUME StreamInv, Next, NEW f \in Forwarders, evicted'[f], ~ evicted[f]
                 PROVE  pushed' - sent[f] > HighWater
      OBVIOUS
    <2>1. evicted' = evicted \/ Push
      BY DEF Next, ActorStep, HandlerStep, ForwarderStep, Attach, ActorDetach, Archive,
             Unarchive, Restart, CrashAndRecover, Spawn, Detach, DropForArchive, Hangup,
             Connect, StreamPrefix, ObserveStop, FailPrefix, CutTail, WriteDone,
             WriteFailed, handleVars
    <2>2. Push
      BY <2>1
    <2> DEFINE grown == Pushed(log, pushed)
    <2>3. Tip(grown) = pushed + 1
      BY PushedLog DEF StreamInv, TypeOK, Entry, SeqStable
    <2>4. evicted' = IF Wedged(grown) THEN [evicted EXCEPT ![Pruned] = TRUE] ELSE evicted
      BY <2>2 DEF Push
    <2>5. Wedged(grown) /\ f = Pruned
      BY <2>4 DEF StreamInv, TypeOK
    <2> QED
      BY <2>2, <2>3, <2>5 DEF Push, Wedged
  <1> HIDE DEF A
  <1>2. Spec => [][A]_vars
    BY <1>1, StreamInvariant, PTL DEF Spec
  <1> QED
    BY <1>2 DEF EvictedOnlyWhenWedged, A

-----------------------------------------------------------------------------
(* What a client is sent.                                                  *)

Ascending(s) ==
    \A i, j \in DOMAIN s : i < j /\ s[i] # Marker /\ s[j] # Marker => s[i] < s[j]

Below(s, n) == \A i \in DOMAIN s : s[i] # Marker => s[i] < n

From(s, n) == \A i \in DOMAIN s : s[i] # Marker => n <= s[i]

(***************************************************************************)
(* Sequences.                                                              *)
(***************************************************************************)

\* An event past all that was written extends the order.
LEMMA AppendOrder ==
    ASSUME NEW s \in Seq(Entry), NEW n \in Nat, Ascending(s), Below(s, n)
    PROVE  Ascending(Append(s, n)) /\ Below(Append(s, n), n + 1)
  <1> DEFINE t == Append(s, n)
  <1>1. /\ DOMAIN t = 1 .. Len(s) + 1 /\ DOMAIN s = 1 .. Len(s) /\ Len(s) \in Nat
        /\ t[Len(s) + 1] = n
        /\ \A i \in DOMAIN s : t[i] = s[i]
    OBVIOUS
  <1>2. \A i \in DOMAIN s : s[i] \in Nat \/ s[i] = Marker
    BY DEF Entry
  <1> HIDE DEF t
  <1>3. Below(t, n + 1)
    BY <1>1, <1>2 DEF Below
  <1>4. Ascending(t)
    <2> SUFFICES ASSUME NEW i \in DOMAIN t, NEW j \in DOMAIN t,
                        i < j, t[i] # Marker, t[j] # Marker
                 PROVE  t[i] < t[j]
      BY DEF Ascending
    <2>1. i \in DOMAIN s
      BY <1>1
    <2>2. CASE j \in DOMAIN s
      BY <1>1, <2>1, <2>2 DEF Ascending
    <2>3. CASE j = Len(s) + 1
      BY <1>1, <2>1, <2>3 DEF Below
    <2> QED
      BY <1>1, <2>2, <2>3
  <1> QED
    BY <1>3, <1>4 DEF t

\* So does a batch that begins where the written part ends.
LEMMA ConcatOrder ==
    ASSUME NEW s \in Seq(Entry), NEW t \in Seq(Entry), NEW n \in Nat, NEW m \in Nat, n <= m,
           Ascending(s), Ascending(t), Below(s, n), From(t, n)
    PROVE  /\ Ascending(s \o t)
           /\ Below(t, m) => Below(s \o t, m)
  <1> DEFINE u == s \o t
  <1>1. /\ DOMAIN u = 1 .. Len(s) + Len(t)
        /\ DOMAIN s = 1 .. Len(s) /\ DOMAIN t = 1 .. Len(t)
        /\ Len(s) \in Nat /\ Len(t) \in Nat
        /\ \A i \in DOMAIN s : u[i] = s[i]
        /\ \A i \in DOMAIN u : i > Len(s) => u[i] = t[i - Len(s)]
    OBVIOUS
  <1>2. /\ \A i \in DOMAIN s : s[i] \in Nat \/ s[i] = Marker
        /\ \A i \in DOMAIN t : t[i] \in Nat \/ t[i] = Marker
    BY DEF Entry
  <1> HIDE DEF u
  <1>3. \A i \in DOMAIN u :
           \/ i \in DOMAIN s /\ u[i] = s[i]
           \/ i > Len(s) /\ i - Len(s) \in DOMAIN t /\ u[i] = t[i - Len(s)]
    BY <1>1
  <1>4. ASSUME Below(t, m)
        PROVE  Below(u, m)
    <2> SUFFICES ASSUME NEW i \in DOMAIN u, u[i] # Marker
                 PROVE  u[i] < m
      BY DEF Below
    <2>1. CASE i \in DOMAIN s /\ u[i] = s[i]
      <3>1. s[i] \in Nat /\ s[i] < n
        BY <1>2, <2>1 DEF Below
      <3> QED
        BY <2>1, <3>1
    <2>2. CASE i - Len(s) \in DOMAIN t /\ u[i] = t[i - Len(s)]
      BY <1>4, <2>2 DEF Below
    <2> QED
      BY <1>3, <2>1, <2>2
  <1>5. Ascending(u)
    <2> SUFFICES ASSUME NEW i \in DOMAIN u, NEW j \in DOMAIN u,
                        i < j, u[i] # Marker, u[j] # Marker
                 PROVE  u[i] < u[j]
      BY DEF Ascending
    <2>1. CASE i \in DOMAIN s /\ j \in DOMAIN s
      BY <1>1, <2>1 DEF Ascending
    <2>2. CASE i \in DOMAIN s /\ j > Len(s)
      <3>1. s[i] \in Nat /\ s[i] < n /\ u[i] = s[i]
        BY <1>1, <1>2, <2>2 DEF Below
      <3>2. j - Len(s) \in DOMAIN t /\ u[j] = t[j - Len(s)]
        BY <1>1, <2>2
      <3>3. t[j - Len(s)] \in Nat /\ n <= t[j - Len(s)]
        BY <1>2, <3>2 DEF From
      <3> QED
        BY <3>1, <3>2, <3>3
    <2>3. CASE i > Len(s) /\ j > Len(s)
      <3>1. /\ i - Len(s) \in DOMAIN t /\ u[i] = t[i - Len(s)]
            /\ j - Len(s) \in DOMAIN t /\ u[j] = t[j - Len(s)]
            /\ i - Len(s) < j - Len(s)
        BY <1>1, <2>3
      <3> QED
        BY <3>1 DEF Ascending
    <2> QED
      BY <1>1, <2>1, <2>2, <2>3
  <1> QED
    BY <1>4, <1>5 DEF u

\* A write that fails half way leaves the front of an ordered batch.
LEMMA CutOrder ==
    ASSUME NEW t \in Seq(Entry), NEW n \in Nat, NEW k \in 0 .. Len(t),
           Ascending(t), From(t, n)
    PROVE  /\ SubSeq(t, 1, k) \in Seq(Entry)
           /\ Ascending(SubSeq(t, 1, k)) /\ From(SubSeq(t, 1, k), n)
  <1> DEFINE u == SubSeq(t, 1, k)
  <1>1. k \in Int /\ DOMAIN t = 1 .. Len(t) /\ Len(t) \in Nat
    OBVIOUS
  <1>2. \A i \in 1 .. k : t[i] \in Entry
    BY ElementOfSeq
  <1>3. u \in Seq(Entry) /\ DOMAIN u = 1 .. k /\ \A i \in 1 .. k : u[i] = t[i]
    <2>1. u \in Seq(Entry) /\ Len(u) = k /\ \A i \in 1 .. k : u[i] = t[i]
      BY <1>1, <1>2, SubSeqProperties
    <2> QED
      BY <2>1
  <1> HIDE DEF u
  <1>4. DOMAIN u \subseteq DOMAIN t
    BY <1>1, <1>3
  <1>5. Ascending(u) /\ From(u, n)
    BY <1>3, <1>4 DEF Ascending, From
  <1> QED
    BY <1>3, <1>5 DEF u

\* The tail cut from the resident log at a position no later than its tip holds
\* the events from that position on, in order (tail_from, resolve_cursor).
LEMMA TailOrder ==
    ASSUME TypeOK, SeqStable, NEW n \in Nat, n <= Tip(log)
    PROVE  LET t == TailFrom(log, VecIndex(log, <<generation, n>>, generation))
           IN  t \in Seq(Entry) /\ Ascending(t) /\ From(t, n) /\ Below(t, Tip(log))
  <1> DEFINE v == VecIndex(log, <<generation, n>>, generation)
             t == TailFrom(log, v)
             len == Len(log.entries)
  <1>1. /\ log \in Log /\ log.base \in Nat /\ log.entries \in Seq(Entry)
        /\ len \in Nat /\ generation \in Nat /\ Tip(log) = log.base + len
    BY DEF TypeOK, Log, Tip
  <1>2. v \in 0 .. len
    BY <1>1, VecIndexInRange
  <1>3. n <= log.base + v
    <2>1. <<generation, n>> # NoCursor
      BY DEF NoCursor
    <2>2. CASE n < log.base
      <3>1. v = 0
        BY <2>2 DEF VecIndex, FromBase
      <3> QED
        BY <1>1, <2>2, <3>1
    <2>3. CASE ~ (n < log.base)
      <3>1. v = n - log.base
        BY <1>1, <2>1, <2>3 DEF VecIndex, FromBase
      <3> QED
        BY <1>1, <3>1
    <2> QED
      BY <2>2, <2>3
  <1> HIDE DEF v
  <1>4. /\ t \in Seq(Entry) /\ DOMAIN t = 1 .. len - v
        /\ \A k \in 1 .. len - v : t[k] = log.entries[v + k]
    <2>1. \A j \in v + 1 .. len : log.entries[j] \in Entry
      BY <1>1, <1>2, ElementOfSeq
    <2>2. v + 1 \in Int /\ len \in Int
      BY <1>1, <1>2
    <2>3. t \in Seq(Entry) /\ Len(t) = IF v + 1 <= len THEN len - (v + 1) + 1 ELSE 0
      BY <2>1, <2>2, SubSeqProperties DEF TailFrom
    <2>4. Len(t) = len - v
      BY <1>1, <1>2, <2>3
    <2>5. \A k \in 1 .. len - v : t[k] = log.entries[v + k]
      <3>1. \A k \in 1 .. len - v : t[k] = log.entries[(v + 1) + k - 1]
        BY <1>1, <1>2, <2>1, <2>2, SubSeqProperties DEF TailFrom
      <3>2. \A k \in 1 .. len - v : (v + 1) + k - 1 = v + k
        BY <1>1, <1>2
      <3> QED
        BY <3>1, <3>2
    <2> QED
      BY <2>3, <2>4, <2>5
  <1>5. \A k \in 1 .. len - v : t[k] # Marker => t[k] = log.base + v + k - 1
    <2> SUFFICES ASSUME NEW k \in 1 .. len - v, t[k] # Marker
                 PROVE  t[k] = log.base + v + k - 1
      OBVIOUS
    <2>1. v + k \in 1 .. len
      BY <1>1, <1>2
    <2>2. log.entries[v + k] = log.base + (v + k) - 1
      BY <1>1, <1>4, <2>1 DEF SeqStable
    <2>3. t[k] = log.entries[v + k]
      BY <1>4
    <2>4. /\ log.base \in Int /\ v \in Int /\ k \in Int
      BY <1>1, <1>2
    <2> QED
      BY <2>2, <2>3, <2>4
  <1> HIDE DEF t, len
  <1>6. Ascending(t)
    BY <1>1, <1>2, <1>4, <1>5 DEF Ascending
  <1>7. From(t, n)
    BY <1>1, <1>2, <1>3, <1>4, <1>5 DEF From
  <1>8. Below(t, Tip(log))
    BY <1>1, <1>2, <1>4, <1>5 DEF Below
  <1> QED
    BY <1>4, <1>6, <1>7, <1>8 DEF t, v

(***************************************************************************)
(* The inductive invariant.                                                *)
(***************************************************************************)

\* What forwarder f has written, by where it is.
InOrder(f) ==
    /\ f > granted => pc[f] = "unused"
    /\ sent[f] <= Tip(log)
    /\ Ascending(out[f])
    /\ pc[f] \in {"unused", "granted"} => out[f] = << >>
    /\ pc[f] \in {"granted", "prefix"} =>
          prefix[f][1] <= prefix[f][2] /\ prefix[f][2] <= sent[f]
    /\ pc[f] = "prefix" => Below(out[f], prefix[f][1])
    /\ pc[f] \in {"first", "waiting", "writing"} => Below(out[f], sent[f])
    /\ pc[f] = "writing" =>
          /\ sent[f] <= batchTip[f] /\ batchTip[f] <= Tip(log)
          /\ Ascending(batch[f]) /\ From(batch[f], sent[f]) /\ Below(batch[f], batchTip[f])

OrderInv == \A f \in Forwarders : InOrder(f)

\* A step that leaves forwarder f alone, or ends it, or forgets what it wrote.
Spared(f) ==
    /\ granted <= granted' /\ Tip(log) <= Tip(log')
    /\ sent'[f] = sent[f] /\ prefix'[f] = prefix[f]
    /\ out'[f] = out[f] \/ out'[f] = << >>
    /\ pc'[f] = pc[f] \/ (pc[f] # "unused" /\ pc'[f] \in {"ended", "stalled"})
    /\ pc'[f] = "writing" => batch'[f] = batch[f] /\ batchTip'[f] = batchTip[f]

\* Order survives such a step.
LEMMA SparedStep ==
    ASSUME TypeOK, TypeOK', NEW f \in Forwarders, InOrder(f), Spared(f)
    PROVE  InOrder(f)'
  <1>1. /\ Tip(log) \in Nat /\ Tip(log') \in Nat /\ sent[f] \in Nat
        /\ granted \in Nat /\ granted' \in Nat /\ batchTip[f] \in Nat
    <2>1. log \in Log /\ log' \in Log
      BY DEF TypeOK
    <2>2. Tip(log) \in Nat /\ Tip(log') \in Nat
      BY <2>1 DEF Log, Tip
    <2>3. granted \in Nat /\ granted' \in Nat
      BY DEF TypeOK
    <2>4. sent[f] \in Nat /\ batchTip[f] \in Nat
      BY DEF TypeOK
    <2> QED
      BY <2>2, <2>3, <2>4
  <1>2. f \in Nat
    BY DEF Forwarders
  <1>3. Ascending(out'[f])
    <2>1. Ascending(<< >>)
      BY DEF Ascending
    <2> QED
      BY <2>1 DEF InOrder, Spared
  <1>4. \A n : Below(out[f], n) => Below(out'[f], n)
    <2>1. \A n : Below(<< >>, n)
      BY DEF Below
    <2> QED
      BY <2>1 DEF Spared
  <1>5. f > granted' => pc'[f] = "unused"
    BY <1>1, <1>2 DEF InOrder, Spared
  <1>6. sent'[f] <= Tip(log')
    BY <1>1 DEF InOrder, Spared
  <1>7. CASE pc'[f] = pc[f]
    <2>1. pc[f] \in {"unused", "granted"} => out'[f] = << >>
      BY DEF InOrder, Spared
    <2>2. /\ pc[f] = "prefix" => Below(out'[f], prefix'[f][1])
          /\ pc[f] \in {"first", "waiting", "writing"} => Below(out'[f], sent'[f])
      BY <1>4 DEF InOrder, Spared
    <2>3. pc[f] = "writing" =>
            /\ sent'[f] <= batchTip'[f] /\ batchTip'[f] <= Tip(log')
            /\ Ascending(batch'[f]) /\ From(batch'[f], sent'[f])
            /\ Below(batch'[f], batchTip'[f])
      BY <1>1, <1>7 DEF InOrder, Spared
    <2>4. pc[f] \in {"granted", "prefix"} =>
            prefix'[f][1] <= prefix'[f][2] /\ prefix'[f][2] <= sent'[f]
      BY DEF InOrder, Spared
    <2> QED
      BY <1>3, <1>5, <1>6, <1>7, <2>1, <2>2, <2>3, <2>4 DEF InOrder
  <1>8. CASE pc'[f] \in {"ended", "stalled"}
    BY <1>3, <1>5, <1>6, <1>8 DEF InOrder
  <1> QED
    BY <1>7, <1>8 DEF Spared

\* The steps of the actor spare every forwarder but the one an attach grants.
LEMMA ActorSpares ==
    ASSUME StreamInv, StreamInv', NEW f \in Forwarders,
           \/ Push \/ Archive \/ Unarchive \/ Restart \/ CrashAndRecover \/ UNCHANGED vars
           \/ \E c \in Conns : ActorDetach(c)
    PROVE  Spared(f)
  <1>1. /\ pushed \in Nat /\ Tip(log) = pushed /\ Tip(log') = pushed'
        /\ granted \in Nat
    BY DEF StreamInv, TypeOK, SeqStable
  <1>2. granted' = granted /\ sent' = sent /\ prefix' = prefix /\ out' = out
    BY DEF Push, Archive, Unarchive, Restart, CrashAndRecover, ActorDetach, vars,
           sessionVars, handleVars, grantVars, streamVars
  <1>3. pushed <= pushed'
    <2>1. CASE Push
      BY <1>1, <2>1 DEF Push
    <2>2. CASE ~ Push
      <3>1. pushed' = pushed
        BY <2>2 DEF Archive, Unarchive, Restart, CrashAndRecover, ActorDetach, vars, sessionVars
      <3> QED
        BY <1>1, <3>1
    <2> QED
      BY <2>1, <2>2
  <1>4. CASE CrashAndRecover
    <2>1. pc'[f] = IF pc[f] = "unused" THEN "unused" ELSE "ended"
      BY <1>4 DEF CrashAndRecover
    <2> QED
      BY <1>1, <1>2, <1>3, <2>1 DEF Spared
  <1>5. CASE ~ CrashAndRecover
    <2>1. pc' = pc /\ batch' = batch /\ batchTip' = batchTip
      BY <1>5 DEF Push, Archive, Unarchive, Restart, ActorDetach, vars, streamVars
    <2> QED
      BY <1>1, <1>2, <1>3, <2>1 DEF Spared
  <1> QED
    BY <1>4, <1>5

\* The steps of a connection's handler spare every forwarder but the one spawned.
LEMMA HandlerSpares ==
    ASSUME StreamInv, StreamInv', NEW f \in Forwarders, NEW c \in Conns,
           \/ \E g \in Forwarders : Spawn(c, g) /\ g # f
           \/ Detach(c) \/ DropForArchive(c) \/ Hangup(c) \/ Connect(c)
    PROVE  Spared(f)
  <1>1. Tip(log) \in Nat /\ granted \in Nat
    BY DEF StreamInv, TypeOK, SeqStable
  <1>2. granted' = granted /\ log' = log /\ sent' = sent /\ prefix' = prefix
    BY DEF Spawn, Detach, DropForArchive, Hangup, Connect,
           sessionVars, handleVars, grantVars, streamVars
  <1>3. ASSUME Abort(c)
        PROVE  /\ pc'[f] = pc[f] \/ (pc[f] # "unused" /\ pc'[f] = "ended")
               /\ pc'[f] = "writing" => batch'[f] = batch[f] /\ batchTip'[f] = batchTip[f]
    BY <1>3 DEF Abort, DropBatch, Ended, Live
  <1>4. ASSUME NEW g \in Forwarders, Spawn(c, g), g # f
        PROVE  Spared(f)
    <2>1. /\ out'[f] = out[f] \/ out'[f] = << >>
          /\ pc'[f] = IF f \in Ended(c) THEN "ended" ELSE pc[f]
          /\ pc'[f] = "writing" => batch'[f] = batch[f] /\ batchTip'[f] = batchTip[f]
      BY <1>4 DEF Spawn, DropBatch
    <2>2. f \in Ended(c) => pc[f] # "unused"
      BY DEF Ended, Live
    <2> QED
      BY <1>1, <1>2, <2>1, <2>2 DEF Spared
  <1>5. CASE Detach(c) \/ DropForArchive(c)
    <2>1. Abort(c) /\ out' = out
      BY <1>5 DEF Detach, DropForArchive
    <2> QED
      BY <1>1, <1>2, <1>3, <2>1 DEF Spared
  <1>6. CASE Hangup(c)
    <2>1. out' = out /\ (Abort(c) \/ UNCHANGED <<pc, batch, batchTip>>)
      BY <1>6 DEF Hangup
    <2> QED
      BY <1>1, <1>2, <1>3, <2>1 DEF Spared
  <1>7. CASE Connect(c)
    BY <1>1, <1>2, <1>7 DEF Connect, Spared, streamVars
  <1> QED
    BY <1>4, <1>5, <1>6, <1>7

\* A forwarder's step touches no other.
LEMMA OthersUntouched ==
    ASSUME StreamInv, NEW f \in Forwarders, NEW g \in Forwarders, g # f, ForwarderStep(g)
    PROVE  UNCHANGED <<pc[f], sent[f], prefix[f], out[f], batch[f], batchTip[f]>>
  <1>1. ASSUME ObserveStop(g)
        PROVE  UNCHANGED <<pc[f], sent[f], prefix[f], out[f], batch[f], batchTip[f]>>
    BY <1>1 DEF ObserveStop, handleVars, streamVars, StreamInv, TypeOK
  <1>2. ASSUME WriteEnds(g)
        PROVE  pc'[f] = pc[f]
    BY <1>2 DEF WriteEnds, StreamInv, TypeOK
  <1>3. CASE StreamPrefix(g)
    BY <1>1, <1>3 DEF StreamPrefix, handleVars, streamVars, StreamInv, TypeOK
  <1>4. CASE FailPrefix(g)
    BY <1>2, <1>4 DEF FailPrefix, handleVars, streamVars
  <1>5. CASE CutTail(g)
    BY <1>1, <1>5 DEF CutTail, handleVars, StreamInv, TypeOK
  <1>6. CASE WriteDone(g)
    BY <1>6 DEF WriteDone, NoBatch, StreamInv, TypeOK
  <1>7. CASE WriteFailed(g)
    BY <1>2, <1>7 DEF WriteFailed, NoBatch, handleVars, StreamInv, TypeOK
  <1> QED
    BY <1>3, <1>4, <1>5, <1>6, <1>7 DEF ForwarderStep

\* A forwarder's step spares the others; its failing steps spare itself.
LEMMA ForwarderSpares ==
    ASSUME StreamInv, StreamInv', NEW f \in Forwarders, NEW g \in Forwarders,
           \/ g # f /\ ForwarderStep(g)
           \/ ObserveStop(f) /\ pc[f] # "unused"
           \/ FailPrefix(f)
    PROVE  Spared(f)
  <1>1. Tip(log) \in Nat /\ granted \in Nat
    BY DEF StreamInv, TypeOK, SeqStable
  <1>2. granted' = granted /\ log' = log
    BY DEF ForwarderStep, StreamPrefix, FailPrefix, CutTail, WriteDone, WriteFailed,
           ObserveStop, sessionVars, grantVars
  <1>3. CASE ObserveStop(f) /\ pc[f] # "unused"
    <2>1. pc'[f] = "ended" /\ sent' = sent /\ prefix' = prefix /\ out' = out
      BY <1>3 DEF ObserveStop, handleVars, streamVars, StreamInv, TypeOK
    <2> QED
      BY <1>1, <1>2, <1>3, <2>1 DEF Spared
  <1>4. CASE FailPrefix(f)
    <2>1. /\ pc'[f] \in {"ended", "stalled"} /\ pc[f] # "unused"
          /\ sent' = sent /\ prefix' = prefix /\ out' = out
      BY <1>4 DEF FailPrefix, WriteEnds, handleVars, streamVars, StreamInv, TypeOK
    <2> QED
      BY <1>1, <1>2, <2>1 DEF Spared
  <1>5. CASE g # f /\ ForwarderStep(g)
    <2>1. UNCHANGED <<pc[f], sent[f], prefix[f], out[f], batch[f], batchTip[f]>>
      BY <1>5, OthersUntouched
    <2> QED
      BY <1>1, <1>2, <2>1 DEF Spared
  <1> QED
    BY <1>3, <1>4, <1>5

\* The forwarder's own steps keep what it writes in order.
LEMMA OwnStep ==
    ASSUME StreamInv, StreamInv', NEW f \in Forwarders, InOrder(f), ForwarderStep(f)
    PROVE  InOrder(f)'
  <1>1. /\ TypeOK /\ TypeOK' /\ SeqStable
        /\ Tip(log) \in Nat /\ sent[f] \in Nat /\ batchTip[f] \in Nat
        /\ out[f] \in Seq(Entry) /\ batch[f] \in Seq(Entry)
        /\ prefix[f] \in Nat \X Nat /\ prefix[f][1] \in Nat /\ prefix[f][2] \in Nat
    BY DEF StreamInv, TypeOK, SeqStable
  <1>2. granted' = granted /\ log' = log
    BY DEF ForwarderStep, StreamPrefix, FailPrefix, CutTail, WriteDone, WriteFailed,
           ObserveStop, sessionVars, grantVars
  <1>3. CASE ObserveStop(f) /\ pc[f] # "unused"
    BY <1>1, <1>3, ForwarderSpares, SparedStep
  <1>4. pc[f] # "unused"
    BY DEF ForwarderStep, StreamPrefix, FailPrefix, CutTail, WriteDone, WriteFailed
  <1>5. ~ (f > granted)
    BY <1>4 DEF InOrder
  <1>6. CASE StreamPrefix(f) /\ ~ ObserveStop(f)
    <2>1. CASE prefix[f][1] + 1 > prefix[f][2]
      <3>1. /\ pc[f] = "prefix" /\ pc'[f] = "first"
            /\ sent'[f] = sent[f] /\ out'[f] = out[f]
        BY <1>1, <1>6, <2>1 DEF StreamPrefix, handleVars, streamVars, TypeOK
      <3>2. prefix[f][1] <= sent[f] /\ Below(out[f], prefix[f][1]) /\ Ascending(out[f])
        BY <1>1, <3>1 DEF InOrder
      <3>3. Below(out[f], sent[f])
        <4> SUFFICES ASSUME NEW i \in DOMAIN out[f], out[f][i] # Marker
                     PROVE  out[f][i] < sent[f]
          BY DEF Below
        <4>1. out[f][i] \in Nat /\ out[f][i] < prefix[f][1]
          BY <1>1, <3>2 DEF Below, Entry
        <4> QED
          BY <1>1, <3>2, <4>1
      <3> QED
        BY <1>2, <1>5, <3>1, <3>2, <3>3 DEF InOrder
    <2>2. CASE ~ (prefix[f][1] + 1 > prefix[f][2])
      <3>1. /\ pc[f] = "prefix" /\ pc' = pc /\ sent' = sent
            /\ out' = [out EXCEPT ![f] = Append(@, (prefix[f][1] + 1) - 1)]
            /\ prefix' = [prefix EXCEPT ![f] = <<prefix[f][1] + 1, @[2]>>]
        BY <1>6, <2>2 DEF StreamPrefix, handleVars
      <3>2. /\ out'[f] = Append(out[f], prefix[f][1])
            /\ prefix'[f][1] = prefix[f][1] + 1 /\ prefix'[f][2] = prefix[f][2]
        <4>1. (prefix[f][1] + 1) - 1 = prefix[f][1]
          BY <1>1
        <4> QED
          BY <1>1, <3>1, <4>1 DEF TypeOK
      <3>3. Below(out[f], prefix[f][1]) /\ Ascending(out[f]) /\ prefix[f][2] <= sent[f]
        BY <3>1 DEF InOrder
      <3>4. Ascending(out'[f]) /\ Below(out'[f], prefix[f][1] + 1)
        BY <1>1, <3>2, <3>3, AppendOrder
      <3>5. prefix'[f][1] <= prefix'[f][2]
        BY <1>1, <2>2, <3>2
      <3> QED
        BY <1>2, <1>5, <3>1, <3>2, <3>3, <3>4, <3>5 DEF InOrder
    <2> QED
      BY <2>1, <2>2
  <1>7. CASE FailPrefix(f)
    BY <1>1, <1>7, ForwarderSpares, SparedStep
  <1>8. CASE CutTail(f) /\ ~ Stopped(f)
    <2> DEFINE tail == TailFrom(log, VecIndex(log, <<generation, sent[f]>>, generation))
    <2>1. sent[f] <= Tip(log) /\ Below(out[f], sent[f]) /\ Ascending(out[f])
      BY <1>8 DEF InOrder, CutTail
    <2>2. Ascending(tail) /\ From(tail, sent[f]) /\ Below(tail, Tip(log))
      BY <1>1, <2>1, TailOrder
    <2>3. /\ pc' = [pc EXCEPT ![f] = IF tail = << >> THEN "waiting" ELSE "writing"]
          /\ batch' = [batch EXCEPT ![f] = tail]
          /\ batchTip' = [batchTip EXCEPT ![f] = IF tail = << >> THEN 0 ELSE Tip(log)]
          /\ sent' = sent /\ out' = out
      BY <1>8 DEF CutTail, handleVars
    <2> HIDE DEF tail
    <2>4. /\ pc'[f] = IF tail = << >> THEN "waiting" ELSE "writing"
          /\ batch'[f] = tail
          /\ tail # << >> => batchTip'[f] = Tip(log)
      BY <1>1, <2>3 DEF TypeOK
    <2>5. Tip(log) <= Tip(log)
      BY <1>1
    <2> QED
      BY <1>2, <1>5, <2>1, <2>2, <2>3, <2>4, <2>5 DEF InOrder
  <1>9. CASE WriteDone(f)
    <2>1. /\ pc[f] = "writing" /\ pc'[f] = "waiting"
          /\ out'[f] = out[f] \o batch[f] /\ sent'[f] = batchTip[f]
      BY <1>1, <1>9 DEF WriteDone, TypeOK
    <2>2. /\ sent[f] <= batchTip[f] /\ batchTip[f] <= Tip(log)
          /\ Ascending(out[f]) /\ Below(out[f], sent[f])
          /\ Ascending(batch[f]) /\ From(batch[f], sent[f]) /\ Below(batch[f], batchTip[f])
      BY <2>1 DEF InOrder
    <2>3. Ascending(out'[f]) /\ Below(out'[f], sent'[f])
      BY <1>1, <2>1, <2>2, ConcatOrder
    <2> QED
      BY <1>2, <1>5, <2>1, <2>2, <2>3 DEF InOrder
  <1>10. CASE WriteFailed(f)
    <2>1. /\ pc[f] = "writing" /\ pc'[f] \in {"ended", "stalled"} /\ sent' = sent
      BY <1>1, <1>10 DEF WriteFailed, WriteEnds, handleVars, TypeOK
    <2>2. PICK n \in 0 .. Len(batch[f]) : out'[f] = out[f] \o SubSeq(batch[f], 1, n)
      BY <1>1, <1>10 DEF WriteFailed, TypeOK
    <2> DEFINE cut == SubSeq(batch[f], 1, n)
    <2>3. /\ Ascending(out[f]) /\ Below(out[f], sent[f])
          /\ Ascending(batch[f]) /\ From(batch[f], sent[f])
      BY <2>1 DEF InOrder
    <2>4. cut \in Seq(Entry) /\ Ascending(cut) /\ From(cut, sent[f])
      BY <1>1, <2>3, CutOrder
    <2>5. sent[f] <= sent[f]
      BY <1>1
    <2> HIDE DEF cut
    <2>6. Ascending(out[f] \o cut)
      BY <1>1, <2>3, <2>4, <2>5, ConcatOrder
    <2>7. Ascending(out'[f]) /\ sent'[f] <= Tip(log)
      BY <2>1, <2>2, <2>6 DEF cut, InOrder
    <2> QED
      BY <1>2, <1>5, <2>1, <2>7 DEF InOrder
  <1> QED
    BY <1>3, <1>4, <1>6, <1>7, <1>8, <1>9, <1>10 DEF ForwarderStep, CutTail

\* A grant starts at a resident position, with a prefix that ends no later.
LEMMA AttachStep ==
    ASSUME StreamInv, StreamInv', OrderInv, NEW c \in Conns, NEW cursor \in Cursors,
           Attach(c, cursor), NEW f \in Forwarders
    PROVE  InOrder(f)'
  <1>1. /\ TypeOK /\ TypeOK' /\ granted \in Nat /\ log \in Log /\ log.base \in Nat
        /\ Len(log.entries) \in Nat /\ Tip(log) = log.base + Len(log.entries)
        /\ generation \in Nat /\ prefixLen \in Nat /\ prefixLen <= log.base
    <2>1. TypeOK /\ TypeOK' /\ prefixLen <= log.base
      BY DEF StreamInv, PrefixMeetsResident
    <2>2. log \in Log /\ granted \in Nat /\ generation \in Nat /\ prefixLen \in Nat
      BY <2>1 DEF TypeOK
    <2>3. log.base \in Nat /\ Len(log.entries) \in Nat
      BY <2>2 DEF Log
    <2> QED
      BY <2>1, <2>2, <2>3 DEF Tip
  <1>2. /\ granted' = granted + 1 /\ log' = log /\ out' = out
        /\ batch' = batch /\ batchTip' = batchTip
    BY DEF Attach, sessionVars
  <1>3. CASE f # granted + 1
    <2>1. pc'[f] = pc[f] /\ sent'[f] = sent[f] /\ prefix'[f] = prefix[f]
      BY <1>1, <1>3 DEF Attach, TypeOK
    <2>2. Spared(f)
      BY <1>1, <1>2, <2>1 DEF Spared
    <2> QED
      BY <1>1, <2>2, SparedStep DEF OrderInv
  <1>4. CASE f = granted + 1
    <2> DEFINE v == VecIndex(log, cursor, generation)
    <2>1. cursor \in {NoCursor} \cup (Nat \X Nat)
      BY <1>1 DEF Cursors
    <2>2. v \in 0 .. Len(log.entries)
      BY <1>1, <2>1, VecIndexInRange
    <2>3. /\ pc'[f] = "granted" /\ sent'[f] = log.base + v
          /\ prefix'[f] = <<0, IF FromBase(log, cursor, generation) THEN prefixLen ELSE 0>>
      BY <1>1, <1>4 DEF Attach, TypeOK
    <2> HIDE DEF v
    <2>4. out[f] = << >>
      <3>1. f > granted
        BY <1>1, <1>4
      <3> QED
        BY <3>1 DEF OrderInv, InOrder
    <2>5. prefix'[f][1] = 0 /\ prefix'[f][2] \in 0 .. log.base
      BY <1>1, <2>3
    <2>6. /\ sent'[f] <= Tip(log) /\ prefix'[f][1] <= prefix'[f][2]
          /\ prefix'[f][2] <= sent'[f] /\ ~ (f > granted')
      <3>1. sent'[f] <= Tip(log) /\ log.base <= sent'[f] /\ sent'[f] \in Nat
        <4>1. v \in Nat /\ v <= Len(log.entries)
          BY <1>1, <2>2
        <4> QED
          BY <1>1, <2>3, <4>1
      <3>2. ~ (f > granted')
        BY <1>1, <1>2, <1>4
      <3> QED
        BY <1>1, <2>5, <3>1, <3>2
    <2>7. Ascending(<< >>)
      BY DEF Ascending
    <2> QED
      BY <1>2, <2>3, <2>4, <2>6, <2>7 DEF InOrder
  <1> QED
    BY <1>3, <1>4

\* A forwarder is spawned with nothing written.
LEMMA SpawnStep ==
    ASSUME StreamInv, StreamInv', NEW c \in Conns, NEW f \in Forwarders, InOrder(f),
           Spawn(c, f)
    PROVE  InOrder(f)'
  <1>1. TypeOK /\ prefix[f][1] \in Nat
    BY DEF StreamInv, TypeOK
  <1>2. /\ pc[f] = "granted" /\ pc'[f] \in {"first", "prefix"}
        /\ granted' = granted /\ log' = log /\ sent' = sent /\ prefix' = prefix
    BY <1>1 DEF Spawn, TypeOK, sessionVars, handleVars, grantVars
  <1>3. out[f] = << >> /\ out'[f] = << >>
    <2>1. out[f] = << >>
      BY <1>2 DEF InOrder
    <2> QED
      BY <2>1 DEF Spawn
  <1>4. Ascending(<< >>) /\ \A n : Below(<< >>, n)
    BY DEF Ascending, Below
  <1> QED
    BY <1>2, <1>3, <1>4 DEF InOrder

\* Every step keeps every forwarder in order.
LEMMA OrderStep ==
    ASSUME StreamInv, StreamInv', OrderInv, [Next]_vars
    PROVE  OrderInv'
  <1> SUFFICES ASSUME NEW f \in Forwarders
               PROVE  InOrder(f)'
    BY DEF OrderInv
  <1>1. InOrder(f) /\ TypeOK /\ TypeOK'
    BY DEF OrderInv, StreamInv
  <1>2. ASSUME Spared(f)
        PROVE  InOrder(f)'
    BY <1>1, <1>2, SparedStep
  <1>3. CASE ActorStep
    <2>1. ASSUME NEW c \in Conns, NEW cursor \in Cursors, Attach(c, cursor)
          PROVE  InOrder(f)'
      BY <2>1, AttachStep
    <2>2. CASE \/ Push \/ Archive \/ Unarchive \/ Restart
               \/ \E c \in Conns : ActorDetach(c)
      <3>1. Spared(f)
        BY <2>2, ActorSpares
      <3> QED
        BY <1>2, <3>1
    <2> QED
      BY <1>3, <2>1, <2>2 DEF ActorStep
  <1>4. CASE HandlerStep
    BY <1>1, <1>2, <1>4, HandlerSpares, SpawnStep DEF HandlerStep
  <1>5. ASSUME NEW g \in Forwarders, ForwarderStep(g)
        PROVE  InOrder(f)'
    BY <1>1, <1>2, <1>5, ForwarderSpares, OwnStep
  <1>6. CASE CrashAndRecover \/ UNCHANGED vars
    BY <1>2, <1>6, ActorSpares
  <1> QED
    BY <1>3, <1>4, <1>5, <1>6 DEF Next

\* Every forwarder is in order at all times.
LEMMA OrderInvariant == Spec => []OrderInv
  <1>1. Init => OrderInv
    <2> SUFFICES ASSUME Init, NEW f \in Forwarders
                 PROVE  InOrder(f)
      BY DEF OrderInv
    <2>1. Tip(log) = 0
      BY DEF Init, EmptyFrom, Tip
    <2>2. pc[f] = "unused" /\ sent[f] = 0 /\ out[f] = << >>
      BY DEF Init
    <2>3. Ascending(<< >>)
      BY DEF Ascending
    <2> QED
      BY <2>1, <2>2, <2>3 DEF InOrder
  <1>2. StreamInv /\ StreamInv' /\ OrderInv /\ [Next]_vars => OrderInv'
    BY OrderStep
  <1> QED
    BY <1>1, <1>2, StreamInvariant, PTL DEF Spec

\* No event twice and none out of order (forward_notifications: "never a
\* stale-offset gap/dup"), for every client on its newest attach and in truth on any:
\* whatever other connections attach, detach or archive meanwhile.
THEOREM SubscribersSeeOrder == Spec => []NeverRepeats
  <1>1. OrderInv => NeverRepeats
    BY DEF OrderInv, InOrder, NeverRepeats, Ascending
  <1> QED
    BY <1>1, OrderInvariant, PTL

(***************************************************************************)
(* With one connection the newest forwarder is fed without a silent gap.   *)
(* Until a later attach replaces it, it is the one the actor listens to or *)
(* it was told to stop; so the log is never trimmed past its position, and *)
(* what the log holds from there on continues what it wrote.               *)
(***************************************************************************)

\* One client subscribes to the session.
OneConnection == \A c, d \in Conns : c = d

\* s, read from position n on, ends just before event e.
Reaches(s, n, e) ==
    IF s = << >> THEN e = n ELSE s[Len(s)] # Marker /\ e = s[Len(s)] + 1

\* A marker in s stands behind the first k events only.
MarkedAt(s, k) == \A i \in DOMAIN s : s[i] = Marker => i = k + 1

\* t is the tail of a log from position p on: consecutive, but for a marker that
\* may stand in the first place, and never alone.
TailAt(t, p) ==
    /\ t # << >> /\ t[Len(t)] # Marker
    /\ \A k \in DOMAIN t : t[k] = p + k - 1 \/ (k = 1 /\ t[k] = Marker)

\* Nothing written is a feed.
LEMMA FaithfulEmpty == \A n : Feed!Faithful(<< >>, n)
  BY DEF Feed!Faithful

\* The next event continues a feed.
LEMMA FaithfulAppend ==
    ASSUME NEW s \in Seq(Entry), NEW n \in Nat, NEW e \in Nat,
           Feed!Faithful(s, n), Reaches(s, n, e)
    PROVE  Feed!Faithful(Append(s, e), n) /\ Reaches(Append(s, e), n, e + 1)
  <1> DEFINE t == Append(s, e)
  <1>1. /\ DOMAIN t = 1 .. Len(s) + 1 /\ DOMAIN s = 1 .. Len(s) /\ Len(s) \in Nat
        /\ t[Len(s) + 1] = e /\ Len(t) = Len(s) + 1 /\ t # << >>
        /\ \A i \in DOMAIN s : t[i] = s[i]
    OBVIOUS
  <1>2. \A i \in DOMAIN s : s[i] \in Nat \/ s[i] = Marker
    BY DEF Entry
  <1>3. Marker \notin Int
    BY MarkerAssumption
  <1> HIDE DEF t
  <1>4. Feed!Faithful(t, n)
    <2>1. \A i \in DOMAIN s : Feed!Before(t, i, n) = Feed!Before(s, i, n)
      BY <1>1 DEF Feed!Before
    <2>2. \A i \in DOMAIN s : i - 1 \in DOMAIN s \/ i - 1 = 0
      BY <1>1
    <2> QED
      BY <1>1, <1>2, <1>3, <2>1, <2>2 DEF Feed!Faithful, Feed!Before, Reaches
  <1> QED
    BY <1>1, <1>3, <1>4 DEF t, Reaches

\* So does the tail of a log: at its own position, or, a marker in front, at any
\* position the feed has reached before it.
LEMMA FaithfulJoin ==
    ASSUME NEW s \in Seq(Entry), NEW t \in Seq(Entry), NEW n \in Nat, NEW e \in Nat,
           NEW p \in Nat, Feed!Faithful(s, n), Reaches(s, n, e), TailAt(t, p),
           IF t[1] = Marker THEN e <= p ELSE e = p
    PROVE  Feed!Faithful(s \o t, n) /\ Reaches(s \o t, n, p + Len(t))
  <1> DEFINE u == s \o t
             b == Len(s)
  <1>1. /\ DOMAIN u = 1 .. b + Len(t) /\ DOMAIN s = 1 .. b /\ DOMAIN t = 1 .. Len(t)
        /\ Len(u) = b + Len(t) /\ b \in Nat /\ Len(t) \in Nat
        /\ \A i \in 1 .. b : u[i] = s[i]
        /\ \A i \in DOMAIN u : i > b => u[i] = t[i - b]
    OBVIOUS
  <1>2. /\ \A i \in DOMAIN s : s[i] \in Nat \/ s[i] = Marker
        /\ \A i \in DOMAIN t : t[i] \in Nat \/ t[i] = Marker
    BY DEF Entry
  <1>3. Marker \notin Int
    BY MarkerAssumption
  <1>4. Len(t) >= 1 /\ (b = 0 <=> s = << >>) /\ u # << >>
    <2>1. t # << >>
      BY DEF TailAt
    <2>2. Len(t) >= 1
      BY <2>1
    <2> QED
      BY <1>1, <2>2
  <1> HIDE DEF u, b
  <1>5. /\ b > 0 => s[b] \in Nat /\ e = s[b] + 1
        /\ b = 0 => e = n
    BY <1>1, <1>2, <1>4 DEF Reaches, b
  <1>6. /\ t[1] = Marker \/ t[1] = p
        /\ \A k \in 2 .. Len(t) : t[k] = p + k - 1
        /\ t[1] = Marker => Len(t) >= 2
    <2>1. t[1] = Marker \/ t[1] = p
      BY <1>1, <1>4 DEF TailAt
    <2>2. \A k \in 2 .. Len(t) : t[k] = p + k - 1
      BY <1>1, <1>4 DEF TailAt
    <2>3. t[1] = Marker => Len(t) >= 2
      BY <1>1, <1>4 DEF TailAt
    <2> QED
      BY <2>1, <2>2, <2>3
  <1>7. Feed!Before(u, b + 1, n) = e - 1
    BY <1>1, <1>5 DEF Feed!Before
  <1>8. ASSUME NEW i \in DOMAIN u
        PROVE  IF u[i] = Marker THEN Feed!Before(u, i, n) # Marker
               ELSE IF Feed!Before(u, i, n) # Marker THEN u[i] = Feed!Before(u, i, n) + 1
               ELSE u[i] > Feed!Before(u, i - 1, n) + 1
    <2>1. CASE i <= b
      <3>1. i \in 1 .. b
        BY <1>1, <2>1
      <3>2. u[i] = s[i] /\ Feed!Before(u, i, n) = Feed!Before(s, i, n)
        BY <1>1, <3>1 DEF Feed!Before
      <3>3. i > 1 => Feed!Before(u, i - 1, n) = Feed!Before(s, i - 1, n)
        BY <1>1, <3>1 DEF Feed!Before
      <3>4. i = 1 => Feed!Before(s, i, n) # Marker
        BY <1>3 DEF Feed!Before
      <3> QED
        BY <1>1, <3>1, <3>2, <3>3, <3>4 DEF Feed!Faithful
    <2>2. CASE i = b + 1
      <3>1. u[i] = t[1]
        BY <1>1, <1>4, <2>2
      <3> QED
        BY <1>3, <1>6, <1>7, <2>2, <3>1
    <2>3. CASE i > b + 1
      <3>1. /\ i - b \in 2 .. Len(t) /\ u[i] = t[i - b]
            /\ Feed!Before(u, i, n) = u[i - 1] /\ u[i - 1] = t[i - 1 - b]
            /\ i - 1 - b \in 1 .. Len(t)
        BY <1>1, <2>3 DEF Feed!Before
      <3>2. u[i] = p + (i - b) - 1 /\ u[i] # Marker
        BY <1>1, <1>3, <1>6, <3>1
      <3>3. CASE i = b + 2
        <4>1. i - 1 = b + 1 /\ i - 1 - b = 1 /\ i - b = 2
          BY <1>1, <3>3
        <4>2. u[i] = p + 1 /\ Feed!Before(u, i, n) = t[1] /\ Feed!Before(u, i - 1, n) = e - 1
          BY <1>1, <1>7, <3>1, <3>2, <4>1
        <4> QED
          BY <1>3, <1>6, <3>2, <4>2
      <3>4. CASE i > b + 2
        <4>1. i - 1 - b \in 2 .. Len(t)
          BY <1>1, <3>1, <3>4
        <4>2. Feed!Before(u, i, n) = p + (i - 1 - b) - 1
          BY <1>6, <3>1, <4>1
        <4>3. p + (i - b) - 1 = (p + (i - 1 - b) - 1) + 1 /\ p + (i - 1 - b) - 1 \in Int
          BY <1>1
        <4> QED
          BY <1>3, <3>2, <4>2, <4>3
      <3> QED
        BY <1>1, <2>3, <3>3, <3>4
    <2> QED
      BY <1>1, <2>1, <2>2, <2>3
  <1>9. Feed!Faithful(u, n)
    BY <1>8 DEF Feed!Faithful
  <1>10. Reaches(u, n, p + Len(t))
    <2>1. u[Len(u)] = t[Len(t)]
      BY <1>1, <1>4
    <2>2. t[Len(t)] # Marker /\ t[Len(t)] = p + Len(t) - 1
      BY <1>1, <1>4, <1>6 DEF TailAt
    <2> QED
      BY <1>1, <1>4, <2>1, <2>2 DEF Reaches
  <1> QED
    BY <1>9, <1>10 DEF u

\* The elements of a concatenation.
LEMMA ConcatElements ==
    ASSUME NEW s \in Seq(Entry), NEW t \in Seq(Entry)
    PROVE  /\ DOMAIN (s \o t) = 1 .. Len(s) + Len(t)
           /\ \A i \in 1 .. Len(s) + Len(t) :
                 (s \o t)[i] = IF i <= Len(s) THEN s[i] ELSE t[i - Len(s)]
  OBVIOUS

\* What a failed write got through is the front of a feed.
LEMMA FaithfulFront ==
    ASSUME NEW s \in Seq(Entry), NEW t \in Seq(Entry), NEW n \in Nat,
           NEW k \in 0 .. Len(t), NEW m, NEW j, Feed!Faithful(s \o t, n),
           Below(s \o t, m), MarkedAt(s \o t, j)
    PROVE  LET u == s \o SubSeq(t, 1, k)
           IN  Feed!Faithful(u, n) /\ Below(u, m) /\ MarkedAt(u, j)
  <1> DEFINE u == s \o SubSeq(t, 1, k)
             w == s \o t
             c == SubSeq(t, 1, k)
  <1>1. k \in Int /\ DOMAIN t = 1 .. Len(t) /\ Len(t) \in Nat
    OBVIOUS
  <1>2. \A i \in 1 .. k : t[i] \in Entry
    BY ElementOfSeq
  <1>3. c \in Seq(Entry) /\ Len(c) = k /\ \A i \in 1 .. k : c[i] = t[i]
    BY <1>1, <1>2, SubSeqProperties
  <1> HIDE DEF c
  <1>4. /\ DOMAIN (s \o c) = 1 .. Len(s) + k
        /\ \A i \in 1 .. Len(s) + k : (s \o c)[i] = w[i]
        /\ DOMAIN w = 1 .. Len(s) + Len(t) /\ Len(s) \in Nat
    <2>1. /\ DOMAIN w = 1 .. Len(s) + Len(t) /\ Len(s) \in Nat
          /\ \A i \in DOMAIN w : w[i] = IF i <= Len(s) THEN s[i] ELSE t[i - Len(s)]
      BY ConcatElements
    <2>2. /\ DOMAIN (s \o c) = 1 .. Len(s) + k
          /\ \A i \in 1 .. Len(s) + k :
                (s \o c)[i] = IF i <= Len(s) THEN s[i] ELSE c[i - Len(s)]
      BY <1>3, ConcatElements
    <2> HIDE DEF w
    <2>3. \A i \in 1 .. Len(s) + k : i \in DOMAIN w /\ (i <= Len(s) \/ i - Len(s) \in 1 .. k)
      BY <1>1, <2>1
    <2> QED
      BY <1>3, <2>1, <2>2, <2>3
  <1>5. u = s \o c
    BY DEF c
  <1> HIDE DEF u, w
  <1>6. /\ DOMAIN u = 1 .. Len(s) + k /\ DOMAIN u \subseteq DOMAIN w
        /\ \A i \in DOMAIN u : u[i] = w[i]
    BY <1>1, <1>4, <1>5
  <1>7. Below(u, m) /\ MarkedAt(u, j)
    <2>1. Below(w, m) /\ MarkedAt(w, j)
      BY DEF w
    <2> QED
      BY <1>6, <2>1 DEF Below, MarkedAt
  <1>8. Feed!Faithful(u, n)
    <2>1. Feed!Faithful(w, n)
      BY DEF w
    <2>2. \A i \in DOMAIN u : Feed!Before(u, i, n) = Feed!Before(w, i, n)
      BY <1>4, <1>6 DEF Feed!Before
    <2>3. \A i \in DOMAIN u : i = 1 \/ i - 1 \in DOMAIN u
      BY <1>4, <1>6
    <2>4. Feed!Before(w, 1, n) # Marker
      BY MarkerAssumption DEF Feed!Before
    <2> QED
      BY <1>6, <2>1, <2>2, <2>3, <2>4 DEF Feed!Faithful
  <1> QED
    BY <1>7, <1>8 DEF u

\* The log ends with an event: a compaction leaves at least one behind its marker.
EventLast == log.entries # << >> => log.entries[Len(log.entries)] # Marker

\* The marker has the slot of position n.
MarkerAt(n) == log.entries # << >> /\ log.entries[1] = Marker /\ log.base = n

\* The newest forwarder is the one its connection has, once spawned, and the one
\* the actor listens to, until it is told to stop.
Attached(f) ==
    /\ pc[f] # "unused" <=> f <= granted
    /\ pc[f] = "granted" => f = granted /\ \A c \in Conns : handler[c] = "attach"
    /\ f = granted /\ f \in Live =>
          /\ pc[f] # "granted" => \A c \in Conns : task[c] = f /\ handler[c] = "idle"
          /\ ~ Stopped(f) => registered = f

\* What the log holds from the position of forwarder f on continues a feed that has
\* come to event e; a marker may do so before anything of the log was written.
Seam(f, e) ==
    IF MarkerAt(sent[f]) THEN e <= sent[f] /\ Len(out[f]) = prefix[f][1] ELSE e = sent[f]

FileLeft(f) == pc[f] \in {"granted", "prefix"} /\ prefix[f][2] > 0

\* s is a feed of forwarder f, of recorded events, gapped behind the file at most.
Fed(f, s) ==
    Feed!Faithful(s, start[f]) /\ MarkedAt(s, prefix[f][1]) /\ Below(s, pushed)

\* What forwarder f, the newest, has written, and what it will write next.
Feeding(f) ==
    /\ Fed(f, out[f])
    /\ pc[f] = "granted" => out[f] = << >>
    /\ pc[f] = "prefix" => FileLeft(f)
    /\ FileLeft(f) =>
          /\ Reaches(out[f], start[f], prefix[f][1]) /\ Len(out[f]) = prefix[f][1]
          /\ prefix[f][1] <= prefix[f][2] /\ prefix[f][2] <= pushed
          /\ ~ Stopped(f) => Seam(f, prefix[f][2])
    /\ pc[f] \in {"granted", "first", "waiting"} /\ ~ FileLeft(f) /\ ~ Stopped(f) =>
          \E e \in Nat : Reaches(out[f], start[f], e) /\ Seam(f, e)
    /\ pc[f] = "writing" =>
          /\ batch[f] # << >> /\ sent[f] < batchTip[f]
          /\ Fed(f, out[f] \o batch[f])
          /\ Reaches(out[f] \o batch[f], start[f], batchTip[f])

FeedInv ==
    /\ EventLast
    /\ \A f \in Forwarders : Attached(f) /\ (f = granted => Feeding(f))

(***************************************************************************)
(* The log under the newest forwarder.                                     *)
(***************************************************************************)

\* The types the steps below rest on.
LEMMA LogTyped ==
    ASSUME StreamInv
    PROVE  /\ TypeOK /\ SeqStable /\ log \in Log /\ pushed \in Nat /\ generation \in Nat
           /\ log.base \in Nat /\ log.entries \in Seq(Entry) /\ Len(log.entries) \in Nat
           /\ Tip(log) = log.base + Len(log.entries) /\ Tip(log) = pushed
           /\ pushed # Marker /\ pushed \in Entry
  <1>1. TypeOK /\ SeqStable
    BY DEF StreamInv
  <1>2. log \in Log /\ pushed \in Nat /\ generation \in Nat
    BY <1>1 DEF TypeOK
  <1>3. log.base \in Nat /\ log.entries \in Seq(Entry) /\ Len(log.entries) \in Nat
    BY <1>2 DEF Log
  <1> QED
    BY <1>1, <1>2, <1>3, MarkerAssumption DEF Tip, SeqStable, Entry

\* What a push makes of the resident log: it grows by an event and, if that made
\* it too long, loses its front up to the floor at most.
LEMMA PushedCompacted ==
    ASSUME StreamInv, StreamInv', Push
    PROVE  LET grown == Pushed(log, pushed)
               handle == IF Wedged(grown) THEN NoForwarder ELSE Pruned
               floor == Floor(grown, handle)
           IN  \E n \in Nat :
                 /\ n < Len(log.entries) + 1
                 /\ n = 0 => log' = grown
                 /\ n > 0 =>
                      /\ log.base + n <= floor
                      /\ log'.base = log.base + n - 1
                      /\ Len(log'.entries) = Len(log.entries) + 2 - n
                      /\ log'.entries[Len(log'.entries)] = pushed
  <1> DEFINE grown == Pushed(log, pushed)
             handle == IF Wedged(grown) THEN NoForwarder ELSE Pruned
             floor == Floor(grown, handle)
             low == LowWater(Cap)
             n == Dropped(grown, Cap, low, floor)
  <1>1. /\ log \in Log /\ pushed \in Nat /\ log.base \in Nat /\ Len(log.entries) \in Nat
        /\ TypeOK
    BY LogTyped
  <1>2. /\ grown \in Log /\ grown.base = log.base /\ Tip(grown) \in Nat
        /\ Len(grown.entries) = Len(log.entries) + 1
        /\ grown.entries[Len(log.entries) + 1] = pushed
    <2>1. pushed \in Entry
      BY <1>1 DEF Entry
    <2>2. /\ grown \in Log /\ grown.base = log.base
          /\ Len(grown.entries) = Len(log.entries) + 1
          /\ grown.entries[Len(log.entries) + 1] = pushed
      BY <1>1, <2>1, PushedLog
    <2>3. Tip(grown) \in Nat
      BY <1>1, <2>2 DEF Tip
    <2> QED
      BY <2>2, <2>3
  <1>3. log' = Compacted(grown, Cap, floor)
    BY DEF Push
  <1> HIDE DEF grown
  <1>4. handle \in Forwarders \cup {NoForwarder}
    BY <1>1 DEF Pruned, TypeOK
  <1> HIDE DEF handle
  <1>5. floor \in Nat
    BY <1>1, <1>2, <1>4 DEF Floor, TypeOK, Forwarders, NoForwarder
  <1>6. Cap \in Nat /\ Cap >= 2
    BY CapAssumption
  <1> HIDE DEF floor
  <1>7. n \in 0 .. Len(grown.entries) /\ (n > 0 => grown.base + n <= floor)
    BY <1>2, <1>5, <1>6, DroppedBounds
  <1>8. n < Len(grown.entries)
    <2>1. low \in 1 .. Cap - 1
      BY <1>6, LowWaterBelowCap
    <2>2. Droppable(grown, floor) \in Nat
      BY <1>2, <1>5 DEF Droppable, Smaller, Larger, Log
    <2> HIDE DEF low
    <2>3. Smaller(Len(grown.entries) - low, Droppable(grown, floor)) <= Len(grown.entries) - low
      BY <1>1, <1>2, <1>6, <2>1, <2>2 DEF Smaller
    <2>4. Smaller(Len(grown.entries) - low, Droppable(grown, floor)) \in Int
      BY <1>1, <1>2, <1>6, <2>1, <2>2 DEF Smaller
    <2>5. n = 0 \/ n = Smaller(Len(grown.entries) - low, Droppable(grown, floor))
      BY DEF Dropped
    <2> QED
      BY <1>1, <1>2, <1>6, <2>1, <2>3, <2>4, <2>5
  <1>9. /\ n = 0 => log' = grown
        /\ n > 0 =>
              /\ log'.base = grown.base + n - 1
              /\ Len(log'.entries) = Len(grown.entries) - n + 1
              /\ \A i \in 2 .. Len(log'.entries) :
                    log'.entries[i] = grown.entries[i + n - 1]
    BY <1>2, <1>3, <1>5, <1>6, CompactedLog
  <1> HIDE DEF n
  <1>10. ASSUME n > 0
         PROVE  log'.entries[Len(log'.entries)] = pushed
    <2>1. /\ Len(log'.entries) = Len(log.entries) + 2 - n
          /\ Len(log'.entries) \in 2 .. Len(log'.entries)
          /\ Len(log'.entries) + n - 1 = Len(log.entries) + 1
      BY <1>1, <1>2, <1>7, <1>8, <1>9, <1>10
    <2> QED
      BY <1>2, <1>9, <1>10, <2>1
  <1>11. /\ n \in Nat /\ n < Len(log.entries) + 1
         /\ n > 0 => /\ log.base + n <= floor
                     /\ log'.base = log.base + n - 1
                     /\ Len(log'.entries) = Len(log.entries) + 2 - n
    BY <1>1, <1>2, <1>7, <1>8, <1>9
  <1> QED
    BY <1>9, <1>10, <1>11 DEF grown, handle, floor

\* The last entry stays an event.
LEMMA EventLastStep ==
    ASSUME StreamInv, StreamInv', EventLast, [Next]_vars
    PROVE  EventLast'
  <1>1. CASE Push
    <2>1. pushed # Marker /\ pushed \in Entry /\ log \in Log /\ Len(log.entries) \in Nat
      BY LogTyped
    <2>2. /\ Len(Pushed(log, pushed).entries) = Len(log.entries) + 1
          /\ Pushed(log, pushed).entries[Len(log.entries) + 1] = pushed
      BY <2>1, PushedLog
    <2>3. \/ log' = Pushed(log, pushed)
          \/ log'.entries[Len(log'.entries)] = pushed
      BY <1>1, PushedCompacted
    <2> QED
      BY <2>1, <2>2, <2>3 DEF EventLast
  <1>2. CASE Archive \/ CrashAndRecover
    <2>1. log'.entries = << >>
      BY <1>2 DEF Archive, CrashAndRecover, EmptyFrom
    <2> QED
      BY <2>1 DEF EventLast
  <1>3. CASE ~ Push /\ ~ Archive /\ ~ CrashAndRecover
    <2>1. log' = log
      BY <1>3 DEF Next, ActorStep, HandlerStep, ForwarderStep, Attach, ActorDetach, Unarchive,
                  Restart, Spawn, Detach, DropForArchive, Hangup, Connect, StreamPrefix,
                  ObserveStop, FailPrefix, CutTail, WriteDone, WriteFailed, vars, sessionVars
    <2> QED
      BY <2>1 DEF EventLast
  <1> QED
    BY <1>1, <1>2, <1>3

\* Neither a push nor its compaction moves the marker to or from the position of
\* a forwarder the log is still held for.
LEMMA MarkerStays ==
    ASSUME StreamInv, StreamInv', Push, NEW f \in Forwarders, f \in Live,
           registered = f, ~ evicted'[f]
    PROVE  MarkerAt(sent[f])' <=> MarkerAt(sent[f])
  <1> DEFINE grown == Pushed(log, pushed)
             handle == IF Wedged(grown) THEN NoForwarder ELSE Pruned
  <1>1. /\ log \in Log /\ pushed \in Nat /\ log.base \in Nat /\ Len(log.entries) \in Nat
        /\ sent[f] \in Nat /\ log.entries \in Seq(Entry) /\ pushed # Marker
    <2>1. sent[f] \in Nat
      BY DEF StreamInv, TypeOK
    <2> QED
      BY <2>1, LogTyped
  <1>2. sent' = sent
    BY DEF Push, handleVars
  <1>3. handle = f
    <2>1. f # NoForwarder /\ Pruned = f
      BY DEF Pruned, Live, Forwarders, NoForwarder
    <2>2. ~ Wedged(grown)
      <3>1. Wedged(grown) => evicted'[f]
        BY <2>1 DEF Push, StreamInv, TypeOK
      <3> QED
        BY <3>1
    <2> QED
      BY <2>1, <2>2
  <1>4. Floor(grown, handle) = sent[f]
    <2>1. f # NoForwarder
      BY DEF Forwarders, NoForwarder
    <2> QED
      BY <1>3, <2>1 DEF Floor
  <1>5. PICK n \in Nat :
           /\ n = 0 => log' = grown
           /\ n > 0 => log.base + n <= Floor(grown, handle) /\ log'.base = log.base + n - 1
    BY PushedCompacted
  <1> HIDE DEF handle
  <1>6. CASE n = 0
    <2>1. /\ grown.base = log.base /\ Len(grown.entries) = Len(log.entries) + 1
          /\ \A i \in 1 .. Len(log.entries) : grown.entries[i] = log.entries[i]
          /\ grown.entries[Len(log.entries) + 1] = pushed
          /\ grown \in Log
      BY <1>1, PushedLog DEF Entry
    <2>2. log' = grown
      BY <1>5, <1>6
    <2> HIDE DEF grown
    <2>3. CASE log.entries = << >>
      <3>1. Len(log.entries) = 0
        BY <2>3
      <3>2. log'.entries[1] # Marker
        BY <1>1, <2>1, <2>2, <3>1
      <3> QED
        BY <2>3, <3>2 DEF MarkerAt
    <2>4. CASE log.entries # << >>
      <3>1. 1 \in 1 .. Len(log.entries)
        BY <1>1, <2>4
      <3>2. log'.entries # << >> /\ log'.entries[1] = log.entries[1] /\ log'.base = log.base
        <4>1. Len(log'.entries) # 0
          BY <1>1, <2>1, <2>2
        <4> QED
          BY <2>1, <2>2, <3>1, <4>1
      <3> QED
        BY <1>2, <2>4, <3>2 DEF MarkerAt
    <2> QED
      BY <2>3, <2>4
  <1>7. CASE n > 0
    <2>1. log.base # sent[f] /\ log'.base # sent[f]
      BY <1>1, <1>4, <1>5, <1>7
    <2> QED
      BY <1>2, <2>1 DEF MarkerAt
  <1> QED
    BY <1>6, <1>7

\* The tail cut at a resident position continues a feed there.
LEMMA TailContinues ==
    ASSUME StreamInv, EventLast, NEW p \in Nat, log.base <= p, p <= Tip(log)
    PROVE  LET t == TailFrom(log, VecIndex(log, <<generation, p>>, generation))
           IN  t # << >> => /\ TailAt(t, p) /\ p + Len(t) = Tip(log)
                            /\ t[1] = Marker <=> MarkerAt(p)
  <1> DEFINE v == VecIndex(log, <<generation, p>>, generation)
             t == TailFrom(log, v)
             len == Len(log.entries)
  <1>1. /\ log \in Log /\ log.base \in Nat /\ log.entries \in Seq(Entry)
        /\ len \in Nat /\ generation \in Nat /\ Tip(log) = log.base + len
        /\ SeqStable
    BY LogTyped
  <1>2. v = p - log.base
    <2>1. <<generation, p>> # NoCursor
      BY DEF NoCursor
    <2> QED
      BY <1>1, <2>1 DEF VecIndex, FromBase
  <1> HIDE DEF v
  <1>3. v \in 0 .. len /\ log.base + v = p
    BY <1>1, <1>2
  <1>4. t \in Seq(Entry) /\ Len(t) = len - v /\ \A k \in 1 .. len - v : t[k] = log.entries[v + k]
    <2>1. v + 1 \in Int /\ len \in Int
      BY <1>1, <1>3
    <2>2. \A j \in v + 1 .. len : log.entries[j] \in Entry
      BY <1>1, <1>3, ElementOfSeq
    <2>3. /\ t \in Seq(Entry)
          /\ Len(t) = IF v + 1 <= len THEN len - (v + 1) + 1 ELSE 0
          /\ \A k \in 1 .. len - (v + 1) + 1 : t[k] = log.entries[(v + 1) + k - 1]
      BY <2>1, <2>2, SubSeqProperties DEF TailFrom
    <2>4. Len(t) = len - v
      BY <1>1, <1>3, <2>3
    <2>5. \A k \in 1 .. len - v : (v + 1) + k - 1 = v + k /\ k \in 1 .. len - (v + 1) + 1
      BY <1>1, <1>3
    <2> QED
      BY <2>3, <2>4, <2>5
  <1> HIDE DEF t
  <1>5. SUFFICES ASSUME t # << >>
                 PROVE  /\ TailAt(t, p) /\ p + Len(t) = Tip(log)
                        /\ t[1] = Marker <=> MarkerAt(p)
    BY DEF t, v
  <1>6. v < len /\ DOMAIN t = 1 .. len - v /\ log.entries # << >>
    <2>1. Len(t) # 0
      BY <1>4, <1>5
    <2>2. v < len /\ len # 0
      BY <1>1, <1>3, <1>4, <2>1
    <2> QED
      BY <1>4, <2>2
  <1>7. t[Len(t)] # Marker
    <2>1. Len(t) \in 1 .. len - v /\ v + Len(t) = len
      BY <1>1, <1>3, <1>4, <1>6
    <2>2. t[Len(t)] = log.entries[len]
      BY <1>4, <2>1
    <2> QED
      BY <1>6, <2>2 DEF EventLast
  <1>8. \A k \in DOMAIN t : t[k] = p + k - 1 \/ (k = 1 /\ v = 0 /\ t[k] = Marker)
    <2> SUFFICES ASSUME NEW k \in DOMAIN t
                 PROVE  t[k] = p + k - 1 \/ (k = 1 /\ v = 0 /\ t[k] = Marker)
      OBVIOUS
    <2>1. k \in 1 .. len - v /\ v + k \in 1 .. len
      BY <1>1, <1>3, <1>6
    <2>2. v + k \in DOMAIN log.entries
      BY <1>1, <2>1
    <2>3. \/ log.entries[v + k] = log.base + (v + k) - 1
          \/ v + k = 1 /\ log.entries[v + k] = Marker
      BY <1>1, <2>2 DEF SeqStable
    <2>4. t[k] = log.entries[v + k]
      BY <1>4, <2>1
    <2>5. v \in Nat /\ k \in Nat /\ k >= 1
      BY <1>1, <1>3, <2>1
    <2>6. /\ v \in Nat /\ k \in Nat /\ k >= 1
          /\ log.base + (v + k) - 1 = (log.base + v) + k - 1
      BY <1>1, <2>5
    <2>7. v + k = 1 => k = 1 /\ v = 0
      BY <2>6
    <2> QED
      BY <1>3, <2>3, <2>4, <2>6, <2>7
  <1>9. t[1] = Marker <=> MarkerAt(p)
    <2>1. 1 \in DOMAIN t /\ t[1] = log.entries[v + 1]
      BY <1>1, <1>3, <1>4, <1>6
    <2>2. CASE v = 0
      BY <1>1, <1>3, <1>6, <2>1, <2>2 DEF MarkerAt
    <2>3. CASE v # 0
      <3>1. t[1] # Marker
        <4>1. t[1] = p + 1 - 1
          BY <1>8, <2>1, <2>3
        <4> QED
          BY <4>1, MarkerAssumption
      <3>2. log.base # p
        BY <1>1, <1>3, <2>3
      <3> QED
        BY <3>1, <3>2 DEF MarkerAt
    <2> QED
      BY <2>2, <2>3
  <1>10. p + Len(t) = Tip(log)
    <2>1. v \in Nat /\ (log.base + v) + (len - v) = log.base + len
      BY <1>1, <1>3
    <2> QED
      BY <1>1, <1>3, <1>4, <2>1
  <1> QED
    BY <1>5, <1>7, <1>8, <1>9, <1>10 DEF TailAt

(***************************************************************************)
(* The newest forwarder, and the actor's handle.                           *)
(***************************************************************************)

\* Every step keeps the newest forwarder attached.
LEMMA AttachedStep ==
    ASSUME OneConnection, StreamInv, StreamInv', \A g \in Forwarders : Attached(g),
           [Next]_vars, NEW f \in Forwarders
    PROVE  Attached(f)'
  <1>1. /\ TypeOK /\ TypeOK' /\ Attached(f) /\ f \in Nat /\ granted \in Nat
        /\ f # NoForwarder
    <2>1. TypeOK /\ TypeOK'
      BY DEF StreamInv
    <2>2. f \in Nat /\ f # NoForwarder
      BY DEF Forwarders, NoForwarder
    <2>3. granted \in Nat
      BY <2>1 DEF TypeOK
    <2> QED
      BY <2>1, <2>2, <2>3
  <1> DEFINE Kept == /\ granted' = granted
                     /\ Stopped(f) => Stopped(f)'
                     /\ f \in Live /\ ~ Stopped(f)' /\ registered = f => registered' = f
  <1>2. ASSUME Kept, pc'[f] = pc[f], handler' = handler, task' = task
        PROVE  Attached(f)'
    BY <1>1, <1>2 DEF Attached, Live, Exited
  <1>3. ASSUME Kept, pc[f] # "unused", pc'[f] \in {"ended", "stalled"}
        PROVE  Attached(f)'
    BY <1>1, <1>3 DEF Attached, Live, Exited
  <1>4. CASE Push
    <2>1. Kept
      <3>1. granted' = granted /\ released' = released
        BY <1>4 DEF Push, grantVars
      <3>2. evicted[f] => evicted'[f]
        BY <1>1, <1>4 DEF Push, TypeOK
      <3>3. ASSUME f \in Live, ~ Stopped(f)', registered = f
            PROVE  registered' = f
        <4>1. Pruned = f
          BY <1>1, <3>3 DEF Pruned, Live
        <4>2. ~ Wedged(Pushed(log, pushed))
          <5>1. Wedged(Pushed(log, pushed)) => evicted'[f]
            BY <1>1, <1>4, <4>1 DEF Push, TypeOK
          <5> QED
            BY <3>3, <5>1 DEF Stopped
        <4> QED
          BY <1>4, <4>1, <4>2 DEF Push
      <3> QED
        BY <3>1, <3>2, <3>3 DEF Stopped
    <2> QED
      BY <1>2, <1>4, <2>1 DEF Push, connVars
  <1>5. ASSUME NEW c \in Conns, NEW cursor \in Cursors, Attach(c, cursor)
        PROVE  Attached(f)'
    <2>1. /\ granted' = granted + 1 /\ handler[c] = "idle" /\ handler'[c] = "attach"
          /\ registered' = granted + 1 /\ pc' = [pc EXCEPT ![granted + 1] = "granted"]
      BY <1>1, <1>5 DEF Attach, TypeOK
    <2>2. CASE f = granted + 1
      <3>1. \A d \in Conns : d = c
        BY DEF OneConnection
      <3>2. pc'[f] = "granted"
        BY <1>1, <2>1, <2>2 DEF TypeOK
      <3> QED
        BY <1>1, <2>1, <2>2, <3>1, <3>2 DEF Attached
    <2>3. CASE f # granted + 1
      <3>1. pc'[f] = pc[f]
        BY <1>1, <2>1, <2>3 DEF TypeOK
      <3>2. pc[f] # "granted"
        BY <1>1, <2>1 DEF Attached
      <3> QED
        BY <1>1, <2>1, <2>3, <3>1, <3>2 DEF Attached
    <2> QED
      BY <2>2, <2>3
  <1>6. ASSUME NEW c \in Conns, ActorDetach(c)
        PROVE  Attached(f)'
    <2>1. /\ handler[c] \in {"detach", "teardown"}
          /\ pc' = pc /\ granted' = granted
      BY <1>6 DEF ActorDetach, grantVars
    <2>2. ~ (f = granted /\ f \in Live) /\ pc[f] # "granted"
      BY <1>1, <2>1 DEF Attached
    <2> QED
      BY <1>1, <2>1, <2>2 DEF Attached, Live, Exited
  <1>7. CASE Archive
    <2>1. /\ evicted' = evicted /\ granted' = granted /\ pc' = pc
          /\ handler' = handler /\ task' = task
          /\ released[f] => released'[f]
          /\ registered = f => released'[f]
      BY <1>1, <1>7 DEF Archive, grantVars, connVars, TypeOK
    <2> QED
      BY <1>2, <2>1 DEF Stopped
  <1>8. CASE Unarchive \/ Restart \/ UNCHANGED vars
    <2>1. UNCHANGED <<evicted, released, granted, pc, handler, task, registered>>
      BY <1>8 DEF Unarchive, Restart, vars, handleVars, grantVars, connVars
    <2> QED
      BY <1>2, <2>1 DEF Stopped
  <1>9. CASE CrashAndRecover
    <2>1. /\ pc'[f] = IF pc[f] = "unused" THEN "unused" ELSE "ended"
          /\ granted' = granted
      BY <1>9 DEF CrashAndRecover, grantVars
    <2> QED
      BY <1>1, <2>1 DEF Attached, Live, Exited
  <1>10. ASSUME NEW c \in Conns, NEW g \in Forwarders, Spawn(c, g)
         PROVE  Attached(f)'
    <2>1. /\ handler[c] = "attach" /\ pc[g] = "granted" /\ g = granted
          /\ handler'[c] = "idle" /\ task'[c] = g
          /\ UNCHANGED <<granted, evicted, released, registered>>
      BY <1>1, <1>10 DEF Spawn, Attached, TypeOK, sessionVars, handleVars, grantVars
    <2>2. CASE f = g
      <3>1. pc'[f] \in {"first", "prefix"}
        BY <1>1, <1>10, <2>2 DEF Spawn
      <3>2. \A d \in Conns : d = c
        BY DEF OneConnection
      <3>3. f \in Live
        BY <2>1, <2>2 DEF Live, Exited
      <3> QED
        BY <1>1, <2>1, <2>2, <3>1, <3>2, <3>3 DEF Attached, Stopped
    <2>3. CASE f # g
      <3>1. \/ pc'[f] = pc[f]
            \/ pc'[f] = "ended" /\ pc[f] # "unused"
        BY <1>1, <1>10, <2>3 DEF Spawn, Ended, Live
      <3>2. pc[f] # "granted"
        BY <1>1, <2>1, <2>3 DEF Attached
      <3> QED
        BY <1>1, <2>1, <2>3, <3>1, <3>2 DEF Attached
    <2> QED
      BY <2>2, <2>3
  <1>11. ASSUME NEW c \in Conns, Detach(c) \/ DropForArchive(c) \/ Hangup(c)
         PROVE  Attached(f)'
    <2>1. /\ handler[c] = "idle"
          /\ UNCHANGED <<granted, evicted, released, registered>>
      BY <1>11 DEF Detach, DropForArchive, Hangup, sessionVars, handleVars, grantVars
    <2>2. Abort(c) \/ (pc' = pc /\ task[c] = NoForwarder)
      BY <1>11 DEF Detach, DropForArchive, Hangup
    <2>3. pc[f] # "granted"
      BY <1>1, <2>1 DEF Attached
    <2>4. ASSUME f = granted, f \in Live
          PROVE  pc'[f] = "ended"
      <3>1. task[c] = f
        BY <1>1, <2>3, <2>4 DEF Attached
      <3>2. f \in Ended(c) /\ Abort(c)
        BY <1>1, <2>2, <2>4, <3>1 DEF Ended
      <3> QED
        BY <3>2 DEF Abort
    <2>5. pc'[f] = pc[f] \/ (pc[f] # "unused" /\ pc'[f] = "ended")
      BY <2>2 DEF Abort, Ended, Live
    <2> QED
      BY <1>1, <2>1, <2>3, <2>4, <2>5 DEF Attached, Live, Exited
  <1>12. ASSUME NEW c \in Conns, Connect(c)
         PROVE  Attached(f)'
    <2>1. UNCHANGED <<evicted, released, granted, pc, handler, task, registered>>
      BY <1>12 DEF Connect, handleVars, grantVars
    <2> QED
      BY <1>2, <2>1 DEF Stopped
  <1>13. ASSUME NEW g \in Forwarders, ForwarderStep(g)
         PROVE  Attached(f)'
    <2>1. UNCHANGED <<granted, evicted, released, registered, handler, task>>
      BY <1>13 DEF ForwarderStep, StreamPrefix, FailPrefix, CutTail, WriteDone, WriteFailed,
                   ObserveStop, sessionVars, handleVars, grantVars, connVars
    <2>2. /\ pc[g] \in {"prefix", "first", "waiting", "writing"}
          /\ \A h \in Forwarders \ {g} : pc'[h] = pc[h]
          /\ pc'[g] \in {"prefix", "first", "waiting", "writing", "ended", "stalled"}
      <3>1. pc \in [Forwarders -> Pcs]
        BY <1>1 DEF TypeOK
      <3>2. CASE StreamPrefix(g)
        BY <3>1, <3>2 DEF StreamPrefix, ObserveStop
      <3>3. CASE FailPrefix(g) \/ WriteFailed(g)
        BY <3>1, <3>3 DEF FailPrefix, WriteFailed, WriteEnds
      <3>4. CASE CutTail(g)
        BY <3>1, <3>4 DEF CutTail, ObserveStop
      <3>5. CASE WriteDone(g)
        BY <3>1, <3>5 DEF WriteDone
      <3> QED
        BY <1>13, <3>2, <3>3, <3>4, <3>5 DEF ForwarderStep
    <2>3. CASE f # g
      BY <1>2, <2>1, <2>2, <2>3 DEF Stopped
    <2>4. CASE f = g
      BY <1>1, <2>1, <2>2, <2>4 DEF Attached, Stopped, Live, Exited
    <2> QED
      BY <2>3, <2>4
  <1> QED
    BY <1>4, <1>5, <1>6, <1>7, <1>8, <1>9, <1>10, <1>11, <1>12, <1>13
    DEF Next, ActorStep, HandlerStep

(***************************************************************************)
(* What the newest forwarder is fed.                                       *)
(***************************************************************************)

\* A step that leaves what forwarder f is fed alone, or ends it.
Unfed(f) ==
    /\ pushed <= pushed'
    /\ UNCHANGED <<out[f], start[f], prefix[f], sent[f]>>
    /\ Stopped(f) => Stopped(f)'
    /\ \/ pc'[f] \in {"ended", "stalled"}
       \/ /\ UNCHANGED <<pc[f], batch[f], batchTip[f]>>
          /\ ~ Stopped(f)' => (MarkerAt(sent[f])' <=> MarkerAt(sent[f]))

\* Events recorded once stay recorded.
LEMMA BelowGrows ==
    ASSUME NEW s \in Seq(Entry), NEW n \in Nat, NEW m \in Nat, n <= m, Below(s, n)
    PROVE  Below(s, m)
  <1>1. \A i \in DOMAIN s : s[i] # Marker => s[i] \in Nat
    BY DEF Entry
  <1> QED
    BY <1>1 DEF Below

\* Such a step keeps it fed.
LEMMA UnfedStep ==
    ASSUME StreamInv, StreamInv', NEW f \in Forwarders, Feeding(f), Unfed(f)
    PROVE  Feeding(f)'
  <1>1. /\ pushed \in Nat /\ pushed' \in Nat
        /\ out[f] \in Seq(Entry) /\ batch[f] \in Seq(Entry)
        /\ prefix[f][1] \in Nat /\ prefix[f][2] \in Nat
    BY DEF StreamInv, TypeOK
  <1>2. Fed(f, out[f])'
    <2>1. Below(out[f], pushed')
      BY <1>1, BelowGrows DEF Feeding, Fed, Unfed
    <2> QED
      BY <2>1 DEF Feeding, Fed, Unfed
  <1>3. CASE pc'[f] \in {"ended", "stalled"}
    BY <1>2, <1>3 DEF Feeding, FileLeft
  <1>4. CASE /\ UNCHANGED <<pc[f], batch[f], batchTip[f]>>
             /\ ~ Stopped(f)' => (MarkerAt(sent[f])' <=> MarkerAt(sent[f]))
    <2>1. FileLeft(f)' <=> FileLeft(f)
      BY <1>4 DEF FileLeft, Unfed
    <2>2. ~ Stopped(f)' => ~ Stopped(f) /\ \A e : Seam(f, e) => Seam(f, e)'
      BY <1>4 DEF Seam, Unfed
    <2>3. pc[f] = "writing" => Fed(f, out[f] \o batch[f])'
      <3>1. ASSUME pc[f] = "writing"
            PROVE  Below(out[f] \o batch[f], pushed')
        <4>1. out[f] \o batch[f] \in Seq(Entry)
          BY <1>1
        <4> QED
          BY <1>1, <3>1, <4>1, BelowGrows DEF Feeding, Fed, Unfed
      <3> QED
        BY <1>4, <3>1 DEF Feeding, Fed, Unfed
    <2>4. FileLeft(f)' =>
            /\ Reaches(out'[f], start'[f], prefix'[f][1]) /\ Len(out'[f]) = prefix'[f][1]
            /\ prefix'[f][1] <= prefix'[f][2] /\ prefix'[f][2] <= pushed'
            /\ ~ Stopped(f)' => Seam(f, prefix[f][2])'
      BY <1>1, <2>1, <2>2 DEF Feeding, Unfed
    <2>5. pc'[f] \in {"granted", "first", "waiting"} /\ ~ FileLeft(f)' /\ ~ Stopped(f)' =>
            \E e \in Nat : Reaches(out'[f], start'[f], e) /\ Seam(f, e)'
      BY <1>4, <2>1, <2>2 DEF Feeding, Unfed
    <2>6. pc'[f] = "writing" =>
            /\ batch'[f] # << >> /\ sent'[f] < batchTip'[f]
            /\ Fed(f, out[f] \o batch[f])'
            /\ Reaches(out'[f] \o batch'[f], start'[f], batchTip'[f])
      BY <1>4, <2>3 DEF Feeding, Unfed
    <2>7. /\ pc'[f] = "granted" => out'[f] = << >>
          /\ pc'[f] = "prefix" => FileLeft(f)'
      BY <1>4, <2>1 DEF Feeding, Unfed
    <2> QED
      BY <1>2, <2>4, <2>5, <2>6, <2>7 DEF Feeding
  <1> QED
    BY <1>3, <1>4 DEF Unfed

\* The actor leaves it alone, and the log for as long as it is not told to stop.
LEMMA ActorUnfed ==
    ASSUME StreamInv, StreamInv', NEW f \in Forwarders, f = granted, Attached(f),
           \/ Push \/ Archive \/ Unarchive \/ Restart \/ CrashAndRecover \/ UNCHANGED vars
           \/ \E c \in Conns : ActorDetach(c)
    PROVE  Unfed(f) /\ granted' = granted
  <1>1. /\ TypeOK /\ pushed \in Nat /\ pc[f] # "unused"
        /\ f \in Nat /\ f # NoForwarder
    <2>1. f \in Nat /\ f # NoForwarder
      BY DEF Forwarders, NoForwarder
    <2>2. pc[f] # "unused"
      BY <2>1 DEF Attached
    <2> QED
      BY <2>1, <2>2, LogTyped
  <1>2. UNCHANGED <<granted, sent, prefix, out, start>>
    BY DEF Push, Archive, Unarchive, Restart, CrashAndRecover, ActorDetach, vars,
           sessionVars, handleVars, grantVars, streamVars
  <1>3. CASE CrashAndRecover
    <2>1. pc'[f] = "ended" /\ pushed' = pushed /\ evicted' = evicted /\ released' = released
      BY <1>1, <1>3 DEF CrashAndRecover, handleVars
    <2> QED
      BY <1>1, <1>2, <2>1 DEF Unfed, Stopped
  <1>4. CASE Exited(f) /\ ~ CrashAndRecover
    <2>1. pc' = pc /\ pushed <= pushed'
      <3>1. CASE Push
        BY <1>1, <3>1 DEF Push
      <3>2. CASE ~ Push
        BY <1>1, <1>4, <3>2 DEF Archive, Unarchive, Restart, ActorDetach, vars, sessionVars
      <3> QED
        BY <3>1, <3>2
    <2>2. (evicted[f] => evicted'[f]) /\ (released[f] => released'[f])
      BY <1>1, <1>4 DEF Push, Archive, Unarchive, Restart, ActorDetach, vars, handleVars, TypeOK
    <2> QED
      BY <1>2, <1>4, <2>1, <2>2 DEF Unfed, Stopped, Exited
  <1>5. CASE ~ Exited(f) /\ ~ CrashAndRecover
    <2>1. f \in Live
      BY <1>1, <1>5 DEF Live
    <2>2. ~ Stopped(f) => registered = f
      BY <2>1 DEF Attached
    <2>3. UNCHANGED <<pc, batch, batchTip>>
      BY <1>5 DEF Push, Archive, Unarchive, Restart, ActorDetach, vars, streamVars
    <2>4. CASE Push
      <3>1. pushed <= pushed' /\ released' = released /\ (evicted[f] => evicted'[f])
        BY <1>1, <2>4 DEF Push, TypeOK
      <3>2. ~ Stopped(f)' => (MarkerAt(sent[f])' <=> MarkerAt(sent[f]))
        <4> SUFFICES ASSUME ~ Stopped(f)'
                     PROVE  MarkerAt(sent[f])' <=> MarkerAt(sent[f])
          OBVIOUS
        <4>1. registered = f /\ ~ evicted'[f]
          BY <2>2, <3>1 DEF Stopped
        <4> QED
          BY <2>1, <2>4, <4>1, MarkerStays
      <3> QED
        BY <1>2, <2>3, <3>1, <3>2 DEF Unfed, Stopped
    <2>5. CASE Archive
      <3>1. pushed' = pushed /\ evicted' = evicted /\ (released[f] => released'[f])
        BY <1>1, <2>5 DEF Archive, TypeOK
      <3>2. Stopped(f)'
        <4>1. registered = f => released'[f]
          BY <1>1, <2>5 DEF Archive, TypeOK
        <4> QED
          BY <2>2, <3>1, <4>1 DEF Stopped
      <3> QED
        BY <1>1, <1>2, <2>3, <3>1, <3>2 DEF Unfed, Stopped
    <2>6. CASE ~ Push /\ ~ Archive
      <3>1. UNCHANGED <<log, pushed, evicted, released>>
        BY <1>5, <2>6 DEF Unarchive, Restart, ActorDetach, vars, sessionVars, handleVars
      <3> QED
        BY <1>1, <1>2, <2>3, <3>1 DEF Unfed, Stopped, MarkerAt
    <2> QED
      BY <2>4, <2>5, <2>6
  <1> QED
    BY <1>2, <1>3, <1>4, <1>5

\* The connection leaves it alone, or aborts it.
LEMMA HandlerUnfed ==
    ASSUME StreamInv, StreamInv', NEW f \in Forwarders, NEW c \in Conns, f = granted,
           Attached(f), Detach(c) \/ DropForArchive(c) \/ Hangup(c) \/ Connect(c)
    PROVE  Unfed(f) /\ granted' = granted
  <1>1. UNCHANGED <<log, pushed, granted, sent, prefix, out, start, evicted, released>>
    BY DEF Detach, DropForArchive, Hangup, Connect, sessionVars, handleVars, grantVars,
           streamVars
  <1>2. Abort(c) \/ UNCHANGED <<pc, batch, batchTip>>
    BY DEF Detach, DropForArchive, Hangup, Connect, streamVars
  <1>3. pc'[f] = "ended" \/ UNCHANGED <<pc[f], batch[f], batchTip[f]>>
    BY <1>2 DEF Abort, DropBatch
  <1>4. pushed \in Nat
    BY DEF StreamInv, TypeOK
  <1> QED
    BY <1>1, <1>3, <1>4 DEF Unfed, Stopped, MarkerAt

\* So do the other forwarders; and a stop or an error of its own only ends it.
LEMMA ForwarderUnfed ==
    ASSUME StreamInv, StreamInv', NEW f \in Forwarders, NEW g \in Forwarders,
           \/ g # f /\ ForwarderStep(g)
           \/ ObserveStop(f)
           \/ FailPrefix(f)
    PROVE  Unfed(f) /\ granted' = granted
  <1>1. UNCHANGED <<log, pushed, granted, start, evicted, released>>
    BY DEF ForwarderStep, StreamPrefix, FailPrefix, CutTail, WriteDone, WriteFailed,
           ObserveStop, sessionVars, handleVars, grantVars
  <1>2. pushed \in Nat /\ TypeOK
    BY DEF StreamInv, TypeOK
  <1>3. CASE ObserveStop(f)
    <2>1. pc'[f] = "ended" /\ sent' = sent /\ prefix' = prefix /\ out' = out
      BY <1>2, <1>3 DEF ObserveStop, handleVars, streamVars, TypeOK
    <2> QED
      BY <1>1, <1>2, <2>1 DEF Unfed, Stopped
  <1>4. CASE FailPrefix(f)
    <2>1. /\ pc'[f] \in {"ended", "stalled"}
          /\ sent' = sent /\ prefix' = prefix /\ out' = out
      BY <1>2, <1>4 DEF FailPrefix, WriteEnds, handleVars, streamVars, TypeOK
    <2> QED
      BY <1>1, <1>2, <2>1 DEF Unfed, Stopped
  <1>5. CASE g # f /\ ForwarderStep(g)
    <2>1. UNCHANGED <<pc[f], sent[f], prefix[f], out[f], batch[f], batchTip[f]>>
      BY <1>5, OthersUntouched
    <2> QED
      BY <1>1, <1>2, <2>1 DEF Unfed, Stopped, MarkerAt
  <1> QED
    BY <1>3, <1>4, <1>5

\* The events of the prefix come first, one after the other (stream_prefix_to_client).
LEMMA PrefixFed ==
    ASSUME StreamInv, StreamInv', NEW f \in Forwarders, Feeding(f), StreamPrefix(f)
    PROVE  Feeding(f)'
  <1>1. /\ TypeOK /\ pushed \in Nat /\ out[f] \in Seq(Entry) /\ start[f] \in Nat
        /\ sent[f] \in Nat /\ prefix[f] \in Nat \X Nat
        /\ prefix[f][1] \in Nat /\ prefix[f][2] \in Nat
    BY DEF StreamInv, TypeOK
  <1>2. /\ pc[f] = "prefix" /\ FileLeft(f) /\ Fed(f, out[f])
        /\ Reaches(out[f], start[f], prefix[f][1]) /\ Len(out[f]) = prefix[f][1]
        /\ prefix[f][1] <= prefix[f][2] /\ prefix[f][2] <= pushed
        /\ ~ Stopped(f) => Seam(f, prefix[f][2])
    BY DEF Feeding, StreamPrefix
  <1>3. UNCHANGED <<log, pushed, granted, start, evicted, released, sent>>
    BY DEF StreamPrefix, ObserveStop, sessionVars, handleVars, grantVars
  <1>4. CASE prefix[f][1] + 1 > prefix[f][2]
    <2>1. pc'[f] = "first" /\ UNCHANGED <<out, prefix>>
      BY <1>1, <1>4 DEF StreamPrefix, handleVars, streamVars, TypeOK
    <2>2. prefix[f][1] = prefix[f][2]
      BY <1>1, <1>2, <1>4
    <2>3. ~ Stopped(f)' => Seam(f, prefix[f][1])'
      BY <1>2, <1>3, <2>1, <2>2 DEF Stopped, Seam, MarkerAt
    <2>4. ~ FileLeft(f)' /\ Fed(f, out[f])'
      BY <1>2, <1>3, <2>1 DEF FileLeft, Fed
    <2>5. Reaches(out'[f], start'[f], prefix[f][1])
      BY <1>2, <1>3, <2>1
    <2> QED
      BY <1>1, <2>1, <2>3, <2>4, <2>5 DEF Feeding
  <1>5. CASE ~ (prefix[f][1] + 1 > prefix[f][2]) /\ ~ ObserveStop(f)
    <2>1. /\ out' = [out EXCEPT ![f] = Append(@, (prefix[f][1] + 1) - 1)]
          /\ prefix' = [prefix EXCEPT ![f] = <<prefix[f][1] + 1, @[2]>>] /\ pc' = pc
      BY <1>5 DEF StreamPrefix
    <2>2. /\ out'[f] = Append(out[f], prefix[f][1])
          /\ prefix'[f][1] = prefix[f][1] + 1 /\ prefix'[f][2] = prefix[f][2]
      <3>1. (prefix[f][1] + 1) - 1 = prefix[f][1]
        BY <1>1
      <3> QED
        BY <1>1, <2>1, <3>1 DEF TypeOK
    <2>3. /\ Feed!Faithful(out'[f], start[f])
          /\ Reaches(out'[f], start[f], prefix[f][1] + 1)
      BY <1>1, <1>2, <2>2, FaithfulAppend DEF Fed
    <2>4. /\ out'[f] \in Seq(Entry) /\ Len(out'[f]) = prefix[f][1] + 1
          /\ DOMAIN out'[f] = 1 .. prefix[f][1] + 1
          /\ \A i \in 1 .. prefix[f][1] : out'[f][i] = out[f][i]
          /\ out'[f][prefix[f][1] + 1] = prefix[f][1]
          /\ DOMAIN out[f] = 1 .. prefix[f][1]
      BY <1>1, <1>2, <2>2 DEF Entry
    <2>5. prefix[f][1] < pushed /\ prefix[f][1] # Marker /\ prefix'[f][1] <= prefix'[f][2]
      BY <1>1, <1>2, <1>5, <2>2, MarkerAssumption
    <2>6. \A i \in 1 .. prefix[f][1] : out'[f][i] # Marker /\ out'[f][i] < pushed
      <3> SUFFICES ASSUME NEW i \in 1 .. prefix[f][1]
                   PROVE  out'[f][i] # Marker /\ out'[f][i] < pushed
        OBVIOUS
      <3>1. i \in DOMAIN out[f] /\ out'[f][i] = out[f][i] /\ i # prefix[f][1] + 1
        BY <1>1, <2>4
      <3> QED
        BY <1>2, <3>1 DEF Fed, MarkedAt, Below
    <2>7. \A i \in DOMAIN out'[f] : out'[f][i] # Marker /\ out'[f][i] < pushed
      BY <1>1, <2>4, <2>5, <2>6
    <2>8. Fed(f, out[f])'
      BY <1>3, <2>3, <2>7 DEF Fed, MarkedAt, Below
    <2>9. FileLeft(f)'
      BY <1>2, <2>1, <2>2 DEF FileLeft
    <2>10. ~ Stopped(f)' => Seam(f, prefix[f][2])'
      BY <1>2, <1>3, <2>2, <2>4 DEF Stopped, Seam, MarkerAt
    <2> QED
      BY <1>2, <1>3, <2>1, <2>2, <2>3, <2>4, <2>5, <2>8, <2>9, <2>10 DEF Feeding
  <1>6. CASE ObserveStop(f)
    BY <1>6, ForwarderUnfed, UnfedStep
  <1> QED
    BY <1>4, <1>5, <1>6

\* The position of the k-th of n events from position p on.
LEMMA PlaceInTail ==
    ASSUME NEW p \in Nat, NEW n \in Nat, NEW k \in Nat, k >= 1, k <= n
    PROVE  p + k - 1 \in Nat /\ p + k - 1 < p + n
  OBVIOUS

\* The tail the newest forwarder cuts continues what it wrote (tail_snapshot).
LEMMA CutFed ==
    ASSUME StreamInv, StreamInv', EventLast, NEW f \in Forwarders, f = granted,
           Attached(f), Feeding(f), CutTail(f), ~ Stopped(f)
    PROVE  Feeding(f)'
  <1> DEFINE tail == TailFrom(log, VecIndex(log, <<generation, sent[f]>>, generation))
  <1>1. /\ TypeOK /\ pushed \in Nat /\ out[f] \in Seq(Entry) /\ start[f] \in Nat
        /\ sent[f] \in Nat /\ prefix[f][1] \in Nat /\ batch'[f] \in Seq(Entry)
    BY DEF StreamInv, TypeOK
  <1>2. /\ pc[f] \in {"first", "waiting"} /\ ~ FileLeft(f) /\ Fed(f, out[f])
    BY DEF CutTail, FileLeft, Feeding
  <1>3. PICK e \in Nat : Reaches(out[f], start[f], e) /\ Seam(f, e)
    BY <1>2 DEF Feeding
  <1>4. /\ pc' = [pc EXCEPT ![f] = IF tail = << >> THEN "waiting" ELSE "writing"]
        /\ batch' = [batch EXCEPT ![f] = tail]
        /\ batchTip' = [batchTip EXCEPT ![f] = IF tail = << >> THEN 0 ELSE Tip(log)]
        /\ UNCHANGED <<log, pushed, granted, sent, evicted, released, start, prefix, out>>
    BY DEF CutTail, sessionVars, handleVars, grantVars
  <1>5. log.base <= sent[f] /\ sent[f] <= Tip(log)
    <2>1. f \in Live
      BY <1>2 DEF Live, Exited
    <2>2. registered = f
      BY <2>1 DEF Attached
    <2>3. sent[f] \in log.base .. Tip(log)
      BY <2>1, <2>2 DEF StreamInv, FloorHeld
    <2> QED
      BY <2>3
  <1>6. tail # << >> => /\ TailAt(tail, sent[f]) /\ sent[f] + Len(tail) = Tip(log)
                        /\ tail[1] = Marker <=> MarkerAt(sent[f])
    BY <1>1, <1>5, TailContinues
  <1> HIDE DEF tail
  <1>7. /\ pc'[f] = IF tail = << >> THEN "waiting" ELSE "writing"
        /\ batch'[f] = tail
        /\ tail # << >> => batchTip'[f] = Tip(log)
    BY <1>1, <1>4 DEF TypeOK
  <1>8. Fed(f, out[f])' /\ ~ FileLeft(f)'
    BY <1>2, <1>4, <1>7 DEF Fed, FileLeft
  <1>9. CASE tail = << >>
    <2>1. Seam(f, e)'
      BY <1>3, <1>4 DEF Seam, MarkerAt
    <2> QED
      BY <1>3, <1>4, <1>7, <1>8, <1>9, <2>1 DEF Feeding
  <1>10. CASE tail # << >>
    <2>1. tail \in Seq(Entry) /\ Len(tail) \in Nat /\ Len(tail) > 0
      <3>1. tail \in Seq(Entry)
        BY <1>1, <1>7
      <3> QED
        BY <1>10, <3>1
    <2>2. IF tail[1] = Marker THEN e <= sent[f] ELSE e = sent[f]
      BY <1>3, <1>6, <1>10 DEF Seam
    <2>3. /\ Feed!Faithful(out[f] \o tail, start[f])
          /\ Reaches(out[f] \o tail, start[f], sent[f] + Len(tail))
      BY <1>1, <1>2, <1>3, <1>6, <1>10, <2>1, <2>2, FaithfulJoin DEF Fed
    <2>4. sent[f] < Tip(log) /\ sent[f] + Len(tail) = Tip(log) /\ Tip(log) = pushed
      BY <1>1, <1>6, <1>10, <2>1, LogTyped
    <2>5. ASSUME NEW i \in DOMAIN (out[f] \o tail)
          PROVE  IF (out[f] \o tail)[i] = Marker THEN i = prefix[f][1] + 1
                 ELSE (out[f] \o tail)[i] < pushed
      <3>1. /\ i \in 1 .. Len(out[f]) + Len(tail) /\ Len(out[f]) \in Nat
            /\ (out[f] \o tail)[i] = IF i <= Len(out[f]) THEN out[f][i]
                                     ELSE tail[i - Len(out[f])]
        <4>1. i \in 1 .. Len(out[f]) + Len(tail)
          BY <1>1, <2>1, <2>5, ConcatElements
        <4> QED
          BY <1>1, <2>1, <4>1, ConcatElements
      <3>2. CASE i <= Len(out[f])
        <4>1. i \in DOMAIN out[f]
          BY <1>1, <3>1, <3>2
        <4> QED
          BY <1>2, <3>1, <3>2, <4>1 DEF Fed, MarkedAt, Below
      <3>3. CASE i > Len(out[f])
        <4> DEFINE k == i - Len(out[f])
        <4>1. k \in 1 .. Len(tail) /\ k \in DOMAIN tail /\ (out[f] \o tail)[i] = tail[k]
          BY <2>1, <3>1, <3>3
        <4>2. i = Len(out[f]) + k
          BY <3>1, <3>3
        <4> HIDE DEF k
        <4>3. tail[k] = sent[f] + k - 1 \/ (k = 1 /\ tail[k] = Marker)
          BY <1>6, <1>10, <4>1 DEF TailAt
        <4>4. CASE tail[k] = sent[f] + k - 1
          <5>1. k \in Nat /\ k >= 1 /\ k <= Len(tail)
            BY <2>1, <4>1
          <5>2. sent[f] + k - 1 \in Nat /\ sent[f] + k - 1 < sent[f] + Len(tail)
            BY <1>1, <2>1, <5>1, PlaceInTail
          <5> QED
            BY <2>4, <4>1, <4>4, <5>2, MarkerAssumption
        <4>5. CASE k = 1 /\ tail[k] = Marker
          <5>1. MarkerAt(sent[f])
            BY <1>6, <1>10, <4>5
          <5>2. Len(out[f]) = prefix[f][1]
            BY <1>3, <5>1 DEF Seam
          <5> QED
            BY <1>1, <4>1, <4>2, <4>5, <5>2
        <4> QED
          BY <4>3, <4>4, <4>5
      <3> QED
        BY <3>1, <3>2, <3>3
    <2>6. Fed(f, out[f] \o batch[f])'
      BY <1>4, <1>7, <2>3, <2>5 DEF Fed, MarkedAt, Below
    <2>7. pc'[f] = "writing" /\ batchTip'[f] = sent[f] + Len(tail)
      BY <1>7, <1>10, <2>4
    <2> QED
      BY <1>4, <1>7, <1>8, <1>10, <2>3, <2>4, <2>6, <2>7 DEF Feeding
  <1> QED
    BY <1>9, <1>10

\* A write, whole or cut short, delivers of the feed what it says.
LEMMA WriteFed ==
    ASSUME StreamInv, StreamInv', NEW f \in Forwarders, f = granted, Attached(f),
           Feeding(f), WriteDone(f) \/ WriteFailed(f)
    PROVE  Feeding(f)'
  <1>1. /\ TypeOK /\ pushed \in Nat /\ out[f] \in Seq(Entry) /\ start[f] \in Nat
        /\ sent[f] \in Nat /\ prefix[f][1] \in Nat /\ batch[f] \in Seq(Entry)
        /\ batchTip[f] \in Nat
    BY DEF StreamInv, TypeOK
  <1>2. /\ pc[f] = "writing" /\ batch[f] # << >> /\ sent[f] < batchTip[f]
        /\ Fed(f, out[f] \o batch[f])
        /\ Reaches(out[f] \o batch[f], start[f], batchTip[f])
    BY DEF WriteDone, WriteFailed, Feeding
  <1>3. UNCHANGED <<log, pushed, granted, start, prefix, evicted, released>>
    BY DEF WriteDone, WriteFailed, sessionVars, handleVars, grantVars
  <1>4. CASE WriteDone(f)
    <2>1. /\ pc'[f] = "waiting" /\ out'[f] = out[f] \o batch[f]
          /\ sent'[f] = batchTip[f]
      BY <1>1, <1>4 DEF WriteDone, TypeOK
    <2>2. Fed(f, out[f])' /\ ~ FileLeft(f)'
      BY <1>2, <1>3, <2>1 DEF Fed, FileLeft
    <2>3. PICK e \in Nat : e = batchTip[f]
      BY <1>1
    <2>4. ASSUME ~ Stopped(f)'
          PROVE  Seam(f, e)'
      <3>1. f \in Live /\ ~ Stopped(f)
        BY <1>2, <1>3, <2>4 DEF Live, Exited, Stopped
      <3>2. registered = f
        BY <3>1 DEF Attached
      <3>3. sent[f] \in log.base .. Tip(log)
        BY <3>1, <3>2 DEF StreamInv, FloorHeld
      <3>4. log.base < e
        BY <1>1, <1>2, <2>3, <3>3, LogTyped
      <3>5. log.base # e
        BY <3>4, LogTyped
      <3>6. ~ MarkerAt(sent[f])'
        BY <1>3, <2>1, <2>3, <3>5 DEF MarkerAt
      <3> QED
        BY <2>1, <2>3, <3>6 DEF Seam
    <2>5. Reaches(out'[f], start'[f], e)
      BY <1>2, <1>3, <2>1, <2>3
    <2> QED
      BY <2>1, <2>2, <2>3, <2>4, <2>5 DEF Feeding
  <1>5. CASE WriteFailed(f)
    <2>1. pc'[f] \in {"ended", "stalled"}
      BY <1>1, <1>5 DEF WriteFailed, WriteEnds, TypeOK
    <2>2. PICK n \in 0 .. Len(batch[f]) : out'[f] = out[f] \o SubSeq(batch[f], 1, n)
      BY <1>1, <1>5 DEF WriteFailed, TypeOK
    <2>3. Fed(f, out[f])'
      BY <1>1, <1>2, <1>3, <2>2, FaithfulFront DEF Fed
    <2> QED
      BY <2>1, <2>3 DEF Feeding, FileLeft
  <1> QED
    BY <1>4, <1>5

\* A grant begins where the client asked, or with the file if it has to (do_attach).
LEMMA AttachFed ==
    ASSUME StreamInv, StreamInv', OrderInv, NEW c \in Conns, NEW cursor \in Cursors,
           Attach(c, cursor), NEW f \in Forwarders, f = granted'
    PROVE  Feeding(f)'
  <1> DEFINE fromBase == FromBase(log, cursor, generation)
  <1>1. /\ TypeOK /\ TypeOK' /\ log.base \in Nat /\ generation \in Nat /\ prefixLen \in Nat
        /\ prefixLen <= log.base /\ granted \in Nat /\ pushed \in Nat /\ log.base <= pushed
        /\ prefixLen < log.base => log.entries # << >> /\ log.entries[1] = Marker
    <2>1. /\ prefixLen <= log.base /\ TypeOK'
          /\ prefixLen < log.base => log.entries # << >> /\ log.entries[1] = Marker
      BY DEF StreamInv, PrefixMeetsResident
    <2>2. prefixLen \in Nat /\ granted \in Nat
      BY DEF StreamInv, TypeOK
    <2>3. log.base <= pushed
      BY LogTyped
    <2> QED
      BY <2>1, <2>2, <2>3, LogTyped
  <1>2. f = granted + 1 /\ log' = log /\ pushed' = pushed /\ out' = out
    BY DEF Attach, sessionVars
  <1>3. out[f] = << >> /\ out'[f] = << >> /\ Len(out'[f]) = 0
    <2>1. f > granted
      BY <1>1, <1>2
    <2> QED
      BY <1>2, <2>1 DEF OrderInv, InOrder
  <1>4. /\ pc'[f] = "granted"
        /\ sent'[f] = log.base + VecIndex(log, cursor, generation)
        /\ prefix'[f] = <<0, IF fromBase THEN prefixLen ELSE 0>>
        /\ start'[f] = IF fromBase THEN 0 ELSE cursor[2]
    BY <1>1, <1>2 DEF Attach, TypeOK
  <1>5. Fed(f, out[f])'
    BY <1>3, FaithfulEmpty DEF Fed, MarkedAt, Below
  <1>6. CASE fromBase
    <2>1. sent'[f] = log.base /\ start'[f] = 0 /\ prefix'[f] = <<0, prefixLen>>
      BY <1>1, <1>4, <1>6 DEF VecIndex
    <2>2. Reaches(out'[f], start'[f], 0)
      BY <1>3, <2>1 DEF Reaches
    <2>3. PICK e \in Nat : e = prefixLen /\ Seam(f, e)'
      <3>1. PICK e \in Nat : e = prefixLen
        BY <1>1
      <3>2. Seam(f, e)'
        BY <1>1, <1>2, <1>3, <2>1, <3>1 DEF Seam, MarkerAt
      <3> QED
        BY <3>1, <3>2
    <2>4. CASE prefixLen > 0
      <3>1. prefix'[f][1] = 0 /\ prefix'[f][2] = e
        BY <2>1, <2>3
      <3>2. Seam(f, prefix[f][2])'
        BY <2>3, <3>1 DEF Seam
      <3>3. FileLeft(f)'
        BY <1>4, <2>3, <2>4, <3>1 DEF FileLeft
      <3> QED
        BY <1>1, <1>2, <1>3, <1>4, <1>5, <2>2, <2>3, <3>1, <3>2, <3>3 DEF Feeding
    <2>5. CASE prefixLen = 0
      <3>1. ~ FileLeft(f)'
        BY <2>1, <2>5 DEF FileLeft
      <3> QED
        BY <1>3, <1>4, <1>5, <2>2, <2>3, <2>5, <3>1 DEF Feeding
    <2> QED
      BY <1>1, <2>4, <2>5
  <1>7. CASE ~ fromBase
    <2>1. cursor \in Nat \X Nat
      <3>1. cursor # NoCursor
        BY <1>7 DEF FromBase
      <3> QED
        BY <1>1, <3>1 DEF Cursors
    <2>2. PICK e \in Nat : e = cursor[2]
      BY <2>1
    <2>3. sent'[f] = e /\ start'[f] = e /\ prefix'[f] = <<0, 0>>
      <3>1. VecIndex(log, cursor, generation) = e - log.base
        BY <1>7, <2>2 DEF VecIndex
      <3> QED
        BY <1>1, <1>4, <1>7, <2>2, <3>1
    <2>4. Seam(f, e)' /\ Reaches(out'[f], start'[f], e)
      BY <1>3, <2>3 DEF Seam, Reaches
    <2>5. ~ FileLeft(f)'
      BY <2>3 DEF FileLeft
    <2> QED
      BY <1>3, <1>4, <1>5, <2>4, <2>5 DEF Feeding
  <1> QED
    BY <1>6, <1>7

\* The task is spawned where the grant put it.
LEMMA SpawnFed ==
    ASSUME StreamInv, StreamInv', NEW c \in Conns, NEW f \in Forwarders, Feeding(f),
           Spawn(c, f)
    PROVE  Feeding(f)'
  <1>1. /\ pc[f] = "granted" /\ pc'[f] = IF prefix[f][2] = 0 THEN "first" ELSE "prefix"
        /\ UNCHANGED <<log, pushed, granted, sent, prefix, start, evicted, released>>
        /\ prefix[f][2] \in Nat
    BY DEF Spawn, sessionVars, handleVars, grantVars, StreamInv, TypeOK
  <1>2. out'[f] = out[f]
    <2>1. out[f] = << >>
      BY <1>1 DEF Feeding
    <2> QED
      BY <2>1 DEF Spawn
  <1>3. FileLeft(f)' <=> FileLeft(f)
    BY <1>1 DEF FileLeft
  <1>4. /\ Stopped(f)' <=> Stopped(f)
        /\ \A e : Seam(f, e)' <=> Seam(f, e)
        /\ Fed(f, out[f])' <=> Fed(f, out[f])
    BY <1>1, <1>2 DEF Stopped, Seam, MarkerAt, Fed
  <1>5. pc'[f] = "prefix" => FileLeft(f)'
    BY <1>1 DEF FileLeft
  <1>6. Seam(f, prefix[f][2])' <=> Seam(f, prefix[f][2])
    BY <1>1, <1>2 DEF Seam, MarkerAt
  <1> QED
    BY <1>1, <1>2, <1>3, <1>4, <1>5, <1>6 DEF Feeding

\* Every step keeps the newest forwarder fed.
LEMMA FeedStep ==
    ASSUME OneConnection, StreamInv, StreamInv', OrderInv, FeedInv, [Next]_vars
    PROVE  FeedInv'
  <1>1. EventLast' /\ \A f \in Forwarders : Attached(f)'
    BY EventLastStep, AttachedStep DEF FeedInv
  <1> SUFFICES ASSUME NEW f \in Forwarders, f = granted'
               PROVE  Feeding(f)'
    BY <1>1 DEF FeedInv
  <1>2. EventLast /\ Attached(f) /\ (f = granted => Feeding(f))
    BY DEF FeedInv
  <1>3. ASSUME f = granted, Unfed(f)
        PROVE  Feeding(f)'
    BY <1>2, <1>3, UnfedStep
  <1>4. CASE ActorStep \/ CrashAndRecover \/ UNCHANGED vars
    <2>1. CASE \E c \in Conns : \E cursor \in Cursors : Attach(c, cursor)
      BY <2>1, AttachFed
    <2>2. CASE ~ \E c \in Conns : \E cursor \in Cursors : Attach(c, cursor)
      <3>1. \/ Push \/ Archive \/ Unarchive \/ Restart \/ CrashAndRecover \/ UNCHANGED vars
            \/ \E c \in Conns : ActorDetach(c)
        BY <1>4, <2>2 DEF ActorStep
      <3>2. granted' = granted
        BY <3>1 DEF Push, Archive, Unarchive, Restart, CrashAndRecover, ActorDetach, vars,
                    grantVars
      <3> QED
        BY <1>2, <1>3, <3>1, <3>2, ActorUnfed
    <2> QED
      BY <2>1, <2>2
  <1>5. CASE HandlerStep
    <2>1. granted' = granted
      BY <1>5 DEF HandlerStep, Spawn, Detach, DropForArchive, Hangup, Connect, grantVars
    <2>2. ASSUME NEW c \in Conns, NEW g \in Forwarders, Spawn(c, g)
          PROVE  Feeding(f)'
      <3>1. g = f
        BY <2>1, <2>2 DEF FeedInv, Attached, Spawn
      <3> QED
        BY <1>2, <2>1, <2>2, <3>1, SpawnFed
    <2>3. ASSUME NEW c \in Conns, Detach(c) \/ DropForArchive(c) \/ Hangup(c) \/ Connect(c)
          PROVE  Feeding(f)'
      BY <1>2, <1>3, <2>1, <2>3, HandlerUnfed
    <2> QED
      BY <1>5, <2>2, <2>3 DEF HandlerStep
  <1>6. ASSUME NEW g \in Forwarders, ForwarderStep(g)
        PROVE  Feeding(f)'
    <2>1. granted' = granted
      BY <1>6 DEF ForwarderStep, StreamPrefix, FailPrefix, CutTail, WriteDone, WriteFailed,
                  ObserveStop, grantVars
    <2>2. CASE g # f
      BY <1>3, <1>6, <2>1, <2>2, ForwarderUnfed
    <2>3. CASE g = f
      <3>1. CASE StreamPrefix(f)
        BY <1>2, <2>1, <3>1, PrefixFed
      <3>2. CASE FailPrefix(f)
        BY <1>3, <2>1, <3>2, ForwarderUnfed
      <3>3. CASE CutTail(f)
        <4>1. CASE Stopped(f)
          BY <1>3, <2>1, <3>3, <4>1, ForwarderUnfed DEF CutTail
        <4>2. CASE ~ Stopped(f)
          BY <1>2, <2>1, <3>3, <4>2, CutFed
        <4> QED
          BY <4>1, <4>2
      <3>4. CASE WriteDone(f) \/ WriteFailed(f)
        BY <1>2, <2>1, <3>4, WriteFed
      <3> QED
        BY <1>6, <2>3, <3>1, <3>2, <3>3, <3>4 DEF ForwarderStep
    <2> QED
      BY <2>2, <2>3
  <1> QED
    BY <1>4, <1>5, <1>6 DEF Next

\* The two invariants hold together.
LEMMA FeedInvariant ==
    ASSUME OneConnection
    PROVE  Spec => [](StreamInv /\ OrderInv /\ FeedInv)
  <1>1. Init => FeedInv
    <2> SUFFICES ASSUME Init
                 PROVE  FeedInv
      OBVIOUS
    <2>1. EventLast
      BY DEF Init, EmptyFrom, EventLast
    <2>2. ASSUME NEW f \in Forwarders
          PROVE  Attached(f) /\ f # granted
      <3>1. f \in Nat /\ f > 0 /\ granted = 0 /\ pc[f] = "unused"
        BY DEF Init, Forwarders
      <3> QED
        BY <3>1 DEF Attached
    <2> QED
      BY <2>1, <2>2 DEF FeedInv
  <1>2. StreamInv /\ StreamInv' /\ OrderInv /\ FeedInv /\ [Next]_vars => FeedInv'
    BY FeedStep
  <1> QED
    BY <1>1, <1>2, OrderInvariant, StreamInvariant, PTL DEF Spec

\* The newest forwarder is the last one granted.
LEMMA NewestIsLast ==
    OneConnection /\ StreamInv /\ FeedInv => \A f \in Forwarders : Newest(f) <=> f = granted
  <1> SUFFICES ASSUME OneConnection, StreamInv, FeedInv, NEW f \in Forwarders
               PROVE  Newest(f) <=> f = granted
    OBVIOUS
  <1>1. /\ f \in Nat /\ granted \in 0 .. MaxAttach /\ MaxAttach \in Nat
        /\ \A g \in Forwarders : owner[g] = owner[f] /\ g \in Nat
        /\ \A g \in Forwarders : pc[g] # "unused" <=> g <= granted
    <2>1. \A g \in Forwarders : owner[g] \in Conns
      BY DEF StreamInv, TypeOK
    <2>2. \A g \in Forwarders : pc[g] # "unused" <=> g <= granted
      BY DEF FeedInv, Attached
    <2>3. granted \in 0 .. MaxAttach
      BY DEF StreamInv, TypeOK
    <2>4. MaxAttach \in Nat /\ \A g \in Forwarders : g \in Nat
      BY BoundsAssumption DEF Forwarders
    <2> QED
      BY <2>1, <2>2, <2>3, <2>4 DEF OneConnection
  <1>2. CASE f <= granted
    <2>1. granted \in Forwarders
      BY <1>1, <1>2 DEF Forwarders
    <2> QED
      BY <1>1, <1>2, <2>1 DEF Newest
  <1>3. CASE ~ (f <= granted)
    BY <1>1, <1>3 DEF Newest
  <1> QED
    BY <1>2, <1>3

\* A session's only subscriber is never gapped in the middle of its stream
\* (compaction_floor): a marker stands behind the file's events, or first.
THEOREM NeverGapped ==
    ASSUME OneConnection
    PROVE  Spec => []NeverGappedMidStream
  <1>1. StreamInv /\ FeedInv => NeverGappedMidStream
    <2> SUFFICES ASSUME StreamInv, FeedInv, NEW f \in Forwarders, Newest(f)
                 PROVE  MarkedAt(out[f], prefix[f][1])
      BY DEF NeverGappedMidStream, MarkedAt
    <2>1. f = granted
      BY NewestIsLast
    <2> QED
      BY <2>1 DEF FeedInv, Feeding, Fed
  <1> QED
    BY <1>1, FeedInvariant, PTL

(***************************************************************************)
(* The stream implements the feed.                                         *)
(***************************************************************************)

\* What TranscriptFeed sees of the forwarders.
Got == [f \in Forwarders |-> IF Newest(f) THEN out[f] ELSE << >>]

\* A forwarder hands over what it writes.
LEMMA WritesHandOver ==
    ASSUME StreamInv, StreamInv', NEW f \in Forwarders, Feeding(f), Feeding(f)',
           UNCHANGED <<pushed, start>>, NEW t \in Seq(Entry),
           t # << >>, out'[f] = out[f] \o t,
           Got[f] = out[f], Got'[f] = out'[f],
           \A g \in Forwarders \ {f} : Got'[g] = Got[g]
    PROVE  Feed!HandOver(f)
  <1>1. out[f] \in Seq(Entry) /\ Len(t) \in Nat /\ Len(t) > 0
    <2>1. out[f] \in Seq(Entry)
      BY DEF StreamInv, TypeOK
    <2>2. Len(t) # 0
      OBVIOUS
    <2> QED
      BY <2>1, <2>2
  <1>2. Len(Got'[f]) > Len(Got[f])
    BY <1>1
  <1>3. SubSeq(Got'[f], 1, Len(Got[f])) = Got[f]
    BY <1>1
  <1>4. /\ Feed!Faithful(Got'[f], start'[f])
        /\ \A i \in DOMAIN Got'[f] : Got'[f][i] # Marker => Got'[f][i] < pushed
    BY DEF Feeding, Fed, Below
  <1> QED
    BY <1>2, <1>3, <1>4 DEF Feed!HandOver, Got

\* Every step of the stream is a step of the feed, or none.
LEMMA StepImplements ==
    ASSUME OneConnection, StreamInv, StreamInv', OrderInv, FeedInv, FeedInv', [Next]_vars
    PROVE  [Feed!Next]_Feed!vars
  <1>1. /\ \A f \in Forwarders : Newest(f) <=> f = granted
        /\ \A f \in Forwarders : Newest(f)' <=> f = granted'
    <2>1. \A f \in Forwarders : Newest(f) <=> f = granted
      BY NewestIsLast
    <2>2. (OneConnection /\ StreamInv /\ FeedInv => \A f \in Forwarders : Newest(f) <=> f = granted)'
      BY NewestIsLast, PTL
    <2> QED
      BY <2>1, <2>2
  <1>2. /\ Got = [f \in Forwarders |-> IF f = granted THEN out[f] ELSE << >>]
        /\ Got' = [f \in Forwarders |-> IF f = granted' THEN out'[f] ELSE << >>]
    BY <1>1 DEF Got
  <1>3. /\ \A f \in Forwarders : Attached(f) /\ (f = granted => Feeding(f))
        /\ \A f \in Forwarders : f = granted' => Feeding(f)'
        /\ TypeOK /\ granted \in Nat
    <2>1. TypeOK
      BY DEF StreamInv
    <2>2. granted \in Nat
      BY <2>1 DEF TypeOK
    <2> QED
      BY <2>1, <2>2 DEF FeedInv
  <1>4. ASSUME UNCHANGED <<pushed, start>>, Got' = Got
        PROVE  UNCHANGED Feed!vars
    BY <1>4 DEF Feed!vars, Got
  <1>5. ASSUME UNCHANGED <<pushed, start, out, granted>>
        PROVE  UNCHANGED Feed!vars
    BY <1>2, <1>4, <1>5
  <1>6. CASE Push
    <2>1. UNCHANGED <<start, out, granted>> /\ pushed' = pushed + 1
      BY <1>6 DEF Push, grantVars, streamVars
    <2>2. Got' = Got
      BY <1>2, <2>1
    <2>3. Feed!Record
      BY <2>1, <2>2 DEF Feed!Record, Got
    <2> QED
      BY <2>3 DEF Feed!Next
  <1>7. ASSUME NEW c \in Conns, NEW cursor \in Cursors, Attach(c, cursor)
        PROVE  Feed!Next
    <2>1. PICK f \in Forwarders : f = granted + 1
      <3>1. granted + 1 \in Forwarders
        BY <1>3, <1>7, BoundsAssumption DEF Attach, Forwarders
      <3> QED
        BY <3>1
    <2>2. /\ granted' = f /\ pushed' = pushed /\ out' = out
          /\ \A g \in Forwarders \ {f} : start'[g] = start[g]
      BY <1>3, <1>7, <2>1 DEF Attach, sessionVars, TypeOK
    <2>3. out[f] = << >>
      <3>1. f > granted
        BY <1>3, <2>1
      <3> QED
        BY <3>1 DEF OrderInv, InOrder
    <2>4. Got[f] = << >> /\ \A g \in Forwarders : Got'[g] = << >>
      <3>1. Got[f] = << >>
        BY <1>2, <1>3, <2>1
      <3>2. \A g \in Forwarders : Got'[g] = IF g = f THEN out[g] ELSE << >>
        BY <1>2, <2>2
      <3> QED
        BY <2>3, <3>1, <3>2
    <2>5. Feed!Open(f)
      BY <2>2, <2>4 DEF Feed!Open, Got
    <2> QED
      BY <2>5 DEF Feed!Next
  <1>8. CASE \/ Archive \/ Unarchive \/ Restart \/ CrashAndRecover \/ UNCHANGED vars
             \/ \E c \in Conns : ActorDetach(c)
    <2>1. UNCHANGED <<pushed, start, out, granted>>
      BY <1>8 DEF Archive, Unarchive, Restart, CrashAndRecover, ActorDetach, vars,
                  sessionVars, grantVars, streamVars
    <2> QED
      BY <1>5, <2>1
  <1>9. CASE HandlerStep
    <2>1. UNCHANGED <<pushed, start, granted>>
      BY <1>9 DEF HandlerStep, Spawn, Detach, DropForArchive, Hangup, Connect, sessionVars,
                  grantVars
    <2>2. \A f \in Forwarders : f = granted => out'[f] = out[f]
      <3>1. ASSUME NEW c \in Conns, NEW g \in Forwarders, Spawn(c, g)
            PROVE  \A f \in Forwarders : f = granted => out'[f] = out[f]
        <4>1. g = granted
          BY <1>3, <3>1 DEF Attached, Spawn
        <4>2. ~ (granted < granted)
          BY <1>3
        <4> QED
          BY <3>1, <4>1, <4>2 DEF Spawn
      <3>2. ASSUME ~ \E c \in Conns : \E g \in Forwarders : Spawn(c, g)
            PROVE  out' = out
        BY <1>9, <3>2 DEF HandlerStep, Detach, DropForArchive, Hangup, Connect, streamVars
      <3> QED
        BY <3>1, <3>2
    <2>3. Got' = Got
      BY <1>2, <2>1, <2>2
    <2> QED
      BY <1>4, <2>1, <2>3
  <1>10. ASSUME NEW f \in Forwarders, ForwarderStep(f)
         PROVE  [Feed!Next]_Feed!vars
    <2>1. UNCHANGED <<pushed, start, granted>>
      BY <1>10 DEF ForwarderStep, StreamPrefix, FailPrefix, CutTail, WriteDone, WriteFailed,
                   ObserveStop, sessionVars, grantVars
    <2>2. \A g \in Forwarders \ {f} : out'[g] = out[g]
      BY <1>10, OthersUntouched
    <2>3. \A g \in Forwarders \ {f} : Got'[g] = Got[g]
      BY <1>2, <2>1, <2>2
    <2>4. ASSUME out'[f] = out[f]
          PROVE  UNCHANGED Feed!vars
      <3>1. \A g \in Forwarders : out'[g] = out[g]
        BY <2>2, <2>4
      <3>2. Got' = Got
        BY <1>2, <2>1, <3>1
      <3> QED
        BY <1>4, <2>1, <3>2
    <2>5. ASSUME NEW t \in Seq(Entry), t # << >>, out'[f] = out[f] \o t
          PROVE  [Feed!Next]_Feed!vars
      <3>1. CASE f = granted
        <4>1. Got[f] = out[f] /\ Got'[f] = out'[f]
          BY <1>2, <2>1, <3>1
        <4>2. Feed!HandOver(f)
          BY <1>3, <2>1, <2>3, <2>5, <3>1, <4>1, WritesHandOver
        <4> QED
          BY <4>2 DEF Feed!Next
      <3>2. CASE f # granted
        <4>1. Got[f] = << >> /\ Got'[f] = << >>
          BY <1>2, <2>1, <3>2
        <4>2. \A g \in Forwarders : Got'[g] = Got[g]
          BY <2>3, <4>1
        <4>3. Got' = Got
          BY <1>2, <4>2
        <4> QED
          BY <1>4, <2>1, <4>3
      <3> QED
        BY <3>1, <3>2
    <2>6. /\ out[f] \in Seq(Entry) /\ batch[f] \in Seq(Entry)
          /\ out \in [Forwarders -> Seq(Entry)]
          /\ prefix[f][1] \in Nat
      BY <1>3 DEF TypeOK
    <2>7. CASE StreamPrefix(f)
      <3>1. CASE out' = out
        BY <2>4, <3>1
      <3>2. CASE out' = [out EXCEPT ![f] = Append(@, (prefix[f][1] + 1) - 1)]
        <4>1. (prefix[f][1] + 1) - 1 = prefix[f][1]
          BY <2>6
        <4>2. out'[f] = Append(out[f], prefix[f][1]) /\ prefix[f][1] \in Entry
          BY <2>6, <3>2, <4>1 DEF Entry
        <4>3. /\ << prefix[f][1] >> \in Seq(Entry) /\ << prefix[f][1] >> # << >>
              /\ out'[f] = out[f] \o << prefix[f][1] >>
          BY <2>6, <4>2
        <4> QED
          BY <2>5, <4>3
      <3> QED
        BY <2>7, <3>1, <3>2 DEF StreamPrefix, ObserveStop, streamVars
    <2>8. CASE FailPrefix(f) \/ CutTail(f)
      <3>1. out' = out
        BY <2>8 DEF FailPrefix, CutTail, ObserveStop, streamVars
      <3> QED
        BY <2>4, <3>1
    <2>9. CASE WriteDone(f) \/ WriteFailed(f)
      <3>1. PICK t \in Seq(Entry) : out'[f] = out[f] \o t
        <4>1. CASE WriteDone(f)
          BY <2>6, <4>1 DEF WriteDone
        <4>2. CASE WriteFailed(f)
          <5>1. PICK n \in 0 .. Len(batch[f]) : out'[f] = out[f] \o SubSeq(batch[f], 1, n)
            BY <2>6, <4>2 DEF WriteFailed
          <5>2. \A i \in 1 .. n : batch[f][i] \in Entry
            BY <2>6, ElementOfSeq
          <5>3. SubSeq(batch[f], 1, n) \in Seq(Entry)
            BY <2>6, <5>2, SubSeqProperties
          <5> QED
            BY <5>1, <5>3
        <4> QED
          BY <2>9, <4>1, <4>2
      <3>2. CASE t = << >>
        <4>1. out'[f] = out[f]
          BY <2>6, <3>1, <3>2
        <4> QED
          BY <2>4, <4>1
      <3> QED
        BY <2>5, <3>1, <3>2
    <2> QED
      BY <1>10, <2>7, <2>8, <2>9 DEF ForwarderStep
  <1> QED
    BY <1>6, <1>7, <1>8, <1>9, <1>10 DEF Next, ActorStep

\* For a session with one subscriber the stream path - the bounded log, its file, the
\* forwarders and the sockets, compaction, archive and recovery - implements the feed
\* (do_attach, forward_notifications): what the subscriber holds only grows, in order,
\* nothing left out but where a marker says so, and no marker stands for nothing.
THEOREM StreamImplementsFeed ==
    ASSUME OneConnection
    PROVE  Spec => ImplementsFeed
  <1>1. Init => Feed!Init
    <2> SUFFICES ASSUME Init
                 PROVE  Feed!Init
      OBVIOUS
    <2>1. pushed = 0 /\ start = [f \in Forwarders |-> 0] /\ out = [f \in Forwarders |-> << >>]
      BY DEF Init
    <2>2. Got = [f \in Forwarders |-> << >>]
      BY <2>1 DEF Got
    <2> QED
      BY <2>1, <2>2 DEF Feed!Init, Got
  <1>2. /\ StreamInv /\ OrderInv /\ FeedInv /\ StreamInv' /\ FeedInv' /\ [Next]_vars
        => [Feed!Next]_Feed!vars
    BY StepImplements
  <1> QED
    BY <1>1, <1>2, FeedInvariant, PTL DEF Spec, ImplementsFeed, Feed!Spec
=============================================================================

--------------------------- MODULE TranscriptFeed ---------------------------
(***************************************************************************)
(* What a session promises whoever reads its transcript, with none of the  *)
(* machinery: events are recorded one after the other, and a feed opened   *)
(* at a position is handed the events from there on, in order, each once,  *)
(* none before it is recorded.  Where events are left out a Gap stands in  *)
(* their place, and a Gap always stands for at least one of them.          *)
(*                                                                         *)
(* The detail - the bounded log, the file, the tasks and the sockets - is  *)
(* TranscriptStream, which implements this for a session one connection    *)
(* subscribes to.                                                          *)
(***************************************************************************)
EXTENDS Integers, Sequences

CONSTANTS
    Feeds, \* feeds ever opened
    Gap    \* what stands for events left out

VARIABLES
    recorded, \* how many events the session has recorded
    first,    \* the position each feed was opened at
    got       \* what each feed has been handed

vars == <<recorded, first, got>>

Init ==
    /\ recorded = 0
    /\ first = [f \in Feeds |-> 0]
    /\ got = [f \in Feeds |-> << >>]

\* The event before position i of s, for a feed opened at n: the last one
\* handed over, or the one before the opening position.
Before(s, i, n) == IF i = 1 THEN n - 1 ELSE s[i - 1]

\* s is what a feed opened at n may have been handed.
Faithful(s, n) ==
    \A i \in DOMAIN s :
        IF s[i] = Gap THEN Before(s, i, n) # Gap
        ELSE IF Before(s, i, n) # Gap THEN s[i] = Before(s, i, n) + 1
        ELSE s[i] > Before(s, i - 1, n) + 1

Record ==
    /\ recorded' = recorded + 1
    /\ UNCHANGED <<first, got>>

\* A client may come back after its feed broke off: the feeds it had before are
\* forgotten.
Open(f) ==
    /\ got[f] = << >> /\ got'[f] = << >>
    /\ \A g \in Feeds \ {f} : got'[g] \in {got[g], << >>} /\ first'[g] = first[g]
    /\ UNCHANGED recorded

HandOver(f) ==
    /\ Len(got'[f]) > Len(got[f])
    /\ SubSeq(got'[f], 1, Len(got[f])) = got[f]
    /\ Faithful(got'[f], first[f])
    /\ \A i \in DOMAIN got'[f] : got'[f][i] # Gap => got'[f][i] < recorded
    /\ \A g \in Feeds \ {f} : got'[g] = got[g]
    /\ UNCHANGED <<recorded, first>>

Next == Record \/ \E f \in Feeds : Open(f) \/ HandOver(f)

Spec == Init /\ [][Next]_vars
=============================================================================

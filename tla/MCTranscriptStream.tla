------------------------ MODULE MCTranscriptStream ------------------------
(***************************************************************************)
(* TranscriptStream for TLC: the feed that its forwarders implement.       *)
(***************************************************************************)
EXTENDS TranscriptStream

\* The feed of a forwarder is what it wrote while no later attach of its
\* connection replaced it.
Feed == INSTANCE TranscriptFeed WITH
            Feeds <- Forwarders,
            Gap <- Marker,
            recorded <- pushed,
            first <- start,
            got <- [f \in Forwarders |-> IF Newest(f) THEN out[f] ELSE << >>]

\* The whole stream path (do_attach, forward_notifications, the durable prefix,
\* compaction, archive, recovery) implements the feed: what a subscriber holds
\* only grows, by events already recorded, in order, with none left out unless a
\* marker says so - and no marker stands for nothing.
ImplementsFeed == Feed!Spec
=============================================================================

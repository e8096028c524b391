---------------------------- MODULE MCUsageJournal ----------------------------
(***************************************************************************)
(* Small instances of UsageJournal for TLC.                                *)
(***************************************************************************)
EXTENDS UsageJournal, TLC

\* The first event is small, the third one larger than max_event_bytes, and
\* the others are as large as an event may be.
Sizes == [r \in Requests |-> IF r \in {1, 3} THEN r ELSE 2]
=============================================================================

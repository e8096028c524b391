-------------------------- MODULE UsageJournalProofs --------------------------
(***************************************************************************)
(* What UsageJournal guarantees for every set of requests, every sizing    *)
(* and every replay batch: an event is metered at most once and its fence  *)
(* holds, whatever fails; an accepted event is in the log when there are  *)
(* only crashes and power failures; it has its ready file when the machine *)
(* stays up.                                                               *)
(***************************************************************************)
EXTENDS UsageJournal, SumLemmas

Logs == [pending : SUBSET Requests, broken : BOOLEAN, bytes : Nat]

\* A frame that is cut short leaves a log.
LEMMA TornType ==
  ASSUME NEW l \in Logs
  PROVE  TornAppend(l) \in Logs
  <1>1. l.bytes + 1 \in Nat BY DEF Logs
  <1>2. TRUE \in BOOLEAN OBVIOUS
  <1> QED BY <1>1, <1>2 DEF TornAppend, Logs

\* Each way to write the log leaves a log.
LEMMA AppendTypes ==
  ASSUME NEW l \in Logs, NEW r \in Requests
  PROVE  /\ EmptyLog \in Logs
         /\ TornAppend(l) \in Logs
         /\ AppendReady(l, r) \in Logs
         /\ AppendAck(l, r) \in Logs
  <1>1. EmptyLog \in Logs BY DEF EmptyLog, Logs
  <1>2. l.pending \subseteq Requests /\ l.broken \in BOOLEAN /\ l.bytes \in Nat
    BY DEF Logs
  <1>3. TornAppend(l) \in Logs BY TornType
  <1>4. AppendReady(l, r) \in Logs
    <2>1. l.bytes + Size[r] + Overhead \in Nat
      BY <1>2, SizesType, BytesType
    <2>2. (l.broken \/ r \in Inexact) \in BOOLEAN
      OBVIOUS
    <2>3. (IF l.broken \/ r \in Inexact THEN l.pending ELSE l.pending \cup {r})
            \in SUBSET Requests
      BY <1>2
    <2> QED BY <2>1, <2>2, <2>3 DEF AppendReady, Logs
  <1>5. AppendAck(l, r) \in Logs
    <2>1. l.bytes + AckFrame \in Nat
      BY <1>2, BytesType
    <2>2. (IF l.broken THEN l.pending ELSE l.pending \ {r}) \in SUBSET Requests
      BY <1>2
    <2> QED BY <2>1, <2>2 DEF AppendAck, Logs
  <1> QED BY <1>1, <1>3, <1>4, <1>5

\* What an acknowledgement, done or failed, makes of the log.
LEMMA AckTypes ==
  ASSUME TypeOK, NEW r \in Requests, Ack(r) \/ AckFails(r)
  PROVE  /\ log' \in Logs
         /\ ready' \subseteq Requests /\ tmp' \subseteq Requests
         /\ quarantine' \subseteq Requests /\ unsynced' \subseteq Requests
         /\ mishaps' \in 0..MaxMishaps
  <1>1. log \in Logs /\ TornAppend(log) \in Logs /\ AppendAck(log, r) \in Logs
    BY AppendTypes DEF TypeOK, Logs
  <1>2. CASE Ack(r)
    BY <1>1, <1>2 DEF Ack, TypeOK, files
  <1>3. CASE AckFails(r)
    <2>1. log' \in Logs BY <1>1, <1>3 DEF AckFails
    <2>2. mishaps' \in 0..MaxMishaps BY <1>3, ReplayType DEF AckFails, TypeOK
    <2> QED BY <1>3, <2>1, <2>2 DEF AckFails, TypeOK
  <1> QED BY <1>2, <1>3

\* A handoff changes only the tables.
LEMMA HandoffTypes ==
  ASSUME TypeOK, NEW r \in Requests, NEW copy \in {"memory", "file"}, Handoff(r, copy)
  PROVE  /\ receipt' \in [Requests -> {"none", "memory", "file"}]
         /\ inserted' \in [Requests -> Nat]
         /\ kept' \subseteq Requests
         /\ outbox' \in [Requests -> {"none", "pending", "completed"}]
  BY DEF Handoff, TypeOK, tables

\* Every step keeps the types.
LEMMA TypesKept ==
  ASSUME TypeOK, [Next]_vars
  PROVE  TypeOK'
  <1> USE DEF TypeOK
  <1>1. ASSUME NEW r \in Requests, CheckHealthy(r)
        PROVE  TypeOK'
    BY <1>1 DEF CheckHealthy, files, tables
  <1>2. ASSUME NEW r \in Requests, TakeSlot(r)
        PROVE  TypeOK'
    <2>1. log \in Logs BY DEF Logs
    <2>2. log' \in Logs BY <1>2, <2>1, AppendTypes DEF TakeSlot
    <2>3. reserved' \subseteq Requests /\ phase' \in [Requests -> {"idle", "checked",
            "admitted", "accepted", "failed", "handed", "closed"}]
      BY <1>2 DEF TakeSlot
    <2> QED BY <1>2, <2>2, <2>3 DEF TakeSlot, tables, Logs
  <1>3. ASSUME NEW r \in Requests, Release(r)
        PROVE  TypeOK'
    BY <1>3 DEF Release, files, tables
  <1>4. ASSUME NEW r \in Requests, PutReady(r)
        PROVE  TypeOK'
    BY <1>4, AppendTypes DEF PutReady, tables, Logs
  <1>5. ASSUME NEW r \in Requests, PutReadyFails(r)
        PROVE  TypeOK'
    <2>1. log \in Logs BY DEF Logs
    <2>2. log' \in Logs /\ tmp' \subseteq Requests
      BY <1>5, <2>1, AppendTypes DEF PutReadyFails
    <2> QED BY <1>5, <2>2 DEF PutReadyFails, tables, Logs
  <1>6. ASSUME NEW r \in Requests, HandoffLive(r)
        PROVE  TypeOK'
    BY <1>6, HandoffTypes DEF HandoffLive, files
  <1>7. ASSUME NEW r \in Requests, DeferLive(r)
        PROVE  TypeOK'
    BY <1>7 DEF DeferLive, files, tables
  <1>8. ASSUME NEW r \in Requests, AckLive(r)
        PROVE  TypeOK'
    BY <1>8, AckTypes DEF AckLive, tables, Logs
  <1>9. ASSUME NEW r \in Requests, ReplaySkip(r)
        PROVE  TypeOK'
    BY <1>9 DEF ReplaySkip, files, tables
  <1>10. ASSUME NEW r \in Requests, ReplayHandoff(r)
         PROVE  TypeOK'
    BY <1>10, HandoffTypes DEF ReplayHandoff, files
  <1>11. ASSUME NEW r \in Requests, ReplayQuarantine(r)
         PROVE  TypeOK'
    BY <1>11 DEF ReplayQuarantine, tables
  <1>12. ASSUME NEW r \in Requests, CompleteOutbox(r)
         PROVE  TypeOK'
    BY <1>12 DEF CompleteOutbox, memory, files
  <1>13. ASSUME NEW r \in Requests, CollectUsage(r)
         PROVE  TypeOK'
    BY <1>13 DEF CollectUsage, memory, files
  <1>14. CASE ReplayList
    BY <1>14 DEF ReplayList, files, tables
  <1>15. CASE ReplayDefer
    BY <1>15 DEF ReplayDefer, files, tables
  <1>16. CASE ReplayAck
    <2>1. replaying \in Requests BY <1>16 DEF ReplayAck
    <2> QED BY <1>16, <2>1, AckTypes DEF ReplayAck, tables, Logs
  <1>17. CASE Crash
    <2>1. mishaps' \in 0..MaxMishaps BY <1>17, ReplayType DEF Crash
    <2>2. log' \in Logs
      <3>1. log \in Logs BY DEF Logs
      <3> QED BY <1>17, <3>1, TornType DEF Crash
    <2>3. phase' \in [Requests -> {"idle", "checked", "admitted", "accepted", "failed",
                                   "handed", "closed"}]
      BY <1>17 DEF Crash
    <2>4. ready' \subseteq Requests BY <1>17 DEF Crash
    <2> QED BY <1>17, <2>1, <2>2, <2>3, <2>4 DEF Crash, tables, Logs
  <1>18. CASE Restart
    BY <1>18 DEF Restart, tables
  <1>19. CASE UNCHANGED vars
    BY <1>19 DEF vars, memory, files, tables
  <1> QED
    BY <1>1, <1>2, <1>3, <1>4, <1>5, <1>6, <1>7, <1>8, <1>9, <1>10, <1>11, <1>12, <1>13,
       <1>14, <1>15, <1>16, <1>17, <1>18, <1>19 DEF Next

(***************************************************************************)
(* The journal's state has its types in every reachable state.             *)
(***************************************************************************)
THEOREM JournalTypes == Spec => []TypeOK
  <1>1. Init => TypeOK
    BY ReplayType DEF Init, TypeOK, EmptyLog
  <1>2. TypeOK /\ [Next]_vars => TypeOK'
    BY TypesKept
  <1> QED BY <1>1, <1>2, PTL DEF Spec

-----------------------------------------------------------------------------
\* The tables: a usage log is inserted with its receipt and collected only
\* after its settlement.
TablesInv ==
  \A r \in Requests :
    /\ receipt[r] = "none" => inserted[r] = 0 /\ outbox[r] = "none"
    /\ receipt[r] # "none" => inserted[r] = 1 /\ (r \in kept \/ outbox[r] = "completed")

\* One handoff keeps the tables consistent.
LEMMA HandoffKeepsTables ==
  ASSUME TypeOK, TablesInv, NEW r \in Requests, NEW copy \in {"memory", "file"},
         Handoff(r, copy)
  PROVE  TablesInv' /\ receipt'[r] # "none"
         /\ \A q \in Requests : receipt[q] # "none" => receipt'[q] # "none"
  BY DEF Handoff, TypeOK, TablesInv, tables

\* Every step keeps the tables consistent.
LEMMA TablesKept ==
  ASSUME TypeOK, TablesInv, [Next]_vars
  PROVE  TablesInv'
  <1>1. ASSUME NEW r \in Requests, CheckHealthy(r)
        PROVE  TablesInv'
    BY <1>1 DEF CheckHealthy, TablesInv, tables
  <1>2. ASSUME NEW r \in Requests, TakeSlot(r)
        PROVE  TablesInv'
    BY <1>2 DEF TakeSlot, TablesInv, tables
  <1>3. ASSUME NEW r \in Requests, Release(r)
        PROVE  TablesInv'
    BY <1>3 DEF Release, TablesInv, tables
  <1>4. ASSUME NEW r \in Requests, PutReady(r)
        PROVE  TablesInv'
    BY <1>4 DEF PutReady, TablesInv, tables
  <1>5. ASSUME NEW r \in Requests, PutReadyFails(r)
        PROVE  TablesInv'
    BY <1>5 DEF PutReadyFails, TablesInv, tables
  <1>6. ASSUME NEW r \in Requests, HandoffLive(r)
        PROVE  TablesInv'
    BY <1>6, HandoffKeepsTables DEF HandoffLive
  <1>7. ASSUME NEW r \in Requests, DeferLive(r)
        PROVE  TablesInv'
    BY <1>7 DEF DeferLive, TablesInv, tables
  <1>8. ASSUME NEW r \in Requests, AckLive(r)
        PROVE  TablesInv'
    BY <1>8 DEF AckLive, TablesInv, tables
  <1>9. ASSUME NEW r \in Requests, ReplaySkip(r)
        PROVE  TablesInv'
    BY <1>9 DEF ReplaySkip, TablesInv, tables
  <1>10. ASSUME NEW r \in Requests, ReplayHandoff(r)
         PROVE  TablesInv'
    BY <1>10, HandoffKeepsTables DEF ReplayHandoff
  <1>11. ASSUME NEW r \in Requests, ReplayQuarantine(r)
         PROVE  TablesInv'
    BY <1>11 DEF ReplayQuarantine, TablesInv, tables
  <1>12. ASSUME NEW r \in Requests, CompleteOutbox(r)
         PROVE  TablesInv'
    BY <1>12 DEF CompleteOutbox, TablesInv, TypeOK
  <1>13. ASSUME NEW r \in Requests, CollectUsage(r)
         PROVE  TablesInv'
    BY <1>13 DEF CollectUsage, TablesInv
  <1>14. CASE ReplayList
    BY <1>14 DEF ReplayList, TablesInv, tables
  <1>15. CASE ReplayDefer
    BY <1>15 DEF ReplayDefer, TablesInv, tables
  <1>16. CASE ReplayAck
    BY <1>16 DEF ReplayAck, TablesInv, tables
  <1>17. CASE Crash
    BY <1>17 DEF Crash, TablesInv, tables
  <1>18. CASE Restart
    BY <1>18 DEF Restart, TablesInv, tables
  <1>19. CASE UNCHANGED vars
    BY <1>19 DEF vars, tables, TablesInv
  <1> QED
    BY <1>1, <1>2, <1>3, <1>4, <1>5, <1>6, <1>7, <1>8, <1>9, <1>10, <1>11, <1>12, <1>13,
       <1>14, <1>15, <1>16, <1>17, <1>18, <1>19 DEF Next

\* The tables are consistent in every reachable state.
LEMMA TablesHold == Spec => []TablesInv
  <1>1. Init => TablesInv
    BY DEF Init, TablesInv
  <1>2. TypeOK /\ TablesInv /\ [Next]_vars => TablesInv'
    BY TablesKept
  <1> QED BY <1>1, <1>2, JournalTypes, PTL DEF Spec

(***************************************************************************)
(* No event gets a second usage log, whatever crashes, lost replies, torn  *)
(* files, failed acknowledgements and races of a request with the replay   *)
(* task there are.                                                         *)
(***************************************************************************)
THEOREM EventsAreMeteredOnce == Spec => []MeteredOnce
  <1>1. TypeOK /\ TablesInv => MeteredOnce
    BY DEF TypeOK, TablesInv, MeteredOnce, NeverUnfenced, Unfenced
  <1> QED BY <1>1, JournalTypes, TablesHold, PTL

(***************************************************************************)
(* A receipt always finds its usage log or its completed settlement, so    *)
(* replay never stops the instance for manual reconciliation.              *)
(***************************************************************************)
THEOREM FenceHolds == Spec => []NeverUnfenced
  <1>1. TablesInv => NeverUnfenced
    BY DEF TablesInv, NeverUnfenced, Unfenced
  <1> QED BY <1>1, TablesHold, PTL

-----------------------------------------------------------------------------
\* What the process knows: who acknowledges has handed off, an admitted
\* request has its slot and left no file before, and a stopped process has
\* no request under way.
SessionInv ==
  /\ \A r \in Requests :
       /\ phase[r] = "handed" => receipt[r] # "none"
       /\ phase[r] = "admitted" => r \in reserved
       /\ phase[r] \in {"idle", "checked", "admitted"} => r \notin log.pending
       /\ phase[r] \in {"idle", "checked", "admitted"} => r \notin ready \cup unsynced
       /\ ~up => phase[r] \in {"idle", "closed"}
  /\ replaying # Nobody => receipt[replaying] # "none"

\* No write adds an event to the readable prefix but the append of that event.
LEMMA AppendPending ==
  ASSUME NEW l \in Logs, NEW r \in Requests
  PROVE  /\ EmptyLog.pending = {}
         /\ TornAppend(l).pending = l.pending
         /\ AppendReady(l, r).pending \subseteq l.pending \cup {r}
         /\ AppendAck(l, r).pending \subseteq l.pending
  BY DEF EmptyLog, TornAppend, AppendReady, AppendAck, Logs

\* An acknowledgement, done or failed, adds nothing to the files but its own
\* unsynced entry.
LEMMA AckFiles ==
  ASSUME TypeOK, NEW r \in Requests, Ack(r) \/ AckFails(r)
  PROVE  /\ log'.pending \subseteq log.pending
         /\ ready' \subseteq ready
         /\ unsynced' \subseteq unsynced \cup ready
  <1>1. log \in Logs BY DEF TypeOK, Logs
  <1>2. TornAppend(log).pending = log.pending /\ AppendAck(log, r).pending \subseteq log.pending
    BY <1>1, AppendPending
  <1>3. CASE Ack(r) BY <1>2, <1>3 DEF Ack, files
  <1>4. CASE AckFails(r) BY <1>2, <1>4 DEF AckFails
  <1> QED BY <1>3, <1>4

\* Every step keeps what the process knows.
LEMMA SessionKept ==
  ASSUME TypeOK, TablesInv, SessionInv, [Next]_vars
  PROVE  SessionInv'
  <1> USE DEF SessionInv
  <1>0. log \in Logs BY DEF TypeOK, Logs
  <1>1. ASSUME NEW r \in Requests, CheckHealthy(r)
        PROVE  SessionInv'
    BY <1>1 DEF CheckHealthy, TypeOK, files, tables
  <1>2. ASSUME NEW r \in Requests, TakeSlot(r)
        PROVE  SessionInv'
    <2>1. log'.pending \subseteq log.pending BY <1>2, <1>0, AppendPending DEF TakeSlot
    <2> QED BY <1>2, <2>1 DEF TakeSlot, TypeOK, tables
  <1>3. ASSUME NEW r \in Requests, Release(r)
        PROVE  SessionInv'
    BY <1>3 DEF Release, TypeOK, files, tables
  <1>4. ASSUME NEW r \in Requests, PutReady(r)
        PROVE  SessionInv'
    <2>1. log'.pending \subseteq log.pending \cup {r} BY <1>4, <1>0, AppendPending DEF PutReady
    <2> QED BY <1>4, <2>1 DEF PutReady, TypeOK, tables
  <1>5. ASSUME NEW r \in Requests, PutReadyFails(r)
        PROVE  SessionInv'
    <2>1. log'.pending \subseteq log.pending \cup {r}
      BY <1>5, <1>0, AppendPending DEF PutReadyFails
    <2> QED BY <1>5, <2>1 DEF PutReadyFails, TypeOK, tables
  <1>6. ASSUME NEW r \in Requests, HandoffLive(r)
        PROVE  SessionInv'
    BY <1>6, HandoffKeepsTables DEF HandoffLive, TypeOK, files
  <1>7. ASSUME NEW r \in Requests, DeferLive(r)
        PROVE  SessionInv'
    BY <1>7 DEF DeferLive, TypeOK, files, tables
  <1>8. ASSUME NEW r \in Requests, AckLive(r)
        PROVE  SessionInv'
    BY <1>8, AckFiles DEF AckLive, TypeOK, tables
  <1>9. ASSUME NEW r \in Requests, ReplaySkip(r)
        PROVE  SessionInv'
    BY <1>9 DEF ReplaySkip, TypeOK, files, tables
  <1>10. ASSUME NEW r \in Requests, ReplayHandoff(r)
         PROVE  SessionInv'
    BY <1>10, HandoffKeepsTables DEF ReplayHandoff, Turn, TypeOK, files
  <1>11. ASSUME NEW r \in Requests, ReplayQuarantine(r)
         PROVE  SessionInv'
    BY <1>11 DEF ReplayQuarantine, TypeOK, tables
  <1>12. ASSUME NEW r \in Requests, CompleteOutbox(r)
         PROVE  SessionInv'
    BY <1>12 DEF CompleteOutbox, memory, files
  <1>13. ASSUME NEW r \in Requests, CollectUsage(r)
         PROVE  SessionInv'
    BY <1>13 DEF CollectUsage, memory, files
  <1>14. CASE ReplayList
    BY <1>14 DEF ReplayList, TypeOK, files, tables
  <1>15. CASE ReplayDefer
    BY <1>15 DEF ReplayDefer, TypeOK, files, tables
  <1>16. CASE ReplayAck
    <2>1. replaying \in Requests BY <1>16 DEF ReplayAck, TypeOK
    <2> QED BY <1>16, <2>1, AckFiles DEF ReplayAck, TypeOK, tables
  <1>17. CASE Crash
    <2>1. log'.pending = log.pending
      <3>1. TornAppend(log).pending = log.pending BY <1>0 DEF TornAppend, Logs
      <3> QED BY <1>17, <3>1 DEF Crash
    <2>2. ready' \subseteq ready \cup unsynced BY <1>17 DEF Crash
    <2> QED BY <1>17, <2>1, <2>2 DEF Crash, TypeOK, tables
  <1>18. CASE Restart
    BY <1>18 DEF Restart, TypeOK, tables
  <1>19. CASE UNCHANGED vars
    BY <1>19 DEF vars, memory, files, tables
  <1> QED
    BY <1>1, <1>2, <1>3, <1>4, <1>5, <1>6, <1>7, <1>8, <1>9, <1>10, <1>11, <1>12, <1>13,
       <1>14, <1>15, <1>16, <1>17, <1>18, <1>19 DEF Next

\* What the process knows holds in every reachable state.
LEMMA SessionHolds == Spec => []SessionInv
  <1>1. Init => SessionInv
    BY DEF Init, SessionInv, EmptyLog
  <1>2. TypeOK /\ TablesInv /\ SessionInv /\ [Next]_vars => SessionInv'
    BY SessionKept
  <1> QED BY <1>1, <1>2, JournalTypes, TablesHold, PTL DEF Spec

(***************************************************************************)
(* put_ready always finds its slot and no file under its name.             *)
(***************************************************************************)
THEOREM SlotsAreKept == Spec => []PutFindsSlot
  <1>1. SessionInv => PutFindsSlot
    BY DEF SessionInv, PutFindsSlot
  <1> QED BY <1>1, SessionHolds, PTL

-----------------------------------------------------------------------------
\* The accepted events that are not handed off yet.
Owed == {r \in accepted : receipt[r] = "none"}

\* While the machine stays up, an owed event has its ready file, and its line
\* in the log as long as the whole log can be read.
KillInv ==
  \A r \in Owed : r \in ready /\ (~log.broken => r \in log.pending)

\* What the writes do to the readable prefix and to its end.
LEMMA AppendKeeps ==
  ASSUME NEW l \in Logs, NEW r \in Requests
  PROVE  /\ TornAppend(l).broken /\ TornAppend(l).pending = l.pending
         /\ AppendReady(l, r).broken <=> (l.broken \/ r \in Inexact)
         /\ l.pending \subseteq AppendReady(l, r).pending
         /\ ~AppendReady(l, r).broken => r \in AppendReady(l, r).pending
         /\ AppendAck(l, r).broken = l.broken
         /\ l.pending \ {r} \subseteq AppendAck(l, r).pending
  BY DEF TornAppend, AppendReady, AppendAck, Logs

\* Nothing that was handed off is owed again.
LEMMA HandoffOwes ==
  ASSUME TypeOK, NEW r \in Requests, NEW copy \in {"memory", "file"}, Handoff(r, copy),
         accepted' = accepted
  PROVE  Owed' \subseteq Owed
  BY DEF Handoff, TypeOK, Owed, tables

\* An acknowledgement takes away at most the event it is about.
LEMMA AckKeeps ==
  ASSUME TypeOK, NEW r \in Requests, Ack(r) \/ AckFails(r)
  PROVE  /\ ready \ {r} \subseteq ready'
         /\ log.pending \ {r} \subseteq log'.pending
         /\ log.broken => log'.broken
  <1>1. log \in Logs BY DEF TypeOK, Logs
  <1>2. /\ TornAppend(log).broken /\ TornAppend(log).pending = log.pending
        /\ AppendAck(log, r).broken = log.broken
        /\ log.pending \ {r} \subseteq AppendAck(log, r).pending
    BY <1>1, AppendKeeps
  <1>3. CASE Ack(r) BY <1>2, <1>3 DEF Ack, files
  <1>4. CASE AckFails(r) BY <1>2, <1>4 DEF AckFails
  <1> QED BY <1>3, <1>4

\* Every step keeps the ready files of the owed events when no power fails.
LEMMA KillKept ==
  ASSUME TypeOK, SessionInv, KillInv, [Next]_vars, "power" \notin Faults
  PROVE  KillInv'
  <1> USE DEF KillInv
  <1>0. log \in Logs BY DEF TypeOK, Logs
  <1>1. ASSUME NEW r \in Requests, CheckHealthy(r)
        PROVE  KillInv'
    BY <1>1 DEF CheckHealthy, Owed, files, tables
  <1>2. ASSUME NEW r \in Requests, TakeSlot(r)
        PROVE  KillInv'
    <2>1. Owed' = Owed BY <1>2 DEF TakeSlot, Owed, tables
    <2>2. Idle => Owed = {} BY DEF Idle
    <2> QED BY <1>2, <2>1, <2>2 DEF TakeSlot
  <1>3. ASSUME NEW r \in Requests, Release(r)
        PROVE  KillInv'
    BY <1>3 DEF Release, Owed, files, tables
  <1>4. ASSUME NEW r \in Requests, PutReady(r)
        PROVE  KillInv'
    <2>1. Owed' \subseteq Owed \cup {r} BY <1>4 DEF PutReady, Owed, tables
    <2>2. log' = AppendReady(log, r) /\ ready' = ready \cup {r} BY <1>4 DEF PutReady
    <2>3. /\ log'.broken <=> (log.broken \/ r \in Inexact)
          /\ log.pending \subseteq log'.pending
          /\ ~log'.broken => r \in log'.pending
      BY <1>0, <2>2, AppendKeeps
    <2> QED BY <2>1, <2>2, <2>3
  <1>5. ASSUME NEW r \in Requests, PutReadyFails(r)
        PROVE  KillInv'
    <2>1. Owed' = Owed /\ ready' = ready BY <1>5 DEF PutReadyFails, Owed, tables
    <2>2. log' \in {log, TornAppend(log), AppendReady(log, r)} BY <1>5 DEF PutReadyFails
    <2>3. ~log'.broken => ~log.broken /\ log.pending \subseteq log'.pending
      BY <1>0, <2>2, AppendKeeps
    <2> QED BY <2>1, <2>3
  <1>6. ASSUME NEW r \in Requests, HandoffLive(r)
        PROVE  KillInv'
    BY <1>6, HandoffOwes DEF HandoffLive, files
  <1>7. ASSUME NEW r \in Requests, DeferLive(r)
        PROVE  KillInv'
    BY <1>7 DEF DeferLive, Owed, files, tables
  <1>8. ASSUME NEW r \in Requests, AckLive(r)
        PROVE  KillInv'
    <2>1. r \notin Owed BY <1>8 DEF AckLive, SessionInv, Owed
    <2>2. Owed' = Owed BY <1>8 DEF AckLive, Owed, tables
    <2>3. Ack(r) \/ AckFails(r) BY <1>8 DEF AckLive
    <2> QED BY <2>1, <2>2, <2>3, AckKeeps
  <1>9. ASSUME NEW r \in Requests, ReplaySkip(r)
        PROVE  KillInv'
    BY <1>9 DEF ReplaySkip, Owed, files, tables
  <1>10. ASSUME NEW r \in Requests, ReplayHandoff(r)
         PROVE  KillInv'
    BY <1>10, HandoffOwes DEF ReplayHandoff, files
  <1>11. ASSUME NEW r \in Requests, ReplayQuarantine(r)
         PROVE  KillInv'
    <2>1. r \notin Owed BY <1>11 DEF ReplayQuarantine, Conflict, Unfenced, Owed
    <2> QED BY <1>11, <2>1 DEF ReplayQuarantine, Owed, tables
  <1>12. ASSUME NEW r \in Requests, CompleteOutbox(r)
         PROVE  KillInv'
    BY <1>12 DEF CompleteOutbox, Owed, memory, files
  <1>13. ASSUME NEW r \in Requests, CollectUsage(r)
         PROVE  KillInv'
    BY <1>13 DEF CollectUsage, Owed, memory, files
  <1>14. CASE ReplayList
    BY <1>14 DEF ReplayList, Owed, files, tables
  <1>15. CASE ReplayDefer
    BY <1>15 DEF ReplayDefer, Owed, files, tables
  <1>16. CASE ReplayAck
    <2>1. replaying \in Requests BY <1>16 DEF ReplayAck, TypeOK
    <2>2. replaying \notin Owed BY <1>16 DEF ReplayAck, SessionInv, Owed
    <2>3. Owed' = Owed BY <1>16 DEF ReplayAck, Owed, tables
    <2>4. Ack(replaying) \/ AckFails(replaying) BY <1>16 DEF ReplayAck
    <2> QED BY <2>1, <2>2, <2>3, <2>4, AckKeeps
  <1>17. CASE Crash
    BY <1>17 DEF Crash, Owed, files, tables
  <1>18. CASE Restart
    BY <1>18 DEF Restart, Owed, tables
  <1>19. CASE UNCHANGED vars
    BY <1>19 DEF vars, memory, files, tables, Owed
  <1> QED
    BY <1>1, <1>2, <1>3, <1>4, <1>5, <1>6, <1>7, <1>8, <1>9, <1>10, <1>11, <1>12, <1>13,
       <1>14, <1>15, <1>16, <1>17, <1>18, <1>19 DEF Next

(***************************************************************************)
(* As long as the machine does not lose power, every accepted event that   *)
(* is not handed off keeps its ready file, however the process dies and    *)
(* whatever writes fail: replay will find it.                              *)
(***************************************************************************)
THEOREM AcceptedStaysIndexed ==
  ASSUME "power" \notin Faults
  PROVE  Spec => []AcceptedIndexed
  <1>1. Init => KillInv
    BY DEF Init, KillInv, Owed
  <1>2. TypeOK /\ SessionInv /\ KillInv /\ [Next]_vars => KillInv'
    BY KillKept
  <1>3. KillInv => AcceptedIndexed
    BY DEF KillInv, Owed, AcceptedIndexed
  <1> QED BY <1>1, <1>2, <1>3, JournalTypes, SessionHolds, PTL DEF Spec

-----------------------------------------------------------------------------
\* With power failures but no failing write: an owed event is in the readable
\* prefix; it may miss its ready file only behind a torn tail, and then
\* nobody can be admitted, who would append after it or empty the log.
PowerInv ==
  /\ \A r \in Owed : r \in log.pending
  /\ up /\ ~log.broken => Owed \subseteq ready
  /\ log.broken => /\ up => ~healthy
                   /\ \A r \in Requests : phase[r] \notin {"checked", "admitted"}

\* Every step keeps the owed events in the log.
LEMMA PowerKept ==
  ASSUME TypeOK, SessionInv, PowerInv, [Next]_vars, Inexact = {}, Faults \subseteq {"power"}
  PROVE  PowerInv'
  <1> USE DEF PowerInv
  <1>0. log \in Logs BY DEF TypeOK, Logs
  <1>1. ASSUME NEW r \in Requests, CheckHealthy(r)
        PROVE  PowerInv'
    BY <1>1 DEF CheckHealthy, Owed, TypeOK, files, tables
  <1>2. ASSUME NEW r \in Requests, TakeSlot(r)
        PROVE  PowerInv'
    <2>1. Owed' = Owed BY <1>2 DEF TakeSlot, Owed, tables
    <2>2. ~log.broken BY <1>2 DEF TakeSlot
    <2>3. Idle => Owed = {} BY <1>2, <2>2 DEF Idle, TakeSlot
    <2>4. ~log'.broken BY <1>2, <2>2 DEF TakeSlot, EmptyLog
    <2> QED BY <1>2, <2>1, <2>2, <2>3, <2>4 DEF TakeSlot
  <1>3. ASSUME NEW r \in Requests, Release(r)
        PROVE  PowerInv'
    BY <1>3 DEF Release, Owed, TypeOK, files, tables
  <1>4. ASSUME NEW r \in Requests, PutReady(r)
        PROVE  PowerInv'
    <2>1. Owed' \subseteq Owed \cup {r} BY <1>4 DEF PutReady, Owed, tables
    <2>2. log' = AppendReady(log, r) /\ ready' = ready \cup {r} /\ up BY <1>4 DEF PutReady
    <2>3. ~log.broken BY <1>4 DEF PutReady
    <2>4. ~log'.broken /\ log.pending \cup {r} \subseteq log'.pending
      BY <1>0, <2>2, <2>3, AppendKeeps
    <2> QED BY <2>1, <2>2, <2>3, <2>4
  <1>5. ASSUME NEW r \in Requests, PutReadyFails(r)
        PROVE  PowerInv'
    <2>1. Owed' = Owed BY <1>5 DEF PutReadyFails, Owed, tables
    <2> QED BY <1>5, <2>1 DEF PutReadyFails, TypeOK
  <1>6. ASSUME NEW r \in Requests, HandoffLive(r)
        PROVE  PowerInv'
    <2>1. Owed' \subseteq Owed BY <1>6, HandoffOwes DEF HandoffLive
    <2> QED BY <1>6, <2>1 DEF HandoffLive, TypeOK, files
  <1>7. ASSUME NEW r \in Requests, DeferLive(r)
        PROVE  PowerInv'
    BY <1>7 DEF DeferLive, Owed, TypeOK, files, tables
  <1>8. ASSUME NEW r \in Requests, AckLive(r)
        PROVE  PowerInv'
    <2>1. r \notin Owed BY <1>8 DEF AckLive, SessionInv, Owed
    <2>2. Owed' = Owed BY <1>8 DEF AckLive, Owed, tables
    <2>3. Ack(r) BY <1>8 DEF AckLive, AckFails
    <2>4. log'.broken = log.broken BY <1>0, <2>3, AppendKeeps DEF Ack, files
    <2>5. log.pending \ {r} \subseteq log'.pending /\ ready \ {r} \subseteq ready'
      BY <2>3, AckKeeps
    <2>6. \A q \in Requests : phase'[q] = phase[q] \/ phase'[q] = "closed"
      BY <1>8 DEF AckLive, TypeOK
    <2>7. up' = up /\ healthy' = healthy BY <1>8 DEF AckLive
    <2> QED BY <2>1, <2>2, <2>4, <2>5, <2>6, <2>7
  <1>9. ASSUME NEW r \in Requests, ReplaySkip(r)
        PROVE  PowerInv'
    BY <1>9 DEF ReplaySkip, Owed, files, tables
  <1>10. ASSUME NEW r \in Requests, ReplayHandoff(r)
         PROVE  PowerInv'
    <2>1. Owed' \subseteq Owed BY <1>10, HandoffOwes DEF ReplayHandoff
    <2> QED BY <1>10, <2>1 DEF ReplayHandoff, files
  <1>11. ASSUME NEW r \in Requests, ReplayQuarantine(r)
         PROVE  PowerInv'
    <2>1. r \notin Owed BY <1>11 DEF ReplayQuarantine, Conflict, Unfenced, Owed
    <2> QED BY <1>11, <2>1 DEF ReplayQuarantine, Owed, tables
  <1>12. ASSUME NEW r \in Requests, CompleteOutbox(r)
         PROVE  PowerInv'
    BY <1>12 DEF CompleteOutbox, Owed, memory, files
  <1>13. ASSUME NEW r \in Requests, CollectUsage(r)
         PROVE  PowerInv'
    BY <1>13 DEF CollectUsage, Owed, memory, files
  <1>14. CASE ReplayList
    BY <1>14 DEF ReplayList, Owed, files, tables
  <1>15. CASE ReplayDefer
    BY <1>15 DEF ReplayDefer, Owed, files, tables
  <1>16. CASE ReplayAck
    <2>1. replaying \in Requests BY <1>16 DEF ReplayAck, TypeOK
    <2>2. replaying \notin Owed BY <1>16 DEF ReplayAck, SessionInv, Owed
    <2>3. Owed' = Owed BY <1>16 DEF ReplayAck, Owed, tables
    <2>4. Ack(replaying) BY <1>16 DEF ReplayAck, AckFails
    <2>5. log'.broken = log.broken BY <1>0, <2>1, <2>4, AppendKeeps DEF Ack, files
    <2>6. log.pending \ {replaying} \subseteq log'.pending /\ ready \ {replaying} \subseteq ready'
      BY <2>1, <2>4, AckKeeps
    <2>7. up' = up /\ healthy' = healthy /\ phase' = phase BY <1>16 DEF ReplayAck
    <2> QED BY <2>2, <2>3, <2>5, <2>6, <2>7
  <1>17. CASE Crash
    <2>1. TornAppend(log).pending = log.pending BY <1>0 DEF TornAppend, Logs
    <2>2. log'.pending = log.pending BY <1>17, <2>1 DEF Crash
    <2>3. Owed' = Owed BY <1>17 DEF Crash, Owed, tables
    <2>4. \A r \in Requests : phase'[r] \in {"idle", "closed"} BY <1>17 DEF Crash
    <2> QED BY <1>17, <2>2, <2>3, <2>4 DEF Crash
  <1>18. CASE Restart
    <2>1. Owed' = Owed BY <1>18 DEF Restart, Owed, tables
    <2>2. \A r \in Requests : phase'[r] \in {"idle", "closed"} BY <1>18 DEF Restart, SessionInv
    <2> QED BY <1>18, <2>1, <2>2 DEF Restart
  <1>19. CASE UNCHANGED vars
    BY <1>19 DEF vars, memory, files, tables, Owed
  <1> QED
    BY <1>1, <1>2, <1>3, <1>4, <1>5, <1>6, <1>7, <1>8, <1>9, <1>10, <1>11, <1>12, <1>13,
       <1>14, <1>15, <1>16, <1>17, <1>18, <1>19 DEF Next

\* The owed events stay in the log in every reachable state.
LEMMA PowerHolds ==
  ASSUME Inexact = {}, Faults \subseteq {"power"}
  PROVE  Spec => []PowerInv
  <1>1. Init => PowerInv
    BY DEF Init, PowerInv, Owed, EmptyLog
  <1>2. TypeOK /\ SessionInv /\ PowerInv /\ [Next]_vars => PowerInv'
    BY PowerKept
  <1> QED BY <1>1, <1>2, JournalTypes, SessionHolds, PTL DEF Spec

(***************************************************************************)
(* The log is authoritative under crashes and power failures, as long as   *)
(* no write fails and every event reads back as it was written: what       *)
(* put_ready accepted can be read from the log until it is handed off.     *)
(***************************************************************************)
THEOREM AcceptedStaysInLog ==
  ASSUME Inexact = {}, Faults \subseteq {"power"}
  PROVE  Spec => []AcceptedInLog
  <1>1. PowerInv => AcceptedInLog
    BY DEF PowerInv, Owed, AcceptedInLog
  <1> QED BY <1>1, PowerHolds, PTL

(***************************************************************************)
(* Under the same faults a torn log stops admission.                       *)
(***************************************************************************)
THEOREM TornLogStopsAdmission ==
  ASSUME Inexact = {}, Faults \subseteq {"power"}
  PROVE  Spec => []BrokenStopsAdmission
  <1>1. PowerInv => BrokenStopsAdmission
    BY DEF PowerInv, BrokenStopsAdmission
  <1> QED BY <1>1, PowerHolds, PTL

(***************************************************************************)
(* The two together: under crashes and power failures alone the log is the *)
(* authority that put_ready and restore_indexes take it for.               *)
(***************************************************************************)
THEOREM LogStaysAuthoritative ==
  ASSUME Inexact = {}, Faults \subseteq {"power"}
  PROVE  Spec => []LogIsAuthoritative
  <1> QED BY AcceptedStaysInLog, TornLogStopsAdmission, PTL DEF LogIsAuthoritative

-----------------------------------------------------------------------------
\* The bytes that a set of files comes to.
LEMMA SizeOfFacts ==
  ASSUME NEW S \in SUBSET Requests
  PROVE  /\ SizeOf(S) \in Nat
         /\ SizeOf({}) = 0
         /\ \A T \in SUBSET Requests : S \subseteq T => SizeOf(S) <= SizeOf(T)
         /\ \A r \in Requests \ S : SizeOf(S \cup {r}) = SizeOf(S) + Size[r]
         /\ \A r \in S : SizeOf(S) = SizeOf(S \ {r}) + Size[r]
  <1> DEFINE f(U) == [r \in Requests |-> IF r \in U THEN Size[r] ELSE 0]
  <1>1. IsFiniteSet(Requests) /\ \A r \in Requests : Size[r] \in Nat
    BY KeysFinite, SizesType
  <1>2. \A U \in SUBSET Requests : f(U) \in [Requests -> Nat]
    BY <1>1
  <1>3. \A U \in SUBSET Requests : \A r \in Requests :
          f(U)[r] = IF r \in U THEN Size[r] ELSE 0
    OBVIOUS
  <1>4. \A U : SizeOf(U) = Sum(f(U))
    BY DEF SizeOf
  <1> HIDE DEF f
  <1>5. \A U \in SUBSET Requests : SizeOf(U) \in Nat
    BY <1>1, <1>2, <1>4, SumType
  <1>6. SizeOf({}) = 0
    <2>1. \A r \in Requests : f({})[r] = 0 BY <1>3
    <2> QED BY <1>2, <1>4, <2>1, SumZero
  <1>7. ASSUME NEW T \in SUBSET Requests, S \subseteq T
        PROVE  SizeOf(S) <= SizeOf(T)
    <2>1. \A r \in Requests : f(S)[r] <= f(T)[r] BY <1>1, <1>3, <1>7
    <2> QED BY <1>1, <1>2, <1>4, <2>1, SumMonotone
  <1>8. ASSUME NEW U \in SUBSET Requests, NEW r \in Requests \ U
        PROVE  SizeOf(U \cup {r}) = SizeOf(U) + Size[r]
    <2> DEFINE V == U \cup {r}
    <2>1. V \in SUBSET Requests /\ r \in V /\ r \notin U OBVIOUS
    <2>2. \A q \in Requests \ {r} : f(V)[q] = f(U)[q] BY <1>3
    <2>3. f(V)[r] = Size[r] /\ f(U)[r] = 0 BY <1>3, <2>1
    <2> HIDE DEF V
    <2>4. /\ Sum(f(U)) \in Nat /\ Sum(f(V)) \in Nat
          /\ Sum(f(V)) + f(U)[r] = Sum(f(U)) + f(V)[r]
      BY <1>1, <1>2, <2>1, <2>2, SumUpdate
    <2>5. Size[r] \in Nat BY <1>1
    <2> QED BY <1>4, <2>3, <2>4, <2>5 DEF V
  <1>9. ASSUME NEW r \in S
        PROVE  SizeOf(S) = SizeOf(S \ {r}) + Size[r]
    <2>1. S = (S \ {r}) \cup {r} /\ S \ {r} \in SUBSET Requests /\ r \in Requests \ (S \ {r})
      OBVIOUS
    <2> QED BY <2>1, <1>8
  <1> QED BY <1>5, <1>6, <1>7, <1>8, <1>9

\* The bytes that a set of requests is promised.
Promised(S) == Cardinality(S) * Slot

LEMMA PromisedFacts ==
  ASSUME NEW S \in SUBSET Requests
  PROVE  /\ Slot \in Nat /\ Promised(S) \in Nat
         /\ Promised({}) = 0
         /\ \A T \in SUBSET S : Promised(T) <= Promised(S)
         /\ \A r \in Requests \ S : Promised(S \cup {r}) = (Cardinality(S) + 1) * Slot
         /\ \A r \in S : Promised(S) = Promised(S \ {r}) + Slot
  <1>1. Slot \in Nat BY BytesType DEF Slot
  <1>2. IsFiniteSet(S) BY KeysFinite, FS_Subset
  <1>3. Cardinality(S) \in Nat /\ Cardinality({}) = 0 BY <1>2, FS_CardinalityType, FS_EmptySet
  <1>4. \A m, n \in Nat : /\ m * Slot \in Nat
                          /\ m <= n => m * Slot <= n * Slot
                          /\ (m + 1) * Slot = m * Slot + Slot
    BY <1>1
  <1>5. ASSUME NEW T \in SUBSET S
        PROVE  Promised(T) <= Promised(S)
    <2>1. Cardinality(T) \in Nat /\ Cardinality(T) <= Cardinality(S)
      BY <1>2, FS_Subset, FS_CardinalityType
    <2> QED BY <1>3, <1>4, <2>1 DEF Promised
  <1>6. ASSUME NEW r \in Requests \ S
        PROVE  Promised(S \cup {r}) = (Cardinality(S) + 1) * Slot
    <2>1. Cardinality(S \cup {r}) = Cardinality(S) + 1 BY <1>2, FS_AddElement
    <2> QED BY <2>1 DEF Promised
  <1>7. ASSUME NEW r \in S
        PROVE  Promised(S) = Promised(S \ {r}) + Slot
    <2>1. IsFiniteSet(S \ {r}) /\ Cardinality(S \ {r}) = Cardinality(S) - 1
      BY <1>2, FS_RemoveElement
    <2>2. Cardinality(S \ {r}) \in Nat BY <2>1, FS_CardinalityType
    <2>3. Cardinality(S) = Cardinality(S \ {r}) + 1 BY <1>3, <2>1
    <2> QED BY <1>4, <2>2, <2>3 DEF Promised
  <1>8. Promised({}) = 0 BY <1>1, <1>3 DEF Promised
  <1>9. Promised(S) \in Nat BY <1>3, <1>4 DEF Promised
  <1> QED BY <1>1, <1>5, <1>6, <1>7, <1>8, <1>9

\* What is used of max_bytes: the log, the files, and the promised slots.
\* When only power fails, it stays within max_bytes while events may still be
\* admitted or read back; a stopped instance will find it so when it rebuilds
\* the ready files from the log.
BoundInv ==
  /\ tmp = {}
  /\ ~up => reserved = {}
  /\ up /\ healthy => quarantine = {}
  /\ quarantine = {} =>
       /\ up /\ ~log.broken => log.pending \subseteq ready
       /\ up /\ (healthy \/ ~log.broken) =>
            log.bytes + SizeOf(ready) + Promised(reserved) <= MaxBytes
       /\ ~up /\ ~log.broken => log.bytes + SizeOf(log.pending) <= MaxBytes

\* The terms are natural numbers.
LEMMA WeightTypes ==
  ASSUME TypeOK
  PROVE  /\ log \in Logs
         /\ log.bytes \in Nat /\ log.pending \in SUBSET Requests
         /\ SizeOf(ready) \in Nat /\ SizeOf(log.pending) \in Nat
         /\ Promised(reserved) \in Nat /\ MaxBytes \in Nat
  BY SizeOfFacts, PromisedFacts, BytesType DEF TypeOK, Logs

\* A step that writes no file and promises nothing more.
LEMMA BoundQuiet ==
  ASSUME TypeOK, BoundInv, UNCHANGED <<files, up>>, reserved' \subseteq reserved,
         healthy' => healthy
  PROVE  BoundInv'
  <1>1. reserved \in SUBSET Requests BY DEF TypeOK
  <1>2. Promised(reserved') <= Promised(reserved) /\ Promised(reserved') \in Nat
    BY <1>1, PromisedFacts
  <1> QED BY <1>2, WeightTypes DEF BoundInv, files, SizeOf

\* The terms of the next state.
LEMMA BoundNow ==
  ASSUME tmp' = {}, ~up' => reserved' = {}, up' /\ healthy' => quarantine' = {},
         quarantine' = {} =>
           /\ up' /\ ~log'.broken => log'.pending \subseteq ready'
           /\ up' /\ (healthy' \/ ~log'.broken) =>
                log'.bytes + SizeOf(ready') + Promised(reserved') <= MaxBytes
           /\ ~up' /\ ~log'.broken => log'.bytes + SizeOf(log'.pending) <= MaxBytes
  PROVE  BoundInv'
  BY DEF BoundInv, SizeOf

\* An acknowledgement writes less than its ready file gives back.
LEMMA BoundAck ==
  ASSUME TypeOK, BoundInv, NEW r \in Requests, up, Ack(r), UNCHANGED <<up, healthy, reserved>>
  PROVE  BoundInv'
  <1>1. CASE r \notin ready
    BY <1>1, BoundQuiet DEF Ack, files
  <1>2. CASE r \in ready
    <2>1. /\ log' = AppendAck(log, r) /\ ready' = ready \ {r}
          /\ UNCHANGED <<tmp, quarantine>>
      BY <1>2 DEF Ack
    <2>2. /\ log'.bytes = log.bytes + AckFrame /\ log'.broken = log.broken
          /\ ~log.broken => log'.pending = log.pending \ {r}
      BY <2>1, WeightTypes DEF AppendAck, Logs
    <2>3. /\ SizeOf(ready) = SizeOf(ready \ {r}) + Size[r] /\ SizeOf(ready \ {r}) \in Nat
          /\ AckFrame \in Nat /\ Size[r] \in Nat /\ AckFrame <= Size[r]
      BY <1>2, SizeOfFacts, BytesType, SizesType DEF TypeOK
    <2>4. /\ tmp' = {} /\ up' /\ (healthy' => quarantine' = {})
          /\ quarantine' = {} => (~log'.broken => log'.pending \subseteq ready')
      BY <2>1, <2>2 DEF BoundInv
    <2>5. ASSUME quarantine' = {}, healthy' \/ ~log'.broken
          PROVE  log'.bytes + SizeOf(ready') + Promised(reserved') <= MaxBytes
      <3>1. log.bytes + SizeOf(ready) + Promised(reserved) <= MaxBytes
        BY <2>1, <2>2, <2>5 DEF BoundInv
      <3> QED BY <2>1, <2>2, <2>3, <3>1, WeightTypes
    <2> QED BY <2>4, <2>5, BoundNow
  <1> QED BY <1>1, <1>2

\* Every step keeps the bound.
LEMMA BoundKept ==
  ASSUME TypeOK, SessionInv, BoundInv, [Next]_vars, Faults \subseteq {"power"}
  PROVE  BoundInv'
  <1>1. ASSUME NEW r \in Requests,
               \/ CheckHealthy(r) \/ Release(r) \/ HandoffLive(r) \/ DeferLive(r)
               \/ ReplaySkip(r) \/ ReplayHandoff(r)
        PROVE  BoundInv'
    BY <1>1, BoundQuiet DEF CheckHealthy, Release, HandoffLive, DeferLive, ReplaySkip,
                            ReplayHandoff
  <1>2. ASSUME NEW r \in Requests, CompleteOutbox(r) \/ CollectUsage(r)
        PROVE  BoundInv'
    BY <1>2, BoundQuiet DEF CompleteOutbox, CollectUsage, memory
  <1>3. CASE ReplayList \/ ReplayDefer
    BY <1>3, BoundQuiet DEF ReplayList, ReplayDefer
  <1>4. CASE UNCHANGED vars
    BY <1>4, BoundQuiet DEF vars, memory
  <1>5. ASSUME NEW r \in Requests, TakeSlot(r)
        PROVE  BoundInv'
    <2>1. /\ up /\ up' /\ healthy' = healthy /\ UNCHANGED <<ready, tmp, quarantine>>
          /\ log' = IF Idle THEN EmptyLog ELSE log
          /\ \/ /\ DiskBytes(log') + (Cardinality(reserved) + 1) * Slot <= MaxBytes
                /\ reserved' = reserved \cup {r}
             \/ reserved' = reserved
      BY <1>5 DEF TakeSlot
    <2>2. /\ tmp' = {} /\ (healthy' => quarantine' = {})
          /\ quarantine' = {} => (~log'.broken => log'.pending \subseteq ready')
      <3>1. EmptyLog.pending = {} BY DEF EmptyLog
      <3> QED BY <2>1, <3>1 DEF BoundInv
    <2>3. log'.bytes \in Nat BY <2>1, WeightTypes DEF EmptyLog
    <2>4. ASSUME quarantine' = {}, healthy' \/ ~log'.broken
          PROVE  log'.bytes + SizeOf(ready') + Promised(reserved') <= MaxBytes
      <3>1. CASE /\ DiskBytes(log') + (Cardinality(reserved) + 1) * Slot <= MaxBytes
                 /\ reserved' = reserved \cup {r}
        <4>1. DiskBytes(log') = log'.bytes + SizeOf(ready)
          <5>1. SizeOf(tmp) = 0 /\ SizeOf(quarantine) = 0 /\ SizeOf(ready) \in Nat
            BY <2>1, <2>4, SizeOfFacts DEF BoundInv, TypeOK
          <5> QED BY <2>3, <5>1 DEF DiskBytes
        <4>2. Promised(reserved') <= (Cardinality(reserved) + 1) * Slot
          <5>1. reserved \in SUBSET Requests BY DEF TypeOK
          <5>2. Cardinality(reserved) \in Nat
            BY <5>1, KeysFinite, FS_Subset, FS_CardinalityType
          <5>3. CASE r \in reserved
            <6>1. reserved' = reserved BY <3>1, <5>3
            <6>2. Slot \in Nat BY <5>1, PromisedFacts
            <6> QED BY <6>1, <6>2, <5>2 DEF Promised
          <5>4. CASE r \notin reserved
            <6>1. Promised(reserved \cup {r}) = (Cardinality(reserved) + 1) * Slot
              BY <5>1, <5>4, PromisedFacts
            <6>2. Promised(reserved \cup {r}) \in Nat BY <5>1, PromisedFacts
            <6> QED BY <3>1, <6>1, <6>2
          <5> QED BY <5>3, <5>4
        <4>3. Promised(reserved') \in Nat /\ SizeOf(ready') = SizeOf(ready)
          <5>1. reserved' \in SUBSET Requests BY <3>1 DEF TypeOK
          <5> QED BY <2>1, <5>1, PromisedFacts
        <4>4. (Cardinality(reserved) + 1) * Slot \in Nat
          <5>1. reserved \in SUBSET Requests /\ IsFiniteSet(Requests)
            BY KeysFinite DEF TypeOK
          <5>2. IsFiniteSet(reserved) BY <5>1, FS_Subset
          <5>3. Cardinality(reserved) + 1 \in Nat BY <5>2, FS_CardinalityType
          <5>4. Slot \in Nat BY <5>1, PromisedFacts
          <5> QED BY <5>3, <5>4
        <4> DEFINE more == (Cardinality(reserved) + 1) * Slot
        <4>5. log'.bytes + SizeOf(ready) + more <= MaxBytes BY <3>1, <4>1
        <4>6. Promised(reserved') <= more /\ more \in Nat BY <4>2, <4>4
        <4> HIDE DEF more
        <4> QED BY <2>3, <4>3, <4>5, <4>6, WeightTypes
      <3>2. CASE reserved' = reserved
        <4>1. CASE Idle
          <5>1. reserved = {} /\ ready = {} BY <4>1 DEF Idle
          <5>2. log'.bytes = 0 BY <2>1, <4>1 DEF EmptyLog
          <5>3. SizeOf({}) = 0 /\ Promised({}) = 0 BY SizeOfFacts, PromisedFacts
          <5> QED BY <2>1, <3>2, <5>1, <5>2, <5>3, BytesType
        <4>2. CASE ~Idle
          BY <2>1, <2>4, <3>2, <4>2 DEF BoundInv
        <4> QED BY <4>1, <4>2
      <3> QED BY <2>1, <3>1, <3>2
    <2> QED BY <2>1, <2>2, <2>4, BoundNow
  <1>6. ASSUME NEW r \in Requests, PutReady(r)
        PROVE  BoundInv'
    <2>1. /\ up /\ up' /\ healthy' = healthy /\ UNCHANGED <<tmp, quarantine>>
          /\ log' = AppendReady(log, r) /\ ready' = ready \cup {r}
          /\ reserved' = reserved \ {r} /\ Size[r] <= MaxEvent
          /\ r \in reserved /\ r \notin ready
      BY <1>6 DEF PutReady, SessionInv
    <2>2. /\ log'.bytes = log.bytes + Size[r] + Overhead
          /\ log'.broken <=> (log.broken \/ r \in Inexact)
          /\ ~log'.broken => log'.pending = log.pending \cup {r}
      BY <2>1, WeightTypes DEF AppendReady, Logs
    <2>3. /\ tmp' = {} /\ (healthy' => quarantine' = {})
          /\ quarantine' = {} => (~log'.broken => log'.pending \subseteq ready')
      BY <2>1, <2>2 DEF BoundInv
    <2>4. SizeOf(ready') = SizeOf(ready) + Size[r]
      BY <2>1, SizeOfFacts DEF TypeOK
    <2>5. Promised(reserved) = Promised(reserved') + Slot /\ Promised(reserved') \in Nat
      <3>1. reserved \in SUBSET Requests /\ reserved' \in SUBSET Requests
        BY <2>1 DEF TypeOK
      <3> QED BY <2>1, <3>1, PromisedFacts
    <2>6. /\ Size[r] \in Nat /\ Overhead \in Nat /\ Margin \in Nat /\ MaxEvent \in Nat
          /\ Overhead <= Margin /\ Slot = 2 * MaxEvent + Margin
      BY SizesType, BytesType DEF Slot
    <2>7. ASSUME quarantine' = {}, healthy' \/ ~log'.broken
          PROVE  log'.bytes + SizeOf(ready') + Promised(reserved') <= MaxBytes
      <3>1. log.bytes + SizeOf(ready) + Promised(reserved) <= MaxBytes
        BY <2>1, <2>2, <2>7 DEF BoundInv
      <3> QED BY <2>1, <2>2, <2>4, <2>5, <2>6, <3>1, WeightTypes
    <2> QED BY <2>1, <2>3, <2>7, BoundNow
  <1>7. ASSUME NEW r \in Requests, PutReadyFails(r)
        PROVE  BoundInv'
    <2>1. UNCHANGED <<files, up, reserved>> /\ ~healthy'
      BY <1>7 DEF PutReadyFails, files
    <2> QED BY <2>1, BoundQuiet
  <1>8. ASSUME NEW r \in Requests, AckLive(r)
        PROVE  BoundInv'
    <2>1. Ack(r) /\ up /\ UNCHANGED <<up, healthy, reserved>>
      BY <1>8 DEF AckLive, AckFails
    <2> QED BY <2>1, BoundAck
  <1>9. CASE ReplayAck
    <2>1. replaying \in Requests BY <1>9 DEF ReplayAck, TypeOK
    <2>2. Ack(replaying) /\ up /\ UNCHANGED <<up, healthy, reserved>>
      BY <1>9 DEF ReplayAck, AckFails
    <2> QED BY <2>1, <2>2, BoundAck
  <1>10. ASSUME NEW r \in Requests, ReplayQuarantine(r)
         PROVE  BoundInv'
    <2>1. up /\ up' /\ ~healthy' /\ quarantine' # {} /\ tmp' = tmp
      BY <1>10 DEF ReplayQuarantine, Turn
    <2> QED BY <2>1, BoundNow DEF BoundInv
  <1>11. CASE Crash
    <2>1. /\ up /\ ~up' /\ reserved' = {} /\ UNCHANGED <<tmp, quarantine>>
          /\ log' \in {log, TornAppend(log)}
      BY <1>11 DEF Crash
    <2>2. TornAppend(log).broken BY WeightTypes DEF TornAppend, Logs
    <2>3. ASSUME quarantine' = {}, ~log'.broken
          PROVE  log'.bytes + SizeOf(log'.pending) <= MaxBytes
      <3>1. log' = log BY <2>1, <2>2, <2>3
      <3>2. /\ log.pending \subseteq ready
            /\ log.bytes + SizeOf(ready) + Promised(reserved) <= MaxBytes
        BY <2>1, <2>3, <3>1 DEF BoundInv
      <3>3. SizeOf(log.pending) <= SizeOf(ready)
        BY <3>2, WeightTypes, SizeOfFacts DEF TypeOK
      <3> QED BY <3>1, <3>2, <3>3, WeightTypes
    <2> QED BY <2>1, <2>3, BoundNow DEF BoundInv
  <1>12. CASE Restart
    <2>1. ~up /\ up' /\ UNCHANGED <<reserved, log, quarantine>> /\ reserved = {}
      BY <1>12 DEF Restart, BoundInv
    <2>2. CASE log.broken
      BY <1>12, <2>1, <2>2, BoundNow DEF Restart, BoundInv
    <2>3. CASE ~log.broken
      <3>1. /\ healthy' = (quarantine = {}) /\ tmp' = {} /\ ready' = log.pending
        BY <1>12, <2>3 DEF Restart
      <3>2. Promised(reserved') = 0 BY <2>1, PromisedFacts
      <3>3. quarantine = {} => log.bytes + SizeOf(log.pending) <= MaxBytes
        BY <2>1, <2>3 DEF BoundInv
      <3>4. quarantine' = {} => log'.bytes + SizeOf(ready') + Promised(reserved') <= MaxBytes
        BY <2>1, <3>1, <3>2, <3>3, WeightTypes
      <3>5. quarantine' = {} => log'.pending \subseteq ready'
        BY <2>1, <3>1
      <3> QED BY <2>1, <3>1, <3>4, <3>5, BoundNow
    <2> QED BY <2>2, <2>3
  <1>13. CASE \E r \in Requests :
                \/ CheckHealthy(r) \/ TakeSlot(r) \/ Release(r)
                \/ PutReady(r) \/ PutReadyFails(r)
                \/ HandoffLive(r) \/ DeferLive(r) \/ AckLive(r)
                \/ ReplaySkip(r) \/ ReplayHandoff(r) \/ ReplayQuarantine(r)
                \/ CompleteOutbox(r) \/ CollectUsage(r)
    BY <1>13, <1>1, <1>2, <1>5, <1>6, <1>7, <1>8, <1>10
  <1> QED BY <1>3, <1>4, <1>9, <1>11, <1>12, <1>13 DEF Next

(***************************************************************************)
(* A slot is a promise the disk can keep: with crashes and power failures, *)
(* but no failing write, the journal stays within max_bytes while it       *)
(* admits requests, although acknowledgements are appended without a slot  *)
(* and a restart rebuilds the ready files; and put_ready finds its slot.   *)
(***************************************************************************)
THEOREM SlotsAreSufficient ==
  ASSUME Faults \subseteq {"power"}
  PROVE  Spec => []SlotsSuffice
  <1>1. Init => BoundInv
    <2> SUFFICES ASSUME Init PROVE BoundInv
      OBVIOUS
    <2>1. SizeOf({}) = 0 /\ Promised({}) = 0 BY SizeOfFacts, PromisedFacts
    <2> QED BY <2>1, BytesType DEF Init, BoundInv, EmptyLog
  <1>2. TypeOK /\ SessionInv /\ BoundInv /\ [Next]_vars => BoundInv'
    BY BoundKept
  <1>3. TypeOK /\ BoundInv => Bounded
    <2> SUFFICES ASSUME TypeOK, BoundInv, up, healthy
                 PROVE  DiskBytes(log) + Cardinality(reserved) * Slot <= MaxBytes
      BY DEF Bounded
    <2>1. /\ quarantine = {} /\ tmp = {}
          /\ log.bytes + SizeOf(ready) + Promised(reserved) <= MaxBytes
      BY DEF BoundInv
    <2>2. SizeOf({}) = 0 BY SizeOfFacts
    <2>3. DiskBytes(log) = log.bytes + SizeOf(ready)
      BY <2>1, <2>2, WeightTypes DEF DiskBytes
    <2> QED BY <2>1, <2>3 DEF Promised
  <1> QED BY <1>1, <1>2, <1>3, JournalTypes, SessionHolds, SlotsAreKept, PTL
          DEF Spec, SlotsSuffice
=============================================================================

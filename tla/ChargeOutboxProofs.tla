-------------------------- MODULE ChargeOutboxProofs --------------------------
(***************************************************************************)
(* Proofs about ChargeOutbox, for any number of usages, workers, faults    *)
(* and restarts, any queue capacity and any number of attempts.            *)
(***************************************************************************)
EXTENDS ChargeOutbox, FiniteSetTheorems, TLAPS

\* The rows the UPDATEs and the INSERT leave behind are rows.
LEMMA RowWrites ==
  ASSUME TypeOK, NEW w \in Usages
  PROVE  /\ MarkedFailed(w) \in [Usages -> Rows]
         /\ MarkedCompleted(w) \in [Usages -> Rows]
         /\ Persisted(w) \in [Usages -> Rows]
<1>1. box \in [Usages -> Rows] /\ box[w] \in Rows BY DEF TypeOK
<1>2. box[w].attempts + 1 \in Nat BY <1>1 DEF Rows
<1>3. MarkedFailed(w) \in [Usages -> Rows] BY <1>1, <1>2 DEF MarkedFailed, Rows, RowStatuses
<1>4. MarkedCompleted(w) \in [Usages -> Rows] BY <1>1 DEF MarkedCompleted, Rows, RowStatuses
<1>5. NewRow \in Rows BY DEF NewRow, Rows, RowStatuses
<1>6. Persisted(w) \in [Usages -> Rows] BY <1>1, <1>5 DEF Persisted
<1> QED BY <1>3, <1>4, <1>6

\* What a row write does to the statuses: only mark_outbox_completed
\* completes a row, only the last attempt fails one, no row disappears.
LEMMA RowEffects ==
  ASSUME TypeOK, NEW w \in Usages, NEW u \in Usages
  PROVE  /\ MarkedFailed(w)[u].status = "completed" => box[u].status = "completed"
         /\ box[u].status = "completed" => MarkedFailed(w)[u].status = "completed"
         /\ MarkedFailed(w)[u].status = "absent" <=> box[u].status = "absent"
         /\ MarkedCompleted(w)[u].status = "completed" => box[u].status = "completed" \/ u = w
         /\ box[u].status = "completed" => MarkedCompleted(w)[u].status = "completed"
         /\ MarkedCompleted(w)[u].status = "absent" <=> box[u].status = "absent"
         /\ Persisted(w)[u].status = "completed" <=> box[u].status = "completed"
         /\ Persisted(w)[u].status = "absent" => box[u].status = "absent"
         /\ u # w => MarkedFailed(w)[u] = box[u] /\ MarkedCompleted(w)[u] = box[u]
                     /\ Persisted(w)[u] = box[u]
<1>1. box \in [Usages -> Rows] /\ box[w] \in Rows /\ box[u] \in Rows BY DEF TypeOK
<1>2. CASE u = w
  BY <1>1, <1>2 DEF MarkedFailed, MarkedCompleted, Persisted, NewRow, Rows
<1>3. CASE u # w
  BY <1>1, <1>3 DEF MarkedFailed, MarkedCompleted, Persisted
<1> QED BY <1>2, <1>3

\* A dead letter stays one until it is completed, and has used its attempts.
LEMMA DeadLetters ==
  ASSUME TypeOK, RowsFollowLogs, NEW w \in Usages, NEW u \in Usages
  PROVE  /\ MarkedFailed(w)[u].status = "failed" => MarkedFailed(w)[u].attempts >= MaxAttempts
         /\ MarkedCompleted(w)[u].status = "failed" => MarkedCompleted(w)[u].attempts >= MaxAttempts
         /\ Persisted(w)[u].status = "failed" => Persisted(w)[u].attempts >= MaxAttempts
         /\ box[u].status = "failed" => /\ MarkedFailed(w)[u].status = "failed"
                                        /\ Persisted(w)[u].status = "failed"
                                        /\ u # w => MarkedCompleted(w)[u].status = "failed"
<1>1. box \in [Usages -> Rows] /\ box[w] \in Rows /\ box[u] \in Rows BY DEF TypeOK
<1>2. box[u].attempts \in Nat /\ MaxAttempts \in Nat BY <1>1, LimitsAssumption DEF Rows
<1>3. box[u].status = "failed" => box[u].attempts >= MaxAttempts BY DEF RowsFollowLogs
<1>4. CASE u = w
  BY <1>1, <1>2, <1>3, <1>4 DEF MarkedFailed, MarkedCompleted, Persisted, NewRow, Rows
<1>5. CASE u # w
  BY <1>1, <1>3, <1>5 DEF MarkedFailed, MarkedCompleted, Persisted
<1> QED BY <1>4, <1>5

\* What a settlement does: it may charge w, and has when it reports success.
LEMMA SettleEffects ==
  ASSUME TypeOK, NEW w \in Usages, NEW k \in BOOLEAN, NEW ok \in BOOLEAN,
         SettleUsage(w, k, ok)
  PROVE  /\ charged' = charged \/ charged' = charged \cup {w}
         /\ ok => w \in charged'
         /\ hold' \in [Usages -> Holds]
         /\ faults' \in 0..MaxFaults
<1>1. faults' \in 0..MaxFaults
  BY LimitsAssumption DEF TypeOK, SettleUsage, Fault, NoFault
<1>2. Commit(w, k) => hold' \in [Usages -> Holds]
  BY DEF TypeOK, Commit, Holds
<1>3. hold' \in [Usages -> Holds]
  BY <1>2 DEF TypeOK, SettleUsage
<1> QED BY <1>1, <1>3 DEF SettleUsage, Commit

LEMMA Flags == \A w \in Usages: (w \in Keyed) \in BOOLEAN
  OBVIOUS

LEMMA AsleepIsState == Asleep \in RecStates
  BY DEF Asleep, RecStates, RecSteps

\* The updates of the reconciler's state keep it a state.
LEMMA RecWrites ==
  ASSUME rec \in RecStates, NEW s \in RecSteps, NEW I \in SUBSET Usages,
         NEW k \in BOOLEAN, NEW n \in Nat
  PROVE  /\ [rec EXCEPT !.step = s] \in RecStates
         /\ [rec EXCEPT !.ids = I] \in RecStates
         /\ [rec EXCEPT !.step = s, !.keyed = k] \in RecStates
         /\ [rec EXCEPT !.step = s, !.ids = I] \in RecStates
         /\ [rec EXCEPT !.ids = I, !.repaired = n] \in RecStates
         /\ [rec EXCEPT !.step = s, !.ids = I, !.repaired = n] \in RecStates
         /\ [Asleep EXCEPT !.step = s, !.ids = I] \in RecStates
<1>1. [rec EXCEPT !.step = s] \in RecStates BY DEF RecStates
<1>2. [rec EXCEPT !.ids = I] \in RecStates BY DEF RecStates
<1>3. [rec EXCEPT !.step = s, !.keyed = k] \in RecStates BY DEF RecStates
<1>4. [rec EXCEPT !.step = s, !.ids = I] \in RecStates BY DEF RecStates
<1>5. [rec EXCEPT !.ids = I, !.repaired = n] \in RecStates BY DEF RecStates
<1>6. [rec EXCEPT !.step = s, !.ids = I, !.repaired = n] \in RecStates BY DEF RecStates
<1>7. [Asleep EXCEPT !.step = s, !.ids = I] \in RecStates BY DEF RecStates, Asleep
<1> QED BY <1>1, <1>2, <1>3, <1>4, <1>5, <1>6, <1>7

\* Where each step of the reconciler takes it, and that it adds no usage to
\* its batch but by the two selects.
LEMMA RecMoves ==
  ASSUME TypeOK
  PROVE  /\ \A w \in Usages: ReconcileRow(w) \/ ReconcileMark(w) \/ RepairGap(w)
              => rec'.step # "completed" /\ rec'.ids \subseteq rec.ids
         /\ \A w \in Usages: ReconcileSettle(w) => rec'.ids = rec.ids
         /\ SelectPending => rec'.step # "completed" /\ rec'.ids \subseteq Pending
         /\ SelectGaps => rec'.step # "completed" /\ rec'.ids \subseteq Gaps
         /\ Cleanup => rec'.step # "completed" /\ rec'.ids = rec.ids
         /\ EndPass \/ Shutdown \/ Restart => rec'.step # "completed" /\ rec'.ids = {}
<1>1. rec \in RecStates BY DEF TypeOK
<1>2. Asleep.step = "sleep" /\ Asleep.ids = {} BY DEF Asleep
<1>3. \A n: PassOver(n).step # "completed" /\ PassOver(n).ids = {} BY DEF PassOver, Asleep
<1>4. ASSUME NEW w \in Usages, ReconcileRow(w)
      PROVE  rec'.step # "completed" /\ rec'.ids \subseteq rec.ids
  <2>1. CASE rec' = Asleep BY <2>1, <1>2
  <2>2. CASE rec' = [rec EXCEPT !.step = "settle", !.keyed = EffectivelyKeyed(w)] BY <1>1, <2>2 DEF RecStates
  <2>3. CASE rec' = [rec EXCEPT !.step = "failed"] BY <1>1, <2>3 DEF RecStates
  <2> QED BY <1>4, <2>1, <2>2, <2>3 DEF ReconcileRow
<1>5. ASSUME NEW w \in Usages, ReconcileMark(w)
      PROVE  rec'.step # "completed" /\ rec'.ids \subseteq rec.ids
  <2>1. CASE rec' = Asleep BY <2>1, <1>2
  <2>2. CASE \E n \in {0, 1}: rec' = [rec EXCEPT !.step = "row", !.ids = @ \ {w}, !.repaired = @ + n]
    BY <1>1, <2>2 DEF RecStates
  <2> QED BY <1>5, <2>1, <2>2 DEF ReconcileMark
<1>6. ASSUME NEW w \in Usages, RepairGap(w)
      PROVE  rec'.step # "completed" /\ rec'.ids \subseteq rec.ids
  <2>0. rec.step = "repair" BY <1>6 DEF RepairGap
  <2>1. CASE rec' = Asleep BY <2>1, <1>2
  <2>2. CASE rec' = [rec EXCEPT !.ids = @ \ {w}, !.repaired = @ + 1] BY <1>1, <2>0, <2>2 DEF RecStates
  <2>3. CASE rec' = [rec EXCEPT !.ids = @ \ {w}] BY <1>1, <2>0, <2>3 DEF RecStates
  <2> QED BY <1>6, <2>1, <2>2, <2>3 DEF RepairGap
<1>7. ASSUME NEW w \in Usages, ReconcileSettle(w) PROVE rec'.ids = rec.ids
  BY <1>1, <1>7 DEF ReconcileSettle, RecStates
<1>8. SelectPending => rec'.step # "completed" /\ rec'.ids \subseteq Pending
  <2> HAVE SelectPending
  <2>1. CASE rec' = Asleep BY <2>1, <1>2
  <2>2. CASE rec' = [Asleep EXCEPT !.step = "row", !.ids = Lowest(Limit, Pending)] BY <2>2 DEF Asleep, Lowest
  <2> QED BY <2>1, <2>2 DEF SelectPending
<1>9. SelectGaps => rec'.step # "completed" /\ rec'.ids \subseteq Gaps
  <2> HAVE SelectGaps
  <2>1. CASE rec' = Asleep BY <2>1, <1>2
  <2>2. CASE rec' = PassOver(rec.repaired) BY <2>2, <1>3
  <2>3. CASE rec' = [rec EXCEPT !.step = "repair", !.ids = Lowest(Limit - rec.repaired, Gaps)]
    BY <1>1, <2>3 DEF RecStates, Lowest
  <2> QED BY <2>1, <2>2, <2>3 DEF SelectGaps
<1>10. Cleanup => rec'.step # "completed" /\ rec'.ids = rec.ids
  BY <1>1 DEF Cleanup, RecStates
<1>11. EndPass \/ Shutdown \/ Restart => rec'.step # "completed" /\ rec'.ids = {}
  BY <1>2, <1>3 DEF EndPass, Shutdown, Restart
<1> QED BY <1>4, <1>5, <1>6, <1>7, <1>8, <1>9, <1>10, <1>11

----------------------------------------------------------------------------
(* Types *)

LEMMA TypeStep == TypeOK /\ [Next]_vars => TypeOK'
<1> SUFFICES ASSUME TypeOK, [Next]_vars PROVE TypeOK'
  OBVIOUS
<1> USE LimitsAssumption
<1>a. rec.keyed \in BOOLEAN /\ rec.ids \in SUBSET Usages /\ rec.repaired \in Nat /\ rec.step \in RecSteps
  BY DEF TypeOK, RecStates

<1>1. ASSUME NEW w \in Usages, RecordUsage(w) PROVE TypeOK'
  <2>1. box' \in [Usages -> Rows]
    BY <1>1 DEF TypeOK, RecordUsage, NewRow, Rows, RowStatuses
  <2>2. log' \in [Usages -> {"none", "logged", "collected"}] /\ handler' \in [Usages -> HandlerSteps]
    BY <1>1 DEF TypeOK, RecordUsage, HandlerSteps
  <2> QED BY <1>1, <2>1, <2>2 DEF TypeOK, RecordUsage
<1>2. ASSUME NEW w \in Usages, PersistOutbox(w) PROVE TypeOK'
  <2>1. box' \in [Usages -> Rows]
    BY <1>2, RowWrites DEF TypeOK, PersistOutbox
  <2>2. handler' \in [Usages -> HandlerSteps] /\ faults' \in 0..MaxFaults
    BY <1>2 DEF TypeOK, PersistOutbox, HandlerSteps, Fault, NoFault
  <2> QED BY <1>2, <2>1, <2>2 DEF TypeOK, PersistOutbox
<1>3. ASSUME NEW w \in Usages, SendJob(w) PROVE TypeOK'
  <2>1. queue' \in Seq(Usages)
    BY <1>3 DEF TypeOK, SendJob
  <2>2. handler' \in [Usages -> HandlerSteps] /\ job' \in [Usages -> JobSteps]
    BY <1>3 DEF TypeOK, SendJob, HandlerSteps, JobSteps
  <2> QED BY <1>3, <2>1, <2>2 DEF TypeOK, SendJob, dbVars
<1>4. ASSUME NEW w \in Usages, SettleDirectly(w) PROVE TypeOK'
  <2>1. PICK ok \in BOOLEAN: SettleUsage(w, w \in Keyed, ok)
    BY <1>4 DEF SettleDirectly
  <2>2. charged' \subseteq Usages /\ hold' \in [Usages -> Holds] /\ faults' \in 0..MaxFaults
    BY <2>1, SettleEffects, Flags DEF TypeOK
  <2>3. handler' \in [Usages -> HandlerSteps]
    BY <1>4 DEF TypeOK, SettleDirectly, HandlerSteps
  <2> QED BY <1>4, <2>2, <2>3 DEF TypeOK, SettleDirectly
<1>5. CASE ReceiveJob
  <2>1. queue' \in Seq(Usages) /\ job' \in [Usages -> JobSteps]
    BY <1>5 DEF TypeOK, ReceiveJob, JobSteps
  <2> QED BY <1>5, <2>1 DEF TypeOK, ReceiveJob, dbVars
<1>6. ASSUME NEW w \in Usages, StartWorker(w) PROVE TypeOK'
  <2>1. job' \in [Usages -> JobSteps]
    BY <1>6 DEF TypeOK, StartWorker, JobSteps
  <2> QED BY <1>6, <2>1 DEF TypeOK, StartWorker, dbVars
<1>7. ASSUME NEW w \in Usages, WorkerSettles(w) PROVE TypeOK'
  <2>1. PICK ok \in BOOLEAN:
          /\ SettleUsage(w, w \in Keyed, ok)
          /\ job' = [job EXCEPT ![w] = IF ok THEN "completed" ELSE "failed"]
    BY <1>7 DEF WorkerSettles
  <2>2. charged' \subseteq Usages /\ hold' \in [Usages -> Holds] /\ faults' \in 0..MaxFaults
    BY <2>1, SettleEffects, Flags DEF TypeOK
  <2>3. job' \in [Usages -> JobSteps]
    BY <2>1 DEF TypeOK, JobSteps
  <2> QED BY <1>7, <2>2, <2>3 DEF TypeOK, WorkerSettles
<1>8. ASSUME NEW w \in Usages, WorkerAcknowledges(w) PROVE TypeOK'
  <2>1. box' \in [Usages -> Rows]
    BY <1>8, RowWrites DEF TypeOK, WorkerAcknowledges, Update
  <2>2. job' \in [Usages -> JobSteps] /\ faults' \in 0..MaxFaults
    BY <1>8 DEF TypeOK, WorkerAcknowledges, Update, JobSteps, Fault, NoFault
  <2> QED BY <1>8, <2>1, <2>2 DEF TypeOK, WorkerAcknowledges
<1>9. CASE Cleanup
  <2>1. hold' \in [Usages -> Holds] /\ faults' \in 0..MaxFaults
    BY <1>9 DEF TypeOK, Cleanup, Holds, Fault, NoFault
  <2>2. rec' \in RecStates
    BY <1>9, <1>a DEF TypeOK, Cleanup, RecStates, RecSteps
  <2> QED BY <1>9, <2>1, <2>2 DEF TypeOK, Cleanup
<1>10. CASE SelectPending
  <2>1. Lowest(Limit, Pending) \subseteq Usages
    BY DEF Lowest, Pending
  <2>2. [Asleep EXCEPT !.step = "row", !.ids = Lowest(Limit, Pending)] \in RecStates
    BY <2>1, RecWrites DEF TypeOK, RecSteps
  <2>3. rec' \in RecStates
    BY <1>10, <2>2, AsleepIsState DEF SelectPending
  <2>4. faults' \in 0..MaxFaults
    BY <1>10 DEF TypeOK, SelectPending, Fault, NoFault
  <2> QED BY <1>10, <2>3, <2>4 DEF TypeOK, SelectPending, dbVars
<1>11. ASSUME NEW w \in Usages, ReconcileRow(w) PROVE TypeOK'
  <2>1. EffectivelyKeyed(w) \in BOOLEAN
    BY DEF EffectivelyKeyed
  <2>2. /\ [rec EXCEPT !.step = "settle", !.keyed = EffectivelyKeyed(w)] \in RecStates
        /\ [rec EXCEPT !.step = "failed"] \in RecStates
    BY <2>1, RecWrites DEF TypeOK, RecSteps
  <2>3. rec' \in RecStates
    BY <1>11, <2>2, AsleepIsState DEF ReconcileRow
  <2>4. faults' \in 0..MaxFaults
    BY <1>11 DEF TypeOK, ReconcileRow, Fault, NoFault
  <2> QED BY <1>11, <2>3, <2>4 DEF TypeOK, ReconcileRow, dbVars
<1>12. ASSUME NEW w \in Usages, ReconcileSettle(w) PROVE TypeOK'
  <2>1. PICK ok \in BOOLEAN:
          /\ SettleUsage(w, rec.keyed, ok)
          /\ rec' = [rec EXCEPT !.step = IF ok THEN "completed" ELSE "failed"]
    BY <1>12 DEF ReconcileSettle
  <2>2. charged' \subseteq Usages /\ hold' \in [Usages -> Holds] /\ faults' \in 0..MaxFaults
    BY <2>1, <1>a, SettleEffects DEF TypeOK
  <2>3. rec' \in RecStates
    BY <2>1, <1>a DEF TypeOK, RecStates, RecSteps
  <2> QED BY <1>12, <2>2, <2>3 DEF TypeOK, ReconcileSettle
<1>13. ASSUME NEW w \in Usages, ReconcileMark(w) PROVE TypeOK'
  <2>1. box' \in [Usages -> Rows] /\ faults' \in 0..MaxFaults
    BY <1>13, RowWrites DEF TypeOK, ReconcileMark, Fault, NoFault
  <2>2. rec' \in RecStates
    <3>1. rec.ids \ {w} \in SUBSET Usages /\ rec.repaired + 1 \in Nat /\ rec.repaired + 0 \in Nat
      BY <1>a
    <3>2. /\ [rec EXCEPT !.step = "row", !.ids = rec.ids \ {w}, !.repaired = rec.repaired + 1] \in RecStates
          /\ [rec EXCEPT !.step = "row", !.ids = rec.ids \ {w}, !.repaired = rec.repaired + 0] \in RecStates
      BY <3>1, RecWrites DEF TypeOK, RecSteps
    <3> QED BY <1>13, <3>2, AsleepIsState DEF ReconcileMark
  <2> QED BY <1>13, <2>1, <2>2 DEF TypeOK, ReconcileMark
<1>14. CASE SelectGaps
  <2>1. Lowest(Limit - rec.repaired, Gaps) \subseteq Usages
    BY DEF Lowest, Gaps, TypeOK
  <2>2. PassOver(rec.repaired) \in RecStates
    BY AsleepIsState DEF PassOver, RecStates, RecSteps, Asleep
  <2>3. [rec EXCEPT !.step = "repair", !.ids = Lowest(Limit - rec.repaired, Gaps)] \in RecStates
    BY <2>1, RecWrites DEF TypeOK, RecSteps
  <2>4. rec' \in RecStates
    BY <1>14, <2>2, <2>3, AsleepIsState DEF SelectGaps
  <2>5. faults' \in 0..MaxFaults
    BY <1>14 DEF TypeOK, SelectGaps, Fault, NoFault
  <2> QED BY <1>14, <2>4, <2>5 DEF TypeOK, SelectGaps, dbVars
<1>15. ASSUME NEW w \in Usages, RepairGap(w) PROVE TypeOK'
  <2>1. /\ charged' \subseteq Usages /\ hold' \in [Usages -> Holds] /\ faults' \in 0..MaxFaults
    BY <1>15, SettleEffects DEF TypeOK, RepairGap, NoFault
  <2>2. rec' \in RecStates
    <3>1. rec.ids \ {w} \in SUBSET Usages /\ rec.repaired + 1 \in Nat
      BY <1>a
    <3>2. /\ [rec EXCEPT !.ids = rec.ids \ {w}, !.repaired = rec.repaired + 1] \in RecStates
          /\ [rec EXCEPT !.ids = rec.ids \ {w}] \in RecStates
      BY <3>1, RecWrites DEF TypeOK, RecSteps
    <3> QED BY <1>15, <3>2, AsleepIsState DEF RepairGap
  <2> QED BY <1>15, <2>1, <2>2 DEF TypeOK, RepairGap
<1>16. CASE EndPass
  <2>1. rec' \in RecStates
    BY <1>16, AsleepIsState DEF EndPass, PassOver, RecStates, RecSteps, Asleep
  <2> QED BY <1>16, <2>1 DEF TypeOK, EndPass, dbVars
<1>17. ASSUME NEW w \in Usages, Ripen(w) PROVE TypeOK'
  BY <1>17 DEF TypeOK, Ripen, taskVars
<1>18. ASSUME NEW w \in Usages, BackOffEnds(w) PROVE TypeOK'
  <2>1. box' \in [Usages -> Rows]
    BY <1>18 DEF TypeOK, BackOffEnds, Rows
  <2> QED BY <1>18, <2>1 DEF TypeOK, BackOffEnds, taskVars
<1>19. ASSUME NEW w \in Usages, HoldLapses(w) PROVE TypeOK'
  BY <1>19 DEF TypeOK, HoldLapses, Holds, taskVars
<1>20. ASSUME NEW w \in Usages, Collect(w) PROVE TypeOK'
  BY <1>20 DEF TypeOK, Collect, taskVars
<1>21. CASE Shutdown
  <2>1. queue' \in Seq(Usages) /\ job' \in [Usages -> JobSteps]
    BY <1>21 DEF Shutdown, JobSteps
  <2> QED BY <1>21, <2>1, AsleepIsState DEF TypeOK, Shutdown, dbVars
<1>22. CASE Restart
  <2>1. queue' \in Seq(Usages) /\ job' \in [Usages -> JobSteps] /\ handler' \in [Usages -> HandlerSteps]
    BY <1>22 DEF TypeOK, Restart, JobSteps, HandlerSteps
  <2>2. restarts' \in 0..MaxRestarts
    BY <1>22 DEF TypeOK, Restart
  <2> QED BY <1>22, <2>1, <2>2, AsleepIsState DEF TypeOK, Restart, dbVars
<1>23. CASE UNCHANGED vars
  BY <1>23 DEF TypeOK, vars
<1> QED BY <1>1, <1>2, <1>3, <1>4, <1>5, <1>6, <1>7, <1>8, <1>9, <1>10, <1>11, <1>12, <1>13, <1>14, <1>15, <1>16, <1>17, <1>18, <1>19, <1>20, <1>21, <1>22, <1>23
           DEF Next, Handler, Worker, Reconciler

----------------------------------------------------------------------------
(* The conjuncts of the inductive invariant, one lemma each *)

\* A charge is never taken back.
LEMMA ChargesGrow == TypeOK /\ [Next]_vars => charged \subseteq charged'
<1> SUFFICES ASSUME TypeOK, [Next]_vars PROVE charged \subseteq charged'
  OBVIOUS
<1>1. ASSUME NEW w \in Usages, RecordUsage(w) PROVE charged \subseteq charged'
  BY <1>1 DEF RecordUsage, dbVars, taskVars, TypeOK
<1>2. ASSUME NEW w \in Usages, PersistOutbox(w) PROVE charged \subseteq charged'
  BY <1>2 DEF PersistOutbox, dbVars, taskVars, TypeOK
<1>3. ASSUME NEW w \in Usages, SendJob(w) PROVE charged \subseteq charged'
  BY <1>3 DEF SendJob, dbVars, taskVars, TypeOK
<1>4. ASSUME NEW w \in Usages, SettleDirectly(w) PROVE charged \subseteq charged'
  <2>1. PICK ok \in BOOLEAN: SettleUsage(w, w \in Keyed, ok)
    BY <1>4 DEF SettleDirectly
  <2> QED BY <2>1, SettleEffects, Flags
<1>5. CASE ReceiveJob
  BY <1>5 DEF ReceiveJob, dbVars, taskVars, TypeOK
<1>6. ASSUME NEW w \in Usages, StartWorker(w) PROVE charged \subseteq charged'
  BY <1>6 DEF StartWorker, dbVars, taskVars, TypeOK
<1>7. ASSUME NEW w \in Usages, WorkerSettles(w) PROVE charged \subseteq charged'
  <2>1. PICK ok \in BOOLEAN: SettleUsage(w, w \in Keyed, ok)
    BY <1>7 DEF WorkerSettles
  <2> QED BY <2>1, SettleEffects, Flags
<1>8. ASSUME NEW w \in Usages, WorkerAcknowledges(w) PROVE charged \subseteq charged'
  BY <1>8 DEF WorkerAcknowledges, dbVars, taskVars, TypeOK
<1>9. CASE Cleanup
  BY <1>9 DEF Cleanup, dbVars, taskVars, TypeOK
<1>10. CASE SelectPending
  BY <1>10 DEF SelectPending, dbVars, taskVars, TypeOK
<1>11. ASSUME NEW w \in Usages, ReconcileRow(w) PROVE charged \subseteq charged'
  BY <1>11 DEF ReconcileRow, dbVars, taskVars, TypeOK
<1>12. ASSUME NEW w \in Usages, ReconcileSettle(w) PROVE charged \subseteq charged'
  <2>1. rec.keyed \in BOOLEAN BY DEF TypeOK, RecStates
  <2> QED BY <1>12, <2>1, SettleEffects DEF ReconcileSettle
<1>13. ASSUME NEW w \in Usages, ReconcileMark(w) PROVE charged \subseteq charged'
  BY <1>13 DEF ReconcileMark, dbVars, taskVars, TypeOK
<1>14. CASE SelectGaps
  BY <1>14 DEF SelectGaps, dbVars, taskVars, TypeOK
<1>15. ASSUME NEW w \in Usages, RepairGap(w) PROVE charged \subseteq charged'
  BY <1>15, SettleEffects DEF RepairGap
<1>16. CASE EndPass
  BY <1>16 DEF EndPass, dbVars, taskVars, TypeOK
<1>17. ASSUME NEW w \in Usages, Ripen(w) PROVE charged \subseteq charged'
  BY <1>17 DEF Ripen, dbVars, taskVars, TypeOK
<1>18. ASSUME NEW w \in Usages, BackOffEnds(w) PROVE charged \subseteq charged'
  BY <1>18 DEF BackOffEnds, dbVars, taskVars, TypeOK
<1>19. ASSUME NEW w \in Usages, HoldLapses(w) PROVE charged \subseteq charged'
  BY <1>19 DEF HoldLapses, dbVars, taskVars, TypeOK
<1>20. ASSUME NEW w \in Usages, Collect(w) PROVE charged \subseteq charged'
  BY <1>20 DEF Collect, dbVars, taskVars, TypeOK
<1>21. CASE Shutdown
  BY <1>21 DEF Shutdown, dbVars, taskVars, TypeOK
<1>22. CASE Restart
  BY <1>22 DEF Restart, dbVars, taskVars, TypeOK
<1>23. CASE UNCHANGED vars
  BY <1>23 DEF vars, TypeOK
<1> QED BY <1>1, <1>2, <1>3, <1>4, <1>5, <1>6, <1>7, <1>8, <1>9, <1>10, <1>11, <1>12, <1>13, <1>14, <1>15, <1>16, <1>17, <1>18, <1>19, <1>20, <1>21, <1>22, <1>23
           DEF Next, Handler, Worker, Reconciler

\* Marking a row completed follows the charge.
LEMMA CompletedStep == OutboxInv /\ [Next]_vars => CompletedIsCharged'
<1> SUFFICES ASSUME OutboxInv, [Next]_vars PROVE CompletedIsCharged'
  OBVIOUS
<1>g. charged \subseteq charged'
  BY ChargesGrow DEF OutboxInv
<1>1. ASSUME NEW w \in Usages, RecordUsage(w) PROVE CompletedIsCharged'
  BY <1>1, <1>g DEF RecordUsage, OutboxInv, CompletedIsCharged, TypeOK, NewRow
<1>2. ASSUME NEW w \in Usages, PersistOutbox(w) PROVE CompletedIsCharged'
  <2>1. \A u \in Usages: Persisted(w)[u].status = "completed" <=> box[u].status = "completed"
    BY RowEffects DEF OutboxInv
  <2> QED BY <1>2, <1>g, <2>1 DEF PersistOutbox, OutboxInv, CompletedIsCharged
<1>3. ASSUME NEW w \in Usages, SendJob(w) PROVE CompletedIsCharged'
  BY <1>3, <1>g DEF SendJob, dbVars, taskVars, OutboxInv, CompletedIsCharged
<1>4. ASSUME NEW w \in Usages, SettleDirectly(w) PROVE CompletedIsCharged'
  BY <1>4, <1>g DEF SettleDirectly, OutboxInv, CompletedIsCharged
<1>5. CASE ReceiveJob
  BY <1>5, <1>g DEF ReceiveJob, dbVars, taskVars, OutboxInv, CompletedIsCharged
<1>6. ASSUME NEW w \in Usages, StartWorker(w) PROVE CompletedIsCharged'
  BY <1>6, <1>g DEF StartWorker, dbVars, taskVars, OutboxInv, CompletedIsCharged
<1>7. ASSUME NEW w \in Usages, WorkerSettles(w) PROVE CompletedIsCharged'
  BY <1>7, <1>g DEF WorkerSettles, OutboxInv, CompletedIsCharged
<1>8. ASSUME NEW w \in Usages, WorkerAcknowledges(w) PROVE CompletedIsCharged'
  <2>1. \A u \in Usages: /\ MarkedFailed(w)[u].status = "completed" => box[u].status = "completed"
                         /\ MarkedCompleted(w)[u].status = "completed" => box[u].status = "completed" \/ u = w
    BY RowEffects DEF OutboxInv
  <2>2. job[w] = "completed" => w \in charged
    BY DEF OutboxInv, AboutToComplete
  <2>3. \/ box' = box \/ box' = MarkedFailed(w)
        \/ job[w] = "completed" /\ box' = MarkedCompleted(w)
    BY <1>8 DEF WorkerAcknowledges, Update
  <2>4. \A u \in Usages: box'[u].status = "completed" => box[u].status = "completed" \/ u \in charged
    <3>1. CASE box' = box BY <3>1
    <3>2. CASE box' = MarkedFailed(w) BY <2>1, <3>2
    <3>3. CASE job[w] = "completed" /\ box' = MarkedCompleted(w) BY <2>1, <2>2, <3>3
    <3> QED BY <2>3, <3>1, <3>2, <3>3
  <2> QED BY <1>g, <2>4 DEF OutboxInv, CompletedIsCharged
<1>9. CASE Cleanup
  BY <1>9, <1>g DEF Cleanup, dbVars, taskVars, OutboxInv, CompletedIsCharged
<1>10. CASE SelectPending
  BY <1>10, <1>g DEF SelectPending, dbVars, taskVars, OutboxInv, CompletedIsCharged
<1>11. ASSUME NEW w \in Usages, ReconcileRow(w) PROVE CompletedIsCharged'
  BY <1>11, <1>g DEF ReconcileRow, dbVars, taskVars, OutboxInv, CompletedIsCharged
<1>12. ASSUME NEW w \in Usages, ReconcileSettle(w) PROVE CompletedIsCharged'
  BY <1>12, <1>g DEF ReconcileSettle, OutboxInv, CompletedIsCharged
<1>13. ASSUME NEW w \in Usages, ReconcileMark(w) PROVE CompletedIsCharged'
  <2>1. \A u \in Usages: /\ MarkedFailed(w)[u].status = "completed" => box[u].status = "completed"
                         /\ MarkedCompleted(w)[u].status = "completed" => box[u].status = "completed" \/ u = w
    BY RowEffects DEF OutboxInv
  <2>2. rec.step = "completed" => w \in charged
    BY <1>13 DEF ReconcileMark, OutboxInv, AboutToComplete
  <2>3. \/ box' = box \/ box' = MarkedFailed(w)
        \/ rec.step = "completed" /\ box' = MarkedCompleted(w)
    BY <1>13 DEF ReconcileMark
  <2>4. \A u \in Usages: box'[u].status = "completed" => box[u].status = "completed" \/ u \in charged
    <3>1. CASE box' = box BY <3>1
    <3>2. CASE box' = MarkedFailed(w) BY <2>1, <3>2
    <3>3. CASE rec.step = "completed" /\ box' = MarkedCompleted(w) BY <2>1, <2>2, <3>3
    <3> QED BY <2>3, <3>1, <3>2, <3>3
  <2> QED BY <1>g, <2>4 DEF OutboxInv, CompletedIsCharged
<1>14. CASE SelectGaps
  BY <1>14, <1>g DEF SelectGaps, dbVars, taskVars, OutboxInv, CompletedIsCharged
<1>15. ASSUME NEW w \in Usages, RepairGap(w) PROVE CompletedIsCharged'
  BY <1>15, <1>g DEF RepairGap, OutboxInv, CompletedIsCharged
<1>16. CASE EndPass
  BY <1>16, <1>g DEF EndPass, dbVars, taskVars, OutboxInv, CompletedIsCharged
<1>17. ASSUME NEW w \in Usages, Ripen(w) PROVE CompletedIsCharged'
  BY <1>17, <1>g DEF Ripen, dbVars, taskVars, OutboxInv, CompletedIsCharged
<1>18. ASSUME NEW w \in Usages, BackOffEnds(w) PROVE CompletedIsCharged'
  <2>1. \A u \in Usages: box'[u].status = box[u].status
    BY <1>18 DEF BackOffEnds, OutboxInv, TypeOK, Rows
  <2> QED BY <1>g, <2>1 DEF OutboxInv, CompletedIsCharged
<1>19. ASSUME NEW w \in Usages, HoldLapses(w) PROVE CompletedIsCharged'
  BY <1>19, <1>g DEF HoldLapses, dbVars, taskVars, OutboxInv, CompletedIsCharged
<1>20. ASSUME NEW w \in Usages, Collect(w) PROVE CompletedIsCharged'
  BY <1>20, <1>g DEF Collect, dbVars, taskVars, OutboxInv, CompletedIsCharged
<1>21. CASE Shutdown
  BY <1>21, <1>g DEF Shutdown, dbVars, taskVars, OutboxInv, CompletedIsCharged
<1>22. CASE Restart
  BY <1>22, <1>g DEF Restart, dbVars, taskVars, OutboxInv, CompletedIsCharged
<1>23. CASE UNCHANGED vars
  BY <1>23, <1>g DEF vars, OutboxInv, CompletedIsCharged
<1> QED BY <1>1, <1>2, <1>3, <1>4, <1>5, <1>6, <1>7, <1>8, <1>9, <1>10, <1>11, <1>12, <1>13, <1>14, <1>15, <1>16, <1>17, <1>18, <1>19, <1>20, <1>21, <1>22, <1>23
           DEF Next, Handler, Worker, Reconciler

\* Retention finds the row of a fenced usage completed.
LEMMA CollectedStep == OutboxInv /\ [Next]_vars => CollectedIsCharged'
<1> SUFFICES ASSUME OutboxInv, [Next]_vars PROVE CollectedIsCharged'
  OBVIOUS
<1>g. charged \subseteq charged'
  BY ChargesGrow DEF OutboxInv
<1>1. ASSUME NEW w \in Usages, RecordUsage(w) PROVE CollectedIsCharged'
  BY <1>1, <1>g DEF RecordUsage, OutboxInv, CollectedIsCharged, TypeOK
<1>2. ASSUME NEW w \in Usages, PersistOutbox(w) PROVE CollectedIsCharged'
  BY <1>2, <1>g DEF PersistOutbox, dbVars, taskVars, OutboxInv, CollectedIsCharged
<1>3. ASSUME NEW w \in Usages, SendJob(w) PROVE CollectedIsCharged'
  BY <1>3, <1>g DEF SendJob, dbVars, taskVars, OutboxInv, CollectedIsCharged
<1>4. ASSUME NEW w \in Usages, SettleDirectly(w) PROVE CollectedIsCharged'
  BY <1>4, <1>g DEF SettleDirectly, dbVars, taskVars, OutboxInv, CollectedIsCharged
<1>5. CASE ReceiveJob
  BY <1>5, <1>g DEF ReceiveJob, dbVars, taskVars, OutboxInv, CollectedIsCharged
<1>6. ASSUME NEW w \in Usages, StartWorker(w) PROVE CollectedIsCharged'
  BY <1>6, <1>g DEF StartWorker, dbVars, taskVars, OutboxInv, CollectedIsCharged
<1>7. ASSUME NEW w \in Usages, WorkerSettles(w) PROVE CollectedIsCharged'
  BY <1>7, <1>g DEF WorkerSettles, dbVars, taskVars, OutboxInv, CollectedIsCharged
<1>8. ASSUME NEW w \in Usages, WorkerAcknowledges(w) PROVE CollectedIsCharged'
  BY <1>8, <1>g DEF WorkerAcknowledges, dbVars, taskVars, OutboxInv, CollectedIsCharged
<1>9. CASE Cleanup
  BY <1>9, <1>g DEF Cleanup, dbVars, taskVars, OutboxInv, CollectedIsCharged
<1>10. CASE SelectPending
  BY <1>10, <1>g DEF SelectPending, dbVars, taskVars, OutboxInv, CollectedIsCharged
<1>11. ASSUME NEW w \in Usages, ReconcileRow(w) PROVE CollectedIsCharged'
  BY <1>11, <1>g DEF ReconcileRow, dbVars, taskVars, OutboxInv, CollectedIsCharged
<1>12. ASSUME NEW w \in Usages, ReconcileSettle(w) PROVE CollectedIsCharged'
  BY <1>12, <1>g DEF ReconcileSettle, dbVars, taskVars, OutboxInv, CollectedIsCharged
<1>13. ASSUME NEW w \in Usages, ReconcileMark(w) PROVE CollectedIsCharged'
  BY <1>13, <1>g DEF ReconcileMark, dbVars, taskVars, OutboxInv, CollectedIsCharged
<1>14. CASE SelectGaps
  BY <1>14, <1>g DEF SelectGaps, dbVars, taskVars, OutboxInv, CollectedIsCharged
<1>15. ASSUME NEW w \in Usages, RepairGap(w) PROVE CollectedIsCharged'
  BY <1>15, <1>g DEF RepairGap, dbVars, taskVars, OutboxInv, CollectedIsCharged
<1>16. CASE EndPass
  BY <1>16, <1>g DEF EndPass, dbVars, taskVars, OutboxInv, CollectedIsCharged
<1>17. ASSUME NEW w \in Usages, Ripen(w) PROVE CollectedIsCharged'
  BY <1>17, <1>g DEF Ripen, dbVars, taskVars, OutboxInv, CollectedIsCharged
<1>18. ASSUME NEW w \in Usages, BackOffEnds(w) PROVE CollectedIsCharged'
  BY <1>18, <1>g DEF BackOffEnds, dbVars, taskVars, OutboxInv, CollectedIsCharged
<1>19. ASSUME NEW w \in Usages, HoldLapses(w) PROVE CollectedIsCharged'
  BY <1>19, <1>g DEF HoldLapses, dbVars, taskVars, OutboxInv, CollectedIsCharged
<1>20. ASSUME NEW w \in Usages, Collect(w) PROVE CollectedIsCharged'
  <2>1. w \in Journalled => w \in charged
    BY <1>20 DEF Collect, OutboxInv, RowsFollowLogs, CompletedIsCharged
  <2> QED BY <1>20, <1>g, <2>1, KindsAssumption DEF Collect, OutboxInv, CollectedIsCharged, TypeOK
<1>21. CASE Shutdown
  BY <1>21, <1>g DEF Shutdown, dbVars, taskVars, OutboxInv, CollectedIsCharged
<1>22. CASE Restart
  BY <1>22, <1>g DEF Restart, dbVars, taskVars, OutboxInv, CollectedIsCharged
<1>23. CASE UNCHANGED vars
  BY <1>23, <1>g DEF vars, OutboxInv, CollectedIsCharged
<1> QED BY <1>1, <1>2, <1>3, <1>4, <1>5, <1>6, <1>7, <1>8, <1>9, <1>10, <1>11, <1>12, <1>13, <1>14, <1>15, <1>16, <1>17, <1>18, <1>19, <1>20, <1>21, <1>22, <1>23
           DEF Next, Handler, Worker, Reconciler

\* Only a settlement that reported success leads to the mark.
LEMMA AboutToCompleteStep == OutboxInv /\ [Next]_vars => AboutToComplete'
<1> SUFFICES ASSUME OutboxInv, [Next]_vars PROVE AboutToComplete'
  OBVIOUS
<1>g. charged \subseteq charged'
  BY ChargesGrow DEF OutboxInv
<1>1. ASSUME NEW w \in Usages, RecordUsage(w) PROVE AboutToComplete'
  BY <1>1, <1>g DEF RecordUsage, dbVars, taskVars, OutboxInv, AboutToComplete, IsFirst
<1>2. ASSUME NEW w \in Usages, PersistOutbox(w) PROVE AboutToComplete'
  BY <1>2, <1>g DEF PersistOutbox, dbVars, taskVars, OutboxInv, AboutToComplete, IsFirst
<1>3. ASSUME NEW w \in Usages, SendJob(w) PROVE AboutToComplete'
  BY <1>3, <1>g DEF SendJob, dbVars, OutboxInv, AboutToComplete, TypeOK
<1>4. ASSUME NEW w \in Usages, SettleDirectly(w) PROVE AboutToComplete'
  BY <1>4, <1>g DEF SettleDirectly, dbVars, taskVars, OutboxInv, AboutToComplete, IsFirst
<1>5. CASE ReceiveJob
  <2>1. Head(queue) \in Usages
    BY <1>5 DEF ReceiveJob, OutboxInv, TypeOK
  <2> QED BY <1>5, <1>g, <2>1 DEF ReceiveJob, dbVars, OutboxInv, AboutToComplete, TypeOK
<1>6. ASSUME NEW w \in Usages, StartWorker(w) PROVE AboutToComplete'
  BY <1>6, <1>g DEF StartWorker, dbVars, OutboxInv, AboutToComplete, TypeOK
<1>7. ASSUME NEW w \in Usages, WorkerSettles(w) PROVE AboutToComplete'
  <2>1. PICK ok \in BOOLEAN:
          /\ SettleUsage(w, w \in Keyed, ok)
          /\ job' = [job EXCEPT ![w] = IF ok THEN "completed" ELSE "failed"]
    BY <1>7 DEF WorkerSettles
  <2>2. ok => w \in charged'
    BY <2>1, SettleEffects, Flags DEF OutboxInv
  <2> QED BY <1>7, <1>g, <2>1, <2>2 DEF WorkerSettles, OutboxInv, AboutToComplete, TypeOK
<1>8. ASSUME NEW w \in Usages, WorkerAcknowledges(w) PROVE AboutToComplete'
  BY <1>8, <1>g DEF WorkerAcknowledges, OutboxInv, AboutToComplete, TypeOK
<1>9. CASE Cleanup
  <2>1. rec'.step # "completed"
    BY <1>9, RecMoves DEF Cleanup, OutboxInv
  <2> QED BY <1>9, <1>g, <2>1 DEF Cleanup, dbVars, OutboxInv, AboutToComplete, TypeOK
<1>10. CASE SelectPending
  <2>1. rec'.step # "completed"
    BY <1>10, RecMoves DEF SelectPending, OutboxInv
  <2> QED BY <1>10, <1>g, <2>1 DEF SelectPending, dbVars, OutboxInv, AboutToComplete, TypeOK
<1>11. ASSUME NEW w \in Usages, ReconcileRow(w) PROVE AboutToComplete'
  <2>1. rec'.step # "completed"
    BY <1>11, RecMoves DEF ReconcileRow, OutboxInv
  <2> QED BY <1>11, <1>g, <2>1 DEF ReconcileRow, dbVars, OutboxInv, AboutToComplete, TypeOK
<1>12. ASSUME NEW w \in Usages, ReconcileSettle(w) PROVE AboutToComplete'
  <2>1. PICK ok \in BOOLEAN:
          /\ SettleUsage(w, rec.keyed, ok)
          /\ rec' = [rec EXCEPT !.step = IF ok THEN "completed" ELSE "failed"]
    BY <1>12 DEF ReconcileSettle
  <2>2. rec.keyed \in BOOLEAN BY DEF OutboxInv, TypeOK, RecStates
  <2>3. ok => w \in charged'
    BY <2>1, <2>2, SettleEffects DEF OutboxInv
  <2>4. rec'.ids = rec.ids /\ (rec'.step = "completed" => ok)
    BY <2>1 DEF OutboxInv, TypeOK, RecStates
  <2>5. \A u \in Usages: IsFirst(u, rec.ids) => u = w
    BY <1>12, UsagesAssumption DEF ReconcileSettle, IsFirst, OutboxInv, TypeOK, RecStates
  <2> QED BY <1>12, <1>g, <2>3, <2>4, <2>5
             DEF ReconcileSettle, OutboxInv, AboutToComplete, IsFirst
<1>13. ASSUME NEW w \in Usages, ReconcileMark(w) PROVE AboutToComplete'
  <2>1. rec'.step # "completed"
    BY <1>13, RecMoves DEF ReconcileMark, OutboxInv
  <2> QED BY <1>13, <1>g, <2>1 DEF ReconcileMark, dbVars, OutboxInv, AboutToComplete, TypeOK
<1>14. CASE SelectGaps
  <2>1. rec'.step # "completed"
    BY <1>14, RecMoves DEF SelectGaps, OutboxInv
  <2> QED BY <1>14, <1>g, <2>1 DEF SelectGaps, dbVars, OutboxInv, AboutToComplete, TypeOK
<1>15. ASSUME NEW w \in Usages, RepairGap(w) PROVE AboutToComplete'
  <2>1. rec'.step # "completed"
    BY <1>15, RecMoves DEF RepairGap, OutboxInv
  <2> QED BY <1>15, <1>g, <2>1 DEF RepairGap, dbVars, OutboxInv, AboutToComplete, TypeOK
<1>16. CASE EndPass
  <2>1. rec'.step # "completed"
    BY <1>16, RecMoves DEF EndPass, OutboxInv
  <2> QED BY <1>16, <1>g, <2>1 DEF EndPass, dbVars, OutboxInv, AboutToComplete, TypeOK
<1>17. ASSUME NEW w \in Usages, Ripen(w) PROVE AboutToComplete'
  BY <1>17, <1>g DEF Ripen, dbVars, taskVars, OutboxInv, AboutToComplete, IsFirst
<1>18. ASSUME NEW w \in Usages, BackOffEnds(w) PROVE AboutToComplete'
  BY <1>18, <1>g DEF BackOffEnds, dbVars, taskVars, OutboxInv, AboutToComplete, IsFirst
<1>19. ASSUME NEW w \in Usages, HoldLapses(w) PROVE AboutToComplete'
  BY <1>19, <1>g DEF HoldLapses, dbVars, taskVars, OutboxInv, AboutToComplete, IsFirst
<1>20. ASSUME NEW w \in Usages, Collect(w) PROVE AboutToComplete'
  BY <1>20, <1>g DEF Collect, dbVars, taskVars, OutboxInv, AboutToComplete, IsFirst
<1>21. CASE Shutdown
  <2>1. rec'.step # "completed"
    BY <1>21, RecMoves DEF Shutdown, OutboxInv
  <2> QED BY <1>21, <1>g, <2>1 DEF Shutdown, dbVars, OutboxInv, AboutToComplete, TypeOK
<1>22. CASE Restart
  <2>1. rec'.step # "completed"
    BY <1>22, RecMoves DEF Restart, OutboxInv
  <2> QED BY <1>22, <1>g, <2>1 DEF Restart, dbVars, OutboxInv, AboutToComplete, TypeOK
<1>23. CASE UNCHANGED vars
  BY <1>23, <1>g DEF vars, OutboxInv, AboutToComplete, IsFirst
<1> QED BY <1>1, <1>2, <1>3, <1>4, <1>5, <1>6, <1>7, <1>8, <1>9, <1>10, <1>11, <1>12, <1>13, <1>14, <1>15, <1>16, <1>17, <1>18, <1>19, <1>20, <1>21, <1>22, <1>23
           DEF Next, Handler, Worker, Reconciler

\* The handoff commits the row with the log; a row is buried at its last attempt.
LEMMA RowsFollowLogsStep == OutboxInv /\ [Next]_vars => RowsFollowLogs'
<1> SUFFICES ASSUME OutboxInv, [Next]_vars PROVE RowsFollowLogs'
  OBVIOUS
<1>1. ASSUME NEW w \in Usages, RecordUsage(w) PROVE RowsFollowLogs'
  <2>1. \A u \in Usages: u # w => box'[u] = box[u] /\ log'[u] = log[u]
    BY <1>1 DEF RecordUsage, OutboxInv, TypeOK
  <2>2. w \in Journalled => box'[w].status = "pending"
    BY <1>1 DEF RecordUsage, OutboxInv, TypeOK, NewRow
  <2>3. w \notin Journalled => box'[w] = box[w]
    BY <1>1 DEF RecordUsage, OutboxInv, TypeOK
  <2> QED BY <2>1, <2>2, <2>3, KindsAssumption DEF OutboxInv, RowsFollowLogs
<1>2. ASSUME NEW w \in Usages, PersistOutbox(w) PROVE RowsFollowLogs'
  <2>1. \A u \in Usages: /\ box'[u].status = "absent" => box[u].status = "absent"
                         /\ box'[u].status = "failed" => box'[u].attempts >= MaxAttempts
    <3>1. CASE box' = box BY <3>1 DEF OutboxInv, RowsFollowLogs
    <3>2. CASE box' = Persisted(w) BY <3>2, RowEffects, DeadLetters DEF OutboxInv
    <3> QED BY <1>2, <3>1, <3>2 DEF PersistOutbox
  <2>2. log' = log BY <1>2 DEF PersistOutbox
  <2> QED BY <2>1, <2>2, KindsAssumption DEF OutboxInv, RowsFollowLogs
<1>3. ASSUME NEW w \in Usages, SendJob(w) PROVE RowsFollowLogs'
  BY <1>3 DEF SendJob, dbVars, taskVars, OutboxInv, RowsFollowLogs
<1>4. ASSUME NEW w \in Usages, SettleDirectly(w) PROVE RowsFollowLogs'
  BY <1>4 DEF SettleDirectly, dbVars, taskVars, OutboxInv, RowsFollowLogs
<1>5. CASE ReceiveJob
  BY <1>5 DEF ReceiveJob, dbVars, taskVars, OutboxInv, RowsFollowLogs
<1>6. ASSUME NEW w \in Usages, StartWorker(w) PROVE RowsFollowLogs'
  BY <1>6 DEF StartWorker, dbVars, taskVars, OutboxInv, RowsFollowLogs
<1>7. ASSUME NEW w \in Usages, WorkerSettles(w) PROVE RowsFollowLogs'
  BY <1>7 DEF WorkerSettles, dbVars, taskVars, OutboxInv, RowsFollowLogs
<1>8. ASSUME NEW w \in Usages, WorkerAcknowledges(w) PROVE RowsFollowLogs'
  <2>1. \A u \in Usages: /\ box'[u].status = "absent" => box[u].status = "absent"
                         /\ box'[u].status = "failed" => box'[u].attempts >= MaxAttempts
    <3>1. CASE box' = box BY <3>1 DEF OutboxInv, RowsFollowLogs
    <3>2. CASE box' = MarkedFailed(w) BY <3>2, RowEffects, DeadLetters DEF OutboxInv
    <3>3. CASE box' = MarkedCompleted(w) BY <3>3, RowEffects, DeadLetters DEF OutboxInv
    <3> QED BY <1>8, <3>1, <3>2, <3>3 DEF WorkerAcknowledges, Update
  <2>2. log' = log BY <1>8 DEF WorkerAcknowledges
  <2> QED BY <2>1, <2>2, KindsAssumption DEF OutboxInv, RowsFollowLogs
<1>9. CASE Cleanup
  BY <1>9 DEF Cleanup, dbVars, taskVars, OutboxInv, RowsFollowLogs
<1>10. CASE SelectPending
  BY <1>10 DEF SelectPending, dbVars, taskVars, OutboxInv, RowsFollowLogs
<1>11. ASSUME NEW w \in Usages, ReconcileRow(w) PROVE RowsFollowLogs'
  BY <1>11 DEF ReconcileRow, dbVars, taskVars, OutboxInv, RowsFollowLogs
<1>12. ASSUME NEW w \in Usages, ReconcileSettle(w) PROVE RowsFollowLogs'
  BY <1>12 DEF ReconcileSettle, dbVars, taskVars, OutboxInv, RowsFollowLogs
<1>13. ASSUME NEW w \in Usages, ReconcileMark(w) PROVE RowsFollowLogs'
  <2>1. \A u \in Usages: /\ box'[u].status = "absent" => box[u].status = "absent"
                         /\ box'[u].status = "failed" => box'[u].attempts >= MaxAttempts
    <3>1. CASE box' = box BY <3>1 DEF OutboxInv, RowsFollowLogs
    <3>2. CASE box' = MarkedFailed(w) BY <3>2, RowEffects, DeadLetters DEF OutboxInv
    <3>3. CASE box' = MarkedCompleted(w) BY <3>3, RowEffects, DeadLetters DEF OutboxInv
    <3> QED BY <1>13, <3>1, <3>2, <3>3 DEF ReconcileMark, Update
  <2>2. log' = log BY <1>13 DEF ReconcileMark
  <2> QED BY <2>1, <2>2, KindsAssumption DEF OutboxInv, RowsFollowLogs
<1>14. CASE SelectGaps
  BY <1>14 DEF SelectGaps, dbVars, taskVars, OutboxInv, RowsFollowLogs
<1>15. ASSUME NEW w \in Usages, RepairGap(w) PROVE RowsFollowLogs'
  BY <1>15 DEF RepairGap, dbVars, taskVars, OutboxInv, RowsFollowLogs
<1>16. CASE EndPass
  BY <1>16 DEF EndPass, dbVars, taskVars, OutboxInv, RowsFollowLogs
<1>17. ASSUME NEW w \in Usages, Ripen(w) PROVE RowsFollowLogs'
  BY <1>17 DEF Ripen, dbVars, taskVars, OutboxInv, RowsFollowLogs
<1>18. ASSUME NEW w \in Usages, BackOffEnds(w) PROVE RowsFollowLogs'
  <2>1. \A u \in Usages: box'[u].status = box[u].status /\ box'[u].attempts = box[u].attempts
    BY <1>18 DEF BackOffEnds, OutboxInv, TypeOK, Rows
  <2>2. log' = log BY <1>18 DEF BackOffEnds
  <2> QED BY <2>1, <2>2, KindsAssumption DEF OutboxInv, RowsFollowLogs
<1>19. ASSUME NEW w \in Usages, HoldLapses(w) PROVE RowsFollowLogs'
  BY <1>19 DEF HoldLapses, dbVars, taskVars, OutboxInv, RowsFollowLogs
<1>20. ASSUME NEW w \in Usages, Collect(w) PROVE RowsFollowLogs'
  BY <1>20, KindsAssumption DEF Collect, OutboxInv, RowsFollowLogs, TypeOK, taskVars
<1>21. CASE Shutdown
  BY <1>21 DEF Shutdown, dbVars, taskVars, OutboxInv, RowsFollowLogs
<1>22. CASE Restart
  BY <1>22 DEF Restart, dbVars, taskVars, OutboxInv, RowsFollowLogs
<1>23. CASE UNCHANGED vars
  BY <1>23 DEF vars, OutboxInv, RowsFollowLogs
<1> QED BY <1>1, <1>2, <1>3, <1>4, <1>5, <1>6, <1>7, <1>8, <1>9, <1>10, <1>11, <1>12, <1>13, <1>14, <1>15, <1>16, <1>17, <1>18, <1>19, <1>20, <1>21, <1>22, <1>23
           DEF Next, Handler, Worker, Reconciler

\* An action works on a usage that is recorded, or records it.
LEMMA ActsOnRecorded ==
  ASSUME OutboxInv, NEW w \in Usages,
         \/ Handler(w) \/ Worker(w) \/ Ripen(w) \/ BackOffEnds(w) \/ Collect(w)
         \/ ReconcileRow(w) \/ ReconcileSettle(w) \/ ReconcileMark(w) \/ RepairGap(w)
  PROVE  log[w] # "none"
<1>1. CASE Handler(w)
  BY <1>1 DEF OutboxInv, NothingBeforeTheLog, Handler, PersistOutbox, SendJob, SettleDirectly
<1>2. CASE Worker(w)
  BY <1>2
     DEF OutboxInv, NothingBeforeTheLog, Worker, StartWorker, WorkerSettles, WorkerAcknowledges
<1>3. CASE BackOffEnds(w)
  BY <1>3 DEF OutboxInv, NothingBeforeTheLog, BackOffEnds, NoRow
<1>4. CASE Ripen(w) \/ Collect(w)
  BY <1>4 DEF Ripen, Collect
<1>5. CASE ReconcileRow(w) \/ ReconcileSettle(w) \/ ReconcileMark(w) \/ RepairGap(w)
  <2>1. w \in rec.ids
    BY <1>5 DEF ReconcileRow, ReconcileSettle, ReconcileMark, RepairGap, IsFirst
  <2> QED BY <2>1 DEF OutboxInv, NothingBeforeTheLog
<1> QED BY <1>1, <1>2, <1>3, <1>4, <1>5

\* Every task works on usages that are recorded.
LEMMA NothingBeforeStep == OutboxInv /\ [Next]_vars => NothingBeforeTheLog'
<1> SUFFICES ASSUME OutboxInv, [Next]_vars PROVE NothingBeforeTheLog'
  OBVIOUS
<1>t. TypeOK BY DEF OutboxInv
<1>1. ASSUME NEW w \in Usages, RecordUsage(w) PROVE NothingBeforeTheLog'
  <2>1. \A u \in Usages: log'[u] = "none" => log[u] = "none" /\ u # w
    BY <1>1, <1>t DEF RecordUsage, TypeOK
  <2>2. \A u \in Usages: u # w => box'[u] = box[u] /\ handler'[u] = handler[u]
    BY <1>1, <1>t DEF RecordUsage, TypeOK
  <2> QED BY <1>1, <2>1, <2>2 DEF RecordUsage, OutboxInv, NothingBeforeTheLog
<1>2. ASSUME NEW w \in Usages, PersistOutbox(w) PROVE NothingBeforeTheLog'
  <2>0. log[w] # "none"
    BY <1>2, ActsOnRecorded DEF Handler, Worker
  <2>1. SUFFICES ASSUME NEW u \in Usages, log'[u] = "none"
        PROVE  /\ box'[u] = NoRow /\ u \notin charged' /\ u \notin ripe'
               /\ handler'[u] = "idle" /\ job'[u] = "idle" /\ u \notin rec'.ids
               /\ \A i \in 1..Len(queue'): queue'[i] # u
    BY DEF NothingBeforeTheLog
  <2>2. log[u] = "none" /\ u # w
    BY <1>2, <1>t, <2>0, <2>1 DEF PersistOutbox, dbVars, TypeOK
  <2>3. box'[u] = NoRow
    BY <1>2, <1>t, <2>2, RowEffects DEF PersistOutbox, Update, OutboxInv, NothingBeforeTheLog
  <2>4. u \notin charged' /\ u \notin ripe'
    BY <1>2, <2>2 DEF PersistOutbox, dbVars, taskVars, OutboxInv, NothingBeforeTheLog, TypeOK
  <2>5. handler'[u] = "idle" /\ job'[u] = "idle"
    BY <1>2, <2>2 DEF PersistOutbox, dbVars, taskVars, OutboxInv, NothingBeforeTheLog, TypeOK
  <2>6. u \notin rec'.ids
    BY <1>2, <2>2 DEF PersistOutbox, dbVars, taskVars, OutboxInv, NothingBeforeTheLog, TypeOK
  <2>7. \A i \in 1..Len(queue'): queue'[i] # u
    BY <1>2, <2>2 DEF PersistOutbox, dbVars, taskVars, OutboxInv, NothingBeforeTheLog, TypeOK
  <2> QED BY <2>3, <2>4, <2>5, <2>6, <2>7
<1>3. ASSUME NEW w \in Usages, SendJob(w) PROVE NothingBeforeTheLog'
  <2>0. log[w] # "none"
    BY <1>3, ActsOnRecorded DEF Handler, Worker
  <2>1. SUFFICES ASSUME NEW u \in Usages, log'[u] = "none"
        PROVE  /\ box'[u] = NoRow /\ u \notin charged' /\ u \notin ripe'
               /\ handler'[u] = "idle" /\ job'[u] = "idle" /\ u \notin rec'.ids
               /\ \A i \in 1..Len(queue'): queue'[i] # u
    BY DEF NothingBeforeTheLog
  <2>2. log[u] = "none" /\ u # w
    BY <1>3, <1>t, <2>0, <2>1 DEF SendJob, dbVars, TypeOK
  <2>3. box'[u] = NoRow
    BY <1>3, <2>2 DEF SendJob, dbVars, taskVars, OutboxInv, NothingBeforeTheLog, TypeOK
  <2>4. u \notin charged' /\ u \notin ripe'
    BY <1>3, <2>2 DEF SendJob, dbVars, taskVars, OutboxInv, NothingBeforeTheLog, TypeOK
  <2>5. handler'[u] = "idle" /\ job'[u] = "idle"
    BY <1>3, <2>2 DEF SendJob, dbVars, taskVars, OutboxInv, NothingBeforeTheLog, TypeOK
  <2>6. u \notin rec'.ids
    BY <1>3, <2>2 DEF SendJob, dbVars, taskVars, OutboxInv, NothingBeforeTheLog, TypeOK
  <2>7. \A i \in 1..Len(queue'): queue'[i] # u
    <3>1. CASE up
      <4>1. queue' = Append(queue, w) BY <1>3, <3>1 DEF SendJob
      <4>2. \A i \in 1..Len(queue): queue[i] # u BY <2>2 DEF OutboxInv, NothingBeforeTheLog
      <4> QED BY <1>t, <2>2, <4>1, <4>2 DEF TypeOK
    <3>2. CASE ~up BY <1>3, <2>2, <3>2 DEF SendJob, OutboxInv, NothingBeforeTheLog
    <3> QED BY <3>1, <3>2
  <2> QED BY <2>3, <2>4, <2>5, <2>6, <2>7
<1>4. ASSUME NEW w \in Usages, SettleDirectly(w) PROVE NothingBeforeTheLog'
  <2>0. log[w] # "none"
    BY <1>4, ActsOnRecorded DEF Handler, Worker
  <2>1. SUFFICES ASSUME NEW u \in Usages, log'[u] = "none"
        PROVE  /\ box'[u] = NoRow /\ u \notin charged' /\ u \notin ripe'
               /\ handler'[u] = "idle" /\ job'[u] = "idle" /\ u \notin rec'.ids
               /\ \A i \in 1..Len(queue'): queue'[i] # u
    BY DEF NothingBeforeTheLog
  <2>2. log[u] = "none" /\ u # w
    BY <1>4, <1>t, <2>0, <2>1 DEF SettleDirectly, dbVars, TypeOK
  <2>3. box'[u] = NoRow
    BY <1>4, <2>2 DEF SettleDirectly, dbVars, taskVars, OutboxInv, NothingBeforeTheLog, TypeOK
  <2>4. u \notin charged' /\ u \notin ripe'
    <3>1. PICK ok \in BOOLEAN: SettleUsage(w, w \in Keyed, ok) BY <1>4 DEF SettleDirectly
    <3>2. charged' = charged \/ charged' = charged \cup {w}
      BY <1>t, <3>1, SettleEffects, Flags
    <3> QED BY <1>4, <2>2, <3>2 DEF SettleDirectly, OutboxInv, NothingBeforeTheLog
  <2>5. handler'[u] = "idle" /\ job'[u] = "idle"
    BY <1>4, <2>2 DEF SettleDirectly, dbVars, taskVars, OutboxInv, NothingBeforeTheLog, TypeOK
  <2>6. u \notin rec'.ids
    BY <1>4, <2>2 DEF SettleDirectly, dbVars, taskVars, OutboxInv, NothingBeforeTheLog, TypeOK
  <2>7. \A i \in 1..Len(queue'): queue'[i] # u
    BY <1>4, <2>2 DEF SettleDirectly, dbVars, taskVars, OutboxInv, NothingBeforeTheLog, TypeOK
  <2> QED BY <2>3, <2>4, <2>5, <2>6, <2>7
<1>5. CASE ReceiveJob
  <2>1. Head(queue) = queue[1] /\ Len(queue) >= 1 /\ Len(queue') = Len(queue) - 1
        /\ \A i \in 1..Len(queue'): queue'[i] = queue[i + 1]
    BY <1>5, <1>t DEF ReceiveJob, TypeOK
  <2>2. \A u \in Usages: log[u] = "none" => job'[u] = job[u] /\ \A i \in 1..Len(queue'): queue'[i] # u
    BY <1>5, <1>t, <2>1 DEF ReceiveJob, TypeOK, OutboxInv, NothingBeforeTheLog
  <2> QED BY <1>5, <2>2 DEF ReceiveJob, dbVars, OutboxInv, NothingBeforeTheLog
<1>6. ASSUME NEW w \in Usages, StartWorker(w) PROVE NothingBeforeTheLog'
  <2>0. log[w] # "none"
    BY <1>6, ActsOnRecorded DEF Handler, Worker
  <2>1. SUFFICES ASSUME NEW u \in Usages, log'[u] = "none"
        PROVE  /\ box'[u] = NoRow /\ u \notin charged' /\ u \notin ripe'
               /\ handler'[u] = "idle" /\ job'[u] = "idle" /\ u \notin rec'.ids
               /\ \A i \in 1..Len(queue'): queue'[i] # u
    BY DEF NothingBeforeTheLog
  <2>2. log[u] = "none" /\ u # w
    BY <1>6, <1>t, <2>0, <2>1 DEF StartWorker, dbVars, TypeOK
  <2>3. box'[u] = NoRow
    BY <1>6, <2>2 DEF StartWorker, dbVars, taskVars, OutboxInv, NothingBeforeTheLog, TypeOK
  <2>4. u \notin charged' /\ u \notin ripe'
    BY <1>6, <2>2 DEF StartWorker, dbVars, taskVars, OutboxInv, NothingBeforeTheLog, TypeOK
  <2>5. handler'[u] = "idle" /\ job'[u] = "idle"
    BY <1>6, <2>2 DEF StartWorker, dbVars, taskVars, OutboxInv, NothingBeforeTheLog, TypeOK
  <2>6. u \notin rec'.ids
    BY <1>6, <2>2 DEF StartWorker, dbVars, taskVars, OutboxInv, NothingBeforeTheLog, TypeOK
  <2>7. \A i \in 1..Len(queue'): queue'[i] # u
    BY <1>6, <2>2 DEF StartWorker, dbVars, taskVars, OutboxInv, NothingBeforeTheLog, TypeOK
  <2> QED BY <2>3, <2>4, <2>5, <2>6, <2>7
<1>7. ASSUME NEW w \in Usages, WorkerSettles(w) PROVE NothingBeforeTheLog'
  <2>0. log[w] # "none"
    BY <1>7, ActsOnRecorded DEF Handler, Worker
  <2>1. SUFFICES ASSUME NEW u \in Usages, log'[u] = "none"
        PROVE  /\ box'[u] = NoRow /\ u \notin charged' /\ u \notin ripe'
               /\ handler'[u] = "idle" /\ job'[u] = "idle" /\ u \notin rec'.ids
               /\ \A i \in 1..Len(queue'): queue'[i] # u
    BY DEF NothingBeforeTheLog
  <2>2. log[u] = "none" /\ u # w
    BY <1>7, <1>t, <2>0, <2>1 DEF WorkerSettles, dbVars, TypeOK
  <2>3. box'[u] = NoRow
    BY <1>7, <2>2 DEF WorkerSettles, dbVars, taskVars, OutboxInv, NothingBeforeTheLog, TypeOK
  <2>4. u \notin charged' /\ u \notin ripe'
    <3>1. PICK ok \in BOOLEAN: SettleUsage(w, w \in Keyed, ok) BY <1>7 DEF WorkerSettles
    <3>2. charged' = charged \/ charged' = charged \cup {w}
      BY <1>t, <3>1, SettleEffects, Flags
    <3> QED BY <1>7, <2>2, <3>2 DEF WorkerSettles, OutboxInv, NothingBeforeTheLog
  <2>5. handler'[u] = "idle" /\ job'[u] = "idle"
    BY <1>7, <2>2 DEF WorkerSettles, dbVars, taskVars, OutboxInv, NothingBeforeTheLog, TypeOK
  <2>6. u \notin rec'.ids
    BY <1>7, <2>2 DEF WorkerSettles, dbVars, taskVars, OutboxInv, NothingBeforeTheLog, TypeOK
  <2>7. \A i \in 1..Len(queue'): queue'[i] # u
    BY <1>7, <2>2 DEF WorkerSettles, dbVars, taskVars, OutboxInv, NothingBeforeTheLog, TypeOK
  <2> QED BY <2>3, <2>4, <2>5, <2>6, <2>7
<1>8. ASSUME NEW w \in Usages, WorkerAcknowledges(w) PROVE NothingBeforeTheLog'
  <2>0. log[w] # "none"
    BY <1>8, ActsOnRecorded DEF Handler, Worker
  <2>1. SUFFICES ASSUME NEW u \in Usages, log'[u] = "none"
        PROVE  /\ box'[u] = NoRow /\ u \notin charged' /\ u \notin ripe'
               /\ handler'[u] = "idle" /\ job'[u] = "idle" /\ u \notin rec'.ids
               /\ \A i \in 1..Len(queue'): queue'[i] # u
    BY DEF NothingBeforeTheLog
  <2>2. log[u] = "none" /\ u # w
    BY <1>8, <1>t, <2>0, <2>1 DEF WorkerAcknowledges, dbVars, TypeOK
  <2>3. box'[u] = NoRow
    BY <1>8, <1>t, <2>2, RowEffects DEF WorkerAcknowledges, Update, OutboxInv, NothingBeforeTheLog
  <2>4. u \notin charged' /\ u \notin ripe'
    BY <1>8, <2>2 DEF WorkerAcknowledges, dbVars, taskVars, OutboxInv, NothingBeforeTheLog, TypeOK
  <2>5. handler'[u] = "idle" /\ job'[u] = "idle"
    BY <1>8, <2>2 DEF WorkerAcknowledges, dbVars, taskVars, OutboxInv, NothingBeforeTheLog, TypeOK
  <2>6. u \notin rec'.ids
    BY <1>8, <2>2 DEF WorkerAcknowledges, dbVars, taskVars, OutboxInv, NothingBeforeTheLog, TypeOK
  <2>7. \A i \in 1..Len(queue'): queue'[i] # u
    BY <1>8, <2>2 DEF WorkerAcknowledges, dbVars, taskVars, OutboxInv, NothingBeforeTheLog, TypeOK
  <2> QED BY <2>3, <2>4, <2>5, <2>6, <2>7
<1>9. CASE Cleanup
  <2>1. \A u \in Usages: log[u] = "none" => u \notin rec'.ids
    BY <1>9, <1>t, RecMoves DEF OutboxInv, NothingBeforeTheLog
  <2> QED BY <1>9, <2>1 DEF Cleanup, dbVars, OutboxInv, NothingBeforeTheLog
<1>10. CASE SelectPending
  <2>1. \A u \in Usages: log[u] = "none" => u \notin rec'.ids
    BY <1>10, <1>t, RecMoves DEF OutboxInv, NothingBeforeTheLog, NoRow, Pending
  <2> QED BY <1>10, <2>1 DEF SelectPending, dbVars, OutboxInv, NothingBeforeTheLog
<1>11. ASSUME NEW w \in Usages, ReconcileRow(w) PROVE NothingBeforeTheLog'
  <2>0. log[w] # "none"
    BY <1>11, ActsOnRecorded DEF Handler, Worker
  <2>1. SUFFICES ASSUME NEW u \in Usages, log'[u] = "none"
        PROVE  /\ box'[u] = NoRow /\ u \notin charged' /\ u \notin ripe'
               /\ handler'[u] = "idle" /\ job'[u] = "idle" /\ u \notin rec'.ids
               /\ \A i \in 1..Len(queue'): queue'[i] # u
    BY DEF NothingBeforeTheLog
  <2>2. log[u] = "none" /\ u # w
    BY <1>11, <1>t, <2>0, <2>1 DEF ReconcileRow, dbVars, TypeOK
  <2>3. box'[u] = NoRow
    BY <1>11, <2>2 DEF ReconcileRow, dbVars, taskVars, OutboxInv, NothingBeforeTheLog, TypeOK
  <2>4. u \notin charged' /\ u \notin ripe'
    BY <1>11, <2>2 DEF ReconcileRow, dbVars, taskVars, OutboxInv, NothingBeforeTheLog, TypeOK
  <2>5. handler'[u] = "idle" /\ job'[u] = "idle"
    BY <1>11, <2>2 DEF ReconcileRow, dbVars, taskVars, OutboxInv, NothingBeforeTheLog, TypeOK
  <2>6. u \notin rec'.ids
    BY <1>11, <1>t, <2>2, RecMoves DEF OutboxInv, NothingBeforeTheLog
  <2>7. \A i \in 1..Len(queue'): queue'[i] # u
    BY <1>11, <2>2 DEF ReconcileRow, dbVars, taskVars, OutboxInv, NothingBeforeTheLog, TypeOK
  <2> QED BY <2>3, <2>4, <2>5, <2>6, <2>7
<1>12. ASSUME NEW w \in Usages, ReconcileSettle(w) PROVE NothingBeforeTheLog'
  <2>0. log[w] # "none"
    BY <1>12, ActsOnRecorded DEF Handler, Worker
  <2>1. SUFFICES ASSUME NEW u \in Usages, log'[u] = "none"
        PROVE  /\ box'[u] = NoRow /\ u \notin charged' /\ u \notin ripe'
               /\ handler'[u] = "idle" /\ job'[u] = "idle" /\ u \notin rec'.ids
               /\ \A i \in 1..Len(queue'): queue'[i] # u
    BY DEF NothingBeforeTheLog
  <2>2. log[u] = "none" /\ u # w
    BY <1>12, <1>t, <2>0, <2>1 DEF ReconcileSettle, dbVars, TypeOK
  <2>3. box'[u] = NoRow
    BY <1>12, <2>2 DEF ReconcileSettle, dbVars, taskVars, OutboxInv, NothingBeforeTheLog, TypeOK
  <2>4. u \notin charged' /\ u \notin ripe'
    <3>1. rec.keyed \in BOOLEAN BY <1>t DEF TypeOK, RecStates
    <3> QED BY <1>12, <1>t, <2>2, <3>1, SettleEffects
               DEF ReconcileSettle, OutboxInv, NothingBeforeTheLog
  <2>5. handler'[u] = "idle" /\ job'[u] = "idle"
    BY <1>12, <2>2 DEF ReconcileSettle, dbVars, taskVars, OutboxInv, NothingBeforeTheLog, TypeOK
  <2>6. u \notin rec'.ids
    BY <1>12, <1>t, <2>2, RecMoves DEF OutboxInv, NothingBeforeTheLog
  <2>7. \A i \in 1..Len(queue'): queue'[i] # u
    BY <1>12, <2>2 DEF ReconcileSettle, dbVars, taskVars, OutboxInv, NothingBeforeTheLog, TypeOK
  <2> QED BY <2>3, <2>4, <2>5, <2>6, <2>7
<1>13. ASSUME NEW w \in Usages, ReconcileMark(w) PROVE NothingBeforeTheLog'
  <2>0. log[w] # "none"
    BY <1>13, ActsOnRecorded DEF Handler, Worker
  <2>1. SUFFICES ASSUME NEW u \in Usages, log'[u] = "none"
        PROVE  /\ box'[u] = NoRow /\ u \notin charged' /\ u \notin ripe'
               /\ handler'[u] = "idle" /\ job'[u] = "idle" /\ u \notin rec'.ids
               /\ \A i \in 1..Len(queue'): queue'[i] # u
    BY DEF NothingBeforeTheLog
  <2>2. log[u] = "none" /\ u # w
    BY <1>13, <1>t, <2>0, <2>1 DEF ReconcileMark, dbVars, TypeOK
  <2>3. box'[u] = NoRow
    BY <1>13, <1>t, <2>2, RowEffects DEF ReconcileMark, Update, OutboxInv, NothingBeforeTheLog
  <2>4. u \notin charged' /\ u \notin ripe'
    BY <1>13, <2>2 DEF ReconcileMark, dbVars, taskVars, OutboxInv, NothingBeforeTheLog, TypeOK
  <2>5. handler'[u] = "idle" /\ job'[u] = "idle"
    BY <1>13, <2>2 DEF ReconcileMark, dbVars, taskVars, OutboxInv, NothingBeforeTheLog, TypeOK
  <2>6. u \notin rec'.ids
    BY <1>13, <1>t, <2>2, RecMoves DEF OutboxInv, NothingBeforeTheLog
  <2>7. \A i \in 1..Len(queue'): queue'[i] # u
    BY <1>13, <2>2 DEF ReconcileMark, dbVars, taskVars, OutboxInv, NothingBeforeTheLog, TypeOK
  <2> QED BY <2>3, <2>4, <2>5, <2>6, <2>7
<1>14. CASE SelectGaps
  <2>1. \A u \in Usages: log[u] = "none" => u \notin rec'.ids
    BY <1>14, <1>t, RecMoves DEF OutboxInv, NothingBeforeTheLog, NoRow, Gaps
  <2> QED BY <1>14, <2>1 DEF SelectGaps, dbVars, OutboxInv, NothingBeforeTheLog
<1>15. ASSUME NEW w \in Usages, RepairGap(w) PROVE NothingBeforeTheLog'
  <2>0. log[w] # "none"
    BY <1>15, ActsOnRecorded DEF Handler, Worker
  <2>1. SUFFICES ASSUME NEW u \in Usages, log'[u] = "none"
        PROVE  /\ box'[u] = NoRow /\ u \notin charged' /\ u \notin ripe'
               /\ handler'[u] = "idle" /\ job'[u] = "idle" /\ u \notin rec'.ids
               /\ \A i \in 1..Len(queue'): queue'[i] # u
    BY DEF NothingBeforeTheLog
  <2>2. log[u] = "none" /\ u # w
    BY <1>15, <1>t, <2>0, <2>1 DEF RepairGap, dbVars, TypeOK
  <2>3. box'[u] = NoRow
    BY <1>15, <2>2 DEF RepairGap, dbVars, taskVars, OutboxInv, NothingBeforeTheLog, TypeOK
  <2>4. u \notin charged' /\ u \notin ripe'
    BY <1>15, <1>t, <2>2, SettleEffects DEF RepairGap, OutboxInv, NothingBeforeTheLog
  <2>5. handler'[u] = "idle" /\ job'[u] = "idle"
    BY <1>15, <2>2 DEF RepairGap, dbVars, taskVars, OutboxInv, NothingBeforeTheLog, TypeOK
  <2>6. u \notin rec'.ids
    BY <1>15, <1>t, <2>2, RecMoves DEF OutboxInv, NothingBeforeTheLog
  <2>7. \A i \in 1..Len(queue'): queue'[i] # u
    BY <1>15, <2>2 DEF RepairGap, dbVars, taskVars, OutboxInv, NothingBeforeTheLog, TypeOK
  <2> QED BY <2>3, <2>4, <2>5, <2>6, <2>7
<1>16. CASE EndPass
  <2>1. \A u \in Usages: log[u] = "none" => u \notin rec'.ids
    BY <1>16, <1>t, RecMoves DEF OutboxInv, NothingBeforeTheLog
  <2> QED BY <1>16, <2>1 DEF EndPass, dbVars, OutboxInv, NothingBeforeTheLog
<1>17. ASSUME NEW w \in Usages, Ripen(w) PROVE NothingBeforeTheLog'
  <2>0. log[w] # "none"
    BY <1>17, ActsOnRecorded DEF Handler, Worker
  <2>1. SUFFICES ASSUME NEW u \in Usages, log'[u] = "none"
        PROVE  /\ box'[u] = NoRow /\ u \notin charged' /\ u \notin ripe'
               /\ handler'[u] = "idle" /\ job'[u] = "idle" /\ u \notin rec'.ids
               /\ \A i \in 1..Len(queue'): queue'[i] # u
    BY DEF NothingBeforeTheLog
  <2>2. log[u] = "none" /\ u # w
    BY <1>17, <1>t, <2>0, <2>1 DEF Ripen, dbVars, TypeOK
  <2>3. box'[u] = NoRow
    BY <1>17, <2>2 DEF Ripen, dbVars, taskVars, OutboxInv, NothingBeforeTheLog, TypeOK
  <2>4. u \notin charged' /\ u \notin ripe'
    BY <1>17, <2>2 DEF Ripen, dbVars, taskVars, OutboxInv, NothingBeforeTheLog, TypeOK
  <2>5. handler'[u] = "idle" /\ job'[u] = "idle"
    BY <1>17, <2>2 DEF Ripen, dbVars, taskVars, OutboxInv, NothingBeforeTheLog, TypeOK
  <2>6. u \notin rec'.ids
    BY <1>17, <2>2 DEF Ripen, dbVars, taskVars, OutboxInv, NothingBeforeTheLog, TypeOK
  <2>7. \A i \in 1..Len(queue'): queue'[i] # u
    BY <1>17, <2>2 DEF Ripen, dbVars, taskVars, OutboxInv, NothingBeforeTheLog, TypeOK
  <2> QED BY <2>3, <2>4, <2>5, <2>6, <2>7
<1>18. ASSUME NEW w \in Usages, BackOffEnds(w) PROVE NothingBeforeTheLog'
  <2>0. log[w] # "none"
    BY <1>18, ActsOnRecorded DEF Handler, Worker
  <2>1. SUFFICES ASSUME NEW u \in Usages, log'[u] = "none"
        PROVE  /\ box'[u] = NoRow /\ u \notin charged' /\ u \notin ripe'
               /\ handler'[u] = "idle" /\ job'[u] = "idle" /\ u \notin rec'.ids
               /\ \A i \in 1..Len(queue'): queue'[i] # u
    BY DEF NothingBeforeTheLog
  <2>2. log[u] = "none" /\ u # w
    BY <1>18, <1>t, <2>0, <2>1 DEF BackOffEnds, dbVars, TypeOK
  <2>3. box'[u] = NoRow
    BY <1>18, <2>2 DEF BackOffEnds, dbVars, taskVars, OutboxInv, NothingBeforeTheLog, TypeOK
  <2>4. u \notin charged' /\ u \notin ripe'
    BY <1>18, <2>2 DEF BackOffEnds, dbVars, taskVars, OutboxInv, NothingBeforeTheLog, TypeOK
  <2>5. handler'[u] = "idle" /\ job'[u] = "idle"
    BY <1>18, <2>2 DEF BackOffEnds, dbVars, taskVars, OutboxInv, NothingBeforeTheLog, TypeOK
  <2>6. u \notin rec'.ids
    BY <1>18, <2>2 DEF BackOffEnds, dbVars, taskVars, OutboxInv, NothingBeforeTheLog, TypeOK
  <2>7. \A i \in 1..Len(queue'): queue'[i] # u
    BY <1>18, <2>2 DEF BackOffEnds, dbVars, taskVars, OutboxInv, NothingBeforeTheLog, TypeOK
  <2> QED BY <2>3, <2>4, <2>5, <2>6, <2>7
<1>19. ASSUME NEW w \in Usages, HoldLapses(w) PROVE NothingBeforeTheLog'
  BY <1>19 DEF HoldLapses, taskVars, OutboxInv, NothingBeforeTheLog
<1>20. ASSUME NEW w \in Usages, Collect(w) PROVE NothingBeforeTheLog'
  <2>0. log[w] # "none"
    BY <1>20, ActsOnRecorded DEF Handler, Worker
  <2>1. SUFFICES ASSUME NEW u \in Usages, log'[u] = "none"
        PROVE  /\ box'[u] = NoRow /\ u \notin charged' /\ u \notin ripe'
               /\ handler'[u] = "idle" /\ job'[u] = "idle" /\ u \notin rec'.ids
               /\ \A i \in 1..Len(queue'): queue'[i] # u
    BY DEF NothingBeforeTheLog
  <2>2. log[u] = "none" /\ u # w
    BY <1>20, <1>t, <2>0, <2>1 DEF Collect, dbVars, TypeOK
  <2>3. box'[u] = NoRow
    BY <1>20, <2>2 DEF Collect, dbVars, taskVars, OutboxInv, NothingBeforeTheLog, TypeOK
  <2>4. u \notin charged' /\ u \notin ripe'
    BY <1>20, <2>2 DEF Collect, dbVars, taskVars, OutboxInv, NothingBeforeTheLog, TypeOK
  <2>5. handler'[u] = "idle" /\ job'[u] = "idle"
    BY <1>20, <2>2 DEF Collect, dbVars, taskVars, OutboxInv, NothingBeforeTheLog, TypeOK
  <2>6. u \notin rec'.ids
    BY <1>20, <2>2 DEF Collect, dbVars, taskVars, OutboxInv, NothingBeforeTheLog, TypeOK
  <2>7. \A i \in 1..Len(queue'): queue'[i] # u
    BY <1>20, <2>2 DEF Collect, dbVars, taskVars, OutboxInv, NothingBeforeTheLog, TypeOK
  <2> QED BY <2>3, <2>4, <2>5, <2>6, <2>7
<1>21. CASE Shutdown
  <2>1. rec'.ids = {} BY <1>21, <1>t, RecMoves
  <2>2. Len(queue') = 0 BY <1>21 DEF Shutdown
  <2> QED BY <1>21, <2>1, <2>2 DEF Shutdown, dbVars, OutboxInv, NothingBeforeTheLog
<1>22. CASE Restart
  <2>1. rec'.ids = {} BY <1>22, <1>t, RecMoves
  <2>2. Len(queue') = 0 BY <1>22 DEF Restart
  <2> QED BY <1>22, <2>1, <2>2 DEF Restart, dbVars, OutboxInv, NothingBeforeTheLog
<1>23. CASE UNCHANGED vars
  BY <1>23 DEF vars, OutboxInv, NothingBeforeTheLog
<1> QED BY <1>1, <1>2, <1>3, <1>4, <1>5, <1>6, <1>7, <1>8, <1>9, <1>10, <1>11, <1>12, <1>13, <1>14, <1>15, <1>16, <1>17, <1>18, <1>19, <1>20, <1>21, <1>22, <1>23
           DEF Next, Handler, Worker, Reconciler

----------------------------------------------------------------------------
(* The theorems *)

\* The tables and the tasks keep their types in every execution.
THEOREM OutboxTypes == Spec => []TypeOK
<1>1. Init => TypeOK
  <2> SUFFICES ASSUME Init PROVE TypeOK
    OBVIOUS
  <2>1. NoRow \in Rows BY DEF NoRow, Rows, RowStatuses
  <2>2. queue \in Seq(Usages) BY DEF Init
  <2> QED BY <2>1, <2>2, AsleepIsState, LimitsAssumption DEF Init, TypeOK, HandlerSteps, JobSteps
<1>2. TypeOK /\ [Next]_vars => TypeOK'
  BY TypeStep
<1> QED BY <1>1, <1>2, PTL DEF Spec

\* The inductive invariant holds in every execution, for any number of
\* usages, workers, faults and restarts.
THEOREM OutboxInvariant == Spec => []OutboxInv
<1>1. Init /\ TypeOK => OutboxInv
  <2> SUFFICES ASSUME Init, TypeOK PROVE OutboxInv
    OBVIOUS
  <2>1. CompletedIsCharged /\ RowsFollowLogs
    BY KindsAssumption DEF Init, CompletedIsCharged, RowsFollowLogs, NoRow
  <2>2. CollectedIsCharged
    BY KindsAssumption DEF Init, CollectedIsCharged
  <2>3. AboutToComplete
    BY DEF Init, AboutToComplete, Asleep
  <2>4. NothingBeforeTheLog
    BY DEF Init, NothingBeforeTheLog, Asleep
  <2> QED BY <2>1, <2>2, <2>3, <2>4 DEF OutboxInv
<1>2. OutboxInv /\ [Next]_vars => OutboxInv'
  BY TypeStep, CompletedStep, CollectedStep, AboutToCompleteStep, NothingBeforeStep,
     RowsFollowLogsStep DEF OutboxInv
<1> QED BY <1>1, <1>2, OutboxTypes, PTL DEF Spec

\* A row that says completed has its charge event (mark_outbox_completed is
\* reached only after settle_usage succeeded, whoever called it).
THEOREM RowsTellTheTruth == Spec => []CompletedIsCharged
<1>1. OutboxInv => CompletedIsCharged
  BY DEF OutboxInv
<1> QED BY <1>1, OutboxInvariant, PTL

\* Retention never takes the log of a usage that the journal handed off and
\* that still owes its charge (delete_created_at_in_batches).
THEOREM RetentionIsSafe == Spec => []CollectedIsCharged
<1>1. OutboxInv => CollectedIsCharged
  BY DEF OutboxInv
<1> QED BY <1>1, OutboxInvariant, PTL

\* Both: mark_outbox_completed and delete_created_at_in_batches act only on
\* usages that settle_usage has charged.
THEOREM SettledWasCharged == Spec => []SettledIsCharged
<1> QED BY RowsTellTheTruth, RetentionIsSafe, PTL DEF SettledIsCharged

\* Which actions write the table of rows.
LEMMA RowWriters ==
  ASSUME [Next]_vars
  PROVE  \/ box' = box
         \/ \E w \in Usages: RecordUsage(w) \/ PersistOutbox(w) \/ WorkerAcknowledges(w)
                              \/ ReconcileMark(w) \/ BackOffEnds(w)
<1>1. CASE UNCHANGED vars BY <1>1 DEF vars
<1>2. ASSUME NEW w \in Usages,
             \/ SendJob(w) \/ SettleDirectly(w) \/ StartWorker(w) \/ WorkerSettles(w)
             \/ ReconcileRow(w) \/ ReconcileSettle(w) \/ RepairGap(w)
             \/ Ripen(w) \/ HoldLapses(w) \/ Collect(w)
      PROVE  box' = box
  BY <1>2 DEF SendJob, SettleDirectly, StartWorker, WorkerSettles, ReconcileRow, ReconcileSettle,
              RepairGap, Ripen, HoldLapses, Collect, dbVars
<1>3. ReceiveJob \/ Cleanup \/ SelectPending \/ SelectGaps \/ EndPass \/ Shutdown \/ Restart => box' = box
  BY DEF ReceiveJob, Cleanup, SelectPending, SelectGaps, EndPass, Shutdown, Restart, dbVars
<1> QED BY <1>1, <1>2, <1>3 DEF Next, Handler, Worker, Reconciler

\* How a step changes the rows: a completed row stays completed, a dead
\* letter stays one unless its usage is charged.
LEMMA RowStep ==
  ASSUME OutboxInv, [Next]_vars, NEW u \in Usages
  PROVE  /\ box[u].status = "completed" => box'[u].status = "completed"
         /\ box[u].status = "failed" => box'[u].status = "failed" \/ u \in charged
<1>t. TypeOK /\ RowsFollowLogs BY DEF OutboxInv
<1>1. CASE box' = box BY <1>1
<1>2. ASSUME NEW w \in Usages, RecordUsage(w)
      PROVE  \/ box'[u] = box[u]
             \/ box[u].status = "absent"
  BY <1>2, <1>t DEF RecordUsage, TypeOK, OutboxInv, NothingBeforeTheLog, NoRow
<1>3. ASSUME NEW w \in Usages, box' = Persisted(w)
      PROVE  /\ box[u].status = "completed" => box'[u].status = "completed"
             /\ box[u].status = "failed" => box'[u].status = "failed"
  BY <1>3, <1>t, RowEffects, DeadLetters
<1>4. ASSUME NEW w \in Usages, box' = MarkedFailed(w)
      PROVE  /\ box[u].status = "completed" => box'[u].status = "completed"
             /\ box[u].status = "failed" => box'[u].status = "failed"
  BY <1>4, <1>t, RowEffects, DeadLetters
<1>5. ASSUME NEW w \in Usages, box' = MarkedCompleted(w), w \in charged
      PROVE  /\ box[u].status = "completed" => box'[u].status = "completed"
             /\ box[u].status = "failed" => box'[u].status = "failed" \/ u \in charged
  BY <1>5, <1>t, RowEffects, DeadLetters
<1>6. ASSUME NEW w \in Usages, BackOffEnds(w) PROVE box'[u].status = box[u].status
  BY <1>6, <1>t DEF BackOffEnds, TypeOK, Rows
<1>7. ASSUME NEW w \in Usages, PersistOutbox(w)
      PROVE  box' = box \/ box' = Persisted(w)
  BY <1>7 DEF PersistOutbox
<1>8. ASSUME NEW w \in Usages, WorkerAcknowledges(w)
      PROVE  box' = box \/ box' = MarkedFailed(w) \/ (box' = MarkedCompleted(w) /\ w \in charged)
  BY <1>8 DEF WorkerAcknowledges, Update, OutboxInv, AboutToComplete
<1>9. ASSUME NEW w \in Usages, ReconcileMark(w)
      PROVE  box' = box \/ box' = MarkedFailed(w) \/ (box' = MarkedCompleted(w) /\ w \in charged)
  BY <1>9 DEF ReconcileMark, OutboxInv, AboutToComplete
<1> QED BY <1>1, <1>2, <1>3, <1>4, <1>5, <1>6, <1>7, <1>8, <1>9, RowWriters

\* A failure recorded late never reopens or buries a completed row.
THEOREM CompletedRowsStay == Spec => CompletedIsFinal
<1>1. OutboxInv /\ [Next]_vars
      => [\A u \in Usages: box[u].status = "completed" => box'[u].status = "completed"]_vars
  BY RowStep
<1> QED BY <1>1, OutboxInvariant, PTL DEF Spec, CompletedIsFinal

----------------------------------------------------------------------------
(* The refinement *)

\* A step that moves at most the usage w, along a move of the promise, is a
\* step of the promise.
LEMMA OneMove ==
  ASSUME NEW w \in Usages,
         \A u \in Usages: u # w => Standing(u)' = Standing(u),
         \/ Standing(w)' = Standing(w)
         \/ Standing(w) = "none" /\ Standing(w)' = "owed"
         \/ Standing(w) \in {"owed", "dead", "lost"} /\ Standing(w)' = "charged"
         \/ Standing(w) = "owed" /\ Standing(w)' = "dead"
         \/ Standing(w) = "owed" /\ Standing(w)' = "lost" /\ w \notin Journalled
  PROVE  [P!PromiseNext]_[u \in Usages |-> Standing(u)]
<1> DEFINE bill == [u \in Usages |-> Standing(u)]
<1>1. bill' = [u \in Usages |-> Standing(u)']
  OBVIOUS
<1>2. ASSUME NEW x, Standing(w)' = x PROVE bill' = [bill EXCEPT ![w] = x]
  BY <1>1, <1>2
<1>3. CASE Standing(w)' = Standing(w)
  BY <1>1, <1>3
<1>4. CASE Standing(w) = "none" /\ Standing(w)' = "owed"
  BY <1>2, <1>4 DEF P!PromiseNext, P!Incur, P!Move
<1>5. CASE Standing(w) \in {"owed", "dead", "lost"} /\ Standing(w)' = "charged"
  BY <1>2, <1>5 DEF P!PromiseNext, P!Charge, P!Move
<1>6. CASE Standing(w) = "owed" /\ Standing(w)' = "dead"
  BY <1>2, <1>6 DEF P!PromiseNext, P!GiveUp, P!Move
<1>7. CASE Standing(w) = "owed" /\ Standing(w)' = "lost" /\ w \notin Journalled
  BY <1>2, <1>7 DEF P!PromiseNext, P!Lose, P!Move
<1> QED BY <1>3, <1>4, <1>5, <1>6, <1>7

\* A step in which the logs stay and at most w is charged.
LEMMA ChargeMove ==
  ASSUME OutboxInv, NEW w \in Usages, log[w] # "none", log' = log, box' = box,
         charged' = charged \/ charged' = charged \cup {w}
  PROVE  [P!PromiseNext]_[u \in Usages |-> Standing(u)]
<1>1. \A u \in Usages: u # w => Standing(u)' = Standing(u)
  BY DEF Standing
<1>2. log[w] \in {"logged", "collected"}
  BY DEF OutboxInv, TypeOK
<1>3. \/ Standing(w)' = Standing(w)
      \/ Standing(w) \in {"owed", "dead", "lost"} /\ Standing(w)' = "charged"
  BY <1>2 DEF Standing
<1> QED BY <1>1, <1>3, OneMove

\* A step that only writes the row of w.
LEMMA RowMove ==
  ASSUME OutboxInv, [Next]_vars, NEW w \in Usages, log[w] # "none", log' = log, charged' = charged,
         \A u \in Usages: u # w => box'[u].status = box[u].status
  PROVE  [P!PromiseNext]_[u \in Usages |-> Standing(u)]
<1>1. \A u \in Usages: u # w => Standing(u)' = Standing(u)
  BY DEF Standing
<1>2. log[w] \in {"logged", "collected"}
  BY DEF OutboxInv, TypeOK
<1>3. box[w].status = "failed" => box'[w].status = "failed" \/ w \in charged
  BY RowStep
<1>4. \/ Standing(w)' = Standing(w)
      \/ Standing(w) = "owed" /\ Standing(w)' = "dead"
  BY <1>2, <1>3 DEF Standing
<1> QED BY <1>1, <1>4, OneMove

LEMMA PromiseStep ==
  OutboxInv /\ [Next]_vars => [P!PromiseNext]_[u \in Usages |-> Standing(u)]
<1> SUFFICES ASSUME OutboxInv, [Next]_vars PROVE [P!PromiseNext]_[u \in Usages |-> Standing(u)]
  OBVIOUS
<1>t. TypeOK BY DEF OutboxInv

<1>1. ASSUME NEW w \in Usages, RecordUsage(w) PROVE [P!PromiseNext]_[u \in Usages |-> Standing(u)]
  <2>1. \A u \in Usages: u # w => Standing(u)' = Standing(u)
    BY <1>1, <1>t DEF RecordUsage, TypeOK, Standing
  <2>2. Standing(w) = "none"
    BY <1>1 DEF RecordUsage, OutboxInv, NothingBeforeTheLog, Standing, NoRow
  <2>3. box'[w].status # "failed" /\ log'[w] = "logged" /\ w \notin charged'
    BY <1>1, <1>t DEF RecordUsage, TypeOK, OutboxInv, NothingBeforeTheLog, NoRow, NewRow
  <2>4. Standing(w)' = "owed"
    BY <2>3 DEF Standing
  <2> QED BY <2>1, <2>2, <2>4, OneMove
<1>2. ASSUME NEW w \in Usages, PersistOutbox(w)
      PROVE  [P!PromiseNext]_[u \in Usages |-> Standing(u)]
  <2>1. log[w] # "none"
    BY <1>2, ActsOnRecorded DEF Handler, Worker
  <2>2. \A u \in Usages: u # w => box'[u].status = box[u].status
    BY <1>2, <1>t, RowEffects DEF PersistOutbox, Update
  <2> QED BY <1>2, <2>1, <2>2, RowMove DEF PersistOutbox
<1>3. ASSUME NEW w \in Usages, SendJob(w) PROVE [P!PromiseNext]_[u \in Usages |-> Standing(u)]
  BY <1>3 DEF SendJob, dbVars, taskVars, Standing
<1>4. ASSUME NEW w \in Usages, SettleDirectly(w)
      PROVE  [P!PromiseNext]_[u \in Usages |-> Standing(u)]
  <2>1. log[w] # "none"
    BY <1>4, ActsOnRecorded DEF Handler, Worker
  <2>2. charged' = charged \/ charged' = charged \cup {w}
    <3>1. PICK ok \in BOOLEAN: SettleUsage(w, w \in Keyed, ok) BY <1>4 DEF SettleDirectly
    <3>2. (w \in Keyed) \in BOOLEAN BY <1>t DEF TypeOK, RecStates
    <3> QED BY <1>t, <3>1, <3>2, SettleEffects
  <2> QED BY <1>4, <2>1, <2>2, ChargeMove DEF SettleDirectly
<1>5. CASE ReceiveJob
  BY <1>5 DEF ReceiveJob, dbVars, taskVars, Standing
<1>6. ASSUME NEW w \in Usages, StartWorker(w) PROVE [P!PromiseNext]_[u \in Usages |-> Standing(u)]
  BY <1>6 DEF StartWorker, dbVars, taskVars, Standing
<1>7. ASSUME NEW w \in Usages, WorkerSettles(w)
      PROVE  [P!PromiseNext]_[u \in Usages |-> Standing(u)]
  <2>1. log[w] # "none"
    BY <1>7, ActsOnRecorded DEF Handler, Worker
  <2>2. charged' = charged \/ charged' = charged \cup {w}
    <3>1. PICK ok \in BOOLEAN: SettleUsage(w, w \in Keyed, ok) BY <1>7 DEF WorkerSettles
    <3>2. (w \in Keyed) \in BOOLEAN BY <1>t DEF TypeOK, RecStates
    <3> QED BY <1>t, <3>1, <3>2, SettleEffects
  <2> QED BY <1>7, <2>1, <2>2, ChargeMove DEF WorkerSettles
<1>8. ASSUME NEW w \in Usages, WorkerAcknowledges(w)
      PROVE  [P!PromiseNext]_[u \in Usages |-> Standing(u)]
  <2>1. log[w] # "none"
    BY <1>8, ActsOnRecorded DEF Handler, Worker
  <2>2. \A u \in Usages: u # w => box'[u].status = box[u].status
    BY <1>8, <1>t, RowEffects DEF WorkerAcknowledges, Update
  <2> QED BY <1>8, <2>1, <2>2, RowMove DEF WorkerAcknowledges
<1>9. CASE Cleanup
  BY <1>9 DEF Cleanup, dbVars, taskVars, Standing
<1>10. CASE SelectPending
  BY <1>10 DEF SelectPending, dbVars, taskVars, Standing
<1>11. ASSUME NEW w \in Usages, ReconcileRow(w)
       PROVE  [P!PromiseNext]_[u \in Usages |-> Standing(u)]
  BY <1>11 DEF ReconcileRow, dbVars, taskVars, Standing
<1>12. ASSUME NEW w \in Usages, ReconcileSettle(w)
       PROVE  [P!PromiseNext]_[u \in Usages |-> Standing(u)]
  <2>1. log[w] # "none"
    BY <1>12, ActsOnRecorded DEF Handler, Worker
  <2>2. charged' = charged \/ charged' = charged \cup {w}
    <3>1. PICK ok \in BOOLEAN: SettleUsage(w, rec.keyed, ok) BY <1>12 DEF ReconcileSettle
    <3>2. (rec.keyed) \in BOOLEAN BY <1>t DEF TypeOK, RecStates
    <3> QED BY <1>t, <3>1, <3>2, SettleEffects
  <2> QED BY <1>12, <2>1, <2>2, ChargeMove DEF ReconcileSettle
<1>13. ASSUME NEW w \in Usages, ReconcileMark(w)
       PROVE  [P!PromiseNext]_[u \in Usages |-> Standing(u)]
  <2>1. log[w] # "none"
    BY <1>13, ActsOnRecorded DEF Handler, Worker
  <2>2. \A u \in Usages: u # w => box'[u].status = box[u].status
    BY <1>13, <1>t, RowEffects DEF ReconcileMark, Update
  <2> QED BY <1>13, <2>1, <2>2, RowMove DEF ReconcileMark
<1>14. CASE SelectGaps
  BY <1>14 DEF SelectGaps, dbVars, taskVars, Standing
<1>15. ASSUME NEW w \in Usages, RepairGap(w) PROVE [P!PromiseNext]_[u \in Usages |-> Standing(u)]
  <2>1. log[w] # "none"
    BY <1>15, ActsOnRecorded
  <2>2. charged' = charged \/ charged' = charged \cup {w}
    BY <1>15, <1>t, SettleEffects DEF RepairGap
  <2> QED BY <1>15, <2>1, <2>2, ChargeMove DEF RepairGap
<1>16. CASE EndPass
  BY <1>16 DEF EndPass, dbVars, taskVars, Standing
<1>17. ASSUME NEW w \in Usages, Ripen(w) PROVE [P!PromiseNext]_[u \in Usages |-> Standing(u)]
  BY <1>17 DEF Ripen, dbVars, taskVars, Standing
<1>18. ASSUME NEW w \in Usages, BackOffEnds(w)
       PROVE  [P!PromiseNext]_[u \in Usages |-> Standing(u)]
  <2>1. log[w] # "none"
    BY <1>18, ActsOnRecorded
  <2>2. \A u \in Usages: u # w => box'[u].status = box[u].status
    BY <1>18, <1>t DEF BackOffEnds, TypeOK
  <2> QED BY <1>18, <2>1, <2>2, RowMove DEF BackOffEnds
<1>19. ASSUME NEW w \in Usages, HoldLapses(w) PROVE [P!PromiseNext]_[u \in Usages |-> Standing(u)]
  BY <1>19 DEF HoldLapses, dbVars, taskVars, Standing
<1>20. ASSUME NEW w \in Usages, Collect(w) PROVE [P!PromiseNext]_[u \in Usages |-> Standing(u)]
  <2>1. \A u \in Usages: u # w => Standing(u)' = Standing(u)
    BY <1>20, <1>t DEF Collect, TypeOK, Standing
  <2>2. w \in charged \/ (w \notin Journalled /\ box[w].status = "absent")
    BY <1>20 DEF Collect, OutboxInv, RowsFollowLogs, CompletedIsCharged
  <2>3. log[w] = "logged" /\ log'[w] = "collected" /\ charged' = charged /\ box' = box
    BY <1>20, <1>t DEF Collect, TypeOK
  <2>4. \/ Standing(w)' = Standing(w)
        \/ Standing(w) = "owed" /\ Standing(w)' = "lost" /\ w \notin Journalled
    BY <2>2, <2>3 DEF Standing
  <2> QED BY <2>1, <2>4, OneMove
<1>21. CASE Shutdown
  BY <1>21 DEF Shutdown, dbVars, taskVars, Standing
<1>22. CASE Restart
  BY <1>22 DEF Restart, dbVars, taskVars, Standing
<1>23. CASE UNCHANGED vars
  BY <1>23 DEF vars, Standing
<1> QED BY <1>1, <1>2, <1>3, <1>4, <1>5, <1>6, <1>7, <1>8, <1>9, <1>10, <1>11, <1>12, <1>13, <1>14, <1>15, <1>16, <1>17, <1>18, <1>19, <1>20, <1>21, <1>22, <1>23
           DEF Next, Handler, Worker, Reconciler

\* The settlement machinery implements the promise: in the tables a usage
\* only ever moves from unknown to owed to charged or given up, a charge is
\* final, and no fenced usage is lost.
THEOREM OutboxImplementsPromise == Spec => ImplementsPromise
<1>1. Init => P!PromiseInit
  BY DEF Init, P!PromiseInit, Standing, NoRow
<1>2. OutboxInv /\ [Next]_vars => [P!PromiseNext]_[u \in Usages |-> Standing(u)]
  BY PromiseStep
<1> QED BY <1>1, <1>2, OutboxInvariant, PTL DEF Spec, ImplementsPromise, P!PromiseSafety
----------------------------------------------------------------------------
(* Dead letters are hopeless                                               *)
(*                                                                         *)
(* Every failed attempt needs an excuse: a fault, the one run of the       *)
(* usage's queued job, or a hold that lapsed before the reconciler had     *)
(* dropped the key.  A usage that could be charged runs out of excuses     *)
(* before it runs out of attempts.                                         *)

\* A usage is queued once, with its job, after its request is done with it.
JobsRunOnce ==
  /\ \A i \in 1..Len(queue): job[queue[i]] = "queued"
  /\ \A i, j \in 1..Len(queue): queue[i] = queue[j] => i = j
  /\ \A u \in Usages: job[u] # "idle" => handler[u] = "done"

\* What a hold tells of its usage, and what the reconciler knows of the hold.
At(u, step) == rec.step = step /\ IsFirst(u, rec.ids)

HoldTells(u) ==
  /\ hold[u] = "used" => u \in charged
  /\ hold[u] = "foreign" => u \in Foreign
  /\ At(u, "settle") /\ rec.keyed => hold[u] \in {"open", "stale", "used"}
  /\ box[u].status = "absent" => box[u].attempts = 0

\* A pass repairs a usage once: as a row, or else as a gap.
Batch == {"row", "settle", "completed", "failed"}
HasRow == {u \in Usages: box[u].status # "absent"}

PassFits ==
  /\ rec.step \in {"sleep", "select"} => rec.ids = {} /\ rec.repaired = 0
  /\ rec.step \in Batch => rec.ids \subseteq HasRow /\ rec.repaired <= Cardinality(HasRow \ rec.ids)
  /\ rec.step = "repair" => rec.repaired <= Cardinality(Usages \ rec.ids)

\* The usages that could still be charged.
Hopeful == {u \in Usages \ (Poison \cup Foreign): u \notin charged /\ log[u] # "collected"}

\* The reconciler has begun a pass and has u still before it.
ToTry(u) ==
  \/ rec.step = "select"
  \/ rec.step \in Batch /\ u \in rec.ids /\ ~At(u, "failed") /\ ~At(u, "completed")

One(b) == IF b THEN 1 ELSE 0

\* The attempts that failed, those not yet written to the row included.
JobFailed(u) == One(job[u] = "failed")
RecFailed(u) == One(At(u, "failed"))
Spent(u) == box[u].attempts + JobFailed(u) + RecFailed(u)

\* What can have made them fail.
JobOver(u) == One(handler[u] = "done" /\ job[u] \in {"idle", "completed", "failed"})
HoldOver(u) == One(~(hold[u] = "open" \/ (hold[u] = "stale" /\ ToTry(u))))
Excuses(u) == faults + JobOver(u) + HoldOver(u)

Budget == \A u \in Hopeful: Spent(u) <= Excuses(u)

RetryInv ==
  OutboxInv /\ JobsRunOnce /\ (\A u \in Usages: HoldTells(u)) /\ PassFits /\ Budget

\* One of two things is first in a batch.
LEMMA OneFirst ==
  ASSUME NEW w \in Usages, NEW u \in Usages, NEW I \in SUBSET Usages, IsFirst(w, I), IsFirst(u, I)
  PROVE  u = w
BY UsagesAssumption DEF IsFirst

\* A call of settle_usage, seen from outside: only what it charges is touched,
\* and it fails for want of a hold, by a fault, or for ever.
LEMMA SettleOutcome ==
  ASSUME TypeOK, NEW w \in Usages, NEW k \in BOOLEAN, NEW ok \in BOOLEAN, SettleUsage(w, k, ok)
  PROVE  /\ charged \subseteq charged' /\ charged' \subseteq charged \cup {w}
         /\ faults' \in Nat /\ faults' >= faults
         /\ \A u \in Usages: hold'[u] = hold[u] \/ (u = w /\ w \in charged' /\ hold'[u] = "used")
         /\ ok => w \in charged'
         /\ ~ok => \/ w \in charged' \/ faults' = faults + 1
                   \/ w \in Poison \/ (k /\ w \notin charged /\ hold[w] # "open")
<1>1. faults \in Nat BY LimitsAssumption DEF TypeOK
<1>2. CASE Commit(w, k)
  <2>1. charged' = charged \cup {w} /\ w \in charged'
    BY <1>2 DEF Commit
  <2>2. \A u \in Usages: hold'[u] = hold[u] \/ (u = w /\ hold'[u] = "used")
    BY <1>2 DEF Commit, TypeOK
  <2> QED BY <1>1, <2>1, <2>2 DEF SettleUsage, Fault, NoFault
<1>3. CASE ~ok /\ UNCHANGED <<charged, hold>>
  BY <1>1, <1>3 DEF SettleUsage, Fault, NoFault, CanSettle
<1> QED BY <1>2, <1>3 DEF SettleUsage

\* The queue and the jobs: whatever a step does to them.
LEMMA JobsStep == OutboxInv /\ JobsRunOnce /\ [Next]_vars => JobsRunOnce'
<1> SUFFICES ASSUME OutboxInv, JobsRunOnce, [Next]_vars PROVE JobsRunOnce'
  OBVIOUS
<1>t. TypeOK BY DEF OutboxInv
<1>d. handler \in [Usages -> HandlerSteps] /\ job \in [Usages -> JobSteps] /\ queue \in Seq(Usages)
  BY <1>t DEF TypeOK
<1>0. CASE UNCHANGED <<handler, queue, job>>
  BY <1>0 DEF JobsRunOnce
<1>1. ASSUME NEW w \in Usages, RecordUsage(w) PROVE JobsRunOnce'
  <2>1. handler[w] = "idle" /\ job[w] = "idle" /\ UNCHANGED <<queue, job>>
    BY <1>1 DEF RecordUsage, OutboxInv, NothingBeforeTheLog
  <2>2. \A u \in Usages: u = w \/ handler'[u] = handler[u]
    BY <1>1, <1>d DEF RecordUsage
  <2> QED BY <2>1, <2>2 DEF JobsRunOnce
<1>2. ASSUME NEW w \in Usages, PersistOutbox(w) \/ SettleDirectly(w) PROVE JobsRunOnce'
  <2>1. handler[w] # "done" /\ UNCHANGED <<queue, job>>
    BY <1>2 DEF PersistOutbox, SettleDirectly
  <2>2. \A u \in Usages: u = w \/ handler'[u] = handler[u]
    BY <1>2, <1>d DEF PersistOutbox, SettleDirectly
  <2> QED BY <2>1, <2>2 DEF JobsRunOnce
<1>3. ASSUME NEW w \in Usages, SendJob(w) PROVE JobsRunOnce'
  <2>1. CASE up
    <3>1. handler[w] # "done" /\ job[w] = "idle"
      BY <1>3 DEF SendJob, JobsRunOnce
    <3>2. queue' = Append(queue, w) /\ job' = [job EXCEPT ![w] = "queued"]
          /\ handler' = [handler EXCEPT ![w] = "done"]
      BY <1>3, <2>1 DEF SendJob
    <3>3. /\ Len(queue') = Len(queue) + 1 /\ queue'[Len(queue) + 1] = w
          /\ \A i \in 1..Len(queue): queue'[i] = queue[i] /\ queue[i] \in Usages
      BY <1>d, <3>2
    <3>4. \A i \in 1..Len(queue): queue[i] # w
      BY <3>1 DEF JobsRunOnce
    <3>5. \A i \in 1..Len(queue'): job'[queue'[i]] = "queued"
      BY <1>d, <3>2, <3>3, <3>4 DEF JobsRunOnce
    <3>6. \A i, j \in 1..Len(queue'): queue'[i] = queue'[j] => i = j
      BY <1>d, <3>3, <3>4 DEF JobsRunOnce
    <3>7. \A u \in Usages: job'[u] # "idle" => handler'[u] = "done"
      BY <1>d, <3>2 DEF JobsRunOnce
    <3> QED BY <3>5, <3>6, <3>7 DEF JobsRunOnce
  <2>2. CASE ~up
    <3>1. handler[w] # "done" /\ UNCHANGED <<queue, job>> /\ handler' = [handler EXCEPT ![w] = "direct"]
      BY <1>3, <2>2 DEF SendJob
    <3> QED BY <1>d, <3>1 DEF JobsRunOnce
  <2> QED BY <2>1, <2>2
<1>4. CASE ReceiveJob
  <2>1. /\ Head(queue) = queue[1] /\ Len(queue) >= 1 /\ Len(queue') = Len(queue) - 1
        /\ \A i \in 1..Len(queue'): queue'[i] = queue[i + 1] /\ queue[i + 1] \in Usages
        /\ queue[1] \in Usages
    BY <1>4, <1>d DEF ReceiveJob
  <2>2. job' = [job EXCEPT ![queue[1]] = "taken"] /\ UNCHANGED handler
    BY <1>4, <2>1 DEF ReceiveJob
  <2>3. Len(queue) \in Nat
    BY <1>d
  <2>4. \A i \in 1..Len(queue'): queue'[i] # queue[1] /\ job[queue'[i]] = "queued"
    BY <2>1, <2>3 DEF JobsRunOnce
  <2>5. \A i \in 1..Len(queue'): job'[queue'[i]] = "queued"
    BY <1>d, <2>1, <2>2, <2>4
  <2>6. \A i, j \in 1..Len(queue'): queue'[i] = queue'[j] => i = j
    BY <2>1, <2>3 DEF JobsRunOnce
  <2>7. job[queue[1]] = "queued"
    BY <2>1, <2>3 DEF JobsRunOnce
  <2>8. \A u \in Usages: job'[u] # "idle" => handler'[u] = "done"
    BY <1>d, <2>1, <2>2, <2>7 DEF JobsRunOnce
  <2> QED BY <2>5, <2>6, <2>8 DEF JobsRunOnce
<1>5. ASSUME NEW w \in Usages, StartWorker(w) \/ WorkerSettles(w) \/ WorkerAcknowledges(w)
      PROVE  JobsRunOnce'
  <2>1. job[w] \notin {"queued", "idle"} /\ UNCHANGED <<queue, handler>>
    BY <1>5 DEF StartWorker, WorkerSettles, WorkerAcknowledges
  <2>2. \A u \in Usages: u = w \/ job'[u] = job[u]
    BY <1>5, <1>d DEF StartWorker, WorkerSettles, WorkerAcknowledges
  <2>3. \A i \in 1..Len(queue): queue[i] \in Usages
    BY <1>d
  <2> QED BY <2>1, <2>2, <2>3 DEF JobsRunOnce
<1>6. CASE Shutdown \/ Restart
  <2>1. queue' = <<>> /\ \A u \in Usages: job'[u] = "idle"
    BY <1>6 DEF Shutdown, Restart
  <2> QED BY <2>1 DEF JobsRunOnce
<1>7. ASSUME NEW w \in Usages,
             \/ Ripen(w) \/ BackOffEnds(w) \/ HoldLapses(w) \/ Collect(w)
             \/ ReconcileRow(w) \/ ReconcileSettle(w) \/ ReconcileMark(w) \/ RepairGap(w)
      PROVE  UNCHANGED <<handler, queue, job>>
  BY <1>7
     DEF Ripen, BackOffEnds, HoldLapses, Collect, ReconcileRow, ReconcileSettle, ReconcileMark,
              RepairGap, taskVars
<1>8. Cleanup \/ SelectPending \/ SelectGaps \/ EndPass \/ UNCHANGED vars => UNCHANGED <<handler, queue, job>>
  BY DEF Cleanup, SelectPending, SelectGaps, EndPass, vars
<1> QED BY <1>0, <1>1, <1>2, <1>3, <1>4, <1>5, <1>6, <1>7, <1>8
           DEF Next, Handler, Worker, Reconciler
\* Rows do not disappear, and what has no row has had no attempt.
LEMMA RowsStay ==
  ASSUME OutboxInv, [Next]_vars, NEW u \in Usages, box[u].status = "absent" => box[u].attempts = 0
  PROVE  /\ box[u].status # "absent" => box'[u].status # "absent"
         /\ box'[u].status = "absent" => box'[u].attempts = 0
<1>t. TypeOK /\ box \in [Usages -> Rows] BY DEF OutboxInv, TypeOK
<1>1. ASSUME NEW w \in Usages, RecordUsage(w)
      PROVE  box'[u] = box[u] \/ (box[u].status = "absent" /\ box'[u] = NewRow)
  BY <1>1, <1>t DEF RecordUsage, OutboxInv, NothingBeforeTheLog, NoRow
<1>2. ASSUME NEW w \in Usages, BackOffEnds(w)
      PROVE  box'[u].status = box[u].status /\ box'[u].attempts = box[u].attempts
  BY <1>2, <1>t DEF BackOffEnds, Rows
<1>3. ASSUME NEW w \in Usages
      PROVE  /\ Persisted(w)[u] = box[u] \/ (box[u].status = "absent" /\ Persisted(w)[u] = NewRow)
             /\ \/ MarkedFailed(w)[u] = box[u]
                \/ box[u].status # "absent" /\ MarkedFailed(w)[u].status # "absent"
             /\ \/ MarkedCompleted(w)[u] = box[u]
                \/ box[u].status # "absent" /\ MarkedCompleted(w)[u].status # "absent"
  <2>1. Persisted(w)[u] = box[u] \/ (box[u].status = "absent" /\ Persisted(w)[u] = NewRow)
    BY <1>t DEF Persisted
  <2>2. /\ MarkedFailed(w)[u].status = "absent" <=> box[u].status = "absent"
        /\ MarkedCompleted(w)[u].status = "absent" <=> box[u].status = "absent"
        /\ u # w => MarkedFailed(w)[u] = box[u] /\ MarkedCompleted(w)[u] = box[u]
    BY <1>t, RowEffects
  <2>3. u = w /\ box[u].status = "absent" => MarkedFailed(w) = box /\ MarkedCompleted(w) = box
    BY DEF MarkedFailed, MarkedCompleted
  <2>4. \/ MarkedFailed(w)[u] = box[u]
        \/ box[u].status # "absent" /\ MarkedFailed(w)[u].status # "absent"
    BY <2>2, <2>3
  <2>5. \/ MarkedCompleted(w)[u] = box[u]
        \/ box[u].status # "absent" /\ MarkedCompleted(w)[u].status # "absent"
    BY <2>2, <2>3
  <2> QED BY <2>1, <2>4, <2>5
<1>4. ASSUME NEW w \in Usages, PersistOutbox(w) \/ WorkerAcknowledges(w) \/ ReconcileMark(w)
      PROVE  box' \in {box, Persisted(w), MarkedFailed(w), MarkedCompleted(w)}
  BY <1>4 DEF PersistOutbox, WorkerAcknowledges, ReconcileMark, Update
<1>5. NewRow.status # "absent"
  BY DEF NewRow
<1> QED BY <1>1, <1>2, <1>3, <1>4, <1>5, RowWriters

\* Who touches the holds.
LEMMA HoldWriters ==
  ASSUME OutboxInv, [Next]_vars
  PROVE  \/ UNCHANGED <<hold, charged>>
         \/ \E w \in Usages: (SettleDirectly(w) \/ WorkerSettles(w) \/ ReconcileSettle(w) \/ RepairGap(w))
              /\ \A u \in Usages: hold'[u] = hold[u] \/ (u = w /\ w \in charged' /\ hold'[u] = "used")
         \/ Cleanup \/ \E w \in Usages: HoldLapses(w)
<1>t. TypeOK /\ rec.keyed \in BOOLEAN BY DEF OutboxInv, TypeOK, RecStates
<1>1. ASSUME NEW w \in Usages, SettleDirectly(w) \/ WorkerSettles(w) \/ ReconcileSettle(w) \/ RepairGap(w)
      PROVE  \A u \in Usages: hold'[u] = hold[u] \/ (u = w /\ w \in charged' /\ hold'[u] = "used")
  <2> DEFINE Called == \E k \in BOOLEAN, ok \in BOOLEAN: SettleUsage(w, k, ok)
  <2>1. SettleDirectly(w) \/ WorkerSettles(w) => Called
    BY Flags DEF SettleDirectly, WorkerSettles
  <2>2. ReconcileSettle(w) => Called
    BY <1>t DEF ReconcileSettle
  <2>3. RepairGap(w) => Called \/ UNCHANGED hold
    BY DEF RepairGap
  <2>4. Called \/ UNCHANGED hold
    BY <1>1, <2>1, <2>2, <2>3
  <2> QED BY <1>t, <2>4, SettleOutcome
<1>2. ASSUME NEW w \in Usages,
             \/ RecordUsage(w) \/ PersistOutbox(w) \/ SendJob(w) \/ StartWorker(w) \/ WorkerAcknowledges(w)
             \/ ReconcileRow(w) \/ ReconcileMark(w) \/ Ripen(w) \/ BackOffEnds(w) \/ Collect(w)
      PROVE  UNCHANGED <<hold, charged>>
  BY <1>2 DEF RecordUsage, PersistOutbox, SendJob, StartWorker, WorkerAcknowledges, ReconcileRow,
              ReconcileMark, Ripen, BackOffEnds, Collect, dbVars
<1>3. ReceiveJob \/ SelectPending \/ SelectGaps \/ EndPass \/ Shutdown \/ Restart \/ UNCHANGED vars
      => UNCHANGED <<hold, charged>>
  BY DEF ReceiveJob, SelectPending, SelectGaps, EndPass, Shutdown, Restart, dbVars, vars
<1> QED BY <1>1, <1>2, <1>3 DEF Next, Handler, Worker, Reconciler

\* How the reconciler comes to settle a row.
LEMMA ComesToSettle ==
  ASSUME TypeOK, [Next]_vars, rec'.step = "settle"
  PROVE  \/ rec' = rec /\ ~Cleanup
         \/ \E w \in Usages: /\ ReconcileRow(w) /\ UNCHANGED hold /\ IsFirst(w, rec.ids)
                             /\ rec'.ids = rec.ids /\ rec'.keyed = EffectivelyKeyed(w)
                             /\ hold[w] # "foreign"
<1>t. rec \in RecStates BY DEF TypeOK
<1>1. Asleep.step # "settle" BY DEF Asleep
<1>2. \A n: PassOver(n).step # "settle" BY DEF PassOver, Asleep
<1>3. ASSUME NEW w \in Usages, ReconcileRow(w)
      PROVE  /\ UNCHANGED hold /\ IsFirst(w, rec.ids)
             /\ rec'.ids = rec.ids /\ rec'.keyed = EffectivelyKeyed(w) /\ hold[w] # "foreign"
  <2>1. [rec EXCEPT !.step = "failed"].step # "settle" BY <1>t DEF RecStates
  <2>2. rec' = [rec EXCEPT !.step = "settle", !.keyed = EffectivelyKeyed(w)] /\ hold[w] # "foreign"
    BY <1>1, <1>3, <2>1 DEF ReconcileRow
  <2>3. rec'.ids = rec.ids /\ rec'.keyed = EffectivelyKeyed(w)
    BY <1>t, <2>2 DEF RecStates
  <2> QED BY <1>3, <2>2, <2>3 DEF ReconcileRow, dbVars
<1>4. ASSUME NEW w \in Usages, ReconcileSettle(w) \/ ReconcileMark(w) \/ RepairGap(w) PROVE FALSE
  <2>1. ~ReconcileSettle(w) BY <1>t DEF ReconcileSettle, RecStates
  <2>2. ~ReconcileMark(w) BY <1>t, <1>1 DEF ReconcileMark, RecStates
  <2>3. ~RepairGap(w) BY <1>t, <1>1 DEF RepairGap, RecStates
  <2> QED BY <1>4, <2>1, <2>2, <2>3
<1>5. ~Cleanup BY <1>t DEF Cleanup, RecStates
<1>6. ~SelectPending /\ ~SelectGaps /\ ~EndPass
  BY <1>t, <1>1, <1>2 DEF SelectPending, SelectGaps, EndPass, RecStates, Asleep
<1>7. ~Shutdown /\ ~Restart BY <1>1 DEF Shutdown, Restart
<1>8. ASSUME NEW w \in Usages,
             \/ RecordUsage(w) \/ PersistOutbox(w) \/ SendJob(w) \/ SettleDirectly(w)
             \/ StartWorker(w) \/ WorkerSettles(w) \/ WorkerAcknowledges(w)
             \/ Ripen(w) \/ BackOffEnds(w) \/ HoldLapses(w) \/ Collect(w)
      PROVE  rec' = rec
  BY <1>8 DEF RecordUsage, PersistOutbox, SendJob, SettleDirectly, StartWorker, WorkerSettles,
              WorkerAcknowledges, Ripen, BackOffEnds, HoldLapses, Collect, taskVars
<1>9. ReceiveJob \/ UNCHANGED vars => rec' = rec BY DEF ReceiveJob, vars
<1> QED BY <1>3, <1>4, <1>5, <1>6, <1>7, <1>8, <1>9 DEF Next, Handler, Worker, Reconciler

\* What a step may do to the hold of u.
HoldMoves(u) ==
  \/ hold'[u] = hold[u]
  \/ u \in charged' /\ hold'[u] = "used"
  \/ hold[u] = "stale" /\ hold'[u] = "gone" /\ Cleanup
  \/ hold[u] = "open" /\ hold'[u] = "stale"

LEMMA HowHoldsMove ==
  ASSUME OutboxInv, [Next]_vars, NEW u \in Usages
  PROVE  HoldMoves(u)
<1>t. hold \in [Usages -> Holds] BY DEF OutboxInv, TypeOK
<1>1. ASSUME Cleanup PROVE hold'[u] = hold[u] \/ (hold[u] = "stale" /\ hold'[u] = "gone")
  BY <1>1, <1>t DEF Cleanup
<1>2. ASSUME NEW w \in Usages, HoldLapses(w)
      PROVE  hold'[u] = hold[u] \/ (hold[u] = "open" /\ hold'[u] = "stale")
  BY <1>2, <1>t DEF HoldLapses
<1> QED BY <1>1, <1>2, HoldWriters DEF HoldMoves

\* Every step keeps what is known of holds.
LEMMA HoldsStep ==
  ASSUME OutboxInv, [Next]_vars, \A u \in Usages: HoldTells(u), NEW u \in Usages
  PROVE  HoldTells(u)'
<1>t. TypeOK /\ hold \in [Usages -> Holds] BY DEF OutboxInv, TypeOK
<1>g. charged \subseteq charged' BY <1>t, ChargesGrow
<1>h. HoldMoves(u)
  BY HowHoldsMove
<1>1. hold'[u] = "used" => u \in charged'
  BY <1>g, <1>h DEF HoldTells, HoldMoves
<1>2. hold'[u] = "foreign" => u \in Foreign
  BY <1>h DEF HoldTells, HoldMoves
<1>3. ASSUME At(u, "settle")', rec'.keyed PROVE hold'[u] \in {"open", "stale", "used"}
  <2>1. CASE rec' = rec /\ ~Cleanup
    BY <1>h, <1>3, <2>1 DEF At, HoldTells, HoldMoves
  <2>2. ASSUME NEW w \in Usages, ReconcileRow(w), UNCHANGED hold, IsFirst(w, rec.ids),
               rec'.ids = rec.ids, rec'.keyed = EffectivelyKeyed(w), hold[w] # "foreign"
        PROVE  hold'[u] \in {"open", "stale", "used"}
    <3>1. rec.ids \in SUBSET Usages BY <1>t DEF TypeOK, RecStates
    <3>2. u = w BY <1>3, <2>2, <3>1, OneFirst DEF At
    <3> QED BY <1>3, <1>t, <2>2, <3>2 DEF EffectivelyKeyed, Holds
  <2>3. rec'.step = "settle" BY <1>3 DEF At
  <2> QED BY <1>t, <2>1, <2>2, <2>3, ComesToSettle
<1>4. box'[u].status = "absent" => box'[u].attempts = 0
  BY RowsStay DEF HoldTells
<1> QED BY <1>1, <1>2, <1>3, <1>4 DEF HoldTells
\* Counting usages.
LEMMA Counts ==
  ASSUME NEW T \in SUBSET Usages, NEW S \in SUBSET T
  PROVE  /\ Cardinality(S) \in Nat /\ Cardinality(T) \in Nat
         /\ Cardinality(S) <= Cardinality(T)
         /\ \A w \in T \ S: Cardinality(S) + 1 <= Cardinality(T)
<1>1. IsFiniteSet(T) /\ IsFiniteSet(S)
  BY UsagesAssumption, FS_Subset
<1>2. Cardinality(S) \in Nat /\ Cardinality(T) \in Nat /\ Cardinality(S) <= Cardinality(T)
  BY <1>1, FS_Subset, FS_CardinalityType
<1>3. ASSUME NEW w \in T \ S PROVE Cardinality(S) + 1 <= Cardinality(T)
  <2>1. IsFiniteSet(S \cup {w}) /\ Cardinality(S \cup {w}) = Cardinality(S) + 1
    BY <1>1, FS_AddElement
  <2>2. S \cup {w} \subseteq T
    OBVIOUS
  <2> QED BY <1>1, <2>1, <2>2, FS_Subset
<1> QED BY <1>2, <1>3

\* The reconciler's pass counts no usage twice.
LEMMA PassStep ==
  ASSUME OutboxInv, [Next]_vars, PassFits, \A u \in Usages: HoldTells(u)
  PROVE  PassFits'
<1>t. /\ TypeOK /\ rec \in RecStates /\ rec.ids \in SUBSET Usages /\ rec.repaired \in Nat
      /\ rec.step \in RecSteps
  BY DEF OutboxInv, TypeOK, RecStates
<1>h. HasRow \in SUBSET Usages /\ HasRow' \in SUBSET Usages /\ HasRow \subseteq HasRow'
  BY RowsStay DEF HasRow, HoldTells
<1>0. CASE rec' = rec
  <2>1. HasRow \ rec.ids \in SUBSET (HasRow' \ rec.ids)
    BY <1>h
  <2>2. /\ Cardinality(HasRow \ rec.ids) <= Cardinality(HasRow' \ rec.ids)
        /\ Cardinality(HasRow \ rec.ids) \in Nat /\ Cardinality(HasRow' \ rec.ids) \in Nat
    BY <1>h, <2>1, Counts
  <2> QED BY <1>0, <1>h, <1>t, <2>2 DEF PassFits
<1>1. ASSUME rec' = Asleep \/ \E n: rec' = PassOver(n) PROVE PassFits'
  <2>1. rec'.step \in {"sleep", "select"} /\ rec'.ids = {} /\ rec'.repaired = 0
    BY <1>1 DEF Asleep, PassOver
  <2> QED BY <2>1 DEF PassFits, Batch
<1>2. CASE Cleanup
  <2>1. rec.step = "sleep" /\ rec'.step = "select" /\ rec'.ids = rec.ids /\ rec'.repaired = rec.repaired
    BY <1>2, <1>t DEF Cleanup, RecStates
  <2> QED BY <2>1 DEF PassFits, Batch
<1>3. CASE SelectPending
  <2>1. CASE rec' = [Asleep EXCEPT !.step = "row", !.ids = Lowest(Limit, Pending)]
    <3>1. rec'.step = "row" /\ rec'.ids \subseteq Pending /\ rec'.repaired = 0
      BY <2>1 DEF Asleep, Lowest
    <3>2. Pending \subseteq HasRow /\ HasRow' = HasRow
      BY <1>3 DEF Pending, HasRow, SelectPending, dbVars
    <3>3. Cardinality(HasRow' \ rec'.ids) \in Nat
      BY <1>h, <3>1, <3>2, Counts
    <3> QED BY <3>1, <3>2, <3>3 DEF PassFits, Batch
  <2> QED BY <1>1, <1>3, <2>1 DEF SelectPending
<1>4. ASSUME NEW w \in Usages, ReconcileRow(w) PROVE PassFits'
  <2>1. CASE \/ rec' = [rec EXCEPT !.step = "settle", !.keyed = EffectivelyKeyed(w)]
             \/ rec' = [rec EXCEPT !.step = "failed"]
    <3>1. rec.step = "row" /\ rec'.step \in Batch /\ rec'.ids = rec.ids /\ rec'.repaired = rec.repaired
      BY <1>4, <1>t, <2>1 DEF ReconcileRow, RecStates, Batch
    <3>2. HasRow' = HasRow
      BY <1>4 DEF ReconcileRow, HasRow, dbVars
    <3> QED BY <3>1, <3>2 DEF PassFits, Batch
  <2> QED BY <1>1, <1>4, <2>1 DEF ReconcileRow
<1>5. ASSUME NEW w \in Usages, ReconcileSettle(w) PROVE PassFits'
  <2>1. rec.step = "settle" /\ rec'.step \in Batch /\ rec'.ids = rec.ids /\ rec'.repaired = rec.repaired
    BY <1>5, <1>t DEF ReconcileSettle, RecStates, Batch
  <2>2. HasRow' = HasRow
    BY <1>5 DEF ReconcileSettle, HasRow
  <2> QED BY <2>1, <2>2 DEF PassFits, Batch
<1>6. ASSUME NEW w \in Usages, ReconcileMark(w) PROVE PassFits'
  <2>1. CASE \E n \in {0, 1}: rec' = [rec EXCEPT !.step = "row", !.ids = @ \ {w}, !.repaired = @ + n]
    <3>1. /\ rec'.step = "row" /\ rec'.ids = rec.ids \ {w}
          /\ rec'.repaired \in Nat /\ rec'.repaired <= rec.repaired + 1
      BY <1>t, <2>1 DEF RecStates
    <3>2. w \in rec.ids /\ rec.step \in Batch
      BY <1>6 DEF ReconcileMark, IsFirst, Batch
    <3>3. rec.ids \subseteq HasRow /\ rec.repaired <= Cardinality(HasRow \ rec.ids)
      BY <3>2 DEF PassFits
    <3>4. HasRow \ rec.ids \in SUBSET (HasRow' \ rec'.ids) /\ w \in (HasRow' \ rec'.ids) \ (HasRow \ rec.ids)
      BY <1>h, <3>1, <3>2, <3>3
    <3>5. /\ Cardinality(HasRow \ rec.ids) + 1 <= Cardinality(HasRow' \ rec'.ids)
          /\ Cardinality(HasRow \ rec.ids) \in Nat /\ Cardinality(HasRow' \ rec'.ids) \in Nat
      BY <1>h, <3>4, Counts
    <3>6. rec'.repaired <= Cardinality(HasRow' \ rec'.ids)
      BY <1>t, <3>1, <3>3, <3>5
    <3>7. rec'.ids \subseteq HasRow'
      BY <1>h, <3>1, <3>3
    <3> QED BY <3>1, <3>6, <3>7 DEF PassFits, Batch
  <2> QED BY <1>1, <1>6, <2>1 DEF ReconcileMark
<1>7. CASE SelectGaps
  <2>1. CASE rec' = [rec EXCEPT !.step = "repair", !.ids = Lowest(Limit - rec.repaired, Gaps)]
    <3>1. rec'.step = "repair" /\ rec'.ids \subseteq Gaps /\ rec'.repaired = rec.repaired
      BY <1>t, <2>1 DEF RecStates, Lowest
    <3>2. rec.step = "row" /\ rec.ids = {}
      BY <1>7 DEF SelectGaps
    <3>3. rec.repaired <= Cardinality(HasRow)
      <4>1. HasRow \ rec.ids = HasRow BY <3>2
      <4> QED BY <3>2, <4>1 DEF PassFits, Batch
    <3>4. HasRow \in SUBSET (Usages \ rec'.ids)
      BY <1>h, <3>1 DEF Gaps, HasRow
    <3>5. /\ Cardinality(HasRow) <= Cardinality(Usages \ rec'.ids)
          /\ Cardinality(HasRow) \in Nat /\ Cardinality(Usages \ rec'.ids) \in Nat
      BY <3>4, Counts
    <3> QED BY <1>t, <3>1, <3>3, <3>5 DEF PassFits, Batch
  <2> QED BY <1>1, <1>7, <2>1 DEF SelectGaps
<1>8. ASSUME NEW w \in Usages, RepairGap(w) PROVE PassFits'
  <2>1. CASE rec' # Asleep
    <3>1. rec.step = "repair" /\ w \in rec.ids
      BY <1>8 DEF RepairGap, IsFirst
    <3>2. \/ rec' = [rec EXCEPT !.ids = @ \ {w}, !.repaired = @ + 1]
          \/ rec' = [rec EXCEPT !.ids = @ \ {w}]
      BY <1>8, <2>1 DEF RepairGap
    <3>3. /\ rec'.step = "repair" /\ rec'.ids = rec.ids \ {w}
          /\ rec'.repaired \in Nat /\ rec'.repaired <= rec.repaired + 1
      <4>1. CASE rec' = [rec EXCEPT !.ids = @ \ {w}, !.repaired = @ + 1]
        <5>1. rec'.step = rec.step /\ rec'.ids = rec.ids \ {w} /\ rec'.repaired = rec.repaired + 1
          BY <1>t, <4>1 DEF RecStates
        <5> QED BY <1>t, <3>1, <5>1
      <4>2. CASE rec' = [rec EXCEPT !.ids = @ \ {w}]
        BY <1>t, <3>1, <4>2 DEF RecStates
      <4> QED BY <3>2, <4>1, <4>2
    <3>4. Usages \ rec.ids \in SUBSET (Usages \ rec'.ids) /\ w \in (Usages \ rec'.ids) \ (Usages \ rec.ids)
      BY <3>1, <3>3
    <3>5. /\ Cardinality(Usages \ rec.ids) + 1 <= Cardinality(Usages \ rec'.ids)
          /\ Cardinality(Usages \ rec.ids) \in Nat /\ Cardinality(Usages \ rec'.ids) \in Nat
      BY <3>4, Counts
    <3>6. rec.repaired <= Cardinality(Usages \ rec.ids)
      BY <3>1 DEF PassFits
    <3> QED BY <1>t, <3>3, <3>5, <3>6 DEF PassFits, Batch
  <2> QED BY <1>1, <2>1
<1>9. CASE EndPass \/ Shutdown \/ Restart
  BY <1>1, <1>9 DEF EndPass, Shutdown, Restart
<1>10. ASSUME NEW w \in Usages,
             \/ RecordUsage(w) \/ PersistOutbox(w) \/ SendJob(w) \/ SettleDirectly(w)
             \/ StartWorker(w) \/ WorkerSettles(w) \/ WorkerAcknowledges(w)
             \/ Ripen(w) \/ BackOffEnds(w) \/ HoldLapses(w) \/ Collect(w)
      PROVE  rec' = rec
  BY <1>10 DEF RecordUsage, PersistOutbox, SendJob, SettleDirectly, StartWorker, WorkerSettles,
              WorkerAcknowledges, Ripen, BackOffEnds, HoldLapses, Collect, taskVars
<1>11. ReceiveJob \/ UNCHANGED vars => rec' = rec BY DEF ReceiveJob, vars
<1> QED BY <1>0, <1>2, <1>3, <1>4, <1>5, <1>6, <1>7, <1>8, <1>9, <1>10, <1>11
        DEF Next, Handler, Worker, Reconciler
\* The attempts a row counts.
LEMMA RowAttempts ==
  ASSUME TypeOK, NEW w \in Usages, NEW u \in Usages, box[u].status = "absent" => box[u].attempts = 0
  PROVE  /\ Persisted(w)[u].attempts = box[u].attempts
         /\ MarkedCompleted(w)[u].attempts = box[u].attempts
         /\ MarkedFailed(w)[u].attempts <= box[u].attempts + 1
         /\ u # w => MarkedFailed(w)[u].attempts = box[u].attempts
<1>1. box \in [Usages -> Rows] /\ box[u].attempts \in Nat BY DEF TypeOK, Rows
<1>2. Persisted(w)[u].attempts = box[u].attempts
  BY <1>1 DEF Persisted, NewRow
<1>3. MarkedCompleted(w)[u].attempts = box[u].attempts
  BY <1>1 DEF MarkedCompleted, Rows
<1>4. MarkedFailed(w)[u].attempts <= box[u].attempts + 1
  BY <1>1 DEF MarkedFailed
<1>5. u # w => MarkedFailed(w)[u].attempts = box[u].attempts
  BY <1>1 DEF MarkedFailed
<1> QED BY <1>2, <1>3, <1>4, <1>5

\* A hopeful usage has been one before the step.
LEMMA HopeIsOld ==
  ASSUME OutboxInv, [Next]_vars, NEW u \in Usages, u \in Hopeful'
  PROVE  u \in Hopeful /\ u \notin charged' /\ u \notin charged /\ u \notin Poison \cup Foreign
<1>1. charged \subseteq charged' BY ChargesGrow DEF OutboxInv
<1>2. log[u] = "collected" => log'[u] = "collected"
  <2>1. ASSUME NEW w \in Usages, RecordUsage(w) \/ Collect(w)
        PROVE  log[u] = "collected" => log'[u] = log[u]
    BY <2>1 DEF RecordUsage, Collect, OutboxInv, TypeOK
  <2>2. \/ log' = log \/ \E w \in Usages: RecordUsage(w) \/ Collect(w)
    BY DEF Next, Handler, Worker, Reconciler, PersistOutbox, SendJob, SettleDirectly, ReceiveJob, StartWorker,
           WorkerSettles, WorkerAcknowledges, Cleanup, SelectPending, ReconcileRow, ReconcileSettle,
           ReconcileMark, SelectGaps, RepairGap, EndPass, Ripen, BackOffEnds, HoldLapses, Shutdown,
           Restart, vars, dbVars
  <2> QED BY <2>1, <2>2
<1> QED BY <1>1, <1>2 DEF Hopeful

\* The excuse of the hold does not go while u is not newly to be tried.
LEMMA HoldExcuse ==
  ASSUME NEW u \in Usages, hold'[u] = hold[u] \/ (hold[u] = "open" /\ hold'[u] = "stale"),
         ToTry(u)' => ToTry(u)
  PROVE  HoldOver(u)' >= HoldOver(u)
BY DEF HoldOver, One

LEMMA Bits ==
  ASSUME NEW u \in Usages
  PROVE  /\ JobFailed(u) \in {0, 1} /\ JobFailed(u)' \in {0, 1}
         /\ RecFailed(u) \in {0, 1} /\ RecFailed(u)' \in {0, 1}
         /\ JobOver(u) \in {0, 1} /\ JobOver(u)' \in {0, 1}
         /\ HoldOver(u) \in {0, 1} /\ HoldOver(u)' \in {0, 1}
BY DEF JobFailed, RecFailed, JobOver, HoldOver, One

\* The request and the workers: a new failure is a fault, or the one run of
\* the queued job.
JobSide(u) ==
  box'[u].attempts + JobFailed(u)' + faults + JobOver(u)
  <= box[u].attempts + JobFailed(u) + faults' + JobOver(u)'

LEMMA JobSideStep ==
  ASSUME RetryInv, NEW u \in Usages, TypeOK', u \notin charged',
         \/ \E w \in Usages: \/ RecordUsage(w) \/ Handler(w) \/ Worker(w)
                             \/ Ripen(w) \/ BackOffEnds(w) \/ HoldLapses(w) \/ Collect(w)
         \/ ReceiveJob \/ Shutdown \/ Restart
  PROVE  JobSide(u)
<1>t. /\ OutboxInv /\ TypeOK /\ JobsRunOnce
      /\ handler \in [Usages -> HandlerSteps] /\ job \in [Usages -> JobSteps] /\ queue \in Seq(Usages)
      /\ box \in [Usages -> Rows] /\ box[u].attempts \in Nat /\ faults \in Nat
  BY LimitsAssumption DEF RetryInv, OutboxInv, TypeOK, Rows
<1>a. box[u].status = "absent" => box[u].attempts = 0
  BY DEF RetryInv, HoldTells
<1>n. box'[u].attempts \in Nat /\ faults' \in Nat
  BY LimitsAssumption DEF TypeOK, Rows
<1>1. ASSUME NEW w \in Usages, RecordUsage(w) PROVE JobSide(u)
  <2>1. u = w => handler[u] = "idle" /\ box[u] = NoRow
    BY <1>1, <1>t DEF RecordUsage, OutboxInv, NothingBeforeTheLog
  <2>2. box'[u].attempts = box[u].attempts /\ JobFailed(u)' = JobFailed(u) /\ faults' = faults
    BY <1>1, <1>t, <2>1 DEF RecordUsage, JobFailed, NoRow, NewRow
  <2>3. JobOver(u)' >= JobOver(u)
    BY <1>1, <1>t, <2>1 DEF RecordUsage, JobOver, One
  <2> QED BY <1>t, <1>n, <2>2, <2>3, Bits DEF JobSide
<1>2. ASSUME NEW w \in Usages, PersistOutbox(w) PROVE JobSide(u)
  <2>1. box'[u].attempts = box[u].attempts
    BY <1>2, <1>t, <1>a, RowAttempts DEF PersistOutbox
  <2>2. JobFailed(u)' = JobFailed(u) /\ faults' >= faults
    BY <1>2, <1>t DEF PersistOutbox, JobFailed, Fault, NoFault
  <2>3. JobOver(u)' >= JobOver(u)
    BY <1>2, <1>t DEF PersistOutbox, JobOver, One
  <2> QED BY <1>t, <1>n, <2>1, <2>2, <2>3, Bits DEF JobSide
<1>3. ASSUME NEW w \in Usages, SendJob(w) PROVE JobSide(u)
  <2>1. box' = box /\ faults' = faults
    BY <1>3 DEF SendJob, dbVars
  <2>2. JobOver(u)' >= JobOver(u) /\ JobFailed(u)' <= JobFailed(u)
    BY <1>3, <1>t DEF SendJob, JobOver, JobFailed, One
  <2> QED BY <1>t, <1>n, <2>1, <2>2, Bits DEF JobSide
<1>4. ASSUME NEW w \in Usages, SettleDirectly(w) PROVE JobSide(u)
  <2>1. box' = box /\ faults' >= faults
    BY <1>4, <1>t, SettleOutcome, Flags DEF SettleDirectly
  <2>2. JobOver(u)' >= JobOver(u) /\ JobFailed(u)' = JobFailed(u)
    BY <1>4, <1>t DEF SettleDirectly, JobOver, JobFailed, One
  <2> QED BY <1>t, <1>n, <2>1, <2>2, Bits DEF JobSide
<1>5. CASE ReceiveJob
  <2>1. box' = box /\ faults' = faults /\ handler' = handler
    BY <1>5 DEF ReceiveJob, dbVars
  <2>2. Head(queue) \in Usages /\ job[Head(queue)] = "queued"
    BY <1>5, <1>t DEF ReceiveJob, JobsRunOnce
  <2>3. JobOver(u)' >= JobOver(u) /\ JobFailed(u)' <= JobFailed(u)
    BY <1>5, <1>t, <2>1, <2>2 DEF ReceiveJob, JobOver, JobFailed, One
  <2> QED BY <1>t, <1>n, <2>1, <2>3, Bits DEF JobSide
<1>6. ASSUME NEW w \in Usages, StartWorker(w) PROVE JobSide(u)
  <2>1. box' = box /\ faults' = faults
    BY <1>6 DEF StartWorker, dbVars
  <2>2. JobOver(u)' >= JobOver(u) /\ JobFailed(u)' <= JobFailed(u)
    BY <1>6, <1>t DEF StartWorker, JobOver, JobFailed, One
  <2> QED BY <1>t, <1>n, <2>1, <2>2, Bits DEF JobSide
<1>7. ASSUME NEW w \in Usages, WorkerSettles(w) PROVE JobSide(u)
  <2>1. box' = box /\ faults' >= faults
    BY <1>7, <1>t, SettleOutcome, Flags DEF WorkerSettles
  <2>2. u # w => JobOver(u)' = JobOver(u) /\ JobFailed(u)' = JobFailed(u)
    BY <1>7, <1>t DEF WorkerSettles, JobOver, JobFailed, One
  <2>3. u = w => JobOver(u) = 0 /\ JobOver(u)' = 1
    BY <1>7, <1>t DEF WorkerSettles, JobOver, One, JobsRunOnce
  <2>4. u = w => JobFailed(u) = 0
    BY <1>7 DEF WorkerSettles, JobFailed, One
  <2> QED BY <1>t, <1>n, <2>1, <2>2, <2>3, <2>4, Bits DEF JobSide
<1>8. ASSUME NEW w \in Usages, WorkerAcknowledges(w) PROVE JobSide(u)
  <2>1. faults' >= faults /\ handler' = handler
    BY <1>8, <1>t DEF WorkerAcknowledges, Update, Fault, NoFault
  <2>2. JobOver(u)' >= JobOver(u)
    BY <1>8, <1>t DEF WorkerAcknowledges, JobOver, One
  <2>3. CASE job[w] = "completed"
    <3>1. box'[u].attempts = box[u].attempts
      BY <1>8, <1>t, <1>a, <2>3, RowAttempts DEF WorkerAcknowledges, Update
    <3>2. JobFailed(u)' <= JobFailed(u)
      BY <1>8, <1>t DEF WorkerAcknowledges, JobFailed, One
    <3> QED BY <1>t, <1>n, <2>1, <2>2, <3>1, <3>2, Bits DEF JobSide
  <2>4. CASE job[w] = "failed"
    <3>1. box' \in {box, MarkedFailed(w)}
      BY <1>8, <2>4 DEF WorkerAcknowledges, Update
    <3>2. u # w => box'[u].attempts = box[u].attempts /\ JobFailed(u)' = JobFailed(u)
      BY <1>8, <1>t, <1>a, <3>1, RowAttempts DEF WorkerAcknowledges, JobFailed
    <3>3. u = w => box'[u].attempts <= box[u].attempts + 1
      BY <1>t, <1>a, <3>1, RowAttempts
    <3>4. u = w => JobFailed(u) = 1 /\ JobFailed(u)' = 0
      BY <1>8, <1>t, <2>4 DEF WorkerAcknowledges, JobFailed, One
    <3> QED BY <1>t, <1>n, <2>1, <2>2, <3>2, <3>3, <3>4, Bits DEF JobSide
  <2> QED BY <1>8, <2>3, <2>4 DEF WorkerAcknowledges
<1>9. ASSUME NEW w \in Usages, Ripen(w) \/ BackOffEnds(w) \/ HoldLapses(w) \/ Collect(w)
      PROVE  JobSide(u)
  <2>1. faults' = faults /\ handler' = handler /\ job' = job
    BY <1>9 DEF Ripen, BackOffEnds, HoldLapses, Collect, taskVars
  <2>2. box'[u].attempts = box[u].attempts
    BY <1>9, <1>t DEF Ripen, BackOffEnds, HoldLapses, Collect, Rows
  <2>3. JobOver(u)' = JobOver(u) /\ JobFailed(u)' = JobFailed(u)
    BY <2>1 DEF JobOver, JobFailed
  <2> QED BY <1>t, <1>n, <2>1, <2>2, <2>3, Bits DEF JobSide
<1>10. CASE Shutdown \/ Restart
  <2>1. faults' = faults /\ box' = box
    BY <1>10 DEF Shutdown, Restart, dbVars
  <2>2. JobOver(u)' >= JobOver(u) /\ JobFailed(u)' = 0
    BY <1>10, <1>t DEF Shutdown, Restart, JobOver, JobFailed, One
  <2> QED BY <1>t, <1>n, <2>1, <2>2, Bits DEF JobSide
<1> QED BY <1>1, <1>2, <1>3, <1>4, <1>5, <1>6, <1>7, <1>8, <1>9, <1>10 DEF Handler, Worker
\* The reconciler: a new failure is a fault, or a hold that had lapsed.
RecSide(u) == RecFailed(u)' + HoldOver(u) <= RecFailed(u) + HoldOver(u)'
RecSideWithFaults(u) == RecFailed(u)' + faults + HoldOver(u) <= RecFailed(u) + faults' + HoldOver(u)'

\* The steps of all others leave the reconciler's part of the account alone.
LEMMA OthersRecSide ==
  ASSUME OutboxInv, [Next]_vars, NEW u \in Usages, u \notin charged',
         (rec' = rec /\ ~Cleanup) \/ Shutdown \/ Restart
  PROVE  RecSide(u)
<1>1. CASE rec' = rec /\ ~Cleanup
  <2>1. hold'[u] = hold[u] \/ (hold[u] = "open" /\ hold'[u] = "stale")
    BY <1>1, HowHoldsMove DEF HoldMoves
  <2>2. RecFailed(u)' = RecFailed(u) /\ ToTry(u)' = ToTry(u)
    BY <1>1 DEF RecFailed, ToTry, At, IsFirst
  <2>3. HoldOver(u)' >= HoldOver(u)
    BY <2>1, <2>2, HoldExcuse
  <2> QED BY <2>2, <2>3, Bits DEF RecSide
<1>2. CASE Shutdown \/ Restart
  <2>1. hold' = hold /\ rec'.step = "sleep"
    BY <1>2 DEF Shutdown, Restart, dbVars, Asleep
  <2>2. RecFailed(u)' = 0 /\ ~ToTry(u)'
    BY <2>1 DEF RecFailed, ToTry, At, One, Batch
  <2>3. HoldOver(u)' >= HoldOver(u)
    BY <2>1, <2>2, HoldExcuse
  <2> QED BY <2>2, <2>3, Bits DEF RecSide
<1> QED BY <1>1, <1>2

\* The reconciler goes to sleep: nothing is to be tried, nothing has failed.
LEMMA FallingAsleep ==
  ASSUME NEW u \in Usages, rec'.step \in {"sleep", "repair"}, hold'[u] = hold[u]
  PROVE  RecFailed(u)' = 0 /\ HoldOver(u)' >= HoldOver(u)
<1>1. RecFailed(u)' = 0 /\ ~ToTry(u)'
  BY DEF RecFailed, ToTry, At, One, Batch
<1> QED BY <1>1, HoldExcuse

\* Every step of the reconciler but the marking of a row.
LEMMA RecSideStep ==
  ASSUME RetryInv, [Next]_vars, Limit > Cardinality(Usages), NEW u \in Usages, u \in Hopeful',
         \/ Cleanup \/ SelectPending \/ SelectGaps \/ EndPass
         \/ \E w \in Usages: ReconcileRow(w) \/ ReconcileSettle(w) \/ RepairGap(w)
  PROVE  RecSideWithFaults(u)
<1>t. /\ OutboxInv /\ TypeOK /\ rec \in RecStates /\ rec.ids \in SUBSET Usages /\ rec.repaired \in Nat
      /\ rec.keyed \in BOOLEAN /\ faults \in Nat /\ hold \in [Usages -> Holds]
      /\ PassFits /\ HoldTells(u)
  BY LimitsAssumption DEF RetryInv, OutboxInv, TypeOK, RecStates
<1>u. u \in Hopeful /\ u \notin charged' /\ u \notin charged /\ u \notin Poison \cup Foreign
  BY <1>t, HopeIsOld
<1>a. Asleep.step = "sleep"
  BY DEF Asleep
<1>c. Cardinality(Usages) \in Nat /\ Limit \in Nat /\ \A S \in SUBSET Usages: Cardinality(S) < Limit /\ Cardinality(S) \in Nat
  <2>1. Cardinality(Usages) \in Nat BY UsagesAssumption, FS_CardinalityType
  <2>2. \A S \in SUBSET Usages: Cardinality(S) <= Cardinality(Usages) /\ Cardinality(S) \in Nat BY Counts
  <2> QED BY <2>1, <2>2, LimitsAssumption
<1>p. \A n \in Nat: n < Limit => PassOver(n).step = "sleep"
  BY LimitsAssumption DEF PassOver, Asleep
<1>1. CASE Cleanup
  <2>1. rec.step = "sleep" /\ rec'.step = "select" /\ rec'.ids = rec.ids
    BY <1>1, <1>t DEF Cleanup, RecStates
  <2>2. RecFailed(u)' = 0 /\ ~ToTry(u)
    BY <2>1 DEF RecFailed, ToTry, At, One, Batch
  <2>3. CASE hold' = [v \in Usages |-> IF hold[v] = "stale" THEN "gone" ELSE hold[v]] /\ NoFault
    <3>1. hold'[u] # "stale" /\ (hold'[u] = "open" => hold[u] = "open")
      BY <2>3
    <3>2. HoldOver(u)' >= HoldOver(u)
      BY <3>1 DEF HoldOver, One
    <3> QED BY <1>t, <2>2, <2>3, <3>2, Bits DEF RecSideWithFaults, NoFault
  <2>4. CASE Fault
    BY <1>t, <2>2, <2>4, Bits DEF RecSideWithFaults, Fault
  <2> QED BY <1>1, <2>3, <2>4 DEF Cleanup
<1>2. CASE SelectPending
  <2>1. rec.step = "select" /\ rec'.step \in {"row", "sleep"} /\ hold' = hold /\ faults' >= faults /\ faults' \in Nat
    <3>1. rec.step = "select" /\ hold' = hold /\ (NoFault \/ Fault)
      BY <1>2 DEF SelectPending, dbVars
    <3>2. rec' = Asleep \/ rec' = [Asleep EXCEPT !.step = "row", !.ids = Lowest(Limit, Pending)]
      BY <1>2 DEF SelectPending
    <3>3. rec'.step \in {"row", "sleep"}
      <4>1. CASE rec' = Asleep BY <1>a, <4>1
      <4>2. CASE rec' = [Asleep EXCEPT !.step = "row", !.ids = Lowest(Limit, Pending)]
        BY <4>2 DEF Asleep, Lowest
      <4> QED BY <3>2, <4>1, <4>2
    <3>4. faults' >= faults /\ faults' \in Nat
      BY <1>t, <3>1 DEF Fault, NoFault
    <3> QED BY <3>1, <3>3, <3>4
  <2>2. RecFailed(u)' = 0 /\ ToTry(u)
    BY <2>1 DEF RecFailed, ToTry, At, One
  <2>3. HoldOver(u)' >= HoldOver(u)
    BY <2>1, <2>2, HoldExcuse
  <2> QED BY <1>t, <2>1, <2>2, <2>3, Bits DEF RecSideWithFaults
<1>3. ASSUME NEW w \in Usages, ReconcileRow(w) PROVE RecSideWithFaults(u)
  <2>1. rec.step = "row" /\ IsFirst(w, rec.ids) /\ hold' = hold /\ faults' \in Nat /\ faults' >= faults
        /\ log' = log
    <3>1. rec.step = "row" /\ IsFirst(w, rec.ids) /\ UNCHANGED dbVars /\ (NoFault \/ Fault)
      BY <1>3 DEF ReconcileRow
    <3>2. faults' >= faults /\ faults' \in Nat
      BY <1>t, <3>1 DEF Fault, NoFault
    <3> QED BY <3>1, <3>2 DEF dbVars
  <2>2. CASE rec' = Asleep
    <3>1. RecFailed(u)' = 0 /\ HoldOver(u)' >= HoldOver(u)
      BY <1>a, <2>1, <2>2, FallingAsleep
    <3> QED BY <1>t, <2>1, <3>1, Bits DEF RecSideWithFaults
  <2>3. CASE rec' = [rec EXCEPT !.step = "settle", !.keyed = EffectivelyKeyed(w)]
    <3>1. rec'.step = "settle" /\ rec'.ids = rec.ids
      BY <1>t, <2>3 DEF RecStates
    <3>2. RecFailed(u)' = 0 /\ (ToTry(u)' => ToTry(u))
      BY <2>1, <3>1 DEF RecFailed, ToTry, At, One, Batch
    <3>3. HoldOver(u)' >= HoldOver(u)
      BY <2>1, <3>2, HoldExcuse
    <3> QED BY <1>t, <2>1, <3>2, <3>3, Bits DEF RecSideWithFaults
  <2>4. CASE rec' = [rec EXCEPT !.step = "failed"] /\ ~(log[w] = "logged" /\ hold[w] # "foreign")
    <3>1. rec'.step = "failed" /\ rec'.ids = rec.ids
      BY <1>t, <2>4 DEF RecStates
    <3>2. log[w] # "none"
      BY <1>3, <1>t, ActsOnRecorded
    <3>3. u # w
      BY <1>t, <1>u, <2>4, <3>2 DEF Hopeful, HoldTells, TypeOK
    <3>4. ~IsFirst(u, rec.ids)
      BY <1>t, <2>1, <3>3, OneFirst
    <3>5. RecFailed(u)' = 0 /\ (ToTry(u)' => ToTry(u))
      BY <2>1, <3>1, <3>4 DEF RecFailed, ToTry, At, One, Batch, IsFirst
    <3>6. HoldOver(u)' >= HoldOver(u)
      BY <2>1, <3>5, HoldExcuse
    <3> QED BY <1>t, <2>1, <3>5, <3>6, Bits DEF RecSideWithFaults
  <2> QED BY <1>3, <2>2, <2>3, <2>4 DEF ReconcileRow
<1>4. ASSUME NEW w \in Usages, ReconcileSettle(w) PROVE RecSideWithFaults(u)
  <2>1. PICK ok \in BOOLEAN: /\ SettleUsage(w, rec.keyed, ok)
                             /\ rec' = [rec EXCEPT !.step = IF ok THEN "completed" ELSE "failed"]
    BY <1>4 DEF ReconcileSettle
  <2>2. /\ rec.step = "settle" /\ IsFirst(w, rec.ids) /\ rec'.ids = rec.ids
        /\ rec'.step = IF ok THEN "completed" ELSE "failed"
    BY <1>4, <1>t, <2>1 DEF ReconcileSettle, RecStates
  <2>3. /\ faults' \in Nat /\ faults' >= faults /\ hold'[u] = hold[u]
        /\ ok => w \in charged'
        /\ ~ok => \/ w \in charged' \/ faults' = faults + 1
                  \/ w \in Poison \/ (rec.keyed /\ w \notin charged /\ hold[w] # "open")
    BY <1>t, <1>u, <2>1, SettleOutcome
  <2>4. ToTry(u)' => ToTry(u)
    BY <2>2 DEF ToTry, At, Batch
  <2>5. HoldOver(u)' >= HoldOver(u)
    BY <2>3, <2>4, HoldExcuse
  <2>6. CASE u # w
    <3>1. ~IsFirst(u, rec.ids)
      BY <1>t, <2>2, <2>6, OneFirst
    <3>2. RecFailed(u)' = 0
      BY <2>2, <3>1 DEF RecFailed, At, One, IsFirst
    <3> QED BY <1>t, <2>3, <2>5, <3>2, Bits DEF RecSideWithFaults
  <2>7. CASE u = w /\ faults' = faults + 1
    BY <1>t, <2>3, <2>5, <2>7, Bits DEF RecSideWithFaults
  <2>8. CASE u = w /\ ~(faults' = faults + 1)
    <3>1. rec.keyed /\ hold[u] # "open" /\ ~ok
      BY <1>u, <2>3, <2>8
    <3>2. hold[u] = "stale"
      BY <1>t, <1>u, <2>2, <2>8, <3>1 DEF HoldTells, At
    <3>3. ToTry(u) /\ ~ToTry(u)'
      BY <2>2, <2>8, <3>1 DEF ToTry, At, Batch, IsFirst
    <3>4. HoldOver(u) = 0 /\ HoldOver(u)' = 1
      BY <2>3, <3>2, <3>3 DEF HoldOver, One
    <3> QED BY <1>t, <2>3, <3>4, Bits DEF RecSideWithFaults
  <2> QED BY <2>6, <2>7, <2>8
<1>5. CASE SelectGaps
  <2>1. rec.step = "row" /\ rec.ids = {} /\ hold' = hold /\ faults' \in Nat /\ faults' >= faults
    BY <1>5, <1>t DEF SelectGaps, dbVars, Fault, NoFault
  <2>2. rec.repaired < Limit
    <3>1. rec.repaired <= Cardinality(HasRow \ rec.ids)
      BY <1>t, <2>1 DEF PassFits, Batch
    <3>2. HasRow \ rec.ids \in SUBSET Usages
      BY DEF HasRow
    <3> QED BY <1>c, <1>t, <3>1, <3>2
  <2>3. rec' = Asleep \/ rec' = [rec EXCEPT !.step = "repair", !.ids = Lowest(Limit - rec.repaired, Gaps)]
    BY <1>5, <1>c, <1>t, <2>2 DEF SelectGaps
  <2>4. rec'.step \in {"sleep", "repair"}
    BY <1>a, <1>t, <2>3 DEF RecStates
  <2> QED BY <1>t, <2>1, <2>4, FallingAsleep, Bits DEF RecSideWithFaults
<1>6. ASSUME NEW w \in Usages, RepairGap(w) PROVE RecSideWithFaults(u)
  <2>1. rec'.step \in {"sleep", "repair"}
    BY <1>6, <1>a, <1>t DEF RepairGap, RecStates
  <2>2. (\E ok \in BOOLEAN: SettleUsage(w, FALSE, ok)) \/ (NoFault /\ hold' = hold)
    BY <1>6 DEF RepairGap
  <2>3. hold'[u] = hold[u] /\ faults' \in Nat /\ faults' >= faults
    <3>1. CASE NoFault /\ hold' = hold BY <1>t, <3>1 DEF NoFault
    <3>2. ASSUME NEW ok \in BOOLEAN, SettleUsage(w, FALSE, ok)
          PROVE  hold'[u] = hold[u] /\ faults' \in Nat /\ faults' >= faults
      BY <1>t, <1>u, <3>2, SettleOutcome
    <3> QED BY <2>2, <3>1, <3>2
  <2> QED BY <1>t, <2>1, <2>3, FallingAsleep, Bits DEF RecSideWithFaults
<1>7. CASE EndPass
  <2>1. rec.step = "repair" /\ rec' = PassOver(rec.repaired) /\ hold' = hold /\ faults' = faults
    BY <1>7 DEF EndPass, dbVars
  <2>2. rec.repaired < Limit
    <3>1. rec.repaired <= Cardinality(Usages \ rec.ids)
      BY <1>t, <2>1 DEF PassFits
    <3> QED BY <1>c, <1>t, <3>1
  <2>3. rec'.step = "sleep"
    BY <1>p, <1>t, <2>1, <2>2
  <2> QED BY <1>t, <2>1, <2>3, FallingAsleep, Bits DEF RecSideWithFaults
<1> QED BY <1>1, <1>2, <1>3, <1>4, <1>5, <1>6, <1>7

\* The marking of a row moves a failed attempt from the reconciler to the row.
LEMMA MarkBudget ==
  ASSUME RetryInv, NEW u \in Usages, u \in Hopeful, TypeOK', NEW w \in Usages, ReconcileMark(w)
  PROVE  box'[u].attempts + RecFailed(u)' + faults + HoldOver(u)
         <= box[u].attempts + RecFailed(u) + faults' + HoldOver(u)'
<1>t. /\ OutboxInv /\ TypeOK /\ rec \in RecStates /\ rec.ids \in SUBSET Usages /\ faults \in Nat
      /\ box[u].attempts \in Nat
  BY LimitsAssumption DEF RetryInv, OutboxInv, TypeOK, RecStates, Rows
<1>a. box[u].status = "absent" => box[u].attempts = 0
  BY DEF RetryInv, HoldTells
<1>n. box'[u].attempts \in Nat /\ faults' \in Nat /\ faults' >= faults
  BY <1>t, LimitsAssumption DEF TypeOK, Rows, ReconcileMark, Fault, NoFault
<1>1. IsFirst(w, rec.ids) /\ rec.step \in {"completed", "failed"} /\ hold' = hold
  BY DEF ReconcileMark
<1>2. \/ rec'.step = "sleep"
      \/ rec'.step = "row" /\ rec'.ids = rec.ids \ {w}
  <2>1. CASE rec' = Asleep BY <2>1 DEF Asleep
  <2>2. CASE \E n \in {0, 1}: rec' = [rec EXCEPT !.step = "row", !.ids = @ \ {w}, !.repaired = @ + n]
    BY <1>t, <2>2 DEF RecStates
  <2> QED BY <2>1, <2>2 DEF ReconcileMark
<1>3. u # w => ~IsFirst(u, rec.ids)
  BY <1>t, <1>1, OneFirst
<1>4. RecFailed(u)' = 0
  BY <1>2 DEF RecFailed, At, One
<1>5. ToTry(u)' => ToTry(u)
  BY <1>1, <1>2, <1>3 DEF ToTry, At, Batch
<1>6. HoldOver(u)' >= HoldOver(u)
  BY <1>1, <1>5, HoldExcuse
<1>7. CASE rec.step = "completed"
  <2>1. box' \in {box, MarkedCompleted(w)}
    BY <1>7 DEF ReconcileMark
  <2>2. box'[u].attempts = box[u].attempts
    BY <1>t, <1>a, <2>1, RowAttempts
  <2> QED BY <1>t, <1>n, <1>4, <1>6, <2>2, Bits
<1>8. CASE rec.step = "failed"
  <2>1. box' \in {box, MarkedFailed(w)}
    BY <1>8 DEF ReconcileMark
  <2>2. u # w => box'[u].attempts = box[u].attempts
    BY <1>t, <1>a, <2>1, RowAttempts
  <2>3. u = w => box'[u].attempts <= box[u].attempts + 1
    BY <1>t, <1>a, <2>1, RowAttempts
  <2>4. u = w => RecFailed(u) = 1
    BY <1>1, <1>8 DEF RecFailed, At, One
  <2> QED BY <1>t, <1>n, <1>4, <1>6, <2>2, <2>3, <2>4, Bits
<1> QED BY <1>1, <1>7, <1>8

\* No step spends an attempt without an excuse.
LEMMA BudgetStep ==
  ASSUME RetryInv, [Next]_vars, TypeOK', Limit > Cardinality(Usages), NEW u \in Usages, u \in Hopeful'
  PROVE  Spent(u)' <= Excuses(u)'
<1>t. /\ OutboxInv /\ TypeOK /\ faults \in Nat /\ faults' \in Nat
      /\ box[u].attempts \in Nat /\ box'[u].attempts \in Nat
  BY LimitsAssumption DEF RetryInv, OutboxInv, TypeOK, Rows
<1>u. u \in Hopeful /\ u \notin charged'
  BY <1>t, HopeIsOld
<1>b. Spent(u) <= Excuses(u)
  BY <1>u DEF RetryInv, Budget
<1>s. RecSide(u) /\ JobSide(u) => Spent(u)' <= Excuses(u)'
  BY <1>t, <1>b, Bits DEF RecSide, JobSide, Spent, Excuses
<1>1. ASSUME \/ \E w \in Usages: \/ RecordUsage(w) \/ Handler(w) \/ Worker(w)
                                 \/ Ripen(w) \/ BackOffEnds(w) \/ HoldLapses(w) \/ Collect(w)
             \/ ReceiveJob \/ Shutdown \/ Restart
      PROVE  Spent(u)' <= Excuses(u)'
  <2>1. JobSide(u)
    BY <1>1, <1>u, JobSideStep
  <2>2. (rec' = rec /\ ~Cleanup) \/ Shutdown \/ Restart
    <3>1. rec' = rec \/ Shutdown \/ Restart
      BY <1>1
         DEF RecordUsage, Handler, PersistOutbox, SendJob, SettleDirectly, Worker, StartWorker,
                  WorkerSettles, WorkerAcknowledges, Ripen, BackOffEnds, HoldLapses, Collect,
                  ReceiveJob, taskVars
    <3>2. Cleanup => rec' # rec
      BY <1>t DEF Cleanup, TypeOK, RecStates
    <3> QED BY <3>1, <3>2
  <2>3. RecSide(u)
    BY <1>t, <1>u, <2>2, OthersRecSide
  <2> QED BY <1>s, <2>1, <2>3
<1>2. ASSUME \/ Cleanup \/ SelectPending \/ SelectGaps \/ EndPass
             \/ \E w \in Usages: ReconcileRow(w) \/ ReconcileSettle(w) \/ RepairGap(w)
      PROVE  Spent(u)' <= Excuses(u)'
  <2>1. RecSideWithFaults(u)
    BY <1>2, RecSideStep
  <2>2. box' = box /\ handler' = handler /\ job' = job
    BY <1>2
       DEF Cleanup, SelectPending, SelectGaps, EndPass, ReconcileRow, ReconcileSettle, RepairGap, dbVars
  <2>3. JobFailed(u)' = JobFailed(u) /\ JobOver(u)' = JobOver(u)
    BY <2>2 DEF JobFailed, JobOver
  <2> QED BY <1>t, <1>b, <2>1, <2>2, <2>3, Bits DEF RecSideWithFaults, Spent, Excuses
<1>3. ASSUME NEW w \in Usages, ReconcileMark(w) PROVE Spent(u)' <= Excuses(u)'
  <2>1. box'[u].attempts + RecFailed(u)' + faults + HoldOver(u)
        <= box[u].attempts + RecFailed(u) + faults' + HoldOver(u)'
    BY <1>3, <1>u, MarkBudget
  <2>2. handler' = handler /\ job' = job
    BY <1>3 DEF ReconcileMark
  <2>3. JobFailed(u)' = JobFailed(u) /\ JobOver(u)' = JobOver(u)
    BY <2>2 DEF JobFailed, JobOver
  <2> QED BY <1>t, <1>b, <2>1, <2>3, Bits DEF Spent, Excuses
<1>4. CASE UNCHANGED vars
  <2>1. rec' = rec /\ ~Cleanup
    BY <1>4, <1>t DEF vars, Cleanup, TypeOK, RecStates
  <2>2. RecSide(u) BY <1>t, <1>u, <2>1, OthersRecSide
  <2>3. JobSide(u) BY <1>4, <1>t, Bits DEF vars, JobSide, JobFailed, JobOver
  <2> QED BY <1>s, <2>2, <2>3
<1> QED BY <1>1, <1>2, <1>3, <1>4 DEF Next, Reconciler

\* The account holds in every execution in which a pass has room for every usage.
THEOREM RetriesAreAccountedFor ==
  ASSUME Limit > Cardinality(Usages)
  PROVE  Spec => []RetryInv
<1>1. Init /\ OutboxInv => RetryInv
  <2> SUFFICES ASSUME Init, OutboxInv PROVE RetryInv
    OBVIOUS
  <2>1. JobsRunOnce
    BY DEF Init, JobsRunOnce
  <2>2. \A u \in Usages: HoldTells(u)
    BY KindsAssumption DEF Init, HoldTells, At, Asleep, NoRow
  <2>3. PassFits
    BY DEF Init, PassFits, Asleep, Batch
  <2>4. ASSUME NEW u \in Usages PROVE Spent(u) <= Excuses(u)
    <3>1. box[u].attempts = 0 /\ JobFailed(u) = 0 /\ RecFailed(u) = 0 /\ faults = 0
      BY <2>4 DEF Init, JobFailed, RecFailed, At, Asleep, One, NoRow
    <3> QED BY <2>4, <3>1, Bits DEF Spent, Excuses
  <2> QED BY <2>1, <2>2, <2>3, <2>4 DEF RetryInv, Budget, Hopeful
<1>2. RetryInv /\ [Next]_vars /\ OutboxInv' => RetryInv'
  <2> SUFFICES ASSUME RetryInv, [Next]_vars, OutboxInv' PROVE RetryInv'
    OBVIOUS
  <2>1. JobsRunOnce' BY JobsStep DEF RetryInv
  <2>2. \A u \in Usages: HoldTells(u)' BY HoldsStep DEF RetryInv
  <2>3. PassFits' BY PassStep DEF RetryInv
  <2>4. \A u \in Usages: u \in Hopeful' => Spent(u)' <= Excuses(u)'
    BY BudgetStep DEF OutboxInv
  <2>5. Budget' BY <2>4 DEF Budget, Hopeful
  <2> QED BY <2>1, <2>2, <2>3, <2>5 DEF RetryInv
<1> QED BY <1>1, <1>2, OutboxInvariant, PTL DEF Spec

\* A dead letter that still owes its charge could never be settled, as long as
\* fewer calls fail than a row has attempts to spare: reconcile_missing drops the
\* key of a hold that is gone before the attempts of the row are used up.
THEOREM DeadLettersAreHopeless ==
  ASSUME Limit > Cardinality(Usages), MaxAttempts > MaxFaults + 2
  PROVE  Spec => []OnlyHopelessDie
<1>1. RetryInv => OnlyHopelessDie
  <2> SUFFICES ASSUME RetryInv, NEW u \in Usages, box[u].status = "failed", u \notin charged,
                      log[u] = "logged", u \notin Poison \cup Foreign
               PROVE  FALSE
    BY DEF OnlyHopelessDie
  <2>1. /\ box[u].attempts \in Nat /\ faults \in Nat /\ faults <= MaxFaults /\ MaxFaults \in Nat
        /\ MaxAttempts \in Nat
    BY LimitsAssumption DEF RetryInv, OutboxInv, TypeOK, Rows
  <2>2. Spent(u) <= Excuses(u)
    BY DEF RetryInv, Budget, Hopeful
  <2>3. box[u].attempts <= MaxFaults + 2
    BY <2>1, <2>2, Bits DEF Spent, Excuses
  <2>4. box[u].attempts >= MaxAttempts
    BY DEF RetryInv, OutboxInv, RowsFollowLogs
  <2> QED BY <2>1, <2>3, <2>4
<1> QED BY <1>1, RetriesAreAccountedFor, PTL
=============================================================================

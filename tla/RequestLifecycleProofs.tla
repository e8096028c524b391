------------------------ MODULE RequestLifecycleProofs ------------------------
(***************************************************************************)
(* Proofs about RequestLifecycle, for any number of requests, any limit    *)
(* and any timeouts.                                                       *)
(***************************************************************************)
EXTENDS RequestLifecycle, FiniteSetTheorems, TLAPS

\* Leases last for some time.
LEMMA TTLIsPositive == LeaseTTL \in Nat /\ LeaseTTL > 0
BY TimesAssumption DEF LeaseTTL

\* The initial state satisfies the invariant.
LEMMA LifecycleInit == Init => LifecycleInv
<1> SUFFICES ASSUME Init PROVE LifecycleInv
  OBVIOUS
<1>1. TypeOK
  BY TimesAssumption DEF Init, TypeOK, Steps, Expiries, None
<1>2. ASSUME NEW r \in Requests PROVE Stage(r)
  BY <1>2 DEF Init, Stage, Running, Unaccepted
<1>3. Live = {}
  BY DEF Init, Live, None
<1>4. LeasesWithinLimit
  BY <1>3, FS_EmptySet, TimesAssumption DEF LeasesWithinLimit
<1> QED BY <1>1, <1>2, <1>4 DEF LifecycleInv

\* Every step keeps the types.
LEMMA LifecycleTypes == LifecycleInv /\ [Next]_vars => TypeOK'
<1> SUFFICES ASSUME LifecycleInv, [Next]_vars PROVE TypeOK'
  OBVIOUS
<1>t. TypeOK
  BY DEF LifecycleInv
<1>1. ASSUME NEW r \in Requests, Reserve(r) PROVE TypeOK'
  BY <1>t, <1>1
     DEF Reserve, TypeOK, Steps, Goto, dbVars, Expiries, Admitting, Running, Failing, Recording
<1>2. ASSUME NEW r \in Requests, GrantLease(r) PROVE TypeOK'
  BY <1>t, <1>2, TTLIsPositive
     DEF GrantLease, TypeOK, Steps, Goto, Swept, Expiries, None, Admitting, Running, Failing, Recording
<1>3. ASSUME NEW r \in Requests, DenyLease(r) PROVE TypeOK'
  <2>1. lease' \in [Requests -> Expiries]
    <3>1. now + LeaseTTL \in Expiries /\ Swept \in [Requests -> Expiries]
      BY <1>t, TTLIsPositive DEF Swept, TypeOK, Expiries, None
    <3> QED BY <1>t, <1>3, <3>1 DEF DenyLease, TypeOK
  <2>2. faults' \in 0..MaxFaults
    BY <1>t, <1>3, TimesAssumption DEF DenyLease, TypeOK, Fault, NoFault
  <2> QED BY <1>t, <1>3, <2>1, <2>2 DEF DenyLease, TypeOK, Steps, Goto, Tell
<1>4. ASSUME NEW r \in Requests, ArmGuard(r) PROVE TypeOK'
  BY <1>t, <1>4
     DEF ArmGuard, TypeOK, Steps, Goto, dbVars, Expiries, Admitting, Running, Failing, Recording
<1>5. ASSUME NEW r \in Requests, GrantHold(r) PROVE TypeOK'
  BY <1>t, <1>5, TTLIsPositive
     DEF GrantHold, TypeOK, Steps, Goto, OpenHold, Expiries, Admitting, Running, Failing, Recording
<1>6. ASSUME NEW r \in Requests, DenyHold(r) PROVE TypeOK'
  BY <1>t, <1>6, TTLIsPositive, TimesAssumption
     DEF DenyHold, TypeOK, Steps, Fault, NoFault, FailAdmission, OpenHold, Abandon, Goto, Tell, Expiries, Admitting, Running, Failing, Recording
<1>7. ASSUME NEW r \in Requests, MarkPending(r) PROVE TypeOK'
  BY <1>t, <1>7, TimesAssumption
     DEF MarkPending, TypeOK, Steps, Goto, Fault, NoFault, FailAdmission, Abandon, Tell, Expiries, Admitting, Running, Failing, Recording
<1>8. ASSUME NEW r \in Requests, PipelineFails(r) PROVE TypeOK'
  BY <1>t, <1>8
     DEF PipelineFails, TypeOK, Steps, Goto, dbVars, Expiries, Admitting, Running, Failing, Recording
<1>9. ASSUME NEW r \in Requests, PipelineResponds(r) PROVE TypeOK'
  BY <1>t, <1>9
     DEF PipelineResponds, TypeOK, Steps, Goto, dbVars, Expiries, Admitting, Running, Failing, Recording
<1>10. ASSUME NEW r \in Requests, StreamCompletes(r) PROVE TypeOK'
  BY <1>t, <1>10
     DEF StreamCompletes, TypeOK, Steps, Goto, Tell, dbVars, Expiries, Admitting, Running, Failing, Recording
<1>11. ASSUME NEW r \in Requests, StreamBreaks(r) PROVE TypeOK'
  BY <1>t, <1>11
     DEF StreamBreaks, TypeOK, Steps, Goto, Tell, dbVars, Expiries, Admitting, Running, Failing, Recording
<1>12. ASSUME NEW r \in Requests, AggregationFails(r) PROVE TypeOK'
  BY <1>t, <1>12, TimesAssumption
     DEF AggregationFails, TypeOK, Steps, Fault, FailAdmission, dbVars, Abandon, Goto, Tell, Expiries, Admitting, Running, Failing, Recording
<1>13. ASSUME NEW r \in Requests, FailLease(r) PROVE TypeOK'
  BY <1>t, <1>13, TimesAssumption
     DEF FailLease, TypeOK, Steps, Goto, Fault, NoFault, Deleted, Expiries, None, Admitting, Running, Failing, Recording
<1>14. ASSUME NEW r \in Requests, FailHold(r) PROVE TypeOK'
  BY <1>t, <1>14, TimesAssumption
     DEF FailHold, TypeOK, Steps, Goto, Fault, NoFault, Released, Expiries, Admitting, Running, Failing, Recording
<1>15. ASSUME NEW r \in Requests, FailRow(r) PROVE TypeOK'
  BY <1>t, <1>15, TimesAssumption
     DEF FailRow, TypeOK, Steps, Goto, Tell, Fault, NoFault, FailedStatus, Expiries, Admitting, Running, Failing, Recording
<1>16. ASSUME NEW r \in Requests, RecordUnmetered(r) PROVE TypeOK'
  BY <1>t, <1>16
     DEF RecordUnmetered, TypeOK, Steps, Goto, dbVars, Expiries, Admitting, Running, Failing, Recording
<1>17. ASSUME NEW r \in Requests, FreeHold(r) PROVE TypeOK'
  BY <1>t, <1>17, TimesAssumption
     DEF FreeHold, TypeOK, Steps, Goto, Fault, NoFault, Released, Expiries, Admitting, Running, Failing, Recording
<1>18. ASSUME NEW r \in Requests, Unmark(r) PROVE TypeOK'
  BY <1>t, <1>18, TimesAssumption
     DEF Unmark, TypeOK, Steps, Goto, Fault, NoFault, Expiries, Admitting, Running, Failing, Recording
<1>19. ASSUME NEW r \in Requests, PutReady(r) PROVE TypeOK'
  BY <1>t, <1>19, TimesAssumption
     DEF PutReady, TypeOK, Steps, Goto, Fault, NoFault, FailAdmission, dbVars, Abandon, Tell, Expiries, Admitting, Running, Failing, Recording
<1>20. ASSUME NEW r \in Requests, Handoff(r) PROVE TypeOK'
  BY <1>t, <1>20, TimesAssumption
     DEF Handoff, TypeOK, Steps, Goto, Fault, NoFault, HandedOff, Expiries, Admitting, Running, Failing, Recording
<1>21. ASSUME NEW r \in Requests, Finish(r) PROVE TypeOK'
  BY <1>t, <1>21, TimesAssumption
     DEF Finish, TypeOK, Steps, Goto, Fault, NoFault, Expiries, Admitting, Running, Failing, Recording
<1>22. ASSUME NEW r \in Requests, FreeLease(r) PROVE TypeOK'
  BY <1>t, <1>22, TimesAssumption
     DEF FreeLease, TypeOK, Steps, Goto, Tell, Fault, NoFault, Deleted, Expiries, None, Admitting, Running, Failing, Recording
<1>23. ASSUME NEW r \in Requests, DropUnguarded(r) PROVE TypeOK'
  BY <1>t, <1>23
     DEF DropUnguarded, TypeOK, Steps, Goto, Tell, dbVars, Expiries, Admitting, Running, Failing, Recording
<1>24. ASSUME NEW r \in Requests, DropWhileHolding(r) PROVE TypeOK'
  BY <1>t, <1>24, TTLIsPositive
     DEF DropWhileHolding, TypeOK, Steps, Goto, Tell, Abandon, Expiries, Admitting, Running, Failing, Recording
<1>25. ASSUME NEW r \in Requests, DropGuarded(r) PROVE TypeOK'
  BY <1>t, <1>25
     DEF DropGuarded, TypeOK, Steps, Goto, Tell, Abandon, dbVars, Expiries, Admitting, Running, Failing, Recording
<1>26. ASSUME NEW r \in Requests, LateCommit(r) PROVE TypeOK'
  BY <1>t, <1>26 DEF LateCommit, TypeOK, Steps, Expiries, Admitting, Running, Failing, Recording
<1>27. ASSUME NEW r \in Requests, ExpireHold(r) PROVE TypeOK'
  BY <1>t, <1>27 DEF ExpireHold, TypeOK, Steps, Expiries, Admitting, Running, Failing, Recording
<1>28. ASSUME NEW r \in Requests, MarkStale(r) PROVE TypeOK'
  BY <1>t, <1>28 DEF MarkStale, TypeOK, Steps, Expiries, Admitting, Running, Failing, Recording
<1>29. ASSUME NEW r \in Requests, Replay(r) PROVE TypeOK'
  BY <1>t, <1>29
     DEF Replay, TypeOK, Steps, HandedOff, Expiries, Admitting, Running, Failing, Recording
<1>30. ASSUME NEW r \in Requests, Capture(r) PROVE TypeOK'
  BY <1>t, <1>30 DEF Capture, TypeOK, Steps, Expiries, Admitting, Running, Failing, Recording
<1>31. ASSUME NEW task \in tasks, RunTask(task) PROVE TypeOK'
  BY <1>t, <1>31, TimesAssumption
     DEF RunTask, TypeOK, Steps, Fault, NoFault, Deleted, Released, Expiries, None, Admitting, Running, Failing, Recording
<1>32. CASE Crash
  BY <1>t, <1>32, TimesAssumption
     DEF Crash, TypeOK, Steps, Fault, NoFault, dbVars, Expiries, Admitting, Running, Failing, Recording
<1>33. CASE Tick
  BY <1>t, <1>33, TimesAssumption
     DEF Tick, TypeOK, Steps, dbVars, Expiries, Admitting, Running, Failing, Recording
<1>34. CASE UNCHANGED vars
  BY <1>t, <1>34 DEF TypeOK, Steps, vars, dbVars, Expiries, Admitting, Running, Failing, Recording
<1>35. ASSUME NEW r \in Requests, Admit(r) PROVE TypeOK'
  BY <1>35, <1>1, <1>2, <1>3, <1>4, <1>5, <1>6, <1>7 DEF Admit
<1>36. ASSUME NEW r \in Requests, Serve(r) PROVE TypeOK'
  BY <1>36, <1>8, <1>9, <1>10, <1>11, <1>12 DEF Serve
<1>37. ASSUME NEW r \in Requests, Close(r) PROVE TypeOK'
  BY <1>37, <1>13, <1>14, <1>15, <1>16, <1>17, <1>18, <1>19, <1>20, <1>21, <1>22 DEF Close
<1>38. ASSUME NEW r \in Requests, Drop(r) PROVE TypeOK'
  BY <1>38, <1>23, <1>24, <1>25 DEF Drop
<1>39. ASSUME NEW r \in Requests, Background(r) PROVE TypeOK'
  BY <1>39, <1>26, <1>27, <1>28, <1>29, <1>30 DEF Background
<1> QED BY <1>35, <1>36, <1>37, <1>38, <1>39, <1>31, <1>32, <1>33, <1>34 DEF Next

\* Every step keeps the stages.
LEMMA LifecycleStages == LifecycleInv /\ [Next]_vars => \A q \in Requests: Stage(q)'
<1> SUFFICES ASSUME LifecycleInv, [Next]_vars PROVE \A q \in Requests: Stage(q)'
  OBVIOUS
<1>t. TypeOK /\ \A q \in Requests: Stage(q)
  BY DEF LifecycleInv
<1>1. ASSUME NEW r \in Requests, Reserve(r) PROVE \A q \in Requests: Stage(q)'
  BY <1>t, <1>1 DEF Reserve, Stage, Goto, dbVars, TypeOK, Unaccepted, Admitting, Running, Failing
<1>2. ASSUME NEW r \in Requests, GrantLease(r) PROVE \A q \in Requests: Stage(q)'
  BY <1>t, <1>2
     DEF GrantLease, Stage, Goto, Swept, TypeOK, Unaccepted, Admitting, Running, Failing
<1>3. ASSUME NEW r \in Requests, DenyLease(r) PROVE \A q \in Requests: Stage(q)'
  BY <1>t, <1>3
     DEF DenyLease, Stage, Goto, Tell, Fault, NoFault, Swept, TypeOK, Unaccepted, Admitting, Running, Failing
<1>4. ASSUME NEW r \in Requests, ArmGuard(r) PROVE \A q \in Requests: Stage(q)'
  BY <1>t, <1>4 DEF ArmGuard, Stage, Goto, dbVars, TypeOK, Unaccepted, Admitting, Running, Failing
<1>5. ASSUME NEW r \in Requests, GrantHold(r) PROVE \A q \in Requests: Stage(q)'
  BY <1>t, <1>5
     DEF GrantHold, Stage, Goto, OpenHold, TypeOK, Unaccepted, Admitting, Running, Failing
<1>6. ASSUME NEW r \in Requests, DenyHold(r) PROVE \A q \in Requests: Stage(q)'
  BY <1>t, <1>6
     DEF DenyHold, Stage, Fault, NoFault, FailAdmission, OpenHold, Abandon, Goto, Tell, TypeOK, Unaccepted, Admitting, Running, Failing
<1>7. ASSUME NEW r \in Requests, MarkPending(r) PROVE \A q \in Requests: Stage(q)'
  BY <1>t, <1>7
     DEF MarkPending, Stage, Goto, Fault, NoFault, FailAdmission, Abandon, Tell, TypeOK, Unaccepted, Admitting, Running, Failing
<1>8. ASSUME NEW r \in Requests, PipelineFails(r) PROVE \A q \in Requests: Stage(q)'
  BY <1>t, <1>8
     DEF PipelineFails, Stage, Goto, dbVars, TypeOK, Unaccepted, Admitting, Running, Failing
<1>9. ASSUME NEW r \in Requests, PipelineResponds(r) PROVE \A q \in Requests: Stage(q)'
  BY <1>t, <1>9
     DEF PipelineResponds, Stage, Goto, dbVars, TypeOK, Unaccepted, Admitting, Running, Failing
<1>10. ASSUME NEW r \in Requests, StreamCompletes(r) PROVE \A q \in Requests: Stage(q)'
  BY <1>t, <1>10
     DEF StreamCompletes, Stage, Goto, Tell, dbVars, TypeOK, Unaccepted, Admitting, Running, Failing
<1>11. ASSUME NEW r \in Requests, StreamBreaks(r) PROVE \A q \in Requests: Stage(q)'
  BY <1>t, <1>11
     DEF StreamBreaks, Stage, Goto, Tell, dbVars, TypeOK, Unaccepted, Admitting, Running, Failing
<1>12. ASSUME NEW r \in Requests, AggregationFails(r) PROVE \A q \in Requests: Stage(q)'
  BY <1>t, <1>12
     DEF AggregationFails, Stage, Fault, FailAdmission, dbVars, Abandon, Goto, Tell, TypeOK, Unaccepted, Admitting, Running, Failing
<1>13. ASSUME NEW r \in Requests, FailLease(r) PROVE \A q \in Requests: Stage(q)'
  BY <1>t, <1>13
     DEF FailLease, Stage, Goto, Fault, NoFault, Deleted, TypeOK, Unaccepted, Admitting, Running, Failing
<1>14. ASSUME NEW r \in Requests, FailHold(r) PROVE \A q \in Requests: Stage(q)'
  BY <1>t, <1>14
     DEF FailHold, Stage, Goto, Fault, NoFault, Released, TypeOK, Unaccepted, Admitting, Running, Failing
<1>15. ASSUME NEW r \in Requests, FailRow(r) PROVE \A q \in Requests: Stage(q)'
  BY <1>t, <1>15
     DEF FailRow, Stage, Goto, Tell, Fault, NoFault, FailedStatus, TypeOK, Unaccepted, Admitting, Running, Failing
<1>16. ASSUME NEW r \in Requests, RecordUnmetered(r) PROVE \A q \in Requests: Stage(q)'
  BY <1>t, <1>16
     DEF RecordUnmetered, Stage, Goto, dbVars, TypeOK, Unaccepted, Admitting, Running, Failing
<1>17. ASSUME NEW r \in Requests, FreeHold(r) PROVE \A q \in Requests: Stage(q)'
  BY <1>t, <1>17
     DEF FreeHold, Stage, Goto, Fault, NoFault, Released, TypeOK, Unaccepted, Admitting, Running, Failing
<1>18. ASSUME NEW r \in Requests, Unmark(r) PROVE \A q \in Requests: Stage(q)'
  BY <1>t, <1>18
     DEF Unmark, Stage, Goto, Fault, NoFault, TypeOK, Unaccepted, Admitting, Running, Failing
<1>19. ASSUME NEW r \in Requests, PutReady(r) PROVE \A q \in Requests: Stage(q)'
  BY <1>t, <1>19
     DEF PutReady, Stage, Goto, Fault, NoFault, FailAdmission, dbVars, Abandon, Tell, TypeOK, Unaccepted, Admitting, Running, Failing
<1>20. ASSUME NEW r \in Requests, Handoff(r) PROVE \A q \in Requests: Stage(q)'
  BY <1>t, <1>20
     DEF Handoff, Stage, Goto, Fault, NoFault, HandedOff, TypeOK, Unaccepted, Admitting, Running, Failing
<1>21. ASSUME NEW r \in Requests, Finish(r) PROVE \A q \in Requests: Stage(q)'
  BY <1>t, <1>21
     DEF Finish, Stage, Goto, Fault, NoFault, TypeOK, Unaccepted, Admitting, Running, Failing
<1>22. ASSUME NEW r \in Requests, FreeLease(r) PROVE \A q \in Requests: Stage(q)'
  BY <1>t, <1>22
     DEF FreeLease, Stage, Goto, Tell, Fault, NoFault, Deleted, TypeOK, Unaccepted, Admitting, Running, Failing
<1>23. ASSUME NEW r \in Requests, DropUnguarded(r) PROVE \A q \in Requests: Stage(q)'
  BY <1>t, <1>23
     DEF DropUnguarded, Stage, Goto, Tell, dbVars, TypeOK, Unaccepted, Admitting, Running, Failing
<1>24. ASSUME NEW r \in Requests, DropWhileHolding(r) PROVE \A q \in Requests: Stage(q)'
  BY <1>t, <1>24
     DEF DropWhileHolding, Stage, Goto, Tell, Abandon, TypeOK, Unaccepted, Admitting, Running, Failing
<1>25. ASSUME NEW r \in Requests, DropGuarded(r) PROVE \A q \in Requests: Stage(q)'
  BY <1>t, <1>25
     DEF DropGuarded, Stage, Goto, Tell, Abandon, dbVars, TypeOK, Unaccepted, Admitting, Running, Failing
<1>26. ASSUME NEW r \in Requests, LateCommit(r) PROVE \A q \in Requests: Stage(q)'
  BY <1>t, <1>26 DEF LateCommit, Stage, TypeOK, Unaccepted, Admitting, Running, Failing
<1>27. ASSUME NEW r \in Requests, ExpireHold(r) PROVE \A q \in Requests: Stage(q)'
  BY <1>t, <1>27 DEF ExpireHold, Stage, TypeOK, Unaccepted, Admitting, Running, Failing
<1>28. ASSUME NEW r \in Requests, MarkStale(r) PROVE \A q \in Requests: Stage(q)'
  BY <1>t, <1>28 DEF MarkStale, Stage, TypeOK, Unaccepted, Admitting, Running, Failing
<1>29. ASSUME NEW r \in Requests, Replay(r) PROVE \A q \in Requests: Stage(q)'
  BY <1>t, <1>29 DEF Replay, Stage, HandedOff, TypeOK, Unaccepted, Admitting, Running, Failing
<1>30. ASSUME NEW r \in Requests, Capture(r) PROVE \A q \in Requests: Stage(q)'
  BY <1>t, <1>30 DEF Capture, Stage, TypeOK, Unaccepted, Admitting, Running, Failing
<1>31. ASSUME NEW task \in tasks, RunTask(task) PROVE \A q \in Requests: Stage(q)'
  BY <1>t, <1>31
     DEF RunTask, Stage, Fault, NoFault, Deleted, Released, TypeOK, Unaccepted, Admitting, Running, Failing
<1>32. CASE Crash
  BY <1>t, <1>32 DEF Crash, Stage, Fault, NoFault, dbVars, TypeOK, Unaccepted, Admitting, Running, Failing
<1>33. CASE Tick
  BY <1>t, <1>33 DEF Tick, Stage, dbVars, TypeOK, Unaccepted, Admitting, Running, Failing
<1>34. CASE UNCHANGED vars
  BY <1>t, <1>34 DEF Stage, vars, dbVars, TypeOK, Unaccepted, Admitting, Running, Failing
<1>35. ASSUME NEW r \in Requests, Admit(r) PROVE \A q \in Requests: Stage(q)'
  BY <1>35, <1>1, <1>2, <1>3, <1>4, <1>5, <1>6, <1>7 DEF Admit
<1>36. ASSUME NEW r \in Requests, Serve(r) PROVE \A q \in Requests: Stage(q)'
  BY <1>36, <1>8, <1>9, <1>10, <1>11, <1>12 DEF Serve
<1>37. ASSUME NEW r \in Requests, Close(r) PROVE \A q \in Requests: Stage(q)'
  BY <1>37, <1>13, <1>14, <1>15, <1>16, <1>17, <1>18, <1>19, <1>20, <1>21, <1>22 DEF Close
<1>38. ASSUME NEW r \in Requests, Drop(r) PROVE \A q \in Requests: Stage(q)'
  BY <1>38, <1>23, <1>24, <1>25 DEF Drop
<1>39. ASSUME NEW r \in Requests, Background(r) PROVE \A q \in Requests: Stage(q)'
  BY <1>39, <1>26, <1>27, <1>28, <1>29, <1>30 DEF Background
<1> QED BY <1>35, <1>36, <1>37, <1>38, <1>39, <1>31, <1>32, <1>33, <1>34 DEF Next

\* A step that adds no live lease keeps the limit.
LEMMA NoMoreLive ==
  ASSUME LeasesWithinLimit, Live' \subseteq Live
  PROVE  LeasesWithinLimit'
<1>1. IsFiniteSet(Live)
  BY RequestsAssumption, FS_Subset DEF Live
<1>2. IsFiniteSet(Live') /\ Cardinality(Live') <= Cardinality(Live)
  BY <1>1, FS_Subset
<1>3. Cardinality(Live) \in Nat /\ Cardinality(Live') \in Nat
  BY <1>1, <1>2, FS_CardinalityType
<1> QED BY <1>2, <1>3, TimesAssumption DEF LeasesWithinLimit

\* A set of requests grows by at most one.
LEMMA OneMore ==
  ASSUME NEW S \in SUBSET Requests, NEW r \in Requests
  PROVE  /\ IsFiniteSet(S) /\ Cardinality(S) \in Nat
         /\ IsFiniteSet(S \cup {r}) /\ Cardinality(S \cup {r}) \in Nat
         /\ Cardinality(S \cup {r}) <= Cardinality(S) + 1
<1>1. IsFiniteSet(S)
  BY RequestsAssumption, FS_Subset
<1>2. IsFiniteSet(S \cup {r})
  BY <1>1, FS_AddElement
<1>3. Cardinality(S) \in Nat /\ Cardinality(S \cup {r}) \in Nat
  BY <1>1, <1>2, FS_CardinalityType
<1>4. Cardinality(S \cup {r}) = IF r \in S THEN Cardinality(S) ELSE Cardinality(S) + 1
  BY <1>1, FS_AddElement
<1> QED BY <1>1, <1>2, <1>3, <1>4

\* A step that adds one live lease keeps the limit if it was not reached.
LEMMA OneMoreLive ==
  ASSUME NEW r \in Requests, Cardinality(Live) < Limit, Live' \subseteq Live \cup {r}
  PROVE  LeasesWithinLimit'
<1>1. Live \in SUBSET Requests
  BY DEF Live
<1>2. /\ Cardinality(Live) \in Nat /\ Cardinality(Live \cup {r}) \in Nat
      /\ IsFiniteSet(Live \cup {r}) /\ Cardinality(Live \cup {r}) <= Cardinality(Live) + 1
  BY <1>1, OneMore
<1>3. IsFiniteSet(Live') /\ Cardinality(Live') <= Cardinality(Live \cup {r})
  BY <1>2, FS_Subset
<1>4. Cardinality(Live') \in Nat
  BY <1>3, FS_CardinalityType
<1> QED BY <1>2, <1>3, <1>4, TimesAssumption DEF LeasesWithinLimit

\* Every step keeps the number of live leases within the limit.
LEMMA LifecycleLeases == LifecycleInv /\ [Next]_vars => LeasesWithinLimit'
<1> SUFFICES ASSUME LifecycleInv, [Next]_vars PROVE LeasesWithinLimit'
  OBVIOUS
<1>t. TypeOK /\ LeasesWithinLimit
  BY DEF LifecycleInv
<1>1. ASSUME NEW r \in Requests, Reserve(r) PROVE LeasesWithinLimit'
  <2>1. Live' \subseteq Live
    BY <1>t, <1>1 DEF Reserve, Live, dbVars
  <2> QED BY <1>t, <2>1, NoMoreLive
<1>2. ASSUME NEW r \in Requests, GrantLease(r) PROVE LeasesWithinLimit'
  <2>1. Cardinality(Live) < Limit /\ Live' \subseteq Live \cup {r}
    BY <1>t, <1>2 DEF GrantLease, Swept, Live, TypeOK, Expiries, None
  <2> QED BY <2>1, OneMoreLive
<1>3. ASSUME NEW r \in Requests, DenyLease(r) PROVE LeasesWithinLimit'
  <2>1. CASE UNCHANGED lease
    <3>1. Live' \subseteq Live
      BY <1>3, <2>1 DEF DenyLease, Live
    <3> QED BY <1>t, <3>1, NoMoreLive
  <2>2. CASE Cardinality(Live) < Limit /\ lease' = [Swept EXCEPT ![r] = now + LeaseTTL]
    <3>1. Live' \subseteq Live \cup {r}
      BY <1>t, <1>3, <2>2 DEF DenyLease, Swept, Live, TypeOK, Expiries, None
    <3> QED BY <2>2, <3>1, OneMoreLive
  <2> QED BY <1>3, <2>1, <2>2 DEF DenyLease
<1>4. ASSUME NEW r \in Requests, ArmGuard(r) PROVE LeasesWithinLimit'
  <2>1. Live' \subseteq Live
    BY <1>t, <1>4 DEF ArmGuard, Live, dbVars
  <2> QED BY <1>t, <2>1, NoMoreLive
<1>5. ASSUME NEW r \in Requests, GrantHold(r) PROVE LeasesWithinLimit'
  <2>1. Live' \subseteq Live
    BY <1>t, <1>5 DEF GrantHold, Live
  <2> QED BY <1>t, <2>1, NoMoreLive
<1>6. ASSUME NEW r \in Requests, DenyHold(r) PROVE LeasesWithinLimit'
  <2>1. Live' \subseteq Live
    BY <1>t, <1>6 DEF DenyHold, Live
  <2> QED BY <1>t, <2>1, NoMoreLive
<1>7. ASSUME NEW r \in Requests, MarkPending(r) PROVE LeasesWithinLimit'
  <2>1. Live' \subseteq Live
    BY <1>t, <1>7 DEF MarkPending, Live
  <2> QED BY <1>t, <2>1, NoMoreLive
<1>8. ASSUME NEW r \in Requests, PipelineFails(r) PROVE LeasesWithinLimit'
  <2>1. Live' \subseteq Live
    BY <1>t, <1>8 DEF PipelineFails, Live, dbVars
  <2> QED BY <1>t, <2>1, NoMoreLive
<1>9. ASSUME NEW r \in Requests, PipelineResponds(r) PROVE LeasesWithinLimit'
  <2>1. Live' \subseteq Live
    BY <1>t, <1>9 DEF PipelineResponds, Live, dbVars
  <2> QED BY <1>t, <2>1, NoMoreLive
<1>10. ASSUME NEW r \in Requests, StreamCompletes(r) PROVE LeasesWithinLimit'
  <2>1. Live' \subseteq Live
    BY <1>t, <1>10 DEF StreamCompletes, Live, dbVars
  <2> QED BY <1>t, <2>1, NoMoreLive
<1>11. ASSUME NEW r \in Requests, StreamBreaks(r) PROVE LeasesWithinLimit'
  <2>1. Live' \subseteq Live
    BY <1>t, <1>11 DEF StreamBreaks, Live, dbVars
  <2> QED BY <1>t, <2>1, NoMoreLive
<1>12. ASSUME NEW r \in Requests, AggregationFails(r) PROVE LeasesWithinLimit'
  <2>1. Live' \subseteq Live
    BY <1>t, <1>12 DEF AggregationFails, Live, dbVars
  <2> QED BY <1>t, <2>1, NoMoreLive
<1>13. ASSUME NEW r \in Requests, FailLease(r) PROVE LeasesWithinLimit'
  <2>1. Live' \subseteq Live
    BY <1>t, <1>13 DEF FailLease, Live, Deleted, TypeOK, Expiries, None
  <2> QED BY <1>t, <2>1, NoMoreLive
<1>14. ASSUME NEW r \in Requests, FailHold(r) PROVE LeasesWithinLimit'
  <2>1. Live' \subseteq Live
    BY <1>t, <1>14 DEF FailHold, Live
  <2> QED BY <1>t, <2>1, NoMoreLive
<1>15. ASSUME NEW r \in Requests, FailRow(r) PROVE LeasesWithinLimit'
  <2>1. Live' \subseteq Live
    BY <1>t, <1>15 DEF FailRow, Live
  <2> QED BY <1>t, <2>1, NoMoreLive
<1>16. ASSUME NEW r \in Requests, RecordUnmetered(r) PROVE LeasesWithinLimit'
  <2>1. Live' \subseteq Live
    BY <1>t, <1>16 DEF RecordUnmetered, Live, dbVars
  <2> QED BY <1>t, <2>1, NoMoreLive
<1>17. ASSUME NEW r \in Requests, FreeHold(r) PROVE LeasesWithinLimit'
  <2>1. Live' \subseteq Live
    BY <1>t, <1>17 DEF FreeHold, Live
  <2> QED BY <1>t, <2>1, NoMoreLive
<1>18. ASSUME NEW r \in Requests, Unmark(r) PROVE LeasesWithinLimit'
  <2>1. Live' \subseteq Live
    BY <1>t, <1>18 DEF Unmark, Live
  <2> QED BY <1>t, <2>1, NoMoreLive
<1>19. ASSUME NEW r \in Requests, PutReady(r) PROVE LeasesWithinLimit'
  <2>1. Live' \subseteq Live
    BY <1>t, <1>19 DEF PutReady, Live, dbVars
  <2> QED BY <1>t, <2>1, NoMoreLive
<1>20. ASSUME NEW r \in Requests, Handoff(r) PROVE LeasesWithinLimit'
  <2>1. Live' \subseteq Live
    BY <1>t, <1>20 DEF Handoff, Live
  <2> QED BY <1>t, <2>1, NoMoreLive
<1>21. ASSUME NEW r \in Requests, Finish(r) PROVE LeasesWithinLimit'
  <2>1. Live' \subseteq Live
    BY <1>t, <1>21 DEF Finish, Live
  <2> QED BY <1>t, <2>1, NoMoreLive
<1>22. ASSUME NEW r \in Requests, FreeLease(r) PROVE LeasesWithinLimit'
  <2>1. Live' \subseteq Live
    BY <1>t, <1>22 DEF FreeLease, Live, Deleted, TypeOK, Expiries, None
  <2> QED BY <1>t, <2>1, NoMoreLive
<1>23. ASSUME NEW r \in Requests, DropUnguarded(r) PROVE LeasesWithinLimit'
  <2>1. Live' \subseteq Live
    BY <1>t, <1>23 DEF DropUnguarded, Live, dbVars
  <2> QED BY <1>t, <2>1, NoMoreLive
<1>24. ASSUME NEW r \in Requests, DropWhileHolding(r) PROVE LeasesWithinLimit'
  <2>1. Live' \subseteq Live
    BY <1>t, <1>24 DEF DropWhileHolding, Live
  <2> QED BY <1>t, <2>1, NoMoreLive
<1>25. ASSUME NEW r \in Requests, DropGuarded(r) PROVE LeasesWithinLimit'
  <2>1. Live' \subseteq Live
    BY <1>t, <1>25 DEF DropGuarded, Live, dbVars
  <2> QED BY <1>t, <2>1, NoMoreLive
<1>26. ASSUME NEW r \in Requests, LateCommit(r) PROVE LeasesWithinLimit'
  <2>1. Live' \subseteq Live
    BY <1>t, <1>26 DEF LateCommit, Live
  <2> QED BY <1>t, <2>1, NoMoreLive
<1>27. ASSUME NEW r \in Requests, ExpireHold(r) PROVE LeasesWithinLimit'
  <2>1. Live' \subseteq Live
    BY <1>t, <1>27 DEF ExpireHold, Live
  <2> QED BY <1>t, <2>1, NoMoreLive
<1>28. ASSUME NEW r \in Requests, MarkStale(r) PROVE LeasesWithinLimit'
  <2>1. Live' \subseteq Live
    BY <1>t, <1>28 DEF MarkStale, Live
  <2> QED BY <1>t, <2>1, NoMoreLive
<1>29. ASSUME NEW r \in Requests, Replay(r) PROVE LeasesWithinLimit'
  <2>1. Live' \subseteq Live
    BY <1>t, <1>29 DEF Replay, Live
  <2> QED BY <1>t, <2>1, NoMoreLive
<1>30. ASSUME NEW r \in Requests, Capture(r) PROVE LeasesWithinLimit'
  <2>1. Live' \subseteq Live
    BY <1>t, <1>30 DEF Capture, Live
  <2> QED BY <1>t, <2>1, NoMoreLive
<1>31. ASSUME NEW task \in tasks, RunTask(task) PROVE LeasesWithinLimit'
  <2>1. Live' \subseteq Live
    BY <1>t, <1>31 DEF RunTask, Live, Deleted, TypeOK, Expiries, None
  <2> QED BY <1>t, <2>1, NoMoreLive
<1>32. CASE Crash
  <2>1. Live' \subseteq Live
    BY <1>t, <1>32 DEF Crash, Live, dbVars
  <2> QED BY <1>t, <2>1, NoMoreLive
<1>33. CASE Tick
  <2>1. Live' \subseteq Live
    BY <1>t, <1>33 DEF Tick, Live, dbVars, TypeOK, Expiries, None
  <2> QED BY <1>t, <2>1, NoMoreLive
<1>34. CASE UNCHANGED vars
  <2>1. Live' \subseteq Live
    BY <1>t, <1>34 DEF Live, vars, dbVars
  <2> QED BY <1>t, <2>1, NoMoreLive
<1>35. ASSUME NEW r \in Requests, Admit(r) PROVE LeasesWithinLimit'
  BY <1>35, <1>1, <1>2, <1>3, <1>4, <1>5, <1>6, <1>7 DEF Admit
<1>36. ASSUME NEW r \in Requests, Serve(r) PROVE LeasesWithinLimit'
  BY <1>36, <1>8, <1>9, <1>10, <1>11, <1>12 DEF Serve
<1>37. ASSUME NEW r \in Requests, Close(r) PROVE LeasesWithinLimit'
  BY <1>37, <1>13, <1>14, <1>15, <1>16, <1>17, <1>18, <1>19, <1>20, <1>21, <1>22 DEF Close
<1>38. ASSUME NEW r \in Requests, Drop(r) PROVE LeasesWithinLimit'
  BY <1>38, <1>23, <1>24, <1>25 DEF Drop
<1>39. ASSUME NEW r \in Requests, Background(r) PROVE LeasesWithinLimit'
  BY <1>39, <1>26, <1>27, <1>28, <1>29, <1>30 DEF Background
<1> QED BY <1>35, <1>36, <1>37, <1>38, <1>39, <1>31, <1>32, <1>33, <1>34 DEF Next

\* The invariant holds in every state: the stage a request has reached decides
\* whether it is marked, metered or recorded as failed.
THEOREM LifecycleInvariant == Spec => []LifecycleInv
<1>1. LifecycleInv /\ [Next]_vars => LifecycleInv'
  <2> SUFFICES ASSUME LifecycleInv, [Next]_vars PROVE LifecycleInv'
    OBVIOUS
  <2> QED BY LifecycleTypes, LifecycleStages, LifecycleLeases DEF LifecycleInv
<1> QED BY LifecycleInit, <1>1, PTL DEF Spec

\* acquire_postgres_api_key_slot never lets an API key have more live leases
\* than its limit, whatever is dropped, lost, expired or restarted.
THEOREM KeyLimitHolds == Spec => []LeasesWithinLimit
<1>1. LifecycleInv => LeasesWithinLimit
  BY DEF LifecycleInv
<1> QED BY <1>1, LifecycleInvariant, PTL

\* record_success and the forwarding loop tell a client of success only after
\* the journal has accepted its event.
THEOREM SuccessWasMetered == Spec => []SuccessIsMetered
<1>1. LifecycleInv => SuccessIsMetered
  BY DEF LifecycleInv, Stage, SuccessIsMetered
<1> QED BY <1>1, LifecycleInvariant, PTL

\* admit_request and handoff keep the request row of an accepted event marked
\* until the event is in PostgreSQL.
THEOREM AcceptedWasProtected == Spec => []AcceptedIsProtected
<1>1. LifecycleInv => AcceptedIsProtected
  BY DEF LifecycleInv, Stage, AcceptedIsProtected, TypeOK
<1> QED BY <1>1, LifecycleInvariant, PTL

\* What record_failed_request closes as failed or canceled is never metered,
\* before or after.
THEOREM FailedWasFree == Spec => []FailedIsFree
<1>1. LifecycleInv => FailedIsFree
  BY DEF LifecycleInv, Stage, FailedIsFree
<1> QED BY <1>1, LifecycleInvariant, PTL

\* What the client was told, what the row says and what is metered agree.
THEOREM OutcomesWereMetered == Spec => []OutcomesAreMetered
<1> QED BY SuccessWasMetered, FailedWasFree, PTL DEF OutcomesAreMetered

----------------------------------------------------------------------------
(* Deadlines and slots                                                     *)

\* A buffered request is over when its timeout is; until its call returns its
\* lease ends no earlier than a lease taken on its arrival would.
Buffered(r) ==
  /\ opened[r] = None /\ pc[r] # "stream"
  /\ pc[r] \notin {"new", "over"} => now <= began[r] + Timeout
  /\ pc[r] \in {"leased", "hold", "held", "pipeline"} => lease[r] >= began[r] + LeaseTTL
  /\ row[r] = "stale" => pc[r] = "over"

\* Cleanup tasks belong to requests that are over, and what has given its slot
\* back does not get it again.
Owned(r) ==
  /\ began[r] <= now
  /\ <<"lease", r>> \in tasks => pc[r] = "over"
  /\ pc[r] \in {"failHold", "failRow", "freeHold", "unmark", "handoff", "finish", "freeLease"}
     => r \notin slot

Timed(r) == Owned(r) /\ (r \notin Streams => Buffered(r))
TimedInv == TypeOK /\ \A r \in Requests: Timed(r)

\* What is known of the time a lease lasts.
LEMMA LeaseTimes ==
  /\ Timeout \in Nat /\ Slack \in Nat /\ Slack > 0
  /\ LeaseTTL \in Nat /\ LeaseTTL = Timeout + Slack
BY TimesAssumption DEF LeaseTTL

\* The initial state satisfies the invariant.
LEMMA TimedInit == Init => TimedInv
BY LifecycleInit DEF Init, TimedInv, Timed, Buffered, Owned, LifecycleInv

\* Every step keeps every request's deadlines.
LEMMA TimedStep == TimedInv /\ [Next]_vars => \A q \in Requests: Timed(q)'
<1> SUFFICES ASSUME TimedInv, [Next]_vars PROVE \A q \in Requests: Timed(q)'
  OBVIOUS
<1>t. TypeOK /\ \A q \in Requests: Timed(q)
  BY DEF TimedInv
<1>n. now \in Nat /\ pc \in [Requests -> Steps] /\ began \in [Requests -> Nat]
      /\ opened \in [Requests -> Expiries] /\ lease \in [Requests -> Expiries]
      /\ row \in [Requests -> {"processing", "completed", "failed", "canceled", "stale"}]
  BY <1>t, TimesAssumption DEF TypeOK
<1>1. ASSUME NEW r \in Requests, Reserve(r) PROVE \A q \in Requests: Timed(q)'
  <2> SUFFICES ASSUME NEW q \in Requests PROVE Timed(q)'
    OBVIOUS
  <2>q. Owned(q) /\ (q \notin Streams => Buffered(q))
    BY <1>t DEF Timed
  <2>1. Owned(q)'
    BY <1>n, <1>1, <2>q DEF Reserve, Goto, dbVars, Owned
  <2>2. ASSUME q \notin Streams PROVE Buffered(q)'
    BY <1>n, <1>1, <2>q, <2>2, LeaseTimes
       DEF Reserve, Goto, dbVars, Owned, Buffered, Expiries, None
  <2> QED BY <2>1, <2>2 DEF Timed
<1>2. ASSUME NEW r \in Requests, GrantLease(r) PROVE \A q \in Requests: Timed(q)'
  <2> SUFFICES ASSUME NEW q \in Requests PROVE Timed(q)'
    OBVIOUS
  <2>q. Owned(q) /\ (q \notin Streams => Buffered(q))
    BY <1>t DEF Timed
  <2>1. Owned(q)'
    BY <1>n, <1>2, <2>q DEF GrantLease, Goto, Swept, Owned
  <2>2. ASSUME q \notin Streams PROVE Buffered(q)'
    BY <1>n, <1>2, <2>q, <2>2, LeaseTimes
       DEF GrantLease, Goto, Swept, Owned, Buffered, Expiries, None
  <2> QED BY <2>1, <2>2 DEF Timed
<1>3. ASSUME NEW r \in Requests, DenyLease(r) PROVE \A q \in Requests: Timed(q)'
  <2> SUFFICES ASSUME NEW q \in Requests PROVE Timed(q)'
    OBVIOUS
  <2>q. Owned(q) /\ (q \notin Streams => Buffered(q))
    BY <1>t DEF Timed
  <2>1. Owned(q)'
    BY <1>n, <1>3, <2>q DEF DenyLease, Goto, Swept, Owned
  <2>2. ASSUME q \notin Streams PROVE Buffered(q)'
    <3>1. q = r \/ lease'[q] = lease[q] \/ lease'[q] = Swept[q]
      BY <1>n, <1>3 DEF DenyLease, Swept
    <3>2. q = r \/ lease'[q] = lease[q] \/ lease[q] <= now
      BY <3>1 DEF Swept
    <3>3. UNCHANGED <<now, began, opened, row>> /\ pc' = [pc EXCEPT ![r] = "over"]
      BY <1>3 DEF DenyLease, Goto
    <3> QED BY <1>n, <2>q, <2>2, <3>2, <3>3, LeaseTimes DEF Owned, Buffered, Expiries, None
  <2> QED BY <2>1, <2>2 DEF Timed
<1>4. ASSUME NEW r \in Requests, ArmGuard(r) PROVE \A q \in Requests: Timed(q)'
  BY <1>t, <1>4, LeaseTimes
     DEF ArmGuard, Timed, Buffered, Owned, Expiries, Goto, dbVars, TypeOK, Unaccepted, Admitting
<1>5. ASSUME NEW r \in Requests, GrantHold(r) PROVE \A q \in Requests: Timed(q)'
  BY <1>t, <1>5, LeaseTimes
     DEF GrantHold, Timed, Buffered, Owned, Expiries, Goto, OpenHold, TypeOK, Unaccepted, Admitting
<1>6. ASSUME NEW r \in Requests, DenyHold(r) PROVE \A q \in Requests: Timed(q)'
  BY <1>t, <1>6, LeaseTimes
     DEF DenyHold, Timed, Buffered, Owned, Expiries, Fault, NoFault, FailAdmission, OpenHold, Abandon, Goto, Tell, TypeOK, Unaccepted, Admitting
<1>7. ASSUME NEW r \in Requests, MarkPending(r) PROVE \A q \in Requests: Timed(q)'
  <2> SUFFICES ASSUME NEW q \in Requests PROVE Timed(q)'
    OBVIOUS
  <2>q. Owned(q) /\ (q \notin Streams => Buffered(q))
    BY <1>t DEF Timed
  <2>1. Owned(q)'
    BY <1>n, <1>7, <2>q DEF MarkPending, Goto, FailAdmission, Abandon, Owned
  <2>2. ASSUME q \notin Streams PROVE Buffered(q)'
    BY <1>n, <1>7, <2>q, <2>2, LeaseTimes
       DEF MarkPending, Goto, FailAdmission, Abandon, Owned, Buffered, Expiries, None
  <2> QED BY <2>1, <2>2 DEF Timed
<1>8. ASSUME NEW r \in Requests, PipelineFails(r) PROVE \A q \in Requests: Timed(q)'
  BY <1>t, <1>8, LeaseTimes
     DEF PipelineFails, Timed, Buffered, Owned, Expiries, Goto, dbVars, TypeOK, Unaccepted, Admitting
<1>9. ASSUME NEW r \in Requests, PipelineResponds(r) PROVE \A q \in Requests: Timed(q)'
  <2> SUFFICES ASSUME NEW q \in Requests PROVE Timed(q)'
    OBVIOUS
  <2>q. Owned(q) /\ (q \notin Streams => Buffered(q))
    BY <1>t DEF Timed
  <2>1. Owned(q)'
    BY <1>n, <1>9, <2>q DEF PipelineResponds, Goto, dbVars, Owned
  <2>2. ASSUME q \notin Streams PROVE Buffered(q)'
    BY <1>n, <1>9, <2>q, <2>2, LeaseTimes
       DEF PipelineResponds, Goto, dbVars, Owned, Buffered, Expiries, None
  <2> QED BY <2>1, <2>2 DEF Timed
<1>10. ASSUME NEW r \in Requests, StreamCompletes(r) PROVE \A q \in Requests: Timed(q)'
  BY <1>t, <1>10, LeaseTimes
     DEF StreamCompletes, Timed, Buffered, Owned, Expiries, Goto, Tell, dbVars, TypeOK, Unaccepted, Admitting
<1>11. ASSUME NEW r \in Requests, StreamBreaks(r) PROVE \A q \in Requests: Timed(q)'
  BY <1>t, <1>11, LeaseTimes
     DEF StreamBreaks, Timed, Buffered, Owned, Expiries, Goto, Tell, dbVars, TypeOK, Unaccepted, Admitting
<1>12. ASSUME NEW r \in Requests, AggregationFails(r) PROVE \A q \in Requests: Timed(q)'
  BY <1>t, <1>12, LeaseTimes
     DEF AggregationFails, Timed, Buffered, Owned, Expiries, Fault, FailAdmission, dbVars, Abandon, Goto, Tell, TypeOK, Unaccepted, Admitting
<1>13. ASSUME NEW r \in Requests, FailLease(r) PROVE \A q \in Requests: Timed(q)'
  BY <1>t, <1>13, LeaseTimes
     DEF FailLease, Timed, Buffered, Owned, Expiries, Goto, Fault, NoFault, Deleted, TypeOK, Unaccepted, Admitting
<1>14. ASSUME NEW r \in Requests, FailHold(r) PROVE \A q \in Requests: Timed(q)'
  BY <1>t, <1>14, LeaseTimes
     DEF FailHold, Timed, Buffered, Owned, Expiries, Goto, Fault, NoFault, Released, TypeOK, Unaccepted, Admitting
<1>15. ASSUME NEW r \in Requests, FailRow(r) PROVE \A q \in Requests: Timed(q)'
  BY <1>t, <1>15, LeaseTimes
     DEF FailRow, Timed, Buffered, Owned, Expiries, Goto, Tell, Fault, NoFault, FailedStatus, TypeOK, Unaccepted, Admitting
<1>16. ASSUME NEW r \in Requests, RecordUnmetered(r) PROVE \A q \in Requests: Timed(q)'
  BY <1>t, <1>16, LeaseTimes
     DEF RecordUnmetered, Timed, Buffered, Owned, Expiries, Goto, dbVars, TypeOK, Unaccepted, Admitting
<1>17. ASSUME NEW r \in Requests, FreeHold(r) PROVE \A q \in Requests: Timed(q)'
  BY <1>t, <1>17, LeaseTimes
     DEF FreeHold, Timed, Buffered, Owned, Expiries, Goto, Fault, NoFault, Released, TypeOK, Unaccepted, Admitting
<1>18. ASSUME NEW r \in Requests, Unmark(r) PROVE \A q \in Requests: Timed(q)'
  BY <1>t, <1>18, LeaseTimes
     DEF Unmark, Timed, Buffered, Owned, Expiries, Goto, Fault, NoFault, TypeOK, Unaccepted, Admitting
<1>19. ASSUME NEW r \in Requests, PutReady(r) PROVE \A q \in Requests: Timed(q)'
  <2> SUFFICES ASSUME NEW q \in Requests PROVE Timed(q)'
    OBVIOUS
  <2>q. Owned(q) /\ (q \notin Streams => Buffered(q))
    BY <1>t DEF Timed
  <2>1. Owned(q)'
    BY <1>n, <1>19, <2>q DEF PutReady, Goto, FailAdmission, Abandon, dbVars, Owned
  <2>2. ASSUME q \notin Streams PROVE Buffered(q)'
    BY <1>n, <1>19, <2>q, <2>2, LeaseTimes
       DEF PutReady, Goto, FailAdmission, Abandon, dbVars, Owned, Buffered, Expiries, None
  <2> QED BY <2>1, <2>2 DEF Timed
<1>20. ASSUME NEW r \in Requests, Handoff(r) PROVE \A q \in Requests: Timed(q)'
  BY <1>t, <1>20, LeaseTimes
     DEF Handoff, Timed, Buffered, Owned, Expiries, Goto, Fault, NoFault, HandedOff, TypeOK, Unaccepted, Admitting
<1>21. ASSUME NEW r \in Requests, Finish(r) PROVE \A q \in Requests: Timed(q)'
  BY <1>t, <1>21, LeaseTimes
     DEF Finish, Timed, Buffered, Owned, Expiries, Goto, Fault, NoFault, TypeOK, Unaccepted, Admitting
<1>22. ASSUME NEW r \in Requests, FreeLease(r) PROVE \A q \in Requests: Timed(q)'
  BY <1>t, <1>22, LeaseTimes
     DEF FreeLease, Timed, Buffered, Owned, Expiries, Goto, Tell, Fault, NoFault, Deleted, TypeOK, Unaccepted, Admitting
<1>23. ASSUME NEW r \in Requests, DropUnguarded(r) PROVE \A q \in Requests: Timed(q)'
  BY <1>t, <1>23, LeaseTimes
     DEF DropUnguarded, Timed, Buffered, Owned, Expiries, Goto, Tell, dbVars, TypeOK, Unaccepted, Admitting
<1>24. ASSUME NEW r \in Requests, DropWhileHolding(r) PROVE \A q \in Requests: Timed(q)'
  BY <1>t, <1>24, LeaseTimes
     DEF DropWhileHolding, Timed, Buffered, Owned, Expiries, Goto, Tell, Abandon, TypeOK, Unaccepted, Admitting
<1>25. ASSUME NEW r \in Requests, DropGuarded(r) PROVE \A q \in Requests: Timed(q)'
  BY <1>t, <1>25, LeaseTimes
     DEF DropGuarded, Timed, Buffered, Owned, Expiries, Goto, Tell, Abandon, dbVars, TypeOK, Unaccepted, Admitting
<1>26. ASSUME NEW r \in Requests, LateCommit(r) PROVE \A q \in Requests: Timed(q)'
  BY <1>t, <1>26, LeaseTimes
     DEF LateCommit, Timed, Buffered, Owned, Expiries, TypeOK, Unaccepted, Admitting
<1>27. ASSUME NEW r \in Requests, ExpireHold(r) PROVE \A q \in Requests: Timed(q)'
  BY <1>t, <1>27, LeaseTimes
     DEF ExpireHold, Timed, Buffered, Owned, Expiries, TypeOK, Unaccepted, Admitting
<1>28. ASSUME NEW r \in Requests, MarkStale(r) PROVE \A q \in Requests: Timed(q)'
  <2> SUFFICES ASSUME NEW q \in Requests PROVE Timed(q)'
    OBVIOUS
  <2>q. Owned(q) /\ (q \notin Streams => Buffered(q))
    BY <1>t DEF Timed
  <2>1. Owned(q)'
    BY <1>n, <1>28, <2>q DEF MarkStale, Owned
  <2>2. ASSUME q \notin Streams PROVE Buffered(q)'
    BY <1>n, <1>28, <2>q, <2>2, LeaseTimes DEF MarkStale, Owned, Buffered, Expiries, None
  <2> QED BY <2>1, <2>2 DEF Timed
<1>29. ASSUME NEW r \in Requests, Replay(r) PROVE \A q \in Requests: Timed(q)'
  BY <1>t, <1>29, LeaseTimes
     DEF Replay, Timed, Buffered, Owned, Expiries, HandedOff, TypeOK, Unaccepted, Admitting
<1>30. ASSUME NEW r \in Requests, Capture(r) PROVE \A q \in Requests: Timed(q)'
  BY <1>t, <1>30, LeaseTimes
     DEF Capture, Timed, Buffered, Owned, Expiries, TypeOK, Unaccepted, Admitting
<1>31. ASSUME NEW task \in tasks, RunTask(task) PROVE \A q \in Requests: Timed(q)'
  <2>1. PICK q \in Requests: task = <<"lease", q>> \/ task = <<"hold", q>>
    BY <1>t, <1>31 DEF TypeOK
  <2>2. task = <<"lease", q>> => lease' \in {lease, [lease EXCEPT ![q] = None]}
    BY <1>31, <2>1 DEF RunTask, Deleted
  <2>3. task = <<"hold", q>> => UNCHANGED lease
    BY <1>31, <2>1 DEF RunTask
  <2>4. \A p \in Requests: lease'[p] = lease[p] \/ pc[p] = "over"
    BY <1>t, <1>31, <2>1, <2>2, <2>3 DEF Timed, Owned, TypeOK
  <2>5. UNCHANGED <<now, pc, began, opened, slot, row>> /\ tasks' \subseteq tasks
    BY <1>31 DEF RunTask
  <2> QED BY <1>t, <2>4, <2>5 DEF Timed, Buffered, Owned
<1>32. CASE Crash
  BY <1>t, <1>32, LeaseTimes
     DEF Crash, Timed, Buffered, Owned, Expiries, Fault, dbVars, TypeOK, Unaccepted, Admitting
<1>33. CASE Tick
  <2> SUFFICES ASSUME NEW q \in Requests PROVE Timed(q)'
    OBVIOUS
  <2>q. Owned(q) /\ (q \notin Streams => Buffered(q))
    BY <1>t DEF Timed
  <2>1. Owned(q)'
    BY <1>n, <1>33, <2>q DEF Tick, Handling, dbVars, Owned
  <2>2. ASSUME q \notin Streams PROVE Buffered(q)'
    BY <1>n, <1>33, <2>q, <2>2, LeaseTimes
       DEF Tick, Handling, dbVars, Owned, Buffered, Expiries, None
  <2> QED BY <2>1, <2>2 DEF Timed
<1>34. CASE UNCHANGED vars
  BY <1>t, <1>34, LeaseTimes
     DEF vars, Timed, Buffered, Owned, Expiries, dbVars, TypeOK, Unaccepted, Admitting
<1>35. ASSUME NEW r \in Requests, Admit(r) PROVE \A q \in Requests: Timed(q)'
  BY <1>35, <1>1, <1>2, <1>3, <1>4, <1>5, <1>6, <1>7 DEF Admit
<1>36. ASSUME NEW r \in Requests, Serve(r) PROVE \A q \in Requests: Timed(q)'
  BY <1>36, <1>8, <1>9, <1>10, <1>11, <1>12 DEF Serve
<1>37. ASSUME NEW r \in Requests, Close(r) PROVE \A q \in Requests: Timed(q)'
  BY <1>37, <1>13, <1>14, <1>15, <1>16, <1>17, <1>18, <1>19, <1>20, <1>21, <1>22 DEF Close
<1>38. ASSUME NEW r \in Requests, Drop(r) PROVE \A q \in Requests: Timed(q)'
  BY <1>38, <1>23, <1>24, <1>25 DEF Drop
<1>39. ASSUME NEW r \in Requests, Background(r) PROVE \A q \in Requests: Timed(q)'
  BY <1>39, <1>26, <1>27, <1>28, <1>29, <1>30 DEF Background
<1> QED BY <1>35, <1>36, <1>37, <1>38, <1>39, <1>31, <1>32, <1>33, <1>34 DEF Next

\* A step that ends a request leaves it no slot, unless it had none to tell of.
LEMMA SlotStep ==
  TimedInv /\ [Next]_vars
  => [\A r \in slot': pc'[r] = "over" => pc[r] \in {"lease", "leased", "over"}]_vars
<1> SUFFICES ASSUME TimedInv, Next
             PROVE  \A q \in slot': pc'[q] = "over" => pc[q] \in {"lease", "leased", "over"}
  OBVIOUS
<1>t. TypeOK /\ \A q \in Requests: Timed(q)
  BY DEF TimedInv
<1>1. ASSUME NEW r \in Requests, Reserve(r)
      PROVE  \A q \in slot': pc'[q] = "over" => pc[q] \in {"lease", "leased", "over"}
  BY <1>t, <1>1 DEF Reserve, Timed, Owned, Goto, dbVars, TypeOK, Unaccepted, Admitting
<1>2. ASSUME NEW r \in Requests, GrantLease(r)
      PROVE  \A q \in slot': pc'[q] = "over" => pc[q] \in {"lease", "leased", "over"}
  BY <1>t, <1>2 DEF GrantLease, Timed, Owned, Goto, Swept, TypeOK, Unaccepted, Admitting
<1>3. ASSUME NEW r \in Requests, DenyLease(r)
      PROVE  \A q \in slot': pc'[q] = "over" => pc[q] \in {"lease", "leased", "over"}
  BY <1>t, <1>3
     DEF DenyLease, Timed, Owned, Goto, Tell, Fault, NoFault, Swept, TypeOK, Unaccepted, Admitting
<1>4. ASSUME NEW r \in Requests, ArmGuard(r)
      PROVE  \A q \in slot': pc'[q] = "over" => pc[q] \in {"lease", "leased", "over"}
  BY <1>t, <1>4 DEF ArmGuard, Timed, Owned, Goto, dbVars, TypeOK, Unaccepted, Admitting
<1>5. ASSUME NEW r \in Requests, GrantHold(r)
      PROVE  \A q \in slot': pc'[q] = "over" => pc[q] \in {"lease", "leased", "over"}
  BY <1>t, <1>5 DEF GrantHold, Timed, Owned, Goto, OpenHold, TypeOK, Unaccepted, Admitting
<1>6. ASSUME NEW r \in Requests, DenyHold(r)
      PROVE  \A q \in slot': pc'[q] = "over" => pc[q] \in {"lease", "leased", "over"}
  BY <1>t, <1>6
     DEF DenyHold, Timed, Owned, Fault, NoFault, FailAdmission, OpenHold, Abandon, Goto, Tell, TypeOK, Unaccepted, Admitting
<1>7. ASSUME NEW r \in Requests, MarkPending(r)
      PROVE  \A q \in slot': pc'[q] = "over" => pc[q] \in {"lease", "leased", "over"}
  BY <1>t, <1>7
     DEF MarkPending, Timed, Owned, Goto, Fault, NoFault, FailAdmission, Abandon, Tell, TypeOK, Unaccepted, Admitting
<1>8. ASSUME NEW r \in Requests, PipelineFails(r)
      PROVE  \A q \in slot': pc'[q] = "over" => pc[q] \in {"lease", "leased", "over"}
  BY <1>t, <1>8 DEF PipelineFails, Timed, Owned, Goto, dbVars, TypeOK, Unaccepted, Admitting
<1>9. ASSUME NEW r \in Requests, PipelineResponds(r)
      PROVE  \A q \in slot': pc'[q] = "over" => pc[q] \in {"lease", "leased", "over"}
  BY <1>t, <1>9 DEF PipelineResponds, Timed, Owned, Goto, dbVars, TypeOK, Unaccepted, Admitting
<1>10. ASSUME NEW r \in Requests, StreamCompletes(r)
       PROVE  \A q \in slot': pc'[q] = "over" => pc[q] \in {"lease", "leased", "over"}
  BY <1>t, <1>10
     DEF StreamCompletes, Timed, Owned, Goto, Tell, dbVars, TypeOK, Unaccepted, Admitting
<1>11. ASSUME NEW r \in Requests, StreamBreaks(r)
       PROVE  \A q \in slot': pc'[q] = "over" => pc[q] \in {"lease", "leased", "over"}
  BY <1>t, <1>11 DEF StreamBreaks, Timed, Owned, Goto, Tell, dbVars, TypeOK, Unaccepted, Admitting
<1>12. ASSUME NEW r \in Requests, AggregationFails(r)
       PROVE  \A q \in slot': pc'[q] = "over" => pc[q] \in {"lease", "leased", "over"}
  BY <1>t, <1>12
     DEF AggregationFails, Timed, Owned, Fault, FailAdmission, dbVars, Abandon, Goto, Tell, TypeOK, Unaccepted, Admitting
<1>13. ASSUME NEW r \in Requests, FailLease(r)
       PROVE  \A q \in slot': pc'[q] = "over" => pc[q] \in {"lease", "leased", "over"}
  BY <1>t, <1>13
     DEF FailLease, Timed, Owned, Goto, Fault, NoFault, Deleted, TypeOK, Unaccepted, Admitting
<1>14. ASSUME NEW r \in Requests, FailHold(r)
       PROVE  \A q \in slot': pc'[q] = "over" => pc[q] \in {"lease", "leased", "over"}
  BY <1>t, <1>14
     DEF FailHold, Timed, Owned, Goto, Fault, NoFault, Released, TypeOK, Unaccepted, Admitting
<1>15. ASSUME NEW r \in Requests, FailRow(r)
       PROVE  \A q \in slot': pc'[q] = "over" => pc[q] \in {"lease", "leased", "over"}
  BY <1>t, <1>15
     DEF FailRow, Timed, Owned, Goto, Tell, Fault, NoFault, FailedStatus, TypeOK, Unaccepted, Admitting
<1>16. ASSUME NEW r \in Requests, RecordUnmetered(r)
       PROVE  \A q \in slot': pc'[q] = "over" => pc[q] \in {"lease", "leased", "over"}
  BY <1>t, <1>16 DEF RecordUnmetered, Timed, Owned, Goto, dbVars, TypeOK, Unaccepted, Admitting
<1>17. ASSUME NEW r \in Requests, FreeHold(r)
       PROVE  \A q \in slot': pc'[q] = "over" => pc[q] \in {"lease", "leased", "over"}
  BY <1>t, <1>17
     DEF FreeHold, Timed, Owned, Goto, Fault, NoFault, Released, TypeOK, Unaccepted, Admitting
<1>18. ASSUME NEW r \in Requests, Unmark(r)
       PROVE  \A q \in slot': pc'[q] = "over" => pc[q] \in {"lease", "leased", "over"}
  BY <1>t, <1>18 DEF Unmark, Timed, Owned, Goto, Fault, NoFault, TypeOK, Unaccepted, Admitting
<1>19. ASSUME NEW r \in Requests, PutReady(r)
       PROVE  \A q \in slot': pc'[q] = "over" => pc[q] \in {"lease", "leased", "over"}
  BY <1>t, <1>19
     DEF PutReady, Timed, Owned, Goto, Fault, NoFault, FailAdmission, dbVars, Abandon, Tell, TypeOK, Unaccepted, Admitting
<1>20. ASSUME NEW r \in Requests, Handoff(r)
       PROVE  \A q \in slot': pc'[q] = "over" => pc[q] \in {"lease", "leased", "over"}
  BY <1>t, <1>20
     DEF Handoff, Timed, Owned, Goto, Fault, NoFault, HandedOff, TypeOK, Unaccepted, Admitting
<1>21. ASSUME NEW r \in Requests, Finish(r)
       PROVE  \A q \in slot': pc'[q] = "over" => pc[q] \in {"lease", "leased", "over"}
  BY <1>t, <1>21 DEF Finish, Timed, Owned, Goto, Fault, NoFault, TypeOK, Unaccepted, Admitting
<1>22. ASSUME NEW r \in Requests, FreeLease(r)
       PROVE  \A q \in slot': pc'[q] = "over" => pc[q] \in {"lease", "leased", "over"}
  BY <1>t, <1>22
     DEF FreeLease, Timed, Owned, Goto, Tell, Fault, NoFault, Deleted, TypeOK, Unaccepted, Admitting
<1>23. ASSUME NEW r \in Requests, DropUnguarded(r)
       PROVE  \A q \in slot': pc'[q] = "over" => pc[q] \in {"lease", "leased", "over"}
  BY <1>t, <1>23
     DEF DropUnguarded, Timed, Owned, Goto, Tell, dbVars, TypeOK, Unaccepted, Admitting
<1>24. ASSUME NEW r \in Requests, DropWhileHolding(r)
       PROVE  \A q \in slot': pc'[q] = "over" => pc[q] \in {"lease", "leased", "over"}
  BY <1>t, <1>24
     DEF DropWhileHolding, Timed, Owned, Goto, Tell, Abandon, TypeOK, Unaccepted, Admitting
<1>25. ASSUME NEW r \in Requests, DropGuarded(r)
       PROVE  \A q \in slot': pc'[q] = "over" => pc[q] \in {"lease", "leased", "over"}
  BY <1>t, <1>25
     DEF DropGuarded, Timed, Owned, Goto, Tell, Abandon, dbVars, TypeOK, Unaccepted, Admitting
<1>26. ASSUME NEW r \in Requests, LateCommit(r)
       PROVE  \A q \in slot': pc'[q] = "over" => pc[q] \in {"lease", "leased", "over"}
  BY <1>t, <1>26 DEF LateCommit, Timed, Owned, TypeOK, Unaccepted, Admitting
<1>27. ASSUME NEW r \in Requests, ExpireHold(r)
       PROVE  \A q \in slot': pc'[q] = "over" => pc[q] \in {"lease", "leased", "over"}
  BY <1>t, <1>27 DEF ExpireHold, Timed, Owned, TypeOK, Unaccepted, Admitting
<1>28. ASSUME NEW r \in Requests, MarkStale(r)
       PROVE  \A q \in slot': pc'[q] = "over" => pc[q] \in {"lease", "leased", "over"}
  BY <1>t, <1>28 DEF MarkStale, Timed, Owned, TypeOK, Unaccepted, Admitting
<1>29. ASSUME NEW r \in Requests, Replay(r)
       PROVE  \A q \in slot': pc'[q] = "over" => pc[q] \in {"lease", "leased", "over"}
  BY <1>t, <1>29 DEF Replay, Timed, Owned, HandedOff, TypeOK, Unaccepted, Admitting
<1>30. ASSUME NEW r \in Requests, Capture(r)
       PROVE  \A q \in slot': pc'[q] = "over" => pc[q] \in {"lease", "leased", "over"}
  BY <1>t, <1>30 DEF Capture, Timed, Owned, TypeOK, Unaccepted, Admitting
<1>31. ASSUME NEW task \in tasks, RunTask(task)
       PROVE  \A q \in slot': pc'[q] = "over" => pc[q] \in {"lease", "leased", "over"}
  BY <1>t, <1>31
     DEF RunTask, Timed, Owned, Fault, NoFault, Deleted, Released, TypeOK, Unaccepted, Admitting
<1>32. CASE Crash
  BY <1>t, <1>32 DEF Crash, Timed, Owned, Fault, dbVars, TypeOK, Unaccepted, Admitting
<1>33. CASE Tick
  BY <1>t, <1>33 DEF Tick, Timed, Owned, dbVars, TypeOK, Unaccepted, Admitting
<1>35. ASSUME NEW r \in Requests, Admit(r)
       PROVE  \A q \in slot': pc'[q] = "over" => pc[q] \in {"lease", "leased", "over"}
  BY <1>35, <1>1, <1>2, <1>3, <1>4, <1>5, <1>6, <1>7 DEF Admit
<1>36. ASSUME NEW r \in Requests, Serve(r)
       PROVE  \A q \in slot': pc'[q] = "over" => pc[q] \in {"lease", "leased", "over"}
  BY <1>36, <1>8, <1>9, <1>10, <1>11, <1>12 DEF Serve
<1>37. ASSUME NEW r \in Requests, Close(r)
       PROVE  \A q \in slot': pc'[q] = "over" => pc[q] \in {"lease", "leased", "over"}
  BY <1>37, <1>13, <1>14, <1>15, <1>16, <1>17, <1>18, <1>19, <1>20, <1>21, <1>22 DEF Close
<1>38. ASSUME NEW r \in Requests, Drop(r)
       PROVE  \A q \in slot': pc'[q] = "over" => pc[q] \in {"lease", "leased", "over"}
  BY <1>38, <1>23, <1>24, <1>25 DEF Drop
<1>39. ASSUME NEW r \in Requests, Background(r)
       PROVE  \A q \in slot': pc'[q] = "over" => pc[q] \in {"lease", "leased", "over"}
  BY <1>39, <1>26, <1>27, <1>28, <1>29, <1>30 DEF Background
<1> QED BY <1>35, <1>36, <1>37, <1>38, <1>39, <1>31, <1>32, <1>33 DEF Next
\* The invariant of deadlines and slots holds in every state.
THEOREM DeadlinesHold == Spec => []TimedInv
<1>1. TimedInv /\ [Next]_vars /\ TypeOK' => TimedInv'
  <2> SUFFICES ASSUME TimedInv, [Next]_vars, TypeOK' PROVE TimedInv'
    OBVIOUS
  <2> QED BY TimedStep DEF TimedInv
<1>2. LifecycleInv => TypeOK
  BY DEF LifecycleInv
<1> QED BY TimedInit, <1>1, <1>2, LifecycleInvariant, PTL DEF Spec

\* A buffered request is served only under a live lease, and the janitor
\* (mark_stale_processing) closes only buffered requests that are over: the
\* deadlines computed in three places agree for all timeouts.
THEOREM DeadlinesAgree == Spec => []DeadlinesAlign
<1>1. TimedInv => DeadlinesAlign
  BY LeaseTimes DEF TimedInv, Timed, Buffered, DeadlinesAlign, LeaseCoversRequest, StaleIsOver,
     Running, TypeOK, Expiries, None
<1> QED BY <1>1, DeadlinesHold, PTL

\* However a request ends, the recorder has given its journal slot back, except
\* where it is dropped before the cleanup guard is armed.
THEOREM SlotsEndWithOwners == Spec => SlotsFollowOwners
<1>1. SlotsFollowOwners
      <=> [][\A r \in slot': pc'[r] = "over" => pc[r] \in {"lease", "leased", "over"}]_vars
  BY DEF SlotsFollowOwners
<1> QED BY <1>1, SlotStep, DeadlinesHold, PTL DEF Spec
=============================================================================

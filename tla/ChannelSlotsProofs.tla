------------------------- MODULE ChannelSlotsProofs -------------------------
(***************************************************************************)
(* Proofs about the two counters of a channel's concurrent requests: the   *)
(* permits and the queue of ChannelLimiter, and the slots that every       *)
(* provider attempt takes in AttemptGuards, with the probe of the circuit  *)
(* breaker; for any number of callers, requests and channels and any       *)
(* limits.                                                                 *)
(***************************************************************************)
EXTENDS ChannelLimiter, AttemptGuards, FiniteSetTheorems, TLAPS

\* A set of callers grows or shrinks by one caller, and so does its size.
LEMMA OneMore ==
  ASSUME LimiterAssumption, NEW S \in SUBSET Callers, NEW c \in Callers
  PROVE  /\ Cardinality(S) \in Nat
         /\ c \notin S => Cardinality(S \cup {c}) = Cardinality(S) + 1
         /\ c \in S => Cardinality(S \ {c}) = Cardinality(S) - 1
<1>1. IsFiniteSet(S)
  BY FS_Subset DEF LimiterAssumption
<1> QED BY <1>1, FS_CardinalityType, FS_AddElement, FS_RemoveElement

\* The initial state satisfies the invariant.
LEMMA LimiterInitial ==
  ASSUME LimiterAssumption
  PROVE  LimiterInit => LimiterInv
<1> SUFFICES ASSUME LimiterInit PROVE LimiterInv
  OBVIOUS
<1>1. Permits = {} /\ Slots = {} /\ Uncounted = {}
  BY DEF LimiterInit, Permits, Slots, Uncounted
<1>2. Cardinality({}) = 0
  BY FS_EmptySet
<1>3. LimiterTypeOK /\ SeenBelow /\ CountersBounded
  BY DEF LimiterAssumption, LimiterInit, LimiterTypeOK, Steps, SeenBelow, CountersBounded
<1>4. CountersExact /\ CallsCounted
  BY <1>1, <1>2 DEF LimiterInit, CountersExact, CallsCounted
<1> QED BY <1>3, <1>4 DEF LimiterInv

\* Whoever owns a permit or a queue slot is counted.
LEMMA OwnersAreCounted ==
  ASSUME LimiterAssumption, LimiterInv, NEW c \in Callers
  PROVE  /\ c \in Permits => active - 1 \in Nat
         /\ c \in Slots => queued - 1 \in Nat
<1>1. Permits \subseteq Callers /\ Slots \subseteq Callers
  BY DEF Permits, Slots
<1>2. Permits \ {c} \subseteq Callers /\ Slots \ {c} \subseteq Callers
  BY <1>1
<1>3. Cardinality(Permits \ {c}) \in Nat /\ Cardinality(Slots \ {c}) \in Nat
  BY <1>2, OneMore
<1>4. /\ c \in Permits => Cardinality(Permits \ {c}) = Cardinality(Permits) - 1
      /\ c \in Slots => Cardinality(Slots \ {c}) = Cardinality(Slots) - 1
  BY <1>1, OneMore
<1> QED BY <1>3, <1>4 DEF LimiterInv, CountersExact

\* Every step keeps the types.
LEMMA LimiterTypes ==
  ASSUME LimiterAssumption
  PROVE  LimiterInv /\ [LimiterNext]_limiterVars => LimiterTypeOK'
<1> SUFFICES ASSUME LimiterInv, [LimiterNext]_limiterVars PROVE LimiterTypeOK'
  OBVIOUS
<1>t. LimiterTypeOK
  BY DEF LimiterInv
<1>1. ASSUME NEW c \in Callers, Acquire(c) PROVE LimiterTypeOK'
  BY <1>t, <1>1 DEF LimiterAssumption, Acquire, LimiterTypeOK, Steps, At, MoveTo, counters
<1>2. ASSUME NEW c \in Callers, ReserveSlot(c) PROVE LimiterTypeOK'
  BY <1>t, <1>2 DEF LimiterAssumption, ReserveSlot, LimiterTypeOK, Steps, At, MoveTo, counters
<1>3. ASSUME NEW c \in Callers, SoftAdmit(c) PROVE LimiterTypeOK'
  BY <1>t, <1>3 DEF LimiterAssumption, SoftAdmit, LimiterTypeOK, Steps, At, MoveTo, counters
<1>4. ASSUME NEW c \in Callers, LoadActive(c) PROVE LimiterTypeOK'
  BY <1>t, <1>4 DEF LimiterAssumption, LoadActive, LimiterTypeOK, Steps, At, MoveTo, counters
<1>5. ASSUME NEW c \in Callers, CasActive(c) PROVE LimiterTypeOK'
  <2>1. CASE active = seen[c]
    BY <1>t, <1>5, <2>1 DEF CasActive, LimiterTypeOK, Steps, At, MoveTo, counters
  <2>2. CASE active # seen[c]
    BY <1>t, <1>5, <2>2 DEF CasActive, LimiterTypeOK, Steps, At, MoveTo, counters
  <2> QED BY <2>1, <2>2
<1>6. ASSUME NEW c \in Callers, LoadQueued(c) PROVE LimiterTypeOK'
  BY <1>t, <1>6 DEF LimiterAssumption, LoadQueued, LimiterTypeOK, Steps, At, MoveTo, counters
<1>7. ASSUME NEW c \in Callers, CasQueued(c) PROVE LimiterTypeOK'
  <2>1. Slots \ Permits \subseteq Callers
    BY DEF Slots
  <2>2. CASE queued = seen[c]
    BY <1>t, <1>7, <2>1, <2>2 DEF CasQueued, LimiterTypeOK, Steps, At, MoveTo, counters
  <2>3. CASE queued # seen[c]
    BY <1>t, <1>7, <2>3 DEF CasQueued, LimiterTypeOK, Steps, At, MoveTo, counters
  <2> QED BY <2>2, <2>3
<1>8. ASSUME NEW c \in Callers, CountAdmitted(c) PROVE LimiterTypeOK'
  BY <1>t, <1>8 DEF LimiterAssumption, CountAdmitted, LimiterTypeOK, Steps, At, MoveTo, counters
<1>9. ASSUME NEW c \in Callers, CountRejected(c) PROVE LimiterTypeOK'
  BY <1>t, <1>9 DEF LimiterAssumption, CountRejected, LimiterTypeOK, Steps, At, MoveTo, counters
<1>10. ASSUME NEW c \in Callers, PromoteLoad(c) PROVE LimiterTypeOK'
  BY <1>t, <1>10 DEF LimiterAssumption, PromoteLoad, LimiterTypeOK, Steps, At, MoveTo, counters
<1>11. ASSUME NEW c \in Callers, PromoteCas(c) PROVE LimiterTypeOK'
  <2>1. Without(c) \subseteq Callers \X Callers
    BY <1>t DEF LimiterTypeOK, Without
  <2>2. CASE active = seen[c]
    BY <1>t, <1>11, <2>1, <2>2 DEF PromoteCas, LimiterTypeOK, Steps, At, MoveTo, counters
  <2>3. CASE active # seen[c]
    BY <1>t, <1>11, <2>3 DEF PromoteCas, LimiterTypeOK, Steps, At, MoveTo, counters
  <2> QED BY <2>2, <2>3
<1>12. ASSUME NEW c \in Callers, FreeSlot(c) PROVE LimiterTypeOK'
  <2>1. c \in Slots
    BY <1>12 DEF FreeSlot, At, Slots
  <2>2. queued - 1 \in Nat
    BY <2>1, OwnersAreCounted
  <2> QED BY <1>t, <1>12, <2>2 DEF FreeSlot, LimiterTypeOK, Steps, At, MoveTo, counters
<1>13. ASSUME NEW c \in Callers, TimeOut(c) PROVE LimiterTypeOK'
  <2>1. Without(c) \subseteq Callers \X Callers
    BY <1>t DEF LimiterTypeOK, Without
  <2>2. c \in Slots
    BY <1>13 DEF TimeOut, At, Slots
  <2>3. queued - 1 \in Nat
    BY <2>2, OwnersAreCounted
  <2> QED BY <1>t, <1>13, <2>1, <2>3 DEF TimeOut, LimiterTypeOK, Steps, At, MoveTo, counters
<1>14. ASSUME NEW c \in Callers, CountTimeout(c) PROVE LimiterTypeOK'
  BY <1>t, <1>14 DEF LimiterAssumption, CountTimeout, LimiterTypeOK, Steps, At, MoveTo, counters
<1>15. ASSUME NEW c \in Callers, Abandon(c) PROVE LimiterTypeOK'
  <2>1. Without(c) \subseteq Callers \X Callers
    BY <1>t DEF LimiterTypeOK, Without
  <2>2. c \in Slots
    BY <1>15 DEF Abandon, At, Slots
  <2>3. queued - 1 \in Nat
    BY <2>2, OwnersAreCounted
  <2> QED BY <1>t, <1>15, <2>1, <2>3 DEF Abandon, LimiterTypeOK, Steps, At, MoveTo, counters
<1>16. ASSUME NEW c \in Callers, Release(c) PROVE LimiterTypeOK'
  <2>1. c \in Permits
    BY <1>16 DEF Release, At, Permits
  <2>2. active - 1 \in Nat
    BY <2>1, OwnersAreCounted
  <2> QED BY <1>t, <1>16, <2>2 DEF Release, LimiterTypeOK, Steps, At, MoveTo, counters
<1>17. CASE UNCHANGED limiterVars
  BY <1>t, <1>17 DEF limiterVars, LimiterTypeOK
<1> QED BY <1>1, <1>2, <1>3, <1>4, <1>5, <1>6, <1>7, <1>8, <1>9, <1>10, <1>11, <1>12, <1>13, <1>14, <1>15, <1>16, <1>17
           DEF LimiterNext

\* How each step moves its caller between the three sets.
LEMMA Moves ==
  ASSUME LimiterTypeOK, NEW c \in Callers
  PROVE
    /\ Acquire(c) => /\ (Permits' = Permits)
        /\ (Slots' = Slots)
        /\ (c \notin Uncounted /\ Uncounted' = Uncounted \cup {c})
    /\ ReserveSlot(c) => /\ (Permits' = Permits)
        /\ (Slots' = Slots)
        /\ (c \notin Uncounted /\ Uncounted' = Uncounted \cup {c})
    /\ SoftAdmit(c) => /\ (c \notin Permits /\ Permits' = Permits \cup {c})
        /\ (Slots' = Slots)
        /\ (Uncounted' = Uncounted)
    /\ LoadActive(c) => /\ (Permits' = Permits)
        /\ (Slots' = Slots)
        /\ (Uncounted' = Uncounted)
    /\ CasActive(c) => /\ (IF active = seen[c] THEN c \notin Permits /\ Permits' = Permits \cup {c} ELSE Permits' = Permits)
        /\ (Slots' = Slots)
        /\ (Uncounted' = Uncounted)
    /\ LoadQueued(c) => /\ (Permits' = Permits)
        /\ (Slots' = Slots)
        /\ (Uncounted' = Uncounted)
    /\ CasQueued(c) => /\ (Permits' = Permits)
        /\ (IF queued = seen[c] THEN c \notin Slots /\ Slots' = Slots \cup {c} ELSE Slots' = Slots)
        /\ (Uncounted' = Uncounted)
    /\ CountAdmitted(c) => /\ (Permits' = Permits)
        /\ (Slots' = Slots)
        /\ (c \in Uncounted /\ Uncounted' = Uncounted \ {c})
    /\ CountRejected(c) => /\ (Permits' = Permits)
        /\ (Slots' = Slots)
        /\ (c \in Uncounted /\ Uncounted' = Uncounted \ {c})
    /\ PromoteLoad(c) => /\ (Permits' = Permits)
        /\ (Slots' = Slots)
        /\ (Uncounted' = Uncounted)
    /\ PromoteCas(c) => /\ (IF active = seen[c] THEN c \notin Permits /\ Permits' = Permits \cup {c} ELSE Permits' = Permits)
        /\ (Slots' = Slots)
        /\ (Uncounted' = Uncounted)
    /\ FreeSlot(c) => /\ (Permits' = Permits)
        /\ (c \in Slots /\ Slots' = Slots \ {c})
        /\ (Uncounted' = Uncounted)
    /\ TimeOut(c) => /\ (Permits' = Permits)
        /\ (c \in Slots /\ Slots' = Slots \ {c})
        /\ (Uncounted' = Uncounted)
    /\ CountTimeout(c) => /\ (Permits' = Permits)
        /\ (Slots' = Slots)
        /\ (Uncounted' = Uncounted)
    /\ Abandon(c) => /\ (Permits' = Permits)
        /\ (c \in Slots /\ Slots' = Slots \ {c})
        /\ (Uncounted' = Uncounted)
    /\ Release(c) => /\ (c \in Permits /\ Permits' = Permits \ {c})
        /\ (Slots' = Slots)
        /\ (Uncounted' = Uncounted)
<1>1. ASSUME Acquire(c)
      PROVE  (Permits' = Permits) /\ (Slots' = Slots) /\ (c \notin Uncounted /\ Uncounted' = Uncounted \cup {c})
  <2>1. \A d \in Callers: d # c => pc'[d] = pc[d]
    BY <1>1 DEF Acquire, LimiterTypeOK, MoveTo
  <2>2. Permits' = Permits
    BY <1>1, <2>1 DEF Acquire, LimiterTypeOK, At, MoveTo, Permits
  <2>3. Slots' = Slots
    BY <1>1, <2>1 DEF Acquire, LimiterTypeOK, At, MoveTo, Slots
  <2>4. c \notin Uncounted /\ Uncounted' = Uncounted \cup {c}
    BY <1>1, <2>1 DEF Acquire, LimiterTypeOK, At, MoveTo, Uncounted
  <2> QED BY <2>2, <2>3, <2>4
<1>2. ASSUME ReserveSlot(c)
      PROVE  (Permits' = Permits) /\ (Slots' = Slots) /\ (c \notin Uncounted /\ Uncounted' = Uncounted \cup {c})
  <2>1. \A d \in Callers: d # c => pc'[d] = pc[d]
    BY <1>2 DEF ReserveSlot, LimiterTypeOK, MoveTo
  <2>2. Permits' = Permits
    BY <1>2, <2>1 DEF ReserveSlot, LimiterTypeOK, At, MoveTo, Permits
  <2>3. Slots' = Slots
    BY <1>2, <2>1 DEF ReserveSlot, LimiterTypeOK, At, MoveTo, Slots
  <2>4. c \notin Uncounted /\ Uncounted' = Uncounted \cup {c}
    BY <1>2, <2>1 DEF ReserveSlot, LimiterTypeOK, At, MoveTo, Uncounted
  <2> QED BY <2>2, <2>3, <2>4
<1>3. ASSUME SoftAdmit(c)
      PROVE  (c \notin Permits /\ Permits' = Permits \cup {c}) /\ (Slots' = Slots) /\ (Uncounted' = Uncounted)
  <2>1. \A d \in Callers: d # c => pc'[d] = pc[d]
    BY <1>3 DEF SoftAdmit, LimiterTypeOK, MoveTo
  <2>2. c \notin Permits /\ Permits' = Permits \cup {c}
    BY <1>3, <2>1 DEF SoftAdmit, LimiterTypeOK, At, MoveTo, Permits
  <2>3. Slots' = Slots
    BY <1>3, <2>1 DEF SoftAdmit, LimiterTypeOK, At, MoveTo, Slots
  <2>4. Uncounted' = Uncounted
    BY <1>3, <2>1 DEF SoftAdmit, LimiterTypeOK, At, MoveTo, Uncounted
  <2> QED BY <2>2, <2>3, <2>4
<1>4. ASSUME LoadActive(c)
      PROVE  (Permits' = Permits) /\ (Slots' = Slots) /\ (Uncounted' = Uncounted)
  <2>1. \A d \in Callers: d # c => pc'[d] = pc[d]
    BY <1>4 DEF LoadActive, LimiterTypeOK, MoveTo
  <2>2. Permits' = Permits
    BY <1>4, <2>1 DEF LoadActive, LimiterTypeOK, At, MoveTo, Permits
  <2>3. Slots' = Slots
    BY <1>4, <2>1 DEF LoadActive, LimiterTypeOK, At, MoveTo, Slots
  <2>4. Uncounted' = Uncounted
    BY <1>4, <2>1 DEF LoadActive, LimiterTypeOK, At, MoveTo, Uncounted
  <2> QED BY <2>2, <2>3, <2>4
<1>5. ASSUME CasActive(c)
      PROVE  (IF active = seen[c] THEN c \notin Permits /\ Permits' = Permits \cup {c} ELSE Permits' = Permits) /\ (Slots' = Slots) /\ (Uncounted' = Uncounted)
  <2>1. \A d \in Callers: d # c => pc'[d] = pc[d]
    BY <1>5 DEF CasActive, LimiterTypeOK, MoveTo
  <2>2. IF active = seen[c] THEN c \notin Permits /\ Permits' = Permits \cup {c} ELSE Permits' = Permits
    BY <1>5, <2>1 DEF CasActive, LimiterTypeOK, At, MoveTo, Permits
  <2>3. Slots' = Slots
    BY <1>5, <2>1 DEF CasActive, LimiterTypeOK, At, MoveTo, Slots
  <2>4. Uncounted' = Uncounted
    BY <1>5, <2>1 DEF CasActive, LimiterTypeOK, At, MoveTo, Uncounted
  <2> QED BY <2>2, <2>3, <2>4
<1>6. ASSUME LoadQueued(c)
      PROVE  (Permits' = Permits) /\ (Slots' = Slots) /\ (Uncounted' = Uncounted)
  <2>1. \A d \in Callers: d # c => pc'[d] = pc[d]
    BY <1>6 DEF LoadQueued, LimiterTypeOK, MoveTo
  <2>2. Permits' = Permits
    BY <1>6, <2>1 DEF LoadQueued, LimiterTypeOK, At, MoveTo, Permits
  <2>3. Slots' = Slots
    BY <1>6, <2>1 DEF LoadQueued, LimiterTypeOK, At, MoveTo, Slots
  <2>4. Uncounted' = Uncounted
    BY <1>6, <2>1 DEF LoadQueued, LimiterTypeOK, At, MoveTo, Uncounted
  <2> QED BY <2>2, <2>3, <2>4
<1>7. ASSUME CasQueued(c)
      PROVE  (Permits' = Permits) /\ (IF queued = seen[c] THEN c \notin Slots /\ Slots' = Slots \cup {c} ELSE Slots' = Slots) /\ (Uncounted' = Uncounted)
  <2>1. \A d \in Callers: d # c => pc'[d] = pc[d]
    BY <1>7 DEF CasQueued, LimiterTypeOK, MoveTo
  <2>2. Permits' = Permits
    BY <1>7, <2>1 DEF CasQueued, LimiterTypeOK, At, MoveTo, Permits
  <2>3. IF queued = seen[c] THEN c \notin Slots /\ Slots' = Slots \cup {c} ELSE Slots' = Slots
    BY <1>7, <2>1 DEF CasQueued, LimiterTypeOK, At, MoveTo, Slots
  <2>4. Uncounted' = Uncounted
    BY <1>7, <2>1 DEF CasQueued, LimiterTypeOK, At, MoveTo, Uncounted
  <2> QED BY <2>2, <2>3, <2>4
<1>8. ASSUME CountAdmitted(c)
      PROVE  (Permits' = Permits) /\ (Slots' = Slots) /\ (c \in Uncounted /\ Uncounted' = Uncounted \ {c})
  <2>1. \A d \in Callers: d # c => pc'[d] = pc[d]
    BY <1>8 DEF CountAdmitted, LimiterTypeOK, MoveTo
  <2>2. Permits' = Permits
    BY <1>8, <2>1 DEF CountAdmitted, LimiterTypeOK, At, MoveTo, Permits
  <2>3. Slots' = Slots
    BY <1>8, <2>1 DEF CountAdmitted, LimiterTypeOK, At, MoveTo, Slots
  <2>4. c \in Uncounted /\ Uncounted' = Uncounted \ {c}
    BY <1>8, <2>1 DEF CountAdmitted, LimiterTypeOK, At, MoveTo, Uncounted
  <2> QED BY <2>2, <2>3, <2>4
<1>9. ASSUME CountRejected(c)
      PROVE  (Permits' = Permits) /\ (Slots' = Slots) /\ (c \in Uncounted /\ Uncounted' = Uncounted \ {c})
  <2>1. \A d \in Callers: d # c => pc'[d] = pc[d]
    BY <1>9 DEF CountRejected, LimiterTypeOK, MoveTo
  <2>2. Permits' = Permits
    BY <1>9, <2>1 DEF CountRejected, LimiterTypeOK, At, MoveTo, Permits
  <2>3. Slots' = Slots
    BY <1>9, <2>1 DEF CountRejected, LimiterTypeOK, At, MoveTo, Slots
  <2>4. c \in Uncounted /\ Uncounted' = Uncounted \ {c}
    BY <1>9, <2>1 DEF CountRejected, LimiterTypeOK, At, MoveTo, Uncounted
  <2> QED BY <2>2, <2>3, <2>4
<1>10. ASSUME PromoteLoad(c)
       PROVE  (Permits' = Permits) /\ (Slots' = Slots) /\ (Uncounted' = Uncounted)
  <2>1. \A d \in Callers: d # c => pc'[d] = pc[d]
    BY <1>10 DEF PromoteLoad, LimiterTypeOK, MoveTo
  <2>2. Permits' = Permits
    BY <1>10, <2>1 DEF PromoteLoad, LimiterTypeOK, At, MoveTo, Permits
  <2>3. Slots' = Slots
    BY <1>10, <2>1 DEF PromoteLoad, LimiterTypeOK, At, MoveTo, Slots
  <2>4. Uncounted' = Uncounted
    BY <1>10, <2>1 DEF PromoteLoad, LimiterTypeOK, At, MoveTo, Uncounted
  <2> QED BY <2>2, <2>3, <2>4
<1>11. ASSUME PromoteCas(c)
       PROVE  (IF active = seen[c] THEN c \notin Permits /\ Permits' = Permits \cup {c} ELSE Permits' = Permits) /\ (Slots' = Slots) /\ (Uncounted' = Uncounted)
  <2>1. \A d \in Callers: d # c => pc'[d] = pc[d]
    BY <1>11 DEF PromoteCas, LimiterTypeOK, MoveTo
  <2>2. IF active = seen[c] THEN c \notin Permits /\ Permits' = Permits \cup {c} ELSE Permits' = Permits
    BY <1>11, <2>1 DEF PromoteCas, LimiterTypeOK, At, MoveTo, Permits
  <2>3. Slots' = Slots
    BY <1>11, <2>1 DEF PromoteCas, LimiterTypeOK, At, MoveTo, Slots
  <2>4. Uncounted' = Uncounted
    BY <1>11, <2>1 DEF PromoteCas, LimiterTypeOK, At, MoveTo, Uncounted
  <2> QED BY <2>2, <2>3, <2>4
<1>12. ASSUME FreeSlot(c)
       PROVE  (Permits' = Permits) /\ (c \in Slots /\ Slots' = Slots \ {c}) /\ (Uncounted' = Uncounted)
  <2>1. \A d \in Callers: d # c => pc'[d] = pc[d]
    BY <1>12 DEF FreeSlot, LimiterTypeOK, MoveTo
  <2>2. Permits' = Permits
    BY <1>12, <2>1 DEF FreeSlot, LimiterTypeOK, At, MoveTo, Permits
  <2>3. c \in Slots /\ Slots' = Slots \ {c}
    BY <1>12, <2>1 DEF FreeSlot, LimiterTypeOK, At, MoveTo, Slots
  <2>4. Uncounted' = Uncounted
    BY <1>12, <2>1 DEF FreeSlot, LimiterTypeOK, At, MoveTo, Uncounted
  <2> QED BY <2>2, <2>3, <2>4
<1>13. ASSUME TimeOut(c)
       PROVE  (Permits' = Permits) /\ (c \in Slots /\ Slots' = Slots \ {c}) /\ (Uncounted' = Uncounted)
  <2>1. \A d \in Callers: d # c => pc'[d] = pc[d]
    BY <1>13 DEF TimeOut, LimiterTypeOK, MoveTo
  <2>2. Permits' = Permits
    BY <1>13, <2>1 DEF TimeOut, LimiterTypeOK, At, MoveTo, Permits
  <2>3. c \in Slots /\ Slots' = Slots \ {c}
    BY <1>13, <2>1 DEF TimeOut, LimiterTypeOK, At, MoveTo, Slots
  <2>4. Uncounted' = Uncounted
    BY <1>13, <2>1 DEF TimeOut, LimiterTypeOK, At, MoveTo, Uncounted
  <2> QED BY <2>2, <2>3, <2>4
<1>14. ASSUME CountTimeout(c)
       PROVE  (Permits' = Permits) /\ (Slots' = Slots) /\ (Uncounted' = Uncounted)
  <2>1. \A d \in Callers: d # c => pc'[d] = pc[d]
    BY <1>14 DEF CountTimeout, LimiterTypeOK, MoveTo
  <2>2. Permits' = Permits
    BY <1>14, <2>1 DEF CountTimeout, LimiterTypeOK, At, MoveTo, Permits
  <2>3. Slots' = Slots
    BY <1>14, <2>1 DEF CountTimeout, LimiterTypeOK, At, MoveTo, Slots
  <2>4. Uncounted' = Uncounted
    BY <1>14, <2>1 DEF CountTimeout, LimiterTypeOK, At, MoveTo, Uncounted
  <2> QED BY <2>2, <2>3, <2>4
<1>15. ASSUME Abandon(c)
       PROVE  (Permits' = Permits) /\ (c \in Slots /\ Slots' = Slots \ {c}) /\ (Uncounted' = Uncounted)
  <2>1. \A d \in Callers: d # c => pc'[d] = pc[d]
    BY <1>15 DEF Abandon, LimiterTypeOK, MoveTo
  <2>2. Permits' = Permits
    BY <1>15, <2>1 DEF Abandon, LimiterTypeOK, At, MoveTo, Permits
  <2>3. c \in Slots /\ Slots' = Slots \ {c}
    BY <1>15, <2>1 DEF Abandon, LimiterTypeOK, At, MoveTo, Slots
  <2>4. Uncounted' = Uncounted
    BY <1>15, <2>1 DEF Abandon, LimiterTypeOK, At, MoveTo, Uncounted
  <2> QED BY <2>2, <2>3, <2>4
<1>16. ASSUME Release(c)
       PROVE  (c \in Permits /\ Permits' = Permits \ {c}) /\ (Slots' = Slots) /\ (Uncounted' = Uncounted)
  <2>1. \A d \in Callers: d # c => pc'[d] = pc[d]
    BY <1>16 DEF Release, LimiterTypeOK, MoveTo
  <2>2. c \in Permits /\ Permits' = Permits \ {c}
    BY <1>16, <2>1 DEF Release, LimiterTypeOK, At, MoveTo, Permits
  <2>3. Slots' = Slots
    BY <1>16, <2>1 DEF Release, LimiterTypeOK, At, MoveTo, Slots
  <2>4. Uncounted' = Uncounted
    BY <1>16, <2>1 DEF Release, LimiterTypeOK, At, MoveTo, Uncounted
  <2> QED BY <2>2, <2>3, <2>4
<1> QED BY <1>1, <1>2, <1>3, <1>4, <1>5, <1>6, <1>7, <1>8, <1>9, <1>10, <1>11, <1>12, <1>13, <1>14, <1>15, <1>16

\* Every step keeps the counters equal to what they count.
LEMMA LimiterExact ==
  ASSUME LimiterAssumption
  PROVE  LimiterInv /\ [LimiterNext]_limiterVars => CountersExact' /\ CallsCounted'
<1> SUFFICES ASSUME LimiterInv, [LimiterNext]_limiterVars PROVE CountersExact' /\ CallsCounted'
  OBVIOUS
<1>t. LimiterTypeOK /\ active = Cardinality(Permits) /\ queued = Cardinality(Slots)
      /\ admitted + rejected + Cardinality(Uncounted) = calls
  BY DEF LimiterInv, CountersExact, CallsCounted
<1>s. Permits \subseteq Callers /\ Slots \subseteq Callers /\ Uncounted \subseteq Callers
  BY DEF Permits, Slots, Uncounted
<1>1. ASSUME NEW c \in Callers, Acquire(c) PROVE CountersExact' /\ CallsCounted'
  <2>1. (Permits' = Permits) /\ (Slots' = Slots) /\ (c \notin Uncounted /\ Uncounted' = Uncounted \cup {c})
    BY <1>1, <1>t, Moves
  <2>2. /\ Cardinality(Permits) \in Nat /\ Cardinality(Slots) \in Nat /\ Cardinality(Uncounted) \in Nat
        /\ c \notin Permits => Cardinality(Permits \cup {c}) = Cardinality(Permits) + 1
        /\ c \in Permits => Cardinality(Permits \ {c}) = Cardinality(Permits) - 1
        /\ c \notin Slots => Cardinality(Slots \cup {c}) = Cardinality(Slots) + 1
        /\ c \in Slots => Cardinality(Slots \ {c}) = Cardinality(Slots) - 1
        /\ c \notin Uncounted => Cardinality(Uncounted \cup {c}) = Cardinality(Uncounted) + 1
        /\ c \in Uncounted => Cardinality(Uncounted \ {c}) = Cardinality(Uncounted) - 1
    BY <1>s, OneMore
  <2>3. active' = Cardinality(Permits') /\ queued' = Cardinality(Slots')
    BY <1>1, <1>t, <2>1, <2>2 DEF Acquire, counters
  <2>4. admitted' + rejected' + Cardinality(Uncounted') = calls'
    BY <1>1, <1>t, <2>1, <2>2 DEF Acquire, counters, LimiterTypeOK
  <2> QED BY <2>3, <2>4 DEF CountersExact, CallsCounted
<1>2. ASSUME NEW c \in Callers, ReserveSlot(c) PROVE CountersExact' /\ CallsCounted'
  <2>1. (Permits' = Permits) /\ (Slots' = Slots) /\ (c \notin Uncounted /\ Uncounted' = Uncounted \cup {c})
    BY <1>2, <1>t, Moves
  <2>2. /\ Cardinality(Permits) \in Nat /\ Cardinality(Slots) \in Nat /\ Cardinality(Uncounted) \in Nat
        /\ c \notin Permits => Cardinality(Permits \cup {c}) = Cardinality(Permits) + 1
        /\ c \in Permits => Cardinality(Permits \ {c}) = Cardinality(Permits) - 1
        /\ c \notin Slots => Cardinality(Slots \cup {c}) = Cardinality(Slots) + 1
        /\ c \in Slots => Cardinality(Slots \ {c}) = Cardinality(Slots) - 1
        /\ c \notin Uncounted => Cardinality(Uncounted \cup {c}) = Cardinality(Uncounted) + 1
        /\ c \in Uncounted => Cardinality(Uncounted \ {c}) = Cardinality(Uncounted) - 1
    BY <1>s, OneMore
  <2>3. active' = Cardinality(Permits') /\ queued' = Cardinality(Slots')
    BY <1>2, <1>t, <2>1, <2>2 DEF ReserveSlot, counters
  <2>4. admitted' + rejected' + Cardinality(Uncounted') = calls'
    BY <1>2, <1>t, <2>1, <2>2 DEF ReserveSlot, counters, LimiterTypeOK
  <2> QED BY <2>3, <2>4 DEF CountersExact, CallsCounted
<1>3. ASSUME NEW c \in Callers, SoftAdmit(c) PROVE CountersExact' /\ CallsCounted'
  <2>1. (c \notin Permits /\ Permits' = Permits \cup {c}) /\ (Slots' = Slots) /\ (Uncounted' = Uncounted)
    BY <1>3, <1>t, Moves
  <2>2. /\ Cardinality(Permits) \in Nat /\ Cardinality(Slots) \in Nat /\ Cardinality(Uncounted) \in Nat
        /\ c \notin Permits => Cardinality(Permits \cup {c}) = Cardinality(Permits) + 1
        /\ c \in Permits => Cardinality(Permits \ {c}) = Cardinality(Permits) - 1
        /\ c \notin Slots => Cardinality(Slots \cup {c}) = Cardinality(Slots) + 1
        /\ c \in Slots => Cardinality(Slots \ {c}) = Cardinality(Slots) - 1
        /\ c \notin Uncounted => Cardinality(Uncounted \cup {c}) = Cardinality(Uncounted) + 1
        /\ c \in Uncounted => Cardinality(Uncounted \ {c}) = Cardinality(Uncounted) - 1
    BY <1>s, OneMore
  <2>3. active' = Cardinality(Permits') /\ queued' = Cardinality(Slots')
    BY <1>3, <1>t, <2>1, <2>2 DEF SoftAdmit, counters
  <2>4. admitted' + rejected' + Cardinality(Uncounted') = calls'
    BY <1>3, <1>t, <2>1, <2>2 DEF SoftAdmit, counters, LimiterTypeOK
  <2> QED BY <2>3, <2>4 DEF CountersExact, CallsCounted
<1>4. ASSUME NEW c \in Callers, LoadActive(c) PROVE CountersExact' /\ CallsCounted'
  <2>1. (Permits' = Permits) /\ (Slots' = Slots) /\ (Uncounted' = Uncounted)
    BY <1>4, <1>t, Moves
  <2>2. /\ Cardinality(Permits) \in Nat /\ Cardinality(Slots) \in Nat /\ Cardinality(Uncounted) \in Nat
        /\ c \notin Permits => Cardinality(Permits \cup {c}) = Cardinality(Permits) + 1
        /\ c \in Permits => Cardinality(Permits \ {c}) = Cardinality(Permits) - 1
        /\ c \notin Slots => Cardinality(Slots \cup {c}) = Cardinality(Slots) + 1
        /\ c \in Slots => Cardinality(Slots \ {c}) = Cardinality(Slots) - 1
        /\ c \notin Uncounted => Cardinality(Uncounted \cup {c}) = Cardinality(Uncounted) + 1
        /\ c \in Uncounted => Cardinality(Uncounted \ {c}) = Cardinality(Uncounted) - 1
    BY <1>s, OneMore
  <2>3. active' = Cardinality(Permits') /\ queued' = Cardinality(Slots')
    BY <1>4, <1>t, <2>1, <2>2 DEF LoadActive, counters
  <2>4. admitted' + rejected' + Cardinality(Uncounted') = calls'
    BY <1>4, <1>t, <2>1, <2>2 DEF LoadActive, counters, LimiterTypeOK
  <2> QED BY <2>3, <2>4 DEF CountersExact, CallsCounted
<1>5. ASSUME NEW c \in Callers, CasActive(c) PROVE CountersExact' /\ CallsCounted'
  <2>1. (IF active = seen[c] THEN c \notin Permits /\ Permits' = Permits \cup {c} ELSE Permits' = Permits) /\ (Slots' = Slots) /\ (Uncounted' = Uncounted)
    BY <1>5, <1>t, Moves
  <2>2. /\ Cardinality(Permits) \in Nat /\ Cardinality(Slots) \in Nat /\ Cardinality(Uncounted) \in Nat
        /\ c \notin Permits => Cardinality(Permits \cup {c}) = Cardinality(Permits) + 1
        /\ c \in Permits => Cardinality(Permits \ {c}) = Cardinality(Permits) - 1
        /\ c \notin Slots => Cardinality(Slots \cup {c}) = Cardinality(Slots) + 1
        /\ c \in Slots => Cardinality(Slots \ {c}) = Cardinality(Slots) - 1
        /\ c \notin Uncounted => Cardinality(Uncounted \cup {c}) = Cardinality(Uncounted) + 1
        /\ c \in Uncounted => Cardinality(Uncounted \ {c}) = Cardinality(Uncounted) - 1
    BY <1>s, OneMore
  <2>3. active' = Cardinality(Permits') /\ queued' = Cardinality(Slots')
    BY <1>5, <1>t, <2>1, <2>2 DEF CasActive, counters
  <2>4. admitted' + rejected' + Cardinality(Uncounted') = calls'
    BY <1>5, <1>t, <2>1, <2>2 DEF CasActive, counters, LimiterTypeOK
  <2> QED BY <2>3, <2>4 DEF CountersExact, CallsCounted
<1>6. ASSUME NEW c \in Callers, LoadQueued(c) PROVE CountersExact' /\ CallsCounted'
  <2>1. (Permits' = Permits) /\ (Slots' = Slots) /\ (Uncounted' = Uncounted)
    BY <1>6, <1>t, Moves
  <2>2. /\ Cardinality(Permits) \in Nat /\ Cardinality(Slots) \in Nat /\ Cardinality(Uncounted) \in Nat
        /\ c \notin Permits => Cardinality(Permits \cup {c}) = Cardinality(Permits) + 1
        /\ c \in Permits => Cardinality(Permits \ {c}) = Cardinality(Permits) - 1
        /\ c \notin Slots => Cardinality(Slots \cup {c}) = Cardinality(Slots) + 1
        /\ c \in Slots => Cardinality(Slots \ {c}) = Cardinality(Slots) - 1
        /\ c \notin Uncounted => Cardinality(Uncounted \cup {c}) = Cardinality(Uncounted) + 1
        /\ c \in Uncounted => Cardinality(Uncounted \ {c}) = Cardinality(Uncounted) - 1
    BY <1>s, OneMore
  <2>3. active' = Cardinality(Permits') /\ queued' = Cardinality(Slots')
    BY <1>6, <1>t, <2>1, <2>2 DEF LoadQueued, counters
  <2>4. admitted' + rejected' + Cardinality(Uncounted') = calls'
    BY <1>6, <1>t, <2>1, <2>2 DEF LoadQueued, counters, LimiterTypeOK
  <2> QED BY <2>3, <2>4 DEF CountersExact, CallsCounted
<1>7. ASSUME NEW c \in Callers, CasQueued(c) PROVE CountersExact' /\ CallsCounted'
  <2>1. (Permits' = Permits) /\ (IF queued = seen[c] THEN c \notin Slots /\ Slots' = Slots \cup {c} ELSE Slots' = Slots) /\ (Uncounted' = Uncounted)
    BY <1>7, <1>t, Moves
  <2>2. /\ Cardinality(Permits) \in Nat /\ Cardinality(Slots) \in Nat /\ Cardinality(Uncounted) \in Nat
        /\ c \notin Permits => Cardinality(Permits \cup {c}) = Cardinality(Permits) + 1
        /\ c \in Permits => Cardinality(Permits \ {c}) = Cardinality(Permits) - 1
        /\ c \notin Slots => Cardinality(Slots \cup {c}) = Cardinality(Slots) + 1
        /\ c \in Slots => Cardinality(Slots \ {c}) = Cardinality(Slots) - 1
        /\ c \notin Uncounted => Cardinality(Uncounted \cup {c}) = Cardinality(Uncounted) + 1
        /\ c \in Uncounted => Cardinality(Uncounted \ {c}) = Cardinality(Uncounted) - 1
    BY <1>s, OneMore
  <2>3. active' = Cardinality(Permits') /\ queued' = Cardinality(Slots')
    BY <1>7, <1>t, <2>1, <2>2 DEF CasQueued, counters
  <2>4. admitted' + rejected' + Cardinality(Uncounted') = calls'
    BY <1>7, <1>t, <2>1, <2>2 DEF CasQueued, counters, LimiterTypeOK
  <2> QED BY <2>3, <2>4 DEF CountersExact, CallsCounted
<1>8. ASSUME NEW c \in Callers, CountAdmitted(c) PROVE CountersExact' /\ CallsCounted'
  <2>1. (Permits' = Permits) /\ (Slots' = Slots) /\ (c \in Uncounted /\ Uncounted' = Uncounted \ {c})
    BY <1>8, <1>t, Moves
  <2>2. /\ Cardinality(Permits) \in Nat /\ Cardinality(Slots) \in Nat /\ Cardinality(Uncounted) \in Nat
        /\ c \notin Permits => Cardinality(Permits \cup {c}) = Cardinality(Permits) + 1
        /\ c \in Permits => Cardinality(Permits \ {c}) = Cardinality(Permits) - 1
        /\ c \notin Slots => Cardinality(Slots \cup {c}) = Cardinality(Slots) + 1
        /\ c \in Slots => Cardinality(Slots \ {c}) = Cardinality(Slots) - 1
        /\ c \notin Uncounted => Cardinality(Uncounted \cup {c}) = Cardinality(Uncounted) + 1
        /\ c \in Uncounted => Cardinality(Uncounted \ {c}) = Cardinality(Uncounted) - 1
    BY <1>s, OneMore
  <2>3. active' = Cardinality(Permits') /\ queued' = Cardinality(Slots')
    BY <1>8, <1>t, <2>1, <2>2 DEF CountAdmitted, counters
  <2>4. admitted' + rejected' + Cardinality(Uncounted') = calls'
    BY <1>8, <1>t, <2>1, <2>2 DEF CountAdmitted, counters, LimiterTypeOK
  <2> QED BY <2>3, <2>4 DEF CountersExact, CallsCounted
<1>9. ASSUME NEW c \in Callers, CountRejected(c) PROVE CountersExact' /\ CallsCounted'
  <2>1. (Permits' = Permits) /\ (Slots' = Slots) /\ (c \in Uncounted /\ Uncounted' = Uncounted \ {c})
    BY <1>9, <1>t, Moves
  <2>2. /\ Cardinality(Permits) \in Nat /\ Cardinality(Slots) \in Nat /\ Cardinality(Uncounted) \in Nat
        /\ c \notin Permits => Cardinality(Permits \cup {c}) = Cardinality(Permits) + 1
        /\ c \in Permits => Cardinality(Permits \ {c}) = Cardinality(Permits) - 1
        /\ c \notin Slots => Cardinality(Slots \cup {c}) = Cardinality(Slots) + 1
        /\ c \in Slots => Cardinality(Slots \ {c}) = Cardinality(Slots) - 1
        /\ c \notin Uncounted => Cardinality(Uncounted \cup {c}) = Cardinality(Uncounted) + 1
        /\ c \in Uncounted => Cardinality(Uncounted \ {c}) = Cardinality(Uncounted) - 1
    BY <1>s, OneMore
  <2>3. active' = Cardinality(Permits') /\ queued' = Cardinality(Slots')
    BY <1>9, <1>t, <2>1, <2>2 DEF CountRejected, counters
  <2>4. admitted' + rejected' + Cardinality(Uncounted') = calls'
    BY <1>9, <1>t, <2>1, <2>2 DEF CountRejected, counters, LimiterTypeOK
  <2> QED BY <2>3, <2>4 DEF CountersExact, CallsCounted
<1>10. ASSUME NEW c \in Callers, PromoteLoad(c) PROVE CountersExact' /\ CallsCounted'
  <2>1. (Permits' = Permits) /\ (Slots' = Slots) /\ (Uncounted' = Uncounted)
    BY <1>10, <1>t, Moves
  <2>2. /\ Cardinality(Permits) \in Nat /\ Cardinality(Slots) \in Nat /\ Cardinality(Uncounted) \in Nat
        /\ c \notin Permits => Cardinality(Permits \cup {c}) = Cardinality(Permits) + 1
        /\ c \in Permits => Cardinality(Permits \ {c}) = Cardinality(Permits) - 1
        /\ c \notin Slots => Cardinality(Slots \cup {c}) = Cardinality(Slots) + 1
        /\ c \in Slots => Cardinality(Slots \ {c}) = Cardinality(Slots) - 1
        /\ c \notin Uncounted => Cardinality(Uncounted \cup {c}) = Cardinality(Uncounted) + 1
        /\ c \in Uncounted => Cardinality(Uncounted \ {c}) = Cardinality(Uncounted) - 1
    BY <1>s, OneMore
  <2>3. active' = Cardinality(Permits') /\ queued' = Cardinality(Slots')
    BY <1>10, <1>t, <2>1, <2>2 DEF PromoteLoad, counters
  <2>4. admitted' + rejected' + Cardinality(Uncounted') = calls'
    BY <1>10, <1>t, <2>1, <2>2 DEF PromoteLoad, counters, LimiterTypeOK
  <2> QED BY <2>3, <2>4 DEF CountersExact, CallsCounted
<1>11. ASSUME NEW c \in Callers, PromoteCas(c) PROVE CountersExact' /\ CallsCounted'
  <2>1. (IF active = seen[c] THEN c \notin Permits /\ Permits' = Permits \cup {c} ELSE Permits' = Permits) /\ (Slots' = Slots) /\ (Uncounted' = Uncounted)
    BY <1>11, <1>t, Moves
  <2>2. /\ Cardinality(Permits) \in Nat /\ Cardinality(Slots) \in Nat /\ Cardinality(Uncounted) \in Nat
        /\ c \notin Permits => Cardinality(Permits \cup {c}) = Cardinality(Permits) + 1
        /\ c \in Permits => Cardinality(Permits \ {c}) = Cardinality(Permits) - 1
        /\ c \notin Slots => Cardinality(Slots \cup {c}) = Cardinality(Slots) + 1
        /\ c \in Slots => Cardinality(Slots \ {c}) = Cardinality(Slots) - 1
        /\ c \notin Uncounted => Cardinality(Uncounted \cup {c}) = Cardinality(Uncounted) + 1
        /\ c \in Uncounted => Cardinality(Uncounted \ {c}) = Cardinality(Uncounted) - 1
    BY <1>s, OneMore
  <2>3. active' = Cardinality(Permits') /\ queued' = Cardinality(Slots')
    BY <1>11, <1>t, <2>1, <2>2 DEF PromoteCas, counters
  <2>4. admitted' + rejected' + Cardinality(Uncounted') = calls'
    BY <1>11, <1>t, <2>1, <2>2 DEF PromoteCas, counters, LimiterTypeOK
  <2> QED BY <2>3, <2>4 DEF CountersExact, CallsCounted
<1>12. ASSUME NEW c \in Callers, FreeSlot(c) PROVE CountersExact' /\ CallsCounted'
  <2>1. (Permits' = Permits) /\ (c \in Slots /\ Slots' = Slots \ {c}) /\ (Uncounted' = Uncounted)
    BY <1>12, <1>t, Moves
  <2>2. /\ Cardinality(Permits) \in Nat /\ Cardinality(Slots) \in Nat /\ Cardinality(Uncounted) \in Nat
        /\ c \notin Permits => Cardinality(Permits \cup {c}) = Cardinality(Permits) + 1
        /\ c \in Permits => Cardinality(Permits \ {c}) = Cardinality(Permits) - 1
        /\ c \notin Slots => Cardinality(Slots \cup {c}) = Cardinality(Slots) + 1
        /\ c \in Slots => Cardinality(Slots \ {c}) = Cardinality(Slots) - 1
        /\ c \notin Uncounted => Cardinality(Uncounted \cup {c}) = Cardinality(Uncounted) + 1
        /\ c \in Uncounted => Cardinality(Uncounted \ {c}) = Cardinality(Uncounted) - 1
    BY <1>s, OneMore
  <2>3. active' = Cardinality(Permits') /\ queued' = Cardinality(Slots')
    BY <1>12, <1>t, <2>1, <2>2 DEF FreeSlot, counters
  <2>4. admitted' + rejected' + Cardinality(Uncounted') = calls'
    BY <1>12, <1>t, <2>1, <2>2 DEF FreeSlot, counters, LimiterTypeOK
  <2> QED BY <2>3, <2>4 DEF CountersExact, CallsCounted
<1>13. ASSUME NEW c \in Callers, TimeOut(c) PROVE CountersExact' /\ CallsCounted'
  <2>1. (Permits' = Permits) /\ (c \in Slots /\ Slots' = Slots \ {c}) /\ (Uncounted' = Uncounted)
    BY <1>13, <1>t, Moves
  <2>2. /\ Cardinality(Permits) \in Nat /\ Cardinality(Slots) \in Nat /\ Cardinality(Uncounted) \in Nat
        /\ c \notin Permits => Cardinality(Permits \cup {c}) = Cardinality(Permits) + 1
        /\ c \in Permits => Cardinality(Permits \ {c}) = Cardinality(Permits) - 1
        /\ c \notin Slots => Cardinality(Slots \cup {c}) = Cardinality(Slots) + 1
        /\ c \in Slots => Cardinality(Slots \ {c}) = Cardinality(Slots) - 1
        /\ c \notin Uncounted => Cardinality(Uncounted \cup {c}) = Cardinality(Uncounted) + 1
        /\ c \in Uncounted => Cardinality(Uncounted \ {c}) = Cardinality(Uncounted) - 1
    BY <1>s, OneMore
  <2>3. active' = Cardinality(Permits') /\ queued' = Cardinality(Slots')
    BY <1>13, <1>t, <2>1, <2>2 DEF TimeOut, counters
  <2>4. admitted' + rejected' + Cardinality(Uncounted') = calls'
    BY <1>13, <1>t, <2>1, <2>2 DEF TimeOut, counters, LimiterTypeOK
  <2> QED BY <2>3, <2>4 DEF CountersExact, CallsCounted
<1>14. ASSUME NEW c \in Callers, CountTimeout(c) PROVE CountersExact' /\ CallsCounted'
  <2>1. (Permits' = Permits) /\ (Slots' = Slots) /\ (Uncounted' = Uncounted)
    BY <1>14, <1>t, Moves
  <2>2. /\ Cardinality(Permits) \in Nat /\ Cardinality(Slots) \in Nat /\ Cardinality(Uncounted) \in Nat
        /\ c \notin Permits => Cardinality(Permits \cup {c}) = Cardinality(Permits) + 1
        /\ c \in Permits => Cardinality(Permits \ {c}) = Cardinality(Permits) - 1
        /\ c \notin Slots => Cardinality(Slots \cup {c}) = Cardinality(Slots) + 1
        /\ c \in Slots => Cardinality(Slots \ {c}) = Cardinality(Slots) - 1
        /\ c \notin Uncounted => Cardinality(Uncounted \cup {c}) = Cardinality(Uncounted) + 1
        /\ c \in Uncounted => Cardinality(Uncounted \ {c}) = Cardinality(Uncounted) - 1
    BY <1>s, OneMore
  <2>3. active' = Cardinality(Permits') /\ queued' = Cardinality(Slots')
    BY <1>14, <1>t, <2>1, <2>2 DEF CountTimeout, counters
  <2>4. admitted' + rejected' + Cardinality(Uncounted') = calls'
    BY <1>14, <1>t, <2>1, <2>2 DEF CountTimeout, counters, LimiterTypeOK
  <2> QED BY <2>3, <2>4 DEF CountersExact, CallsCounted
<1>15. ASSUME NEW c \in Callers, Abandon(c) PROVE CountersExact' /\ CallsCounted'
  <2>1. (Permits' = Permits) /\ (c \in Slots /\ Slots' = Slots \ {c}) /\ (Uncounted' = Uncounted)
    BY <1>15, <1>t, Moves
  <2>2. /\ Cardinality(Permits) \in Nat /\ Cardinality(Slots) \in Nat /\ Cardinality(Uncounted) \in Nat
        /\ c \notin Permits => Cardinality(Permits \cup {c}) = Cardinality(Permits) + 1
        /\ c \in Permits => Cardinality(Permits \ {c}) = Cardinality(Permits) - 1
        /\ c \notin Slots => Cardinality(Slots \cup {c}) = Cardinality(Slots) + 1
        /\ c \in Slots => Cardinality(Slots \ {c}) = Cardinality(Slots) - 1
        /\ c \notin Uncounted => Cardinality(Uncounted \cup {c}) = Cardinality(Uncounted) + 1
        /\ c \in Uncounted => Cardinality(Uncounted \ {c}) = Cardinality(Uncounted) - 1
    BY <1>s, OneMore
  <2>3. active' = Cardinality(Permits') /\ queued' = Cardinality(Slots')
    BY <1>15, <1>t, <2>1, <2>2 DEF Abandon, counters
  <2>4. admitted' + rejected' + Cardinality(Uncounted') = calls'
    BY <1>15, <1>t, <2>1, <2>2 DEF Abandon, counters, LimiterTypeOK
  <2> QED BY <2>3, <2>4 DEF CountersExact, CallsCounted
<1>16. ASSUME NEW c \in Callers, Release(c) PROVE CountersExact' /\ CallsCounted'
  <2>1. (c \in Permits /\ Permits' = Permits \ {c}) /\ (Slots' = Slots) /\ (Uncounted' = Uncounted)
    BY <1>16, <1>t, Moves
  <2>2. /\ Cardinality(Permits) \in Nat /\ Cardinality(Slots) \in Nat /\ Cardinality(Uncounted) \in Nat
        /\ c \notin Permits => Cardinality(Permits \cup {c}) = Cardinality(Permits) + 1
        /\ c \in Permits => Cardinality(Permits \ {c}) = Cardinality(Permits) - 1
        /\ c \notin Slots => Cardinality(Slots \cup {c}) = Cardinality(Slots) + 1
        /\ c \in Slots => Cardinality(Slots \ {c}) = Cardinality(Slots) - 1
        /\ c \notin Uncounted => Cardinality(Uncounted \cup {c}) = Cardinality(Uncounted) + 1
        /\ c \in Uncounted => Cardinality(Uncounted \ {c}) = Cardinality(Uncounted) - 1
    BY <1>s, OneMore
  <2>3. active' = Cardinality(Permits') /\ queued' = Cardinality(Slots')
    BY <1>16, <1>t, <2>1, <2>2 DEF Release, counters
  <2>4. admitted' + rejected' + Cardinality(Uncounted') = calls'
    BY <1>16, <1>t, <2>1, <2>2 DEF Release, counters, LimiterTypeOK
  <2> QED BY <2>3, <2>4 DEF CountersExact, CallsCounted
<1>17. CASE UNCHANGED limiterVars
  BY <1>17 DEF limiterVars, LimiterInv, CountersExact, CallsCounted, Permits, Slots, Uncounted
<1> QED BY <1>1, <1>2, <1>3, <1>4, <1>5, <1>6, <1>7, <1>8, <1>9, <1>10, <1>11, <1>12, <1>13, <1>14, <1>15, <1>16, <1>17
           DEF LimiterNext

\* Every step keeps the counters, and the values loaded for a
\* compare_exchange, below the limits.
LEMMA LimiterBounds ==
  ASSUME LimiterAssumption
  PROVE  LimiterInv /\ [LimiterNext]_limiterVars => SeenBelow' /\ CountersBounded'
<1> SUFFICES ASSUME LimiterInv, [LimiterNext]_limiterVars PROVE SeenBelow' /\ CountersBounded'
  OBVIOUS
<1> USE DEF LimiterAssumption
<1>1. ASSUME NEW c \in Callers, Acquire(c) PROVE SeenBelow' /\ CountersBounded'
  <2>1. SeenBelow'
    BY <1>1 DEF Acquire, LimiterInv, LimiterTypeOK, SeenBelow, At, MoveTo, Soft
  <2>2. CountersBounded'
    BY <1>1 DEF Acquire, LimiterInv, LimiterTypeOK, SeenBelow, CountersBounded, At, Soft
  <2> QED BY <2>1, <2>2
<1>2. ASSUME NEW c \in Callers, ReserveSlot(c) PROVE SeenBelow' /\ CountersBounded'
  <2>1. SeenBelow'
    BY <1>2 DEF ReserveSlot, LimiterInv, LimiterTypeOK, SeenBelow, At, MoveTo, Soft
  <2>2. CountersBounded'
    BY <1>2 DEF ReserveSlot, LimiterInv, LimiterTypeOK, SeenBelow, CountersBounded, At, Soft
  <2> QED BY <2>1, <2>2
<1>3. ASSUME NEW c \in Callers, SoftAdmit(c) PROVE SeenBelow' /\ CountersBounded'
  <2>1. SeenBelow'
    BY <1>3 DEF SoftAdmit, LimiterInv, LimiterTypeOK, SeenBelow, At, MoveTo, Soft
  <2>2. CountersBounded'
    BY <1>3 DEF SoftAdmit, LimiterInv, LimiterTypeOK, SeenBelow, CountersBounded, At, Soft
  <2> QED BY <2>1, <2>2
<1>4. ASSUME NEW c \in Callers, LoadActive(c) PROVE SeenBelow' /\ CountersBounded'
  <2>1. SeenBelow'
    BY <1>4 DEF LoadActive, LimiterInv, LimiterTypeOK, SeenBelow, At, MoveTo, Soft
  <2>2. CountersBounded'
    BY <1>4 DEF LoadActive, LimiterInv, LimiterTypeOK, SeenBelow, CountersBounded, At, Soft
  <2> QED BY <2>1, <2>2
<1>5. ASSUME NEW c \in Callers, CasActive(c) PROVE SeenBelow' /\ CountersBounded'
  <2>1. SeenBelow'
    BY <1>5 DEF CasActive, LimiterInv, LimiterTypeOK, SeenBelow, At, MoveTo, Soft
  <2>2. CountersBounded'
    BY <1>5 DEF CasActive, LimiterInv, LimiterTypeOK, SeenBelow, CountersBounded, At, Soft
  <2> QED BY <2>1, <2>2
<1>6. ASSUME NEW c \in Callers, LoadQueued(c) PROVE SeenBelow' /\ CountersBounded'
  <2>1. SeenBelow'
    BY <1>6 DEF LoadQueued, LimiterInv, LimiterTypeOK, SeenBelow, At, MoveTo, Soft
  <2>2. CountersBounded'
    BY <1>6 DEF LoadQueued, LimiterInv, LimiterTypeOK, SeenBelow, CountersBounded, At, Soft
  <2> QED BY <2>1, <2>2
<1>7. ASSUME NEW c \in Callers, CasQueued(c) PROVE SeenBelow' /\ CountersBounded'
  <2>1. SeenBelow'
    BY <1>7 DEF CasQueued, LimiterInv, LimiterTypeOK, SeenBelow, At, MoveTo, Soft
  <2>2. CountersBounded'
    BY <1>7 DEF CasQueued, LimiterInv, LimiterTypeOK, SeenBelow, CountersBounded, At, Soft
  <2> QED BY <2>1, <2>2
<1>8. ASSUME NEW c \in Callers, CountAdmitted(c) PROVE SeenBelow' /\ CountersBounded'
  <2>1. SeenBelow'
    BY <1>8 DEF CountAdmitted, LimiterInv, LimiterTypeOK, SeenBelow, At, MoveTo, Soft
  <2>2. CountersBounded'
    BY <1>8 DEF CountAdmitted, LimiterInv, LimiterTypeOK, SeenBelow, CountersBounded, At, Soft
  <2> QED BY <2>1, <2>2
<1>9. ASSUME NEW c \in Callers, CountRejected(c) PROVE SeenBelow' /\ CountersBounded'
  <2>1. SeenBelow'
    BY <1>9 DEF CountRejected, LimiterInv, LimiterTypeOK, SeenBelow, At, MoveTo, Soft
  <2>2. CountersBounded'
    BY <1>9 DEF CountRejected, LimiterInv, LimiterTypeOK, SeenBelow, CountersBounded, At, Soft
  <2> QED BY <2>1, <2>2
<1>10. ASSUME NEW c \in Callers, PromoteLoad(c) PROVE SeenBelow' /\ CountersBounded'
  <2>1. SeenBelow'
    BY <1>10 DEF PromoteLoad, LimiterInv, LimiterTypeOK, SeenBelow, At, MoveTo, Soft
  <2>2. CountersBounded'
    BY <1>10 DEF PromoteLoad, LimiterInv, LimiterTypeOK, SeenBelow, CountersBounded, At, Soft
  <2> QED BY <2>1, <2>2
<1>11. ASSUME NEW c \in Callers, PromoteCas(c) PROVE SeenBelow' /\ CountersBounded'
  <2>1. SeenBelow'
    BY <1>11 DEF PromoteCas, LimiterInv, LimiterTypeOK, SeenBelow, At, MoveTo, Soft
  <2>2. CountersBounded'
    BY <1>11 DEF PromoteCas, LimiterInv, LimiterTypeOK, SeenBelow, CountersBounded, At, Soft
  <2> QED BY <2>1, <2>2
<1>12. ASSUME NEW c \in Callers, FreeSlot(c) PROVE SeenBelow' /\ CountersBounded'
  <2>1. SeenBelow'
    BY <1>12 DEF FreeSlot, LimiterInv, LimiterTypeOK, SeenBelow, At, MoveTo, Soft
  <2>2. CountersBounded'
    BY <1>12 DEF FreeSlot, LimiterInv, LimiterTypeOK, SeenBelow, CountersBounded, At, Soft
  <2> QED BY <2>1, <2>2
<1>13. ASSUME NEW c \in Callers, TimeOut(c) PROVE SeenBelow' /\ CountersBounded'
  <2>1. SeenBelow'
    BY <1>13 DEF TimeOut, LimiterInv, LimiterTypeOK, SeenBelow, At, MoveTo, Soft
  <2>2. CountersBounded'
    BY <1>13 DEF TimeOut, LimiterInv, LimiterTypeOK, SeenBelow, CountersBounded, At, Soft
  <2> QED BY <2>1, <2>2
<1>14. ASSUME NEW c \in Callers, CountTimeout(c) PROVE SeenBelow' /\ CountersBounded'
  <2>1. SeenBelow'
    BY <1>14 DEF CountTimeout, LimiterInv, LimiterTypeOK, SeenBelow, At, MoveTo, Soft
  <2>2. CountersBounded'
    BY <1>14 DEF CountTimeout, LimiterInv, LimiterTypeOK, SeenBelow, CountersBounded, At, Soft
  <2> QED BY <2>1, <2>2
<1>15. ASSUME NEW c \in Callers, Abandon(c) PROVE SeenBelow' /\ CountersBounded'
  <2>1. SeenBelow'
    BY <1>15 DEF Abandon, LimiterInv, LimiterTypeOK, SeenBelow, At, MoveTo, Soft
  <2>2. CountersBounded'
    BY <1>15 DEF Abandon, LimiterInv, LimiterTypeOK, SeenBelow, CountersBounded, At, Soft
  <2> QED BY <2>1, <2>2
<1>16. ASSUME NEW c \in Callers, Release(c) PROVE SeenBelow' /\ CountersBounded'
  <2>1. SeenBelow'
    BY <1>16 DEF Release, LimiterInv, LimiterTypeOK, SeenBelow, At, MoveTo, Soft
  <2>2. CountersBounded'
    BY <1>16 DEF Release, LimiterInv, LimiterTypeOK, SeenBelow, CountersBounded, At, Soft
  <2> QED BY <2>1, <2>2
<1>17. CASE UNCHANGED limiterVars
  BY <1>17 DEF limiterVars, LimiterInv, SeenBelow, CountersBounded
<1> QED BY <1>1, <1>2, <1>3, <1>4, <1>5, <1>6, <1>7, <1>8, <1>9, <1>10, <1>11, <1>12, <1>13, <1>14, <1>15, <1>16, <1>17
           DEF LimiterNext

----------------------------------------------------------------------------
(* The theorems *)

\* The inductive invariant holds in every reachable state.
THEOREM LimiterInvariant ==
  ASSUME LimiterAssumption
  PROVE  LimiterSpec => []LimiterInv
<1>1. LimiterInv /\ [LimiterNext]_limiterVars => LimiterInv'
  BY LimiterTypes, LimiterExact, LimiterBounds DEF LimiterInv
<1> QED BY <1>1, LimiterInitial, PTL DEF LimiterSpec

\* However the atomic operations of the callers interleave, active and queued
\* are exactly the permits and queue slots that exist.
THEOREM CountersAreExact ==
  ASSUME LimiterAssumption
  PROVE  LimiterSpec => []CountersExact
<1>1. LimiterInv => CountersExact
  BY DEF LimiterInv
<1> QED BY <1>1, LimiterInvariant, PTL

\* Every call is counted once, as admitted or rejected.
THEOREM CallsAreCounted ==
  ASSUME LimiterAssumption
  PROVE  LimiterSpec => []CallsCounted
<1>1. LimiterInv => CallsCounted
  BY DEF LimiterInv
<1> QED BY <1>1, LimiterInvariant, PTL

\* In hard mode no more than max_concurrent permits and queue_size queue
\* slots are ever out.
THEOREM LimiterLimits ==
  ASSUME LimiterAssumption
  PROVE  LimiterSpec => []LimitsHold
<1>1. LimiterInv => LimitsHold
  BY DEF LimiterInv, CountersExact, CountersBounded, LimitsHold
<1> QED BY <1>1, LimiterInvariant, PTL

----------------------------------------------------------------------------
(* The refinement *)

\* The instance of AdmissionRoom counts the elements of a set as FiniteSets does.
LEMMA RoomCardinality == \A S: Room!Cardinality(S) = Cardinality(S)
  BY DEF Room!Cardinality, Cardinality

\* Every step of the limiter is a step of the room or leaves it alone.
LEMMA RoomStep ==
  ASSUME LimiterAssumption
  PROVE  LimiterInv /\ [LimiterNext]_limiterVars => [Room!RoomNext]_<<Permits, Slots \ Permits>>
<1> SUFFICES ASSUME LimiterInv, [LimiterNext]_limiterVars PROVE [Room!RoomNext]_<<Permits, Slots \ Permits>>
  OBVIOUS
<1>t. LimiterTypeOK /\ active = Cardinality(Permits) /\ queued = Cardinality(Slots) /\ SeenBelow
  BY DEF LimiterInv, CountersExact
<1>s. Cardinality(Slots \ Permits) \in Nat /\ Cardinality(Slots \ Permits) <= Cardinality(Slots)
  <2>1. IsFiniteSet(Slots)
    BY FS_Subset DEF LimiterAssumption, Slots
  <2> QED BY <2>1, FS_Subset, FS_CardinalityType
<1>1. ASSUME NEW c \in Callers, Acquire(c) PROVE [Room!RoomNext]_<<Permits, Slots \ Permits>>
  <2>1. Permits' = Permits /\ Slots' = Slots
    BY <1>1, <1>t, Moves
  <2> QED BY <2>1
<1>2. ASSUME NEW c \in Callers, ReserveSlot(c) PROVE [Room!RoomNext]_<<Permits, Slots \ Permits>>
  <2>1. Permits' = Permits /\ Slots' = Slots
    BY <1>2, <1>t, Moves
  <2> QED BY <2>1
<1>3. ASSUME NEW c \in Callers, SoftAdmit(c) PROVE [Room!RoomNext]_<<Permits, Slots \ Permits>>
  <2>1. c \notin Permits /\ Permits' = Permits \cup {c} /\ Slots' = Slots
    BY <1>3, <1>t, Moves
  <2>2. c \notin Slots /\ Soft
    BY <1>3, <1>t DEF SoftAdmit, At, Slots, SeenBelow
  <2>3. Room!Enter(c)
    BY <2>1, <2>2 DEF Room!Enter, Room!RoomInside, Room!Soft, Soft
  <2> QED BY <2>3 DEF Room!RoomNext
<1>4. ASSUME NEW c \in Callers, LoadActive(c) PROVE [Room!RoomNext]_<<Permits, Slots \ Permits>>
  <2>1. Permits' = Permits /\ Slots' = Slots
    BY <1>4, <1>t, Moves
  <2> QED BY <2>1
<1>5. ASSUME NEW c \in Callers, CasActive(c) PROVE [Room!RoomNext]_<<Permits, Slots \ Permits>>
  <2>1. IF active = seen[c] THEN c \notin Permits /\ Permits' = Permits \cup {c} ELSE Permits' = Permits
    BY <1>5, <1>t, Moves
  <2>2. Slots' = Slots
    BY <1>5, <1>t, Moves
  <2>3. CASE active = seen[c]
    <3>1. c \notin Slots /\ seen[c] < MaxConcurrent
      BY <1>5, <1>t DEF CasActive, At, Slots, SeenBelow
    <3>2. c \notin Permits /\ Permits' = Permits \cup {c}
      BY <2>1, <2>3
    <3>3. Slots' \ Permits' = Slots \ Permits
      BY <2>2, <3>1, <3>2
    <3>4. Cardinality(Permits) < MaxConcurrent
      BY <1>t, <2>3, <3>1
    <3>5. Room!Enter(c)
      BY <3>1, <3>2, <3>3, <3>4, RoomCardinality DEF Room!Enter, Room!RoomInside
    <3> QED BY <3>5 DEF Room!RoomNext
  <2>4. CASE active # seen[c]
    BY <2>1, <2>2, <2>4
  <2> QED BY <2>3, <2>4
<1>6. ASSUME NEW c \in Callers, LoadQueued(c) PROVE [Room!RoomNext]_<<Permits, Slots \ Permits>>
  <2>1. Permits' = Permits /\ Slots' = Slots
    BY <1>6, <1>t, Moves
  <2> QED BY <2>1
<1>7. ASSUME NEW c \in Callers, CasQueued(c) PROVE [Room!RoomNext]_<<Permits, Slots \ Permits>>
  <2>1. IF queued = seen[c] THEN c \notin Slots /\ Slots' = Slots \cup {c} ELSE Slots' = Slots
    BY <1>7, <1>t, Moves
  <2>2. Permits' = Permits
    BY <1>7, <1>t, Moves
  <2>3. CASE queued = seen[c]
    <3>1. c \notin Permits /\ seen[c] < QueueSize
      BY <1>7, <1>t DEF CasQueued, At, Permits, SeenBelow
    <3>2. Cardinality(Slots \ Permits) < QueueSize
      BY <1>s, <1>t, <2>3, <3>1 DEF LimiterAssumption, LimiterTypeOK
    <3>3. c \notin Slots /\ Slots' = Slots \cup {c}
      BY <2>1, <2>3
    <3>4. Slots' \ Permits' = (Slots \ Permits) \cup {c}
      BY <2>2, <3>1, <3>3
    <3>5. Room!Queue(c)
      BY <2>2, <3>1, <3>2, <3>3, <3>4, RoomCardinality DEF Room!Queue, Room!RoomToWait
    <3> QED BY <3>5 DEF Room!RoomNext
  <2>4. CASE queued # seen[c]
    BY <2>1, <2>2, <2>4
  <2> QED BY <2>3, <2>4
<1>8. ASSUME NEW c \in Callers, CountAdmitted(c)
      PROVE  [Room!RoomNext]_<<Permits, Slots \ Permits>>
  <2>1. Permits' = Permits /\ Slots' = Slots
    BY <1>8, <1>t, Moves
  <2> QED BY <2>1
<1>9. ASSUME NEW c \in Callers, CountRejected(c)
      PROVE  [Room!RoomNext]_<<Permits, Slots \ Permits>>
  <2>1. Permits' = Permits /\ Slots' = Slots
    BY <1>9, <1>t, Moves
  <2> QED BY <2>1
<1>10. ASSUME NEW c \in Callers, PromoteLoad(c) PROVE [Room!RoomNext]_<<Permits, Slots \ Permits>>
  <2>1. Permits' = Permits /\ Slots' = Slots
    BY <1>10, <1>t, Moves
  <2> QED BY <2>1
<1>11. ASSUME NEW c \in Callers, PromoteCas(c) PROVE [Room!RoomNext]_<<Permits, Slots \ Permits>>
  <2>1. IF active = seen[c] THEN c \notin Permits /\ Permits' = Permits \cup {c} ELSE Permits' = Permits
    BY <1>11, <1>t, Moves
  <2>2. Slots' = Slots
    BY <1>11, <1>t, Moves
  <2>3. CASE active = seen[c]
    <3>1. c \in Slots /\ seen[c] < MaxConcurrent
      BY <1>11, <1>t DEF PromoteCas, At, Slots, SeenBelow
    <3>2. c \notin Permits /\ Permits' = Permits \cup {c}
      BY <2>1, <2>3
    <3>3. Slots' \ Permits' = (Slots \ Permits) \ {c}
      BY <2>2, <3>2
    <3>4. Cardinality(Permits) < MaxConcurrent
      BY <1>t, <2>3, <3>1
    <3>5. Room!MoveUp(c)
      BY <3>1, <3>2, <3>3, <3>4, RoomCardinality DEF Room!MoveUp, Room!RoomInside
    <3> QED BY <3>5 DEF Room!RoomNext
  <2>4. CASE active # seen[c]
    BY <2>1, <2>2, <2>4
  <2> QED BY <2>3, <2>4
<1>12. ASSUME NEW c \in Callers, FreeSlot(c) PROVE [Room!RoomNext]_<<Permits, Slots \ Permits>>
  <2>1. Permits' = Permits /\ Slots' = Slots \ {c}
    BY <1>12, <1>t, Moves
  <2>2. c \in Permits
    BY <1>12 DEF FreeSlot, At, Permits
  <2> QED BY <2>1, <2>2
<1>13. ASSUME NEW c \in Callers, TimeOut(c) PROVE [Room!RoomNext]_<<Permits, Slots \ Permits>>
  <2>1. Permits' = Permits /\ c \in Slots /\ Slots' = Slots \ {c}
    BY <1>13, <1>t, Moves
  <2>2. c \notin Permits
    BY <1>13 DEF TimeOut, At, Permits
  <2>3. Room!LeaveQueue(c)
    BY <2>1, <2>2 DEF Room!LeaveQueue
  <2> QED BY <2>3 DEF Room!RoomNext
<1>14. ASSUME NEW c \in Callers, CountTimeout(c)
       PROVE  [Room!RoomNext]_<<Permits, Slots \ Permits>>
  <2>1. Permits' = Permits /\ Slots' = Slots
    BY <1>14, <1>t, Moves
  <2> QED BY <2>1
<1>15. ASSUME NEW c \in Callers, Abandon(c) PROVE [Room!RoomNext]_<<Permits, Slots \ Permits>>
  <2>1. Permits' = Permits /\ c \in Slots /\ Slots' = Slots \ {c}
    BY <1>15, <1>t, Moves
  <2>2. c \notin Permits
    BY <1>15 DEF Abandon, At, Permits
  <2>3. Room!LeaveQueue(c)
    BY <2>1, <2>2 DEF Room!LeaveQueue
  <2> QED BY <2>3 DEF Room!RoomNext
<1>16. ASSUME NEW c \in Callers, Release(c) PROVE [Room!RoomNext]_<<Permits, Slots \ Permits>>
  <2>1. c \in Permits /\ Permits' = Permits \ {c} /\ Slots' = Slots
    BY <1>16, <1>t, Moves
  <2>2. c \notin Slots
    BY <1>16 DEF Release, At, Slots
  <2>3. Room!Leave(c)
    BY <2>1, <2>2 DEF Room!Leave
  <2> QED BY <2>3 DEF Room!RoomNext
<1>17. CASE UNCHANGED limiterVars
  BY <1>17 DEF limiterVars, Permits, Slots
<1> QED BY <1>1, <1>2, <1>3, <1>4, <1>5, <1>6, <1>7, <1>8, <1>9, <1>10, <1>11, <1>12, <1>13, <1>14, <1>15, <1>16, <1>17
           DEF LimiterNext

\* The counters implement the room they stand for: whatever the interleaving,
\* what callers see is one bounded room with a bounded waiting line.
THEOREM LimiterImplementsRoom ==
  ASSUME LimiterAssumption
  PROVE  LimiterSpec => ImplementsRoom
<1>1. LimiterInit => Room!RoomInit
  BY DEF LimiterInit, Room!RoomInit, Permits, Slots
<1> QED BY <1>1, RoomStep, LimiterInvariant, PTL DEF LimiterSpec, ImplementsRoom, Room!RoomSpec

-----------------------------------------------------------------------------
(***************************************************************************)
(* The guards of a provider attempt.                                       *)
(***************************************************************************)
\* A request says it holds a slot between taking it and the first hook that
\* gives it back, and only where slots are counted; it says it is the probe
\* until the breaker hears of its end, and the breaker refuses no probe.
Flags(r) ==
  /\ req[r].slot => /\ req[r].pc \in {"rate", "upstream", "streaming", "okslot", "unslot"}
                    /\ Limit[Chan(r)] > 0
  /\ req[r].probe => r \in Tracked /\ req[r].pc \notin {"idle", "breaker", "wait", "finish"}
  /\ req[r].pc \in {"unslot", "unbreaker"} =>
       req[r].err # "none" /\ (req[r].err = "circuit" => ~req[r].probe)

\* The counter has every holder, and those that vanished.
Counted(c) == Cardinality(Holders(c)) <= slots[c] /\ slots[c] <= Limit[c]

GuardInv ==
  /\ TypeOK
  /\ \A r \in Requests : Flags(r)
  /\ \A c \in Channels : Counted(c)

Calls == [pc : {"idle", "breaker", "slot", "rate", "upstream", "streaming", "okslot",
                "okbreaker", "finish", "unslot", "unbreaker", "wait"},
          mode : {"plain", "aggregate", "live"}, at : 1..Len(Candidates),
          same : 0..SameRetries, slot : BOOLEAN, probe : BOOLEAN, err : Errors]
Circuits == [errors : 0..MaxErrors, probe : BOOLEAN, cooldown : {"none", "running", "elapsed"}]

\* TypeOK in terms of these.
LEMMA GuardTypes ==
  TypeOK <=> /\ circuit \in [Channels -> Circuits]
             /\ slots \in [Channels -> Nat]
             /\ req \in [Requests -> Calls]
BY DEF TypeOK, Calls, Circuits

LEMMA GuardTypesNext ==
  TypeOK' <=> /\ circuit' \in [Channels -> Circuits]
              /\ slots' \in [Channels -> Nat]
              /\ req' \in [Requests -> Calls]
BY DEF TypeOK, Calls, Circuits

\* Every request is at a channel, first at the first one.
LEMMA AtChannel ==
  ASSUME GuardConstants
  PROVE  /\ Len(Candidates) \in Nat \ {0}
         /\ \A i \in 1..Len(Candidates) : Candidates[i] \in Channels
         /\ TypeOK => \A r \in Requests : Chan(r) \in Channels
         /\ Idle \in Calls
         /\ Closed \in Circuits
<1>1. Len(Candidates) \in Nat \ {0}
  BY DEF GuardConstants
<1>2. \A i \in 1..Len(Candidates) : Candidates[i] \in Channels
  BY DEF Channels
<1>3. TypeOK => \A r \in Requests : Chan(r) \in Channels
  BY <1>2, GuardTypes DEF Chan, Calls
<1>4. Idle \in Calls
  BY <1>1 DEF GuardConstants, Idle, Calls, Errors
<1>5. Closed \in Circuits
  BY DEF GuardConstants, Closed, Circuits
<1> QED BY <1>1, <1>2, <1>3, <1>4, <1>5

\* The breaker's record of an error.
LEMMA RecordedIs ==
  ASSUME GuardConstants, NEW s \in Circuits, NEW e \in Errors \ {"none"}
  PROVE  /\ Recorded(s, e) \in Circuits
         /\ e = "circuit" => Recorded(s, e) = s
         /\ e # "circuit" => ~Recorded(s, e).probe
<1>0. MaxErrors \in Nat \ {0}
  BY DEF GuardConstants
<1>1. CASE e = "circuit"
  BY <1>1 DEF Recorded
<1>2. CASE e \in {"local", "timeout"}
  <2>1. Recorded(s, e) = IF s.probe THEN [s EXCEPT !.probe = FALSE, !.cooldown = "elapsed"] ELSE s
    BY <1>2 DEF Recorded
  <2> QED BY <1>2, <2>1 DEF Circuits
<1>3. CASE e = "client"
  BY <1>3, AtChannel DEF Recorded, Closed
<1>4. CASE e \in {"server", "transport"}
  <2> DEFINE n == IF s.errors < MaxErrors THEN s.errors + 1 ELSE MaxErrors
  <2>1. Recorded(s, e) = IF s.probe \/ n = MaxErrors
                         THEN [errors |-> n, cooldown |-> "running", probe |-> FALSE]
                         ELSE [s EXCEPT !.errors = n]
    BY <1>4 DEF Recorded
  <2>2. n \in 0..MaxErrors
    BY <1>0 DEF Circuits
  <2> HIDE DEF n
  <2>3. CASE s.probe \/ n = MaxErrors
    BY <1>4, <2>1, <2>2, <2>3 DEF Circuits
  <2>4. CASE ~(s.probe \/ n = MaxErrors)
    BY <1>4, <2>1, <2>2, <2>4 DEF Circuits
  <2> QED BY <2>3, <2>4
<1> QED BY <1>1, <1>2, <1>3, <1>4 DEF Errors

\* What the retry loop does with a request that failed.
LEMMA AgainIs ==
  ASSUME GuardConstants, TypeOK, NEW r \in Requests
  PROVE  /\ Again(r) \in Calls /\ Again(r).pc \in {"wait", "idle"}
         /\ ~Again(r).probe
         /\ ~req[r].slot => ~Again(r).slot
<1>1. req[r] \in Calls /\ SameRetries \in Nat /\ Len(Candidates) \in Nat
  BY GuardTypes, AtChannel DEF GuardConstants
<1>2. CASE SameChannel(r)
  <2>1. Again(r) = [Waiting(req[r]) EXCEPT !.same = @ + 1]
    BY <1>2 DEF Again
  <2>2. req[r].same + 1 \in 0..SameRetries
    BY <1>1, <1>2 DEF SameChannel, Calls
  <2> QED BY <1>1, <2>1, <2>2 DEF Waiting, Calls, Errors
<1>3. CASE ~SameChannel(r) /\ NextChannel(r)
  <2>1. Again(r) = [Waiting(req[r]) EXCEPT !.at = @ + 1, !.same = 0]
    BY <1>3 DEF Again
  <2>2. req[r].at + 1 \in 1..Len(Candidates) /\ 0 \in 0..SameRetries
    BY <1>1, <1>3 DEF NextChannel, Calls
  <2> QED BY <1>1, <2>1, <2>2 DEF Waiting, Calls, Errors
<1>4. CASE ~SameChannel(r) /\ ~NextChannel(r)
  BY <1>4, AtChannel DEF Again, Idle
<1> QED BY <1>2, <1>3, <1>4

-----------------------------------------------------------------------------
(* What one step of a request may do: x is what becomes of the request.    *)

Keeps(r, x) ==
  /\ slots' = slots /\ (x.slot <=> req[r].slot)
  /\ x.slot => x.at = req[r].at

Takes(r, x) ==
  /\ ~req[r].slot /\ x.slot /\ x.at = req[r].at
  /\ slots[Chan(r)] < Limit[Chan(r)]
  /\ slots' = [slots EXCEPT ![Chan(r)] = @ + 1]

GivesBack(r, x) ==
  /\ req[r].slot /\ ~x.slot
  /\ slots' = [slots EXCEPT ![Chan(r)] = @ - 1]

Forgets(r, x) == slots' = slots /\ req[r].pc = "upstream" /\ x.pc = "idle" /\ ~x.slot

\* The flags of what the request becomes.
FlagsOf(r, x) ==
  /\ x.slot => /\ x.pc \in {"rate", "upstream", "streaming", "okslot", "unslot"}
               /\ Limit[Candidates[x.at]] > 0
  /\ x.probe => r \in Tracked /\ x.pc \notin {"idle", "breaker", "wait", "finish"}
  /\ x.pc \in {"unslot", "unbreaker"} => x.err # "none" /\ (x.err = "circuit" => ~x.probe)

CallMoved(r) ==
  \E x \in Calls : /\ req' = [req EXCEPT ![r] = x]
                   /\ FlagsOf(r, x)
                   /\ Keeps(r, x) \/ Takes(r, x) \/ GivesBack(r, x) \/ Forgets(r, x)

\* Every hook of a request is one of these.
LEMMA CallSteps ==
  ASSUME GuardConstants, GuardInv, NEW r \in Requests, Start(r) \/ Step(r) \/ Drop(r)
  PROVE  CallMoved(r)
<1> DEFINE q == req[r]
<1>0. q \in Calls /\ req \in [Requests -> Calls]
  BY GuardTypes DEF GuardInv
<1>1. /\ q.slot => /\ q.pc \in {"rate", "upstream", "streaming", "okslot", "unslot"}
                   /\ Limit[Candidates[q.at]] > 0
      /\ q.probe => r \in Tracked /\ q.pc \notin {"idle", "breaker", "wait", "finish"}
      /\ q.pc \in {"unslot", "unbreaker"} => q.err # "none" /\ (q.err = "circuit" => ~q.probe)
  BY DEF GuardInv, Flags, Chan
<1>2. Idle \in Calls /\ FlagsOf(r, Idle) /\ ~Idle.slot /\ Idle.pc = "idle"
  BY AtChannel DEF Idle, FlagsOf
<1>3. ASSUME NEW m \in {"plain", "aggregate", "live"}, q.pc = "idle", slots' = slots,
             req' = [req EXCEPT ![r] = [Idle EXCEPT !.pc = "breaker", !.mode = m]]
      PROVE  CallMoved(r)
  <2> DEFINE x == [Idle EXCEPT !.pc = "breaker", !.mode = m]
  <2>1. x \in Calls /\ FlagsOf(r, x) /\ Keeps(r, x)
    BY <1>1, <1>2, <1>3 DEF Idle, Calls, FlagsOf, Keeps
  <2> QED BY <1>3, <2>1 DEF CallMoved
<1>4. ASSUME NEW e \in Errors \ {"none"}, Fail(r, e), slots' = slots,
             e = "circuit" => ~q.probe, q.pc \in {"breaker", "slot", "rate", "upstream", "finish"}
      PROVE  CallMoved(r)
  <2> DEFINE x == [q EXCEPT !.pc = "unslot", !.err = e]
  <2>1. x \in Calls /\ FlagsOf(r, x) /\ Keeps(r, x)
    BY <1>0, <1>1, <1>4 DEF Calls, FlagsOf, Keeps
  <2>2. req' = [req EXCEPT ![r] = x]
    BY <1>0, <1>4 DEF Fail
  <2> QED BY <2>1, <2>2 DEF CallMoved
<1>5. ASSUME NEW to \in {"slot", "rate", "upstream", "okslot", "streaming", "breaker"},
             Goto(r, to), slots' = slots,
             \/ q.pc = "breaker" /\ to = "slot"
             \/ q.pc = "slot" /\ to = "rate"
             \/ q.pc = "rate" /\ to = "upstream"
             \/ q.pc = "upstream" /\ to \in {"okslot", "streaming"}
             \/ q.pc = "wait" /\ to = "breaker"
      PROVE  CallMoved(r)
  <2> DEFINE x == [q EXCEPT !.pc = to]
  <2>1. x \in Calls
    BY <1>0, <1>5 DEF Calls
  <2>2. FlagsOf(r, x) /\ Keeps(r, x)
    BY <1>0, <1>1, <1>5 DEF Calls, FlagsOf, Keeps
  <2>3. req' = [req EXCEPT ![r] = x]
    BY <1>0, <1>5 DEF Goto
  <2> QED BY <2>1, <2>2, <2>3 DEF CallMoved
<1>6. ASSUME req' = [req EXCEPT ![r] = Idle], slots' = slots,
             q.pc \in {"upstream", "finish", "wait"}
      PROVE  CallMoved(r)
  BY <1>1, <1>2, <1>6 DEF CallMoved, Keeps, Forgets
<1>7. ASSUME NEW x \in Calls, req' = [req EXCEPT ![r] = x], FlagsOf(r, x), ~x.slot, ReleaseSlot(r)
      PROVE  CallMoved(r)
  BY <1>7 DEF CallMoved, Keeps, GivesBack, ReleaseSlot
<1>8. CASE Start(r)
  <2>1. PICK m \in Modes[r] : req' = [req EXCEPT ![r] = [Idle EXCEPT !.pc = "breaker", !.mode = m]]
    BY <1>8 DEF Start
  <2>2. m \in {"plain", "aggregate", "live"}
    BY DEF GuardConstants
  <2> QED BY <1>3, <1>8, <2>1, <2>2 DEF Start
<1>9. CASE PassBreaker(r)
  <2>1. CASE Fail(r, "circuit")
    BY <1>1, <1>4, <1>9, <2>1 DEF PassBreaker, Errors
  <2>2. CASE r \in Tracked /\ req' = [req EXCEPT ![r].pc = "slot", ![r].probe = TRUE]
    <3> DEFINE x == [q EXCEPT !.pc = "slot", !.probe = TRUE]
    <3>1. x \in Calls /\ FlagsOf(r, x) /\ Keeps(r, x)
      BY <1>0, <1>1, <1>9, <2>2 DEF PassBreaker, Calls, FlagsOf, Keeps
    <3>2. req' = [req EXCEPT ![r] = x]
      BY <1>0, <2>2
    <3> QED BY <3>1, <3>2 DEF CallMoved
  <2>3. CASE Goto(r, "slot")
    BY <1>5, <1>9, <2>3 DEF PassBreaker
  <2> QED BY <1>9, <2>1, <2>2, <2>3 DEF PassBreaker
<1>10. CASE TakeSlot(r)
  <2>1. CASE Goto(r, "rate") /\ slots' = slots
    BY <1>5, <1>10, <2>1 DEF TakeSlot
  <2>2. CASE Fail(r, "local") /\ slots' = slots
    BY <1>4, <1>10, <2>2 DEF TakeSlot, Errors
  <2>3. CASE /\ slots[Chan(r)] < Limit[Chan(r)]
             /\ slots' = [slots EXCEPT ![Chan(r)] = @ + 1]
             /\ req' = [req EXCEPT ![r].pc = "rate", ![r].slot = TRUE]
    <3> DEFINE x == [q EXCEPT !.pc = "rate", !.slot = TRUE]
    <3>0. Chan(r) \in Channels /\ Limit[Chan(r)] \in Nat /\ slots[Chan(r)] \in Nat
      BY AtChannel, GuardTypes DEF GuardConstants, GuardInv
    <3>1. x \in Calls /\ Limit[Chan(r)] > 0
      <4>1. Limit[Chan(r)] > 0
        BY <2>3, <3>0
      <4>2. x \in Calls
        BY <1>0 DEF Calls
      <4> QED BY <4>1, <4>2
    <3>2. FlagsOf(r, x) /\ Takes(r, x)
      BY <1>0, <1>1, <1>10, <2>3, <3>1 DEF TakeSlot, Calls, FlagsOf, Takes, Chan
    <3>3. req' = [req EXCEPT ![r] = x]
      BY <1>0, <2>3
    <3> QED BY <3>1, <3>2, <3>3 DEF CallMoved
  <2> QED BY <1>10, <2>1, <2>2, <2>3 DEF TakeSlot
<1>11. CASE AdmitRate(r)
  BY <1>4, <1>5, <1>11 DEF AdmitRate, Errors
<1>12. CASE Respond(r)
  BY <1>4, <1>5, <1>6, <1>12 DEF Respond, Errors
<1>13. CASE UpstreamFails(r)
  BY <1>4, <1>13 DEF UpstreamFails, Errors
<1>14. CASE StreamCloses(r)
  BY <1>2, <1>7, <1>14 DEF StreamCloses
<1>15. CASE OkSlot(r)
  <2> DEFINE x == [q EXCEPT !.pc = "okbreaker", !.slot = FALSE]
  <2>1. x \in Calls /\ FlagsOf(r, x) /\ ~x.slot
    BY <1>0, <1>1, <1>15 DEF OkSlot, Calls, FlagsOf
  <2>2. req' = [req EXCEPT ![r] = x]
    BY <1>0, <1>15 DEF OkSlot
  <2> QED BY <1>7, <1>15, <2>1, <2>2 DEF OkSlot
<1>16. CASE OkBreaker(r)
  <2> DEFINE x == [q EXCEPT !.pc = "finish", !.probe = FALSE]
  <2>1. x \in Calls /\ FlagsOf(r, x) /\ Keeps(r, x)
    BY <1>0, <1>1, <1>16 DEF OkBreaker, Calls, FlagsOf, Keeps
  <2>2. req' = [req EXCEPT ![r] = x]
    BY <1>0, <1>16 DEF OkBreaker
  <2> QED BY <2>1, <2>2 DEF CallMoved
<1>17. CASE Finish(r)
  BY <1>4, <1>6, <1>17 DEF Finish, Errors
<1>18. CASE Unslot(r)
  <2> DEFINE x == [q EXCEPT !.pc = "unbreaker", !.slot = FALSE]
  <2>1. x \in Calls /\ FlagsOf(r, x) /\ ~x.slot
    BY <1>0, <1>1, <1>18 DEF Unslot, Calls, FlagsOf
  <2>2. req' = [req EXCEPT ![r] = x]
    BY <1>0, <1>18 DEF Unslot
  <2> QED BY <1>7, <1>18, <2>1, <2>2 DEF Unslot
<1>19. CASE Unbreaker(r)
  <2>1. Again(r) \in Calls /\ Again(r).pc \in {"wait", "idle"} /\ ~Again(r).probe
        /\ ~q.slot /\ ~Again(r).slot
    BY <1>1, <1>19, AgainIs DEF Unbreaker, GuardInv
  <2>2. FlagsOf(r, Again(r)) /\ Keeps(r, Again(r))
    BY <1>19, <2>1 DEF Unbreaker, FlagsOf, Keeps
  <2> QED BY <1>19, <2>1, <2>2 DEF Unbreaker, CallMoved
<1>20. CASE Wake(r)
  BY <1>5, <1>20 DEF Wake
<1>21. CASE Drop(r)
  BY <1>6, <1>21 DEF Drop
<1> QED
  BY <1>8, <1>9, <1>10, <1>11, <1>12, <1>13, <1>14, <1>15, <1>16, <1>17, <1>18, <1>19, <1>20,
     <1>21 DEF Step

\* How the holders of a slot on a channel change with such a step, and how
\* the counter does.
LEMMA HoldersMove ==
  ASSUME GuardConstants, GuardInv, NEW r \in Requests, NEW x \in Calls, req' = [req EXCEPT ![r] = x],
         NEW c \in Channels
  PROVE  /\ Cardinality(Holders(c)) \in Nat /\ Cardinality(Holders(c)') \in Nat
         /\ slots[c] \in Nat
         /\ Keeps(r, x) \/ Takes(r, x) \/ GivesBack(r, x) =>
              /\ slots'[c] \in Nat
              /\ slots'[c] - slots[c] = Cardinality(Holders(c)') - Cardinality(Holders(c))
         /\ Takes(r, x) => slots'[c] <= Limit[c]
         /\ Keeps(r, x) \/ GivesBack(r, x) => slots'[c] <= slots[c]
         /\ Forgets(r, x) => Cardinality(Holders(c)') <= Cardinality(Holders(c))
<1> DEFINE H == Holders(c)
           G == Holders(c)'
<1>0. /\ req \in [Requests -> Calls] /\ slots \in [Channels -> Nat] /\ Chan(r) \in Channels
      /\ Limit \in [Channels -> Nat]
  BY GuardTypes, AtChannel DEF GuardConstants, GuardInv
<1>1. /\ H \subseteq Requests /\ G \subseteq Requests
      /\ \A q \in Requests \ {r} : q \in G <=> q \in H
      /\ r \in H <=> req[r].slot /\ Chan(r) = c
      /\ r \in G <=> x.slot /\ Candidates[x.at] = c
  BY <1>0 DEF Holders, Chan
<1>2. Cardinality(H) <= slots[c] /\ slots[c] <= Limit[c]
  BY DEF GuardInv, Counted
<1>3. IsFiniteSet(H) /\ IsFiniteSet(G) /\ Cardinality(H) \in Nat /\ Cardinality(G) \in Nat
  BY <1>1, FS_Subset, FS_CardinalityType DEF GuardConstants
<1>4. slots[c] \in Nat /\ Limit[c] \in Nat
  BY <1>0
<1> HIDE DEF H, G
<1>5. ASSUME Keeps(r, x)
      PROVE  slots'[c] = slots[c] /\ Cardinality(G) = Cardinality(H)
  <2>1. r \in G <=> r \in H
    BY <1>1, <1>5 DEF Keeps, Chan
  <2>2. G = H
    BY <1>1, <2>1
  <2> QED BY <1>5, <2>2 DEF Keeps
<1>6. ASSUME Takes(r, x)
      PROVE  /\ slots'[c] \in Nat /\ slots'[c] <= Limit[c]
             /\ slots'[c] - slots[c] = Cardinality(G) - Cardinality(H)
  <2>1. CASE c = Chan(r)
    <3>1. r \notin H /\ r \in G
      BY <1>1, <1>6, <2>1 DEF Takes, Chan
    <3>2. G = H \cup {r}
      BY <1>1, <3>1
    <3>3. Cardinality(G) = Cardinality(H) + 1
      BY <1>3, <3>1, <3>2, FS_AddElement
    <3>4. slots'[c] = slots[c] + 1 /\ slots[c] < Limit[c]
      BY <1>0, <1>6, <2>1 DEF Takes
    <3> QED BY <1>3, <1>4, <3>3, <3>4
  <2>2. CASE c # Chan(r)
    <3>1. r \notin H /\ r \notin G
      BY <1>1, <1>6, <2>2 DEF Takes, Chan
    <3>2. G = H
      BY <1>1, <3>1
    <3>3. slots'[c] = slots[c]
      BY <1>0, <1>6, <2>2 DEF Takes
    <3> QED BY <1>2, <1>3, <1>4, <3>2, <3>3
  <2> QED BY <2>1, <2>2
<1>7. ASSUME GivesBack(r, x)
      PROVE  /\ slots'[c] \in Nat /\ slots'[c] <= slots[c]
             /\ slots'[c] - slots[c] = Cardinality(G) - Cardinality(H)
  <2>1. CASE c = Chan(r)
    <3>1. r \in H /\ r \notin G
      BY <1>1, <1>7, <2>1 DEF GivesBack
    <3>2. G = H \ {r}
      BY <1>1, <3>1
    <3>3. Cardinality(G) = Cardinality(H) - 1
      BY <1>3, <3>1, <3>2, FS_RemoveElement
    <3>4. slots'[c] = slots[c] - 1
      BY <1>0, <1>7, <2>1 DEF GivesBack
    <3> QED BY <1>2, <1>3, <1>4, <3>3, <3>4
  <2>2. CASE c # Chan(r)
    <3>1. r \notin H /\ r \notin G
      BY <1>1, <1>7, <2>2 DEF GivesBack
    <3>2. G = H
      BY <1>1, <3>1
    <3>3. slots'[c] = slots[c]
      BY <1>0, <1>7, <2>2 DEF GivesBack
    <3> QED BY <1>3, <1>4, <3>2, <3>3
  <2> QED BY <2>1, <2>2
<1>8. ASSUME Forgets(r, x)
      PROVE  Cardinality(G) <= Cardinality(H)
  <2>1. G \subseteq H
    BY <1>1, <1>8 DEF Forgets
  <2> QED BY <1>3, <2>1, FS_Subset
<1> QED BY <1>3, <1>4, <1>5, <1>6, <1>7, <1>8 DEF H, G

\* The steps of the breaker's maps keep their types.
LEMMA CircuitTypes ==
  ASSUME GuardConstants
  PROVE  GuardInv /\ [Next]_vars => circuit' \in [Channels -> Circuits]
<1> SUFFICES ASSUME GuardInv, [Next]_vars
             PROVE  circuit' \in [Channels -> Circuits]
  OBVIOUS
<1>0. circuit \in [Channels -> Circuits] /\ req \in [Requests -> Calls]
  BY GuardTypes DEF GuardInv
<1>1. ASSUME NEW r \in Requests, PassBreaker(r)
      PROVE  circuit' \in [Channels -> Circuits]
  <2>1. CASE circuit' = circuit
    BY <1>0, <2>1
  <2>2. CASE circuit' = [circuit EXCEPT ![Chan(r)].cooldown = "none", ![Chan(r)].probe = TRUE]
    BY <1>0, <2>2, AtChannel DEF Circuits
  <2> QED BY <1>1, <2>1, <2>2 DEF PassBreaker
<1>2. ASSUME NEW r \in Requests, OkBreaker(r)
      PROVE  circuit' \in [Channels -> Circuits]
  BY <1>0, <1>2, AtChannel DEF OkBreaker
<1>3. ASSUME NEW r \in Requests, Unbreaker(r)
      PROVE  circuit' \in [Channels -> Circuits]
  <2>1. Chan(r) \in Channels /\ req[r].err \in Errors \ {"none"}
    BY <1>0, <1>3, AtChannel DEF Unbreaker, GuardInv, Flags, Calls
  <2>2. Recorded(circuit[Chan(r)], req[r].err) \in Circuits
    BY <1>0, <2>1, RecordedIs
  <2> QED BY <1>0, <1>3, <2>1, <2>2 DEF Unbreaker
<1>4. ASSUME NEW c \in Channels, Elapse(c)
      PROVE  circuit' \in [Channels -> Circuits]
  BY <1>0, <1>4 DEF Elapse, Circuits
<1>5. CASE UNCHANGED circuit
  BY <1>0, <1>5
<1>6. \/ UNCHANGED circuit \/ \E c \in Channels : Elapse(c)
      \/ \E r \in Requests : PassBreaker(r) \/ OkBreaker(r) \/ Unbreaker(r)
  <2>1. ASSUME NEW r \in Requests, Start(r) \/ Step(r) \/ Drop(r)
        PROVE  UNCHANGED circuit \/ PassBreaker(r) \/ OkBreaker(r) \/ Unbreaker(r)
    BY <2>1
       DEF Start, Step, Drop, TakeSlot, AdmitRate, Respond, UpstreamFails, StreamCloses,
                OkSlot, Finish, Unslot, Wake
  <2>2. CASE UNCHANGED vars
    BY <2>2 DEF vars
  <2>3. CASE Next
    BY <2>1, <2>3 DEF Next
  <2> QED BY <2>2, <2>3
<1> QED BY <1>1, <1>2, <1>3, <1>4, <1>5, <1>6

\* A step is one of a request, or leaves the requests and the slots alone.
LEMMA WhoMoves ==
  ASSUME GuardConstants, [Next]_vars
  PROVE  \/ UNCHANGED <<slots, req>>
         \/ \E r \in Requests : Start(r) \/ Step(r) \/ Drop(r)
BY DEF Next, Elapse, vars

LEMMA GuardInit ==
  ASSUME GuardConstants
  PROVE  Init => GuardInv
<1> SUFFICES ASSUME Init PROVE GuardInv
  OBVIOUS
<1>1. TypeOK
  BY AtChannel, GuardTypes DEF Init
<1>2. \A r \in Requests : req[r] = Idle
  BY DEF Init
<1>3. \A r \in Requests : Flags(r)
  BY <1>2 DEF Flags, Idle
<1>4. ASSUME NEW c \in Channels PROVE Counted(c)
  <2>1. Holders(c) = {}
    BY <1>2 DEF Holders, Idle
  <2>2. slots[c] = 0 /\ Limit[c] \in Nat
    BY DEF GuardConstants, Init
  <2> QED BY <2>1, <2>2, FS_EmptySet DEF Counted
<1> QED BY <1>1, <1>3, <1>4 DEF GuardInv

LEMMA GuardStep ==
  ASSUME GuardConstants
  PROVE  GuardInv /\ [Next]_vars => GuardInv'
<1> SUFFICES ASSUME GuardInv, [Next]_vars PROVE GuardInv'
  OBVIOUS
<1>0. /\ req \in [Requests -> Calls] /\ slots \in [Channels -> Nat] /\ Limit \in [Channels -> Nat]
      /\ circuit' \in [Channels -> Circuits]
  BY GuardTypes, CircuitTypes DEF GuardConstants, GuardInv
<1>1. CASE UNCHANGED <<slots, req>>
  <2>1. TypeOK'
    BY <1>0, <1>1, GuardTypesNext
  <2>2. \A r \in Requests : Flags(r)'
    BY <1>1 DEF GuardInv, Flags, Chan
  <2>3. ASSUME NEW c \in Channels PROVE Counted(c)'
    <3>1. Holders(c)' = Holders(c)
      BY <1>1 DEF Holders, Chan
    <3> QED BY <1>1, <3>1 DEF GuardInv, Counted
  <2> QED BY <2>1, <2>2, <2>3 DEF GuardInv
<1>2. ASSUME NEW r \in Requests, Start(r) \/ Step(r) \/ Drop(r) PROVE GuardInv'
  <2>1. PICK x \in Calls : /\ req' = [req EXCEPT ![r] = x] /\ FlagsOf(r, x)
                           /\ Keeps(r, x) \/ Takes(r, x) \/ GivesBack(r, x) \/ Forgets(r, x)
    BY <1>2, CallSteps DEF CallMoved
  <2>2. ASSUME NEW c \in Channels PROVE slots'[c] \in Nat /\ Counted(c)'
    <3>1. Cardinality(Holders(c)) <= slots[c] /\ slots[c] <= Limit[c] /\ Limit[c] \in Nat
      BY <1>0 DEF GuardInv, Counted
    <3> DEFINE h == Cardinality(Holders(c))
               g == Cardinality(Holders(c)')
    <3>2. /\ h \in Nat /\ g \in Nat /\ slots[c] \in Nat
          /\ Keeps(r, x) \/ Takes(r, x) \/ GivesBack(r, x) =>
               slots'[c] \in Nat /\ slots'[c] - slots[c] = g - h
          /\ Takes(r, x) => slots'[c] <= Limit[c]
          /\ Keeps(r, x) \/ GivesBack(r, x) => slots'[c] <= slots[c]
          /\ Forgets(r, x) => g <= h
      BY <2>1, HoldersMove
    <3>3. h <= slots[c]
      BY <3>1
    <3>4. Forgets(r, x) => slots'[c] = slots[c]
      BY DEF Forgets
    <3> HIDE DEF h, g
    <3>5. slots'[c] \in Nat /\ g <= slots'[c] /\ slots'[c] <= Limit[c]
      BY <2>1, <3>1, <3>2, <3>3, <3>4
    <3> QED BY <3>5 DEF Counted, g
  <2>3. slots' \in [Channels -> Nat]
    <3>1. slots' = slots \/ \E v : slots' = [slots EXCEPT ![Chan(r)] = v]
      BY <2>1 DEF Keeps, Takes, GivesBack, Forgets
    <3>2. DOMAIN slots' = Channels /\ slots' = [c \in Channels |-> slots'[c]]
      BY <1>0, <3>1
    <3> QED BY <2>2, <3>2
  <2>4. TypeOK'
    BY <1>0, <2>1, <2>3, GuardTypesNext
  <2>5. ASSUME NEW q \in Requests PROVE Flags(q)'
    <3>1. CASE q = r
      <4>1. req'[q] = x
        BY <1>0, <2>1, <3>1
      <4> QED BY <2>1, <3>1, <4>1 DEF Flags, FlagsOf, Chan
    <3>2. CASE q # r
      <4>1. req'[q] = req[q]
        BY <1>0, <2>1, <3>2
      <4> QED BY <4>1 DEF GuardInv, Flags, Chan
    <3> QED BY <3>1, <3>2
  <2> QED BY <2>2, <2>4, <2>5 DEF GuardInv
<1> QED BY <1>1, <1>2, WhoMoves

-----------------------------------------------------------------------------
(***************************************************************************)
(* The invariant holds.                                                    *)
(***************************************************************************)
THEOREM GuardsHold ==
  ASSUME GuardConstants
  PROVE  Spec => []GuardInv
  BY GuardInit, GuardStep, PTL DEF Spec

(***************************************************************************)
(* A limited channel never serves more attempts than its limit, whatever   *)
(* requests are retried or dropped (channel_limiter.rs:83-163).            *)
(***************************************************************************)
THEOREM AttemptsWithinLimit ==
  ASSUME GuardConstants
  PROVE  Spec => []WithinLimit
<1>1. GuardInv => WithinLimit
  <2> SUFFICES ASSUME GuardInv, NEW c \in Channels
               PROVE  Cardinality(Holders(c)) <= Limit[c]
    BY DEF WithinLimit
  <2>1. Cardinality(Holders(c)) <= slots[c] /\ slots[c] <= Limit[c]
    BY DEF GuardInv, Counted
  <2>2. slots[c] \in Nat /\ Limit[c] \in Nat
    BY GuardTypes DEF GuardConstants, GuardInv
  <2>3. Holders(c) \subseteq Requests
    BY DEF Holders
  <2>4. Cardinality(Holders(c)) \in Nat
    BY <2>3, FS_Subset, FS_CardinalityType DEF GuardConstants
  <2> QED BY <2>1, <2>2, <2>4
<1> QED BY <1>1, GuardsHold, PTL

(***************************************************************************)
(* Only a request that vanishes at the provider loses a slot: every other  *)
(* step moves the counter and the holders together (release_slot,          *)
(* channel_limiter.rs).                                                    *)
(***************************************************************************)
THEOREM SlotsReturn ==
  ASSUME GuardConstants
  PROVE  Spec => SlotsGivenBack
<1> DEFINE A == \/ \E r \in Requests : Vanishes(r)
                \/ \A c \in Channels :
                     slots'[c] - slots[c] = Cardinality(Holders(c)') - Cardinality(Holders(c))
<1>1. GuardInv /\ [Next]_vars => A
  <2> SUFFICES ASSUME GuardInv, [Next]_vars PROVE A
    OBVIOUS
  <2>1. CASE UNCHANGED <<slots, req>>
    <3> SUFFICES ASSUME NEW c \in Channels
                 PROVE  slots'[c] - slots[c] = Cardinality(Holders(c)') - Cardinality(Holders(c))
      OBVIOUS
    <3>1. Holders(c)' = Holders(c) /\ slots'[c] = slots[c]
      BY <2>1 DEF Holders, Chan
    <3>2. slots[c] \in Nat /\ Holders(c) \subseteq Requests
      BY GuardTypes DEF GuardInv, Holders
    <3>3. Cardinality(Holders(c)) \in Nat
      BY <3>2, FS_Subset, FS_CardinalityType DEF GuardConstants
    <3> QED BY <3>1, <3>2, <3>3
  <2>2. ASSUME NEW r \in Requests, Start(r) \/ Step(r) \/ Drop(r) PROVE A
    <3>1. PICK x \in Calls : /\ req' = [req EXCEPT ![r] = x]
                             /\ Keeps(r, x) \/ Takes(r, x) \/ GivesBack(r, x) \/ Forgets(r, x)
      BY <2>2, CallSteps DEF CallMoved
    <3>2. CASE Forgets(r, x)
      <4>1. req'[r] = x
        BY <3>1, GuardTypes DEF GuardInv
      <4>2. Vanishes(r)
        BY <3>2, <4>1 DEF Forgets, Vanishes
      <4> QED BY <4>2
    <3>3. CASE Keeps(r, x) \/ Takes(r, x) \/ GivesBack(r, x)
      BY <3>1, <3>3, HoldersMove
    <3> QED BY <3>1, <3>2, <3>3
  <2> QED BY <2>1, <2>2, WhoMoves
<1>2. SlotsGivenBack <=> [][A]_vars
  BY DEF SlotsGivenBack
<1> QED BY <1>1, <1>2, GuardsHold, PTL DEF Spec

-----------------------------------------------------------------------------
\* The end of r of which the breaker hears nothing
Silent(r) == Vanishes(r) \/ (req[r].pc = "streaming" /\ req'[r].pc = "idle")

\* A circuit is half open after a step of r because r is its probe, or because
\* it was half open before, and r was not its probe.
ProbeOf(r, c) ==
  circuit'[c].probe => \/ req'[r].probe /\ Chan(r)' = c
                       \/ circuit[c].probe /\ ~(req[r].probe /\ Chan(r) = c)

LEMMA ProbeMoves ==
  ASSUME GuardConstants, GuardInv, NEW r \in Requests, NEW c \in Channels,
         Start(r) \/ Step(r) \/ Drop(r), ~Silent(r)
  PROVE  ProbeOf(r, c)
<1>0. /\ req \in [Requests -> Calls] /\ circuit \in [Channels -> Circuits]
      /\ req[r] \in Calls /\ Chan(r) \in Channels
  BY GuardTypes, AtChannel DEF GuardInv
<1>1. /\ req[r].probe => r \in Tracked /\ req[r].pc \notin {"idle", "breaker", "wait", "finish"}
      /\ req[r].pc = "unbreaker" => req[r].err # "none" /\ (req[r].err = "circuit" => ~req[r].probe)
  BY DEF GuardInv, Flags
<1>2. ASSUME circuit' = circuit, req[r].probe => req'[r].probe /\ req'[r].at = req[r].at
      PROVE  ProbeOf(r, c)
  BY <1>2 DEF ProbeOf, Chan
<1>3. ASSUME circuit' = circuit, req[r].pc \in {"idle", "wait", "finish"} PROVE ProbeOf(r, c)
  BY <1>1, <1>3 DEF ProbeOf
<1>4. ASSUME NEW to, Goto(r, to)
      PROVE  req'[r].probe = req[r].probe /\ req'[r].at = req[r].at
  BY <1>0, <1>4 DEF Goto, Calls
<1>5. ASSUME NEW e, Fail(r, e) PROVE req'[r].probe = req[r].probe /\ req'[r].at = req[r].at
  BY <1>0, <1>5 DEF Fail, Calls
<1>6. CASE Start(r) \/ Finish(r) \/ Wake(r)
  BY <1>3, <1>6 DEF Start, Finish, Wake
<1>7. CASE PassBreaker(r)
  <2>1. ~req[r].probe
    BY <1>1, <1>7 DEF PassBreaker
  <2>2. CASE circuit' = circuit
    BY <1>2, <2>1, <2>2
  <2>3. CASE /\ circuit' = [circuit EXCEPT ![Chan(r)].cooldown = "none", ![Chan(r)].probe = TRUE]
             /\ req' = [req EXCEPT ![r].pc = "slot", ![r].probe = TRUE]
    <3>1. req'[r].probe /\ req'[r].at = req[r].at
      BY <1>0, <2>3 DEF Calls
    <3>2. c # Chan(r) => circuit'[c] = circuit[c]
      BY <1>0, <2>3
    <3> QED BY <2>1, <3>1, <3>2 DEF ProbeOf, Chan
  <2> QED BY <1>7, <2>2, <2>3 DEF PassBreaker
<1>8. CASE TakeSlot(r) \/ AdmitRate(r) \/ UpstreamFails(r)
  <2>1. circuit' = circuit
    BY <1>8 DEF TakeSlot, AdmitRate, UpstreamFails
  <2>2. \/ \E to : Goto(r, to) \/ \E e : Fail(r, e)
        \/ req' = [req EXCEPT ![r].pc = "rate", ![r].slot = TRUE]
    BY <1>8 DEF TakeSlot, AdmitRate, UpstreamFails
  <2>3. req'[r].probe = req[r].probe /\ req'[r].at = req[r].at
    BY <1>0, <1>4, <1>5, <2>2 DEF Calls
  <2> QED BY <1>2, <2>1, <2>3
<1>9. CASE Respond(r)
  <2>1. req' # [req EXCEPT ![r] = Idle]
    BY <1>0, <1>9 DEF Respond, Silent, Vanishes, Idle
  <2>2. \/ \E to : Goto(r, to) \/ \E e : Fail(r, e)
    BY <1>9, <2>1 DEF Respond
  <2> QED BY <1>2, <1>4, <1>5, <1>9, <2>2 DEF Respond
<1>10. CASE StreamCloses(r)
  <2>1. req'[r].pc = "idle"
    BY <1>0, <1>10 DEF StreamCloses, Idle
  <2> QED BY <1>10, <2>1 DEF StreamCloses, Silent
<1>11. CASE OkSlot(r) \/ Unslot(r)
  <2>1. req'[r].probe = req[r].probe /\ req'[r].at = req[r].at
    BY <1>0, <1>11 DEF OkSlot, Unslot, Calls
  <2> QED BY <1>2, <1>11, <2>1 DEF OkSlot, Unslot
<1>12. CASE OkBreaker(r)
  <2>1. CASE r \in Tracked
    <3>1. circuit' = [circuit EXCEPT ![Chan(r)] = Closed]
      BY <1>12, <2>1 DEF OkBreaker
    <3>2. ~circuit'[Chan(r)].probe /\ (c # Chan(r) => circuit'[c] = circuit[c])
      BY <1>0, <3>1 DEF Closed
    <3> QED BY <3>2 DEF ProbeOf
  <2>2. CASE r \notin Tracked
    BY <1>1, <1>12, <2>2 DEF OkBreaker, ProbeOf
  <2> QED BY <2>1, <2>2
<1>13. CASE Unbreaker(r)
  <2>1. CASE r \in Tracked
    <3>1. circuit' = [circuit EXCEPT ![Chan(r)] = Recorded(@, req[r].err)]
      BY <1>13, <2>1 DEF Unbreaker
    <3>2. req[r].err \in Errors \ {"none"}
      BY <1>0, <1>1, <1>13 DEF Unbreaker, Calls
    <3>3. CASE req[r].err = "circuit"
      <4>1. circuit'[c] = circuit[c]
        BY <1>0, <3>1, <3>2, <3>3, RecordedIs
      <4> QED BY <1>1, <1>13, <3>3, <4>1 DEF Unbreaker, ProbeOf
    <3>4. CASE req[r].err # "circuit"
      <4>1. ~circuit'[Chan(r)].probe /\ (c # Chan(r) => circuit'[c] = circuit[c])
        BY <1>0, <3>1, <3>2, <3>4, RecordedIs
      <4> QED BY <4>1 DEF ProbeOf
    <3> QED BY <3>3, <3>4
  <2>2. CASE r \notin Tracked
    BY <1>1, <1>13, <2>2 DEF Unbreaker, ProbeOf
  <2> QED BY <2>1, <2>2
<1>14. CASE Drop(r)
  <2>1. req'[r].pc = "idle"
    BY <1>0, <1>14 DEF Drop, Idle
  <2>2. req[r].pc = "wait"
    BY <1>14, <2>1 DEF Drop, Silent, Vanishes
  <2> QED BY <1>3, <1>14, <2>2 DEF Drop
<1> QED BY <1>6, <1>7, <1>8, <1>9, <1>10, <1>11, <1>12, <1>13, <1>14 DEF Step

(***************************************************************************)
(* A half-open circuit loses its probe only with a request that vanishes   *)
(* or a live stream; every other end decides it or admits the next probe   *)
(* (circuit_breaker.rs:177-268).                                           *)
(***************************************************************************)
THEOREM ProbesAreHandedBack ==
  ASSUME GuardConstants
  PROVE  Spec => ProbeHandedBack
<1> DEFINE A == \/ \E r \in Requests : Vanishes(r) \/ (req[r].pc = "streaming" /\ req'[r].pc = "idle")
                \/ ProbeHasOwner => ProbeHasOwner'
<1>1. GuardInv /\ [Next]_vars => A
  <2> SUFFICES ASSUME GuardInv, [Next]_vars, ~\E r \in Requests : Silent(r), ProbeHasOwner,
                      NEW c \in Channels, circuit'[c].probe
               PROVE  \E r \in Requests : req'[r].probe /\ Chan(r)' = c
    BY DEF ProbeHasOwner, Silent
  <2>0. req \in [Requests -> Calls] /\ circuit \in [Channels -> Circuits]
    BY GuardTypes DEF GuardInv
  <2>1. CASE UNCHANGED <<slots, req>> /\ ~\E r \in Requests : Start(r) \/ Step(r) \/ Drop(r)
    <3>1. circuit[c].probe
      BY <2>0, <2>1 DEF Next, Elapse, vars, Circuits
    <3> QED BY <2>1, <3>1 DEF ProbeHasOwner, Chan
  <2>2. ASSUME NEW r \in Requests, Start(r) \/ Step(r) \/ Drop(r)
        PROVE  \E q \in Requests : req'[q].probe /\ Chan(q)' = c
    <3>1. ProbeOf(r, c)
      BY <2>2, ProbeMoves
    <3>2. CASE req'[r].probe /\ Chan(r)' = c
      BY <3>2
    <3>3. CASE circuit[c].probe /\ ~(req[r].probe /\ Chan(r) = c)
      <4>1. PICK q \in Requests : req[q].probe /\ Chan(q) = c
        BY <3>3 DEF ProbeHasOwner
      <4>2. req'[q] = req[q]
        BY <2>0, <2>2, <3>3, <4>1, CallSteps DEF CallMoved
      <4> QED BY <4>1, <4>2 DEF Chan
    <3> QED BY <3>1, <3>2, <3>3 DEF ProbeOf
  <2> QED BY <2>1, <2>2, WhoMoves
<1>2. ProbeHandedBack <=> [][A]_vars
  BY DEF ProbeHandedBack
<1> QED BY <1>1, <1>2, GuardsHold, PTL DEF Spec
=============================================================================

------------------------ MODULE WsFingerprintsProofs ------------------------
(***************************************************************************)
(* Proofs about the duplicate filter, for every set of fingerprints and    *)
(* every debounce, retention and prune interval with Debounce <= Retention.*)
(***************************************************************************)
EXTENDS WsFingerprints, TLAPS

(* Between two offers of f the clock and the real time advance together    *)
(* unless the clock was stepped; a forgotten entry is an old one.  Holds   *)
(* with clock steps, and is what the properties below rest on.             *)
EntryInv(f) ==
  /\ f \in DOMAIN recentFingerprints => offeredAt[f] # Never
  /\ offeredAt[f] <= elapsed
  /\ ~steppedSince[f] =>
       IF f \in DOMAIN recentFingerprints
       THEN now - recentFingerprints[f] = elapsed - offeredAt[f]
       ELSE offeredAt[f] = Never \/ elapsed - offeredAt[f] > Retention

EntriesInv == \A f \in Fingerprints : EntryInv(f)

-----------------------------------------------------------------------------
(* What pruning leaves of a map, whose entries are integers.               *)
LEMMA PrunedFacts ==
  ASSUME NEW seen, now \in Int, \A g \in DOMAIN seen : seen[g] \in Int
  PROVE  /\ DOMAIN Pruned(seen) = {g \in DOMAIN seen : now - seen[g] <= Retention}
         /\ \A g \in DOMAIN Pruned(seen) : Pruned(seen)[g] = seen[g]
BY DEF Pruned

(* A call leaves f stored with the current time, and every other entry     *)
(* as it was or, if it is past the retention, removed.                     *)
LEMMA DropDuplicateFacts ==
  ASSUME TypeOK, NEW f \in Fingerprints, DropDuplicate(f)
  PROVE  /\ f \in DOMAIN recentFingerprints'
         /\ recentFingerprints'[f] = now
         /\ \A g \in Fingerprints \ {f} :
              IF g \in DOMAIN recentFingerprints'
              THEN /\ g \in DOMAIN recentFingerprints
                   /\ recentFingerprints'[g] = recentFingerprints[g]
              ELSE \/ g \notin DOMAIN recentFingerprints
                   \/ now - recentFingerprints[g] > Retention
         /\ DOMAIN recentFingerprints' \subseteq Fingerprints
<1>1. /\ DOMAIN Recorded(f) = DOMAIN recentFingerprints \union {f}
      /\ Recorded(f)[f] = now
      /\ \A g \in DOMAIN recentFingerprints \ {f} :
           Recorded(f)[g] = recentFingerprints[g]
  BY DEF Recorded
<1>2. \A g \in DOMAIN Recorded(f) : Recorded(f)[g] \in Int
  BY <1>1 DEF TypeOK
<1>3. CASE now - lastFingerprintPrune < PruneInterval
  BY <1>1, <1>3 DEF DropDuplicate, TypeOK
<1>4. CASE ~(now - lastFingerprintPrune < PruneInterval)
  <2>1. recentFingerprints' = Pruned(Recorded(f))
    BY <1>4 DEF DropDuplicate
  <2>2. now \in Int
    BY DEF TypeOK
  <2>3. /\ DOMAIN recentFingerprints' =
             {g \in DOMAIN Recorded(f) : now - Recorded(f)[g] <= Retention}
        /\ \A g \in DOMAIN recentFingerprints' :
             recentFingerprints'[g] = Recorded(f)[g]
    BY <2>1, <2>2, <1>2, PrunedFacts
  <2>4. now - Recorded(f)[f] <= Retention
    BY <1>1, <2>2, WindowAssumption
  <2>5. ASSUME NEW g \in Fingerprints \ {f}, g \notin DOMAIN recentFingerprints',
               g \in DOMAIN recentFingerprints
        PROVE  now - recentFingerprints[g] > Retention
    <3>1. ~(now - recentFingerprints[g] <= Retention)
      BY <1>1, <2>3, <2>5
    <3>2. recentFingerprints[g] \in Int
      BY <2>5 DEF TypeOK
    <3>3. QED
      BY <2>2, <3>1, <3>2, WindowAssumption
  <2>6. QED
    BY <1>1, <2>3, <2>4, <2>5 DEF TypeOK
<1>5. QED
  BY <1>3, <1>4

-----------------------------------------------------------------------------
(* Every variable keeps its type, with or without clock steps.             *)
LEMMA TypeStep == TypeOK /\ [Next]_vars => TypeOK'
<1> SUFFICES ASSUME TypeOK, [Next]_vars PROVE TypeOK'
  OBVIOUS
<1>1. ASSUME NEW f \in Fingerprints, DropDuplicate(f) PROVE TypeOK'
  <2>1. /\ DOMAIN recentFingerprints' \subseteq Fingerprints
        /\ \A g \in DOMAIN recentFingerprints' : recentFingerprints'[g] \in Int
    BY <1>1, DropDuplicateFacts DEF TypeOK
  <2>2. offeredAt' \in [Fingerprints -> Nat \union {Never}]
    BY <1>1 DEF TypeOK, DropDuplicate
  <2>3. QED
    BY <1>1, <2>1, <2>2 DEF TypeOK, DropDuplicate
<1>2. CASE Elapse
  BY <1>2, WindowAssumption DEF Elapse, TypeOK, store, history
<1>3. CASE StepClock
  BY <1>3, WindowAssumption DEF StepClock, TypeOK, store
<1>4. CASE UNCHANGED vars
  BY <1>4 DEF TypeOK, vars
<1>5. QED
  BY <1>1, <1>2, <1>3, <1>4 DEF Next

LEMMA InitType == Init => TypeOK
<1>1. Init => lastFingerprintPrune \in Int
  BY WindowAssumption DEF Init
<1>2. Init => DOMAIN recentFingerprints = {}
  BY DEF Init
<1>3. Init => /\ offeredAt \in [Fingerprints -> Nat \union {Never}]
              /\ steppedSince \in [Fingerprints -> BOOLEAN]
              /\ stepped \in BOOLEAN
  BY DEF Init
<1>4. Init => now \in Int /\ elapsed \in Nat /\ verdict \in {"none", "deliver", "drop"}
  BY DEF Init
<1> QED
  BY <1>1, <1>2, <1>3, <1>4 DEF TypeOK

(* The stored types hold in every state, even if the clock is stepped.     *)
THEOREM TypeCorrect == Spec => []TypeOK
<1>1. QED
  BY InitType, TypeStep, PTL DEF Spec

-----------------------------------------------------------------------------
LEMMA EntriesStep ==
  TypeOK /\ EntriesInv /\ [Next]_vars => EntriesInv'
<1> SUFFICES ASSUME TypeOK, EntriesInv, [Next]_vars,
                    NEW g \in Fingerprints
             PROVE  EntryInv(g)'
  BY DEF EntriesInv
<1> USE DEF Never
<1>1. ASSUME NEW f \in Fingerprints, DropDuplicate(f) PROVE EntryInv(g)'
  <2>1. CASE g = f
    <3>1. /\ g \in DOMAIN recentFingerprints' /\ recentFingerprints'[g] = now
      BY <1>1, <2>1, DropDuplicateFacts
    <3>2. offeredAt'[g] = elapsed /\ ~steppedSince'[g] /\ now' = now /\ elapsed' = elapsed
      BY <1>1, <2>1 DEF DropDuplicate, TypeOK
    <3>3. now \in Int /\ elapsed \in Nat
      BY DEF TypeOK
    <3>4. QED
      BY <3>1, <3>2, <3>3 DEF EntryInv
  <2>2. CASE g # f
    <3>1. /\ EntryInv(g)
          /\ offeredAt'[g] = offeredAt[g] /\ steppedSince'[g] = steppedSince[g]
          /\ now' = now /\ elapsed' = elapsed
      BY <1>1, <2>2 DEF EntriesInv, DropDuplicate, TypeOK
    <3>2. IF g \in DOMAIN recentFingerprints'
          THEN /\ g \in DOMAIN recentFingerprints
               /\ recentFingerprints'[g] = recentFingerprints[g]
          ELSE \/ g \notin DOMAIN recentFingerprints
               \/ now - recentFingerprints[g] > Retention
      BY <1>1, <2>2, DropDuplicateFacts
    <3>3. QED
      BY <3>1, <3>2 DEF EntryInv
  <2>3. QED
    BY <2>1, <2>2
<1>2. CASE Elapse
  <2>1. PICK d \in 1..(MaxNow - elapsed) : now' = now + d /\ elapsed' = elapsed + d
    BY <1>2 DEF Elapse
  <2>2. /\ EntryInv(g) /\ UNCHANGED <<recentFingerprints, offeredAt, steppedSince>>
        /\ offeredAt[g] \in Int /\ now \in Int /\ elapsed \in Nat /\ d \in Nat
        /\ g \in DOMAIN recentFingerprints => recentFingerprints[g] \in Int
    BY <1>2, WindowAssumption DEF Elapse, store, history, EntriesInv, TypeOK
  <2>3. QED
    BY <2>1, <2>2, WindowAssumption DEF EntryInv
<1>3. CASE StepClock
  BY <1>3 DEF StepClock, store, EntriesInv, EntryInv, TypeOK
<1>4. CASE UNCHANGED vars
  BY <1>4 DEF EntriesInv, EntryInv, vars
<1>5. QED
  BY <1>1, <1>2, <1>3, <1>4 DEF Next

LEMMA EntriesInit == Init => EntriesInv
<1> SUFFICES ASSUME Init, NEW f \in Fingerprints PROVE EntryInv(f)
  BY DEF EntriesInv
<1>1. offeredAt[f] = Never /\ elapsed = 0 /\ f \notin DOMAIN recentFingerprints
  BY DEF Init
<1>2. QED
  BY <1>1 DEF EntryInv, Never

(* A wrong answer of the filter needs a clock step since the last offer of *)
(* the same fingerprint.                                                   *)
THEOREM AnswersCorrect == Spec => WrongAnswersNeedClockStep
<1>1. TypeOK /\ EntriesInv /\ [Next]_vars =>
        [\A f \in Fingerprints :
           DropDuplicate(f) =>
             LET recently == offeredAt[f] # Never /\ elapsed - offeredAt[f] < Debounce
             IN /\ verdict' = "drop" /\ ~recently =>
                     steppedSince[f] /\ offeredAt[f] # Never
                /\ verdict' = "deliver" /\ recently => steppedSince[f]]_vars
  <2> SUFFICES ASSUME TypeOK, EntriesInv, NEW f \in Fingerprints, DropDuplicate(f)
               PROVE  LET recently == offeredAt[f] # Never /\ elapsed - offeredAt[f] < Debounce
                      IN /\ verdict' = "drop" /\ ~recently =>
                              steppedSince[f] /\ offeredAt[f] # Never
                         /\ verdict' = "deliver" /\ recently => steppedSince[f]
    OBVIOUS
  <2>1. verdict' = IF IsDuplicate(f) THEN "drop" ELSE "deliver"
    BY DEF DropDuplicate
  <2>2. EntryInv(f)
    BY DEF EntriesInv
  <2>3. /\ offeredAt[f] \in Int /\ elapsed \in Int
        /\ f \in DOMAIN recentFingerprints => recentFingerprints[f] \in Int
        /\ now \in Int
    BY DEF TypeOK, Never
  <2>4. QED
    BY <2>1, <2>2, <2>3, WindowAssumption DEF EntryInv, IsDuplicate
<1>2. QED
  BY <1>1, InitType, TypeStep, EntriesInit, EntriesStep, PTL
     DEF Spec, WrongAnswersNeedClockStep

-----------------------------------------------------------------------------
(* The map holds the last offers that still matter: an entry has the time  *)
(* of the last offer, and a missing one is past its retention.             *)
THEOREM MapCorrect == Spec => []MapFaithful
<1>1. EntriesInv => MapFaithful
  BY DEF EntriesInv, EntryInv, MapFaithful
<1> QED
  BY <1>1, InitType, TypeStep, EntriesInit, EntriesStep, PTL DEF Spec

(* Without clock steps the last pruning is never ahead of the clock.       *)
BoundInv == (~stepped => lastFingerprintPrune <= now) /\ MapBounded

LEMMA BoundStep == TypeOK /\ BoundInv /\ [Next]_vars => BoundInv'
<1> SUFFICES ASSUME TypeOK, BoundInv, [Next]_vars PROVE BoundInv'
  OBVIOUS
<1> USE WindowAssumption
<1>1. ASSUME NEW f \in Fingerprints, DropDuplicate(f) PROVE BoundInv'
  <2>1. \A g \in DOMAIN Recorded(f) : Recorded(f)[g] = now \/ Recorded(f)[g] \in Int
    BY DEF Recorded, TypeOK
  <2>2. CASE now - lastFingerprintPrune < PruneInterval
    <3>1. recentFingerprints' = Recorded(f) /\ lastFingerprintPrune' = lastFingerprintPrune
      BY <1>1, <2>2 DEF DropDuplicate
    <3>2. ~stepped => \A g \in DOMAIN Recorded(f) :
                        lastFingerprintPrune - Recorded(f)[g] <= Retention
      BY DEF Recorded, TypeOK, BoundInv, MapBounded
    <3> QED BY <1>1, <3>1, <3>2 DEF DropDuplicate, BoundInv, MapBounded
  <2>3. CASE ~(now - lastFingerprintPrune < PruneInterval)
    <3>1. recentFingerprints' = Pruned(Recorded(f)) /\ lastFingerprintPrune' = now /\ now' = now
      BY <1>1, <2>3 DEF DropDuplicate
    <3>2. now \in Int BY DEF TypeOK
    <3>3. \A g \in DOMAIN Pruned(Recorded(f)) : now - Pruned(Recorded(f))[g] <= Retention
      BY <2>1, <3>2 DEF Pruned
    <3> QED BY <3>1, <3>2, <3>3 DEF BoundInv, MapBounded
  <2> QED BY <2>2, <2>3
<1>2. CASE Elapse
  BY <1>2 DEF Elapse, BoundInv, MapBounded, TypeOK, store, history
<1>3. CASE StepClock
  BY <1>3 DEF StepClock, BoundInv, MapBounded
<1>4. CASE UNCHANGED vars
  BY <1>4 DEF BoundInv, MapBounded, vars
<1> QED
  BY <1>1, <1>2, <1>3, <1>4 DEF Next

(* No entry outlives the retention at the time of the last pruning: the    *)
(* map cannot grow with the age of the process (ws_events.go:346-356).     *)
THEOREM MapStaysSmall == Spec => []MapBounded
<1>1. Init => BoundInv
  BY WindowAssumption DEF Init, BoundInv, MapBounded
<1>2. BoundInv => MapBounded
  BY DEF BoundInv
<1> QED
  BY <1>1, <1>2, InitType, TypeStep, BoundStep, PTL DEF Spec

(* The stored map implements the abstract window, but for clock steps:     *)
(* pruning is invisible.                                                   *)
THEOREM Refinement == Spec => ImplementsWindow
<1>1. Init => Window!WindowInit
  BY DEF Init, Window!WindowInit, Recent
<1>2. TypeOK /\ [Next]_vars => [StepClock \/ Window!WindowNext]_(Window!windowVars)
  <2> SUFFICES ASSUME TypeOK, [Next]_vars, ~StepClock
               PROVE  [Window!WindowNext]_(Window!windowVars)
    OBVIOUS
  <2>1. ASSUME NEW f \in Fingerprints, DropDuplicate(f) PROVE Window!Offer(f)
    <3>1. f \in Recent <=> IsDuplicate(f)
      BY DEF Recent, IsDuplicate
    <3>2. verdict' = IF f \in Recent THEN "drop" ELSE "deliver"
      BY <2>1, <3>1 DEF DropDuplicate
    <3>3. /\ f \in DOMAIN recentFingerprints' /\ recentFingerprints'[f] = now
          /\ now' = now /\ now \in Int
      BY <2>1, DropDuplicateFacts DEF DropDuplicate, TypeOK
    <3>4. f \in Recent'
      BY <3>3, WindowAssumption DEF Recent
    <3>5. ASSUME NEW g \in Fingerprints \ {f} PROVE g \in Recent' <=> g \in Recent
      <4>1. IF g \in DOMAIN recentFingerprints'
            THEN /\ g \in DOMAIN recentFingerprints
                 /\ recentFingerprints'[g] = recentFingerprints[g]
            ELSE \/ g \notin DOMAIN recentFingerprints
                 \/ now - recentFingerprints[g] > Retention
        BY <2>1, DropDuplicateFacts
      <4>2. g \in DOMAIN recentFingerprints => recentFingerprints[g] \in Int
        BY DEF TypeOK
      <4>3. QED
        BY <3>3, <4>1, <4>2, WindowAssumption DEF Recent
    <3>6. Recent \subseteq Fingerprints /\ Recent' \subseteq Fingerprints
      BY <2>1, DropDuplicateFacts DEF Recent, TypeOK
    <3>7. Recent' = Recent \union {f}
      BY <3>4, <3>5, <3>6
    <3>8. QED
      BY <3>2, <3>7 DEF Window!Offer
  <2>2. CASE Elapse
    <3>1. PICK d \in 1..(MaxNow - elapsed) : now' = now + d
      BY <2>2 DEF Elapse
    <3>2. recentFingerprints' = recentFingerprints /\ verdict' = verdict
      BY <2>2 DEF Elapse, store
    <3>3. ASSUME NEW f \in Recent' PROVE f \in Recent
      <4>1. /\ f \in DOMAIN recentFingerprints
            /\ now' - recentFingerprints[f] < Debounce
        BY <3>2, <3>3 DEF Recent
      <4>2. /\ recentFingerprints[f] \in Int /\ now \in Int
            /\ d \in Nat /\ Debounce \in Int
        BY <4>1, WindowAssumption DEF TypeOK
      <4>3. now - recentFingerprints[f] < Debounce
        BY <3>1, <4>1, <4>2
      <4>4. QED
        BY <4>1, <4>3 DEF Recent
    <3>4. Window!Expire
      BY <3>2, <3>3 DEF Window!Expire
    <3>5. QED
      BY <3>4 DEF Window!WindowNext
  <2>3. CASE UNCHANGED vars
    BY <2>3 DEF vars, Window!windowVars, Recent
  <2>4. QED
    BY <2>1, <2>2, <2>3 DEF Next, Window!WindowNext
<1>3. QED
  BY <1>1, <1>2, InitType, TypeStep, PTL DEF Spec, ImplementsWindow
=============================================================================

--------------------------- MODULE WsFingerprints ---------------------------
(***************************************************************************)
(* The duplicate filter of the realtime hub: dropDuplicate and             *)
(* pruneFingerprintsLocked of internal/server/ws_events.go, with the map   *)
(* recentFingerprints and the time of the last pruning.  Both run under    *)
(* fingerprintMu, so one call is one action.                               *)
(*                                                                         *)
(* The times come from time.Now().UTC(), which strips the monotonic clock  *)
(* reading: they follow the wall clock, and the operator or NTP may step   *)
(* it.                                                                     *)
(***************************************************************************)
EXTENDS Integers

CONSTANTS
  Fingerprints,          (* the strings buildWSFingerprint may return      *)
  Debounce,              (* wsDuplicateEventDebounce                       *)
  Retention,             (* wsFingerprintRetention                         *)
  PruneInterval,         (* wsFingerprintPruneInterval                     *)
  MaxNow,                (* bound on the time that passes in a behaviour   *)
  StepSizes,             (* by how much the wall clock may be stepped      *)
  ClockRange             (* bound on the values it is stepped to           *)

ASSUME WindowAssumption ==
  /\ Debounce \in Nat \ {0}
  /\ Retention \in Nat
  /\ Debounce <= Retention
  /\ PruneInterval \in Nat
  /\ MaxNow \in Nat
  /\ StepSizes \subseteq Int
  /\ ClockRange \subseteq Int

VARIABLES
  now,                   (* the wall clock                                 *)
  recentFingerprints,    (* fingerprint -> time it was last offered        *)
  lastFingerprintPrune,  (* wall clock of the last pruning                 *)
  verdict,               (* the answer to the last offer                   *)
  elapsed,               (* history: time that really passed               *)
  offeredAt,             (* history: elapsed when last offered, or Never   *)
  steppedSince,          (* history: clock stepped since the last offer    *)
  stepped                (* history: clock stepped at all                  *)

store == <<recentFingerprints, lastFingerprintPrune>>
history == <<offeredAt, steppedSince, stepped>>
vars == <<now, recentFingerprints, lastFingerprintPrune, verdict,
          elapsed, offeredAt, steppedSince, stepped>>

Never == -1

TypeOK ==
  /\ now \in Int
  /\ DOMAIN recentFingerprints \subseteq Fingerprints
  /\ \A f \in DOMAIN recentFingerprints : recentFingerprints[f] \in Int
  /\ lastFingerprintPrune \in Int
  /\ verdict \in {"none", "deliver", "drop"}
  /\ elapsed \in Nat
  /\ offeredAt \in [Fingerprints -> Nat \union {Never}]
  /\ steppedSince \in [Fingerprints -> BOOLEAN]
  /\ stepped \in BOOLEAN

(* The zero time of lastFingerprintPrune lies far before any clock value.  *)
Init ==
  /\ now = 0
  /\ recentFingerprints = [f \in {} |-> 0]
  /\ lastFingerprintPrune = -PruneInterval
  /\ verdict = "none"
  /\ elapsed = 0
  /\ offeredAt = [f \in Fingerprints |-> Never]
  /\ steppedSince = [f \in Fingerprints |-> FALSE]
  /\ stepped = FALSE

(* The map after recentFingerprints[f] = now.                              *)
Recorded(f) ==
  [g \in DOMAIN recentFingerprints \union {f} |->
     IF g = f THEN now ELSE recentFingerprints[g]]

(* Mutants of Pruned: the entries are kept for the prune interval only;    *)
(* nothing is deleted.                                                     *)
PrunedByInterval(seen) ==
  [f \in {g \in DOMAIN seen : now - seen[g] < PruneInterval} |-> seen[f]]
PrunedNothing(seen) == seen

(* A map without the entries past their retention.                         *)
Pruned(seen) ==
  [f \in {g \in DOMAIN seen : now - seen[g] <= Retention} |-> seen[f]]

(* Mutants of IsDuplicate: the window is closed at its end; any stored     *)
(* entry is a duplicate.                                                   *)
IsDuplicateInclusive(f) ==
  f \in DOMAIN recentFingerprints /\ now - recentFingerprints[f] <= Debounce
IsDuplicateStored(f) == f \in DOMAIN recentFingerprints

(* The same fingerprint is stored with a time less than a debounce ago.    *)
IsDuplicate(f) ==
  /\ f \in DOMAIN recentFingerprints
  /\ now - recentFingerprints[f] < Debounce

(* The entry is written first, then the map is pruned if the interval has  *)
(* passed, and the answer uses the time read before both.                  *)
DropDuplicate(f) ==
  /\ IF now - lastFingerprintPrune < PruneInterval
     THEN /\ recentFingerprints' = Recorded(f)
          /\ UNCHANGED lastFingerprintPrune
     ELSE /\ recentFingerprints' = Pruned(Recorded(f))
          /\ lastFingerprintPrune' = now
  /\ verdict' = IF IsDuplicate(f) THEN "drop" ELSE "deliver"
  /\ offeredAt' = [offeredAt EXCEPT ![f] = elapsed]
  /\ steppedSince' = [steppedSince EXCEPT ![f] = FALSE]
  /\ UNCHANGED <<now, elapsed, stepped>>

(* Time passes between two calls.                                          *)
Elapse ==
  \E d \in 1..(MaxNow - elapsed) :
    /\ now' = now + d
    /\ elapsed' = elapsed + d
    /\ UNCHANGED <<store, verdict, history>>

(* The wall clock is set, without time passing.                            *)
StepClock ==
  \E d \in StepSizes :
    /\ now + d \in ClockRange
    /\ now' = now + d
    /\ steppedSince' = [f \in Fingerprints |-> TRUE]
    /\ stepped' = TRUE
    /\ UNCHANGED <<store, verdict, elapsed, offeredAt>>

Next == Elapse \/ StepClock \/ \E f \in Fingerprints : DropDuplicate(f)

Spec == Init /\ [][Next]_vars
-----------------------------------------------------------------------------
(***************************************************************************)
(* Refinement: the stored map is a DebounceWindow whose recent fingerprints*)
(* are the entries younger than the debounce.  Pruning, whenever it        *)
(* happens, must be invisible there.                                       *)
(***************************************************************************)
Recent ==
  {f \in DOMAIN recentFingerprints : now - recentFingerprints[f] < Debounce}

Window == INSTANCE DebounceWindow WITH recent <- Recent

(* Pruning never changes an answer: every call answers as a filter that    *)
(* forgets nothing but by the passing of time, or by a step of the clock,  *)
(* would (ws_events.go:334-356).                                           *)
ImplementsWindow ==
  Window!WindowInit /\ [][StepClock \/ Window!WindowNext]_(Window!windowVars)

(* Unless the clock was stepped since, an entry the map has forgotten is   *)
(* one too old to be a duplicate, and an entry it still has carries the    *)
(* time of the last offer, dropped or not: a steady stream of equal events *)
(* is delivered once and then suppressed for as long as it lasts           *)
(* (ws_events.go:339-343).                                                 *)
MapFaithful ==
  \A f \in Fingerprints :
    ~steppedSince[f] =>
      IF f \in DOMAIN recentFingerprints
      THEN /\ offeredAt[f] # Never
           /\ now - recentFingerprints[f] = elapsed - offeredAt[f]
      ELSE offeredAt[f] = Never \/ elapsed - offeredAt[f] > Retention

(* With a clock that only advances, the map only outgrows the fingerprints *)
(* of the last retention period by what was offered since the last pruning *)
(* (ws_events.go:346-356).                                                 *)
MapBounded ==
  ~stepped => \A f \in DOMAIN recentFingerprints :
                lastFingerprintPrune - recentFingerprints[f] <= Retention

(* An offer is dropped only if the same fingerprint was offered before,    *)
(* less than a debounce ago in real time, or else the wall clock has been  *)
(* stepped since: a step costs each fingerprint at most one answer, and    *)
(* the first event of a kind is never dropped, whatever the clock does.    *)
WrongAnswersNeedClockStep ==
  [][\A f \in Fingerprints :
       DropDuplicate(f) =>
         LET recently == offeredAt[f] # Never /\ elapsed - offeredAt[f] < Debounce
         IN /\ verdict' = "drop" /\ ~recently =>
                 steppedSince[f] /\ offeredAt[f] # Never
            /\ verdict' = "deliver" /\ recently => steppedSince[f]]_vars
=============================================================================

--------------------------- MODULE DebounceWindow ---------------------------
(***************************************************************************)
(* What the realtime hub asks of its duplicate filter (dropDuplicate in    *)
(* internal/server/ws_events.go): a set of fingerprints that were offered  *)
(* recently.  Offering a fingerprint answers whether it is one of them,    *)
(* and makes it recent again whatever the answer; fingerprints stop being  *)
(* recent as time passes.  Nothing is said of how the set is stored, of    *)
(* the clock, or of the pruning that keeps the store small: WsFingerprints *)
(* has those and implements this module.  WsHub is built on this one.      *)
(***************************************************************************)

CONSTANT Fingerprints    (* what two equal events have in common           *)

VARIABLES
  recent,                (* fingerprints offered less than a window ago    *)
  verdict                (* the answer to the last offer                   *)

windowVars == <<recent, verdict>>

Verdicts == {"none", "deliver", "drop"}

WindowTypeOK ==
  /\ recent \subseteq Fingerprints
  /\ verdict \in Verdicts

WindowInit ==
  /\ recent = {}
  /\ verdict = "none"

(* One call of dropDuplicate.  A dropped offer extends the window too.     *)
Offer(f) ==
  /\ verdict' = IF f \in recent THEN "drop" ELSE "deliver"
  /\ recent' = recent \union {f}

(* Time passes, and some fingerprints leave the window.                    *)
Expire ==
  /\ recent' \in SUBSET recent
  /\ UNCHANGED verdict

WindowNext == Expire \/ \E f \in Fingerprints : Offer(f)

WindowSpec == WindowInit /\ [][WindowNext]_windowVars
=============================================================================

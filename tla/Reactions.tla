----------------------------- MODULE Reactions -----------------------------
(***************************************************************************)
(* Reactions to one message: addReaction, removeReaction and               *)
(* loadReactionMap of internal/server/messages.go, with gomuks between     *)
(* them and the homeserver.                                                *)
(*                                                                         *)
(* addReaction answers before the event is sent: gomuks sends it later,    *)
(* and may hold an echo of it until then, under an ID of its own.          *)
(* removeReaction reads once what the store holds, then redacts it event   *)
(* by event on the homeserver, and gives up at the first error.  The store *)
(* hears of new events and of redactions by syncing.                       *)
(*                                                                         *)
(* A key is stored as it was sent, is shown without the blanks around it,  *)
(* and is removed only if there are none.                                  *)
(***************************************************************************)
CONSTANTS
  Own,                   (* events this user adds, one for each request    *)
  Foreign,               (* events of other users                          *)
  Keys,                  (* keys without blanks                            *)
  Removals,              (* clients that remove a reaction, and retry      *)
  None

ASSUME ReactionsAssumption ==
  Own \intersect Foreign = {} /\ "self" \notin Foreign /\ None \notin Keys

VARIABLES
  raw,                   (* the key of each event, as sent                 *)
  server,                (* each event on the homeserver, or on its way    *)
  store,                 (* what gomuks has of it                          *)
  removal,               (* each removal: where it is, what is left to do  *)
  had                    (* history: what it found when it last looked     *)

events == <<raw, server, store>>
removals == <<removal, had>>
vars == <<events, removals>>

Events == Own \union Foreign
RawKeys == [key : Keys, blanks : BOOLEAN]
NoKey == [key |-> None, blanks |-> FALSE]
Phases == {"new", "redacting", "failed", "succeeded"}

Init ==
  /\ raw = [e \in Events |-> NoKey]
  /\ server = [e \in Events |-> "none"]
  /\ store = [e \in Events |-> "none"]
  /\ removal = [q \in Removals |-> [pc |-> "new", key |-> None, left |-> {}, echoes |-> {}]]
  /\ had = [q \in Removals |-> {}]

(* Redacted on the homeserver: by a removal here, or by any other client.  *)
Gone(e) == server[e] \in {"removed", "redacted"}

(* The reactions of the message in an answer: one for each sender and key. *)
SenderOf(e) == IF e \in Own THEN "self" ELSE e
Reaction(e) == [sender |-> SenderOf(e), key |-> raw[e].key]
(* Mutant of Shown: redacted events are shown.                             *)
ShownRedacted == {Reaction(e) : e \in {f \in Events : store[f] # "none"}}
Shown == {Reaction(e) : e \in {f \in Events : store[f] = "there"}}
-----------------------------------------------------------------------------
(* Adding, and what gomuks and other users do.                             *)

AddReaction(e) ==
  /\ server[e] = "none" /\ e \in Own
  /\ \E k \in RawKeys, echo \in {"none", "there"} :
       /\ raw' = [raw EXCEPT ![e] = k]
       /\ store' = [store EXCEPT ![e] = echo]
  /\ server' = [server EXCEPT ![e] = "queued"]
  /\ UNCHANGED removals

(* An echo stays in the store when sending its event has failed.           *)
Send(e) ==
  /\ server[e] = "queued"
  /\ \E outcome \in {"there", "refused"} : server' = [server EXCEPT ![e] = outcome]
  /\ UNCHANGED <<raw, store, removals>>

Arrive(e) ==
  /\ server[e] = "none" /\ e \in Foreign
  /\ \E k \in RawKeys : raw' = [raw EXCEPT ![e] = k]
  /\ server' = [server EXCEPT ![e] = "there"]
  /\ UNCHANGED <<store, removals>>

RedactElsewhere(e) ==
  /\ server[e] = "there"
  /\ server' = [server EXCEPT ![e] = "redacted"]
  /\ UNCHANGED <<raw, store, removals>>

(* The sync that brings an event may be from before its redaction.         *)
Sync(e) ==
  /\ \/ store[e] = "none" /\ (server[e] = "there" \/ Gone(e))
        /\ \E s \in {"there"} \union (IF Gone(e) THEN {"redacted"} ELSE {}) :
             store' = [store EXCEPT ![e] = s]
     \/ store[e] = "there" /\ Gone(e) /\ store' = [store EXCEPT ![e] = "redacted"]
  /\ UNCHANGED <<raw, server, removals>>
-----------------------------------------------------------------------------
(* Removing.                                                               *)

(* Mutant of ToRedact: whoever has sent it.                                *)
ToRedactOfAnyone(key) ==
  {e \in Events : store[e] = "there" /\ raw[e] = [key |-> key, blanks |-> FALSE]}

(* The user's events of this very key.                                     *)
ToRedact(key) ==
  {e \in Own : store[e] = "there" /\ raw[e] = [key |-> key, blanks |-> FALSE]}

(* An echo has an ID that the homeserver does not know.                    *)
Look(q, key) ==
  LET found == ToRedact(key)
  IN /\ removal' = [removal EXCEPT ![q] =
          [pc |-> "redacting", key |-> key, left |-> found,
           echoes |-> {e \in found : server[e] \in {"queued", "refused"}}]]
     /\ had' = [had EXCEPT ![q] = found]
     /\ UNCHANGED events

RemoveReaction(q) == removal[q].pc = "new" /\ \E key \in Keys : Look(q, key)

(* The client asks again after an error.                                   *)
Retry(q) == removal[q].pc = "failed" /\ Look(q, removal[q].key)

(* RedactEvent of the homeserver: again is no error.                       *)
Redact(q, e) ==
  /\ removal[q].pc = "redacting" /\ e \in removal[q].left \ removal[q].echoes
  /\ server' = [server EXCEPT ![e] = IF Gone(e) THEN @ ELSE "removed"]
  /\ removal' = [removal EXCEPT ![q].left = @ \ {e}]
  /\ UNCHANGED <<raw, store, had>>

(* Mutants of Stopped: the loop goes on after an error; or tries the same  *)
(* event again.                                                            *)
StoppedNot(r, e) == [r EXCEPT !.left = @ \ {e}]
StoppedAgain(r, e) == r
Stopped(r, e) == [r EXCEPT !.pc = "failed"]

(* The redaction fails, or its answer is lost.                             *)
RedactFails(q, e) ==
  /\ removal[q].pc = "redacting" /\ e \in removal[q].left
  /\ \E reached \in BOOLEAN :
       /\ reached => e \notin removal[q].echoes
       /\ server' = [server EXCEPT ![e] = IF reached /\ ~Gone(e) THEN "removed" ELSE @]
  /\ removal' = [removal EXCEPT ![q] = Stopped(@, e)]
  /\ UNCHANGED <<raw, store, had>>

Answer(q) ==
  /\ removal[q].pc = "redacting" /\ removal[q].left = {}
  /\ removal' = [removal EXCEPT ![q].pc = "succeeded"]
  /\ UNCHANGED <<events, had>>
-----------------------------------------------------------------------------
Next ==
  \/ \E e \in Events :
       AddReaction(e) \/ Send(e) \/ Arrive(e) \/ RedactElsewhere(e) \/ Sync(e)
  \/ \E q \in Removals :
       \/ RemoveReaction(q) \/ Retry(q) \/ Answer(q)
       \/ \E e \in Events : Redact(q, e) \/ RedactFails(q, e)

Spec == Init /\ [][Next]_vars

(* gomuks sends what it has queued and syncs, a handler goes on, and the   *)
(* client asks again until the answer is no error.  Of the homeserver it   *)
(* is assumed that it does not fail for ever on one event.                 *)
Fairness ==
  /\ \A e \in Own : WF_vars(Send(e)) /\ WF_vars(Sync(e))
  /\ \A q \in Removals :
       /\ WF_vars(Retry(q)) /\ WF_vars(Answer(q))
       /\ WF_vars(\E e \in Events : Redact(q, e) \/ RedactFails(q, e))
       /\ \A e \in Events : SF_vars(Redact(q, e))

FairSpec == Spec /\ Fairness
-----------------------------------------------------------------------------
(* Properties.                                                             *)

TypeOK ==
  /\ raw \in [Events -> RawKeys \union {NoKey}]
  /\ server \in [Events -> {"none", "queued", "refused", "there", "removed", "redacted"}]
  /\ store \in [Events -> {"none", "there", "redacted"}]
  /\ removal \in [Removals -> [pc : Phases, key : Keys \union {None},
                               left : SUBSET Own, echoes : SUBSET Own]]
  /\ had \in [Removals -> SUBSET Own]

(* What is still shown of a key after its removal was answered with        *)
(* success is an event that the store did not have when the removal looked,*)
(* one whose redaction it has not synced yet, or one added with blanks     *)
(* around the key, which no removal finds (messages.go:283-308, 452-466).  *)
RemovalSticks ==
  \A q \in Removals :
    removal[q].pc = "succeeded" /\ [sender |-> "self", key |-> removal[q].key] \in Shown =>
      \E e \in Own : /\ store[e] = "there" /\ raw[e].key = removal[q].key
                     /\ e \notin had[q] \/ Gone(e) \/ raw[e].blanks

(* Removals redact nothing but the user's own events of a key that one of  *)
(* them was asked to remove, however they overlap with each other, with    *)
(* additions, and with syncs (messages.go:290-308).                        *)
OnlyAskedFor ==
  \A e \in Events :
    server[e] = "removed" =>
      e \in Own /\ \E q \in Removals : raw[e] = [key |-> removal[q].key, blanks |-> FALSE]

(* An echo of an event that was never sent: no removal gets past it.       *)
DeadEcho(q) ==
  \E e \in Own : server[e] = "refused" /\ store[e] = "there" /\ raw[e].key = removal[q].key

(* A client that retries a failed removal, which may have redacted some of *)
(* the events and may have met echoes, is answered with success in the end,*)
(* unless there is the echo of an event that was refused                   *)
(* (messages.go:283-308).                                                  *)
RetriesEnd ==
  \A q \in Removals :
    removal[q].pc # "new" ~> removal[q].pc = "succeeded" \/ DeadEcho(q)
=============================================================================

--------------------------- MODULE MessagesProofs ---------------------------
(***************************************************************************)
(* Proofs about Reactions and about Paging (MessagePages and ChatList),    *)
(* for any number of rows, rooms, events and keys, any size of a page and  *)
(* any number of rows that a request reads.                                *)
(*                                                                         *)
(* Reactions: type correctness, OnlyAskedFor and RemovalSticks.  The last  *)
(* needs to know what a removal has done so far: what it had found and has *)
(* no more to do is gone from the homeserver (Progress); OnlyAskedFor, that*)
(* what is left has the key that was asked for, and that neither key       *)
(* changes any more (Known, Asked).                                        *)
(*                                                                         *)
(* Pages of messages: first what a page has, which rests on counting rows  *)
(* (NewestFirst, OldestFirst): going back it leaves no gap and is empty    *)
(* only when all rows that the request read are hidden (PageBack); going   *)
(* forward it leaves out at most the row next to the cursor (PageForward). *)
(* Then the invariant between two pages (Walking): what was returned is on *)
(* one side of the cursor and what is missing on the other.                *)
(*                                                                         *)
(* Lists of chats: the same for rooms in the order of the list, which move *)
(* while the client walks (Between), and the archived state (ActInv).      *)
(***************************************************************************)
EXTENDS Reactions, Paging, FiniteSetTheorems, TLAPS


(* What has a place anywhere has a key, and the store has what was added.  *)
Known ==
  \A e \in Events :
    /\ store[e] # "none" => server[e] # "none"
    /\ server[e] # "none" => raw[e] \in RawKeys

Asked ==
  \A q \in Removals :
    /\ removal[q].pc = "new" <=> removal[q].key = None
    /\ \A e \in removal[q].left :
         server[e] # "none" /\ raw[e] = [key |-> removal[q].key, blanks |-> FALSE]

Progress ==
  \A q \in Removals :
    /\ removal[q].pc \in {"redacting", "succeeded"} =>
         \A e \in had[q] \ removal[q].left : Gone(e)
    /\ removal[q].pc = "succeeded" => removal[q].left = {}

IInv == TypeOK /\ Known /\ Asked /\ Progress /\ OnlyAskedFor

USE ReactionsAssumption
-----------------------------------------------------------------------------
LEMMA InitInv == Init => IInv
<1> SUFFICES ASSUME Init PROVE IInv
  OBVIOUS
<1>1. TypeOK
  BY DEF Init, TypeOK, Phases, NoKey
<1>2. Known /\ Asked /\ Progress /\ OnlyAskedFor
  BY DEF Init, Known, Asked, Progress, OnlyAskedFor, Events
<1> QED
  BY <1>1, <1>2 DEF IInv

(* What every step keeps of an event that has a place: place, key, and that*)
(* it is gone.                                                             *)
KeepsEvents ==
  /\ \A e \in Events : server[e] # "none" => server'[e] # "none" /\ raw'[e] = raw[e]
  /\ \A e \in Events : Gone(e) => Gone(e)'

(* Steps of the events alone disturb no removal.                           *)
LEMMA EventStep ==
  ASSUME IInv, KeepsEvents, UNCHANGED removals,
         \A e \in Events : server'[e] = "removed" => server[e] = "removed"
  PROVE Asked' /\ Progress' /\ OnlyAskedFor'
<1>1. \A q \in Removals : removal[q].left \subseteq Events /\ had[q] \subseteq Events
  BY DEF IInv, TypeOK, Events
<1>2. removal' = removal /\ had' = had
  BY DEF removals
<1>3. Asked'
  BY <1>1, <1>2 DEF IInv, Asked, KeepsEvents
<1>4. Progress'
  BY <1>1, <1>2 DEF IInv, Progress, KeepsEvents
<1>5. OnlyAskedFor'
  BY <1>2 DEF IInv, OnlyAskedFor, KeepsEvents
<1> QED
  BY <1>3, <1>4, <1>5

LEMMA AddReactionInv ==
  ASSUME IInv, NEW e \in Events, AddReaction(e)
  PROVE IInv'
<1>1. PICK k \in RawKeys, echo \in {"none", "there"} :
        /\ raw' = [raw EXCEPT ![e] = k]
        /\ store' = [store EXCEPT ![e] = echo]
  BY DEF AddReaction
<1>2. TypeOK'
  BY <1>1 DEF IInv, TypeOK, AddReaction, removals
<1>3. Known'
  BY <1>1 DEF IInv, TypeOK, Known, AddReaction
<1>4. KeepsEvents /\ \A f \in Events : server'[f] = "removed" => server[f] = "removed"
  BY <1>1 DEF IInv, TypeOK, AddReaction, KeepsEvents, Gone
<1>5. Asked' /\ Progress' /\ OnlyAskedFor'
  BY <1>4, EventStep DEF AddReaction
<1> QED
  BY <1>2, <1>3, <1>5 DEF IInv

LEMMA SendInv ==
  ASSUME IInv, NEW e \in Events, Send(e)
  PROVE IInv'
<1>1. PICK outcome \in {"there", "refused"} : server' = [server EXCEPT ![e] = outcome]
  BY DEF Send
<1>2. TypeOK' /\ Known'
  BY <1>1 DEF IInv, TypeOK, Known, Send, removals
<1>3. KeepsEvents /\ \A f \in Events : server'[f] = "removed" => server[f] = "removed"
  BY <1>1 DEF IInv, TypeOK, Send, KeepsEvents, Gone
<1>4. Asked' /\ Progress' /\ OnlyAskedFor'
  BY <1>3, EventStep DEF Send
<1> QED
  BY <1>2, <1>4 DEF IInv

LEMMA ArriveInv ==
  ASSUME IInv, NEW e \in Events, Arrive(e)
  PROVE IInv'
<1>1. PICK k \in RawKeys : raw' = [raw EXCEPT ![e] = k]
  BY DEF Arrive
<1>2. TypeOK' /\ Known'
  BY <1>1 DEF IInv, TypeOK, Known, Arrive, removals
<1>3. KeepsEvents /\ \A f \in Events : server'[f] = "removed" => server[f] = "removed"
  BY <1>1 DEF IInv, TypeOK, Arrive, KeepsEvents, Gone
<1>4. Asked' /\ Progress' /\ OnlyAskedFor'
  BY <1>3, EventStep DEF Arrive
<1> QED
  BY <1>2, <1>4 DEF IInv

LEMMA RedactElsewhereInv ==
  ASSUME IInv, NEW e \in Events, RedactElsewhere(e)
  PROVE IInv'
<1>1. TypeOK' /\ Known'
  BY DEF IInv, TypeOK, Known, RedactElsewhere, removals
<1>2. KeepsEvents /\ \A f \in Events : server'[f] = "removed" => server[f] = "removed"
  BY DEF IInv, TypeOK, RedactElsewhere, KeepsEvents, Gone
<1>3. Asked' /\ Progress' /\ OnlyAskedFor'
  BY <1>2, EventStep DEF RedactElsewhere
<1> QED
  BY <1>1, <1>3 DEF IInv

LEMMA SyncInv ==
  ASSUME IInv, NEW e \in Events, Sync(e)
  PROVE IInv'
<1>1. \E s \in {"there", "redacted"} : store' = [store EXCEPT ![e] = s]
  BY DEF Sync
<1>2. server[e] # "none"
  BY DEF Sync, Gone
<1>3. TypeOK' /\ Known'
  BY <1>1, <1>2 DEF IInv, TypeOK, Known, Sync, removals
<1>4. KeepsEvents /\ \A f \in Events : server'[f] = "removed" => server[f] = "removed"
  BY DEF Sync, KeepsEvents, Gone
<1>5. Asked' /\ Progress' /\ OnlyAskedFor'
  BY <1>4, EventStep DEF Sync
<1> QED
  BY <1>3, <1>5 DEF IInv
-----------------------------------------------------------------------------
(* A removal that looks, for the first time or again.                      *)
LEMMA LookInv ==
  ASSUME IInv, NEW q \in Removals, NEW key \in Keys, Look(q, key),
         removal[q].pc = "new" \/ key = removal[q].key
  PROVE IInv'
<1> DEFINE found == ToRedact(key)
           echoes == {e \in found : server[e] \in {"queued", "refused"}}
           seen == [pc |-> "redacting", key |-> key, left |-> found, echoes |-> echoes]
<1>1. found \subseteq Own /\ echoes \subseteq Own
  BY DEF ToRedact
<1>2. removal' = [removal EXCEPT ![q] = seen] /\ had' = [had EXCEPT ![q] = found]
  BY DEF Look
<1>3. UNCHANGED events /\ raw' = raw /\ server' = server /\ store' = store
  BY DEF Look, events
<1>4. \A e \in found : server[e] # "none" /\ raw[e] = [key |-> key, blanks |-> FALSE]
  BY DEF IInv, Known, ToRedact, Events
<1> HIDE DEF found, echoes
<1>5. seen \in [pc : Phases, key : Keys \union {None}, left : SUBSET Own, echoes : SUBSET Own]
  BY <1>1 DEF Phases
<1>6. TypeOK'
  BY <1>1, <1>2, <1>3, <1>5 DEF IInv, TypeOK
<1>7. removal'[q] = seen /\ had'[q] = found
      /\ \A r \in Removals \ {q} : removal'[r] = removal[r] /\ had'[r] = had[r]
  BY <1>2 DEF IInv, TypeOK
<1>8. Known'
  BY <1>3 DEF IInv, Known
<1>9. Asked'
  <2> SUFFICES ASSUME NEW p \in Removals
               PROVE /\ removal'[p].pc = "new" <=> removal'[p].key = None
                     /\ \A e \in removal'[p].left :
                          server[e] # "none" /\ raw[e] = [key |-> removal'[p].key, blanks |-> FALSE]
    BY <1>3 DEF Asked
  <2>1. CASE p = q
    <3>1. removal'[p].pc = "redacting" /\ removal'[p].key = key /\ removal'[p].left = found
      BY <1>7, <2>1
    <3>2. key # None
      OBVIOUS
    <3> QED
      BY <3>1, <3>2, <1>4
  <2>2. CASE p # q
    BY <2>2, <1>7 DEF IInv, Asked
  <2> QED
    BY <2>1, <2>2
<1>10. Progress'
  BY <1>3, <1>7 DEF IInv, Progress, Gone
<1>11. OnlyAskedFor'
  <2> SUFFICES ASSUME NEW e \in Events, server[e] = "removed"
               PROVE e \in Own /\ \E r \in Removals :
                       raw[e] = [key |-> removal'[r].key, blanks |-> FALSE]
    BY <1>3 DEF OnlyAskedFor
  <2>1. e \in Own
    BY DEF IInv, OnlyAskedFor
  <2>2. PICK r \in Removals : raw[e] = [key |-> removal[r].key, blanks |-> FALSE]
    BY DEF IInv, OnlyAskedFor
  <2>3. raw[e] \in RawKeys
    BY DEF IInv, Known
  <2>4. removal[r].key \in Keys
    BY <2>2, <2>3 DEF RawKeys
  <2>5. removal[r].pc # "new"
    BY <2>4 DEF IInv, Asked
  <2>6. removal'[r].key = removal[r].key
    BY <1>7, <2>5
  <2> QED
    BY <2>1, <2>2, <2>6
<1> QED
  BY <1>6, <1>8, <1>9, <1>10, <1>11 DEF IInv

LEMMA RemoveReactionInv ==
  ASSUME IInv, NEW q \in Removals, RemoveReaction(q)
  PROVE IInv'
BY LookInv DEF RemoveReaction

LEMMA RetryInv ==
  ASSUME IInv, NEW q \in Removals, Retry(q)
  PROVE IInv'
<1>1. removal[q].key \in Keys
  BY DEF IInv, TypeOK, Asked, Retry
<1> QED
  BY <1>1, LookInv DEF Retry
-----------------------------------------------------------------------------
(* A removal at work on one event: the event may be removed, and if it is  *)
(* no longer left, it is gone.                                             *)
LEMMA WorkInv ==
  ASSUME IInv, NEW q \in Removals, NEW e \in removal[q].left, NEW r,
         r \in [pc : {"redacting", "failed"}, key : {removal[q].key},
                left : {removal[q].left, removal[q].left \ {e}}, echoes : {removal[q].echoes}],
         removal[q].pc = "redacting",
         removal' = [removal EXCEPT ![q] = r],
         UNCHANGED <<raw, store, had>>,
         NEW place \in {server[e], "removed"},
         server' = [server EXCEPT ![e] = place],
         r.left = removal[q].left \ {e} => place \in {"removed", "redacted"},
         Gone(e) => place = server[e]
  PROVE IInv'
<1>1. e \in Own /\ e \in Events
  BY DEF IInv, TypeOK, Events
<1>2. removal[q] \in [pc : Phases, key : Keys \union {None}, left : SUBSET Own, echoes : SUBSET Own]
  BY DEF IInv, TypeOK
<1>3. r \in [pc : Phases, key : Keys \union {None}, left : SUBSET Own, echoes : SUBSET Own]
  BY <1>2 DEF Phases
<1>4. TypeOK'
  BY <1>1, <1>3 DEF IInv, TypeOK
<1>5. removal'[q] = r /\ \A p \in Removals \ {q} : removal'[p] = removal[p]
  BY DEF IInv, TypeOK
<1>6. server'[e] = place /\ \A f \in Events \ {e} : server'[f] = server[f]
  BY <1>1 DEF IInv, TypeOK
<1>7. server[e] # "none" /\ raw[e] = [key |-> removal[q].key, blanks |-> FALSE]
  BY DEF IInv, Asked
<1>8. r.key = removal[q].key /\ r.pc # "new" /\ r.pc # "succeeded"
      /\ r.left \subseteq removal[q].left
      /\ (r.left = removal[q].left \/ r.left = removal[q].left \ {e})
  OBVIOUS
<1>9. \A p \in Removals : removal'[p].key = removal[p].key
  BY <1>5, <1>8
<1>10. \A p \in Removals : removal[p].left \subseteq Events /\ had[p] \subseteq Events
  BY DEF IInv, TypeOK, Events
<1>11. Known'
  BY <1>6, <1>7 DEF IInv, Known
<1>12. Asked'
  <2> SUFFICES ASSUME NEW p \in Removals
               PROVE /\ removal'[p].pc = "new" <=> removal'[p].key = None
                     /\ \A f \in removal'[p].left :
                          server'[f] # "none" /\ raw[f] = [key |-> removal[p].key, blanks |-> FALSE]
    BY <1>9 DEF Asked
  <2>1. removal'[p].pc = "new" <=> removal'[p].key = None
    <3>1. removal[p].pc = "new" <=> removal[p].key = None
      BY DEF IInv, Asked
    <3>2. CASE p = q
      <4>1. removal[p].key # None
        BY <3>1, <3>2
      <4>2. removal'[p].pc # "new" /\ removal'[p].key = removal[p].key
        BY <3>2, <1>5, <1>8
      <4> QED
        BY <4>1, <4>2
    <3>3. CASE p # q
      <4>1. removal'[p] = removal[p]
        BY <3>3, <1>5
      <4> QED
        BY <3>1, <4>1
    <3> QED
      BY <3>2, <3>3
  <2>2. removal'[p].left \subseteq removal[p].left
    BY <1>5, <1>8
  <2>3. \A f \in Events : server[f] # "none" => server'[f] # "none"
    BY <1>6, <1>7
  <2> QED
    BY <2>1, <2>2, <2>3, <1>10 DEF IInv, Asked
<1>13. Progress'
  <2> SUFFICES ASSUME NEW p \in Removals
               PROVE /\ removal'[p].pc \in {"redacting", "succeeded"} =>
                          \A f \in had[p] \ removal'[p].left : Gone(f)'
                     /\ removal'[p].pc = "succeeded" => removal'[p].left = {}
    BY DEF Progress
  <2>1. \A f \in Events : Gone(f) => Gone(f)'
    BY <1>6 DEF Gone
  <2>2. CASE p # q
    BY <2>1, <2>2, <1>5, <1>10 DEF IInv, Progress
  <2>3. CASE p = q
    <3>1. r.left = removal[q].left \ {e} => Gone(e)'
      BY <1>6 DEF Gone
    <3>2. \A f \in had[q] \ removal[q].left : Gone(f)'
      BY <2>1, <1>10 DEF IInv, Progress
    <3> QED
      BY <2>3, <3>1, <3>2, <1>5, <1>8
  <2> QED
    BY <2>2, <2>3
<1>14. OnlyAskedFor'
  <2> SUFFICES ASSUME NEW f \in Events, server'[f] = "removed"
               PROVE f \in Own /\ \E p \in Removals :
                       raw[f] = [key |-> removal[p].key, blanks |-> FALSE]
    BY <1>9 DEF OnlyAskedFor
  <2>1. CASE f = e
    BY <2>1, <1>1, <1>7
  <2>2. CASE f # e
    BY <2>2, <1>6 DEF IInv, OnlyAskedFor
  <2> QED
    BY <2>1, <2>2
<1> QED
  BY <1>4, <1>11, <1>12, <1>13, <1>14 DEF IInv

LEMMA RedactInv ==
  ASSUME IInv, NEW q \in Removals, NEW e \in Events, Redact(q, e)
  PROVE IInv'
<1> DEFINE r == [removal[q] EXCEPT !.left = @ \ {e}]
           place == IF Gone(e) THEN server[e] ELSE "removed"
<1>1. e \in removal[q].left /\ removal[q].pc = "redacting"
  BY DEF Redact
<1>2. removal[q] \in [pc : Phases, key : Keys \union {None}, left : SUBSET Own, echoes : SUBSET Own]
  BY DEF IInv, TypeOK
<1>3. r \in [pc : {"redacting", "failed"}, key : {removal[q].key},
             left : {removal[q].left, removal[q].left \ {e}}, echoes : {removal[q].echoes}]
  BY <1>1, <1>2
<1>4. removal' = [removal EXCEPT ![q] = r] /\ server' = [server EXCEPT ![e] = place]
  BY DEF Redact, IInv, TypeOK
<1>5. place \in {server[e], "removed"} /\ place \in {"removed", "redacted"}
      /\ (Gone(e) => place = server[e])
  BY DEF Gone
<1>6. UNCHANGED <<raw, store, had>>
  BY DEF Redact
<1> QED
  BY <1>1, <1>3, <1>4, <1>5, <1>6, WorkInv

LEMMA RedactFailsInv ==
  ASSUME IInv, NEW q \in Removals, NEW e \in Events, RedactFails(q, e)
  PROVE IInv'
<1>1. e \in removal[q].left /\ removal[q].pc = "redacting"
  BY DEF RedactFails
<1>2. removal[q] \in [pc : Phases, key : Keys \union {None}, left : SUBSET Own, echoes : SUBSET Own]
  BY DEF IInv, TypeOK
<1>3. PICK reached \in BOOLEAN :
        server' = [server EXCEPT ![e] = IF reached /\ ~Gone(e) THEN "removed" ELSE @]
  BY DEF RedactFails
<1> DEFINE r == [removal[q] EXCEPT !.pc = "failed"]
           place == IF reached /\ ~Gone(e) THEN "removed" ELSE server[e]
<1>4. r \in [pc : {"redacting", "failed"}, key : {removal[q].key},
             left : {removal[q].left, removal[q].left \ {e}}, echoes : {removal[q].echoes}]
  BY <1>1, <1>2
<1>5. removal' = [removal EXCEPT ![q] = r] /\ server' = [server EXCEPT ![e] = place]
  BY <1>3 DEF RedactFails, Stopped, IInv, TypeOK
<1>6. place \in {server[e], "removed"} /\ (Gone(e) => place = server[e])
  OBVIOUS
<1>7. r.left = removal[q].left
  BY <1>2
<1>8. r.left = removal[q].left \ {e} => place \in {"removed", "redacted"}
  BY <1>1, <1>7
<1>9. UNCHANGED <<raw, store, had>>
  BY DEF RedactFails
<1> QED
  BY <1>1, <1>4, <1>5, <1>6, <1>8, <1>9, WorkInv

LEMMA AnswerInv ==
  ASSUME IInv, NEW q \in Removals, Answer(q)
  PROVE IInv'
<1>1. UNCHANGED events /\ raw' = raw /\ server' = server /\ store' = store /\ had' = had
  BY DEF Answer, events
<1>2. removal[q] \in [pc : Phases, key : Keys \union {None}, left : SUBSET Own, echoes : SUBSET Own]
      /\ removal[q].pc = "redacting" /\ removal[q].left = {}
  BY DEF IInv, TypeOK, Answer
<1>3. removal' = [removal EXCEPT ![q].pc = "succeeded"]
  BY DEF Answer
<1>4. TypeOK'
  BY <1>1, <1>2, <1>3 DEF IInv, TypeOK, Phases
<1>5. /\ removal'[q].pc = "succeeded" /\ removal'[q].left = {} /\ removal'[q].key = removal[q].key
      /\ \A p \in Removals \ {q} : removal'[p] = removal[p]
  BY <1>2, <1>3 DEF IInv, TypeOK
<1>6. Known'
  BY <1>1 DEF IInv, Known
<1>7. Asked'
  BY <1>1, <1>2, <1>5 DEF IInv, Asked
<1>8. Progress'
  BY <1>1, <1>2, <1>5 DEF IInv, Progress, Gone
<1>9. OnlyAskedFor'
  <2>1. \A p \in Removals : removal'[p].key = removal[p].key
    BY <1>5
  <2> QED
    BY <1>1, <2>1 DEF IInv, OnlyAskedFor
<1> QED
  BY <1>4, <1>6, <1>7, <1>8, <1>9 DEF IInv
-----------------------------------------------------------------------------
LEMMA StepInv == IInv /\ [Next]_vars => IInv'
<1> SUFFICES ASSUME IInv, [Next]_vars PROVE IInv'
  OBVIOUS
<1>1. ASSUME NEW e \in Events, AddReaction(e) PROVE IInv'
  BY <1>1, AddReactionInv
<1>2. ASSUME NEW e \in Events, Send(e) PROVE IInv'
  BY <1>2, SendInv
<1>3. ASSUME NEW e \in Events, Arrive(e) PROVE IInv'
  BY <1>3, ArriveInv
<1>4. ASSUME NEW e \in Events, RedactElsewhere(e) PROVE IInv'
  BY <1>4, RedactElsewhereInv
<1>5. ASSUME NEW e \in Events, Sync(e) PROVE IInv'
  BY <1>5, SyncInv
<1>6. ASSUME NEW q \in Removals, RemoveReaction(q) PROVE IInv'
  BY <1>6, RemoveReactionInv
<1>7. ASSUME NEW q \in Removals, Retry(q) PROVE IInv'
  BY <1>7, RetryInv
<1>8. ASSUME NEW q \in Removals, Answer(q) PROVE IInv'
  BY <1>8, AnswerInv
<1>9. ASSUME NEW q \in Removals, NEW e \in Events, Redact(q, e) PROVE IInv'
  BY <1>9, RedactInv
<1>10. ASSUME NEW q \in Removals, NEW e \in Events, RedactFails(q, e) PROVE IInv'
  BY <1>10, RedactFailsInv
<1>11. ASSUME UNCHANGED vars PROVE IInv'
  <2>1. raw' = raw /\ server' = server /\ store' = store /\ removal' = removal /\ had' = had
    BY <1>11 DEF vars, events, removals
  <2> QED
    BY <2>1 DEF IInv, TypeOK, Known, Asked, Progress, OnlyAskedFor, Gone
<1> QED
  BY <1>1, <1>2, <1>3, <1>4, <1>5, <1>6, <1>7, <1>8, <1>9, <1>10, <1>11 DEF Next

(* The variables keep their types.                                         *)
THEOREM TypeCorrect == Spec => []TypeOK
<1>1. IInv => TypeOK
  BY DEF IInv
<1> QED
  BY <1>1, InitInv, StepInv, PTL DEF Spec

(* Only the user's own events of a key that was asked for are redacted, by *)
(* any number of removals that overlap in any way.                         *)
THEOREM RedactsOnlyAskedFor == Spec => []OnlyAskedFor
<1>1. IInv => OnlyAskedFor
  BY DEF IInv
<1> QED
  BY <1>1, InitInv, StepInv, PTL DEF Spec

(* After a removal that was answered with success, its reaction is shown   *)
(* only for an event it had not found, or until redactions are synced.     *)
THEOREM SuccessSticks == Spec => []RemovalSticks
<1>1. IInv => RemovalSticks
  <2> SUFFICES ASSUME IInv, NEW q \in Removals, removal[q].pc = "succeeded",
                      [sender |-> "self", key |-> removal[q].key] \in Shown
               PROVE \E e \in Own : /\ store[e] = "there" /\ raw[e].key = removal[q].key
                                    /\ e \notin had[q] \/ Gone(e) \/ raw[e].blanks
    BY DEF RemovalSticks
  <2>1. PICK e \in Events : /\ store[e] = "there" /\ raw[e].key = removal[q].key
                            /\ SenderOf(e) = "self"
    BY DEF Shown, Reaction
  <2> QED
    <3>1. e \in Own
      BY <2>1 DEF SenderOf, Events
    <3> QED
      BY <2>1, <3>1 DEF IInv, Progress
<1> QED
  BY <1>1, InitInv, StepInv, PTL DEF Spec
-----------------------------------------------------------------------------
(* Least and greatest.                                                     *)

LEMMA SmallerSet ==
  ASSUME NEW S, IsFiniteSet(S), NEW T \in SUBSET S
  PROVE  /\ IsFiniteSet(T) /\ Cardinality(T) \in Nat /\ Cardinality(S) \in Nat
         /\ Cardinality(T) <= Cardinality(S)
         /\ Cardinality(T) = Cardinality(S) => T = S
<1>1. IsFiniteSet(T) /\ Cardinality(T) <= Cardinality(S) /\ (Cardinality(S) = Cardinality(T) => S = T)
  BY FS_Subset
<1>2. Cardinality(S) \in Nat
  BY FS_CardinalityType
<1>3. Cardinality(T) \in Nat
  BY <1>1, FS_CardinalityType
<1> QED BY <1>1, <1>2, <1>3

LEMMA LeastNat ==
  ASSUME NEW T, T \subseteq Nat, T # {}
  PROVE  \E x \in T : \A y \in T : x <= y
<1> DEFINE Below(x) == 0..x
           W == {Below(x) : x \in T}
           R == StrictSubsetOrdering(Nat)
<1>1. \A x \in T : Below(x) \in SUBSET Nat /\ IsFiniteSet(Below(x))
  <2> SUFFICES ASSUME NEW x \in T PROVE 0..x \in SUBSET Nat /\ IsFiniteSet(0..x)
    OBVIOUS
  <2>1. 0 \in Int /\ x \in Int
    OBVIOUS
  <2>2. IsFiniteSet(0..x)
    BY <2>1, FS_Interval
  <2> QED BY <2>2
<1>2. W \subseteq FiniteSubsetsOf(Nat) /\ W # {}
  BY <1>1 DEF FiniteSubsetsOf
<1>3. IsWellFoundedOn(R, FiniteSubsetsOf(Nat))
  BY FS_StrictSubsetOrderingWellFounded
<1> HIDE DEF W, R
<1>4. PICK w \in W : \A v \in W : ~(<<v, w>> \in R)
  BY <1>2, <1>3, WFMin
<1>5. PICK x \in T : w = Below(x)
  BY <1>4 DEF W
<1>6. ASSUME NEW y \in T, y < x PROVE FALSE
  <2>1. Below(y) \in W
    BY DEF W
  <2>2. Below(y) \subseteq Below(x) /\ x \in Below(x) /\ x \notin Below(y)
    BY <1>6
  <2>3. <<Below(y), Below(x)>> \in (SUBSET Nat) \X (SUBSET Nat)
    BY <1>1
  <2> HIDE DEF Below
  <2>4. <<Below(y), Below(x)>> \in R
    BY <2>2, <2>3 DEF R, StrictSubsetOrdering
  <2> QED BY <1>4, <1>5, <2>1, <2>4
<1>7. \A y \in T : y \in Nat /\ x \in Nat /\ ~(y < x)
  BY <1>6
<1> QED BY <1>7

LEMMA GreatestNat ==
  ASSUME NEW T, T \subseteq Nat, T # {}, NEW n \in Nat, \A y \in T : y <= n
  PROVE  \E x \in T : \A y \in T : y <= x
<1> DEFINE U == {m \in Nat : \A y \in T : y <= m}
<1>1. U # {} /\ U \subseteq Nat
  OBVIOUS
<1> HIDE DEF U
<1>2. PICK x \in U : \A m \in U : x <= m
  BY <1>1, LeastNat
<1>3. x \in Nat /\ \A y \in T : y \in Nat /\ y <= x
  BY <1>2 DEF U
<1>4. x \in T
  <2> SUFFICES ASSUME x \notin T PROVE FALSE
    OBVIOUS
  <2>1. \A y \in T : y \in Nat /\ y < x
    BY <1>3
  <2>2. x - 1 \in Nat
    <3>1. PICK y \in T : TRUE
      OBVIOUS
    <3>2. y \in Nat /\ y < x
      BY <2>1
    <3> QED BY <1>3, <3>2
  <2>3. \A y \in T : y <= x - 1
    BY <1>3, <2>1
  <2>4. x - 1 \in U
    BY <2>2, <2>3 DEF U
  <2> QED BY <1>2, <1>3, <2>4
<1> QED BY <1>3, <1>4
-----------------------------------------------------------------------------
Later(r, rows) == {s \in rows : s > r}
Sooner(r, rows) == {s \in rows : s < r}

LEMMA RowsAreFinite ==
  ASSUME NEW n \in Nat, NEW rows \in SUBSET (1..n)
  PROVE  /\ IsFiniteSet(rows) /\ Cardinality(rows) \in Nat /\ rows \subseteq Nat
         /\ \A r \in rows : r \in Nat /\ r <= n
         /\ \A r : Later(r, rows) \in SUBSET rows /\ Sooner(r, rows) \in SUBSET rows
<1>1. 1 \in Int /\ n \in Int
  OBVIOUS
<1>2. IsFiniteSet(1..n)
  BY <1>1, FS_Interval
<1>3. IsFiniteSet(rows) /\ Cardinality(rows) \in Nat
  BY <1>2, SmallerSet
<1> QED BY <1>3 DEF Later, Sooner

(* What the first k of a set of rows are, from the newest.                 *)
NewestFacts(F, k, rows) ==
  /\ F \subseteq rows
  /\ \A r \in F, s \in rows : r <= s => s \in F
  /\ Cardinality(F) \in Nat /\ Cardinality(F) <= k
  /\ Cardinality(rows) <= k => F = rows
  /\ Cardinality(F) < k => F = rows
  /\ k > 0 /\ rows # {} => F # {}
  /\ \A r \in rows \ F : Cardinality(Later(r, rows)) >= k

LEMMA NewestFirst ==
  ASSUME NEW n \in Nat, NEW rows \in SUBSET (1..n), NEW k \in Nat
  PROVE  NewestFacts(FirstNewest(k, rows), k, rows)
<1> DEFINE F == FirstNewest(k, rows)
<1>1. /\ IsFiniteSet(rows) /\ Cardinality(rows) \in Nat /\ rows \subseteq Nat
      /\ \A r \in rows : r \in Nat /\ r <= n
  BY RowsAreFinite
<1>2. /\ F \subseteq rows
      /\ \A r \in rows : r \in F <=> Cardinality(Later(r, rows)) < k
  BY DEF FirstNewest, Later
<1>3. ASSUME NEW r \in rows
      PROVE  /\ IsFiniteSet(Later(r, rows)) /\ Cardinality(Later(r, rows)) \in Nat
             /\ Later(r, rows) \in SUBSET rows /\ r \notin Later(r, rows)
  <2>1. Later(r, rows) \in SUBSET rows /\ r \notin Later(r, rows)
    BY <1>1 DEF Later
  <2> QED BY <1>1, <2>1, SmallerSet
<1> HIDE DEF F
<1>4. ASSUME NEW r \in F, NEW s \in rows, r <= s PROVE s \in F
  <2>1. r \in rows /\ Later(s, rows) \in SUBSET Later(r, rows)
    <3>1. r \in rows /\ r \in Nat /\ s \in Nat
      BY <1>1, <1>2
    <3>2. ASSUME NEW t \in rows, t > s PROVE t > r
      BY <1>1, <1>4, <3>1, <3>2
    <3> QED BY <3>1, <3>2 DEF Later
  <2>2. Cardinality(Later(s, rows)) <= Cardinality(Later(r, rows))
    BY <1>3, <2>1, SmallerSet
  <2>3. Cardinality(Later(r, rows)) \in Nat /\ Cardinality(Later(s, rows)) \in Nat
    BY <1>3, <2>1
  <2> QED BY <1>2, <2>1, <2>2, <2>3
<1>5. IsFiniteSet(F) /\ Cardinality(F) \in Nat
  BY <1>1, <1>2, SmallerSet
<1>6. Cardinality(F) <= k
  <2>1. CASE F = {}
    BY <2>1, FS_EmptySet
  <2>2. CASE F # {}
    <3>1. F \subseteq Nat
      BY <1>1, <1>2
    <3>2. PICK r \in F : \A s \in F : r <= s
      BY <2>2, <3>1, LeastNat
    <3>3. r \in rows /\ F \ {r} \in SUBSET Later(r, rows)
      BY <1>1, <1>2, <3>2 DEF Later
    <3>4. Cardinality(F \ {r}) = Cardinality(F) - 1
      BY <1>5, <3>2, FS_RemoveElement
    <3>5. Cardinality(Later(r, rows)) \in Nat /\ Cardinality(Later(r, rows)) < k
      BY <1>2, <1>3, <3>3
    <3>6. Cardinality(F \ {r}) <= Cardinality(Later(r, rows))
      BY <1>3, <3>3, SmallerSet
    <3> QED BY <1>5, <3>4, <3>5, <3>6
  <2> QED BY <2>1, <2>2
<1>7. ASSUME F # rows PROVE Cardinality(F) >= k /\ Cardinality(rows) > k
  <2>1. rows \ F # {} /\ rows \ F \subseteq Nat /\ \A s \in rows \ F : s <= n
    BY <1>1, <1>2, <1>7
  <2>2. PICK r \in rows \ F : \A s \in rows \ F : s <= r
    BY <2>1, GreatestNat
  <2>3. Later(r, rows) \in SUBSET F
    <3>1. ASSUME NEW t \in rows, t > r PROVE t \in F
      BY <1>1, <2>2, <3>1
    <3> QED BY <3>1 DEF Later
  <2>4. Cardinality(Later(r, rows)) >= k /\ Cardinality(Later(r, rows)) \in Nat
    BY <1>2, <1>3, <2>2
  <2>5. Cardinality(Later(r, rows)) <= Cardinality(F)
    BY <1>5, <2>3, SmallerSet
  <2>6. Cardinality(F) # Cardinality(rows) /\ Cardinality(F) <= Cardinality(rows)
    BY <1>1, <1>2, <1>7, SmallerSet
  <2> QED BY <1>1, <1>5, <2>4, <2>5, <2>6
<1>8. ASSUME k > 0, rows # {} PROVE F # {}
  <2>1. PICK r \in rows : \A s \in rows : s <= r
    BY <1>1, <1>8, GreatestNat
  <2>2. Later(r, rows) = {}
    <3>1. \A t \in rows : ~(t > r)
      BY <1>1, <2>1
    <3> QED BY <3>1 DEF Later
  <2>3. Cardinality(Later(r, rows)) = 0
    BY <2>2, FS_EmptySet
  <2> QED BY <1>2, <1>8, <2>1, <2>3
<1>9. ASSUME NEW r \in rows \ F PROVE Cardinality(Later(r, rows)) >= k
  BY <1>2, <1>3
<1>10. (Cardinality(rows) <= k => F = rows) /\ (Cardinality(F) < k => F = rows)
  BY <1>1, <1>5, <1>7
<1> QED BY <1>2, <1>4, <1>5, <1>6, <1>8, <1>9, <1>10 DEF F, NewestFacts

(* And from the oldest.                                                    *)
OldestFacts(F, k, rows) ==
  /\ F \subseteq rows
  /\ \A r \in F, s \in rows : s <= r => s \in F
  /\ Cardinality(F) \in Nat /\ Cardinality(F) <= k
  /\ Cardinality(F) < k => F = rows

LEMMA OldestFirst ==
  ASSUME NEW n \in Nat, NEW rows \in SUBSET (1..n), NEW k \in Nat
  PROVE  OldestFacts(FirstOldest(k, rows), k, rows)
<1> DEFINE F == FirstOldest(k, rows)
<1>1. /\ IsFiniteSet(rows) /\ Cardinality(rows) \in Nat /\ rows \subseteq Nat
      /\ \A r \in rows : r \in Nat /\ r <= n
  BY RowsAreFinite
<1>2. /\ F \subseteq rows
      /\ \A r \in rows : r \in F <=> Cardinality(Sooner(r, rows)) < k
  BY DEF FirstOldest, Sooner
<1>3. ASSUME NEW r \in rows
      PROVE  /\ IsFiniteSet(Sooner(r, rows)) /\ Cardinality(Sooner(r, rows)) \in Nat
             /\ Sooner(r, rows) \in SUBSET rows /\ r \notin Sooner(r, rows)
  <2>1. Sooner(r, rows) \in SUBSET rows /\ r \notin Sooner(r, rows)
    BY <1>1 DEF Sooner
  <2> QED BY <1>1, <2>1, SmallerSet
<1> HIDE DEF F
<1>4. ASSUME NEW r \in F, NEW s \in rows, s <= r PROVE s \in F
  <2>1. r \in rows /\ Sooner(s, rows) \in SUBSET Sooner(r, rows)
    <3>1. r \in rows /\ r \in Nat /\ s \in Nat
      BY <1>1, <1>2
    <3>2. ASSUME NEW t \in rows, t < s PROVE t < r
      BY <1>1, <1>4, <3>1, <3>2
    <3> QED BY <3>1, <3>2 DEF Sooner
  <2>2. Cardinality(Sooner(s, rows)) <= Cardinality(Sooner(r, rows))
    BY <1>3, <2>1, SmallerSet
  <2>3. Cardinality(Sooner(r, rows)) \in Nat /\ Cardinality(Sooner(s, rows)) \in Nat
    BY <1>3, <2>1
  <2> QED BY <1>2, <2>1, <2>2, <2>3
<1>5. IsFiniteSet(F) /\ Cardinality(F) \in Nat
  BY <1>1, <1>2, SmallerSet
<1>6. Cardinality(F) <= k
  <2>1. CASE F = {}
    BY <2>1, FS_EmptySet
  <2>2. CASE F # {}
    <3>1. F \subseteq Nat /\ \A s \in F : s <= n
      BY <1>1, <1>2
    <3>2. PICK r \in F : \A s \in F : s <= r
      BY <2>2, <3>1, GreatestNat
    <3>3. r \in rows /\ F \ {r} \in SUBSET Sooner(r, rows)
      BY <1>1, <1>2, <3>2 DEF Sooner
    <3>4. Cardinality(F \ {r}) = Cardinality(F) - 1
      BY <1>5, <3>2, FS_RemoveElement
    <3>5. Cardinality(Sooner(r, rows)) \in Nat /\ Cardinality(Sooner(r, rows)) < k
      BY <1>2, <1>3, <3>3
    <3>6. Cardinality(F \ {r}) <= Cardinality(Sooner(r, rows))
      BY <1>3, <3>3, SmallerSet
    <3> QED BY <1>5, <3>4, <3>5, <3>6
  <2> QED BY <2>1, <2>2
<1>7. ASSUME F # rows PROVE Cardinality(F) >= k
  <2>1. rows \ F # {} /\ rows \ F \subseteq Nat
    BY <1>1, <1>2, <1>7
  <2>2. PICK r \in rows \ F : \A s \in rows \ F : r <= s
    BY <2>1, LeastNat
  <2>3. Sooner(r, rows) \in SUBSET F
    <3>1. ASSUME NEW t \in rows, t < r PROVE t \in F
      BY <1>1, <2>2, <3>1
    <3> QED BY <3>1 DEF Sooner
  <2>4. Cardinality(Sooner(r, rows)) >= k /\ Cardinality(Sooner(r, rows)) \in Nat
    BY <1>2, <1>3, <2>2
  <2>5. Cardinality(Sooner(r, rows)) <= Cardinality(F)
    BY <1>5, <2>3, SmallerSet
  <2> QED BY <1>5, <2>4, <2>5
<1>8. Cardinality(F) < k => F = rows
  BY <1>5, <1>7
<1> QED BY <1>2, <1>4, <1>5, <1>6, <1>8 DEF F, OldestFacts
-----------------------------------------------------------------------------
(* A page of messages, for a request that has cursor.                      *)

OlderShown(cursor) == shown \intersect Older(cursor)
NewerShown(cursor) == shown \intersect Newer(cursor)

(* The n rows below the cursor show nothing.                               *)
Hidden(cursor, n) == cursor = 0 \/ \A r \in OlderShown(cursor) : r <= cursor - n - 1

(* Going back, a page leaves no gap, and has everything that is left if    *)
(* it has no more, but for a search that finds nothing.                    *)
PageBack(kind, cursor, page) ==
  /\ page.rows \subseteq OlderShown(cursor)
  /\ \A s \in page.rows, r \in OlderShown(cursor) : s <= r => r \in page.rows
  /\ ~page.more => OlderShown(cursor) \subseteq page.rows
       \/ (kind = "search" /\ page.rows = {} /\ Hidden(cursor, MaxScan))
  /\ page.more /\ page.rows = {} => kind = "list" /\ Hidden(cursor, MaxBatches)

(* Going forward, a page of a list leaves out at most the row next to the  *)
(* cursor; a search that has no more and found something has found all.    *)
PageForward(kind, cursor, page) ==
  /\ page.rows \subseteq NewerShown(cursor)
  /\ kind = "list" =>
       \A s \in page.rows, r \in NewerShown(cursor) :
         r <= s => r \in page.rows \/ r = cursor + 1
  /\ ~page.more => NewerShown(cursor) \subseteq page.rows \/ (kind = "search" /\ page.rows = {})

(* A walk, between its requests.                                           *)
Walking ==
  scroll.phase = "walking" =>
    /\ scroll.cursor > 0
    /\ scroll.direction = "before" =>
         (\A r \in given : scroll.cursor <= r) /\ (\A r \in Missing : r < scroll.cursor)
    /\ scroll.direction = "after" =>
         /\ \A r \in given : r <= scroll.cursor
         /\ cursors # {} /\ \A c \in cursors : c < scroll.cursor
         /\ scroll.kind = "list" => \A r \in Missing : scroll.cursor < r \/ r - 1 \in cursors

ScrollTypes ==
  /\ top \in Nat
  /\ shown \subseteq 1..top /\ start \subseteq 1..top /\ given \subseteq 1..top
  /\ cursors \subseteq 0..top
  /\ scroll.phase \in {"idle", "walking", "done", "stuck"}
  /\ scroll.kind \in {"list", "search"} /\ scroll.direction \in {"before", "after"}
  /\ scroll.cursor \in 0..top

ScrollInv == ScrollTypes /\ NoneTwice /\ Walking /\ BackComplete /\ ForwardMisses
-----------------------------------------------------------------------------
(* Rows between a row that is not read and the cursor: at least those that *)
(* were read instead.                                                      *)
LEMMA UnreadRows ==
  ASSUME top \in Nat, NEW cursor \in 0..top, cursor # 0, NEW k \in Nat,
         NEW r \in Older(cursor) \ FirstNewest(k, Older(cursor))
  PROVE  r <= cursor - k - 1
<1> DEFINE rows == Older(cursor)
<1>1. rows \in SUBSET (1..top) /\ (\A t \in rows : t < cursor) /\ r \in rows /\ r \in Nat
  BY DEF Older
<1>2. Cardinality(Later(r, rows)) >= k
  BY <1>1, NewestFirst DEF NewestFacts
<1>3. Later(r, rows) \in SUBSET ((r + 1)..(cursor - 1))
  <2>1. ASSUME NEW t \in rows, t > r PROVE t \in (r + 1)..(cursor - 1)
    BY <1>1, <2>1
  <2> QED BY <2>1 DEF Later
<1>4. r + 1 \in Int /\ cursor - 1 \in Int /\ r < cursor /\ cursor \in Nat
  BY <1>1
<1> HIDE DEF rows
<1>5. /\ IsFiniteSet((r + 1)..(cursor - 1))
      /\ Cardinality((r + 1)..(cursor - 1)) = IF r + 1 > cursor - 1 THEN 0 ELSE cursor - 1 - (r + 1) + 1
  BY <1>4, FS_Interval
<1>6. /\ Cardinality(Later(r, rows)) <= Cardinality((r + 1)..(cursor - 1))
      /\ Cardinality(Later(r, rows)) \in Nat
  BY <1>3, <1>5, SmallerSet
<1> QED BY <1>1, <1>2, <1>4, <1>5, <1>6

(* What is shown of the first rows that were read, from the newest, has no *)
(* gaps, nor has the first page of it.                                     *)
ReadFacts(P, X, rows) ==
  /\ P \subseteq shown \intersect rows
  /\ \A s \in P, r \in shown \intersect rows : s <= r => r \in P
  /\ P = {} => X = {}
  /\ Cardinality(X) \in Nat /\ (Cardinality(X) <= MessagePageSize => P = X)

LEMMA PageOfRead ==
  ASSUME top \in Nat, NEW rows \in SUBSET (1..top), NEW k \in Nat,
         NEW F, F = FirstNewest(k, rows)
  PROVE  ReadFacts(FirstNewest(MessagePageSize, shown \intersect F), shown \intersect F, rows)
<1> DEFINE X == shown \intersect F
           P == FirstNewest(MessagePageSize, X)
<1>1. MessagePageSize \in Nat /\ MessagePageSize > 0
  BY PagesAssumption
<1>2. NewestFacts(F, k, rows)
  BY NewestFirst
<1>3. X \in SUBSET (1..top) /\ X \subseteq F /\ F \subseteq rows
  BY <1>2 DEF NewestFacts
<1>4. NewestFacts(P, MessagePageSize, X)
  BY <1>1, <1>3, NewestFirst
<1>5. Cardinality(X) \in Nat
  BY <1>3, RowsAreFinite
<1> HIDE DEF P
<1>6. ASSUME NEW s \in P, NEW r \in shown \intersect rows, s <= r PROVE r \in P
  <2>1. s \in F /\ s \in X
    BY <1>3, <1>4 DEF NewestFacts
  <2>2. r \in F
    BY <1>2, <1>6, <2>1 DEF NewestFacts
  <2> QED BY <1>4, <1>6, <2>1, <2>2 DEF NewestFacts
<1>7. P \subseteq shown \intersect rows /\ (P = {} => X = {})
  BY <1>1, <1>3, <1>4 DEF NewestFacts
<1>8. Cardinality(X) <= MessagePageSize => P = X
  BY <1>4 DEF NewestFacts
<1> HIDE DEF X
<1>9. ReadFacts(P, X, rows)
  BY <1>5, <1>6, <1>7, <1>8 DEF ReadFacts
<1> QED BY <1>9 DEF X, P

LEMMA PageFields ==
  ASSUME NEW rows, NEW m \in BOOLEAN, NEW page, page = Trimmed(rows, m)
  PROVE  /\ page.rows = FirstNewest(MessagePageSize, rows)
         /\ page.more <=> Cardinality(rows) > MessagePageSize \/ m
<1> DEFINE more == Cardinality(rows) > MessagePageSize \/ m
<1>1. page = Page(FirstNewest(MessagePageSize, rows), more)
  BY Zenon DEF Trimmed
<1>2. \A a, b : Page(a, b).rows = a /\ Page(a, b).more = b
  BY DEF Page
<1> HIDE DEF more
<1>3. page.rows = FirstNewest(MessagePageSize, rows) /\ page.more = more
  BY <1>1, <1>2, Zenon
<1>4. page.more <=> more
  BY <1>3, Zenon
<1> QED BY <1>3, <1>4 DEF more

LEMMA ListBeforeRight ==
  ASSUME top \in Nat, shown \subseteq 1..top, NEW cursor \in 0..top,
         NEW page \in ListBefore(cursor)
  PROVE  PageBack("list", cursor, page)
<1> DEFINE older == Older(cursor)
           most == MaxBatches * Batch
           X == shown \intersect older
           Read(n) == shown \intersect FirstNewest(n, older)
<1>1. older \in SUBSET (1..top) /\ OlderShown(cursor) = X /\ X \in SUBSET (1..top)
  BY DEF Older, OlderShown
<1>2. /\ MessagePageSize \in Nat /\ MessagePageSize > 0
      /\ MaxBatches \in Nat /\ most \in Int
  BY PagesAssumption
<1>3. \/ page = Trimmed(X, FALSE)
      \/ \E n \in MaxBatches..most : page = Trimmed(Read(n), TRUE)
  BY DEF ListBefore
<1> HIDE DEF older, X, most
<1>4. ASSUME NEW m \in BOOLEAN, ~m, page = Trimmed(X, m)
      PROVE  PageBack("list", cursor, page)
  <2>1. /\ page.rows = FirstNewest(MessagePageSize, X)
        /\ page.more <=> Cardinality(X) > MessagePageSize
    BY <1>4, PageFields
  <2>2. NewestFacts(page.rows, MessagePageSize, X)
    BY <1>1, <1>2, <2>1, NewestFirst
  <2>3. Cardinality(X) \in Nat
    BY <1>1, RowsAreFinite
  <2>4. X = {} => Cardinality(X) = 0
    BY FS_EmptySet
  <2>5. ASSUME ~page.more PROVE X \subseteq page.rows
    BY <1>2, <2>1, <2>2, <2>3, <2>5 DEF NewestFacts
  <2>6. ASSUME page.more, page.rows = {} PROVE FALSE
    BY <1>2, <2>1, <2>2, <2>3, <2>4, <2>6 DEF NewestFacts
  <2> QED BY <1>1, <2>2, <2>5, <2>6 DEF PageBack, NewestFacts
<1>5. ASSUME NEW m \in BOOLEAN, m, NEW n \in MaxBatches..most, page = Trimmed(Read(n), m)
      PROVE  PageBack("list", cursor, page)
  <2>1. n \in Nat /\ n >= MaxBatches
    BY <1>2
  <2>2. page.rows = FirstNewest(MessagePageSize, Read(n)) /\ page.more
    BY <1>5, PageFields
  <2>3. ReadFacts(page.rows, Read(n), older)
    BY <1>1, <2>1, <2>2, PageOfRead
  <2>4. ASSUME page.rows = {}, cursor # 0, NEW r \in X PROVE r <= cursor - MaxBatches - 1
    <3>1. r \in Older(cursor) \ FirstNewest(n, Older(cursor))
      BY <2>3, <2>4 DEF X, older, ReadFacts
    <3>2. r <= cursor - n - 1
      BY <2>1, <2>4, <3>1, UnreadRows
    <3>3. r \in Nat /\ cursor \in Nat
      BY <1>1
    <3> QED BY <1>2, <2>1, <3>2, <3>3
  <2> QED BY <1>1, <2>2, <2>3, <2>4 DEF PageBack, Hidden, ReadFacts, X
<1> QED BY <1>3, <1>4, <1>5

LEMMA SearchBeforeRight ==
  ASSUME top \in Nat, shown \subseteq 1..top, NEW cursor \in 0..top,
         NEW page \in SearchBefore(cursor)
  PROVE  PageBack("search", cursor, page)
<1> DEFINE older == Older(cursor)
           read == FirstNewest(MaxScan, older)
           X == shown \intersect read
           more == Cardinality(read) = MaxScan /\ X # {}
<1>1. /\ older \in SUBSET (1..top) /\ OlderShown(cursor) = shown \intersect older
      /\ MaxScan \in Nat /\ MessagePageSize \in Nat /\ MessagePageSize > 0
  BY PagesAssumption DEF Older, OlderShown
<1>2. /\ page.rows = FirstNewest(MessagePageSize, X)
      /\ page.more <=> Cardinality(X) > MessagePageSize \/ more
  <2>1. page = Trimmed(X, Cardinality(read) = MaxScan /\ X # {})
    BY DEF SearchBefore, Found
  <2>2. PICK m \in BOOLEAN : m = (Cardinality(read) = MaxScan /\ X # {})
    OBVIOUS
  <2>3. page = Trimmed(X, m)
    BY <2>1, <2>2
  <2> HIDE DEF X, read
  <2> QED BY <2>2, <2>3, PageFields
<1> HIDE DEF older
<1>3. ReadFacts(page.rows, X, older)
  BY <1>1, <1>2, PageOfRead
<1>4. NewestFacts(read, MaxScan, older)
  BY <1>1, NewestFirst
<1>5. X = {} => Cardinality(X) = 0
  BY FS_EmptySet
<1> HIDE DEF X, read
<1>6. ASSUME page.more, page.rows = {} PROVE FALSE
  BY <1>1, <1>2, <1>3, <1>5, <1>6 DEF ReadFacts
<1>7. ASSUME ~page.more PROVE shown \intersect older \subseteq page.rows \/ (page.rows = {} /\ Hidden(cursor, MaxScan))
  <2>1. page.rows = X
    BY <1>1, <1>2, <1>3, <1>7 DEF ReadFacts
  <2>2. CASE Cardinality(read) # MaxScan
    <3>1. read = older
      BY <1>1, <1>4, <2>2 DEF NewestFacts
    <3>2. shown \intersect older \subseteq page.rows
      BY <2>1, <3>1 DEF X
    <3> QED BY <3>2
  <2>3. CASE X = {}
    <3>1. ASSUME cursor # 0, NEW r \in shown \intersect older PROVE r <= cursor - MaxScan - 1
      <4>1. r \in Older(cursor) \ FirstNewest(MaxScan, Older(cursor))
        BY <2>3 DEF X, read, older
      <4> QED BY <1>1, <3>1, <4>1, UnreadRows
    <3> QED BY <1>1, <2>1, <2>3, <3>1 DEF Hidden
  <2> QED BY <1>2, <1>7, <2>2, <2>3
<1> QED BY <1>1, <1>3, <1>6, <1>7 DEF PageBack, ReadFacts

LEMMA ListAfterRight ==
  ASSUME top \in Nat, shown \subseteq 1..top, NEW cursor \in 0..top,
         NEW page \in ListAfter(cursor)
  PROVE  PageForward("list", cursor, page)
<1> DEFINE newer == Newer(cursor)
           k == MessagePageSize + 1
           read == FirstOldest(k, newer)
           X == shown \intersect read
           P == FirstNewest(MessagePageSize, X)
<1>1. /\ newer \in SUBSET (1..top) /\ NewerShown(cursor) = shown \intersect newer
      /\ newer = (cursor + 1)..top
  BY DEF Newer, NewerShown
<1>2. /\ page.rows = P
      /\ page.more <=> Cardinality(X) > MessagePageSize \/ Cardinality(read) = k
  <2>1. page = Trimmed(X, Cardinality(read) = k)
    BY DEF ListAfter
  <2>2. PICK m \in BOOLEAN : m = (Cardinality(read) = k)
    OBVIOUS
  <2>3. page = Trimmed(X, m)
    BY <2>1, <2>2
  <2> HIDE DEF X, read
  <2> QED BY <2>2, <2>3, PageFields
<1>3. k \in Nat /\ MessagePageSize \in Nat /\ MessagePageSize > 0 /\ k - 1 = MessagePageSize
  BY PagesAssumption
<1> HIDE DEF newer, k
<1>4. OldestFacts(read, k, newer)
  BY <1>1, <1>3, OldestFirst
<1> HIDE DEF read
<1>5. read \in SUBSET (1..top) /\ X \in SUBSET (1..top) /\ X \in SUBSET read
  BY <1>1, <1>4 DEF OldestFacts
<1>6. IsFiniteSet(read) /\ IsFiniteSet(X) /\ Cardinality(X) \in Nat /\ Cardinality(read) \in Nat
  BY <1>5, RowsAreFinite
<1>7. Cardinality(X) <= Cardinality(read) /\ (Cardinality(X) = Cardinality(read) => X = read)
  BY <1>5, <1>6, SmallerSet
<1> HIDE DEF X
<1>8. NewestFacts(P, MessagePageSize, X)
  BY <1>3, <1>5, NewestFirst
<1> HIDE DEF P
<1>9. ASSUME NEW s \in P, NEW r \in shown \intersect newer, r <= s, r \notin P
      PROVE  r = cursor + 1
  <2>1. s \in read /\ s \in X
    BY <1>5, <1>8 DEF NewestFacts
  <2>2. r \in read
    BY <1>4, <1>9, <2>1 DEF OldestFacts
  <2>3. r \in X /\ r \in Nat /\ r \in X \ P
    BY <1>1, <1>9, <2>2 DEF X
  <2>4. Cardinality(X) > MessagePageSize
    BY <1>3, <1>6, <1>8, <1>9, <2>3 DEF NewestFacts
  <2>5. Cardinality(X) = k /\ X = read
    BY <1>3, <1>4, <1>6, <1>7, <2>4 DEF OldestFacts
  <2> SUFFICES ASSUME r # cursor + 1 PROVE FALSE
    OBVIOUS
  <2>6. cursor + 1 \in newer /\ cursor + 1 < r
    BY <1>1, <2>3, <1>9
  <2>7. cursor + 1 \in X
    BY <1>4, <2>2, <2>5, <2>6 DEF OldestFacts
  <2>8. IsFiniteSet(X \ {r}) /\ Cardinality(X \ {r}) = k - 1
    <3>1. IsFiniteSet(X \ {r}) /\ Cardinality(X \ {r}) = Cardinality(X) - 1
      BY <1>6, <2>3, FS_RemoveElement
    <3> QED BY <2>5, <3>1
  <2>9. Later(r, X) \in SUBSET (X \ {r}) /\ cursor + 1 \notin Later(r, X)
    <3>1. \A t \in X : t > r => t # r /\ t # cursor + 1
      BY <1>5, <2>3, <2>6
    <3> QED BY <3>1 DEF Later
  <2>10. Later(r, X) # X \ {r}
    BY <2>6, <2>7, <2>9, <2>3
  <2>11. /\ Cardinality(Later(r, X)) <= Cardinality(X \ {r}) /\ Cardinality(Later(r, X)) \in Nat
         /\ Cardinality(Later(r, X)) # Cardinality(X \ {r})
    BY <2>8, <2>9, <2>10, SmallerSet
  <2>12. Cardinality(Later(r, X)) >= MessagePageSize
    BY <1>8, <2>3 DEF NewestFacts
  <2> QED BY <1>3, <2>8, <2>11, <2>12
<1>10. ASSUME ~page.more PROVE shown \intersect newer \subseteq page.rows
  <2>1. ~(Cardinality(X) > MessagePageSize) /\ Cardinality(read) # k
    BY <1>2, <1>10
  <2>2. P = X
    BY <1>3, <1>6, <1>8, <2>1 DEF NewestFacts
  <2>3. read = newer
    BY <1>3, <1>4, <2>1 DEF OldestFacts
  <2> QED BY <1>2, <2>2, <2>3 DEF X
<1>11. P \subseteq shown \intersect newer
  BY <1>4, <1>5, <1>8 DEF X, NewestFacts, OldestFacts
<1> QED BY <1>1, <1>2, <1>9, <1>10, <1>11 DEF PageForward

LEMMA SearchAfterRight ==
  ASSUME top \in Nat, shown \subseteq 1..top, NEW cursor \in 0..top,
         NEW page \in SearchAfter(cursor)
  PROVE  PageForward("search", cursor, page)
<1> DEFINE newer == Newer(cursor)
           read == FirstNewest(AheadScan, newer)
           X == shown \intersect read
           more == Cardinality(read) = AheadScan /\ X # {}
<1>1. /\ newer \in SUBSET (1..top) /\ NewerShown(cursor) = shown \intersect newer
      /\ AheadScan \in Nat /\ MessagePageSize \in Nat /\ MessagePageSize > 0
  BY PagesAssumption DEF Newer, NewerShown
<1>2. /\ page.rows = FirstNewest(MessagePageSize, X)
      /\ page.more <=> Cardinality(X) > MessagePageSize \/ more
  <2>1. page = Trimmed(X, Cardinality(read) = AheadScan /\ X # {})
    BY DEF SearchAfter, Found
  <2>2. PICK m \in BOOLEAN : m = (Cardinality(read) = AheadScan /\ X # {})
    OBVIOUS
  <2>3. page = Trimmed(X, m)
    BY <2>1, <2>2
  <2> HIDE DEF X, read
  <2> QED BY <2>2, <2>3, PageFields
<1> HIDE DEF newer
<1>3. ReadFacts(page.rows, X, newer)
  BY <1>1, <1>2, PageOfRead
<1>4. NewestFacts(read, AheadScan, newer)
  BY <1>1, NewestFirst
<1> HIDE DEF X, read
<1>5. ASSUME ~page.more, page.rows # {} PROVE shown \intersect newer \subseteq page.rows
  <2>1. page.rows = X
    BY <1>1, <1>2, <1>3, <1>5 DEF ReadFacts
  <2>2. Cardinality(read) # AheadScan
    BY <1>2, <1>5, <2>1
  <2>3. read = newer
    BY <1>1, <1>4, <2>2 DEF NewestFacts
  <2> QED BY <2>1, <2>3 DEF X
<1> QED BY <1>1, <1>3, <1>5 DEF PageForward, ReadFacts
-----------------------------------------------------------------------------
(* A request of a walk.                                                    *)

LEMMA EndsOfPage ==
  ASSUME NEW n \in Nat, NEW rows \in SUBSET (1..n), rows # {}
  PROVE  /\ OldestOf(rows) \in rows /\ \A s \in rows : OldestOf(rows) <= s
         /\ NewestOf(rows) \in rows /\ \A s \in rows : s <= NewestOf(rows)
<1>1. rows \subseteq Nat /\ \A r \in rows : r <= n
  OBVIOUS
<1>2. \E r \in rows : \A s \in rows : s >= r
  <2>1. PICK r \in rows : \A s \in rows : r <= s
    BY <1>1, LeastNat
  <2> QED BY <1>1, <2>1
<1>3. \E r \in rows : \A s \in rows : s <= r
  BY <1>1, GreatestNat
<1>4. OldestOf(rows) \in rows /\ \A s \in rows : s >= OldestOf(rows)
  BY <1>2 DEF OldestOf
<1>5. NewestOf(rows) \in rows /\ \A s \in rows : s <= NewestOf(rows)
  BY <1>3 DEF NewestOf
<1> QED BY <1>1, <1>4, <1>5

(* What a request finds: rows is what its walk should return, used are the *)
(* cursors with its own.                                                   *)
Ready(kind, direction, cursor, before, rows, used) ==
  /\ direction = "before" =>
       /\ \A r \in before : cursor # 0 /\ cursor <= r
       /\ \A r \in (rows \intersect shown) \ before : cursor = 0 \/ r < cursor
  /\ direction = "after" =>
       /\ \A r \in before : r <= cursor
       /\ cursor \in used /\ \A c \in used : c <= cursor
       /\ kind = "list" =>
            \A r \in (rows \intersect shown) \ before : cursor < r \/ r - 1 \in used
       /\ kind = "search" =>
            (before = {} /\ \A r \in rows : cursor < r) \/ Cardinality(used) # 1

(* And what it asks and answers.                                           *)
Answered(ask, cursor, before, page) ==
  /\ scroll' = [phase |-> IF ~page.more THEN "done"
                          ELSE IF page.rows = {} THEN "stuck" ELSE "walking",
                kind |-> ask.kind, direction |-> ask.direction,
                cursor |-> NextCursor(ask, page, cursor)]
  /\ given' = before \union page.rows
  /\ givenTwice' = before \intersect page.rows

Asking(ask, cursor, before) ==
  /\ ask.kind \in {"list", "search"} /\ ask.direction \in {"before", "after"}
  /\ top \in Nat /\ shown \subseteq 1..top /\ cursor \in 0..top /\ before \subseteq 1..top
  /\ UNCHANGED <<top, shown>> /\ start' \subseteq 1..top /\ cursors' \subseteq 0..top
  /\ Ready(ask.kind, ask.direction, cursor, before, start', cursors')

LEMMA BackKeeps ==
  ASSUME NEW ask, NEW cursor, NEW before, NEW page,
         Asking(ask, cursor, before), Answered(ask, cursor, before, page),
         ask.direction = "before", PageBack(ask.kind, cursor, page)
  PROVE  ScrollInv'
<1> DEFINE rows == page.rows
           n == NextCursor(ask, page, cursor)
<1>1. /\ top' = top /\ shown' = shown /\ top \in Nat /\ shown \subseteq 1..top
      /\ cursor \in 0..top /\ before \subseteq 1..top
      /\ start' \subseteq 1..top /\ cursors' \subseteq 0..top
      /\ ask.kind \in {"list", "search"}
  BY DEF Asking
<1>2. /\ \A r \in before : cursor # 0 /\ cursor <= r
      /\ \A r \in (start' \intersect shown) \ before : cursor = 0 \/ r < cursor
  BY DEF Asking, Ready
<1>3. /\ scroll'.phase = IF ~page.more THEN "done" ELSE IF rows = {} THEN "stuck" ELSE "walking"
      /\ scroll'.kind = ask.kind /\ scroll'.direction = "before" /\ scroll'.cursor = n
      /\ given' = before \union rows /\ givenTwice' = before \intersect rows
  BY DEF Answered
<1>4. /\ rows \subseteq shown /\ rows \subseteq 1..top
      /\ \A r \in rows : cursor = 0 \/ r < cursor
  BY <1>1 DEF PageBack, OlderShown, Older
<1>5. \A r \in Missing' : r \in OlderShown(cursor) /\ r \notin rows /\ r \in 1..top
  BY <1>1, <1>2, <1>3 DEF Missing, OlderShown, Older
<1>6. /\ rows = {} => n = cursor
      /\ rows # {} => n \in rows /\ \A s \in rows : n <= s
  BY <1>1, <1>4, EndsOfPage DEF NextCursor
<1> HIDE DEF rows, n
<1>7. n \in 0..top /\ (rows # {} => n \in 1..top)
  <2>1. rows # {} => n \in 1..top
    BY <1>4, <1>6
  <2>2. rows = {} => n \in 0..top
    BY <1>1, <1>6
  <2>3. \A x \in 1..top : x \in 0..top
    BY <1>1
  <2> QED BY <2>1, <2>2, <2>3
<1>8. givenTwice' = {}
  BY <1>1, <1>2, <1>3, <1>4
<1>9. ScrollTypes'
  BY <1>1, <1>3, <1>4, <1>7 DEF ScrollTypes
<1>10. Walking'
  <2> SUFFICES ASSUME rows # {}
               PROVE  /\ n > 0 /\ \A r \in given' : n <= r
                      /\ \A r \in Missing' : r < n
    BY <1>3 DEF Walking
  <2>1. n \in rows /\ n \in 1..top /\ \A s \in rows : n <= s
    BY <1>4, <1>6
  <2>2. \A r \in before : n <= r
    BY <1>1, <1>2, <1>4, <2>1
  <2>3. ASSUME NEW r \in Missing' PROVE r < n
    <3>1. r \in OlderShown(cursor) /\ r \notin rows /\ r \in 1..top
      BY <1>5
    <3>2. ~(n <= r)
      BY <2>1, <3>1 DEF PageBack, rows
    <3> QED BY <2>1, <3>1, <3>2, <1>1
  <2> QED BY <1>1, <1>3, <2>1, <2>2, <2>3
<1>11. ASSUME NEW k \in Nat, rows = {}, Hidden(cursor, k)
       PROVE  MissingBelow(k)'
  BY <1>1, <1>3, <1>5, <1>6, <1>7, <1>11 DEF Hidden, MissingBelow
<1>12. CASE ~page.more
  <2>1. scroll'.phase = "done" /\ scroll'.kind = ask.kind /\ ask.kind \in {"list", "search"}
    BY <1>1, <1>3, <1>12
  <2>2. OlderShown(cursor) \subseteq rows \/ (ask.kind = "search" /\ rows = {} /\ Hidden(cursor, MaxScan))
    BY <1>12 DEF PageBack, rows
  <2>3. ASSUME OlderShown(cursor) \subseteq rows PROVE Missing' = {}
    BY <1>5, <2>3
  <2>4. ASSUME ask.kind = "search", rows = {}, Hidden(cursor, MaxScan)
        PROVE  MissingBelow(MaxScan)'
    BY <1>11, <2>4, PagesAssumption
  <2>5. BackComplete'
    BY <2>1, <2>2, <2>3, <2>4 DEF BackComplete
  <2> QED BY <1>3, <1>8, <1>9, <1>10, <2>5 DEF ScrollInv, NoneTwice, ForwardMisses
<1>13. CASE page.more /\ rows = {}
  <2>1. scroll'.phase = "stuck" /\ ask.kind = "list" /\ Hidden(cursor, MaxBatches)
    BY <1>3, <1>13 DEF PageBack, rows
  <2>2. MissingBelow(MaxBatches)'
    BY <1>11, <1>13, <2>1, PagesAssumption
  <2>3. BackComplete'
    BY <1>3, <2>1, <2>2 DEF BackComplete
  <2> QED BY <1>3, <1>8, <1>9, <1>10, <2>3 DEF ScrollInv, NoneTwice, ForwardMisses
<1>14. CASE page.more /\ rows # {}
  <2>1. scroll'.phase = "walking"
    BY <1>3, <1>14
  <2>2. BackComplete'
    BY <2>1 DEF BackComplete
  <2> QED BY <1>3, <1>8, <1>9, <1>10, <2>2 DEF ScrollInv, NoneTwice, ForwardMisses
<1> QED BY <1>12, <1>13, <1>14

LEMMA ForwardKeeps ==
  ASSUME NEW ask, NEW cursor, NEW before, NEW page,
         Asking(ask, cursor, before), Answered(ask, cursor, before, page),
         ask.direction = "after", PageForward(ask.kind, cursor, page)
  PROVE  ScrollInv'
<1> DEFINE rows == page.rows
           n == NextCursor(ask, page, cursor)
<1>1. /\ top' = top /\ shown' = shown /\ top \in Nat /\ shown \subseteq 1..top
      /\ cursor \in 0..top /\ before \subseteq 1..top
      /\ start' \subseteq 1..top /\ cursors' \subseteq 0..top
      /\ ask.kind \in {"list", "search"}
  BY DEF Asking
<1>2. /\ \A r \in before : r <= cursor
      /\ cursor \in cursors' /\ \A c \in cursors' : c <= cursor
      /\ ask.kind = "list" =>
           \A r \in (start' \intersect shown) \ before : cursor < r \/ r - 1 \in cursors'
      /\ ask.kind = "search" =>
           (before = {} /\ \A r \in start' : cursor < r) \/ Cardinality(cursors') # 1
  BY DEF Asking, Ready
<1>3. /\ scroll'.phase = IF ~page.more THEN "done" ELSE IF rows = {} THEN "stuck" ELSE "walking"
      /\ scroll'.kind = ask.kind /\ scroll'.direction = "after" /\ scroll'.cursor = n
      /\ given' = before \union rows /\ givenTwice' = before \intersect rows
  BY DEF Answered
<1>4. rows \subseteq shown /\ rows \subseteq 1..top /\ \A r \in rows : cursor < r
  BY <1>1 DEF PageForward, NewerShown, Newer
<1>5. \A r \in Missing' : /\ r \in (start' \intersect shown) \ before /\ r \in start'
                          /\ r \notin rows /\ r \in 1..top
                          /\ cursor < r => r \in NewerShown(cursor)
  BY <1>1, <1>3 DEF Missing, NewerShown, Newer
<1>6. /\ rows = {} => n = cursor
      /\ rows # {} => n \in rows /\ \A s \in rows : s <= n
  BY <1>1, <1>3, <1>4, EndsOfPage DEF NextCursor
<1> HIDE DEF rows, n
<1>7. n \in 0..top /\ (rows # {} => n \in 1..top /\ cursor < n)
  <2>1. rows # {} => n \in 1..top /\ cursor < n
    BY <1>4, <1>6
  <2>2. rows = {} => n \in 0..top
    BY <1>1, <1>6
  <2>3. \A x \in 1..top : x \in 0..top
    BY <1>1
  <2> QED BY <2>1, <2>2, <2>3
<1>8. givenTwice' = {}
  BY <1>1, <1>2, <1>3, <1>4
<1>9. ScrollTypes'
  BY <1>1, <1>3, <1>4, <1>7 DEF ScrollTypes
<1>10. Walking'
  <2> SUFFICES ASSUME rows # {}
               PROVE  /\ n > 0 /\ \A r \in given' : r <= n
                      /\ cursors' # {} /\ \A c \in cursors' : c < n
                      /\ ask.kind = "list" => \A r \in Missing' : n < r \/ r - 1 \in cursors'
    BY <1>3 DEF Walking
  <2>1. n \in rows /\ n \in 1..top /\ cursor < n /\ \A s \in rows : s <= n
    BY <1>6, <1>7
  <2>2. \A r \in before : r <= n
    BY <1>1, <1>2, <2>1
  <2>3. \A c \in cursors' : c < n
    BY <1>1, <1>2, <2>1
  <2>4. ASSUME ask.kind = "list", NEW r \in Missing' PROVE n < r \/ r - 1 \in cursors'
    <3>1. r \notin rows /\ r \in 1..top /\ (cursor < r \/ r - 1 \in cursors')
      BY <1>2, <1>5, <2>4
    <3>2. CASE r - 1 \in cursors'
      BY <3>2
    <3>3. CASE cursor < r
      <4>1. r \in NewerShown(cursor)
        BY <1>5, <2>4, <3>3
      <4>2. r <= n => r = cursor + 1
        BY <2>1, <2>4, <3>1, <4>1 DEF PageForward, rows
      <4>3. r = cursor + 1 => r - 1 \in cursors'
        <5>1. r = cursor + 1 => r - 1 = cursor
          BY <1>1
        <5> QED BY <1>2, <5>1
      <4> QED BY <2>1, <3>1, <4>2, <4>3
    <3> QED BY <3>1, <3>2, <3>3
  <2> QED BY <1>1, <1>2, <1>3, <2>1, <2>2, <2>3, <2>4
<1>11. CASE ~page.more
  <2>1. scroll'.phase = "done" /\ scroll'.kind = ask.kind /\ ask.kind \in {"list", "search"}
    BY <1>1, <1>3, <1>11
  <2>2. NewerShown(cursor) \subseteq rows \/ (ask.kind = "search" /\ rows = {})
    BY <1>11 DEF PageForward, rows
  <2>3. ASSUME ask.kind = "list" PROVE Missing' \subseteq {c + 1 : c \in cursors'}
    <3>1. ASSUME NEW r \in Missing' PROVE r \in {c + 1 : c \in cursors'}
      <4>1. ~(cursor < r) /\ r \in 1..top
        BY <1>5, <2>2, <2>3, <3>1
      <4>2. r - 1 \in cursors'
        BY <1>2, <1>5, <2>3, <3>1, <4>1
      <4>3. r = (r - 1) + 1
        BY <4>1
      <4> QED BY <4>2, <4>3
    <3> QED BY <3>1
  <2>4. ASSUME ask.kind = "search", Cardinality(cursors') = 1, given' # {} PROVE Missing' = {}
    <3>1. before = {} /\ \A r \in start' : cursor < r
      BY <1>2, <2>4
    <3>2. rows # {}
      BY <1>3, <2>4, <3>1
    <3> QED BY <1>5, <2>2, <3>1, <3>2
  <2>5. ForwardMisses'
    BY <2>1, <2>3, <2>4 DEF ForwardMisses
  <2> QED BY <1>3, <1>8, <1>9, <1>10, <2>5 DEF ScrollInv, NoneTwice, BackComplete
<1>12. CASE page.more
  <2>1. scroll'.phase # "done"
    BY <1>3, <1>12
  <2>2. ForwardMisses'
    BY <2>1 DEF ForwardMisses
  <2> QED BY <1>3, <1>8, <1>9, <1>10, <2>2 DEF ScrollInv, NoneTwice, BackComplete
<1> QED BY <1>11, <1>12

LEMMA AskKeeps ==
  ASSUME NEW ask, NEW cursor, NEW before,
         Asking(ask, cursor, before), Ask(ask, cursor, before)
  PROVE  ScrollInv'
<1>1. PICK page \in Answers(ask, cursor) : Answered(ask, cursor, before, page)
  BY DEF Ask, Answered
<1>2. /\ ask.kind \in {"list", "search"} /\ ask.direction \in {"before", "after"}
      /\ top \in Nat /\ shown \subseteq 1..top /\ cursor \in 0..top
  BY DEF Asking
<1>3. CASE ask.kind = "list" /\ ask.direction = "before"
  <2>1. page \in ListBefore(cursor)
    BY <1>3 DEF Answers
  <2>2. PageBack(ask.kind, cursor, page)
    BY <1>2, <1>3, <2>1, ListBeforeRight
  <2> QED BY <1>1, <1>3, <2>2, BackKeeps
<1>4. CASE ask.kind = "search" /\ ask.direction = "before"
  <2>1. page \in SearchBefore(cursor)
    BY <1>4 DEF Answers
  <2>2. PageBack(ask.kind, cursor, page)
    BY <1>2, <1>4, <2>1, SearchBeforeRight
  <2> QED BY <1>1, <1>4, <2>2, BackKeeps
<1>5. CASE ask.kind = "list" /\ ask.direction = "after"
  <2>1. page \in ListAfter(cursor)
    BY <1>5 DEF Answers
  <2>2. PageForward(ask.kind, cursor, page)
    BY <1>2, <1>5, <2>1, ListAfterRight
  <2> QED BY <1>1, <1>5, <2>2, ForwardKeeps
<1>6. CASE ask.kind = "search" /\ ask.direction = "after"
  <2>1. page \in SearchAfter(cursor)
    BY <1>6 DEF Answers
  <2>2. PageForward(ask.kind, cursor, page)
    BY <1>2, <1>6, <2>1, SearchAfterRight
  <2> QED BY <1>1, <1>6, <2>2, ForwardKeeps
<1> QED BY <1>2, <1>3, <1>4, <1>5, <1>6
-----------------------------------------------------------------------------
(* The steps of the timeline and of the client.                            *)

LEMMA PagesStart ==
  ASSUME PagesInit
  PROVE  ScrollInv
<1>1. top \in Nat
  BY PagesAssumption DEF PagesInit
<1>2. /\ scroll.phase = "idle" /\ scroll.kind = "list" /\ scroll.direction = "before"
      /\ scroll.cursor = 0
  BY DEF PagesInit, AtRest
<1> QED BY <1>1, <1>2 DEF PagesInit, ScrollInv, ScrollTypes, NoneTwice, Walking, BackComplete, ForwardMisses

(* What a walk should still return only shrinks meanwhile.                 *)
LEMMA MeanwhileKeeps ==
  ASSUME ScrollInv, UNCHANGED <<scroll, given, givenTwice, start, cursors>>,
         top' \in Nat, top <= top', shown' \subseteq 1..top', shown' \intersect start \subseteq shown
  PROVE  ScrollInv'
<1>1. /\ top \in Nat /\ scroll' = scroll /\ given' = given /\ givenTwice' = givenTwice
      /\ start' = start /\ cursors' = cursors
      /\ start \subseteq 1..top /\ given \subseteq 1..top /\ cursors \subseteq 0..top
      /\ scroll.cursor \in 0..top
  BY DEF ScrollInv, ScrollTypes
<1>2. Missing' \subseteq Missing
  BY <1>1 DEF Missing
<1>3. \A n : n \in 1..top => n \in 1..top'
  BY <1>1
<1>4. \A n : n \in 0..top => n \in 0..top'
  BY <1>1
<1>5. ScrollTypes'
  BY <1>1, <1>3, <1>4 DEF ScrollInv, ScrollTypes
<1>6. NoneTwice' /\ Walking'
  BY <1>1, <1>2 DEF ScrollInv, NoneTwice, Walking
<1>7. \A n \in Nat : MissingBelow(n) => MissingBelow(n)'
  BY <1>1, <1>2 DEF MissingBelow
<1>8. BackComplete'
  <2>1. Missing = {} => Missing' = {}
    BY <1>2
  <2>2. /\ MissingBelow(MaxScan) => MissingBelow(MaxScan)'
        /\ MissingBelow(MaxBatches) => MissingBelow(MaxBatches)'
    BY <1>7, PagesAssumption
  <2> QED BY <1>1, <2>1, <2>2 DEF ScrollInv, BackComplete
<1>9. ForwardMisses'
  <2>1. Missing = {} => Missing' = {}
    BY <1>2
  <2> QED BY <1>1, <1>2, <2>1 DEF ScrollInv, ForwardMisses
<1> QED BY <1>5, <1>6, <1>8, <1>9 DEF ScrollInv

LEMMA BeginKeeps ==
  ASSUME ScrollInv, BeginPages
  PROVE  ScrollInv'
<1>1. PICK ask \in Requests, cursor \in 0..top :
        /\ ask.direction = "before" => cursor = 0
        /\ Ask(ask, cursor, {})
        /\ start' = IF ask.direction = "before" THEN 1..top ELSE Newer(cursor)
        /\ cursors' = {cursor} /\ UNCHANGED <<top, shown>>
  BY DEF BeginPages
<1>2. /\ ask.kind \in {"list", "search"} /\ ask.direction \in {"before", "after"}
      /\ top \in Nat /\ shown \subseteq 1..top
  BY DEF Requests, ScrollInv, ScrollTypes
<1>3. ask.direction = "after" => start' = Newer(cursor)
  BY <1>1
<1>4. start' \subseteq 1..top /\ cursors' \subseteq 0..top
  BY <1>1, <1>2 DEF Newer
<1>5. ask.direction = "before" =>
        \A r \in (start' \intersect shown) \ {} : cursor = 0 \/ r < cursor
  BY <1>1
<1>6. ask.direction = "after" =>
        /\ cursor \in cursors' /\ \A c \in cursors' : c <= cursor
        /\ \A r \in start' : cursor < r
  BY <1>1, <1>2, <1>3 DEF Newer
<1>7. Ready(ask.kind, ask.direction, cursor, {}, start', cursors')
  BY <1>5, <1>6 DEF Ready
<1>8. Asking(ask, cursor, {})
  BY <1>1, <1>2, <1>4, <1>7 DEF Asking
<1> QED BY <1>1, <1>8, AskKeeps

LEMMA NextKeeps ==
  ASSUME ScrollInv, NextMessages
  PROVE  ScrollInv'
<1> DEFINE cursor == scroll.cursor
<1>1. /\ scroll.phase = "walking" /\ Ask(scroll, scroll.cursor, given)
      /\ cursors' = cursors \union {scroll.cursor}
      /\ start' = start /\ UNCHANGED <<top, shown>>
  BY DEF NextMessages
<1>2. /\ scroll.kind \in {"list", "search"} /\ scroll.direction \in {"before", "after"}
      /\ top \in Nat /\ shown \subseteq 1..top /\ start \subseteq 1..top /\ given \subseteq 1..top
      /\ cursors \subseteq 0..top /\ cursor \in 0..top
  BY DEF ScrollInv, ScrollTypes
<1>3. /\ cursor > 0
      /\ scroll.direction = "before" =>
           (\A r \in given : cursor <= r) /\ (\A r \in Missing : r < cursor)
      /\ scroll.direction = "after" =>
           /\ \A r \in given : r <= cursor
           /\ cursors # {} /\ \A c \in cursors : c < cursor
           /\ scroll.kind = "list" => \A r \in Missing : cursor < r \/ r - 1 \in cursors
  BY <1>1 DEF ScrollInv, Walking
<1>4. start' \subseteq 1..top /\ cursors' \subseteq 0..top /\ cursor \in cursors'
  BY <1>1, <1>2
<1>5. scroll.direction = "before" => Ready(scroll.kind, scroll.direction, cursor, given, start', cursors')
  BY <1>1, <1>2, <1>3 DEF Ready, Missing
<1>6. scroll.direction = "after" => \A c \in cursors' : c <= cursor
  BY <1>1, <1>2, <1>3
<1>7. scroll.direction = "after" => Cardinality(cursors') # 1
  <2> SUFFICES ASSUME scroll.direction = "after", Cardinality(cursors') = 1 PROVE FALSE
    OBVIOUS
  <2>1. IsFiniteSet(0..top)
    <3>1. 0 \in Int /\ top \in Int
      BY <1>2
    <3> QED BY <3>1, FS_Interval
  <2>2. IsFiniteSet(cursors')
    BY <1>4, <2>1, FS_Subset
  <2>3. PICK e : cursors' = {e}
    BY <2>2, FS_Singleton
  <2>4. PICK c \in cursors : c < cursor
    BY <1>3
  <2>5. c = e /\ cursor = e
    BY <1>1, <1>4, <2>3, <2>4
  <2> QED BY <1>2, <2>4, <2>5
<1>8. scroll.direction = "after" => Ready(scroll.kind, scroll.direction, cursor, given, start', cursors')
  BY <1>1, <1>2, <1>3, <1>4, <1>6, <1>7 DEF Ready, Missing
<1>9. Asking(scroll, cursor, given)
  BY <1>1, <1>2, <1>4, <1>5, <1>8 DEF Asking
<1> QED BY <1>1, <1>9, AskKeeps

LEMMA PagesStep ==
  ASSUME ScrollInv, [PagesNext]_pageVars
  PROVE  ScrollInv'
<1>1. top \in Nat /\ shown \subseteq 1..top /\ start \subseteq 1..top
  BY DEF ScrollInv, ScrollTypes
<1>2. CASE NewRow
  <2>1. top' = top + 1 /\ shown' \subseteq shown \union {top + 1}
    BY <1>2 DEF NewRow
  <2>2. top' \in Nat /\ top <= top' /\ shown' \subseteq 1..top'
    BY <1>1, <2>1
  <2>3. shown' \intersect start \subseteq shown
    BY <1>1, <2>1
  <2> QED BY <1>2, <2>2, <2>3, MeanwhileKeeps DEF NewRow
<1>3. CASE RedactRow
  <2>1. shown' \subseteq shown /\ top' = top
    BY <1>3 DEF RedactRow
  <2>2. UNCHANGED <<scroll, given, givenTwice, start, cursors>>
    BY <1>3 DEF RedactRow
  <2> QED BY <1>1, <2>1, <2>2, MeanwhileKeeps
<1>4. CASE UNCHANGED pageVars
  BY <1>1, <1>4, MeanwhileKeeps DEF pageVars
<1> QED BY <1>2, <1>3, <1>4, BeginKeeps, NextKeeps DEF PagesNext

(* The pages of a walk, whatever arrives and is redacted between them: the *)
(* invariant that relates the cursor to what was and what is to be         *)
(* returned (messages.go:40-126, 215-367, search_actions.go:1240-1500).    *)
THEOREM PagesInvariant == PagesSpec => []ScrollInv
<1>1. PagesInit => ScrollInv
  BY PagesStart
<1>2. ScrollInv /\ [PagesNext]_pageVars => ScrollInv'
  BY PagesStep
<1> QED BY <1>1, <1>2, PTL DEF PagesSpec

(* No walk returns a message twice: NoneTwice.                             *)
THEOREM NoMessageTwice == PagesSpec => []NoneTwice
<1>1. ScrollInv => NoneTwice
  BY DEF ScrollInv
<1> QED BY <1>1, PagesInvariant, PTL

(* Paging back has returned every message when it ends, unless a request   *)
(* found nothing in all the rows it may read: BackComplete.                *)
THEOREM PagingBackIsComplete == PagesSpec => []BackComplete
<1>1. ScrollInv => BackComplete
  BY DEF ScrollInv
<1> QED BY <1>1, PagesInvariant, PTL

(* Paging forward misses at most the row next to each cursor:              *)
(* ForwardMisses.                                                          *)
THEOREM PagingForwardMissesLittle == PagesSpec => []ForwardMisses
<1>1. ScrollInv => ForwardMisses
  BY DEF ScrollInv
<1> QED BY <1>1, PagesInvariant, PTL
-----------------------------------------------------------------------------
(* Walks down the list of chats.                                           *)

Spots == [ts : Nat, room : Nat]

WalkTypes ==
  /\ sortingTS \in [Rooms -> Nat]
  /\ returned \subseteq Rooms
  /\ walk \in [phase : {"idle", "walking", "walked", "polled", "gap"}, inbox : Inboxes,
               cursor : Spots \union {NoValue}, first : Spots \union {NoValue}]

(* While the client walks, what it was returned is not older than its      *)
(* cursor, and what it was not, and did not change, is; and until it polls,*)
(* nothing it was returned is newer than its first room.                   *)
Between ==
  /\ walk.phase = "walking" =>
       /\ walk.cursor # NoValue /\ walk.first # NoValue
       /\ ~Precedes(walk.cursor, walk.first)
       /\ \A r \in returned \ moved : ~IsOlder(r, walk.cursor)
       /\ \A r \in Listed \ Changed :
            InInbox(r, walk.inbox) => r \in returned \/ IsOlder(r, walk.cursor)
  /\ walk.phase \in {"walking", "walked"} =>
       IF walk.first = NoValue THEN returned = {}
       ELSE \A r \in returned \ moved : ~IsNewer(r, walk.first)

ListInv == WalkTypes /\ ReturnedOnce /\ WalkComplete /\ Between

(* What the account data says, when nobody wrote it later.                 *)
ActInv ==
  /\ now \in Nat
  /\ remote \in [Rooms -> [done : (0..now) \union {NoValue, ByOrder}, unread : 0..now]]
  /\ ArchivedAsWanted
-----------------------------------------------------------------------------
(* The account data.                                                       *)

LEMMA ActStep ==
  ASSUME ActInv, Act
  PROVE  ActInv'
<1> DEFINE Written(n) == [done : (0..n) \union {NoValue, ByOrder}, unread : 0..n]
<1>1. /\ now \in Nat /\ now' \in {now, now + 1} /\ now' \in Nat /\ now <= now'
      /\ remote \in [Rooms -> Written(now)]
  BY DEF ActInv, Act
<1>2. NoValue \notin Nat /\ ByOrder \notin Nat /\ NoValue # ByOrder /\ Edited \subseteq Rooms
  BY ChatListAssumption
<1>3. PICK r \in Edited : Archive(r) \/ Unarchive(r) \/ Mark(r)
  BY DEF Act
<1>4. \A q \in Rooms : /\ remote[q].done \in (0..now) \union {NoValue, ByOrder}
                       /\ remote[q].unread \in 0..now
                       /\ remote[q] = [done |-> remote[q].done, unread |-> remote[q].unread]
  BY <1>1
<1>5. PICK d \in (0..now) \union {NoValue, ByOrder}, u \in 0..now :
        remote' = [remote EXCEPT ![r] = [done |-> d, unread |-> u]]
        /\ \/ d \in {now, ByOrder} /\ u = remote[r].unread
              /\ wanted' = wanted \union {r} /\ untimed' = untimed
           \/ d = NoValue /\ u = remote[r].unread
              /\ wanted' = wanted \ {r} /\ untimed' = untimed
           \/ d = remote[r].done /\ u = now
              /\ wanted' = wanted \ {r} /\ untimed' = untimed
           \/ d = remote[r].done /\ wanted' = wanted \ {r} /\ untimed' = untimed \union {r}
  <2>1. r \in Rooms /\ remote[r].done \in (0..now) \union {NoValue, ByOrder} /\ remote[r].unread \in 0..now
    BY <1>2, <1>4
  <2>2. ASSUME NEW x
        PROVE  /\ [remote EXCEPT ![r].done = x] = [remote EXCEPT ![r] = [done |-> x, unread |-> remote[r].unread]]
               /\ [remote EXCEPT ![r].unread = x] = [remote EXCEPT ![r] = [done |-> remote[r].done, unread |-> x]]
    <3>1. remote[r] = [done |-> remote[r].done, unread |-> remote[r].unread]
      BY <1>4, <2>1
    <3>2. /\ [remote[r] EXCEPT !.done = x] = [done |-> x, unread |-> remote[r].unread]
          /\ [remote[r] EXCEPT !.unread = x] = [done |-> remote[r].done, unread |-> x]
      BY <3>1
    <3>3. /\ [remote EXCEPT ![r].done = x] = [remote EXCEPT ![r] = [remote[r] EXCEPT !.done = x]]
          /\ [remote EXCEPT ![r].unread = x] = [remote EXCEPT ![r] = [remote[r] EXCEPT !.unread = x]]
      BY <1>1, <2>1
    <3> QED BY <3>2, <3>3, Zenon
  <2>3. CASE Archive(r)
    <3>1. PICK at \in {now, ByOrder} : remote' = [remote EXCEPT ![r].done = at]
      BY <2>3 DEF Archive
    <3>2. remote' = [remote EXCEPT ![r] = [done |-> at, unread |-> remote[r].unread]]
      BY <2>2, <3>1
    <3>3. at \in (0..now) \union {NoValue, ByOrder}
      BY <1>1
    <3>4. wanted' = wanted \union {r} /\ untimed' = untimed
      BY <2>3 DEF Archive
    <3> QED BY <2>1, <3>2, <3>3, <3>4
  <2>4. CASE Unarchive(r)
    <3>1. remote' = [remote EXCEPT ![r] = [done |-> NoValue, unread |-> remote[r].unread]]
      BY <2>2, <2>4 DEF Unarchive
    <3>2. wanted' = wanted \ {r} /\ untimed' = untimed
      BY <2>4 DEF Unarchive
    <3> QED BY <2>1, <3>1, <3>2
  <2>5. CASE Mark(r)
    <3>1. PICK at \in {0, now} : /\ remote' = [remote EXCEPT ![r].unread = at]
                                 /\ untimed' = IF at = 0 THEN untimed \union {r} ELSE untimed
      BY <2>5 DEF Mark
    <3>2. remote' = [remote EXCEPT ![r] = [done |-> remote[r].done, unread |-> at]]
      BY <2>2, <3>1
    <3>3. wanted' = wanted \ {r}
      BY <2>5 DEF Mark
    <3>4. at \in 0..now /\ ((at = now /\ untimed' = untimed) \/ untimed' = untimed \union {r})
      BY <1>1, <3>1
    <3> QED BY <2>1, <3>2, <3>3, <3>4
  <2> QED BY <1>3, <2>3, <2>4, <2>5
<1>6. \A n : n \in 0..now => n \in 0..now'
  BY <1>1
<1>7. remote' \in [Rooms -> Written(now')]
  BY <1>1, <1>2, <1>4, <1>5, <1>6
<1>8. ASSUME NEW q \in Rooms \ untimed', remote'[q].done \notin {ByOrder, remote'[q].unread}
      PROVE  EffectiveArchived(remote'[q]) <=> q \in wanted'
  <2>1. CASE q = r
    <3>1. remote'[q].done = d /\ remote'[q].unread = u /\ r \in Rooms
      BY <1>1, <1>2, <1>5, <2>1
    <3>2. d \notin {ByOrder, u} /\ q \notin untimed'
      BY <1>8, <3>1
    <3>3. EffectiveArchived(remote'[q]) <=> d # NoValue /\ d >= u
      BY <3>1, <3>2 DEF EffectiveArchived
    <3>4. CASE d = now /\ u = remote[r].unread /\ wanted' = wanted \union {r}
      BY <1>1, <1>2, <1>4, <2>1, <3>1, <3>3, <3>4
    <3>5. CASE d = NoValue /\ wanted' = wanted \ {r}
      BY <2>1, <3>3, <3>5
    <3>6. CASE u = now /\ wanted' = wanted \ {r}
      <4>1. d # NoValue => ~(d >= u)
        BY <1>1, <3>2, <3>6
      <4> QED BY <2>1, <3>3, <3>6, <4>1
    <3> QED BY <1>5, <2>1, <3>2, <3>4, <3>5, <3>6
  <2>2. CASE q # r
    <3>1. remote'[q] = remote[q]
      BY <1>1, <1>5, <2>2
    <3>2. q \notin untimed /\ (q \in wanted' <=> q \in wanted)
      BY <1>5, <1>8, <2>2
    <3>3. remote[q].done \notin {ByOrder, remote[q].unread}
      BY <1>8, <3>1
    <3>4. EffectiveArchived(remote[q]) <=> q \in wanted
      BY <3>2, <3>3 DEF ActInv, ArchivedAsWanted
    <3> QED BY <3>1, <3>2, <3>4
  <2> QED BY <2>1, <2>2
<1>9. ArchivedAsWanted'
  BY <1>8 DEF ArchivedAsWanted
<1> QED BY <1>1, <1>7, <1>9 DEF ActInv

LEMMA ActKeeps ==
  ASSUME ActInv, [ListNext]_chatListVars
  PROVE  ActInv'
<1>1. CASE UNCHANGED actVars
  BY <1>1 DEF ActInv, actVars, ArchivedAsWanted
<1>2. [ListNext]_chatListVars => Act \/ UNCHANGED actVars
  BY DEF ListNext, Begin, NextPage, Poll, SyncData, Activity, chatListVars
<1> QED BY <1>1, <1>2, ActStep

(* A chat counts as archived if that was the last thing a client did to it:*)
(* ArchivedAsWanted.                                                       *)
THEOREM ArchivesAsWanted == ListSpec => []ArchivedAsWanted
<1>1. ListInit => ActInv
  BY ChatListAssumption DEF ListInit, ActInv, ArchivedAsWanted, EffectiveArchived, NoData
<1>2. ActInv /\ [ListNext]_chatListVars => ActInv'
  BY ActKeeps
<1>3. ActInv => ArchivedAsWanted
  BY DEF ActInv
<1> QED BY <1>1, <1>2, <1>3, PTL DEF ListSpec
-----------------------------------------------------------------------------
(* The order of the list, and the ends of its pages.                       *)

LEMMA ListOrder ==
  ASSUME NEW a \in Spots, NEW b \in Spots, NEW c \in Spots
  PROVE  /\ ~Precedes(a, a)
         /\ Precedes(a, b) /\ Precedes(b, c) => Precedes(a, c)
         /\ a.room # b.room => Precedes(a, b) \/ Precedes(b, a)
BY DEF Spots, Precedes

LEMMA FirstOfOrder ==
  ASSUME NEW S, IsFiniteSet(S), S # {}, NEW R,
         \A s \in S : <<s, s>> \notin R,
         \A s, t, u \in S : <<s, t>> \in R /\ <<t, u>> \in R => <<s, u>> \in R
  PROVE  \E r \in S : \A s \in S : <<s, r>> \notin R
<1> DEFINE Ahead(r) == {s \in S : <<s, r>> \in R}
           T == {Cardinality(Ahead(r)) : r \in S}
<1>1. \A r \in S : Ahead(r) \in SUBSET S
  OBVIOUS
<1> HIDE DEF Ahead
<1>2. ASSUME NEW r \in S PROVE IsFiniteSet(Ahead(r)) /\ Cardinality(Ahead(r)) \in Nat
  BY <1>1, SmallerSet
<1>3. T \subseteq Nat /\ T # {}
  BY <1>2
<1> HIDE DEF T
<1>4. PICK n \in T : \A m \in T : n <= m
  BY <1>3, LeastNat
<1>5. PICK r \in S : n = Cardinality(Ahead(r))
  BY <1>4 DEF T
<1>6. ASSUME NEW s \in S, <<s, r>> \in R PROVE FALSE
  <2>1. Ahead(s) \in SUBSET Ahead(r) /\ s \in Ahead(r) /\ s \notin Ahead(s)
    BY <1>6 DEF Ahead
  <2>2. Cardinality(Ahead(s)) \in T
    BY DEF T
  <2>3. /\ Cardinality(Ahead(s)) <= Cardinality(Ahead(r))
        /\ Cardinality(Ahead(s)) = Cardinality(Ahead(r)) => Ahead(s) = Ahead(r)
    BY <1>2, <2>1, SmallerSet
  <2>4. Cardinality(Ahead(r)) <= Cardinality(Ahead(s))
    BY <1>4, <1>5, <2>2
  <2> QED BY <1>2, <2>1, <2>3, <2>4
<1> QED BY <1>6

Typed == sortingTS \in [Rooms -> Nat]

LEMMA RoomsHaveSpots ==
  ASSUME Typed
  PROVE  /\ \A r \in Rooms : Place(r) \in Spots /\ Place(r).room = r /\ Place(r) # NoValue
         /\ NoValue \notin Spots
<1>1. Rooms \subseteq Nat /\ NoValue \notin Spots
  BY ChatListAssumption DEF Spots
<1>2. \A r \in Rooms : Place(r) \in Spots /\ Place(r).room = r
  BY <1>1 DEF Place, Spots, Typed
<1> QED BY <1>1, <1>2

LEMMA EndRooms ==
  ASSUME Typed, NEW c \in SUBSET Rooms, c # {}
  PROVE  /\ \E r \in c : \A s \in c : ~Precedes(Place(s), Place(r))
         /\ \E r \in c : \A s \in c : ~Precedes(Place(r), Place(s))
<1> DEFINE R == {p \in Rooms \X Rooms : Precedes(Place(p[1]), Place(p[2]))}
           Q == {p \in Rooms \X Rooms : Precedes(Place(p[2]), Place(p[1]))}
<1>1. IsFiniteSet(c)
  BY FS_Subset, ChatListAssumption
<1>2. \A s, t \in Rooms : (<<s, t>> \in R <=> Precedes(Place(s), Place(t))) /\ (<<s, t>> \in Q <=> Precedes(Place(t), Place(s)))
  OBVIOUS
<1>3. \A s, t, u \in Rooms :
        /\ ~Precedes(Place(s), Place(s))
        /\ Precedes(Place(s), Place(t)) /\ Precedes(Place(t), Place(u)) => Precedes(Place(s), Place(u))
  BY RoomsHaveSpots, ListOrder
<1> HIDE DEF R, Q
<1>4. \E r \in c : \A s \in c : <<s, r>> \notin R
  <2>1. /\ \A s \in c : <<s, s>> \notin R
        /\ \A s, t, u \in c : <<s, t>> \in R /\ <<t, u>> \in R => <<s, u>> \in R
    BY <1>2, <1>3
  <2> QED BY <1>1, <2>1, FirstOfOrder
<1>5. \E r \in c : \A s \in c : <<s, r>> \notin Q
  <2>1. /\ \A s \in c : <<s, s>> \notin Q
        /\ \A s, t, u \in c : <<s, t>> \in Q /\ <<t, u>> \in Q => <<s, u>> \in Q
    BY <1>2, <1>3
  <2> QED BY <1>1, <2>1, FirstOfOrder
<1> QED BY <1>2, <1>4, <1>5

(* The first and the last room of a page.                                  *)
EndFacts(items) ==
  /\ \E r \in items : OldestCursor(items) = Place(r) /\ \A s \in items : ~Precedes(Place(r), Place(s))
  /\ \E r \in items : NewestCursor(items) = Place(r) /\ \A s \in items : ~Precedes(Place(s), Place(r))

LEMMA PageEnds ==
  ASSUME Typed, NEW items \in SUBSET Rooms, items # {}
  PROVE  EndFacts(items)
<1>1. /\ \E r \in items : \A s \in items : ~Precedes(Place(s), Place(r))
      /\ \E r \in items : \A s \in items : ~Precedes(Place(r), Place(s))
  BY EndRooms
<1> QED BY <1>1 DEF EndFacts, OldestCursor, NewestCursor

(* What is on a page.                                                      *)
ItemFacts(items, c) ==
  /\ items \subseteq c
  /\ \A r \in items, s \in c : Precedes(Place(s), Place(r)) => s \in items
  /\ ~HasMore(c) => items = c
  /\ HasMore(c) => items # {}

LEMMA PageItems ==
  ASSUME Typed, NEW c \in SUBSET Rooms
  PROVE  ItemFacts(Items(c), c)
<1> DEFINE Ahead(r) == {s \in c : Precedes(Place(s), Place(r))}
           items == Items(c)
<1>1. IsFiniteSet(c) /\ Cardinality(c) \in Nat
  <2>1. IsFiniteSet(c)
    BY FS_Subset, ChatListAssumption
  <2> QED BY <2>1, FS_CardinalityType
<1>2. ChatPageSize \in Nat /\ ChatPageSize > 0
  BY ChatListAssumption
<1>3. items \subseteq c /\ \A r \in c : r \in items <=> Cardinality(Ahead(r)) < ChatPageSize
  BY DEF Items
<1>4. \A s, t, u \in c :
        /\ ~Precedes(Place(s), Place(s))
        /\ Precedes(Place(s), Place(t)) /\ Precedes(Place(t), Place(u)) => Precedes(Place(s), Place(u))
  BY RoomsHaveSpots, ListOrder
<1>5. \A r \in c : Ahead(r) \in SUBSET c /\ r \notin Ahead(r)
  BY <1>4
<1>6. \A r, s \in c : Precedes(Place(s), Place(r)) => Ahead(s) \in SUBSET Ahead(r)
  BY <1>4
<1> HIDE DEF Ahead, items
<1>7. ASSUME NEW r \in c
      PROVE  /\ IsFiniteSet(Ahead(r)) /\ Cardinality(Ahead(r)) \in Nat
             /\ Cardinality(Ahead(r)) < Cardinality(c)
  <2>1. /\ IsFiniteSet(Ahead(r)) /\ Cardinality(Ahead(r)) \in Nat
        /\ Cardinality(Ahead(r)) <= Cardinality(c)
        /\ Cardinality(Ahead(r)) = Cardinality(c) => Ahead(r) = c
    BY <1>1, <1>5, SmallerSet
  <2> QED BY <1>1, <1>5, <2>1
<1>8. ASSUME NEW r \in items, NEW s \in c, Precedes(Place(s), Place(r)) PROVE s \in items
  <2>1. r \in c /\ Ahead(s) \in SUBSET Ahead(r)
    BY <1>3, <1>6, <1>8
  <2>2. Cardinality(Ahead(s)) <= Cardinality(Ahead(r))
    BY <1>7, <2>1, SmallerSet
  <2> QED BY <1>2, <1>3, <1>7, <2>1, <2>2
<1>9. ASSUME ~HasMore(c) PROVE items = c
  <2>1. Cardinality(c) <= ChatPageSize
    BY <1>1, <1>2, <1>9 DEF HasMore
  <2>2. \A r \in c : r \in items
    BY <1>1, <1>2, <1>3, <1>7, <2>1
  <2> QED BY <1>3, <2>2
<1>10. ASSUME HasMore(c) PROVE items # {}
  <2>1. c # {}
    <3>1. c = {} => Cardinality(c) = 0
      BY FS_EmptySet
    <3> QED BY <1>1, <1>2, <1>10, <3>1 DEF HasMore
  <2>2. PICK r \in c : \A s \in c : ~Precedes(Place(s), Place(r))
    BY <2>1, EndRooms
  <2>3. Ahead(r) = {}
    BY <2>2 DEF Ahead
  <2>4. Cardinality(Ahead(r)) = 0
    BY <2>3, FS_EmptySet
  <2> QED BY <1>2, <1>3, <2>4
<1> QED BY <1>3, <1>8, <1>9, <1>10 DEF ItemFacts, items
-----------------------------------------------------------------------------
(* A page down the list: nothing is left out between the cursor it was     *)
(* asked with and its own.                                                 *)

Ahead(cursor, inbox) ==
  {r \in Listed : InInbox(r, inbox) /\ (cursor = NoValue \/ IsOlder(r, cursor))}

DownFacts(cursor, inbox, items, more) ==
  /\ items \subseteq Ahead(cursor, inbox)
  /\ ~more => items = Ahead(cursor, inbox)
  /\ more => \E x \in items :
       /\ OldestCursor(items) = Place(x)
       /\ \A s \in items : ~IsOlder(s, Place(x))
       /\ \A r \in Ahead(cursor, inbox) : r \in items \/ IsOlder(r, Place(x))

LEMMA PageDown ==
  ASSUME Typed, NEW cursor, NEW inbox,
         NEW c, c = Candidates("before", inbox, cursor)
  PROVE  DownFacts(cursor, inbox, Items(c), HasMore(c))
<1> DEFINE items == Items(c)
<1>1. c = Ahead(cursor, inbox) /\ c \in SUBSET Rooms
  BY DEF Candidates, Ahead, Listed
<1>2. ItemFacts(items, c)
  BY <1>1, PageItems
<1> HIDE DEF items
<1>3. ASSUME HasMore(c)
      PROVE  \E x \in items :
               /\ OldestCursor(items) = Place(x)
               /\ \A s \in items : ~IsOlder(s, Place(x))
               /\ \A r \in c : r \in items \/ IsOlder(r, Place(x))
  <2>1. items # {} /\ items \in SUBSET Rooms
    BY <1>1, <1>2, <1>3 DEF ItemFacts
  <2>2. EndFacts(items)
    BY <2>1, PageEnds
  <2>3. PICK x \in items : OldestCursor(items) = Place(x) /\ \A s \in items : ~Precedes(Place(x), Place(s))
    BY <2>2 DEF EndFacts
  <2>4. ASSUME NEW r \in c, r \notin items PROVE IsOlder(r, Place(x))
    <3>1. r \in Rooms /\ x \in Rooms /\ r # x
      BY <1>1, <2>1, <2>4
    <3>2. Precedes(Place(r), Place(x)) \/ Precedes(Place(x), Place(r))
      BY <3>1, RoomsHaveSpots, ListOrder
    <3>3. ~Precedes(Place(r), Place(x))
      BY <1>2, <2>4 DEF ItemFacts
    <3> QED BY <3>2, <3>3 DEF IsOlder
  <2> QED BY <2>3, <2>4 DEF IsOlder
<1>4. items \subseteq c /\ (~HasMore(c) => items = c)
  BY <1>2 DEF ItemFacts
<1>5. DownFacts(cursor, inbox, items, HasMore(c))
  BY <1>1, <1>3, <1>4, Zenon DEF DownFacts
<1> QED BY <1>5 DEF items

(* A step that is no page takes nothing into the inbox, or to another      *)
(* place, but what it marks as changed.                                    *)
LEMMA SameInbox ==
  ASSUME NEW r, local'[r] = local[r], walk'.inbox = walk.inbox
  PROVE  InInbox(r, walk.inbox)' <=> InInbox(r, walk.inbox)
BY DEF InInbox, EffectiveArchived

LEMMA RoomChanges ==
  ASSUME ListInv, NEW q \in Rooms, UNCHANGED walkVars,
         Typed', Changed \subseteq Changed', moved' \in {moved, moved \union {q}},
         \A r \in Rooms \ {q} : sortingTS'[r] = sortingTS[r] /\ local'[r] = local[r],
         q \in moved' \/ sortingTS'[q] = sortingTS[q],
         \/ q \in Changed'
         \/ /\ sortingTS'[q] = sortingTS[q]
            /\ InInbox(q, walk.inbox)' => InInbox(q, walk.inbox)
  PROVE  ListInv'
<1>1. /\ Typed /\ returned \subseteq Rooms
      /\ walk' = walk /\ returned' = returned /\ repeated' = repeated
  BY DEF ListInv, WalkTypes, Typed, walkVars
<1>2. WalkTypes' /\ ReturnedOnce'
  BY <1>1 DEF ListInv, WalkTypes, ReturnedOnce, Typed
<1>3. \A r \in Listed' \ Changed' : /\ r \in Listed \ Changed
                                    /\ IsOlder(r, walk.cursor)' <=> IsOlder(r, walk.cursor)
                                    /\ InInbox(r, walk.inbox)' => InInbox(r, walk.inbox)
  <2> SUFFICES ASSUME NEW r \in Listed', r \notin Changed'
               PROVE  /\ r \in Listed \ Changed
                      /\ IsOlder(r, walk.cursor)' <=> IsOlder(r, walk.cursor)
                      /\ InInbox(r, walk.inbox)' => InInbox(r, walk.inbox)
    OBVIOUS
  <2>1. r \in Rooms /\ sortingTS'[r] > 0 /\ r \notin Changed
    BY DEF Listed
  <2>2. sortingTS'[r] = sortingTS[r]
    BY <2>1
  <2>3. InInbox(r, walk.inbox)' => InInbox(r, walk.inbox)
    BY <1>1, <2>1, SameInbox
  <2> QED BY <1>1, <2>1, <2>2, <2>3 DEF Listed, IsOlder, Precedes, Place
<1>4. \A r \in returned \ moved' : /\ r \in returned \ moved
                                   /\ IsOlder(r, walk.cursor)' <=> IsOlder(r, walk.cursor)
                                   /\ IsNewer(r, walk.first)' <=> IsNewer(r, walk.first)
  BY <1>1 DEF IsOlder, IsNewer, Precedes, Place
<1>5. WalkComplete'
  BY <1>1, <1>3 DEF ListInv, WalkComplete
<1>6. (Precedes(walk.cursor, walk.first))' <=> Precedes(walk.cursor, walk.first)
  BY <1>1 DEF Precedes
<1>7. Between'
  BY <1>1, <1>3, <1>4, <1>6 DEF ListInv, Between
<1> QED BY <1>2, <1>5, <1>7 DEF ListInv
-----------------------------------------------------------------------------
(* The requests of the client.                                             *)

LEMMA BeginKeepsList ==
  ASSUME ListInv, Begin
  PROVE  ListInv'
<1>1. /\ Typed /\ sortingTS' = sortingTS /\ local' = local
  BY DEF ListInv, WalkTypes, Typed, Begin, listVars
<1>2. PICK inbox \in Inboxes :
        LET c == Candidates("before", inbox, NoValue)
        IN /\ walk' = [phase |-> IF HasMore(c) THEN "walking" ELSE "walked",
                       inbox |-> inbox, cursor |-> OldestCursor(Items(c)),
                       first |-> NewestCursor(Items(c))]
           /\ returned' = Items(c)
           /\ repeated' = {} /\ moved' = {} /\ Changed' = {}
  BY DEF Begin, Changed
<1> DEFINE c == Candidates("before", inbox, NoValue)
           items == Items(c)
           all == Ahead(NoValue, inbox)
<1>3. /\ walk' = [phase |-> IF HasMore(c) THEN "walking" ELSE "walked",
                  inbox |-> inbox, cursor |-> OldestCursor(items),
                  first |-> NewestCursor(items)]
      /\ returned' = items /\ repeated' = {} /\ moved' = {} /\ Changed' = {}
  BY <1>2
<1>4. DownFacts(NoValue, inbox, items, HasMore(c))
  BY <1>1, PageDown
<1>5. items \subseteq all /\ all = {r \in Listed : InInbox(r, inbox)} /\ items \in SUBSET Rooms
  BY <1>4 DEF DownFacts, Ahead, Listed
<1> HIDE DEF c, items, all
<1>6. IF items = {} THEN OldestCursor(items) = NoValue /\ NewestCursor(items) = NoValue
      ELSE EndFacts(items)
  BY <1>1, <1>5, PageEnds DEF OldestCursor, NewestCursor
<1>7. /\ OldestCursor(items) \in Spots \union {NoValue}
      /\ NewestCursor(items) \in Spots \union {NoValue}
      /\ items # {} => OldestCursor(items) # NoValue /\ NewestCursor(items) # NoValue
  BY <1>1, <1>5, <1>6, RoomsHaveSpots DEF EndFacts
<1>8. WalkTypes' /\ ReturnedOnce'
  BY <1>1, <1>3, <1>5, <1>7 DEF WalkTypes, ReturnedOnce, Typed
<1>9. \A r : IsOlder(r, walk.cursor)' <=> IsOlder(r, OldestCursor(items))
  BY <1>1, <1>3 DEF IsOlder, Precedes, Place
<1>10. \A r : IsNewer(r, walk.first)' <=> IsNewer(r, NewestCursor(items))
  BY <1>1, <1>3 DEF IsNewer, Precedes, Place
<1>11. {r \in Listed' : InInbox(r, walk.inbox)'} = all
  BY <1>1, <1>3, <1>5 DEF Listed, InInbox, EffectiveArchived
<1>12. WalkComplete'
  <2>1. ~HasMore(c) => items = all
    BY <1>4 DEF DownFacts, all
  <2> QED BY <1>3, <1>11, <2>1 DEF WalkComplete
<1>13. ASSUME HasMore(c)
       PROVE  /\ OldestCursor(items) # NoValue /\ NewestCursor(items) # NoValue
              /\ ~Precedes(OldestCursor(items), NewestCursor(items))
              /\ \A r \in items : ~IsOlder(r, OldestCursor(items))
              /\ \A r \in all : r \in items \/ IsOlder(r, OldestCursor(items))
  <2>1. PICK x \in items : /\ OldestCursor(items) = Place(x)
                           /\ \A s \in items : ~IsOlder(s, Place(x))
                           /\ \A r \in all : r \in items \/ IsOlder(r, Place(x))
    BY <1>4, <1>13 DEF DownFacts, all
  <2>2. PICK y \in items : NewestCursor(items) = Place(y) /\ \A s \in items : ~Precedes(Place(s), Place(y))
    BY <1>6, <2>1 DEF EndFacts
  <2> QED BY <1>7, <2>1, <2>2
<1>14. items # {} => \A r \in items : ~IsNewer(r, NewestCursor(items))
  BY <1>6 DEF EndFacts, IsNewer
<1>15. (Precedes(walk.cursor, walk.first))' <=> Precedes(OldestCursor(items), NewestCursor(items))
  BY <1>3 DEF Precedes
<1>16. Between'
  <2>1. /\ walk'.phase = "walking" => HasMore(c)
        /\ walk'.cursor = OldestCursor(items) /\ walk'.first = NewestCursor(items)
    BY <1>3
  <2>2. NewestCursor(items) = NoValue => items = {}
    BY <1>7
  <2>3. returned' \ moved' = items /\ returned' = items /\ Changed' = {}
    BY <1>3
  <2> QED BY <1>9, <1>10, <1>11, <1>13, <1>14, <1>15, <2>1, <2>2, <2>3 DEF Between
<1> QED BY <1>8, <1>12, <1>16 DEF ListInv

LEMMA NextPageKeeps ==
  ASSUME ListInv, NextPage
  PROVE  ListInv'
<1> DEFINE cursor == walk.cursor
           inbox == walk.inbox
           c == Candidates("before", inbox, cursor)
           items == Items(c)
           next == IF items = {} THEN NoValue ELSE OldestCursor(items)
<1>1. /\ Typed /\ returned \subseteq Rooms /\ repeated = {}
      /\ walk \in [phase : {"idle", "walking", "walked", "polled", "gap"}, inbox : Inboxes,
                   cursor : Spots \union {NoValue}, first : Spots \union {NoValue}]
      /\ walk.phase = "walking" /\ sortingTS' = sortingTS /\ local' = local /\ Changed' = Changed
  BY DEF ListInv, WalkTypes, Typed, ReturnedOnce, NextPage, listVars, Changed
<1>2. /\ walk' = [walk EXCEPT !.phase = IF HasMore(c) THEN "walking" ELSE "walked", !.cursor = next]
      /\ returned' = returned \union items
      /\ repeated' = repeated \union ((items \intersect returned) \ moved)
      /\ moved' = moved \ items
  BY DEF NextPage, Return
<1>3. /\ cursor \in Spots /\ walk.first \in Spots /\ cursor # NoValue /\ walk.first # NoValue
      /\ ~Precedes(cursor, walk.first)
      /\ \A r \in returned \ moved : ~IsOlder(r, cursor)
      /\ \A r \in Listed \ Changed : InInbox(r, inbox) => r \in returned \/ IsOlder(r, cursor)
      /\ \A r \in returned \ moved : ~IsNewer(r, walk.first)
  BY <1>1 DEF ListInv, Between
<1>4. DownFacts(cursor, inbox, items, HasMore(c))
  BY <1>1, PageDown
<1>5. /\ items \subseteq Ahead(cursor, inbox) /\ items \in SUBSET Rooms
      /\ \A r \in items : IsOlder(r, cursor)
      /\ \A r \in Listed \ Changed : InInbox(r, inbox) => r \in returned \/ r \in Ahead(cursor, inbox)
  BY <1>3, <1>4 DEF DownFacts, Ahead, Listed
<1> HIDE DEF c, items
<1>6. next \in Spots \union {NoValue}
  <2>1. items # {} => EndFacts(items)
    BY <1>1, <1>5, PageEnds
  <2> QED BY <1>1, <1>5, <2>1, RoomsHaveSpots DEF EndFacts
<1> HIDE DEF next
<1>7. /\ walk'.phase = IF HasMore(c) THEN "walking" ELSE "walked"
      /\ walk'.inbox = inbox /\ walk'.cursor = next /\ walk'.first = walk.first
      /\ walk' \in [phase : {"idle", "walking", "walked", "polled", "gap"}, inbox : Inboxes,
                    cursor : Spots \union {NoValue}, first : Spots \union {NoValue}]
  BY <1>1, <1>2, <1>6
<1>8. repeated' = {}
  BY <1>1, <1>2, <1>3, <1>5
<1>9. WalkTypes' /\ ReturnedOnce'
  BY <1>1, <1>2, <1>5, <1>7, <1>8 DEF WalkTypes, ReturnedOnce, Typed
<1>10. Listed' = Listed /\ \A r : InInbox(r, walk.inbox)' <=> InInbox(r, inbox)
  BY <1>1, <1>7 DEF Listed, InInbox, EffectiveArchived
<1>11. \A r : IsOlder(r, walk.cursor)' <=> IsOlder(r, next)
  BY <1>1, <1>7 DEF IsOlder, Precedes, Place
<1>12. \A r : IsNewer(r, walk.first)' <=> IsNewer(r, walk.first)
  BY <1>1, <1>7 DEF IsNewer, Precedes, Place
<1>13. WalkComplete'
  <2>1. ~HasMore(c) => items = Ahead(cursor, inbox)
    BY <1>4 DEF DownFacts
  <2> QED BY <1>1, <1>2, <1>5, <1>7, <1>10, <2>1 DEF WalkComplete
<1>14. \A r \in returned' \ moved' : r \in items \/ r \in returned \ moved
  BY <1>2
<1>15. ASSUME NEW r \in items PROVE ~IsNewer(r, walk.first)
  <2>1. Place(r) \in Spots /\ Precedes(cursor, Place(r))
    BY <1>1, <1>5, RoomsHaveSpots DEF IsOlder
  <2> QED BY <1>3, <2>1, ListOrder DEF IsNewer
<1>16. ASSUME HasMore(c)
       PROVE  /\ next # NoValue /\ ~Precedes(next, walk.first)
              /\ \A r \in items \union (returned \ moved) : ~IsOlder(r, next)
              /\ \A r \in Ahead(cursor, inbox) : r \in items \/ IsOlder(r, next)
  <2>1. PICK x \in items : /\ OldestCursor(items) = Place(x)
                           /\ \A s \in items : ~IsOlder(s, Place(x))
                           /\ \A r \in Ahead(cursor, inbox) : r \in items \/ IsOlder(r, Place(x))
    BY <1>4, <1>16 DEF DownFacts
  <2>2. next = Place(x) /\ next \in Spots /\ next # NoValue /\ Precedes(cursor, next)
    BY <1>1, <1>5, <2>1, RoomsHaveSpots DEF next, IsOlder
  <2>3. ~Precedes(next, walk.first)
    BY <1>3, <2>2, ListOrder
  <2>4. ASSUME NEW r \in returned \ moved PROVE ~IsOlder(r, next)
    <3>1. Place(r) \in Spots /\ ~Precedes(cursor, Place(r))
      BY <1>1, <1>3, RoomsHaveSpots DEF IsOlder
    <3> QED BY <1>3, <2>2, <3>1, ListOrder DEF IsOlder
  <2> QED BY <2>1, <2>2, <2>3, <2>4
<1>17. (Precedes(walk.cursor, walk.first))' <=> Precedes(next, walk.first)
  BY <1>7 DEF Precedes
<1>18. Between'
  <2>1. \A r \in returned' \ moved' : ~IsNewer(r, walk.first)
    BY <1>3, <1>14, <1>15
  <2>2. HasMore(c) => \A r \in returned' \ moved' : ~IsOlder(r, next)
    BY <1>14, <1>16
  <2>3. HasMore(c) => \A r \in Listed \ Changed : InInbox(r, inbox) => r \in returned' \/ IsOlder(r, next)
    BY <1>2, <1>5, <1>16
  <2> QED BY <1>1, <1>3, <1>7, <1>10, <1>11, <1>12, <1>16, <1>17, <2>1, <2>2, <2>3 DEF Between
<1> QED BY <1>9, <1>13, <1>18 DEF ListInv

LEMMA PollKeeps ==
  ASSUME ListInv, Poll
  PROVE  ListInv'
<1> DEFINE c == Candidates("after", walk.inbox, walk.first)
           items == Items(c)
<1>1. /\ Typed /\ returned \subseteq Rooms /\ repeated = {}
      /\ walk \in [phase : {"idle", "walking", "walked", "polled", "gap"}, inbox : Inboxes,
                   cursor : Spots \union {NoValue}, first : Spots \union {NoValue}]
      /\ walk.phase = "walked" /\ sortingTS' = sortingTS
  BY DEF ListInv, WalkTypes, Typed, ReturnedOnce, Poll, listVars
<1>2. /\ walk' = [walk EXCEPT !.phase = IF HasMore(c) THEN "gap" ELSE "polled"]
      /\ returned' = returned \union items
      /\ repeated' = repeated \union ((items \intersect returned) \ moved)
  BY DEF Poll, Return
<1>3. IF walk.first = NoValue THEN returned = {}
      ELSE \A r \in returned \ moved : ~IsNewer(r, walk.first)
  BY <1>1 DEF ListInv, Between
<1>4. c \in SUBSET Rooms /\ \A r \in c : walk.first # NoValue => IsNewer(r, walk.first)
  BY DEF Candidates, Listed
<1>5. items \subseteq c
  BY DEF Items
<1> HIDE DEF c, items
<1>6. /\ walk'.phase \in {"gap", "polled"}
      /\ walk' \in [phase : {"idle", "walking", "walked", "polled", "gap"}, inbox : Inboxes,
                    cursor : Spots \union {NoValue}, first : Spots \union {NoValue}]
  BY <1>1, <1>2
<1>7. repeated' = {}
  BY <1>1, <1>2, <1>3, <1>4, <1>5
<1>8. WalkTypes' /\ ReturnedOnce'
  BY <1>1, <1>2, <1>4, <1>5, <1>6, <1>7 DEF WalkTypes, ReturnedOnce, Typed
<1> QED BY <1>6, <1>8 DEF ListInv, WalkComplete, Between

LEMMA ListStep ==
  ASSUME ListInv, [ListNext]_chatListVars
  PROVE  ListInv'
<1>1. Typed
  BY DEF ListInv, WalkTypes, Typed
<1>2. ASSUME UNCHANGED <<listVars, walkVars, moved, active, joined>> PROVE ListInv'
  <2>1. /\ sortingTS' = sortingTS /\ local' = local /\ walk' = walk /\ returned' = returned
        /\ repeated' = repeated /\ moved' = moved /\ Changed' = Changed
    BY <1>2 DEF listVars, walkVars, Changed
  <2>2. WalkTypes' /\ ReturnedOnce'
    BY <2>1 DEF ListInv, WalkTypes, ReturnedOnce
  <2>3. /\ Listed' = Listed
        /\ \A r : /\ InInbox(r, walk.inbox)' <=> InInbox(r, walk.inbox)
                  /\ IsOlder(r, walk.cursor)' <=> IsOlder(r, walk.cursor)
                  /\ IsNewer(r, walk.first)' <=> IsNewer(r, walk.first)
        /\ (Precedes(walk.cursor, walk.first))' <=> Precedes(walk.cursor, walk.first)
    BY <2>1 DEF Listed, InInbox, EffectiveArchived, IsOlder, IsNewer, Precedes, Place
  <2>4. WalkComplete'
    BY <2>1, <2>3 DEF ListInv, WalkComplete
  <2>5. Between'
    BY <2>1, <2>3 DEF ListInv, Between
  <2> QED BY <2>2, <2>4, <2>5 DEF ListInv
<1>3. CASE Act
  BY <1>2, <1>3 DEF Act
<1>4. ASSUME NEW r \in Rooms, SyncData(r) PROVE ListInv'
  <2>1. /\ local' = [local EXCEPT ![r] = remote[r]] /\ active' = active
        /\ joined' = IF InInbox(r, walk.inbox)' /\ ~InInbox(r, walk.inbox)
                     THEN joined \union {r} ELSE joined
        /\ sortingTS' = sortingTS /\ moved' = moved /\ UNCHANGED walkVars
    BY <1>4 DEF SyncData
  <2>2. \A q \in Rooms \ {r} : local'[q] = local[q]
    BY <2>1
  <2>3. Typed'
    BY <1>1, <2>1 DEF Typed
  <2>4. /\ Changed \subseteq Changed'
        /\ r \in Changed' \/ (InInbox(r, walk.inbox)' => InInbox(r, walk.inbox))
    BY <2>1 DEF Changed
  <2> QED BY <2>1, <2>2, <2>3, <2>4, RoomChanges
<1>5. ASSUME NEW r \in Rooms, Activity(r) PROVE ListInv'
  <2>1. PICK t \in (sortingTS[r] + 1)..MaxTime : sortingTS' = [sortingTS EXCEPT ![r] = t]
    BY <1>5 DEF Activity
  <2>2. /\ Changed \subseteq Changed' /\ r \in Changed' /\ moved' = moved \union {r}
        /\ local' = local /\ UNCHANGED walkVars
    BY <1>5 DEF Activity, Changed
  <2>3. t \in Nat
    BY <1>1, ChatListAssumption DEF Typed
  <2>4. Typed' /\ \A q \in Rooms \ {r} : sortingTS'[q] = sortingTS[q]
    BY <1>1, <2>1, <2>3 DEF Typed
  <2> QED BY <2>2, <2>4, RoomChanges
<1>6. CASE UNCHANGED chatListVars
  BY <1>2, <1>6 DEF chatListVars
<1> QED BY <1>3, <1>4, <1>5, <1>6, BeginKeepsList, NextPageKeeps, PollKeeps DEF ListNext

(* Walks down the list of chats, whatever moves and changes between their  *)
(* pages (accounts_chats.go:277-460, search_actions.go:1160-1235).         *)
THEOREM ListInvariant == ListSpec => []ListInv
<1>1. ListInit => ListInv
  <2> SUFFICES ASSUME ListInit PROVE ListInv
    OBVIOUS
  <2>1. sortingTS \in [Rooms -> Nat]
    BY ChatListAssumption DEF ListInit
  <2>2. /\ walk = [phase |-> "idle", inbox |-> "any", cursor |-> NoValue, first |-> NoValue]
        /\ returned = {} /\ repeated = {}
    BY DEF ListInit, Idle
  <2> QED BY <2>1, <2>2 DEF ListInv, WalkTypes, ReturnedOnce, WalkComplete, Between, Inboxes
<1>2. ListInv /\ [ListNext]_chatListVars => ListInv'
  BY ListStep
<1> QED BY <1>1, <1>2, PTL DEF ListSpec

(* A walk returns a room again only after it had activity: ReturnedOnce.   *)
THEOREM RoomsReturnedOnce == ListSpec => []ReturnedOnce
<1>1. ListInv => ReturnedOnce
  BY DEF ListInv
<1> QED BY <1>1, ListInvariant, PTL

(* A walk that ended has returned every room that was in the inbox all     *)
(* along and had no event: WalkComplete.                                   *)
THEOREM WalksComplete == ListSpec => []WalkComplete
<1>1. ListInv => WalkComplete
  BY DEF ListInv
<1> QED BY <1>1, ListInvariant, PTL

(* Together with a poll that finds a page at most it has returned every    *)
(* room of the inbox, but those behind its first room that an event with an*)
(* old time, or account data, took to where the walk had passed:           *)
(* PollCatchesUp (accounts_chats.go:287-295).                              *)
THEOREM PollsCatchUp == ListSpec => PollCatchesUp
<1> DEFINE Caught ==
      Poll /\ walk'.phase = "polled" =>
        \A r \in Listed : InInbox(r, walk.inbox) =>
          \/ r \in returned'
          \/ r \in Changed /\ walk.first # NoValue /\ ~IsNewer(r, walk.first)
<1>1. ListInv /\ [ListNext]_chatListVars => [Caught]_chatListVars
  <2> SUFFICES ASSUME ListInv, Poll, walk'.phase = "polled",
                      NEW r \in Listed, InInbox(r, walk.inbox), r \notin returned'
               PROVE  r \in Changed /\ walk.first # NoValue /\ ~IsNewer(r, walk.first)
    OBVIOUS
  <2> DEFINE c == Candidates("after", walk.inbox, walk.first)
  <2>1. /\ walk' = [walk EXCEPT !.phase = IF HasMore(c) THEN "gap" ELSE "polled"]
        /\ returned' = returned \union Items(c) /\ walk.phase = "walked"
    BY DEF Poll, Return
  <2>2. Typed /\ walk \in [phase : {"idle", "walking", "walked", "polled", "gap"}, inbox : Inboxes,
                           cursor : Spots \union {NoValue}, first : Spots \union {NoValue}]
    BY DEF ListInv, WalkTypes, Typed
  <2>3. c \in SUBSET Rooms
    BY DEF Candidates, Listed
  <2>4. r \in c <=> (walk.first # NoValue => IsNewer(r, walk.first))
    BY DEF Candidates
  <2> HIDE DEF c
  <2>5. ~HasMore(c)
    BY <2>1, <2>2
  <2>6. Items(c) = c
    BY <2>2, <2>3, <2>5, PageItems DEF ItemFacts
  <2>7. r \in Changed
    BY <2>1 DEF ListInv, WalkComplete
  <2> QED BY <2>1, <2>4, <2>6, <2>7
<1>2. [][Caught]_chatListVars => PollCatchesUp
  BY PTL DEF PollCatchesUp
<1> QED BY <1>1, <1>2, ListInvariant, PTL DEF ListSpec
-----------------------------------------------------------------------------
(* A client that pages through its chats or its messages is a client of    *)
(* both: all the theorems above hold of PagingSpec.                        *)
THEOREM PagingIsBoth == PagingSpec => ListSpec /\ PagesSpec
<1>1. PagingInit => ListInit /\ PagesInit
  BY DEF PagingInit
<1>2. [PagingNext]_pagingVars => [ListNext]_chatListVars /\ [PagesNext]_pageVars
  BY DEF PagingNext, pagingVars, ListNext
<1> QED BY <1>1, <1>2, PTL DEF PagingSpec, ListSpec, PagesSpec
=============================================================================

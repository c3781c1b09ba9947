---------------------------- MODULE ContactMerge ----------------------------
(***************************************************************************)
(* One list of contacts in the making: loadAccountContacts and             *)
(* mergeContactCandidates of internal/server/search_actions.go.  Sources   *)
(* are read one after the other, and what they know of one person is       *)
(* merged, pair by pair, in that order.                                    *)
(*                                                                         *)
(* A contact has an ID, which is compared in lower case, a name, which is  *)
(* its ID when it has none, and a detail: user name, number, address and   *)
(* picture are merged alike.  Names and details are told apart by the      *)
(* candidate they are from, which is numbered by its place.                *)
(***************************************************************************)
EXTENDS Naturals, Sequences

CONSTANTS
  Spellings,             (* of IDs                                         *)
  Lower,                 (* the key of each, which those of one ID share   *)
  Bonuses,               (* of candidates that match the query             *)
  MaxHeard,              (* bound on the candidates                        *)
  Nobody, NoDetail, NoName

Candidates ==
  [id : Spellings, name : Spellings \union Nat, detail : Nat \union {NoDetail}, score : Nat]

ASSUME MergeAssumption ==
  /\ Lower \in [Spellings -> Spellings] /\ Spellings \intersect Nat = {}
  /\ Bonuses \subseteq Nat /\ MaxHeard \in Nat
  /\ NoDetail \notin Nat /\ NoName \notin Nat
  /\ Nobody \notin Candidates

VARIABLES
  query,                 (* is there one?                                  *)
  source,                (* the source that is read                        *)
  merged,                (* the map of candidates by key                   *)
  heard                  (* history: all candidates, in their order        *)

mergeVars == <<query, source, merged, heard>>

Keys == {Lower[id] : id \in Spellings}

MergeInit ==
  /\ query \in BOOLEAN
  /\ source = 1
  /\ merged = [k \in Keys |-> Nobody]
  /\ heard = <<>>
-----------------------------------------------------------------------------
(* Participants, and the contacts of the bridge; and with a query those    *)
(* its identifiers resolve to, and the directory.                          *)
BaseScore == <<120, 100, 300, 200>>
Sources == IF query THEN 1..4 ELSE 1..2

(* scoreContactForQuery: who does not match is left out.                   *)
Scores(s) == {BaseScore[s] + bonus : bonus \in IF query THEN Bonuses ELSE {0}}

(* Mutant of Preferred: the later of two equals.                           *)
PreferredLater(new, old) == new.score >= old.score

Preferred(new, old) == new.score > old.score

MergeUsers(winner, loser) ==
  [winner EXCEPT !.detail = IF @ = NoDetail THEN loser.detail ELSE @,
                 !.name = IF @ = winner.id THEN loser.name ELSE @]

Merge(new, old) ==
  IF old = Nobody THEN new
  ELSE IF Preferred(new, old) THEN MergeUsers(new, old) ELSE MergeUsers(old, new)

(* normalizeContactUser: nobody is without a name.                         *)
Normalized(user) == [user EXCEPT !.name = IF @ = NoName THEN user.id ELSE @]

AddCandidate ==
  /\ Len(heard) < MaxHeard
  /\ \E s \in Sources, id \in Spellings :
       \E score \in Scores(s), name \in {NoName, Len(heard) + 1},
          detail \in {NoDetail, Len(heard) + 1} :
         LET new == Normalized([id |-> id, name |-> name, detail |-> detail, score |-> score])
         IN /\ s >= source /\ source' = s
            /\ heard' = Append(heard, new)
            /\ merged' = [merged EXCEPT ![Lower[id]] = Merge(new, @)]
  /\ UNCHANGED query

MergeSpec == MergeInit /\ [][AddCandidate]_mergeVars
-----------------------------------------------------------------------------
(* Properties.                                                             *)

Of(k) == {i \in DOMAIN heard : Lower[heard[i].id] = k}

(* The candidates that scored more than all before them.                   *)
Best(k) == {i \in Of(k) : \A j \in Of(k) : j < i => heard[j].score < heard[i].score}

LastOf(S) == CHOOSE i \in S : \A j \in S : j <= i
FirstOf(S) == CHOOSE i \in S : \A j \in S : i <= j

(* A contact is the first of those with the highest score.  Its detail is  *)
(* of the last that was the best when it came and had one, or of the first *)
(* that had one if none of those did: it may be that of a worse candidate  *)
(* than another that has one too.  It goes by its ID only if all do, or    *)
(* the ID was spelled in two ways (search_actions.go:738-757, 835-861).    *)
MergedRight ==
  \A k \in Keys :
    IF Of(k) = {} THEN merged[k] = Nobody
    ELSE LET first == heard[LastOf(Best(k))]
             detailed == {i \in Of(k) : heard[i].detail # NoDetail}
             named == {i \in Of(k) : heard[i].name # heard[i].id}
         IN /\ merged[k].id = first.id /\ merged[k].score = first.score
            /\ \A i \in Of(k) : heard[i].score <= first.score
            /\ merged[k].detail =
                 IF detailed = {} THEN NoDetail
                 ELSE heard[IF Best(k) \intersect detailed # {}
                            THEN LastOf(Best(k) \intersect detailed)
                            ELSE FirstOf(detailed)].detail
            /\ merged[k].name \in Spellings /\ named # {} =>
                 \E i, j \in Of(k) : heard[i].id # heard[j].id
=============================================================================

---------------------------- MODULE MessagePages ----------------------------
(***************************************************************************)
(* Pages of messages: listMessages of internal/server/messages.go and      *)
(* searchMessagesCore of search_actions.go, over the timeline that gomuks  *)
(* stores.  A client pages back from the newest message, or forward from   *)
(* one it has, with the row of a message it was given as its next cursor,  *)
(* while events arrive and are redacted.                                   *)
(*                                                                         *)
(* A row of the timeline is shown or hidden: listMessages hides what is no *)
(* message (mapEventToMessage), a search what does not match.  Pages are   *)
(* counted in messages but read in rows, of which a request reads only so  *)
(* many, and the two kinds of requests and directions read differently.    *)
(***************************************************************************)
EXTENDS Naturals, FiniteSets

CONSTANTS
  MessagePageSize,       (* messagePageSize, or the limit of a search      *)
  Batch,                 (* (messagePageSize + 1) * 3                      *)
  MaxBatches,            (* maxBatches                                     *)
  MaxScan,               (* searchMessagesScanMaxEvents                    *)
  AheadScan,             (* fetchLimit, eight times the limit              *)
  MaxRow                 (* bound on the timeline                          *)

ASSUME PagesAssumption ==
  /\ MessagePageSize \in Nat \ {0} /\ MaxBatches \in Nat \ {0}
  /\ MaxRow \in Nat
  /\ Batch \in Nat /\ Batch > MessagePageSize
  /\ MaxScan \in Nat /\ MaxScan > MessagePageSize
  /\ AheadScan \in Nat /\ AheadScan > MessagePageSize

VARIABLES
  top,                   (* the newest row; rows are 1..top                *)
  shown,                 (* rows that are messages, or match               *)
  scroll,                (* the client: phase, what it asks, its cursor    *)
  given,                 (* rows returned in this walk                     *)
  givenTwice,            (* history: rows returned twice in this walk      *)
  start,                 (* history: the rows this walk should return      *)
  cursors                (* history: the cursors it has used               *)

pageVars == <<top, shown, scroll, given, givenTwice, start, cursors>>

Rows == 1..MaxRow
Requests == [kind : {"list", "search"}, direction : {"before", "after"}]
AtRest == [phase |-> "idle", kind |-> "list", direction |-> "before", cursor |-> 0]

PagesInit ==
  /\ top \in 0..MaxRow
  /\ shown \in SUBSET (1..top)
  /\ scroll = AtRest
  /\ given = {} /\ givenTwice = {} /\ start = {} /\ cursors = {}
-----------------------------------------------------------------------------
(* The timeline.                                                           *)

NewRow ==
  /\ top < MaxRow
  /\ top' = top + 1
  /\ shown' \in {shown, shown \union {top + 1}}
  /\ UNCHANGED <<scroll, given, givenTwice, start, cursors>>

RedactRow ==
  /\ \E r \in shown : shown' = shown \ {r}
  /\ UNCHANGED <<top, scroll, given, givenTwice, start, cursors>>
-----------------------------------------------------------------------------
(* Requests.                                                               *)

NewestOf(rows) == CHOOSE r \in rows : \A s \in rows : s <= r
OldestOf(rows) == CHOOSE r \in rows : \A s \in rows : s >= r
FirstNewest(n, rows) == {r \in rows : Cardinality({s \in rows : s > r}) < n}
FirstOldest(n, rows) == {r \in rows : Cardinality({s \in rows : s < r}) < n}

(* Mutant of Older: the cursor itself once more.                           *)
OlderOrSame(cursor) == {r \in 1..top : cursor = 0 \/ r <= cursor}

(* Without a cursor, both directions begin at their own end.               *)
Older(cursor) == {r \in 1..top : cursor = 0 \/ r < cursor}
Newer(cursor) == {r \in 1..top : cursor = 0 \/ r > cursor}

Page(rows, more) == [rows |-> rows, more |-> more]
Trimmed(rows, more) ==
  Page(FirstNewest(MessagePageSize, rows), Cardinality(rows) > MessagePageSize \/ more)

(* Mutant of ListBefore: one batch is read, as in the other direction.     *)
ListBeforeOnce(cursor) ==
  LET read == FirstNewest(Batch, Older(cursor))
  IN {Trimmed(shown \intersect read, FALSE)}

(* listMessages "before" reads batch after batch until it has one message  *)
(* more than a page, there is nothing older, or it has read MaxBatches.    *)
(* Paginate gives between one row and the limit; it may say that there is  *)
(* more when there is not, which the next batch corrects, but not the last.*)
ListBefore(cursor) ==
  LET older == Older(cursor)
      Read(n) == FirstNewest(n, older)
      most == MaxBatches * Batch
      all == Trimmed(shown \intersect older, FALSE)
  IN {page \in {all} : \/ Cardinality(older) <= most
                      \/ Cardinality(shown \intersect Read(most)) > MessagePageSize}
       \union {Trimmed(shown \intersect Read(n), TRUE) :
                 n \in {m \in MaxBatches..most :
                          /\ m <= Cardinality(older)
                          /\ Cardinality(shown \intersect Read(m)) <= MessagePageSize}}

(* Mutant of ListAfter: the newest rows are read, as a search does.        *)
ListAfterNewest(cursor) ==
  LET read == FirstNewest(MessagePageSize + 1, Newer(cursor))
  IN {Trimmed(shown \intersect read, Cardinality(read) = MessagePageSize + 1)}

(* listMessages "after" reads one batch of the rows next to the cursor and *)
(* sorts it by descending row, so that a message too many is the oldest.   *)
ListAfter(cursor) ==
  LET read == FirstOldest(MessagePageSize + 1, Newer(cursor))
  IN {Trimmed(shown \intersect read, Cardinality(read) = MessagePageSize + 1)}

(* A search has no more if it has found nothing, whatever it did not read. *)
Found(rows, more) == Trimmed(rows, more /\ rows # {})

(* It reads up to MaxScan rows back, and up to AheadScan of the newest rows*)
(* forward, and takes a full read for a sign that there are more.          *)
SearchBefore(cursor) ==
  LET read == FirstNewest(MaxScan, Older(cursor))
  IN {Found(shown \intersect read, Cardinality(read) = MaxScan)}
SearchAfter(cursor) ==
  LET read == FirstNewest(AheadScan, Newer(cursor))
  IN {Found(shown \intersect read, Cardinality(read) = AheadScan)}

Answers(ask, cursor) ==
  CASE ask.kind = "list" /\ ask.direction = "before" -> ListBefore(cursor)
    [] ask.kind = "list" /\ ask.direction = "after" -> ListAfter(cursor)
    [] ask.kind = "search" /\ ask.direction = "before" -> SearchBefore(cursor)
    [] ask.kind = "search" /\ ask.direction = "after" -> SearchAfter(cursor)

(* The cursors of a page are the rows at its ends; an empty one has none.  *)
NextCursor(ask, page, cursor) ==
  IF page.rows = {} THEN cursor
  ELSE IF ask.direction = "before" THEN OldestOf(page.rows) ELSE NewestOf(page.rows)

(* The client stops when there is no more, and must stop when there is     *)
(* more but the page is empty: only a message gives it the next cursor.    *)
Ask(ask, cursor, before) ==
  \E page \in Answers(ask, cursor) :
    /\ scroll' = [phase |-> IF ~page.more THEN "done"
                            ELSE IF page.rows = {} THEN "stuck" ELSE "walking",
                  kind |-> ask.kind, direction |-> ask.direction,
                  cursor |-> NextCursor(ask, page, cursor)]
    /\ given' = before \union page.rows
    /\ givenTwice' = before \intersect page.rows

BeginPages ==
  /\ \E ask \in Requests, cursor \in 0..top :
       /\ ask.direction = "before" => cursor = 0
       /\ Ask(ask, cursor, {})
       /\ start' = IF ask.direction = "before" THEN 1..top ELSE Newer(cursor)
       /\ cursors' = {cursor}
  /\ UNCHANGED <<top, shown>>

NextMessages ==
  /\ scroll.phase = "walking"
  /\ Ask(scroll, scroll.cursor, given)
  /\ cursors' = cursors \union {scroll.cursor}
  /\ UNCHANGED <<top, shown, start>>
-----------------------------------------------------------------------------
PagesNext == NewRow \/ RedactRow \/ BeginPages \/ NextMessages

PagesSpec == PagesInit /\ [][PagesNext]_pageVars
-----------------------------------------------------------------------------
(* Properties.                                                             *)

PagesTypeOK ==
  /\ top \in 0..MaxRow /\ shown \subseteq 1..top
  /\ scroll.phase \in {"idle", "walking", "done", "stuck"}
  /\ [kind |-> scroll.kind, direction |-> scroll.direction] \in Requests
  /\ scroll.cursor \in 0..top
  /\ given \subseteq 1..top /\ givenTwice \subseteq given /\ start \subseteq 1..top
  /\ cursors \subseteq 0..top

(* No walk returns a message twice, in either direction, whatever arrives  *)
(* and is redacted between its pages (messages.go:75-118,                  *)
(* search_actions.go:1313-1391).                                           *)
NoneTwice == givenTwice = {}

(* Messages that were there from the start and the walk did not return.    *)
Missing == (start \intersect shown) \ given

(* They are all further below the cursor than n rows.                     *)
MissingBelow(n) == scroll.cursor = 0 \/ Missing \subseteq 1..(scroll.cursor - n - 1)

(* Paging back ends with every message returned.  It ends early only when  *)
(* a request found nothing: a list when the MaxBatches rows below its      *)
(* cursor, and a search when the MaxScan rows below it, are all hidden     *)
(* (messages.go:75-113, search_actions.go:1265-1267, 1373-1376, 1430-1458).*)
BackComplete ==
  scroll.direction = "before" =>
    /\ scroll.phase = "done" /\ scroll.kind = "list" => Missing = {}
    /\ scroll.phase = "done" /\ scroll.kind = "search" =>
         Missing = {} \/ MissingBelow(MaxScan)
    /\ scroll.phase = "stuck" =>
         scroll.kind = "list" /\ (Missing = {} \/ MissingBelow(MaxBatches))

(* Paging forward to the end misses of a list at most the row next to each *)
(* cursor it used: the message too many of a full page (messages.go:115-   *)
(* 118, 354-356).  A search that ends with its first page and has found    *)
(* something has found all (search_actions.go:1461-1485).                  *)
ForwardMisses ==
  scroll.direction = "after" /\ scroll.phase = "done" =>
    /\ scroll.kind = "list" => Missing \subseteq {c + 1 : c \in cursors}
    /\ scroll.kind = "search" /\ Cardinality(cursors) = 1 /\ given # {} => Missing = {}
=============================================================================

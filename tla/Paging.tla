------------------------------- MODULE Paging -------------------------------
(***************************************************************************)
(* A client that pages through its chats, or through the messages of one   *)
(* of them.  The two share no state: a request is of one kind, and what it *)
(* reads does not depend on the other.  So a client pages through one or   *)
(* the other, and the other list is empty.  Nor does a client that archives*)
(* read what pages say: so it does that as often as MaxActs lets it while  *)
(* nobody pages, and less often while somebody does.                       *)
(***************************************************************************)
EXTENDS ChatList, MessagePages

CONSTANT
  MaxWalkActs            (* bound on the acts while a client pages         *)

VARIABLE subject         (* what the client pages through                  *)

pagingVars == <<chatListVars, pageVars, subject>>

PagingInit ==
  /\ ListInit /\ PagesInit
  /\ \/ subject = "chats" /\ top = 0
     \/ subject \in {"messages", "archive"} /\ \A r \in Rooms : sortingTS[r] = 0
  /\ subject = "archive" => top = 0

PagingNext ==
  \/ subject = "chats" /\ ListNext /\ acts' <= MaxWalkActs /\ UNCHANGED <<pageVars, subject>>
  \/ subject = "archive" /\ Act /\ UNCHANGED <<pageVars, subject>>
  \/ subject = "messages" /\ PagesNext /\ UNCHANGED <<chatListVars, subject>>

PagingSpec == PagingInit /\ [][PagingNext]_pagingVars
=============================================================================

----------------------------- MODULE ManagePage -----------------------------
(***************************************************************************)
(* The manage page of internal/server/manage.go: its script in a browser,  *)
(* the handlers it calls, and behind them gomuks and the API of Beeper.    *)
(*                                                                         *)
(* Each click runs an action, which waits at every call, and goes on with  *)
(* what the page has then: clicks overlap, and share the request ID of the *)
(* last Beeper login and the fields of the page.  All the while the page   *)
(* polls the state of the client, and answers may overtake each other.     *)
(*                                                                         *)
(* A Beeper login is named by the click that began it, and its token by    *)
(* the domain that issued it, which also names its homeserver.  Left out:  *)
(* the status line, which overlapping actions overwrite, and the other     *)
(* fields, which one action reads at its click.                            *)
(***************************************************************************)
EXTENDS Sequences, FiniteSets, Naturals

CONSTANTS
  MaxAtOnce,             (* bound on the actions under way                 *)
  Plans,                 (* bound: the orders in which actions are clicked *)
  Polls,                 (* bound: refreshes of the interval at once       *)
  Domains,               (* of Beeper                                      *)
  Default,               (* the first of them                              *)
  Elsewhere,             (* other homeservers                              *)
  None, Failed

Actions == {"refresh", "mint", "request", "submit", "login", "verify", "look"}
Over == {"done", "failed"}
CallNames == {"state", "mint", "start", "code", "submit", "login", "verify", "look"} \union Over
AnswerNames == {"minted", "begun", "sent", "loggedIn"}
Sessions == {"out", "in", "verified"}

ASSUME ManageAssumption ==
  /\ MaxAtOnce \in Nat
  /\ \A plan \in Plans : plan \in Seq(Actions)
  /\ Default \in Domains /\ Domains \intersect Elsewhere = {}
  /\ {None, Failed} \intersect (Domains \union Elsewhere \union Sessions) = {}
  /\ None # Failed /\ None \notin Nat
  /\ None \notin Actions \union CallNames \union AnswerNames

VARIABLES
  session,               (* of the client, as its state tells              *)
  logins,                (* Beeper logins: their domain, is a code sent?   *)
  page,                  (* what the page has and shows                    *)
  click,                 (* each click: action, call it waits for, ...     *)
  poll                   (* each poll: an answer on its way, or None       *)

vars == <<session, logins, page, click, poll>>

Clicks == UNION {DOMAIN plan : plan \in Plans}
Homeservers == Domains \union Elsewhere
NoLogin == [domain |-> None, sent |-> FALSE]
NotClicked == [action |-> None, call |-> None, domain |-> None, login |-> None,
               token |-> None, hs |-> None, answer |-> None, retyped |-> FALSE]

(* The first refresh is under way; the interval begins when it has ended.  *)
Init ==
  /\ session = "out"
  /\ logins = [c \in Clicks |-> NoLogin]
  /\ page = [domain |-> Default, requestID |-> None, sent |-> None,
             token |-> None, hs |-> Default, retyped |-> FALSE,
             shown |-> None, interval |-> "first"]
  /\ click = [c \in Clicks |-> NotClicked]
  /\ poll = [p \in Polls |-> None]
-----------------------------------------------------------------------------
(* What the user does.                                                     *)

(* The button starts enabled; a refresh that shows no login disables it.   *)
TokenEnabled == page.shown # "out"

UnderWay == {c \in Clicks : click[c].call \notin Over \union {None}}

Runs(c, action) ==
  /\ click[c].action = None
  /\ \E plan \in Plans :
       /\ c <= Len(plan) /\ plan[c] = action.action
       /\ \A b \in 1..c-1 : plan[b] = click[b].action
  /\ Cardinality(UnderWay) < MaxAtOnce
  /\ click' = [click EXCEPT ![c] = action]
  /\ UNCHANGED <<session, logins, page, poll>>

Click(c) ==
  LET Begins(action, call) == [NotClicked EXCEPT !.action = action, !.call = call]
  IN \/ Runs(c, Begins("refresh", "state"))
     \/ TokenEnabled /\ Runs(c, Begins("mint", "mint"))
     \/ Runs(c, [Begins("request", "start") EXCEPT !.domain = page.domain])
     \/ /\ page.requestID # None
        /\ Runs(c, [Begins("submit", "submit") EXCEPT !.domain = page.domain,
                                                      !.login = page.requestID])
     \/ \E hs \in Homeservers : Runs(c, [Begins("login", "login") EXCEPT !.hs = hs])
     \/ /\ page.token # None
        /\ Runs(c, [Begins("login", "login") EXCEPT !.token = page.token, !.hs = page.hs,
                                                    !.retyped = page.retyped])
     \/ Runs(c, Begins("verify", "verify"))
     \/ Runs(c, Begins("look", "look"))

Select ==
  /\ \E d \in Domains \ {page.domain} : page' = [page EXCEPT !.domain = d]
  /\ UNCHANGED <<session, logins, click, poll>>

LoginElsewhere ==
  /\ session = "out" /\ session' = "in"
  /\ UNCHANGED <<logins, page, click, poll>>
-----------------------------------------------------------------------------
(* The handlers.  The answer of any call may be an error, or be lost: then *)
(* run() catches what api() throws, and that is the end of the action.     *)

EndsAs(c, call) ==
  click' = [click EXCEPT ![c] = [NotClicked EXCEPT !.action = click[c].action, !.call = call]]
Fails(c) == EndsAs(c, "failed")

Asks(c, call) == click[c].call = call /\ click[c].answer = None
Answers(c, answer) ==
  /\ \/ click' = [click EXCEPT ![c].answer = answer]
     \/ Fails(c)
  /\ UNCHANGED <<page, poll>>

Refuse(c) ==
  /\ c \in UnderWay /\ click[c].answer = None
  /\ Fails(c)
  /\ UNCHANGED <<session, logins, page, poll>>

ManageState(c) ==
  /\ Asks(c, "state") /\ Answers(c, session)
  /\ UNCHANGED <<session, logins>>

(* requireLoggedInSession *)
ManageIssueAccessToken(c) ==
  /\ Asks(c, "mint") /\ session # "out" /\ Answers(c, "minted")
  /\ UNCHANGED <<session, logins>>

ManageBeeperStartLogin(c) ==
  /\ Asks(c, "start") /\ Answers(c, "begun")
  /\ logins' = [logins EXCEPT ![c].domain = click[c].domain]
  /\ UNCHANGED session

(* Beeper knows its logins by domain.                                      *)
Known(c) == logins[click[c].login].domain = click[c].domain

ManageBeeperRequestCode(c) ==
  /\ Asks(c, "code") /\ Known(c) /\ Answers(c, "sent")
  /\ logins' = [logins EXCEPT ![click[c].login].sent = TRUE]
  /\ UNCHANGED session

(* The user types the code that was sent, or is refused.                   *)
ManageBeeperSubmitCode(c) ==
  /\ Asks(c, "submit") /\ Known(c) /\ logins[click[c].login].sent
  /\ Answers(c, click[c].domain)
  /\ UNCHANGED <<session, logins>>

(* Mutant of LogsIn: gomuks does not log in, and its error is passed over. *)
LogsInAnyway(c) == UNCHANGED session

(* gomuks logs in, with a token if it is for that homeserver, or says that *)
(* it is logged in already, which is no error.                             *)
LogsIn(c) ==
  IF session = "out"
  THEN click[c].token \in {None, click[c].hs} /\ session' = "in"
  ELSE UNCHANGED session

(* manageLoginPassword, manageLoginToken and manageLoginCustom.            *)
ManageLogin(c) ==
  /\ Asks(c, "login") /\ LogsIn(c) /\ Answers(c, "loggedIn")
  /\ UNCHANGED logins

ManageVerify(c) ==
  /\ Asks(c, "verify") /\ session # "out"
  /\ session' = "verified"
  /\ Answers(c, "verified")
  /\ UNCHANGED logins

(* manageDiscoverHomeserver and manageLoginFlows.                          *)
ManageLook(c) ==
  /\ Asks(c, "look") /\ \E hs \in Homeservers : Answers(c, hs)
  /\ UNCHANGED <<session, logins>>

Handle(c) ==
  \/ ManageState(c) \/ ManageIssueAccessToken(c) \/ ManageLogin(c) \/ ManageVerify(c)
  \/ ManageBeeperStartLogin(c) \/ ManageBeeperRequestCode(c) \/ ManageBeeperSubmitCode(c)
  \/ ManageLook(c) \/ Refuse(c)
-----------------------------------------------------------------------------
(* The script goes on with an answer.                                      *)

Answered(c, call) ==
  /\ click[c].call = call /\ click[c].answer # None
  /\ UNCHANGED <<session, logins, poll>>

Calls(c, call) == click' = [click EXCEPT ![c].call = call, ![c].answer = None]
Ends(c) == EndsAs(c, "done")

RefreshState(c) ==
  /\ Answered(c, "state")
  /\ page' = [page EXCEPT !.shown = click[c].answer]
  /\ Ends(c)

ShowToken(c) == Answered(c, "mint") /\ Ends(c) /\ UNCHANGED page

(* Mutant of RequestCode: it says so before the code is sent.              *)
RequestCodeEarly(c) ==
  /\ Answered(c, "start")
  /\ page' = [page EXCEPT !.requestID = c, !.sent = c]
  /\ click' = [click EXCEPT ![c] =
       [@ EXCEPT !.call = "code", !.login = c, !.answer = None]]

RequestCode(c) ==
  /\ Answered(c, "start")
  /\ page' = [page EXCEPT !.requestID = c]
  /\ click' = [click EXCEPT ![c] =
       [@ EXCEPT !.call = "code", !.login = c, !.answer = None]]

ShowSent(c) ==
  /\ Answered(c, "code")
  /\ page' = [page EXCEPT !.sent = page.requestID]
  /\ Ends(c)

(* Mutant of MatrixOf: the domain that is selected now.                    *)
MatrixOfSelected(c) == page.domain
MatrixOf(c) == click[c].domain

LogInWithToken(c) ==
  /\ Answered(c, "submit")
  /\ click' = [click EXCEPT ![c] =
       [@ EXCEPT !.call = "login", !.token = click[c].answer, !.hs = MatrixOf(c),
                 !.answer = None]]
  /\ UNCHANGED page

(* A login with a Beeper code takes the place of what was said of codes,   *)
(* and leaves its token and homeserver in the fields of the other logins.  *)
ShowLogin(c) ==
  /\ Answered(c, "login")
  /\ page' = IF click[c].action = "submit"
             THEN [page EXCEPT !.sent = None, !.token = click[c].token, !.hs = MatrixOf(c),
                               !.retyped = FALSE]
             ELSE page
  /\ Calls(c, "state")

ShowVerified(c) == Answered(c, "verify") /\ Calls(c, "state") /\ UNCHANGED page

(* The fields of all logins; the user may also type in them.               *)
SyncHomeserverInputs(c) ==
  /\ Answered(c, "look")
  /\ page' = [page EXCEPT !.hs = click[c].answer, !.retyped = TRUE]
  /\ Ends(c)

Continue(c) ==
  \/ RefreshState(c) \/ ShowToken(c) \/ RequestCode(c) \/ ShowSent(c)
  \/ LogInWithToken(c) \/ ShowLogin(c) \/ ShowVerified(c) \/ SyncHomeserverInputs(c)
-----------------------------------------------------------------------------
(* Polling: a first refresh, and when it has ended one at every interval.  *)

ManageStatePolled(p) ==
  /\ poll[p] = None /\ page.interval # "off"
  /\ \E answer \in {session, Failed} : poll' = [poll EXCEPT ![p] = answer]
  /\ page' = [page EXCEPT !.interval = IF @ = "first" THEN "off" ELSE @]
  /\ UNCHANGED <<session, logins, click>>

(* Mutant of Polled: there is no interval if the first refresh fails.      *)
PolledOnce(answer) ==
  IF answer = Failed THEN page ELSE [page EXCEPT !.shown = answer, !.interval = "on"]

Polled(answer) ==
  [page EXCEPT !.shown = IF answer = Failed THEN @ ELSE answer, !.interval = "on"]

PollReturns(p) ==
  /\ poll[p] # None
  /\ page' = Polled(poll[p])
  /\ poll' = [poll EXCEPT ![p] = None]
  /\ UNCHANGED <<session, logins, click>>
-----------------------------------------------------------------------------
Next ==
  \/ Select \/ LoginElsewhere
  \/ \E c \in Clicks : Click(c) \/ Handle(c) \/ Continue(c)
  \/ \E p \in Polls : ManageStatePolled(p) \/ PollReturns(p)

Spec == Init /\ [][Next]_vars

(* The browser goes on with answers and with the interval, and the server  *)
(* does not answer polls with an error for ever.  Nothing is assumed of    *)
(* the user, or of Beeper.                                                 *)
Fairness ==
  /\ \A c \in Clicks : WF_vars(Continue(c))
  /\ \A p \in Polls :
       /\ WF_vars(ManageStatePolled(p)) /\ WF_vars(PollReturns(p))
       /\ SF_vars(ManageStatePolled(p) /\ poll'[p] = session)

FairSpec == Spec /\ Fairness
-----------------------------------------------------------------------------
(* Properties.                                                             *)

ClickRecords ==
  [action : Actions \union {None}, call : CallNames \union {None}, domain : Domains \union {None},
   login : Clicks \union {None}, token : Domains \union {None}, hs : Homeservers \union {None},
   answer : AnswerNames \union Sessions \union Homeservers \union {None}, retyped : BOOLEAN]
PageRecords ==
  [domain : Domains, requestID : Clicks \union {None}, sent : Clicks \union {None},
   token : Domains \union {None}, hs : Homeservers, retyped : BOOLEAN,
   shown : Sessions \union {None}, interval : {"first", "off", "on"}]

TypeOK ==
  /\ session \in Sessions
  /\ logins \in [Clicks -> [domain : Domains \union {None}, sent : BOOLEAN]]
  /\ page \in PageRecords
  /\ click \in [Clicks -> ClickRecords]
  /\ poll \in [Polls -> Sessions \union {None, Failed}]

(* When the page says that a code was sent, one was sent for the login it  *)
(* names.  Only when another click on "Request Code" came between may it   *)
(* name the login of that click, whose code is still to be sent, or could  *)
(* not be (manage.go:859-878).                                             *)
SentIsSent ==
  page.sent # None =>
    \/ logins[page.sent].sent
    \/ /\ click[page.sent].call \in {"code", "failed"}
       /\ \E c \in Clicks \ {page.sent} : click[c].action = "request" /\ click[c].call = "done"

(* A token of Beeper goes to the homeserver of the domain that issued it,  *)
(* by the click that got it and by later ones, whatever was selected and   *)
(* logged in meanwhile; unless the homeserver was looked up or typed since *)
(* (manage.go:880-920, 936-952).                                           *)
TokenToItsDomain ==
  \A c \in Clicks :
    click[c].token # None => click[c].hs = click[c].token \/ click[c].retyped

(* An action that logs in and meets no error leaves a client logged in,    *)
(* also when that was said of an earlier login; and the page shows nothing *)
(* of the client that never was (manage.go:121-136, 173-188, 204-219,      *)
(* 819-836).                                                               *)
LoginsAreTrue ==
  /\ \A c \in Clicks :
       click[c].action \in {"submit", "login"} /\ click[c].call \in {"state", "done"} =>
         session # "out"
  /\ page.shown = "verified" => session = "verified"
  /\ page.shown = "in" => session # "out"

(* The page comes to show the state the client is in, though polls fail    *)
(* and an older answer may come after a newer one (manage.go:1024-1034).   *)
PageCatchesUp == <>[](page.shown = session)
=============================================================================

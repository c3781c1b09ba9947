-------------------------- MODULE ManagePageProofs --------------------------
(***************************************************************************)
(* Proofs about ManagePage, for any clicks in any orders, any number of    *)
(* them at once, and any number of polls.                                  *)
(*                                                                         *)
(* Each property needs to know of every click what the call it waits for,  *)
(* and an answer that is on its way, tell of the rest (ClickFine), and of  *)
(* the page what the login it has, and the fields it has, do (PageFine).   *)
(***************************************************************************)
EXTENDS ManagePage, TLAPS

(* The client was in that state.                                           *)
WasTrue(state) ==
  /\ state = "verified" => session = "verified"
  /\ state = "in" => session # "out"

LogsInto(c) == click[c].action \in {"submit", "login"}

ClickFine(c) ==
  /\ click[c].call = None <=> click[c].action = None
  /\ click[c].action = None => click[c].token = None
  /\ click[c].call \in {"start", "code"} => click[c].action = "request" /\ click[c].token = None
  /\ click[c].call = "submit" =>
       click[c].action = "submit" /\ click[c].token = None /\ click[c].domain # None
  /\ click[c].call \in {"mint", "verify", "look"} => ~LogsInto(c) /\ click[c].action # "request"
  /\ click[c].call = "code" => click[c].login = c /\ (click[c].answer # None => logins[c].sent)
  /\ click[c].call = "submit" /\ click[c].answer # None => click[c].answer = click[c].domain
  /\ click[c].call = "look" /\ click[c].answer # None => click[c].answer \in Homeservers
  /\ click[c].call = "state" /\ click[c].answer # None =>
       click[c].answer \in Sessions /\ WasTrue(click[c].answer)
  /\ click[c].call = "login" /\ click[c].answer # None => session # "out"
  /\ click[c].action = "submit" /\ click[c].call = "login" =>
       click[c].token # None /\ click[c].token = click[c].domain
  /\ LogsInto(c) /\ click[c].call \in {"state", "done"} => session # "out"
  /\ click[c].token # None => click[c].hs = click[c].token \/ click[c].retyped

(* The login of the page is of a click whose code was sent, is still to be *)
(* sent, or could not be.                                                  *)
PageFine ==
  /\ page.requestID # None =>
       logins[page.requestID].sent \/ click[page.requestID].call \in {"code", "failed"}
  /\ page.token # None => page.hs = page.token \/ page.retyped
  /\ WasTrue(page.shown)
  /\ SentIsSent

PollsFine == \A p \in Polls : WasTrue(poll[p])

IInv == TypeOK /\ (\A c \in Clicks : ClickFine(c)) /\ PageFine /\ PollsFine

USE ManageAssumption
-----------------------------------------------------------------------------
LEMMA NoneOfNames ==
  /\ None \notin Clicks /\ None \notin Homeservers /\ None \notin Domains
  /\ None \notin Actions /\ None \notin CallNames /\ None \notin AnswerNames /\ None \notin Sessions
<1>1. \A plan \in Plans : DOMAIN plan \subseteq Nat
  OBVIOUS
<1>2. Clicks \subseteq Nat
  BY <1>1 DEF Clicks
<1> QED
  BY <1>2 DEF Homeservers

LEMMA InitInv == Init => IInv
<1> SUFFICES ASSUME Init PROVE IInv
  OBVIOUS
<1>1. /\ session = "out" /\ poll = [p \in Polls |-> None]
      /\ click = [c \in Clicks |-> NotClicked] /\ logins = [c \in Clicks |-> NoLogin]
      /\ page.requestID = None /\ page.token = None /\ page.shown = None /\ page.sent = None
  BY DEF Init
<1>2. page \in PageRecords
  BY DEF Init, PageRecords, Homeservers
<1>3. NotClicked \in ClickRecords /\ NoLogin \in [domain : Domains \union {None}, sent : BOOLEAN]
  BY DEF NotClicked, ClickRecords, NoLogin
<1>4. TypeOK
  BY <1>1, <1>2, <1>3 DEF TypeOK, Sessions
<1>5. ASSUME NEW c \in Clicks PROVE ClickFine(c)
  <2>1. /\ click[c].action = None /\ click[c].call = None /\ click[c].token = None
    BY <1>1 DEF NotClicked
  <2> QED
    BY <2>1, NoneOfNames DEF ClickFine, LogsInto, CallNames, Actions, Over
<1>6. PageFine /\ PollsFine
  BY <1>1, NoneOfNames DEF PageFine, PollsFine, WasTrue, SentIsSent, Sessions
<1> QED
  BY <1>4, <1>5, <1>6 DEF IInv
-----------------------------------------------------------------------------
(* What every step keeps: a client stays logged in, a code stays sent.     *)
Grows ==
  /\ session # "out" => session' # "out"
  /\ session = "verified" => session' = "verified"
  /\ \A c \in Clicks : logins[c].sent => logins'[c].sent

LEMMA WasTrueGrows == ASSUME Grows, NEW state, WasTrue(state) PROVE WasTrue(state)'
BY DEF Grows, WasTrue

LEMMA ClickKept ==
  ASSUME Grows, NEW c \in Clicks, ClickFine(c), click'[c] = click[c]
  PROVE ClickFine(c)'
<1>1. WasTrue(click[c].answer) => WasTrue(click[c].answer)'
  BY WasTrueGrows
<1> QED
  BY <1>1 DEF ClickFine, LogsInto, Grows, WasTrue

LEMMA PollsKept == ASSUME Grows, PollsFine, poll' = poll PROVE PollsFine'
BY DEF Grows, PollsFine, WasTrue

(* A click at work on a code goes on, fails, or has sent it.               *)
Keeps(c) ==
  /\ click[c].call \in {"code", "failed"} =>
       click'[c].call \in {"code", "failed"} \/ logins'[c].sent
  /\ click[c].action = "request" /\ click[c].call = "done" =>
       click'[c].action = "request" /\ click'[c].call = "done"

SameFields ==
  /\ page'.requestID = page.requestID /\ page'.sent = page.sent
  /\ page'.token = page.token /\ page'.hs = page.hs /\ page'.retyped = page.retyped

LEMMA SentKept ==
  ASSUME TypeOK, SentIsSent, Grows, \A c \in Clicks : Keeps(c), page'.sent = page.sent
  PROVE SentIsSent'
<1> SUFFICES ASSUME page.sent # None
             PROVE \/ logins'[page.sent].sent
                   \/ /\ click'[page.sent].call \in {"code", "failed"}
                      /\ \E c \in Clicks \ {page.sent} :
                           click'[c].action = "request" /\ click'[c].call = "done"
  BY DEF SentIsSent
<1>1. page.sent \in Clicks
  BY DEF TypeOK, PageRecords
<1>2. CASE logins[page.sent].sent
  BY <1>1, <1>2 DEF Grows
<1>3. CASE ~logins[page.sent].sent
  <2>1. click[page.sent].call \in {"code", "failed"}
    BY <1>3 DEF SentIsSent
  <2>2. PICK c \in Clicks \ {page.sent} : click[c].action = "request" /\ click[c].call = "done"
    BY <1>3 DEF SentIsSent
  <2>3. click'[c].action = "request" /\ click'[c].call = "done"
    BY <2>2 DEF Keeps
  <2>4. click'[page.sent].call \in {"code", "failed"} \/ logins'[page.sent].sent
    BY <1>1, <2>1 DEF Keeps
  <2> QED
    BY <2>2, <2>3, <2>4
<1> QED
  BY <1>2, <1>3

LEMMA PageKept ==
  ASSUME TypeOK, PageFine, Grows, \A c \in Clicks : Keeps(c), SameFields, WasTrue(page.shown)' 
  PROVE PageFine'
<1>1. SentIsSent'
  BY SentKept DEF PageFine, SameFields
<1>2. page'.requestID # None =>
        logins'[page.requestID].sent \/ click'[page.requestID].call \in {"code", "failed"}
  <2> SUFFICES ASSUME page.requestID # None
               PROVE logins'[page.requestID].sent \/ click'[page.requestID].call \in {"code", "failed"}
    BY DEF SameFields
  <2>1. page.requestID \in Clicks
    BY DEF TypeOK, PageRecords
  <2> QED
    BY <2>1 DEF PageFine, Keeps, Grows
<1> QED
  BY <1>1, <1>2 DEF PageFine, SameFields
-----------------------------------------------------------------------------
(* A step of one click changes nothing of the others.                      *)
LEMMA OneClick ==
  ASSUME IInv, Grows, TypeOK', NEW c \in Clicks, ClickFine(c)', PageFine', PollsFine',
         \A b \in Clicks \ {c} : click'[b] = click[b]
  PROVE IInv'
<1>1. ASSUME NEW b \in Clicks \ {c} PROVE ClickFine(b)'
  BY ClickKept DEF IInv
<1> QED
  BY <1>1 DEF IInv

LEMMA KeepsOthers ==
  ASSUME NEW c \in Clicks, Keeps(c), \A b \in Clicks \ {c} : click'[b] = click[b]
  PROVE \A b \in Clicks : Keeps(b)
BY DEF Keeps

Begins(action) ==
  /\ action \in ClickRecords /\ action.answer = None
  /\ action.action # None /\ action.call \notin {None, "code", "done", "failed"}
  /\ action.call = "start" => action.action = "request" /\ action.token = None
  /\ action.call = "submit" =>
       action.action = "submit" /\ action.token = None /\ action.domain # None
  /\ action.call \in {"mint", "verify", "look"} =>
       action.action \notin {"submit", "login", "request"}
  /\ action.action = "submit" => action.call = "submit"
  /\ action.action \in {"submit", "login"} => action.call # "state"
  /\ action.token # None => action.hs = action.token \/ action.retyped

LEMMA RunsStep ==
  ASSUME IInv, NEW c \in Clicks, NEW action, Runs(c, action), Begins(action)
  PROVE IInv'
<1>1. /\ click[c].action = None /\ click' = [click EXCEPT ![c] = action]
      /\ UNCHANGED <<session, logins, page, poll>>
  BY DEF Runs
<1>2. click \in [Clicks -> ClickRecords]
  BY DEF IInv, TypeOK
<1>3. click'[c] = action /\ \A b \in Clicks \ {c} : click'[b] = click[b]
  BY <1>1, <1>2
<1>4. TypeOK' /\ Grows
  BY <1>1, <1>2 DEF IInv, TypeOK, Begins, Grows
<1>5. ClickFine(c)'
  BY <1>3 DEF ClickFine, LogsInto, Begins
<1>6. Keeps(c)
  BY <1>1, NoneOfNames DEF IInv, ClickFine, Keeps, CallNames, Actions, Over
<1>7. PageFine'
  BY <1>1, <1>3, <1>4, <1>6, KeepsOthers, PageKept DEF IInv, SameFields, WasTrue, PageFine
<1> QED
  BY <1>1, <1>3, <1>4, <1>5, <1>7, OneClick, PollsKept DEF IInv

LEMMA ClickStep ==
  ASSUME IInv, NEW c \in Clicks, Click(c) PROVE IInv'
<1> DEFINE B(action, call) == [NotClicked EXCEPT !.action = action, !.call = call]
<1>1. /\ page \in PageRecords /\ page.domain \in Domains
      /\ page.requestID \in Clicks \union {None} /\ page.token \in Domains \union {None}
      /\ page.hs \in Homeservers /\ page.retyped \in BOOLEAN
  BY DEF IInv, TypeOK, PageRecords
<1>2. page.token # None => page.hs = page.token \/ page.retyped
  BY DEF IInv, PageFine
<1>3. Begins(B("refresh", "state")) /\ Begins(B("mint", "mint"))
      /\ Begins(B("verify", "verify")) /\ Begins(B("look", "look"))
  BY NoneOfNames DEF Begins, NotClicked, ClickRecords, Actions, CallNames, Over
<1>4. Begins([B("request", "start") EXCEPT !.domain = page.domain])
  BY <1>1, NoneOfNames DEF Begins, NotClicked, ClickRecords, Actions, CallNames, Over
<1>5. Begins([B("submit", "submit") EXCEPT !.domain = page.domain, !.login = page.requestID])
  BY <1>1, NoneOfNames DEF Begins, NotClicked, ClickRecords, Actions, CallNames, Over
<1>6. \A hs \in Homeservers : Begins([B("login", "login") EXCEPT !.hs = hs])
  BY NoneOfNames DEF Begins, NotClicked, ClickRecords, Actions, CallNames, Over
<1>7. Begins([B("login", "login") EXCEPT !.token = page.token, !.hs = page.hs,
                                         !.retyped = page.retyped])
  BY <1>1, <1>2, NoneOfNames DEF Begins, NotClicked, ClickRecords, Actions, CallNames, Over
<1> QED
  BY <1>3, <1>4, <1>5, <1>6, <1>7, RunsStep DEF Click
-----------------------------------------------------------------------------
(* The user and other clients.                                             *)
LEMMA SelectStep ==
  ASSUME IInv, Select \/ LoginElsewhere PROVE IInv'
<1>1. /\ UNCHANGED <<logins, click, poll>> /\ session' \in Sessions /\ Grows
      /\ page' \in PageRecords /\ SameFields /\ page'.shown = page.shown
  BY DEF IInv, TypeOK, Select, LoginElsewhere, Grows, PageRecords, SameFields, Sessions
<1>2. TypeOK'
  BY <1>1 DEF IInv, TypeOK
<1>3. \A c \in Clicks : ClickFine(c)' /\ Keeps(c)
  BY <1>1, ClickKept DEF IInv, Keeps
<1>4. WasTrue(page.shown)'
  BY <1>1 DEF IInv, PageFine, WasTrue, Grows
<1> QED
  BY <1>1, <1>2, <1>3, <1>4, PageKept, PollsKept DEF IInv
-----------------------------------------------------------------------------
(* The handlers: a call that is under way fails, or is answered.           *)
OnItsWay(c) == click[c].call \notin Over \union {None}

ServerStep ==
  /\ Grows /\ session' \in Sessions /\ logins' \in [Clicks -> [domain : Domains \union {None}, sent : BOOLEAN]]
  /\ page' = page /\ poll' = poll

LEMMA ServerKeeps ==
  ASSUME IInv, ServerStep, NEW c \in Clicks, ClickFine(c)', Keeps(c), click' \in [Clicks -> ClickRecords],
         \A b \in Clicks \ {c} : click'[b] = click[b]
  PROVE IInv'
<1>1. TypeOK'
  BY DEF IInv, ServerStep, TypeOK
<1>2. PageFine'
  BY KeepsOthers, PageKept DEF IInv, SameFields, ServerStep, PageFine, Grows, WasTrue
<1> QED
  BY <1>1, <1>2, OneClick, PollsKept DEF IInv, ServerStep

LEMMA EndFacts ==
  ASSUME TypeOK, NEW c \in Clicks, NEW call \in Over, EndsAs(c, call)
  PROVE /\ click'[c].action = click[c].action /\ click'[c].call = call /\ click'[c].token = None
        /\ \A b \in Clicks \ {c} : click'[b] = click[b]
        /\ click' \in [Clicks -> ClickRecords]
<1> DEFINE end == [NotClicked EXCEPT !.action = click[c].action, !.call = call]
<1>1. click \in [Clicks -> ClickRecords] /\ click' = [click EXCEPT ![c] = end]
  BY DEF TypeOK, EndsAs
<1>2. click[c].action \in Actions \union {None}
  BY <1>1 DEF ClickRecords
<1>3. end \in ClickRecords /\ end.action = click[c].action /\ end.call = call /\ end.token = None
  BY <1>2 DEF ClickRecords, NotClicked, CallNames
<1> HIDE DEF end
<1> QED
  BY <1>1, <1>3

LEMMA FailStep ==
  ASSUME IInv, NEW c \in Clicks, OnItsWay(c), Fails(c), ServerStep
  PROVE IInv'
<1>1. /\ click'[c].action = click[c].action /\ click'[c].call = "failed" /\ click'[c].token = None
      /\ \A b \in Clicks \ {c} : click'[b] = click[b]
      /\ click' \in [Clicks -> ClickRecords]
  BY EndFacts DEF IInv, Fails, Over
<1>2. click[c].action # None
  BY DEF IInv, ClickFine, OnItsWay
<1>3. ClickFine(c)'
  BY <1>1, <1>2, NoneOfNames DEF ClickFine, LogsInto, CallNames, Over
<1>4. Keeps(c)
  BY <1>1 DEF Keeps, OnItsWay, Over
<1> QED
  BY <1>1, <1>3, <1>4, ServerKeeps

LEMMA AnswerStep ==
  ASSUME IInv, NEW c \in Clicks, OnItsWay(c), ServerStep,
         NEW answer \in AnswerNames \union Sessions \union Homeservers, Answers(c, answer),
         click[c].call = "code" => logins'[c].sent,
         click[c].call = "submit" => answer = click[c].domain,
         click[c].call = "look" => answer \in Homeservers,
         click[c].call = "state" => answer \in Sessions /\ WasTrue(answer)',
         click[c].call = "login" => session' # "out"
  PROVE IInv'
<1>1. CASE Fails(c)
  BY <1>1, FailStep
<1>2. CASE click' = [click EXCEPT ![c].answer = answer]
  <2>1. click \in [Clicks -> ClickRecords] /\ click[c] \in ClickRecords
    BY DEF IInv, TypeOK
  <2>2. [click[c] EXCEPT !.answer = answer] \in ClickRecords
    BY <2>1 DEF ClickRecords
  <2>3. click' = [click EXCEPT ![c] = [click[c] EXCEPT !.answer = answer]]
    BY <1>2, <2>1
  <2>4. /\ click'[c] = [click[c] EXCEPT !.answer = answer]
        /\ \A b \in Clicks \ {c} : click'[b] = click[b]
        /\ click' \in [Clicks -> ClickRecords]
    BY <2>1, <2>2, <2>3
  <2>5. /\ click'[c].action = click[c].action /\ click'[c].call = click[c].call
        /\ click'[c].login = click[c].login /\ click'[c].domain = click[c].domain
        /\ click'[c].token = click[c].token /\ click'[c].hs = click[c].hs
        /\ click'[c].retyped = click[c].retyped /\ click'[c].answer = answer
    BY <2>1, <2>4 DEF ClickRecords
  <2>6. ClickFine(c)
    BY DEF IInv
  <2>7. LogsInto(c)' <=> LogsInto(c)
    BY <2>5 DEF LogsInto
  <2>8. ClickFine(c)'
    BY <2>5, <2>6, <2>7 DEF ClickFine, ServerStep, Grows
  <2>9. Keeps(c)
    BY <2>5 DEF Keeps
  <2> QED
    BY <2>4, <2>8, <2>9, ServerKeeps
<1> QED
  BY <1>1, <1>2 DEF Answers
-----------------------------------------------------------------------------
LEMMA HandleStep ==
  ASSUME IInv, NEW c \in Clicks, Handle(c) PROVE IInv'
<1>1. /\ session \in Sessions /\ click[c] \in ClickRecords /\ ClickFine(c)
      /\ logins \in [Clicks -> [domain : Domains \union {None}, sent : BOOLEAN]]
  BY DEF IInv, TypeOK
<1>2. \A call : Asks(c, call) /\ call \notin Over \union {None} => OnItsWay(c)
  BY DEF Asks, OnItsWay
<1>3. CASE ManageState(c)
  <2>1. ServerStep
    BY <1>1, <1>3 DEF ManageState, Answers, ServerStep, Grows
  <2>2. WasTrue(session)'
    BY <1>1, <1>3 DEF ManageState, WasTrue, Sessions
  <2> QED
    BY <1>1, <1>2, <1>3, <2>1, <2>2, AnswerStep, NoneOfNames DEF ManageState, Asks, Over, CallNames, WasTrue
<1>4. CASE ManageIssueAccessToken(c)
  <2>1. ServerStep
    BY <1>1, <1>4 DEF ManageIssueAccessToken, Answers, ServerStep, Grows
  <2> QED
    BY <1>2, <1>4, <2>1, AnswerStep, NoneOfNames DEF ManageIssueAccessToken, Asks, Over, AnswerNames, CallNames
<1>5. CASE ManageLogin(c)
  <2>1. session' # "out" /\ (session # "out" => session' = session) /\ session' \in Sessions
    BY <1>1, <1>5 DEF ManageLogin, LogsIn, Sessions
  <2>2. ServerStep
    BY <1>1, <1>5, <2>1 DEF ManageLogin, Answers, ServerStep, Grows
  <2> QED
    BY <1>2, <1>5, <2>1, <2>2, AnswerStep, NoneOfNames DEF ManageLogin, Asks, Over, AnswerNames, CallNames
<1>6. CASE ManageVerify(c)
  <2>1. ServerStep
    BY <1>1, <1>6 DEF ManageVerify, Answers, ServerStep, Grows, Sessions
  <2> QED
    BY <1>2, <1>6, <2>1, AnswerStep, NoneOfNames DEF ManageVerify, Asks, Over, Sessions, CallNames
<1>7. CASE ManageBeeperStartLogin(c)
  <2>1. click[c].domain \in Domains \union {None}
    BY <1>1 DEF ClickRecords
  <2>2. ServerStep
    BY <1>1, <1>7, <2>1 DEF ManageBeeperStartLogin, Answers, ServerStep, Grows
  <2> QED
    BY <1>2, <1>7, <2>2, AnswerStep, NoneOfNames DEF ManageBeeperStartLogin, Asks, Over, AnswerNames, CallNames
<1>8. CASE ManageBeeperRequestCode(c)
  <2>1. click[c].login = c
    BY <1>1, <1>8 DEF ManageBeeperRequestCode, Asks, ClickFine
  <2>2. ServerStep /\ logins'[c].sent
    BY <1>1, <1>8, <2>1 DEF ManageBeeperRequestCode, Answers, ServerStep, Grows
  <2> QED
    BY <1>2, <1>8, <2>2, AnswerStep, NoneOfNames DEF ManageBeeperRequestCode, Asks, Over, AnswerNames, CallNames
<1>9. CASE ManageBeeperSubmitCode(c)
  <2>1. click[c].login \in Clicks \union {None} /\ click[c].domain \in Domains \union {None}
    BY <1>1 DEF ClickRecords
  <2>2. ServerStep
    BY <1>1, <1>9 DEF ManageBeeperSubmitCode, Answers, ServerStep, Grows
  <2>3. click[c].domain \in Homeservers
    BY <1>1, <1>9, <2>1 DEF ManageBeeperSubmitCode, Asks, ClickFine, Homeservers
  <2> QED
    BY <1>2, <1>9, <2>2, <2>3, AnswerStep, NoneOfNames DEF ManageBeeperSubmitCode, Asks, Over, CallNames
<1>10. CASE ManageLook(c)
  <2>1. ServerStep
    BY <1>1, <1>10 DEF ManageLook, Answers, ServerStep, Grows
  <2> QED
    BY <1>2, <1>10, <2>1, AnswerStep, NoneOfNames DEF ManageLook, Asks, Over, CallNames
<1>11. CASE Refuse(c)
  <2>1. ServerStep /\ OnItsWay(c)
    BY <1>1, <1>11 DEF Refuse, ServerStep, Grows, UnderWay, OnItsWay
  <2> QED
    BY <1>11, <2>1, FailStep DEF Refuse
<1> QED
  BY <1>3, <1>4, <1>5, <1>6, <1>7, <1>8, <1>9, <1>10, <1>11 DEF Handle
-----------------------------------------------------------------------------
(* The script goes on with an answer.                                      *)

LEMMA ContinueStep ==
  ASSUME IInv, NEW c \in Clicks, NEW call \in CallNames \ Over, Answered(c, call),
         NEW next, click' = [click EXCEPT ![c] = next], next \in ClickRecords,
         ClickFine(c)', Keeps(c), page' \in PageRecords, PageFine'
  PROVE IInv'
<1>1. /\ click \in [Clicks -> ClickRecords] /\ UNCHANGED <<session, logins, poll>> /\ Grows
  BY DEF IInv, TypeOK, Answered, Grows
<1>2. /\ click' \in [Clicks -> ClickRecords] /\ \A b \in Clicks \ {c} : click'[b] = click[b]
  BY <1>1
<1>3. TypeOK'
  BY <1>1, <1>2 DEF IInv, TypeOK
<1> QED
  BY <1>1, <1>2, <1>3, OneClick, PollsKept DEF IInv

(* An action that is done.                                                 *)
LEMMA DoneStep ==
  ASSUME IInv, NEW c \in Clicks, NEW call \in CallNames \ Over, Answered(c, call), Ends(c),
         page' \in PageRecords, PageFine', Keeps(c), call = "state" \/ ~LogsInto(c)
  PROVE IInv'
<1> DEFINE next == [NotClicked EXCEPT !.action = click[c].action, !.call = "done"]
<1>1. click[c] \in ClickRecords /\ ClickFine(c) /\ click[c].call = call /\ click[c].answer # None
  BY DEF IInv, TypeOK, Answered
<1>2. click[c].action \in Actions
  BY <1>1, NoneOfNames DEF ClickFine, ClickRecords
<1>3. /\ next \in ClickRecords /\ next.action = click[c].action /\ next.call = "done"
      /\ next.token = None
  BY <1>2 DEF ClickRecords, NotClicked, CallNames, Over
<1>4. click' = [click EXCEPT ![c] = next]
  BY DEF Ends, EndsAs
<1>5. /\ click'[c].action = click[c].action /\ click'[c].call = "done" /\ click'[c].token = None
      /\ session' = session
  BY <1>3, <1>4, EndFacts DEF IInv, Ends, Over, Answered
<1>6. LogsInto(c) => session # "out"
  BY <1>1 DEF ClickFine
<1>7. ClickFine(c)'
  BY <1>2, <1>5, <1>6, NoneOfNames DEF ClickFine, LogsInto, CallNames, Over
<1> HIDE DEF next
<1> QED
  BY <1>3, <1>4, <1>7, ContinueStep

(* A click that is at a new call.                                          *)
LEMMA CallsFacts ==
  ASSUME TypeOK, NEW c \in Clicks, NEW call \in CallNames, Calls(c, call)
  PROVE \E next \in ClickRecords :
          /\ click' = [click EXCEPT ![c] = next] /\ next.call = call /\ next.answer = None
          /\ next.action = click[c].action /\ next.login = click[c].login
          /\ next.domain = click[c].domain /\ next.token = click[c].token
          /\ next.hs = click[c].hs /\ next.retyped = click[c].retyped
<1> DEFINE next == [click[c] EXCEPT !.call = call, !.answer = None]
<1>1. click \in [Clicks -> ClickRecords] /\ click[c] \in ClickRecords
  BY DEF TypeOK
<1>2. /\ next \in ClickRecords /\ next.call = call /\ next.answer = None
      /\ next.action = click[c].action /\ next.login = click[c].login
      /\ next.domain = click[c].domain /\ next.token = click[c].token
      /\ next.hs = click[c].hs /\ next.retyped = click[c].retyped
  BY <1>1 DEF ClickRecords
<1>3. click' = [click EXCEPT ![c] = next]
  BY <1>1 DEF Calls
<1> HIDE DEF next
<1> QED
  BY <1>2, <1>3

LEMMA RefreshStep ==
  ASSUME IInv, NEW c \in Clicks, RefreshState(c) PROVE IInv'
<1>1. /\ click[c].call = "state" /\ click[c].answer # None /\ UNCHANGED <<session, logins>>
      /\ page' = [page EXCEPT !.shown = click[c].answer] /\ page \in PageRecords
      /\ Answered(c, "state") /\ Ends(c) /\ ClickFine(c)
  BY DEF IInv, TypeOK, RefreshState, Answered
<1>2. click[c].answer \in Sessions /\ WasTrue(click[c].answer)
  BY <1>1 DEF ClickFine
<1>3. page' \in PageRecords /\ SameFields /\ page'.shown = click[c].answer
  BY <1>1, <1>2 DEF PageRecords, SameFields
<1>4. \A b \in Clicks \ {c} : click'[b] = click[b]
  BY <1>1, EndFacts DEF IInv, Ends, Over
<1>5. Keeps(c) /\ Grows
  BY <1>1 DEF Keeps, Grows
<1>6. PageFine'
  BY <1>1, <1>2, <1>3, <1>4, <1>5, KeepsOthers, PageKept DEF IInv, WasTrue
<1> QED
  BY <1>1, <1>3, <1>5, <1>6, DoneStep DEF CallNames, Over

(* The action is done, and the page as it was.                             *)
LEMMA ShowTokenStep ==
  ASSUME IInv, NEW c \in Clicks, ShowToken(c) PROVE IInv'
<1>1. /\ click[c].call = "mint" /\ UNCHANGED <<session, logins, page>> /\ page \in PageRecords
      /\ Answered(c, "mint") /\ Ends(c) /\ ClickFine(c)
  BY DEF IInv, TypeOK, ShowToken, Answered
<1>2. ~LogsInto(c) /\ click[c].action # "request"
  BY <1>1 DEF ClickFine
<1>3. \A b \in Clicks \ {c} : click'[b] = click[b]
  BY <1>1, EndFacts DEF IInv, Ends, Over
<1>4. Keeps(c) /\ Grows
  BY <1>1 DEF Keeps, Grows
<1>5. PageFine'
  BY <1>1, <1>3, <1>4, KeepsOthers, PageKept DEF IInv, PageFine, WasTrue, SameFields
<1> QED
  BY <1>1, <1>2, <1>4, <1>5, DoneStep DEF CallNames, Over

LEMMA LookStep ==
  ASSUME IInv, NEW c \in Clicks, SyncHomeserverInputs(c) PROVE IInv'
<1>1. /\ click[c].call = "look" /\ click[c].answer # None /\ UNCHANGED <<session, logins>>
      /\ page \in PageRecords /\ page' = [page EXCEPT !.hs = click[c].answer, !.retyped = TRUE]
      /\ Answered(c, "look") /\ Ends(c) /\ ClickFine(c)
  BY DEF IInv, TypeOK, SyncHomeserverInputs, Answered
<1>2. ~LogsInto(c) /\ click[c].action # "request" /\ click[c].answer \in Homeservers
  BY <1>1 DEF ClickFine
<1>3. /\ page' \in PageRecords /\ page'.requestID = page.requestID /\ page'.sent = page.sent
      /\ page'.retyped /\ page'.shown = page.shown
  BY <1>1, <1>2 DEF PageRecords
<1>4. \A b \in Clicks \ {c} : click'[b] = click[b]
  BY <1>1, EndFacts DEF IInv, Ends, Over
<1>5. Keeps(c) /\ Grows
  BY <1>1 DEF Keeps, Grows
<1>6. SentIsSent'
  BY <1>3, <1>4, <1>5, KeepsOthers, SentKept DEF IInv, PageFine
<1>7. page.requestID # None =>
        logins'[page.requestID].sent \/ click'[page.requestID].call \in {"code", "failed"}
  <2>1. page.requestID # None => page.requestID \in Clicks
    BY <1>1 DEF PageRecords
  <2> QED
    BY <1>1, <1>4, <2>1 DEF IInv, PageFine
<1>8. PageFine'
  BY <1>1, <1>3, <1>6, <1>7 DEF IInv, PageFine, WasTrue
<1> QED
  BY <1>1, <1>2, <1>3, <1>5, <1>8, DoneStep DEF CallNames, Over
-----------------------------------------------------------------------------
(* The request for a code.                                                 *)
LEMMA RequestCodeStep ==
  ASSUME IInv, NEW c \in Clicks, RequestCode(c) PROVE IInv'
<1> DEFINE next == [click[c] EXCEPT !.call = "code", !.login = c, !.answer = None]
<1>1. /\ click[c].call = "start" /\ UNCHANGED <<session, logins>> /\ page \in PageRecords
      /\ click[c] \in ClickRecords /\ page' = [page EXCEPT !.requestID = c]
      /\ click' = [click EXCEPT ![c] = next] /\ Answered(c, "start") /\ ClickFine(c)
      /\ click \in [Clicks -> ClickRecords]
  BY DEF IInv, TypeOK, RequestCode, Answered
<1>2. /\ next \in ClickRecords /\ next.call = "code" /\ next.login = c /\ next.answer = None
      /\ next.action = click[c].action /\ next.token = click[c].token
  BY <1>1 DEF ClickRecords, CallNames
<1> HIDE DEF next
<1>3. /\ page' \in PageRecords /\ page'.requestID = c /\ page'.sent = page.sent
      /\ page'.token = page.token /\ page'.hs = page.hs /\ page'.retyped = page.retyped
      /\ page'.shown = page.shown
  BY <1>1 DEF PageRecords
<1>4. click'[c] = next /\ \A b \in Clicks \ {c} : click'[b] = click[b]
  BY <1>1
<1>5. Keeps(c) /\ Grows
  BY <1>1 DEF Keeps, Grows
<1>6. next.action = "request" /\ next.token = None
  BY <1>1, <1>2 DEF ClickFine
<1>7. ClickFine(c)'
  BY <1>2, <1>4, <1>6, NoneOfNames DEF ClickFine, LogsInto, Actions, CallNames, Over
<1>8. SentIsSent'
  BY <1>3, <1>4, <1>5, KeepsOthers, SentKept DEF IInv, PageFine
<1>9. PageFine'
  BY <1>1, <1>2, <1>3, <1>4, <1>8 DEF IInv, PageFine, WasTrue
<1> QED
  BY <1>1, <1>2, <1>3, <1>5, <1>7, <1>9, ContinueStep DEF CallNames, Over

(* The page names the login it has: the code of this click was sent, and   *)
(* if the login is of another one, this click has come between.            *)
LEMMA ShowSentStep ==
  ASSUME IInv, NEW c \in Clicks, ShowSent(c) PROVE IInv'
<1>1. /\ click[c].call = "code" /\ click[c].answer # None /\ UNCHANGED <<session, logins>>
      /\ page \in PageRecords /\ page' = [page EXCEPT !.sent = page.requestID]
      /\ Answered(c, "code") /\ Ends(c) /\ ClickFine(c)
  BY DEF IInv, TypeOK, ShowSent, Answered
<1>2. click[c].action = "request" /\ logins[c].sent /\ ~LogsInto(c)
  BY <1>1 DEF ClickFine, LogsInto
<1>3. /\ page' \in PageRecords /\ page'.requestID = page.requestID /\ page'.sent = page.requestID
      /\ page'.token = page.token /\ page'.hs = page.hs /\ page'.retyped = page.retyped
      /\ page'.shown = page.shown
  BY <1>1 DEF PageRecords
<1>4. /\ click'[c].action = "request" /\ click'[c].call = "done"
      /\ \A b \in Clicks \ {c} : click'[b] = click[b]
  BY <1>1, <1>2, EndFacts DEF IInv, Ends, Over
<1>5. Keeps(c)
  BY <1>1, <1>2 DEF Keeps
<1>6. page.requestID # None =>
        logins'[page.requestID].sent \/ click'[page.requestID].call \in {"code", "failed"}
  <2>1. page.requestID # None => page.requestID \in Clicks
    BY <1>1 DEF PageRecords
  <2> QED
    BY <1>1, <1>2, <1>4, <2>1 DEF IInv, PageFine
<1>7. SentIsSent'
  <2>1. CASE page.requestID = c
    BY <1>1, <1>2, <1>3, <2>1 DEF SentIsSent
  <2>2. CASE page.requestID # c
    BY <1>3, <1>4, <1>6, <2>2 DEF SentIsSent
  <2> QED
    BY <2>1, <2>2
<1>8. PageFine'
  BY <1>1, <1>3, <1>6, <1>7 DEF IInv, PageFine, WasTrue
<1> QED
  BY <1>1, <1>2, <1>3, <1>5, <1>8, DoneStep DEF CallNames, Over
-----------------------------------------------------------------------------
(* Logins.                                                                 *)
LEMMA LogInWithTokenStep ==
  ASSUME IInv, NEW c \in Clicks, LogInWithToken(c) PROVE IInv'
<1> DEFINE next == [click[c] EXCEPT !.call = "login", !.token = click[c].answer,
                                    !.hs = MatrixOf(c), !.answer = None]
<1>1. /\ click[c].call = "submit" /\ UNCHANGED <<session, logins, page>> /\ page \in PageRecords
      /\ click[c] \in ClickRecords /\ click \in [Clicks -> ClickRecords]
      /\ click' = [click EXCEPT ![c] = next] /\ Answered(c, "submit") /\ ClickFine(c)
      /\ click[c].answer # None
  BY DEF IInv, TypeOK, LogInWithToken, Answered
<1>2. /\ click[c].action = "submit" /\ click[c].answer = click[c].domain
      /\ click[c].domain \in Domains
  BY <1>1 DEF ClickFine, ClickRecords
<1>3. /\ next \in ClickRecords /\ next.call = "login" /\ next.token = next.domain /\ next.token # None
      /\ next.hs = next.token /\ next.answer = None /\ next.action = "submit"
  BY <1>1, <1>2 DEF ClickRecords, CallNames, MatrixOf, Homeservers
<1> HIDE DEF next
<1>4. click'[c] = next /\ \A b \in Clicks \ {c} : click'[b] = click[b]
  BY <1>1
<1>5. Keeps(c) /\ Grows
  BY <1>1 DEF Keeps, Grows
<1>6. ClickFine(c)'
  BY <1>3, <1>4, NoneOfNames DEF ClickFine, LogsInto, Actions, CallNames, Over
<1>7. PageFine'
  BY <1>1, <1>4, <1>5, KeepsOthers, PageKept DEF IInv, PageFine, WasTrue, SameFields
<1> QED
  BY <1>1, <1>3, <1>5, <1>6, <1>7, ContinueStep DEF CallNames, Over

(* A call for the state, by an action that has nothing else to do.         *)
LEMMA CallStateStep ==
  ASSUME IInv, NEW c \in Clicks, NEW call \in {"login", "verify"}, Answered(c, call),
         Calls(c, "state"), page' \in PageRecords,
         Grows /\ (\A b \in Clicks : Keeps(b)) => PageFine'
  PROVE IInv'
<1>1. click[c].call = call /\ click[c].answer # None /\ session' = session /\ logins' = logins
      /\ ClickFine(c) /\ click \in [Clicks -> ClickRecords]
  BY DEF IInv, TypeOK, Answered
<1>2. PICK next \in ClickRecords :
        /\ click' = [click EXCEPT ![c] = next] /\ next.call = "state" /\ next.answer = None
        /\ next.action = click[c].action /\ next.token = click[c].token
        /\ next.hs = click[c].hs /\ next.retyped = click[c].retyped
  BY CallsFacts DEF IInv, CallNames
<1>3. click'[c] = next /\ \A b \in Clicks \ {c} : click'[b] = click[b]
  BY <1>1, <1>2
<1>4. Keeps(c) /\ Grows
  BY <1>1 DEF Keeps, Grows
<1>5. click[c].action # None /\ (LogsInto(c) => session # "out")
  BY <1>1, NoneOfNames DEF ClickFine, CallNames
<1>6. ClickFine(c)'
  BY <1>1, <1>2, <1>3, <1>5, NoneOfNames DEF ClickFine, LogsInto, CallNames
<1>7. PageFine'
  BY <1>3, <1>4, KeepsOthers
<1> QED
  BY <1>2, <1>4, <1>6, <1>7, ContinueStep DEF CallNames, Over

LEMMA ShowLoginStep ==
  ASSUME IInv, NEW c \in Clicks, ShowLogin(c) PROVE IInv'
<1>1. /\ click[c].call = "login" /\ session' = session /\ page \in PageRecords /\ ClickFine(c)
      /\ click[c] \in ClickRecords /\ Answered(c, "login") /\ Calls(c, "state")
  BY DEF IInv, TypeOK, ShowLogin, Answered
<1>2. CASE click[c].action = "submit"
  <2>1. click[c].token = click[c].domain /\ click[c].domain \in Domains
    BY <1>1, <1>2 DEF ClickFine, ClickRecords
  <2>2. page' = [page EXCEPT !.sent = None, !.token = click[c].token, !.hs = click[c].domain,
                             !.retyped = FALSE]
    BY <1>2 DEF ShowLogin, MatrixOf
  <2>3. /\ page' \in PageRecords /\ page'.sent = None /\ page'.hs = page'.token
        /\ page'.requestID = page.requestID /\ page'.shown = page.shown
    BY <1>1, <2>1, <2>2 DEF PageRecords, Homeservers
  <2>4. ASSUME Grows, \A b \in Clicks : Keeps(b) PROVE PageFine'
    <3>1. page.requestID # None => page.requestID \in Clicks
      BY <1>1 DEF PageRecords
    <3>2. page'.requestID # None =>
            logins'[page'.requestID].sent \/ click'[page'.requestID].call \in {"code", "failed"}
      BY <2>3, <2>4, <3>1 DEF IInv, PageFine, Keeps, Grows
    <3> QED
      BY <1>1, <2>3, <3>2 DEF IInv, PageFine, WasTrue, SentIsSent
  <2> QED
    BY <1>1, <2>3, <2>4, CallStateStep
<1>3. CASE click[c].action # "submit"
  <2>1. page' = page
    BY <1>3 DEF ShowLogin
  <2>2. ASSUME Grows, \A b \in Clicks : Keeps(b) PROVE PageFine'
    BY <1>1, <2>1, <2>2, PageKept DEF IInv, PageFine, WasTrue, SameFields
  <2> QED
    BY <1>1, <2>1, <2>2, CallStateStep
<1> QED
  BY <1>2, <1>3

LEMMA ShowVerifiedStep ==
  ASSUME IInv, NEW c \in Clicks, ShowVerified(c) PROVE IInv'
<1>1. /\ session' = session /\ page' = page /\ page \in PageRecords
      /\ Answered(c, "verify") /\ Calls(c, "state")
  BY DEF IInv, TypeOK, ShowVerified, Answered
<1>2. ASSUME Grows, \A b \in Clicks : Keeps(b) PROVE PageFine'
  BY <1>1, <1>2, PageKept DEF IInv, PageFine, WasTrue, SameFields
<1> QED
  BY <1>1, <1>2, CallStateStep
-----------------------------------------------------------------------------
(* Polling.                                                                *)
LEMMA PollStep ==
  ASSUME IInv, NEW p \in Polls, ManageStatePolled(p) \/ PollReturns(p) PROVE IInv'
<1>1. /\ UNCHANGED <<session, logins, click>> /\ Grows
      /\ session \in Sessions /\ page \in PageRecords
      /\ poll \in [Polls -> Sessions \union {None, Failed}]
  BY DEF IInv, TypeOK, ManageStatePolled, PollReturns, Grows
<1>2. WasTrue(session) /\ WasTrue(Failed) /\ WasTrue(None) /\ WasTrue(page.shown)
      /\ \A q \in Polls : WasTrue(poll[q])
  BY <1>1, NoneOfNames DEF IInv, PageFine, PollsFine, WasTrue, Sessions
<1>3. ASSUME PageFine', PollsFine', page' \in PageRecords,
             poll' \in [Polls -> Sessions \union {None, Failed}]
      PROVE IInv'
  <2>1. \A c \in Clicks : ClickFine(c)'
    BY <1>1, ClickKept DEF IInv
  <2> QED
    BY <1>1, <1>3, <2>1 DEF IInv, TypeOK
<1>4. \A c \in Clicks : Keeps(c)
  BY <1>1 DEF Keeps
<1>5. CASE ManageStatePolled(p)
  <2>1. PICK answer \in {session, Failed} : poll' = [poll EXCEPT ![p] = answer]
    BY <1>5 DEF ManageStatePolled
  <2>2. page' = [page EXCEPT !.interval = IF @ = "first" THEN "off" ELSE @]
    BY <1>5 DEF ManageStatePolled
  <2>3. page' \in PageRecords /\ SameFields /\ page'.shown = page.shown
    BY <1>1, <2>2 DEF PageRecords, SameFields
  <2>4. PageFine'
    BY <1>1, <1>2, <1>4, <2>3, PageKept DEF IInv, WasTrue
  <2>5. PollsFine'
    BY <1>1, <1>2, <2>1 DEF PollsFine, WasTrue
  <2> QED
    BY <1>1, <1>3, <2>1, <2>3, <2>4, <2>5
<1>6. CASE PollReturns(p)
  <2>1. poll' = [poll EXCEPT ![p] = None] /\ page' = Polled(poll[p]) /\ poll[p] # None
    BY <1>6 DEF PollReturns
  <2>2. /\ page' \in PageRecords /\ SameFields
        /\ page'.shown = IF poll[p] = Failed THEN page.shown ELSE poll[p]
    BY <1>1, <2>1 DEF Polled, PageRecords, SameFields
  <2>3. PageFine'
    BY <1>1, <1>2, <1>4, <2>2, PageKept DEF IInv, WasTrue
  <2>4. PollsFine'
    BY <1>1, <1>2, <2>1 DEF PollsFine, WasTrue
  <2> QED
    BY <1>1, <1>3, <2>1, <2>2, <2>3, <2>4
<1> QED
  BY <1>5, <1>6
-----------------------------------------------------------------------------
LEMMA StepInv == IInv /\ [Next]_vars => IInv'
<1> SUFFICES ASSUME IInv, [Next]_vars PROVE IInv'
  OBVIOUS
<1>1. CASE UNCHANGED vars
  <2>1. Grows /\ UNCHANGED <<session, logins, page, click, poll>>
    BY <1>1 DEF Grows, vars
  <2>2. \A c \in Clicks : ClickFine(c)' /\ Keeps(c)
    BY <2>1, ClickKept DEF IInv, Keeps
  <2>3. PageFine'
    BY <2>1, <2>2, PageKept DEF IInv, PageFine, SameFields, WasTrue
  <2> QED
    BY <2>1, <2>2, <2>3, PollsKept DEF IInv, TypeOK
<1>2. ASSUME NEW c \in Clicks, Continue(c) PROVE IInv'
  BY <1>2, RefreshStep, ShowTokenStep, RequestCodeStep, ShowSentStep, LogInWithTokenStep,
     ShowLoginStep, ShowVerifiedStep, LookStep DEF Continue
<1> QED
  BY <1>1, <1>2, SelectStep, ClickStep, HandleStep, PollStep DEF Next

LEMMA SpecInv == Spec => []IInv
<1>1. Init => IInv
  BY InitInv
<1>2. IInv /\ [Next]_vars => IInv'
  BY StepInv
<1> QED
  BY <1>1, <1>2, PTL DEF Spec

(* The variables keep their types, however many clicks overlap.            *)
THEOREM TypeCorrect == Spec => []TypeOK
<1>1. IInv => TypeOK
  BY DEF IInv
<1> QED
  BY <1>1, SpecInv, PTL

(* The page says of no login that its code was sent when it was not, but   *)
(* for one whose click overlapped another (manage.go:859-878).             *)
THEOREM SentWhenShown == Spec => []SentIsSent
<1>1. IInv => SentIsSent
  BY DEF IInv, PageFine
<1> QED
  BY <1>1, SpecInv, PTL

(* No click sends a token to the homeserver of another domain of Beeper    *)
(* by itself (manage.go:880-920, 936-952).                                 *)
THEOREM TokensStayAtHome == Spec => []TokenToItsDomain
<1>1. IInv => TokenToItsDomain
  BY DEF IInv, ClickFine, TokenToItsDomain
<1> QED
  BY <1>1, SpecInv, PTL

(* A login without an error leaves a client logged in, and the page shows  *)
(* only what was so (manage.go:121-136, 173-188, 204-219, 819-836).        *)
THEOREM LoginsHold == Spec => []LoginsAreTrue
<1>1. IInv => LoginsAreTrue
  BY DEF IInv, PageFine, ClickFine, LogsInto, WasTrue, LoginsAreTrue
<1> QED
  BY <1>1, SpecInv, PTL
=============================================================================

-------------------------- MODULE EmbeddedRealtime --------------------------
(***************************************************************************)
(* Realtime events of the embedded runtime, from the hub in Go to the      *)
(* application in JavaScript: src/runtime.ts, src/realtime.ts and          *)
(* cmd/ffi/main.go, on internal/embedded/runtime.go.                       *)
(*                                                                         *)
(* One EmbeddedRuntime object keeps the native handle in use and a map     *)
(* from connection ID to RealtimeConnection.  JavaScript runs one turn at  *)
(* a time, up to its next await: what a turn does is one action, and its   *)
(* calls of message handlers, which may do anything a turn may, are        *)
(* actions of their own.  Its calls into Go are synchronous, and so are    *)
(* the callbacks Go makes during them (ready and the answers to commands). *)
(* Events come from the hub's goroutine, which chooses the targets of an   *)
(* event before it calls them back.                                        *)
(*                                                                         *)
(* The callback is called from a thread it was not made for, its payload   *)
(* is freed by both sides, and a hub that has not noticed a stop calls it  *)
(* after it was closed.  The process may end in each: see Abort.  If it    *)
(* does not, a late call does nothing and the others run between turns.    *)
(***************************************************************************)
EXTENDS Naturals, Sequences, FiniteSets

CONSTANTS
  Conns,                 (* calls of connectRealtime, and what they return *)
  Handles,               (* native runtimes EasyMatrixCreate may return    *)
  Nil,
  MaxEvents,             (* bound on the events the hubs fan out           *)
  MaxSends               (* bound on the commands that Go answers          *)

ASSUME EmbeddedAssumption ==
  /\ Nil \notin Conns \union Handles
  /\ IsFiniteSet(Conns)
  /\ MaxEvents \in Nat /\ MaxSends \in Nat

VARIABLES
  handle,                (* runtime.handle, which lib and callback follow  *)
  connections,           (* runtime.realtimeConnections, by ID             *)
  conn,                  (* each call and its RealtimeConnection           *)
  stack,                 (* the turn's calls of handlers, innermost first  *)
  live,                  (* handles started and not destroyed              *)
  databases,             (* handles whose gomuks client has its database   *)
  lastID,                (* nextRealtimeID of each handle                  *)
  clients,               (* Go clients in the hub and in the FFI map       *)
  subscribed,            (* those that have subscriptions                  *)
  targets,               (* clients the hub of each handle will call back  *)
  running,               (* the process has not ended, nor hangs           *)
  sent,                  (* history: types passed to each client's callback*)
  events,                (* history: events fanned out                     *)
  made,                  (* history: handles ever made                     *)
  broken,                (* history: those whose start failed half-way     *)
  startsOverlapped,      (* history: a start replaced a handle in use      *)
  owner,                 (* the call whose adapter owns the runtime        *)
  quit                   (* history: has its user closed that adapter?     *)

stores == <<databases, broken>>
native == <<live, lastID, clients, subscribed, targets, made, stores>>
ownership == <<owner, quit>>
delivery == <<conn, stack>>
embeddedVars == <<handle, connections, conn, stack, native, running, sent, events,
                  startsOverlapped, ownership>>

IDs == 1..Cardinality(Conns)
GoClients == [handle : Handles, id : IDs]

(* A RealtimeConnection, with the call that makes it (pc), the Go client   *)
(* it was made for (origin), what its adapter and its onmessage got, and   *)
(* the messages that were lost because a handler threw.                    *)
NoConnection ==
  [pc |-> "idle", id |-> 0, origin |-> Nil, closed |-> FALSE, onmessage |-> FALSE,
   backlog |-> <<>>, heard |-> <<>>, lost |-> {}, adapter |-> FALSE, since |-> 0,
   adapted |-> <<>>]

EmbeddedInit ==
  /\ handle = Nil
  /\ connections = [i \in IDs |-> Nil]
  /\ conn = [c \in Conns |-> NoConnection]
  /\ stack = <<>>
  /\ live = {} /\ made = {} /\ databases = {} /\ broken = {}
  /\ lastID = [h \in Handles |-> 0]
  /\ clients = {} /\ subscribed = {}
  /\ targets = [h \in Handles |-> {}]
  /\ running = TRUE
  /\ sent = [g \in GoClients |-> <<>>]
  /\ events = 0
  /\ startsOverlapped = FALSE
  /\ owner \in Conns \union {Nil} /\ quit = "no"
-----------------------------------------------------------------------------
(* Messages, and the handlers they are passed to.                          *)

(* A message being passed to the handlers of a connection: first to its    *)
(* listeners, the adapter's among them, then to its onmessage.  During a   *)
(* callback from Go the client keeps its lock for writing (held).          *)
Frame(c, message, stage, held) ==
  [to |-> c, message |-> message, stage |-> stage, held |-> held]

Listened(k, message) == [k EXCEPT !.adapted = IF k.adapter THEN Append(@, message) ELSE @]

Dispatched(k, message) ==
  IF k.closed THEN k
  ELSE IF k.onmessage THEN Listened(k, message)
  ELSE [k EXCEPT !.backlog = Append(@, message)]

(* The handlers of c are called at once if there is an onmessage           *)
(* (dispatchMessage).                                                      *)
Entered(c, message) ==
  IF c # Nil /\ ~conn[c].closed /\ conn[c].onmessage
  THEN <<Frame(c, message, "listeners", message.from)>> \o stack
  ELSE stack

(* Go passes a message to the callback of client g: it is dispatched to    *)
(* the connection found under that ID, whichever handle it belongs to.     *)
CalledBack(g, type) ==
  LET c == connections[g.id]
      message == [from |-> g, n |-> Len(sent[g]) + 1]
  IN /\ sent' = [sent EXCEPT ![g] = Append(@, type)]
     /\ conn' = IF c = Nil THEN conn ELSE [conn EXCEPT ![c] = Dispatched(@, message)]
     /\ stack' = Entered(c, message)

otherVars ==
  <<handle, connections, native, running, sent, events, startsOverlapped, ownership>>

(* The next message of a flush goes to the listeners.                      *)
CallListeners ==
  /\ stack # <<>> /\ stack[1].stage = "waiting"
  /\ stack' = [stack EXCEPT ![1].stage = "listeners"]
  /\ conn' = [conn EXCEPT ![stack[1].to] = Listened(@, stack[1].message)]
  /\ UNCHANGED otherVars

(* When they have returned, it goes to onmessage.                          *)
CallOnmessage ==
  /\ stack # <<>> /\ stack[1].stage = "listeners"
  /\ stack' = [stack EXCEPT ![1].stage = "onmessage"]
  /\ conn' = [conn EXCEPT ![stack[1].to].heard = Append(@, stack[1].message)]
  /\ UNCHANGED otherVars

HandlerReturns ==
  /\ stack # <<>> /\ stack[1].stage = "onmessage"
  /\ stack' = Tail(stack)
  /\ UNCHANGED <<conn, otherVars>>

(* An onmessage that throws ends the flush it was called in: the rest of   *)
(* the backlog is lost.  (What it throws in a callback ends there.)        *)
InFlush(i) == stack[i].stage = "waiting" /\ stack[i].to = stack[1].to

HandlerThrows ==
  /\ stack # <<>> /\ stack[1].stage = "onmessage" /\ stack[1].held = Nil
  /\ \E last \in DOMAIN stack :
       /\ \A i \in 2..last : InFlush(i)
       /\ last < Len(stack) => ~InFlush(last + 1)
       /\ stack' = SubSeq(stack, last + 1, Len(stack))
       /\ conn' = [conn EXCEPT ![stack[1].to].lost =
                     @ \union {stack[i].message.n : i \in 2..last}]
  /\ UNCHANGED otherVars

(* The process may end once a callback was made.                           *)
Abort ==
  /\ running
  /\ \E g \in GoClients : sent[g] # <<>>
  /\ running' = FALSE
  /\ UNCHANGED <<handle, connections, delivery, native, sent, events, startsOverlapped,
                 ownership>>
-----------------------------------------------------------------------------
(* The turns of JavaScript.                                                *)

(* An application has the runtime: one that it made, or the one that       *)
(* createEmbeddedRealtime made and has returned with its adapter.          *)
InHand == owner # Nil => conn[owner].adapter

(* What runs: a handler, or a turn, which begins when no other is going on.*)
Acting == stack # <<>> => stack[1].stage # "waiting"
Turn == stack = <<>>

(* start returns if there is a handle and awaits an import otherwise.      *)
Start(c) ==
  /\ Acting /\ (c = owner \/ InHand)
  /\ conn[c].pc = "idle"
  /\ conn' = [conn EXCEPT ![c].pc = IF handle = Nil THEN "importing" ELSE "connecting"]
  /\ UNCHANGED <<stack, otherVars>>

(* After it, create and start a native runtime, or fail.  The handle is    *)
(* not looked at again: another start may have set it meanwhile.  A start  *)
(* that fails once gomuks has opened its database leaves it open: the      *)
(* runtime was not started, and so is not stopped when it is destroyed.    *)
StartNative(c) ==
  /\ Turn /\ conn[c].pc = "importing"
  /\ \/ \E h \in Handles \ made :
          /\ made' = made \union {h}
          /\ databases' = databases \union {h}
          /\ \/ /\ live' = live \union {h}
                /\ handle' = h
                /\ startsOverlapped' = (startsOverlapped \/ handle # Nil)
                /\ quit' = IF quit = "inTime" THEN "revived" ELSE quit
                /\ conn' = [conn EXCEPT ![c].pc = "connecting"]
                /\ UNCHANGED broken
             \/ /\ broken' = broken \union {h}
                /\ conn' = [conn EXCEPT ![c].pc = "failed"]
                /\ UNCHANGED <<live, handle, startsOverlapped, quit>>
     \/ /\ conn' = [conn EXCEPT ![c].pc = "failed"]
        /\ UNCHANGED <<made, stores, live, handle, startsOverlapped, quit>>
  /\ UNCHANGED <<connections, stack, lastID, clients, subscribed, targets, running, sent,
                 events, owner>>

(* invoke after its await, and so the fetch of an SDK client: a request is *)
(* answered, or fails if the runtime was stopped meanwhile.                *)
Invoke(c) ==
  /\ Turn /\ conn[c].pc = "connecting" /\ c # owner
  /\ conn' = [conn EXCEPT ![c].pc = IF handle = Nil THEN "failed" ELSE "answered"]
  /\ UNCHANGED <<stack, otherVars>>

FreshClient(h) == [handle |-> h, id |-> lastID[h] + 1]

(* connectRealtime after its await: fails if the runtime was stopped       *)
(* meanwhile or Go cannot open a client.  Go sends ready before it returns *)
(* the ID under which JavaScript then files the connection; a connection   *)
(* found there before (of another handle) gets it.                         *)
ConnectRealtime(c) ==
  /\ Turn /\ conn[c].pc = "connecting"
  /\ \/ /\ handle # Nil
        /\ LET g == FreshClient(handle)
               before == connections[g.id]
               ready  == [from |-> g, n |-> 1]
           IN /\ clients' = clients \union {g}
              /\ sent' = [sent EXCEPT ![g] = <<"ready">>]
              /\ connections' = [connections EXCEPT ![g.id] = c]
              /\ conn' = [d \in Conns |->
                   IF d = c THEN [conn[c] EXCEPT !.pc = "open", !.id = g.id, !.origin = g]
                   ELSE IF d = before THEN Dispatched(conn[d], ready) ELSE conn[d]]
              /\ stack' = Entered(before, ready)
        /\ lastID' = [lastID EXCEPT ![handle] = @ + 1]
     \/ /\ conn' = [conn EXCEPT ![c].pc = "failed"]
        /\ lastID' = IF handle = Nil THEN lastID ELSE [lastID EXCEPT ![handle] = @ + 1]
        /\ UNCHANGED <<clients, sent, connections, stack>>
  /\ UNCHANGED <<handle, live, subscribed, targets, made, stores, running, events,
                 startsOverlapped, ownership>>

Open(c) == conn[c].pc = "open" /\ ~conn[c].closed

(* createEmbeddedRealtime listens to the "message" events.                 *)
AttachAdapter(c) ==
  /\ Open(c) /\ Acting /\ (c = owner => Turn)
  /\ ~conn[c].adapter
  /\ conn' = [conn EXCEPT ![c].adapter = TRUE, ![c].since = Len(sent[conn[c].origin])]
  /\ UNCHANGED <<stack, otherVars>>

(* Mutant of Flush: what came last is handed over first.                   *)
FlushBackwards(c) ==
  [i \in DOMAIN conn[c].backlog |->
     Frame(c, conn[c].backlog[Len(conn[c].backlog) + 1 - i], "waiting", Nil)]

Flush(c) ==
  [i \in DOMAIN conn[c].backlog |-> Frame(c, conn[c].backlog[i], "waiting", Nil)]

(* The first onmessage is there at once, and gets the backlog, message by  *)
(* message, even after close.                                              *)
SetOnMessage(c) ==
  /\ Acting /\ InHand /\ conn[c].pc = "open"
  /\ ~conn[c].onmessage
  /\ conn' = [conn EXCEPT ![c].onmessage = TRUE, ![c].backlog = <<>>]
  /\ stack' = Flush(c) \o stack
  /\ UNCHANGED otherVars

AnswersTo(g) == {n \in DOMAIN sent[g] : sent[g][n] \in {"subscriptions.updated", "nested"}}
Answers == UNION {{<<g, n>> : n \in AnswersTo(g)} : g \in GoClients}

(* An answer that comes while its connection is handed the backlog is      *)
(* "nested".                                                               *)
AnswerType(g) ==
  IF \E i \in DOMAIN stack : stack[i].to = connections[g.id]
  THEN "nested" ELSE "subscriptions.updated"

(* send uses the handle of now with the ID of then.  Go sets subscriptions *)
(* and answers, unless it knows no such client.  It never returns to the   *)
(* handler of a callback of the same client, whose lock is held.           *)
SendSubscribe(c) ==
  /\ Acting /\ InHand /\ Open(c)
  /\ handle # Nil
  /\ LET g == [handle |-> handle, id |-> conn[c].id]
     IN /\ g \in clients /\ Cardinality(Answers) < MaxSends
        /\ subscribed' = subscribed \union {g}
        /\ IF \E i \in DOMAIN stack : stack[i].held = g
           THEN running' = FALSE /\ UNCHANGED <<delivery, sent>>
           ELSE CalledBack(g, AnswerType(g)) /\ UNCHANGED running
  /\ UNCHANGED <<handle, connections, live, lastID, clients, targets, made, stores,
                 events, startsOverlapped, ownership>>

(* close tells Go, and takes whatever is filed under its ID out of the map,*)
(* unless the runtime was stopped.                                         *)
Close(c) ==
  /\ Acting /\ InHand /\ Open(c)
  /\ conn' = [conn EXCEPT ![c].closed = TRUE]
  /\ IF handle = Nil
     THEN UNCHANGED <<connections, clients, subscribed>>
     ELSE LET g == [handle |-> handle, id |-> conn[c].id]
          IN /\ connections' = [connections EXCEPT ![conn[c].id] = Nil]
             /\ clients' = clients \ {g}
             /\ subscribed' = subscribed \ {g}
  /\ UNCHANGED <<handle, stack, live, lastID, targets, made, stores, running, sent, events,
                 startsOverlapped, ownership>>

Of(h) == {g \in GoClients : g.handle = h}

(* Mutant of Stopped: the native side is destroyed under open connections. *)
StoppedNative(first) ==
  /\ connections' = [i \in IDs |-> Nil]
  /\ clients' = clients \ Of(handle)
  /\ subscribed' = subscribed \ Of(handle)
  /\ live' = live \ {handle} /\ databases' = databases \ {handle}
  /\ handle' = Nil
  /\ UNCHANGED <<delivery, lastID, targets, made, broken, running, sent, events,
                 startsOverlapped, owner>>

(* stop closes the connections in the map, from which those closed first   *)
(* took theirs, then stops and destroys the native runtime, which closes   *)
(* what is left of its clients.                                            *)
Stopped(first) ==
  /\ LET filed == {connections[i] : i \in IDs \ {conn[c].id : c \in first}}
     IN conn' = [c \in Conns |->
          IF c \in filed \union first THEN [conn[c] EXCEPT !.closed = TRUE] ELSE conn[c]]
  /\ connections' = [i \in IDs |-> Nil]
  /\ clients' = clients \ Of(handle)
  /\ subscribed' = subscribed \ Of(handle)
  /\ live' = live \ {handle} /\ databases' = databases \ {handle}
  /\ handle' = Nil
  /\ UNCHANGED <<stack, lastID, targets, made, broken, running, sent, events,
                 startsOverlapped, owner>>

Stop == Acting /\ InHand /\ handle # Nil /\ Stopped({}) /\ UNCHANGED quit

(* close of the adapter that owns the runtime: it closes its connection    *)
(* and destroys the runtime, or does nothing if the connection was closed  *)
(* before.  (Of any other adapter it is the close of its connection.)      *)
CloseAdapter ==
  /\ Acting /\ quit = "no" /\ owner # Nil /\ conn[owner].adapter
  /\ \/ Open(owner) /\ Stopped({owner}) /\ quit' = "inTime"
     \/ /\ conn[owner].closed /\ quit' = "late"
        /\ UNCHANGED <<handle, connections, delivery, native, running, sent, events,
                       startsOverlapped, owner>>
-----------------------------------------------------------------------------
(* The hub of a native runtime.                                            *)

(* The targets of the next domain event are chosen.                        *)
ChooseTargets(h) ==
  /\ targets[h] = {}
  /\ events < MaxEvents
  /\ subscribed \intersect Of(h) # {}
  /\ targets' = [targets EXCEPT ![h] = subscribed \intersect Of(h)]
  /\ events' = events + 1
  /\ UNCHANGED <<handle, connections, delivery, live, lastID, clients, subscribed, made,
                 stores, running, sent, startsOverlapped, ownership>>

(* Each is called back, also one that was closed since.                    *)
CallTarget(h) ==
  /\ Turn
  /\ \E g \in targets[h] :
       /\ targets' = [targets EXCEPT ![h] = @ \ {g}]
       /\ IF h \in live THEN CalledBack(g, "event") ELSE UNCHANGED <<delivery, sent>>
  /\ UNCHANGED <<handle, connections, live, lastID, clients, subscribed, made, stores,
                 running, events, startsOverlapped, ownership>>
-----------------------------------------------------------------------------
EmbeddedNext ==
  \/ Abort
  \/ /\ running
     /\ \/ Stop \/ CloseAdapter
        \/ CallListeners \/ CallOnmessage \/ HandlerReturns \/ HandlerThrows
        \/ \E c \in Conns :
             \/ Start(c) \/ StartNative(c) \/ Invoke(c) \/ ConnectRealtime(c)
             \/ AttachAdapter(c) \/ SetOnMessage(c) \/ SendSubscribe(c) \/ Close(c)
        \/ \E h \in Handles : ChooseTargets(h) \/ CallTarget(h)

EmbeddedSpec == EmbeddedInit /\ [][EmbeddedNext]_embeddedVars
-----------------------------------------------------------------------------
(* Properties.                                                             *)

(* The types; and what the map holds are open connections under their own  *)
(* IDs (runtime.ts:412-422, 447-453).                                      *)
EmbeddedTypeOK ==
  /\ handle \in Handles \union {Nil}
  /\ live \subseteq databases /\ databases \subseteq made /\ made \subseteq Handles
  /\ clients \subseteq GoClients /\ subscribed \subseteq clients
  /\ \A h \in Handles : targets[h] \subseteq Of(h)
  /\ \A i \in IDs :
       connections[i] # Nil => Open(connections[i]) /\ conn[connections[i]].id = i
  /\ \A c \in Conns : conn[c].pc \in {"idle", "importing", "connecting", "open", "answered", "failed"}
  /\ owner \in Conns \union {Nil} /\ quit \in {"no", "inTime", "late", "revived"}

Due(c) == 2..Len(sent[conn[c].origin])

(* Of two messages of a connection the later comes first only if it is     *)
(* nested, and none comes twice.                                           *)
MayPrecede(c, n, m) == n # m /\ (n > m => sent[conn[c].origin][n] = "nested")

(* A connection gets what Go sent to its own client after ready, in order  *)
(* and once, except that the answer to a send that a handler makes while   *)
(* the backlog is handed over overtakes the rest of it; and when nothing is*)
(* being handed over it has got, until it is closed, all but the rest of a *)
(* backlog whose handler threw.  This holds whether onmessage is set before*)
(* or after and however often the runtime is stopped and started, unless   *)
(* two starts overlapped (runtime.ts:163-206, 287-304, 412-422).           *)
OwnStream ==
  ~startsOverlapped => \A c \in Conns : conn[c].pc = "open" =>
    LET heard == conn[c].heard
        given == heard \o conn[c].backlog
    IN /\ \A i \in DOMAIN given : given[i].from = conn[c].origin /\ given[i].n \in Due(c)
       /\ \A i, j \in DOMAIN given : i < j => MayPrecede(c, given[i].n, given[j].n)
       /\ conn[c].onmessage => conn[c].backlog = <<>>
       /\ Open(c) /\ Turn =>
            \A n \in Due(c) \ conn[c].lost : \E i \in DOMAIN given : given[i].n = n

(* Unless two starts overlapped, the handle in use is the only one alive,  *)
(* the Go clients are those of the open connections, and the databases     *)
(* those of the live handle and of starts that failed after opening one.   *)
(* So a failed start leaves at most its database, and a failed connect the *)
(* handle in use, if the call owned the runtime too.  When the user of an  *)
(* adapter that owns its runtime has closed it while its connection was    *)
(* open, only such databases are left, unless another call starts the      *)
(* runtime again.  (The hub's goroutine, which never ends, is not counted; *)
(* runtime.ts:306-354, realtime.ts:128-135, 162-177,                       *)
(* cmd/ffi/main.go:109-122, gomuksruntime/runtime.go:83-152.)              *)
NothingLeft ==
  ~startsOverlapped =>
    /\ live = {handle} \ {Nil}
    /\ databases = live \union broken
    /\ clients = {conn[c].origin : c \in {d \in Conns : Open(d)}}
    /\ quit = "inTime" => databases = broken

(* README: "Embedded mode exposes the same domain events through           *)
(* createEmbeddedRealtime."  An event sent to an open connection after its *)
(* adapter was attached was heard by the adapter, once the turn that it    *)
(* came in is over (realtime.ts:56-64).                                    *)
AdapterGetsEvents ==
  Turn => \A c \in Conns : Open(c) /\ conn[c].adapter =>
    LET g == conn[c].origin
    IN \A n \in (conn[c].since + 1)..Len(sent[g]) :
         sent[g][n] = "event" =>
           \E i \in DOMAIN conn[c].adapted : conn[c].adapted[i] = [from |-> g, n |-> n]
=============================================================================

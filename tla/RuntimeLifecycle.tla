-------------------------- MODULE RuntimeLifecycle --------------------------
(***************************************************************************)
(* The life of the gomuks runtimes in one process: Runtime of              *)
(* internal/gomuksruntime/runtime.go inside Runtime of internal/embedded/  *)
(* runtime.go, as threads of the host call it through the C interface.     *)
(*                                                                         *)
(* A runtime finds its directory through the environment variable          *)
(* GOMUKS_ROOT, which belongs to the process: a runtime for which the host *)
(* names no directory takes, when it is made, what the variable says, and  *)
(* keeps it; one with a directory sets the variable for a moment each time *)
(* the directories are looked up.  Starting makes a gomuks client and,     *)
(* with credentials in the configuration, a goroutine that logs it in;     *)
(* stopping ends the client, after which any request starts another.  The  *)
(* hub of a runtime subscribes to the events of a client once.             *)
(***************************************************************************)
EXTENDS Naturals, FiniteSets

CONSTANTS
  Threads,
  Runtimes,
  Root,                  (* the StateDir the host names for each, or Unset *)
  Clients,               (* gomuks clients, each started at most once      *)
  Methods,               (* credentials for the bootstrap                  *)
  MaxCalls,              (* bound on the calls                             *)
  Unset, None, Failed

ASSUME LifecycleAssumption ==
  /\ Methods \subseteq {"token", "password", "key"}
  /\ MaxCalls \in Nat
  /\ None \notin Clients \union Threads \union Runtimes
  /\ Failed \notin Clients /\ None # Failed

VARIABLES
  env,                   (* GOMUKS_ROOT                                    *)
  stateDir,              (* each runtime: StateDir in its configuration    *)
  thread,                (* each thread: its call, where it is, saved env  *)
  runtime,               (* each runtime: directory, mu, started, gmx, and *)
                         (*   the client its hub listens to                *)
  client,                (* each client: state, directory, runtime         *)
  loggedIn, verified,    (* clients with a session, and a verified one     *)
  boot,                  (* each client: where its bootstrap is            *)
  calls,                 (* calls so far                                   *)
  overlapped,            (* history: did two look-ups of the root overlap? *)
  stoppedOnce,           (* history: runtimes that were stopped            *)
  doubled,               (* history: clients asked again to log in         *)
  meddled                (* history: clients somebody else may log in      *)

clientVars == <<runtime, client>>
sessionVars == <<loggedIn, verified, boot, doubled, meddled>>
vars == <<env, overlapped, stateDir, thread, calls, clientVars, sessionVars, stoppedOnce>>

Roots == {Root[r] : r \in Runtimes} \union {Unset}
Idle == [call |-> None, pc |-> "idle", on |-> None, saved |-> Unset]
Absent == [made |-> FALSE, dir |-> Unset, lock |-> None, started |-> FALSE,
           gmx |-> None, listens |-> None]
Unborn == [state |-> "unborn", dir |-> Unset, of |-> None]

Init ==
  /\ env = Unset
  /\ stateDir = [r \in Runtimes |-> Unset]
  /\ thread = [t \in Threads |-> Idle]
  /\ runtime = [r \in Runtimes |-> Absent]
  /\ client = [c \in Clients |-> Unborn]
  /\ loggedIn = {} /\ verified = {}
  /\ boot = [c \in Clients |-> [stage |-> "none", asks |-> FALSE]]
  /\ calls = 0
  /\ overlapped = FALSE
  /\ stoppedOnce = {}
  /\ doubled = {} /\ meddled = {}

Goes(t, pc) == thread' = [thread EXCEPT ![t].pc = pc]
Ends(t) == thread' = [thread EXCEPT ![t] = Idle]
-----------------------------------------------------------------------------
(* Calls of the C interface.                                               *)

(* Mutant of FirstStep: a stream is opened without a start.                *)
FirstStepOpen(call) ==
  IF call = "create" THEN "load" ELSE IF call = "open" THEN "use" ELSE "lock"

(* Requests and streams start the runtime if they have to.                 *)
FirstStep(call) == IF call = "create" THEN "load" ELSE "lock"

(* The host makes a runtime once, and uses the handle it got.              *)
Call(t) ==
  /\ thread[t].pc = "idle"
  /\ calls < MaxCalls /\ calls' = calls + 1
  /\ \E r \in Runtimes, call \in {"create", "start", "stop", "request", "open"} :
       /\ IF call = "create"
          THEN ~runtime[r].made /\ \A s \in Threads : thread[s].on # r
          ELSE runtime[r].made
       /\ thread' = [thread EXCEPT ![t] =
            [call |-> call, pc |-> FirstStep(call), on |-> r, saved |-> Unset]]
  /\ UNCHANGED <<env, overlapped, stateDir, clientVars, sessionVars, stoppedOnce>>

AfterLock(t) ==
  LET r == thread[t].on
  IN IF thread[t].call = "stop" THEN "stop"
     ELSE IF runtime[r].started \/ runtime[r].gmx # None THEN "unlock" ELSE "root"

(* Mutant of Lock: mu is not waited for.                                   *)
LockAnyway(t) ==
  /\ thread[t].pc = "lock"
  /\ runtime' = [runtime EXCEPT ![thread[t].on].lock = t]
  /\ Goes(t, AfterLock(t))
  /\ UNCHANGED <<env, overlapped, stateDir, calls, client, sessionVars, stoppedOnce>>

Lock(t) ==
  /\ thread[t].pc = "lock" /\ runtime[thread[t].on].lock = None
  /\ runtime' = [runtime EXCEPT ![thread[t].on].lock = t]
  /\ Goes(t, AfterLock(t))
  /\ UNCHANGED <<env, overlapped, stateDir, calls, client, sessionVars, stoppedOnce>>

(* A request or the opening of a stream goes on without the lock.          *)
Unlock(t) ==
  /\ thread[t].pc = "unlock"
  /\ runtime' = [runtime EXCEPT ![thread[t].on].lock = None]
  /\ IF thread[t].call \in {"request", "open"} THEN Goes(t, "use") ELSE Ends(t)
  /\ UNCHANGED <<env, overlapped, stateDir, calls, client, sessionVars, stoppedOnce>>
-----------------------------------------------------------------------------
(* config.Load, and withConfiguredGomuksRoot around InitDirectories, for   *)
(* New and for Start.                                                      *)

Inside(t) == thread[t].pc \in {"set", "read", "restore"}
Overlaps == overlapped' = (overlapped \/ \E s \in Threads : Inside(s))

(* normalizeConfig: the directory the host names replaces what was loaded. *)
LoadConfig(t) ==
  LET r == thread[t].on
  IN /\ thread[t].pc = "load"
     /\ stateDir' = [stateDir EXCEPT ![r] = IF Root[r] # Unset THEN Root[r] ELSE env]
     /\ Overlaps
     /\ Goes(t, "root")
     /\ UNCHANGED <<env, calls, clientVars, sessionVars, stoppedOnce>>

(* With no configured directory, the variable is only read.                *)
SaveRoot(t) ==
  /\ thread[t].pc = "root"
  /\ thread' = [thread EXCEPT ![t] =
       [@ EXCEPT !.saved = env,
                 !.pc = IF stateDir[thread[t].on] = Unset THEN "read" ELSE "set"]]
  /\ Overlaps
  /\ UNCHANGED <<env, stateDir, calls, clientVars, sessionVars, stoppedOnce>>

SetRoot(t) ==
  /\ thread[t].pc = "set"
  /\ env' = stateDir[thread[t].on]
  /\ Goes(t, "read")
  /\ UNCHANGED <<overlapped, stateDir, calls, clientVars, sessionVars, stoppedOnce>>

AfterRoot(t) == IF thread[t].call = "create" THEN "created" ELSE "client"

ReadDirectory(t) ==
  LET r == thread[t].on
  IN /\ thread[t].pc = "read"
     /\ runtime' = [runtime EXCEPT ![r].dir = env]
     /\ Goes(t, IF stateDir[r] = Unset THEN AfterRoot(t) ELSE "restore")
     /\ UNCHANGED <<env, overlapped, stateDir, calls, client, sessionVars, stoppedOnce>>

(* Mutant of RestoreRoot: the variable is left as it is.                   *)
KeepRoot(t) ==
  /\ thread[t].pc = "restore"
  /\ Goes(t, AfterRoot(t))
  /\ UNCHANGED <<env, overlapped, stateDir, calls, clientVars, sessionVars, stoppedOnce>>

RestoreRoot(t) ==
  /\ thread[t].pc = "restore"
  /\ env' = thread[t].saved
  /\ Goes(t, AfterRoot(t))
  /\ UNCHANGED <<overlapped, stateDir, calls, clientVars, sessionVars, stoppedOnce>>

Created(t) ==
  /\ thread[t].pc = "created"
  /\ runtime' = [runtime EXCEPT ![thread[t].on].made = TRUE]
  /\ Ends(t)
  /\ UNCHANGED <<env, overlapped, stateDir, calls, client, sessionVars, stoppedOnce>>
-----------------------------------------------------------------------------
(* Start and Stop, with mu held.                                           *)

Born(c, t, state) ==
  /\ client[c].state = "unborn"
  /\ client' = [client EXCEPT ![c] =
       [state |-> state, dir |-> runtime[thread[t].on].dir, of |-> thread[t].on]]

Bootstrapping(c) == boot[c].stage \in {"token", "password", "key"}

(* startClientWithoutExit: the client has the session of its directory.    *)
StartClient(t) ==
  LET r == thread[t].on
      Loaded(clients, c) ==
        IF \E d \in clients : client[d].dir = runtime[r].dir THEN clients \union {c} ELSE clients
  IN /\ thread[t].pc = "client"
     /\ \E c \in Clients :
          /\ Born(c, t, "live")
          /\ runtime' = [runtime EXCEPT ![r] = [@ EXCEPT !.gmx = c, !.started = TRUE]]
          /\ boot' = [boot EXCEPT ![c].stage = IF Methods = {} THEN "done" ELSE "token"]
          /\ loggedIn' = Loaded(loggedIn, c)
          /\ verified' = Loaded(verified, c)
          /\ meddled' = IF \E d \in Clients : client[d].of = r /\ Bootstrapping(d)
                        THEN meddled \union {c} ELSE meddled
     /\ Goes(t, "unlock")
     /\ UNCHANGED <<env, overlapped, stateDir, calls, doubled, stoppedOnce>>

(* Nothing is left if it fails before the database is open; what fails     *)
(* after that leaves a client that nobody stops.                           *)
StartFails(t) ==
  /\ thread[t].pc = "client"
  /\ UNCHANGED client \/ \E c \in Clients : Born(c, t, "left")
  /\ runtime' = [runtime EXCEPT ![thread[t].on].lock = None]
  /\ Ends(t)
  /\ UNCHANGED <<env, overlapped, stateDir, calls, sessionVars, stoppedOnce>>

StopClient(t) ==
  LET r == thread[t].on
  IN /\ thread[t].pc = "stop"
     /\ IF ~runtime[r].started
        THEN /\ Goes(t, "unlock")
             /\ UNCHANGED <<client, stoppedOnce>>
        ELSE /\ client' = [client EXCEPT ![runtime[r].gmx].state = "stopped"]
             /\ stoppedOnce' = stoppedOnce \union {r}
             /\ Goes(t, "clear")
     /\ UNCHANGED <<env, overlapped, stateDir, calls, runtime, sessionVars>>

ClearClient(t) ==
  /\ thread[t].pc = "clear"
  /\ runtime' = [runtime EXCEPT ![thread[t].on] = [@ EXCEPT !.gmx = None, !.started = FALSE]]
  /\ Goes(t, "unlock")
  /\ UNCHANGED <<env, overlapped, stateDir, calls, client, sessionVars, stoppedOnce>>
-----------------------------------------------------------------------------
(* What calls do with the client of a started runtime.                     *)

Used(t) ==
  /\ Ends(t)
  /\ UNCHANGED <<env, overlapped, stateDir, calls, client, boot, doubled, stoppedOnce>>

(* A handler uses the client, or fails without one; those of the manage    *)
(* page log it in, or verify it.                                           *)
UseClient(t) ==
  LET c == runtime[thread[t].on].gmx
  IN /\ thread[t].pc = "use" /\ thread[t].call = "request"
     /\ \/ UNCHANGED <<loggedIn, verified, meddled>>
        \/ /\ c # None
           /\ loggedIn' = loggedIn \union {c}
           /\ meddled' = meddled \union {c}
           /\ UNCHANGED verified
        \/ /\ c \in loggedIn
           /\ verified' = verified \union {c}
           /\ UNCHANGED <<loggedIn, meddled>>
     /\ Used(t)
     /\ UNCHANGED runtime

(* ensureSubscription: only the first stream looks for the event buffer,   *)
(* and every later one gets its result.                                    *)
Subscribe(t) ==
  LET r == thread[t].on
  IN /\ thread[t].pc = "use" /\ thread[t].call = "open"
     /\ runtime' = IF runtime[r].listens # None THEN runtime
                   ELSE [runtime EXCEPT ![r].listens =
                           IF runtime[r].gmx = None THEN Failed ELSE runtime[r].gmx]
     /\ Used(t)
     /\ UNCHANGED <<loggedIn, verified, meddled>>
-----------------------------------------------------------------------------
(* bootstrapSessionFromEnv, in the goroutine of a client.                  *)

After(stage) ==
  CASE stage = "token" -> "password" [] stage = "password" -> "key" [] stage = "key" -> "done"
Continues(c) == boot' = [boot EXCEPT ![c] = [stage |-> After(boot[c].stage), asks |-> FALSE]]
GivesUp(c) == boot' = [boot EXCEPT ![c] = [stage |-> "done", asks |-> FALSE]]
BootUnchanged == UNCHANGED <<env, overlapped, stateDir, thread, calls, clientVars, stoppedOnce>>

(* Mutant of Needed: the state from before the first login is used again.  *)
NeededBefore(c) ==
  IF boot[c].stage = "key" THEN c \notin verified
  ELSE c \notin loggedIn \/ boot[c].stage = "password"

(* cli.State() of the client the goroutine was started for.                *)
Needed(c) == IF boot[c].stage = "key" THEN c \notin verified ELSE c \notin loggedIn

BootCheck(c) ==
  /\ Bootstrapping(c) /\ ~boot[c].asks
  /\ IF boot[c].stage \notin Methods \/ ~Needed(c) THEN Continues(c)
     ELSE IF boot[c].stage = "key" /\ c \notin loggedIn THEN GivesUp(c)
     ELSE boot' = [boot EXCEPT ![c].asks = TRUE]
  /\ UNCHANGED <<loggedIn, verified, doubled, meddled>>
  /\ BootUnchanged

(* SubmitJSONCommand asks the client that the runtime has now.  A client   *)
(* that is logged in may say so, which counts as success.                  *)
BootAsk(c) ==
  LET target == runtime[client[c].of].gmx
  IN /\ Bootstrapping(c) /\ boot[c].asks
     /\ \/ /\ GivesUp(c)
           /\ UNCHANGED <<loggedIn, verified, doubled>>
        \/ /\ target # None /\ boot[c].stage # "key"
           /\ loggedIn' = loggedIn \union {target}
           /\ doubled' = IF target \in loggedIn THEN doubled \union {target} ELSE doubled
           /\ Continues(c)
           /\ UNCHANGED verified
        \/ /\ target \in loggedIn /\ boot[c].stage = "key"
           /\ verified' = verified \union {target}
           /\ Continues(c)
           /\ UNCHANGED <<loggedIn, doubled>>
     /\ UNCHANGED meddled
     /\ BootUnchanged
-----------------------------------------------------------------------------
Next ==
  \/ \E t \in Threads :
       \/ Call(t) \/ Lock(t) \/ Unlock(t)
       \/ LoadConfig(t) \/ SaveRoot(t) \/ SetRoot(t)
       \/ ReadDirectory(t) \/ RestoreRoot(t) \/ Created(t)
       \/ StartClient(t) \/ StartFails(t) \/ StopClient(t) \/ ClearClient(t)
       \/ UseClient(t) \/ Subscribe(t)
  \/ \E c \in Clients : BootCheck(c) \/ BootAsk(c)

Spec == Init /\ [][Next]_vars
-----------------------------------------------------------------------------
(* Properties.                                                             *)

TypeOK ==
  /\ env \in Roots
  /\ \A t \in Threads :
       /\ thread[t].call \in {None, "create", "start", "stop", "request", "open"}
       /\ thread[t].pc \in {"idle", "load", "root", "set", "read", "restore", "created", "lock",
                            "client", "stop", "clear", "unlock", "use"}
       /\ thread[t].on \in Runtimes \union {None} /\ thread[t].saved \in Roots
  /\ \A r \in Runtimes :
       /\ stateDir[r] \in Roots
       /\ runtime[r].made \in BOOLEAN /\ runtime[r].started \in BOOLEAN
       /\ runtime[r].dir \in Roots /\ runtime[r].lock \in Threads \union {None}
       /\ runtime[r].gmx \in Clients \union {None}
       /\ runtime[r].listens \in Clients \union {None, Failed}
       /\ runtime[r].started <=> runtime[r].gmx # None
  /\ \A c \in Clients :
       /\ client[c].state \in {"unborn", "live", "stopped", "left"}
       /\ client[c].dir \in Roots /\ client[c].of \in Runtimes \union {None}
       /\ boot[c].stage \in {"none", "token", "password", "key", "done"}
       /\ boot[c].asks \in BOOLEAN
  /\ loggedIn \subseteq Clients /\ verified \subseteq loggedIn
  /\ doubled \subseteq Clients /\ meddled \subseteq Clients
  /\ stoppedOnce \subseteq Runtimes
  /\ calls \in 0..MaxCalls /\ overlapped \in BOOLEAN

(* Every client opens the directory the host named for its runtime, or the *)
(* process's own, and GOMUKS_ROOT is in the end what it was, as long as no *)
(* runtime reads the variable, for its configuration or for its            *)
(* directories, while another has set it; nothing keeps them from it       *)
(* (config.go:84-87, gomuksruntime/runtime.go:47-65, 67-81, 127-140).      *)
OwnDirectory ==
  ~overlapped =>
    /\ \A c \in Clients : client[c].of # None => client[c].dir = Root[client[c].of]
    /\ env # Unset => \E t \in Threads : Inside(t) /\ env = Root[thread[t].on]

(* A runtime has one live client, however threads start and stop it: any   *)
(* other was stopped, or is left from a start that failed                  *)
(* (embedded/runtime.go:100-121, gomuksruntime/runtime.go:127-172).        *)
OneClient ==
  \A c \in Clients : client[c].state = "live" => runtime[client[c].of].gmx = c

(* The hub listens to the client its runtime has, or did not find one, for *)
(* ever after: but only a runtime that was stopped has a hub that is deaf  *)
(* (ws_events.go:154-179).                                                 *)
HearsClient ==
  \A r \in Runtimes : runtime[r].listens # None /\ r \notin stoppedOnce =>
    runtime[r].listens = runtime[r].gmx

(* A bootstrap does not log in a client that has a session, unless the     *)
(* manage page does too, or the runtime was restarted while the bootstrap  *)
(* of an earlier client went on (gomuksruntime/runtime.go:245-298).        *)
LoggedInOnce == doubled \subseteq meddled
=============================================================================

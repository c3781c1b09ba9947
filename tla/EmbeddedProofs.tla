---------------------------- MODULE EmbeddedProofs ----------------------------
(***************************************************************************)
(* Proofs about the embedded runtime.                                      *)
(*                                                                         *)
(* RuntimeLifecycle: for any threads, runtimes, clients and credentials,   *)
(* and any number of calls.  Locked says who holds mu, and so that two     *)
(* threads never start or stop one runtime at a time.  Rooted, Single,     *)
(* Hearing and Sessions strengthen OwnDirectory, OneClient, HearsClient    *)
(* and LoggedInOnce by what a thread, or a bootstrap, relies on between    *)
(* two of its steps.                                                       *)
(*                                                                         *)
(* EmbeddedRealtime: for any calls, native handles and number of events    *)
(* and commands.  EmbeddedShape holds whatever starts overlap: what is     *)
(* filed is open and under its own ID, an ID is never given twice by one   *)
(* handle, and handlers are called of connections that have an onmessage.  *)
(* EmbeddedWhole holds until two starts overlap: an open connection is the *)
(* one filed under the ID of its Go client, which belongs to the handle in *)
(* use, and what it has heard and what the turn has still to pass to it    *)
(* are, together, all it was sent and comes in order but for nested        *)
(* answers.                                                                *)
(***************************************************************************)
EXTENDS RuntimeLifecycle, EmbeddedRealtime, FiniteSetTheorems, TLAPS

Steps == {"idle", "load", "root", "set", "read", "restore", "created", "lock",
          "client", "stop", "clear", "unlock", "use"}
Calls == {"create", "start", "stop", "request", "open"}
Stages == {"none", "token", "password", "key", "done"}

ThreadStates ==
  [call : Calls \union {None}, pc : Steps, on : Runtimes \union {None}, saved : Roots]
RuntimeStates ==
  [made : BOOLEAN, dir : Roots, lock : Threads \union {None}, started : BOOLEAN,
   gmx : Clients \union {None}, listens : Clients \union {None, Failed}]
ClientStates ==
  [state : {"unborn", "live", "stopped", "left"}, dir : Roots, of : Runtimes \union {None}]

Shape ==
  /\ env \in Roots /\ overlapped \in BOOLEAN
  /\ stateDir \in [Runtimes -> Roots]
  /\ thread \in [Threads -> ThreadStates]
  /\ runtime \in [Runtimes -> RuntimeStates]
  /\ client \in [Clients -> ClientStates]
  /\ boot \in [Clients -> [stage : Stages, asks : BOOLEAN]]
  /\ loggedIn \subseteq Clients /\ verified \subseteq loggedIn
  /\ doubled \subseteq Clients /\ meddled \subseteq Clients
  /\ stoppedOnce \subseteq Runtimes
  /\ calls \in 0..MaxCalls
  /\ \A c \in Clients : client[c].state # "unborn" <=> client[c].of # None

(* The runtime a thread is at.                                             *)
At(t) == runtime[thread[t].on]

(* What a thread may be doing in its call.                                 *)
Placed(t) ==
  IF thread[t].pc = "idle" THEN thread[t].on = None
  ELSE /\ thread[t].on \in Runtimes
       /\ thread[t].call \in Calls
       /\ IF thread[t].call = "create"
          THEN /\ thread[t].pc \in {"load", "root", "set", "read", "restore", "created"}
               /\ ~At(t).made
               /\ \A s \in Threads \ {t} : thread[s].on # thread[t].on
          ELSE thread[t].pc \notin {"load", "created"} /\ At(t).made
       /\ thread[t].pc \in {"stop", "clear"} => thread[t].call = "stop"
       /\ thread[t].pc = "use" => thread[t].call \in {"request", "open"}

Starting(t) ==
  thread[t].pc \in {"root", "set", "read", "restore", "client"} /\ thread[t].call # "create"
Holding(t) == Starting(t) \/ thread[t].pc \in {"stop", "clear", "unlock"}

(* mu is held by the thread that starts or stops the runtime.              *)
Locked == \A t \in Threads : Placed(t) /\ (Holding(t) => At(t).lock = t)

(* While nobody reads the variable beside another, one thread at most is   *)
(* inside, the variable is what it set, or what it found, and a runtime    *)
(* that has its configuration has its own directory in it.                 *)
Looking(t) ==
  /\ Inside(t) => thread[t].saved = Unset /\ \A s \in Threads : Inside(s) => s = t
  /\ thread[t].pc = "set" => env = Unset
  /\ thread[t].pc \in {"read", "restore"} => env = Root[thread[t].on]
  /\ thread[t].pc \in {"restore", "client"} => At(t).dir = Root[thread[t].on]
  /\ thread[t].pc \notin {"idle", "load"} => stateDir[thread[t].on] = Root[thread[t].on]

Rooted ==
  ~overlapped =>
    /\ \A t \in Threads : Looking(t)
    /\ \A r \in Runtimes : runtime[r].made => stateDir[r] = Root[r]
    /\ (\A t \in Threads : ~Inside(t)) => env = Unset
    /\ \A c \in Clients : client[c].of # None => client[c].dir = Root[client[c].of]

(* Who starts a runtime found none started, and who clears its client has  *)
(* stopped it.                                                             *)
Single ==
  /\ OneClient
  /\ \A r \in Runtimes :
       /\ runtime[r].started <=> runtime[r].gmx # None
       /\ runtime[r].gmx # None => client[runtime[r].gmx].of = r
  /\ \A t \in Threads :
       /\ Starting(t) => At(t).gmx = None
       /\ thread[t].pc = "clear" => At(t).gmx # None /\ client[At(t).gmx].state = "stopped"

(* Who is to use a runtime that was never stopped has a client.            *)
Hearing ==
  /\ HearsClient
  /\ \A t \in Threads :
       /\ thread[t].pc = "clear" => thread[t].on \in stoppedOnce
       /\ /\ thread[t].pc \in {"unlock", "use"} /\ thread[t].call # "stop"
          /\ thread[t].on \notin stoppedOnce
          => At(t).gmx # None

(* A bootstrap that finds another client than its own meddles with it, and *)
(* nobody else logs in a client whose bootstrap is about to.               *)
Sessions ==
  /\ LoggedInOnce
  /\ \A c \in Clients : client[c].state = "unborn" =>
       boot[c].stage = "none" /\ ~boot[c].asks
  /\ \A c, d \in Clients :
       Bootstrapping(d) /\ runtime[client[d].of].gmx = c /\ c # d => c \in meddled
  /\ \A c \in Clients :
       boot[c].asks /\ boot[c].stage # "key" /\ c \in loggedIn => c \in meddled

Inv == Shape /\ Locked /\ Rooted /\ Single /\ Hearing /\ Sessions
-----------------------------------------------------------------------------
(* Steps.                                                                  *)

LockStep(t) == Call(t) \/ Lock(t) \/ Unlock(t)
RootStep(t) ==
  \/ LoadConfig(t) \/ SaveRoot(t) \/ SetRoot(t) \/ ReadDirectory(t) \/ RestoreRoot(t)
  \/ Created(t)
ClientStep(t) == StartClient(t) \/ StartFails(t) \/ StopClient(t) \/ ClearClient(t)
UseStep(t) == UseClient(t) \/ Subscribe(t)
ThreadStep(t) == LockStep(t) \/ RootStep(t) \/ ClientStep(t) \/ UseStep(t)
BootStep(c) == BootCheck(c) \/ BootAsk(c)

LEMMA NextCases ==
  ASSUME [Next]_vars
  PROVE  \/ \E t \in Threads : ThreadStep(t)
         \/ \E c \in Clients : BootStep(c)
         \/ UNCHANGED vars
BY DEF Next, ThreadStep, LockStep, RootStep, ClientStep, UseStep, BootStep

LEMMA InitInv == Init => Inv
<1> SUFFICES ASSUME Init PROVE Inv
  OBVIOUS
<1> USE LifecycleAssumption DEF Init, Idle, Absent, Unborn
<1>1. Shape
  <2>1. env \in Roots /\ Unset \in Roots /\ stateDir \in [Runtimes -> Roots]
    BY DEF Roots
  <2>2. thread \in [Threads -> ThreadStates]
    BY <2>1 DEF ThreadStates, Steps
  <2>3. runtime \in [Runtimes -> RuntimeStates]
    BY <2>1 DEF RuntimeStates
  <2>4. client \in [Clients -> ClientStates] /\ \A c \in Clients : client[c] = Unborn
    BY <2>1 DEF ClientStates
  <2>5. boot \in [Clients -> [stage : Stages, asks : BOOLEAN]]
    BY DEF Stages
  <2>6. /\ overlapped \in BOOLEAN
        /\ loggedIn = {} /\ verified = {} /\ doubled = {} /\ meddled = {} /\ stoppedOnce = {}
    OBVIOUS
  <2>8. calls \in 0..MaxCalls
    OBVIOUS
  <2>7. \A c \in Clients : client[c].state = "unborn" /\ client[c].of = None
    BY <2>4
  <2> QED BY <2>1, <2>2, <2>3, <2>4, <2>5, <2>6, <2>7, <2>8 DEF Shape
<1>2. \A t \in Threads : thread[t].pc = "idle" /\ thread[t].on = None
  OBVIOUS
<1>3. Locked
  BY <1>2 DEF Locked, Placed, Holding, Starting
<1>4. Rooted
  BY <1>2 DEF Rooted, Looking, Inside
<1>5. Single
  BY <1>2 DEF Single, OneClient, Starting
<1>6. Hearing
  BY <1>2 DEF Hearing, HearsClient
<1>7. Sessions
  BY DEF Sessions, LoggedInOnce, Bootstrapping
<1> QED BY <1>1, <1>3, <1>4, <1>5, <1>6, <1>7 DEF Inv

(* The types.                                                              *)
LEMMA Records ==
  /\ Idle \in ThreadStates
  /\ \A x \in ThreadStates :
       /\ x.call \in Calls \union {None} /\ x.pc \in Steps
       /\ x.on \in Runtimes \union {None} /\ x.saved \in Roots
       /\ \A pc \in Steps : [x EXCEPT !.pc = pc] \in ThreadStates
       /\ \A pc \in Steps, root \in Roots : [x EXCEPT !.saved = root, !.pc = pc] \in ThreadStates
  /\ \A x \in RuntimeStates :
       /\ x.made \in BOOLEAN /\ x.started \in BOOLEAN /\ x.dir \in Roots
       /\ x.lock \in Threads \union {None} /\ x.gmx \in Clients \union {None}
       /\ x.listens \in Clients \union {None, Failed}
<1>1. Idle \in ThreadStates
  BY DEF Idle, ThreadStates, Steps, Roots
<1>2. ASSUME NEW x \in ThreadStates
      PROVE  /\ x.call \in Calls \union {None} /\ x.pc \in Steps
             /\ x.on \in Runtimes \union {None} /\ x.saved \in Roots
             /\ \A pc \in Steps : [x EXCEPT !.pc = pc] \in ThreadStates
             /\ \A pc \in Steps, root \in Roots :
                  [x EXCEPT !.saved = root, !.pc = pc] \in ThreadStates
  BY DEF ThreadStates
<1>3. ASSUME NEW x \in RuntimeStates
      PROVE  /\ x.made \in BOOLEAN /\ x.started \in BOOLEAN /\ x.dir \in Roots
             /\ x.lock \in Threads \union {None} /\ x.gmx \in Clients \union {None}
             /\ x.listens \in Clients \union {None, Failed}
  BY DEF RuntimeStates
<1> QED BY <1>1, <1>2, <1>3

LEMMA Moves ==
  ASSUME Shape, NEW t \in Threads
  PROVE  /\ \A pc \in Steps : Goes(t, pc) =>
              /\ thread' \in [Threads -> ThreadStates]
              /\ thread'[t].pc = pc /\ thread'[t].on = thread[t].on
              /\ thread'[t].call = thread[t].call /\ thread'[t].saved = thread[t].saved
              /\ \A s \in Threads \ {t} : thread'[s] = thread[s]
         /\ Ends(t) =>
              /\ thread' \in [Threads -> ThreadStates]
              /\ thread'[t].pc = "idle" /\ thread'[t].on = None /\ thread'[t].call = None
              /\ \A s \in Threads \ {t} : thread'[s] = thread[s]
<1>1. ASSUME NEW pc \in Steps, Goes(t, pc)
      PROVE  /\ thread' \in [Threads -> ThreadStates]
             /\ thread'[t].pc = pc /\ thread'[t].on = thread[t].on
             /\ thread'[t].call = thread[t].call /\ thread'[t].saved = thread[t].saved
             /\ \A s \in Threads \ {t} : thread'[s] = thread[s]
  <2>1. thread' = [thread EXCEPT ![t] = [thread[t] EXCEPT !.pc = pc]]
    BY <1>1 DEF Goes
  <2>2. thread \in [Threads -> ThreadStates] /\ [thread[t] EXCEPT !.pc = pc] \in ThreadStates
    BY Records DEF Shape
  <2>3. thread' \in [Threads -> ThreadStates]
    BY <2>1, <2>2
  <2>4. thread'[t] = [thread[t] EXCEPT !.pc = pc]
    BY <2>1, <2>2
  <2>5. thread[t] \in ThreadStates
    BY <2>2
  <2>6. /\ thread'[t].pc = pc /\ thread'[t].on = thread[t].on
        /\ thread'[t].call = thread[t].call /\ thread'[t].saved = thread[t].saved
    BY <2>4, <2>5 DEF ThreadStates
  <2> QED BY <2>1, <2>2, <2>3, <2>6
<1>2. ASSUME Ends(t)
      PROVE  /\ thread' \in [Threads -> ThreadStates]
             /\ thread'[t].pc = "idle" /\ thread'[t].on = None /\ thread'[t].call = None
             /\ \A s \in Threads \ {t} : thread'[s] = thread[s]
  <2>1. thread \in [Threads -> ThreadStates] /\ Idle \in ThreadStates
    BY Records DEF Shape
  <2>2. thread' = [thread EXCEPT ![t] = Idle]
    BY <1>2 DEF Ends
  <2> QED BY <2>1, <2>2 DEF Idle
<1> QED BY <1>1, <1>2

(* An update of one runtime.                                               *)
LEMMA Changes ==
  ASSUME Shape, NEW r \in Runtimes
  PROVE  /\ \A m \in BOOLEAN : [runtime[r] EXCEPT !.made = m] \in RuntimeStates
         /\ \A d \in Roots : [runtime[r] EXCEPT !.dir = d] \in RuntimeStates
         /\ \A l \in Threads \union {None} : [runtime[r] EXCEPT !.lock = l] \in RuntimeStates
         /\ \A g \in Clients \union {None}, b \in BOOLEAN :
              [runtime[r] EXCEPT !.gmx = g, !.started = b] \in RuntimeStates
         /\ \A l \in Clients \union {None, Failed} :
              [runtime[r] EXCEPT !.listens = l] \in RuntimeStates
         /\ \A x \in RuntimeStates : runtime' = [runtime EXCEPT ![r] = x] =>
              /\ runtime' \in [Runtimes -> RuntimeStates]
              /\ runtime'[r] = x
              /\ \A q \in Runtimes \ {r} : runtime'[q] = runtime[q]
<1>1. runtime \in [Runtimes -> RuntimeStates] /\ runtime[r] \in RuntimeStates
  BY DEF Shape
<1> DEFINE x == runtime[r]
<1>2. /\ \A m \in BOOLEAN : [x EXCEPT !.made = m] \in RuntimeStates
      /\ \A d \in Roots : [x EXCEPT !.dir = d] \in RuntimeStates
      /\ \A l \in Threads \union {None} : [x EXCEPT !.lock = l] \in RuntimeStates
      /\ \A g \in Clients \union {None}, b \in BOOLEAN :
           [x EXCEPT !.gmx = g, !.started = b] \in RuntimeStates
      /\ \A l \in Clients \union {None, Failed} : [x EXCEPT !.listens = l] \in RuntimeStates
  <2>1. x \in RuntimeStates
    BY <1>1
  <2> HIDE DEF x
  <2> QED BY <2>1 DEF RuntimeStates
<1> QED BY <1>1, <1>2

LEMMA StepNames ==
  /\ \A t \in Threads : AfterLock(t) \in Steps /\ AfterRoot(t) \in Steps
  /\ \A call \in Calls : FirstStep(call) \in Steps
  /\ {"load", "root", "set", "read", "restore", "created", "lock", "client", "stop", "clear",
      "unlock", "use", "idle"} \subseteq Steps
BY DEF Steps, AfterLock, AfterRoot, FirstStep

(* A thread in a call is at a runtime.                                     *)
LEMMA AtRuntime ==
  ASSUME Shape, Locked, NEW t \in Threads, thread[t].pc # "idle"
  PROVE  /\ thread[t].on \in Runtimes /\ thread[t].call \in Calls
         /\ At(t) \in RuntimeStates
BY DEF Shape, Locked, Placed, At

LEMMA ShapeLock ==
  ASSUME Shape, Locked, NEW t \in Threads, LockStep(t)
  PROVE  Shape'
<1> USE LifecycleAssumption, StepNames
<1>1. CASE Call(t)
  <2>1. PICK r \in Runtimes, call \in Calls :
          thread' = [thread EXCEPT ![t] =
            [call |-> call, pc |-> FirstStep(call), on |-> r, saved |-> Unset]]
    BY <1>1 DEF Call, Calls
  <2>2. [call |-> call, pc |-> FirstStep(call), on |-> r, saved |-> Unset] \in ThreadStates
    BY DEF ThreadStates, Roots
  <2>3. thread' \in [Threads -> ThreadStates]
    BY <2>1, <2>2 DEF Shape
  <2>4. calls' \in 0..MaxCalls
    BY <1>1 DEF Call, Shape
  <2> QED BY <1>1, <2>3, <2>4 DEF Call, Shape, clientVars, sessionVars
<1>2. CASE Lock(t)
  <2>1. thread' \in [Threads -> ThreadStates]
    BY <1>2, Moves DEF Lock
  <2>2. runtime' \in [Runtimes -> RuntimeStates]
    BY <1>2, AtRuntime, Changes DEF Lock
  <2> QED BY <1>2, <2>1, <2>2 DEF Lock, Shape, sessionVars
<1>3. CASE Unlock(t)
  <2>1. thread' \in [Threads -> ThreadStates]
    BY <1>3, Moves DEF Unlock
  <2>2. runtime' \in [Runtimes -> RuntimeStates]
    BY <1>3, AtRuntime, Changes DEF Unlock
  <2> QED BY <1>3, <2>1, <2>2 DEF Unlock, Shape, sessionVars
<1> QED BY <1>1, <1>2, <1>3 DEF LockStep

LEMMA ShapeRoot ==
  ASSUME Shape, Locked, NEW t \in Threads, RootStep(t)
  PROVE  Shape'
<1> USE LifecycleAssumption, StepNames
<1>1. CASE SaveRoot(t)
  <2>1. PICK pc \in {"read", "set"} :
          thread' = [thread EXCEPT ![t] = [thread[t] EXCEPT !.saved = env, !.pc = pc]]
    BY <1>1 DEF SaveRoot
  <2>2. [thread[t] EXCEPT !.saved = env, !.pc = pc] \in ThreadStates
    BY Records DEF Shape
  <2>3. thread' \in [Threads -> ThreadStates]
    BY <2>1, <2>2 DEF Shape
  <2> QED BY <1>1, <2>3 DEF SaveRoot, Overlaps, Shape, clientVars, sessionVars, Inside
<1>2. CASE SetRoot(t)
  <2>1. thread' \in [Threads -> ThreadStates]
    BY <1>2, Moves DEF SetRoot
  <2>2. env' \in Roots
    BY <1>2, AtRuntime DEF SetRoot, Shape
  <2> QED BY <1>2, <2>1, <2>2 DEF SetRoot, Shape, clientVars, sessionVars
<1>3. CASE ReadDirectory(t)
  <2>1. thread' \in [Threads -> ThreadStates]
    BY <1>3, Moves DEF ReadDirectory
  <2>2. runtime' \in [Runtimes -> RuntimeStates]
    BY <1>3, AtRuntime, Changes DEF ReadDirectory, Shape
  <2> QED BY <1>3, <2>1, <2>2 DEF ReadDirectory, Shape, sessionVars
<1>4. CASE RestoreRoot(t)
  <2>1. thread' \in [Threads -> ThreadStates]
    BY <1>4, Moves DEF RestoreRoot
  <2>2. env' \in Roots
    BY <1>4, Records DEF RestoreRoot, Shape
  <2> QED BY <1>4, <2>1, <2>2 DEF RestoreRoot, Shape, clientVars, sessionVars
<1>5. CASE Created(t)
  <2>1. thread' \in [Threads -> ThreadStates]
    BY <1>5, Moves DEF Created
  <2>2. runtime' \in [Runtimes -> RuntimeStates]
    BY <1>5, AtRuntime, Changes DEF Created
  <2> QED BY <1>5, <2>1, <2>2 DEF Created, Shape, sessionVars
<1>6. CASE LoadConfig(t)
  <2>1. thread' \in [Threads -> ThreadStates]
    BY <1>6, Moves DEF LoadConfig
  <2>2. stateDir' \in [Runtimes -> Roots]
    BY <1>6, AtRuntime DEF LoadConfig, Shape, Roots
  <2> QED BY <1>6, <2>1, <2>2
          DEF LoadConfig, Overlaps, Shape, clientVars, sessionVars, Inside
<1> QED BY <1>1, <1>2, <1>3, <1>4, <1>5, <1>6 DEF RootStep

LEMMA BornFacts ==
  ASSUME Shape, Locked, NEW t \in Threads, thread[t].pc # "idle",
         NEW c \in Clients, NEW state \in {"live", "left"}, Born(c, t, state)
  PROVE  /\ client' \in [Clients -> ClientStates]
         /\ client[c].state = "unborn" /\ client[c].of = None
         /\ client'[c].state = state
         /\ client'[c].dir = At(t).dir /\ client'[c].of = thread[t].on
         /\ \A d \in Clients \ {c} : client'[d] = client[d]
<1>1. thread[t].on \in Runtimes /\ At(t).dir \in Roots
  BY AtRuntime, Records
<1> DEFINE k == [state |-> state, dir |-> At(t).dir, of |-> thread[t].on]
<1>2. k \in ClientStates
  BY <1>1 DEF ClientStates
<1>3. client' = [client EXCEPT ![c] = k] /\ client \in [Clients -> ClientStates]
  BY DEF Born, At, Shape
<1>4. client'[c] = k /\ client' \in [Clients -> ClientStates]
  BY <1>2, <1>3
<1>5. client[c].state = "unborn" /\ client[c].of = None
  BY DEF Born, Shape
<1> QED BY <1>3, <1>4, <1>5

(* What a client that is started has from its directory.                   *)
LEMMA Loads ==
  ASSUME Shape, NEW t \in Threads, StartClient(t)
  PROVE  \E c \in Clients :
           /\ Born(c, t, "live")
           /\ runtime' = [runtime EXCEPT
                ![thread[t].on] = [@ EXCEPT !.gmx = c, !.started = TRUE]]
           /\ boot' = [boot EXCEPT ![c].stage = IF Methods = {} THEN "done" ELSE "token"]
           /\ \/ UNCHANGED <<loggedIn, verified>>
              \/ /\ loggedIn' = loggedIn \union {c}
                 /\ verified' \in {verified, verified \union {c}}
           /\ meddled' = IF \E d \in Clients : client[d].of = thread[t].on /\ Bootstrapping(d)
                         THEN meddled \union {c} ELSE meddled
<1> DEFINE has(known) == \E d \in known : client[d].dir = runtime[thread[t].on].dir
<1>1. PICK c \in Clients :
        /\ Born(c, t, "live")
        /\ runtime' = [runtime EXCEPT
             ![thread[t].on] = [@ EXCEPT !.gmx = c, !.started = TRUE]]
        /\ boot' = [boot EXCEPT ![c].stage = IF Methods = {} THEN "done" ELSE "token"]
        /\ loggedIn' = IF has(loggedIn) THEN loggedIn \union {c} ELSE loggedIn
        /\ verified' = IF has(verified) THEN verified \union {c} ELSE verified
        /\ meddled' = IF \E d \in Clients : client[d].of = thread[t].on /\ Bootstrapping(d)
                      THEN meddled \union {c} ELSE meddled
  BY DEF StartClient
<1>2. has(verified) => has(loggedIn)
  BY DEF Shape
<1> HIDE DEF has
<1>3. \/ UNCHANGED <<loggedIn, verified>>
      \/ /\ loggedIn' = loggedIn \union {c}
         /\ verified' \in {verified, verified \union {c}}
  BY <1>1, <1>2
<1> QED BY <1>1, <1>3

LEMMA ShapeClient ==
  ASSUME Shape, Locked, Single, NEW t \in Threads, ClientStep(t)
  PROVE  Shape'
<1> USE LifecycleAssumption, StepNames
<1>1. CASE StartClient(t)
  <2>1. PICK c \in Clients :
          /\ Born(c, t, "live")
          /\ runtime' = [runtime EXCEPT ![thread[t].on] = [@ EXCEPT !.gmx = c, !.started = TRUE]]
          /\ boot' = [boot EXCEPT ![c].stage = IF Methods = {} THEN "done" ELSE "token"]
          /\ \/ UNCHANGED <<loggedIn, verified>>
             \/ /\ loggedIn' = loggedIn \union {c}
                /\ verified' \in {verified, verified \union {c}}
          /\ meddled' \in {meddled, meddled \union {c}}
    BY <1>1, Loads
  <2>2. thread' \in [Threads -> ThreadStates]
    BY <1>1, Moves DEF StartClient
  <2>3. runtime' \in [Runtimes -> RuntimeStates]
    BY <1>1, <2>1, AtRuntime, Changes DEF StartClient
  <2>4. /\ client' \in [Clients -> ClientStates]
        /\ \A d \in Clients : client'[d].state # "unborn" <=> client'[d].of # None
    <3>1. thread[t].pc # "idle" /\ thread[t].on # None
      BY <1>1, AtRuntime DEF StartClient
    <3>2. /\ client' \in [Clients -> ClientStates]
          /\ client'[c].state = "live" /\ client'[c].of = thread[t].on
          /\ \A d \in Clients \ {c} : client'[d] = client[d]
      BY <2>1, <3>1, BornFacts
    <3> QED BY <3>1, <3>2 DEF Shape
  <2>5. boot' \in [Clients -> [stage : Stages, asks : BOOLEAN]]
    BY <2>1 DEF Shape, Stages
  <2> QED BY <1>1, <2>1, <2>2, <2>3, <2>4, <2>5 DEF StartClient, Shape
<1>2. CASE StartFails(t)
  <2>1. thread' \in [Threads -> ThreadStates]
    BY <1>2, Moves DEF StartFails
  <2>2. runtime' \in [Runtimes -> RuntimeStates]
    BY <1>2, AtRuntime, Changes DEF StartFails
  <2>3. /\ client' \in [Clients -> ClientStates]
        /\ \A d \in Clients : client'[d].state # "unborn" <=> client'[d].of # None
    <3>1. CASE UNCHANGED client
      BY <3>1 DEF Shape
    <3>2. ASSUME NEW c \in Clients, Born(c, t, "left")
          PROVE  <2>3!2
      BY <1>2, <3>2, BornFacts, AtRuntime DEF StartFails, Shape
    <3>3. ASSUME NEW c \in Clients, Born(c, t, "left")
          PROVE  client' \in [Clients -> ClientStates]
      BY <1>2, <3>3, BornFacts DEF StartFails
    <3> QED BY <1>2, <3>1, <3>2, <3>3 DEF StartFails
  <2> QED BY <1>2, <2>1, <2>2, <2>3 DEF StartFails, Shape, sessionVars
<1>3. CASE StopClient(t)
  <2>1. thread' \in [Threads -> ThreadStates]
    BY <1>3, Moves DEF StopClient
  <2>2. /\ client' \in [Clients -> ClientStates]
        /\ \A d \in Clients : client'[d].state # "unborn" <=> client'[d].of # None
    <3> DEFINE g == runtime[thread[t].on].gmx
    <3>1. g \in Clients \/ UNCHANGED client
      BY <1>3, AtRuntime, Records DEF StopClient, Single, At
    <3>2. UNCHANGED client \/ client' = [client EXCEPT ![g].state = "stopped"]
      BY <1>3 DEF StopClient
    <3>3. ASSUME g \in Clients
          PROVE  /\ [client[g] EXCEPT !.state = "stopped"] \in ClientStates
                 /\ [client[g] EXCEPT !.state = "stopped"].of = client[g].of
                 /\ [client[g] EXCEPT !.state = "stopped"].state = "stopped"
      BY <3>3 DEF Shape, ClientStates
    <3>4. CASE UNCHANGED client
      BY <3>4 DEF Shape
    <3>5. CASE g \in Clients /\ client' = [client EXCEPT ![g].state = "stopped"]
      <4>1. client[g].of # None
        BY <1>3, <3>5, AtRuntime DEF StopClient, Single
      <4> QED BY <3>3, <3>5, <4>1 DEF Shape
    <3> QED BY <3>1, <3>2, <3>4, <3>5
  <2>3. stoppedOnce' \subseteq Runtimes
    BY <1>3, AtRuntime DEF StopClient, Shape
  <2> QED BY <1>3, <2>1, <2>2, <2>3 DEF StopClient, Shape, sessionVars
<1>4. CASE ClearClient(t)
  <2>1. thread' \in [Threads -> ThreadStates]
    BY <1>4, Moves DEF ClearClient
  <2>2. runtime' \in [Runtimes -> RuntimeStates]
    BY <1>4, AtRuntime, Changes DEF ClearClient
  <2> QED BY <1>4, <2>1, <2>2 DEF ClearClient, Shape, sessionVars
<1> QED BY <1>1, <1>2, <1>3, <1>4 DEF ClientStep

LEMMA ShapeUse ==
  ASSUME Shape, Locked, NEW t \in Threads, UseStep(t)
  PROVE  Shape'
<1> USE LifecycleAssumption
<1>1. CASE UseClient(t)
  <2>1. thread' \in [Threads -> ThreadStates]
    BY <1>1, Moves DEF UseClient, Used
  <2>2. runtime[thread[t].on].gmx \in Clients \union {None}
    BY <1>1, AtRuntime, Records DEF UseClient, At
  <2>3. /\ loggedIn' \subseteq Clients /\ verified' \subseteq loggedIn'
        /\ meddled' \subseteq Clients
    BY <1>1, <2>2 DEF UseClient, Shape
  <2> QED BY <1>1, <2>1, <2>3 DEF UseClient, Used, Shape
<1>2. CASE Subscribe(t)
  <2>1. thread' \in [Threads -> ThreadStates]
    BY <1>2, Moves DEF Subscribe, Used
  <2>2. runtime[thread[t].on].gmx \in Clients \union {None} /\ thread[t].on \in Runtimes
    BY <1>2, AtRuntime, Records DEF Subscribe, At
  <2>3. runtime' \in [Runtimes -> RuntimeStates]
    BY <1>2, <2>2, Changes DEF Subscribe, Shape
  <2> QED BY <1>2, <2>1, <2>3 DEF Subscribe, Used, Shape
<1> QED BY <1>1, <1>2 DEF UseStep

LEMMA ShapeThread ==
  ASSUME Shape, Locked, Single, NEW t \in Threads, ThreadStep(t)
  PROVE  Shape'
BY ShapeLock, ShapeRoot, ShapeClient, ShapeUse DEF ThreadStep

(* A client whose bootstrap goes on has a runtime.                         *)
LEMMA BootOf ==
  ASSUME Shape, Sessions, NEW c \in Clients, Bootstrapping(c)
  PROVE  client[c].state # "unborn" /\ client[c].of \in Runtimes
<1>1. client[c].state # "unborn"
  BY DEF Sessions, Bootstrapping
<1>2. client[c] \in ClientStates
  BY DEF Shape
<1>3. client[c].of \in Runtimes \union {None}
  BY <1>2 DEF ClientStates
<1> QED BY <1>1, <1>3 DEF Shape

LEMMA ShapeBoot ==
  ASSUME Shape, Sessions, NEW c \in Clients, BootStep(c)
  PROVE  Shape'
<1>1. UNCHANGED <<env, overlapped, stateDir, thread, calls, clientVars, stoppedOnce>>
  BY DEF BootStep, BootCheck, BootAsk, BootUnchanged
<1>2. boot' \in [Clients -> [stage : Stages, asks : BOOLEAN]]
  <2>1. boot[c] \in [stage : Stages, asks : BOOLEAN]
    BY DEF Shape
  <2>2. Bootstrapping(c)
    BY DEF BootStep, BootCheck, BootAsk
  <2>3. After(boot[c].stage) \in Stages
    BY <2>2 DEF Bootstrapping, After, Stages
  <2>4. Continues(c) => boot' \in [Clients -> [stage : Stages, asks : BOOLEAN]]
    BY <2>3 DEF Continues, Shape
  <2>5. GivesUp(c) => boot' \in [Clients -> [stage : Stages, asks : BOOLEAN]]
    BY DEF GivesUp, Shape, Stages
  <2>6. boot' = [boot EXCEPT ![c].asks = TRUE]
          => boot' \in [Clients -> [stage : Stages, asks : BOOLEAN]]
    BY DEF Shape
  <2> QED BY <2>4, <2>5, <2>6 DEF BootStep, BootCheck, BootAsk
<1>3. /\ loggedIn' \subseteq Clients /\ verified' \subseteq loggedIn'
      /\ doubled' \subseteq Clients /\ UNCHANGED meddled
  <2>1. CASE BootCheck(c)
    BY <2>1 DEF BootCheck, Shape
  <2>2. CASE BootAsk(c)
    <3>1. client[c].of \in Runtimes
      BY <2>2, BootOf DEF BootAsk
    <3>2. runtime[client[c].of].gmx \in Clients \union {None}
      BY <3>1, Records DEF Shape
    <3> QED BY <2>2, <3>2 DEF BootAsk, Shape
  <2> QED BY <2>1, <2>2 DEF BootStep
<1> QED BY <1>1, <1>2, <1>3 DEF Shape, clientVars
-----------------------------------------------------------------------------
(* What a step leaves of a runtime.                                        *)

SetsLock(r, v) == runtime' = [runtime EXCEPT ![r].lock = v]
SetsDir(r, v) == runtime' = [runtime EXCEPT ![r].dir = v]
SetsMade(r, v) == runtime' = [runtime EXCEPT ![r].made = v]
SetsListens(r, v) == runtime' = [runtime EXCEPT ![r].listens = v]
SetsClient(r, v, b) ==
  runtime' = [runtime EXCEPT ![r] = [@ EXCEPT !.gmx = v, !.started = b]]
Elsewhere(r) == \A q \in Runtimes \ {r} : runtime'[q] = runtime[q]

(* Which actions do which.                                                 *)
LEMMA Sets ==
  ASSUME NEW t \in Threads
  PROVE  LET r == thread[t].on
         IN /\ Lock(t) => SetsLock(r, t)
            /\ Unlock(t) => SetsLock(r, None)
            /\ ReadDirectory(t) => SetsDir(r, env)
            /\ Created(t) => SetsMade(r, TRUE)
            /\ StartFails(t) => SetsLock(r, None)
            /\ ClearClient(t) => SetsClient(r, None, FALSE)
            /\ StartClient(t) => \E c \in Clients : SetsClient(r, c, TRUE)
            /\ Subscribe(t) => \/ UNCHANGED runtime
                              \/ SetsListens(r, IF runtime[r].gmx = None THEN Failed
                                               ELSE runtime[r].gmx)
BY DEF Lock, Unlock, ReadDirectory, Created, StartFails, ClearClient, StartClient, Subscribe,
       SetsLock, SetsDir, SetsMade, SetsListens, SetsClient

LEMMA Fields ==
  ASSUME Shape, NEW r \in Runtimes
  PROVE  /\ \A v : SetsLock(r, v) =>
              /\ Elsewhere(r) /\ runtime'[r].lock = v
              /\ runtime'[r].made = runtime[r].made
              /\ runtime'[r].dir = runtime[r].dir
              /\ runtime'[r].started = runtime[r].started
              /\ runtime'[r].gmx = runtime[r].gmx
              /\ runtime'[r].listens = runtime[r].listens
         /\ \A v : SetsDir(r, v) =>
              /\ Elsewhere(r) /\ runtime'[r].dir = v
              /\ runtime'[r].made = runtime[r].made
              /\ runtime'[r].lock = runtime[r].lock
              /\ runtime'[r].started = runtime[r].started
              /\ runtime'[r].gmx = runtime[r].gmx
              /\ runtime'[r].listens = runtime[r].listens
         /\ \A v : SetsMade(r, v) =>
              /\ Elsewhere(r) /\ runtime'[r].made = v
              /\ runtime'[r].dir = runtime[r].dir
              /\ runtime'[r].lock = runtime[r].lock
              /\ runtime'[r].started = runtime[r].started
              /\ runtime'[r].gmx = runtime[r].gmx
              /\ runtime'[r].listens = runtime[r].listens
         /\ \A v : SetsListens(r, v) =>
              /\ Elsewhere(r) /\ runtime'[r].listens = v
              /\ runtime'[r].made = runtime[r].made
              /\ runtime'[r].dir = runtime[r].dir
              /\ runtime'[r].lock = runtime[r].lock
              /\ runtime'[r].started = runtime[r].started
              /\ runtime'[r].gmx = runtime[r].gmx
         /\ \A v, b : SetsClient(r, v, b) =>
              /\ Elsewhere(r) /\ runtime'[r].gmx = v /\ runtime'[r].started = b
              /\ runtime'[r].made = runtime[r].made
              /\ runtime'[r].dir = runtime[r].dir
              /\ runtime'[r].lock = runtime[r].lock
              /\ runtime'[r].listens = runtime[r].listens
<1>1. \A x : runtime' = [runtime EXCEPT ![r] = x] => Elsewhere(r) /\ runtime'[r] = x
  BY DEF Shape, Elsewhere
<1>2. runtime[r] \in RuntimeStates
  BY DEF Shape
<1> DEFINE k == runtime[r]
<1>3. \A v : /\ [k EXCEPT !.lock = v].lock = v /\ [k EXCEPT !.lock = v].made = k.made
             /\ [k EXCEPT !.lock = v].dir = k.dir /\ [k EXCEPT !.lock = v].started = k.started
             /\ [k EXCEPT !.lock = v].gmx = k.gmx
             /\ [k EXCEPT !.lock = v].listens = k.listens
  BY <1>2 DEF RuntimeStates
<1>4. \A v : /\ [k EXCEPT !.dir = v].dir = v /\ [k EXCEPT !.dir = v].made = k.made
             /\ [k EXCEPT !.dir = v].lock = k.lock /\ [k EXCEPT !.dir = v].started = k.started
             /\ [k EXCEPT !.dir = v].gmx = k.gmx
             /\ [k EXCEPT !.dir = v].listens = k.listens
  BY <1>2 DEF RuntimeStates
<1>5. \A v : /\ [k EXCEPT !.made = v].made = v /\ [k EXCEPT !.made = v].dir = k.dir
             /\ [k EXCEPT !.made = v].lock = k.lock /\ [k EXCEPT !.made = v].started = k.started
             /\ [k EXCEPT !.made = v].gmx = k.gmx
             /\ [k EXCEPT !.made = v].listens = k.listens
  BY <1>2 DEF RuntimeStates
<1>6. \A v : /\ [k EXCEPT !.listens = v].listens = v /\ [k EXCEPT !.listens = v].dir = k.dir
             /\ [k EXCEPT !.listens = v].lock = k.lock
             /\ [k EXCEPT !.listens = v].started = k.started
             /\ [k EXCEPT !.listens = v].gmx = k.gmx
             /\ [k EXCEPT !.listens = v].made = k.made
  BY <1>2 DEF RuntimeStates
<1>7. \A v, b : LET x == [k EXCEPT !.gmx = v, !.started = b]
                IN /\ x.gmx = v /\ x.started = b /\ x.made = k.made /\ x.dir = k.dir
                   /\ x.lock = k.lock /\ x.listens = k.listens
  BY <1>2 DEF RuntimeStates
<1>8. ASSUME NEW v, SetsLock(r, v)
      PROVE  /\ Elsewhere(r) /\ runtime'[r].lock = v
             /\ runtime'[r].made = runtime[r].made
             /\ runtime'[r].dir = runtime[r].dir
             /\ runtime'[r].started = runtime[r].started
             /\ runtime'[r].gmx = runtime[r].gmx
             /\ runtime'[r].listens = runtime[r].listens
  BY <1>1, <1>3, <1>8 DEF SetsLock
<1>9. ASSUME NEW v, SetsDir(r, v)
      PROVE  /\ Elsewhere(r) /\ runtime'[r].dir = v
             /\ runtime'[r].made = runtime[r].made
             /\ runtime'[r].lock = runtime[r].lock
             /\ runtime'[r].started = runtime[r].started
             /\ runtime'[r].gmx = runtime[r].gmx
             /\ runtime'[r].listens = runtime[r].listens
  BY <1>1, <1>4, <1>9 DEF SetsDir
<1>10. ASSUME NEW v, SetsMade(r, v)
       PROVE  /\ Elsewhere(r) /\ runtime'[r].made = v
              /\ runtime'[r].dir = runtime[r].dir
              /\ runtime'[r].lock = runtime[r].lock
              /\ runtime'[r].started = runtime[r].started
              /\ runtime'[r].gmx = runtime[r].gmx
              /\ runtime'[r].listens = runtime[r].listens
  BY <1>1, <1>5, <1>10 DEF SetsMade
<1>11. ASSUME NEW v, SetsListens(r, v)
       PROVE  /\ Elsewhere(r) /\ runtime'[r].listens = v
              /\ runtime'[r].made = runtime[r].made
              /\ runtime'[r].dir = runtime[r].dir
              /\ runtime'[r].lock = runtime[r].lock
              /\ runtime'[r].started = runtime[r].started
              /\ runtime'[r].gmx = runtime[r].gmx
  BY <1>1, <1>6, <1>11 DEF SetsListens
<1>12. ASSUME NEW v, NEW b, SetsClient(r, v, b)
       PROVE  /\ Elsewhere(r) /\ runtime'[r].gmx = v /\ runtime'[r].started = b
              /\ runtime'[r].made = runtime[r].made
              /\ runtime'[r].dir = runtime[r].dir
              /\ runtime'[r].lock = runtime[r].lock
              /\ runtime'[r].listens = runtime[r].listens
  <2> DEFINE x == [k EXCEPT !.gmx = v, !.started = b]
  <2>1. /\ x.gmx = v /\ x.started = b /\ x.made = k.made /\ x.dir = k.dir
        /\ x.lock = k.lock /\ x.listens = k.listens
    BY <1>7
  <2>2. runtime' = [runtime EXCEPT ![r] = x]
    BY <1>12 DEF SetsClient
  <2> HIDE DEF x
  <2>3. Elsewhere(r) /\ runtime'[r] = x
    BY <1>1, <2>2
  <2> QED BY <2>1, <2>3
<1> QED BY <1>8, <1>9, <1>10, <1>11, <1>12
-----------------------------------------------------------------------------
(* Locked is kept.                                                         *)

LEMMA LockedKept ==
  ASSUME Locked, NEW t \in Threads,
         \A s \in Threads \ {t} :
           /\ thread'[s] = thread[s]
           /\ thread[s].on \in Runtimes =>
                /\ runtime'[thread[s].on].made = runtime[thread[s].on].made
                /\ Holding(s) => runtime'[thread[s].on].lock = s,
         thread'[t].on \in {thread[t].on, None},
         (Placed(t) /\ (Holding(t) => At(t).lock = t))'
  PROVE  Locked'
<1> USE LifecycleAssumption
<1> SUFFICES ASSUME NEW s \in Threads \ {t}
             PROVE  (Placed(s) /\ (Holding(s) => At(s).lock = s))'
  BY DEF Locked
<1>1. Placed(s) /\ thread'[s] = thread[s]
  BY DEF Locked
<1>2. CASE thread[s].pc = "idle"
  BY <1>1, <1>2 DEF Placed, Holding, Starting
<1>3. CASE thread[s].pc # "idle"
  <2>1. thread[s].on \in Runtimes
    BY <1>1, <1>3 DEF Placed
  <2>2. At(s)'.made = At(s).made
    BY <1>1, <2>1 DEF At
  <2>3. \A q \in Threads \ {s} : thread'[q].on # thread[q].on => thread'[q].on \notin Runtimes
    OBVIOUS
  <2>4. Placed(s)'
    BY <1>1, <1>3, <2>1, <2>2, <2>3 DEF Placed
  <2>5. Holding(s)' => At(s)'.lock = s
    BY <1>1, <2>1 DEF At, Holding, Starting
  <2> QED BY <2>4, <2>5
<1> QED BY <1>2, <1>3

(* Nobody else holds the lock of a runtime that is unlocked, or is t's.    *)
LEMMA NobodyElse ==
  ASSUME Shape, Locked, NEW t \in Threads, thread[t].on \in Runtimes,
         At(t).lock \in {t, None}
  PROVE  \A s \in Threads \ {t} : Holding(s) => thread[s].on # thread[t].on
BY LifecycleAssumption DEF Locked, At
LEMMA LockedLock ==
  ASSUME Shape, Locked, NEW t \in Threads, LockStep(t)
  PROVE  Locked'
<1> USE LifecycleAssumption
<1>1. CASE Call(t)
  <2>1. PICK r \in Runtimes, call \in Calls :
          /\ IF call = "create" THEN ~runtime[r].made /\ \A s \in Threads : thread[s].on # r
             ELSE runtime[r].made
          /\ thread' = [thread EXCEPT ![t] =
               [call |-> call, pc |-> FirstStep(call), on |-> r, saved |-> Unset]]
    BY <1>1 DEF Call, Calls
  <2>2. /\ thread'[t].call = call /\ thread'[t].pc = FirstStep(call) /\ thread'[t].on = r
        /\ \A s \in Threads \ {t} : thread'[s] = thread[s]
    BY <2>1 DEF Shape
  <2>3. runtime' = runtime
    BY <1>1 DEF Call, clientVars
  <2>4. Placed(t)' /\ ~Holding(t)'
    BY <2>1, <2>2, <2>3 DEF Placed, Holding, Starting, At, FirstStep
  <2>5. ASSUME NEW s \in Threads \ {t}
        PROVE  (Placed(s) /\ (Holding(s) => At(s).lock = s))'
    <3>1. Placed(s) /\ (Holding(s) => At(s).lock = s)
      BY DEF Locked
    <3>2. thread[s].call = "create" /\ thread[s].pc # "idle" => thread[s].on # r
      <4>1. thread[s].on = r => call # "create"
        BY <2>1
      <4>2. thread[s].call = "create" /\ thread[s].pc # "idle" => ~runtime[thread[s].on].made
        BY <3>1 DEF Placed, At
      <4> QED BY <2>1, <4>1, <4>2
    <3>3. Placed(s)'
      BY <2>2, <2>3, <3>1, <3>2 DEF Placed, At
    <3> QED BY <2>2, <2>3, <3>1, <3>3 DEF Holding, Starting, At
  <2> QED BY <2>4, <2>5 DEF Locked
<1>2. CASE Lock(t)
  <2> DEFINE r == thread[t].on
  <2>1. /\ thread[t].pc = "lock" /\ r \in Runtimes /\ At(t).lock = None /\ Placed(t)
    BY <1>2, AtRuntime DEF Lock, At, Locked
  <2>2. /\ Elsewhere(r) /\ runtime'[r].lock = t /\ runtime'[r].made = runtime[r].made
    <3>1. SetsLock(r, t)
      BY <1>2, Sets
    <3> QED BY <2>1, <3>1, Fields
  <2>3. /\ thread'[t].pc \in {"stop", "unlock", "root"} /\ thread'[t].on = r
        /\ thread'[t].call = thread[t].call
        /\ thread'[t].pc = "stop" => thread[t].call = "stop"
        /\ \A s \in Threads \ {t} : thread'[s] = thread[s]
    BY <1>2, Moves, StepNames DEF Lock, AfterLock
  <2>4. (Placed(t) /\ (Holding(t) => At(t).lock = t))'
    BY <2>1, <2>2, <2>3 DEF Placed, At
  <2>5. \A s \in Threads \ {t} : Holding(s) => thread[s].on # r
    BY <2>1, NobodyElse
  <2>6. \A s \in Threads : Holding(s) => At(s).lock = s
    BY DEF Locked
  <2> QED BY <2>2, <2>3, <2>4, <2>5, <2>6, LockedKept DEF Elsewhere, At
<1>3. CASE Unlock(t)
  <2> DEFINE r == thread[t].on
  <2>1. /\ thread[t].pc = "unlock" /\ r \in Runtimes /\ At(t).lock = t /\ Placed(t)
    BY <1>3, AtRuntime DEF Unlock, Locked, Holding
  <2>2. /\ Elsewhere(r) /\ runtime'[r].made = runtime[r].made
    BY <1>3, <2>1, Sets, Fields
  <2>3. /\ \/ thread'[t].pc = "idle" /\ thread'[t].on = None
           \/ /\ thread'[t].pc = "use" /\ thread'[t].on = r
              /\ thread'[t].call = thread[t].call /\ thread[t].call \in {"request", "open"}
        /\ \A s \in Threads \ {t} : thread'[s] = thread[s]
    BY <1>3, Moves, StepNames DEF Unlock
  <2>4. (Placed(t) /\ (Holding(t) => At(t).lock = t))'
    BY <2>1, <2>2, <2>3 DEF Placed, At, Holding, Starting
  <2>5. \A s \in Threads \ {t} : Holding(s) => thread[s].on # r
    BY <2>1, NobodyElse
  <2>6. \A s \in Threads : Holding(s) => At(s).lock = s
    BY DEF Locked
  <2> QED BY <2>2, <2>3, <2>4, <2>5, <2>6, LockedKept DEF Elsewhere, At
<1> QED BY <1>1, <1>2, <1>3 DEF LockStep

LEMMA LockedRoot ==
  ASSUME Shape, Locked, NEW t \in Threads, RootStep(t)
  PROVE  Locked'
<1> USE LifecycleAssumption
<1> DEFINE r == thread[t].on
<1>1. /\ r \in Runtimes /\ Placed(t) /\ thread[t].call \in Calls
      /\ thread[t].pc \notin {"load", "created"} => (Holding(t) <=> thread[t].call # "create")
      /\ thread[t].pc = "load" => ~Holding(t) /\ thread[t].call = "create"
      /\ thread[t].pc \in {"load", "root", "set", "read", "restore", "created"}
      /\ Holding(t) => At(t).lock = t
  BY AtRuntime DEF RootStep, LoadConfig, SaveRoot, SetRoot, ReadDirectory, RestoreRoot, Created,
                   Locked, Placed, Holding, Starting
<1>2. \A s \in Threads : Holding(s) => At(s).lock = s
  BY DEF Locked
<1>3. CASE Created(t)
  <2>1. Elsewhere(r) /\ runtime'[r].lock = runtime[r].lock
    BY <1>1, <1>3, Sets, Fields
  <2>2. /\ thread'[t].pc = "idle" /\ thread'[t].on = None
        /\ \A s \in Threads \ {t} : thread'[s] = thread[s] /\ thread[s].on # r
    BY <1>1, <1>3, Moves DEF Created, Placed
  <2>3. (Placed(t) /\ (Holding(t) => At(t).lock = t))'
    BY <2>2 DEF Placed, Holding, Starting
  <2> QED BY <1>2, <2>1, <2>2, <2>3, LockedKept DEF Elsewhere, At
<1>4. CASE ~Created(t)
  <2>1. /\ thread'[t].pc \in {"root", "set", "read", "restore", "created", "client"}
        /\ thread'[t].on = r /\ thread'[t].call = thread[t].call
        /\ \A s \in Threads \ {t} : thread'[s] = thread[s]
        /\ thread'[t].pc = "created" => thread[t].call = "create"
        /\ thread'[t].pc = "client" => thread[t].call # "create"
    <3>1. CASE SaveRoot(t)
      <4>1. thread \in [Threads -> ThreadStates]
        BY DEF Shape
      <4>2. thread'[t] = [thread[t] EXCEPT !.saved = env,
                            !.pc = IF stateDir[r] = Unset THEN "read" ELSE "set"]
        BY <3>1, <4>1 DEF SaveRoot
      <4>3. /\ thread'[t].on = r /\ thread'[t].call = thread[t].call
            /\ thread'[t].pc \in {"set", "read"}
        BY <4>1, <4>2 DEF ThreadStates
      <4>4. \A s \in Threads \ {t} : thread'[s] = thread[s]
        BY <3>1, <4>1 DEF SaveRoot
      <4> QED BY <4>3, <4>4
    <3>2. CASE SetRoot(t)
      BY <3>2, Moves, StepNames DEF SetRoot
    <3>3. CASE ReadDirectory(t)
      BY <3>3, Moves, StepNames DEF ReadDirectory, AfterRoot
    <3>4. CASE RestoreRoot(t)
      BY <3>4, Moves, StepNames DEF RestoreRoot, AfterRoot
    <3>5. CASE LoadConfig(t)
      BY <3>5, Moves, StepNames DEF LoadConfig
    <3> QED BY <1>4, <3>1, <3>2, <3>3, <3>4, <3>5 DEF RootStep
  <2>2. \A q \in Runtimes : /\ runtime'[q].made = runtime[q].made
                            /\ runtime'[q].lock = runtime[q].lock
    <3>1. CASE ReadDirectory(t)
      <4>1. SetsDir(r, env)
        BY <3>1, Sets
      <4> QED BY <1>1, <4>1, Fields DEF Elsewhere
    <3> QED BY <1>4, <3>1 DEF RootStep, LoadConfig, SaveRoot, SetRoot, RestoreRoot, clientVars
  <2>3. thread[t].pc # "created"
    BY <1>4 DEF RootStep, LoadConfig, SaveRoot, SetRoot, ReadDirectory, RestoreRoot
  <2>4. Placed(t)'
    BY <1>1, <2>1, <2>2 DEF Placed, At
  <2>5. (Holding(t) => At(t).lock = t)'
    BY <1>1, <2>1, <2>2, <2>3 DEF Holding, Starting, At
  <2> QED BY <1>2, <2>1, <2>2, <2>4, <2>5, LockedKept DEF At
<1> QED BY <1>3, <1>4

LEMMA LockedClient ==
  ASSUME Shape, Locked, NEW t \in Threads, ClientStep(t)
  PROVE  Locked'
<1> USE LifecycleAssumption
<1> DEFINE r == thread[t].on
<1>1. /\ r \in Runtimes /\ Placed(t) /\ thread[t].call \in Calls
      /\ thread[t].pc \in {"client", "stop", "clear"} /\ thread[t].call # "create"
      /\ At(t).lock = t
  <2>1. thread[t].pc \in {"client", "stop", "clear"}
    BY DEF ClientStep, StartClient, StartFails, StopClient, ClearClient
  <2>2. Placed(t) /\ thread[t].call # "create"
    BY <2>1 DEF Locked, Placed
  <2> QED BY <2>1, <2>2, AtRuntime DEF Locked, Holding, Starting
<1>2. \A s \in Threads : Holding(s) => At(s).lock = s
  BY DEF Locked
<1>3. \A s \in Threads \ {t} : Holding(s) => thread[s].on # r
  BY <1>1, NobodyElse
<1>4. CASE StartFails(t)
  <2>1. Elsewhere(r) /\ runtime'[r].made = runtime[r].made
    BY <1>1, <1>4, Sets, Fields
  <2>2. /\ thread'[t].pc = "idle" /\ thread'[t].on = None
        /\ \A s \in Threads \ {t} : thread'[s] = thread[s]
    BY <1>4, Moves DEF StartFails
  <2>3. (Placed(t) /\ (Holding(t) => At(t).lock = t))'
    BY <2>2 DEF Placed, Holding, Starting
  <2> QED BY <1>2, <1>3, <2>1, <2>2, <2>3, LockedKept DEF Elsewhere, At
<1>5. CASE ~StartFails(t)
  <2>1. \A q \in Runtimes : /\ runtime'[q].made = runtime[q].made
                            /\ runtime'[q].lock = runtime[q].lock
    <3>1. CASE StartClient(t)
      <4>1. PICK c \in Clients : SetsClient(r, c, TRUE)
        BY <3>1, Sets
      <4> QED BY <1>1, <4>1, Fields DEF Elsewhere
    <3>2. CASE ClearClient(t)
      <4>1. SetsClient(r, None, FALSE)
        BY <3>2, Sets
      <4> QED BY <1>1, <4>1, Fields DEF Elsewhere
    <3> QED BY <1>5, <3>1, <3>2 DEF ClientStep, StopClient
  <2>2. /\ thread'[t].pc \in {"unlock", "clear"}
        /\ thread'[t].pc = "clear" => thread[t].pc = "stop"
        /\ thread'[t].on = r /\ thread'[t].call = thread[t].call
        /\ \A s \in Threads \ {t} : thread'[s] = thread[s]
    BY <1>5, Moves, StepNames DEF ClientStep, StartClient, StopClient, ClearClient
  <2>3. (Placed(t) /\ (Holding(t) => At(t).lock = t))'
    BY <1>1, <2>1, <2>2 DEF Placed, At
  <2> QED BY <1>2, <2>1, <2>2, <2>3, LockedKept DEF At
<1> QED BY <1>4, <1>5

LEMMA LockedUse ==
  ASSUME Shape, Locked, NEW t \in Threads, UseStep(t)
  PROVE  Locked'
<1> USE LifecycleAssumption
<1>1. thread[t].pc = "use" /\ thread[t].on \in Runtimes
  BY AtRuntime DEF UseStep, UseClient, Subscribe
<1>2. \A q \in Runtimes : /\ runtime'[q].made = runtime[q].made
                          /\ runtime'[q].lock = runtime[q].lock
  <2>1. CASE runtime' = runtime
    BY <2>1
  <2>2. CASE runtime' # runtime
    <3>1. PICK v : SetsListens(thread[t].on, v)
      BY <2>2, Sets DEF UseStep, UseClient
    <3> QED BY <1>1, <3>1, Fields DEF Elsewhere
  <2> QED BY <2>1, <2>2
<1>3. /\ thread'[t].pc = "idle" /\ thread'[t].on = None
      /\ \A s \in Threads \ {t} : thread'[s] = thread[s]
  BY Moves DEF UseStep, UseClient, Subscribe, Used
<1>4. (Placed(t) /\ (Holding(t) => At(t).lock = t))'
  BY <1>3 DEF Placed, Holding, Starting
<1>5. \A s \in Threads : Holding(s) => At(s).lock = s
  BY DEF Locked
<1> QED BY <1>2, <1>3, <1>4, <1>5, LockedKept DEF At

LEMMA LockedThread ==
  ASSUME Shape, Locked, NEW t \in Threads, ThreadStep(t)
  PROVE  Locked'
BY LockedLock, LockedRoot, LockedClient, LockedUse DEF ThreadStep

(* A step of a bootstrap, or none, changes no thread and no runtime.       *)
LEMMA LockedBoot ==
  ASSUME Locked, UNCHANGED <<thread, runtime>>
  PROVE  Locked'
BY DEF Locked, Placed, Holding, Starting, At
-----------------------------------------------------------------------------
(* Rooted is kept.                                                         *)

SameDirs == \A q \in Runtimes : runtime'[q].dir = runtime[q].dir
SameMade == \A q \in Runtimes : runtime'[q].made = runtime[q].made
OwnStates == \A q \in Runtimes : runtime[q].made => stateDir[q] = Root[q]
(* A thread that has a runtime's configuration stays, ends, or calls one   *)
(* that is made.                                                           *)
Stays(t) ==
  \/ thread'[t].pc \in {"idle", "load"}
  \/ thread'[t].on = thread[t].on /\ thread[t].pc \notin {"idle", "load"}
  \/ thread'[t].on \in Runtimes /\ runtime[thread'[t].on].made
SameOthers(t) == \A s \in Threads \ {t} : thread'[s] = thread[s]
OwnDirs == \A c \in Clients : client[c].of # None => client[c].dir = Root[client[c].of]

(* A step outside of the look-ups.                                         *)
LEMMA RootedOutside ==
  ASSUME Shape, Locked, Rooted, NEW t \in Threads, UNCHANGED <<env, overlapped, stateDir>>,
         SameOthers(t), SameDirs, ~Inside(t), ~Inside(t)', thread'[t].pc # "client",
         Stays(t), ~overlapped => OwnDirs' /\ OwnStates'
  PROVE  Rooted'
<1> SUFFICES ASSUME ~overlapped
             PROVE  /\ \A s \in Threads : Looking(s)'
                    /\ (\A s \in Threads : ~Inside(s)') => env' = Unset
  BY DEF Rooted, OwnDirs, OwnStates
<1>1. \A s \in Threads : Inside(s)' <=> Inside(s)
  BY DEF SameOthers, Inside
<1>2. Looking(t)'
  <2>1. thread'[t].pc \notin {"idle", "load"} => stateDir[thread'[t].on] = Root[thread'[t].on]
    BY DEF Stays, Rooted, Looking
  <2> QED BY <1>1, <2>1 DEF Looking, Inside
<1>3. ASSUME NEW s \in Threads \ {t}
      PROVE  Looking(s)'
  <2>1. Looking(s) /\ thread'[s] = thread[s]
    BY DEF Rooted, SameOthers
  <2>2. thread[s].pc # "idle" => At(s)'.dir = At(s).dir
    BY <2>1, AtRuntime DEF At, SameDirs
  <2> QED BY <1>1, <2>1, <2>2 DEF Looking, Inside
<1> QED BY <1>1, <1>2, <1>3 DEF Rooted

LEMMA RootedLock ==
  ASSUME Shape, Locked, Rooted, NEW t \in Threads, LockStep(t)
  PROVE  Rooted'
<1>1. UNCHANGED <<env, overlapped, stateDir, client>> /\ ~Inside(t)
  BY DEF LockStep, Call, Lock, Unlock, clientVars, Inside
<1>2. SameOthers(t) /\ ~Inside(t)' /\ thread'[t].pc # "client" /\ Stays(t)
  <2>1. CASE Call(t)
    <3>1. PICK r \in Runtimes, call \in Calls :
            /\ thread' = [thread EXCEPT ![t] =
                 [call |-> call, pc |-> FirstStep(call), on |-> r, saved |-> Unset]]
            /\ call # "create" => runtime[r].made
      BY <2>1 DEF Call, Calls
    <3> QED BY <3>1 DEF Shape, SameOthers, Inside, FirstStep, Stays
  <2>2. CASE Lock(t)
    BY <2>2, Moves, StepNames DEF Lock, AfterLock, SameOthers, Inside, Stays
  <2>3. CASE Unlock(t)
    BY <2>3, Moves, StepNames DEF Unlock, SameOthers, Inside, Stays
  <2> QED BY <2>1, <2>2, <2>3 DEF LockStep
<1>3. SameDirs /\ SameMade
  <2>1. CASE UNCHANGED runtime
    BY <2>1 DEF SameDirs, SameMade
  <2>2. CASE ~UNCHANGED runtime
    <3>1. PICK v : SetsLock(thread[t].on, v)
      BY <2>2, Sets DEF LockStep, Call, clientVars
    <3>2. thread[t].on \in Runtimes
      BY <2>2, AtRuntime DEF LockStep, Call, Lock, Unlock, clientVars
    <3> QED BY <3>1, <3>2, Fields DEF Elsewhere, SameDirs, SameMade
  <2> QED BY <2>1, <2>2
<1>4. ~overlapped => OwnDirs' /\ OwnStates'
  BY <1>1, <1>3 DEF Rooted, OwnDirs, OwnStates, SameMade
<1> QED BY <1>1, <1>2, <1>3, <1>4, RootedOutside

LEMMA RootedUse ==
  ASSUME Shape, Locked, Rooted, NEW t \in Threads, UseStep(t)
  PROVE  Rooted'
<1>1. /\ UNCHANGED <<env, overlapped, stateDir, client>>
      /\ thread[t].pc = "use" /\ thread[t].on \in Runtimes
  BY AtRuntime DEF UseStep, UseClient, Subscribe, Used
<1>2. SameOthers(t) /\ ~Inside(t) /\ ~Inside(t)' /\ thread'[t].pc # "client" /\ Stays(t)
  BY <1>1, Moves DEF UseStep, UseClient, Subscribe, Used, SameOthers, Inside, Stays
<1>3. SameDirs /\ SameMade
  <2>1. CASE UNCHANGED runtime
    BY <2>1 DEF SameDirs, SameMade
  <2>2. CASE ~UNCHANGED runtime
    <3>1. PICK v : SetsListens(thread[t].on, v)
      BY <2>2, Sets DEF UseStep, UseClient
    <3> QED BY <1>1, <3>1, Fields DEF Elsewhere, SameDirs, SameMade
  <2> QED BY <2>1, <2>2
<1>4. ~overlapped => OwnDirs' /\ OwnStates'
  BY <1>1, <1>3 DEF Rooted, OwnDirs, OwnStates, SameMade
<1> QED BY <1>1, <1>2, <1>3, <1>4, RootedOutside

LEMMA RootedClient ==
  ASSUME Shape, Locked, Single, Rooted, NEW t \in Threads, ClientStep(t)
  PROVE  Rooted'
<1> DEFINE r == thread[t].on
<1>1. /\ UNCHANGED <<env, overlapped, stateDir>>
      /\ thread[t].pc \in {"client", "stop", "clear"} /\ r \in Runtimes
  BY AtRuntime DEF ClientStep, StartClient, StartFails, StopClient, ClearClient
<1>2. SameOthers(t) /\ ~Inside(t) /\ ~Inside(t)' /\ thread'[t].pc # "client" /\ Stays(t)
  BY <1>1, Moves, StepNames DEF ClientStep, StartClient, StartFails, StopClient, ClearClient,
     SameOthers, Inside, Stays
<1>3. SameDirs /\ SameMade
  <2>1. CASE StartClient(t)
    <3>1. PICK c \in Clients : SetsClient(r, c, TRUE)
      BY <2>1, Sets
    <3> QED BY <1>1, <3>1, Fields DEF Elsewhere, SameDirs, SameMade
  <2>2. CASE StartFails(t)
    <3>1. SetsLock(r, None)
      BY <2>2, Sets
    <3> QED BY <1>1, <3>1, Fields DEF Elsewhere, SameDirs, SameMade
  <2>3. CASE StopClient(t)
    BY <2>3 DEF StopClient, SameDirs, SameMade
  <2>4. CASE ClearClient(t)
    <3>1. SetsClient(r, None, FALSE)
      BY <2>4, Sets
    <3> QED BY <1>1, <3>1, Fields DEF Elsewhere, SameDirs, SameMade
  <2> QED BY <2>1, <2>2, <2>3, <2>4 DEF ClientStep
<1>4. ASSUME ~overlapped
      PROVE  OwnDirs'
  <2>1. OwnDirs
    BY <1>4 DEF Rooted, OwnDirs
  <2>2. CASE UNCHANGED client
    BY <2>1, <2>2 DEF OwnDirs
  <2>3. ASSUME NEW c \in Clients, NEW state \in {"live", "left"}, Born(c, t, state),
               thread[t].pc = "client"
        PROVE  OwnDirs'
    <3>1. At(t).dir = Root[r]
      BY <1>4, <2>3 DEF Rooted, Looking
    <3>2. /\ client'[c].dir = At(t).dir /\ client'[c].of = r
          /\ \A d \in Clients \ {c} : client'[d] = client[d]
      BY <2>3, BornFacts
    <3> QED BY <2>1, <3>1, <3>2 DEF OwnDirs
  <2>4. CASE StopClient(t) /\ ~UNCHANGED client
    <3> DEFINE g == runtime[r].gmx
    <3>1. client' = [client EXCEPT ![g].state = "stopped"] /\ g \in Clients
      <4>1. client' = [client EXCEPT ![g].state = "stopped"] /\ runtime[r].started
        BY <2>4 DEF StopClient
      <4> QED BY <1>1, <4>1, AtRuntime, Records DEF Single, At
    <3>2. client[g] \in ClientStates
      BY <3>1 DEF Shape
    <3>3. LET x == [client[g] EXCEPT !.state = "stopped"]
          IN x.dir = client[g].dir /\ x.of = client[g].of
      BY <3>2 DEF ClientStates
    <3>4. \A c \in Clients : client'[c].dir = client[c].dir /\ client'[c].of = client[c].of
      BY <3>1, <3>3 DEF Shape
    <3> QED BY <2>1, <3>4 DEF OwnDirs
  <2>5. CASE StartClient(t)
    BY <2>3, <2>5, Loads DEF StartClient
  <2>6. CASE StartFails(t)
    BY <2>2, <2>3, <2>6 DEF StartFails
  <2>7. CASE ClearClient(t)
    BY <2>2, <2>7 DEF ClearClient
  <2> QED BY <2>2, <2>4, <2>5, <2>6, <2>7 DEF ClientStep
<1>5. ~overlapped => OwnStates'
  BY <1>1, <1>3 DEF Rooted, OwnStates, SameMade
<1> QED BY <1>1, <1>2, <1>3, <1>4, <1>5, RootedOutside

LEMMA RootedRoot ==
  ASSUME Shape, Locked, Rooted, NEW t \in Threads, RootStep(t)
  PROVE  Rooted'
<1> DEFINE r == thread[t].on
<1>1. r \in Runtimes /\ thread[t].pc # "idle" /\ UNCHANGED client
  BY AtRuntime DEF RootStep, LoadConfig, SaveRoot, SetRoot, ReadDirectory, RestoreRoot, Created,
                   clientVars
<1>2. CASE Created(t)
  <2>1. SetsMade(r, TRUE)
    BY <1>2, Sets
  <2>2. SameDirs
    BY <1>1, <2>1, Fields DEF Elsewhere, SameDirs
  <2>3. UNCHANGED <<env, overlapped, stateDir>> /\ ~Inside(t)
    BY <1>2 DEF Created, Inside
  <2>4. SameOthers(t) /\ ~Inside(t)' /\ thread'[t].pc # "client" /\ Stays(t)
    BY <1>2, Moves DEF Created, SameOthers, Inside, Stays
  <2>5. ASSUME ~overlapped
        PROVE  OwnDirs' /\ OwnStates'
    <3>1. stateDir[r] = Root[r]
      BY <1>2, <2>5 DEF Created, Rooted, Looking
    <3>2. \A q \in Runtimes \ {r} : runtime'[q].made = runtime[q].made
      BY <1>1, <2>1, Fields DEF Elsewhere
    <3> QED BY <1>1, <2>3, <2>5, <3>1, <3>2 DEF Rooted, OwnDirs, OwnStates
  <2> QED BY <2>2, <2>3, <2>4, <2>5, RootedOutside
<1> SUFFICES ASSUME ~overlapped', ~Created(t)
             PROVE  /\ \A s \in Threads : Looking(s)'
                    /\ (\A s \in Threads : ~Inside(s)') => env' = Unset
                    /\ OwnDirs' /\ OwnStates'
  BY <1>2 DEF Rooted, OwnDirs, OwnStates
<1>3. ~overlapped
  BY DEF Overlaps, RootStep, LoadConfig, SaveRoot, SetRoot, ReadDirectory, RestoreRoot, Created
<1>4. (\A s \in Threads : Looking(s)) /\ OwnDirs' /\ OwnDirs /\ OwnStates
  BY <1>1, <1>3 DEF Rooted, OwnDirs, OwnStates
<1>5. \A s \in Threads \ {t} : ~Inside(s)
  <2>1. Inside(t) => \A s \in Threads : Inside(s) => s = t
    BY <1>4 DEF Looking
  <2>2. SaveRoot(t) \/ LoadConfig(t) => \A s \in Threads : ~Inside(s)
    BY DEF SaveRoot, LoadConfig, Overlaps
  <2> QED BY <2>1, <2>2 DEF RootStep, SetRoot, ReadDirectory, RestoreRoot, Created, Inside
<1>6. SameOthers(t) /\ thread'[t].on = r
  <2>1. CASE SaveRoot(t)
    BY <2>1 DEF SaveRoot, SameOthers, Shape, ThreadStates
  <2>2. CASE ~SaveRoot(t)
    BY <2>2, Moves, StepNames
       DEF RootStep, LoadConfig, SetRoot, ReadDirectory, RestoreRoot, AfterRoot, SameOthers
  <2> QED BY <2>1, <2>2
<1>7. \A s \in Threads \ {t} : ~Inside(s)'
  BY <1>5, <1>6 DEF SameOthers, Inside
<1>8. ReadDirectory(t) =>
        /\ env = Root[r]
        /\ runtime'[r].dir = Root[r]
        /\ \A q \in Runtimes \ {r} : runtime'[q].dir = runtime[q].dir
  <2>1. ReadDirectory(t) => env = Root[r]
    BY <1>4 DEF ReadDirectory, Looking
  <2>2. ReadDirectory(t) => SetsDir(r, env)
    BY Sets
  <2> QED BY <1>1, <2>1, <2>2, Fields DEF Elsewhere
<1>9. ~ReadDirectory(t) => SameDirs
  BY DEF RootStep, LoadConfig, SaveRoot, SetRoot, RestoreRoot, Created, SameDirs, clientVars
<1>15. OwnStates'
  <2>1. SameMade
    <3>1. CASE ReadDirectory(t)
      <4>1. SetsDir(r, env)
        BY <3>1, Sets
      <4> QED BY <1>1, <4>1, Fields DEF Elsewhere, SameMade
    <3> QED BY <3>1 DEF RootStep, LoadConfig, SaveRoot, SetRoot, RestoreRoot, SameMade, clientVars
  <2>2. CASE LoadConfig(t)
    <3>1. ~runtime[r].made
      BY <2>2 DEF LoadConfig, Locked, Placed, At
    <3>2. \A q \in Runtimes \ {r} : stateDir'[q] = stateDir[q]
      BY <2>2 DEF LoadConfig, Shape
    <3> QED BY <1>4, <2>1, <3>1, <3>2 DEF OwnStates, SameMade
  <2>3. CASE ~LoadConfig(t)
    <3>1. UNCHANGED stateDir
      BY <2>3 DEF RootStep, SaveRoot, SetRoot, ReadDirectory, RestoreRoot
    <3> QED BY <1>4, <2>1, <3>1 DEF OwnStates, SameMade
  <2> QED BY <2>2, <2>3
<1>16. \A q \in Runtimes : stateDir'[q] # stateDir[q] =>
         q = r /\ LoadConfig(t) /\ thread[t].call = "create"
  BY DEF RootStep, LoadConfig, SaveRoot, SetRoot, ReadDirectory, RestoreRoot, Shape, Locked, Placed
<1>10. ASSUME NEW s \in Threads \ {t}
       PROVE  Looking(s)'
  <2>1. thread'[s] = thread[s] /\ ~Inside(s)
    BY <1>5, <1>6 DEF SameOthers
  <2>2. thread[s].pc = "client" => At(s)'.dir = Root[thread[s].on]
    <3>1. thread[s].pc = "client" => At(s).dir = Root[thread[s].on] /\ thread[s].on \in Runtimes
      BY <1>4, AtRuntime DEF Looking
    <3> QED BY <1>8, <1>9, <2>1, <3>1 DEF At, SameDirs
  <2>3. ASSUME thread[s].pc \notin {"idle", "load"}
        PROVE  stateDir'[thread[s].on] = Root[thread[s].on]
    <3>1. stateDir[thread[s].on] = Root[thread[s].on] /\ thread[s].on \in Runtimes
      BY <1>4, <2>3, AtRuntime DEF Looking
    <3>2. thread[t].call = "create" => thread[s].on # r
      BY <1>1 DEF Locked, Placed
    <3> QED BY <1>16, <3>1, <3>2
  <2> QED BY <1>7, <2>1, <2>2, <2>3 DEF Looking, Inside
<1>11. CASE SaveRoot(t)
  <2>1. env = Unset /\ env' = Unset
    <3>1. \A s \in Threads : ~Inside(s)
      BY <1>11, <1>5 DEF SaveRoot, Inside
    <3> QED BY <1>3, <1>11, <3>1 DEF Rooted, SaveRoot
  <2>2. /\ thread'[t].saved = env
        /\ thread'[t].pc = IF stateDir[r] = Unset THEN "read" ELSE "set"
    <3>1. thread[t] \in ThreadStates /\ thread \in [Threads -> ThreadStates]
      BY DEF Shape
    <3>2. thread'[t] = [thread[t] EXCEPT !.saved = env,
                          !.pc = IF stateDir[r] = Unset THEN "read" ELSE "set"]
      BY <1>11, <3>1 DEF SaveRoot
    <3> QED BY <3>1, <3>2 DEF ThreadStates
  <2>4. stateDir[r] = Root[r] /\ stateDir' = stateDir
    BY <1>4, <1>11 DEF SaveRoot, Looking
  <2>3. Looking(t)' /\ Inside(t)'
    BY <1>6, <1>7, <2>1, <2>2, <2>4 DEF Looking, Inside
  <2> QED BY <1>4, <1>10, <1>15, <2>3
<1>12. CASE SetRoot(t)
  <2>1. thread[t].saved = Unset
    BY <1>4, <1>12 DEF SetRoot, Looking, Inside
  <2>4. stateDir[r] = Root[r] /\ stateDir' = stateDir
    BY <1>4, <1>12 DEF SetRoot, Looking
  <2>2. /\ env' = Root[r] /\ thread'[t].pc = "read" /\ thread'[t].saved = thread[t].saved
    BY <1>12, <2>4, Moves, StepNames DEF SetRoot
  <2>3. Looking(t)' /\ Inside(t)'
    BY <1>6, <1>7, <2>1, <2>2, <2>4 DEF Looking, Inside
  <2> QED BY <1>4, <1>10, <1>15, <2>3
<1>13. CASE ReadDirectory(t)
  <2>1. thread[t].saved = Unset /\ env' = env
    BY <1>4, <1>13 DEF ReadDirectory, Looking, Inside
  <2>4. stateDir[r] = Root[r] /\ stateDir' = stateDir
    BY <1>4, <1>13 DEF ReadDirectory, Looking
  <2>2. /\ thread'[t].saved = thread[t].saved
        /\ \/ thread'[t].pc \in {"created", "client"} /\ Root[r] = Unset
           \/ thread'[t].pc = "restore"
    BY <1>13, <2>4, Moves, StepNames DEF ReadDirectory, AfterRoot
  <2>3. Looking(t)' /\ (~Inside(t)' => env' = Unset)
    BY <1>6, <1>7, <1>8, <1>13, <2>1, <2>2, <2>4 DEF Looking, Inside, At
  <2> QED BY <1>4, <1>10, <1>15, <2>3
<1>14. CASE RestoreRoot(t)
  <2>1. thread[t].saved = Unset /\ env' = Unset /\ At(t).dir = Root[r]
    BY <1>4, <1>14 DEF RestoreRoot, Looking, Inside
  <2>2. thread'[t].pc \in {"created", "client"} /\ runtime' = runtime
    BY <1>14, Moves, StepNames DEF RestoreRoot, AfterRoot, clientVars
  <2>4. stateDir[r] = Root[r] /\ stateDir' = stateDir
    BY <1>4, <1>14 DEF RestoreRoot, Looking
  <2>3. Looking(t)'
    BY <1>6, <2>1, <2>2, <2>4 DEF Looking, Inside, At
  <2> QED BY <1>4, <1>10, <1>15, <2>1, <2>3
<1>17. CASE LoadConfig(t)
  <2>1. \A s \in Threads : ~Inside(s)
    BY <1>5, <1>17 DEF LoadConfig, Inside
  <2>2. env = Unset /\ env' = Unset
    BY <1>3, <1>17, <2>1 DEF LoadConfig, Rooted
  <2>3. stateDir'[r] = Root[r] /\ thread'[t].pc = "root"
    BY <1>1, <1>17, <2>2, Moves, StepNames DEF LoadConfig, Shape
  <2>4. Looking(t)'
    BY <1>6, <2>3 DEF Looking, Inside
  <2> QED BY <1>4, <1>10, <1>15, <2>2, <2>4
<1> QED BY <1>11, <1>12, <1>13, <1>14, <1>17 DEF RootStep

LEMMA RootedThread ==
  ASSUME Shape, Locked, Single, Rooted, NEW t \in Threads, ThreadStep(t)
  PROVE  Rooted'
BY RootedLock, RootedRoot, RootedClient, RootedUse DEF ThreadStep

LEMMA RootedBoot ==
  ASSUME Rooted, UNCHANGED <<env, overlapped, stateDir, thread, runtime, client>>
  PROVE  Rooted'
BY DEF Rooted, Looking, Inside, At
-----------------------------------------------------------------------------
(* Single is kept.                                                         *)

SameClients ==
  \A q \in Runtimes :
    /\ runtime'[q].gmx = runtime[q].gmx
    /\ runtime'[q].started = runtime[q].started

(* A step that starts no client, and stops none.                           *)
LEMMA SingleKept ==
  ASSUME Shape, Locked, Single, NEW t \in Threads, UNCHANGED client, SameOthers(t),
         SameClients, Starting(t)' => At(t)'.gmx = None, thread'[t].pc # "clear"
  PROVE  Single'
<1>1. OneClient'
  <2> SUFFICES ASSUME NEW c \in Clients, client[c].state = "live"
               PROVE  runtime'[client[c].of].gmx = c
    BY DEF OneClient
  <2>1. client[c].of \in Runtimes /\ runtime[client[c].of].gmx = c
    BY DEF Single, OneClient, Shape, ClientStates
  <2> QED BY <2>1 DEF SameClients
<1>2. \A r \in Runtimes :
        /\ runtime'[r].started <=> runtime'[r].gmx # None
        /\ runtime'[r].gmx # None => client'[runtime'[r].gmx].of = r
  BY DEF Single, SameClients
<1>3. ASSUME NEW s \in Threads \ {t}, thread[s].pc # "idle"
      PROVE  /\ Starting(s)' => At(s)'.gmx = None
             /\ thread'[s].pc = "clear" =>
                  At(s)'.gmx # None /\ client'[At(s)'.gmx].state = "stopped"
  <2>1. thread'[s] = thread[s] /\ thread[s].on \in Runtimes /\ At(s)'.gmx = At(s).gmx
    BY <1>3, AtRuntime DEF SameOthers, SameClients, At
  <2>2. /\ Starting(s) => At(s).gmx = None
        /\ thread[s].pc = "clear" => At(s).gmx # None /\ client[At(s).gmx].state = "stopped"
    BY DEF Single
  <2>3. Starting(s)' => Starting(s)
    BY <2>1 DEF Starting
  <2> QED BY <2>1, <2>2, <2>3
<1>4. \A s \in Threads \ {t} : thread[s].pc = "idle" => ~Starting(s)' /\ thread'[s].pc # "clear"
  BY DEF SameOthers, Starting
<1> QED BY <1>1, <1>2, <1>3, <1>4 DEF Single

LEMMA SingleLock ==
  ASSUME Shape, Locked, Single, NEW t \in Threads, LockStep(t)
  PROVE  Single'
<1>1. UNCHANGED client
  BY DEF LockStep, Call, Lock, Unlock, clientVars
<1>2. SameClients
  <2>1. CASE UNCHANGED runtime
    BY <2>1 DEF SameClients
  <2>2. CASE ~UNCHANGED runtime
    <3>1. PICK v : SetsLock(thread[t].on, v)
      BY <2>2, Sets DEF LockStep, Call, clientVars
    <3>2. thread[t].on \in Runtimes
      BY <2>2, AtRuntime DEF LockStep, Call, Lock, Unlock, clientVars
    <3> QED BY <3>1, <3>2, Fields DEF Elsewhere, SameClients
  <2> QED BY <2>1, <2>2
<1>3. SameOthers(t) /\ thread'[t].pc # "clear" /\ (Starting(t)' => At(t)'.gmx = None)
  <2>1. CASE Call(t)
    <3>1. PICK r \in Runtimes, call \in Calls : thread' = [thread EXCEPT ![t] =
            [call |-> call, pc |-> FirstStep(call), on |-> r, saved |-> Unset]]
      BY <2>1 DEF Call, Calls
    <3> QED BY <3>1 DEF Shape, SameOthers, Starting, FirstStep
  <2>2. CASE Lock(t)
    <3>1. /\ SameOthers(t) /\ thread'[t].pc = AfterLock(t) /\ thread'[t].on = thread[t].on
      BY <2>2, Moves, StepNames DEF Lock, SameOthers
    <3>2. AfterLock(t) = "root" => At(t).gmx = None
      BY DEF AfterLock, At
    <3>3. AfterLock(t) \in {"stop", "unlock", "root"}
      BY DEF AfterLock
    <3>4. At(t)'.gmx = At(t).gmx
      BY <1>2, <2>2, <3>1, AtRuntime DEF Lock, SameClients, At
    <3> QED BY <3>1, <3>2, <3>3, <3>4 DEF Starting
  <2>3. CASE Unlock(t)
    BY <2>3, Moves, StepNames DEF Unlock, SameOthers, Starting
  <2> QED BY <2>1, <2>2, <2>3 DEF LockStep
<1> QED BY <1>1, <1>2, <1>3, SingleKept

LEMMA SingleRoot ==
  ASSUME Shape, Locked, Single, NEW t \in Threads, RootStep(t)
  PROVE  Single'
<1> DEFINE r == thread[t].on
<1>1. r \in Runtimes /\ UNCHANGED client
  BY AtRuntime DEF RootStep, LoadConfig, SaveRoot, SetRoot, ReadDirectory, RestoreRoot, Created,
                   clientVars
<1>2. SameClients
  <2>1. CASE ReadDirectory(t)
    <3>1. SetsDir(r, env)
      BY <2>1, Sets
    <3> QED BY <1>1, <3>1, Fields DEF Elsewhere, SameClients
  <2>2. CASE Created(t)
    <3>1. PICK b : SetsMade(r, b)
      BY <2>2, Sets
    <3> QED BY <1>1, <3>1, Fields DEF Elsewhere, SameClients
  <2>3. UNCHANGED runtime => SameClients
    BY DEF SameClients
  <2>4. LoadConfig(t) \/ SaveRoot(t) \/ SetRoot(t) \/ RestoreRoot(t) => UNCHANGED runtime
    BY DEF LoadConfig, SaveRoot, SetRoot, RestoreRoot, clientVars
  <2> QED BY <2>1, <2>2, <2>3, <2>4 DEF RootStep
<1>3. /\ SameOthers(t) /\ thread'[t].pc # "clear"
      /\ Starting(t)' => thread'[t].on = r /\ Starting(t)
  <2>1. CASE SaveRoot(t)
    <3>1. thread[t] \in ThreadStates /\ thread \in [Threads -> ThreadStates]
      BY DEF Shape
    <3>2. thread'[t] = [thread[t] EXCEPT !.saved = env,
                          !.pc = IF stateDir[r] = Unset THEN "read" ELSE "set"]
      BY <2>1, <3>1 DEF SaveRoot
    <3>3. /\ thread'[t].on = r /\ thread'[t].call = thread[t].call
          /\ thread'[t].pc \in {"set", "read"}
      BY <3>1, <3>2 DEF ThreadStates
    <3>4. SameOthers(t)
      BY <2>1, <3>1 DEF SaveRoot, SameOthers
    <3> QED BY <2>1, <3>3, <3>4 DEF SaveRoot, Starting
  <2>2. CASE Created(t)
    BY <2>2, Moves DEF Created, SameOthers, Starting
  <2>3. CASE SetRoot(t)
    BY <2>3, Moves, StepNames DEF SetRoot, SameOthers, Starting
  <2>4. CASE ReadDirectory(t)
    BY <2>4, Moves, StepNames DEF ReadDirectory, AfterRoot, SameOthers, Starting
  <2>5. CASE RestoreRoot(t)
    BY <2>5, Moves, StepNames DEF RestoreRoot, AfterRoot, SameOthers, Starting
  <2>6. CASE LoadConfig(t)
    <3>1. thread[t].call = "create"
      BY <2>6 DEF LoadConfig, Locked, Placed
    <3> QED BY <2>6, <3>1, Moves, StepNames DEF LoadConfig, SameOthers, Starting
  <2> QED BY <2>1, <2>2, <2>3, <2>4, <2>5, <2>6 DEF RootStep
<1>4. Starting(t)' => At(t)'.gmx = None
  BY <1>1, <1>2, <1>3 DEF Single, SameClients, At
<1> QED BY <1>1, <1>2, <1>3, <1>4, SingleKept

LEMMA SingleUse ==
  ASSUME Shape, Locked, Single, NEW t \in Threads, UseStep(t)
  PROVE  Single'
<1>1. UNCHANGED client /\ thread[t].on \in Runtimes
  BY AtRuntime DEF UseStep, UseClient, Subscribe, Used
<1>2. SameOthers(t) /\ thread'[t].pc = "idle"
  BY Moves DEF UseStep, UseClient, Subscribe, Used, SameOthers
<1>3. SameClients
  <2>1. CASE UNCHANGED runtime
    BY <2>1 DEF SameClients
  <2>2. CASE ~UNCHANGED runtime
    <3>1. PICK v : SetsListens(thread[t].on, v)
      BY <2>2, Sets DEF UseStep, UseClient
    <3> QED BY <1>1, <3>1, Fields DEF Elsewhere, SameClients
  <2> QED BY <2>1, <2>2
<1> QED BY <1>1, <1>2, <1>3, SingleKept DEF Starting

(* A step that starts or stops the runtime it holds the lock of.           *)
LEMMA HeldAlone ==
  ASSUME Shape, Locked, NEW t \in Threads, ClientStep(t)
  PROVE  /\ thread[t].on \in Runtimes /\ At(t) \in RuntimeStates
         /\ thread[t].pc \in {"client", "stop", "clear"} /\ Holding(t)
         /\ \A s \in Threads \ {t} : Holding(s) => thread[s].on # thread[t].on
<1>1. /\ thread[t].pc \in {"client", "stop", "clear"} /\ thread[t].on \in Runtimes
      /\ At(t) \in RuntimeStates
  BY AtRuntime DEF ClientStep, StartClient, StartFails, StopClient, ClearClient
<1>2. Holding(t)
  BY <1>1 DEF Locked, Placed, Holding, Starting
<1>3. At(t).lock = t
  BY <1>2 DEF Locked
<1> QED BY <1>1, <1>2, <1>3, NobodyElse

(* The step of such a thread, from what it does to its runtime.            *)
LEMMA SingleChanged ==
  ASSUME Shape, Locked, Single, NEW t \in Threads, ClientStep(t), SameOthers(t),
         ~Starting(t)',
         NEW r, r = thread[t].on,
         \A q \in Runtimes \ {r} :
           /\ runtime'[q].gmx = runtime[q].gmx /\ runtime'[q].started = runtime[q].started
           /\ runtime[q].gmx # None => client'[runtime[q].gmx] = client[runtime[q].gmx],
         runtime'[r].started <=> runtime'[r].gmx # None,
         runtime'[r].gmx # None => client'[runtime'[r].gmx].of = r,
         thread'[t].pc = "clear" => At(t)'.gmx # None /\ client'[At(t)'.gmx].state = "stopped",
         OneClient'
  PROVE  Single'
<1>1. r \in Runtimes /\ \A s \in Threads \ {t} : Holding(s) => thread[s].on # r
  BY HeldAlone
<1>2. \A q \in Runtimes :
        /\ runtime'[q].started <=> runtime'[q].gmx # None
        /\ runtime'[q].gmx # None => client'[runtime'[q].gmx].of = q
  BY DEF Single
<1>3. ASSUME NEW s \in Threads \ {t}
      PROVE  /\ Starting(s)' => At(s)'.gmx = None
             /\ thread'[s].pc = "clear" =>
                  At(s)'.gmx # None /\ client'[At(s)'.gmx].state = "stopped"
  <2>1. thread'[s] = thread[s] /\ (Starting(s)' <=> Starting(s))
    BY DEF SameOthers, Starting
  <2>2. /\ Starting(s) => At(s).gmx = None
        /\ thread[s].pc = "clear" => At(s).gmx # None /\ client[At(s).gmx].state = "stopped"
    BY DEF Single
  <2>3. Starting(s) \/ thread[s].pc = "clear"
          => thread[s].on \in Runtimes \ {r}
    BY <1>1, AtRuntime DEF Holding, Starting
  <2> QED BY <2>1, <2>2, <2>3 DEF At
<1> QED BY <1>2, <1>3 DEF Single

LEMMA SingleClient ==
  ASSUME Shape, Locked, Single, NEW t \in Threads, ClientStep(t)
  PROVE  Single'
<1> USE LifecycleAssumption
<1> DEFINE r == thread[t].on
<1>1. r \in Runtimes /\ runtime[r].gmx \in Clients \union {None} /\ r # None
  BY HeldAlone, Records DEF At
<1>2. SameOthers(t) /\ ~Starting(t)'
  BY Moves, StepNames DEF ClientStep, StartClient, StartFails, StopClient, ClearClient,
     SameOthers, Starting
<1>3. \A c \in Clients : client[c].state = "live" =>
        client[c].of \in Runtimes /\ runtime[client[c].of].gmx = c
  BY DEF Single, OneClient, Shape, ClientStates
<1>4. \A q \in Runtimes :
        /\ runtime[q].started <=> runtime[q].gmx # None
        /\ runtime[q].gmx \in Clients \union {None}
        /\ runtime[q].gmx # None => client[runtime[q].gmx].of = q
  BY Records DEF Single, Shape
<1>5. CASE StartClient(t)
  <2>1. PICK c \in Clients : Born(c, t, "live") /\ SetsClient(r, c, TRUE)
    BY <1>5, Loads DEF SetsClient
  <2>2. /\ Elsewhere(r) /\ runtime'[r].gmx = c /\ runtime'[r].started = TRUE
    <3>1. PICK b : b = TRUE /\ SetsClient(r, c, b)
      BY <2>1
    <3>2. SetsClient(r, c, b)
      BY <3>1
    <3>3. Elsewhere(r) /\ runtime'[r].gmx = c /\ runtime'[r].started = b
      BY <1>1, <3>2, Fields
    <3> QED BY <3>1, <3>3
  <2>3. /\ client[c].of = None /\ client'[c].of = r
        /\ \A d \in Clients \ {c} : client'[d] = client[d]
    BY <1>5, <2>1, BornFacts DEF StartClient
  <2>4. runtime[r].gmx = None
    BY <1>5 DEF StartClient, Single, Starting, At, Locked, Placed
  <2>5. OneClient'
    <3> SUFFICES ASSUME NEW d \in Clients, client'[d].state = "live"
                 PROVE  runtime'[client'[d].of].gmx = d
      BY DEF OneClient
    <3>1. CASE d = c
      BY <2>2, <2>3, <3>1
    <3>2. CASE d # c
      <4>1. client[d].of \in Runtimes /\ runtime[client[d].of].gmx = d
        BY <1>3, <2>3, <3>2
      <4>2. client[d].of # r
        BY <2>4, <4>1
      <4> QED BY <2>2, <2>3, <3>2, <4>1, <4>2 DEF Elsewhere
    <3> QED BY <3>1, <3>2
  <2>6. \A q \in Runtimes \ {r} : runtime[q].gmx # None => runtime[q].gmx \in Clients \ {c}
    BY <1>4, <2>3
  <2>7. thread'[t].pc # "clear"
    BY <1>5, Moves, StepNames DEF StartClient
  <2> QED BY <1>1, <1>2, <2>2, <2>3, <2>5, <2>6, <2>7, SingleChanged DEF Elsewhere
<1>6. CASE StartFails(t)
  <2>1. /\ Elsewhere(r) /\ runtime'[r].gmx = runtime[r].gmx
        /\ runtime'[r].started = runtime[r].started
    <3>1. SetsLock(r, None)
      BY <1>6, Sets
    <3> QED BY <1>1, <3>1, Fields
  <2>2. \A d \in Clients : client[d].of # None => client'[d] = client[d]
    <3>1. ASSUME NEW c \in Clients, Born(c, t, "left")
          PROVE  \A d \in Clients : client[d].of # None => client'[d] = client[d]
      BY <1>6, <3>1, BornFacts DEF StartFails
    <3> QED BY <1>6, <3>1 DEF StartFails
  <2>3. \A d \in Clients : client'[d].state = "live" => client'[d] = client[d]
    <3>1. ASSUME NEW c \in Clients, Born(c, t, "left")
          PROVE  \A d \in Clients : client'[d].state = "live" => client'[d] = client[d]
      BY <1>6, <3>1, BornFacts DEF StartFails
    <3> QED BY <1>6, <3>1 DEF StartFails
  <2>4. \A q \in Runtimes :
          runtime'[q].gmx = runtime[q].gmx /\ runtime'[q].started = runtime[q].started
    BY <2>1 DEF Elsewhere
  <2>5. OneClient'
    BY <1>3, <2>3, <2>4 DEF OneClient
  <2>6. thread'[t].pc # "clear"
    BY <1>6, Moves DEF StartFails
  <2>7. \A q \in Runtimes : runtime[q].gmx # None =>
          client'[runtime[q].gmx] = client[runtime[q].gmx]
    BY <1>1, <1>4, <2>2
  <2> QED BY <1>1, <1>2, <1>4, <2>4, <2>5, <2>6, <2>7, SingleChanged
<1>7. CASE StopClient(t)
  <2>1. CASE ~runtime[r].started
    BY <1>2, <1>7, <2>1, Moves, StepNames, SingleKept DEF StopClient, SameClients
  <2>2. CASE runtime[r].started
    <3> DEFINE g == runtime[r].gmx
    <3>1. g \in Clients /\ client[g].of = r
      BY <1>1, <1>4, <2>2
    <3>2. client' = [client EXCEPT ![g].state = "stopped"] /\ runtime' = runtime
      BY <1>7, <2>2 DEF StopClient
    <3>3. /\ client'[g].state = "stopped" /\ client'[g].of = r
          /\ \A d \in Clients \ {g} : client'[d] = client[d]
      <4>1. client[g] \in ClientStates /\ client \in [Clients -> ClientStates]
        BY <3>1 DEF Shape
      <4>2. LET x == [client[g] EXCEPT !.state = "stopped"]
            IN x.state = "stopped" /\ x.of = client[g].of
        BY <4>1 DEF ClientStates
      <4> QED BY <3>1, <3>2, <4>1, <4>2
    <3>4. thread'[t].pc = "clear" /\ thread'[t].on = r
      BY <1>7, <2>2, Moves, StepNames DEF StopClient
    <3>5. OneClient'
      BY <1>3, <3>2, <3>3 DEF OneClient
    <3>6. \A q \in Runtimes \ {r} : runtime[q].gmx # None => runtime[q].gmx \in Clients \ {g}
      BY <1>4, <3>1
    <3>7. At(t)'.gmx = g
      BY <3>2, <3>4 DEF At
    <3>8. At(t)'.gmx # None /\ client'[At(t)'.gmx].state = "stopped"
      BY <3>1, <3>3, <3>7
    <3>9. \A q \in Runtimes \ {r} :
            /\ runtime'[q].gmx = runtime[q].gmx /\ runtime'[q].started = runtime[q].started
            /\ runtime[q].gmx # None => client'[runtime[q].gmx] = client[runtime[q].gmx]
      BY <3>2, <3>3, <3>6
    <3>10. /\ runtime'[r].started <=> runtime'[r].gmx # None
           /\ client'[runtime'[r].gmx].of = r
      BY <1>1, <1>4, <3>2, <3>3
    <3> QED BY <1>2, <3>5, <3>8, <3>9, <3>10, SingleChanged
  <2> QED BY <2>1, <2>2
<1>8. CASE ClearClient(t)
  <2>1. /\ Elsewhere(r) /\ runtime'[r].gmx = None /\ runtime'[r].started = FALSE
    <3>1. PICK b : b = FALSE /\ SetsClient(r, None, b)
      BY <1>8, Sets
    <3> QED BY <1>1, <3>1, Fields
  <2>2. client' = client /\ client[runtime[r].gmx].state = "stopped"
    BY <1>8 DEF ClearClient, Single, At
  <2>3. OneClient'
    BY <1>3, <2>1, <2>2 DEF OneClient, Elsewhere
  <2>4. thread'[t].pc # "clear"
    BY <1>8, Moves, StepNames DEF ClearClient
  <2> QED BY <1>1, <1>2, <2>1, <2>2, <2>3, <2>4, SingleChanged DEF Elsewhere
<1> QED BY <1>5, <1>6, <1>7, <1>8 DEF ClientStep

LEMMA SingleThread ==
  ASSUME Shape, Locked, Single, NEW t \in Threads, ThreadStep(t)
  PROVE  Single'
BY SingleLock, SingleRoot, SingleClient, SingleUse DEF ThreadStep

LEMMA SingleBoot ==
  ASSUME Single, UNCHANGED <<thread, runtime, client>>
  PROVE  Single'
BY DEF Single, OneClient, Starting, At
-----------------------------------------------------------------------------
(* Hearing is kept.                                                        *)

LEMMA HearingKept ==
  ASSUME Shape, Locked, Hearing, NEW t \in Threads, SameOthers(t),
         stoppedOnce \subseteq stoppedOnce',
         \A q \in Runtimes : q \notin stoppedOnce' =>
           /\ runtime[q].gmx # None => runtime'[q].gmx = runtime[q].gmx
           /\ runtime'[q].listens # None => runtime'[q].listens = runtime'[q].gmx,
         thread'[t].pc = "clear" => thread'[t].on \in stoppedOnce',
         /\ thread'[t].pc \in {"unlock", "use"} /\ thread'[t].call # "stop"
         /\ thread'[t].on \notin stoppedOnce'
         => At(t)'.gmx # None
  PROVE  Hearing'
<1>1. HearsClient'
  BY DEF HearsClient
<1>2. ASSUME NEW s \in Threads \ {t}
      PROVE  /\ thread'[s].pc = "clear" => thread'[s].on \in stoppedOnce'
             /\ /\ thread'[s].pc \in {"unlock", "use"} /\ thread'[s].call # "stop"
                /\ thread'[s].on \notin stoppedOnce'
                => At(s)'.gmx # None
  <2>1. thread'[s] = thread[s]
    BY DEF SameOthers
  <2>2. thread[s].pc # "idle" => thread[s].on \in Runtimes
    BY AtRuntime
  <2> QED BY <2>1, <2>2 DEF Hearing, At
<1> QED BY <1>1, <1>2 DEF Hearing

(* The same for a step that leaves clients and hubs.                       *)
LEMMA HearingSame ==
  ASSUME Shape, Locked, Hearing, NEW t \in Threads, SameOthers(t), UNCHANGED stoppedOnce,
         \A q \in Runtimes :
           runtime'[q].gmx = runtime[q].gmx /\ runtime'[q].listens = runtime[q].listens,
         thread'[t].pc # "clear",
         /\ thread'[t].pc \in {"unlock", "use"} /\ thread'[t].call # "stop"
         /\ thread'[t].on \notin stoppedOnce
         => At(t)'.gmx # None
  PROVE  Hearing'
BY HearingKept DEF Hearing, HearsClient

LEMMA HearingLock ==
  ASSUME Shape, Locked, Single, Hearing, NEW t \in Threads, LockStep(t)
  PROVE  Hearing'
<1> DEFINE r == thread[t].on
<1>1. UNCHANGED stoppedOnce
  BY DEF LockStep, Call, Lock, Unlock
<1>2. \A q \in Runtimes :
        runtime'[q].gmx = runtime[q].gmx /\ runtime'[q].listens = runtime[q].listens
  <2>1. CASE UNCHANGED runtime
    BY <2>1
  <2>2. CASE ~UNCHANGED runtime
    <3>1. PICK v : SetsLock(r, v)
      BY <2>2, Sets DEF LockStep, Call, clientVars
    <3>2. r \in Runtimes
      BY <2>2, AtRuntime DEF LockStep, Call, Lock, Unlock, clientVars
    <3> QED BY <3>1, <3>2, Fields DEF Elsewhere
  <2> QED BY <2>1, <2>2
<1>3. CASE Call(t)
  <2>1. PICK q \in Runtimes, call \in Calls : thread' = [thread EXCEPT ![t] =
          [call |-> call, pc |-> FirstStep(call), on |-> q, saved |-> Unset]]
    BY <1>3 DEF Call, Calls
  <2>2. SameOthers(t) /\ thread'[t].pc \in {"load", "lock"}
    BY <2>1 DEF Shape, SameOthers, FirstStep
  <2> QED BY <1>1, <1>2, <2>2, HearingSame
<1>4. CASE Lock(t)
  <2>1. /\ SameOthers(t) /\ thread'[t].pc = AfterLock(t) /\ thread'[t].on = r
        /\ r \in Runtimes
    BY <1>4, Moves, StepNames, AtRuntime DEF Lock, SameOthers
  <2>2. AfterLock(t) # "clear" /\ AfterLock(t) # "use"
    BY DEF AfterLock
  <2>3. AfterLock(t) = "unlock" => runtime[r].gmx # None
    BY <2>1 DEF AfterLock, Single
  <2>4. At(t)'.gmx = runtime[r].gmx
    BY <1>2, <2>1 DEF At
  <2> QED BY <1>1, <1>2, <2>1, <2>2, <2>3, <2>4, HearingSame
<1>5. CASE Unlock(t)
  <2>1. /\ SameOthers(t)
        /\ \/ thread'[t].pc = "idle"
           \/ /\ thread'[t].pc = "use" /\ thread'[t].on = r
              /\ thread'[t].call = thread[t].call
    BY <1>5, Moves, StepNames DEF Unlock, SameOthers
  <2>2. thread[t].call # "stop" /\ r \notin stoppedOnce => At(t).gmx # None
    BY <1>5 DEF Unlock, Hearing
  <2>3. r \in Runtimes
    BY <1>5, AtRuntime DEF Unlock
  <2>4. thread'[t].on = r => At(t)'.gmx = At(t).gmx
    BY <1>2, <2>3 DEF At
  <2> QED BY <1>1, <1>2, <2>1, <2>2, <2>4, HearingSame
<1> QED BY <1>3, <1>4, <1>5 DEF LockStep

LEMMA HearingRoot ==
  ASSUME Shape, Locked, Hearing, NEW t \in Threads, RootStep(t)
  PROVE  Hearing'
<1> DEFINE r == thread[t].on
<1>1. r \in Runtimes /\ UNCHANGED stoppedOnce
  BY AtRuntime DEF RootStep, LoadConfig, SaveRoot, SetRoot, ReadDirectory, RestoreRoot, Created
<1>2. \A q \in Runtimes :
        runtime'[q].gmx = runtime[q].gmx /\ runtime'[q].listens = runtime[q].listens
  <2>1. CASE ReadDirectory(t)
    <3>1. SetsDir(r, env)
      BY <2>1, Sets
    <3> QED BY <1>1, <3>1, Fields DEF Elsewhere
  <2>2. CASE Created(t)
    <3>1. PICK b : SetsMade(r, b)
      BY <2>2, Sets
    <3> QED BY <1>1, <3>1, Fields DEF Elsewhere
  <2>3. LoadConfig(t) \/ SaveRoot(t) \/ SetRoot(t) \/ RestoreRoot(t) => UNCHANGED runtime
    BY DEF LoadConfig, SaveRoot, SetRoot, RestoreRoot, clientVars
  <2> QED BY <2>1, <2>2, <2>3 DEF RootStep
<1>3. SameOthers(t) /\ thread'[t].pc \notin {"clear", "unlock", "use"}
  <2>1. CASE SaveRoot(t)
    BY <2>1 DEF SaveRoot, SameOthers, Shape, ThreadStates
  <2>2. CASE ~SaveRoot(t)
    BY <2>2, Moves, StepNames
       DEF RootStep, LoadConfig, SetRoot, ReadDirectory, RestoreRoot, Created, AfterRoot, SameOthers
  <2> QED BY <2>1, <2>2
<1> QED BY <1>1, <1>2, <1>3, HearingSame

LEMMA HearingUse ==
  ASSUME Shape, Locked, Hearing, NEW t \in Threads, UseStep(t)
  PROVE  Hearing'
<1> USE LifecycleAssumption
<1> DEFINE r == thread[t].on
<1>1. UNCHANGED stoppedOnce /\ r \in Runtimes
  BY AtRuntime DEF UseStep, UseClient, Subscribe, Used
<1>2. SameOthers(t) /\ thread'[t].pc = "idle"
  BY Moves DEF UseStep, UseClient, Subscribe, Used, SameOthers
<1>3. CASE UNCHANGED runtime
  BY <1>1, <1>2, <1>3, HearingSame
<1>4. CASE Subscribe(t) /\ ~UNCHANGED runtime
  <2>1. r \notin stoppedOnce => runtime[r].gmx # None
    BY <1>4 DEF Subscribe, Hearing, At
  <2>2. PICK v : v = (IF runtime[r].gmx = None THEN Failed ELSE runtime[r].gmx)
                 /\ SetsListens(r, v)
    BY <1>4, Sets
  <2>3. Elsewhere(r) /\ runtime'[r].listens = v /\ runtime'[r].gmx = runtime[r].gmx
    BY <1>1, <2>2, Fields
  <2>4. \A q \in Runtimes : q \notin stoppedOnce' =>
          /\ runtime[q].gmx # None => runtime'[q].gmx = runtime[q].gmx
          /\ runtime'[q].listens # None => runtime'[q].listens = runtime'[q].gmx
    BY <1>1, <2>1, <2>2, <2>3 DEF Elsewhere, Hearing, HearsClient
  <2> QED BY <1>1, <1>2, <2>4, HearingKept
<1> QED BY <1>3, <1>4 DEF UseStep, UseClient

LEMMA HearingClient ==
  ASSUME Shape, Locked, Single, Hearing, NEW t \in Threads, ClientStep(t)
  PROVE  Hearing'
<1> USE LifecycleAssumption
<1> DEFINE r == thread[t].on
<1>1. r \in Runtimes /\ Placed(t)
  BY HeldAlone DEF Locked
<1>2. SameOthers(t)
  BY Moves, StepNames DEF ClientStep, StartClient, StartFails, StopClient, ClearClient,
     SameOthers
<1>3. CASE StartClient(t)
  <2>1. PICK c \in Clients : \E b : SetsClient(r, c, b)
    BY <1>3, Sets
  <2>2. /\ Elsewhere(r) /\ runtime'[r].gmx = c
        /\ runtime'[r].listens = runtime[r].listens
    BY <1>1, <2>1, Fields
  <2>3. runtime[r].gmx = None
    BY <1>1, <1>3 DEF StartClient, Single, Starting, At, Placed
  <2>4. thread'[t].pc = "unlock" /\ thread'[t].on = r /\ UNCHANGED stoppedOnce
    BY <1>3, Moves, StepNames DEF StartClient
  <2>5. At(t)'.gmx # None
    BY <2>2, <2>4 DEF At
  <2>6. \A q \in Runtimes : q \notin stoppedOnce' =>
          /\ runtime[q].gmx # None => runtime'[q].gmx = runtime[q].gmx
          /\ runtime'[q].listens # None => runtime'[q].listens = runtime'[q].gmx
    BY <2>2, <2>3, <2>4 DEF Elsewhere, Hearing, HearsClient
  <2> QED BY <1>2, <2>4, <2>5, <2>6, HearingKept
<1>4. CASE StartFails(t)
  <2>1. SetsLock(r, None)
    BY <1>4, Sets
  <2>2. \A q \in Runtimes :
          runtime'[q].gmx = runtime[q].gmx /\ runtime'[q].listens = runtime[q].listens
    BY <1>1, <2>1, Fields DEF Elsewhere
  <2>3. thread'[t].pc = "idle" /\ UNCHANGED stoppedOnce
    BY <1>4, Moves DEF StartFails
  <2> QED BY <1>2, <2>2, <2>3, HearingSame
<1>5. CASE StopClient(t)
  <2>1. runtime' = runtime /\ stoppedOnce \subseteq stoppedOnce' /\ thread[t].call = "stop"
    BY <1>1, <1>5 DEF StopClient, Placed
  <2>2. /\ thread'[t].pc = "clear" => r \in stoppedOnce'
        /\ thread'[t].on = r /\ thread'[t].call = "stop"
    BY <1>5, <2>1, Moves, StepNames DEF StopClient
  <2>3. \A q \in Runtimes : q \notin stoppedOnce' =>
          /\ runtime[q].gmx # None => runtime'[q].gmx = runtime[q].gmx
          /\ runtime'[q].listens # None => runtime'[q].listens = runtime'[q].gmx
    BY <2>1 DEF Hearing, HearsClient
  <2> QED BY <1>2, <2>1, <2>2, <2>3, HearingKept
<1>6. CASE ClearClient(t)
  <2>1. PICK b : SetsClient(r, None, b)
    BY <1>6, Sets
  <2>2. Elsewhere(r) /\ r \in stoppedOnce /\ UNCHANGED stoppedOnce
    BY <1>1, <1>6, <2>1, Fields DEF ClearClient, Hearing
  <2>3. thread'[t].pc = "unlock" /\ thread'[t].call = "stop"
    BY <1>1, <1>6, Moves, StepNames DEF ClearClient, Placed
  <2>4. \A q \in Runtimes : q \notin stoppedOnce' =>
          /\ runtime[q].gmx # None => runtime'[q].gmx = runtime[q].gmx
          /\ runtime'[q].listens # None => runtime'[q].listens = runtime'[q].gmx
    BY <2>2 DEF Elsewhere, Hearing, HearsClient
  <2> QED BY <1>2, <2>2, <2>3, <2>4, HearingKept
<1> QED BY <1>3, <1>4, <1>5, <1>6 DEF ClientStep

LEMMA HearingThread ==
  ASSUME Shape, Locked, Single, Hearing, NEW t \in Threads, ThreadStep(t)
  PROVE  Hearing'
BY HearingLock, HearingRoot, HearingClient, HearingUse DEF ThreadStep

LEMMA HearingBoot ==
  ASSUME Hearing, UNCHANGED <<thread, runtime, stoppedOnce>>
  PROVE  Hearing'
BY DEF Hearing, HearsClient, At
-----------------------------------------------------------------------------
(* Sessions is kept.                                                       *)

(* A step that logs nobody in, and starts no client.                       *)
LEMMA SessionsKept ==
  ASSUME Shape, Sessions, UNCHANGED <<loggedIn, boot, doubled, meddled>>,
         \A q \in Runtimes : runtime'[q].gmx \in {runtime[q].gmx, None},
         \A d \in Clients :
           /\ client[d].state # "unborn" =>
                client'[d].of = client[d].of /\ client'[d].state # "unborn"
  PROVE  Sessions'
<1> USE LifecycleAssumption
<1>1. \A d \in Clients : Bootstrapping(d)' <=> Bootstrapping(d)
  BY DEF Bootstrapping
<1>2. ASSUME NEW c \in Clients, NEW d \in Clients, Bootstrapping(d)',
             runtime'[client'[d].of].gmx = c, c # d
      PROVE  c \in meddled
  <2>1. Bootstrapping(d) /\ client[d].state # "unborn" /\ client[d].of \in Runtimes
    BY <1>1, <1>2, BootOf
  <2>2. client'[d].of = client[d].of
    BY <2>1
  <2>3. runtime[client[d].of].gmx = c
    BY <1>2, <2>1, <2>2
  <2> QED BY <1>2, <2>1, <2>3 DEF Sessions
<1>3. \A c \in Clients : client'[c].state = "unborn" =>
        boot'[c].stage = "none" /\ ~boot'[c].asks
  BY DEF Sessions
<1>4. \A c \in Clients :
        boot'[c].asks /\ boot'[c].stage # "key" /\ c \in loggedIn' => c \in meddled'
  BY DEF Sessions
<1> QED BY <1>2, <1>3, <1>4 DEF Sessions, LoggedInOnce

LEMMA SessionsLock ==
  ASSUME Shape, Locked, Sessions, NEW t \in Threads, LockStep(t)
  PROVE  Sessions'
<1>1. UNCHANGED <<client, loggedIn, boot, doubled, meddled>>
  BY DEF LockStep, Call, Lock, Unlock, clientVars, sessionVars
<1>2. \A q \in Runtimes : runtime'[q].gmx = runtime[q].gmx
  <2>1. CASE UNCHANGED runtime
    BY <2>1
  <2>2. CASE ~UNCHANGED runtime
    <3>1. PICK v : SetsLock(thread[t].on, v)
      BY <2>2, Sets DEF LockStep, Call, clientVars
    <3>2. thread[t].on \in Runtimes
      BY <2>2, AtRuntime DEF LockStep, Call, Lock, Unlock, clientVars
    <3> QED BY <3>1, <3>2, Fields DEF Elsewhere
  <2> QED BY <2>1, <2>2
<1> QED BY <1>1, <1>2, SessionsKept

LEMMA SessionsRoot ==
  ASSUME Shape, Locked, Sessions, NEW t \in Threads, RootStep(t)
  PROVE  Sessions'
<1> DEFINE r == thread[t].on
<1>1. r \in Runtimes /\ UNCHANGED <<client, loggedIn, boot, doubled, meddled>>
  BY AtRuntime DEF RootStep, LoadConfig, SaveRoot, SetRoot, ReadDirectory, RestoreRoot, Created,
     clientVars, sessionVars
<1>2. \A q \in Runtimes : runtime'[q].gmx = runtime[q].gmx
  <2>1. CASE ReadDirectory(t)
    <3>1. SetsDir(r, env)
      BY <2>1, Sets
    <3> QED BY <1>1, <3>1, Fields DEF Elsewhere
  <2>2. CASE Created(t)
    <3>1. PICK b : SetsMade(r, b)
      BY <2>2, Sets
    <3> QED BY <1>1, <3>1, Fields DEF Elsewhere
  <2>3. LoadConfig(t) \/ SaveRoot(t) \/ SetRoot(t) \/ RestoreRoot(t) => UNCHANGED runtime
    BY DEF LoadConfig, SaveRoot, SetRoot, RestoreRoot, clientVars
  <2> QED BY <2>1, <2>2, <2>3 DEF RootStep
<1> QED BY <1>1, <1>2, SessionsKept

LEMMA SessionsClient ==
  ASSUME Shape, Locked, Single, Sessions, NEW t \in Threads, ClientStep(t)
  PROVE  Sessions'
<1> USE LifecycleAssumption
<1> DEFINE r == thread[t].on
<1>1. r \in Runtimes
  BY HeldAlone
<1>2. CASE StartClient(t)
  <2>1. PICK c \in Clients :
          /\ Born(c, t, "live") /\ SetsClient(r, c, TRUE)
          /\ boot' = [boot EXCEPT ![c].stage = IF Methods = {} THEN "done" ELSE "token"]
          /\ loggedIn' \in {loggedIn, loggedIn \union {c}}
          /\ meddled' = IF \E d \in Clients : client[d].of = r /\ Bootstrapping(d)
                        THEN meddled \union {c} ELSE meddled
    BY <1>2, Loads DEF SetsClient
  <2>2. Elsewhere(r) /\ runtime'[r].gmx = c
    <3>1. PICK b : SetsClient(r, c, b)
      BY <2>1
    <3> QED BY <1>1, <3>1, Fields
  <2>3. /\ client[c].state = "unborn" /\ client'[c].of = r /\ client'[c].state = "live"
        /\ \A d \in Clients \ {c} : client'[d] = client[d]
    BY <1>2, <2>1, BornFacts DEF StartClient
  <2>4. /\ \A d \in Clients \ {c} : boot'[d] = boot[d]
        /\ boot'[c].asks = boot[c].asks
    <3>1. boot[c] \in [stage : Stages, asks : BOOLEAN]
            /\ boot \in [Clients -> [stage : Stages, asks : BOOLEAN]]
      BY DEF Shape
    <3>2. boot'[c] = [boot[c] EXCEPT !.stage = IF Methods = {} THEN "done" ELSE "token"]
            /\ \A d \in Clients \ {c} : boot'[d] = boot[d]
      BY <2>1, <3>1
    <3> QED BY <3>1, <3>2
  <2>5. ~boot[c].asks
    BY <2>3 DEF Sessions
  <2>6. meddled \subseteq meddled' /\ doubled' = doubled
    BY <1>2, <2>1 DEF StartClient
  <2>7. \A d \in Clients : client'[d].state = "unborn" =>
          boot'[d].stage = "none" /\ ~boot'[d].asks
    BY <2>3, <2>4 DEF Sessions
  <2>8. ASSUME NEW e \in Clients, NEW d \in Clients, Bootstrapping(d)',
               runtime'[client'[d].of].gmx = e, e # d
        PROVE  e \in meddled'
    <3>1. d # c
      BY <2>2, <2>3, <2>8
    <3>2. Bootstrapping(d) /\ client'[d] = client[d]
      BY <2>3, <2>4, <2>8, <3>1 DEF Bootstrapping
    <3>3. client[d].of \in Runtimes
      BY <3>2, BootOf
    <3>4. CASE client[d].of = r
      BY <2>1, <2>2, <2>8, <3>2, <3>4
    <3>5. CASE client[d].of # r
      <4>1. runtime[client[d].of].gmx = e
        BY <2>2, <2>8, <3>2, <3>3, <3>5 DEF Elsewhere
      <4> QED BY <2>6, <2>8, <3>2, <4>1 DEF Sessions
    <3> QED BY <3>4, <3>5
  <2>9. ASSUME NEW d \in Clients, boot'[d].asks, boot'[d].stage # "key", d \in loggedIn'
        PROVE  d \in meddled'
    <3>1. d # c
      BY <2>4, <2>5, <2>9
    <3> QED BY <2>1, <2>4, <2>6, <2>9, <3>1 DEF Sessions
  <2> QED BY <2>6, <2>7, <2>8, <2>9 DEF Sessions, LoggedInOnce
<1>3. CASE StartFails(t)
  <2>1. SetsLock(r, None)
    BY <1>3, Sets
  <2>2. \A q \in Runtimes : runtime'[q].gmx = runtime[q].gmx
    BY <1>1, <2>1, Fields DEF Elsewhere
  <2>3. \A d \in Clients : client[d].state # "unborn" => client'[d] = client[d]
    <3>1. ASSUME NEW c \in Clients, Born(c, t, "left")
          PROVE  \A d \in Clients : client[d].state # "unborn" => client'[d] = client[d]
      BY <1>3, <3>1, BornFacts DEF StartFails
    <3> QED BY <1>3, <3>1 DEF StartFails
  <2> QED BY <1>3, <2>2, <2>3, SessionsKept DEF StartFails, sessionVars
<1>4. CASE StopClient(t)
  <2>1. \A d \in Clients : client[d].state # "unborn" =>
          client'[d].of = client[d].of /\ client'[d].state # "unborn"
    <3>1. CASE UNCHANGED client
      BY <3>1
    <3>2. CASE ~UNCHANGED client
      <4> DEFINE g == runtime[r].gmx
      <4>1. client' = [client EXCEPT ![g].state = "stopped"]
        BY <1>4, <3>2 DEF StopClient
      <4>2. client \in [Clients -> ClientStates]
        BY DEF Shape
      <4>3. \A k \in ClientStates :
              LET x == [k EXCEPT !.state = "stopped"] IN x.state = "stopped" /\ x.of = k.of
        BY DEF ClientStates
      <4> QED BY <4>1, <4>2, <4>3
    <3> QED BY <3>1, <3>2
  <2> QED BY <1>4, <2>1, SessionsKept DEF StopClient, sessionVars
<1>5. CASE ClearClient(t)
  <2>1. PICK b : SetsClient(r, None, b)
    BY <1>5, Sets
  <2>2. \A q \in Runtimes : runtime'[q].gmx \in {runtime[q].gmx, None}
    BY <1>1, <2>1, Fields DEF Elsewhere
  <2> QED BY <1>5, <2>2, SessionsKept DEF ClearClient, sessionVars
<1> QED BY <1>2, <1>3, <1>4, <1>5 DEF ClientStep

LEMMA SessionsUse ==
  ASSUME Shape, Locked, Sessions, NEW t \in Threads, UseStep(t)
  PROVE  Sessions'
<1>1. thread[t].on \in Runtimes /\ UNCHANGED <<client, boot, doubled>>
  BY AtRuntime DEF UseStep, UseClient, Subscribe, Used
<1>2. \A q \in Runtimes : runtime'[q].gmx = runtime[q].gmx
  <2>1. CASE UNCHANGED runtime
    BY <2>1
  <2>2. CASE ~UNCHANGED runtime
    <3>1. PICK v : SetsListens(thread[t].on, v)
      BY <2>2, Sets DEF UseStep, UseClient
    <3> QED BY <1>1, <3>1, Fields DEF Elsewhere
  <2> QED BY <2>1, <2>2
<1>3. \/ UNCHANGED <<loggedIn, meddled>>
      \/ \E c : loggedIn' = loggedIn \union {c} /\ meddled' = meddled \union {c}
  BY DEF UseStep, UseClient, Subscribe
<1>4. CASE UNCHANGED <<loggedIn, meddled>>
  BY <1>1, <1>2, <1>4, SessionsKept
<1>5. CASE \E c : loggedIn' = loggedIn \union {c} /\ meddled' = meddled \union {c}
  <2>1. PICK g : loggedIn' = loggedIn \union {g} /\ meddled' = meddled \union {g}
    BY <1>5
  <2>2. \A d \in Clients : Bootstrapping(d)' <=> Bootstrapping(d)
    BY <1>1 DEF Bootstrapping
  <2>3. \A d \in Clients : Bootstrapping(d) =>
          runtime'[client'[d].of].gmx = runtime[client[d].of].gmx
    BY <1>1, <1>2, BootOf
  <2>4. \A c, d \in Clients :
          Bootstrapping(d)' /\ runtime'[client'[d].of].gmx = c /\ c # d => c \in meddled'
    BY <2>1, <2>2, <2>3 DEF Sessions
  <2>5. \A c \in Clients :
          boot'[c].asks /\ boot'[c].stage # "key" /\ c \in loggedIn' => c \in meddled'
    BY <1>1, <2>1 DEF Sessions
  <2>6. doubled' \subseteq meddled' /\ \A c \in Clients : client'[c].state = "unborn" =>
          boot'[c].stage = "none" /\ ~boot'[c].asks
    BY <1>1, <2>1 DEF Sessions, LoggedInOnce
  <2> QED BY <2>4, <2>5, <2>6 DEF Sessions, LoggedInOnce
<1> QED BY <1>3, <1>4, <1>5

LEMMA SessionsThread ==
  ASSUME Shape, Locked, Single, Sessions, NEW t \in Threads, ThreadStep(t)
  PROVE  Sessions'
BY SessionsLock, SessionsRoot, SessionsClient, SessionsUse DEF ThreadStep

LEMMA SessionsBoot ==
  ASSUME Shape, Sessions, NEW c \in Clients, BootStep(c)
  PROVE  Sessions'
<1> USE LifecycleAssumption
<1> DEFINE g == runtime[client[c].of].gmx
<1>1. /\ UNCHANGED <<thread, runtime, client, meddled>> /\ Bootstrapping(c)
      /\ client[c].state # "unborn"
  BY BootOf DEF BootStep, BootCheck, BootAsk, BootUnchanged, clientVars
<1>2. /\ \A d \in Clients \ {c} : boot'[d] = boot[d]
      /\ \/ ~boot'[c].asks
         \/ /\ boot'[c].stage = boot[c].stage
            /\ loggedIn' = loggedIn /\ doubled' = doubled
            /\ boot[c].stage = "key" \/ c \notin loggedIn
  <2>1. /\ boot[c] \in [stage : Stages, asks : BOOLEAN]
        /\ boot \in [Clients -> [stage : Stages, asks : BOOLEAN]]
    BY DEF Shape
  <2>2. CASE Continues(c) \/ GivesUp(c)
    BY <2>1, <2>2 DEF Continues, GivesUp
  <2>3. CASE BootCheck(c) /\ boot' = [boot EXCEPT ![c].asks = TRUE] /\ Needed(c)
    BY <2>1, <2>3 DEF BootCheck, Needed
  <2> QED BY <2>2, <2>3 DEF BootStep, BootCheck, BootAsk
<1>3. /\ loggedIn' = loggedIn \/ (g \in Clients /\ loggedIn' = loggedIn \union {g})
      /\ \/ doubled' = doubled
         \/ /\ doubled' = doubled \union {g} /\ g \in loggedIn
            /\ boot[c].asks /\ boot[c].stage # "key"
  <2>1. client[c].of \in Runtimes
    BY <1>1, BootOf
  <2>2. g \in Clients \union {None}
    BY <2>1, Records DEF Shape
  <2> QED BY <2>2 DEF BootStep, BootCheck, BootAsk
<1>4. g \in Clients /\ g # c => g \in meddled
  BY <1>1 DEF Sessions
<1>5. loggedIn \subseteq Clients
  BY DEF Shape
<1>6. doubled' \subseteq meddled'
  <2>1. g \in loggedIn /\ boot[c].asks /\ boot[c].stage # "key" => g \in meddled
    BY <1>4, <1>5 DEF Sessions
  <2> QED BY <1>1, <1>3, <2>1 DEF Sessions, LoggedInOnce
<1>7. ASSUME NEW d \in Clients, boot'[d].asks, boot'[d].stage # "key", d \in loggedIn'
      PROVE  d \in meddled'
  <2>1. CASE d = c
    BY <1>2, <1>7, <2>1
  <2>2. CASE d # c
    <3>1. boot[d].asks /\ boot[d].stage # "key"
      BY <1>2, <1>7, <2>2
    <3>2. d \in loggedIn => d \in meddled
      BY <3>1 DEF Sessions
    <3>3. d \notin loggedIn => d = g
      BY <1>3, <1>7
    <3> QED BY <1>1, <1>4, <2>2, <3>2, <3>3
  <2> QED BY <2>1, <2>2
<1>8. \A d \in Clients : Bootstrapping(d)' => Bootstrapping(d)
  BY <1>1, <1>2 DEF Bootstrapping
<1>9. \A e, d \in Clients :
        Bootstrapping(d)' /\ runtime'[client'[d].of].gmx = e /\ e # d => e \in meddled'
  BY <1>1, <1>8 DEF Sessions
<1>10. \A d \in Clients : client'[d].state = "unborn" =>
         boot'[d].stage = "none" /\ ~boot'[d].asks
  BY <1>1, <1>2 DEF Sessions
<1> QED BY <1>6, <1>7, <1>9, <1>10 DEF Sessions, LoggedInOnce
-----------------------------------------------------------------------------
(* The theorems.                                                           *)

LEMMA InvStep ==
  ASSUME Inv, [Next]_vars
  PROVE  Inv'
<1> USE DEF Inv
<1>1. CASE \E t \in Threads : ThreadStep(t)
  BY <1>1, ShapeThread, LockedThread, RootedThread, SingleThread, HearingThread, SessionsThread
<1>2. CASE \E c \in Clients : BootStep(c)
  <2>1. PICK c \in Clients : BootStep(c)
    BY <1>2
  <2>2. UNCHANGED <<env, overlapped, stateDir, thread, runtime, client, stoppedOnce>>
    BY <2>1 DEF BootStep, BootCheck, BootAsk, BootUnchanged, clientVars
  <2>3. Shape' /\ Sessions'
    BY <2>1, ShapeBoot, SessionsBoot
  <2>4. Locked' /\ Rooted' /\ Single' /\ Hearing'
    BY <2>2, LockedBoot, RootedBoot, SingleBoot, HearingBoot
  <2> QED BY <2>3, <2>4
<1>3. CASE UNCHANGED vars
  <2>1. UNCHANGED <<env, overlapped, stateDir, thread, runtime, client, stoppedOnce>>
    BY <1>3 DEF vars, clientVars
  <2>2. Locked' /\ Rooted' /\ Single' /\ Hearing'
    BY <2>1, LockedBoot, RootedBoot, SingleBoot, HearingBoot
  <2>3. Shape'
    BY <1>3 DEF vars, clientVars, sessionVars, Shape
  <2>4. Sessions'
    BY <1>3 DEF vars, clientVars, sessionVars, Sessions, LoggedInOnce, Bootstrapping
  <2> QED BY <2>2, <2>3, <2>4
<1> QED BY <1>1, <1>2, <1>3, NextCases

(* What threads, bootstraps and the process rely on holds in every         *)
(* reachable state: the invariant the theorems below follow from.          *)
THEOREM LifecycleInvariant == Spec => []Inv
BY InitInv, InvStep, PTL DEF Spec

(* The types of the model: the states a call, a runtime and a client of    *)
(* runtime.go can be in, a runtime being started exactly when it has a     *)
(* client.                                                                 *)
THEOREM LifecycleTypes == Spec => []TypeOK
<1>1. Inv => TypeOK
  <2> SUFFICES ASSUME Inv PROVE TypeOK
    OBVIOUS
  <2>1. Shape /\ Single
    BY DEF Inv
  <2>2. \A t \in Threads :
          /\ thread[t].call \in {None, "create", "start", "stop", "request", "open"}
          /\ thread[t].pc \in Steps
          /\ thread[t].on \in Runtimes \union {None} /\ thread[t].saved \in Roots
    BY <2>1, Records DEF Shape, Calls
  <2>3. \A r \in Runtimes :
          /\ stateDir[r] \in Roots
          /\ runtime[r].made \in BOOLEAN /\ runtime[r].started \in BOOLEAN
          /\ runtime[r].dir \in Roots /\ runtime[r].lock \in Threads \union {None}
          /\ runtime[r].gmx \in Clients \union {None}
          /\ runtime[r].listens \in Clients \union {None, Failed}
    BY <2>1, Records DEF Shape
  <2>4. \A r \in Runtimes : runtime[r].started <=> runtime[r].gmx # None
    BY <2>1 DEF Single
  <2>5. \A c \in Clients :
          /\ client[c].state \in {"unborn", "live", "stopped", "left"}
          /\ client[c].dir \in Roots /\ client[c].of \in Runtimes \union {None}
          /\ boot[c].stage \in Stages /\ boot[c].asks \in BOOLEAN
    BY <2>1 DEF Shape, ClientStates
  <2> QED BY <2>1, <2>2, <2>3, <2>4, <2>5 DEF TypeOK, Shape, Steps, Stages
<1> QED BY <1>1, LifecycleInvariant, PTL

(* As long as no runtime reads GOMUKS_ROOT, for its configuration when it  *)
(* is made or for its directories, while another has set it, every gomuks  *)
(* client opens the directory the host named for its runtime, or the       *)
(* process's own, and the variable is what the process had unless a        *)
(* look-up has just set it: withConfiguredGomuksRoot puts back what it     *)
(* found.                                                                  *)
THEOREM EveryClientInItsDirectory == Spec => []OwnDirectory
<1>1. Inv => OwnDirectory
  <2> SUFFICES ASSUME Inv, ~overlapped
               PROVE  /\ \A c \in Clients :
                           client[c].of # None => client[c].dir = Root[client[c].of]
                      /\ env # Unset => \E t \in Threads : Inside(t) /\ env = Root[thread[t].on]
    BY DEF OwnDirectory
  <2>1. Rooted
    BY DEF Inv
  <2>2. ASSUME env # Unset
        PROVE  \E t \in Threads : Inside(t) /\ env = Root[thread[t].on]
    <3>1. PICK t \in Threads : Inside(t)
      BY <2>1, <2>2 DEF Rooted
    <3>2. Looking(t)
      BY <2>1 DEF Rooted
    <3> QED BY <2>2, <3>1, <3>2 DEF Looking, Inside
  <2> QED BY <2>1, <2>2 DEF Rooted
<1> QED BY <1>1, LifecycleInvariant, PTL

(* However many threads start, stop and use runtimes at once, a live       *)
(* client is the client of its runtime, so that no runtime has two: mu is  *)
(* held from the look at started to the client that is put there.          *)
THEOREM OneLiveClient == Spec => []OneClient
<1>1. Inv => OneClient
  BY DEF Inv, Single
<1> QED BY <1>1, LifecycleInvariant, PTL

(* The hub of a runtime that was never stopped listens to the client the   *)
(* runtime has: a stream is only opened after a start, and the only first  *)
(* subscription that fails for ever is one after a stop.                   *)
THEOREM HubHearsItsClient == Spec => []HearsClient
<1>1. Inv => HearsClient
  BY DEF Inv, Hearing
<1> QED BY <1>1, LifecycleInvariant, PTL

(* A bootstrap logs in a client that has a session already only where a    *)
(* handler of the manage page logs it in too, or where a bootstrap that    *)
(* was started for an earlier client of the runtime goes on.               *)
THEOREM NobodyLoggedInTwice == Spec => []LoggedInOnce
<1>1. Inv => LoggedInOnce
  BY DEF Inv, Sessions
<1> QED BY <1>1, LifecycleInvariant, PTL
-----------------------------------------------------------------------------
(* EmbeddedRealtime.                                                       *)

(* The types of what Go sends, and what JavaScript makes of it: Notes.     *)
MessageTypes == {"ready", "subscriptions.updated", "nested", "event"}
Notes == [from : GoClients, n : Nat]
Frames ==
  [to : Conns, message : Notes, stage : {"waiting", "listeners", "onmessage"},
   held : GoClients \union {Nil}]

Connections ==
  [pc : {"idle", "importing", "connecting", "open", "answered", "failed"},
   id : Nat, origin : GoClients \union {Nil}, closed : BOOLEAN, onmessage : BOOLEAN,
   backlog : Seq(Notes), heard : Seq(Notes), lost : SUBSET Nat,
   adapter : BOOLEAN, since : Nat, adapted : Seq(Notes)]

(* Calls that are over: each used up at most one ID.                       *)
Ended == {c \in Conns : conn[c].pc \in {"open", "answered", "failed"}}

(* The types of the native side, and that IDs remain for all calls.        *)
Native ==
  /\ handle \in Handles \union {Nil}
  /\ live \subseteq databases /\ databases \subseteq made /\ made \subseteq Handles
  /\ lastID \in [Handles -> Nat]
  /\ clients \subseteq GoClients /\ subscribed \subseteq clients
  /\ targets \in [Handles -> SUBSET GoClients]
  /\ \A h \in Handles : targets[h] \subseteq Of(h)
  /\ sent \in [GoClients -> Seq(MessageTypes)]
  /\ \A h \in Handles : lastID[h] <= Cardinality(Ended)

(* The types of the other side; what is filed is open and under its ID,    *)
(* and nothing is filed after a stop.                                      *)
Filed ==
  /\ connections \in [IDs -> Conns \union {Nil}]
  /\ conn \in [Conns -> Connections]
  /\ startsOverlapped \in BOOLEAN
  /\ owner \in Conns \union {Nil} /\ quit \in {"no", "inTime", "late", "revived"}
  /\ \A i \in IDs :
       connections[i] # Nil => Open(connections[i]) /\ conn[connections[i]].id = i
  /\ handle = Nil => \A i \in IDs : connections[i] = Nil

(* The client that c was made for exists, and was sent ready; its handle   *)
(* does not use its ID again.                                              *)
Originates(c) ==
  /\ conn[c].origin \in GoClients
  /\ conn[c].id = conn[c].origin.id
  /\ conn[c].id <= lastID[conn[c].origin.handle]
  /\ Len(sent[conn[c].origin]) >= 1

(* Nothing happens to a connection that is not there yet, or never will be.*)
Untouched(c) ==
  /\ conn[c].backlog = <<>> /\ conn[c].heard = <<>> /\ conn[c].lost = {}
  /\ ~conn[c].onmessage /\ ~conn[c].closed

Begun == \A c \in Conns : IF conn[c].pc = "open" THEN Originates(c) ELSE Untouched(c)

(* Handlers are called of connections that have an onmessage.              *)
Framed ==
  /\ stack \in Seq(Frames)
  /\ \A i \in 1..Len(stack) : conn[stack[i].to].pc = "open" /\ conn[stack[i].to].onmessage

EmbeddedShape == Native /\ Filed /\ Begun /\ Framed

(* s is what Go sent to the client of c after ready.                       *)
InOrder(c, s) ==
  /\ Len(s) + 1 <= Len(sent[conn[c].origin])
  /\ \A i \in 1..Len(s) : s[i] = [from |-> conn[c].origin, n |-> i + 1]
  /\ Open(c) => Len(s) + 1 = Len(sent[conn[c].origin])

(* The turn has still to pass this message to the onmessage of c.          *)
Pending(i, c) == stack[i].to = c /\ stack[i].stage # "onmessage"

Genuine(c, message) == message.from = conn[c].origin /\ message.n \in Due(c)

(* What c heard, and what is pending after it, is of its own client and    *)
(* comes in order, but for nested answers; nothing else is missing.        *)
Passed(c) ==
  /\ \A i \in 1..Len(conn[c].heard) : Genuine(c, conn[c].heard[i])
  /\ \A j \in 1..Len(stack) : Pending(j, c) => Genuine(c, stack[j].message)
  /\ \A i, j \in 1..Len(conn[c].heard) :
       i < j => MayPrecede(c, conn[c].heard[i].n, conn[c].heard[j].n)
  /\ \A i \in 1..Len(conn[c].heard), j \in 1..Len(stack) :
       Pending(j, c) => MayPrecede(c, conn[c].heard[i].n, stack[j].message.n)
  /\ \A i, j \in 1..Len(stack) :
       i < j /\ Pending(i, c) /\ Pending(j, c)
         => MayPrecede(c, stack[i].message.n, stack[j].message.n)
  /\ Open(c) => \A n \in Due(c) \ conn[c].lost :
       \/ \E i \in 1..Len(conn[c].heard) : conn[c].heard[i].n = n
       \/ \E j \in 1..Len(stack) : Pending(j, c) /\ stack[j].message.n = n

(* What c got: it waits in its backlog until there is an onmessage.        *)
Streamed(c) ==
  /\ ~conn[c].onmessage =>
       conn[c].heard = <<>> /\ conn[c].lost = {} /\ InOrder(c, conn[c].backlog)
  /\ conn[c].onmessage => conn[c].backlog = <<>> /\ Passed(c)
Streams == \A c \in Conns : conn[c].pc = "open" => Streamed(c)

(* An open connection belongs to the handle in use, and is found by its ID.*)
Served == \A c \in Conns : Open(c) =>
  /\ handle # Nil
  /\ conn[c].origin = [handle |-> handle, id |-> conn[c].id]
  /\ connections[conn[c].id] = c
  /\ conn[c].origin \in clients

(* No other handle is alive, no client without a connection, and no        *)
(* database but those that starts left.                                    *)
Kept ==
  /\ live = {handle} \ {Nil}
  /\ databases = live \union broken /\ handle \notin broken
  /\ \A g \in clients : \E c \in Conns : Open(c) /\ conn[c].origin = g
  /\ quit = "inTime" => handle = Nil

Intact == Streams /\ Served /\ Kept
EmbeddedWhole == ~startsOverlapped => Intact
-----------------------------------------------------------------------------
(* The numbers the IDs are compared with.                                  *)
LEMMA EndedFinite ==
  ASSUME conn \in [Conns -> Connections]
  PROVE  /\ Ended \subseteq Conns /\ IsFiniteSet(Ended)
         /\ Cardinality(Ended) \in Nat /\ Cardinality(Conns) \in Nat
<1>1. Ended \subseteq Conns
  BY DEF Ended
<1>2. IsFiniteSet(Conns)
  BY EmbeddedAssumption
<1>3. IsFiniteSet(Ended)
  BY <1>1, <1>2, FS_Subset
<1> QED
  BY <1>1, <1>2, <1>3, FS_CardinalityType

(* There is an ID for every call that may yet connect, with any handle.    *)
LEMMA IDsSuffice ==
  ASSUME EmbeddedShape, NEW c \in Conns, conn[c].pc = "connecting", NEW h \in Handles
  PROVE  lastID[h] \in Nat /\ lastID[h] + 1 \in IDs
<1>1. conn \in [Conns -> Connections] /\ lastID[h] \in Nat /\ lastID[h] <= Cardinality(Ended)
  BY DEF EmbeddedShape, Filed, Native
<1>2. /\ Ended \subseteq Conns /\ IsFiniteSet(Conns)
      /\ Cardinality(Ended) \in Nat /\ Cardinality(Conns) \in Nat
  BY <1>1, EndedFinite, EmbeddedAssumption
<1>3. c \notin Ended
  BY DEF Ended
<1>4. Ended # Conns
  BY <1>3
<1>5. Cardinality(Ended) < Cardinality(Conns)
  <2>1. Cardinality(Ended) <= Cardinality(Conns)
    BY <1>2, FS_Subset
  <2>2. Cardinality(Ended) = Cardinality(Conns) => Ended = Conns
    BY <1>2, FS_Subset
  <2> QED
    BY <2>1, <2>2, <1>4, <1>2
<1> QED
  BY <1>1, <1>2, <1>5 DEF IDs

(* A call that ends leaves room for one more ID.                           *)
LEMMA EndedGrows ==
  ASSUME conn \in [Conns -> Connections], conn' \in [Conns -> Connections],
         \A d \in Ended : d \in Ended'
  PROVE  /\ Cardinality(Ended) \in Nat /\ Cardinality(Ended') \in Nat
         /\ Cardinality(Ended) <= Cardinality(Ended')
         /\ \A c \in Ended' : c \notin Ended => Cardinality(Ended) + 1 <= Cardinality(Ended')
<1>1. IsFiniteSet(Ended) /\ Cardinality(Ended) \in Nat
  BY EndedFinite
<1>2. Ended' \subseteq Conns /\ IsFiniteSet(Conns)
  BY EmbeddedAssumption DEF Ended
<1>3. IsFiniteSet(Ended')
  BY <1>2, FS_Subset
<1>4. Cardinality(Ended') \in Nat
  BY <1>3, FS_CardinalityType
<1>5. Ended \subseteq Ended'
  BY DEF Ended
<1>6. Cardinality(Ended) <= Cardinality(Ended')
  BY <1>5, <1>3, FS_Subset
<1>7. ASSUME NEW c \in Ended', c \notin Ended PROVE Cardinality(Ended) # Cardinality(Ended')
  BY <1>7, <1>5, <1>3, FS_Subset
<1> QED
  BY <1>1, <1>4, <1>6, <1>7

(* What a message does to the connection it is dispatched to, and what it  *)
(* leaves alone.                                                           *)
LEMMA ListenedTypes ==
  ASSUME NEW k \in Connections, NEW message \in Notes
  PROVE  /\ Listened(k, message) \in Connections
         /\ Listened(k, message).pc = k.pc /\ Listened(k, message).id = k.id
         /\ Listened(k, message).origin = k.origin
         /\ Listened(k, message).closed = k.closed
         /\ Listened(k, message).onmessage = k.onmessage
         /\ Listened(k, message).backlog = k.backlog
         /\ Listened(k, message).heard = k.heard /\ Listened(k, message).lost = k.lost
<1> DEFINE adapted == IF k.adapter THEN Append(k.adapted, message) ELSE k.adapted
<1>1. adapted \in Seq(Notes)
  BY DEF Connections
<1>2. Listened(k, message) = [k EXCEPT !.adapted = adapted]
  BY DEF Listened
<1> HIDE DEF adapted
<1>3. [k EXCEPT !.adapted = adapted] \in Connections
  BY <1>1 DEF Connections
<1>4. \A y : LET f == [k EXCEPT !.adapted = y]
             IN /\ f.pc = k.pc /\ f.id = k.id /\ f.origin = k.origin
                /\ f.closed = k.closed /\ f.onmessage = k.onmessage
                /\ f.backlog = k.backlog /\ f.heard = k.heard /\ f.lost = k.lost
  BY DEF Connections
<1> QED
  BY <1>2, <1>3, <1>4

LEMMA DispatchedTypes ==
  ASSUME NEW k \in Connections, NEW message \in Notes
  PROVE  /\ Dispatched(k, message) \in Connections
         /\ Dispatched(k, message).pc = k.pc /\ Dispatched(k, message).id = k.id
         /\ Dispatched(k, message).origin = k.origin
         /\ Dispatched(k, message).closed = k.closed
         /\ Dispatched(k, message).onmessage = k.onmessage
         /\ Dispatched(k, message).heard = k.heard
         /\ Dispatched(k, message).lost = k.lost
         /\ k.closed => Dispatched(k, message) = k
         /\ ~k.closed /\ k.onmessage => Dispatched(k, message).backlog = k.backlog
         /\ ~k.closed /\ ~k.onmessage =>
              Dispatched(k, message).backlog = Append(k.backlog, message)
<1>1. CASE k.closed
  BY <1>1 DEF Dispatched
<1>2. CASE ~k.closed /\ k.onmessage
  <2>1. Dispatched(k, message) = Listened(k, message)
    BY <1>2 DEF Dispatched
  <2>2. /\ Listened(k, message) \in Connections
        /\ Listened(k, message).pc = k.pc /\ Listened(k, message).id = k.id
        /\ Listened(k, message).origin = k.origin
        /\ Listened(k, message).closed = k.closed
        /\ Listened(k, message).onmessage = k.onmessage
        /\ Listened(k, message).backlog = k.backlog
        /\ Listened(k, message).heard = k.heard /\ Listened(k, message).lost = k.lost
    BY ListenedTypes
  <2> QED
    BY <2>1, <2>2, <1>2, Zenon
<1>3. CASE ~k.closed /\ ~k.onmessage
  <2> DEFINE longer == Append(k.backlog, message)
  <2>1. longer \in Seq(Notes)
    BY DEF Connections
  <2>2. Dispatched(k, message) = [k EXCEPT !.backlog = longer]
    BY <1>3 DEF Dispatched
  <2> HIDE DEF longer
  <2>3. [k EXCEPT !.backlog = longer] \in Connections
    BY <2>1 DEF Connections
  <2>4. \A x : LET f == [k EXCEPT !.backlog = x]
               IN /\ f.pc = k.pc /\ f.id = k.id /\ f.origin = k.origin
                  /\ f.closed = k.closed /\ f.onmessage = k.onmessage
                  /\ f.backlog = x /\ f.heard = k.heard /\ f.lost = k.lost
    BY DEF Connections
  <2>5. Dispatched(k, message).backlog = longer
    BY <2>2, <2>4
  <2> QED
    BY <2>2, <2>3, <2>4, <2>5, <1>3 DEF longer
<1> QED
  BY <1>1, <1>2, <1>3

(* Frames on top of the others.                                            *)
LEMMA ConcatTypes ==
  ASSUME NEW s \in Seq(Frames), NEW t \in Seq(Frames)
  PROVE  /\ s \o t \in Seq(Frames) /\ Len(s \o t) = Len(s) + Len(t)
         /\ \A i \in 1..Len(s) : (s \o t)[i] = s[i]
         /\ \A i \in 1..Len(t) : (s \o t)[i + Len(s)] = t[i]
<1>1. \A i \in 1..Len(s) : (s \o t)[i] = s[i]
  OBVIOUS
<1>2. \A i \in 1..Len(t) : (s \o t)[i + Len(s)] = t[i]
  OBVIOUS
<1> QED
  BY <1>1, <1>2

(* The frame of a callback, on top of the others.                          *)
LEMMA PushTypes ==
  ASSUME NEW s \in Seq(Frames), NEW f \in Frames
  PROVE  /\ <<f>> \o s \in Seq(Frames) /\ Len(<<f>> \o s) = Len(s) + 1
         /\ (<<f>> \o s)[1] = f
         /\ \A i \in 2..(Len(s) + 1) : (<<f>> \o s)[i] = s[i - 1]
<1> DEFINE one == <<f>>
<1>1. one \in Seq(Frames) /\ Len(one) = 1 /\ one[1] = f /\ Len(s) \in Nat
  OBVIOUS
<1> HIDE DEF one
<1>2. /\ one \o s \in Seq(Frames) /\ Len(one \o s) = 1 + Len(s)
      /\ (one \o s)[1] = f
      /\ \A i \in 1..Len(s) : (one \o s)[i + 1] = s[i]
  <2>1. /\ one \o s \in Seq(Frames) /\ Len(one \o s) = Len(one) + Len(s)
        /\ \A i \in 1..Len(one) : (one \o s)[i] = one[i]
        /\ \A i \in 1..Len(s) : (one \o s)[i + Len(one)] = s[i]
    BY <1>1, ConcatTypes
  <2>2. (one \o s)[1] = one[1]
    BY <2>1, <1>1
  <2> QED
    BY <2>1, <2>2, <1>1
<1>3. ASSUME NEW i \in 2..(Len(s) + 1) PROVE (one \o s)[i] = s[i - 1]
  <2>1. i - 1 \in 1..Len(s) /\ (i - 1) + 1 = i
    BY <1>1
  <2> QED
    BY <2>1, <1>2
<1> QED
  BY <1>1, <1>2, <1>3 DEF one

(* Frames remain of connections that have an onmessage.                    *)
LEMMA FramesStay ==
  ASSUME Framed, stack' \in Seq(Frames),
         \A d \in Conns : conn[d].pc = "open" =>
           conn'[d].pc = "open" /\ (conn[d].onmessage => conn'[d].onmessage),
         \A i \in 1..Len(stack') :
           \/ \E j \in 1..Len(stack) : stack'[i].to = stack[j].to
           \/ conn'[stack'[i].to].pc = "open" /\ conn'[stack'[i].to].onmessage
  PROVE  Framed'
<1> SUFFICES ASSUME NEW i \in 1..Len(stack')
             PROVE  conn'[stack'[i].to].pc = "open" /\ conn'[stack'[i].to].onmessage
  BY DEF Framed
<1>1. CASE \E j \in 1..Len(stack) : stack'[i].to = stack[j].to
  <2>1. PICK j \in 1..Len(stack) : stack'[i].to = stack[j].to
    BY <1>1
  <2>2. stack[j] \in Frames /\ conn[stack[j].to].pc = "open" /\ conn[stack[j].to].onmessage
    BY DEF Framed
  <2>3. stack[j].to \in Conns
    BY <2>2 DEF Frames
  <2> QED
    BY <2>1, <2>2, <2>3
<1> QED
  BY <1>1
-----------------------------------------------------------------------------
(* Who is where, and what was sent, after callbacks.                       *)
SameConn(d) ==
  /\ conn'[d].pc = conn[d].pc /\ conn'[d].id = conn[d].id
  /\ conn'[d].origin = conn[d].origin /\ conn'[d].closed = conn[d].closed
  /\ conn[d].onmessage => conn'[d].onmessage
  /\ conn[d].pc # "open" => conn'[d] = conn[d]
SameConns == \A d \in Conns : SameConn(d)

SentMore ==
  /\ sent' \in [GoClients -> Seq(MessageTypes)]
  /\ \A g \in GoClients : Len(sent[g]) >= 1 => Len(sent'[g]) >= 1

(* What the callback g got does to the connection d it is dispatched to.   *)
Takes(d, g) ==
  LET note == [from |-> g, n |-> Len(sent[g]) + 1]
  IN /\ conn'[d].heard = conn[d].heard /\ conn'[d].lost = conn[d].lost
     /\ conn[d].onmessage =>
          /\ conn'[d].backlog = conn[d].backlog
          /\ stack' = <<Frame(d, note, "listeners", g)>> \o stack
     /\ ~conn[d].onmessage => conn'[d].backlog = Append(conn[d].backlog, note)

(* A callback disturbs nothing but the connection under the client's ID.   *)
LEMMA CalledBackTypes ==
  ASSUME EmbeddedShape, NEW g \in GoClients, NEW type \in MessageTypes, CalledBack(g, type)
  PROVE  /\ conn' \in [Conns -> Connections] /\ SameConns /\ SentMore /\ Framed'
         /\ \A d \in Conns : conn'[d].onmessage = conn[d].onmessage
         /\ \A d \in Conns : connections[g.id] # d => conn'[d] = conn[d]
         /\ \A d \in Conns : connections[g.id] = d => Takes(d, g)
         /\ (\A d \in Conns : connections[g.id] = d => ~conn[d].onmessage) => stack' = stack
         /\ sent'[g] = Append(sent[g], type)
         /\ \A x \in GoClients : x # g => sent'[x] = sent[x]
<1> DEFINE note == [from |-> g, n |-> Len(sent[g]) + 1]
<1>1. /\ conn \in [Conns -> Connections] /\ sent \in [GoClients -> Seq(MessageTypes)]
      /\ connections \in [IDs -> Conns \union {Nil}] /\ stack \in Seq(Frames)
      /\ \A i \in IDs : connections[i] # Nil => Open(connections[i])
  BY DEF EmbeddedShape, Native, Filed, Framed
<1>2. g.id \in IDs /\ note \in Notes
  BY <1>1 DEF GoClients, Notes
<1> DEFINE longer == Append(sent[g], type)
<1>3. longer \in Seq(MessageTypes) /\ Len(longer) >= 1
  BY <1>1
<1>4. sent' = [sent EXCEPT ![g] = longer]
  BY DEF CalledBack
<1> HIDE DEF longer
<1>5. /\ sent' \in [GoClients -> Seq(MessageTypes)]
      /\ sent'[g] = longer
      /\ \A x \in GoClients : x # g => sent'[x] = sent[x]
  BY <1>1, <1>3, <1>4
<1>6. SentMore
  BY <1>3, <1>5 DEF SentMore
<1>7. CASE connections[g.id] = Nil
  <2>1. conn' = conn /\ stack' = stack
    BY <1>7 DEF CalledBack, Entered
  <2>2. \A d \in Conns : connections[g.id] # d
    BY <1>7, EmbeddedAssumption
  <2>3. SameConns
    BY <2>1, Zenon DEF SameConns, SameConn
  <2>4. conn' \in [Conns -> Connections]
    BY <2>1, <1>1
  <2>5. Framed'
    BY <2>1 DEF EmbeddedShape, Framed
  <2> QED
    BY <2>1, <2>2, <2>3, <2>4, <2>5, <1>5, <1>6, Zenon DEF longer
<1>8. CASE connections[g.id] # Nil
  <2>1. PICK e \in Conns : e = connections[g.id]
    BY <1>1, <1>2, <1>8
  <2>2. conn[e].pc = "open" /\ ~conn[e].closed /\ e # Nil
    BY <1>1, <1>2, <1>8, <2>1 DEF Open
  <2>3. conn[e] \in Connections
    BY <1>1
  <2>4. conn' = [conn EXCEPT ![e] = Dispatched(conn[e], note)]
    BY <1>8, <2>1 DEF CalledBack
  <2> DEFINE f == Frame(e, note, "listeners", g)
  <2>5. stack' = IF conn[e].onmessage THEN <<f>> \o stack ELSE stack
    BY <2>1, <2>2 DEF CalledBack, Entered
  <2>6. f \in Frames /\ f.to = e
    BY <1>2 DEF Frame, Frames
  <2> HIDE DEF note, f
  <2>7. /\ Dispatched(conn[e], note) \in Connections
        /\ Dispatched(conn[e], note).pc = conn[e].pc
        /\ Dispatched(conn[e], note).id = conn[e].id
        /\ Dispatched(conn[e], note).origin = conn[e].origin
        /\ Dispatched(conn[e], note).closed = conn[e].closed
        /\ Dispatched(conn[e], note).onmessage = conn[e].onmessage
        /\ Dispatched(conn[e], note).heard = conn[e].heard
        /\ Dispatched(conn[e], note).lost = conn[e].lost
        /\ conn[e].onmessage => Dispatched(conn[e], note).backlog = conn[e].backlog
        /\ ~conn[e].onmessage =>
             Dispatched(conn[e], note).backlog = Append(conn[e].backlog, note)
    BY <2>2, <2>3, <1>2, DispatchedTypes
  <2>8. conn' \in [Conns -> Connections]
    BY <1>1, <2>4, <2>7
  <2>9. conn'[e] = Dispatched(conn[e], note) /\ \A d \in Conns : d # e => conn'[d] = conn[d]
    BY <1>1, <2>4
  <2>10. \A d \in Conns : conn'[d].onmessage = conn[d].onmessage
    BY <2>7, <2>9, Zenon
  <2>11. SameConns
    <3> SUFFICES ASSUME NEW d \in Conns
                 PROVE  /\ conn'[d].pc = conn[d].pc /\ conn'[d].id = conn[d].id
                        /\ conn'[d].origin = conn[d].origin
                        /\ conn'[d].closed = conn[d].closed
                        /\ conn[d].onmessage => conn'[d].onmessage
                        /\ conn[d].pc # "open" => conn'[d] = conn[d]
      BY DEF SameConns, SameConn
    <3>1. CASE d = e
      BY <3>1, <2>2, <2>7, <2>9, <2>10, Zenon
    <3>2. CASE d # e
      BY <3>2, <2>9, Zenon
    <3> QED
      BY <3>1, <3>2
  <2>12. Takes(e, g)
    BY <2>5, <2>7, <2>9, Zenon DEF Takes, note, f
  <2>13. Framed'
    <3>1. \A d \in Conns : conn[d].pc = "open" =>
            conn'[d].pc = "open" /\ (conn[d].onmessage => conn'[d].onmessage)
      BY <2>11, Zenon DEF SameConns, SameConn
    <3>2. CASE conn[e].onmessage
      <4>1. /\ stack' \in Seq(Frames) /\ Len(stack') = Len(stack) + 1 /\ stack'[1].to = e
            /\ \A i \in 2..(Len(stack) + 1) : stack'[i] = stack[i - 1]
        BY <3>2, <2>5, <2>6, <1>1, PushTypes
      <4>2. conn'[e].pc = "open" /\ conn'[e].onmessage
        BY <3>1, <3>2, <2>2
      <4>3. ASSUME NEW i \in 1..Len(stack')
            PROVE  \/ \E j \in 1..Len(stack) : stack'[i].to = stack[j].to
                   \/ conn'[stack'[i].to].pc = "open" /\ conn'[stack'[i].to].onmessage
        <5>1. CASE i = 1
          BY <5>1, <4>1, <4>2
        <5>2. CASE i # 1
          <6>1. stack'[i] = stack[i - 1] /\ i - 1 \in 1..Len(stack)
            BY <5>2, <4>1, <1>1
          <6> QED
            BY <6>1
        <5> QED
          BY <5>1, <5>2
      <4> QED
        BY <4>1, <4>3, <3>1, FramesStay DEF EmbeddedShape
    <3>3. CASE ~conn[e].onmessage
      <4>1. stack' = stack
        BY <3>3, <2>5
      <4> QED
        BY <4>1, <3>1, <1>1, FramesStay DEF EmbeddedShape
    <3> QED
      BY <3>2, <3>3
  <2>14. ~conn[e].onmessage => stack' = stack
    BY <2>5
  <2> QED
    BY <2>1, <2>8, <2>9, <2>10, <2>11, <2>12, <2>13, <2>14, <1>5, <1>6, Zenon DEF longer
<1> QED
  BY <1>7, <1>8
-----------------------------------------------------------------------------
(* Both parts hold at first.                                               *)
LEMMA InitShapesEmbedded == EmbeddedInit => EmbeddedShape /\ EmbeddedWhole
<1> SUFFICES ASSUME EmbeddedInit PROVE EmbeddedShape /\ EmbeddedWhole
  OBVIOUS
<1>1. NoConnection \in Connections /\ NoConnection.pc = "idle" /\ NoConnection.backlog = <<>>
      /\ NoConnection.heard = <<>> /\ NoConnection.lost = {}
      /\ ~NoConnection.onmessage /\ ~NoConnection.closed
  BY DEF NoConnection, Connections
<1>2. conn = [c \in Conns |-> NoConnection]
  BY DEF EmbeddedInit
<1>3. conn \in [Conns -> Connections] /\ \A c \in Conns : conn[c] = NoConnection
  BY <1>1, <1>2
<1>4. Begun
  BY <1>1, <1>3, Zenon DEF Begun, Untouched
<1>5. Cardinality(Ended) \in Nat
  BY <1>3, EndedFinite
<1>6. <<>> \in Seq(MessageTypes)
  OBVIOUS
<1>7. Native
  BY <1>5, <1>6 DEF EmbeddedInit, Native
<1>8. Filed
  BY <1>3 DEF EmbeddedInit, Filed
<1>9. Streams /\ Served
  BY <1>1, <1>3 DEF Streams, Served, Open
<1>10. Kept
  BY EmbeddedAssumption DEF EmbeddedInit, Kept
<1>11. Framed
  BY DEF EmbeddedInit, Framed
<1> QED
  BY <1>4, <1>7, <1>8, <1>9, <1>10, <1>11 DEF EmbeddedShape, EmbeddedWhole, Intact

(* What leaves the connections where they are keeps the shape.             *)
LEMMA CallbacksKeepShape ==
  ASSUME EmbeddedShape, conn' \in [Conns -> Connections], SameConns, SentMore, Framed',
         UNCHANGED <<handle, connections, live, lastID, clients, made, stores,
                     startsOverlapped, owner>>,
         subscribed' \subseteq clients, quit' \in {"no", "inTime", "late", "revived"},
         targets' \in [Handles -> SUBSET GoClients],
         \A h \in Handles : targets'[h] \subseteq Of(h)
  PROVE  EmbeddedShape'
<1>1. /\ conn \in [Conns -> Connections]
      /\ \A h \in Handles : lastID[h] \in Nat /\ lastID[h] <= Cardinality(Ended)
  BY DEF EmbeddedShape, Native, Filed
<1>2. \A d \in Conns : conn'[d].pc = conn[d].pc /\ conn'[d].id = conn[d].id
        /\ conn'[d].origin = conn[d].origin /\ (conn'[d].closed <=> conn[d].closed)
        /\ (conn[d].pc # "open" => conn'[d] = conn[d])
  BY Zenon DEF SameConns, SameConn
<1>3. Ended' = Ended
  BY <1>2 DEF Ended
<1>4. Native'
  BY <1>1, <1>3 DEF EmbeddedShape, Native, SentMore, Of, stores
<1>5. \A d \in Conns : Open(d) => Open(d)'
  BY <1>2 DEF Open
<1>6. Filed'
  <2>1. ASSUME NEW i \in IDs, connections[i] # Nil
        PROVE  Open(connections[i])' /\ conn'[connections[i]].id = i
    <3>1. connections[i] \in Conns /\ Open(connections[i]) /\ conn[connections[i]].id = i
      BY <2>1 DEF EmbeddedShape, Filed
    <3> QED
      BY <3>1, <1>2, <1>5
  <2>2. connections' = connections
    OBVIOUS
  <2>3. \A i \in IDs : connections'[i] # Nil =>
          Open(connections[i])' /\ conn'[connections'[i]].id = i
    BY <2>1, <2>2
  <2> QED
    BY <2>2, <2>3, <1>5 DEF EmbeddedShape, Filed
<1>7. Begun'
  <2> SUFFICES ASSUME NEW c \in Conns
               PROVE  IF conn'[c].pc = "open" THEN Originates(c)' ELSE Untouched(c)'
    BY DEF Begun
  <2>1. CASE conn[c].pc = "open"
    <3>1. Originates(c)
      BY <2>1 DEF EmbeddedShape, Begun
    <3>2. Originates(c)'
      BY <3>1, <1>2 DEF Originates, SentMore
    <3> QED
      BY <3>2, <2>1, <1>2
  <2>2. CASE conn[c].pc # "open"
    <3>1. Untouched(c)
      BY <2>2 DEF EmbeddedShape, Begun
    <3>2. conn'[c] = conn[c]
      BY <2>2, <1>2
    <3> QED
      BY <2>2, <3>1, <3>2, Zenon DEF Untouched
  <2> QED
    BY <2>1, <2>2
<1> QED
  BY <1>4, <1>6, <1>7 DEF EmbeddedShape
(* So does a call that goes on or fails.                                   *)
LEMMA CallsKeepShape ==
  ASSUME EmbeddedShape, NEW c \in Conns,
         NEW p \in {"importing", "connecting", "answered", "failed"},
         conn[c].pc \in {"idle", "importing", "connecting"},
         conn' = [conn EXCEPT ![c].pc = p],
         UNCHANGED <<connections, stack, sent, clients, subscribed, targets, owner>>,
         handle' \in Handles \union {Nil}, handle' = Nil => handle = Nil,
         live' \subseteq databases', databases' \subseteq made', made' \subseteq Handles,
         startsOverlapped' \in BOOLEAN, quit' \in {"no", "inTime", "late", "revived"},
         lastID' \in [Handles -> Nat],
         \A h \in Handles : lastID[h] <= lastID'[h] /\ lastID'[h] <= lastID[h] + 1,
         p \in {"importing", "connecting"} => lastID' = lastID
  PROVE  EmbeddedShape'
<1>1. /\ conn \in [Conns -> Connections]
      /\ \A h \in Handles : lastID[h] \in Nat /\ lastID[h] <= Cardinality(Ended)
      /\ conn[c].pc # "open"
  BY DEF EmbeddedShape, Native, Filed
<1>2. conn[c] \in Connections
  BY <1>1
<1>3. \A k \in Connections : /\ [k EXCEPT !.pc = p] \in Connections
                              /\ [k EXCEPT !.pc = p].pc = p
                              /\ [k EXCEPT !.pc = p].backlog = k.backlog
                              /\ [k EXCEPT !.pc = p].heard = k.heard
                              /\ [k EXCEPT !.pc = p].lost = k.lost
                              /\ [k EXCEPT !.pc = p].onmessage = k.onmessage
                              /\ [k EXCEPT !.pc = p].closed = k.closed
  BY DEF Connections
<1>4. conn' \in [Conns -> Connections] /\ conn'[c] = [conn[c] EXCEPT !.pc = p]
      /\ \A d \in Conns : d # c => conn'[d] = conn[d]
  BY <1>1, <1>2, <1>3
<1>5. conn'[c].pc = p /\ conn'[c].backlog = conn[c].backlog /\ conn'[c].heard = conn[c].heard
      /\ conn'[c].lost = conn[c].lost /\ conn'[c].onmessage = conn[c].onmessage
      /\ conn'[c].closed = conn[c].closed
  BY <1>2, <1>3, <1>4, Zenon
<1>6. \A d \in Ended : d \in Ended'
  BY <1>1, <1>4 DEF Ended
<1>7. p \in {"answered", "failed"} => c \in Ended'
  BY <1>5 DEF Ended
<1>8. c \notin Ended
  BY <1>1 DEF Ended
<1>9. \A h \in Handles : lastID'[h] <= Cardinality(Ended')
  <2>1. /\ Cardinality(Ended) \in Nat /\ Cardinality(Ended') \in Nat
        /\ Cardinality(Ended) <= Cardinality(Ended')
        /\ c \in Ended' => Cardinality(Ended) + 1 <= Cardinality(Ended')
    BY <1>1, <1>4, <1>6, <1>8, EndedGrows
  <2>2. CASE p \in {"answered", "failed"}
    BY <2>1, <2>2, <1>1, <1>7
  <2>3. CASE p \in {"importing", "connecting"}
    BY <2>1, <2>3, <1>1
  <2> QED
    BY <2>2, <2>3
<1>10. Native'
  <2>1. \A h \in Handles : lastID'[h] <= Cardinality(Ended')
    BY <1>9
  <2> QED
    BY <2>1 DEF EmbeddedShape, Native, Of
<1>11. \A d \in Conns : Open(d) => d # c /\ Open(d)'
  BY <1>1, <1>4 DEF Open
<1>12. Filed'
  <2>1. ASSUME NEW i \in IDs, connections[i] # Nil
        PROVE  Open(connections[i])' /\ conn'[connections[i]].id = i
    <3>1. connections[i] \in Conns /\ Open(connections[i]) /\ conn[connections[i]].id = i
      BY <2>1 DEF EmbeddedShape, Filed
    <3> QED
      BY <3>1, <1>4, <1>11
  <2>2. \A i \in IDs : connections'[i] # Nil =>
          Open(connections[i])' /\ conn'[connections'[i]].id = i
    BY <2>1
  <2> QED
    BY <2>2, <1>4 DEF EmbeddedShape, Filed
<1>13. Begun'
  <2> SUFFICES ASSUME NEW d \in Conns
               PROVE  IF conn'[d].pc = "open" THEN Originates(d)' ELSE Untouched(d)'
    BY DEF Begun
  <2>1. CASE d = c
    <3>1. Untouched(c)
      BY <1>1 DEF EmbeddedShape, Begun
    <3>2. Untouched(c)'
      BY <3>1, <1>5, Zenon DEF Untouched
    <3> QED
      BY <2>1, <3>2, <1>5
  <2>2. CASE d # c /\ conn[d].pc = "open"
    <3>1. Originates(d) /\ conn'[d] = conn[d]
      BY <2>2, <1>4 DEF EmbeddedShape, Begun
    <3>2. conn[d].origin.handle \in Handles /\ conn[d].id \in Nat
      BY <3>1 DEF Originates, GoClients, IDs
    <3>3. lastID[conn[d].origin.handle] <= lastID'[conn[d].origin.handle]
          /\ lastID[conn[d].origin.handle] \in Nat /\ lastID'[conn[d].origin.handle] \in Nat
      BY <3>2, <1>1
    <3>4. Originates(d)'
      BY <3>1, <3>2, <3>3 DEF Originates
    <3> QED
      BY <3>4, <3>1, <2>2
  <2>3. CASE d # c /\ conn[d].pc # "open"
    <3>1. Untouched(d) /\ conn'[d] = conn[d]
      BY <2>3, <1>4 DEF EmbeddedShape, Begun
    <3>2. Untouched(d)'
      BY <3>1, Zenon DEF Untouched
    <3> QED
      BY <2>3, <3>1, <3>2
  <2> QED
    BY <2>1, <2>2, <2>3
<1>14. Framed'
  BY <1>1, <1>4, FramesStay DEF EmbeddedShape, Framed
<1> QED
  BY <1>10, <1>12, <1>13, <1>14 DEF EmbeddedShape
-----------------------------------------------------------------------------
(* What becomes of a connection that opens.                                *)
Opened(k, g) == [k EXCEPT !.pc = "open", !.id = g.id, !.origin = g]

(* A call of connectRealtime that succeeds, with client g.                 *)
Connected(c, g) ==
  /\ conn[c].pc = "connecting" /\ handle # Nil
  /\ g = FreshClient(handle)
  /\ clients' = clients \union {g}
  /\ sent' = [sent EXCEPT ![g] = <<"ready">>]
  /\ connections' = [connections EXCEPT ![g.id] = c]
  /\ conn' = [d \in Conns |->
       IF d = c THEN Opened(conn[c], g)
       ELSE IF d = connections[g.id] THEN Dispatched(conn[d], [from |-> g, n |-> 1])
       ELSE conn[d]]
  /\ stack' = Entered(connections[g.id], [from |-> g, n |-> 1])
  /\ lastID' = [lastID EXCEPT ![handle] = @ + 1]
  /\ UNCHANGED <<handle, live, subscribed, targets, made, stores, running, events,
                 startsOverlapped, ownership>>

LEMMA OpenedTypes ==
  ASSUME NEW k \in Connections, NEW g \in GoClients, g.id \in Nat
  PROVE  /\ Opened(k, g) \in Connections
         /\ Opened(k, g).pc = "open" /\ Opened(k, g).id = g.id /\ Opened(k, g).origin = g
         /\ Opened(k, g).closed = k.closed /\ Opened(k, g).onmessage = k.onmessage
         /\ Opened(k, g).backlog = k.backlog /\ Opened(k, g).heard = k.heard
         /\ Opened(k, g).lost = k.lost
<1>1. g \in GoClients \union {Nil}
  OBVIOUS
<1> HIDE DEF GoClients
<1>2. Opened(k, g) \in Connections
  BY <1>1 DEF Connections, Opened
<1>3. \A x, y, z : LET f == [k EXCEPT !.pc = x, !.id = y, !.origin = z]
                   IN /\ f.pc = x /\ f.id = y /\ f.origin = z
                      /\ f.closed = k.closed /\ f.onmessage = k.onmessage
                      /\ f.backlog = k.backlog /\ f.heard = k.heard /\ f.lost = k.lost
  BY DEF Connections
<1> QED
  BY <1>2, <1>3 DEF Opened

(* The frame of such a callback is of a connection that has an onmessage.  *)
LEMMA EnteredKeepsFrames ==
  ASSUME EmbeddedShape, NEW e \in Conns \union {Nil}, NEW message \in Notes,
         message.from \in GoClients, stack' = Entered(e, message),
         e # Nil => conn[e].pc = "open",
         \A d \in Conns : conn[d].pc = "open" =>
           conn'[d].pc = "open" /\ (conn[d].onmessage => conn'[d].onmessage)
  PROVE  Framed'
<1>1. Framed /\ stack \in Seq(Frames)
  BY DEF EmbeddedShape, Framed
<1>2. CASE e # Nil /\ ~conn[e].closed /\ conn[e].onmessage
  <2> DEFINE f == Frame(e, message, "listeners", message.from)
  <2>1. stack' = <<f>> \o stack
    BY <1>2 DEF Entered
  <2>2. f \in Frames /\ f.to = e
    BY <1>2 DEF Frame, Frames
  <2> HIDE DEF f
  <2>3. /\ stack' \in Seq(Frames) /\ Len(stack') = Len(stack) + 1 /\ stack'[1].to = e
        /\ \A i \in 2..(Len(stack) + 1) : stack'[i] = stack[i - 1]
    BY <2>1, <2>2, <1>1, PushTypes
  <2>4. conn'[e].pc = "open" /\ conn'[e].onmessage
    BY <1>2
  <2>5. ASSUME NEW i \in 1..Len(stack')
        PROVE  \/ \E j \in 1..Len(stack) : stack'[i].to = stack[j].to
               \/ conn'[stack'[i].to].pc = "open" /\ conn'[stack'[i].to].onmessage
    <3>1. CASE i = 1
      BY <3>1, <2>3, <2>4
    <3>2. CASE i # 1
      <4>1. stack'[i] = stack[i - 1] /\ i - 1 \in 1..Len(stack)
        BY <3>2, <2>3, <1>1
      <4> QED
        BY <4>1
    <3> QED
      BY <3>1, <3>2
  <2> QED
    BY <1>1, <2>3, <2>5, FramesStay
<1>3. CASE ~(e # Nil /\ ~conn[e].closed /\ conn[e].onmessage)
  <2>1. stack' = stack
    BY <1>3 DEF Entered
  <2> QED
    BY <1>1, <2>1, FramesStay
<1> QED
  BY <1>2, <1>3

(* The client is new, and the connection is the only one that it reaches.  *)
LEMMA ConnectedTypes ==
  ASSUME EmbeddedShape, NEW c \in Conns, NEW g, Connected(c, g)
  PROVE  /\ g \in GoClients /\ handle \in Handles /\ lastID[handle] \in Nat
         /\ g.handle = handle /\ g.id = lastID[handle] + 1 /\ g.id \in IDs
         /\ conn' \in [Conns -> Connections]
         /\ conn'[c].pc = "open" /\ conn'[c].id = g.id /\ conn'[c].origin = g
         /\ conn'[c].closed = conn[c].closed /\ conn'[c].onmessage = conn[c].onmessage
         /\ conn'[c].backlog = conn[c].backlog /\ conn'[c].heard = conn[c].heard
         /\ conn'[c].lost = conn[c].lost /\ Framed'
         /\ connections[g.id] = Nil => stack' = stack
         /\ \A d \in Conns \ {c} : SameConn(d)
         /\ \A d \in Conns \ {c} : connections[g.id] # d => conn'[d] = conn[d]
<1> DEFINE note == [from |-> g, n |-> 1]
<1>1. /\ conn \in [Conns -> Connections] /\ conn[c].pc = "connecting"
      /\ connections \in [IDs -> Conns \union {Nil}]
      /\ handle \in Handles
      /\ \A i \in IDs : connections[i] # Nil => Open(connections[i])
  BY DEF EmbeddedShape, Native, Filed, Connected
<1>2. lastID[handle] \in Nat /\ lastID[handle] + 1 \in IDs
  BY <1>1, IDsSuffice
<1>3. g = [handle |-> handle, id |-> lastID[handle] + 1]
  BY DEF Connected, FreshClient
<1>4. g \in GoClients /\ g.handle = handle /\ g.id = lastID[handle] + 1 /\ g.id \in IDs
  BY <1>1, <1>2, <1>3 DEF GoClients
<1>5. note \in Notes
  BY <1>4 DEF Notes
<1>6. g.id \in Nat
  BY <1>4 DEF IDs
<1>7. conn' = [d \in Conns |->
         IF d = c THEN Opened(conn[c], g)
         ELSE IF d = connections[g.id] THEN Dispatched(conn[d], note) ELSE conn[d]]
  BY DEF Connected
<1> HIDE DEF note
<1>8. conn[c] \in Connections
  BY <1>1
<1>9. conn'[c] = Opened(conn[c], g)
  BY <1>7
<1>10. /\ Opened(conn[c], g) \in Connections
       /\ Opened(conn[c], g).pc = "open" /\ Opened(conn[c], g).id = g.id
       /\ Opened(conn[c], g).origin = g
       /\ Opened(conn[c], g).closed = conn[c].closed
       /\ Opened(conn[c], g).onmessage = conn[c].onmessage
       /\ Opened(conn[c], g).backlog = conn[c].backlog
       /\ Opened(conn[c], g).heard = conn[c].heard
       /\ Opened(conn[c], g).lost = conn[c].lost
  BY <1>4, <1>6, <1>8, OpenedTypes
<1>11. /\ conn'[c] \in Connections
       /\ conn'[c].pc = "open" /\ conn'[c].id = g.id /\ conn'[c].origin = g
       /\ conn'[c].closed = conn[c].closed /\ conn'[c].onmessage = conn[c].onmessage
       /\ conn'[c].backlog = conn[c].backlog /\ conn'[c].heard = conn[c].heard
       /\ conn'[c].lost = conn[c].lost
  BY <1>9, <1>10, Zenon
<1>12. ASSUME NEW d \in Conns \ {c}
       PROVE  /\ conn'[d] \in Connections /\ SameConn(d)
              /\ connections[g.id] # d => conn'[d] = conn[d]
  <2>1. conn[d] \in Connections
    BY <1>1
  <2>2. CASE d = connections[g.id]
    <3>1. conn'[d] = Dispatched(conn[d], note)
      BY <2>2, <1>7
    <3>2. conn[d].pc = "open"
      BY <2>2, <1>1, <1>4, EmbeddedAssumption DEF Open
    <3>3. /\ Dispatched(conn[d], note) \in Connections
          /\ Dispatched(conn[d], note).pc = conn[d].pc
          /\ Dispatched(conn[d], note).id = conn[d].id
          /\ Dispatched(conn[d], note).origin = conn[d].origin
          /\ Dispatched(conn[d], note).closed = conn[d].closed
          /\ Dispatched(conn[d], note).onmessage = conn[d].onmessage
      BY <2>1, <1>5, DispatchedTypes
    <3> QED
      BY <2>2, <3>1, <3>2, <3>3, Zenon DEF SameConn
  <2>3. CASE d # connections[g.id]
    <3>1. conn'[d] = conn[d]
      BY <2>3, <1>7
    <3> QED
      BY <2>1, <3>1, Zenon DEF SameConn
  <2> QED
    BY <2>2, <2>3
<1>13. conn' \in [Conns -> Connections]
  <2>1. \A d \in Conns : conn'[d] \in Connections
    BY <1>11, <1>12
  <2> QED
    BY <2>1, <1>7
<1>14. stack' = Entered(connections[g.id], note)
  BY DEF Connected, note
<1>15. Framed'
  <2>1. \A d \in Conns : conn[d].pc = "open" =>
          conn'[d].pc = "open" /\ (conn[d].onmessage => conn'[d].onmessage)
    BY <1>1, <1>12, Zenon DEF SameConn
  <2>2. connections[g.id] \in Conns \union {Nil} /\ note.from \in GoClients
        /\ (connections[g.id] # Nil => conn[connections[g.id]].pc = "open")
    BY <1>1, <1>4 DEF Open, note
  <2> QED
    BY <2>1, <2>2, <1>5, <1>14, EnteredKeepsFrames
<1>16. connections[g.id] = Nil => stack' = stack
  BY <1>14 DEF Entered
<1> QED
  BY <1>1, <1>2, <1>4, <1>11, <1>12, <1>13, <1>15, <1>16, Zenon

(* The ID it uses up is that of a call that has ended now.                 *)
LEMMA ConnectedKeepsShape ==
  ASSUME EmbeddedShape, NEW c \in Conns, NEW g, Connected(c, g)
  PROVE  EmbeddedShape'
<1>1. /\ g \in GoClients /\ handle \in Handles /\ lastID[handle] \in Nat
      /\ g.handle = handle /\ g.id = lastID[handle] + 1 /\ g.id \in IDs
      /\ conn' \in [Conns -> Connections]
      /\ conn'[c].pc = "open" /\ conn'[c].id = g.id /\ conn'[c].origin = g
      /\ conn'[c].closed = conn[c].closed /\ Framed'
      /\ \A d \in Conns \ {c} : SameConn(d)
  BY ConnectedTypes
<1>2. /\ conn \in [Conns -> Connections] /\ conn[c].pc = "connecting"
      /\ sent \in [GoClients -> Seq(MessageTypes)]
      /\ connections \in [IDs -> Conns \union {Nil}]
      /\ lastID \in [Handles -> Nat]
      /\ \A h \in Handles : lastID[h] <= Cardinality(Ended)
  BY DEF EmbeddedShape, Native, Filed, Connected
<1>3. /\ sent' = [sent EXCEPT ![g] = <<"ready">>]
      /\ connections' = [connections EXCEPT ![g.id] = c]
      /\ lastID' = [lastID EXCEPT ![handle] = lastID[handle] + 1]
      /\ clients' = clients \union {g} /\ handle # Nil
      /\ UNCHANGED <<handle, live, databases, subscribed, targets, made, startsOverlapped,
                     owner, quit>>
  BY DEF Connected, stores, ownership
<1>4. \A d \in Conns \ {c} : /\ conn'[d].pc = conn[d].pc /\ conn'[d].id = conn[d].id
                             /\ conn'[d].origin = conn[d].origin
                             /\ (conn'[d].closed <=> conn[d].closed)
                             /\ (conn[d].pc # "open" => conn'[d] = conn[d])
  BY <1>1, Zenon DEF SameConn
<1>5. <<"ready">> \in Seq(MessageTypes) /\ Len(<<"ready">>) = 1
  BY DEF MessageTypes
<1>6. sent' \in [GoClients -> Seq(MessageTypes)] /\ Len(sent'[g]) >= 1
      /\ \A x \in GoClients : Len(sent[x]) >= 1 => Len(sent'[x]) >= 1
  BY <1>1, <1>2, <1>3, <1>5
<1>7. /\ lastID' \in [Handles -> Nat] /\ lastID'[handle] = lastID[handle] + 1
      /\ \A h \in Handles : lastID[h] <= lastID'[h] /\ lastID'[h] <= lastID[h] + 1
                            /\ (h # handle => lastID'[h] = lastID[h])
  BY <1>1, <1>2, <1>3
<1>8. \A h \in Handles : lastID'[h] <= Cardinality(Ended')
  <2>1. \A d \in Ended : d \in Ended'
    BY <1>2, <1>4 DEF Ended
  <2>2. c \in Ended' /\ c \notin Ended
    BY <1>1, <1>2 DEF Ended
  <2>3. /\ Cardinality(Ended) \in Nat /\ Cardinality(Ended') \in Nat
        /\ Cardinality(Ended) + 1 <= Cardinality(Ended')
    BY <2>1, <2>2, <1>1, <1>2, EndedGrows
  <2> QED
    BY <2>3, <1>2, <1>7
<1>9. Native'
  BY <1>1, <1>3, <1>6, <1>7, <1>8 DEF EmbeddedShape, Native, Of
<1>10. \A d \in Conns \ {c} : Open(d) => Open(d)'
  BY <1>4 DEF Open
<1>11. Open(c)'
  <2>1. Untouched(c)
    BY <1>2 DEF EmbeddedShape, Begun
  <2>2. ~conn[c].closed
    BY <2>1 DEF Untouched
  <2> QED
    BY <2>2, <1>1, Zenon DEF Open
<1>12. Filed'
  <2>1. ASSUME NEW i \in IDs, connections'[i] # Nil
        PROVE  /\ conn'[connections'[i]].pc = "open" /\ ~conn'[connections'[i]].closed
               /\ conn'[connections'[i]].id = i
    <3>1. CASE i = g.id
      <4>1. connections'[i] = c
        BY <3>1, <1>2, <1>3, <1>1
      <4>2. conn'[c].pc = "open" /\ ~conn'[c].closed /\ conn'[c].id = i
        BY <3>1, <1>1, <1>11 DEF Open
      <4> QED
        BY <4>1, <4>2, Zenon
    <3>2. CASE i # g.id
      <4>1. connections'[i] = connections[i]
        BY <3>2, <1>2, <1>3
      <4>2. PICK d \in Conns : d = connections[i] /\ Open(d) /\ conn[d].id = i
        BY <2>1, <4>1 DEF EmbeddedShape, Filed
      <4>3. d # c
        BY <4>2, <1>2 DEF Open
      <4>4. conn'[d].pc = "open" /\ ~conn'[d].closed /\ conn'[d].id = i
        BY <4>2, <4>3, <1>4 DEF Open
      <4> QED
        BY <4>1, <4>2, <4>4, Zenon
    <3> QED
      BY <3>1, <3>2
  <2>2. connections' \in [IDs -> Conns \union {Nil}]
    BY <1>1, <1>2, <1>3
  <2>3. \A i \in IDs : connections'[i] # Nil =>
          Open(connections[i])' /\ conn'[connections'[i]].id = i
    BY <2>1, Zenon DEF Open
  <2>4. startsOverlapped' \in BOOLEAN /\ owner' \in Conns \union {Nil}
        /\ quit' \in {"no", "inTime", "late", "revived"} /\ handle' # Nil
    BY <1>3 DEF EmbeddedShape, Filed
  <2> QED
    BY <2>2, <2>3, <2>4, <1>1 DEF Filed
<1>13. Begun'
  <2> SUFFICES ASSUME NEW d \in Conns
               PROVE  IF conn'[d].pc = "open" THEN Originates(d)' ELSE Untouched(d)'
    BY DEF Begun
  <2>1. CASE d = c
    BY <2>1, <1>1, <1>6, <1>7 DEF Originates
  <2>2. CASE d # c /\ conn[d].pc = "open"
    <3>1. Originates(d) /\ conn'[d].pc = conn[d].pc
      BY <2>2, <1>4 DEF EmbeddedShape, Begun
    <3>2. conn[d].origin.handle \in Handles /\ conn[d].id \in Nat
      BY <3>1 DEF Originates, GoClients, IDs
    <3>3. lastID[conn[d].origin.handle] <= lastID'[conn[d].origin.handle]
          /\ lastID[conn[d].origin.handle] \in Nat /\ lastID'[conn[d].origin.handle] \in Nat
      BY <3>2, <1>2, <1>7
    <3>4. conn'[d].id = conn[d].id /\ conn'[d].origin = conn[d].origin
      BY <2>2, <1>4
    <3>5. Originates(d)'
      BY <3>1, <3>2, <3>3, <3>4, <1>6 DEF Originates
    <3> QED
      BY <3>1, <3>5, <2>2
  <2>3. CASE d # c /\ conn[d].pc # "open"
    <3>1. Untouched(d) /\ conn'[d] = conn[d]
      BY <2>3, <1>4 DEF EmbeddedShape, Begun
    <3>2. Untouched(d)'
      BY <3>1, Zenon DEF Untouched
    <3> QED
      BY <2>3, <3>1, <3>2
  <2> QED
    BY <2>1, <2>2, <2>3
<1> QED
  BY <1>1, <1>9, <1>12, <1>13 DEF EmbeddedShape
-----------------------------------------------------------------------------
(* What becomes of a connection that is closed.                            *)
Shut(k) == [k EXCEPT !.closed = TRUE]

LEMMA ShutTypes ==
  ASSUME NEW k \in Connections
  PROVE  /\ Shut(k) \in Connections /\ Shut(k).closed
         /\ Shut(k).pc = k.pc /\ Shut(k).id = k.id /\ Shut(k).origin = k.origin
         /\ Shut(k).onmessage = k.onmessage
         /\ Shut(k).backlog = k.backlog /\ Shut(k).heard = k.heard
         /\ Shut(k).lost = k.lost
<1>1. \A x \in BOOLEAN : [k EXCEPT !.closed = x] \in Connections
  BY DEF Connections
<1>2. \A x : LET f == [k EXCEPT !.closed = x]
             IN /\ f.closed = x /\ f.pc = k.pc /\ f.id = k.id /\ f.origin = k.origin
                /\ f.onmessage = k.onmessage /\ f.backlog = k.backlog /\ f.heard = k.heard
                /\ f.lost = k.lost
  BY DEF Connections
<1>3. Shut(k).closed = TRUE
  BY <1>2, Zenon DEF Shut
<1> QED
  BY <1>1, <1>2, <1>3, Zenon DEF Shut

(* The connections of who are closed, and some of the native side is gone. *)
Closing(who) ==
  /\ who \subseteq {c \in Conns : conn[c].pc = "open"}
  /\ conn' = [c \in Conns |-> IF c \in who THEN Shut(conn[c]) ELSE conn[c]]
  /\ connections' \in [IDs -> Conns \union {Nil}]
  /\ \A i \in IDs : connections'[i] # Nil =>
       connections'[i] = connections[i] /\ connections[i] \notin who
  /\ handle' \in {handle, Nil}
  /\ handle' = Nil => \A i \in IDs : connections'[i] = Nil
  /\ clients' \subseteq clients /\ subscribed' \subseteq clients'
  /\ live' \subseteq databases' /\ databases' \subseteq databases
  /\ quit' \in {"no", "inTime", "late", "revived"}
  /\ UNCHANGED <<stack, lastID, targets, made, broken, running, sent, events,
                 startsOverlapped, owner>>

(* Closing disturbs none but who, and these only in being closed.          *)
LEMMA ClosingTypes ==
  ASSUME EmbeddedShape, NEW who, Closing(who)
  PROVE  /\ conn' \in [Conns -> Connections]
         /\ \A d \in Conns : /\ conn'[d].pc = conn[d].pc /\ conn'[d].id = conn[d].id
                             /\ conn'[d].origin = conn[d].origin
                             /\ conn'[d].onmessage = conn[d].onmessage
                             /\ conn'[d].backlog = conn[d].backlog
                             /\ conn'[d].heard = conn[d].heard
                             /\ conn'[d].lost = conn[d].lost
         /\ \A d \in who : d \in Conns /\ conn[d].pc = "open" /\ conn'[d].closed
         /\ \A d \in Conns : d \notin who => conn'[d] = conn[d]
<1>1. conn \in [Conns -> Connections]
  BY DEF EmbeddedShape, Filed
<1>2. /\ \A d \in who : d \in Conns /\ conn[d].pc = "open" /\ conn'[d] = Shut(conn[d])
      /\ \A d \in Conns : d \notin who => conn'[d] = conn[d]
  BY DEF Closing
<1>3. ASSUME NEW d \in Conns
      PROVE  /\ Shut(conn[d]) \in Connections /\ Shut(conn[d]).closed
             /\ Shut(conn[d]).pc = conn[d].pc /\ Shut(conn[d]).id = conn[d].id
             /\ Shut(conn[d]).origin = conn[d].origin
             /\ Shut(conn[d]).onmessage = conn[d].onmessage
             /\ Shut(conn[d]).backlog = conn[d].backlog
             /\ Shut(conn[d]).heard = conn[d].heard /\ Shut(conn[d]).lost = conn[d].lost
  BY <1>1, ShutTypes
<1>4. conn' \in [Conns -> Connections]
  BY <1>1, <1>3 DEF Closing
<1>5. \A d \in who : d \in Conns /\ conn[d].pc = "open" /\ conn'[d].closed
  BY <1>2, <1>3, Zenon
<1>6. ASSUME NEW d \in Conns
      PROVE  /\ conn'[d].pc = conn[d].pc /\ conn'[d].id = conn[d].id
             /\ conn'[d].origin = conn[d].origin
             /\ conn'[d].onmessage = conn[d].onmessage
             /\ conn'[d].backlog = conn[d].backlog
             /\ conn'[d].heard = conn[d].heard /\ conn'[d].lost = conn[d].lost
  <2>1. CASE d \in who
    BY <2>1, <1>2, <1>3, Zenon
  <2>2. CASE d \notin who
    BY <2>2, <1>2, Zenon
  <2> QED
    BY <2>1, <2>2
<1> QED
  BY <1>2, <1>4, <1>5, <1>6

(* What stays filed was not closed.                                        *)
LEMMA ClosingKeepsShape ==
  ASSUME EmbeddedShape, NEW who, Closing(who)
  PROVE  EmbeddedShape'
<1>1. /\ conn' \in [Conns -> Connections]
      /\ \A d \in Conns : /\ conn'[d].pc = conn[d].pc /\ conn'[d].id = conn[d].id
                          /\ conn'[d].origin = conn[d].origin
                          /\ conn'[d].onmessage = conn[d].onmessage
      /\ \A d \in who : d \in Conns /\ conn[d].pc = "open"
      /\ \A d \in Conns : d \notin who => conn'[d] = conn[d]
  BY ClosingTypes
<1>2. Ended' = Ended
  BY <1>1 DEF Ended
<1>3. Native'
  BY <1>2 DEF EmbeddedShape, Native, Closing, Of
<1>4. Filed'
  <2>1. ASSUME NEW i \in IDs, connections'[i] # Nil
        PROVE  /\ conn'[connections'[i]].pc = "open" /\ ~conn'[connections'[i]].closed
               /\ conn'[connections'[i]].id = i
    <3>1. PICK d \in Conns : d = connections[i] /\ Open(d) /\ conn[d].id = i
      BY <2>1 DEF EmbeddedShape, Filed, Closing
    <3>2. connections'[i] = d /\ d \notin who
      BY <2>1, <3>1 DEF Closing
    <3>3. conn'[d] = conn[d]
      BY <3>2, <1>1
    <3> QED
      BY <3>1, <3>2, <3>3, Zenon DEF Open
  <2>2. \A i \in IDs : connections'[i] # Nil =>
          Open(connections[i])' /\ conn'[connections'[i]].id = i
    BY <2>1, Zenon DEF Open
  <2>3. startsOverlapped' \in BOOLEAN /\ owner' \in Conns \union {Nil}
        /\ quit' \in {"no", "inTime", "late", "revived"}
        /\ connections' \in [IDs -> Conns \union {Nil}]
        /\ (handle' = Nil => \A i \in IDs : connections'[i] = Nil)
    BY DEF EmbeddedShape, Filed, Closing
  <2> QED
    BY <2>2, <2>3, <1>1 DEF Filed
<1>5. Begun'
  <2> SUFFICES ASSUME NEW d \in Conns
               PROVE  IF conn'[d].pc = "open" THEN Originates(d)' ELSE Untouched(d)'
    BY DEF Begun
  <2>1. CASE conn[d].pc = "open"
    <3>1. Originates(d)
      BY <2>1 DEF EmbeddedShape, Begun
    <3>2. lastID' = lastID /\ sent' = sent
      BY DEF Closing
    <3>3. Originates(d)'
      BY <3>1, <3>2, <1>1 DEF Originates
    <3> QED
      BY <3>3, <2>1, <1>1
  <2>2. CASE conn[d].pc # "open"
    <3>1. Untouched(d) /\ conn'[d] = conn[d]
      BY <2>2, <1>1 DEF EmbeddedShape, Begun
    <3>2. Untouched(d)'
      BY <3>1, Zenon DEF Untouched
    <3> QED
      BY <2>2, <3>1, <3>2
  <2> QED
    BY <2>1, <2>2
<1>6. Framed'
  <2>1. stack' = stack /\ Framed /\ stack' \in Seq(Frames)
    BY DEF Closing, EmbeddedShape, Framed
  <2>2. \A d \in Conns : conn[d].pc = "open" =>
          conn'[d].pc = "open" /\ (conn[d].onmessage => conn'[d].onmessage)
    BY <1>1, Zenon
  <2> QED
    BY <2>1, <2>2, FramesStay
<1> QED
  BY <1>3, <1>4, <1>5, <1>6 DEF EmbeddedShape

(* The connection a map entry stands for is the only one with its ID.      *)
LEMMA CloseCloses ==
  ASSUME EmbeddedShape, NEW c \in Conns, Close(c)
  PROVE  Closing({c})
<1>1. /\ conn \in [Conns -> Connections] /\ conn[c].pc = "open"
      /\ connections \in [IDs -> Conns \union {Nil}]
      /\ subscribed \subseteq clients /\ live \subseteq databases
      /\ \A i \in IDs : connections[i] = c => conn[c].id = i
      /\ handle = Nil => \A i \in IDs : connections[i] = Nil
      /\ quit \in {"no", "inTime", "late", "revived"}
  BY EmbeddedAssumption DEF EmbeddedShape, Native, Filed, Close, Open
<1>2. conn[c].id \in IDs
  BY <1>1 DEF EmbeddedShape, Begun, Originates, GoClients
<1>3. conn' = [d \in Conns |-> IF d \in {c} THEN Shut(conn[d]) ELSE conn[d]]
  BY <1>1 DEF Close, Shut
<1>4. UNCHANGED <<handle, stack, live, databases, broken, lastID, targets, made, running,
                  sent, events, startsOverlapped, owner, quit>>
  BY DEF Close, stores, ownership
<1>5. CASE handle = Nil
  <2>1. UNCHANGED <<connections, clients, subscribed>>
    BY <1>5 DEF Close
  <2> QED
    BY <1>1, <1>3, <1>4, <1>5, <2>1 DEF Closing
<1>6. CASE handle # Nil
  <2>1. PICK g : /\ connections' = [connections EXCEPT ![conn[c].id] = Nil]
                 /\ clients' = clients \ {g} /\ subscribed' = subscribed \ {g}
    BY <1>6 DEF Close
  <2>2. connections' \in [IDs -> Conns \union {Nil}]
        /\ \A i \in IDs : connections'[i] # Nil =>
             connections'[i] = connections[i] /\ connections[i] # c
    BY <1>1, <1>2, <2>1
  <2> QED
    BY <1>1, <1>3, <1>4, <1>6, <2>1, <2>2 DEF Closing
<1> QED
  BY <1>5, <1>6

(* The connections that a stop closes.                                     *)
Dropped(first) ==
  first \union {c \in Conns : \E i \in IDs \ {conn[d].id : d \in first} : connections[i] = c}

(* A stop is such a closing: of what was filed and of what was closed first.*)
LEMMA StoppedCloses ==
  ASSUME EmbeddedShape, NEW first \in SUBSET Conns, \A c \in first : conn[c].pc = "open",
         Stopped(first), quit' \in {"no", "inTime", "late", "revived"}
  PROVE  Closing(Dropped(first))
<1> DEFINE filed == {connections[i] : i \in IDs \ {conn[c].id : c \in first}}
<1>1. /\ conn \in [Conns -> Connections]
      /\ connections \in [IDs -> Conns \union {Nil}]
      /\ subscribed \subseteq clients /\ live \subseteq databases
      /\ \A i \in IDs : connections[i] # Nil => Open(connections[i])
  BY DEF EmbeddedShape, Native, Filed
<1>2. \A c \in Conns : c \in filed \union first <=> c \in Dropped(first)
  BY DEF Dropped
<1>3. conn' = [c \in Conns |->
         IF c \in filed \union first THEN [conn[c] EXCEPT !.closed = TRUE] ELSE conn[c]]
  BY DEF Stopped
<1> HIDE DEF filed
<1>4. conn' = [c \in Conns |-> IF c \in Dropped(first) THEN Shut(conn[c]) ELSE conn[c]]
  BY <1>2, <1>3 DEF Shut
<1>5. \A c \in Dropped(first) : c \in Conns /\ conn[c].pc = "open"
  BY <1>1, EmbeddedAssumption DEF Dropped, Open
<1>6. /\ connections' = [i \in IDs |-> Nil]
      /\ clients' = clients \ Of(handle) /\ subscribed' = subscribed \ Of(handle)
      /\ live' = live \ {handle} /\ databases' = databases \ {handle} /\ handle' = Nil
      /\ UNCHANGED <<stack, lastID, targets, made, broken, running, sent, events,
                     startsOverlapped, owner>>
  BY DEF Stopped
<1> QED
  BY <1>1, <1>4, <1>5, <1>6 DEF Closing
-----------------------------------------------------------------------------
(* What an adapter, or the first onmessage, makes of a connection.         *)
Attached(k, n) == [k EXCEPT !.adapter = TRUE, !.since = n]
Awake(k) == [k EXCEPT !.onmessage = TRUE, !.backlog = <<>>]

LEMMA AttachedTypes ==
  ASSUME NEW k \in Connections, NEW n \in Nat
  PROVE  /\ Attached(k, n) \in Connections
         /\ Attached(k, n).pc = k.pc /\ Attached(k, n).id = k.id
         /\ Attached(k, n).origin = k.origin /\ Attached(k, n).closed = k.closed
         /\ Attached(k, n).onmessage = k.onmessage
         /\ Attached(k, n).backlog = k.backlog /\ Attached(k, n).heard = k.heard
         /\ Attached(k, n).lost = k.lost
<1>1. \A x \in BOOLEAN : [k EXCEPT !.adapter = x, !.since = n] \in Connections
  BY DEF Connections
<1>2. \A x : LET f == [k EXCEPT !.adapter = x, !.since = n]
             IN /\ f.closed = k.closed /\ f.pc = k.pc /\ f.id = k.id /\ f.origin = k.origin
                /\ f.onmessage = k.onmessage /\ f.backlog = k.backlog /\ f.heard = k.heard
                /\ f.lost = k.lost
  BY DEF Connections
<1> QED
  BY <1>1, <1>2, Zenon DEF Attached

LEMMA AwakeTypes ==
  ASSUME NEW k \in Connections
  PROVE  /\ Awake(k) \in Connections
         /\ Awake(k).pc = k.pc /\ Awake(k).id = k.id
         /\ Awake(k).origin = k.origin /\ Awake(k).closed = k.closed
         /\ Awake(k).onmessage /\ Awake(k).backlog = <<>>
         /\ Awake(k).heard = k.heard /\ Awake(k).lost = k.lost
<1>1. \A x \in BOOLEAN, t \in Seq(Notes) :
        LET f == [k EXCEPT !.onmessage = x, !.backlog = t]
        IN /\ f \in Connections
           /\ f.closed = k.closed /\ f.pc = k.pc /\ f.id = k.id /\ f.origin = k.origin
           /\ f.onmessage = x /\ f.backlog = t /\ f.heard = k.heard /\ f.lost = k.lost
  BY DEF Connections
<1>2. TRUE \in BOOLEAN /\ <<>> \in Seq(Notes)
  OBVIOUS
<1>3. Awake(k).onmessage = TRUE
  BY <1>1, <1>2, Zenon DEF Awake
<1> QED
  BY <1>1, <1>2, <1>3, Zenon DEF Awake

(* A connection that heard one more message, or lost some.                 *)
Hears(k, message) == [k EXCEPT !.heard = Append(@, message)]
Loses(k, numbers) == [k EXCEPT !.lost = @ \union numbers]

LEMMA HearsTypes ==
  ASSUME NEW k \in Connections, NEW message \in Notes
  PROVE  /\ Hears(k, message) \in Connections
         /\ Hears(k, message).pc = k.pc /\ Hears(k, message).id = k.id
         /\ Hears(k, message).origin = k.origin /\ Hears(k, message).closed = k.closed
         /\ Hears(k, message).onmessage = k.onmessage
         /\ Hears(k, message).backlog = k.backlog /\ Hears(k, message).lost = k.lost
         /\ Hears(k, message).heard = Append(k.heard, message)
<1> DEFINE longer == Append(k.heard, message)
<1>1. longer \in Seq(Notes)
  BY DEF Connections
<1>2. Hears(k, message) = [k EXCEPT !.heard = longer]
  BY DEF Hears
<1> HIDE DEF longer
<1>3. [k EXCEPT !.heard = longer] \in Connections
  BY <1>1 DEF Connections
<1>4. \A x : LET f == [k EXCEPT !.heard = x]
             IN /\ f.closed = k.closed /\ f.pc = k.pc /\ f.id = k.id /\ f.origin = k.origin
                /\ f.onmessage = k.onmessage /\ f.backlog = k.backlog /\ f.heard = x
                /\ f.lost = k.lost
  BY DEF Connections
<1>5. Hears(k, message).heard = longer
  BY <1>2, <1>4, Zenon
<1> QED
  BY <1>2, <1>3, <1>4, <1>5, Zenon DEF longer

LEMMA LosesTypes ==
  ASSUME NEW k \in Connections, NEW numbers \in SUBSET Nat
  PROVE  /\ Loses(k, numbers) \in Connections
         /\ Loses(k, numbers).pc = k.pc /\ Loses(k, numbers).id = k.id
         /\ Loses(k, numbers).origin = k.origin /\ Loses(k, numbers).closed = k.closed
         /\ Loses(k, numbers).onmessage = k.onmessage
         /\ Loses(k, numbers).backlog = k.backlog /\ Loses(k, numbers).heard = k.heard
         /\ Loses(k, numbers).lost = k.lost \union numbers
<1> DEFINE more == k.lost \union numbers
<1>1. more \in SUBSET Nat
  BY DEF Connections
<1>2. Loses(k, numbers) = [k EXCEPT !.lost = more]
  BY DEF Loses
<1> HIDE DEF more
<1>3. [k EXCEPT !.lost = more] \in Connections
  BY <1>1 DEF Connections
<1>4. \A x : LET f == [k EXCEPT !.lost = x]
             IN /\ f.closed = k.closed /\ f.pc = k.pc /\ f.id = k.id /\ f.origin = k.origin
                /\ f.onmessage = k.onmessage /\ f.backlog = k.backlog /\ f.heard = k.heard
                /\ f.lost = x
  BY DEF Connections
<1>5. Loses(k, numbers).lost = more
  BY <1>2, <1>4, Zenon
<1> QED
  BY <1>2, <1>3, <1>4, <1>5, Zenon DEF more

(* One connection is replaced by k, which is where it was.                 *)
LEMMA ReplacedTypes ==
  ASSUME EmbeddedShape, NEW c \in Conns, NEW k \in Connections, conn[c].pc = "open",
         k.pc = conn[c].pc, k.id = conn[c].id, k.origin = conn[c].origin,
         k.closed = conn[c].closed, conn[c].onmessage => k.onmessage,
         conn' = [conn EXCEPT ![c] = k]
  PROVE  /\ conn' \in [Conns -> Connections] /\ SameConns
         /\ conn'[c] = k /\ \A d \in Conns : d # c => conn'[d] = conn[d]
<1>1. conn \in [Conns -> Connections]
  BY DEF EmbeddedShape, Filed
<1>2. conn' \in [Conns -> Connections] /\ conn'[c] = k
      /\ \A d \in Conns : d # c => conn'[d] = conn[d]
  BY <1>1
<1>3. SameConns
  <2> SUFFICES ASSUME NEW d \in Conns PROVE SameConn(d)
    BY DEF SameConns
  <2>1. CASE d = c
    BY <2>1, <1>2, Zenon DEF SameConn
  <2>2. CASE d # c
    BY <2>2, <1>2, Zenon DEF SameConn
  <2> QED
    BY <2>1, <2>2
<1> QED
  BY <1>2, <1>3

(* Nothing comes to any connection, or is taken from it.                   *)
Unheard == \A d \in Conns :
  /\ conn'[d].onmessage = conn[d].onmessage /\ conn'[d].backlog = conn[d].backlog
  /\ conn'[d].heard = conn[d].heard /\ conn'[d].lost = conn[d].lost

(* Where the connections and the calls of handlers stay.                   *)
LEMMA StillTypes ==
  ASSUME EmbeddedShape, conn' = conn
  PROVE  /\ conn' \in [Conns -> Connections] /\ SameConns /\ Unheard
         /\ stack' = stack => Framed'
<1>1. SameConns /\ Unheard
  BY Zenon DEF SameConns, SameConn, Unheard
<1>2. conn' \in [Conns -> Connections]
  BY DEF EmbeddedShape, Filed
<1>3. stack' = stack => Framed'
  BY DEF EmbeddedShape, Framed
<1> QED
  BY <1>1, <1>2, <1>3

(* Where the same connections' handlers are called on.                     *)
LEMMA SameFrames ==
  ASSUME EmbeddedShape, SameConns, stack' \in Seq(Frames),
         \A i \in 1..Len(stack') :
           \/ \E j \in 1..Len(stack) : stack'[i].to = stack[j].to
           \/ conn'[stack'[i].to].pc = "open" /\ conn'[stack'[i].to].onmessage
  PROVE  Framed'
<1>1. \A d \in Conns : conn[d].pc = "open" =>
        conn'[d].pc = "open" /\ (conn[d].onmessage => conn'[d].onmessage)
  BY Zenon DEF SameConns, SameConn
<1> QED
  BY <1>1, FramesStay DEF EmbeddedShape

(* An adapter takes nothing from the stream.                               *)
LEMMA AttachKeeps ==
  ASSUME EmbeddedShape, NEW c \in Conns, AttachAdapter(c)
  PROVE  conn' \in [Conns -> Connections] /\ SameConns /\ Unheard /\ Framed'
<1> DEFINE n == Len(sent[conn[c].origin])
           k == Attached(conn[c], n)
<1>1. /\ conn \in [Conns -> Connections] /\ conn[c].pc = "open"
      /\ sent \in [GoClients -> Seq(MessageTypes)]
  BY DEF EmbeddedShape, Native, Filed, AttachAdapter, Open
<1>2. n \in Nat
  BY <1>1 DEF EmbeddedShape, Begun, Originates
<1>3. conn' = [conn EXCEPT ![c].adapter = TRUE, ![c].since = n]
  BY DEF AttachAdapter
<1> HIDE DEF n
<1>4. conn' = [conn EXCEPT ![c] = k]
  BY <1>1, <1>3 DEF Attached
<1>5. /\ k \in Connections /\ k.pc = conn[c].pc /\ k.id = conn[c].id
      /\ k.origin = conn[c].origin /\ k.closed = conn[c].closed
      /\ k.onmessage = conn[c].onmessage
      /\ k.backlog = conn[c].backlog /\ k.heard = conn[c].heard /\ k.lost = conn[c].lost
  BY <1>1, <1>2, AttachedTypes
<1> HIDE DEF k
<1>6. /\ conn' \in [Conns -> Connections] /\ SameConns
      /\ conn'[c] = k /\ \A d \in Conns : d # c => conn'[d] = conn[d]
  BY <1>1, <1>4, <1>5, ReplacedTypes
<1>7. Unheard
  <2> SUFFICES ASSUME NEW d \in Conns
               PROVE  /\ conn'[d].onmessage = conn[d].onmessage
                      /\ conn'[d].backlog = conn[d].backlog
                      /\ conn'[d].heard = conn[d].heard /\ conn'[d].lost = conn[d].lost
    BY DEF Unheard
  <2>1. CASE d = c
    BY <2>1, <1>5, <1>6, Zenon
  <2>2. CASE d # c
    BY <2>2, <1>6, Zenon
  <2> QED
    BY <2>1, <2>2
<1>8. Framed'
  <2>1. stack' = stack /\ stack \in Seq(Frames)
    BY DEF AttachAdapter, EmbeddedShape, Framed
  <2> QED
    BY <2>1, <1>6, SameFrames
<1> QED
  BY <1>6, <1>7, <1>8

(* The first onmessage is handed the backlog, before what the turn was at. *)
LEMMA SetOnMessageTypes ==
  ASSUME EmbeddedShape, NEW c \in Conns, SetOnMessage(c)
  PROVE  /\ conn' \in [Conns -> Connections] /\ SameConns /\ Framed'
         /\ conn[c].backlog \in Seq(Notes) /\ conn[c].pc = "open" /\ ~conn[c].onmessage
         /\ conn'[c].onmessage /\ conn'[c].backlog = <<>>
         /\ conn'[c].heard = conn[c].heard /\ conn'[c].lost = conn[c].lost
         /\ \A d \in Conns : d # c => conn'[d] = conn[d]
         /\ Len(stack') = Len(conn[c].backlog) + Len(stack)
         /\ \A i \in 1..Len(conn[c].backlog) :
              stack'[i] = Frame(c, conn[c].backlog[i], "waiting", Nil)
         /\ \A i \in 1..Len(stack) : stack'[i + Len(conn[c].backlog)] = stack[i]
<1> DEFINE k == Awake(conn[c])
           b == conn[c].backlog
<1>1. /\ conn \in [Conns -> Connections] /\ conn[c].pc = "open" /\ ~conn[c].onmessage
      /\ stack \in Seq(Frames)
  BY DEF EmbeddedShape, Native, Filed, Framed, SetOnMessage
<1>2. conn' = [conn EXCEPT ![c] = k]
  BY <1>1 DEF SetOnMessage, Awake
<1>3. /\ k \in Connections /\ k.pc = conn[c].pc /\ k.id = conn[c].id
      /\ k.origin = conn[c].origin /\ k.closed = conn[c].closed /\ k.onmessage
      /\ k.backlog = <<>> /\ k.heard = conn[c].heard /\ k.lost = conn[c].lost
  <2>1. conn[c] \in Connections
    BY <1>1
  <2> QED
    BY <2>1, AwakeTypes, Zenon
<1> HIDE DEF k
<1>4. /\ conn' \in [Conns -> Connections] /\ SameConns
      /\ conn'[c] = k /\ \A d \in Conns : d # c => conn'[d] = conn[d]
  BY <1>1, <1>2, <1>3, ReplacedTypes
<1>5. b \in Seq(Notes)
  BY <1>1 DEF Connections
<1>6. stack' = Flush(c) \o stack /\ Flush(c) = [i \in DOMAIN b |-> Frame(c, b[i], "waiting", Nil)]
  BY DEF SetOnMessage, Flush
<1> HIDE DEF b
<1>7. \A i \in 1..Len(b) : Frame(c, b[i], "waiting", Nil) \in Frames
                           /\ Frame(c, b[i], "waiting", Nil).to = c
  BY <1>5 DEF Frame, Frames
<1>8. /\ Flush(c) \in Seq(Frames) /\ Len(Flush(c)) = Len(b)
      /\ \A i \in 1..Len(b) : Flush(c)[i] = Frame(c, b[i], "waiting", Nil)
  <2>1. DOMAIN b = 1..Len(b) /\ Len(b) \in Nat
    BY <1>5
  <2>2. Flush(c) \in [1..Len(b) -> Frames]
    BY <2>1, <1>6, <1>7
  <2>3. \A i \in 1..Len(b) : Flush(c)[i] = Frame(c, b[i], "waiting", Nil)
    BY <2>1, <1>6
  <2> QED
    BY <2>1, <2>2, <2>3
<1>9. /\ stack' \in Seq(Frames) /\ Len(stack') = Len(b) + Len(stack)
      /\ \A i \in 1..Len(b) : stack'[i] = Frame(c, b[i], "waiting", Nil)
      /\ \A i \in 1..Len(stack) : stack'[i + Len(b)] = stack[i]
  <2>1. /\ stack' \in Seq(Frames) /\ Len(stack') = Len(Flush(c)) + Len(stack)
        /\ \A i \in 1..Len(Flush(c)) : stack'[i] = Flush(c)[i]
        /\ \A i \in 1..Len(stack) : stack'[i + Len(Flush(c))] = stack[i]
    BY <1>1, <1>6, <1>8, ConcatTypes
  <2> QED
    BY <2>1, <1>8
<1>10. Framed'
  <2>1. ASSUME NEW i \in 1..Len(stack')
        PROVE  \/ \E j \in 1..Len(stack) : stack'[i].to = stack[j].to
               \/ conn'[stack'[i].to].pc = "open" /\ conn'[stack'[i].to].onmessage
    <3>1. CASE i <= Len(b)
      <4>1. i \in 1..Len(b)
        BY <3>1, <1>5
      <4>2. stack'[i].to = c
        BY <4>1, <1>7, <1>9
      <4> QED
        BY <4>2, <1>1, <1>3, <1>4
    <3>2. CASE ~(i <= Len(b))
      <4>1. i - Len(b) \in 1..Len(stack) /\ (i - Len(b)) + Len(b) = i
        BY <3>2, <1>1, <1>5, <1>9
      <4>2. stack'[i] = stack[i - Len(b)]
        BY <4>1, <1>9
      <4> QED
        BY <4>1, <4>2
    <3> QED
      BY <3>1, <3>2
  <2> QED
    BY <2>1, <1>4, <1>9, SameFrames
<1> QED
  BY <1>1, <1>3, <1>4, <1>5, <1>9, <1>10, Zenon DEF b
-----------------------------------------------------------------------------
(* The calls of handlers that the turn has still to make.                  *)
HandlerStep == CallListeners \/ CallOnmessage \/ HandlerReturns \/ HandlerThrows

(* The call in progress.                                                   *)
LEMMA TopTypes ==
  ASSUME EmbeddedShape, stack # <<>>
  PROVE  /\ stack \in Seq(Frames) /\ Len(stack) \in Nat /\ Len(stack) >= 1
         /\ stack[1] \in Frames /\ stack[1].to \in Conns /\ stack[1].message \in Notes
         /\ conn[stack[1].to].pc = "open" /\ conn[stack[1].to].onmessage
         /\ conn[stack[1].to] \in Connections /\ conn \in [Conns -> Connections]
<1>1. stack \in Seq(Frames) /\ conn \in [Conns -> Connections]
  BY DEF EmbeddedShape, Framed, Filed
<1>2. Len(stack) \in Nat /\ Len(stack) >= 1 /\ stack[1] \in Frames
  BY <1>1
<1>3. stack[1].to \in Conns /\ stack[1].message \in Notes
  BY <1>2 DEF Frames
<1>4. conn[stack[1].to].pc = "open" /\ conn[stack[1].to].onmessage
  BY <1>2 DEF EmbeddedShape, Framed
<1> QED
  BY <1>1, <1>2, <1>3, <1>4

(* It goes on to its next stage.                                           *)
LEMMA StageTypes ==
  ASSUME EmbeddedShape, stack # <<>>, NEW stage \in {"listeners", "onmessage"},
         stack' = [stack EXCEPT ![1].stage = stage]
  PROVE  /\ stack' \in Seq(Frames) /\ Len(stack') = Len(stack)
         /\ stack'[1].stage = stage
         /\ \A i \in 1..Len(stack) :
              /\ stack'[i].to = stack[i].to /\ stack'[i].message = stack[i].message
              /\ i # 1 => stack'[i] = stack[i]
<1>1. stack \in Seq(Frames) /\ Len(stack) >= 1 /\ stack[1] \in Frames /\ Len(stack) \in Nat
  BY TopTypes
<1> DEFINE f == [stack[1] EXCEPT !.stage = stage]
<1>2. f \in Frames /\ f.stage = stage /\ f.to = stack[1].to /\ f.message = stack[1].message
  BY <1>1 DEF Frames
<1>3. stack' = [stack EXCEPT ![1] = f]
  BY <1>1
<1> HIDE DEF f
<1>4. /\ stack' \in Seq(Frames) /\ Len(stack') = Len(stack) /\ stack'[1] = f
      /\ \A i \in 1..Len(stack) : i # 1 => stack'[i] = stack[i]
  BY <1>1, <1>2, <1>3
<1> QED
  BY <1>2, <1>4

LEMMA CallListenersTypes ==
  ASSUME EmbeddedShape, CallListeners
  PROVE  /\ conn' \in [Conns -> Connections] /\ SameConns /\ Unheard /\ Framed'
         /\ Len(stack') = Len(stack) /\ stack[1].stage = "waiting"
         /\ stack'[1].stage = "listeners"
         /\ \A i \in 1..Len(stack) :
              /\ stack'[i].to = stack[i].to /\ stack'[i].message = stack[i].message
              /\ i # 1 => stack'[i] = stack[i]
<1> DEFINE c == stack[1].to
           k == Listened(conn[c], stack[1].message)
<1>1. stack # <<>> /\ stack[1].stage = "waiting"
  BY DEF CallListeners
<1>2. /\ c \in Conns /\ stack[1].message \in Notes /\ conn[c].pc = "open"
      /\ conn[c] \in Connections /\ conn \in [Conns -> Connections]
  BY <1>1, TopTypes
<1>3. /\ stack' \in Seq(Frames) /\ Len(stack') = Len(stack)
      /\ stack'[1].stage = "listeners"
      /\ \A i \in 1..Len(stack) :
           /\ stack'[i].to = stack[i].to /\ stack'[i].message = stack[i].message
           /\ i # 1 => stack'[i] = stack[i]
  BY <1>1, StageTypes DEF CallListeners
<1>4. conn' = [conn EXCEPT ![c] = k]
  BY <1>2 DEF CallListeners
<1>5. /\ k \in Connections /\ k.pc = conn[c].pc /\ k.id = conn[c].id
      /\ k.origin = conn[c].origin /\ k.closed = conn[c].closed
      /\ k.onmessage = conn[c].onmessage
      /\ k.backlog = conn[c].backlog /\ k.heard = conn[c].heard /\ k.lost = conn[c].lost
  BY <1>2, ListenedTypes
<1> HIDE DEF c, k
<1>6. /\ conn' \in [Conns -> Connections] /\ SameConns
      /\ conn'[c] = k /\ \A d \in Conns : d # c => conn'[d] = conn[d]
  BY <1>2, <1>4, <1>5, ReplacedTypes
<1>7. Unheard
  <2> SUFFICES ASSUME NEW d \in Conns
               PROVE  /\ conn'[d].onmessage = conn[d].onmessage
                      /\ conn'[d].backlog = conn[d].backlog
                      /\ conn'[d].heard = conn[d].heard /\ conn'[d].lost = conn[d].lost
    BY DEF Unheard
  <2>1. CASE d = c
    BY <2>1, <1>5, <1>6, Zenon
  <2>2. CASE d # c
    BY <2>2, <1>6, Zenon
  <2> QED
    BY <2>1, <2>2
<1>8. Framed'
  BY <1>3, <1>6, SameFrames
<1> QED
  BY <1>1, <1>3, <1>6, <1>7, <1>8

LEMMA CallOnmessageTypes ==
  ASSUME EmbeddedShape, CallOnmessage
  PROVE  /\ conn' \in [Conns -> Connections] /\ SameConns /\ Framed'
         /\ stack # <<>> /\ Len(stack') = Len(stack) /\ stack[1].stage = "listeners"
         /\ stack'[1].stage = "onmessage"
         /\ \A i \in 1..Len(stack) :
              /\ stack'[i].to = stack[i].to /\ stack'[i].message = stack[i].message
              /\ i # 1 => stack'[i] = stack[i]
         /\ \A d \in Conns : /\ conn'[d].onmessage = conn[d].onmessage
                             /\ conn'[d].backlog = conn[d].backlog
                             /\ conn'[d].lost = conn[d].lost
                             /\ d # stack[1].to => conn'[d].heard = conn[d].heard
         /\ conn'[stack[1].to].heard = Append(conn[stack[1].to].heard, stack[1].message)
<1> DEFINE c == stack[1].to
           k == Hears(conn[c], stack[1].message)
<1>1. stack # <<>> /\ stack[1].stage = "listeners"
  BY DEF CallOnmessage
<1>2. /\ c \in Conns /\ stack[1].message \in Notes /\ conn[c].pc = "open"
      /\ conn[c] \in Connections /\ conn \in [Conns -> Connections]
  BY <1>1, TopTypes
<1>3. /\ stack' \in Seq(Frames) /\ Len(stack') = Len(stack)
      /\ stack'[1].stage = "onmessage"
      /\ \A i \in 1..Len(stack) :
           /\ stack'[i].to = stack[i].to /\ stack'[i].message = stack[i].message
           /\ i # 1 => stack'[i] = stack[i]
  BY <1>1, StageTypes DEF CallOnmessage
<1>4. conn' = [conn EXCEPT ![c] = k]
  BY <1>2 DEF CallOnmessage, Hears
<1>5. /\ k \in Connections /\ k.pc = conn[c].pc /\ k.id = conn[c].id
      /\ k.origin = conn[c].origin /\ k.closed = conn[c].closed
      /\ k.onmessage = conn[c].onmessage
      /\ k.backlog = conn[c].backlog /\ k.lost = conn[c].lost
      /\ k.heard = Append(conn[c].heard, stack[1].message)
  BY <1>2, HearsTypes
<1> HIDE DEF c, k
<1>6. /\ conn' \in [Conns -> Connections] /\ SameConns
      /\ conn'[c] = k /\ \A d \in Conns : d # c => conn'[d] = conn[d]
  BY <1>2, <1>4, <1>5, ReplacedTypes
<1>7. ASSUME NEW d \in Conns
      PROVE  /\ conn'[d].onmessage = conn[d].onmessage
             /\ conn'[d].backlog = conn[d].backlog /\ conn'[d].lost = conn[d].lost
             /\ d # c => conn'[d].heard = conn[d].heard
  <2>1. CASE d = c
    BY <2>1, <1>5, <1>6, Zenon
  <2>2. CASE d # c
    BY <2>2, <1>6, Zenon
  <2> QED
    BY <2>1, <2>2
<1>8. Framed'
  BY <1>3, <1>6, SameFrames
<1>9. conn'[c].heard = Append(conn[c].heard, stack[1].message)
  BY <1>5, <1>6, Zenon
<1> QED
  BY <1>1, <1>3, <1>6, <1>7, <1>8, <1>9 DEF c

(* It returns.                                                             *)
LEMMA HandlerReturnsTypes ==
  ASSUME EmbeddedShape, HandlerReturns
  PROVE  /\ conn' = conn /\ Framed' /\ stack # <<>> /\ stack[1].stage = "onmessage"
         /\ Len(stack') = Len(stack) - 1
         /\ \A i \in 1..Len(stack') : stack'[i] = stack[i + 1]
<1>1. /\ stack # <<>> /\ stack[1].stage = "onmessage" /\ stack' = Tail(stack)
      /\ conn' = conn
  BY DEF HandlerReturns
<1>2. stack \in Seq(Frames) /\ Len(stack) >= 1 /\ Len(stack) \in Nat
  BY <1>1, TopTypes
<1>3. /\ stack' \in Seq(Frames) /\ Len(stack') = Len(stack) - 1
      /\ \A i \in 1..Len(stack') : stack'[i] = stack[i + 1]
  BY <1>1, <1>2
<1>4. \A i \in 1..Len(stack') : i + 1 \in 1..Len(stack)
  BY <1>2, <1>3
<1>5. SameConns
  BY <1>1, StillTypes
<1> QED
  BY <1>1, <1>3, <1>4, <1>5, SameFrames

(* It throws: those of the same flush that wait are not made.              *)
Thrown(last) ==
  /\ last \in 1..Len(stack)
  /\ \A i \in 2..last : stack[i].to = stack[1].to /\ stack[i].stage = "waiting"
  /\ Len(stack') = Len(stack) - last
  /\ \A i \in 1..Len(stack') : stack'[i] = stack[i + last]
  /\ conn'[stack[1].to].lost =
       conn[stack[1].to].lost \union {stack[i].message.n : i \in 2..last}

LEMMA HandlerThrowsTypes ==
  ASSUME EmbeddedShape, HandlerThrows
  PROVE  /\ conn' \in [Conns -> Connections] /\ SameConns /\ Framed'
         /\ stack # <<>> /\ stack[1].stage = "onmessage"
         /\ \E last \in Nat : Thrown(last)
         /\ \A d \in Conns : /\ conn'[d].onmessage = conn[d].onmessage
                             /\ conn'[d].backlog = conn[d].backlog
                             /\ conn'[d].heard = conn[d].heard
                             /\ d # stack[1].to => conn'[d].lost = conn[d].lost
<1> DEFINE c == stack[1].to
<1>1. stack # <<>> /\ stack[1].stage = "onmessage"
  BY DEF HandlerThrows
<1>2. /\ c \in Conns /\ conn[c].pc = "open" /\ stack \in Seq(Frames)
      /\ conn[c] \in Connections /\ conn \in [Conns -> Connections]
      /\ DOMAIN stack = 1..Len(stack) /\ Len(stack) \in Nat
  BY <1>1, TopTypes
<1>3. PICK last \in 1..Len(stack) :
        /\ \A i \in 2..last : InFlush(i)
        /\ stack' = SubSeq(stack, last + 1, Len(stack))
        /\ conn' = [conn EXCEPT ![c].lost = @ \union {stack[i].message.n : i \in 2..last}]
  BY <1>2 DEF HandlerThrows
<1> DEFINE numbers == {stack[i].message.n : i \in 2..last}
           k == Loses(conn[c], numbers)
<1>4. numbers \in SUBSET Nat
  <2>1. \A i \in 2..last : i \in 1..Len(stack) /\ stack[i] \in Frames
    BY <1>2
  <2>2. \A f \in Frames : f.message.n \in Nat
    BY DEF Frames, Notes
  <2> QED
    BY <2>1, <2>2
<1>5. conn' = [conn EXCEPT ![c] = k]
  BY <1>2, <1>3 DEF Loses
<1> HIDE DEF numbers
<1>6. /\ k \in Connections /\ k.pc = conn[c].pc /\ k.id = conn[c].id
      /\ k.origin = conn[c].origin /\ k.closed = conn[c].closed
      /\ k.onmessage = conn[c].onmessage
      /\ k.backlog = conn[c].backlog /\ k.heard = conn[c].heard
      /\ k.lost = conn[c].lost \union numbers
  BY <1>2, <1>4, LosesTypes
<1> HIDE DEF c, k
<1>7. /\ conn' \in [Conns -> Connections] /\ SameConns
      /\ conn'[c] = k /\ \A d \in Conns : d # c => conn'[d] = conn[d]
  BY <1>2, <1>5, <1>6, ReplacedTypes
<1>8. ASSUME NEW d \in Conns
      PROVE  /\ conn'[d].onmessage = conn[d].onmessage
             /\ conn'[d].backlog = conn[d].backlog /\ conn'[d].heard = conn[d].heard
             /\ d # c => conn'[d].lost = conn[d].lost
  <2>1. CASE d = c
    BY <2>1, <1>6, <1>7, Zenon
  <2>2. CASE d # c
    BY <2>2, <1>7, Zenon
  <2> QED
    BY <2>1, <2>2
<1>9. /\ stack' \in Seq(Frames) /\ Len(stack') = Len(stack) - last
      /\ \A i \in 1..Len(stack') : stack'[i] = stack[i + last]
  BY <1>2, <1>3
<1>10. Framed'
  <2>1. \A i \in 1..Len(stack') : i + last \in 1..Len(stack)
    BY <1>2, <1>9
  <2> QED
    BY <2>1, <1>7, <1>9, SameFrames
<1>11. \A i \in 2..last : stack[i].to = c /\ stack[i].stage = "waiting"
  BY <1>3 DEF InFlush, c
<1>12. conn'[c].lost = conn[c].lost \union numbers
  BY <1>6, <1>7, Zenon
<1>13. Thrown(last) /\ last \in Nat
  BY <1>9, <1>11, <1>12 DEF Thrown, c, numbers
<1> QED
  BY <1>1, <1>7, <1>8, <1>10, <1>13 DEF c

(* None of them changes anything else.                                     *)
LEMMA HandlerStepTypes ==
  ASSUME EmbeddedShape, HandlerStep
  PROVE  /\ conn' \in [Conns -> Connections] /\ SameConns /\ Framed'
         /\ UNCHANGED otherVars
<1>1. UNCHANGED otherVars
  BY DEF HandlerStep, CallListeners, CallOnmessage, HandlerReturns, HandlerThrows
<1>2. CASE HandlerReturns
  BY <1>1, <1>2, HandlerReturnsTypes, StillTypes
<1> QED
  BY <1>1, <1>2, CallListenersTypes, CallOnmessageTypes, HandlerThrowsTypes DEF HandlerStep
-----------------------------------------------------------------------------
(* A call of connectRealtime that fails.                                   *)
NotConnected(c) ==
  /\ conn[c].pc = "connecting"
  /\ conn' = [conn EXCEPT ![c].pc = "failed"]
  /\ lastID' = IF handle = Nil THEN lastID ELSE [lastID EXCEPT ![handle] = @ + 1]
  /\ UNCHANGED <<clients, sent, connections, stack>>
  /\ UNCHANGED <<handle, live, subscribed, targets, made, stores, running, events,
                 startsOverlapped, ownership>>

(* A call of connectRealtime opens a connection, or it fails.              *)
LEMMA ConnectCases ==
  ASSUME NEW c, ConnectRealtime(c)
  PROVE  Connected(c, FreshClient(handle)) \/ NotConnected(c)
BY DEF ConnectRealtime, Connected, NotConnected, Opened

(* Turns and callbacks that leave every connection filed where it is.      *)
StaysFiled ==
  \/ Abort \/ HandlerStep
  \/ \E c \in Conns : AttachAdapter(c) \/ SetOnMessage(c) \/ SendSubscribe(c)
HubStep == \E h \in Handles : ChooseTargets(h) \/ CallTarget(h)

(* A send is answered, or never returns.                                   *)
LEMMA SendCases ==
  ASSUME EmbeddedShape, NEW c \in Conns, SendSubscribe(c)
  PROVE  /\ \E g \in clients :
              /\ g \in GoClients /\ g.handle = handle /\ g.id = conn[c].id
              /\ AnswerType(g) \in MessageTypes /\ subscribed' = subscribed \union {g}
              /\ \/ UNCHANGED <<conn, stack, sent>>
                 \/ CalledBack(g, AnswerType(g))
         /\ UNCHANGED <<handle, connections, live, lastID, clients, made, stores,
                        startsOverlapped, owner, quit, targets>>
<1>1. \A g : AnswerType(g) \in MessageTypes
  BY DEF AnswerType, MessageTypes
<1>2. clients \subseteq GoClients
  BY DEF EmbeddedShape, Native
<1> DEFINE g == [handle |-> handle, id |-> conn[c].id]
<1>3. /\ g \in clients /\ subscribed' = subscribed \union {g}
      /\ UNCHANGED <<conn, stack, sent>> \/ CalledBack(g, AnswerType(g))
  BY DEF SendSubscribe, delivery
<1>4. g.handle = handle /\ g.id = conn[c].id
  OBVIOUS
<1> HIDE DEF g
<1>5. UNCHANGED <<handle, connections, live, lastID, clients, made, stores,
                  startsOverlapped, owner, quit, targets>>
  BY DEF SendSubscribe, ownership
<1> QED
  BY <1>1, <1>2, <1>3, <1>4, <1>5

(* The two lemmas say what such steps leave alone.                         *)
LEMMA StaysFiledTypes ==
  ASSUME EmbeddedShape, StaysFiled
  PROVE  /\ conn' \in [Conns -> Connections] /\ SameConns /\ SentMore /\ Framed'
         /\ UNCHANGED <<handle, connections, live, lastID, clients, made, stores,
                        startsOverlapped, owner, quit, targets>>
         /\ subscribed' \subseteq clients
<1>1. /\ conn \in [Conns -> Connections] /\ subscribed \subseteq clients
      /\ handle \in Handles \union {Nil} /\ clients \subseteq GoClients
      /\ sent \in [GoClients -> Seq(MessageTypes)]
  BY DEF EmbeddedShape, Native, Filed
<1>2. sent' = sent => SentMore
  BY <1>1 DEF SentMore
<1>3. CASE Abort
  <2>1. conn' = conn /\ stack' = stack
    BY <1>3 DEF Abort, delivery
  <2>2. SameConns /\ Framed'
    BY <2>1, StillTypes
  <2> QED
    BY <2>1, <2>2, <1>1, <1>2, <1>3 DEF Abort, native, ownership
<1>4. CASE HandlerStep
  <2>1. conn' \in [Conns -> Connections] /\ SameConns /\ Framed' /\ UNCHANGED otherVars
    BY <1>4, HandlerStepTypes
  <2> QED
    BY <2>1, <1>1, <1>2 DEF otherVars, native, ownership
<1>5. ASSUME NEW c \in Conns, AttachAdapter(c) \/ SetOnMessage(c)
      PROVE  /\ conn' \in [Conns -> Connections] /\ SameConns /\ SentMore /\ Framed'
             /\ UNCHANGED <<handle, connections, live, lastID, clients, made, stores,
                            startsOverlapped, owner, quit, targets>>
             /\ subscribed' \subseteq clients
  <2>1. conn' \in [Conns -> Connections] /\ SameConns /\ Framed'
    BY <1>5, AttachKeeps, SetOnMessageTypes
  <2>2. UNCHANGED otherVars
    BY <1>5 DEF AttachAdapter, SetOnMessage
  <2> QED
    BY <2>1, <2>2, <1>1, <1>2 DEF otherVars, native, ownership
<1>6. ASSUME NEW c \in Conns, SendSubscribe(c)
      PROVE  /\ conn' \in [Conns -> Connections] /\ SameConns /\ SentMore /\ Framed'
             /\ UNCHANGED <<handle, connections, live, lastID, clients, made, stores,
                            startsOverlapped, owner, quit, targets>>
             /\ subscribed' \subseteq clients
  <2>1. /\ \E g \in clients :
              /\ g \in GoClients /\ g.handle = handle /\ g.id = conn[c].id
              /\ AnswerType(g) \in MessageTypes /\ subscribed' = subscribed \union {g}
              /\ \/ UNCHANGED <<conn, stack, sent>>
                 \/ CalledBack(g, AnswerType(g))
        /\ UNCHANGED <<handle, connections, live, lastID, clients, made, stores,
                       startsOverlapped, owner, quit, targets>>
    BY <1>6, SendCases
  <2>2. PICK g \in clients :
          /\ g \in GoClients /\ AnswerType(g) \in MessageTypes
          /\ subscribed' = subscribed \union {g}
          /\ UNCHANGED <<conn, stack, sent>> \/ CalledBack(g, AnswerType(g))
    BY <2>1
  <2>3. conn' \in [Conns -> Connections] /\ SameConns /\ SentMore /\ Framed'
    <3>1. CASE UNCHANGED <<conn, stack, sent>>
      BY <3>1, <1>2, StillTypes
    <3>2. CASE CalledBack(g, AnswerType(g))
      BY <3>2, <2>2, CalledBackTypes
    <3> QED
      BY <3>1, <3>2, <2>2
  <2> QED
    BY <2>1, <2>2, <2>3, <1>1
<1> QED
  BY <1>3, <1>4, <1>5, <1>6 DEF StaysFiled

LEMMA HubStepTypes ==
  ASSUME EmbeddedShape, HubStep
  PROVE  /\ conn' \in [Conns -> Connections] /\ SameConns /\ SentMore /\ Framed'
         /\ UNCHANGED <<handle, connections, live, lastID, clients, made, stores,
                        startsOverlapped, owner, quit, subscribed>>
         /\ targets' \in [Handles -> SUBSET GoClients]
         /\ \A h \in Handles : targets'[h] \subseteq Of(h)
<1>1. /\ conn \in [Conns -> Connections]
      /\ targets \in [Handles -> SUBSET GoClients]
      /\ \A h \in Handles : targets[h] \subseteq Of(h)
      /\ sent \in [GoClients -> Seq(MessageTypes)]
  BY DEF EmbeddedShape, Native, Filed
<1>2. sent' = sent => SentMore
  BY <1>1 DEF SentMore
<1>3. conn' = conn /\ stack' = stack => SameConns /\ Framed'
  BY StillTypes
<1>4. ASSUME NEW h \in Handles, ChooseTargets(h)
      PROVE  /\ conn' \in [Conns -> Connections] /\ SameConns /\ SentMore /\ Framed'
             /\ targets' \in [Handles -> SUBSET GoClients]
             /\ \A k \in Handles : targets'[k] \subseteq Of(k)
  <2>1. conn' = conn /\ stack' = stack /\ sent' = sent
        /\ targets' = [targets EXCEPT ![h] = subscribed \intersect Of(h)]
    BY <1>4 DEF ChooseTargets, delivery
  <2>2. subscribed \intersect Of(h) \subseteq Of(h) /\ Of(h) \subseteq GoClients
    BY DEF Of
  <2> QED
    BY <2>1, <2>2, <1>1, <1>2, <1>3
<1>5. ASSUME NEW h \in Handles, CallTarget(h)
      PROVE  /\ conn' \in [Conns -> Connections] /\ SameConns /\ SentMore /\ Framed'
             /\ targets' \in [Handles -> SUBSET GoClients]
             /\ \A k \in Handles : targets'[k] \subseteq Of(k)
  <2>1. PICK g \in targets[h] :
          /\ targets' = [targets EXCEPT ![h] = targets[h] \ {g}]
          /\ IF h \in live THEN CalledBack(g, "event") ELSE UNCHANGED <<delivery, sent>>
    BY <1>5 DEF CallTarget
  <2>2. g \in GoClients /\ "event" \in MessageTypes
    BY <1>1 DEF MessageTypes
  <2>3. conn' \in [Conns -> Connections] /\ SameConns /\ SentMore /\ Framed'
    <3>1. CASE h \in live
      BY <2>1, <2>2, <3>1, CalledBackTypes
    <3>2. CASE h \notin live
      BY <2>1, <3>2, <1>1, <1>2, <1>3 DEF delivery
    <3> QED
      BY <3>1, <3>2
  <2> QED
    BY <2>1, <2>3, <1>1
<1>6. UNCHANGED <<handle, connections, live, lastID, clients, made, stores,
                  startsOverlapped, owner, quit, subscribed>>
  BY DEF HubStep, ChooseTargets, CallTarget, ownership
<1> QED
  BY <1>4, <1>5, <1>6 DEF HubStep

(* A call that is not over yet: it goes on, or ends without a connection.  *)
LEMMA StartKeepsShape ==
  ASSUME EmbeddedShape, NEW c \in Conns, Start(c)
  PROVE  EmbeddedShape'
<1> DEFINE p == IF handle = Nil THEN "importing" ELSE "connecting"
<1>1. /\ conn[c].pc = "idle" /\ conn' = [conn EXCEPT ![c].pc = p]
      /\ UNCHANGED <<handle, connections, stack, live, databases, lastID, clients, subscribed,
                     targets, made, sent, startsOverlapped, owner, quit>>
  BY DEF Start, otherVars, native, stores, ownership
<1>2. p \in {"importing", "connecting"}
  OBVIOUS
<1> HIDE DEF p
<1>3. \A h \in Handles : lastID[h] <= lastID'[h] /\ lastID'[h] <= lastID[h] + 1
  BY <1>1 DEF EmbeddedShape, Native
<1>4. /\ handle' \in Handles \union {Nil} /\ (handle' = Nil => handle = Nil)
      /\ live' \subseteq databases' /\ databases' \subseteq made' /\ made' \subseteq Handles
      /\ startsOverlapped' \in BOOLEAN /\ quit' \in {"no", "inTime", "late", "revived"}
      /\ lastID' \in [Handles -> Nat]
  BY <1>1 DEF EmbeddedShape, Native, Filed
<1> QED
  BY <1>1, <1>2, <1>3, <1>4, CallsKeepShape

(* The cases of a native start: it succeeds, fails with its database open, *)
(* or fails before.                                                        *)
Started(c, h) ==
  /\ live' = live \union {h} /\ databases' = databases \union {h} /\ handle' = h
  /\ startsOverlapped' = (startsOverlapped \/ handle # Nil)
  /\ quit' = IF quit = "inTime" THEN "revived" ELSE quit
  /\ conn' = [conn EXCEPT ![c].pc = "connecting"]
  /\ broken' = broken

BrokeDown(c, h) ==
  /\ databases' = databases \union {h} /\ broken' = broken \union {h}
  /\ conn' = [conn EXCEPT ![c].pc = "failed"]
  /\ UNCHANGED <<live, handle, startsOverlapped, quit>>

LEMMA StartNativeCases ==
  ASSUME NEW c, StartNative(c)
  PROVE  /\ conn[c].pc = "importing"
         /\ UNCHANGED <<connections, stack, lastID, clients, subscribed, targets, sent, owner>>
         /\ \/ \E h \in Handles \ made :
                 made' = made \union {h} /\ (Started(c, h) \/ BrokeDown(c, h))
            \/ /\ conn' = [conn EXCEPT ![c].pc = "failed"]
               /\ UNCHANGED <<made, databases, broken, live, handle, startsOverlapped, quit>>
BY DEF StartNative, Started, BrokeDown, stores

LEMMA StartNativeKeepsShape ==
  ASSUME EmbeddedShape, NEW c \in Conns, StartNative(c)
  PROVE  EmbeddedShape'
<1>1. /\ conn[c].pc = "importing"
      /\ UNCHANGED <<connections, stack, lastID, clients, subscribed, targets, sent, owner>>
  BY StartNativeCases
<1>2. /\ live \subseteq databases /\ databases \subseteq made /\ made \subseteq Handles
      /\ lastID \in [Handles -> Nat]
      /\ startsOverlapped \in BOOLEAN /\ quit \in {"no", "inTime", "late", "revived"}
      /\ handle \in Handles \union {Nil}
  BY DEF EmbeddedShape, Native, Filed
<1>3. /\ lastID' \in [Handles -> Nat]
      /\ \A h \in Handles : lastID[h] <= lastID'[h] /\ lastID'[h] <= lastID[h] + 1
  BY <1>1, <1>2
<1>4. ASSUME NEW h \in Handles \ made, made' = made \union {h}, Started(c, h)
      PROVE  EmbeddedShape'
  <2>1. /\ handle' \in Handles \union {Nil} /\ handle' # Nil
        /\ live' \subseteq databases' /\ databases' \subseteq made' /\ made' \subseteq Handles
        /\ startsOverlapped' \in BOOLEAN /\ quit' \in {"no", "inTime", "late", "revived"}
        /\ conn' = [conn EXCEPT ![c].pc = "connecting"]
    BY <1>2, <1>4, EmbeddedAssumption DEF Started
  <2> QED
    BY <1>1, <1>3, <2>1, CallsKeepShape
<1>5. ASSUME NEW h \in Handles \ made, made' = made \union {h}, BrokeDown(c, h)
      PROVE  EmbeddedShape'
  <2>1. /\ handle' \in Handles \union {Nil} /\ (handle' = Nil => handle = Nil)
        /\ live' \subseteq databases' /\ databases' \subseteq made' /\ made' \subseteq Handles
        /\ startsOverlapped' \in BOOLEAN /\ quit' \in {"no", "inTime", "late", "revived"}
        /\ conn' = [conn EXCEPT ![c].pc = "failed"]
    BY <1>2, <1>5 DEF BrokeDown
  <2> QED
    BY <1>1, <1>3, <2>1, CallsKeepShape
<1>6. CASE /\ conn' = [conn EXCEPT ![c].pc = "failed"]
           /\ UNCHANGED <<made, databases, broken, live, handle, startsOverlapped, quit>>
  <2>1. /\ handle' \in Handles \union {Nil} /\ (handle' = Nil => handle = Nil)
        /\ live' \subseteq databases' /\ databases' \subseteq made' /\ made' \subseteq Handles
        /\ startsOverlapped' \in BOOLEAN /\ quit' \in {"no", "inTime", "late", "revived"}
    BY <1>2, <1>6
  <2> QED
    BY <1>1, <1>3, <1>6, <2>1, CallsKeepShape
<1> QED
  BY <1>4, <1>5, <1>6, StartNativeCases

LEMMA InvokeKeepsShape ==
  ASSUME EmbeddedShape, NEW c \in Conns, Invoke(c)
  PROVE  EmbeddedShape'
<1> DEFINE p == IF handle = Nil THEN "failed" ELSE "answered"
<1>1. /\ conn[c].pc = "connecting" /\ conn' = [conn EXCEPT ![c].pc = p]
      /\ UNCHANGED <<handle, connections, stack, live, databases, lastID, clients, subscribed,
                     targets, made, sent, startsOverlapped, owner, quit>>
  BY DEF Invoke, otherVars, native, stores, ownership
<1>2. p \in {"answered", "failed"}
  OBVIOUS
<1> HIDE DEF p
<1>3. \A h \in Handles : lastID[h] <= lastID'[h] /\ lastID'[h] <= lastID[h] + 1
  BY <1>1 DEF EmbeddedShape, Native
<1>4. /\ handle' \in Handles \union {Nil} /\ (handle' = Nil => handle = Nil)
      /\ live' \subseteq databases' /\ databases' \subseteq made' /\ made' \subseteq Handles
      /\ startsOverlapped' \in BOOLEAN /\ quit' \in {"no", "inTime", "late", "revived"}
      /\ lastID' \in [Handles -> Nat]
  BY <1>1 DEF EmbeddedShape, Native, Filed
<1> QED
  BY <1>1, <1>2, <1>3, <1>4, CallsKeepShape

LEMMA NotConnectedKeepsShape ==
  ASSUME EmbeddedShape, NEW c \in Conns, NotConnected(c)
  PROVE  EmbeddedShape'
<1>1. /\ conn[c].pc = "connecting" /\ conn' = [conn EXCEPT ![c].pc = "failed"]
      /\ UNCHANGED <<handle, connections, stack, live, databases, clients, subscribed,
                     targets, made, sent, startsOverlapped, owner, quit>>
      /\ lastID' = IF handle = Nil THEN lastID
                   ELSE [lastID EXCEPT ![handle] = lastID[handle] + 1]
  BY DEF NotConnected, stores, ownership
<1>2. /\ handle' \in Handles \union {Nil} /\ (handle' = Nil => handle = Nil)
      /\ live' \subseteq databases' /\ databases' \subseteq made' /\ made' \subseteq Handles
      /\ startsOverlapped' \in BOOLEAN /\ quit' \in {"no", "inTime", "late", "revived"}
      /\ lastID \in [Handles -> Nat] /\ handle \in Handles \union {Nil}
  BY <1>1 DEF EmbeddedShape, Native, Filed
<1>3. /\ lastID' \in [Handles -> Nat]
      /\ \A h \in Handles : lastID[h] <= lastID'[h] /\ lastID'[h] <= lastID[h] + 1
  BY <1>1, <1>2
<1> QED
  BY <1>1, <1>2, <1>3, CallsKeepShape

(* stop, and the close of an adapter that owns the runtime.                *)
StopStep ==
  \/ Stop
  \/ /\ owner # Nil /\ Open(owner) /\ Stopped({owner}) /\ quit' = "inTime"

(* The close of an adapter whose connection was closed before.             *)
LateClose ==
  /\ quit' = "late"
  /\ UNCHANGED <<handle, connections, delivery, native, running, sent, events,
                 startsOverlapped, owner>>

(* CloseAdapter is one or the other.                                       *)
LEMMA CloseAdapterCases ==
  CloseAdapter => StopStep \/ LateClose
BY DEF CloseAdapter, StopStep, LateClose

(* Both close what is filed; an owner that was open is closed first.       *)
LEMMA StopStepCloses ==
  ASSUME EmbeddedShape, StopStep
  PROVE  \E first \in SUBSET Conns :
           /\ \A c \in first : Open(c)
           /\ Stopped(first) /\ Closing(Dropped(first))
<1>1. /\ owner \in Conns \union {Nil} /\ quit \in {"no", "inTime", "late", "revived"}
  BY DEF EmbeddedShape, Filed
<1>2. CASE Stop
  <2>1. Stopped({}) /\ quit' = quit
    BY <1>2 DEF Stop
  <2>2. Closing(Dropped({}))
    BY <2>1, <1>1, StoppedCloses
  <2> QED
    BY <2>1, <2>2
<1>3. CASE owner # Nil /\ Open(owner) /\ Stopped({owner}) /\ quit' = "inTime"
  <2>1. {owner} \in SUBSET Conns /\ \A c \in {owner} : Open(c) /\ conn[c].pc = "open"
    BY <1>1, <1>3 DEF Open
  <2>2. Closing(Dropped({owner}))
    BY <2>1, <1>3, StoppedCloses
  <2> QED
    BY <2>1, <2>2, <1>3
<1> QED
  BY <1>2, <1>3 DEF StopStep

(* One case of EmbeddedNext each, in the groups of the lemmas above.       *)
LEMMA EmbeddedCases ==
  ASSUME [EmbeddedNext]_embeddedVars
  PROVE  \/ UNCHANGED embeddedVars
         \/ StaysFiled \/ HubStep \/ StopStep \/ LateClose
         \/ \E c \in Conns :
              \/ Start(c) \/ StartNative(c) \/ Invoke(c) \/ Close(c)
              \/ Connected(c, FreshClient(handle)) \/ NotConnected(c)
BY CloseAdapterCases, ConnectCases DEF EmbeddedNext, StaysFiled, HandlerStep, HubStep, StopStep

(* Every step keeps the shape, whatever starts overlapped.                 *)
LEMMA EmbeddedShapeStep ==
  ASSUME EmbeddedShape, [EmbeddedNext]_embeddedVars
  PROVE  EmbeddedShape'
<1>1. CASE UNCHANGED embeddedVars
  <2>1. UNCHANGED <<handle, connections, conn, stack, live, databases, lastID, clients,
                    subscribed, targets, made, sent, startsOverlapped, owner, quit>>
    BY <1>1 DEF embeddedVars, native, stores, ownership
  <2>2. Native' /\ Filed'
    BY <2>1 DEF EmbeddedShape, Native, Filed, Ended, Of, Open
  <2>3. Begun'
    BY <2>1 DEF EmbeddedShape, Begun, Originates, Untouched
  <2>4. Framed'
    BY <2>1 DEF EmbeddedShape, Framed
  <2> QED
    BY <2>2, <2>3, <2>4 DEF EmbeddedShape
<1>2. CASE StaysFiled
  <2>1. /\ conn' \in [Conns -> Connections] /\ SameConns /\ SentMore /\ Framed'
        /\ UNCHANGED <<handle, connections, live, lastID, clients, made, stores,
                       startsOverlapped, owner, quit, targets>>
        /\ subscribed' \subseteq clients
    BY <1>2, StaysFiledTypes
  <2>2. /\ targets' \in [Handles -> SUBSET GoClients]
        /\ \A h \in Handles : targets'[h] \subseteq Of(h)
        /\ quit' \in {"no", "inTime", "late", "revived"}
    BY <2>1 DEF EmbeddedShape, Native, Filed
  <2> QED
    BY <2>1, <2>2, CallbacksKeepShape
<1>3. CASE HubStep
  <2>1. /\ conn' \in [Conns -> Connections] /\ SameConns /\ SentMore /\ Framed'
        /\ UNCHANGED <<handle, connections, live, lastID, clients, made, stores,
                       startsOverlapped, owner, quit, subscribed>>
        /\ targets' \in [Handles -> SUBSET GoClients]
        /\ \A h \in Handles : targets'[h] \subseteq Of(h)
    BY <1>3, HubStepTypes
  <2>2. /\ subscribed' \subseteq clients
        /\ quit' \in {"no", "inTime", "late", "revived"}
    BY <2>1 DEF EmbeddedShape, Native, Filed
  <2> QED
    BY <2>1, <2>2, CallbacksKeepShape
<1>4. CASE StopStep
  BY <1>4, StopStepCloses, ClosingKeepsShape
<1>5. CASE LateClose
  <2>1. /\ conn' = conn /\ stack' = stack /\ sent' = sent /\ quit' = "late"
        /\ UNCHANGED <<handle, connections, live, lastID, clients, subscribed, targets,
                       made, stores, startsOverlapped, owner>>
    BY <1>5 DEF LateClose, delivery, native
  <2>2. SameConns /\ Framed'
    BY <2>1, StillTypes
  <2>3. /\ conn' \in [Conns -> Connections] /\ SentMore
        /\ subscribed' \subseteq clients /\ quit' \in {"no", "inTime", "late", "revived"}
        /\ targets' \in [Handles -> SUBSET GoClients]
        /\ \A h \in Handles : targets'[h] \subseteq Of(h)
    BY <2>1 DEF EmbeddedShape, Native, Filed, SentMore
  <2> QED
    BY <2>1, <2>2, <2>3, CallbacksKeepShape
<1>6. ASSUME NEW c \in Conns,
             Start(c) \/ StartNative(c) \/ Invoke(c) \/ NotConnected(c)
      PROVE  EmbeddedShape'
  BY <1>6, StartKeepsShape, StartNativeKeepsShape, InvokeKeepsShape, NotConnectedKeepsShape
<1>7. ASSUME NEW c \in Conns, Close(c)
      PROVE  EmbeddedShape'
  BY <1>7, CloseCloses, ClosingKeepsShape
<1>8. ASSUME NEW c \in Conns, Connected(c, FreshClient(handle))
      PROVE  EmbeddedShape'
  BY <1>8, ConnectedKeepsShape
<1> QED
  BY <1>1, <1>2, <1>3, <1>4, <1>5, <1>6, <1>7, <1>8, EmbeddedCases

(* The types, and what the map of connections holds: open connections under*)
(* their own IDs, however starts, stops and closes interleave              *)
(* (runtime.ts:412-422, 447-453).                                          *)
THEOREM EmbeddedTypes == EmbeddedSpec => []EmbeddedTypeOK
<1>1. EmbeddedInit => EmbeddedShape
  BY InitShapesEmbedded
<1>2. EmbeddedShape /\ [EmbeddedNext]_embeddedVars => EmbeddedShape'
  BY EmbeddedShapeStep
<1>3. ASSUME EmbeddedShape PROVE EmbeddedTypeOK
  <2>1. \A c \in Conns :
          conn[c].pc \in {"idle", "importing", "connecting", "open", "answered", "failed"}
    BY <1>3 DEF EmbeddedShape, Filed, Connections
  <2> QED
    BY <2>1, <1>3 DEF EmbeddedTypeOK, EmbeddedShape, Native, Filed
<1> QED
  BY <1>1, <1>2, <1>3, PTL DEF EmbeddedSpec
-----------------------------------------------------------------------------
(* What was sent to the client of c so far stays, and nothing is added     *)
(* while c is open.                                                        *)
SentOn(c) ==
  LET g == conn[c].origin
  IN /\ Len(sent[g]) \in Nat /\ Len(sent'[g]) \in Nat /\ Len(sent[g]) <= Len(sent'[g])
     /\ \A n \in 1..Len(sent[g]) : sent'[g][n] = sent[g][n]
     /\ Open(c)' => Open(c) /\ Len(sent'[g]) = Len(sent[g])

(* The calls that are pending for c have moved by s, but for those lost.   *)
Shift(c, s) ==
  /\ \A j \in 1..Len(stack') : Pending(j, c)' =>
       /\ j + s \in 1..Len(stack) /\ Pending(j + s, c)
       /\ stack'[j].message = stack[j + s].message
  /\ \A j \in 1..Len(stack) : Pending(j, c) =>
       \/ stack[j].message.n \in conn'[c].lost
       \/ /\ j - s \in 1..Len(stack') /\ Pending(j - s, c)'
          /\ stack'[j - s].message = stack[j].message

(* Both keep what is said of messages, and of pairs of them.               *)
LEMMA GenuineStays ==
  ASSUME NEW c, SentOn(c), conn'[c].origin = conn[c].origin
  PROVE  /\ \A n \in Due(c) : n \in Nat
         /\ Due(c) \subseteq Due(c)' /\ (Open(c)' => Open(c) /\ Due(c)' = Due(c))
         /\ \A m : Genuine(c, m) => Genuine(c, m)'
         /\ \A n \in Due(c) : \A m : MayPrecede(c, n, m) => MayPrecede(c, n, m)'
<1> DEFINE g == conn[c].origin
<1>1. /\ Len(sent[g]) \in Nat /\ Len(sent'[g]) \in Nat /\ Len(sent[g]) <= Len(sent'[g])
      /\ \A n \in 1..Len(sent[g]) : sent'[g][n] = sent[g][n]
      /\ Open(c)' => Open(c) /\ Len(sent'[g]) = Len(sent[g])
  BY DEF SentOn
<1>2. Due(c) = 2..Len(sent[g]) /\ Due(c)' = 2..Len(sent'[g])
  BY DEF Due
<1>3. Due(c) \subseteq Due(c)' /\ (Open(c)' => Open(c) /\ Due(c)' = Due(c))
      /\ \A n \in Due(c) : n \in Nat
  BY <1>1, <1>2
<1>4. \A m : Genuine(c, m) => Genuine(c, m)'
  BY <1>3 DEF Genuine
<1>5. ASSUME NEW n \in Due(c), NEW m, MayPrecede(c, n, m) PROVE MayPrecede(c, n, m)'
  <2>1. sent'[g][n] = sent[g][n]
    BY <1>1, <1>2
  <2> QED
    BY <2>1, <1>5 DEF MayPrecede
<1> QED
  BY <1>3, <1>4, <1>5

(* So nothing that c has still to hear, or has heard, is out of its order. *)
LEMMA ShiftedPassed ==
  ASSUME NEW c \in Conns, Passed(c), SentOn(c), NEW s \in Int, Shift(c, s),
         Len(stack) \in Nat, Len(stack') \in Nat,
         conn'[c].origin = conn[c].origin, conn'[c].heard = conn[c].heard,
         conn[c].lost \subseteq conn'[c].lost
  PROVE  Passed(c)'
<1> DEFINE heard == conn[c].heard
<1>1. /\ \A n \in Due(c) : n \in Nat
      /\ Due(c) \subseteq Due(c)' /\ (Open(c)' => Open(c) /\ Due(c)' = Due(c))
      /\ \A m : Genuine(c, m) => Genuine(c, m)'
      /\ \A n \in Due(c) : \A m : MayPrecede(c, n, m) => MayPrecede(c, n, m)'
  BY GenuineStays
<1>2. /\ \A j \in 1..Len(stack') : Pending(j, c)' =>
           /\ j + s \in 1..Len(stack) /\ Pending(j + s, c)
           /\ stack'[j].message = stack[j + s].message
      /\ \A j \in 1..Len(stack) : Pending(j, c) =>
           \/ stack[j].message.n \in conn'[c].lost
           \/ /\ j - s \in 1..Len(stack') /\ Pending(j - s, c)'
              /\ stack'[j - s].message = stack[j].message
  BY DEF Shift
<1>3. /\ \A i \in 1..Len(heard) : Genuine(c, heard[i])
      /\ \A j \in 1..Len(stack) : Pending(j, c) => Genuine(c, stack[j].message)
      /\ \A i, j \in 1..Len(heard) : i < j => MayPrecede(c, heard[i].n, heard[j].n)
      /\ \A i \in 1..Len(heard), j \in 1..Len(stack) :
           Pending(j, c) => MayPrecede(c, heard[i].n, stack[j].message.n)
      /\ \A i, j \in 1..Len(stack) :
           i < j /\ Pending(i, c) /\ Pending(j, c)
             => MayPrecede(c, stack[i].message.n, stack[j].message.n)
      /\ Open(c) => \A n \in Due(c) \ conn[c].lost :
           \/ \E i \in 1..Len(heard) : heard[i].n = n
           \/ \E j \in 1..Len(stack) : Pending(j, c) /\ stack[j].message.n = n
  BY DEF Passed
<1>4. /\ \A i \in 1..Len(heard) : heard[i].n \in Due(c)
      /\ \A j \in 1..Len(stack) : Pending(j, c) => stack[j].message.n \in Due(c)
  BY <1>3 DEF Genuine
<1>5. \A i \in 1..Len(heard) : Genuine(c, heard[i])'
  <2> SUFFICES ASSUME NEW i \in 1..Len(heard) PROVE Genuine(c, conn[c].heard[i])'
    OBVIOUS
  <2>1. Genuine(c, heard[i])
    BY <1>3
  <2> QED
    BY <2>1, <1>1 DEF Genuine
<1>6. \A j \in 1..Len(stack') : Pending(j, c)' => Genuine(c, stack[j].message)'
  <2> SUFFICES ASSUME NEW j \in 1..Len(stack'), Pending(j, c)'
               PROVE  Genuine(c, stack[j].message)'
    OBVIOUS
  <2>1. Genuine(c, stack[j + s].message) /\ stack'[j].message = stack[j + s].message
    BY <1>2, <1>3
  <2> QED
    BY <2>1, <1>1 DEF Genuine
<1>7. \A i, j \in 1..Len(heard) : i < j => MayPrecede(c, heard[i].n, heard[j].n)'
  <2> SUFFICES ASSUME NEW i \in 1..Len(heard), NEW j \in 1..Len(heard), i < j
               PROVE  MayPrecede(c, conn[c].heard[i].n, conn[c].heard[j].n)'
    OBVIOUS
  <2>1. heard[i].n \in Due(c) /\ MayPrecede(c, heard[i].n, heard[j].n)
    BY <1>3, <1>4
  <2> QED
    BY <2>1, <1>1 DEF MayPrecede
<1>8. \A i \in 1..Len(heard), j \in 1..Len(stack') :
        Pending(j, c)' => MayPrecede(c, conn[c].heard[i].n, stack[j].message.n)'
  <2> SUFFICES ASSUME NEW i \in 1..Len(heard), NEW j \in 1..Len(stack'), Pending(j, c)'
               PROVE  MayPrecede(c, conn[c].heard[i].n, stack[j].message.n)'
    OBVIOUS
  <2>1. j + s \in 1..Len(stack) /\ Pending(j + s, c)
        /\ stack'[j].message = stack[j + s].message
    BY <1>2
  <2>2. heard[i].n \in Due(c) /\ MayPrecede(c, heard[i].n, stack[j + s].message.n)
    BY <2>1, <1>3, <1>4
  <2> QED
    BY <2>1, <2>2, <1>1 DEF MayPrecede
<1>9. \A i, j \in 1..Len(stack') :
        i < j /\ Pending(i, c)' /\ Pending(j, c)'
          => MayPrecede(c, stack[i].message.n, stack[j].message.n)'
  <2> SUFFICES ASSUME NEW i \in 1..Len(stack'), NEW j \in 1..Len(stack'), i < j,
                      Pending(i, c)', Pending(j, c)'
               PROVE  MayPrecede(c, stack[i].message.n, stack[j].message.n)'
    OBVIOUS
  <2>1. /\ i + s \in 1..Len(stack) /\ Pending(i + s, c) /\ i + s < j + s
        /\ stack'[i].message = stack[i + s].message
        /\ j + s \in 1..Len(stack) /\ Pending(j + s, c)
        /\ stack'[j].message = stack[j + s].message
    BY <1>2
  <2>2. /\ stack[i + s].message.n \in Due(c)
        /\ MayPrecede(c, stack[i + s].message.n, stack[j + s].message.n)
    BY <2>1, <1>3, <1>4
  <2> QED
    BY <2>1, <2>2, <1>1 DEF MayPrecede
<1>10. ASSUME Open(c)', NEW n \in Due(c)', n \notin conn'[c].lost
       PROVE  \/ \E i \in 1..Len(heard) : heard[i].n = n
              \/ \E j \in 1..Len(stack') : Pending(j, c)' /\ stack'[j].message.n = n
  <2>1. n \in Due(c) \ conn[c].lost /\ Open(c)
    BY <1>10, <1>1
  <2>2. CASE \E i \in 1..Len(heard) : heard[i].n = n
    BY <2>2
  <2>3. CASE \E j \in 1..Len(stack) : Pending(j, c) /\ stack[j].message.n = n
    <3>1. PICK j \in 1..Len(stack) : Pending(j, c) /\ stack[j].message.n = n
      BY <2>3
    <3>2. /\ j - s \in 1..Len(stack') /\ Pending(j - s, c)'
          /\ stack'[j - s].message = stack[j].message
      BY <3>1, <1>2, <1>10
    <3> QED
      BY <3>1, <3>2
  <2> QED
    BY <2>1, <2>2, <2>3, <1>3
<1> QED
  BY <1>5, <1>6, <1>7, <1>8, <1>9, <1>10 DEF Passed

(* And its stream is as it should be.                                      *)
LEMMA SameStreamed ==
  ASSUME EmbeddedShape, NEW c \in Conns, Streamed(c), SentOn(c), NEW s \in Int, Shift(c, s),
         stack' \in Seq(Frames), conn'[c].origin = conn[c].origin,
         conn'[c].onmessage = conn[c].onmessage, conn'[c].backlog = conn[c].backlog,
         conn'[c].heard = conn[c].heard, conn[c].lost \subseteq conn'[c].lost,
         ~conn[c].onmessage => conn'[c].lost = conn[c].lost
  PROVE  Streamed(c)'
<1>1. conn[c] \in Connections /\ stack \in Seq(Frames)
  BY DEF EmbeddedShape, Filed, Framed
<1>2. CASE conn[c].onmessage
  <2>1. conn[c].backlog = <<>> /\ Passed(c)
    BY <1>2 DEF Streamed
  <2>2. Passed(c)'
    BY <2>1, <1>1, ShiftedPassed
  <2> QED
    BY <2>1, <2>2, <1>2, Zenon DEF Streamed
<1>3. CASE ~conn[c].onmessage
  <2>1. conn[c].heard = <<>> /\ conn[c].lost = {} /\ InOrder(c, conn[c].backlog)
    BY <1>3 DEF Streamed
  <2> DEFINE b == conn[c].backlog
  <2>2. Len(b) \in Nat
    BY <1>1 DEF Connections
  <2> DEFINE g == conn[c].origin
  <2>5. /\ Len(sent[g]) \in Nat /\ Len(sent'[g]) \in Nat /\ Len(sent[g]) <= Len(sent'[g])
        /\ Open(c)' => Open(c) /\ Len(sent'[g]) = Len(sent[g])
    BY DEF SentOn
  <2>6. /\ Len(b) + 1 <= Len(sent[g])
        /\ \A i \in 1..Len(b) : b[i] = [from |-> g, n |-> i + 1]
        /\ Open(c) => Len(b) + 1 = Len(sent[g])
    BY <2>1, Zenon DEF InOrder
  <2>3. /\ Len(b) + 1 <= Len(sent'[g])
        /\ Open(c)' => Len(b) + 1 = Len(sent'[g])
    BY <2>2, <2>5, <2>6
  <2> HIDE DEF b, g
  <2>7. conn'[c].backlog = b /\ conn'[c].origin = g
    BY DEF b, g
  <2>4. InOrder(c, conn[c].backlog)'
    BY <2>3, <2>6, <2>7, Zenon DEF InOrder
  <2> QED
    BY <2>1, <2>4, <1>3, Zenon DEF Streamed
<1> QED
  BY <1>2, <1>3

(* Nothing was sent to the client of c.                                    *)
LEMMA SentSame ==
  ASSUME EmbeddedShape, NEW c \in Conns, conn[c].pc = "open", Open(c)' => Open(c),
         sent'[conn[c].origin] = sent[conn[c].origin]
  PROVE  SentOn(c)
<1>1. Len(sent[conn[c].origin]) \in Nat
  BY DEF EmbeddedShape, Begun, Originates, Native
<1> QED
  BY <1>1 DEF SentOn

LEMMA StackSame ==
  ASSUME EmbeddedShape, stack' = stack, NEW c
  PROVE  Shift(c, 0) /\ stack' \in Seq(Frames)
<1>1. stack \in Seq(Frames)
  BY DEF EmbeddedShape, Framed
<1>2. \A j \in 1..Len(stack) : j + 0 = j /\ j - 0 = j
  BY <1>1
<1> QED
  BY <1>1, <1>2 DEF Shift, Pending

(* Calls on their way have no part in it.                                  *)
LEMMA CallsKeepIntact ==
  ASSUME EmbeddedShape, Intact, NEW c \in Conns, NEW p,
         conn[c].pc # "open", p # "open", conn' = [conn EXCEPT ![c].pc = p],
         UNCHANGED <<connections, stack, sent, clients>>,
         handle' = handle \/ handle = Nil, live' = {handle'} \ {Nil},
         databases' = live' \union broken', handle' \notin broken',
         quit' = "inTime" => handle' = Nil
  PROVE  Intact'
<1>1. conn \in [Conns -> Connections]
  BY DEF EmbeddedShape, Filed
<1>2. conn'[c].pc = p /\ \A d \in Conns : d # c => conn'[d] = conn[d]
  <2>1. \A k \in Connections : [k EXCEPT !.pc = p].pc = p
    BY DEF Connections
  <2>2. conn'[c] = [conn[c] EXCEPT !.pc = p] /\ conn[c] \in Connections
    BY <1>1
  <2> QED
    BY <1>1, <2>1, <2>2
<1>3. \A d \in Conns : conn'[d].pc = "open" => conn[d].pc = "open" /\ conn'[d] = conn[d]
  BY <1>2
<1>4. \A d \in Conns : conn[d].pc = "open" => conn'[d] = conn[d]
  BY <1>2
<1>5. Streams'
  <2> SUFFICES ASSUME NEW d \in Conns, conn'[d].pc = "open" PROVE Streamed(d)'
    BY Zenon DEF Streams
  <2>1. conn[d].pc = "open" /\ conn'[d] = conn[d] /\ sent' = sent
    BY <1>3
  <2>2. Streamed(d)
    BY <2>1 DEF Intact, Streams
  <2>3. Open(d)' => Open(d)
    BY <2>1, Zenon DEF Open
  <2>4. SentOn(d) /\ Shift(d, 0) /\ stack' \in Seq(Frames)
    BY <2>1, <2>3, SentSame, StackSame
  <2> QED
    BY <2>1, <2>2, <2>4, SameStreamed
<1>6. Served'
  <2> SUFFICES ASSUME NEW d \in Conns, Open(d)'
               PROVE  /\ handle' # Nil
                      /\ conn'[d].origin = [handle |-> handle', id |-> conn'[d].id]
                      /\ connections'[conn'[d].id] = d
                      /\ conn'[d].origin \in clients'
    BY Zenon DEF Served
  <2>1. conn'[d] = conn[d] /\ Open(d)
    BY <1>3, Zenon DEF Open
  <2>2. /\ handle # Nil /\ conn[d].origin = [handle |-> handle, id |-> conn[d].id]
        /\ connections[conn[d].id] = d /\ conn[d].origin \in clients
    BY <2>1 DEF Intact, Served
  <2> QED
    BY <2>1, <2>2
<1>7. Kept'
  <2>1. \A d \in Conns : Open(d) => Open(d)' /\ conn'[d] = conn[d]
    BY <1>4, Zenon DEF Open
  <2>2. \A g \in clients : \E d \in Conns : Open(d) /\ conn[d].origin = g
    BY DEF Intact, Kept
  <2>3. \A g \in clients' : \E d \in Conns : Open(d)' /\ conn'[d].origin = g
    BY <2>1, <2>2, Zenon
  <2> QED
    BY <2>3 DEF Kept
<1> QED
  BY <1>5, <1>6, <1>7 DEF Intact

(* An open connection is where the client it stands for says.              *)
LEMMA FoundByID ==
  ASSUME EmbeddedShape, Intact, NEW d \in Conns, Open(d)
  PROVE  /\ handle # Nil /\ conn[d].id \in IDs /\ connections[conn[d].id] = d
         /\ conn[d].origin = [handle |-> handle, id |-> conn[d].id]
         /\ conn[d].origin \in clients /\ conn[d].id <= lastID[handle]
<1>1. /\ handle # Nil /\ connections[conn[d].id] = d /\ conn[d].origin \in clients
      /\ conn[d].origin = [handle |-> handle, id |-> conn[d].id]
  BY DEF Intact, Served
<1>2. Originates(d)
  BY DEF EmbeddedShape, Begun, Open
<1> QED
  BY <1>1, <1>2 DEF Originates, GoClients

(* What a connection with an onmessage is called back with: it is passed on*)
(* at once, before what is pending.                                        *)
LEMMA PushedPassed ==
  ASSUME EmbeddedShape, NEW c \in Conns, Open(c), Open(c)', Passed(c), conn[c].onmessage,
         NEW type \in MessageTypes,
         type = "nested" \/ \A j \in 1..Len(stack) : ~Pending(j, c),
         Len(sent'[conn[c].origin]) = Len(sent[conn[c].origin]) + 1,
         sent'[conn[c].origin][Len(sent[conn[c].origin]) + 1] = type,
         \A n \in 1..Len(sent[conn[c].origin]) :
           sent'[conn[c].origin][n] = sent[conn[c].origin][n],
         conn'[c].origin = conn[c].origin, conn'[c].heard = conn[c].heard,
         conn'[c].lost = conn[c].lost,
         Len(stack') = Len(stack) + 1,
         stack'[1] = Frame(c, [from |-> conn[c].origin, n |-> Len(sent[conn[c].origin]) + 1],
                           "listeners", conn[c].origin),
         \A i \in 2..(Len(stack) + 1) : stack'[i] = stack[i - 1]
  PROVE  Passed(c)'
<1> DEFINE g == conn[c].origin
           heard == conn[c].heard
<1>24. PICK last : last = Len(sent[g]) + 1
  OBVIOUS
<1>25. PICK note : note = [from |-> g, n |-> last]
  OBVIOUS
<1>26. PICK f : f = Frame(c, note, "listeners", g)
  OBVIOUS
<1>1. /\ sent[g] \in Seq(MessageTypes) /\ Len(sent[g]) >= 1 /\ g \in GoClients
      /\ stack \in Seq(Frames) /\ conn[c] \in Connections
  BY DEF EmbeddedShape, Native, Filed, Begun, Originates, Framed, Open
<1>2. /\ Len(sent[g]) \in Nat /\ Len(sent'[g]) = last /\ last \in Nat
      /\ sent'[g][last] = type
      /\ \A n \in 1..Len(sent[g]) : sent'[g][n] = sent[g][n]
  <2>1. Len(sent[g]) \in Nat
    BY <1>1
  <2> HIDE DEF g
  <2>2. Len(sent[g]) + 1 \in Nat
    BY <2>1
  <2> USE DEF g
  <2> QED
    BY <2>1, <2>2, <1>24, Zenon
<1>3. note \in Notes /\ note.n = last /\ note.from = g
  BY <1>1, <1>2, <1>25 DEF Notes
<1>5. f \in Frames /\ f.to = c /\ f.stage = "listeners" /\ f.message = note
  BY <1>1, <1>3, <1>26 DEF Frame, Frames
<1>6. /\ Len(stack') = Len(stack) + 1 /\ stack'[1] = f /\ Len(stack) \in Nat
      /\ \A i \in 2..(Len(stack) + 1) : stack'[i] = stack[i - 1]
  BY <1>1, <1>24, <1>25, <1>26
<1>7. /\ Due(c) = 2..Len(sent[g]) /\ Due(c)' = 2..last /\ last = Len(sent[g]) + 1
      /\ Due(c)' = Due(c) \union {last} /\ last \in Due(c)'
      /\ \A n \in Due(c) : n \in Nat /\ n < last
  <2>1. Due(c) = 2..Len(sent[g]) /\ Due(c)' = 2..last
    BY <1>2 DEF Due
  <2> QED
    BY <2>1, <1>1, <1>2, <1>24
<1>8. /\ \A i \in 1..Len(heard) : Genuine(c, heard[i])
      /\ \A j \in 1..Len(stack) : Pending(j, c) => Genuine(c, stack[j].message)
      /\ \A i, j \in 1..Len(heard) : i < j => MayPrecede(c, heard[i].n, heard[j].n)
      /\ \A i \in 1..Len(heard), j \in 1..Len(stack) :
           Pending(j, c) => MayPrecede(c, heard[i].n, stack[j].message.n)
      /\ \A i, j \in 1..Len(stack) :
           i < j /\ Pending(i, c) /\ Pending(j, c)
             => MayPrecede(c, stack[i].message.n, stack[j].message.n)
      /\ \A n \in Due(c) \ conn[c].lost :
           \/ \E i \in 1..Len(heard) : heard[i].n = n
           \/ \E j \in 1..Len(stack) : Pending(j, c) /\ stack[j].message.n = n
  BY DEF Passed
<1>9. /\ \A i \in 1..Len(heard) : heard[i].n \in Due(c)
      /\ \A j \in 1..Len(stack) : Pending(j, c) => stack[j].message.n \in Due(c)
  BY <1>8 DEF Genuine
<1>10. \A m : Genuine(c, m) => Genuine(c, m)'
  BY <1>7 DEF Genuine
<1>11. \A n \in Due(c) : \A m : MayPrecede(c, n, m) => MayPrecede(c, n, m)'
  <2> SUFFICES ASSUME NEW n \in Due(c), NEW m, MayPrecede(c, n, m) PROVE MayPrecede(c, n, m)'
    OBVIOUS
  <2>1. sent'[g][n] = sent[g][n]
    BY <1>2, <1>7
  <2> QED
    BY <2>1 DEF MayPrecede
<1>12. \A n \in Due(c) : MayPrecede(c, n, last)'
  <2>1. \A n \in Due(c) : n # last /\ ~(n > last)
    BY <1>2, <1>7
  <2> QED
    BY <2>1 DEF MayPrecede
<1>13. \A j \in 1..Len(stack) : Pending(j, c) =>
         \A m \in Due(c) : MayPrecede(c, last, m)'
  <2>1. ASSUME NEW j \in 1..Len(stack), Pending(j, c) PROVE sent'[g][last] = "nested"
    BY <2>1, <1>2
  <2>2. \A m \in Due(c) : m # last
    BY <1>2, <1>7
  <2> QED
    BY <2>1, <2>2 DEF MayPrecede
<1>14. ASSUME NEW j \in 1..Len(stack'), Pending(j, c)'
       PROVE  \/ j = 1 /\ stack'[j].message = note
              \/ /\ j # 1 /\ j - 1 \in 1..Len(stack) /\ Pending(j - 1, c)
                 /\ stack'[j].message = stack[j - 1].message
  <2>1. CASE j = 1
    BY <2>1, <1>5, <1>6
  <2>2. CASE j # 1
    <3>1. j - 1 \in 1..Len(stack) /\ stack'[j] = stack[j - 1]
      BY <2>2, <1>6
    <3> QED
      BY <3>1, <2>2, <1>14 DEF Pending
  <2> QED
    BY <2>1, <2>2
<1>15. Pending(1, c)' /\ 1 \in 1..Len(stack') /\ stack'[1].message.n = last
  BY <1>3, <1>5, <1>6 DEF Pending
<1>16. ASSUME NEW j \in 1..Len(stack), Pending(j, c)
       PROVE  /\ j + 1 \in 1..Len(stack') /\ Pending(j + 1, c)'
              /\ stack'[j + 1].message = stack[j].message
  <2>1. j + 1 \in 2..(Len(stack) + 1) /\ (j + 1) - 1 = j
    BY <1>6
  <2>2. stack'[j + 1] = stack[j]
    BY <2>1, <1>6
  <2> QED
    BY <2>1, <2>2, <1>6, <1>16 DEF Pending
<1>17. Genuine(c, note)'
  BY <1>3, <1>7, Zenon DEF Genuine
<1>18. \A i \in 1..Len(heard) : Genuine(c, conn[c].heard[i])'
  <2> SUFFICES ASSUME NEW i \in 1..Len(heard) PROVE Genuine(c, conn[c].heard[i])'
    OBVIOUS
  <2>1. Genuine(c, heard[i])
    BY <1>8
  <2> QED
    BY <2>1, <1>10 DEF Genuine
<1>19. \A j \in 1..Len(stack') : Pending(j, c)' => Genuine(c, stack[j].message)'
  <2> SUFFICES ASSUME NEW j \in 1..Len(stack'), Pending(j, c)'
               PROVE  Genuine(c, stack[j].message)'
    OBVIOUS
  <2>1. CASE j = 1 /\ stack'[j].message = note
    BY <2>1, <1>17
  <2>2. CASE /\ j # 1 /\ j - 1 \in 1..Len(stack) /\ Pending(j - 1, c)
             /\ stack'[j].message = stack[j - 1].message
    <3>1. Genuine(c, stack[j - 1].message)
      BY <2>2, <1>8
    <3> QED
      BY <3>1, <2>2, <1>10 DEF Genuine
  <2> QED
    BY <2>1, <2>2, <1>14
<1>20. \A i, j \in 1..Len(heard) : i < j => MayPrecede(c, conn[c].heard[i].n, conn[c].heard[j].n)'
  <2> SUFFICES ASSUME NEW i \in 1..Len(heard), NEW j \in 1..Len(heard), i < j
               PROVE  MayPrecede(c, conn[c].heard[i].n, conn[c].heard[j].n)'
    OBVIOUS
  <2>1. heard[i].n \in Due(c) /\ MayPrecede(c, heard[i].n, heard[j].n)
    BY <1>8, <1>9
  <2> QED
    BY <2>1, <1>11 DEF MayPrecede
<1>21. \A i \in 1..Len(heard), j \in 1..Len(stack') :
         Pending(j, c)' => MayPrecede(c, conn[c].heard[i].n, stack[j].message.n)'
  <2> SUFFICES ASSUME NEW i \in 1..Len(heard), NEW j \in 1..Len(stack'), Pending(j, c)'
               PROVE  MayPrecede(c, conn[c].heard[i].n, stack[j].message.n)'
    OBVIOUS
  <2>1. CASE j = 1 /\ stack'[j].message = note
    <3>1. heard[i].n \in Due(c) /\ stack'[j].message.n = last
      BY <2>1, <1>3, <1>9
    <3>2. MayPrecede(c, heard[i].n, last)'
      BY <3>1, <1>12 DEF MayPrecede
    <3> QED
      BY <3>1, <3>2 DEF MayPrecede
  <2>2. CASE /\ j # 1 /\ j - 1 \in 1..Len(stack) /\ Pending(j - 1, c)
             /\ stack'[j].message = stack[j - 1].message
    <3>1. heard[i].n \in Due(c) /\ MayPrecede(c, heard[i].n, stack[j - 1].message.n)
      BY <2>2, <1>8, <1>9
    <3> QED
      BY <3>1, <2>2, <1>11 DEF MayPrecede
  <2> QED
    BY <2>1, <2>2, <1>14
<1>22. ASSUME NEW i \in 1..Len(stack'), NEW j \in 1..Len(stack'), i < j,
              Pending(i, c)', Pending(j, c)'
       PROVE  MayPrecede(c, stack[i].message.n, stack[j].message.n)'
  <2>1. /\ j # 1 /\ j - 1 \in 1..Len(stack) /\ Pending(j - 1, c)
        /\ stack'[j].message = stack[j - 1].message
    BY <1>22, <1>14, <1>6
  <2>2. CASE i = 1 /\ stack'[i].message = note
    <3>1. stack'[j].message.n \in Due(c) /\ stack'[i].message.n = last
      BY <2>1, <2>2, <1>3, <1>9
    <3>2. \A m \in Due(c) : MayPrecede(c, last, m)'
      BY <2>1, <1>13
    <3> QED
      BY <3>1, <3>2 DEF MayPrecede
  <2>3. CASE /\ i # 1 /\ i - 1 \in 1..Len(stack) /\ Pending(i - 1, c)
             /\ stack'[i].message = stack[i - 1].message
    <3>1. i - 1 < j - 1
      BY <1>22, <1>6
    <3>2. /\ stack[i - 1].message.n \in Due(c)
          /\ MayPrecede(c, stack[i - 1].message.n, stack[j - 1].message.n)
      BY <2>1, <2>3, <3>1, <1>8, <1>9
    <3>3. \A m : MayPrecede(c, stack[i - 1].message.n, m) =>
            /\ stack[i - 1].message.n # m
            /\ stack[i - 1].message.n > m => sent'[g][stack[i - 1].message.n] = "nested"
      <4>1. stack[i - 1].message.n \in 1..Len(sent[g])
        BY <3>2, <1>1, <1>7
      <4> QED
        BY <4>1, <1>2 DEF MayPrecede
    <3> QED
      BY <3>2, <3>3, <2>1, <2>3 DEF MayPrecede
  <2> QED
    BY <2>2, <2>3, <1>14, <1>22
<1>23. ASSUME NEW n \in Due(c)', n \notin conn'[c].lost
       PROVE  \/ \E i \in 1..Len(heard) : heard[i].n = n
              \/ \E j \in 1..Len(stack') : Pending(j, c)' /\ stack'[j].message.n = n
  <2>1. CASE n = last
    BY <2>1, <1>15
  <2>2. CASE n # last
    <3>1. n \in Due(c) \ conn[c].lost
      BY <2>2, <1>7, <1>23
    <3>2. CASE \E j \in 1..Len(stack) : Pending(j, c) /\ stack[j].message.n = n
      BY <3>2, <1>16
    <3> QED
      BY <3>1, <3>2, <1>8
  <2> QED
    BY <2>1, <2>2
<1> QED
  BY <1>18, <1>19, <1>20, <1>21, <1>22, <1>23 DEF Passed

(* A backlog to which a callback adds a message is still in order.         *)
LEMMA LongerInOrder ==
  ASSUME EmbeddedShape, NEW c \in Conns, Open(c), InOrder(c, conn[c].backlog),
         NEW type \in MessageTypes,
         sent'[conn[c].origin] = Append(sent[conn[c].origin], type),
         conn'[c].origin = conn[c].origin,
         conn'[c].backlog =
           Append(conn[c].backlog, [from |-> conn[c].origin, n |-> Len(sent[conn[c].origin]) + 1])
  PROVE  InOrder(c, conn[c].backlog)'
<1> DEFINE g == conn[c].origin
           s == conn[c].backlog
           note == [from |-> g, n |-> Len(sent[g]) + 1]
<1>1. sent[g] \in Seq(MessageTypes) /\ Len(sent[g]) \in Nat /\ s \in Seq(Notes)
  BY DEF EmbeddedShape, Native, Filed, Connections, Begun, Originates, Open
<1>2. Len(sent'[g]) = Len(sent[g]) + 1
  BY <1>1
<1>3. /\ Len(s) + 1 = Len(sent[g])
      /\ \A i \in 1..Len(s) : s[i] = [from |-> g, n |-> i + 1]
  BY DEF InOrder
<1> HIDE DEF s
<1>4. note = [from |-> g, n |-> Len(s) + 2]
  BY <1>3, <1>1
<1> DEFINE t == Append(s, note)
<1> HIDE DEF note
<1>5. /\ Len(t) = Len(s) + 1 /\ t[Len(s) + 1] = note /\ Len(s) \in Nat
      /\ \A i \in 1..Len(s) : t[i] = s[i]
  BY <1>1
<1> HIDE DEF t
<1>6. ASSUME NEW i \in 1..Len(t) PROVE t[i] = [from |-> g, n |-> i + 1]
  <2>1. CASE i = Len(s) + 1
    BY <2>1, <1>4, <1>5
  <2>2. CASE i # Len(s) + 1
    <3>1. i \in 1..Len(s)
      BY <2>2, <1>5
    <3> QED
      BY <3>1, <1>3, <1>5
  <2> QED
    BY <2>1, <2>2
<1>7. Len(t) + 1 = Len(sent'[g]) /\ Len(t) + 1 <= Len(sent'[g])
  BY <1>1, <1>2, <1>3, <1>5
<1>8. conn'[c].backlog = t /\ conn'[c].origin = g
  BY DEF t, s, note
<1> HIDE DEF g
<1> QED
  BY <1>6, <1>7, <1>8, Zenon DEF InOrder

(* Go calls back a client of the handle in use: the stream of its          *)
(* connection grows with what it was sent, and no other does.              *)
LEMMA CalledBackKeepsStreams ==
  ASSUME EmbeddedShape, Intact, NEW g \in GoClients, g.handle = handle,
         NEW type \in MessageTypes, CalledBack(g, type),
         \/ type = "nested"
         \/ \A j \in 1..Len(stack) : stack[j].to # connections[g.id]
  PROVE  Streams'
<1>1. /\ SameConns /\ Framed'
      /\ \A d \in Conns : conn'[d].onmessage = conn[d].onmessage
      /\ \A d \in Conns : connections[g.id] # d => conn'[d] = conn[d]
      /\ \A d \in Conns : connections[g.id] = d => Takes(d, g)
      /\ (\A d \in Conns : connections[g.id] = d => ~conn[d].onmessage) => stack' = stack
      /\ sent'[g] = Append(sent[g], type)
      /\ \A x \in GoClients : x # g => sent'[x] = sent[x]
  BY CalledBackTypes
<1>2. /\ sent[g] \in Seq(MessageTypes) /\ g = [handle |-> handle, id |-> g.id] /\ g.id \in IDs
      /\ conn \in [Conns -> Connections] /\ stack \in Seq(Frames) /\ stack' \in Seq(Frames)
      /\ connections[g.id] \in Conns \union {Nil}
  BY <1>1 DEF EmbeddedShape, Native, Filed, Framed, GoClients
<1>3. /\ Len(sent[g]) \in Nat /\ Len(sent'[g]) = Len(sent[g]) + 1
      /\ \A n \in 1..Len(sent[g]) : sent'[g][n] = sent[g][n]
  BY <1>1, <1>2
<1> SUFFICES ASSUME NEW d \in Conns, conn'[d].pc = "open" PROVE Streamed(d)'
  BY Zenon DEF Streams
<1>4. /\ conn'[d].pc = conn[d].pc /\ conn'[d].origin = conn[d].origin
      /\ conn'[d].closed = conn[d].closed /\ conn'[d].onmessage = conn[d].onmessage
  BY <1>1, Zenon DEF SameConns, SameConn
<1>5. Streamed(d) /\ Originates(d)
  BY <1>4 DEF Intact, Streams, EmbeddedShape, Begun
<1>6. Open(d)' <=> Open(d)
  BY <1>4, Zenon DEF Open
<1>7. CASE connections[g.id] # d
  <2>1. conn'[d] = conn[d]
    BY <1>1, <1>7
  <2>2. SentOn(d)
    <3>1. CASE conn[d].origin # g
      <4>1. sent'[conn[d].origin] = sent[conn[d].origin]
        BY <1>1, <1>5, <3>1 DEF Originates
      <4> QED
        BY <4>1, <1>4, <1>6, SentSame
    <3>2. CASE conn[d].origin = g
      <4>1. ~Open(d)
        <5>1. SUFFICES ASSUME Open(d) PROVE FALSE
          OBVIOUS
        <5>2. conn[d].id = g.id /\ connections[conn[d].id] = d
          BY <5>1, <3>2, <1>5, FoundByID DEF Originates
        <5> QED
          BY <5>2, <1>7
      <4> QED
        BY <4>1, <3>2, <1>3, <1>6 DEF SentOn
    <3> QED
      BY <3>1, <3>2
  <2>3. CASE stack' = stack
    <3>1. Shift(d, 0)
      BY <2>3, StackSame
    <3> QED
      BY <3>1, <2>1, <2>2, <1>2, <1>5, SameStreamed
  <2>4. CASE stack' # stack
    <3>1. PICK e \in Conns : connections[g.id] = e /\ conn[e].onmessage
      BY <2>4, <1>1
    <3> DEFINE note == [from |-> g, n |-> Len(sent[g]) + 1]
               f == Frame(e, note, "listeners", g)
    <3>2. stack' = <<f>> \o stack
      BY <3>1, <1>1 DEF Takes
    <3>3. f \in Frames /\ f.to = e
      BY <1>3 DEF Frame, Frames, Notes
    <3> HIDE DEF f
    <3>4. /\ Len(stack') = Len(stack) + 1 /\ stack'[1].to = e /\ Len(stack) \in Nat
          /\ \A i \in 2..(Len(stack) + 1) : stack'[i] = stack[i - 1]
      BY <3>2, <3>3, <1>2, PushTypes
    <3>5. ASSUME NEW j \in 1..Len(stack'), Pending(j, d)'
          PROVE  /\ j + -1 \in 1..Len(stack) /\ Pending(j + -1, d)
                 /\ stack'[j].message = stack[j + -1].message
      <4>1. j # 1
        BY <3>1, <3>4, <3>5, <1>7 DEF Pending
      <4>2. j - 1 \in 1..Len(stack) /\ stack'[j] = stack[j - 1] /\ j + -1 = j - 1
        BY <4>1, <3>4
      <4> QED
        BY <4>2, <3>5 DEF Pending
    <3>6. ASSUME NEW j \in 1..Len(stack), Pending(j, d)
          PROVE  /\ j - -1 \in 1..Len(stack') /\ Pending(j - -1, d)'
                 /\ stack'[j - -1].message = stack[j].message
      <4>1. j + 1 \in 2..(Len(stack) + 1) /\ (j + 1) - 1 = j /\ j - -1 = j + 1
        BY <3>4
      <4>2. stack'[j + 1] = stack[j]
        BY <4>1, <3>4
      <4> QED
        BY <4>1, <4>2, <3>4, <3>6 DEF Pending
    <3>7. Shift(d, -1) /\ -1 \in Int
      BY <3>5, <3>6 DEF Shift
    <3> QED
      BY <3>7, <2>1, <2>2, <1>2, <1>5, SameStreamed
  <2> QED
    BY <2>3, <2>4
<1>8. CASE connections[g.id] = d
  <2>1. Open(d) /\ conn[d].id = g.id
    BY <1>2, <1>8, EmbeddedAssumption DEF EmbeddedShape, Filed
  <2>2. conn[d].origin = g
    BY <2>1, <1>2, FoundByID
  <2>3. Takes(d, conn[d].origin) /\ sent'[conn[d].origin] = Append(sent[conn[d].origin], type)
    BY <1>1, <1>8, <2>2
  <2>4. conn'[d].heard = conn[d].heard /\ conn'[d].lost = conn[d].lost
    BY <2>3 DEF Takes
  <2>5. CASE conn[d].onmessage
    <3>1. conn[d].backlog = <<>> /\ Passed(d)
      BY <1>5, <2>5 DEF Streamed
    <3>2. type = "nested" \/ \A j \in 1..Len(stack) : ~Pending(j, d)
      BY <1>8 DEF Pending
    <3> DEFINE last == Len(sent[conn[d].origin]) + 1
               note == [from |-> conn[d].origin, n |-> last]
    <3>5. stack' = <<Frame(d, note, "listeners", conn[d].origin)>> \o stack
      BY <2>3, <2>5 DEF Takes
    <3>6. Frame(d, note, "listeners", conn[d].origin) \in Frames
      BY <1>3, <2>2 DEF Frame, Frames, Notes
    <3>7. /\ Len(stack') = Len(stack) + 1
          /\ stack'[1] = Frame(d, note, "listeners", conn[d].origin)
          /\ \A i \in 2..(Len(stack) + 1) : stack'[i] = stack[i - 1]
      BY <3>5, <3>6, <1>2, PushTypes
    <3>8. /\ Len(sent'[conn[d].origin]) = Len(sent[conn[d].origin]) + 1
          /\ sent'[conn[d].origin][Len(sent[conn[d].origin]) + 1] = type
          /\ \A n \in 1..Len(sent[conn[d].origin]) :
               sent'[conn[d].origin][n] = sent[conn[d].origin][n]
      BY <1>1, <1>2, <1>3, <2>2
    <3>3. Passed(d)'
      BY <3>1, <3>2, <3>7, <3>8, <2>1, <2>4, <2>5, <1>4, <1>6, PushedPassed
    <3>4. conn'[d].backlog = <<>>
      BY <3>1, <2>3, <2>5 DEF Takes
    <3> QED
      BY <3>3, <3>4, <1>4, <2>5, Zenon DEF Streamed
  <2>6. CASE ~conn[d].onmessage
    <3>1. conn[d].heard = <<>> /\ conn[d].lost = {} /\ InOrder(d, conn[d].backlog)
      BY <1>5, <2>6 DEF Streamed
    <3>2. conn'[d].backlog =
            Append(conn[d].backlog, [from |-> conn[d].origin, n |-> Len(sent[conn[d].origin]) + 1])
      BY <2>3, <2>6 DEF Takes
    <3>3. InOrder(d, conn[d].backlog)'
      BY <3>1, <3>2, <2>1, <2>3, <1>4, LongerInOrder
    <3> QED
      BY <3>1, <3>3, <2>4, <1>4, <2>6, Zenon DEF Streamed
  <2> QED
    BY <2>5, <2>6
<1> QED
  BY <1>7, <1>8

(* Callbacks change neither who is open nor what Go knows.                 *)
LEMMA SameConnsServed ==
  ASSUME Intact, SameConns,
         UNCHANGED <<handle, connections, clients, live, databases, broken>>,
         quit' = "inTime" => handle' = Nil
  PROVE  Served' /\ Kept'
<1>1. \A d \in Conns : /\ conn'[d].pc = conn[d].pc /\ conn'[d].id = conn[d].id
                       /\ conn'[d].origin = conn[d].origin
                       /\ (Open(d)' <=> Open(d))
  BY Zenon DEF SameConns, SameConn, Open
<1>2. Served'
  <2> SUFFICES ASSUME NEW d \in Conns, Open(d)'
               PROVE  /\ handle' # Nil
                      /\ conn'[d].origin = [handle |-> handle', id |-> conn'[d].id]
                      /\ connections'[conn'[d].id] = d
                      /\ conn'[d].origin \in clients'
    BY Zenon DEF Served
  <2>1. /\ handle # Nil /\ conn[d].origin = [handle |-> handle, id |-> conn[d].id]
        /\ connections[conn[d].id] = d /\ conn[d].origin \in clients
    BY <1>1 DEF Intact, Served
  <2> QED
    BY <1>1, <2>1
<1>3. Kept'
  <2>1. \A g \in clients : \E d \in Conns : Open(d) /\ conn[d].origin = g
    BY DEF Intact, Kept
  <2>2. \A g \in clients' : \E d \in Conns : Open(d)' /\ conn'[d].origin = g
    BY <1>1, <2>1, Zenon
  <2> QED
    BY <2>2 DEF Intact, Kept
<1> QED
  BY <1>2, <1>3

(* Nothing comes to d, but what is pending for it may have moved.          *)
Moved(d) ==
  /\ conn'[d].onmessage = conn[d].onmessage /\ conn'[d].backlog = conn[d].backlog
  /\ conn'[d].heard = conn[d].heard /\ conn[d].lost \subseteq conn'[d].lost
  /\ ~conn[d].onmessage => conn'[d].lost = conn[d].lost
  /\ \E s \in Int : Shift(d, s)

(* So its stream stays as it should be, if nothing is sent to it.          *)
LEMMA MovedStreamed ==
  ASSUME EmbeddedShape, Intact, NEW d \in Conns, conn'[d].pc = "open",
         conn'[d].pc = conn[d].pc, conn'[d].origin = conn[d].origin, Open(d)' => Open(d),
         sent'[conn[d].origin] = sent[conn[d].origin], stack' \in Seq(Frames), Moved(d)
  PROVE  Streamed(d)'
<1>1. Streamed(d) /\ SentOn(d)
  BY SentSame DEF Intact, Streams
<1>2. PICK s \in Int : Shift(d, s)
  BY DEF Moved
<1> QED
  BY <1>1, <1>2, SameStreamed DEF Moved

LEMMA MovedKeepsIntact ==
  ASSUME EmbeddedShape, Intact, SameConns,
         UNCHANGED <<handle, connections, clients, live, databases, broken, sent>>,
         quit' = "inTime" => handle' = Nil,
         stack' \in Seq(Frames), \A d \in Conns : Moved(d)
  PROVE  Intact'
<1>1. Served' /\ Kept'
  BY SameConnsServed
<1>2. Streams'
  <2> SUFFICES ASSUME NEW d \in Conns, conn'[d].pc = "open" PROVE Streamed(d)'
    BY Zenon DEF Streams
  <2>1. conn'[d].pc = conn[d].pc /\ conn'[d].origin = conn[d].origin /\ (Open(d)' => Open(d))
    BY Zenon DEF SameConns, SameConn, Open
  <2> QED
    BY <2>1, MovedStreamed
<1> QED
  BY <1>1, <1>2 DEF Intact

(* A step that sends and delivers nothing keeps it all.                    *)
LEMMA UnheardKeepsIntact ==
  ASSUME EmbeddedShape, Intact, SameConns, Unheard,
         UNCHANGED <<handle, connections, stack, clients, live, databases, broken, sent>>,
         quit' = "inTime" => handle' = Nil
  PROVE  Intact'
<1>1. stack' \in Seq(Frames) /\ \A d \in Conns : Shift(d, 0)
  BY StackSame
<1>2. \A d \in Conns : Moved(d)
  BY <1>1 DEF Moved, Unheard
<1> QED
  BY <1>1, <1>2, MovedKeepsIntact

(* Calls of handlers move on, return, or are dropped.                      *)
LEMMA CallListenersMoves ==
  ASSUME EmbeddedShape, CallListeners, NEW d \in Conns
  PROVE  Moved(d)
<1>1. /\ Unheard /\ Len(stack') = Len(stack) /\ stack[1].stage = "waiting"
      /\ stack'[1].stage = "listeners"
      /\ \A i \in 1..Len(stack) :
           /\ stack'[i].to = stack[i].to /\ stack'[i].message = stack[i].message
           /\ i # 1 => stack'[i] = stack[i]
  BY CallListenersTypes
<1>2. Len(stack) \in Nat
  BY DEF EmbeddedShape, Framed
<1>3. \A j \in 1..Len(stack) : /\ j + 0 = j /\ j - 0 = j
                               /\ (Pending(j, d)' <=> Pending(j, d))
  <2> SUFFICES ASSUME NEW j \in 1..Len(stack) PROVE Pending(j, d)' <=> Pending(j, d)
    BY <1>2
  <2>1. CASE j = 1
    BY <2>1, <1>1 DEF Pending
  <2>2. CASE j # 1
    BY <2>2, <1>1 DEF Pending
  <2> QED
    BY <2>1, <2>2
<1>4. Shift(d, 0)
  BY <1>1, <1>3 DEF Shift
<1> QED
  BY <1>1, <1>4 DEF Moved, Unheard

LEMMA HandlerReturnsMoves ==
  ASSUME EmbeddedShape, HandlerReturns, NEW d \in Conns
  PROVE  Moved(d)
<1>1. /\ conn' = conn /\ stack # <<>> /\ stack[1].stage = "onmessage"
      /\ Len(stack') = Len(stack) - 1
      /\ \A i \in 1..Len(stack') : stack'[i] = stack[i + 1]
  BY HandlerReturnsTypes
<1>2. Len(stack) \in Nat /\ Len(stack) >= 1
  BY <1>1, TopTypes
<1>3. ASSUME NEW j \in 1..Len(stack'), Pending(j, d)'
      PROVE  /\ j + 1 \in 1..Len(stack) /\ Pending(j + 1, d)
             /\ stack'[j].message = stack[j + 1].message
  BY <1>1, <1>2, <1>3 DEF Pending
<1>4. ASSUME NEW j \in 1..Len(stack), Pending(j, d)
      PROVE  /\ j - 1 \in 1..Len(stack') /\ Pending(j - 1, d)'
             /\ stack'[j - 1].message = stack[j].message
  <2>1. j # 1
    BY <1>1, <1>4 DEF Pending
  <2>2. j - 1 \in 1..Len(stack') /\ (j - 1) + 1 = j
    BY <2>1, <1>1, <1>2
  <2>3. stack'[j - 1] = stack[j]
    BY <2>2, <1>1
  <2> QED
    BY <2>2, <2>3, <1>4 DEF Pending
<1>5. Shift(d, 1)
  BY <1>3, <1>4 DEF Shift
<1> QED
  BY <1>1, <1>5 DEF Moved

LEMMA HandlerThrowsMoves ==
  ASSUME EmbeddedShape, HandlerThrows, NEW d \in Conns
  PROVE  Moved(d)
<1>1. /\ stack # <<>> /\ stack[1].stage = "onmessage"
      /\ conn'[d].onmessage = conn[d].onmessage /\ conn'[d].backlog = conn[d].backlog
      /\ conn'[d].heard = conn[d].heard
      /\ d # stack[1].to => conn'[d].lost = conn[d].lost
  BY HandlerThrowsTypes
<1>2. PICK last \in Nat : Thrown(last)
  BY HandlerThrowsTypes
<1>3. Len(stack) \in Nat /\ conn[stack[1].to].onmessage
  BY <1>1, TopTypes
<1>4. /\ last \in 1..Len(stack) /\ Len(stack') = Len(stack) - last
      /\ \A i \in 2..last : stack[i].to = stack[1].to
      /\ \A i \in 1..Len(stack') : stack'[i] = stack[i + last]
      /\ conn'[stack[1].to].lost =
           conn[stack[1].to].lost \union {stack[i].message.n : i \in 2..last}
  BY <1>2 DEF Thrown
<1>5. conn[d].lost \subseteq conn'[d].lost /\ (~conn[d].onmessage => conn'[d].lost = conn[d].lost)
  BY <1>1, <1>3, <1>4
<1>6. ASSUME NEW j \in 1..Len(stack'), Pending(j, d)'
      PROVE  /\ j + last \in 1..Len(stack) /\ Pending(j + last, d)
             /\ stack'[j].message = stack[j + last].message
  BY <1>3, <1>4, <1>6 DEF Pending
<1>7. ASSUME NEW j \in 1..Len(stack), Pending(j, d)
      PROVE  \/ stack[j].message.n \in conn'[d].lost
             \/ /\ j - last \in 1..Len(stack') /\ Pending(j - last, d)'
                /\ stack'[j - last].message = stack[j].message
  <2>1. j # 1
    BY <1>1, <1>7 DEF Pending
  <2>2. CASE j <= last
    <3>1. j \in 2..last
      BY <2>1, <2>2, <1>4
    <3>2. d = stack[1].to
      BY <3>1, <1>4, <1>7 DEF Pending
    <3> QED
      BY <3>1, <3>2, <1>4
  <2>3. CASE ~(j <= last)
    <3>1. j - last \in 1..Len(stack') /\ (j - last) + last = j
      BY <2>3, <1>3, <1>4
    <3>2. stack'[j - last] = stack[j]
      BY <3>1, <1>4
    <3> QED
      BY <3>1, <3>2, <1>7 DEF Pending
  <2> QED
    BY <2>2, <2>3
<1>8. Shift(d, last) /\ last \in Int
  BY <1>6, <1>7 DEF Shift
<1> QED
  BY <1>1, <1>5, <1>8 DEF Moved

(* What onmessage is called with was pending before all the rest.          *)
LEMMA HeardPassed ==
  ASSUME EmbeddedShape, CallOnmessage, sent' = sent,
         NEW c \in Conns, c = stack[1].to, Passed(c)
  PROVE  Passed(c)'
<1>1. /\ stack # <<>> /\ Len(stack') = Len(stack) /\ stack[1].stage = "listeners"
      /\ stack'[1].stage = "onmessage"
      /\ \A i \in 1..Len(stack) :
           /\ stack'[i].to = stack[i].to /\ stack'[i].message = stack[i].message
           /\ i # 1 => stack'[i] = stack[i]
      /\ conn'[stack[1].to].lost = conn[stack[1].to].lost
      /\ conn'[stack[1].to].heard = Append(conn[stack[1].to].heard, stack[1].message)
      /\ SameConns
  BY CallOnmessageTypes, TopTypes
<1>3. PICK m \in Notes : m = stack[1].message
  BY <1>1, TopTypes
<1>4. /\ Len(stack) \in Nat /\ Len(stack) >= 1 /\ conn[c] \in Connections
      /\ conn[c].heard \in Seq(Notes)
  BY <1>1, TopTypes DEF Connections
<1> DEFINE heard == conn[c].heard
<1>6. PICK h : h = Append(heard, m)
  OBVIOUS
<1>7. /\ Len(heard) \in Nat /\ Len(h) = Len(heard) + 1 /\ h[Len(heard) + 1] = m
      /\ \A i \in 1..Len(heard) : h[i] = heard[i]
  BY <1>4, <1>6
<1>8. conn'[c].heard = h /\ conn'[c].origin = conn[c].origin /\ (Open(c)' <=> Open(c))
  <2>1. conn'[c].heard = h
    BY <1>1, <1>3, <1>6
  <2> QED
    BY <2>1, <1>1, Zenon DEF SameConns, SameConn, Open
<1>9. /\ Due(c)' = Due(c) /\ \A n : Genuine(c, n)' <=> Genuine(c, n)
      /\ \A n, k : MayPrecede(c, n, k)' <=> MayPrecede(c, n, k)
  BY <1>8 DEF Due, Genuine, MayPrecede
<1>10. Pending(1, c)
  BY <1>1 DEF Pending
<1>11. ASSUME NEW j \in 1..Len(stack')
       PROVE  /\ j \in 1..Len(stack) /\ stack'[j].message = stack[j].message
              /\ Pending(j, c)' <=> j # 1 /\ Pending(j, c)
  <2>1. CASE j = 1
    BY <2>1, <1>1 DEF Pending
  <2>2. CASE j # 1
    BY <2>2, <1>1 DEF Pending
  <2> QED
    BY <2>1, <2>2, <1>1
<1>13. /\ \A i \in 1..Len(heard) : Genuine(c, heard[i])
       /\ \A j \in 1..Len(stack) : Pending(j, c) => Genuine(c, stack[j].message)
       /\ \A i, j \in 1..Len(heard) : i < j => MayPrecede(c, heard[i].n, heard[j].n)
       /\ \A i \in 1..Len(heard), j \in 1..Len(stack) :
            Pending(j, c) => MayPrecede(c, heard[i].n, stack[j].message.n)
       /\ \A i, j \in 1..Len(stack) :
            i < j /\ Pending(i, c) /\ Pending(j, c)
              => MayPrecede(c, stack[i].message.n, stack[j].message.n)
       /\ Open(c) => \A n \in Due(c) \ conn[c].lost :
            \/ \E i \in 1..Len(heard) : heard[i].n = n
            \/ \E j \in 1..Len(stack) : Pending(j, c) /\ stack[j].message.n = n
  BY DEF Passed
<1> HIDE DEF heard
<1>14. ASSUME NEW i \in 1..Len(h)
       PROVE  \/ i \in 1..Len(heard) /\ h[i] = heard[i]
              \/ i = Len(heard) + 1 /\ h[i] = m
  BY <1>7
<1>15. \A i \in 1..Len(h) : Genuine(c, h[i])
  <2>1. Genuine(c, m)
    BY <1>3, <1>4, <1>10, <1>13
  <2> QED
    BY <2>1, <1>13, <1>14
<1>16. \A j \in 1..Len(stack') : Pending(j, c)' => Genuine(c, stack'[j].message)
  BY <1>11, <1>13
<1>17. ASSUME NEW i \in 1..Len(h), NEW j \in 1..Len(h), i < j
       PROVE  MayPrecede(c, h[i].n, h[j].n)
  <2>1. i \in 1..Len(heard) /\ h[i] = heard[i]
    BY <1>7, <1>14, <1>17
  <2>2. CASE j \in 1..Len(heard) /\ h[j] = heard[j]
    BY <2>1, <2>2, <1>13, <1>17
  <2>3. CASE j = Len(heard) + 1 /\ h[j] = m
    BY <2>1, <2>3, <1>3, <1>4, <1>10, <1>13
  <2> QED
    BY <2>2, <2>3, <1>14
<1>18. ASSUME NEW i \in 1..Len(h), NEW j \in 1..Len(stack'), Pending(j, c)'
       PROVE  MayPrecede(c, h[i].n, stack'[j].message.n)
  <2>1. j \in 1..Len(stack) /\ Pending(j, c) /\ stack'[j].message = stack[j].message /\ 1 < j
    BY <1>11, <1>18, <1>4
  <2>2. CASE i \in 1..Len(heard) /\ h[i] = heard[i]
    BY <2>1, <2>2, <1>13
  <2>3. CASE i = Len(heard) + 1 /\ h[i] = m
    BY <2>1, <2>3, <1>3, <1>4, <1>10, <1>13
  <2> QED
    BY <2>2, <2>3, <1>14
<1>19. \A i, j \in 1..Len(stack') :
         i < j /\ Pending(i, c)' /\ Pending(j, c)'
           => MayPrecede(c, stack'[i].message.n, stack'[j].message.n)
  BY <1>11, <1>13
<1>20. ASSUME Open(c), NEW n \in Due(c) \ conn[c].lost
       PROVE  \/ \E i \in 1..Len(h) : h[i].n = n
              \/ \E j \in 1..Len(stack') : Pending(j, c)' /\ stack'[j].message.n = n
  <2>1. CASE \E i \in 1..Len(heard) : heard[i].n = n
    BY <2>1, <1>7
  <2>2. ASSUME NEW j \in 1..Len(stack), Pending(j, c), stack[j].message.n = n
        PROVE  \/ \E i \in 1..Len(h) : h[i].n = n
               \/ \E i \in 1..Len(stack') : Pending(i, c)' /\ stack'[i].message.n = n
    <3>1. CASE j = 1
      <4>1. Len(heard) + 1 \in 1..Len(h) /\ h[Len(heard) + 1].n = n
        BY <2>2, <3>1, <1>3, <1>7
      <4> QED
        BY <4>1
    <3>2. CASE j # 1
      <4>1. j \in 1..Len(stack')
        BY <1>1
      <4> QED
        BY <4>1, <2>2, <3>2, <1>11
    <3> QED
      BY <3>1, <3>2
  <2> QED
    BY <2>1, <2>2, <1>13, <1>20
<1>21. conn'[c].lost = conn[c].lost
  BY <1>1
<1> QED
  BY <1>8, <1>9, <1>15, <1>16, <1>17, <1>18, <1>19, <1>20, <1>21, Zenon DEF Passed

LEMMA CallOnmessageKeepsIntact ==
  ASSUME EmbeddedShape, Intact, CallOnmessage
  PROVE  Intact'
<1>1. /\ SameConns /\ Framed' /\ stack # <<>> /\ Len(stack') = Len(stack)
      /\ stack[1].stage = "listeners" /\ stack'[1].stage = "onmessage"
      /\ \A i \in 1..Len(stack) :
           /\ stack'[i].to = stack[i].to /\ stack'[i].message = stack[i].message
           /\ i # 1 => stack'[i] = stack[i]
      /\ \A d \in Conns : /\ conn'[d].onmessage = conn[d].onmessage
                          /\ conn'[d].backlog = conn[d].backlog
                          /\ conn'[d].lost = conn[d].lost
                          /\ d # stack[1].to => conn'[d].heard = conn[d].heard
  BY CallOnmessageTypes
<1>2. UNCHANGED <<handle, connections, clients, live, databases, broken, sent, quit>>
  BY DEF CallOnmessage, otherVars, native, stores, ownership
<1>3. quit' = "inTime" => handle' = Nil
  BY <1>2 DEF Intact, Kept
<1>4. Served' /\ Kept'
  BY <1>1, <1>2, <1>3, SameConnsServed
<1>5. Len(stack) \in Nat /\ conn[stack[1].to].onmessage
  BY <1>1, TopTypes
<1>6. Streams'
  <2> SUFFICES ASSUME NEW d \in Conns, conn'[d].pc = "open" PROVE Streamed(d)'
    BY Zenon DEF Streams
  <2>1. conn'[d].pc = conn[d].pc /\ conn'[d].origin = conn[d].origin /\ (Open(d)' => Open(d))
    BY <1>1, Zenon DEF SameConns, SameConn, Open
  <2>2. CASE d # stack[1].to
    <3>1. \A j \in 1..Len(stack) : /\ j + 0 = j /\ j - 0 = j
                                   /\ (Pending(j, d)' <=> Pending(j, d))
      <4> SUFFICES ASSUME NEW j \in 1..Len(stack) PROVE Pending(j, d)' <=> Pending(j, d)
        BY <1>5
      <4>1. CASE j = 1
        BY <4>1, <2>2, <1>1 DEF Pending
      <4>2. CASE j # 1
        BY <4>2, <1>1 DEF Pending
      <4> QED
        BY <4>1, <4>2
    <3>2. Shift(d, 0)
      BY <3>1, <1>1 DEF Shift
    <3>3. Moved(d)
      BY <3>2, <2>2, <1>1 DEF Moved
    <3> QED
      BY <3>3, <2>1, <1>1, <1>2, MovedStreamed DEF Framed
  <2>3. CASE d = stack[1].to
    <3>1. conn[d].backlog = <<>> /\ Passed(d)
      BY <2>1, <2>3, <1>5 DEF Intact, Streams, Streamed
    <3>2. Passed(d)'
      BY <3>1, <2>3, <1>2, HeardPassed
    <3>3. conn'[d].onmessage /\ conn'[d].backlog = <<>>
      BY <3>1, <2>3, <1>1, <1>5
    <3> QED
      BY <3>2, <3>3, Zenon DEF Streamed
  <2> QED
    BY <2>2, <2>3
<1> QED
  BY <1>4, <1>6 DEF Intact

LEMMA HandlerStepKeepsIntact ==
  ASSUME EmbeddedShape, Intact, HandlerStep
  PROVE  Intact'
<1>1. SameConns /\ Framed' /\ UNCHANGED otherVars
  BY HandlerStepTypes
<1>2. UNCHANGED <<handle, connections, clients, live, databases, broken, sent, quit>>
  BY <1>1 DEF otherVars, native, stores, ownership
<1>3. (quit' = "inTime" => handle' = Nil) /\ stack' \in Seq(Frames)
  BY <1>1, <1>2 DEF Intact, Kept, Framed
<1>4. ASSUME CallListeners \/ HandlerReturns \/ HandlerThrows PROVE Intact'
  <2>1. \A d \in Conns : Moved(d)
    BY <1>4, CallListenersMoves, HandlerReturnsMoves, HandlerThrowsMoves
  <2> QED
    BY <2>1, <1>1, <1>2, <1>3, MovedKeepsIntact
<1> QED
  BY <1>4, CallOnmessageKeepsIntact DEF HandlerStep

(* The backlog is pending in its order.                                    *)
LEMMA FlushedPassed ==
  ASSUME EmbeddedShape, NEW c \in Conns, SetOnMessage(c), Streamed(c)
  PROVE  Passed(c)'
<1>1. /\ SameConns /\ conn[c].backlog \in Seq(Notes) /\ conn[c].pc = "open"
      /\ ~conn[c].onmessage /\ conn'[c].heard = conn[c].heard /\ conn'[c].lost = conn[c].lost
      /\ Len(stack') = Len(conn[c].backlog) + Len(stack)
      /\ \A i \in 1..Len(conn[c].backlog) :
           stack'[i] = Frame(c, conn[c].backlog[i], "waiting", Nil)
      /\ \A i \in 1..Len(stack) : stack'[i + Len(conn[c].backlog)] = stack[i]
  BY SetOnMessageTypes
<1> DEFINE g == conn[c].origin
           b == conn[c].backlog
<1>2. conn[c].heard = <<>> /\ conn[c].lost = {} /\ InOrder(c, b)
  BY <1>1 DEF Streamed
<1>3. /\ Len(sent[g]) \in Nat /\ Len(b) \in Nat /\ Len(stack) \in Nat
      /\ \A i \in 1..Len(stack) : stack[i].to # c
  BY <1>1 DEF EmbeddedShape, Begun, Originates, Native, Framed
<1>4. sent' = sent
  BY DEF SetOnMessage, otherVars
<1>5. conn'[c].origin = g /\ (Open(c)' <=> Open(c))
  BY <1>1, Zenon DEF SameConns, SameConn, Open
<1>6. /\ Len(b) + 1 <= Len(sent[g]) /\ (Open(c) => Len(b) + 1 = Len(sent[g]))
      /\ \A i \in 1..Len(b) : b[i] = [from |-> g, n |-> i + 1]
  BY <1>2, Zenon DEF InOrder
<1> DEFINE n == Len(b)
<1>7. ASSUME NEW i \in 1..n
      PROVE  /\ i \in 1..Len(stack') /\ Pending(i, c)'
             /\ stack'[i].message.from = g /\ stack'[i].message.n = i + 1
  <2>1. i \in 1..Len(stack')
    BY <1>1, <1>3
  <2>2. stack'[i] = Frame(c, b[i], "waiting", Nil)
    BY <1>1
  <2>3. stack'[i].to = c /\ stack'[i].stage = "waiting" /\ stack'[i].message = b[i]
    BY <2>2 DEF Frame
  <2>4. Pending(i, c)'
    BY <2>3 DEF Pending
  <2>5. stack'[i].message.from = g /\ stack'[i].message.n = i + 1
    <3> HIDE DEF b, g
    <3>1. b[i] = [from |-> g, n |-> i + 1]
      BY <1>6
    <3> QED
      BY <2>3, <3>1
  <2> QED
    BY <2>1, <2>4, <2>5
<1>8. ASSUME NEW i \in 1..Len(stack'), Pending(i, c)' PROVE i \in 1..n
  <2> SUFFICES ASSUME i \notin 1..n PROVE FALSE
    OBVIOUS
  <2>1. i - n \in 1..Len(stack) /\ (i - n) + n = i
    BY <1>1, <1>3
  <2>2. stack'[i] = stack[i - n]
    BY <2>1, <1>1
  <2> QED
    BY <2>1, <2>2, <1>3, <1>8 DEF Pending
<1>9. conn'[c].heard = <<>> /\ Len(conn'[c].heard) = 0
  BY <1>1, <1>2
<1>10. Due(c)' = 2..Len(sent[g])
  BY <1>4, <1>5 DEF Due
<1> HIDE DEF n, g
<1>11. n \in Nat /\ n + 1 <= Len(sent[g]) /\ (Open(c) => n + 1 = Len(sent[g]))
  BY <1>3, <1>6 DEF n
<1>12. \A i \in 1..n : i + 1 \in 2..Len(sent[g])
  BY <1>11, <1>3
<1>13. ASSUME NEW j \in 1..Len(stack'), Pending(j, c)' PROVE Genuine(c, stack[j].message)'
  <2>1. stack'[j].message.from = g /\ stack'[j].message.n \in Due(c)'
    BY <1>7, <1>8, <1>10, <1>12, <1>13
  <2> QED
    BY <2>1, <1>5, Zenon DEF Genuine
<1>14. ASSUME NEW i \in 1..Len(stack'), NEW j \in 1..Len(stack'), i < j,
              Pending(i, c)', Pending(j, c)'
       PROVE  MayPrecede(c, stack[i].message.n, stack[j].message.n)'
  <2>1. stack'[i].message.n = i + 1 /\ stack'[j].message.n = j + 1 /\ i \in Nat /\ j \in Nat
    BY <1>7, <1>8, <1>11, <1>14
  <2>2. stack'[i].message.n # stack'[j].message.n /\ ~(stack'[i].message.n > stack'[j].message.n)
    BY <2>1, <1>14
  <2> QED
    BY <2>2 DEF MayPrecede
<1>15. ASSUME Open(c)', NEW k \in Due(c)'
       PROVE  \E j \in 1..Len(stack') : Pending(j, c)' /\ stack'[j].message.n = k
  <2>1. k - 1 \in 1..n /\ (k - 1) + 1 = k
    BY <1>5, <1>10, <1>11, <1>15, <1>3
  <2> QED
    BY <2>1, <1>7
<1>16. 1..Len(conn'[c].heard) = {}
  BY <1>9
<1> QED
  BY <1>13, <1>14, <1>15, <1>16, Zenon DEF Passed

LEMMA SetOnMessageKeepsIntact ==
  ASSUME EmbeddedShape, Intact, NEW c \in Conns, SetOnMessage(c)
  PROVE  Intact'
<1>1. /\ SameConns /\ Framed' /\ conn[c].backlog \in Seq(Notes) /\ conn[c].pc = "open"
      /\ conn'[c].onmessage /\ conn'[c].backlog = <<>>
      /\ \A d \in Conns : d # c => conn'[d] = conn[d]
      /\ Len(stack') = Len(conn[c].backlog) + Len(stack)
      /\ \A i \in 1..Len(conn[c].backlog) :
           stack'[i] = Frame(c, conn[c].backlog[i], "waiting", Nil)
      /\ \A i \in 1..Len(stack) : stack'[i + Len(conn[c].backlog)] = stack[i]
  BY SetOnMessageTypes
<1>2. UNCHANGED <<handle, connections, clients, live, databases, broken, sent, quit>>
  BY DEF SetOnMessage, otherVars, native, stores, ownership
<1>3. Served' /\ Kept'
  <2>1. quit' = "inTime" => handle' = Nil
    BY <1>2 DEF Intact, Kept
  <2> QED
    BY <2>1, <1>1, <1>2, SameConnsServed
<1>4. PICK n \in Nat : n = Len(conn[c].backlog)
  BY <1>1
<1>5. Len(stack) \in Nat
  BY DEF EmbeddedShape, Framed
<1>6. Streams'
  <2> SUFFICES ASSUME NEW d \in Conns, conn'[d].pc = "open" PROVE Streamed(d)'
    BY Zenon DEF Streams
  <2>1. conn'[d].pc = conn[d].pc /\ conn'[d].origin = conn[d].origin /\ (Open(d)' => Open(d))
    BY <1>1, Zenon DEF SameConns, SameConn, Open
  <2>2. CASE d # c
    <3>1. ASSUME NEW j \in 1..Len(stack'), Pending(j, d)'
          PROVE  /\ j + (0 - n) \in 1..Len(stack) /\ Pending(j + (0 - n), d)
                 /\ stack'[j].message = stack[j + (0 - n)].message
      <4>1. j \notin 1..n
        <5> SUFFICES ASSUME j \in 1..n PROVE FALSE
          OBVIOUS
        <5>1. stack'[j] = Frame(c, conn[c].backlog[j], "waiting", Nil)
          BY <1>1, <1>4
        <5> QED
          BY <5>1, <2>2, <3>1 DEF Pending, Frame
      <4>2. j - n \in 1..Len(stack) /\ (j - n) + n = j /\ j + (0 - n) = j - n
        BY <4>1, <1>1, <1>4, <1>5
      <4>3. stack'[j] = stack[j - n]
        BY <4>2, <1>1, <1>4
      <4> QED
        BY <4>2, <4>3, <3>1 DEF Pending
    <3>2. ASSUME NEW j \in 1..Len(stack), Pending(j, d)
          PROVE  /\ j - (0 - n) \in 1..Len(stack') /\ Pending(j - (0 - n), d)'
                 /\ stack'[j - (0 - n)].message = stack[j].message
      <4>1. j - (0 - n) = j + n /\ j + n \in 1..Len(stack')
        BY <1>1, <1>4, <1>5
      <4>2. stack'[j + n] = stack[j]
        BY <1>1, <1>4
      <4> QED
        BY <4>1, <4>2, <3>2 DEF Pending
    <3>3. Shift(d, 0 - n) /\ 0 - n \in Int
      BY <3>1, <3>2 DEF Shift
    <3>4. Moved(d)
      BY <3>3, <2>2, <1>1 DEF Moved
    <3> QED
      BY <3>4, <2>1, <1>1, <1>2, MovedStreamed DEF Framed
  <2>3. CASE d = c
    <3>1. Streamed(c)
      BY <1>1 DEF Intact, Streams
    <3>2. Passed(c)'
      BY <3>1, FlushedPassed
    <3> QED
      BY <3>2, <2>3, <1>1, Zenon DEF Streamed
  <2> QED
    BY <2>2, <2>3
<1> QED
  BY <1>3, <1>6 DEF Intact

(* The steps that leave everything filed where it is.                      *)
LEMMA StaysFiledKeepsIntact ==
  ASSUME EmbeddedShape, Intact, StaysFiled
  PROVE  Intact'
<1>1. CASE Abort
  <2>1. /\ conn' = conn
        /\ UNCHANGED <<handle, connections, stack, clients, live, databases, broken, sent, quit>>
    BY <1>1 DEF Abort, delivery, native, stores, ownership
  <2>2. quit' = "inTime" => handle' = Nil
    BY <2>1 DEF Intact, Kept
  <2> QED
    BY <2>1, <2>2, StillTypes, UnheardKeepsIntact
<1>2. ASSUME NEW c \in Conns, AttachAdapter(c) PROVE Intact'
  <2>1. UNCHANGED <<handle, connections, stack, clients, live, databases, broken, sent, quit>>
    BY <1>2 DEF AttachAdapter, otherVars, native, stores, ownership
  <2>2. quit' = "inTime" => handle' = Nil
    BY <2>1 DEF Intact, Kept
  <2> QED
    BY <1>2, <2>1, <2>2, AttachKeeps, UnheardKeepsIntact
<1>3. ASSUME NEW c \in Conns, SendSubscribe(c) PROVE Intact'
  <2>1. PICK g \in clients :
          /\ g \in GoClients /\ g.handle = handle /\ AnswerType(g) \in MessageTypes
          /\ UNCHANGED <<conn, stack, sent>> \/ CalledBack(g, AnswerType(g))
    BY <1>3, SendCases
  <2>2. UNCHANGED <<handle, connections, clients, live, databases, broken, quit>>
    BY <1>3, SendCases DEF stores
  <2>3. quit' = "inTime" => handle' = Nil
    BY <2>2 DEF Intact, Kept
  <2>4. CASE UNCHANGED <<conn, stack, sent>>
    BY <2>2, <2>3, <2>4, StillTypes, UnheardKeepsIntact
  <2>5. CASE CalledBack(g, AnswerType(g))
    <3>1. SameConns
      BY <2>1, <2>5, CalledBackTypes
    <3>2. \/ AnswerType(g) = "nested"
          \/ \A j \in 1..Len(stack) : stack[j].to # connections[g.id]
      <4>1. stack \in Seq(Frames)
        BY DEF EmbeddedShape, Framed
      <4>2. DOMAIN stack = 1..Len(stack)
        BY <4>1
      <4> QED
        BY <4>2 DEF AnswerType
    <3>3. Streams'
      BY <2>1, <2>5, <3>2, CalledBackKeepsStreams
    <3>4. Served' /\ Kept'
      BY <3>1, <2>2, <2>3, SameConnsServed
    <3> QED
      BY <3>3, <3>4 DEF Intact
  <2> QED
    BY <2>1, <2>4, <2>5
<1> QED
  BY <1>1, <1>2, <1>3, SetOnMessageKeepsIntact, HandlerStepKeepsIntact DEF StaysFiled

(* An event calls back clients of the handle in use, or nobody.            *)
LEMMA HubStepKeepsIntact ==
  ASSUME EmbeddedShape, Intact, HubStep
  PROVE  Intact'
<1>1. UNCHANGED <<handle, connections, clients, live, databases, broken, quit>>
  BY DEF HubStep, ChooseTargets, CallTarget, stores, ownership
<1>2. quit' = "inTime" => handle' = Nil
  BY <1>1 DEF Intact, Kept
<1>3. ASSUME conn' = conn, stack' = stack, sent' = sent PROVE Intact'
  BY <1>1, <1>2, <1>3, StillTypes, UnheardKeepsIntact
<1>4. ASSUME NEW h \in Handles, CallTarget(h) PROVE Intact'
  <2>1. PICK g \in targets[h] :
          IF h \in live THEN CalledBack(g, "event") ELSE UNCHANGED <<conn, stack, sent>>
    BY <1>4 DEF CallTarget, delivery
  <2>2. CASE h \in live
    <3>1. g \in GoClients /\ g.handle = h /\ "event" \in MessageTypes
      BY DEF EmbeddedShape, Native, Of, MessageTypes
    <3>2. h = handle
      BY <2>2 DEF Intact, Kept
    <3>3. SameConns
      BY <2>1, <2>2, <3>1, CalledBackTypes
    <3>4. 1..Len(stack) = {}
      BY <1>4 DEF CallTarget, Turn
    <3>5. Streams'
      BY <2>1, <2>2, <3>1, <3>2, <3>4, CalledBackKeepsStreams
    <3>6. Served' /\ Kept'
      BY <1>1, <1>2, <3>3, SameConnsServed
    <3> QED
      BY <3>5, <3>6 DEF Intact
  <2> QED
    BY <2>1, <2>2, <1>3
<1>5. ASSUME NEW h \in Handles, ChooseTargets(h) PROVE Intact'
  <2>1. conn' = conn /\ stack' = stack /\ sent' = sent
    BY <1>5 DEF ChooseTargets, delivery
  <2> QED
    BY <2>1, <1>3
<1> QED
  BY <1>4, <1>5 DEF HubStep

(* A call that does not get to a connection changes nothing of it.         *)
LEMMA WaitingKeepsIntact ==
  ASSUME EmbeddedShape, Intact, NEW c \in Conns,
         Start(c) \/ Invoke(c) \/ NotConnected(c)
  PROVE  Intact'
<1>1. /\ UNCHANGED <<handle, connections, stack, sent, clients, live, databases, broken, quit>>
      /\ conn[c].pc # "open"
  BY DEF Start, Invoke, NotConnected, otherVars, native, stores, ownership
<1>2. PICK p : p # "open" /\ conn' = [conn EXCEPT ![c].pc = p]
  BY DEF Start, Invoke, NotConnected
<1>3. /\ live' = {handle'} \ {Nil} /\ (quit' = "inTime" => handle' = Nil)
      /\ databases' = live' \union broken' /\ handle' \notin broken'
  BY <1>1 DEF Intact, Kept
<1> QED
  BY <1>1, <1>2, <1>3, CallsKeepIntact

(* A start that finds no handle makes the only one; one that breaks down   *)
(* leaves a database.                                                      *)
LEMMA StartNativeKeepsIntact ==
  ASSUME EmbeddedShape, Intact, NEW c \in Conns, StartNative(c), ~startsOverlapped'
  PROVE  Intact'
<1>1. UNCHANGED <<connections, stack, sent, clients>> /\ conn[c].pc # "open"
  BY StartNativeCases
<1>2. /\ startsOverlapped \in BOOLEAN /\ live = {handle} \ {Nil}
      /\ databases = live \union broken /\ handle \notin broken
      /\ (quit = "inTime" => handle = Nil) /\ made \subseteq Handles
      /\ databases \subseteq made /\ Nil \notin Handles
  BY EmbeddedAssumption DEF EmbeddedShape, Native, Filed, Intact, Kept
<1>3. ASSUME NEW h \in Handles \ made, Started(c, h) PROVE Intact'
  <2>1. /\ handle = Nil /\ handle' = h /\ live' = live \union {h}
        /\ databases' = databases \union {h} /\ broken' = broken
        /\ quit' # "inTime" /\ conn' = [conn EXCEPT ![c].pc = "connecting"]
    BY <1>2, <1>3 DEF Started
  <2>2. live' = {handle'} \ {Nil} /\ databases' = live' \union broken' /\ handle' \notin broken'
    BY <2>1, <1>2
  <2> QED
    BY <1>1, <2>1, <2>2, CallsKeepIntact
<1>4. ASSUME NEW h \in Handles \ made, BrokeDown(c, h) PROVE Intact'
  <2>1. /\ databases' = databases \union {h} /\ broken' = broken \union {h}
        /\ conn' = [conn EXCEPT ![c].pc = "failed"]
        /\ UNCHANGED <<live, handle, quit>>
    BY <1>4 DEF BrokeDown
  <2>2. handle # h
    <3>1. handle = Nil \/ handle \in live
      BY <1>2
    <3> QED
      BY <3>1, <1>2
  <2>3. live' = {handle'} \ {Nil} /\ databases' = live' \union broken' /\ handle' \notin broken'
    BY <2>1, <2>2, <1>2
  <2> QED
    BY <1>1, <1>2, <2>1, <2>3, CallsKeepIntact
<1>5. CASE /\ conn' = [conn EXCEPT ![c].pc = "failed"]
           /\ UNCHANGED <<made, databases, broken, live, handle, startsOverlapped, quit>>
  BY <1>1, <1>2, <1>5, CallsKeepIntact
<1> QED
  BY <1>3, <1>4, <1>5, StartNativeCases

(* The new client has an ID of its own, under which nobody is filed.       *)
LEMMA ConnectedKeepsIntact ==
  ASSUME EmbeddedShape, Intact, NEW c \in Conns, NEW g, Connected(c, g)
  PROVE  Intact'
<1>1. /\ g \in GoClients /\ handle \in Handles /\ lastID[handle] \in Nat
      /\ g.handle = handle /\ g.id = lastID[handle] + 1 /\ g.id \in IDs
      /\ conn'[c].pc = "open" /\ conn'[c].id = g.id /\ conn'[c].origin = g
      /\ conn'[c].closed = conn[c].closed /\ conn'[c].onmessage = conn[c].onmessage
      /\ conn'[c].backlog = conn[c].backlog /\ conn'[c].heard = conn[c].heard
      /\ conn'[c].lost = conn[c].lost /\ (connections[g.id] = Nil => stack' = stack)
      /\ \A d \in Conns \ {c} : connections[g.id] # d => conn'[d] = conn[d]
  BY ConnectedTypes
<1>2. /\ conn[c].pc # "open" /\ handle # Nil
      /\ clients' = clients \union {g}
      /\ sent' = [sent EXCEPT ![g] = <<"ready">>]
      /\ connections' = [connections EXCEPT ![g.id] = c]
      /\ UNCHANGED <<handle, live, databases, broken, quit>>
      /\ sent \in [GoClients -> Seq(MessageTypes)]
      /\ connections \in [IDs -> Conns \union {Nil}]
      /\ clients \subseteq GoClients
  BY DEF EmbeddedShape, Native, Filed, Connected, stores, ownership
<1>3. \A d \in Conns : Open(d) => conn[d].id # g.id
  <2> SUFFICES ASSUME NEW d \in Conns, Open(d), conn[d].id = g.id PROVE FALSE
    OBVIOUS
  <2>1. conn[d].id <= lastID[handle] /\ conn[d].id \in IDs
    BY FoundByID
  <2> QED
    BY <2>1, <1>1
<1>4. connections[g.id] = Nil
  BY <1>1, <1>2, <1>3 DEF EmbeddedShape, Filed
<1>5. \A d \in Conns \ {c} : conn'[d] = conn[d]
  BY <1>1, <1>4, EmbeddedAssumption
<1>6. Untouched(c)
  BY <1>2 DEF EmbeddedShape, Begun
<1>7. sent'[g] = <<"ready">> /\ \A x \in GoClients : x # g => sent'[x] = sent[x]
  BY <1>1, <1>2
<1>8. Streams'
  <2> SUFFICES ASSUME NEW d \in Conns, conn'[d].pc = "open" PROVE Streamed(d)'
    BY Zenon DEF Streams
  <2>1. CASE d = c
    <3>1. /\ ~conn'[c].onmessage /\ conn'[c].heard = <<>> /\ conn'[c].backlog = <<>>
          /\ conn'[c].lost = {}
      BY <1>1, <1>6, Zenon DEF Untouched
    <3>2. Len(<<>>) + 1 = Len(sent'[conn'[c].origin])
          /\ Len(<<>>) + 1 <= Len(sent'[conn'[c].origin])
          /\ \A i \in 1..Len(<<>>) : <<>>[i] = [from |-> conn'[c].origin, n |-> i + 1]
      BY <1>1, <1>7
    <3>3. InOrder(c, conn[c].backlog)'
      BY <3>1, <3>2, Zenon DEF InOrder
    <3> QED
      BY <2>1, <3>1, <3>3, Zenon DEF Streamed
  <2>2. CASE d # c
    <3>1. conn'[d] = conn[d] /\ conn[d].pc = "open"
      BY <2>2, <1>5
    <3>2. Originates(d)
      BY <3>1 DEF EmbeddedShape, Begun
    <3>3. conn[d].origin # g
      BY <3>2, <1>1 DEF Originates, GoClients, IDs
    <3>4. sent'[conn[d].origin] = sent[conn[d].origin]
      BY <3>2, <3>3, <1>7 DEF Originates
    <3>5. Open(d)' => Open(d)
      BY <3>1, Zenon DEF Open
    <3>6. stack' \in Seq(Frames) /\ Shift(d, 0)
      BY <1>1, <1>4, StackSame
    <3>7. Moved(d)
      BY <3>1, <3>6 DEF Moved
    <3> QED
      BY <3>1, <3>4, <3>5, <3>6, <3>7, MovedStreamed
  <2> QED
    BY <2>1, <2>2
<1>9. Served'
  <2> SUFFICES ASSUME NEW d \in Conns, Open(d)'
               PROVE  /\ handle' # Nil
                      /\ conn'[d].origin = [handle |-> handle', id |-> conn'[d].id]
                      /\ connections'[conn'[d].id] = d
                      /\ conn'[d].origin \in clients'
    BY Zenon DEF Served
  <2>1. CASE d = c
    BY <2>1, <1>1, <1>2 DEF GoClients
  <2>2. CASE d # c
    <3>1. conn'[d] = conn[d] /\ Open(d)
      BY <2>2, <1>5, Zenon DEF Open
    <3>2. /\ conn[d].id \in IDs /\ connections[conn[d].id] = d
          /\ conn[d].origin = [handle |-> handle, id |-> conn[d].id]
          /\ conn[d].origin \in clients
      BY <3>1, FoundByID
    <3>3. connections'[conn[d].id] = d
      BY <3>1, <3>2, <1>2, <1>3
    <3> QED
      BY <3>1, <3>2, <3>3, <1>2
  <2> QED
    BY <2>1, <2>2
<1>10. Kept'
  <2>1. \A d \in Conns : Open(d) => conn'[d] = conn[d]
    BY <1>2, <1>5 DEF Open
  <2>2. \A d \in Conns : Open(d) => Open(d)'
    BY <2>1, Zenon DEF Open
  <2>3. \A x \in clients : \E d \in Conns : Open(d) /\ conn[d].origin = x
    BY DEF Intact, Kept
  <2>4. Open(c)' /\ conn'[c].origin = g
    <3>1. ~conn[c].closed
      BY <1>6 DEF Untouched
    <3> QED
      BY <3>1, <1>1, Zenon DEF Open
  <2>5. \A x \in clients' : \E d \in Conns : Open(d)' /\ conn'[d].origin = x
    <3>1. \A x \in clients : \E d \in Conns : Open(d)' /\ conn'[d].origin = x
      BY <2>1, <2>2, <2>3, Zenon
    <3> QED
      BY <3>1, <2>4, <1>2
  <2> QED
    BY <2>5, <1>2 DEF Intact, Kept
<1> QED
  BY <1>8, <1>9, <1>10 DEF Intact

(* Closed connections keep what they got.                                  *)
LEMMA ClosingKeepsStreams ==
  ASSUME EmbeddedShape, Intact, NEW who, Closing(who)
  PROVE  /\ Streams' /\ \A d \in Conns : Open(d)' => Open(d) /\ d \notin who
         /\ \A d \in Conns : d \notin who /\ Open(d) => Open(d)'
<1>1. /\ \A d \in Conns : /\ conn'[d].pc = conn[d].pc /\ conn'[d].origin = conn[d].origin
                          /\ conn'[d].onmessage = conn[d].onmessage
                          /\ conn'[d].backlog = conn[d].backlog
                          /\ conn'[d].heard = conn[d].heard
                          /\ conn'[d].lost = conn[d].lost
      /\ \A d \in who : conn'[d].closed
      /\ \A d \in Conns : d \notin who => conn'[d] = conn[d]
  BY ClosingTypes
<1>2. \A d \in Conns : Open(d)' => Open(d) /\ d \notin who
  BY <1>1, Zenon DEF Open
<1>3. \A d \in Conns : d \notin who /\ Open(d) => Open(d)'
  BY <1>1, Zenon DEF Open
<1>4. Streams'
  <2> SUFFICES ASSUME NEW d \in Conns, conn'[d].pc = "open" PROVE Streamed(d)'
    BY Zenon DEF Streams
  <2>1. sent'[conn[d].origin] = sent[conn[d].origin] /\ stack' = stack
    BY DEF Closing
  <2>2. stack' \in Seq(Frames) /\ Shift(d, 0)
    BY <2>1, StackSame
  <2>3. Moved(d)
    BY <2>2, <1>1 DEF Moved
  <2> QED
    BY <2>1, <2>2, <2>3, <1>1, <1>2, MovedStreamed
<1> QED
  BY <1>2, <1>3, <1>4

(* The closed connection takes its own client with it, and no other.       *)
LEMMA CloseKeepsIntact ==
  ASSUME EmbeddedShape, Intact, NEW c \in Conns, Close(c)
  PROVE  Intact'
<1>1. Closing({c}) /\ Open(c)
  BY CloseCloses DEF Close
<1>2. /\ Streams' /\ \A d \in Conns : Open(d)' => Open(d) /\ d # c
      /\ \A d \in Conns : d # c /\ Open(d) => Open(d)'
  BY <1>1, ClosingKeepsStreams
<1>3. \A d \in Conns : conn'[d].id = conn[d].id /\ conn'[d].origin = conn[d].origin
  BY <1>1, ClosingTypes
<1>4. /\ handle # Nil /\ conn[c].id \in IDs /\ connections[conn[c].id] = c
      /\ conn[c].origin = [handle |-> handle, id |-> conn[c].id]
  BY <1>1, FoundByID
<1>5. /\ connections' = [connections EXCEPT ![conn[c].id] = Nil]
      /\ clients' = clients \ {conn[c].origin}
      /\ UNCHANGED <<handle, live, databases, broken, quit>>
      /\ connections \in [IDs -> Conns \union {Nil}]
  BY <1>4 DEF Close, stores, ownership, EmbeddedShape, Filed
<1>6. \A d \in Conns : Open(d) /\ d # c =>
        conn[d].id # conn[c].id /\ conn[d].origin # conn[c].origin
  <2> SUFFICES ASSUME NEW d \in Conns, Open(d), d # c
               PROVE  conn[d].id # conn[c].id /\ conn[d].origin # conn[c].origin
    OBVIOUS
  <2>1. connections[conn[d].id] = d /\ conn[d].origin = [handle |-> handle, id |-> conn[d].id]
    BY FoundByID
  <2>2. conn[d].id # conn[c].id
    BY <2>1, <1>4
  <2>3. conn[d].origin.id = conn[d].id /\ conn[c].origin.id = conn[c].id
    BY <2>1, <1>4
  <2> QED
    BY <2>2, <2>3
<1>7. Served'
  <2> SUFFICES ASSUME NEW d \in Conns, Open(d)'
               PROVE  /\ handle' # Nil
                      /\ conn'[d].origin = [handle |-> handle', id |-> conn'[d].id]
                      /\ connections'[conn'[d].id] = d
                      /\ conn'[d].origin \in clients'
    BY Zenon DEF Served
  <2>1. Open(d) /\ d # c
    BY <1>2
  <2>2. /\ conn[d].id \in IDs /\ connections[conn[d].id] = d
        /\ conn[d].origin = [handle |-> handle, id |-> conn[d].id]
        /\ conn[d].origin \in clients
    BY <2>1, FoundByID
  <2>3. conn[d].id # conn[c].id /\ conn[d].origin # conn[c].origin
    BY <2>1, <1>6
  <2>4. connections'[conn[d].id] = d
    BY <2>2, <2>3, <1>5
  <2> QED
    BY <2>2, <2>3, <2>4, <1>3, <1>4, <1>5
<1>8. Kept'
  <2>1. ASSUME NEW x \in clients' PROVE \E d \in Conns : Open(d)' /\ conn'[d].origin = x
    <3>1. x \in clients /\ x # conn[c].origin
      BY <1>5
    <3>2. PICK d \in Conns : Open(d) /\ conn[d].origin = x
      BY <3>1 DEF Intact, Kept
    <3>3. Open(d)' /\ conn'[d].origin = x
      BY <3>1, <3>2, <1>2, <1>3
    <3> QED
      BY <3>3
  <2> QED
    BY <2>1, <1>5 DEF Intact, Kept
<1> QED
  BY <1>2, <1>7, <1>8 DEF Intact

(* Nobody is left open, and no client is left.                             *)
LEMMA StopKeepsIntact ==
  ASSUME EmbeddedShape, Intact, StopStep
  PROVE  Intact'
<1>1. PICK first \in SUBSET Conns :
        (\A c \in first : Open(c)) /\ Stopped(first) /\ Closing(Dropped(first))
  BY StopStepCloses
<1>2. /\ Streams' /\ \A d \in Conns : Open(d)' => Open(d) /\ d \notin Dropped(first)
  BY <1>1, ClosingKeepsStreams
<1>3. \A d \in Conns : Open(d) => d \in Dropped(first)
  <2> SUFFICES ASSUME NEW d \in Conns, Open(d), d \notin first PROVE d \in Dropped(first)
    BY DEF Dropped
  <2>1. conn[d].id \in IDs /\ connections[conn[d].id] = d
    BY FoundByID
  <2>2. ASSUME NEW e \in first PROVE conn[e].id # conn[d].id
    <3>1. connections[conn[e].id] = e
      BY <1>1, FoundByID
    <3> QED
      BY <3>1, <2>1
  <2> QED
    BY <2>1, <2>2 DEF Dropped
<1>4. \A d \in Conns : ~Open(d)'
  BY <1>2, <1>3
<1>5. /\ clients' = clients \ Of(handle) /\ live' = live \ {handle} /\ handle' = Nil
      /\ databases' = databases \ {handle} /\ broken' = broken
  BY <1>1 DEF Stopped
<1>6. \A x \in clients : x \in Of(handle)
  <2> SUFFICES ASSUME NEW x \in clients PROVE x \in Of(handle)
    OBVIOUS
  <2>1. PICK d \in Conns : Open(d) /\ conn[d].origin = x
    BY DEF Intact, Kept
  <2>2. x = [handle |-> handle, id |-> conn[d].id]
    BY <2>1, FoundByID
  <2> QED
    BY <2>2 DEF Of, EmbeddedShape, Native
<1>7. clients' = {} /\ live' = {}
  BY <1>5, <1>6 DEF Intact, Kept
<1>10. databases' = broken' /\ Nil \notin broken'
  BY <1>5, EmbeddedAssumption DEF EmbeddedShape, Native, Intact, Kept
<1>8. Served'
  BY <1>4, Zenon DEF Served
<1>9. Kept'
  BY <1>5, <1>7, <1>10 DEF Kept
<1> QED
  BY <1>2, <1>8, <1>9 DEF Intact

(* Until two starts overlap, every step keeps it.                          *)
LEMMA EmbeddedWholeStep ==
  ASSUME EmbeddedShape, EmbeddedWhole, [EmbeddedNext]_embeddedVars
  PROVE  EmbeddedWhole'
<1> SUFFICES ASSUME ~startsOverlapped' PROVE Intact'
  BY DEF EmbeddedWhole
<1>1. ~startsOverlapped
  <2>1. ASSUME NEW c \in Conns, StartNative(c) PROVE ~startsOverlapped
    BY <2>1 DEF StartNative
  <2>2. ASSUME ~(\E c \in Conns : StartNative(c)) PROVE startsOverlapped' = startsOverlapped
    BY <2>2 DEF EmbeddedNext, embeddedVars, otherVars, Abort, Stop, Stopped, CloseAdapter,
                CallListeners, CallOnmessage, HandlerReturns, HandlerThrows, Start, Invoke,
                ConnectRealtime, AttachAdapter, SetOnMessage, SendSubscribe, Close,
                ChooseTargets, CallTarget
  <2> QED
    BY <2>1, <2>2
<1>2. Intact
  BY <1>1 DEF EmbeddedWhole
<1>3. CASE UNCHANGED embeddedVars
  <2>1. UNCHANGED <<handle, connections, conn, stack, live, databases, broken, clients, sent,
                    quit>>
    BY <1>3 DEF embeddedVars, native, stores, ownership
  <2>2. quit' = "inTime" => handle' = Nil
    BY <2>1, <1>2 DEF Intact, Kept
  <2> QED
    BY <1>2, <2>1, <2>2, StillTypes, UnheardKeepsIntact
<1>4. CASE LateClose
  <2>1. /\ UNCHANGED <<handle, connections, conn, stack, live, databases, broken, clients, sent>>
        /\ quit' = "late"
    BY <1>4 DEF LateClose, delivery, native, stores
  <2> QED
    BY <1>2, <2>1, StillTypes, UnheardKeepsIntact
<1>5. ASSUME StaysFiled \/ HubStep \/ StopStep PROVE Intact'
  BY <1>2, <1>5, StaysFiledKeepsIntact, HubStepKeepsIntact, StopKeepsIntact
<1>6. ASSUME NEW c \in Conns,
             \/ Start(c) \/ StartNative(c) \/ Invoke(c) \/ Close(c)
             \/ Connected(c, FreshClient(handle)) \/ NotConnected(c)
      PROVE  Intact'
  BY <1>2, <1>6, WaitingKeepsIntact, StartNativeKeepsIntact, CloseKeepsIntact,
     ConnectedKeepsIntact
<1> QED
  BY <1>3, <1>4, <1>5, <1>6, EmbeddedCases

(* The invariant of the specification, for any calls and handles.          *)
THEOREM EmbeddedInvariant == EmbeddedSpec => [](EmbeddedShape /\ EmbeddedWhole)
<1>1. EmbeddedInit => EmbeddedShape /\ EmbeddedWhole
  BY InitShapesEmbedded
<1>2. EmbeddedShape /\ EmbeddedWhole /\ [EmbeddedNext]_embeddedVars
        => (EmbeddedShape /\ EmbeddedWhole)'
  BY EmbeddedShapeStep, EmbeddedWholeStep
<1> QED
  BY <1>1, <1>2, PTL DEF EmbeddedSpec

(* A connection gets what Go sent to its own client after ready, in order  *)
(* and once, but for nested answers, and all but what a handler that threw *)
(* lost, unless two starts overlapped (runtime.ts:163-206, 287-304,        *)
(* 412-422).                                                               *)
THEOREM ConnectionsGetTheirStream == EmbeddedSpec => []OwnStream
<1>1. ASSUME EmbeddedShape, EmbeddedWhole PROVE OwnStream
  <2> SUFFICES ASSUME ~startsOverlapped, NEW c \in Conns, conn[c].pc = "open"
               PROVE  LET given == conn[c].heard \o conn[c].backlog
                      IN /\ \A i \in DOMAIN given : Genuine(c, given[i])
                         /\ \A i, j \in DOMAIN given :
                              i < j => MayPrecede(c, given[i].n, given[j].n)
                         /\ conn[c].onmessage => conn[c].backlog = <<>>
                         /\ Open(c) /\ Turn =>
                              \A n \in Due(c) \ conn[c].lost :
                                \E i \in DOMAIN given : given[i].n = n
    BY DEF OwnStream, Genuine
  <2> DEFINE g == conn[c].origin
  <2>1. Streamed(c) /\ Len(sent[g]) \in Nat
    BY <1>1 DEF EmbeddedShape, Begun, Originates, Native, EmbeddedWhole, Intact, Streams
  <2>2. conn[c].heard \in Seq(Notes) /\ conn[c].backlog \in Seq(Notes)
    BY <1>1 DEF EmbeddedShape, Filed, Connections
  <2>3. CASE conn[c].onmessage
    <3>1. conn[c].backlog = <<>> /\ Passed(c)
      BY <2>1, <2>3 DEF Streamed
    <3>2. PICK s : s = conn[c].heard
      OBVIOUS
    <3>3. conn[c].heard \o conn[c].backlog = s /\ DOMAIN s = 1..Len(s)
      BY <2>2, <3>1, <3>2
    <3>4. Turn => 1..Len(stack) = {}
      BY DEF Turn
    <3>5. /\ \A i \in 1..Len(s) : Genuine(c, s[i])
          /\ \A i, j \in 1..Len(s) : i < j => MayPrecede(c, s[i].n, s[j].n)
          /\ Open(c) /\ Turn =>
               \A n \in Due(c) \ conn[c].lost : \E i \in 1..Len(s) : s[i].n = n
      BY <3>1, <3>2, <3>4, Zenon DEF Passed
    <3> QED
      BY <3>1, <3>3, <3>5
  <2>4. CASE ~conn[c].onmessage
    <3>1. conn[c].heard = <<>> /\ conn[c].lost = {} /\ InOrder(c, conn[c].backlog)
      BY <2>1, <2>4 DEF Streamed
    <3>2. PICK s : s = conn[c].backlog
      OBVIOUS
    <3>3. conn[c].heard \o conn[c].backlog = s /\ DOMAIN s = 1..Len(s) /\ Len(s) \in Nat
      BY <2>2, <3>1, <3>2
    <3>4. /\ Len(s) + 1 <= Len(sent[g]) /\ (Open(c) => Len(s) + 1 = Len(sent[g]))
          /\ \A i \in 1..Len(s) : s[i] = [from |-> g, n |-> i + 1]
      BY <3>1, <3>2, Zenon DEF InOrder
    <3>5. Due(c) = 2..Len(sent[g])
      BY DEF Due
    <3> HIDE DEF g
    <3>6. \A i \in 1..Len(s) : s[i].from = g /\ s[i].n = i + 1 /\ s[i].n \in Due(c)
      <4> SUFFICES ASSUME NEW i \in 1..Len(s)
                   PROVE  s[i].from = g /\ s[i].n = i + 1 /\ s[i].n \in Due(c)
        OBVIOUS
      <4>1. s[i] = [from |-> g, n |-> i + 1]
        BY <3>4
      <4>2. i + 1 \in Due(c)
        BY <2>1, <3>3, <3>4, <3>5
      <4> QED
        BY <4>1, <4>2
    <3>7. \A i \in 1..Len(s) : Genuine(c, s[i])
      BY <3>6 DEF Genuine, g
    <3>8. ASSUME NEW i \in 1..Len(s), NEW j \in 1..Len(s), i < j
          PROVE  MayPrecede(c, s[i].n, s[j].n)
      <4>1. s[i].n = i + 1 /\ s[j].n = j + 1
        BY <3>6
      <4>2. s[i].n # s[j].n /\ ~(s[i].n > s[j].n)
        BY <3>3, <4>1, <3>8
      <4> QED
        BY <4>2 DEF MayPrecede
    <3>9. ASSUME Open(c), NEW n \in Due(c) PROVE \E i \in 1..Len(s) : s[i].n = n
      <4>1. n - 1 \in 1..Len(s) /\ (n - 1) + 1 = n
        BY <2>1, <3>3, <3>4, <3>5, <3>9
      <4> QED
        BY <4>1, <3>6
    <3> QED
      BY <3>3, <3>7, <3>8, <3>9, <2>4
  <2> QED
    BY <2>3, <2>4
<1> QED
  BY <1>1, EmbeddedInvariant, PTL

(* No handle but the one in use is alive, no Go client is without an open  *)
(* connection, no database is open but that handle's and those of starts   *)
(* that failed after opening one, which are all that an adapter closed in  *)
(* time leaves, unless two starts overlapped (runtime.ts:306-354,          *)
(* realtime.ts:128-135, gomuksruntime/runtime.go:83-152).                  *)
THEOREM NothingIsLeftBehind == EmbeddedSpec => []NothingLeft
<1>1. ASSUME EmbeddedShape, EmbeddedWhole PROVE NothingLeft
  <2> SUFFICES ASSUME ~startsOverlapped
               PROVE  /\ live = {handle} \ {Nil}
                      /\ databases = live \union broken
                      /\ clients = {conn[c].origin : c \in {d \in Conns : Open(d)}}
                      /\ quit = "inTime" => databases = broken
    BY DEF NothingLeft
  <2>1. Served /\ Kept
    BY <1>1 DEF EmbeddedWhole, Intact
  <2>2. clients = {conn[c].origin : c \in {d \in Conns : Open(d)}}
    <3>1. \A d \in Conns : Open(d) => conn[d].origin \in clients
      BY <2>1 DEF Served
    <3>2. \A x \in clients : \E d \in Conns : Open(d) /\ conn[d].origin = x
      BY <2>1 DEF Kept
    <3> QED
      BY <3>1, <3>2
  <2> QED
    BY <2>1, <2>2 DEF Kept
<1> QED
  BY <1>1, EmbeddedInvariant, PTL
===============================================================================

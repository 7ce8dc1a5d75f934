---------------------------- MODULE ServerRegistry ----------------------------
(***************************************************************************)
(* Servers as objects: constructor and destructor, the static registry and *)
(* its mutex, start() on the owner's thread or on the thread that          *)
(* startNonBlocking() detaches, and requestGlobalShutdown(), which holds   *)
(* the mutex while it waits for one server after the other.                *)
(*                                                                         *)
(* Each server has an owner, the thread that constructs, starts, stops and *)
(* destroys it, and a runner, the thread in its start().  When the owner   *)
(* calls start() itself the two are one thread: the owner is in "start"    *)
(* until the runner is back.  What start() does with clients, and the      *)
(* steps of shutdown() between its test and its wait, are in               *)
(* ServerLifecycle.tla.                                                    *)
(***************************************************************************)
EXTENDS Naturals, Sequences, FiniteSets, SequencesExt

CONSTANTS
  Servers,
  NoThread

Owner(s) == <<s, "owner">>
Runner(s) == <<s, "runner">>
Threads == Servers \X {"owner", "runner"}

ASSUME RegistryAssumption == IsFiniteSet(Servers) /\ NoThread \notin Threads

VARIABLES
  registry,                 \* the vector of constructed servers
  registryMutex,            \* the thread that holds it, or NoThread
  globalShutdownRequested,
  started, stopRequested, stopCompleted,
  handlers,                 \* whether signalHandlerOnce has been called
  opc,                      \* opc[s]: where the owner of s is
  rpc,                      \* rpc[s]: where start() of s is
  gpc,                      \* where the one call of requestGlobalShutdown is
  caller,                   \* the thread that made it, or was interrupted by it
  next,                     \* the place in the registry it has got to
  seen,                     \* history: the registry when that loop began
  closeWakesAccept          \* whether close() ends a blocked accept()

flags == <<started, stopRequested, stopCompleted>>
globalVars == <<globalShutdownRequested, handlers, gpc, caller, next, seen>>
vars == <<registry, registryMutex, flags, opc, rpc, globalVars, closeWakesAccept>>

-----------------------------------------------------------------------------

TypeOK ==
  /\ registry \in Seq(Servers) /\ IsInjective(registry)
  /\ registryMutex \in Threads \cup {NoThread}
  /\ globalShutdownRequested \in BOOLEAN /\ handlers \in BOOLEAN
  /\ started \in [Servers -> BOOLEAN]
  /\ stopRequested \in [Servers -> BOOLEAN]
  /\ stopCompleted \in [Servers -> BOOLEAN]
  /\ opc \in [Servers -> {"none", "constructing", "registered", "idle", "start", "shutdown",
                          "destroying", "erased", "gone"}]
  /\ rpc \in [Servers -> {"off", "open", "loop", "global", "accept", "self", "drain", "join",
                          "done"}]
  /\ gpc \in {"none", "lock", "loop", "wait", "done"}
  /\ caller \in Threads \cup {NoThread}
  /\ next \in 1 .. Len(registry) + 1
  /\ seen \in Seq(Servers)
  /\ closeWakesAccept \in BOOLEAN

Init ==
  /\ registry = <<>> /\ registryMutex = NoThread
  /\ globalShutdownRequested = FALSE /\ handlers = FALSE
  /\ started = [s \in Servers |-> FALSE]
  /\ stopRequested = [s \in Servers |-> FALSE]
  /\ stopCompleted = [s \in Servers |-> FALSE]
  /\ opc = [s \in Servers |-> "none"]
  /\ rpc = [s \in Servers |-> "off"]
  /\ gpc = "none" /\ caller = NoThread /\ next = 1 /\ seen = <<>>
  /\ closeWakesAccept \in BOOLEAN

\* A thread inside requestGlobalShutdown() does nothing else.
Struck(t) == caller = t /\ gpc # "done"

OwnerAt(s, at) == opc[s] = at /\ ~Struck(Owner(s))
OwnerGoes(s, at) == opc' = [opc EXCEPT ![s] = at]
RunnerAt(s, at) == rpc[s] = at /\ ~Struck(Runner(s))
RunnerGoes(s, at) == rpc' = [rpc EXCEPT ![s] = at]

Lock(t) == registryMutex = NoThread /\ registryMutex' = t
Unlock == registryMutex' = NoThread

-----------------------------------------------------------------------------
(* The owner.                                                              *)

Construct(s) ==
  /\ OwnerAt(s, "none")
  /\ OwnerGoes(s, "constructing")
  /\ UNCHANGED <<registry, registryMutex, flags, rpc, globalVars, closeWakesAccept>>

\* The constructor's lock_guard and push_back ...
Register(s) ==
  /\ OwnerAt(s, "constructing")
  /\ Lock(Owner(s))
  /\ registry' = Append(registry, s)
  /\ OwnerGoes(s, "registered")
  /\ UNCHANGED <<flags, rpc, globalVars, closeWakesAccept>>

\* ... and the end of its block.
Registered(s) ==
  /\ OwnerAt(s, "registered")
  /\ Unlock
  /\ OwnerGoes(s, "idle")
  /\ UNCHANGED <<registry, flags, rpc, globalVars, closeWakesAccept>>

\* start(), or startNonBlocking() with its detached thread: the first thing the
\* first of them does is to install the signal handlers.
Start(s) ==
  /\ OwnerAt(s, "idle") /\ ~started[s] /\ rpc[s] = "off"
  /\ OwnerGoes(s, "start") \/ OwnerGoes(s, "idle")
  /\ RunnerGoes(s, "open")
  /\ handlers' = TRUE
  /\ UNCHANGED <<registry, registryMutex, flags, globalShutdownRequested, gpc, caller, next,
                 seen, closeWakesAccept>>

StartReturns(s) ==
  /\ OwnerAt(s, "start") /\ rpc[s] \in {"off", "done"}
  /\ OwnerGoes(s, "idle")
  /\ UNCHANGED <<registry, registryMutex, flags, rpc, globalVars, closeWakesAccept>>

\* shutdown(), past its test.
StopServer(s) ==
  /\ started[s] /\ ~stopRequested[s]
  /\ stopRequested' = [stopRequested EXCEPT ![s] = TRUE]
  /\ UNCHANGED <<started, stopCompleted>>

Shutdown(s) ==
  /\ OwnerAt(s, "idle")
  /\ StopServer(s)
  /\ OwnerGoes(s, "shutdown")
  /\ UNCHANGED <<registry, registryMutex, rpc, globalVars, closeWakesAccept>>

ShutdownReturns(s) ==
  /\ OwnerAt(s, "shutdown") /\ stopCompleted[s]
  /\ OwnerGoes(s, "idle")
  /\ UNCHANGED <<registry, registryMutex, flags, rpc, globalVars, closeWakesAccept>>

\* A program destroys a server that does not run, as far as it can know: the
\* end of shutdown() is all it hears of a detached one.
Destroy(s) ==
  /\ OwnerAt(s, "idle")
  /\ rpc[s] \in {"off", "done"} \/ stopCompleted[s]
  /\ OwnerGoes(s, "destroying")
  /\ UNCHANGED <<registry, registryMutex, flags, rpc, globalVars, closeWakesAccept>>

\* std::erase(registry, this): the vector holds each server once, see TypeOK.
Without(s) == RemoveAt(registry, CHOOSE i \in DOMAIN registry : registry[i] = s)

\* A plausible slip: the destructor erases without the lock.
MutErase(s) ==
  /\ OwnerAt(s, "destroying")
  /\ registry' = Without(s)
  /\ OwnerGoes(s, "erased")
  /\ UNCHANGED <<registryMutex, flags, rpc, globalVars, closeWakesAccept>>

\* The destructor's lock_guard and std::erase ...
Erase(s) ==
  /\ OwnerAt(s, "destroying")
  /\ Lock(Owner(s))
  /\ registry' = Without(s)
  /\ OwnerGoes(s, "erased")
  /\ UNCHANGED <<flags, rpc, globalVars, closeWakesAccept>>

\* ... and the end of its block, after which the members go.
Erased(s) ==
  /\ OwnerAt(s, "erased")
  /\ Unlock
  /\ OwnerGoes(s, "gone")
  /\ UNCHANGED <<registry, flags, rpc, globalVars, closeWakesAccept>>

-----------------------------------------------------------------------------
(* The runner: start(), in outline.                                        *)

RunnerUnchanged == UNCHANGED <<registry, registryMutex, opc, globalVars, closeWakesAccept>>

\* A plausible slip: start() registers the server once more.
MutOpen(s) ==
  /\ RunnerAt(s, "open")
  /\ started' = [started EXCEPT ![s] = TRUE]
  /\ registry' = Append(registry, s)
  /\ RunnerGoes(s, "loop")
  /\ UNCHANGED <<registryMutex, stopRequested, stopCompleted, opc, globalVars,
                 closeWakesAccept>>

Open(s) ==
  /\ RunnerAt(s, "open")
  /\ started' = [started EXCEPT ![s] = TRUE]
  /\ RunnerGoes(s, "loop")
  /\ UNCHANGED <<stopRequested, stopCompleted>> /\ RunnerUnchanged

\* The port is taken, say: start() may be tried again.
OpenFails(s) ==
  /\ RunnerAt(s, "open")
  /\ RunnerGoes(s, "off")
  /\ UNCHANGED flags /\ RunnerUnchanged

LoopTest(s) ==
  /\ RunnerAt(s, "loop")
  /\ RunnerGoes(s, IF stopRequested[s] THEN "drain" ELSE "global")
  /\ UNCHANGED flags /\ RunnerUnchanged

\* A plausible slip: a loop that leaves global stops to the registry's loop.
MutGlobalTest(s) ==
  /\ RunnerAt(s, "global")
  /\ RunnerGoes(s, "accept") /\ UNCHANGED flags
  /\ RunnerUnchanged

\* With the flag set the runner calls shutdown() itself; if that passes its
\* test it waits for the flag that only this thread sets, at "self", for good.
GlobalTest(s) ==
  /\ RunnerAt(s, "global")
  /\ \/ ~globalShutdownRequested /\ RunnerGoes(s, "accept") /\ UNCHANGED flags
     \/ globalShutdownRequested /\ StopServer(s) /\ RunnerGoes(s, "self")
     \/ globalShutdownRequested /\ stopRequested[s] /\ RunnerGoes(s, "drain") /\ UNCHANGED flags
  /\ RunnerUnchanged

\* A client, or an error that passes.
AcceptReturns(s) ==
  /\ RunnerAt(s, "accept")
  /\ RunnerGoes(s, "loop")
  /\ UNCHANGED flags /\ RunnerUnchanged

AcceptWakes(s) ==
  /\ RunnerAt(s, "accept") /\ stopRequested[s] /\ closeWakesAccept
  /\ RunnerGoes(s, "drain")
  /\ UNCHANGED flags /\ RunnerUnchanged

\* A plausible slip: the end of the drain is not told to those who wait.
MutComplete(s) ==
  /\ RunnerAt(s, "drain")
  /\ RunnerGoes(s, "join")
  /\ UNCHANGED flags /\ RunnerUnchanged

Complete(s) ==
  /\ RunnerAt(s, "drain")
  /\ stopCompleted' = [stopCompleted EXCEPT ![s] = TRUE]
  /\ RunnerGoes(s, "join")
  /\ UNCHANGED <<started, stopRequested>> /\ RunnerUnchanged

PoolShutdown(s) ==
  /\ RunnerAt(s, "join")
  /\ RunnerGoes(s, "done")
  /\ UNCHANGED flags /\ RunnerUnchanged

-----------------------------------------------------------------------------
(* requestGlobalShutdown().                                                *)

\* Once the handlers are installed, and they stay so even if start() fails, a
\* signal strikes any thread wherever it is, a mutex in its hands or not.
SignalStrikes(t) ==
  /\ handlers
  /\ \E s \in Servers :
       \/ t = Owner(s) /\ opc[s] \notin {"none", "gone", "start"}
       \/ t = Runner(s) /\ rpc[s] \notin {"off", "done"}

\* The program calls it, or a signal handler does.  compare_exchange_strong
\* lets one call through.
RequestGlobalShutdown(t) ==
  /\ \/ \E s \in Servers : t = Owner(s) /\ opc[s] = "idle"
     \/ SignalStrikes(t)
  /\ ~globalShutdownRequested
  /\ globalShutdownRequested' = TRUE
  /\ gpc' = "lock" /\ caller' = t
  /\ UNCHANGED <<registry, registryMutex, flags, handlers, opc, rpc, next, seen,
                 closeWakesAccept>>

\* A thread struck with the mutex in its hands does not get it a second time.
GlobalLock ==
  /\ gpc = "lock"
  /\ Lock(caller)
  /\ seen' = registry
  /\ gpc' = "loop"
  /\ UNCHANGED <<registry, flags, handlers, opc, rpc, globalShutdownRequested, caller, next,
                 closeWakesAccept>>

\* server->shutdown() for the next server: it waits, or returns at once.
GlobalNext ==
  /\ gpc = "loop" /\ next <= Len(registry)
  /\ \/ StopServer(registry[next]) /\ gpc' = "wait" /\ UNCHANGED next
     \/ /\ ~started[registry[next]] \/ stopRequested[registry[next]]
        /\ next' = next + 1 /\ UNCHANGED <<flags, gpc>>
  /\ UNCHANGED <<registry, registryMutex, handlers, opc, rpc, globalShutdownRequested, caller,
                 seen, closeWakesAccept>>

GlobalWaited ==
  /\ gpc = "wait" /\ stopCompleted[registry[next]]
  /\ next' = next + 1 /\ gpc' = "loop"
  /\ UNCHANGED <<registry, registryMutex, flags, handlers, opc, rpc, globalShutdownRequested,
                 caller, seen, closeWakesAccept>>

GlobalReturns ==
  /\ gpc = "loop" /\ next > Len(registry)
  /\ Unlock
  /\ gpc' = "done" /\ next' = 1
  /\ UNCHANGED <<registry, flags, handlers, opc, rpc, globalShutdownRequested, caller, seen,
                 closeWakesAccept>>

-----------------------------------------------------------------------------

\* What an owner in the middle of a call goes on to do.
OwnerStep(s) ==
  \/ Register(s) \/ Registered(s) \/ StartReturns(s) \/ ShutdownReturns(s)
  \/ Erase(s) \/ Erased(s)

RunnerStep(s) ==
  \/ Open(s) \/ LoopTest(s) \/ GlobalTest(s) \/ AcceptWakes(s) \/ Complete(s)
  \/ PoolShutdown(s)

GlobalStep == GlobalLock \/ GlobalNext \/ GlobalWaited \/ GlobalReturns

Next ==
  \/ \E s \in Servers :
       \/ OwnerStep(s) \/ Construct(s) \/ Start(s) \/ Shutdown(s) \/ Destroy(s)
       \/ RunnerStep(s) \/ OpenFails(s) \/ AcceptReturns(s)
  \/ \E t \in Threads : RequestGlobalShutdown(t)
  \/ GlobalStep

\* Threads are scheduled and a mutex that stays free is granted.  Nobody has to
\* construct, start, stop or destroy a server, and no client has to come.
Fairness ==
  /\ \A s \in Servers : WF_vars(OwnerStep(s)) /\ WF_vars(RunnerStep(s))
  /\ WF_vars(GlobalStep)

Spec == Init /\ [][Next]_vars /\ Fairness

-----------------------------------------------------------------------------
(* Properties.                                                             *)

\* The loop over the registry, which runs on while it waits for whole drains,
\* never has the vector changed under it and meets only servers that are fully
\* constructed and not yet destroyed.
LoopMeetsTheLiving ==
  /\ gpc \in {"loop", "wait"} => registry = seen
  /\ \A i \in DOMAIN registry : opc[registry[i]] \notin {"none", "constructing", "gone"}

\* The ways in which server s keeps shutdown() waiting for ever: it waits for
\* itself, because it found the flag or because it was the thread struck, or
\* it sleeps in an accept() that close() does not wake.
Stuck(s) ==
  \/ rpc[s] = "self"
  \/ caller = Runner(s) /\ gpc = "wait" /\ registry[next] = s
  \/ rpc[s] = "accept" /\ ~closeWakesAccept

\* The global stop hangs: on a server that is stuck, or because the signal
\* struck a thread that holds the mutex, in a constructor or a destructor.
GlobalHangs ==
  \/ gpc = "wait" /\ Stuck(registry[next])
  \/ gpc = "lock" /\ registryMutex = caller

\* A global stop misses nobody: it reaches a server wherever its start() is
\* just then, before the loop over the registry or behind it, unless that loop
\* hangs.
GlobalStopReachesAll ==
  \A s \in Servers :
    globalShutdownRequested /\ started[s] ~> (stopRequested[s] \/ []GlobalHangs)

\* Constructing or destroying a server while others are being stopped is only
\* a matter of time, unless the global stop hangs.
RegistryOpens ==
  \A s \in Servers :
    opc[s] \in {"constructing", "destroying"} ~>
      (opc[s] \in {"idle", "gone"} \/ []GlobalHangs)

=============================================================================

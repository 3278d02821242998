----------------------------- MODULE ThreadPool -----------------------------
(***************************************************************************)
(* kitchen::ThreadPool: the pizzas accepted by a kitchen, the cooks that   *)
(* take them, and the destruction of the pool.                             *)
(*                                                                         *)
(* _queue and _running are only touched under _queueMutex, so every        *)
(* critical section is one action; a cook blocked in _conditionVariable is *)
(* a cook in state "waiting", and being notified (or waking spuriously)    *)
(* makes it "woken": it has to take the mutex again and re-test the while  *)
(* condition.  _load is atomic and changes outside the mutex.              *)
(*                                                                         *)
(* The destructor is the defaulted one: members die in reverse order of    *)
(* declaration, the condition variable, then the mutex, then the queue,    *)
(* and only then the Threads, whose destructors join.  What a cook meets   *)
(* when it locks a destroyed mutex is undefined; the outcomes modelled are *)
(* those of glibc, see DestroyMutex and CookAborts.                        *)
(***************************************************************************)
EXTENDS Naturals, Sequences, FiniteSets

CONSTANTS
    Cook,       \* the cooks of the pool, one thread each
    Pizza,      \* the pizzas that may be offered, each at most once
    NoPizza     \* what an idle cook holds

ASSUME CookAssumption == IsFiniteSet(Cook) /\ Cook # {}
ASSUME PizzaAssumption == NoPizza \notin Pizza

VARIABLES
    queue,      \* _queue
    load,       \* _load
    running,    \* _running
    phase,      \* where the owner is in the life of the pool
    cookPc,     \* where each cook is in workerLoop
    holding,    \* the local variable pizza of workerLoop
    mutexValid, \* FALSE once pthread_mutex_destroy has succeeded
    accepted,   \* history: pizzas for which addPizza returned true
    cooked,     \* history: pizzas whose cook has decremented _load
    quiet       \* history: stop() was called on a pool at rest

vars == <<queue, load, running, phase, cookPc, holding, mutexValid,
          accepted, cooked, quiet>>

Phase == {"built", "serving", "stopping", "stopped", "unlocked", "freed",
          "joined", "aborted"}
CookState == {"unborn", "loop", "waiting", "woken", "cooking", "gone"}

MaxCapacity == 2 * Cardinality(Cook)

Cooks(state) == {c \in Cook : cookPc[c] = state}

AtMutex == Cooks("loop") \cup Cooks("woken")

-----------------------------------------------------------------------------
Init ==
    /\ queue = <<>>
    /\ load = 0
    /\ running = FALSE
    /\ phase = "built"
    /\ cookPc = [c \in Cook |-> "unborn"]
    /\ holding = [c \in Cook |-> NoPizza]
    /\ mutexValid = TRUE
    /\ accepted = {}
    /\ cooked = {}
    /\ quiet = FALSE

(***************************************************************************)
(* The owner: the main thread of the kitchen.                              *)
(***************************************************************************)
Start ==
    /\ phase = "built"
    /\ phase' = "serving"
    /\ running' = TRUE
    /\ cookPc' = [c \in Cook |-> "loop"]
    /\ UNCHANGED <<queue, load, holding, mutexValid, accepted, cooked, quiet>>

\* Mutants: one pizza too many, and a pool that forgets the factor 2.
IsFullTooLate == load > MaxCapacity
IsFullTooEarly == load >= Cardinality(Cook)

IsFull == load >= MaxCapacity

\* Mutants: nobody is notified, or only of the first pizza of a queue.
NotifyNobody == UNCHANGED cookPc

NotifyOneWhenEmpty ==
    IF Cooks("waiting") = {} \/ queue # <<>>
    THEN UNCHANGED cookPc
    ELSE \E c \in Cooks("waiting") : cookPc' = [cookPc EXCEPT ![c] = "woken"]

\* pthread_cond_signal wakes one blocked cook, if there is one.
NotifyOne ==
    IF Cooks("waiting") = {}
    THEN UNCHANGED cookPc
    ELSE \E c \in Cooks("waiting") : cookPc' = [cookPc EXCEPT ![c] = "woken"]

\* Mutant: the push without ++_load.
AddPizzaUncounted(p) ==
    /\ phase = "serving"
    /\ p \notin accepted
    /\ ~IsFull
    /\ queue' = Append(queue, p)
    /\ accepted' = accepted \cup {p}
    /\ NotifyOne
    /\ UNCHANGED <<load, running, phase, holding, mutexValid, cooked, quiet>>

\* addPizza on a pool that is not full.  On a full pool addPizza returns
\* false and changes nothing.
AddPizza(p) ==
    /\ phase = "serving"
    /\ p \notin accepted
    /\ ~IsFull
    /\ queue' = Append(queue, p)
    /\ load' = load + 1
    /\ accepted' = accepted \cup {p}
    /\ NotifyOne
    /\ UNCHANGED <<running, phase, holding, mutexValid, cooked, quiet>>

\* No pizza in the pool and every cook inside _conditionVariable.wait.
AtRest ==
    /\ load = 0
    /\ \A c \in Cook : cookPc[c] \in {"waiting", "woken"}

\* stop() clears _running under the mutex ...
Stop ==
    /\ phase = "serving"
    /\ phase' = "stopping"
    /\ running' = FALSE
    /\ quiet' = AtRest
    /\ UNCHANGED <<queue, load, cookPc, holding, mutexValid, accepted, cooked>>

\* Mutant: stop() with notifyOne.
NotifyOnlyOne ==
    /\ phase = "stopping"
    /\ phase' = "stopped"
    /\ NotifyOne
    /\ UNCHANGED <<queue, load, running, holding, mutexValid, accepted,
                   cooked, quiet>>

\* ... and calls notifyAll after releasing it.
NotifyAll ==
    /\ phase = "stopping"
    /\ phase' = "stopped"
    /\ cookPc' = [c \in Cook |->
                     IF cookPc[c] = "waiting" THEN "woken" ELSE cookPc[c]]
    /\ UNCHANGED <<queue, load, running, holding, mutexValid, accepted,
                   cooked, quiet>>

\* Mutant: a mutex whose destruction never fails.
DestroyBusyMutex ==
    /\ phase = "stopped"
    /\ Cooks("waiting") = {}
    /\ phase' = "unlocked"
    /\ mutexValid' = FALSE
    /\ UNCHANGED <<queue, load, running, cookPc, holding, accepted, cooked,
                   quiet>>

\* ~ConditionVariable, then ~Mutex.  glibc's pthread_cond_destroy first
\* waits until no thread is blocked on the variable.  pthread_mutex_destroy
\* fails with EBUSY while __nusers is not 0, and a thread inside
\* pthread_cond_wait still counts as a user until it has locked and unlocked
\* the mutex again; ~Mutex ignores the result, and the mutex then goes on
\* working.  A cook at the top of its loop may or may not hold the mutex at
\* that instant.
DestroyMutex ==
    /\ phase = "stopped"
    /\ Cooks("waiting") = {}
    /\ phase' = "unlocked"
    /\ \E busy \in BOOLEAN :
          /\ Cooks("woken") # {} => busy
          /\ busy => AtMutex # {}
          /\ mutexValid' = busy
    /\ UNCHANGED <<queue, load, running, cookPc, holding, accepted, cooked,
                   quiet>>

\* ~queue frees the pizzas still queued; the memory is not cleared.
FreeQueue ==
    /\ phase = "unlocked"
    /\ phase' = "freed"
    /\ UNCHANGED <<queue, load, running, cookPc, holding, mutexValid,
                   accepted, cooked, quiet>>

\* ~vector<Thread>: pthread_join on every cook.
Join ==
    /\ phase = "freed"
    /\ Cooks("gone") = Cook
    /\ phase' = "joined"
    /\ UNCHANGED <<queue, load, running, cookPc, holding, mutexValid,
                   accepted, cooked, quiet>>

-----------------------------------------------------------------------------
(***************************************************************************)
(* A cook: workerLoop.                                                     *)
(***************************************************************************)
Enters(c) ==
    /\ phase # "aborted"
    /\ c \in AtMutex
    /\ mutexValid

CookWaits(c) ==
    /\ Enters(c)
    /\ queue = <<>> /\ running
    /\ cookPc' = [cookPc EXCEPT ![c] = "waiting"]
    /\ UNCHANGED <<queue, load, running, phase, holding, mutexValid,
                   accepted, cooked, quiet>>

\* Mutant: front() without pop().
CookPeeks(c) ==
    /\ Enters(c)
    /\ queue # <<>>
    /\ holding' = [holding EXCEPT ![c] = Head(queue)]
    /\ cookPc' = [cookPc EXCEPT ![c] = "cooking"]
    /\ UNCHANGED <<queue, load, running, phase, mutexValid, accepted, cooked,
                   quiet>>

CookTakes(c) ==
    /\ Enters(c)
    /\ queue # <<>>
    /\ holding' = [holding EXCEPT ![c] = Head(queue)]
    /\ queue' = Tail(queue)
    /\ cookPc' = [cookPc EXCEPT ![c] = "cooking"]
    /\ UNCHANGED <<load, running, phase, mutexValid, accepted, cooked, quiet>>

CookLeaves(c) ==
    /\ Enters(c)
    /\ ~running /\ queue = <<>>
    /\ cookPc' = [cookPc EXCEPT ![c] = "gone"]
    /\ UNCHANGED <<queue, load, running, phase, holding, mutexValid,
                   accepted, cooked, quiet>>

\* cookPizza has returned: --_load, outside the mutex.
CookFinishes(c) ==
    /\ phase # "aborted"
    /\ cookPc[c] = "cooking"
    /\ load' = load - 1
    /\ cookPc' = [cookPc EXCEPT ![c] = "loop"]
    /\ holding' = [holding EXCEPT ![c] = NoPizza]
    /\ cooked' = cooked \cup {holding[c]}
    /\ UNCHANGED <<queue, running, phase, mutexValid, accepted, quiet>>

\* Locking a destroyed mutex returns EINVAL: Mutex::lock (or
\* ConditionVariable::wait) throws and Thread::entryPoint terminates the
\* process.  With a mutex that survived, a cook that finds freed pizzas in
\* the queue reads freed memory: it may crash, or find it intact (CookTakes).
CookAborts(c) ==
    /\ phase # "aborted"
    /\ c \in AtMutex
    /\ ~mutexValid \/ (phase = "freed" /\ queue # <<>>)
    /\ phase' = "aborted"
    /\ UNCHANGED <<queue, load, running, cookPc, holding, mutexValid,
                   accepted, cooked, quiet>>

\* POSIX lets a condition wait return without a signal.
SpuriousWakeup(c) ==
    /\ phase # "aborted"
    /\ cookPc[c] = "waiting"
    /\ cookPc' = [cookPc EXCEPT ![c] = "woken"]
    /\ UNCHANGED <<queue, load, running, phase, holding, mutexValid,
                   accepted, cooked, quiet>>

CookStep(c) ==
    \/ CookWaits(c)
    \/ CookTakes(c)
    \/ CookLeaves(c)
    \/ CookFinishes(c)
    \/ CookAborts(c)

Destruction == NotifyAll \/ DestroyMutex \/ FreeQueue \/ Join

Terminated == phase \in {"joined", "aborted"} /\ UNCHANGED vars

Next ==
    \/ Start
    \/ \E p \in Pizza : AddPizza(p)
    \/ Stop
    \/ Destruction
    \/ \E c \in Cook : CookStep(c) \/ SpuriousWakeup(c)
    \/ Terminated

\* Cooks are threads that are never blocked for ever by the scheduler, and
\* the owner, once in stop(), runs on to the end of the destructor.
\* Nothing forces the owner to offer pizzas or to stop.
Fairness ==
    /\ WF_vars(Start)
    /\ WF_vars(Destruction)
    /\ \A c \in Cook : WF_vars(CookStep(c))

Spec == Init /\ [][Next]_vars /\ Fairness

-----------------------------------------------------------------------------
TypeOK ==
    /\ queue \in Seq(Pizza)
    /\ load \in Nat
    /\ running \in BOOLEAN
    /\ phase \in Phase
    /\ cookPc \in [Cook -> CookState]
    /\ holding \in [Cook -> Pizza \cup {NoPizza}]
    /\ mutexValid \in BOOLEAN
    /\ accepted \subseteq Pizza
    /\ cooked \subseteq Pizza
    /\ quiet \in BOOLEAN

\* _load, which addPizza tests and isIdle reads, is the number of pizzas
\* queued or in a cook's hands; decrementing it outside the mutex never
\* makes it wrong, and it never wraps below 0.
LoadIsExact == load = Len(queue) + Cardinality(Cooks("cooking"))

\* A kitchen never holds more than 2 x N pizzas, cooking or waiting
\* (the test in addPizza, made before the push under the same lock).
CapacityRespected == load <= MaxCapacity

\* Every accepted pizza is in exactly one place: once in the queue, with one
\* cook, or cooked.  No pizza is lost or cooked twice by two cooks that wake
\* for the same notification.
EachPizzaInOnePlace ==
    /\ \A i, j \in DOMAIN queue : queue[i] = queue[j] => i = j
    /\ \A c, d \in Cook :
          holding[c] = holding[d] /\ holding[c] # NoPizza => c = d
    /\ \A i \in DOMAIN queue :
          queue[i] \notin cooked /\ \A c \in Cook : holding[c] # queue[i]
    /\ \A c \in Cook : holding[c] \notin cooked
    /\ accepted = cooked \cup {queue[i] : i \in DOMAIN queue}
                    \cup ({holding[c] : c \in Cook} \ {NoPizza})

\* No wakeup is lost: as long as a cook sleeps in the condition variable,
\* every queued pizza has a cook of its own that is awake and on its way to
\* the mutex.  One notifyOne per push is therefore enough.
NoWakeupLost ==
    Cooks("waiting") # {} => Len(queue) <= Cardinality(AtMutex)

\* stop() lets the cooks drain the queue: once all of them are joined, every
\* accepted pizza has been cooked.
JoinedAfterDrain ==
    phase = "joined" => queue = <<>> /\ load = 0 /\ cooked = accepted

\* Destroying the mutex and the queue before the cooks are joined is harmless
\* when stop() is called on a pool at rest: no cook then meets a destroyed
\* mutex or a freed queue, however its wakeup is scheduled.
QuietStopIsSafe == quiet => phase # "aborted"

\* Every accepted pizza is cooked in the end, unless the process dies in the
\* destructor.
EveryPizzaCooked ==
    \A p \in Pizza : p \in accepted ~> (p \in cooked \/ phase = "aborted")

\* A stopped pool is always joined (or dead): no cook sleeps through stop().
StopTerminates == phase = "stopping" ~> phase \in {"joined", "aborted"}
=============================================================================

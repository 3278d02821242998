---------------------------- MODULE QueueLifetime ----------------------------
(***************************************************************************)
(* The message queues and their anchor files over several runs of the      *)
(* program in one directory: who creates, opens and removes them when a    *)
(* reception is killed, a kitchen outlives it, a queue or a process cannot *)
(* be had, or an exception leaves a kitchen's routine.                     *)
(*                                                                         *)
(* The kernel knows a queue by the key that ftok makes of the anchor       *)
(* file's inode; Create removes what it finds under the key, Open takes    *)
(* it.  Of what the queues carry only the two Shutdowns are kept.  A run   *)
(* starts after the reception of the one before is gone; that reception's  *)
(* kitchens may not be.                                                    *)
(***************************************************************************)
EXTENDS Naturals, Sequences, FiniteSets, FiniteSetsExt

CONSTANTS
    None,
    MaxRuns,      \* bound: runs of the program
    MaxKitchens,  \* bound: kitchens opened in one run
    MaxProcesses, \* bound: kitchens opened in all runs
    MaxInodes,    \* bound: inodes of the file system
    MaxFaults     \* bound: receptions killed and system calls that fail

Run == 1 .. MaxRuns
Id == 0 .. MaxKitchens - 1
Inode == 1 .. MaxInodes
Path == {"order", "result"} \X Id
Queue == Run \X Path        \* a run creates each path at most once

ASSUME QueueAssumption ==
    /\ MaxRuns \in Nat /\ MaxKitchens \in Nat /\ MaxProcesses \in Nat
    /\ MaxFaults \in Nat /\ MaxInodes \in Nat /\ MaxInodes > 2 * MaxKitchens
    /\ None \notin Inode \cup Id \cup Queue

VARIABLES
    anchor,     \* the inode of the file at each path
    kernel,     \* the queue under each key
    mail,       \* queues that hold a Shutdown
    run,        \* the number of the run
    pc,         \* where its reception is
    key,        \* the key under which it creates a queue next
    next,       \* nextKitchenId_
    closing,    \* the kitchen whose farewell was read
    roster,     \* the handles in kitchens_
    visit,      \* those that shutdown has still to command
    kitchen,    \* the processes
    kills, failures,
    calm        \* history: no process of an earlier run was alive when this
                \* one began, and no call has failed in its kitchens

kernelVars == <<anchor, kernel, mail>>
receptionVars == <<run, pc, key, next, closing, roster, visit>>
faultVars == <<kills, failures, calm>>
vars == <<kernelVars, receptionVars, kitchen, faultVars>>

Handles(ids) == {"order", "result"} \X ids
OrderQueue(r, k) == <<r, <<"order", k>>>>
ResultQueue(r, k) == <<r, <<"result", k>>>>

Exists(q) == \E i \in Inode : kernel[i] = q

\* The process of a kitchen: the queues it has opened, the handles of its
\* siblings that the fork has copied, and those it has still to command.
Process(at, handles) ==
    [at |-> at, orders |-> None, results |-> None, handles |-> handles, left |-> {}]

Ended(r, k) == kitchen[<<r, k>>].at \in {"exited", "crashed", "aborted"}

\* A stuck process waits in pthread_cond_destroy for its cooks, for ever.
Gone(r, k) == Ended(r, k) \/ kitchen[<<r, k>>].at \in {"none", "stuck"}

\* The reception of run r is no more.
Over(r) == r < run \/ (r = run /\ pc \in {"ended", "aborted", "killed"})

QueueInit ==
    /\ anchor = [path \in Path |-> None]
    /\ kernel = [i \in Inode |-> None]
    /\ mail = {}
    /\ run = 0 /\ pc = "ended" /\ key = None /\ next = 0 /\ closing = None
    /\ roster = {} /\ visit = {}
    /\ kitchen = [p \in Run \X Id |-> Process("none", {})]
    /\ kills = 0 /\ failures = 0 /\ calm = TRUE

-----------------------------------------------------------------------------
(* MessageQueue.                                                           *)

\* The destructors of owners: the queue goes by its number, the file by its
\* name, whoever has put it there.
Drop(r, paths) ==
    /\ kernel' = [i \in Inode |-> IF kernel[i] \in {r} \X paths THEN None ELSE kernel[i]]
    /\ mail' = mail \ ({r} \X paths)
    /\ anchor' = [path \in Path |-> IF path \in paths THEN None ELSE anchor[path]]

\* What Open finds.
Found(path) == IF anchor[path] = None THEN None ELSE kernel[anchor[path]]

\* The inode of the file at a path: a new file takes a free one, which may be
\* the key of a queue that has lost its own file.
InodeFor(path) ==
    LET free == {i \in Inode : \A p \in Path : anchor[p] # i}
        fresh == {i \in free : kernel[i] = None}
    IN  IF anchor[path] # None THEN {anchor[path]}
        ELSE {i \in free : kernel[i] # None \/ i = Min(fresh)}

Creating == <<IF pc = "createOrder" THEN "order" ELSE "result", next>>

\* Create: the anchor and its key.  (A file that is unlinked between the two
\* calls makes ftok fail: SpawnFails.)
MakeAnchor ==
    /\ pc \in {"createOrder", "createResult"} /\ key = None
    /\ key' \in InodeFor(Creating)
    /\ anchor' = [anchor EXCEPT ![Creating] = key']
    /\ UNCHANGED <<kernel, mail, run, pc, next, closing, roster, visit, kitchen, faultVars>>

\* Mutant: what is under the key is taken for the new queue.
AdoptQueue ==
    /\ key # None /\ kernel[key] # None
    /\ key' = None
    /\ pc' = IF pc = "createOrder" THEN "createResult" ELSE "fork"
    /\ UNCHANGED <<kernelVars, run, next, closing, roster, visit, kitchen, faultVars>>

\* openQueue removes what it finds under the key ...
ClearKey ==
    /\ key # None /\ kernel[key] # None
    /\ kernel' = [kernel EXCEPT ![key] = None]
    /\ mail' = mail \ {kernel[key]}
    /\ UNCHANGED <<anchor, receptionVars, kitchen, faultVars>>

\* ... and makes the queue: IPC_CREAT | IPC_EXCL.
MakeQueue ==
    /\ key # None /\ kernel[key] = None
    /\ kernel' = [kernel EXCEPT ![key] = <<run, Creating>>]
    /\ key' = None
    /\ pc' = IF pc = "createOrder" THEN "createResult" ELSE "fork"
    /\ UNCHANGED <<anchor, mail, run, next, closing, roster, visit, kitchen, faultVars>>

-----------------------------------------------------------------------------
(* The reception: main and the LoadBalancer.                               *)
Start ==
    /\ Over(run) /\ run < MaxRuns
    /\ run' = run + 1
    /\ pc' = "select" /\ key' = None /\ next' = 0 /\ closing' = None
    /\ roster' = {} /\ visit' = {}
    /\ calm' = \A r \in Run, k \in Id : Gone(r, k)
    /\ UNCHANGED <<kernelVars, kitchen, kills, failures>>

\* dispatch finds no room: spawnKitchen.
OpenKitchen ==
    /\ pc = "select" /\ next \in Id
    /\ Cardinality({p \in Run \X Id : kitchen[p].at # "none"}) < MaxProcesses
    /\ pc' = "createOrder"
    /\ UNCHANGED <<kernelVars, run, key, next, closing, roster, visit, kitchen, faultVars>>

\* The child has a copy of everything: of the new handle and of kitchens_.
Fork ==
    /\ pc = "fork"
    /\ kitchen' = [kitchen EXCEPT ![<<run, next>>] = Process("forked", roster)]
    /\ roster' = roster \cup {next}
    /\ next' = next + 1
    /\ pc' = "select"
    /\ UNCHANGED <<kernelVars, run, key, closing, visit, faultVars>>

BeginShutdown ==
    /\ pc' = "shutdown" /\ key' = None
    /\ visit' = roster

\* Mutant: a failed spawn leaves its queues alone.
SpawnLeaks ==
    /\ pc \in {"createOrder", "createResult", "fork"}
    /\ kills + failures < MaxFaults
    /\ failures' = failures + 1
    /\ BeginShutdown
    /\ UNCHANGED <<kernelVars, run, next, closing, roster, kitchen, kills, calm>>

\* fopen, msgget or fork fails: the queues that spawnKitchen has made are
\* destroyed (the file of one that it could not make is not), and main leaves
\* its try block through ~LoadBalancer.
SpawnFails ==
    /\ pc \in {"createOrder", "createResult", "fork"}
    /\ kills + failures < MaxFaults
    /\ failures' = failures + 1
    /\ Drop(run, CASE pc = "createOrder" -> {}
                   [] pc = "createResult" -> {<<"order", next>>}
                   [] pc = "fork" -> Handles({next}))
    /\ BeginShutdown
    /\ UNCHANGED <<run, next, closing, roster, kitchen, kills, calm>>

\* A poll or a dispatch meets a queue that is no more: the same way out.
MeetsRemovedQueue ==
    /\ pc = "select"
    /\ \E k \in roster : ~Exists(OrderQueue(run, k)) \/ ~Exists(ResultQueue(run, k))
    /\ BeginShutdown
    /\ UNCHANGED <<kernelVars, run, next, closing, roster, kitchen, faultVars>>

ReadFarewell ==
    /\ pc = "select"
    /\ \E k \in roster :
        /\ ResultQueue(run, k) \in mail
        /\ mail' = mail \ {ResultQueue(run, k)}
        /\ closing' = k
    /\ pc' = "reap"
    /\ UNCHANGED <<anchor, kernel, run, key, next, roster, visit, kitchen, faultVars>>

\* Process::wait, and the end of updateKitchens destroys the handle.
Reap ==
    /\ pc = "reap" /\ Ended(run, closing)
    /\ Drop(run, Handles({closing}))
    /\ roster' = roster \ {closing}
    /\ closing' = None
    /\ pc' = "select"
    /\ UNCHANGED <<run, key, next, visit, kitchen, faultVars>>

EndOfInput ==
    /\ pc = "select"
    /\ BeginShutdown
    /\ UNCHANGED <<kernelVars, run, next, closing, roster, kitchen, faultVars>>

Command ==
    /\ pc = "shutdown" /\ visit # {}
    /\ Exists(OrderQueue(run, Min(visit)))
    /\ mail' = mail \cup {OrderQueue(run, Min(visit))}
    /\ pc' = "waitpid"
    /\ UNCHANGED <<anchor, kernel, run, key, next, closing, roster, visit, kitchen, faultVars>>

\* send throws in a destructor: std::terminate.
CommandFails ==
    /\ pc = "shutdown" /\ visit # {}
    /\ ~Exists(OrderQueue(run, Min(visit)))
    /\ pc' = "aborted"
    /\ UNCHANGED <<kernelVars, run, key, next, closing, roster, visit, kitchen, faultVars>>

Waited ==
    /\ pc = "waitpid" /\ Ended(run, Min(visit))
    /\ visit' = visit \ {Min(visit)}
    /\ pc' = "shutdown"
    /\ UNCHANGED <<kernelVars, run, key, next, closing, roster, kitchen, faultVars>>

\* The vector of handles is destroyed, one after the other.
DestroyHandle ==
    /\ pc = "shutdown" /\ visit = {} /\ roster # {}
    /\ Drop(run, Handles({Min(roster)}))
    /\ roster' = roster \ {Min(roster)}
    /\ UNCHANGED <<run, pc, key, next, closing, visit, kitchen, faultVars>>

End ==
    /\ pc = "shutdown" /\ visit = {} /\ roster = {}
    /\ pc' = "ended"
    /\ UNCHANGED <<kernelVars, run, key, next, closing, roster, visit, kitchen, faultVars>>

\* A signal ends the reception where it is; no destructor runs.
Kill ==
    /\ ~Over(run)
    /\ kills + failures < MaxFaults
    /\ kills' = kills + 1
    /\ pc' = "killed" /\ key' = None
    /\ UNCHANGED <<kernelVars, run, next, closing, roster, visit, kitchen, failures, calm>>

-----------------------------------------------------------------------------
(* A kitchen: the routine of spawnKitchen.                                 *)
Becomes(r, k, at) ==
    kitchen' = [kitchen EXCEPT ![<<r, k>>].at = at]

Ends(r, k, at) ==
    kitchen' = [kitchen EXCEPT ![<<r, k>>] = Process(at, {})]

\* An exception leaves the routine: what the child has copied unwinds with it.
Unwinds(r, k) ==
    kitchen' = [kitchen EXCEPT ![<<r, k>>] = Process("unwinding", @.handles)]

OpenOrders(r, k) ==
    /\ kitchen[<<r, k>>].at = "forked"
    /\ LET q == Found(<<"order", k>>) IN
        IF q = None THEN Unwinds(r, k)
        ELSE kitchen' = [kitchen EXCEPT ![<<r, k>>].orders = q, ![<<r, k>>].at = "half"]
    /\ UNCHANGED <<kernelVars, receptionVars, faultVars>>

OpenResults(r, k) ==
    /\ kitchen[<<r, k>>].at = "half"
    /\ LET q == Found(<<"result", k>>) IN
        IF q = None THEN Unwinds(r, k)
        ELSE kitchen' = [kitchen EXCEPT ![<<r, k>>].results = q, ![<<r, k>>].at = "open"]
    /\ UNCHANGED <<kernelVars, receptionVars, faultVars>>

\* The pool is destroyed while it still runs.  Sleeping cooks block
\* pthread_cond_destroy; one at work ends in std::terminate.
LosesPool(r, k) == \E at \in {"stuck", "aborted"} : Ends(r, k, at)

\* pthread_create fails: for the stock or for the first cook, before there is
\* a cook, or in ThreadPool::start, when other cooks run.
ThreadFails(r, k) ==
    /\ kitchen[<<r, k>>].at = "half" /\ Found(<<"result", k>>) # None
    /\ kills + failures < MaxFaults
    /\ failures' = failures + 1
    /\ calm' = (calm /\ r # run)
    /\ Unwinds(r, k) \/ LosesPool(r, k)
    /\ UNCHANGED <<kernelVars, receptionVars, kills>>

\* receive throws, and the exception leaves run().
MeetsRemovedOrders(r, k) ==
    /\ kitchen[<<r, k>>].at = "open" /\ ~Exists(kitchen[<<r, k>>].orders)
    /\ LosesPool(r, k)
    /\ UNCHANGED <<kernelVars, receptionVars, faultVars>>

\* A cook's Done throws in its thread: std::terminate.
CookMeetsRemovedResults(r, k) ==
    /\ kitchen[<<r, k>>].at \in {"open", "idle", "ordered"}
    /\ ~Exists(kitchen[<<r, k>>].results)
    /\ Ends(r, k, "aborted")
    /\ UNCHANGED <<kernelVars, receptionVars, faultVars>>

\* Mutant: the command is read like any other packet.
IgnoreShutdown(r, k) ==
    /\ kitchen[<<r, k>>].at = "open" /\ kitchen[<<r, k>>].orders \in mail
    /\ mail' = mail \ {kitchen[<<r, k>>].orders}
    /\ UNCHANGED <<anchor, kernel, receptionVars, kitchen, faultVars>>

TakeShutdown(r, k) ==
    /\ kitchen[<<r, k>>].at = "open" /\ kitchen[<<r, k>>].orders \in mail
    /\ mail' = mail \ {kitchen[<<r, k>>].orders}
    /\ Becomes(r, k, "ordered")
    /\ UNCHANGED <<anchor, kernel, receptionVars, faultVars>>

\* Mutant: a kitchen closes only on command.
CloseNever(r, k) ==
    /\ kitchen[<<r, k>>].at = "open" /\ kitchen[<<r, k>>].orders \in mail
    /\ Becomes(r, k, "idle")
    /\ UNCHANGED <<kernelVars, receptionVars, faultVars>>

CloseIdle(r, k) ==
    /\ kitchen[<<r, k>>].at = "open" /\ Exists(kitchen[<<r, k>>].orders)
    /\ Becomes(r, k, "idle")
    /\ UNCHANGED <<kernelVars, receptionVars, faultVars>>

\* Destroying the pool of a commanded kitchen may abort (module Kitchen).
Crash(r, k) ==
    /\ kitchen[<<r, k>>].at = "ordered"
    /\ Ends(r, k, "crashed")
    /\ UNCHANGED <<kernelVars, receptionVars, faultVars>>

\* Mutant: exit in the place of _exit: the destructors of what was copied run.
FarewellUnwinds(r, k) ==
    /\ kitchen[<<r, k>>].at \in {"idle", "ordered"}
    /\ mail' = mail \cup ({kitchen[<<r, k>>].results} \ {q \in Queue : ~Exists(q)})
    /\ Unwinds(r, k)
    /\ UNCHANGED <<anchor, kernel, receptionVars, faultVars>>

\* The farewell, the routine's end, and _exit; a removed result queue makes
\* it an exception.
Farewell(r, k) ==
    /\ kitchen[<<r, k>>].at \in {"idle", "ordered"}
    /\ IF Exists(kitchen[<<r, k>>].results)
       THEN mail' = mail \cup {kitchen[<<r, k>>].results} /\ Ends(r, k, "exited")
       ELSE Unwinds(r, k) /\ UNCHANGED mail
    /\ UNCHANGED <<anchor, kernel, receptionVars, faultVars>>

\* spawnKitchen's own handle goes first.
DropOwnHandle(r, k) ==
    /\ kitchen[<<r, k>>].at = "unwinding"
    /\ Drop(r, Handles({k}))
    /\ kitchen' = [kitchen EXCEPT ![<<r, k>>].at = "commanding",
                                  ![<<r, k>>].left = kitchen[<<r, k>>].handles]
    /\ UNCHANGED <<receptionVars, faultVars>>

\* The copied ~LoadBalancer shuts the siblings down; waitpid returns at once,
\* they are nobody's children here.
CommandSibling(r, k) ==
    /\ kitchen[<<r, k>>].at = "commanding" /\ kitchen[<<r, k>>].left # {}
    /\ LET q == OrderQueue(r, Min(kitchen[<<r, k>>].left)) IN
        IF Exists(q)
        THEN /\ mail' = mail \cup {q}
             /\ kitchen' = [kitchen EXCEPT ![<<r, k>>].left = @ \ {Min(@)}]
        ELSE Ends(r, k, "aborted") /\ UNCHANGED mail
    /\ UNCHANGED <<anchor, kernel, receptionVars, faultVars>>

DropSibling(r, k) ==
    /\ kitchen[<<r, k>>].at = "commanding" /\ kitchen[<<r, k>>].left = {}
    /\ kitchen[<<r, k>>].handles # {}
    /\ Drop(r, Handles({Min(kitchen[<<r, k>>].handles)}))
    /\ kitchen' = [kitchen EXCEPT ![<<r, k>>].handles = @ \ {Min(@)}]
    /\ UNCHANGED <<receptionVars, faultVars>>

EndUnwinding(r, k) ==
    /\ kitchen[<<r, k>>].at = "commanding" /\ kitchen[<<r, k>>].left = {}
    /\ kitchen[<<r, k>>].handles = {}
    /\ Ends(r, k, "exited")
    /\ UNCHANGED <<kernelVars, receptionVars, faultVars>>

-----------------------------------------------------------------------------
Working ==
    \/ MakeAnchor \/ ClearKey \/ MakeQueue \/ Fork
    \/ MeetsRemovedQueue \/ ReadFarewell \/ Reap
    \/ Command \/ CommandFails \/ Waited \/ DestroyHandle \/ End

KitchenStep(r, k) ==
    \/ OpenOrders(r, k) \/ OpenResults(r, k)
    \/ MeetsRemovedOrders(r, k)
    \/ TakeShutdown(r, k) \/ Farewell(r, k)
    \/ DropOwnHandle(r, k) \/ CommandSibling(r, k) \/ DropSibling(r, k)
    \/ EndUnwinding(r, k)

\* The reception that a kitchen takes its orders from: a kitchen that had not
\* opened its queues when its reception was killed may find those of the next.
Serves(r, k) == IF kitchen[<<r, k>>].orders = None THEN r ELSE kitchen[<<r, k>>].orders[1]

\* Five seconds without a pizza: certain to come once nobody sends any.
Orphaned(r, k) == Over(Serves(r, k)) /\ CloseIdle(r, k)

Accidents ==
    \/ SpawnFails \/ Kill
    \/ \E r \in Run, k \in Id :
        ThreadFails(r, k) \/ CookMeetsRemovedResults(r, k) \/ Crash(r, k)

AllOver ==
    /\ Over(run) /\ run = MaxRuns
    /\ \A r \in Run, k \in Id : Gone(r, k)
    /\ UNCHANGED vars

\* The reception waits for a process that will not end.
Hangs ==
    /\ \/ pc = "waitpid" /\ kitchen[<<run, Min(visit)>>].at = "stuck"
       \/ pc = "reap" /\ kitchen[<<run, closing>>].at = "stuck"
    /\ UNCHANGED vars

QueueNext ==
    \/ Start \/ OpenKitchen \/ EndOfInput
    \/ Working
    \/ \E r \in Run, k \in Id : KitchenStep(r, k) \/ CloseIdle(r, k)
    \/ Accidents
    \/ AllOver \/ Hangs

QueueSpec ==
    /\ QueueInit /\ [][QueueNext]_vars
    /\ WF_vars(Working)
    /\ \A r \in Run, k \in Id :
        WF_vars(KitchenStep(r, k) \/ Orphaned(r, k))

-----------------------------------------------------------------------------
\* The state has its types; no key is held by two files, and no queue is under
\* two keys.
QueueTypeOK ==
    /\ anchor \in [Path -> Inode \cup {None}]
    /\ kernel \in [Inode -> Queue \cup {None}]
    /\ mail \subseteq {q \in Queue : Exists(q)}
    /\ \A p, q \in Path : anchor[p] = anchor[q] => p = q \/ anchor[p] = None
    /\ \A i, j \in Inode : kernel[i] = kernel[j] => i = j \/ kernel[i] = None
    /\ roster \subseteq Id /\ visit \subseteq roster
    /\ next \in 0 .. MaxKitchens /\ closing \in roster \cup {None}

\* Whatever a killed run has left under a key, the next run gets the key for
\* itself: once it is free, nobody else takes it before the exclusive creation.
KeyStaysFree ==
    [][key # None /\ key' = key /\ kernel[key] = None => kernel'[key] = None]_vars

\* A kitchen whose reception is at work has opened that reception's queues,
\* not what an earlier run has left under their names.
OwnQueuesOnly ==
    ~Over(run) =>
        \A k \in Id :
            /\ kitchen[<<run, k>>].orders \in {None, OrderQueue(run, k)}
            /\ kitchen[<<run, k>>].results \in {None, ResultQueue(run, k)}

\* A run that begins after the kitchens of a killed one have gone, and in
\* whose kitchens no call fails, is not disturbed by what was left: none of
\* its processes meets a removed queue, none unwinds what it has copied.
CalmRunIsUndisturbed ==
    calm /\ run \in Run =>
        /\ pc # "aborted"
        /\ \A k \in Id :
            kitchen[<<run, k>>].at \notin {"stuck", "aborted", "unwinding", "commanding"}
        /\ pc = "select" =>
            \A k \in roster : Exists(OrderQueue(run, k)) /\ Exists(ResultQueue(run, k))

\* Such a run, when it ends in order, leaves no process and no queue behind,
\* also if a kitchen could not be opened; and no file, unless that was why.
CleanEnd ==
    calm /\ run \in Run /\ pc = "ended" =>
        /\ \A k \in Id : Gone(run, k)
        /\ \A q \in Queue : Exists(q) => q[1] # run
        /\ failures = 0 => \A path \in Path : path[2] < next => anchor[path] = None

\* Its reception never waits for ever for one of its kitchens.  (When a call
\* fails in a kitchen it may: the failing child is stuck itself, or removes
\* the queues of a sibling, which then gets stuck.)
ShutdownReturns == pc \in {"waitpid", "reap"} ~> pc \notin {"waitpid", "reap"} \/ ~calm

\* No orphan is left: whoever still runs serves a reception at work.
NoOrphans == \A r \in Run, k \in Id : Over(Serves(r, k)) => Gone(r, k)

\* The kitchens of a killed reception close by themselves, or are ended by the
\* next run, which removes their queues: again and again there are none.
OrphansEnd == []<>NoOrphans
=============================================================================

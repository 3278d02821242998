------------------------- MODULE QueueLifetimeProofs -------------------------
(***************************************************************************)
(* For any number of runs, kitchens, inodes and faults: the keys and files *)
(* are kept apart, a reception at work and its kitchens use their own      *)
(* queues, and a run that begins when the orphans are gone is not          *)
(* disturbed by what they have left, and leaves nothing itself.            *)
(***************************************************************************)
EXTENDS QueueLifetime, WellFoundedInduction, TLAPS

At == {"none", "forked", "half", "open", "idle", "ordered", "stuck", "unwinding",
       "commanding", "exited", "crashed", "aborted"}

Proc == [at : At, orders : Queue \cup {None}, results : Queue \cup {None},
         handles : SUBSET Id, left : SUBSET Id]

Step == {"select", "createOrder", "createResult", "fork", "reap", "shutdown", "waitpid",
         "ended", "aborted", "killed"}

Types ==
    /\ anchor \in [Path -> Inode \cup {None}]
    /\ kernel \in [Inode -> Queue \cup {None}]
    /\ key \in Inode \cup {None}
    /\ run \in 0 .. MaxRuns /\ next \in 0 .. MaxKitchens /\ pc \in Step
    /\ closing \in Id \cup {None}
    /\ roster \in SUBSET Id /\ visit \in SUBSET Id
    /\ kitchen \in [Run \X Id -> Proc]
    /\ kills \in Nat /\ failures \in Nat /\ calm \in BOOLEAN

\* Where the reception is says what it has at hand.
AtHand ==
    /\ run = 0 => pc = "ended"
    /\ pc \in {"createOrder", "createResult", "fork"} => next \in Id
    /\ key # None => pc \in {"createOrder", "createResult"}
    /\ pc = "reap" => closing # None
    /\ closing # None => closing \in roster /\ pc \in {"reap", "killed"}
    /\ visit # {} => pc \in {"shutdown", "waitpid", "aborted", "killed"}
    /\ visit \subseteq roster
    /\ pc = "waitpid" => visit # {}
    /\ \A k \in roster : k < next
    /\ pc = "ended" => roster = {}

\* The paths for which the present run has made its queue.
Made(path) ==
    \/ path[2] < next
    \/ path[2] = next /\ path[1] = "order" /\ pc \in {"createResult", "fork"}
    \/ path[2] = next /\ path[1] = "result" /\ pc = "fork"

\* Files and keys are kept apart; a queue is made once.
Apart ==
    /\ \A p, q \in Path : anchor[p] = anchor[q] => p = q \/ anchor[p] = None
    /\ \A i, j \in Inode : kernel[i] = kernel[j] => i = j \/ kernel[i] = None
    /\ \A i \in Inode :
        kernel[i] # None => /\ kernel[i][1] <= run
                            /\ kernel[i][1] = run /\ ~Over(run) => Made(kernel[i][2])
    /\ mail \subseteq {q \in Queue : Exists(q)}

\* No other file has the key of the file that was made last.
Cleared ==
    key # None =>
        /\ anchor[Creating] \in {None, key}
        /\ \A path \in Path : path # Creating => anchor[path] # key

\* What a kitchen would find now is its own queue or nothing.
Anchored ==
    ~Over(run) =>
        \A path \in Path :
            Made(path) /\ anchor[path] # None => kernel[anchor[path]] \in {None, <<run, path>>}

\* The processes that have opened an order queue, a result queue, and those that
\* no calm run has.
HasOrders == {"half", "open", "idle", "ordered"}
HasResults == {"open", "idle", "ordered"}
Disturbed == {"stuck", "aborted", "unwinding", "commanding"}

\* Processes are there from their fork on, and know what they have opened.
Born ==
    /\ \A r \in Run, k \in Id : r > run => kitchen[<<r, k>>] = Process("none", {})
    /\ \A k \in Id : run \in Run /\ kitchen[<<run, k>>].at # "none" => k < next
    /\ \A r \in Run, k \in Id :
        /\ kitchen[<<r, k>>].at \in HasOrders <=> kitchen[<<r, k>>].orders # None
        /\ kitchen[<<r, k>>].at \in HasResults <=> kitchen[<<r, k>>].results # None

QueueInvariant == Types /\ AtHand /\ Apart /\ Cleared /\ Anchored /\ Born /\ OwnQueuesOnly

\* The queues of the roster, and those made for a kitchen not yet forked.
Held(path) == path[2] \in roster \/ (path[2] = next /\ Made(path))

\* A calm run, seen from the inside: only its own kitchens are alive, they are
\* in the roster, and the roster has its queues, under its own files.
CalmInside ==
    calm /\ run \in Run =>
        /\ pc # "aborted"
        /\ \A r \in Run, k \in Id : r < run => Gone(r, k)
        /\ \A k \in Id :
            /\ kitchen[<<run, k>>].at \notin {"stuck", "aborted", "unwinding", "commanding"}
            /\ kitchen[<<run, k>>].at \in {"none", "exited", "crashed"} \/ k \in roster
            /\ kitchen[<<run, k>>].at \in {"half", "open", "idle", "ordered"} =>
                    kitchen[<<run, k>>].orders = OrderQueue(run, k)
            /\ kitchen[<<run, k>>].at \in {"open", "idle", "ordered"} =>
                    kitchen[<<run, k>>].results = ResultQueue(run, k)
        /\ \A path \in Path :
            Held(path) => anchor[path] # None /\ kernel[anchor[path]] = <<run, path>>
        /\ key # None => anchor[Creating] = key
        /\ pc \in {"shutdown", "waitpid"} =>
            \A k \in roster \ visit : kitchen[<<run, k>>].at \in {"exited", "crashed"}

\* What a calm run has made and not yet removed belongs to its roster, or to
\* the kitchen it is about to open.
CalmTidy ==
    calm /\ run \in Run /\ pc # "killed" =>
        \A path \in Path :
            /\ \A i \in Inode : kernel[i] = <<run, path>> =>
                    \/ path[2] \in roster
                    \/ pc \in {"createOrder", "createResult", "fork"} /\ path[2] = next
            /\ failures = 0 /\ path[2] < next /\ anchor[path] # None => path[2] \in roster

CalmInvariant == QueueInvariant /\ CalmInside /\ CalmTidy

-----------------------------------------------------------------------------
(* Lemmas about the parts of a step.                                       *)

\* The first of some kitchens is one of them.
LEMMA MinIsIn ==
    ASSUME NEW S \in SUBSET Id, S # {}
    PROVE  Min(S) \in S
<1>1. S \subseteq Nat
  BY QueueAssumption DEF Id
<1>2. PICK i \in S : \A j \in S : ~(<<j, i>> \in OpToRel(<, Nat))
  BY <1>1, NatLessThanWellFounded, WFMin, Zenon
<1>3. \A j \in S : i <= j
  <2> SUFFICES ASSUME NEW j \in S
               PROVE  i <= j
    OBVIOUS
  <2>1. i \in Nat /\ j \in Nat
    BY <1>1
  <2>2. ~(j < i)
    <3>1. SUFFICES ASSUME j < i PROVE FALSE
      OBVIOUS
    <3>2. <<j, i>> \in Nat \X Nat
      BY <2>1
    <3>3. <<j, i>>[1] < <<j, i>>[2]
      BY <3>1
    <3>4. <<j, i>> \in OpToRel(<, Nat)
      BY <3>2, <3>3, Zenon DEF OpToRel
    <3> QED
      BY <1>2, <3>4, Zenon
  <2> QED
    BY <2>1, <2>2
<1> QED
  BY <1>3 DEF Min

\* The inode of a path is that of its file, or no file's.
LEMMA InodeIsApart ==
    ASSUME Types, Apart, NEW path \in Path, NEW i \in InodeFor(path)
    PROVE  /\ i \in Inode
           /\ anchor[path] \in {None, i}
           /\ \A p \in Path : p # path => anchor[p] # i
<1>1. CASE anchor[path] # None
  <2>1. i = anchor[path]
    BY <1>1 DEF InodeFor
  <2> QED
    BY <1>1, <2>1 DEF Types, Apart
<1>2. CASE anchor[path] = None
  <2>1. i \in Inode /\ \A p \in Path : anchor[p] # i
    BY <1>2 DEF InodeFor
  <2> QED
    BY <1>2, <2>1
<1> QED
  BY <1>1, <1>2

\* What the reception is creating has not been made.
LEMMA CreatingIsNew ==
    ASSUME Types, AtHand, pc \in {"createOrder", "createResult"}
    PROVE  Creating \in Path /\ ~Made(Creating) /\ Creating[2] = next /\ run \in Run
<1>1. next \in Id /\ run \in Run
  BY QueueAssumption DEF Types, AtHand, Run
<1>2. next \in Nat
  BY DEF Types
<1> QED
  BY <1>1, <1>2 DEF Creating, Path, Made

\* A destructor takes queues and files away and changes no other.
LEMMA Drops ==
    ASSUME Types, NEW r, NEW paths, Drop(r, paths)
    PROVE  /\ anchor' \in [Path -> Inode \cup {None}]
           /\ kernel' \in [Inode -> Queue \cup {None}]
           /\ \A i \in Inode : kernel'[i] = IF kernel[i] \in {r} \X paths THEN None ELSE kernel[i]
           /\ \A path \in Path : anchor'[path] = IF path \in paths THEN None ELSE anchor[path]
           /\ mail' = mail \ ({r} \X paths)
  BY DEF Types, Drop

\* Queues and files only go; a command is sent to a queue that exists.
Loses ==
    /\ anchor' \in [Path -> Inode \cup {None}]
    /\ kernel' \in [Inode -> Queue \cup {None}]
    /\ \A i \in Inode : kernel'[i] \in {kernel[i], None}
    /\ \A path \in Path : anchor'[path] \in {anchor[path], None}
    /\ \A q \in mail' : q \in Queue /\ \E i \in Inode : kernel'[i] = q

\* So it only takes away.
LEMMA DropLoses ==
    ASSUME Types, Apart, NEW r, NEW paths, Drop(r, paths)
    PROVE  Loses
<1>1. ASSUME NEW q \in mail'
      PROVE  q \in Queue /\ \E i \in Inode : kernel'[i] = q
  <2>1. q \in mail /\ q \notin {r} \X paths
    BY <1>1, Drops
  <2>2. PICK i \in Inode : kernel[i] = q
    BY <2>1 DEF Apart, Exists
  <2>3. kernel'[i] = q
    BY <2>1, <2>2, Drops
  <2> QED
    BY <2>1, <2>3 DEF Apart
<1> QED
  BY <1>1, Drops DEF Loses

\* As does what sends to a queue that is there.
LEMMA MailLoses ==
    ASSUME Types, Apart, UNCHANGED <<anchor, kernel>>,
           NEW q \in Queue, Exists(q), mail' \subseteq mail \cup {q}
    PROVE  Loses
  BY DEF Types, Apart, Exists, Loses

\* As does what only reads from the queues, or does not touch them.
LEMMA NoMailLoses ==
    ASSUME Types, Apart, UNCHANGED <<anchor, kernel>>, mail' \subseteq mail
    PROVE  Loses
  BY DEF Types, Apart, Exists, Loses

-----------------------------------------------------------------------------
(* The steps of a kitchen.                                                 *)
AnyKitchenStep(r, k) ==
    \/ KitchenStep(r, k) \/ CloseIdle(r, k)
    \/ ThreadFails(r, k) \/ CookMeetsRemovedResults(r, k) \/ Crash(r, k)

\* What becomes of the process o of a kitchen k in a step of its own.
Moves(o, p, r, k) ==
    /\ p \in Proc
    /\ o.at \notin {"none", "stuck", "exited", "crashed", "aborted"}
    /\ p.at \notin {"none", "forked"}
    /\ p.at \in HasOrders =>
        /\ o.at \in HasOrders \cup {"forked"}
        /\ p.orders = IF o.at = "forked" THEN Found(<<"order", k>>) ELSE o.orders
        /\ p.orders # None
    /\ p.at \in HasResults =>
        /\ o.at \in HasOrders
        /\ p.results = IF o.at = "half" THEN Found(<<"result", k>>) ELSE o.results
        /\ p.results # None
    /\ p.at \notin HasOrders => p.orders = None
    /\ p.at \notin HasResults => p.results = None
    /\ p.at \in Disturbed =>
        \/ o.at \in Disturbed
        \/ o.at = "forked" /\ Found(<<"order", k>>) = None
        \/ o.at = "half" /\ Found(<<"result", k>>) = None
        \/ o.at = "open" /\ ~Exists(o.orders)
        \/ o.at \in HasResults /\ ~Exists(o.results)
        \/ calm' => r # run

\* A process ends or begins to unwind: nothing is open any more.
LEMMA ProcessIsProc ==
    ASSUME NEW at \in At, NEW handles \in SUBSET Id
    PROVE  /\ Process(at, handles) \in Proc
           /\ Process(at, handles).at = at
           /\ Process(at, handles).orders = None /\ Process(at, handles).results = None
  BY DEF Process, Proc

\* Open finds a queue or nothing.
LEMMA FoundIsQueue ==
    ASSUME Types, NEW path \in Path
    PROVE  Found(path) \in Queue \cup {None}
  BY DEF Types, Found

\* A step of a kitchen changes its own process only, as Moves says.
LEMMA KitchenMoves ==
    ASSUME Types, Born, NEW r \in Run, NEW k \in Id, AnyKitchenStep(r, k)
    PROVE  \E p : /\ kitchen' = [kitchen EXCEPT ![<<r, k>>] = p]
                  /\ Moves(kitchen[<<r, k>>], p, r, k)
<1> DEFINE o == kitchen[<<r, k>>]
<1>1. /\ o \in Proc
      /\ o.at \notin HasOrders => o.orders = None
      /\ o.at \in HasOrders => o.orders # None
      /\ o.at \notin HasResults => o.results = None
      /\ o.at \in HasResults => o.results # None
  BY DEF Types, Born, HasOrders, HasResults, Proc, At
<1>2. /\ Found(<<"order", k>>) \in Queue \cup {None}
      /\ Found(<<"result", k>>) \in Queue \cup {None}
  BY FoundIsQueue DEF Path
<1>3. ASSUME NEW at \in {"exited", "crashed", "aborted", "stuck"},
             kitchen' = [kitchen EXCEPT ![<<r, k>>] = Process(at, {})],
             o.at \notin {"none", "stuck", "exited", "crashed", "aborted"},
             at \in Disturbed =>
                \/ o.at \in Disturbed
                \/ o.at = "open" /\ ~Exists(o.orders)
                \/ o.at \in HasResults /\ ~Exists(o.results)
                \/ calm' => r # run
      PROVE  Moves(o, Process(at, {}), r, k)
  <2>1. at \in At /\ at \notin HasOrders /\ at \notin HasResults /\ at \notin {"none", "forked"}
    BY <1>3 DEF At, HasOrders, HasResults
  <2> QED
    BY <1>3, <2>1, ProcessIsProc, Zenon DEF Moves
<1>4. ASSUME kitchen' = [kitchen EXCEPT ![<<r, k>>] = Process("unwinding", o.handles)],
             o.at \notin {"none", "stuck", "exited", "crashed", "aborted"},
             \/ o.at = "forked" /\ Found(<<"order", k>>) = None
             \/ o.at = "half" /\ Found(<<"result", k>>) = None
             \/ o.at \in HasResults /\ ~Exists(o.results)
             \/ calm' => r # run
      PROVE  Moves(o, Process("unwinding", o.handles), r, k)
  <2>1. "unwinding" \in At /\ "unwinding" \notin HasOrders /\ "unwinding" \notin HasResults
        /\ "unwinding" \notin {"none", "forked"} /\ o.handles \in SUBSET Id
    BY <1>1 DEF At, HasOrders, HasResults, Proc
  <2> DEFINE p == Process("unwinding", o.handles)
  <2>2. p \in Proc /\ p.at = "unwinding" /\ p.orders = None /\ p.results = None
    BY <2>1, ProcessIsProc, Zenon
  <2> HIDE DEF p
  <2>3. Moves(o, p, r, k)
    BY <1>4, <2>1, <2>2 DEF Moves
  <2> QED
    BY <2>3 DEF p
<1> HIDE DEF o
<1>5. CASE OpenOrders(r, k)
  <2>1. CASE Found(<<"order", k>>) = None
    BY <1>4, <1>5, <2>1 DEF OpenOrders, Unwinds, o
  <2>2. CASE Found(<<"order", k>>) # None
    <3> DEFINE p == [o EXCEPT !.orders = Found(<<"order", k>>), !.at = "half"]
    <3>1. kitchen' = [kitchen EXCEPT ![<<r, k>>] = p]
      BY <1>5, <2>2 DEF OpenOrders, o
    <3>2. o.at = "forked"
      BY <1>5 DEF OpenOrders, o
    <3>3. Moves(o, p, r, k)
      BY <1>1, <1>2, <2>2, <3>2 DEF Moves, Proc, At, HasOrders, HasResults, Disturbed
    <3> QED
      BY <3>1, <3>3 DEF o
  <2> QED
    BY <2>1, <2>2
<1>6. CASE OpenResults(r, k)
  <2>1. CASE Found(<<"result", k>>) = None
    BY <1>4, <1>6, <2>1 DEF OpenResults, Unwinds, o
  <2>2. CASE Found(<<"result", k>>) # None
    <3> DEFINE p == [o EXCEPT !.results = Found(<<"result", k>>), !.at = "open"]
    <3>1. kitchen' = [kitchen EXCEPT ![<<r, k>>] = p]
      BY <1>6, <2>2 DEF OpenResults, o
    <3>2. o.at = "half"
      BY <1>6 DEF OpenResults, o
    <3>3. Moves(o, p, r, k)
      BY <1>1, <1>2, <2>2, <3>2 DEF Moves, Proc, At, HasOrders, HasResults, Disturbed
    <3> QED
      BY <3>1, <3>3 DEF o
  <2> QED
    BY <2>1, <2>2
<1>7. CASE ThreadFails(r, k)
  <2>1. o.at = "half" /\ (calm' => r # run)
    BY <1>7 DEF ThreadFails, o
  <2>2. CASE Unwinds(r, k)
    BY <1>4, <2>1, <2>2 DEF Unwinds, o
  <2>3. CASE LosesPool(r, k)
    <3>1. PICK at \in {"stuck", "aborted"} : Ends(r, k, at)
      BY <2>3 DEF LosesPool
    <3> QED
      BY <1>3, <2>1, <3>1 DEF Ends, o
  <2> QED
    BY <1>7, <2>2, <2>3 DEF ThreadFails
<1>8. CASE MeetsRemovedOrders(r, k)
  <2>1. PICK at \in {"stuck", "aborted"} : Ends(r, k, at)
    BY <1>8 DEF MeetsRemovedOrders, LosesPool
  <2>2. o.at = "open" /\ ~Exists(o.orders)
    BY <1>8 DEF MeetsRemovedOrders, o
  <2> QED
    BY <1>3, <2>1, <2>2 DEF Ends, o
<1>9. CASE CookMeetsRemovedResults(r, k)
  <2>1. o.at \in HasResults /\ ~Exists(o.results)
    BY <1>9 DEF CookMeetsRemovedResults, HasResults, o
  <2>2. o.at \notin {"none", "stuck", "exited", "crashed", "aborted"}
    BY <2>1 DEF HasResults
  <2> QED
    BY <1>3, <1>9, <2>1, <2>2 DEF CookMeetsRemovedResults, Ends, o
<1>10. CASE TakeShutdown(r, k) \/ CloseIdle(r, k)
  <2>1. PICK at \in {"ordered", "idle"} : kitchen' = [kitchen EXCEPT ![<<r, k>>].at = at]
    BY <1>10 DEF TakeShutdown, CloseIdle, Becomes
  <2> DEFINE p == [o EXCEPT !.at = at]
  <2>2. kitchen' = [kitchen EXCEPT ![<<r, k>>] = p]
    BY <2>1 DEF o
  <2>3. o.at = "open"
    BY <1>10 DEF TakeShutdown, CloseIdle, o
  <2>4. Moves(o, p, r, k)
    BY <1>1, <2>3 DEF Moves, Proc, At, HasOrders, HasResults, Disturbed
  <2> QED
    BY <2>2, <2>4 DEF o
<1>11. CASE Crash(r, k)
  <2>1. "crashed" \notin Disturbed
    BY DEF Disturbed
  <2> QED
    BY <1>3, <1>11, <2>1 DEF Crash, Ends, o
<1>12. CASE Farewell(r, k)
  <2>1. o.at \in {"idle", "ordered"} /\ o.at \in HasResults
    BY <1>12 DEF Farewell, HasResults, o
  <2>2. CASE Exists(o.results)
    <3>1. "exited" \notin Disturbed
      BY DEF Disturbed
    <3> QED
      BY <1>3, <1>12, <2>1, <2>2, <3>1 DEF Farewell, Ends, o
  <2>3. CASE ~Exists(o.results)
    BY <1>4, <1>12, <2>1, <2>3 DEF Farewell, Unwinds, o
  <2> QED
    BY <2>2, <2>3
<1>13. CASE DropOwnHandle(r, k)
  <2> DEFINE p == [o EXCEPT !.at = "commanding", !.left = o.handles]
  <2>1. kitchen' = [kitchen EXCEPT ![<<r, k>>] = p] /\ o.at = "unwinding"
    BY <1>13 DEF DropOwnHandle, o
  <2>2. Moves(o, p, r, k)
    BY <1>1, <2>1 DEF Moves, Proc, At, HasOrders, HasResults, Disturbed
  <2> QED
    BY <2>1, <2>2 DEF o
<1>14. CASE CommandSibling(r, k)
  <2>1. o.at = "commanding" /\ o.at \in Disturbed
    BY <1>14 DEF CommandSibling, Disturbed, o
  <2>2. CASE Ends(r, k, "aborted")
    BY <1>3, <2>1, <2>2 DEF Ends, o
  <2>3. CASE ~Ends(r, k, "aborted")
    <3> DEFINE p == [o EXCEPT !.left = @ \ {Min(@)}]
    <3>1. kitchen' = [kitchen EXCEPT ![<<r, k>>] = p]
      BY <1>14, <2>3 DEF CommandSibling, o
    <3>2. Moves(o, p, r, k)
      BY <1>1, <2>1 DEF Moves, Proc, At, HasOrders, HasResults, Disturbed
    <3> QED
      BY <3>1, <3>2 DEF o
  <2> QED
    BY <2>2, <2>3
<1>15. CASE DropSibling(r, k)
  <2> DEFINE p == [o EXCEPT !.handles = @ \ {Min(@)}]
  <2>1. kitchen' = [kitchen EXCEPT ![<<r, k>>] = p] /\ o.at = "commanding"
    BY <1>15 DEF DropSibling, o
  <2>2. Moves(o, p, r, k)
    BY <1>1, <2>1 DEF Moves, Proc, At, HasOrders, HasResults, Disturbed
  <2> QED
    BY <2>1, <2>2 DEF o
<1>16. CASE EndUnwinding(r, k)
  <2>1. "exited" \notin Disturbed
    BY DEF Disturbed
  <2> QED
    BY <1>3, <1>16, <2>1 DEF EndUnwinding, Ends, o
<1> QED
  BY <1>5, <1>6, <1>7, <1>8, <1>9, <1>10, <1>11, <1>12, <1>13, <1>14, <1>15, <1>16
  DEF AnyKitchenStep, KitchenStep

\* What a step of a kitchen does to the rest.
LEMMA KitchenEffects ==
    ASSUME Types, Born, Apart, NEW r \in Run, NEW k \in Id, AnyKitchenStep(r, k)
    PROVE  /\ UNCHANGED receptionVars
           /\ Loses
           /\ kitchen[<<r, k>>].at \notin {"unwinding", "commanding"} => UNCHANGED <<anchor, kernel>>
           /\ kills' \in Nat /\ failures' \in Nat /\ calm' \in BOOLEAN
           /\ calm' => calm
           /\ failures' = 0 => failures = 0
<1> DEFINE o == kitchen[<<r, k>>]
<1>1. /\ o \in Proc
      /\ o.at \in HasOrders => o.orders \in Queue
      /\ o.at \in HasResults => o.results \in Queue
  BY DEF Types, Born, HasOrders, HasResults, Proc
<1>2. kills \in Nat /\ failures \in Nat /\ calm \in BOOLEAN
  BY DEF Types
<1>3. CASE OpenOrders(r, k) \/ OpenResults(r, k) \/ MeetsRemovedOrders(r, k)
           \/ CookMeetsRemovedResults(r, k) \/ CloseIdle(r, k) \/ Crash(r, k) \/ EndUnwinding(r, k)
  <2>1. UNCHANGED <<kernelVars, receptionVars, faultVars>>
    BY <1>3 DEF OpenOrders, OpenResults, MeetsRemovedOrders, CookMeetsRemovedResults, CloseIdle,
                Crash, EndUnwinding
  <2> QED
    BY <1>2, <2>1, NoMailLoses DEF kernelVars, faultVars
<1>4. CASE ThreadFails(r, k)
  <2>1. UNCHANGED <<kernelVars, receptionVars, kills>>
    BY <1>4 DEF ThreadFails
  <2>2. failures' = failures + 1 /\ calm' = (calm /\ r # run)
    BY <1>4 DEF ThreadFails
  <2> QED
    BY <1>2, <2>1, <2>2, NoMailLoses DEF kernelVars
<1>5. CASE TakeShutdown(r, k)
  <2>1. UNCHANGED <<anchor, kernel, receptionVars, faultVars>> /\ mail' \subseteq mail
    BY <1>5 DEF TakeShutdown
  <2> QED
    BY <1>2, <2>1, NoMailLoses DEF faultVars
<1>6. CASE Farewell(r, k)
  <2>1. UNCHANGED <<anchor, kernel, receptionVars, faultVars>>
    BY <1>6 DEF Farewell
  <2>2. o.results \in Queue
    BY <1>1, <1>6 DEF Farewell, HasResults
  <2>3. CASE Exists(o.results)
    <3>1. mail' = mail \cup {o.results}
      BY <1>6, <2>3 DEF Farewell
    <3> QED
      BY <1>2, <2>1, <2>2, <2>3, <3>1, MailLoses DEF faultVars
  <2>4. CASE ~Exists(o.results)
    <3>1. mail' = mail
      BY <1>6, <2>4 DEF Farewell
    <3> QED
      BY <1>2, <2>1, <3>1, NoMailLoses DEF faultVars
  <2> QED
    BY <2>3, <2>4
<1>7. CASE CommandSibling(r, k)
  <2>1. UNCHANGED <<anchor, kernel, receptionVars, faultVars>>
    BY <1>7 DEF CommandSibling
  <2> DEFINE q == OrderQueue(r, Min(o.left))
  <2>2. q \in Queue
    <3>1. o.left \in SUBSET Id /\ o.left # {}
      BY <1>1, <1>7 DEF CommandSibling, Proc
    <3>2. Min(o.left) \in Id
      BY <3>1, MinIsIn
    <3> QED
      BY <3>2 DEF OrderQueue, Queue, Path
  <2> HIDE DEF q
  <2>3. CASE Exists(q)
    <3>1. mail' = mail \cup {q}
      BY <1>7, <2>3 DEF CommandSibling, q
    <3> QED
      BY <1>2, <2>1, <2>2, <2>3, <3>1, MailLoses DEF faultVars
  <2>4. CASE ~Exists(q)
    <3>1. mail' = mail
      BY <1>7, <2>4 DEF CommandSibling, q
    <3> QED
      BY <1>2, <2>1, <3>1, NoMailLoses DEF faultVars
  <2> QED
    BY <2>3, <2>4
<1>8. CASE DropOwnHandle(r, k) \/ DropSibling(r, k)
  <2>1. UNCHANGED <<receptionVars, faultVars>> /\ o.at \in {"unwinding", "commanding"}
    BY <1>8 DEF DropOwnHandle, DropSibling
  <2>2. \E paths : Drop(r, paths)
    BY <1>8 DEF DropOwnHandle, DropSibling
  <2> QED
    BY <1>2, <2>1, <2>2, DropLoses DEF faultVars
<1> QED
  BY <1>3, <1>4, <1>5, <1>6, <1>7, <1>8 DEF AnyKitchenStep, KitchenStep

\* The types of what a step of a kitchen changes.
LEMMA KitchenTypes ==
    ASSUME Types, Born, NEW r \in Run, NEW k \in Id, NEW p,
           kitchen' = [kitchen EXCEPT ![<<r, k>>] = p], Moves(kitchen[<<r, k>>], p, r, k)
    PROVE  /\ kitchen' \in [Run \X Id -> Proc]
           /\ kitchen'[<<r, k>>] = p
           /\ \A q \in Run, j \in Id : q # r \/ j # k => kitchen'[<<q, j>>] = kitchen[<<q, j>>]
<1>1. p \in Proc
  BY DEF Moves
<1> QED
  BY <1>1 DEF Types

-----------------------------------------------------------------------------
(* The inductive steps.                                                    *)
\* All steps, one by one.
LEMMA StepCases ==
    ASSUME [QueueNext]_vars
    PROVE  \/ Start \/ OpenKitchen \/ EndOfInput \/ MakeAnchor \/ ClearKey \/ MakeQueue
           \/ Fork \/ MeetsRemovedQueue \/ ReadFarewell \/ Reap \/ Command \/ CommandFails \/ Waited
           \/ DestroyHandle \/ End \/ SpawnFails \/ Kill \/ UNCHANGED vars
           \/ \E r \in Run, k \in Id : AnyKitchenStep(r, k)
  BY DEF QueueNext, Working, Accidents, AllOver, Hangs, AnyKitchenStep

\* The conjuncts of the invariant, one by one.
LEMMA TypesStep ==
    ASSUME QueueInvariant, [QueueNext]_vars
    PROVE  Types'
<1> USE DEF QueueInvariant
<1>1. MaxRuns \in Nat /\ MaxKitchens \in Nat
  BY QueueAssumption
<1>2. CASE Start
  BY <1>1, <1>2 DEF Start, Types, Over, Run, Step, kernelVars
<1>3. CASE OpenKitchen \/ EndOfInput \/ MeetsRemovedQueue
  BY <1>1, <1>3 DEF OpenKitchen, EndOfInput, MeetsRemovedQueue, BeginShutdown, Types, Step,
                    kernelVars, faultVars
<1>4. CASE MakeAnchor \/ ClearKey
  <2>1. CASE MakeAnchor
    <3>1. key' \in Inode
      BY <2>1, CreatingIsNew, InodeIsApart DEF MakeAnchor
    <3> QED
      BY <2>1, <3>1 DEF MakeAnchor, Types, faultVars
  <2>2. CASE ClearKey
    BY <2>2 DEF ClearKey, Types, receptionVars, faultVars
  <2> QED
    BY <1>4, <2>1, <2>2
<1>5. CASE MakeQueue
  <2>1. <<run, Creating>> \in Queue /\ key \in Inode
    BY <1>5, CreatingIsNew DEF MakeQueue, AtHand, Queue, Types
  <2> QED
    BY <1>5, <2>1 DEF MakeQueue, Types, Step, faultVars
<1>6. CASE Fork
  <2>1. next \in Id /\ run \in Run
    BY <1>1, <1>6 DEF Fork, AtHand, Types, Run
  <2>2. Process("forked", roster) \in Proc
    BY ProcessIsProc DEF Types, At
  <2>3. kitchen' \in [Run \X Id -> Proc]
    BY <1>6, <2>1, <2>2 DEF Fork, Types
  <2>4. next' \in 0 .. MaxKitchens
    BY <1>1, <1>6, <2>1 DEF Fork, Id
  <2> QED
    BY <1>6, <2>1, <2>3, <2>4 DEF Fork, Types, Step, kernelVars, faultVars
<1>7. CASE ReadFarewell
  BY <1>7 DEF ReadFarewell, Types, Step, faultVars
<1>8. CASE Reap
  <2>1. UNCHANGED <<run, key, next, visit, kitchen, faultVars>>
        /\ roster' \subseteq roster /\ closing' = None /\ pc' = "select"
    BY <1>8 DEF Reap
  <2> QED
    BY <1>8, <2>1, Drops DEF Reap, Types, Step, faultVars
<1>9. CASE Command \/ CommandFails \/ Waited \/ End \/ Kill
  BY <1>9 DEF Command, CommandFails, Waited, End, Kill, Types, Step, kernelVars, faultVars
<1>10. CASE DestroyHandle
  <2>1. UNCHANGED <<run, pc, key, next, closing, visit, kitchen, faultVars>>
        /\ roster' \subseteq roster
    BY <1>10 DEF DestroyHandle
  <2> QED
    BY <1>10, <2>1, Drops DEF DestroyHandle, Types, faultVars
<1>11. CASE SpawnFails
  <2>1. /\ UNCHANGED <<run, next, closing, roster, kitchen, kills, calm>>
        /\ failures' = failures + 1 /\ pc' = "shutdown" /\ key' = None /\ visit' = roster
    BY <1>11 DEF SpawnFails, BeginShutdown
  <2> QED
    BY <1>11, <2>1, Drops DEF SpawnFails, Types, Step
<1>12. CASE UNCHANGED vars
  BY <1>12 DEF vars, kernelVars, receptionVars, faultVars, Types
<1>13. ASSUME NEW r \in Run, NEW k \in Id, AnyKitchenStep(r, k)
       PROVE  Types'
  <2>1. kitchen' \in [Run \X Id -> Proc]
    <3>1. PICK p : /\ kitchen' = [kitchen EXCEPT ![<<r, k>>] = p]
                   /\ Moves(kitchen[<<r, k>>], p, r, k)
      BY <1>13, KitchenMoves
    <3> QED
      BY <3>1, KitchenTypes
  <2> QED
    BY <1>13, <2>1, KitchenEffects DEF Types, Loses, receptionVars
<1> QED
  BY <1>2, <1>3, <1>4, <1>5, <1>6, <1>7, <1>8, <1>9, <1>10, <1>11, <1>12, <1>13, StepCases

\* Where the reception goes it has in hand what it needs there.
LEMMA AtHandStep ==
    ASSUME QueueInvariant, [QueueNext]_vars
    PROVE  AtHand'
<1> USE DEF QueueInvariant
<1>1. CASE Start
  BY <1>1, QueueAssumption DEF Start, AtHand, Types, Over
<1>2. CASE OpenKitchen \/ EndOfInput \/ MeetsRemovedQueue
  BY <1>2 DEF OpenKitchen, EndOfInput, MeetsRemovedQueue, BeginShutdown, AtHand, Types
<1>3. CASE MakeAnchor \/ ClearKey \/ MakeQueue
  BY <1>3 DEF MakeAnchor, ClearKey, MakeQueue, AtHand, Types, receptionVars
<1>4. CASE Fork
  BY <1>4, QueueAssumption DEF Fork, AtHand, Types, Id
<1>5. CASE ReadFarewell \/ Reap
  <2>1. CASE ReadFarewell
    <3>1. PICK k \in roster : closing' = k
      BY <2>1 DEF ReadFarewell
    <3>2. closing' # None
      BY <3>1, QueueAssumption DEF Types
    <3> QED
      BY <2>1, <3>1, <3>2 DEF ReadFarewell, AtHand
  <2>2. CASE Reap
    BY <2>2 DEF Reap, AtHand, Types
  <2> QED
    BY <1>5, <2>1, <2>2
<1>6. CASE Command \/ CommandFails \/ Waited \/ DestroyHandle \/ End \/ Kill
  BY <1>6 DEF Command, CommandFails, Waited, DestroyHandle, End, Kill, Over, AtHand, Types
<1>7. CASE SpawnFails
  BY <1>7 DEF SpawnFails, BeginShutdown, AtHand, Types
<1>8. CASE UNCHANGED vars \/ \E r \in Run, k \in Id : AnyKitchenStep(r, k)
  <2>1. UNCHANGED receptionVars
    BY <1>8, KitchenEffects DEF vars
  <2> QED
    BY <2>1 DEF receptionVars, AtHand
<1> QED
  BY <1>1, <1>2, <1>3, <1>4, <1>5, <1>6, <1>7, <1>8, StepCases

\* Only the reception, when it creates a queue, puts something under a key or a
\* name.
LEMMA OthersLose ==
    ASSUME QueueInvariant, [QueueNext]_vars, ~MakeAnchor, ~MakeQueue
    PROVE  Loses
<1> USE DEF QueueInvariant
<1>1. CASE Start \/ OpenKitchen \/ EndOfInput \/ Fork \/ MeetsRemovedQueue \/ ReadFarewell
           \/ CommandFails \/ Waited \/ End \/ Kill \/ UNCHANGED vars
  <2>1. UNCHANGED <<anchor, kernel>> /\ mail' \subseteq mail
    BY <1>1 DEF Start, OpenKitchen, EndOfInput, Fork, MeetsRemovedQueue, ReadFarewell,
                CommandFails, Waited, End, Kill, vars, kernelVars
  <2> QED
    BY <2>1, NoMailLoses
<1>2. CASE Reap \/ DestroyHandle \/ SpawnFails
  <2>1. \E paths : Drop(run, paths)
    BY <1>2 DEF Reap, DestroyHandle, SpawnFails
  <2> QED
    BY <2>1, DropLoses
<1>3. CASE Command
  <2> DEFINE q == OrderQueue(run, Min(visit))
  <2>1. q \in Queue
    <3>1. run \in Run
      BY <1>3, QueueAssumption DEF Command, AtHand, Types, Run
    <3>2. Min(visit) \in Id
      BY <1>3, MinIsIn DEF Command, Types
    <3> QED
      BY <3>1, <3>2 DEF OrderQueue, Queue, Path
  <2>2. UNCHANGED <<anchor, kernel>> /\ mail' \subseteq mail \cup {q} /\ Exists(q)
    BY <1>3 DEF Command
  <2> HIDE DEF q
  <2> QED
    BY <2>1, <2>2, MailLoses
<1>4. CASE \E r \in Run, k \in Id : AnyKitchenStep(r, k)
  BY <1>4, KitchenEffects
<1>5. CASE ClearKey
  <2>1. /\ anchor' = anchor /\ key \in Inode /\ mail' = mail \ {kernel[key]}
        /\ \A i \in Inode : kernel'[i] = IF i = key THEN None ELSE kernel[i]
        /\ kernel' \in [Inode -> Queue \cup {None}]
    BY <1>5 DEF ClearKey, Types
  <2>2. ASSUME NEW q \in mail'
        PROVE  q \in Queue /\ \E i \in Inode : kernel'[i] = q
    <3>1. q \in Queue /\ q # kernel[key]
      BY <2>1, <2>2 DEF Apart
    <3>2. PICK i \in Inode : kernel[i] = q
      BY <2>1, <2>2 DEF Apart, Exists
    <3>3. kernel'[i] = q
      BY <2>1, <3>1, <3>2
    <3> QED
      BY <3>1, <3>3
  <2> QED
    BY <2>1, <2>2 DEF Loses, Types
<1> QED
  BY <1>1, <1>2, <1>3, <1>4, <1>5, StepCases

\* What does not need a new queue for the paths in hand keeps keys and files
\* as they are.
LEMMA LosesKeepsApart ==
    ASSUME QueueInvariant, Loses, Types',
           run' = run, ~Over(run)' => ~Over(run),
           \A i \in Inode, path \in Path :
              kernel'[i] = <<run, path>> /\ ~Over(run)' /\ Made(path) => Made(path)'
    PROVE  Apart'
<1> USE DEF QueueInvariant
<1>1. \A p, q \in Path : anchor'[p] = anchor'[q] => p = q \/ anchor'[p] = None
  BY DEF Apart, Loses
<1>2. \A i, j \in Inode : kernel'[i] = kernel'[j] => i = j \/ kernel'[i] = None
  BY DEF Apart, Loses
<1>3. mail' \subseteq {q \in Queue : Exists(q)'}
  BY DEF Loses, Exists
<1>4. ASSUME NEW i \in Inode, kernel'[i] # None
      PROVE  /\ kernel'[i][1] <= run'
             /\ kernel'[i][1] = run' /\ ~Over(run)' => Made(kernel[i][2])'
  <2>1. kernel'[i] = kernel[i] /\ kernel[i] # None
    BY <1>4 DEF Loses
  <2>2. PICK r \in Run, path \in Path : kernel[i] = <<r, path>>
    BY <2>1 DEF Types, Queue
  <2>3. r <= run /\ (r = run /\ ~Over(run) => Made(path))
    <3>1. kernel[i][1] = r /\ kernel[i][2] = path
      BY <2>2
    <3>2. kernel[i][1] <= run /\ (kernel[i][1] = run /\ ~Over(run) => Made(kernel[i][2]))
      BY <2>1 DEF Apart
    <3> QED
      BY <3>1, <3>2
  <2>4. r = run' /\ ~Over(run)' => Made(path)'
    BY <2>1, <2>2, <2>3
  <2> QED
    BY <2>1, <2>2, <2>3, <2>4
<1> QED
  BY <1>1, <1>2, <1>3, <1>4 DEF Apart

\* A file takes a free inode; what is under its key is removed before the queue is
\* made, for a path that has had none in this run.
LEMMA ApartStep ==
    ASSUME QueueInvariant, [QueueNext]_vars, Types'
    PROVE  Apart'
<1> USE DEF QueueInvariant
<1>1. CASE Start
  <2>1. UNCHANGED <<anchor, kernel, mail>> /\ run' = run + 1 /\ run \in Int
    BY <1>1 DEF Start, kernelVars, Types
  <2>2. ASSUME NEW i \in Inode, kernel[i] # None
        PROVE  kernel[i][1] <= run + 1 /\ kernel[i][1] # run + 1
    <3>1. kernel[i][1] <= run
      BY <2>2 DEF Apart
    <3>2. kernel[i] \in Run \X Path
      BY <2>2 DEF Types, Queue
    <3>3. kernel[i][1] \in Int
      BY <3>2, QueueAssumption DEF Run
    <3> QED
      BY <2>1, <3>1, <3>3
  <2> QED
    BY <2>1, <2>2 DEF Apart, Exists
<1>2. CASE MakeAnchor
  <2>1. /\ key' \in Inode /\ UNCHANGED <<kernel, mail, run, pc, next>>
        /\ anchor' = [anchor EXCEPT ![Creating] = key']
        /\ \A p \in Path : p # Creating => anchor[p] # key'
        /\ Creating \in Path
    BY <1>2, CreatingIsNew, InodeIsApart DEF MakeAnchor
  <2>2. \A p \in Path : anchor'[p] = IF p = Creating THEN key' ELSE anchor[p]
    BY <2>1 DEF Types
  <2> HIDE DEF QueueInvariant
  <2>a. Types /\ Apart
    BY DEF QueueInvariant
  <2>3. \A p, q \in Path : anchor'[p] = anchor'[q] => p = q \/ anchor'[p] = None
    BY <2>a, <2>1, <2>2 DEF Apart
  <2> QED
    BY <2>a, <2>1, <2>3 DEF Apart, Exists, Over, Made
<1>3. CASE MakeQueue
  <2>1. /\ key \in Inode /\ kernel[key] = None /\ UNCHANGED <<anchor, mail, run, next>>
        /\ kernel' = [kernel EXCEPT ![key] = <<run, Creating>>]
        /\ pc' = IF pc = "createOrder" THEN "createResult" ELSE "fork"
        /\ pc \in {"createOrder", "createResult"}
    BY <1>3 DEF MakeQueue, AtHand, Types
  <2>2. PICK path \in Path : path = Creating
    BY <2>1, CreatingIsNew
  <2>a. ~Made(path) /\ path[2] = next /\ run \in Run
    BY <2>1, <2>2, CreatingIsNew
  <2>3. ~Over(run)
    BY <2>1, <2>a, QueueAssumption DEF Over, Types
  <2>4. \A i \in Inode : kernel'[i] = IF i = key THEN <<run, path>> ELSE kernel[i]
    BY <2>1, <2>2 DEF Types
  <2>5. ASSUME NEW i \in Inode, kernel[i] = <<run, path>>
        PROVE  FALSE
    <3>1. <<run, path>> \in Queue /\ kernel[i] # None
      BY <2>5, <2>a, QueueAssumption DEF Queue
    <3>2. kernel[i][1] = run /\ kernel[i][2] = path
      BY <2>5
    <3>3. Made(kernel[i][2])
      BY <2>3, <3>1, <3>2 DEF Apart
    <3> QED
      BY <2>a, <3>2, <3>3
  <2>6. \A i, j \in Inode : kernel'[i] = kernel'[j] => i = j \/ kernel'[i] = None
    BY <2>4, <2>5 DEF Apart
  <2>7. \A p \in Path : Made(p) => Made(p)'
    BY <2>1 DEF Made
  <2>8. Made(path)'
    BY <2>1, <2>2 DEF Made, Creating
  <2>9. ASSUME NEW i \in Inode, kernel'[i] # None
        PROVE  /\ kernel'[i][1] <= run'
               /\ kernel'[i][1] = run' /\ ~Over(run)' => Made(kernel[i][2])'
    <3>1. CASE i = key
      <4>1. kernel'[i][1] = run /\ kernel'[i][2] = path /\ run \in Int
        BY <2>4, <3>1 DEF Types
      <4> QED
        BY <2>1, <2>8, <4>1
    <3>2. CASE i # key
      <4>1. kernel'[i] = kernel[i]
        BY <2>4, <3>2
      <4>2. kernel[i][2] \in Path
        BY <2>9, <4>1 DEF Types, Queue
      <4> QED
        BY <2>1, <2>3, <2>7, <2>9, <4>1, <4>2 DEF Apart
    <3> QED
      BY <3>1, <3>2
  <2>10. ASSUME NEW q \in mail
         PROVE  q \in Queue /\ \E i \in Inode : kernel'[i] = q
    <3>1. q \in Queue /\ q # None
      BY <2>10, QueueAssumption DEF Apart
    <3>2. PICK i \in Inode : kernel[i] = q
      BY <2>10 DEF Apart, Exists
    <3> QED
      BY <2>1, <2>4, <3>1, <3>2
  <2> QED
    BY <2>1, <2>6, <2>9, <2>10 DEF Apart, Exists
<1>4. CASE SpawnFails
  <2>1. /\ run' = run /\ next' = next /\ pc' = "shutdown" /\ next \in Nat
        /\ pc \in {"createOrder", "createResult", "fork"}
    BY <1>4 DEF SpawnFails, BeginShutdown, Types
  <2> DEFINE paths == CASE pc = "createOrder" -> {}
                        [] pc = "createResult" -> {<<"order", next>>}
                        [] pc = "fork" -> Handles({next})
  <2>2. Drop(run, paths)
    BY <1>4 DEF SpawnFails
  <2>3. \A path \in Path : Made(path) => path[2] < next \/ path \in paths
    BY <2>1 DEF Made, Path, Handles
  <2> HIDE DEF paths
  <2>4. ASSUME NEW i \in Inode, NEW path \in Path, kernel'[i] = <<run, path>>, Made(path)
        PROVE  Made(path)'
    <3>1. run \in Run
      BY <2>1, QueueAssumption DEF AtHand, Types, Run
    <3>2. <<run, path>> # None
      BY <3>1, QueueAssumption DEF Queue
    <3>3. path \notin paths
      <4>1. kernel'[i] = IF kernel[i] \in {run} \X paths THEN None ELSE kernel[i]
        BY <2>2, Drops
      <4>2. <<run, path>> \notin {run} \X paths
        BY <2>4, <3>2, <4>1
      <4> QED
        BY <4>2
    <3> QED
      BY <2>1, <2>3, <2>4, <3>3 DEF Made
  <2>5. ~Over(run)
    BY <2>1 DEF Over, Types
  <2> QED
    BY <2>1, <2>2, <2>4, <2>5, DropLoses, LosesKeepsApart
<1>5. CASE Fork
  <2>1. run' = run /\ next' = next + 1 /\ pc' = "select" /\ pc = "fork" /\ next \in Nat
    BY <1>5 DEF Fork, Types
  <2>2. \A path \in Path : Made(path) => Made(path)'
    BY <2>1, QueueAssumption DEF Made, Path, Id
  <2>4. ~Over(run)
    BY <2>1 DEF Over, Types
  <2>5. Loses
    BY <1>5, OthersLose DEF Fork, MakeAnchor, MakeQueue, AtHand
  <2> QED
    BY <2>1, <2>2, <2>4, <2>5, LosesKeepsApart
<1>6. CASE OpenKitchen \/ EndOfInput \/ MeetsRemovedQueue \/ ReadFarewell \/ Reap \/ Command
           \/ CommandFails \/ Waited \/ DestroyHandle \/ End \/ Kill \/ ClearKey
           \/ UNCHANGED vars \/ \E r \in Run, k \in Id : AnyKitchenStep(r, k)
  <2>0. CASE MakeAnchor \/ MakeQueue
    BY <1>2, <1>3, <2>0
  <2> SUFFICES ASSUME ~MakeAnchor, ~MakeQueue
               PROVE  Apart'
    BY <2>0
  <2>1. Loses /\ run' = run /\ next' = next
    <3>1. run' = run /\ next' = next
      BY <1>6, KitchenEffects
      DEF OpenKitchen, EndOfInput, MeetsRemovedQueue, BeginShutdown, ReadFarewell, Reap, Command,
          CommandFails, Waited, DestroyHandle, End, Kill, ClearKey, vars, receptionVars
    <3> QED
      BY <3>1, OthersLose
  <2>2. (~Over(run)' => ~Over(run)) /\ \/ pc' = pc
                                       \/ pc \notin {"createResult", "fork"}
                                       \/ Over(run)'
    BY <1>6, KitchenEffects
    DEF OpenKitchen, EndOfInput, MeetsRemovedQueue, BeginShutdown, ReadFarewell, Reap, Command,
        CommandFails, Waited, DestroyHandle, End, Kill, ClearKey, vars, receptionVars, Over
  <2>3. \A path \in Path : Made(path) /\ ~Over(run)' => Made(path)'
    BY <2>1, <2>2 DEF Made
  <2> QED
    BY <2>1, <2>2, <2>3, LosesKeepsApart
<1> QED
  BY <1>1, <1>2, <1>3, <1>4, <1>5, <1>6, StepCases

\* Nobody but the reception makes a file.
LEMMA ClearedStep ==
    ASSUME QueueInvariant, [QueueNext]_vars, Types'
    PROVE  Cleared'
<1> USE DEF QueueInvariant
<1>1. CASE MakeAnchor
  <2>1. PICK path \in Path : path = Creating
    BY <1>1, CreatingIsNew DEF MakeAnchor
  <2>2. /\ Creating' = path
        /\ key' \in Inode /\ key' \in InodeFor(path)
        /\ anchor' = [anchor EXCEPT ![path] = key']
    BY <1>1, <2>1, CreatingIsNew, InodeIsApart DEF MakeAnchor, Creating
  <2>3. \A p \in Path : p # path => anchor[p] # key'
    BY <2>2, InodeIsApart
  <2> QED
    BY <2>1, <2>2, <2>3 DEF Cleared, Types
<1>2. CASE key' = None
  BY <1>2 DEF Cleared
<1>3. CASE ~MakeAnchor /\ key' # None
  <2>1. Loses
    BY <1>3, OthersLose DEF MakeQueue
  <2>2. key' = key /\ pc' = pc /\ next' = next
    <3>1. CASE \E r \in Run, k \in Id : AnyKitchenStep(r, k)
      BY <3>1, KitchenEffects DEF receptionVars
    <3>2. CASE UNCHANGED vars
      BY <3>2 DEF vars, receptionVars
    <3>3. CASE ~UNCHANGED vars /\ ~\E r \in Run, k \in Id : AnyKitchenStep(r, k)
      <4>1. key = None => key' = None \/ MakeAnchor
        BY <3>3, StepCases
        DEF Start, OpenKitchen, EndOfInput, ClearKey, MakeQueue, Fork, MeetsRemovedQueue,
            BeginShutdown, ReadFarewell, Reap, Command, CommandFails, Waited, DestroyHandle, End,
            SpawnFails, Kill, receptionVars
      <4>2. pc \in {"createOrder", "createResult"}
        BY <1>3, <4>1 DEF AtHand
      <4>3. MakeAnchor \/ ClearKey \/ MakeQueue \/ SpawnFails \/ Kill \/ Start
        BY <3>3, <4>2, StepCases
        DEF OpenKitchen, EndOfInput, Fork, MeetsRemovedQueue, ReadFarewell, Reap, Command,
            CommandFails, Waited, DestroyHandle, End
      <4> QED
        BY <1>3, <4>3 DEF Start, ClearKey, MakeQueue, SpawnFails, BeginShutdown, Kill, receptionVars
    <3> QED
      BY <3>1, <3>2, <3>3
  <2>3. PICK path \in Path : path = Creating
    BY <1>3, <2>2, CreatingIsNew DEF AtHand
  <2>4. Creating' = path
    BY <2>2, <2>3 DEF Creating
  <2>5. /\ anchor[path] \in {None, key}
        /\ \A p \in Path : p # path => anchor[p] # key
    BY <1>3, <2>2, <2>3 DEF Cleared
  <2>6. key \in Inode /\ key # None
    BY <1>3, <2>2 DEF Types
  <2> QED
    BY <2>1, <2>2, <2>3, <2>4, <2>5, <2>6 DEF Cleared, Loses
<1> QED
  BY <1>1, <1>2, <1>3

\* A file that is made again has an empty key or its own new queue.
LEMMA AnchoredStep ==
    ASSUME QueueInvariant, [QueueNext]_vars, Types'
    PROVE  Anchored'
<1> USE DEF QueueInvariant
<1>1. CASE Start
  <2>1. next' = 0 /\ pc' = "select"
    BY <1>1 DEF Start
  <2>2. \A path \in Path : ~Made(path)'
    BY <2>1, QueueAssumption DEF Made, Path, Id
  <2> QED
    BY <2>2 DEF Anchored
<1>2. CASE MakeAnchor
  <2>1. PICK path \in Path : path = Creating
    BY <1>2, CreatingIsNew DEF MakeAnchor
  <2>2. /\ ~Made(path) /\ UNCHANGED <<kernel, run, pc, next>>
        /\ anchor' = [anchor EXCEPT ![path] = key']
    BY <1>2, <2>1, CreatingIsNew DEF MakeAnchor
  <2>3. \A p \in Path : Made(p)' => Made(p) /\ p # path
    BY <2>2 DEF Made
  <2>4. ~Over(run)' => ~Over(run)
    BY <2>2 DEF Over
  <2> QED
    BY <2>2, <2>3, <2>4 DEF Anchored, Types
<1>3. CASE MakeQueue
  <2>1. PICK path \in Path : path = Creating
    BY <1>3, CreatingIsNew DEF MakeQueue, AtHand
  <2>2. /\ key # None /\ key \in Inode
        /\ kernel' = [kernel EXCEPT ![key] = <<run, path>>]
        /\ UNCHANGED <<run, next, anchor>>
        /\ pc \in {"createOrder", "createResult"}
        /\ pc' = IF pc = "createOrder" THEN "createResult" ELSE "fork"
    BY <1>3, <2>1 DEF MakeQueue, AtHand, Types
  <2>3. /\ anchor[path] \in {None, key}
        /\ \A p \in Path : p # path => anchor[p] # key
    BY <2>1, <2>2 DEF Cleared
  <2>4. \A p \in Path : Made(p)' => Made(p) \/ p = path
    BY <2>1, <2>2 DEF Made, Creating, Path
  <2>5. run \in Run
    BY <2>2, CreatingIsNew
  <2>6. ~Over(run)
    BY <2>2, <2>5, QueueAssumption DEF Over, Types
  <2>7. ASSUME NEW p \in Path, Made(p)', anchor'[p] # None
        PROVE  kernel'[anchor'[p]] \in {None, <<run', p>>}
    <3>1. CASE p = path
      BY <2>2, <2>3, <2>7, <3>1 DEF Types
    <3>2. CASE p # path
      <4>1. Made(p) /\ anchor[p] # key /\ anchor[p] # None /\ anchor[p] \in Inode
        BY <2>2, <2>3, <2>4, <2>7, <3>2 DEF Types
      <4>2. kernel[anchor[p]] \in {None, <<run, p>>}
        BY <2>6, <4>1 DEF Anchored
      <4> QED
        BY <2>2, <4>1, <4>2 DEF Types
    <3> QED
      BY <3>1, <3>2
  <2> QED
    BY <2>7 DEF Anchored
<1>4. CASE ~Start /\ ~MakeAnchor /\ ~MakeQueue
  <2>1. Loses
    BY <1>4, OthersLose
  <2>2. run' = run /\ \/ next' = next /\ pc' = pc
                      \/ next' = next /\ pc' \notin {"createResult", "fork"}
                      \/ Fork
    <3>1. CASE \E r \in Run, k \in Id : AnyKitchenStep(r, k)
      BY <3>1, KitchenEffects DEF receptionVars
    <3>2. CASE ~\E r \in Run, k \in Id : AnyKitchenStep(r, k)
      BY <1>4, <3>2, StepCases
      DEF OpenKitchen, EndOfInput, ClearKey, MeetsRemovedQueue, BeginShutdown, Fork,
          ReadFarewell, Reap, Command, CommandFails, Waited, DestroyHandle, End, SpawnFails, Kill,
          vars, receptionVars
    <3> QED
      BY <3>1, <3>2
  <2>3. ~Over(run)' => ~Over(run)
    <3>1. CASE \E r \in Run, k \in Id : AnyKitchenStep(r, k)
      BY <3>1, KitchenEffects DEF receptionVars, Over
    <3>2. CASE ~\E r \in Run, k \in Id : AnyKitchenStep(r, k)
      BY <1>4, <3>2, StepCases
      DEF OpenKitchen, EndOfInput, ClearKey, MeetsRemovedQueue, BeginShutdown, Fork,
          ReadFarewell, Reap, Command, CommandFails, Waited, DestroyHandle, End, SpawnFails, Kill,
          vars, receptionVars, Over
    <3> QED
      BY <3>1, <3>2
  <2>4. ASSUME NEW p \in Path, Made(p)'
        PROVE  Made(p)
    <3>1. CASE next' = next
      BY <2>2, <2>4, <3>1 DEF Made, Fork, Types
    <3>2. CASE Fork
      <4>1. pc = "fork" /\ pc' = "select" /\ next' = next + 1 /\ next \in Int /\ p[2] \in Int
            /\ p[1] \in {"order", "result"}
        BY <3>2, QueueAssumption DEF Fork, Types, Path, Id
      <4> QED
        BY <2>4, <4>1 DEF Made
    <3> QED
      BY <2>2, <3>1, <3>2
  <2>5. ASSUME NEW p \in Path, Made(p)', anchor'[p] # None, ~Over(run)'
        PROVE  kernel'[anchor'[p]] \in {None, <<run', p>>}
    <3>1. anchor'[p] = anchor[p] /\ anchor[p] \in Inode
      BY <2>1, <2>5 DEF Loses, Types
    <3>2. kernel[anchor[p]] \in {None, <<run, p>>}
      BY <2>3, <2>4, <2>5, <3>1 DEF Anchored
    <3> QED
      BY <2>1, <2>2, <3>1, <3>2 DEF Loses
  <2> QED
    BY <2>5 DEF Anchored
<1> QED
  BY <1>1, <1>2, <1>3, <1>4

\* What a kitchen of the present reception finds under a name is its own.
LEMMA FindsOwn ==
    ASSUME Types, Anchored, ~Over(run), NEW path \in Path, Made(path)
    PROVE  Found(path) \in {None, <<run, path>>}
  BY DEF Anchored, Found, Types

\* A process is born by Fork alone and opens what FindsOwn says.
LEMMA BornStep ==
    ASSUME QueueInvariant, [QueueNext]_vars, Types'
    PROVE  Born' /\ OwnQueuesOnly'
<1> USE DEF QueueInvariant
<1>1. CASE Start
  <2>1. run' = run + 1 /\ kitchen' = kitchen /\ run' \in Run /\ run \in Int
    BY <1>1, QueueAssumption DEF Start, Types, Run
  <2>2. \A r \in Run, k \in Id : r >= run' => kitchen[<<r, k>>] = Process("none", {})
    BY <2>1 DEF Born, Run
  <2>3. \A k \in Id : /\ kitchen[<<run', k>>].at = "none"
                      /\ kitchen[<<run', k>>].orders = None
                      /\ kitchen[<<run', k>>].results = None
    <3>1. run' >= run'
      BY <2>1
    <3> QED
      BY <2>1, <2>2, <3>1 DEF Process
  <2> QED
    BY <2>1, <2>2, <2>3 DEF Born, OwnQueuesOnly, Run
<1>2. CASE Fork
  <2>1. /\ run \in Run /\ next \in Id /\ run' = run /\ next' = next + 1 /\ roster \in SUBSET Id
        /\ kitchen' = [kitchen EXCEPT ![<<run, next>>] = Process("forked", roster)]
        /\ ~Over(run)
    BY <1>2, QueueAssumption DEF Fork, AtHand, Types, Run, Over
  <2> DEFINE p == Process("forked", roster)
  <2>2. p \in Proc /\ p.at = "forked" /\ p.orders = None /\ p.results = None
    BY <2>1, ProcessIsProc DEF At
  <2> HIDE DEF p
  <2>3. /\ kitchen'[<<run, next>>] = p
        /\ \A q \in Run, j \in Id : q # run \/ j # next => kitchen'[<<q, j>>] = kitchen[<<q, j>>]
    BY <2>1, <2>2 DEF Types, p
  <2>4. \A k \in Id : k \in Int
    BY QueueAssumption DEF Id
  <2>5. \A r \in Run, k \in Id : r > run' => kitchen'[<<r, k>>] = Process("none", {})
    BY <2>1, <2>3, QueueAssumption DEF Born, Run
  <2>6. \A k \in Id : kitchen'[<<run, k>>].at # "none" => k < next'
    BY <2>1, <2>3, <2>4 DEF Born
  <2>7. \A r \in Run, k \in Id :
            /\ kitchen'[<<r, k>>].at \in HasOrders <=> kitchen'[<<r, k>>].orders # None
            /\ kitchen'[<<r, k>>].at \in HasResults <=> kitchen'[<<r, k>>].results # None
    <3>1. "forked" \notin HasOrders /\ "forked" \notin HasResults
      BY DEF HasOrders, HasResults
    <3>2. ASSUME NEW r \in Run, NEW k \in Id, r # run \/ k # next
          PROVE  /\ kitchen'[<<r, k>>].at \in HasOrders <=> kitchen'[<<r, k>>].orders # None
                 /\ kitchen'[<<r, k>>].at \in HasResults <=> kitchen'[<<r, k>>].results # None
      BY <2>3, <3>2 DEF Born
    <3> QED
      BY <2>2, <2>3, <3>1, <3>2
  <2>8. \A k \in Id : /\ kitchen'[<<run, k>>].orders \in {None, OrderQueue(run, k)}
                      /\ kitchen'[<<run, k>>].results \in {None, ResultQueue(run, k)}
    BY <2>1, <2>2, <2>3 DEF OwnQueuesOnly
  <2> QED
    BY <2>1, <2>5, <2>6, <2>7, <2>8 DEF Born, OwnQueuesOnly
<1>3. ASSUME NEW r \in Run, NEW k \in Id, AnyKitchenStep(r, k)
      PROVE  Born' /\ OwnQueuesOnly'
  <2>1. PICK p : /\ kitchen' = [kitchen EXCEPT ![<<r, k>>] = p]
                 /\ Moves(kitchen[<<r, k>>], p, r, k)
    BY <1>3, KitchenMoves
  <2>2. /\ kitchen'[<<r, k>>] = p
        /\ \A q \in Run, j \in Id : q # r \/ j # k => kitchen'[<<q, j>>] = kitchen[<<q, j>>]
    BY <2>1, KitchenTypes
  <2>3. UNCHANGED <<run, pc, next>>
    BY <1>3, KitchenEffects DEF receptionVars
  <2> DEFINE o == kitchen[<<r, k>>]
  <2>4. o.at # "none" /\ ~(r > run)
    <3>1. o.at # "none"
      BY <2>1 DEF Moves
    <3> QED
      BY <3>1 DEF Born, Process
  <2>5. \A q \in Run, j \in Id : q > run' => kitchen'[<<q, j>>] = Process("none", {})
    BY <2>2, <2>3, <2>4 DEF Born
  <2>6. \A j \in Id : run' \in Run /\ kitchen'[<<run', j>>].at # "none" => j < next'
    BY <2>2, <2>3, <2>4 DEF Born
  <2>7. \A q \in Run, j \in Id :
            /\ kitchen'[<<q, j>>].at \in HasOrders <=> kitchen'[<<q, j>>].orders # None
            /\ kitchen'[<<q, j>>].at \in HasResults <=> kitchen'[<<q, j>>].results # None
    <3>1. /\ p.at \in HasOrders <=> p.orders # None
          /\ p.at \in HasResults <=> p.results # None
      BY <2>1 DEF Moves
    <3> QED
      BY <2>2, <3>1 DEF Born
  <2>8. ASSUME ~Over(run), r = run
        PROVE  p.orders \in {None, OrderQueue(r, k)} /\ p.results \in {None, ResultQueue(r, k)}
    <3>1. /\ o.orders \in {None, OrderQueue(r, k)}
          /\ o.results \in {None, ResultQueue(r, k)}
      BY <2>8 DEF OwnQueuesOnly
    <3>2. k < next
      BY <2>4, <2>8 DEF Born
    <3>3. /\ <<"order", k>> \in Path /\ Made(<<"order", k>>)
          /\ <<"result", k>> \in Path /\ Made(<<"result", k>>)
      BY <3>2 DEF Path, Made
    <3>4. /\ Found(<<"order", k>>) \in {None, OrderQueue(r, k)}
          /\ Found(<<"result", k>>) \in {None, ResultQueue(r, k)}
      BY <2>8, <3>3, FindsOwn DEF OrderQueue, ResultQueue
    <3> QED
      BY <2>1, <3>1, <3>4 DEF Moves
  <2>9. OwnQueuesOnly'
    <3>1. ~Over(run)' => ~Over(run)
      BY <2>3 DEF Over
    <3>2. SUFFICES ASSUME ~Over(run), NEW j \in Id
                   PROVE  /\ kitchen'[<<run, j>>].orders \in {None, OrderQueue(run, j)}
                          /\ kitchen'[<<run, j>>].results \in {None, ResultQueue(run, j)}
      BY <2>3, <3>1 DEF OwnQueuesOnly
    <3>3. CASE r = run /\ j = k
      BY <2>2, <2>8, <3>2, <3>3
    <3>4. CASE r # run \/ j # k
      <4>1. run \in Run
        BY <3>2, QueueAssumption DEF Types, AtHand, Run, Over
      <4> QED
        BY <2>2, <3>2, <3>4, <4>1 DEF OwnQueuesOnly
    <3> QED
      BY <3>3, <3>4
  <2> QED
    BY <2>5, <2>6, <2>7, <2>9 DEF Born
<1>4. CASE UNCHANGED <<run, next, kitchen>> /\ (~Over(run)' => ~Over(run))
  BY <1>4 DEF Born, OwnQueuesOnly
<1>5. CASE ~Start /\ ~Fork /\ ~\E r \in Run, k \in Id : AnyKitchenStep(r, k)
  <2>1. UNCHANGED <<run, next, kitchen>>
    BY <1>5, StepCases
    DEF OpenKitchen, EndOfInput, MakeAnchor, ClearKey, MakeQueue, MeetsRemovedQueue, BeginShutdown,
        ReadFarewell, Reap, Command, CommandFails, Waited, DestroyHandle, End, SpawnFails, Kill,
        vars, receptionVars
  <2>2. pc' = pc \/ Over(run)' \/ ~Over(run)
    <3>1. ~(run < run)
      BY DEF Types
    <3>2. key # None => pc \in {"createOrder", "createResult"}
      BY DEF AtHand
    <3> QED
      BY <1>5, <3>1, <3>2, <2>1, StepCases
      DEF OpenKitchen, EndOfInput, MakeAnchor, ClearKey, MakeQueue, MeetsRemovedQueue, BeginShutdown,
          ReadFarewell, Reap, Command, CommandFails, Waited, DestroyHandle, End, SpawnFails, Kill,
          vars, receptionVars, Over
  <2> QED
    BY <1>4, <2>1, <2>2 DEF Over
<1> QED
  BY <1>1, <1>2, <1>3, <1>5

\* The invariant holds when the first run has not begun.
LEMMA QueueInvariantInit ==
    ASSUME QueueInit
    PROVE  QueueInvariant
<1> USE DEF QueueInit
<1>1. MaxRuns \in Nat /\ MaxKitchens \in Nat /\ None \notin Inode
  BY QueueAssumption
<1>2. Process("none", {}) \in Proc
  BY ProcessIsProc DEF At
<1>3. Types
  BY <1>1, <1>2 DEF Types, Step
<1>4. AtHand /\ Cleared /\ Anchored /\ OwnQueuesOnly
  BY <1>1 DEF AtHand, Cleared, Anchored, OwnQueuesOnly, Over
<1>5. Apart
  BY DEF Apart
<1>6. Born
  BY <1>1, <1>3, QueueAssumption DEF Born, Process, HasOrders, HasResults, Run
<1> QED
  BY <1>3, <1>4, <1>5, <1>6 DEF QueueInvariant

\* And every step preserves it.
LEMMA QueueInvariantStep ==
    ASSUME QueueInvariant, [QueueNext]_vars
    PROVE  QueueInvariant'
BY TypesStep, AtHandStep, ApartStep, ClearedStep, AnchoredStep, BornStep DEF QueueInvariant

\* MessageQueue and LoadBalancer keep keys, files, queues and handles apart, in
\* every run, whatever was killed or has failed.
THEOREM QueueSafety == QueueSpec => []QueueInvariant
<1>1. QueueInit => QueueInvariant
  BY QueueInvariantInit
<1>2. QueueInvariant /\ [QueueNext]_vars => QueueInvariant'
  BY QueueInvariantStep
<1> QED
  BY <1>1, <1>2, PTL DEF QueueSpec

\* The types, and that no key and no file is shared.
THEOREM QueueTypeCorrect == QueueSpec => []QueueTypeOK
<1>1. QueueInvariant => QueueTypeOK
  <2> SUFFICES ASSUME QueueInvariant
               PROVE  QueueTypeOK
    OBVIOUS
  <2>1. /\ anchor \in [Path -> Inode \cup {None}] /\ kernel \in [Inode -> Queue \cup {None}]
        /\ roster \subseteq Id /\ next \in 0 .. MaxKitchens
    BY DEF QueueInvariant, Types
  <2>2. visit \subseteq roster /\ closing \in roster \cup {None}
    BY DEF QueueInvariant, AtHand
  <2>3. /\ mail \subseteq {q \in Queue : Exists(q)}
        /\ \A p, q \in Path : anchor[p] = anchor[q] => p = q \/ anchor[p] = None
        /\ \A i, j \in Inode : kernel[i] = kernel[j] => i = j \/ kernel[i] = None
    BY DEF QueueInvariant, Apart
  <2> QED
    BY <2>1, <2>2, <2>3 DEF QueueTypeOK
<1> QED
  BY <1>1, QueueSafety, PTL

\* MessageQueue::Create removes what it finds under its key; from then on, until
\* it makes its own queue, nobody puts another there.
THEOREM QueueKeyIsFree == QueueSpec => KeyStaysFree
<1>1. QueueInvariant /\ [QueueNext]_vars =>
        [key # None /\ key' = key /\ kernel[key] = None => kernel'[key] = None]_vars
  <2> SUFFICES ASSUME QueueInvariant, [QueueNext]_vars,
                      key # None, key' = key, kernel[key] = None
               PROVE  kernel'[key] = None
    OBVIOUS
  <2>1. ~MakeAnchor /\ ~MakeQueue
    BY DEF MakeAnchor, MakeQueue
  <2>2. key \in Inode
    BY DEF QueueInvariant, Types
  <2>3. Loses
    BY <2>1, OthersLose
  <2> QED
    BY <2>2, <2>3 DEF Loses
<1> QED
  BY <1>1, QueueSafety, PTL DEF QueueSpec, KeyStaysFree

\* The kitchens of a reception at work have opened the queues that it created,
\* whatever earlier runs have left under the same names.
THEOREM RunUsesItsOwnQueues == QueueSpec => []OwnQueuesOnly
<1>1. QueueInvariant => OwnQueuesOnly
  BY DEF QueueInvariant
<1> QED
  BY <1>1, QueueSafety, PTL

-----------------------------------------------------------------------------
(* Calm runs.                                                              *)

\* The queues held by a calm run are there and can be found.
LEMMA HeldQueues ==
    ASSUME CalmInvariant, calm, run \in Run, NEW path \in Path, Held(path)
    PROVE  /\ anchor[path] \in Inode /\ kernel[anchor[path]] = <<run, path>>
           /\ Exists(<<run, path>>)
           /\ Found(path) = <<run, path>>
           /\ <<run, path>> # None
<1>1. anchor[path] \in Inode /\ kernel[anchor[path]] = <<run, path>>
  BY DEF CalmInvariant, QueueInvariant, CalmInside, Types
<1>2. <<run, path>> # None
  BY QueueAssumption DEF Queue
<1> QED
  BY <1>1, <1>2, QueueAssumption DEF Exists, Found

\* In particular those of the kitchens in the roster.
LEMMA RosterQueues ==
    ASSUME CalmInvariant, calm, run \in Run, NEW k \in roster
    PROVE  /\ k \in Id
           /\ Exists(OrderQueue(run, k)) /\ Exists(ResultQueue(run, k))
           /\ Found(<<"order", k>>) = OrderQueue(run, k)
           /\ Found(<<"result", k>>) = ResultQueue(run, k)
           /\ OrderQueue(run, k) # None /\ ResultQueue(run, k) # None
<1>1. k \in Id
  BY DEF CalmInvariant, QueueInvariant, Types
<1>2. /\ <<"order", k>> \in Path /\ Held(<<"order", k>>)
      /\ <<"result", k>> \in Path /\ Held(<<"result", k>>)
  BY <1>1 DEF Path, Held
<1> QED
  BY <1>1, <1>2, HeldQueues DEF OrderQueue, ResultQueue

\* Only the kitchens of a calm run move, and they move on undisturbed.
LEMMA CalmKitchen ==
    ASSUME CalmInvariant, NEW r \in Run, NEW k \in Id, AnyKitchenStep(r, k), calm', run \in Run
    PROVE  /\ r = run /\ k \in roster
           /\ UNCHANGED <<anchor, kernel>>
           /\ kitchen[<<r, k>>].at \notin {"exited", "crashed"}
           /\ \E p : /\ kitchen' = [kitchen EXCEPT ![<<r, k>>] = p]
                     /\ p.at \notin Disturbed \cup {"none"}
                     /\ p.at \in HasOrders => p.orders = OrderQueue(run, k)
                     /\ p.at \in HasResults => p.results = ResultQueue(run, k)
                     /\ kitchen'[<<r, k>>] = p
                     /\ \A q \in Run, j \in Id :
                            q # r \/ j # k => kitchen'[<<q, j>>] = kitchen[<<q, j>>]
<1> DEFINE o == kitchen[<<r, k>>]
<1>1. Types /\ Born /\ Apart /\ calm
  BY KitchenEffects DEF CalmInvariant, QueueInvariant
<1>2. PICK p : kitchen' = [kitchen EXCEPT ![<<r, k>>] = p] /\ Moves(o, p, r, k)
  BY <1>1, KitchenMoves
<1>3. o.at \notin {"none", "stuck", "exited", "crashed", "aborted"}
  BY <1>2 DEF Moves
<1>4. r = run
  <2>1. ~(r < run)
    BY <1>1, <1>3 DEF CalmInvariant, CalmInside, Gone, Ended
  <2>2. ~(r > run)
    BY <1>1, <1>3 DEF Born, Process
  <2> QED
    BY <2>1, <2>2, QueueAssumption DEF Run
<1>5. /\ o.at \notin Disturbed
      /\ k \in roster
      /\ o.at \in HasOrders => o.orders = OrderQueue(run, k)
      /\ o.at \in HasResults => o.results = ResultQueue(run, k)
  BY <1>1, <1>3, <1>4 DEF CalmInvariant, CalmInside, Disturbed, HasOrders, HasResults
<1>6. UNCHANGED <<anchor, kernel>>
  BY <1>1, <1>5, KitchenEffects DEF Disturbed
<1>7. /\ Exists(OrderQueue(run, k)) /\ Exists(ResultQueue(run, k))
      /\ Found(<<"order", k>>) = OrderQueue(run, k)
      /\ Found(<<"result", k>>) = ResultQueue(run, k)
      /\ OrderQueue(run, k) # None /\ ResultQueue(run, k) # None
  BY <1>1, <1>5, RosterQueues
<1>8. o.at = "open" => o.at \in HasOrders
  BY DEF HasOrders
<1>9. p.at \notin Disturbed
  BY <1>2, <1>4, <1>5, <1>7, <1>8 DEF Moves
<1>10. /\ p.at \in HasOrders => p.orders = OrderQueue(run, k)
       /\ p.at \in HasResults => p.results = ResultQueue(run, k)
  <2>1. ASSUME p.at \in HasOrders
        PROVE  p.orders = OrderQueue(run, k)
    BY <1>2, <1>5, <1>7, <2>1 DEF Moves
  <2>2. ASSUME p.at \in HasResults
        PROVE  p.results = ResultQueue(run, k)
    <3>1. o.at \in HasOrders /\ (o.at # "half" => o.at \in HasResults)
      BY <1>2, <2>2 DEF Moves, HasOrders, HasResults
    <3> QED
      BY <1>2, <1>5, <1>7, <2>2, <3>1 DEF Moves
  <2> QED
    BY <2>1, <2>2
<1>11. /\ kitchen'[<<r, k>>] = p
       /\ \A q \in Run, j \in Id : q # r \/ j # k => kitchen'[<<q, j>>] = kitchen[<<q, j>>]
  BY <1>1, <1>2, KitchenTypes
<1>12. p.at # "none"
  BY <1>2 DEF Moves
<1> QED
  BY <1>2, <1>3, <1>4, <1>5, <1>6, <1>9, <1>10, <1>11, <1>12

\* Every step keeps the inside of a calm run, or ends the run.
LEMMA CalmInsideStep ==
    ASSUME CalmInvariant, [QueueNext]_vars, QueueInvariant'
    PROVE  CalmInside'
<1> SUFFICES ASSUME calm', run' \in Run
             PROVE  CalmInside'
  BY DEF CalmInside
<1> USE DEF CalmInvariant, QueueInvariant
<1>1. MaxRuns \in Nat /\ MaxKitchens \in Nat /\ Run \subseteq Int /\ Id \subseteq Int
  BY QueueAssumption DEF Run, Id
<1>a. \A path \in Path : path[1] \in {"order", "result"} /\ path[2] \in Int
  BY <1>1 DEF Path
<1>2. CASE Start
  <2>0. \A r \in Run, k \in Id : Gone(r, k)
    BY <1>2, Zenon DEF Start
  <2>1. /\ run' = run + 1 /\ kitchen' = kitchen /\ roster' = {} /\ pc' = "select" /\ key' = None
        /\ next' = 0 /\ run \in Int
    BY <1>2 DEF Start, Types
  <2>2. \A k \in Id : kitchen'[<<run', k>>].at = "none"
    BY <1>1, <2>1 DEF Born, Process
  <2>3. \A path \in Path : ~Held(path)'
    BY <2>1 DEF Held, Made, Path, Id
  <2>4. \A r \in Run, k \in Id : Gone(r, k)'
    BY <2>0, <2>1 DEF Gone, Ended
  <2>5. "none" \notin {"stuck", "aborted", "unwinding", "commanding"} \cup HasOrders \cup HasResults
    BY DEF HasOrders, HasResults
  <2> QED
    BY <2>1, <2>2, <2>3, <2>4, <2>5 DEF CalmInside, HasOrders, HasResults
<1> SUFFICES ASSUME ~Start
             PROVE  CalmInside'
  BY <1>2
<1>3. calm /\ run' = run /\ run \in Run
  <2>1. CASE \E r \in Run, k \in Id : AnyKitchenStep(r, k)
    BY <2>1, KitchenEffects DEF receptionVars
  <2>2. CASE ~\E r \in Run, k \in Id : AnyKitchenStep(r, k)
    BY <2>2, StepCases
    DEF OpenKitchen, EndOfInput, MakeAnchor, ClearKey, MakeQueue, MeetsRemovedQueue, BeginShutdown,
        Fork, ReadFarewell, Reap, Command, CommandFails, Waited, DestroyHandle, End, SpawnFails, Kill,
        vars, receptionVars, faultVars
  <2> QED
    BY <2>1, <2>2
<1> DEFINE Calm(k) ==
    /\ kitchen[<<run, k>>].at \notin Disturbed
    /\ kitchen[<<run, k>>].at \in {"none", "exited", "crashed"} \/ k \in roster
    /\ kitchen[<<run, k>>].at \in HasOrders => kitchen[<<run, k>>].orders = OrderQueue(run, k)
    /\ kitchen[<<run, k>>].at \in HasResults => kitchen[<<run, k>>].results = ResultQueue(run, k)
  Has(path) == anchor[path] # None /\ kernel[anchor[path]] = <<run, path>>
\* The parts of CalmInside, each to be shown for the step.
<1>4. /\ pc # "aborted"
      /\ \A r \in Run, k \in Id : r < run => Gone(r, k)
      /\ \A k \in Id : Calm(k)
      /\ \A path \in Path : Held(path) => Has(path)
      /\ key # None => anchor[Creating] = key
      /\ pc \in {"shutdown", "waitpid"} =>
            \A k \in roster \ visit : kitchen[<<run, k>>].at \in {"exited", "crashed"}
  BY <1>3 DEF CalmInside, Disturbed, HasOrders, HasResults
<1>5. SUFFICES
        /\ pc' # "aborted"
        /\ \A r \in Run, k \in Id : r < run => Gone(r, k)'
        /\ \A k \in Id : Calm(k)'
        /\ \A path \in Path : Held(path)' => Has(path)'
        /\ key' # None => anchor'[Creating'] = key'
        /\ pc' \in {"shutdown", "waitpid"} =>
              \A k \in roster' \ visit' : kitchen'[<<run, k>>].at \in {"exited", "crashed"}
  BY <1>3 DEF CalmInside, Disturbed, HasOrders, HasResults
<1>6. ASSUME kitchen' = kitchen
      PROVE  /\ \A r \in Run, k \in Id : r < run => Gone(r, k)'
             /\ roster \subseteq roster' => \A k \in Id : Calm(k)'
             /\ \A k \in Id : k \in roster' \/ kitchen[<<run, k>>].at \in {"none", "exited", "crashed"}
                    => Calm(k)'
  BY <1>3, <1>4, <1>6 DEF Gone, Ended
<1>7. CASE OpenKitchen \/ EndOfInput \/ MeetsRemovedQueue \/ ReadFarewell \/ Command \/ Waited \/ End
           \/ Kill \/ UNCHANGED vars
  <2>1. /\ kitchen' = kitchen /\ anchor' = anchor /\ kernel' = kernel /\ roster' = roster
        /\ next' = next /\ (key' = None \/ (key' = key /\ pc' = pc))
        /\ pc' # "aborted"
        /\ pc' = pc \/ pc' \notin {"createResult", "fork"}
    BY <1>4, <1>7
    DEF OpenKitchen, EndOfInput, MeetsRemovedQueue, ReadFarewell, Command, Waited, End, Kill,
        BeginShutdown, vars, kernelVars, receptionVars, AtHand
  <2>2. \A path \in Path : Held(path)' => Held(path) /\ Has(path)'
    BY <1>3, <1>4, <2>1 DEF Held, Made
  <2>3. key' # None => anchor'[Creating'] = key'
    BY <1>4, <2>1 DEF Creating
  <2>4. pc' \in {"shutdown", "waitpid"} =>
              \A k \in roster' \ visit' : kitchen'[<<run, k>>].at \in {"exited", "crashed"}
    <3>1. CASE OpenKitchen \/ End \/ Kill \/ ReadFarewell
      BY <3>1 DEF OpenKitchen, End, Kill, ReadFarewell
    <3>2. CASE EndOfInput \/ MeetsRemovedQueue
      BY <2>1, <3>2 DEF EndOfInput, MeetsRemovedQueue, BeginShutdown
    <3>3. CASE Command \/ UNCHANGED vars
      BY <1>4, <2>1, <3>3 DEF Command, vars, receptionVars
    <3>4. CASE Waited
      <4>1. pc = "waitpid" /\ visit' = visit \ {Min(visit)} /\ Ended(run, Min(visit))
        BY <3>4 DEF Waited
      <4>2. ASSUME NEW k \in roster, k \notin visit'
            PROVE  kitchen[<<run, k>>].at \in {"exited", "crashed"}
        <5>1. CASE k \notin visit
          BY <1>4, <4>1, <4>2, <5>1
        <5>2. CASE k = Min(visit)
          BY <1>4, <4>1, <5>2 DEF Ended, Types, Disturbed
        <5> QED
          BY <4>1, <4>2, <5>1, <5>2
      <4> QED
        BY <2>1, <4>2
    <3> QED
      BY <1>7, <3>1, <3>2, <3>3, <3>4
  <2> QED
    BY <1>6, <2>1, <2>2, <2>3, <2>4
<1>8. CASE CommandFails
  <2>1. Min(visit) \in roster /\ ~Exists(OrderQueue(run, Min(visit)))
    BY <1>8, MinIsIn DEF CommandFails, AtHand, Types
  <2> QED
    BY <1>3, <2>1, RosterQueues
<1>9. CASE MakeAnchor
  <2>1. PICK path \in Path : path = Creating
    BY <1>9, CreatingIsNew DEF MakeAnchor
  <2>2. /\ Creating' = path /\ path[2] = next /\ ~Made(path)
        /\ key' \in Inode
        /\ anchor' = [anchor EXCEPT ![path] = key']
        /\ UNCHANGED <<kernel, run, pc, next, roster, visit, kitchen>>
    BY <1>9, <2>1, CreatingIsNew, InodeIsApart DEF MakeAnchor, Creating
  <2>4. ASSUME NEW p \in Path, Held(p)'
        PROVE  Has(p)'
    <3>1. Held(p)
      BY <2>2, <2>4 DEF Held, Made
    <3>2. p # path
      BY <1>1, <2>2, <3>1 DEF Held, AtHand, Types
    <3>3. anchor'[p] = anchor[p]
      BY <2>2, <3>2 DEF Types
    <3> QED
      BY <1>3, <1>4, <2>2, <3>1, <3>3
  <2>5. anchor'[Creating'] = key'
    BY <2>2 DEF Types
  <2> QED
    BY <1>4, <1>6, <2>2, <2>4, <2>5
<1>10. CASE MakeQueue
  <2>1. PICK path \in Path : path = Creating
    BY <1>10, CreatingIsNew DEF MakeQueue, AtHand
  <2>2. /\ key # None /\ key \in Inode /\ kernel[key] = None /\ key' = None
        /\ kernel' = [kernel EXCEPT ![key] = <<run, path>>]
        /\ UNCHANGED <<run, next, anchor, roster, visit, kitchen>>
        /\ pc \in {"createOrder", "createResult"}
        /\ pc' = IF pc = "createOrder" THEN "createResult" ELSE "fork"
    BY <1>10, <2>1 DEF MakeQueue, AtHand, Types
  <2>3. anchor[path] = key
    BY <1>4, <2>1, <2>2
  <2>4. \A p \in Path : Held(p)' => Held(p) \/ p = path
    BY <2>1, <2>2 DEF Held, Made, Creating, Path
  <2>5. ASSUME NEW p \in Path, Held(p)'
        PROVE  Has(p)'
    <3>1. CASE p = path
      BY <1>3, <2>2, <2>3, <3>1 DEF Types
    <3>2. CASE p # path
      <4>1. anchor[p] # None /\ kernel[anchor[p]] = <<run, p>> /\ <<run, p>> # None
        BY <1>3, <1>4, <2>4, <2>5, <3>2, HeldQueues
      <4> QED
        BY <1>3, <2>2, <4>1 DEF Types
    <3> QED
      BY <3>1, <3>2
  <2> QED
    BY <1>4, <1>6, <2>2, <2>5
<1>11. CASE Fork
  <2>1. /\ next \in Id /\ next' = next + 1 /\ roster' = roster \cup {next}
        /\ kitchen' = [kitchen EXCEPT ![<<run, next>>] = Process("forked", roster)]
        /\ anchor' = anchor /\ kernel' = kernel /\ key' = None /\ pc' = "select" /\ pc = "fork"
    BY <1>11 DEF Fork, AtHand, kernelVars
  <2> DEFINE p == Process("forked", roster)
  <2>2. p \in Proc /\ p.at = "forked"
    BY ProcessIsProc DEF At, Types
  <2> HIDE DEF p
  <2>3. /\ kitchen'[<<run, next>>] = p
        /\ \A r \in Run, k \in Id : r # run \/ k # next => kitchen'[<<r, k>>] = kitchen[<<r, k>>]
    BY <1>3, <2>1, <2>2 DEF Types, p
  <2>4. \A path \in Path : Held(path)' => Held(path)
    <3>1. next \in Int
      BY <1>1, <2>1
    <3> QED
      BY <1>a, <2>1, <3>1 DEF Held, Made
  <2>5. \A k \in Id : Calm(k)'
    <3>1. "forked" \notin Disturbed \cup HasOrders \cup HasResults
      BY DEF Disturbed, HasOrders, HasResults
    <3>2. PICK n \in Id : n = next
      BY <2>1
    <3>a. Calm(n)'
      <4>1. kitchen'[<<run', n>>].at = "forked" /\ n \in roster'
        BY <1>3, <2>1, <2>2, <2>3, <3>2
      <4> QED
        BY <3>1, <4>1
    <3>3. ASSUME NEW k \in Id, k # next
          PROVE  Calm(k)'
      BY <1>3, <1>4, <2>1, <2>3, <3>3
    <3> QED
      BY <3>2, <3>a, <3>3
  <2>6. \A r \in Run, k \in Id : r < run => Gone(r, k)'
    BY <1>1, <1>3, <1>4, <2>3 DEF Gone, Ended
  <2> QED
    BY <1>3, <1>4, <2>1, <2>4, <2>5, <2>6
<1>12. CASE Reap
  <2>1. /\ closing \in roster /\ Ended(run, closing) /\ Drop(run, Handles({closing}))
        /\ roster' = roster \ {closing} /\ pc' = "select" /\ pc = "reap"
        /\ UNCHANGED <<run, key, next, visit, kitchen>>
    BY <1>12 DEF Reap, AtHand
  <2>2. kitchen[<<run, closing>>].at \in {"exited", "crashed"}
    BY <1>4, <2>1 DEF Ended, Types, Disturbed
  <2>3. ASSUME NEW path \in Path, Held(path)'
        PROVE  Has(path)'
    <3>1. path[2] \in roster /\ path[2] # closing
      BY <1>a, <2>1, <2>3 DEF Held, Made, Types
    <3>2. path \notin Handles({closing})
      BY <3>1 DEF Handles
    <3>3. anchor[path] \in Inode /\ kernel[anchor[path]] = <<run, path>>
      BY <1>3, <3>1, HeldQueues DEF Held
    <3> QED
      BY <1>3, <2>1, <3>2, <3>3, Drops, QueueAssumption
  <2>4. key' = None
    BY <2>1 DEF AtHand
  <2> QED
    BY <1>4, <1>6, <2>1, <2>2, <2>3, <2>4
<1>13. CASE DestroyHandle
  <2> DEFINE h == Min(roster)
  <2>1. /\ Drop(run, Handles({h})) /\ roster' = roster \ {h} /\ visit = {} /\ pc = "shutdown"
        /\ UNCHANGED <<run, pc, key, next, visit, kitchen>>
    BY <1>13 DEF DestroyHandle
  <2> HIDE DEF h
  <2>2. \A k \in roster : kitchen[<<run, k>>].at \in {"exited", "crashed"}
    BY <1>4, <2>1
  <2>3. ASSUME NEW path \in Path, Held(path)'
        PROVE  Has(path)'
    <3>1. path[2] \in roster /\ path[2] # h
      BY <1>a, <2>1, <2>3 DEF Held, Made, Types
    <3>2. path \notin Handles({h})
      BY <3>1 DEF Handles
    <3>3. anchor[path] \in Inode /\ kernel[anchor[path]] = <<run, path>>
      BY <1>3, <3>1, HeldQueues DEF Held
    <3> QED
      BY <1>3, <2>1, <3>2, <3>3, Drops, QueueAssumption
  <2>4. key' = None
    BY <2>1 DEF AtHand
  <2>5. \A k \in Id : k \in roster' \/ kitchen[<<run, k>>].at \in {"none", "exited", "crashed"}
    BY <1>4, <2>1, <2>2
  <2> QED
    BY <1>4, <1>6, <2>1, <2>2, <2>3, <2>4, <2>5
<1>14. CASE SpawnFails
  <2> DEFINE paths == CASE pc = "createOrder" -> {}
                        [] pc = "createResult" -> {<<"order", next>>}
                        [] pc = "fork" -> Handles({next})
  <2>1. /\ Drop(run, paths) /\ pc' = "shutdown" /\ key' = None /\ visit' = roster
        /\ UNCHANGED <<run, next, roster, kitchen>>
        /\ pc \in {"createOrder", "createResult", "fork"}
    BY <1>14 DEF SpawnFails, BeginShutdown
  <2>2. \A path \in paths : path[2] = next
    BY <2>1 DEF Handles
  <2> HIDE DEF paths
  <2>3. ASSUME NEW path \in Path, Held(path)'
        PROVE  Has(path)'
    <3>1. path[2] \in roster
      BY <2>1, <2>3 DEF Held, Made, Types
    <3>2. path \notin paths
      BY <2>2, <3>1 DEF AtHand, Types
    <3>3. anchor[path] \in Inode /\ kernel[anchor[path]] = <<run, path>>
      BY <1>3, <3>1, HeldQueues DEF Held
    <3> QED
      BY <1>3, <2>1, <3>2, <3>3, Drops, QueueAssumption
  <2> QED
    BY <1>6, <2>1, <2>3
<1>15. CASE ClearKey
  <2>1. /\ key \in Inode /\ kernel' = [kernel EXCEPT ![key] = None]
        /\ UNCHANGED <<anchor, receptionVars, kitchen>>
        /\ pc \in {"createOrder", "createResult"}
    BY <1>15 DEF ClearKey, AtHand, Types
  <2>2. PICK path \in Path : path = Creating
    BY <2>1, CreatingIsNew
  <2>3. path[2] = next /\ ~Made(path)
    BY <2>1, <2>2, CreatingIsNew
  <2>4. ASSUME NEW p \in Path, Held(p)'
        PROVE  Has(p)'
    <3>1. Held(p)
      BY <2>1, <2>4 DEF Held, Made, receptionVars
    <3>2. p # path
      BY <1>1, <2>3, <3>1 DEF Held, AtHand, Types
    <3>3. anchor[p] # key /\ anchor[p] \in Inode
      BY <1>4, <2>1, <2>2, <3>1, <3>2, QueueAssumption DEF Cleared, Types
    <3>4. kernel'[anchor[p]] = kernel[anchor[p]]
      BY <2>1, <3>3 DEF Types
    <3> QED
      BY <1>3, <1>4, <2>1, <3>1, <3>4
  <2>5. key' # None => anchor'[Creating'] = key'
    BY <1>4, <2>1 DEF Creating, receptionVars
  <2> QED
    BY <1>4, <1>6, <2>1, <2>4, <2>5 DEF receptionVars
<1>16. CASE \E r \in Run, k \in Id : AnyKitchenStep(r, k)
  <2>0. PICK r \in Run, k \in Id : AnyKitchenStep(r, k)
    BY <1>16
  <2>1. UNCHANGED receptionVars
    BY <2>0, KitchenEffects
  <2>2. r = run /\ k \in roster /\ UNCHANGED <<anchor, kernel>>
        /\ kitchen[<<r, k>>].at \notin {"exited", "crashed"}
    BY <1>3, <2>0, CalmKitchen
  <2>3. PICK p : /\ kitchen' = [kitchen EXCEPT ![<<r, k>>] = p]
                 /\ p.at \notin Disturbed \cup {"none"}
                 /\ p.at \in HasOrders => p.orders = OrderQueue(run, k)
                 /\ p.at \in HasResults => p.results = ResultQueue(run, k)
                 /\ kitchen'[<<r, k>>] = p
                 /\ \A q \in Run, j \in Id :
                        q # r \/ j # k => kitchen'[<<q, j>>] = kitchen[<<q, j>>]
    BY <1>3, <2>0, CalmKitchen
  <2>4. \A j \in Id : Calm(j)'
    <3>1. Calm(k)'
      BY <1>3, <2>1, <2>2, <2>3 DEF receptionVars
    <3>2. ASSUME NEW j \in Id, j # k
          PROVE  Calm(j)'
      BY <1>3, <1>4, <2>1, <2>2, <2>3, <3>2 DEF receptionVars
    <3> QED
      BY <3>1, <3>2
  <2>5. \A path \in Path : Held(path)' => Has(path)'
    BY <1>3, <1>4, <2>1, <2>2 DEF Held, Made, receptionVars
  <2>6. \A q \in Run, j \in Id : q < run => Gone(q, j)'
    BY <1>1, <1>3, <1>4, <2>2, <2>3 DEF Gone, Ended
  <2>7. key' # None => anchor'[Creating'] = key'
    BY <1>4, <2>1, <2>2 DEF receptionVars, Creating
  <2>8. pc' \in {"shutdown", "waitpid"} =>
            \A j \in roster' \ visit' : kitchen'[<<run, j>>].at \in {"exited", "crashed"}
    BY <1>3, <1>4, <2>1, <2>2, <2>3 DEF receptionVars, Types
  <2> QED
    BY <1>4, <2>1, <2>4, <2>5, <2>6, <2>7, <2>8 DEF receptionVars
<1> QED
  BY <1>7, <1>8, <1>9, <1>10, <1>11, <1>12, <1>13, <1>14, <1>15, <1>16, StepCases

\* What a calm run makes goes with its handle.
LEMMA CalmTidyStep ==
    ASSUME CalmInvariant, [QueueNext]_vars, QueueInvariant'
    PROVE  CalmTidy'
<1> SUFFICES ASSUME calm', run' \in Run, pc' # "killed"
             PROVE  CalmTidy'
  BY DEF CalmTidy
<1> USE DEF CalmInvariant, QueueInvariant
<1> DEFINE Opening == pc \in {"createOrder", "createResult", "fork"}
<1>1. /\ Id \subseteq Int /\ Run \subseteq Int
      /\ \A path \in Path : path[1] \in {"order", "result"} /\ path[2] \in Int
  BY QueueAssumption DEF Run, Id, Path
<1>2. CASE Start
  <2>1. run' = run + 1 /\ run \in Int /\ next' = 0 /\ kernel' = kernel /\ anchor' = anchor
    BY <1>2 DEF Start, kernelVars, Types
  <2>2. ASSUME NEW path \in Path, NEW i \in Inode, kernel[i] = <<run', path>>
        PROVE  FALSE
    <3>1. <<run', path>> # None /\ <<run', path>>[1] = run'
      BY QueueAssumption DEF Queue
    <3>2. kernel[i][1] <= run
      BY <2>2, <3>1 DEF Apart
    <3> QED
      BY <2>1, <2>2, <3>1, <3>2
  <2>3. \A path \in Path : ~(path[2] < 0)
    BY QueueAssumption DEF Path, Id
  <2> QED
    BY <2>1, <2>2, <2>3 DEF CalmTidy
<1> SUFFICES ASSUME ~Start
             PROVE  CalmTidy'
  BY <1>2
<1>3. calm /\ run' = run /\ run \in Run /\ pc # "killed"
  <2>1. CASE \E r \in Run, k \in Id : AnyKitchenStep(r, k)
    BY <2>1, KitchenEffects DEF receptionVars
  <2>2. CASE ~\E r \in Run, k \in Id : AnyKitchenStep(r, k)
    <3>1. key # None => pc \in {"createOrder", "createResult"}
      BY DEF AtHand
    <3> QED
      BY <2>2, <3>1, StepCases
      DEF OpenKitchen, EndOfInput, MakeAnchor, ClearKey, MakeQueue, MeetsRemovedQueue, BeginShutdown,
          Fork, ReadFarewell, Reap, Command, CommandFails, Waited, DestroyHandle, End, SpawnFails, Kill,
          vars, receptionVars, faultVars
  <2> QED
    BY <2>1, <2>2
\* The two parts of CalmTidy.
<1>4. /\ \A path \in Path, i \in Inode :
            kernel[i] = <<run, path>> => path[2] \in roster \/ (Opening /\ path[2] = next)
      /\ \A path \in Path :
            failures = 0 /\ path[2] < next /\ anchor[path] # None => path[2] \in roster
  BY <1>3 DEF CalmTidy
<1>5. SUFFICES
        /\ \A path \in Path, i \in Inode :
              kernel'[i] = <<run, path>> => path[2] \in roster' \/ (Opening' /\ path[2] = next')
        /\ \A path \in Path :
              failures' = 0 /\ path[2] < next' /\ anchor'[path] # None => path[2] \in roster'
  BY <1>3 DEF CalmTidy
<1>6. \A path \in Path : <<run, path>> # None
  BY <1>3, QueueAssumption DEF Queue
<1>7. CASE OpenKitchen \/ EndOfInput \/ MeetsRemovedQueue \/ ReadFarewell \/ Command \/ CommandFails
           \/ Waited \/ End \/ UNCHANGED vars
  <2>1. /\ anchor' = anchor /\ kernel' = kernel /\ next' = next /\ roster' = roster
        /\ failures' = failures /\ (Opening => Opening')
    BY <1>7
    DEF OpenKitchen, EndOfInput, MeetsRemovedQueue, ReadFarewell, Command, CommandFails, Waited, End,
        BeginShutdown, vars, kernelVars, receptionVars, faultVars
  <2> QED
    BY <1>4, <2>1
<1>8. CASE MakeAnchor
  <2>1. PICK path \in Path : path = Creating
    BY <1>8, CreatingIsNew DEF MakeAnchor
  <2>2. /\ path[2] = next /\ next \in Int /\ key' \in Inode
        /\ anchor' = [anchor EXCEPT ![path] = key']
        /\ UNCHANGED <<kernel, pc, next, roster, failures>>
    BY <1>8, <2>1, CreatingIsNew, InodeIsApart DEF MakeAnchor, Types, faultVars
  <2>3. ASSUME NEW p \in Path, failures' = 0, p[2] < next', anchor'[p] # None
        PROVE  p[2] \in roster'
    <3>1. p # path
      BY <2>2, <2>3
    <3>2. anchor'[p] = anchor[p]
      BY <2>2, <3>1 DEF Types
    <3> QED
      BY <1>4, <2>2, <2>3, <3>2
  <2> QED
    BY <1>4, <2>2, <2>3
<1>9. CASE MakeQueue
  <2>1. PICK path \in Path : path = Creating
    BY <1>9, CreatingIsNew DEF MakeQueue, AtHand
  <2>2. /\ path[2] = next /\ key \in Inode
        /\ kernel' = [kernel EXCEPT ![key] = <<run, path>>]
        /\ UNCHANGED <<anchor, next, roster, failures>>
        /\ Opening /\ Opening'
    BY <1>9, <2>1, CreatingIsNew DEF MakeQueue, AtHand, Types, faultVars
  <2>3. ASSUME NEW p \in Path, NEW i \in Inode, kernel'[i] = <<run, p>>
        PROVE  p[2] \in roster' \/ (Opening' /\ p[2] = next')
    <3>1. CASE i = key
      <4>1. <<run, p>> = <<run, path>>
        BY <2>2, <2>3, <3>1 DEF Types
      <4>2. p = path
        BY <4>1
      <4> QED
        BY <2>2, <4>2
    <3>2. CASE i # key
      <4>1. kernel[i] = <<run, p>>
        BY <2>2, <2>3, <3>2 DEF Types
      <4> QED
        BY <1>4, <2>2, <4>1
    <3> QED
      BY <3>1, <3>2
  <2> QED
    BY <1>4, <2>2, <2>3
<1>10. CASE Fork
  <2>1. /\ next \in Int /\ next' = next + 1 /\ roster' = roster \cup {next}
        /\ anchor' = anchor /\ kernel' = kernel /\ failures' = failures
    BY <1>10 DEF Fork, Types, kernelVars, faultVars
  <2> QED
    BY <1>1, <1>4, <2>1
<1>11. CASE Reap \/ DestroyHandle
  <2>1. PICK h : /\ Drop(run, Handles({h})) /\ roster' = roster \ {h}
                 /\ next' = next /\ failures' = failures /\ ~Opening
    BY <1>11 DEF Reap, DestroyHandle, faultVars
  <2>2. \A path \in Path : path[2] = h => path \in Handles({h})
    BY DEF Path, Handles
  <2>3. ASSUME NEW path \in Path, NEW i \in Inode, kernel'[i] = <<run, path>>
        PROVE  path[2] \in roster'
    <3>1. kernel'[i] = IF kernel[i] \in {run} \X Handles({h}) THEN None ELSE kernel[i]
      BY <2>1, Drops
    <3>2. kernel[i] = <<run, path>> /\ <<run, path>> \notin {run} \X Handles({h})
      BY <1>6, <2>3, <3>1
    <3>3. path \notin Handles({h})
      BY <3>2
    <3> QED
      BY <1>4, <2>1, <2>2, <3>2, <3>3
  <2>4. ASSUME NEW path \in Path, failures' = 0, path[2] < next', anchor'[path] # None
        PROVE  path[2] \in roster'
    <3>1. anchor'[path] = IF path \in Handles({h}) THEN None ELSE anchor[path]
      BY <2>1, Drops
    <3> QED
      BY <1>4, <2>1, <2>2, <2>4, <3>1
  <2> QED
    BY <2>3, <2>4
<1>12. CASE SpawnFails
  <2> DEFINE paths == CASE pc = "createOrder" -> {}
                        [] pc = "createResult" -> {<<"order", next>>}
                        [] pc = "fork" -> Handles({next})
  <2>1. /\ Drop(run, paths) /\ next' = next /\ roster' = roster /\ next \in Int
        /\ Opening /\ ~Over(run)
    BY <1>3, <1>12, QueueAssumption DEF SpawnFails, BeginShutdown, Types, Over
  <2>2. \A path \in Path : Made(path) => path[2] < next \/ path \in paths
    BY <2>1 DEF Made, Path, Handles
  <2> HIDE DEF paths
  <2>3. failures' # 0
    BY <1>12 DEF SpawnFails, Types
  <2>4. ASSUME NEW path \in Path, NEW i \in Inode, kernel'[i] = <<run, path>>
        PROVE  path[2] \in roster'
    <3>1. kernel'[i] = IF kernel[i] \in {run} \X paths THEN None ELSE kernel[i]
      BY <2>1, Drops
    <3>2. kernel[i] = <<run, path>> /\ <<run, path>> \notin {run} \X paths
      BY <1>6, <2>4, <3>1
    <3>3. path \notin paths
      BY <3>2
    <3>4. kernel[i] # None /\ kernel[i][1] = run /\ kernel[i][2] = path
      BY <1>6, <3>2
    <3>5. Made(kernel[i][2])
      BY <2>1, <3>4 DEF Apart
    <3>6. path[2] < next
      BY <2>2, <3>3, <3>4, <3>5
    <3> QED
      BY <1>1, <1>4, <2>1, <3>2, <3>6
  <2> QED
    BY <2>3, <2>4
<1>13. CASE \E r \in Run, k \in Id : AnyKitchenStep(r, k)
  <2>1. PICK r \in Run, k \in Id : AnyKitchenStep(r, k)
    BY <1>13
  <2>2. UNCHANGED receptionVars /\ (failures' = 0 => failures = 0)
    BY <2>1, KitchenEffects
  <2>3. UNCHANGED <<anchor, kernel>>
    BY <1>3, <2>1, CalmKitchen
  <2> QED
    BY <1>4, <2>2, <2>3 DEF receptionVars
<1>14. CASE ClearKey
  <2>1. /\ \A i \in Inode : kernel'[i] \in {kernel[i], None}
        /\ UNCHANGED <<anchor, pc, next, roster, failures>>
    BY <1>14 DEF ClearKey, Types, receptionVars, faultVars
  <2>2. ASSUME NEW path \in Path, NEW i \in Inode, kernel'[i] = <<run, path>>
        PROVE  path[2] \in roster' \/ (Opening' /\ path[2] = next')
    <3>1. kernel[i] = <<run, path>>
      BY <1>6, <2>1, <2>2
    <3> QED
      BY <1>4, <2>1, <3>1 DEF Opening
  <2> QED
    BY <1>4, <2>1, <2>2
<1>15. ~Kill
  BY DEF Kill
<1> QED
  BY <1>7, <1>8, <1>9, <1>10, <1>11, <1>12, <1>13, <1>14, <1>15, StepCases

\* There is no run yet.
LEMMA CalmInit ==
    ASSUME QueueInit
    PROVE  CalmInside /\ CalmTidy
BY QueueAssumption DEF QueueInit, CalmInside, CalmTidy, Run

\* The invariant of calm runs.
LEMMA CalmSafety == QueueSpec => []CalmInvariant
<1>1. QueueInit => CalmInvariant
  BY QueueInvariantInit, CalmInit DEF CalmInvariant
<1>2. CalmInvariant /\ [QueueNext]_vars => CalmInvariant'
  <2> SUFFICES ASSUME CalmInvariant, [QueueNext]_vars
               PROVE  CalmInvariant'
    OBVIOUS
  <2>1. QueueInvariant'
    BY QueueInvariantStep DEF CalmInvariant
  <2> QED
    BY <2>1, CalmInsideStep, CalmTidyStep DEF CalmInvariant
<1> QED
  BY <1>1, <1>2, PTL DEF QueueSpec

\* A run of LoadBalancer and its kitchens that begins when the orphans of a
\* killed one are gone is not disturbed by the queues and files they have left.
THEOREM CalmRunsAreUndisturbed == QueueSpec => []CalmRunIsUndisturbed
<1>1. CalmInvariant => CalmRunIsUndisturbed
  <2> SUFFICES ASSUME CalmInvariant, calm, run \in Run
               PROVE  /\ pc # "aborted"
                      /\ \A k \in Id : kitchen[<<run, k>>].at
                            \notin {"stuck", "aborted", "unwinding", "commanding"}
                      /\ \A k \in roster :
                            Exists(OrderQueue(run, k)) /\ Exists(ResultQueue(run, k))
    BY DEF CalmRunIsUndisturbed
  <2>1. \A k \in roster : Exists(OrderQueue(run, k)) /\ Exists(ResultQueue(run, k))
    BY RosterQueues
  <2> QED
    BY <2>1 DEF CalmInvariant, CalmInside
<1> QED
  BY <1>1, CalmSafety, PTL

\* Such a run, when main returns, has no process and no queue left; and no
\* anchor file, unless a kitchen could not be opened.
THEOREM CalmRunsEndClean == QueueSpec => []CleanEnd
<1>1. CalmInvariant => CleanEnd
  <2> SUFFICES ASSUME CalmInvariant, calm, run \in Run, pc = "ended"
               PROVE  /\ \A k \in Id : Gone(run, k)
                      /\ \A q \in Queue : Exists(q) => q[1] # run
                      /\ failures = 0 =>
                            \A path \in Path : path[2] < next => anchor[path] = None
    BY DEF CleanEnd
  <2>1. roster = {}
    BY DEF CalmInvariant, QueueInvariant, AtHand
  <2>2. \A k \in Id : Gone(run, k)
    BY <2>1 DEF CalmInvariant, CalmInside, Gone, Ended
  <2>3. ASSUME NEW q \in Queue, Exists(q), q[1] = run
        PROVE  FALSE
    <3>1. PICK i \in Inode : kernel[i] = q
      BY <2>3 DEF Exists
    <3>2. PICK path \in Path : q = <<run, path>>
      BY <2>3 DEF Queue
    <3> QED
      BY <2>1, <3>1, <3>2 DEF CalmInvariant, CalmTidy
  <2>4. failures = 0 => \A path \in Path : path[2] < next => anchor[path] = None
    BY <2>1 DEF CalmInvariant, CalmTidy
  <2> QED
    BY <2>2, <2>3, <2>4
<1> QED
  BY <1>1, CalmSafety, PTL
=============================================================================

# Plazza in TLA+

Plazza simulates a pizza restaurant: a reception process reads orders, forks kitchen processes when
the existing ones are full, and talks to each through two System V message queues; each kitchen runs a
thread pool of cooks around a stock of ingredients that regenerates. This directory holds TLA+ models
of its core, the TLC configurations that check them, and proofs checked by TLAPS.

Paths below are relative to the repository's root; the C++ code is under `src/`, the assignment it
implements is `doc/subject.md`. Line numbers are in `PROJECT.json`, definition by definition.

## 1. Inventory

| Component | State | Operations | Talks to |
|---|---|---|---|
| Shell (`shell/Shell.cpp`) | `running_`, callbacks; the buffer of stdin | `run` (select, 100 ms), `handleLine` | calls the parser and main's callbacks |
| Parser (`parser/Parser.cpp`) | none | `parse`, `parseLine`, `parseType`, `parseSize`, `parseNumber` | - |
| main (`main.cpp`) | `pendingOrders`, `nextOrderId` | order, status, poll and done callbacks | load balancer |
| LoadBalancer (`reception/loadBalancer`) | `kitchens_` (handles: load, alive, pendingCooks), `nextKitchenId_` | `dispatch`, `updateKitchens`, `getStatus`, `shutdown`, one handler per packet type | the kitchens' queues; `waitpid`; the done callback |
| MessageQueue (`ipc/MessageQueue.cpp`) | a System V queue, an anchor file, `owner_` | create, open, `send` (blocking), `receive` (non-blocking), removal | the kernel |
| KitchenWorker (`kitchen/KitchenWorker.cpp`) | the loop of `run`, `lastActiveTime` | `run`, `handlePacket`, `sendStatusResponse`, `isIdle` | the pool, the stock, both queues |
| ThreadPool (`kitchen/threadPool`) | `_queue`, `_load`, `_running`, threads | `start`, `addPizza`, `workerLoop`, `stop`, the defaulted destructor | the cooks |
| Cook (`kitchen/cook`) | `state_` and the current pizza | `cookPizza`, `status` | the stock, the result queue |
| IngredientStock (`kitchen/IngredientStock`) | `stock_`, `running_`, its thread | `waitAndConsumeIngredients`, `regenLoop`, destructor | cooks wait in its condition variable |
| Pizza, PizzaFactory (`pizza`) | the registry of prototypes | `create` | - |
| Mutex, ConditionVariable, Thread, Process (`concurrency`) | POSIX handles | lock, wait, notify, join, fork, waitpid | - |
| PizzaSerializer (`ipc`) | none | `pack`, `unpack` | - |
| Display, Logger, exceptions | none worth modelling | formatting and I/O | - |

The reception is single-threaded: select, poll, or one call at a time. A kitchen has a main thread that
polls its order queue, N cooks, and the thread of the stock. Only the queues are shared between
processes.

What is hard: the cooks' monitor and its destruction (members die in an order in which the mutex goes
before the threads are joined); `_load` changing outside the mutex; two counts of the same load, one in
each process, kept together by messages; kitchens that close on their own while the reception still
sends to them; a status protocol that interleaves with pizzas being done; waiting (`waitpid`, `getStatus`)
inside a single-threaded reception; queues and anchor files that are found by name and outlive their
processes; an exception in a forked child that unwinds copies of the parent's handles; two buffers between
what is typed and what is handled. `PROJECT.json` lists each hazard at its line.

What makes each component correct:

* pool: exact load, at most 2 x N pizzas, no lost pizza, no lost wakeup, a stop that drains and joins;
* stock: no piece handed out that was not there, no count that wraps below 0, no sleeper beside a full shelf,
  a destructor that wakes whoever sleeps;
* kitchen: what is accepted is reported, the farewell comes last, statuses make sense, it ends;
* reception: its loads are the kitchens' loads, dispatch is balanced, every call returns, every order is
  announced;
* queues: a run uses its own, what a killed run has left disturbs nobody, an orderly end leaves nothing;
* shell: every line typed is handled once, in order and in time, and the kitchens are read meanwhile;
* parser, serializer, factory: a line is taken in one way only, and the cooks get what was ordered.

## 2. Modules

```
Menu                  recipes and ingredients
ThreadPool            one pool                       <- ThreadPoolProofs
IngredientStock       one stock                      <- IngredientStockProofs
Kitchen               = ThreadPool + IngredientStock + cooks + main thread + its end of the reception
                      <- KitchenProofs, with DataLemmas
KitchenContract       what a kitchen promises to the reception; Kitchen implements it
ReceptionContract     what the reception promises to the kitchens; Reception keeps it
Reception             main, LoadBalancer and all kitchens, each a KitchenContract
                      <- ReceptionProofs, with DataLemmas
QueueLifetime         queues, anchor files and processes over several runs   <- QueueLifetimeProofs
Shell                 Shell::run, handleLine and the buffers of stdin         <- ShellProofs
Orders                a line from the parser to the cooks, with Menu         <- OrdersProofs, with DataLemmas
DataLemmas            lemmas about numbers and sequences
MC...                 model-checking instances
```

**ThreadPool.** Every critical section of `_queueMutex` is one action. A cook is at the top of its loop
(`loop`), blocked in the condition variable (`waiting`), notified or woken spuriously but without the
mutex yet (`woken`), `cooking`, or `gone`. `AddPizza`, `Stop`/`NotifyAll`, `CookWaits`, `CookTakes`,
`CookLeaves`, `CookFinishes` are the code's sections; `DestroyMutex`, `FreeQueue` and `Join` are the
steps of the defaulted destructor. What happens to a cook that meets a destroyed mutex is undefined; the
outcomes modelled are glibc's: `pthread_cond_destroy` waits for blocked threads, `pthread_mutex_destroy`
fails (ignored) while the mutex has a user and otherwise makes a later lock fail, which throws and ends
the process through `Thread::entryPoint`. `accepted`, `cooked`, `quiet` are history variables.

**IngredientStock.** The same grain for `mutex_`/`cv_`, with the round of `regenLoop` and the destructor.
Ingredients of a call are a set: `Menu` states, and TLC evaluates, that no recipe names one twice and that
all of them resolve. The counts are of type `size_t` and wrap behind `MaxSizeT`. `MaxCalls` and `MaxTicks` bound
calls and rounds. On its own the module also lets clients meet the destruction. Those who reach the mutex while it
lives are refused (`GiveUp`, the call returning false). `cv_` and `mutex_` go after the thread is joined
(`DestroyStockMutex`): `pthread_cond_destroy` waits for those still blocked, `pthread_mutex_destroy` spares a mutex
in use, and whoever comes to a destroyed one ends the process (`ClientAborts`: `Mutex::lock` throws in a thread).
In `Kitchen`, `EndsInOrder` shows that no cook meets any of it.

**Kitchen.** Composes both by INSTANCE: an action of a cook is an action of the pool, of the stock, or of
`cookPizza` between them (`BeginPizza`, `SendDone`, `BecomeIdle`, `ReleaseLoad`, in the order of the
code; in particular Done goes out before `_load` is decremented). The main thread is `KitchenWorker::run`
cut at every point where another thread can see a difference: receiving, sending, reading the load and
then each cook's state, the idle test, the pool's destruction, the farewell, the stock's destruction. The
reception's side (`OfferPizza`, `AskStatus`, `CommandShutdown`, `CollectResult`) is what `LoadBalancer`
does with one kitchen.

**KitchenContract.** The abstract kitchen: two FIFO queues, a line of pizzas, the pizzas in hands, cooks
releasing, a phase. It has no mutex, condition variable or stock. `Kitchen` implements it for one kitchen
(`ImplementsContract`, through the mapping `PublicKitchen`; proved in `KitchenProofs`), and keeps the progress
its weak fairness promises (`KeepsContractPromises`).

**ReceptionContract.** The other half: how the reception stands with each kitchen (`terms`: not opened, open, awaiting
an answer, commanded to shut down, over), the pizzas it is owed (`credit`) and those it has sent to any kitchen
(`offered`). Nothing is sent to a kitchen whose status answer is awaited, that was commanded or whose farewell
was read; no pizza is sent twice, or without room; each Done and Full answers for a pizza that is owed. This is the
reception that `Kitchen` is built with; `Reception` keeps it (`KeepsReceptionContract`, where `Terms`, `Owed` and `Dispatched`
are computed from the handles, `visit` and `todo`).

**Reception.** All kitchens as one function of contract records, and the reception thread: each message
handled or sent is one action; `duty` says inside which call, `visit` which handles are still to be
drained. `waitpid` is a state (`reap`, `waitpid`) left only when the process has ended. The end of the
input also stands for an invalid line: the exception leaves `Shell::run`, and `~LoadBalancer` runs either
way. `SpawnFails` does the same in the middle of a dispatch: the order is already in `pendingOrders`, a part
of it is sent, and the rest is never sent by anybody.

**QueueLifetime.** The same program at another grain: of what the queues carry only the two Shutdowns are
kept, and in exchange the kernel's keys, the anchor files, `fork` and the destructors are modelled. `MakeAnchor`,
`ClearKey` and `MakeQueue` are the steps of a creating `MessageQueue` (the file and its key; the removal of what is
under the key; `IPC_EXCL`),
`OpenOrders`/`OpenResults` the child's `Open` by name, `Drop` the destructor of an owner: the queue by its
number, the file by its name. The reception can be killed anywhere, `fopen`, `msgget`, `fork` (`SpawnFails`)
and `pthread_create` in a kitchen (`ThreadFails`: for the stock, for the first cook, or for a later one, when the
pool is destroyed over running cooks, `LosesPool`) can fail. An exception in the child leaves the routine of
`fork`, and the child's copies unwind: its own handle (`DropOwnHandle`), then the copied `~LoadBalancer`
(`CommandSibling`) and its handles (`DropSibling`). A run begins after the reception of the one before is
gone; that reception's kitchens may still be there, in any state. Two receptions at the same time in one
directory are not modelled, nor that `ftok` keeps 16 bits of an inode only.

**Shell.** `pipe` is what the kernel holds and `select` looks at, `buffer` is what stdin has read ahead and
`std::getline` looks at. On a terminal one read returns one line; on a pipe whatever is there. A line is made of
symbols: `order` is the text of any valid order, `wrong` any other text, and blanks, since the comparison with
`status` trims behind and the parser trims on both sides. `news` stands for packets in the result queues. `SelectFails` is a `select` that
returns -1: the loop does nothing and looks again.

**Orders.** One line through `Parser::parse`, the order callback, the loops of `dispatch`, the bytes of the
serializer and the kitchen's factory. A symbol is a whole word, a letter of a size or of a number, a digit, a
blank or `;`, so that the regular expression keeps its one hard part: the shortest type, with the size right
behind it. The largest `int` and the largest `size_t` are constants, `MaxInt` and `MaxSizeT`; `AsInt` is what a number
becomes in an `int`. The run has 3 and 15 for them, so that totals wrap and quantities exceed the range.
`Meanings` is the language of the pattern in `parseLine`, written without the algorithm: a relation between texts
and orders. That language is wider than the grammar of `doc/subject.md`; `Derived` is the latter to the letter.

A definition commented as a mutant (`IsFullTooLate`, ...) is the form a plausible bug would give to the
definition after it; no module uses it. Each property of a passing run is violated when one of them is put
in place of the definition it mutates (`PROJECT.json`, "mutants").

## 3. Runs

| Run | Module, cfg | Bounds | Shows |
|---|---|---|---|
| `pool` | ThreadPool, MCThreadPool | 2 cooks, 5 pizzas | `LoadIsExact`, `EachPizzaInOnePlace`, `NoWakeupLost`, `QuietStopIsSafe`, `EveryPizzaCooked`, `StopTerminates` |
| `stock` | MCIngredientStock | 2 clients, 3 ingredients, 4 calls, 4 rounds | `NeverOverdrawn`, `NobodySleepsBesideAFullShelf`, `EveryCallReturns` |
| `kitchen` | MCKitchen | 1 cook, 3 pizzas, 2 rounds, 1 status | `CreditIsExact`, `EndsInOrder`, `OnlyCommandedKitchensAbort`, `RefusedOnlyInReleaseWindow`, `ImplementsContract` |
| `kitchen_two_cooks` | MCKitchen, MCKitchenTwoCooks | 2 cooks, 2 pizzas, empty stock | `StatusIsConsistent`, `ImplementsContract` with cooks that compete |
| `kitchen_live` | MCKitchen, MCKitchenLive | 1 cook, 2 pizzas, empty stock | `StatusIsAnswered`, `EveryKitchenEnds`, `KeepsContractPromises` |
| `reception` | Reception, MCReception | 2 kitchens of 1 cook, 2 orders of up to 3, work of 5, 1 status | `HandleLoadIsExact`, `QueuesBounded`, `StatusProtocol`, `EachPizzaInOnePlace`, `AnnouncementsCountDone`, `BalancedDispatch` |
| `reception_live` | Reception, MCReceptionLive | 3 kitchens, 3 orders of 1, 1 status | `EveryCallReturns`, `OrdersAreAnnounced`, `KeepsReceptionContract` |
| `queues` | QueueLifetime, MCQueues | 2 runs, 2 kitchens in a run, 3 in all, 5 inodes, 2 faults | `OwnQueuesOnly`, `CalmRunIsUndisturbed`, `CleanEnd`, `ShutdownReturns`, `OrphansEnd` |
| `shell` | Shell, MCShell | texts of up to 4 symbols | `InputConserved`, `EveryLineIsHandled`, `KitchensAreRead` |
| `orders` | MCOrders | every line of up to 5 of 9 symbols, longer ones of one and two orders in small letters and capitals; `int` up to 3, `size_t` up to 15 | `ParsedAsMeant`, `NotedIsSent`, `MadeIsOrdered` |

The types (those of `Kitchen` apart), and the invariants `CapacityRespected`, `JoinedAfterDrain` and `NothingLeftAtEnd`, and the action property `KeyStaysFree`, are
proved for all constants (section 5) and have no run of their own.

Why the bounds are enough for what they are for: the pool needs two cooks for a wakeup to go to the wrong
one, and one pizza more than the capacity of 4 for the refusal; a kitchen of one cook is full with two
pizzas, so the third meets the release window; two cooks and an empty stock make cooks wait in the stock
while others run; the stock has fewer initial pieces than calls, and two recipes that overlap without being
equal; two kitchens are the least for Done packets out of order, and an order of three pizzas the least
after which `dispatch` has a choice between two kitchens with room; `MaxWork` only leaves out that two large
orders and the status come together. When `Reception` needs a kitchen beyond `MaxKitchens`, the one thing
that can happen is that it cannot be had (`SpawnFails`), which is always possible. Two runs are the least for
an orphan to meet a successor, two kitchens for a child to unwind a sibling's handle, and five inodes are one
more than the paths, so that a new file can get the inode of one that lost its queue, or a fresh one. Four
symbols make two lines, half a line behind a whole one, blank lines, and a last line without its end. Five
symbols hold a whole order (`regina L x 1`) and one symbol more in any place.

Symmetry (of the pizzas) is used in the two safety runs of `Kitchen` only.

### What the code does not do

Two runs expect a violation, each of a sentence of `doc/subject.md`:

* `announced_is_ready`: Done packets are counted against the oldest order, whoever's pizza they are
  (`main.cpp:24-32`), so an order can be announced while one of its own pizzas is still cooking. What does
  hold is `AnnouncementsCountDone`: announcements come in order and count pizzas exactly.
* `refused_is_not_dropped`: between a cook's Done and its `--_load` the kitchen is fuller than the
  reception believes. A pizza sent then is refused, and `handleFullPacket` forgets it.
  `RefusedOnlyInReleaseWindow` shows that this is the only way to be refused.

The parser and `doc/subject.md` do not describe the same language, and `ParsedAsMeant` claims only what does hold:

* The code accepts more: sizes in small letters, a capital `X` before the number, and blanks around each of the three parts
  (`Parser.cpp:55-57`), where the subject has sizes in capitals, a small `x` and nothing in between. What the
  subject derives is accepted as the orders it derives.
* The subject contradicts itself: it calls `reginaXXLx2;fantasiaMx3;margaritaSx` grammatically valid
  (`doc/subject.md:71`), and its own NUMBER asks for a digit behind the `x`. The code goes by the grammar and rejects the
  line; the run tries its last order (`NumberMissing`).

Other properties say by their exceptions what the code leaves open:

* `EveryCallReturns` of the stock: a caller that comes when the mutex is destroyed ends the process.
* `OrdersAreAnnounced`: a kitchen that has decided to close for idleness does not read its queue again, and a
  pizza dispatched before the reception reads the farewell is stranded (`Stranded`). That and a refusal are the
  only ways in which an order stays unannounced before the end of the input. At the end `shutdown` waits for
  the last pizzas and never reads that they are done.
* `EveryLineIsHandled`: on a pipe a line can be read ahead together with the one before; `select` sees an
  empty pipe, and the line waits for more input (`Backlogged`). Not on a terminal.
* `KitchensAreRead`: half a line on a pipe makes `select` return and `getline` block; polling stops until the
  rest comes (`HalfALine`). Not on a terminal either.
* `ShutdownReturns`, `CleanEnd`: when a thread cannot be created in a child, and other cooks run already, they keep it
  in `pthread_cond_destroy` or abort it; if none runs, the exception unwinds the child's
  copies of the reception's handles and removes the queues of its siblings. A sibling whose cooks sleep gets
  stuck in `pthread_cond_destroy`, and the reception in `waitpid` (`Hangs`). Hence the word `calm`.
* `CalmRunIsUndisturbed`: a run that begins while the kitchens of a killed one are alive can be disturbed in
  three ways: an orphan that unwinds removes the new run's anchor files, which it knows by name; a kitchen that
  was late to open its queues opens those of the new run; and the new run removes the queues under the orphans.
* `CleanEnd`: a `MessageQueue` whose constructor fails after `fopen` leaves its anchor file.

The destruction order of the pool's members looks wrong, and on a commanded shutdown it is: a cook that
returns to its loop after the mutex is destroyed aborts the kitchen (`CookAborts` is reachable).
`QuietStopIsSafe`, proved for every instance, and `OnlyCommandedKitchensAbort` show that closing for
idleness never runs into it.

## 4. Fairness and timing

* Threads are scheduled: weak fairness of each cook, of the stock's thread, of the kitchen's main thread and
  of the reception inside a call. Each is a loop that sleeps for a bounded time or blocks on a condition
  modelled by the enabling of its actions. A mutex is only held for the length of one action, so weak
  fairness of a waiting cook is what a fair scheduler gives.
* The reception polls: weak fairness of `Poll` (100 ms timeout of select) and of `CollectResult`. In
  `Reception`, `Poll` is enabled in `select` only, where the customer may act too; orders are bounded, so
  the silence that lets select time out is certain to come.
* Nothing is assumed of the customer: no order, status command or end of input has to happen.
* Five seconds elapse: `TimePasses` has strong fairness, because its guard is only true while the main
  thread is at `receive`, again and again, and never continuously. With bounded orders the kitchen is idle for good in the
  end, and then the time does come. `KitchenContract` asks for no such thing (`Tire` is not fair).
* Two assumptions on the length of five seconds, both in the guard of `TimePasses`: they do not elapse
  between a cook's last `--_load` and its return to the condition variable, nor between the fork of a
  kitchen and the arrival of the pizza it was forked for.
* Liveness runs bound the rounds of the stock; `MaxTicks` is no less than the pizzas need.
* `Shell` has weak fairness of its thread only: a customer may stop anywhere, in the middle of a line too.
* In `QueueLifetime` the reception is fair inside its calls, and each kitchen in its steps, with the closing of
  an orphan, to which nobody sends pizzas any more (`Orphaned`). Kills and failures are possible, never forced,
  and so is the end of the input.
* Spurious wakeups are possible at every wait and forced nowhere.

## 5. Proofs

`ThreadPoolProofs`, for any finite non-empty set of cooks and any pizzas (`CookAssumption`,
`PizzaAssumption`): `PoolInvariant` is inductive. It consists of the types, `LoadIsExact`,
`CapacityRespected` and `NoWakeupLost`, which need each other and two more parts: `Lifecycle` (what each
phase says about cooks, queue and mutex; without it a cook could be `gone` with a queue to serve, or hold
a pizza without cooking) and `QuietInv` (after a quiet stop the pool stays empty and no cook leaves the
waiting room but to go; the reason why a destroyed mutex is met by nobody: it is only destroyed when no
cook is left in it). The proof has one lemma per conjunct, each splitting on the action. The cardinality facts
they rest on (`OneMore`, `OneLess`) are lemmas about finite sets. `EachPizzaInOnePlace` is preserved by
every step given the invariant (`PlaceStep`), and `JoinedAfterDrain` follows from both.

`IngredientStockProofs`, for any clients, ingredients, recipes, initial stock and bounds
(`StockAssumption`): types, `NeverOverdrawn` and `NobodySleepsBesideAFullShelf` are inductive together.
`ConsumeStep` is the heart: a call that consumes found a piece of each, and whoever slept lacked an
ingredient that this call cannot have supplied. `NeverOverdrawn` says two things of counts that could wrap: what was
handed out was there, and the shelf has the rest; neither is inductive without the other.

`ShellProofs`, for texts of any length: `ShellInvariant` is inductive: the types, with the fact that `line` never
holds more than one line; `InputConserved`; and `EndedAtEnd` (a loop that ended in order has nothing left in
the buffers). The lemmas say what cutting and joining sequences does to their line ends (`Split`,
`JoinFirstLine`, `JoinWithoutEnd`), and that `FirstEnd` is the least of them, which needs that < is
well-founded on the naturals. `ShellHandlesAll` (`NothingLeftAtEnd`) follows.

`QueueLifetimeProofs`, for any number of runs, kitchens, inodes and faults (`QueueAssumption`): `QueueInvariant` is
inductive. It is `OwnQueuesOnly` with what it needs: `Types`; `AtHand` (what each place in the reception's code says
about the variables in hand); `Apart` (no two files share an inode, no two keys a queue, and no queue is made twice);
`Cleared` (no other file has the key that a queue is about to be made under); `Anchored` (under the name of a
queue that a reception at work has made, a kitchen finds that queue or nothing); `Born` (processes are there from
their fork on, and know what they have opened). The lemma `OthersLose` is what makes it short: but for `MakeAnchor` and
`MakeQueue`, every step only takes queues and files away; `KitchenMoves` and `KitchenEffects` say once what a
step of a kitchen can do to its process and to the rest. For runs that begin when the orphans are gone, `CalmInside` (only
the run's own kitchens are alive, they are in the roster, and the roster has its queues under its own files)
and `CalmTidy` (what the run has made and not removed belongs to the roster or to the kitchen it is opening) are
added; `CalmRunsAreUndisturbed` and `CalmRunsEndClean` follow. `QueueKeyIsFree`, an action property, is `OthersLose` again.

`KitchenProofs`, for any number of cooks and any finite set of pizzas, any recipes and any number of status requests
(`KitchenAssumption`). A kitchen changes the pool and the stock by their own actions only (`SamePoolSteps`,
`SameStockSteps`, `MonitorsStep`), so the invariants proved of the two monitors hold inside it, by their step lemmas, through
`INSTANCE ThreadPoolProofs` and `INSTANCE IngredientStockProofs`. `PoolSeen`, `InPoolEffects`, `StopEffects`, `AddEffects`
and `StockEffects` say what the kitchen needs to know of them. `KInv` is inductive, and every safety property of the kitchen
runs follows from it. Before it was proved, TLC found it to hold in the instances of
`kitchen` and `kitchen_two_cooks`. Its other parts:

- `OwnTypes`; `MainThread` (which phase of the pool goes with which place of the main thread: the pool is serving while
  packets are received and joined when the farewell is sent, and the stock is open until then); `Cooks` (a cook inside
  `cookPizza` holds a pizza, is in the stock's monitor only in between, and shows COOKING up to its Done).
- `Reports`: what was reported is cooked, or in the hands of a cook that has sent its Done. With `Farewell` (the farewell is
  the last packet, sent by a main thread that has joined the cooks) it gives `EndsInOrder`.
- `Commands`: one Shutdown packet is sent at most; it stays in the queue until it is received, and from then on the kitchen
  is `Ordered`.
- `Idleness`: five idle seconds only stand while the pool is at rest and no refusal is due. A kitchen that stops is ordered
  or idle for long, so that a pool stopped without a command is stopped `quiet`, and `QuietInv` of the pool forbids it to
  abort.
- `CreditIsExact` itself: each step moves a pizza between two of its four terms. `Reports` and the pool's
  `EachPizzaInOnePlace` say that an accepted pizza was not reported, and that Done is sent for one that was not reported before.
- `Reading`: while statuses are read, the cooks read as cooking, the queue and the cooks cooking but not read yet
  are together no more than the load read first. That is the reason for `StatusIsConsistent`; the property alone is not inductive.

`RefusedOnlyInReleaseWindow` then is arithmetic: `LoadIsUncooked` (the load of the pool is the number of pizzas accepted and
not cooked) and `CreditIsExact` leave no room for a full pool with an unanswered pizza unless some reported pizza is not
released.

The refinement, `KitchenImplementsContract`, is the link between the two halves of the project: what is proved of
the reception is proved of kitchens that are contracts. The contract's kitchen is a record of ten parts computed from the
threads (`PublicParts`): the queues packet by packet (`PublicQueues`), the phase (`PhaseIs`), and the pizzas in hands with the
cooks that have reported and not released theirs, which are together the cooks at work, so that the contract's load is the
pool's `_load` (`HandsSeen`, `LoadSeen`). One lemma `...Seen` for each action of the contract says what a step must do to these
parts to be that action; one lemma for each action of the kitchen says which it is (`Sees`), and `ContractStep`
puts them together. Three of them need the invariant: a destroyed mutex that a cook runs into is the contract's `Crash`, which only
an ordered kitchen may do (`Idleness` and `QuietInv`); the test that leaves the loop is not seen, since the contract decides
at the receipt of the command, or when the five seconds are over (`Commands`); and a kitchen that is idle for
long must not owe a refusal.

The refinement needs a reception that keeps its side, and so do the kitchen's other theorems. `ContractedStepsAreModelled`
says that `Kitchen` has left out no step of one that does: whatever `ReceptionContract` lets the reception do to a kitchen
is one of `OfferPizza`, `AskStatus`, `CommandShutdown` and `CollectResult`. (`Part`, the end of `waitpid`, touches nothing that a
kitchen sees. `Flags` is inductive: with it `alive`, `awaiting` and `commanded` say as much as the terms. The contract counts
in `offered` the pizzas sent to any kitchen, `Kitchen` only its own, and so allows more.)

`ReceptionProofs`, for any number of kitchens, cooks, orders, pizzas, status
commands and shutdowns (`ReceptionAssumption`): `IInv` is inductive, and every safety property of the run `reception`
follows from it. Before it was proved, TLC found it to hold in the instance of that run. Its parts, and what each is for:

- `Types` and `Boxes`: the kinds of the packets in each queue, and what a kitchen is like in each phase. A farewell is the
  last packet of a kitchen with no pizza left; without that a dead kitchen could take its pizzas along uncounted.
- `Control`: what the place of the reception thread says about `duty`, `visit` and `todo`; `visit` has no kitchen twice
  and only kitchens of the roster.
- `Handles`: a handle that is not alive belongs to a kitchen that has said its farewell, or crashed; a kitchen
  behind `nextKitchen` is not forked.
- `Loads`: the load of a live handle is what the kitchen owes (`Owes`), pizza by pizza through both queues, and within
  2 x N. It says why the subtraction in `handlePacket` never meets 0 and why room is never promised twice.
- `Commands`, `Statuses`: what may be in the queues besides pizzas. A kitchen alive is quiet, asked, answering or has
  answered, and whatever is not quiet is still waited for by the running `getStatus`: no late part of an answer
  reaches the next command. `QueuesBounded` follows from these two and `Loads`.
- `OnePlace`: the number of times a pizza occurs outside the kitchens (`Outside`) and in each of them (`Weight`) is
  1 in one place and 0 elsewhere. `PlacesAreOne` shows that this is the size of the set `Places`.
- `Counting`: `announced` and `pending` are the orders in sequence, and `ready` has as many pizzas as the announced
  orders (`FirstPizzas`) and the part of the first pending order that is done.

A step of a kitchen is one of the twelve relations of `BoxStep` between its records before and after
(`KitchenSteps`), so that what a step does to its form (`BoxStepInv`), to the pizzas it owes (`BoxStepWeight`), to its
orders and to the status traffic is proved once per relation, of one record. How many packets of a kind a queue holds
is `Number` (`DataLemmas`), with one lemma for each of Append and Tail; the load (all pizzas) and the place of a pizza (one pizza)
are then the same count with another set. `KitchensStep` says what each step of the reception does to every kitchen;
the step lemmas of `Loads`, `Commands`, `Statuses` and `OnePlace` rest on it. `BalancedDispatch` needs that `Best`
is a kitchen of least load (`BestHasLeastLoad`, by the well-ordering of the naturals) and that the handle's
load is what the kitchen owes.

`ReceptionKeepsContract` closes the circle of assumptions: the reception, given kitchens that keep `KitchenContract`, keeps
`ReceptionContract`, for which kitchens keep theirs; a step of either is judged by what both have done before it. One
lemma `...Seen` for each action of the contract says what a step must do to the two queues, to `Terms`, `Owed` and `Dispatched` to
be that action, and one for each step of the reception says which it is (`PromisesStep`). Of `IInv` it takes, from `Control`, that
getStatus comes back to each kitchen it has asked until that one has answered (`AwaitsIs`, `NextKitchenSeen`); from `OnePlace`, that
the pizza dispatched is nowhere else (`TodoOnce`); and from `Loads`, that whoever answers was owed to. It adds one part,
`Commanding`: `shutdown` only visits kitchens that are alive.

`OrdersProofs`, for lines of any length over any symbols, and for any largest `int` and `size_t` (`OrdersAssumption`): all
that the run `orders` checks. There is no induction rule to cite here, so what holds for every length is shown by the least
counterexample: `LeastExists` (a set of naturals has a least member), and from it `CountUp` (what holds at 0 and is kept by
one more holds everywhere), `RecursionExists` (a recursive function is what its equation says) and `SortedExists` (a finite set of
numbers can be put in order) in `DataLemmas`. The argument has three parts:

- The parser. A piece is read through windows of the line (`WindowIs`, `TrimIs`: what is left of a window between its first and
  its last symbol that is not blank). `Reads` says, place by place, what a text with a type, a size and a number looks like, and
  `ReadsOnce` that a text can be read in one way only: the reason is that no type ends in a letter of a size, and that a size is
  followed by the `x` of a number. `ParseLineReads` and `ParseLineRejects` show that the algorithm of the code, the shortest type and
  then the size behind it, finds that reading or there is none; `MeansReads` and `ReadsMeans` show the same of
  the relation, and `DerivedMeans` that the subject's grammar derives no order that is not a meaning. `PiecesAre` and
  `ParseIs` carry it from a piece to the line, with the empty piece that `getline` does not deliver.
- The sum. `Same` is equality up to a multiple of `IntRange`: the wrapped total is the true one up to such a multiple (`AsIntIs`),
  it is the true one if that fits (`TotalFits`), and never more (`WrapsDown`).
- The way to the cooks. `OrdersInvariant` is inductive: the place `at` of `dispatch` is that of the next of `AllPizzas`
  (`Before` counts the pizzas of the orders before an order, `SentIs`), what is made is the beginning of `AllPizzas`, and what is on the
  wire is the rest up to that place, packed (`WireInvariant`). `MadeIsOrdered` alone is not inductive: it says nothing of
  packets that are still on the wire, nor of what is yet to be sent. `PackedIs` says that the cast bytes come out of the queue as
  the type and the size that went in.

Only model-checked: liveness, which is out of the prover's reach (with it `KeepsContractPromises`, the progress of the
contract). Every safety property of a run is proved.

## 6. Not modelled

Display, logger and messages (I/O), the checks of `argv`; cooking times (baking takes any time, and with it the
conversion of a `double` to `int` milliseconds); the 8-bit fields of a status, which are only displayed; move
constructors and `trylock`; a signal to the whole process group (only the reception is killed); `msgsnd`
failing for another reason than a removed queue. Message queues do not block on a full queue: `QueuesBounded`
gives 3N + 2 packets of 48 bytes at most, within the default 16384 bytes for up to 113 cooks. Two receptions
at the same time in one directory.

## 7. Plan

Done: Menu, ThreadPool, IngredientStock, Kitchen, KitchenContract, ReceptionContract, Reception, QueueLifetime, Shell,
Orders, their runs, and the proofs of the two monitors, of a kitchen, of the reception, of the two contracts between them, of
the shell, of the queues' lifetime and of a line's way to the cooks. Next:

1. `Reception` against an abstract restaurant (orders placed, pizzas done, orders announced), and its proof.
2. `Reception` with two cooks per kitchen in a run (the theorems hold for any number).
3. The widths of a status packet.

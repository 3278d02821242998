--------------------------- MODULE IngredientStock ---------------------------
(***************************************************************************)
(* kitchen::IngredientStock: a monitor (mutex_, cv_) around the stock of   *)
(* one kitchen, the thread that replenishes it, and its destruction.       *)
(*                                                                         *)
(* A client is a thread inside waitAndConsumeIngredients; "asking" is a    *)
(* client before mutex_.lock(), "waiting" one blocked in cv_.wait, "woken" *)
(* one that has left cv_.wait and takes the mutex again to re-test.  Every *)
(* critical section is one action.                                         *)
(***************************************************************************)
EXTENDS Naturals

CONSTANTS
    Client,       \* the threads that consume: the cooks of the kitchen
    Ingredient,
    Recipes,      \* what one call may need: sets of ingredients
    InitialStock, \* initialStock, 5 in the code
    MaxSizeT,     \* the largest size_t
    MaxCalls,     \* bound: calls of waitAndConsumeIngredients
    MaxTicks      \* bound: times the stock is replenished

ASSUME StockAssumption ==
    /\ Recipes \subseteq SUBSET Ingredient
    /\ InitialStock \in Nat /\ MaxCalls \in Nat /\ MaxTicks \in Nat
    /\ MaxSizeT \in Nat /\ InitialStock + MaxTicks <= MaxSizeT

VARIABLES
    stock,      \* stock_
    stockPhase, \* "open" while running_, then where the destructor is
    regenPc,    \* the thread of regenLoop
    clientPc,
    need,       \* the argument of each call in progress
    calls,      \* how many calls were made
    ticks,      \* history: how many times regenLoop added one of each
    taken       \* history: pieces of each ingredient handed out

stockVars == <<stock, stockPhase, regenPc, clientPc, need, calls, ticks, taken>>

StockRunning == stockPhase = "open"

AllAvailable(needed) == \A i \in needed : stock[i] > 0

\* Arithmetic of a size_t, which wraps.
OneLess(n) == IF n = 0 THEN MaxSizeT ELSE n - 1
OneMore(n) == IF n = MaxSizeT THEN 0 ELSE n + 1

\* cv_.notifyAll()
Woken == [c \in Client |-> IF clientPc[c] = "waiting" THEN "woken" ELSE clientPc[c]]

-----------------------------------------------------------------------------
StockInit ==
    /\ stock = [i \in Ingredient |-> InitialStock]
    /\ stockPhase = "open"
    /\ regenPc = "sleeping"
    /\ clientPc = [c \in Client |-> "out"]
    /\ need = [c \in Client |-> {}]
    /\ calls = 0
    /\ ticks = 0
    /\ taken = [i \in Ingredient |-> 0]

\* A thread calls waitAndConsumeIngredients; nobody calls it once members of
\* the stock are being destroyed.
Ask(c, needed) ==
    /\ stockPhase \in {"open", "closing", "notified"}
    /\ clientPc[c] = "out"
    /\ calls < MaxCalls
    /\ calls' = calls + 1
    /\ clientPc' = [clientPc EXCEPT ![c] = "asking"]
    /\ need' = [need EXCEPT ![c] = needed]
    /\ UNCHANGED <<stock, stockPhase, regenPc, ticks, taken>>

AtStockMutex(c) == clientPc[c] \in {"asking", "woken"}

WaitForStock(c) ==
    /\ AtStockMutex(c)
    /\ StockRunning /\ ~AllAvailable(need[c])
    /\ clientPc' = [clientPc EXCEPT ![c] = "waiting"]
    /\ UNCHANGED <<stock, stockPhase, regenPc, need, calls, ticks, taken>>

Returns(c) ==
    /\ clientPc' = [clientPc EXCEPT ![c] = "out"]
    /\ need' = [need EXCEPT ![c] = {}]

TakeOneOfEach(c) ==
    /\ stock' = [i \in Ingredient |->
                     IF i \in need[c] THEN OneLess(stock[i]) ELSE stock[i]]
    /\ taken' = [i \in Ingredient |-> IF i \in need[c] THEN taken[i] + 1 ELSE taken[i]]
    /\ Returns(c)
    /\ UNCHANGED <<stockPhase, regenPc, calls, ticks>>

\* Mutant: "if" in place of "while": who has been woken takes what it needs
\* without testing again.
ConsumeWithoutRetest(c) ==
    /\ AtStockMutex(c)
    /\ StockRunning
    /\ clientPc[c] = "woken" \/ AllAvailable(need[c])
    /\ TakeOneOfEach(c)

Consume(c) ==
    /\ AtStockMutex(c)
    /\ StockRunning /\ AllAvailable(need[c])
    /\ TakeOneOfEach(c)

\* The call returns false.  running_ stays false in the memory of a stock
\* that is gone; whether the mutex still works is another matter.
GiveUp(c) ==
    /\ AtStockMutex(c)
    /\ stockPhase \in {"closing", "notified", "joined", "spared"}
    /\ Returns(c)
    /\ UNCHANGED <<stock, stockPhase, regenPc, calls, ticks, taken>>

\* mutex_.lock() on a destroyed mutex throws, and so ends the process: the
\* callers are threads, from whose function nothing may be thrown.
ClientAborts(c) ==
    /\ AtStockMutex(c)
    /\ stockPhase = "dead"
    /\ stockPhase' = "aborted"
    /\ UNCHANGED <<stock, regenPc, clientPc, need, calls, ticks, taken>>

SpuriousStockWakeup(c) ==
    /\ clientPc[c] = "waiting"
    /\ clientPc' = [clientPc EXCEPT ![c] = "woken"]
    /\ UNCHANGED <<stock, stockPhase, regenPc, need, calls, ticks, taken>>

-----------------------------------------------------------------------------
\* One round of regenLoop ...
Round(newStock) ==
    /\ regenPc = "sleeping"
    /\ StockRunning
    /\ ticks < MaxTicks
    /\ ticks' = ticks + 1
    /\ stock' = newStock
    /\ UNCHANGED <<stockPhase, regenPc, need, calls, taken>>

\* Mutant: nobody is told.
RegenerateSilently ==
    /\ Round([i \in Ingredient |-> OneMore(stock[i])])
    /\ UNCHANGED clientPc

\* ... brings one more of everything, and everyone is told.
Regenerate ==
    /\ Round([i \in Ingredient |-> OneMore(stock[i])])
    /\ clientPc' = Woken

RegenLeaves ==
    /\ regenPc = "sleeping"
    /\ ~StockRunning
    /\ regenPc' = "gone"
    /\ UNCHANGED <<stock, stockPhase, clientPc, need, calls, ticks, taken>>

\* ~IngredientStock: running_ = false under the mutex, notifyAll, and then
\* the members from the last one declared to the first: the thread, joined,
\* before cv_ and mutex_.
CloseStock ==
    /\ stockPhase = "open"
    /\ stockPhase' = "closing"
    /\ UNCHANGED <<stock, regenPc, clientPc, need, calls, ticks, taken>>

\* Mutant: the destructor without notifyAll.
CloseSilently ==
    /\ stockPhase = "closing"
    /\ stockPhase' = "notified"
    /\ UNCHANGED <<stock, regenPc, clientPc, need, calls, ticks, taken>>

NotifyClosed ==
    /\ stockPhase = "closing"
    /\ stockPhase' = "notified"
    /\ clientPc' = Woken
    /\ UNCHANGED <<stock, regenPc, need, calls, ticks, taken>>

JoinRegen ==
    /\ stockPhase = "notified"
    /\ regenPc = "gone"
    /\ stockPhase' = "joined"
    /\ UNCHANGED <<stock, regenPc, clientPc, need, calls, ticks, taken>>

\* pthread_cond_destroy waits for those still blocked in it;
\* pthread_mutex_destroy spares a mutex that is in use, which nobody learns:
\* its result is ignored.  In use it is for who comes from the condition
\* variable and for who holds it, but not for who is only about to lock it.
DestroyStockMutex ==
    /\ stockPhase = "joined"
    /\ \A c \in Client : clientPc[c] # "waiting"
    /\ \E inUse \in BOOLEAN :
        /\ (\E c \in Client : clientPc[c] = "woken") => inUse
        /\ inUse => \E c \in Client : AtStockMutex(c)
        /\ stockPhase' = IF inUse THEN "spared" ELSE "dead"
    /\ UNCHANGED <<stock, regenPc, clientPc, need, calls, ticks, taken>>

-----------------------------------------------------------------------------
ClientStep(c) == WaitForStock(c) \/ Consume(c) \/ GiveUp(c) \/ ClientAborts(c)
RegenStep == Regenerate \/ RegenLeaves
StockDestruction == NotifyClosed \/ JoinRegen \/ DestroyStockMutex

StockTerminated ==
    /\ \/ stockPhase \in {"dead", "spared"} /\ \A c \in Client : clientPc[c] = "out"
       \/ stockPhase = "aborted"
    /\ UNCHANGED stockVars

StockNext ==
    \/ \E c \in Client, needed \in Recipes : Ask(c, needed)
    \/ \E c \in Client : ClientStep(c) \/ SpuriousStockWakeup(c)
    \/ RegenStep
    \/ CloseStock
    \/ StockDestruction
    \/ StockTerminated

\* The threads of the kitchen are scheduled fairly, and a destructor that
\* has begun goes on.  Nothing forces a call, or the destruction.
StockFairness ==
    /\ \A c \in Client : WF_stockVars(ClientStep(c))
    /\ WF_stockVars(RegenStep)
    /\ WF_stockVars(StockDestruction)

StockSpec == StockInit /\ [][StockNext]_stockVars /\ StockFairness

-----------------------------------------------------------------------------
StockTypeOK ==
    /\ stock \in [Ingredient -> 0 .. MaxSizeT]
    /\ stockPhase \in {"open", "closing", "notified", "joined", "dead", "spared",
                       "aborted"}
    /\ regenPc \in {"sleeping", "gone"}
    /\ clientPc \in [Client -> {"out", "asking", "waiting", "woken"}]
    /\ need \in [Client -> SUBSET Ingredient]
    /\ calls \in Nat /\ ticks \in Nat
    /\ taken \in [Ingredient -> Nat]

\* No piece is handed out that the kitchen never had, whichever cooks were
\* woken together and raced for it; and the unsigned count of the shelf is
\* what is left: it never wraps below 0.
NeverOverdrawn ==
    \A i \in Ingredient :
        /\ taken[i] <= InitialStock + ticks
        /\ stock[i] = (InitialStock + ticks) - taken[i]

\* While the stock runs, a cook only sleeps in cv_.wait if its recipe really
\* lacks something: no replenishment passes a sleeping cook by.  (Consuming
\* never makes a recipe available, so only regenLoop has to notify.)
NobodySleepsBesideAFullShelf ==
    \A c \in Client :
        StockRunning /\ clientPc[c] = "waiting" => ~AllAvailable(need[c])

\* As long as the calls are no more than the replenishments, every call
\* comes to an end: with its ingredients, or refused by a destruction that
\* wakes whoever sleeps; nobody sleeps on, and the destructor does not hang.
\* A caller that reaches the mutex only when it is destroyed ends the whole
\* process.  (EndsInOrder says of a kitchen that it has no such caller.)
EveryCallReturns ==
    \A c \in Client :
        clientPc[c] # "out" ~> clientPc[c] = "out" \/ stockPhase = "aborted"

=============================================================================

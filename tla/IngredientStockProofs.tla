------------------------ MODULE IngredientStockProofs ------------------------
(***************************************************************************)
(* For any clients, ingredients, recipes, bounds and width of the counts:  *)
(* nothing is handed out that was not there, no count wraps, and nobody    *)
(* sleeps while it could be served.                                        *)
(***************************************************************************)
EXTENDS IngredientStock, TLAPS

StockInvariant ==
    /\ StockTypeOK
    /\ NeverOverdrawn
    /\ NobodySleepsBesideAFullShelf

\* The invariant holds of a new stock.
LEMMA StockInitially == StockInit => StockInvariant
BY StockAssumption
DEF StockInit, StockInvariant, StockTypeOK, NeverOverdrawn,
    NobodySleepsBesideAFullShelf

\* A call that takes its ingredients found one of each: no piece is
\* subtracted from 0.
LEMMA ConsumeStep ==
    ASSUME StockInvariant, NEW c \in Client, Consume(c)
    PROVE  StockInvariant'
<1> USE DEF StockInvariant, StockTypeOK
<1>1. need[c] \subseteq Ingredient /\ \A i \in need[c] : stock[i] > 0
  BY DEF Consume, AllAvailable
<1>a. \A i \in need[c] : OneLess(stock[i]) = stock[i] - 1
  BY <1>1, StockAssumption DEF OneLess
<1>2. /\ stock' = [i \in Ingredient |-> IF i \in need[c] THEN stock[i] - 1 ELSE stock[i]]
      /\ taken' = [i \in Ingredient |-> IF i \in need[c] THEN taken[i] + 1 ELSE taken[i]]
      /\ clientPc' = [clientPc EXCEPT ![c] = "out"]
      /\ need' = [need EXCEPT ![c] = {}]
      /\ UNCHANGED <<stockPhase, regenPc, calls, ticks>>
  BY <1>a DEF Consume, TakeOneOfEach, Returns
<1>3. stock' \in [Ingredient -> 0 .. MaxSizeT] /\ taken' \in [Ingredient -> Nat]
  BY <1>1, <1>2, StockAssumption
<1>4. StockTypeOK'
  BY <1>2, <1>3
<1>5. NeverOverdrawn'
  BY <1>1, <1>2, <1>3, StockAssumption DEF NeverOverdrawn
<1>6. NobodySleepsBesideAFullShelf'
  <2> SUFFICES ASSUME NEW d \in Client, stockPhase = "open", clientPc'[d] = "waiting"
               PROVE  \E i \in need'[d] : ~(stock'[i] > 0)
    BY <1>2 DEF NobodySleepsBesideAFullShelf, StockRunning, AllAvailable
  <2>1. clientPc[d] = "waiting" /\ need'[d] = need[d] /\ need[d] \subseteq Ingredient
    BY <1>2
  <2>2. PICK i \in need[d] : ~(stock[i] > 0)
    BY <2>1 DEF NobodySleepsBesideAFullShelf, StockRunning, AllAvailable
  <2>3. i \in Ingredient /\ i \notin need[c]
    BY <1>1, <2>1, <2>2
  <2> QED
    BY <1>2, <2>1, <2>2, <2>3
<1> QED
  BY <1>4, <1>5, <1>6

\* Replenishing wakes every sleeper, whose recipe may now be available; there
\* is room in the counts for as many pieces as there can be.
LEMMA RegenerateStep ==
    ASSUME StockInvariant, Regenerate
    PROVE  StockInvariant'
<1> USE DEF StockInvariant, StockTypeOK, Regenerate, Round, Woken
<1>a. ASSUME NEW i \in Ingredient
      PROVE  OneMore(stock[i]) = stock[i] + 1 /\ stock[i] + 1 <= MaxSizeT
  BY StockAssumption DEF NeverOverdrawn, OneMore
<1>b. stock' = [i \in Ingredient |-> stock[i] + 1]
  BY <1>a
<1>1. StockTypeOK'
  BY <1>a, <1>b, StockAssumption
<1>2. NeverOverdrawn'
  BY <1>b, StockAssumption DEF NeverOverdrawn
<1>3. NobodySleepsBesideAFullShelf'
  BY DEF NobodySleepsBesideAFullShelf
<1> QED
  BY <1>1, <1>2, <1>3

\* Every step keeps the invariant.
LEMMA StockStep == StockInvariant /\ [StockNext]_stockVars => StockInvariant'
<1> SUFFICES ASSUME StockInvariant, [StockNext]_stockVars PROVE StockInvariant'
  OBVIOUS
<1> USE DEF StockInvariant, StockTypeOK, NeverOverdrawn,
            NobodySleepsBesideAFullShelf, StockRunning, AllAvailable
<1>1. ASSUME NEW c \in Client, NEW needed \in Recipes, Ask(c, needed)
      PROVE  StockInvariant'
  BY <1>1, StockAssumption DEF Ask
<1>2. ASSUME NEW c \in Client, WaitForStock(c) PROVE StockInvariant'
  BY <1>2 DEF WaitForStock
<1>3. ASSUME NEW c \in Client, GiveUp(c) PROVE StockInvariant'
  BY <1>3 DEF GiveUp, Returns
<1>4. ASSUME NEW c \in Client, SpuriousStockWakeup(c) PROVE StockInvariant'
  BY <1>4 DEF SpuriousStockWakeup
<1>5. CASE RegenLeaves \/ CloseStock \/ JoinRegen
  BY <1>5 DEF RegenLeaves, CloseStock, JoinRegen
<1>6. CASE NotifyClosed
  BY <1>6 DEF NotifyClosed, Woken
<1>7. CASE UNCHANGED stockVars
  BY <1>7 DEF stockVars
<1>8. CASE DestroyStockMutex
  BY <1>8 DEF DestroyStockMutex
<1>9. ASSUME NEW c \in Client, ClientAborts(c) PROVE StockInvariant'
  BY <1>9 DEF ClientAborts
<1> QED
  BY <1>1, <1>2, <1>3, <1>4, <1>5, <1>6, <1>7, <1>8, <1>9, ConsumeStep, RegenerateStep
  DEF StockNext, ClientStep, RegenStep, StockDestruction, StockTerminated

\* The types of the stock hold throughout.
THEOREM StockTypeCorrect == StockSpec => []StockTypeOK
BY StockInitially, StockStep, PTL DEF StockSpec, StockInvariant

\* Nothing is taken that was not there, and no unsigned count wraps: who is
\* woken finds the pieces or waits again, whoever was faster.
THEOREM StockIsNeverOverdrawn == StockSpec => []NeverOverdrawn
BY StockInitially, StockStep, PTL DEF StockSpec, StockInvariant

\* No replenishment passes a sleeping cook by.
THEOREM StockWakesSleepers == StockSpec => []NobodySleepsBesideAFullShelf
BY StockInitially, StockStep, PTL DEF StockSpec, StockInvariant
=============================================================================

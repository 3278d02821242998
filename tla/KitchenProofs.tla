----------------------------- MODULE KitchenProofs -----------------------------
(* For any number of cooks and any pizzas, recipes and status requests: the    *)
(* theorems about the pool and the stock hold of both inside a kitchen, and a   *)
(* kitchen keeps what it promises to the reception.                            *)
EXTENDS Kitchen, DataLemmas, SequenceTheorems

PoolProofs == INSTANCE ThreadPoolProofs
StockProofs == INSTANCE IngredientStockProofs WITH Client <- Cook

\* What the proofs of the pool and of the stock know of their own variables.
PoolInv == PoolProofs!PoolInvariant /\ PoolProofs!EachPizzaInOnePlace
StockInv == StockProofs!StockInvariant

\* The packets of the two queues.
OrderPacket ==
    [type : {"Pizza"}, pizza : Pizza] \cup [type : {"StatusRequest", "Shutdown"}]
ResultPacket ==
    [type : {"Done", "Full"}, pizza : Pizza]
    \cup [type : {"CookStatus"}, cook : Cook, state : {"IDLE", "COOKING"}]
    \cup [type : {"StatusReply"}, load : Nat] \cup [type : {"Shutdown"}]

\* The types of what is neither the pool's nor the stock's.
OwnTypes ==
    /\ stage \in [Cook -> {"none", "stock", "bake", "sent", "settled"}]
    /\ cookState \in [Cook -> {"IDLE", "COOKING"}]
    /\ mainPc \in {"start", "receive", "refuse", "read", "reply", "check",
                   "stop", "farewell", "leave", "exited"}
    /\ wantStop \in BOOLEAN /\ idleLong \in BOOLEAN
    /\ refused \in Pizza \cup {NoPizza}
    /\ snapshot \in [load : Nat, cooks : Seq({"IDLE", "COOKING"})]
    /\ orderQ \in Seq(OrderPacket) /\ resultQ \in Seq(ResultPacket)
    /\ alive \in BOOLEAN /\ awaiting \in BOOLEAN /\ commanded \in BOOLEAN
    /\ credit \in 0 .. MaxCapacity
    /\ asked \in 0 .. MaxStatus
    /\ offered \subseteq Pizza /\ reported \subseteq Pizza

\* Where the main thread is in the life of the pool and of the stock.
MainThread ==
    /\ mainPc = "start" <=> phase = "built"
    /\ mainPc \in {"receive", "refuse", "read", "reply", "check"} => phase = "serving"
    /\ mainPc = "stop" => phase # "joined"
    /\ mainPc \in {"farewell", "leave", "exited"} => phase = "joined"
    /\ stockPhase # "open" => mainPc \in {"leave", "exited"}
    /\ refused # NoPizza <=> mainPc = "refuse"
    /\ Len(snapshot.cooks) <= NCooks
    /\ mainPc = "read" => Len(snapshot.cooks) < NCooks
    /\ mainPc \notin {"read", "reply"} => snapshot = NoSnapshot
    /\ wantStop => mainPc \in {"check", "stop", "farewell", "leave", "exited"}
    /\ mainPc \in {"stop", "farewell", "leave", "exited"} => wantStop

\* Where a cook is in cookPizza, in the pool and in the stock.
Cooks ==
    \A c \in Cook :
        /\ stage[c] # "none" => cookPc[c] = "cooking"
        /\ stage[c] = "stock" <=> clientPc[c] # "out"
        /\ cookState[c] = "COOKING" <=> stage[c] \in {"stock", "bake", "sent"}

\* Done was sent for the pizzas of the cooks that have released their pizza, and of
\* those about to.
Reports ==
    \A p \in Pizza :
        p \in reported <=>
            \/ p \in cooked
            \/ \E c \in Cook : holding[c] = p /\ stage[c] \in {"sent", "settled"}

\* A farewell is the last packet.
Farewell ==
    \A i \in DOMAIN resultQ :
        resultQ[i].type = "Shutdown" => i = Len(resultQ) /\ mainPc \in {"leave", "exited"}

\* One Shutdown packet is sent, and stops the loop when it is received.
Shutdowns == Count(orderQ, {"Shutdown"})
Ordered == commanded /\ Shutdowns = 0
Commands ==
    /\ Shutdowns = 0 \/ (commanded /\ Shutdowns = 1)
    /\ commanded /\ ~wantStop => Shutdowns = 1

\* A pool that is stopped without a command is stopped at rest.
Idleness ==
    /\ phase = "built" \/ mainPc = "refuse" => ~idleLong
    /\ idleLong /\ phase = "serving" => Pool!AtRest
    /\ wantStop => Ordered \/ idleLong
    /\ phase \notin {"built", "serving"} => Ordered \/ quiet

\* Each cook read as cooking has a pizza of its own of those that the load counted;
\* so has each cook still to be read, and the queue holds others.
Cooking == {i \in DOMAIN snapshot.cooks : snapshot.cooks[i] = "COOKING"}
ToRead == {c \in Cook : c > Len(snapshot.cooks) /\ cookPc[c] = "cooking"}
Reading ==
    /\ mainPc = "read" =>
          Cardinality(Cooking) + Len(queue) + Cardinality(ToRead) <= snapshot.load
    /\ StatusIsConsistent

\* The inductive invariant.
KInv ==
    /\ PoolInv /\ StockInv
    /\ OwnTypes /\ MainThread /\ Cooks /\ Reports /\ Farewell /\ Commands /\ Idleness
    /\ CreditIsExact /\ Reading

-----------------------------------------------------------------------------
(* The pool and the stock, as this module sees them and as their proofs do.    *)

\* The cooks are the numbers up to NCooks.
LEMMA CookFacts ==
    /\ NCooks \in Nat \ {0} /\ Cook # {} /\ Cook \subseteq Nat
    /\ IsFiniteSet(Cook) /\ Cardinality(Cook) = NCooks /\ NoPizza \notin Pizza
<1>1. NCooks \in Nat \ {0} /\ NoPizza \notin Pizza
  BY KitchenAssumption
<1>2. 1 \in Int /\ NCooks \in Int /\ 1 <= NCooks /\ NCooks - 1 + 1 = NCooks
  BY <1>1
<1>3. IsFiniteSet(1 .. NCooks) /\ Cardinality(1 .. NCooks) = NCooks
  BY <1>2, FS_Interval
<1> QED
  BY <1>1, <1>2, <1>3 DEF Cook

\* Finite sets are the same on both sides.
LEMMA SameFiniteSets ==
    ASSUME NEW S
    PROVE  /\ PoolProofs!IsFiniteSet(S) <=> IsFiniteSet(S)
           /\ Pool!Cardinality(S) = Cardinality(S)
           /\ PoolProofs!Cardinality(S) = Cardinality(S)
<1>1. PoolProofs!IsFiniteSet(S) <=> IsFiniteSet(S)
  BY Zenon DEF PoolProofs!IsFiniteSet, IsFiniteSet
<1>2. Pool!Cardinality(S) = Cardinality(S)
  BY Zenon DEF Pool!Cardinality, Cardinality
<1>3. PoolProofs!Cardinality(S) = Cardinality(S)
  BY Zenon DEF PoolProofs!Cardinality, Cardinality
<1> QED
  BY <1>1, <1>2, <1>3

\* The assumptions under which the theorems about the pool and the stock were proved.
LEMMA PoolAssumptions ==
    PoolProofs!IsFiniteSet(Cook) /\ Cook # {} /\ NoPizza \notin Pizza
BY CookFacts, SameFiniteSets

\* The same of the stock.
LEMMA StockAssumptions ==
    /\ Recipes \subseteq SUBSET Ingredient
    /\ InitialStock \in Nat /\ MaxCalls \in Nat /\ MaxTicks \in Nat
    /\ MaxSizeT \in Nat /\ InitialStock + MaxTicks <= MaxSizeT
<1>1. MaxCalls \in Nat
  BY KitchenAssumption, FS_CardinalityType DEF MaxCalls
<1>2. \A p \in Pizza : RecipeOf[p] \in SUBSET Ingredient
  BY KitchenAssumption
<1> QED
  BY <1>1, <1>2, KitchenAssumption DEF Recipes

\* A step of the pool is one for which its theorems were proved.
LEMMA SamePoolSteps ==
    /\ Pool!Start => PoolProofs!Next
    /\ \A p \in Pizza : Pool!AddPizza(p) => PoolProofs!Next
    /\ Pool!Stop \/ Pool!Destruction => PoolProofs!Next
    /\ \A c \in Cook :
        /\ Pool!CookWaits(c) => PoolProofs!Next
        /\ Pool!CookTakes(c) => PoolProofs!Next
        /\ Pool!CookLeaves(c) => PoolProofs!Next
        /\ Pool!CookAborts(c) => PoolProofs!Next
        /\ Pool!CookFinishes(c) => PoolProofs!Next
        /\ Pool!SpuriousWakeup(c) => PoolProofs!Next
<1>1. Pool!Start => PoolProofs!Start
  BY DEF Pool!Start, PoolProofs!Start
<1>2. ASSUME NEW p \in Pizza
      PROVE  Pool!AddPizza(p) => PoolProofs!AddPizza(p)
  <2>1. Pool!IsFull <=> PoolProofs!IsFull
    BY SameFiniteSets, Zenon
    DEF Pool!IsFull, PoolProofs!IsFull, Pool!MaxCapacity, PoolProofs!MaxCapacity
  <2>2. Pool!NotifyOne <=> PoolProofs!NotifyOne
    BY Zenon DEF Pool!NotifyOne, PoolProofs!NotifyOne, Pool!Cooks, PoolProofs!Cooks
  <2> QED
    BY <2>1, <2>2, Zenon DEF Pool!AddPizza, PoolProofs!AddPizza
<1>3. Pool!Stop => PoolProofs!Stop
  BY Zenon DEF Pool!Stop, PoolProofs!Stop, Pool!AtRest, PoolProofs!AtRest
<1>4. Pool!Destruction => PoolProofs!Destruction
  BY Zenon
  DEF Pool!Destruction, PoolProofs!Destruction, Pool!NotifyAll, PoolProofs!NotifyAll,
      Pool!DestroyMutex, PoolProofs!DestroyMutex, Pool!FreeQueue, PoolProofs!FreeQueue,
      Pool!Join, PoolProofs!Join, Pool!Cooks, PoolProofs!Cooks, Pool!AtMutex, PoolProofs!AtMutex
<1>5. ASSUME NEW c \in Cook
      PROVE  /\ Pool!CookWaits(c) => PoolProofs!CookWaits(c)
             /\ Pool!CookTakes(c) => PoolProofs!CookTakes(c)
             /\ Pool!CookLeaves(c) => PoolProofs!CookLeaves(c)
             /\ Pool!CookAborts(c) => PoolProofs!CookAborts(c)
  <2>1. c \in Pool!AtMutex <=> c \in PoolProofs!AtMutex
    BY Zenon DEF Pool!AtMutex, PoolProofs!AtMutex, Pool!Cooks, PoolProofs!Cooks
  <2>2. Pool!Enters(c) <=> PoolProofs!Enters(c)
    BY <2>1, Zenon DEF Pool!Enters, PoolProofs!Enters
  <2> QED
    BY <2>1, <2>2, Zenon
    DEF Pool!CookWaits, PoolProofs!CookWaits, Pool!CookTakes, PoolProofs!CookTakes,
        Pool!CookLeaves, PoolProofs!CookLeaves, Pool!CookAborts, PoolProofs!CookAborts
<1>6. ASSUME NEW c \in Cook
      PROVE  /\ Pool!CookFinishes(c) => PoolProofs!CookFinishes(c)
             /\ Pool!SpuriousWakeup(c) => PoolProofs!SpuriousWakeup(c)
  BY Zenon DEF Pool!CookFinishes, PoolProofs!CookFinishes,
               Pool!SpuriousWakeup, PoolProofs!SpuriousWakeup
<1> QED
  BY <1>1, <1>2, <1>3, <1>4, <1>5, <1>6 DEF PoolProofs!Next, PoolProofs!CookStep

\* The pool keeps its invariant in every such step, and when it does not move.
LEMMA PoolStays ==
    PoolInv /\ (PoolProofs!Next \/ UNCHANGED poolVars) => PoolInv'
<1>1. UNCHANGED poolVars => UNCHANGED PoolProofs!vars
  BY DEF poolVars, PoolProofs!vars
<1>2. PoolProofs!PoolInvariant /\ [PoolProofs!Next]_PoolProofs!vars =>
          PoolProofs!PoolInvariant'
  BY PoolAssumptions, PoolProofs!TypeStep, PoolProofs!LifecycleStep, PoolProofs!LoadStep,
     PoolProofs!CapacityStep, PoolProofs!WakeupStep, PoolProofs!QuietStep
  DEF PoolProofs!PoolInvariant
<1>3. PoolProofs!PoolInvariant /\ PoolProofs!EachPizzaInOnePlace
          /\ [PoolProofs!Next]_PoolProofs!vars => PoolProofs!EachPizzaInOnePlace'
  BY PoolAssumptions, PoolProofs!PlaceStep
<1> QED
  BY <1>1, <1>2, <1>3 DEF PoolInv

\* A step of the stock is one of those its theorems are about.
LEMMA SameStockSteps ==
    /\ \A c \in Cook, needed \in Recipes : Stock!Ask(c, needed) => StockProofs!StockNext
    /\ \A c \in Cook :
        /\ Stock!WaitForStock(c) => StockProofs!StockNext
        /\ Stock!Consume(c) => StockProofs!StockNext
        /\ Stock!SpuriousStockWakeup(c) => StockProofs!StockNext
    /\ Stock!RegenStep => StockProofs!StockNext
    /\ Stock!CloseStock \/ Stock!StockDestruction => StockProofs!StockNext
<1>1. ASSUME NEW c \in Cook
      PROVE  /\ \A needed : Stock!Ask(c, needed) => StockProofs!Ask(c, needed)
             /\ Stock!WaitForStock(c) => StockProofs!WaitForStock(c)
             /\ Stock!Consume(c) => StockProofs!Consume(c)
             /\ Stock!SpuriousStockWakeup(c) => StockProofs!SpuriousStockWakeup(c)
  <2>1. \A needed : Stock!Ask(c, needed) => StockProofs!Ask(c, needed)
    BY Zenon DEF Stock!Ask, StockProofs!Ask
  <2>2. Stock!WaitForStock(c) => StockProofs!WaitForStock(c)
    BY Zenon DEF Stock!WaitForStock, StockProofs!WaitForStock, Stock!AtStockMutex,
      StockProofs!AtStockMutex, Stock!StockRunning, StockProofs!StockRunning,
      Stock!AllAvailable, StockProofs!AllAvailable
  <2>3. Stock!Consume(c) => StockProofs!Consume(c)
    BY Zenon DEF Stock!Consume, StockProofs!Consume, Stock!AtStockMutex,
      StockProofs!AtStockMutex, Stock!StockRunning, StockProofs!StockRunning,
      Stock!AllAvailable, StockProofs!AllAvailable, Stock!Returns, StockProofs!Returns,
      Stock!TakeOneOfEach, StockProofs!TakeOneOfEach, Stock!OneLess, StockProofs!OneLess
  <2>4. Stock!SpuriousStockWakeup(c) => StockProofs!SpuriousStockWakeup(c)
    BY Zenon DEF Stock!SpuriousStockWakeup, StockProofs!SpuriousStockWakeup
  <2> QED
    BY <2>1, <2>2, <2>3, <2>4
<1>2. Stock!RegenStep => StockProofs!RegenStep
  BY Zenon DEF Stock!RegenStep, StockProofs!RegenStep, Stock!Regenerate, StockProofs!Regenerate,
    Stock!Round, StockProofs!Round, Stock!StockRunning, StockProofs!StockRunning,
    Stock!Woken, StockProofs!Woken, Stock!RegenLeaves, StockProofs!RegenLeaves,
    Stock!OneMore, StockProofs!OneMore
<1>3. Stock!CloseStock => StockProofs!CloseStock
  BY Zenon DEF Stock!CloseStock, StockProofs!CloseStock
<1>4. Stock!StockDestruction => StockProofs!StockDestruction
  BY Zenon DEF Stock!StockDestruction, StockProofs!StockDestruction, Stock!NotifyClosed,
    StockProofs!NotifyClosed, Stock!JoinRegen, StockProofs!JoinRegen, Stock!Woken, StockProofs!Woken,
    Stock!DestroyStockMutex, StockProofs!DestroyStockMutex, Stock!AtStockMutex,
    StockProofs!AtStockMutex
<1> QED
  BY <1>1, <1>2, <1>3, <1>4 DEF StockProofs!StockNext, StockProofs!ClientStep

\* The stock keeps its invariant, whether or not it moves.
LEMMA StockStays ==
    StockInv /\ (StockProofs!StockNext \/ UNCHANGED stockVars) => StockInv'
<1>1. UNCHANGED stockVars => UNCHANGED StockProofs!stockVars
  BY DEF stockVars, StockProofs!stockVars
<1> QED
  BY <1>1, StockAssumptions, StockProofs!StockStep DEF StockInv

-----------------------------------------------------------------------------
(* What the invariant of the pool says in the words of this module, and what   *)
(* the steps of pool and stock do to the variables that the kitchen looks at.  *)
AtWork == {c \in Cook : cookPc[c] = "cooking"}

PoolView ==
    /\ queue \in Seq(Pizza) /\ load \in Nat
    /\ phase \in {"built", "serving", "stopping", "stopped", "unlocked", "freed",
                  "joined", "aborted"}
    /\ cookPc \in [Cook -> {"unborn", "loop", "waiting", "woken", "cooking", "gone"}]
    /\ holding \in [Cook -> Pizza \cup {NoPizza}]
    /\ accepted \subseteq Pizza /\ cooked \subseteq Pizza
    /\ \A c \in Cook : holding[c] # NoPizza <=> cookPc[c] = "cooking"
    /\ phase = "built" <=> \E c \in Cook : cookPc[c] = "unborn"
    /\ running <=> phase = "serving"
    /\ phase = "joined" => \A c \in Cook : cookPc[c] = "gone"
    /\ quiet => phase # "aborted"
    /\ load = Len(queue) + Cardinality(AtWork)

\* The pool's invariant gives this view of it.
LEMMA PoolSeen == PoolInv => PoolView
<1> SUFFICES ASSUME PoolInv PROVE PoolView
  OBVIOUS
<1> USE DEF PoolInv, PoolProofs!PoolInvariant
<1>1. /\ queue \in Seq(Pizza) /\ load \in Nat
      /\ phase \in {"built", "serving", "stopping", "stopped", "unlocked", "freed",
                    "joined", "aborted"}
      /\ cookPc \in [Cook -> {"unborn", "loop", "waiting", "woken", "cooking", "gone"}]
      /\ holding \in [Cook -> Pizza \cup {NoPizza}]
      /\ accepted \subseteq Pizza /\ cooked \subseteq Pizza
  BY DEF PoolProofs!TypeOK, PoolProofs!Phase, PoolProofs!CookState
<1>2. /\ \A c \in Cook : holding[c] # NoPizza <=> cookPc[c] = "cooking"
      /\ phase = "built" => \A c \in Cook : cookPc[c] = "unborn"
      /\ phase # "built" => \A c \in Cook : cookPc[c] # "unborn"
      /\ running <=> phase = "serving"
      /\ phase = "joined" => \A c \in Cook : cookPc[c] = "gone"
  BY Zenon DEF PoolProofs!Lifecycle
<1>3. phase = "built" <=> \E c \in Cook : cookPc[c] = "unborn"
  BY <1>2, CookFacts, Zenon
<1>4. quiet => phase # "aborted"
  BY Zenon DEF PoolProofs!QuietInv
<1>5. load = Len(queue) + Cardinality(AtWork)
  <2>1. load = Len(queue) + PoolProofs!Cardinality(PoolProofs!Cooks("cooking"))
    BY Zenon DEF PoolProofs!LoadIsExact
  <2>2. PoolProofs!Cooks("cooking") = AtWork
    BY DEF PoolProofs!Cooks, AtWork
  <2> QED
    BY <2>1, <2>2, SameFiniteSets, Zenon
<1> QED
  BY <1>1, <1>2, <1>3, <1>4, <1>5, Zenon DEF PoolView

\* A pool that is joined is empty.
LEMMA JoinedEmpty ==
    ASSUME PoolInv, phase = "joined"
    PROVE  queue = <<>> /\ load = 0 /\ \A c \in Cook : cookPc[c] = "gone" /\ holding[c] = NoPizza
<1>1. PoolView /\ Cook # {}
  BY PoolSeen, CookFacts
<1>2. \A c \in Cook : cookPc[c] = "gone" /\ holding[c] = NoPizza
  BY <1>1 DEF PoolView
<1>3. queue = <<>>
  BY <1>1, <1>2 DEF PoolInv, PoolProofs!PoolInvariant, PoolProofs!Lifecycle
<1>4. Cardinality(AtWork) = 0
  <2>1. AtWork = {}
    BY <1>2 DEF AtWork
  <2> QED
    BY <2>1, FS_EmptySet, Zenon
<1> QED
  BY <1>1, <1>2, <1>3, <1>4 DEF PoolView

\* What a cook does in the pool's monitor leaves the pizzas in hand and the counts alone;
\* only a pool in destruction aborts.
LEMMA InPoolEffects ==
    ASSUME PoolInv, NEW c \in Cook, InPool(c)
    PROVE  /\ UNCHANGED <<load, running, accepted, cooked, quiet>>
           /\ phase' = phase \/ (phase' = "aborted" /\ phase \in {"unlocked", "freed"})
           /\ cookPc[c] \in {"loop", "woken"}
           /\ \/ UNCHANGED <<queue, holding>> /\ cookPc' = [cookPc EXCEPT ![c] = "waiting"]
              \/ /\ queue # <<>> /\ queue' = Tail(queue)
                 /\ holding' = [holding EXCEPT ![c] = Head(queue)]
                 /\ cookPc' = [cookPc EXCEPT ![c] = "cooking"]
              \/ UNCHANGED <<queue, holding>> /\ ~running /\ cookPc' = [cookPc EXCEPT ![c] = "gone"]
              \/ UNCHANGED <<queue, holding, cookPc>>
<1> USE DEF Pool!Enters, Pool!AtMutex, Pool!Cooks
<1>1. /\ phase \in {"built", "serving", "stopping", "stopped"} => mutexValid
      /\ phase = "joined" => \A d \in Cook : cookPc[d] = "gone"
      /\ phase \in {"built", "serving", "stopping", "stopped", "unlocked", "freed",
                    "joined", "aborted"}
  BY DEF PoolInv, PoolProofs!PoolInvariant, PoolProofs!Lifecycle, PoolProofs!TypeOK,
         PoolProofs!Phase
<1>2. CASE Pool!CookWaits(c)
  BY <1>2 DEF Pool!CookWaits
<1>3. CASE Pool!CookTakes(c)
  BY <1>3 DEF Pool!CookTakes
<1>4. CASE Pool!CookLeaves(c)
  BY <1>4 DEF Pool!CookLeaves
<1>5. CASE Pool!CookAborts(c)
  BY <1>1, <1>5 DEF Pool!CookAborts
<1> QED
  BY <1>2, <1>3, <1>4, <1>5 DEF InPool

\* The destruction of the pool ends joined, and does nothing to the pizzas.
LEMMA StopEffects ==
    ASSUME PoolInv, Pool!Stop \/ Pool!Destruction
    PROVE  /\ UNCHANGED <<queue, load, holding, accepted, cooked>>
           /\ phase \notin {"built", "aborted", "joined"}
           /\ phase' \notin {"built", "serving", "aborted"}
           /\ phase = "serving" => quiet' = Pool!AtRest
           /\ phase # "serving" => quiet' = quiet
           /\ \A c \in Cook : cookPc'[c] = "cooking" <=> cookPc[c] = "cooking"
<1>0. cookPc \in [Cook -> {"unborn", "loop", "waiting", "woken", "cooking", "gone"}]
  BY DEF PoolInv, PoolProofs!PoolInvariant, PoolProofs!TypeOK, PoolProofs!CookState
<1>1. CASE Pool!Stop
  BY <1>1 DEF Pool!Stop
<1>2. CASE Pool!NotifyAll
  BY <1>0, <1>2 DEF Pool!NotifyAll
<1>3. CASE Pool!DestroyMutex \/ Pool!FreeQueue \/ Pool!Join
  BY <1>3 DEF Pool!DestroyMutex, Pool!FreeQueue, Pool!Join
<1> QED
  BY <1>1, <1>2, <1>3 DEF Pool!Destruction

\* Only the cooks' own calls bring them into the stock or out of it.
LEMMA StockEffects ==
    ASSUME StockInv
    PROVE  /\ clientPc \in [Cook -> {"out", "asking", "waiting", "woken"}]
           /\ stockPhase \in {"open", "closing", "notified", "joined", "dead", "spared",
                              "aborted"}
           /\ Stock!RegenStep =>
                 /\ stockPhase' = stockPhase
                 /\ \A c \in Cook : clientPc'[c] = "out" <=> clientPc[c] = "out"
           /\ Stock!CloseStock \/ Stock!StockDestruction =>
                 \A c \in Cook : clientPc'[c] = "out" <=> clientPc[c] = "out"
           /\ \A c \in Cook :
                 /\ Stock!SpuriousStockWakeup(c) \/ Stock!WaitForStock(c) =>
                       /\ stockPhase' = stockPhase
                       /\ \A d \in Cook : clientPc'[d] = "out" <=> clientPc[d] = "out"
                 /\ Stock!Consume(c) =>
                       stockPhase' = stockPhase /\ clientPc' = [clientPc EXCEPT ![c] = "out"]
                 /\ \A needed : Stock!Ask(c, needed) =>
                       stockPhase' = stockPhase /\ clientPc' = [clientPc EXCEPT ![c] = "asking"]
<1>1. /\ clientPc \in [Cook -> {"out", "asking", "waiting", "woken"}]
      /\ stockPhase \in {"open", "closing", "notified", "joined", "dead", "spared", "aborted"}
  BY DEF StockInv, StockProofs!StockInvariant, StockProofs!StockTypeOK
<1>2. Stock!RegenStep =>
          /\ stockPhase' = stockPhase
          /\ \A c \in Cook : clientPc'[c] = "out" <=> clientPc[c] = "out"
  BY <1>1 DEF Stock!RegenStep, Stock!Regenerate, Stock!Round, Stock!RegenLeaves, Stock!Woken
<1>3. Stock!CloseStock \/ Stock!StockDestruction =>
          \A c \in Cook : clientPc'[c] = "out" <=> clientPc[c] = "out"
  BY <1>1 DEF Stock!CloseStock, Stock!StockDestruction, Stock!NotifyClosed, Stock!JoinRegen,
              Stock!DestroyStockMutex, Stock!Woken
<1>4. ASSUME NEW c \in Cook
      PROVE  /\ Stock!SpuriousStockWakeup(c) \/ Stock!WaitForStock(c) =>
                   /\ stockPhase' = stockPhase
                   /\ \A d \in Cook : clientPc'[d] = "out" <=> clientPc[d] = "out"
             /\ Stock!Consume(c) =>
                   stockPhase' = stockPhase /\ clientPc' = [clientPc EXCEPT ![c] = "out"]
             /\ \A needed : Stock!Ask(c, needed) =>
                   stockPhase' = stockPhase /\ clientPc' = [clientPc EXCEPT ![c] = "asking"]
  BY <1>1 DEF Stock!SpuriousStockWakeup, Stock!WaitForStock, Stock!AtStockMutex,
              Stock!Consume, Stock!TakeOneOfEach, Stock!Returns, Stock!Ask
<1> QED
  BY <1>1, <1>2, <1>3, <1>4

-----------------------------------------------------------------------------
(* The inductive invariant: it holds at first, and what every step does to     *)
(* each part of it.                                                            *)

\* It holds of a new kitchen.
LEMMA KInitially == KitchenInit => KInv
<1> SUFFICES ASSUME KitchenInit PROVE KInv
  OBVIOUS
<1> USE DEF KitchenInit
<1>1. PoolInv
  <2>1. PoolProofs!Init
    BY Zenon DEF Pool!Init, PoolProofs!Init
  <2>2. PoolProofs!PoolInvariant
    BY <2>1, PoolAssumptions, PoolProofs!PoolInit
  <2>3. PoolProofs!EachPizzaInOnePlace
    BY CookFacts DEF Pool!Init, PoolProofs!EachPizzaInOnePlace
  <2> QED
    BY <2>2, <2>3 DEF PoolInv
<1>2. StockInv
  <2>1. StockProofs!StockInit
    BY Zenon DEF Stock!StockInit, StockProofs!StockInit
  <2> QED
    BY <2>1, StockAssumptions, StockProofs!StockInitially DEF StockInv
<1>3. OwnTypes
  <2>1. /\ \A S : <<>> \in Seq(S)
        /\ credit \in 0 .. MaxCapacity /\ asked \in 0 .. MaxStatus
    BY CookFacts, KitchenAssumption DEF MaxCapacity
  <2>2. /\ <<>> \in Seq({"IDLE", "COOKING"})
        /\ orderQ \in Seq(OrderPacket) /\ resultQ \in Seq(ResultPacket)
    BY <2>1
  <2>3. snapshot \in [load : Nat, cooks : Seq({"IDLE", "COOKING"})]
    BY <2>2 DEF NoSnapshot
  <2> QED
    BY <2>1, <2>2, <2>3 DEF OwnTypes
<1>4. MainThread /\ Cooks /\ Farewell
  <2>1. Len(snapshot.cooks) = 0 /\ 0 <= NCooks
    BY CookFacts DEF NoSnapshot
  <2>2. Len(snapshot.cooks) <= NCooks
    BY <2>1
  <2> QED
    BY <2>2, CookFacts DEF MainThread, Cooks, Farewell, Pool!Init, Stock!StockInit
<1>9. Commands
  <2>1. \A types : Count(<<>>, types) = 0
    BY FS_EmptySet DEF Count
  <2> QED
    BY <2>1 DEF Commands, Shutdowns
<1>5. Reports /\ Idleness
  BY CookFacts DEF Reports, Idleness, Pool!Init
<1>6. CreditIsExact
  <2>1. \A types : Count(<<>>, types) = 0
    BY FS_EmptySet DEF Count
  <2>2. accepted \ reported = {}
    BY DEF Pool!Init
  <2>3. Cardinality(accepted \ reported) = 0
    BY <2>2, FS_EmptySet, Zenon
  <2>4. Count(orderQ, {"Pizza"}) = 0 /\ Count(resultQ, {"Done", "Full"}) = 0
    BY <2>1
  <2> QED
    BY <2>3, <2>4 DEF CreditIsExact
<1>7. Reading
  <2>1. {i \in DOMAIN snapshot.cooks : snapshot.cooks[i] = "COOKING"} = {}
    BY DEF NoSnapshot
  <2>2. Cardinality({i \in DOMAIN snapshot.cooks : snapshot.cooks[i] = "COOKING"}) = 0
    BY <2>1, FS_EmptySet, Zenon
  <2> QED
    BY <2>2 DEF Reading, StatusIsConsistent, NoSnapshot
<1> QED
  BY <1>1, <1>2, <1>3, <1>4, <1>5, <1>6, <1>7, <1>9 DEF KInv

\* The monitors keep their invariants: the kitchen uses them as they were proved to be used.
LEMMA MonitorsStep == KInv /\ [KitchenNext]_kitchenVars => PoolInv' /\ StockInv'
<1> SUFFICES ASSUME KInv, [KitchenNext]_kitchenVars PROVE PoolInv' /\ StockInv'
  OBVIOUS
<1>1. PoolInv /\ StockInv
  BY DEF KInv
<1>2. OwnTypes
  BY DEF KInv
<1>3. (PoolProofs!Next \/ UNCHANGED poolVars) /\ (StockProofs!StockNext \/ UNCHANGED stockVars)
  <2>1. ASSUME NEW c \in Cook, CookStep(c) \/ WakesSpuriously(c)
        PROVE  /\ PoolProofs!Next \/ UNCHANGED poolVars
               /\ StockProofs!StockNext \/ UNCHANGED stockVars
    <3>1. CASE InPool(c)
      BY <3>1, SamePoolSteps, Zenon DEF InPool
    <3>2. CASE BeginPizza(c)
      <4>1. holding[c] \in Pizza
        BY <1>1, <3>2, PoolSeen DEF BeginPizza, PoolView
      <4>2. RecipeOf[holding[c]] \in Recipes
        BY <4>1 DEF Recipes
      <4> QED
        BY <3>2, <4>2, SameStockSteps, Zenon DEF BeginPizza
    <3>3. CASE InStock(c)
      BY <3>3, SameStockSteps, Zenon DEF InStock
    <3>4. CASE SendDone(c) \/ BecomeIdle(c)
      BY <3>4, Zenon DEF SendDone, BecomeIdle
    <3>5. CASE ReleaseLoad(c)
      BY <3>5, SamePoolSteps, Zenon DEF ReleaseLoad
    <3>6. CASE WakesSpuriously(c)
      BY <3>6, SamePoolSteps, SameStockSteps, Zenon DEF WakesSpuriously
    <3> QED
      BY <2>1, <3>1, <3>2, <3>3, <3>4, <3>5, <3>6, Zenon DEF CookStep
  <2>2. CASE MainStep
    <3>1. CASE StartPool
      BY <3>1, SamePoolSteps, Zenon DEF StartPool
    <3>2. CASE AcceptPizza
      <4>1. Head(orderQ).pizza \in Pizza
        <5>1. orderQ \in Seq(OrderPacket) /\ orderQ # <<>> /\ Head(orderQ).type = "Pizza"
          BY <1>2, <3>2 DEF OwnTypes, AcceptPizza, ReceivePacket
        <5>2. Head(orderQ) \in OrderPacket
          BY <5>1, QueueEnds
        <5> QED
          BY <5>1, <5>2 DEF OrderPacket
      <4> QED
        BY <3>2, <4>1, SamePoolSteps, Zenon DEF AcceptPizza
    <3>3. CASE ReceiveNothing \/ RefusePizza \/ BeginStatus \/ ReceiveShutdown
      BY <3>3, Zenon DEF ReceiveNothing, RefusePizza, BeginStatus, ReceiveShutdown
    <3>4. CASE SendFull \/ ReadCook \/ SendCookStatus \/ SendStatusReply \/ CheckIdle
      BY <3>4, Zenon DEF SendFull, ReadCook, SendCookStatus, SendStatusReply, CheckIdle
    <3>5. CASE StopPool
      BY <3>5, SamePoolSteps, Zenon DEF StopPool
    <3>6. CASE SendShutdown
      BY <3>6, Zenon DEF SendShutdown
    <3>7. CASE DestroyStock
      BY <3>7, SameStockSteps, Zenon DEF DestroyStock
    <3> QED
      BY <2>2, <3>1, <3>2, <3>3, <3>4, <3>5, <3>6, <3>7, Zenon DEF MainStep, ReceiveOrder
  <2>3. CASE TimePasses
    BY <2>3, Zenon DEF TimePasses
  <2>4. CASE Replenish
    BY <2>4, SameStockSteps, Zenon DEF Replenish
  <2>5. CASE ReceptionStep
    BY <2>5, Zenon DEF ReceptionStep, OfferPizza, AskStatus, CommandShutdown, CollectResult
  <2>6. CASE UNCHANGED kitchenVars
    BY <2>6 DEF kitchenVars
  <2> QED
    BY <2>1, <2>2, <2>3, <2>4, <2>5, <2>6, Zenon DEF KitchenNext, KitchenTerminated
<1> QED
  BY <1>1, <1>3, PoolStays, StockStays

\* The packets that are sent are packets of the queues, and a pizza comes out as it went in.
LEMMA Packets ==
    /\ \A p \in Pizza : PizzaPacket(p) \in OrderPacket
    /\ StatusRequest \in OrderPacket /\ Shutdown \in OrderPacket
    /\ \A p \in Pizza : Done(p) \in ResultPacket /\ Full(p) \in ResultPacket
    /\ \A c \in Cook, state \in {"IDLE", "COOKING"} : CookStatus(c, state) \in ResultPacket
    /\ \A n \in Nat : StatusReply(n) \in ResultPacket
    /\ Shutdown \in ResultPacket
    /\ \A m \in OrderPacket : m.type \in {"Pizza", "StatusRequest", "Shutdown"}
    /\ \A m \in OrderPacket : m.type = "Pizza" => m.pizza \in Pizza
    /\ \A m \in ResultPacket : m.type \in {"Done", "Full", "CookStatus", "StatusReply", "Shutdown"}
<1>1. /\ \A p \in Pizza : PizzaPacket(p) \in OrderPacket
      /\ StatusRequest \in OrderPacket /\ Shutdown \in OrderPacket
  BY DEF PizzaPacket, StatusRequest, Shutdown, OrderPacket
<1>2. /\ \A p \in Pizza : Done(p) \in ResultPacket /\ Full(p) \in ResultPacket
      /\ \A c \in Cook, state \in {"IDLE", "COOKING"} : CookStatus(c, state) \in ResultPacket
      /\ \A n \in Nat : StatusReply(n) \in ResultPacket
      /\ Shutdown \in ResultPacket
  BY DEF Done, Full, CookStatus, StatusReply, Shutdown, ResultPacket
<1>3. /\ \A m \in OrderPacket : m.type \in {"Pizza", "StatusRequest", "Shutdown"}
      /\ \A m \in OrderPacket : m.type = "Pizza" => m.pizza \in Pizza
  BY DEF OrderPacket
<1>4. \A m \in ResultPacket : m.type \in {"Done", "Full", "CookStatus", "StatusReply", "Shutdown"}
  BY DEF ResultPacket
<1> QED
  BY <1>1, <1>2, <1>3, <1>4

\* What is received is the head of the order queue, and one of its packets.
LEMMA Received ==
    ASSUME OwnTypes, NEW type, ReceivePacket(type)
    PROVE  /\ orderQ \in Seq(OrderPacket) /\ orderQ # <<>>
           /\ orderQ' = Tail(orderQ) /\ orderQ' \in Seq(OrderPacket)
           /\ Head(orderQ) \in OrderPacket /\ Head(orderQ).type = type
           /\ type = "Pizza" => Head(orderQ).pizza \in Pizza
           /\ mainPc = "receive" /\ phase # "aborted"
<1>1. /\ orderQ \in Seq(OrderPacket) /\ orderQ # <<>> /\ orderQ' = Tail(orderQ)
      /\ Head(orderQ).type = type /\ mainPc = "receive" /\ phase # "aborted"
  BY DEF OwnTypes, ReceivePacket, Running
<1>2. Tail(orderQ) \in Seq(OrderPacket) /\ Head(orderQ) \in OrderPacket
  BY <1>1, QueueEnds
<1> QED
  BY <1>1, <1>2, Packets

\* The types of the kitchen's own variables.
LEMMA TypesStep == KInv /\ [KitchenNext]_kitchenVars => OwnTypes'
<1> SUFFICES ASSUME KInv, [KitchenNext]_kitchenVars PROVE OwnTypes'
  OBVIOUS
<1>1. OwnTypes /\ PoolView
  BY PoolSeen DEF KInv
<1>2. /\ orderQ \in Seq(OrderPacket) /\ resultQ \in Seq(ResultPacket)
      /\ snapshot \in [load : Nat, cooks : Seq({"IDLE", "COOKING"})]
      /\ snapshot.load \in Nat /\ snapshot.cooks \in Seq({"IDLE", "COOKING"})
      /\ MaxCapacity \in Nat /\ credit \in 0 .. MaxCapacity /\ MaxStatus \in Nat
  BY <1>1, CookFacts, KitchenAssumption DEF OwnTypes, MaxCapacity
<1>3. /\ \A m \in OrderPacket : Append(orderQ, m) \in Seq(OrderPacket)
      /\ \A m \in ResultPacket : Append(resultQ, m) \in Seq(ResultPacket)
  BY <1>2, QueueEnds
<1>4. \A s \in [load : Nat, cooks : Seq({"IDLE", "COOKING"})] :
          /\ s.load \in Nat /\ s.cooks \in Seq({"IDLE", "COOKING"})
          /\ \A q \in Seq({"IDLE", "COOKING"}) : [s EXCEPT !.cooks = q] =
                [load |-> s.load, cooks |-> q]
  OBVIOUS
<1>5. ASSUME NEW c \in Cook, CookStep(c) \/ WakesSpuriously(c)
      PROVE  OwnTypes'
  <2>1. CASE InPool(c) \/ WakesSpuriously(c)
    BY <1>1, <2>1 DEF OwnTypes, InPool, WakesSpuriously, cookVars, mainVars, receptionVars
  <2>2. CASE BeginPizza(c)
    BY <1>1, <2>2 DEF OwnTypes, BeginPizza, mainVars, receptionVars
  <2>3. CASE InStock(c)
    BY <1>1, <2>3 DEF OwnTypes, InStock, mainVars, receptionVars
  <2>4. CASE SendDone(c)
    <3>1. holding[c] \in Pizza
      BY <1>1, <2>4 DEF SendDone, PoolView, KInv, Cooks
    <3>2. resultQ' \in Seq(ResultPacket)
      BY <1>3, <2>4, <3>1, Packets DEF SendDone
    <3> QED
      BY <1>1, <2>4, <3>1, <3>2 DEF OwnTypes, SendDone, mainVars, receptionVars
  <2>5. CASE BecomeIdle(c)
    BY <1>1, <2>5 DEF OwnTypes, BecomeIdle, mainVars, receptionVars
  <2>6. CASE ReleaseLoad(c)
    BY <1>1, <2>6 DEF OwnTypes, ReleaseLoad, mainVars, receptionVars
  <2> QED
    BY <1>5, <2>1, <2>2, <2>3, <2>4, <2>5, <2>6 DEF CookStep
<1>6. CASE MainStep
  <2>1. CASE StartPool \/ CheckIdle \/ StopPool \/ DestroyStock \/ ReceiveNothing
    BY <1>1, <2>1
    DEF OwnTypes, StartPool, CheckIdle, StopPool, DestroyStock, ReceiveNothing, cookVars,
        receptionVars
  <2>2. CASE AcceptPizza \/ ReceiveShutdown
    <3>1. orderQ' \in Seq(OrderPacket)
      BY <1>1, <2>2, Received DEF AcceptPizza, ReceiveShutdown
    <3> QED
      BY <1>1, <2>2, <3>1 DEF OwnTypes, AcceptPizza, ReceiveShutdown, cookVars, receptionVars
  <2>3. CASE RefusePizza
    <3>1. orderQ' \in Seq(OrderPacket) /\ refused' \in Pizza
      BY <1>1, <2>3, Received DEF RefusePizza
    <3> QED
      BY <1>1, <2>3, <3>1 DEF OwnTypes, RefusePizza, cookVars, receptionVars
  <2>4. CASE BeginStatus
    <3>1. orderQ' \in Seq(OrderPacket)
      BY <1>1, <2>4, Received DEF BeginStatus
    <3>2. snapshot' = [load |-> load, cooks |-> <<>>] /\ load \in Nat
      BY <1>1, <2>4 DEF BeginStatus, PoolView
    <3>3. <<>> \in Seq({"IDLE", "COOKING"})
      OBVIOUS
    <3>4. snapshot' \in [load : Nat, cooks : Seq({"IDLE", "COOKING"})]
      BY <3>2, <3>3
    <3> QED
      BY <1>1, <2>4, <3>1, <3>4 DEF OwnTypes, BeginStatus, cookVars, receptionVars
  <2>5. CASE SendFull
    <3>1. refused \in Pizza
      BY <1>1, <2>5 DEF SendFull, OwnTypes, KInv, MainThread
    <3>2. resultQ' \in Seq(ResultPacket)
      BY <1>3, <2>5, <3>1, Packets DEF SendFull
    <3> QED
      BY <1>1, <2>5, <3>2 DEF OwnTypes, SendFull, cookVars, receptionVars
  <2>6. CASE ReadCook
    <3> DEFINE d == Len(snapshot.cooks) + 1
    <3>1. d \in Cook
      <4>1. Len(snapshot.cooks) \in Nat /\ Len(snapshot.cooks) < NCooks
        BY <1>2, <2>6 DEF ReadCook, KInv, MainThread
      <4> QED
        BY <4>1, CookFacts DEF Cook
    <3>2. cookState[d] \in {"IDLE", "COOKING"}
      BY <1>1, <3>1 DEF OwnTypes
    <3>3. Append(snapshot.cooks, cookState[d]) \in Seq({"IDLE", "COOKING"})
      BY <1>2, <3>2, QueueEnds
    <3>4. snapshot' = [snapshot EXCEPT !.cooks = Append(snapshot.cooks, cookState[d])]
      BY <2>6 DEF ReadCook
    <3>5. snapshot' \in [load : Nat, cooks : Seq({"IDLE", "COOKING"})]
      BY <1>2, <3>3, <3>4
    <3> QED
      BY <1>1, <2>6, <3>5 DEF OwnTypes, ReadCook, cookVars, receptionVars
  <2>7. CASE SendCookStatus
    <3>1. /\ Head(snapshot.cooks) \in {"IDLE", "COOKING"}
          /\ Tail(snapshot.cooks) \in Seq({"IDLE", "COOKING"})
      BY <1>2, <2>7, QueueEnds DEF SendCookStatus
    <3>2. snapshot' = [snapshot EXCEPT !.cooks = Tail(snapshot.cooks)]
      BY <2>7 DEF SendCookStatus
    <3>3. snapshot' \in [load : Nat, cooks : Seq({"IDLE", "COOKING"})]
      BY <1>2, <3>1, <3>2
    <3>4. NCooks - Len(snapshot.cooks) + 1 \in Cook
      <4>1. Len(snapshot.cooks) \in Nat /\ 1 <= Len(snapshot.cooks)
        BY <1>2, <2>7, QueueEnds DEF SendCookStatus
      <4>2. Len(snapshot.cooks) <= NCooks
        BY <2>7 DEF SendCookStatus, KInv, MainThread
      <4> QED
        BY <4>1, <4>2, CookFacts DEF Cook
    <3>5. resultQ' \in Seq(ResultPacket)
      BY <1>3, <2>7, <3>1, <3>4, Packets DEF SendCookStatus
    <3> QED
      BY <1>1, <2>7, <3>3, <3>5 DEF OwnTypes, SendCookStatus, cookVars, receptionVars
  <2>8. CASE SendStatusReply
    <3>1. resultQ' \in Seq(ResultPacket)
      BY <1>2, <1>3, <2>8, Packets DEF SendStatusReply
    <3>2. <<>> \in Seq({"IDLE", "COOKING"})
      OBVIOUS
    <3>3. NoSnapshot \in [load : Nat, cooks : Seq({"IDLE", "COOKING"})]
      BY <3>2 DEF NoSnapshot
    <3> QED
      BY <1>1, <2>8, <3>1, <3>3 DEF OwnTypes, SendStatusReply, cookVars, receptionVars
  <2>9. CASE SendShutdown
    <3>1. resultQ' \in Seq(ResultPacket)
      BY <1>3, <2>9, Packets DEF SendShutdown
    <3> QED
      BY <1>1, <2>9, <3>1 DEF OwnTypes, SendShutdown, cookVars, receptionVars
  <2> QED
    BY <1>6, <2>1, <2>2, <2>3, <2>4, <2>5, <2>6, <2>7, <2>8, <2>9, Zenon
    DEF MainStep, ReceiveOrder
<1>7. CASE TimePasses \/ Replenish
  BY <1>1, <1>7 DEF OwnTypes, TimePasses, Replenish, cookVars, mainVars, receptionVars
<1>8. CASE ReceptionStep
  <2>1. ASSUME NEW p \in Pizza, OfferPizza(p) PROVE OwnTypes'
    <3>1. orderQ' \in Seq(OrderPacket)
      BY <1>3, <2>1, Packets DEF OfferPizza
    <3>2. credit' \in 0 .. MaxCapacity
      BY <1>2, <2>1 DEF OfferPizza
    <3> QED
      BY <1>1, <2>1, <3>1, <3>2 DEF OwnTypes, OfferPizza, cookVars, mainVars
  <2>2. CASE AskStatus
    <3>1. orderQ' \in Seq(OrderPacket)
      BY <1>3, <2>2, Packets DEF AskStatus
    <3>2. asked' \in 0 .. MaxStatus
      BY <1>1, <1>2, <2>2 DEF AskStatus, OwnTypes
    <3> QED
      BY <1>1, <2>2, <3>1, <3>2 DEF OwnTypes, AskStatus, cookVars, mainVars
  <2>3. CASE CommandShutdown
    <3>1. orderQ' \in Seq(OrderPacket)
      BY <1>3, <2>3, Packets DEF CommandShutdown
    <3> QED
      BY <1>1, <2>3, <3>1 DEF OwnTypes, CommandShutdown, cookVars, mainVars
  <2>4. CASE CollectResult
    <3>1. resultQ' \in Seq(ResultPacket)
      BY <1>2, <2>4, QueueEnds DEF CollectResult
    <3>2. credit' \in 0 .. MaxCapacity /\ alive' \in BOOLEAN /\ awaiting' \in BOOLEAN
      BY <1>2, <2>4 DEF CollectResult
    <3> QED
      BY <1>1, <2>4, <3>1, <3>2 DEF OwnTypes, CollectResult, cookVars, mainVars
  <2> QED
    BY <1>8, <2>1, <2>2, <2>3, <2>4 DEF ReceptionStep
<1>9. CASE UNCHANGED kitchenVars
  BY <1>1, <1>9 DEF OwnTypes, kitchenVars, cookVars, mainVars, receptionVars
<1> QED
  BY <1>5, <1>6, <1>7, <1>8, <1>9, Zenon DEF KitchenNext, KitchenTerminated

\* The place of the main thread, in the life of the pool and of the stock.
LEMMA MainThreadStep == KInv /\ [KitchenNext]_kitchenVars => MainThread'
<1> SUFFICES ASSUME KInv, [KitchenNext]_kitchenVars PROVE MainThread'
  OBVIOUS
<1>1. OwnTypes /\ PoolInv /\ PoolView /\ StockInv /\ MainThread
  BY PoolSeen DEF KInv
<1>2. UNCHANGED <<mainVars, stockPhase, phase>> => MainThread'
  BY <1>1 DEF MainThread, mainVars
<1>3. ASSUME NEW c \in Cook, CookStep(c) \/ WakesSpuriously(c)
      PROVE  MainThread'
  <2>1. CASE InPool(c)
    <3>1. /\ phase' = phase \/ (phase' = "aborted" /\ phase \in {"unlocked", "freed"})
          /\ UNCHANGED <<mainVars, stockPhase>>
      BY <1>1, <2>1, InPoolEffects DEF InPool, stockVars
    <3> QED
      BY <1>1, <1>2, <3>1 DEF MainThread, mainVars
  <2>2. CASE BeginPizza(c) \/ InStock(c)
    <3>1. UNCHANGED <<mainVars, phase>>
      BY <2>2 DEF BeginPizza, InStock, poolVars
    <3>2. stockPhase' = stockPhase
      BY <1>1, <2>2, StockEffects DEF BeginPizza, InStock
    <3> QED
      BY <1>2, <3>1, <3>2
  <2>3. CASE SendDone(c) \/ BecomeIdle(c) \/ ReleaseLoad(c)
    BY <1>2, <2>3 DEF SendDone, BecomeIdle, ReleaseLoad, poolVars, stockVars, Pool!CookFinishes
  <2>4. CASE WakesSpuriously(c)
    <3>1. UNCHANGED <<mainVars, phase>>
      BY <2>4 DEF WakesSpuriously, poolVars, Pool!SpuriousWakeup
    <3>2. stockPhase' = stockPhase
      BY <1>1, <2>4, StockEffects DEF WakesSpuriously, stockVars
    <3> QED
      BY <1>2, <3>1, <3>2
  <2> QED
    BY <1>3, <2>1, <2>2, <2>3, <2>4 DEF CookStep
<1>4. CASE MainStep
  <2>1. CASE StartPool
    BY <1>1, <2>1 DEF MainThread, StartPool, Pool!Start, stockVars
  <2>2. CASE ReceiveOrder
    <3>1. CASE ReceiveNothing \/ ReceiveShutdown
      BY <1>1, <3>1 DEF MainThread, ReceiveNothing, ReceiveShutdown, ReceivePacket, poolVars,
                        stockVars
    <3>2. CASE AcceptPizza
      BY <1>1, <3>2 DEF MainThread, AcceptPizza, ReceivePacket, stockVars, Pool!AddPizza
    <3>3. CASE RefusePizza
      <4>1. refused' \in Pizza /\ mainPc = "receive"
        BY <1>1, <3>3, Received DEF RefusePizza
      <4> QED
        BY <1>1, <3>3, <4>1, CookFacts DEF MainThread, RefusePizza, poolVars, stockVars
    <3>4. CASE BeginStatus
      <4>1. snapshot'.cooks = <<>>
        BY <3>4 DEF BeginStatus
      <4>2. Len(snapshot'.cooks) = 0
        BY <4>1
      <4>3. Len(snapshot'.cooks) <= NCooks /\ Len(snapshot'.cooks) < NCooks
        BY <4>2, CookFacts
      <4>4. UNCHANGED <<phase, stockPhase, wantStop, refused>> /\ mainPc' = "read"
            /\ mainPc = "receive"
        BY <3>4 DEF BeginStatus, ReceivePacket, poolVars, stockVars
      <4> QED
        BY <1>1, <4>3, <4>4 DEF MainThread
    <3> QED
      BY <2>2, <3>1, <3>2, <3>3, <3>4 DEF ReceiveOrder
  <2>3. CASE SendFull \/ CheckIdle \/ SendShutdown
    BY <1>1, <2>3 DEF MainThread, SendFull, CheckIdle, SendShutdown, poolVars, stockVars
  <2>4. CASE ReadCook
    <3>1. /\ snapshot.cooks \in Seq({"IDLE", "COOKING"}) /\ Len(snapshot.cooks) \in Nat
          /\ snapshot \in [load : Nat, cooks : Seq({"IDLE", "COOKING"})]
          /\ Len(snapshot.cooks) < NCooks
      BY <1>1, <2>4 DEF OwnTypes, MainThread, ReadCook
    <3>2. snapshot'.cooks = Append(snapshot.cooks, cookState[Len(snapshot.cooks) + 1])
      BY <2>4, <3>1 DEF ReadCook
    <3>3. Len(snapshot'.cooks) = Len(snapshot.cooks) + 1
      BY <3>1, <3>2
    <3>4. mainPc' = IF Len(snapshot.cooks) + 1 = NCooks THEN "reply" ELSE "read"
      BY <2>4 DEF ReadCook
    <3>5. Len(snapshot'.cooks) <= NCooks /\ (mainPc' = "read" => Len(snapshot'.cooks) < NCooks)
      BY <3>1, <3>3, <3>4, CookFacts
    <3> QED
      BY <1>1, <2>4, <3>4, <3>5 DEF MainThread, ReadCook, poolVars, stockVars
  <2>5. CASE SendCookStatus
    <3>1. /\ snapshot.cooks \in Seq({"IDLE", "COOKING"}) /\ snapshot.cooks # <<>>
          /\ snapshot \in [load : Nat, cooks : Seq({"IDLE", "COOKING"})]
          /\ Len(snapshot.cooks) <= NCooks
      BY <1>1, <2>5 DEF OwnTypes, MainThread, SendCookStatus
    <3>2. snapshot'.cooks = Tail(snapshot.cooks)
      BY <2>5, <3>1 DEF SendCookStatus
    <3>3. Len(snapshot'.cooks) <= NCooks
      BY <3>1, <3>2, CookFacts
    <3> QED
      BY <1>1, <2>5, <3>3 DEF MainThread, SendCookStatus, poolVars, stockVars
  <2>6. CASE SendStatusReply
    <3>1. Len(snapshot'.cooks) = 0
      BY <2>6 DEF SendStatusReply, NoSnapshot
    <3> QED
      BY <1>1, <2>6, <3>1, CookFacts DEF MainThread, SendStatusReply, poolVars, stockVars
  <2>7. CASE StopPool
    <3>1. /\ phase \notin {"built", "aborted", "joined"}
          /\ phase' \notin {"built", "serving", "aborted"}
      BY <1>1, <2>7, StopEffects DEF StopPool
    <3> QED
      BY <1>1, <2>7, <3>1 DEF MainThread, StopPool, stockVars
  <2>8. CASE DestroyStock
    BY <1>1, <2>8 DEF MainThread, DestroyStock, poolVars
  <2> QED
    BY <1>4, <2>1, <2>2, <2>3, <2>4, <2>5, <2>6, <2>7, <2>8, Zenon DEF MainStep
<1>5. CASE TimePasses
  BY <1>1, <1>5 DEF MainThread, TimePasses, poolVars, stockVars
<1>6. CASE Replenish
  <2>1. stockPhase' = stockPhase
    BY <1>1, <1>6, StockEffects DEF Replenish
  <2> QED
    BY <1>2, <1>6, <2>1 DEF Replenish, poolVars
<1>7. CASE ReceptionStep
  BY <1>2, <1>7
  DEF ReceptionStep, OfferPizza, AskStatus, CommandShutdown, CollectResult, poolVars, stockVars
<1>8. CASE UNCHANGED kitchenVars
  BY <1>2, <1>8 DEF kitchenVars, poolVars, stockVars
<1> QED
  BY <1>3, <1>4, <1>5, <1>6, <1>7, <1>8, Zenon DEF KitchenNext, KitchenTerminated

\* addPizza on a pool that has room.
LEMMA AddEffects ==
    ASSUME PoolInv, NEW p \in Pizza, Pool!AddPizza(p)
    PROVE  /\ UNCHANGED <<phase, running, holding, cooked, quiet>>
           /\ queue' = Append(queue, p) /\ load' = load + 1
           /\ p \notin accepted /\ accepted' = accepted \cup {p}
           /\ phase = "serving"
           /\ \A c \in Cook : cookPc'[c] = "cooking" <=> cookPc[c] = "cooking"
<1>1. cookPc \in [Cook -> {"unborn", "loop", "waiting", "woken", "cooking", "gone"}]
  BY PoolSeen DEF PoolView
<1>2. \A c \in Cook : cookPc'[c] = "cooking" <=> cookPc[c] = "cooking"
  BY <1>1 DEF Pool!AddPizza, Pool!NotifyOne, Pool!Cooks
<1> QED
  BY <1>2 DEF Pool!AddPizza

\* A step that is not a cook's way through cookPizza leaves every cook where it is there,
\* with its pizza in hand.
Elsewhere ==
    /\ UNCHANGED <<cookVars, cooked>>
    /\ \A c \in Cook :
        /\ cookPc[c] = "cooking" => cookPc'[c] = "cooking" /\ holding'[c] = holding[c]
        /\ clientPc'[c] = "out" <=> clientPc[c] = "out"

LEMMA ElsewhereOrCook ==
    KInv /\ [KitchenNext]_kitchenVars =>
        \/ Elsewhere
        \/ \E c \in Cook : \/ BeginPizza(c) \/ InStock(c) \/ SendDone(c) \/ BecomeIdle(c)
                           \/ ReleaseLoad(c)
<1> SUFFICES ASSUME KInv, [KitchenNext]_kitchenVars,
                    ~ \E c \in Cook : \/ BeginPizza(c) \/ InStock(c) \/ SendDone(c)
                                      \/ BecomeIdle(c) \/ ReleaseLoad(c)
             PROVE  Elsewhere
  OBVIOUS
<1>1. PoolInv /\ PoolView /\ StockInv /\ OwnTypes
  BY PoolSeen DEF KInv
<1>2. UNCHANGED <<cookVars, poolVars, stockVars>> => Elsewhere
  BY DEF Elsewhere, poolVars, stockVars
<1>3. ASSUME NEW c \in Cook, InPool(c) PROVE Elsewhere
  <2>1. UNCHANGED <<cookVars, cooked, clientPc>>
    BY <1>1, <1>3, InPoolEffects DEF InPool, stockVars
  <2>2. \A d \in Cook : cookPc[d] = "cooking" => cookPc'[d] = "cooking" /\ holding'[d] = holding[d]
    <3>1. /\ cookPc \in [Cook -> {"unborn", "loop", "waiting", "woken", "cooking", "gone"}]
          /\ holding \in [Cook -> Pizza \cup {NoPizza}]
      BY <1>1 DEF PoolView
    <3> QED
      BY <1>1, <1>3, <3>1, InPoolEffects
  <2> QED
    BY <2>1, <2>2 DEF Elsewhere
<1>4. ASSUME NEW c \in Cook, WakesSpuriously(c) PROVE Elsewhere
  <2>1. CASE Pool!SpuriousWakeup(c) /\ UNCHANGED stockVars
    BY <1>1, <1>4, <2>1 DEF Elsewhere, WakesSpuriously, stockVars, Pool!SpuriousWakeup, PoolView
  <2>2. CASE Stock!SpuriousStockWakeup(c) /\ UNCHANGED poolVars
    BY <1>1, <1>4, <2>2, StockEffects DEF Elsewhere, WakesSpuriously, poolVars
  <2> QED
    BY <1>4, <2>1, <2>2 DEF WakesSpuriously
<1>5. CASE MainStep
  <2>1. CASE StartPool
    BY <1>1, <2>1 DEF Elsewhere, StartPool, Pool!Start, PoolView, stockVars, KInv, MainThread,
                      PoolInv, PoolProofs!PoolInvariant, PoolProofs!Lifecycle
  <2>2. CASE AcceptPizza
    <3>1. Head(orderQ).pizza \in Pizza
      BY <1>1, <2>2, Received DEF AcceptPizza
    <3> QED
      BY <1>1, <2>2, <3>1, AddEffects DEF Elsewhere, AcceptPizza, stockVars
  <2>3. CASE ReceiveNothing \/ RefusePizza \/ BeginStatus \/ ReceiveShutdown
    BY <1>2, <2>3, Zenon DEF ReceiveNothing, RefusePizza, BeginStatus, ReceiveShutdown
  <2>4. CASE SendFull \/ ReadCook \/ SendCookStatus \/ SendStatusReply \/ CheckIdle \/ SendShutdown
    BY <1>2, <2>4, Zenon
    DEF SendFull, ReadCook, SendCookStatus, SendStatusReply, CheckIdle, SendShutdown
  <2>5. CASE StopPool
    BY <1>1, <2>5, StopEffects DEF Elsewhere, StopPool, stockVars
  <2>6. CASE DestroyStock
    BY <1>1, <2>6, StockEffects DEF Elsewhere, DestroyStock, poolVars
  <2> QED
    BY <1>5, <2>1, <2>2, <2>3, <2>4, <2>5, <2>6, Zenon DEF MainStep, ReceiveOrder
<1>6. CASE TimePasses
  BY <1>2, <1>6, Zenon DEF TimePasses
<1>7. CASE Replenish
  BY <1>1, <1>7, StockEffects DEF Elsewhere, Replenish, poolVars
<1>8. CASE ReceptionStep
  BY <1>2, <1>8, Zenon DEF ReceptionStep, OfferPizza, AskStatus, CommandShutdown, CollectResult
<1>9. CASE UNCHANGED kitchenVars
  BY <1>2, <1>9 DEF kitchenVars
<1> QED
  BY <1>3, <1>4, <1>5, <1>6, <1>7, <1>8, <1>9, Zenon
  DEF KitchenNext, KitchenTerminated, CookStep

\* Where the cooks are in cookPizza, in the pool and in the stock.
LEMMA CooksStep == KInv /\ [KitchenNext]_kitchenVars => Cooks'
<1> SUFFICES ASSUME KInv, [KitchenNext]_kitchenVars PROVE Cooks'
  OBVIOUS
<1>1. /\ PoolInv /\ PoolView /\ StockInv /\ Cooks
      /\ stage \in [Cook -> {"none", "stock", "bake", "sent", "settled"}]
      /\ cookState \in [Cook -> {"IDLE", "COOKING"}]
      /\ cookPc \in [Cook -> {"unborn", "loop", "waiting", "woken", "cooking", "gone"}]
      /\ clientPc \in [Cook -> {"out", "asking", "waiting", "woken"}]
  BY PoolSeen, StockEffects DEF KInv, OwnTypes, PoolView
<1>2. CASE Elsewhere
  BY <1>1, <1>2 DEF Cooks, Elsewhere, cookVars
<1>3. ASSUME NEW c \in Cook, BeginPizza(c) PROVE Cooks'
  <2>1. /\ stage[c] = "none" /\ stage' = [stage EXCEPT ![c] = "stock"]
        /\ cookState' = [cookState EXCEPT ![c] = "COOKING"]
        /\ clientPc' = [clientPc EXCEPT ![c] = "asking"]
        /\ cookPc[c] = "cooking" /\ cookPc' = cookPc
    BY <1>1, <1>3, StockEffects DEF BeginPizza, poolVars
  <2> QED
    BY <1>1, <2>1 DEF Cooks
<1>4. ASSUME NEW c \in Cook, InStock(c) PROVE Cooks'
  <2>1. stage[c] = "stock" /\ UNCHANGED <<cookPc, cookState>>
    BY <1>4 DEF InStock, poolVars
  <2>2. CASE Stock!WaitForStock(c)
    <3>1. \A d \in Cook : clientPc'[d] = "out" <=> clientPc[d] = "out"
      BY <1>1, <2>2, StockEffects
    <3>2. stage' = stage
      BY <1>1, <1>4, <2>1, <3>1 DEF InStock, Cooks
    <3> QED
      BY <1>1, <2>1, <3>1, <3>2 DEF Cooks
  <2>3. CASE Stock!Consume(c)
    <3>1. clientPc' = [clientPc EXCEPT ![c] = "out"]
      BY <1>1, <2>3, StockEffects
    <3>2. stage' = [stage EXCEPT ![c] = "bake"]
      BY <1>1, <1>4, <3>1 DEF InStock
    <3> QED
      BY <1>1, <2>1, <3>1, <3>2 DEF Cooks
  <2> QED
    BY <1>4, <2>2, <2>3 DEF InStock
<1>5. ASSUME NEW c \in Cook, SendDone(c) \/ BecomeIdle(c) PROVE Cooks'
  <2>1. UNCHANGED <<cookPc, clientPc>>
    BY <1>5 DEF SendDone, BecomeIdle, poolVars, stockVars
  <2>2. \/ /\ stage[c] = "bake" /\ stage' = [stage EXCEPT ![c] = "sent"] /\ cookState' = cookState
        \/ /\ stage[c] = "sent" /\ stage' = [stage EXCEPT ![c] = "settled"]
           /\ cookState' = [cookState EXCEPT ![c] = "IDLE"]
    BY <1>5 DEF SendDone, BecomeIdle
  <2> QED
    BY <1>1, <2>1, <2>2 DEF Cooks
<1>6. ASSUME NEW c \in Cook, ReleaseLoad(c) PROVE Cooks'
  <2>1. /\ UNCHANGED <<clientPc, cookState>> /\ cookPc' = [cookPc EXCEPT ![c] = "loop"]
        /\ stage[c] = "settled" /\ stage' = [stage EXCEPT ![c] = "none"]
    BY <1>6 DEF ReleaseLoad, Pool!CookFinishes, stockVars
  <2> QED
    BY <1>1, <2>1 DEF Cooks
<1> QED
  BY <1>2, <1>3, <1>4, <1>5, <1>6, ElsewhereOrCook

\* What was reported is cooked, or in the hands of a cook that has sent Done.
LEMMA ReportsStep == KInv /\ [KitchenNext]_kitchenVars => Reports'
<1> SUFFICES ASSUME KInv, [KitchenNext]_kitchenVars PROVE Reports'
  OBVIOUS
<1>1. /\ PoolView /\ Cooks /\ Reports
      /\ stage \in [Cook -> {"none", "stock", "bake", "sent", "settled"}]
      /\ holding \in [Cook -> Pizza \cup {NoPizza}] /\ NoPizza \notin Pizza
      /\ \A c \in Cook : stage[c] # "none" => cookPc[c] = "cooking"
  BY PoolSeen, CookFacts DEF KInv, OwnTypes, PoolView, Cooks
<1>2. ASSUME UNCHANGED <<reported, cooked>>,
             \A c \in Cook : stage'[c] \in {"sent", "settled"} <=> stage[c] \in {"sent", "settled"},
             \A c \in Cook : stage[c] \in {"sent", "settled"} => holding'[c] = holding[c]
      PROVE  Reports'
  BY <1>1, <1>2 DEF Reports
<1>3. CASE Elsewhere
  <2>1. UNCHANGED <<stage, reported, cooked>>
    BY <1>3 DEF Elsewhere, cookVars
  <2>2. \A c \in Cook : stage[c] \in {"sent", "settled"} => holding'[c] = holding[c]
    BY <1>1, <1>3 DEF Elsewhere
  <2> QED
    BY <1>2, <2>1, <2>2
<1>4. ASSUME NEW c \in Cook, BeginPizza(c) \/ InStock(c) \/ BecomeIdle(c) PROVE Reports'
  <2>1. UNCHANGED <<reported, cooked, holding>>
    BY <1>4 DEF BeginPizza, InStock, BecomeIdle, poolVars
  <2>2. \A d \in Cook : stage'[d] \in {"sent", "settled"} <=> stage[d] \in {"sent", "settled"}
    BY <1>1, <1>4 DEF BeginPizza, InStock, BecomeIdle
  <2> QED
    BY <1>2, <2>1, <2>2
<1>5. ASSUME NEW c \in Cook, SendDone(c) PROVE Reports'
  <2>1. /\ reported' = reported \cup {holding[c]} /\ UNCHANGED <<cooked, holding>>
        /\ stage' = [stage EXCEPT ![c] = "sent"] /\ stage[c] = "bake"
    BY <1>5 DEF SendDone, poolVars
  <2> QED
    BY <1>1, <2>1 DEF Reports
<1>6. ASSUME NEW c \in Cook, ReleaseLoad(c) PROVE Reports'
  <2>1. /\ cooked' = cooked \cup {holding[c]} /\ reported' = reported
        /\ holding' = [holding EXCEPT ![c] = NoPizza]
        /\ stage[c] = "settled" /\ stage' = [stage EXCEPT ![c] = "none"]
    BY <1>6 DEF ReleaseLoad, Pool!CookFinishes
  <2> QED
    BY <1>1, <2>1 DEF Reports
<1> QED
  BY <1>3, <1>4, <1>5, <1>6, ElsewhereOrCook

\* A packet sent before the farewell.
LEMMA SentBeforeFarewell ==
    ASSUME OwnTypes, Farewell, mainPc \notin {"leave", "exited"}, NEW m \in ResultPacket,
           resultQ' = Append(resultQ, m), m.type = "Shutdown" => mainPc' = "leave"
    PROVE  Farewell'
<1>1. resultQ \in Seq(ResultPacket)
  BY DEF OwnTypes
<1>2. /\ Len(resultQ) \in Nat /\ DOMAIN resultQ = 1 .. Len(resultQ)
      /\ Len(resultQ') = Len(resultQ) + 1
      /\ DOMAIN resultQ' = 1 .. Len(resultQ) + 1
      /\ \A i \in DOMAIN resultQ' : resultQ'[i] = IF i = Len(resultQ) + 1 THEN m ELSE resultQ[i]
  BY <1>1, QueueEnds
<1>3. \A i \in DOMAIN resultQ : resultQ[i].type # "Shutdown"
  BY DEF Farewell
<1>4. ASSUME NEW i \in DOMAIN resultQ', resultQ'[i].type = "Shutdown"
      PROVE  i = Len(resultQ') /\ mainPc' \in {"leave", "exited"}
  <2>1. i = Len(resultQ) + 1
    <3> SUFFICES ASSUME i # Len(resultQ) + 1 PROVE FALSE
      OBVIOUS
    <3>1. i \in DOMAIN resultQ /\ resultQ'[i] = resultQ[i]
      BY <1>2
    <3> QED
      BY <1>3, <1>4, <3>1
  <2>2. resultQ'[i] = m
    BY <1>2, <2>1
  <2> QED
    BY <1>2, <1>4, <2>1, <2>2
<1> QED
  BY <1>4 DEF Farewell

\* Nothing follows the farewell.
LEMMA FarewellStep == KInv /\ [KitchenNext]_kitchenVars => Farewell'
<1> SUFFICES ASSUME KInv, [KitchenNext]_kitchenVars PROVE Farewell'
  OBVIOUS
<1>1. OwnTypes /\ PoolView /\ MainThread /\ Cooks /\ Farewell
  BY PoolSeen DEF KInv
<1>2. resultQ' = resultQ /\ (mainPc \in {"leave", "exited"} => mainPc' \in {"leave", "exited"})
          => Farewell'
  BY <1>1 DEF Farewell
<1>3. ASSUME NEW c \in Cook, CookStep(c) \/ WakesSpuriously(c)
      PROVE  Farewell'
  <2>1. CASE SendDone(c)
    <3>1. cookPc[c] = "cooking" /\ holding[c] \in Pizza
      BY <1>1, <2>1 DEF SendDone, Cooks, PoolView
    <3>2. phase # "joined"
      BY <1>1, <3>1 DEF PoolView
    <3>3. mainPc \notin {"leave", "exited"}
      BY <1>1, <3>2 DEF MainThread
    <3>4. Done(holding[c]) \in ResultPacket /\ Done(holding[c]).type # "Shutdown"
      BY <3>1, Packets DEF Done
    <3>5. resultQ' = Append(resultQ, Done(holding[c]))
      BY <2>1 DEF SendDone
    <3> QED
      BY <1>1, <3>3, <3>4, <3>5, SentBeforeFarewell
  <2>2. CASE ~SendDone(c)
    BY <1>2, <1>3, <2>2
    DEF CookStep, InPool, BeginPizza, InStock, BecomeIdle, ReleaseLoad, WakesSpuriously, mainVars
  <2> QED
    BY <2>1, <2>2
<1>4. CASE MainStep
  <2>1. CASE StartPool \/ CheckIdle \/ StopPool \/ DestroyStock \/ ReadCook
    BY <1>2, <2>1 DEF StartPool, CheckIdle, StopPool, DestroyStock, ReadCook
  <2>2. CASE ReceiveOrder
    BY <1>2, <2>2
    DEF ReceiveOrder, ReceiveNothing, AcceptPizza, RefusePizza, BeginStatus, ReceiveShutdown,
        ReceivePacket
  <2>3. CASE SendFull
    <3>1. refused \in Pizza
      BY <1>1, <2>3 DEF SendFull, OwnTypes, MainThread
    <3>2. Full(refused) \in ResultPacket /\ Full(refused).type # "Shutdown"
      BY <3>1, Packets DEF Full
    <3>3. resultQ' = Append(resultQ, Full(refused)) /\ mainPc \notin {"leave", "exited"}
      BY <2>3 DEF SendFull
    <3> QED
      BY <1>1, <3>2, <3>3, SentBeforeFarewell
  <2>4. CASE SendCookStatus
    <3> DEFINE m == CookStatus(NCooks - Len(snapshot.cooks) + 1, Head(snapshot.cooks))
    <3>1. snapshot.cooks \in Seq({"IDLE", "COOKING"}) /\ snapshot.cooks # <<>>
      BY <1>1, <2>4 DEF OwnTypes, SendCookStatus
    <3>2. NCooks - Len(snapshot.cooks) + 1 \in Cook /\ Head(snapshot.cooks) \in {"IDLE", "COOKING"}
      <4>1. /\ Len(snapshot.cooks) \in Nat /\ 1 <= Len(snapshot.cooks)
            /\ Head(snapshot.cooks) \in {"IDLE", "COOKING"}
        BY <3>1, QueueEnds
      <4>2. Len(snapshot.cooks) <= NCooks
        BY <1>1 DEF MainThread
      <4> QED
        BY <4>1, <4>2, CookFacts DEF Cook
    <3>3. m \in ResultPacket /\ m.type # "Shutdown"
      BY <3>2, Packets DEF CookStatus
    <3>4. resultQ' = Append(resultQ, m) /\ mainPc \notin {"leave", "exited"}
      BY <2>4 DEF SendCookStatus
    <3> HIDE DEF m
    <3> QED
      BY <1>1, <3>3, <3>4, SentBeforeFarewell
  <2>5. CASE SendStatusReply
    <3>1. /\ StatusReply(snapshot.load) \in ResultPacket
          /\ StatusReply(snapshot.load).type # "Shutdown"
      BY <1>1, Packets DEF OwnTypes, StatusReply
    <3>2. /\ resultQ' = Append(resultQ, StatusReply(snapshot.load))
          /\ mainPc \notin {"leave", "exited"}
      BY <2>5 DEF SendStatusReply
    <3> QED
      BY <1>1, <3>1, <3>2, SentBeforeFarewell
  <2>6. CASE SendShutdown
    BY <1>1, <2>6, Packets, SentBeforeFarewell DEF SendShutdown
  <2> QED
    BY <1>4, <2>1, <2>2, <2>3, <2>4, <2>5, <2>6, Zenon DEF MainStep
<1>5. CASE TimePasses \/ Replenish
  BY <1>2, <1>5 DEF TimePasses, Replenish, mainVars
<1>6. CASE ReceptionStep
  <2>1. CASE CollectResult
    <3>1. resultQ \in Seq(ResultPacket) /\ resultQ # <<>> /\ resultQ' = Tail(resultQ)
      BY <1>1, <2>1 DEF OwnTypes, CollectResult
    <3>2. /\ Len(resultQ') = Len(resultQ) - 1 /\ Len(resultQ) \in Nat
          /\ DOMAIN resultQ' = 1 .. Len(resultQ) - 1
          /\ \A i \in DOMAIN resultQ' : resultQ'[i] = resultQ[i + 1] /\ i + 1 \in DOMAIN resultQ
      BY <3>1, QueueEnds
    <3>3. mainPc' = mainPc
      BY <2>1 DEF CollectResult, mainVars
    <3>4. ASSUME NEW i \in DOMAIN resultQ', resultQ'[i].type = "Shutdown"
          PROVE  i = Len(resultQ') /\ mainPc' \in {"leave", "exited"}
      <4>1. i + 1 = Len(resultQ) /\ mainPc \in {"leave", "exited"}
        BY <1>1, <3>2, <3>4 DEF Farewell
      <4> QED
        BY <3>2, <3>3, <3>4, <4>1
    <3> QED
      BY <3>4 DEF Farewell
  <2>2. CASE ~CollectResult
    BY <1>2, <1>6, <2>2 DEF ReceptionStep, OfferPizza, AskStatus, CommandShutdown, mainVars
  <2> QED
    BY <2>1, <2>2
<1>7. CASE UNCHANGED kitchenVars
  BY <1>2, <1>7 DEF kitchenVars, mainVars
<1> QED
  BY <1>3, <1>4, <1>5, <1>6, <1>7, Zenon DEF KitchenNext, KitchenTerminated

\* How many packets of some kinds a queue holds, as a number of elements.
LEMMA CountIsNumber ==
    ASSUME NEW S, NEW q \in Seq(S), NEW types
    PROVE  Count(q, types) = Number(q, {m \in S : m.type \in types})
<1> DEFINE M == {m \in S : m.type \in types}
<1>1. \A i \in DOMAIN q : q[i] \in S
  BY QueueEnds
<1>2. {i \in DOMAIN q : q[i].type \in types} = Hits(q, M)
  BY <1>1 DEF Hits
<1> QED
  BY <1>2, Zenon DEF Count, Number

\* It is a number.
LEMMA CountNat ==
    ASSUME NEW S, NEW q \in Seq(S), NEW types
    PROVE  Count(q, types) \in Nat
<1> DEFINE M == {m \in S : m.type \in types}
<1>1. Count(q, types) = Number(q, M)
  BY CountIsNumber
<1> HIDE DEF M
<1> QED
  BY <1>1, HitsFinite

\* A packet more.
LEMMA CountAppend ==
    ASSUME NEW S, NEW q \in Seq(S), NEW m \in S, NEW r, r = Append(q, m), NEW types
    PROVE  Count(r, types) = Count(q, types) + (IF m.type \in types THEN 1 ELSE 0)
<1> DEFINE M == {x \in S : x.type \in types}
<1>1. r \in Seq(S)
  BY QueueEnds
<1>2. Number(Append(q, m), M) = Number(q, M) + (IF m \in M THEN 1 ELSE 0)
  <2> HIDE DEF M
  <2> QED
    BY NumberAppend
<1>3. Count(q, types) = Number(q, M)
  BY CountIsNumber
<1>4. Count(r, types) = Number(r, M)
  BY <1>1, CountIsNumber
<1>5. Number(r, M) = Number(Append(q, m), M)
  OBVIOUS
<1>6. m \in M <=> m.type \in types
  OBVIOUS
<1> HIDE DEF M
<1> QED
  BY <1>2, <1>3, <1>4, <1>5, <1>6

\* A packet less.
LEMMA CountTail ==
    ASSUME NEW S, NEW q \in Seq(S), q # <<>>, NEW r, r = Tail(q), NEW types
    PROVE  Count(q, types) = Count(r, types) + (IF Head(q).type \in types THEN 1 ELSE 0)
<1> DEFINE M == {x \in S : x.type \in types}
<1>1. r \in Seq(S) /\ Head(q) \in S
  BY QueueEnds
<1>2. Number(q, M) = Number(Tail(q), M) + (IF Head(q) \in M THEN 1 ELSE 0)
  <2> HIDE DEF M
  <2> QED
    BY NumberTail
<1>3. Count(q, types) = Number(q, M)
  BY CountIsNumber
<1>4. Count(r, types) = Number(r, M)
  BY <1>1, CountIsNumber
<1>5. Number(r, M) = Number(Tail(q), M)
  OBVIOUS
<1>6. Head(q) \in M <=> Head(q).type \in types
  BY <1>1
<1> HIDE DEF M
<1> QED
  BY <1>2, <1>3, <1>4, <1>5, <1>6

\* What was accepted and not reported is finite, and counts one more or one less with a
\* pizza more or less.
LEMMA AcceptedCounts ==
    ASSUME PoolView
    PROVE  /\ IsFiniteSet(accepted) /\ IsFiniteSet(accepted \ reported)
           /\ Cardinality(accepted \ reported) \in Nat
           /\ \A p \in Pizza :
                /\ p \notin accepted /\ p \notin reported =>
                      Cardinality((accepted \cup {p}) \ reported) =
                          Cardinality(accepted \ reported) + 1
                /\ p \in accepted /\ p \notin reported =>
                      Cardinality(accepted \ (reported \cup {p})) =
                          Cardinality(accepted \ reported) - 1
<1> DEFINE T == accepted \ reported
<1>1. IsFiniteSet(accepted) /\ IsFiniteSet(T) /\ Cardinality(T) \in Nat
  <2>1. IsFiniteSet(Pizza) /\ accepted \subseteq Pizza /\ T \subseteq Pizza
    BY KitchenAssumption DEF PoolView
  <2> QED
    BY <2>1, FS_Subset, FS_CardinalityType
<1>2. ASSUME NEW p \in Pizza, p \notin accepted, p \notin reported
      PROVE  Cardinality((accepted \cup {p}) \ reported) = Cardinality(T) + 1
  <2>1. (accepted \cup {p}) \ reported = T \cup {p} /\ p \notin T
    BY <1>2
  <2>2. Cardinality(T \cup {p}) = Cardinality(T) + 1
    BY <1>1, <2>1, FS_AddElement
  <2> QED
    BY <2>1, <2>2, Zenon
<1>3. ASSUME NEW p \in Pizza, p \in accepted, p \notin reported
      PROVE  Cardinality(accepted \ (reported \cup {p})) = Cardinality(T) - 1
  <2>1. accepted \ (reported \cup {p}) = T \ {p} /\ p \in T
    BY <1>3
  <2>2. Cardinality(T \ {p}) = Cardinality(T) - 1
    BY <1>1, <2>1, FS_RemoveElement
  <2> QED
    BY <2>1, <2>2, Zenon
<1> QED
  BY <1>1, <1>2, <1>3

\* Only accepted pizzas are cooked or in a cook's hands, and no pizza is in two hands.
LEMMA HandsApart ==
    ASSUME PoolInv
    PROVE  /\ cooked \subseteq accepted
           /\ \A c \in Cook : holding[c] # NoPizza => holding[c] \in accepted \ cooked
           /\ \A c, d \in Cook : holding[c] = holding[d] /\ holding[c] # NoPizza => c = d
           /\ \A i \in DOMAIN queue : queue[i] \in accepted \ cooked
           /\ \A i \in DOMAIN queue, c \in Cook : holding[c] # queue[i]
           /\ \A i, j \in DOMAIN queue : queue[i] = queue[j] => i = j
           /\ \A p \in accepted \ cooked :
                 (\E i \in DOMAIN queue : p = queue[i]) \/ (\E c \in Cook : p = holding[c])
BY DEF PoolInv, PoolProofs!EachPizzaInOnePlace

\* A pool is full with twice as many pizzas as cooks.
LEMMA PoolFull == Pool!IsFull <=> load >= MaxCapacity
<1>1. Pool!Cardinality(Cook) = NCooks
  BY CookFacts, SameFiniteSets, Zenon
<1>2. Pool!MaxCapacity = MaxCapacity
  BY <1>1 DEF Pool!MaxCapacity, MaxCapacity
<1> QED
  BY <1>2, Zenon DEF Pool!IsFull

\* The one Shutdown packet, from the command on until it is received; a kitchen that has
\* received it stays so ordered.
LEMMA CommandsStep ==
    KInv /\ [KitchenNext]_kitchenVars =>
        /\ Commands' /\ (Ordered => Ordered')
        /\ (ReceiveShutdown => Ordered') /\ (CommandShutdown => ~Ordered')
<1> SUFFICES ASSUME KInv, [KitchenNext]_kitchenVars
             PROVE  /\ Commands' /\ (Ordered => Ordered')
                    /\ (ReceiveShutdown => Ordered') /\ (CommandShutdown => ~Ordered')
  OBVIOUS
<1>1. /\ OwnTypes /\ MainThread /\ Commands
      /\ orderQ \in Seq(OrderPacket) /\ Shutdowns \in Nat
  BY CountNat DEF KInv, OwnTypes, Shutdowns
<1>2. /\ orderQ' = orderQ => Shutdowns' = Shutdowns
      /\ \A m \in OrderPacket : orderQ' = Append(orderQ, m) =>
            Shutdowns' = Shutdowns + (IF m.type = "Shutdown" THEN 1 ELSE 0)
      /\ orderQ # <<>> /\ orderQ' = Tail(orderQ) =>
            /\ Shutdowns = Shutdowns' + (IF Head(orderQ).type = "Shutdown" THEN 1 ELSE 0)
            /\ Shutdowns' \in Nat
  <2> DEFINE D == Count(orderQ, {"Shutdown"})
  <2>1. orderQ' = orderQ => D' = D
    BY Zenon
  <2>2. /\ \A m \in OrderPacket : orderQ' = Append(orderQ, m) =>
              D' = D + (IF m.type = "Shutdown" THEN 1 ELSE 0)
        /\ orderQ # <<>> /\ orderQ' = Tail(orderQ) =>
              D = D' + (IF Head(orderQ).type = "Shutdown" THEN 1 ELSE 0)
    BY <1>1, CountAppend, CountTail
  <2>3. orderQ # <<>> /\ orderQ' = Tail(orderQ) => D' \in Nat
    BY <1>1, QueueEnds, CountNat
  <2> QED
    BY <2>1, <2>2, <2>3 DEF Shutdowns
<1>3. ASSUME Shutdowns' = Shutdowns, commanded' = commanded, wantStop => wantStop', ~ReceiveShutdown
      PROVE  Commands' /\ (Ordered => Ordered') /\ (ReceiveShutdown => Ordered')
  BY <1>1, <1>3 DEF Commands, Ordered
<1>4. CASE ReceiveShutdown
  <2>1. orderQ # <<>> /\ orderQ' = Tail(orderQ) /\ Head(orderQ).type = "Shutdown"
    BY <1>1, <1>4, Received DEF ReceiveShutdown
  <2>2. PICK n \in Nat : Shutdowns' = n /\ Shutdowns = n + 1
    BY <1>2, <2>1
  <2>3. commanded /\ n = 0
    BY <1>1, <2>2 DEF Commands
  <2>4. commanded' = commanded /\ wantStop' /\ ~CommandShutdown
    BY <1>4, <2>3 DEF ReceiveShutdown, receptionVars, CommandShutdown
  <2> QED
    BY <2>2, <2>3, <2>4 DEF Commands, Ordered
<1>5. CASE CommandShutdown
  <2>1. ~commanded /\ commanded' /\ orderQ' = Append(orderQ, Shutdown)
    BY <1>5 DEF CommandShutdown
  <2>2. Shutdown \in OrderPacket /\ Shutdown.type = "Shutdown"
    BY Packets DEF Shutdown
  <2>3. Shutdowns' = Shutdowns + 1
    BY <1>2, <2>1, <2>2
  <2>4. Shutdowns = 0
    BY <1>1, <2>1 DEF Commands
  <2>5. ~ReceiveShutdown
    BY <2>1 DEF ReceiveShutdown, receptionVars
  <2> QED
    BY <2>1, <2>3, <2>4, <2>5 DEF Commands, Ordered
<1>6. ASSUME NEW m \in OrderPacket, m.type # "Shutdown", orderQ' = Append(orderQ, m),
             UNCHANGED <<commanded, wantStop>>
      PROVE  Commands' /\ (Ordered => Ordered')
  <2>1. Shutdowns' = Shutdowns + 0
    BY <1>2, <1>6
  <2>2. Shutdowns' = Shutdowns
    BY <1>1, <2>1
  <2> QED
    BY <1>1, <1>6, <2>2 DEF Commands, Ordered
<1>7. ASSUME AcceptPizza \/ RefusePizza \/ BeginStatus
      PROVE  Commands' /\ (Ordered => Ordered')
  <2>1. orderQ # <<>> /\ orderQ' = Tail(orderQ) /\ Head(orderQ).type # "Shutdown"
    BY <1>1, <1>7, Received DEF AcceptPizza, RefusePizza, BeginStatus
  <2>2. PICK n \in Nat : Shutdowns' = n /\ Shutdowns = n + 0
    BY <1>2, <2>1
  <2>3. Shutdowns' = Shutdowns
    BY <2>2
  <2>4. UNCHANGED <<commanded, wantStop>>
    BY <1>7 DEF AcceptPizza, RefusePizza, BeginStatus, receptionVars
  <2>5. ~ReceiveShutdown
    BY <2>1 DEF ReceiveShutdown, ReceivePacket
  <2> QED
    BY <1>3, <2>3, <2>4, <2>5
<1>8. ASSUME UNCHANGED <<orderQ, commanded>>, wantStop => wantStop', ~ReceiveShutdown
      PROVE  Commands' /\ (Ordered => Ordered') /\ (ReceiveShutdown => Ordered')
  BY <1>2, <1>3, <1>8
<1>9. ASSUME ~ReceiveShutdown
      PROVE  Commands' /\ (Ordered => Ordered')
  <2>1. ASSUME NEW c \in Cook, CookStep(c) \/ WakesSpuriously(c)
        PROVE  Commands' /\ (Ordered => Ordered')
    BY <1>8, <1>9, <2>1
    DEF CookStep, InPool, BeginPizza, InStock, SendDone, BecomeIdle, ReleaseLoad, WakesSpuriously,
        mainVars, receptionVars
  <2>2. CASE MainStep
    BY <1>7, <1>8, <1>9, <2>2
    DEF MainStep, ReceiveOrder, ReceiveNothing, StartPool, SendFull, ReadCook, SendCookStatus,
        SendStatusReply, CheckIdle, StopPool, SendShutdown, DestroyStock, receptionVars
  <2>3. CASE TimePasses \/ Replenish \/ CollectResult
    BY <1>8, <1>9, <2>3 DEF TimePasses, Replenish, CollectResult, mainVars, receptionVars
  <2>4. ASSUME NEW p \in Pizza, OfferPizza(p) PROVE Commands' /\ (Ordered => Ordered')
    <3>1. /\ PizzaPacket(p) \in OrderPacket /\ PizzaPacket(p).type # "Shutdown"
          /\ orderQ' = Append(orderQ, PizzaPacket(p)) /\ UNCHANGED <<commanded, wantStop>>
      BY <2>4, Packets DEF OfferPizza, PizzaPacket, mainVars
    <3> QED
      BY <1>6, <3>1
  <2>5. CASE AskStatus
    <3>1. /\ StatusRequest \in OrderPacket /\ StatusRequest.type # "Shutdown"
          /\ orderQ' = Append(orderQ, StatusRequest) /\ UNCHANGED <<commanded, wantStop>>
      BY <2>5, Packets DEF AskStatus, StatusRequest, mainVars
    <3> QED
      BY <1>6, <3>1
  <2>6. CASE UNCHANGED kitchenVars
    BY <1>8, <1>9, <2>6 DEF kitchenVars, mainVars, receptionVars
  <2> QED
    BY <1>5, <2>1, <2>2, <2>3, <2>4, <2>5, <2>6, Zenon
    DEF KitchenNext, KitchenTerminated, ReceptionStep
<1> QED
  BY <1>4, <1>5, <1>9

\* A kitchen is idle for long only while its pool is at rest, and so when it is stopped for it.
LEMMA IdlenessStep == KInv /\ [KitchenNext]_kitchenVars => Idleness'
<1> SUFFICES ASSUME KInv, [KitchenNext]_kitchenVars PROVE Idleness'
  OBVIOUS
<1>1. PoolInv /\ PoolView /\ MainThread /\ Idleness /\ Cook # {}
  BY PoolSeen, CookFacts DEF KInv
<1>2. Ordered => Ordered'
  BY CommandsStep
<1> USE DEF Pool!AtRest
<1>3. ASSUME UNCHANGED <<phase, load, cookPc, quiet, idleLong, wantStop>>,
             mainPc' = "refuse" => mainPc = "refuse" \/ ~idleLong
      PROVE  Idleness'
  BY <1>1, <1>2, <1>3 DEF Idleness
<1>4. ASSUME NEW c \in Cook, CookStep(c) \/ WakesSpuriously(c)
      PROVE  Idleness'
  <2>1. CASE InPool(c)
    <3>1. ASSUME idleLong, phase = "serving" PROVE Pool!AtRest'
      <4>1. load = 0 /\ running /\ \A d \in Cook : cookPc[d] \in {"waiting", "woken"}
        BY <1>1, <3>1 DEF Idleness, PoolView
      <4>2. Cardinality(AtWork) \in Nat
        BY CookFacts, FS_Subset, FS_CardinalityType DEF AtWork
      <4>3. Len(queue) \in Nat /\ queue \in Seq(Pizza) /\ load = Len(queue) + Cardinality(AtWork)
        BY <1>1 DEF PoolView
      <4>4. Len(queue) = 0
        BY <4>1, <4>2, <4>3
      <4>5. queue = <<>>
        BY <4>3, <4>4
      <4>6. \/ cookPc' = [cookPc EXCEPT ![c] = "waiting"]
            \/ cookPc' = cookPc
        BY <1>1, <2>1, <4>1, <4>5, InPoolEffects
      <4>7. load' = load
        BY <1>1, <2>1, InPoolEffects
      <4>8. cookPc \in [Cook -> {"unborn", "loop", "waiting", "woken", "cooking", "gone"}]
        BY <1>1 DEF PoolView
      <4> QED
        BY <4>1, <4>6, <4>7, <4>8
    <3>2. /\ phase' = phase \/ (phase' = "aborted" /\ phase \in {"unlocked", "freed"})
          /\ quiet' = quiet
      BY <1>1, <2>1, InPoolEffects
    <3>3. UNCHANGED <<idleLong, wantStop, mainPc>>
      BY <2>1 DEF InPool, mainVars
    <3> QED
      BY <1>1, <1>2, <3>1, <3>2, <3>3 DEF Idleness
  <2>2. CASE BeginPizza(c) \/ InStock(c) \/ SendDone(c) \/ BecomeIdle(c)
    BY <1>3, <2>2 DEF BeginPizza, InStock, SendDone, BecomeIdle, poolVars, mainVars
  <2>3. CASE ReleaseLoad(c)
    <3>1. cookPc[c] = "cooking" /\ UNCHANGED <<phase, quiet, idleLong, wantStop, mainPc>>
      BY <2>3 DEF ReleaseLoad, Pool!CookFinishes, mainVars
    <3>2. ~(idleLong /\ phase = "serving")
      BY <1>1, <3>1 DEF Idleness
    <3> QED
      BY <1>1, <1>2, <3>1, <3>2 DEF Idleness
  <2>4. CASE WakesSpuriously(c)
    <3>1. CASE UNCHANGED poolVars
      BY <1>3, <2>4, <3>1 DEF WakesSpuriously, poolVars, mainVars
    <3>2. CASE Pool!SpuriousWakeup(c)
      <4>1. /\ UNCHANGED <<phase, load, quiet, idleLong, wantStop, mainPc>>
            /\ cookPc' = [cookPc EXCEPT ![c] = "woken"]
        BY <2>4, <3>2 DEF WakesSpuriously, Pool!SpuriousWakeup, mainVars
      <4>2. cookPc \in [Cook -> {"unborn", "loop", "waiting", "woken", "cooking", "gone"}]
        BY <1>1 DEF PoolView
      <4> QED
        BY <1>1, <1>2, <4>1, <4>2 DEF Idleness
    <3> QED
      BY <2>4, <3>1, <3>2 DEF WakesSpuriously
  <2> QED
    BY <1>4, <2>1, <2>2, <2>3, <2>4 DEF CookStep
<1>5. CASE MainStep
  <2>1. CASE StartPool
    BY <1>1, <1>2, <2>1 DEF Idleness, StartPool, Pool!Start
  <2>2. CASE ReceiveOrder
    <3>1. CASE ReceiveNothing \/ BeginStatus
      BY <1>3, <3>1 DEF ReceiveNothing, BeginStatus, poolVars
    <3>4. CASE RefusePizza
      <4>1. load >= MaxCapacity
        BY <3>4, PoolFull DEF RefusePizza
      <4>2. load # 0 /\ phase = "serving"
        BY <1>1, <3>4, <4>1, CookFacts
        DEF RefusePizza, ReceivePacket, MainThread, MaxCapacity, PoolView
      <4>3. ~idleLong
        BY <1>1, <4>2 DEF Idleness
      <4>4. UNCHANGED <<phase, load, cookPc, quiet, idleLong, wantStop>>
        BY <3>4 DEF RefusePizza, poolVars
      <4> QED
        BY <1>3, <4>3, <4>4
    <3>2. CASE AcceptPizza
      <4>1. ~wantStop /\ phase = "serving" /\ phase' = phase
        BY <1>1, <3>2 DEF AcceptPizza, ReceivePacket, MainThread, Pool!AddPizza
      <4>2. ~idleLong' /\ ~wantStop'
        BY <3>2, <4>1 DEF AcceptPizza
      <4> QED
        BY <1>2, <4>1, <4>2 DEF Idleness
    <3>3. CASE ReceiveShutdown
      <4>1. Ordered' /\ mainPc' # "refuse"
        BY <3>3, CommandsStep DEF ReceiveShutdown
      <4>2. UNCHANGED <<phase, load, cookPc, quiet, idleLong>>
        BY <3>3 DEF ReceiveShutdown, poolVars
      <4> QED
        BY <1>1, <1>2, <4>1, <4>2 DEF Idleness
    <3> QED
      BY <2>2, <3>1, <3>2, <3>3, <3>4 DEF ReceiveOrder
  <2>3. CASE \/ SendFull \/ ReadCook \/ SendCookStatus
             \/ SendStatusReply \/ SendShutdown \/ DestroyStock
    BY <1>3, <2>3
    DEF SendFull, ReadCook, SendCookStatus, SendStatusReply, SendShutdown, DestroyStock, poolVars
  <2>4. CASE CheckIdle
    <3>1. phase = "serving"
      BY <1>1, <2>4 DEF CheckIdle, MainThread
    <3>2. idleLong => load = 0
      BY <1>1, <3>1 DEF Idleness
    <3>3. /\ UNCHANGED <<phase, load, cookPc, quiet>>
          /\ mainPc' # "refuse"
          /\ idleLong' = (idleLong /\ load = 0) /\ wantStop' = (wantStop \/ (idleLong /\ load = 0))
      BY <2>4 DEF CheckIdle, poolVars
    <3> QED
      BY <1>1, <1>2, <3>1, <3>2, <3>3 DEF Idleness
  <2>5. CASE StopPool
    <3>1. /\ phase \notin {"built", "aborted", "joined"}
          /\ phase' \notin {"built", "serving", "aborted"}
          /\ phase = "serving" => quiet' = Pool!AtRest
          /\ phase # "serving" => quiet' = quiet
      BY <1>1, <2>5, StopEffects DEF StopPool
    <3>2. wantStop /\ UNCHANGED <<wantStop, idleLong>>
      BY <1>1, <2>5 DEF StopPool, MainThread
    <3>3. Ordered \/ idleLong
      BY <1>1, <3>2 DEF Idleness
    <3>4. phase = "serving" => Ordered \/ quiet'
      BY <1>1, <3>1, <3>3 DEF Idleness
    <3>5. phase # "serving" => Ordered \/ quiet'
      BY <1>1, <3>1 DEF Idleness
    <3> QED
      BY <1>1, <1>2, <2>5, <3>1, <3>2, <3>3, <3>4, <3>5 DEF Idleness, StopPool
  <2> QED
    BY <1>5, <2>1, <2>2, <2>3, <2>4, <2>5, Zenon DEF MainStep
<1>6. CASE TimePasses
  <2>1. /\ UNCHANGED <<phase, load, cookPc, quiet, wantStop>> /\ Pool!AtRest
        /\ mainPc = "receive" /\ mainPc' = mainPc /\ phase = "serving"
    BY <1>1, <1>6 DEF TimePasses, MainThread, poolVars
  <2> QED
    BY <1>1, <1>2, <1>6, <2>1 DEF Idleness, TimePasses
<1>7. CASE Replenish \/ ReceptionStep
  BY <1>3, <1>7
  DEF Replenish, ReceptionStep, OfferPizza, AskStatus, CommandShutdown, CollectResult, poolVars,
      mainVars
<1>8. CASE UNCHANGED kitchenVars
  BY <1>3, <1>8 DEF kitchenVars, poolVars, mainVars
<1> QED
  BY <1>4, <1>5, <1>6, <1>7, <1>8, Zenon DEF KitchenNext, KitchenTerminated

\* The reception's count of what it is owed.
LEMMA CreditStep == KInv /\ [KitchenNext]_kitchenVars => CreditIsExact'
<1> SUFFICES ASSUME KInv, [KitchenNext]_kitchenVars PROVE CreditIsExact'
  OBVIOUS
<1>1. /\ OwnTypes /\ PoolInv /\ PoolView /\ MainThread /\ Cooks /\ Reports /\ CreditIsExact
      /\ orderQ \in Seq(OrderPacket) /\ resultQ \in Seq(ResultPacket)
      /\ credit \in Nat /\ NoPizza \notin Pizza
  BY PoolSeen, CookFacts DEF KInv, OwnTypes, MaxCapacity
<1> DEFINE P == Count(orderQ, {"Pizza"})
           R == IF refused = NoPizza THEN 0 ELSE 1
           O == Cardinality(accepted \ reported)
           A == Count(resultQ, {"Done", "Full"})
<1>2. P \in Nat /\ R \in Nat /\ O \in Nat /\ A \in Nat
  BY <1>1, CountNat, AcceptedCounts
<1>3. credit = P + R + O + A
  BY <1>1 DEF CreditIsExact
<1>4. /\ orderQ' = orderQ => P' = P
      /\ refused' = refused => R' = R
      /\ UNCHANGED <<accepted, reported>> => O' = O
      /\ resultQ' = resultQ => A' = A
  BY Zenon
<1>5. /\ \A m \in OrderPacket : orderQ' = Append(orderQ, m) =>
            P' = P + (IF m.type = "Pizza" THEN 1 ELSE 0)
      /\ orderQ # <<>> /\ orderQ' = Tail(orderQ) =>
            P = P' + (IF Head(orderQ).type = "Pizza" THEN 1 ELSE 0)
      /\ \A m \in ResultPacket : resultQ' = Append(resultQ, m) =>
            A' = A + (IF m.type \in {"Done", "Full"} THEN 1 ELSE 0)
      /\ resultQ # <<>> /\ resultQ' = Tail(resultQ) =>
            A = A' + (IF Head(resultQ).type \in {"Done", "Full"} THEN 1 ELSE 0)
  BY <1>1, CountAppend, CountTail
<1>6. credit' = P' + R' + O' + A' => CreditIsExact'
  BY DEF CreditIsExact
<1>7. ASSUME UNCHANGED <<credit, orderQ, refused, accepted, reported, resultQ>>
      PROVE  CreditIsExact'
  BY <1>3, <1>4, <1>6, <1>7
<1> HIDE DEF P, R, O, A
<1>8. CASE ReceiveOrder
  <2>1. CASE ReceiveNothing
    BY <1>7, <2>1 DEF ReceiveNothing, poolVars, cookVars, receptionVars
  <2>2. CASE AcceptPizza
    <3> DEFINE p == Head(orderQ).pizza
    <3>1. p \in Pizza /\ orderQ # <<>> /\ orderQ' = Tail(orderQ) /\ Head(orderQ).type = "Pizza"
      BY <1>1, <2>2, Received DEF AcceptPizza
    <3>2. p \notin accepted /\ accepted' = accepted \cup {p}
      BY <1>1, <2>2, <3>1, AddEffects DEF AcceptPizza
    <3>3. UNCHANGED <<credit, refused, reported, resultQ>>
      BY <2>2 DEF AcceptPizza, cookVars, receptionVars
    <3>4. p \notin reported
      BY <1>1, <3>1, <3>2, HandsApart DEF Reports
    <3>5. O' = O + 1
      <4>1. Cardinality((accepted \cup {p}) \ reported) = Cardinality(accepted \ reported) + 1
        BY <1>1, <3>1, <3>2, <3>4, AcceptedCounts
      <4>2. Cardinality(accepted' \ reported') = Cardinality((accepted \cup {p}) \ reported)
        BY <3>2, <3>3, Zenon
      <4> QED
        BY <4>1, <4>2 DEF O
    <3>6. P = P' + 1 /\ R' = R /\ A' = A
      BY <1>4, <1>5, <3>1, <3>3
    <3>7. P' \in Nat
      BY <1>1, <3>1, CountNat, QueueEnds DEF P
    <3> QED
      BY <1>2, <1>3, <1>6, <3>3, <3>5, <3>6, <3>7
  <2>3. CASE RefusePizza
    <3>1. /\ refused' \in Pizza /\ refused = NoPizza /\ orderQ # <<>> /\ orderQ' = Tail(orderQ)
          /\ Head(orderQ).type = "Pizza"
      BY <1>1, <2>3, Received DEF RefusePizza, MainThread
    <3>2. UNCHANGED <<credit, accepted, reported, resultQ>>
      BY <2>3 DEF RefusePizza, poolVars, cookVars, receptionVars
    <3>3. R = 0 /\ R' = 1
      BY <1>1, <3>1 DEF R
    <3>4. P = P' + 1 /\ O' = O /\ A' = A
      BY <1>4, <1>5, <3>1, <3>2
    <3>5. P' \in Nat
      BY <1>1, <3>1, CountNat, QueueEnds DEF P
    <3> QED
      BY <1>2, <1>3, <1>6, <3>2, <3>3, <3>4, <3>5
  <2>4. CASE BeginStatus \/ ReceiveShutdown
    <3>1. orderQ # <<>> /\ orderQ' = Tail(orderQ) /\ Head(orderQ).type # "Pizza"
      BY <1>1, <2>4, Received DEF BeginStatus, ReceiveShutdown
    <3>2. UNCHANGED <<credit, refused, accepted, reported, resultQ>>
      BY <2>4 DEF BeginStatus, ReceiveShutdown, poolVars, cookVars, receptionVars
    <3>3. P = P' + 0
      BY <1>5, <3>1
    <3>4. P' \in Nat
      BY <1>1, <3>1, CountNat, QueueEnds DEF P
    <3> QED
      BY <1>2, <1>3, <1>4, <1>6, <3>2, <3>3, <3>4
  <2> QED
    BY <1>8, <2>1, <2>2, <2>3, <2>4 DEF ReceiveOrder
<1>9. ASSUME NEW m \in ResultPacket, m.type \notin {"Done", "Full"},
              resultQ' = Append(resultQ, m),
              UNCHANGED <<credit, orderQ, refused, accepted, reported>>
       PROVE  CreditIsExact'
  <2>1. A' = A + 0
    BY <1>5, <1>9
  <2> QED
    BY <1>2, <1>3, <1>4, <1>6, <1>9, <2>1
<1>10. CASE MainStep /\ ~ReceiveOrder
  <2>1. CASE StartPool \/ ReadCook \/ CheckIdle \/ DestroyStock
    BY <1>7, <2>1
    DEF StartPool, ReadCook, CheckIdle, DestroyStock, poolVars, cookVars, receptionVars, Pool!Start
  <2>2. CASE StopPool
    BY <1>1, <1>7, <2>2, StopEffects DEF StopPool, cookVars, receptionVars
  <2>3. CASE SendFull
    <3>1. refused \in Pizza /\ refused' = NoPizza
      BY <1>1, <2>3 DEF SendFull, OwnTypes, MainThread
    <3>2. /\ Full(refused) \in ResultPacket /\ Full(refused).type = "Full"
          /\ resultQ' = Append(resultQ, Full(refused))
      BY <2>3, <3>1, Packets DEF Full, SendFull
    <3>3. UNCHANGED <<credit, orderQ, accepted, reported>>
      BY <2>3 DEF SendFull, poolVars, cookVars, receptionVars
    <3>4. R = 1 /\ R' = 0
      BY <1>1, <3>1 DEF R
    <3>5. A' = A + 1
      BY <1>5, <3>2
    <3> QED
      BY <1>2, <1>3, <1>4, <1>6, <3>3, <3>4, <3>5
  <2>4. CASE SendCookStatus
    <3> DEFINE m == CookStatus(NCooks - Len(snapshot.cooks) + 1, Head(snapshot.cooks))
    <3>1. snapshot.cooks \in Seq({"IDLE", "COOKING"}) /\ snapshot.cooks # <<>>
      BY <1>1, <2>4 DEF OwnTypes, SendCookStatus
    <3>2. NCooks - Len(snapshot.cooks) + 1 \in Cook /\ Head(snapshot.cooks) \in {"IDLE", "COOKING"}
      <4>1. /\ Len(snapshot.cooks) \in Nat /\ 1 <= Len(snapshot.cooks)
            /\ Head(snapshot.cooks) \in {"IDLE", "COOKING"}
        BY <3>1, QueueEnds
      <4>2. Len(snapshot.cooks) <= NCooks
        BY <1>1 DEF MainThread
      <4> QED
        BY <4>1, <4>2, CookFacts DEF Cook
    <3>3. m \in ResultPacket /\ m.type = "CookStatus"
      BY <3>2, Packets DEF CookStatus
    <3>4. resultQ' = Append(resultQ, m) /\ UNCHANGED <<credit, orderQ, refused, accepted, reported>>
      BY <2>4 DEF SendCookStatus, poolVars, cookVars, receptionVars
    <3> HIDE DEF m
    <3> QED
      BY <1>9, <3>3, <3>4
  <2>5. CASE SendStatusReply
    <3> DEFINE m == StatusReply(snapshot.load)
    <3>1. m \in ResultPacket /\ m.type = "StatusReply"
      BY <1>1, Packets DEF OwnTypes, StatusReply
    <3>2. resultQ' = Append(resultQ, m) /\ UNCHANGED <<credit, orderQ, refused, accepted, reported>>
      BY <2>5 DEF SendStatusReply, poolVars, cookVars, receptionVars
    <3> HIDE DEF m
    <3> QED
      BY <1>9, <3>1, <3>2
  <2>6. CASE SendShutdown
    <3>1. Shutdown \in ResultPacket /\ Shutdown.type = "Shutdown"
      BY Packets DEF Shutdown
    <3>2. resultQ' = Append(resultQ, Shutdown)
          /\ UNCHANGED <<credit, orderQ, refused, accepted, reported>>
      BY <2>6 DEF SendShutdown, poolVars, cookVars, receptionVars
    <3> QED
      BY <1>9, <3>1, <3>2
  <2> QED
    BY <1>10, <2>1, <2>2, <2>3, <2>4, <2>5, <2>6, Zenon DEF MainStep
<1>11. ASSUME NEW c \in Cook, CookStep(c) \/ WakesSpuriously(c)
       PROVE  CreditIsExact'
  <2>1. CASE InPool(c)
    <3>1. accepted' = accepted
      BY <1>1, <2>1, InPoolEffects
    <3> QED
      BY <1>7, <2>1, <3>1 DEF InPool, cookVars, mainVars, receptionVars
  <2>2. CASE BeginPizza(c) \/ InStock(c) \/ BecomeIdle(c)
    BY <1>7, <2>2 DEF BeginPizza, InStock, BecomeIdle, poolVars, mainVars, receptionVars
  <2>3. CASE SendDone(c)
    <3> DEFINE p == holding[c]
    <3>1. p \in Pizza /\ stage[c] = "bake" /\ reported' = reported \cup {p}
      BY <1>1, <2>3 DEF SendDone, Cooks, PoolView
    <3>2. p \in accepted /\ p \notin cooked
      BY <1>1, <3>1, HandsApart
    <3>3. p \notin reported
      BY <1>1, <3>1, <3>2, HandsApart DEF Reports
    <3>4. /\ Done(p) \in ResultPacket /\ Done(p).type = "Done"
          /\ resultQ' = Append(resultQ, Done(p))
      BY <2>3, <3>1, Packets DEF Done, SendDone
    <3>5. UNCHANGED <<credit, orderQ, refused, accepted>>
      BY <2>3 DEF SendDone, poolVars, mainVars, receptionVars
    <3>6. O' = O - 1
      <4>1. Cardinality(accepted \ (reported \cup {p})) = Cardinality(accepted \ reported) - 1
        BY <1>1, <3>1, <3>2, <3>3, AcceptedCounts
      <4>2. Cardinality(accepted' \ reported') = Cardinality(accepted \ (reported \cup {p}))
        BY <3>1, <3>5, Zenon
      <4> QED
        BY <4>1, <4>2 DEF O
    <3>7. A' = A + 1
      BY <1>5, <3>4
    <3> QED
      BY <1>2, <1>3, <1>4, <1>6, <3>5, <3>6, <3>7
  <2>4. CASE ReleaseLoad(c)
    BY <1>7, <2>4 DEF ReleaseLoad, Pool!CookFinishes, mainVars, receptionVars
  <2>5. CASE WakesSpuriously(c)
    BY <1>7, <2>5
    DEF WakesSpuriously, Pool!SpuriousWakeup, poolVars, cookVars, mainVars, receptionVars
  <2> QED
    BY <1>11, <2>1, <2>2, <2>3, <2>4, <2>5 DEF CookStep
<1>12. CASE TimePasses \/ Replenish
  BY <1>7, <1>12 DEF TimePasses, Replenish, poolVars, cookVars, mainVars, receptionVars
<1>13. CASE ReceptionStep
  <2>1. ASSUME NEW p \in Pizza, OfferPizza(p) PROVE CreditIsExact'
    <3>1. /\ PizzaPacket(p) \in OrderPacket /\ PizzaPacket(p).type = "Pizza"
          /\ orderQ' = Append(orderQ, PizzaPacket(p)) /\ credit' = credit + 1
      BY <2>1, Packets DEF OfferPizza, PizzaPacket
    <3>2. UNCHANGED <<refused, accepted, reported, resultQ>>
      BY <2>1 DEF OfferPizza, poolVars, cookVars, mainVars
    <3>3. P' = P + 1
      BY <1>5, <3>1
    <3> QED
      BY <1>2, <1>3, <1>4, <1>6, <3>1, <3>2, <3>3
  <2>2. CASE AskStatus \/ CommandShutdown
    <3>1. PICK m \in OrderPacket : orderQ' = Append(orderQ, m) /\ m.type # "Pizza"
      BY <2>2, Packets DEF AskStatus, CommandShutdown, StatusRequest, Shutdown
    <3>2. UNCHANGED <<credit, refused, accepted, reported, resultQ>>
      BY <2>2 DEF AskStatus, CommandShutdown, poolVars, cookVars, mainVars
    <3>3. P' = P + 0
      BY <1>5, <3>1
    <3> QED
      BY <1>2, <1>3, <1>4, <1>6, <3>2, <3>3
  <2>3. CASE CollectResult
    <3>1. resultQ # <<>> /\ resultQ' = Tail(resultQ)
      BY <2>3 DEF CollectResult
    <3>2. UNCHANGED <<orderQ, refused, accepted, reported>>
      BY <2>3 DEF CollectResult, poolVars, cookVars, mainVars
    <3>3. credit' = IF Head(resultQ).type \in {"Done", "Full"} /\ credit > 0
                    THEN credit - 1 ELSE credit
      BY <2>3 DEF CollectResult, Answers
    <3>4. A = A' + (IF Head(resultQ).type \in {"Done", "Full"} THEN 1 ELSE 0)
      BY <1>5, <3>1
    <3>5. A' \in Nat
      BY <1>1, <3>1, CountNat, QueueEnds DEF A
    <3>6. P' = P /\ R' = R /\ O' = O
      BY <1>4, <3>2
    <3>7. CASE Head(resultQ).type \in {"Done", "Full"}
      <4>1. A = A' + 1
        BY <3>4, <3>7
      <4>2. credit > 0
        <5>1. PICK n \in Nat : A' = n
          BY <3>5
        <5>2. A = n + 1
          BY <4>1, <5>1
        <5> QED
          BY <1>2, <1>3, <5>2
      <4>3. credit' = credit - 1
        BY <3>3, <3>7, <4>2
      <4> QED
        BY <1>2, <1>3, <1>6, <3>5, <3>6, <4>1, <4>3
    <3>8. CASE Head(resultQ).type \notin {"Done", "Full"}
      BY <1>2, <1>3, <1>6, <3>3, <3>4, <3>5, <3>6, <3>8
    <3> QED
      BY <3>7, <3>8
  <2> QED
    BY <1>13, <2>1, <2>2, <2>3 DEF ReceptionStep
<1>14. CASE UNCHANGED kitchenVars
  BY <1>7, <1>14 DEF kitchenVars, poolVars, cookVars, mainVars, receptionVars
<1> QED
  BY <1>8, <1>10, <1>11, <1>12, <1>13, <1>14, Zenon DEF KitchenNext, KitchenTerminated, MainStep

\* The cooks read as cooking, as a number of elements.
LEMMA CookingIsNumber ==
    ASSUME NEW q
    PROVE  Cardinality({i \in DOMAIN q : q[i] = "COOKING"}) = Number(q, {"COOKING"})
<1>1. {i \in DOMAIN q : q[i] = "COOKING"} = Hits(q, {"COOKING"})
  BY DEF Hits
<1> QED
  BY <1>1, Zenon DEF Number

\* A status never claims more cooks at work than its load.
LEMMA ReadingStep == KInv /\ [KitchenNext]_kitchenVars => Reading'
<1> SUFFICES ASSUME KInv, [KitchenNext]_kitchenVars PROVE Reading'
  OBVIOUS
<1> DEFINE S == {"IDLE", "COOKING"}
           M == {"COOKING"}
           N == Number(snapshot.cooks, M)
           T == Cardinality(ToRead)
<1>1. /\ PoolInv /\ PoolView /\ MainThread /\ Cooks /\ Reading
      /\ snapshot \in [load : Nat, cooks : Seq(S)] /\ snapshot.load \in Nat
      /\ snapshot.cooks \in Seq(S)
      /\ queue \in Seq(Pizza)
      /\ cookPc \in [Cook -> {"unborn", "loop", "waiting", "woken", "cooking", "gone"}]
      /\ cookState \in [Cook -> S]
  BY PoolSeen DEF KInv, OwnTypes, PoolView
<1>2. Cardinality(Cooking) = N /\ Cardinality(Cooking') = N'
  BY CookingIsNumber, Zenon DEF Cooking
<1>3. /\ mainPc = "read" => N + Len(queue) + T <= snapshot.load
      /\ N <= snapshot.load
  BY <1>1, <1>2 DEF Reading, StatusIsConsistent, Cooking
<1>4. (mainPc' = "read" => N' + Len(queue') + T' <= snapshot'.load) /\ N' <= snapshot'.load
          => Reading'
  <2>1. StatusIsConsistent' <=> Cardinality(Cooking') <= snapshot'.load
    BY DEF StatusIsConsistent, Cooking
  <2> HIDE DEF N
  <2> QED
    BY <1>2, <2>1 DEF Reading
<1>5. N \in Nat /\ T \in Nat /\ Len(queue) \in Nat /\ IsFiniteSet(ToRead)
  <2>1. N \in Nat
    <3> HIDE DEF M
    <3> QED
      BY <1>1, HitsFinite
  <2>2. IsFiniteSet(ToRead)
    BY CookFacts, FS_Subset DEF ToRead
  <2>3. T \in Nat
    BY <2>2, FS_CardinalityType
  <2> QED
    BY <1>1, <2>1, <2>2, <2>3
<1>6. snapshot' = snapshot => N' = N
  BY Zenon
<1>7. ToRead' = {c \in Cook : c > Len(snapshot'.cooks) /\ cookPc'[c] = "cooking"}
  BY DEF ToRead
<1> HIDE DEF N, T
<1>8. ASSUME snapshot' = snapshot, mainPc' # "read" PROVE Reading'
  BY <1>3, <1>4, <1>6, <1>8
<1>9. ASSUME UNCHANGED <<snapshot, queue>>, mainPc' = "read" => mainPc = "read",
             ToRead' \subseteq ToRead
      PROVE  Reading'
  <2>1. PICK t \in Nat : T' = t
    BY <1>5, <1>9, FS_Subset, FS_CardinalityType DEF T
  <2>2. t <= T
    BY <1>5, <1>9, <2>1, FS_Subset DEF T
  <2>3. N' = N /\ Len(queue') = Len(queue) /\ snapshot'.load = snapshot.load
    BY <1>6, <1>9
  <2>4. mainPc' = "read" => N + Len(queue) + t <= snapshot.load
    BY <1>1, <1>3, <1>5, <1>9, <2>2
  <2> QED
    BY <1>3, <1>4, <2>1, <2>3, <2>4, Zenon
<1>10. ASSUME UNCHANGED <<snapshot, queue>>, mainPc' = "read" => mainPc = "read",
              \A c \in Cook : cookPc'[c] = "cooking" => cookPc[c] = "cooking"
       PROVE  Reading'
  <2>1. ToRead' \subseteq ToRead
    BY <1>10 DEF ToRead
  <2> QED
    BY <1>9, <1>10, <2>1
<1>11. ASSUME NEW c \in Cook, CookStep(c) \/ WakesSpuriously(c)
       PROVE  Reading'
  <2>1. CASE InPool(c)
    <3>1. UNCHANGED <<snapshot, mainPc>>
      BY <2>1 DEF InPool, mainVars
    <3>2. CASE queue # <<>> /\ queue' = Tail(queue) /\ cookPc' = [cookPc EXCEPT ![c] = "cooking"]
      <4>1. Len(queue') = Len(queue) - 1 /\ Len(queue') \in Nat
        BY <1>1, <3>2
      <4>2. ToRead' \subseteq ToRead \cup {c}
        BY <1>1, <3>1, <3>2 DEF ToRead
      <4>3. IsFiniteSet(ToRead \cup {c}) /\ Cardinality(ToRead \cup {c}) <= T + 1
            /\ Cardinality(ToRead \cup {c}) \in Nat
        <5>1. IsFiniteSet(ToRead \cup {c})
          BY <1>5, FS_AddElement
        <5>2. Cardinality(ToRead \cup {c}) = IF c \in ToRead THEN Cardinality(ToRead)
                                                            ELSE Cardinality(ToRead) + 1
          BY <1>5, FS_AddElement
        <5> QED
          BY <1>5, <5>1, <5>2 DEF T
      <4>4. T' <= T + 1 /\ T' \in Nat
        <5>1. Cardinality(ToRead') <= Cardinality(ToRead \cup {c}) /\ Cardinality(ToRead') \in Nat
          BY <4>2, <4>3, FS_Subset, FS_CardinalityType
        <5> QED
          BY <1>5, <4>3, <5>1 DEF T
      <4> QED
        BY <1>1, <1>3, <1>4, <1>5, <1>6, <3>1, <4>1, <4>4
    <3>3. CASE queue' = queue /\ \A d \in Cook : cookPc'[d] = "cooking" => cookPc[d] = "cooking"
      BY <1>10, <3>1, <3>3
    <3> QED
      BY <1>1, <2>1, <3>2, <3>3, InPoolEffects
  <2>2. CASE BeginPizza(c) \/ InStock(c) \/ SendDone(c) \/ BecomeIdle(c)
    BY <1>10, <2>2 DEF BeginPizza, InStock, SendDone, BecomeIdle, poolVars, mainVars
  <2>3. CASE ReleaseLoad(c)
    <3>1. UNCHANGED <<snapshot, queue, mainPc>> /\ cookPc' = [cookPc EXCEPT ![c] = "loop"]
      BY <2>3 DEF ReleaseLoad, Pool!CookFinishes, mainVars
    <3> QED
      BY <1>1, <1>10, <3>1
  <2>4. CASE WakesSpuriously(c)
    <3>1. UNCHANGED <<snapshot, queue, mainPc>>
          /\ (cookPc' = cookPc \/ cookPc' = [cookPc EXCEPT ![c] = "woken"])
      BY <2>4 DEF WakesSpuriously, Pool!SpuriousWakeup, poolVars, mainVars
    <3> QED
      BY <1>1, <1>10, <3>1
  <2> QED
    BY <1>11, <2>1, <2>2, <2>3, <2>4 DEF CookStep
<1>12. CASE MainStep
  <2>1. CASE StartPool \/ StopPool \/ AcceptPizza \/ RefusePizza \/ ReceiveNothing
               \/ ReceiveShutdown \/ SendFull \/ CheckIdle \/ SendShutdown \/ DestroyStock
    BY <1>8, <2>1
    DEF StartPool, StopPool, AcceptPizza, RefusePizza, ReceiveNothing, ReceiveShutdown,
        ReceivePacket, SendFull, CheckIdle, SendShutdown, DestroyStock
  <2>2. CASE BeginStatus
    <3>1. /\ snapshot' = [load |-> load, cooks |-> <<>>]
          /\ UNCHANGED <<queue, cookPc, load>>
      BY <2>2 DEF BeginStatus, poolVars
    <3>2. snapshot'.cooks = <<>> /\ snapshot'.load = load
      BY <3>1
    <3>3. N' = 0
      BY <3>2, NumberEmpty DEF N
    <3>4. ToRead' \subseteq AtWork /\ IsFiniteSet(AtWork)
      BY <1>7, <3>1, CookFacts, FS_Subset DEF AtWork
    <3>5. T' <= Cardinality(AtWork) /\ T' \in Nat /\ Cardinality(AtWork) \in Nat
      BY <3>4, FS_Subset, FS_CardinalityType DEF T
    <3>6. load = Len(queue) + Cardinality(AtWork)
      BY <1>1 DEF PoolView
    <3>7. queue' = queue
      BY <3>1
    <3> QED
      BY <1>4, <1>5, <3>2, <3>3, <3>5, <3>6, <3>7
  <2>3. CASE ReadCook
    <3> DEFINE c == Len(snapshot.cooks) + 1
    <3>1. c \in Cook /\ Len(snapshot.cooks) \in Nat
      <4>1. Len(snapshot.cooks) \in Nat /\ Len(snapshot.cooks) < NCooks
        BY <1>1, <2>3 DEF ReadCook, MainThread
      <4> QED
        BY <4>1, CookFacts DEF Cook
    <3>2. cookState[c] \in S
      BY <1>1, <3>1
    <3>3. snapshot'.cooks = Append(snapshot.cooks, cookState[c]) /\ snapshot'.load = snapshot.load
      BY <1>1, <2>3 DEF ReadCook
    <3>4. UNCHANGED <<queue, cookPc>> /\ mainPc = "read"
      BY <2>3 DEF ReadCook, poolVars
    <3>5. N' = N + (IF cookState[c] \in M THEN 1 ELSE 0)
      <4> HIDE DEF M, S, c
      <4> QED
        BY <1>1, <3>2, <3>3, NumberAppend DEF N
    <3>6. Len(snapshot'.cooks) = c
      BY <1>1, <3>2, <3>3
    <3>7. ToRead' = ToRead \ {c}
      <4>1. ASSUME NEW d \in Cook
            PROVE  d > c <=> d > Len(snapshot.cooks) /\ d # c
        BY <3>1, CookFacts
      <4>2. ToRead' = {d \in Cook : d > c /\ cookPc[d] = "cooking"}
        BY <1>7, <3>4, <3>6, Zenon
      <4> HIDE DEF c
      <4> QED
        BY <4>1, <4>2 DEF ToRead
    <3>8. cookState[c] \in M => c \in ToRead
      <4> SUFFICES ASSUME cookState[c] = "COOKING" PROVE c \in ToRead
        OBVIOUS
      <4>1. cookPc[c] = "cooking"
        BY <1>1, <3>1 DEF Cooks
      <4>2. c > Len(snapshot.cooks)
        BY <3>1
      <4> QED
        BY <3>1, <4>1, <4>2 DEF ToRead
    <3>9. T' = T - (IF c \in ToRead THEN 1 ELSE 0) /\ T' \in Nat
      <4> HIDE DEF c
      <4>1. Cardinality(ToRead \ {c}) = IF c \in ToRead THEN Cardinality(ToRead) - 1
                                                        ELSE Cardinality(ToRead)
        BY <1>5, FS_RemoveElement
      <4>2. Cardinality(ToRead \ {c}) \in Nat
        BY <1>5, FS_Subset, FS_CardinalityType
      <4>3. T' = Cardinality(ToRead \ {c})
        BY <3>7, Zenon DEF T
      <4> QED
        BY <1>5, <4>1, <4>2, <4>3 DEF T
    <3>10. N' + T' <= N + T
      <4> HIDE DEF M, c
      <4> QED
        BY <1>5, <3>5, <3>8, <3>9
    <3>11. N' \in Nat
      <4> HIDE DEF M, c
      <4> QED
        BY <1>5, <3>5
    <3>12. N + Len(queue) + T <= snapshot.load /\ queue' = queue /\ snapshot'.load = snapshot.load
      BY <1>3, <3>3, <3>4
    <3> HIDE DEF c, M
    <3>13. N' + Len(queue') + T' <= snapshot'.load /\ N' <= snapshot'.load
      <4>1. PICK n \in Nat, t \in Nat : N' = n /\ T' = t
        BY <3>9, <3>11
      <4>2. PICK l \in Nat : Len(queue) = l /\ Len(queue') = l
        BY <1>5, <3>12
      <4>3. n + t <= N + T /\ N + l + T <= snapshot.load
        BY <3>10, <3>12, <4>1, <4>2
      <4>4. n + l + t <= snapshot.load /\ n <= snapshot.load
        BY <1>1, <1>5, <4>3
      <4> QED
        BY <3>12, <4>1, <4>2, <4>4, Zenon
    <3> QED
      BY <1>4, <3>13
  <2>4. CASE SendCookStatus
    <3>1. snapshot.cooks # <<>> /\ mainPc = "reply" /\ mainPc' = mainPc
      BY <2>4 DEF SendCookStatus
    <3>2. snapshot'.cooks = Tail(snapshot.cooks) /\ snapshot'.load = snapshot.load
      BY <1>1, <2>4 DEF SendCookStatus
    <3>3. N = N' + (IF Head(snapshot.cooks) \in M THEN 1 ELSE 0)
      <4> HIDE DEF M, S
      <4> QED
        BY <1>1, <3>1, <3>2, NumberTail DEF N
    <3>4. N' \in Nat
      <4> HIDE DEF M, S
      <4>1. snapshot'.cooks \in Seq(S)
        BY <1>1, <3>1, <3>2, QueueEnds
      <4> QED
        BY <4>1, HitsFinite DEF N
    <3>5. N' <= N
      <4> HIDE DEF M
      <4>1. PICK n \in Nat : N' = n
        BY <3>4
      <4>2. N = n + (IF Head(snapshot.cooks) \in M THEN 1 ELSE 0)
        BY <3>3, <4>1, Zenon
      <4>3. n <= N
        BY <4>2
      <4> QED
        BY <4>1, <4>3, Zenon
    <3> QED
      BY <1>1, <1>3, <1>4, <1>5, <3>1, <3>2, <3>4, <3>5
  <2>5. CASE SendStatusReply
    <3>1. snapshot'.cooks = <<>> /\ snapshot'.load = 0 /\ mainPc' # "read"
      BY <2>5 DEF SendStatusReply, NoSnapshot
    <3>2. N' = 0
      BY <3>1, NumberEmpty DEF N
    <3> QED
      BY <1>4, <3>1, <3>2
  <2> QED
    BY <1>12, <2>1, <2>2, <2>3, <2>4, <2>5, Zenon DEF MainStep, ReceiveOrder
<1>13. CASE TimePasses \/ Replenish \/ ReceptionStep
  BY <1>10, <1>13
  DEF TimePasses, Replenish, ReceptionStep, OfferPizza, AskStatus, CommandShutdown, CollectResult,
      poolVars, mainVars
<1>14. CASE UNCHANGED kitchenVars
  BY <1>10, <1>14 DEF kitchenVars, poolVars, mainVars
<1> QED
  BY <1>11, <1>12, <1>13, <1>14, Zenon DEF KitchenNext, KitchenTerminated

-----------------------------------------------------------------------------
(* What follows of it for every kitchen.                                       *)

\* The invariant is inductive: whatever the interleaving of main thread, cooks, stock and
\* reception, every part of it holds.
THEOREM KitchenSafety == KitchenSpec => []KInv
<1>1. KInv /\ [KitchenNext]_kitchenVars => KInv'
  BY MonitorsStep, TypesStep, MainThreadStep, CooksStep, ReportsStep, FarewellStep,
     CommandsStep, IdlenessStep, CreditStep, ReadingStep
  DEF KInv
<1> QED
  BY KInitially, <1>1, PTL DEF KitchenSpec

\* The variables of a kitchen, of its pool and of its stock keep their types.
THEOREM KitchenTypes == KitchenSpec => []KitchenTypeOK
<1>1. KInv => KitchenTypeOK
  <2> SUFFICES ASSUME KInv PROVE KitchenTypeOK
    OBVIOUS
  <2>1. Pool!TypeOK
    <3>1. PoolProofs!TypeOK
      BY DEF KInv, PoolInv, PoolProofs!PoolInvariant
    <3> QED
      BY <3>1, Zenon DEF Pool!TypeOK, PoolProofs!TypeOK, Pool!Phase, PoolProofs!Phase,
                         Pool!CookState, PoolProofs!CookState
  <2>2. Stock!StockTypeOK
    <3>1. StockProofs!StockTypeOK
      BY DEF KInv, StockInv, StockProofs!StockInvariant
    <3> QED
      BY <3>1, Zenon DEF Stock!StockTypeOK, StockProofs!StockTypeOK
  <2>3. OwnTypes
    BY DEF KInv
  <2>4. ASSUME NEW i \in DOMAIN orderQ
        PROVE  orderQ[i] \in {PizzaPacket(p) : p \in Pizza} \cup {StatusRequest, Shutdown}
    <3>1. orderQ[i] \in OrderPacket
      BY <2>3, <2>4, QueueEnds DEF OwnTypes
    <3> QED
      BY <3>1 DEF OrderPacket, PizzaPacket, StatusRequest, Shutdown
  <2>5. ASSUME NEW i \in DOMAIN resultQ
        PROVE  resultQ[i].type \in {"Done", "Full", "CookStatus", "StatusReply", "Shutdown"}
    <3>1. resultQ[i] \in ResultPacket
      BY <2>3, <2>5, QueueEnds DEF OwnTypes
    <3> QED
      BY <3>1, Packets
  <2>6. snapshot.load \in Nat /\ snapshot.cooks \in Seq({"IDLE", "COOKING"})
    BY <2>3 DEF OwnTypes
  <2> QED
    BY <2>1, <2>2, <2>3, <2>4, <2>5, <2>6, Zenon DEF KitchenTypeOK, OwnTypes
<1> QED
  BY <1>1, KitchenSafety, PTL

\* The reception's load of a kitchen never drifts from what the kitchen owes it.
THEOREM KitchenCredit == KitchenSpec => []CreditIsExact
<1>1. KInv => CreditIsExact
  BY DEF KInv
<1> QED
  BY <1>1, KitchenSafety, PTL

\* The cooks end before the farewell, with every accepted pizza cooked and reported, and
\* the stock after it.
THEOREM KitchenEnds == KitchenSpec => []EndsInOrder
<1>1. KInv => EndsInOrder
  <2> SUFFICES ASSUME KInv PROVE EndsInOrder
    OBVIOUS
  <2>1. PoolInv /\ PoolView /\ MainThread /\ Cooks /\ Reports /\ Farewell /\ Cook # {}
    BY PoolSeen, CookFacts DEF KInv
  <2>2. ASSUME phase = "joined"
        PROVE  /\ accepted \subseteq reported /\ load = 0
               /\ \A c \in Cook : cookPc[c] = "gone" /\ clientPc[c] = "out"
    <3>1. /\ queue = <<>> /\ load = 0
          /\ \A c \in Cook : cookPc[c] = "gone" /\ holding[c] = NoPizza
      BY <2>1, <2>2, JoinedEmpty
    <3>2. accepted \subseteq cooked
      BY <2>1, <3>1, CookFacts, HandsApart DEF PoolView
    <3>3. cooked \subseteq reported
      BY <2>1 DEF Reports, PoolView
    <3>4. \A c \in Cook : clientPc[c] = "out"
      BY <2>1, <3>1 DEF Cooks
    <3> QED
      BY <3>1, <3>2, <3>3, <3>4
  <2>3. FarewellIsFinal
    <3> SUFFICES ASSUME NEW i \in DOMAIN resultQ, resultQ[i] = Shutdown
                 PROVE  i = Len(resultQ) /\ accepted \subseteq reported /\ load = 0
      BY DEF FarewellIsFinal
    <3>1. resultQ[i].type = "Shutdown"
      BY DEF Shutdown
    <3>2. i = Len(resultQ) /\ phase = "joined"
      BY <2>1, <3>1 DEF Farewell, MainThread
    <3> QED
      BY <2>2, <3>2
  <2>4. StockOutlivesCooks
    BY <2>1, <2>2 DEF StockOutlivesCooks, MainThread
  <2> QED
    BY <2>3, <2>4 DEF EndsInOrder
<1> QED
  BY <1>1, KitchenSafety, PTL

\* A kitchen closed for idleness stops a pool at rest, which cannot abort.
THEOREM KitchenAborts == KitchenSpec => []OnlyCommandedKitchensAbort
<1>1. KInv => OnlyCommandedKitchensAbort
  BY PoolSeen DEF KInv, PoolView, Ordered, Idleness, OnlyCommandedKitchensAbort
<1> QED
  BY <1>1, KitchenSafety, PTL

\* A status read while the cooks go on is consistent.
THEOREM KitchenStatus == KitchenSpec => []StatusIsConsistent
<1>1. KInv => StatusIsConsistent
  BY DEF KInv, Reading
<1> QED
  BY <1>1, KitchenSafety, PTL

\* The load of the pool is the number of pizzas accepted and not yet cooked.
LEMMA LoadIsUncooked == PoolInv => load = Cardinality(accepted \ cooked)
<1> SUFFICES ASSUME PoolInv PROVE load = Cardinality(accepted \ cooked)
  OBVIOUS
<1> DEFINE Q == {queue[i] : i \in DOMAIN queue}
           H == {holding[c] : c \in AtWork}
           line == [i \in 1 .. Len(queue) |-> queue[i]]
           hand == [c \in AtWork |-> holding[c]]
<1>1. /\ PoolView /\ queue \in Seq(Pizza) /\ Len(queue) \in Nat
      /\ DOMAIN queue = 1 .. Len(queue)
      /\ IsFiniteSet(AtWork) /\ Cardinality(AtWork) \in Nat
  <2>1. IsFiniteSet(AtWork)
    BY CookFacts, FS_Subset DEF AtWork
  <2> QED
    BY <2>1, PoolSeen, FS_CardinalityType DEF PoolView
<1>2. IsFiniteSet(Q) /\ Cardinality(Q) = Len(queue)
  <2>1. line \in Bijection(1 .. Len(queue), Q)
    <3>1. line \in [1 .. Len(queue) -> Q]
      BY <1>1
    <3>2. \A i, j \in 1 .. Len(queue) : line[i] = line[j] => i = j
      BY <1>1, HandsApart
    <3>3. \A p \in Q : \E i \in 1 .. Len(queue) : line[i] = p
      BY <1>1
    <3> HIDE DEF Q, line
    <3> QED
      BY <3>1, <3>2, <3>3 DEF Bijection, Injection, Surjection, IsInjective
  <2>2. IsFiniteSet(1 .. Len(queue)) /\ Cardinality(1 .. Len(queue)) = Len(queue)
    <3>1. \A n \in Nat : IsFiniteSet(1 .. n) /\ Cardinality(1 .. n) = n
      BY FS_Interval
    <3> QED
      BY <1>1, <3>1
  <2> HIDE DEF Q, line
  <2>3. ExistsBijection(1 .. Len(queue), Q)
    BY <2>1 DEF ExistsBijection
  <2> QED
    BY <2>2, <2>3, FS_Bijection
<1>3. IsFiniteSet(H) /\ Cardinality(H) = Cardinality(AtWork)
  <2>1. hand \in Bijection(AtWork, H)
    <3>1. hand \in [AtWork -> H]
      OBVIOUS
    <3>2. \A c, d \in AtWork : hand[c] = hand[d] => c = d
      <4>1. \A c \in AtWork : c \in Cook /\ holding[c] # NoPizza
        BY <1>1 DEF AtWork, PoolView
      <4> QED
        BY <4>1, HandsApart
    <3>3. \A p \in H : \E c \in AtWork : hand[c] = p
      OBVIOUS
    <3> HIDE DEF H, hand
    <3> QED
      BY <3>1, <3>2, <3>3 DEF Bijection, Injection, Surjection, IsInjective
  <2> HIDE DEF H, hand
  <2>2. ExistsBijection(AtWork, H)
    BY <2>1 DEF ExistsBijection
  <2> QED
    BY <1>1, <2>2, FS_Bijection
<1>4. Q \cap H = {}
  BY HandsApart DEF AtWork
<1>5. accepted \ cooked = Q \cup H
  <2>1. \A c \in Cook : c \in AtWork <=> holding[c] # NoPizza
    BY <1>1 DEF AtWork, PoolView
  <2>2. Q \cup H \subseteq accepted \ cooked
    BY <2>1, HandsApart DEF AtWork
  <2>3. ASSUME NEW p \in accepted \ cooked PROVE p \in Q \cup H
    <3>1. p # NoPizza
      BY <1>1, CookFacts DEF PoolView
    <3> QED
      BY <2>1, <3>1, HandsApart
  <2> QED
    BY <2>2, <2>3
<1> HIDE DEF Q, H
<1>6. Cardinality(Q \cup H) = Cardinality(Q) + Cardinality(H) - Cardinality(Q \cap H)
  BY <1>2, <1>3, FS_Union
<1>7. Cardinality(Q \cap H) = 0
  BY <1>4, FS_EmptySet, Zenon
<1>8. Cardinality(accepted \ cooked) = Cardinality(Q \cup H)
  BY <1>5, Zenon
<1> QED
  BY <1>1, <1>2, <1>3, <1>6, <1>7, <1>8 DEF PoolView

\* A kitchen with room by the reception's count refuses a pizza only between a cook's Done
\* and its release of the load.
THEOREM KitchenRefusals == KitchenSpec => RefusedOnlyInReleaseWindow
<1> DEFINE Window == mainPc' = "refuse" /\ mainPc # "refuse" =>
                         \E c \in Cook : stage[c] \in {"sent", "settled"}
<1>1. KInv /\ [KitchenNext]_kitchenVars => [Window]_kitchenVars
  <2> SUFFICES ASSUME KInv, KitchenNext, mainPc' = "refuse", mainPc # "refuse",
                      \A c \in Cook : stage[c] \notin {"sent", "settled"}
               PROVE  FALSE
    OBVIOUS
  <2>1. /\ OwnTypes /\ PoolInv /\ PoolView /\ Reports /\ CreditIsExact
        /\ orderQ \in Seq(OrderPacket) /\ resultQ \in Seq(ResultPacket)
        /\ credit \in Nat /\ credit <= MaxCapacity /\ MaxCapacity \in Nat
    BY PoolSeen, CookFacts DEF KInv, OwnTypes, MaxCapacity
  <2>2. RefusePizza
    <3>1. MainStep
      BY DEF KitchenNext, TimePasses, CookStep, InPool, BeginPizza, InStock, SendDone, BecomeIdle,
             ReleaseLoad, WakesSpuriously, Replenish, ReceptionStep, OfferPizza, AskStatus,
             CommandShutdown, CollectResult, KitchenTerminated, kitchenVars, mainVars
    <3> QED
      BY <3>1
      DEF MainStep, ReceiveOrder, StartPool, ReceiveNothing, AcceptPizza, BeginStatus,
          ReceiveShutdown, SendFull, ReadCook, SendCookStatus, SendStatusReply, CheckIdle,
          StopPool, SendShutdown, DestroyStock
  <2>3. orderQ # <<>> /\ orderQ' = Tail(orderQ) /\ Head(orderQ).type = "Pizza"
    BY <2>1, <2>2, Received DEF RefusePizza
  <2>4. load >= MaxCapacity
    BY <2>2, PoolFull DEF RefusePizza
  <2>5. accepted \ reported = accepted \ cooked
    BY <2>1 DEF Reports, PoolView
  <2>6. load = Cardinality(accepted \ reported)
    BY <2>1, <2>5, LoadIsUncooked, Zenon
  <2>7. Count(orderQ, {"Pizza"}) \in Nat \ {0}
    <3> DEFINE T == {"Pizza"}
    <3>1. Head(orderQ).type \in T /\ Tail(orderQ) \in Seq(OrderPacket)
      BY <2>1, <2>3, QueueEnds
    <3> HIDE DEF T
    <3>2. Count(orderQ, T) = Count(Tail(orderQ), T) + 1
      BY <2>1, <2>3, <3>1, CountTail
    <3>3. Count(Tail(orderQ), T) \in Nat
      BY <3>1, CountNat
    <3>4. Count(orderQ, T) \in Nat \ {0}
      BY <3>2, <3>3
    <3> QED
      BY <3>4 DEF T
  <2>8. Count(resultQ, {"Done", "Full"}) \in Nat
    BY <2>1, CountNat
  <2>9. Cardinality(accepted \ reported) \in Nat
    BY <2>1, AcceptedCounts
  <2>10. credit >= Cardinality(accepted \ reported) + 1
    BY <2>1, <2>7, <2>8, <2>9 DEF CreditIsExact
  <2> QED
    BY <2>1, <2>4, <2>6, <2>9, <2>10
<1>2. KitchenSpec => [][Window]_kitchenVars
  <2> HIDE DEF Window
  <2> QED
    BY <1>1, KitchenSafety, PTL DEF KitchenSpec
<1> QED
  BY <1>2 DEF RefusedOnlyInReleaseWindow

-----------------------------------------------------------------------------
(* A kitchen keeps the contract that the reception relies on: what the         *)
(* reception could see of a step is a step of the contract, or nothing.        *)

\* The parts of PublicKitchen that are computed of the threads.
Hands == {holding[c] : c \in Cook} \ (reported \cup {NoPizza})
Settling == {c \in Cook : stage[c] \in {"sent", "settled"}}
Replies ==
    IF mainPc = "read" THEN NCooks + 1
    ELSE IF mainPc = "reply" THEN Len(snapshot.cooks) + 1 ELSE 0
Used == accepted # {}

\* A kitchen is seen by its ten public parts.
LEMMA PublicParts ==
    PublicKitchen =
        [orders |-> PublicQueue(orderQ), results |-> PublicQueue(resultQ),
         line |-> queue, hands |-> Hands, releasing |-> Cardinality(Settling),
         refused |-> refused, replies |-> Replies, phase |-> PublicPhase,
         used |-> Used, tired |-> idleLong]
BY Zenon DEF PublicKitchen, Hands, Settling, Replies, Used

\* The same of a kitchen one step later.
LEMMA PublicPartsNext ==
    PublicKitchen' =
        [orders |-> PublicQueue(orderQ)', results |-> PublicQueue(resultQ)',
         line |-> queue', hands |-> Hands', releasing |-> Cardinality(Settling)',
         refused |-> refused', replies |-> Replies', phase |-> PublicPhase',
         used |-> Used', tired |-> idleLong']
BY Zenon DEF PublicKitchen, Hands, Settling, Replies, Used

\* A step that changes none of the ten parts is not seen.
LEMMA Unseen ==
    ASSUME UNCHANGED <<PublicQueue(orderQ), PublicQueue(resultQ), queue, Hands,
                       Cardinality(Settling), refused, Replies, PublicPhase,
                       Used, idleLong>>
    PROVE  UNCHANGED [k \in {0} |-> PublicKitchen]
<1>1. PublicKitchen' = PublicKitchen
  BY Zenon DEF PublicKitchen, Hands, Settling, Replies, Used
<1> QED
  BY <1>1, Zenon

\* A queue is seen packet by packet.
LEMMA PublicQueues ==
    ASSUME NEW S, NEW q \in Seq(S)
    PROVE  /\ PublicQueue(q) # <<>> <=> q # <<>>
           /\ \A m \in S : PublicQueue(Append(q, m)) = Append(PublicQueue(q), PublicPacket(m))
           /\ q # <<>> => /\ Head(PublicQueue(q)) = PublicPacket(Head(q))
                          /\ PublicQueue(Tail(q)) = Tail(PublicQueue(q))
<1> DEFINE U == {PublicPacket(m) : m \in S}
           V(t) == PublicQueue(t)
<1>1. ASSUME NEW t \in Seq(S)
      PROVE  /\ V(t) \in Seq(U) /\ Len(V(t)) = Len(t)
             /\ \A i \in 1 .. Len(t) : V(t)[i] = PublicPacket(t[i])
  <2>1. DOMAIN t = 1 .. Len(t) /\ Len(t) \in Nat /\ \A i \in DOMAIN t : t[i] \in S
    BY QueueEnds
  <2>2. V(t) = [i \in 1 .. Len(t) |-> PublicPacket(t[i])]
    BY <2>1 DEF PublicQueue
  <2>3. \A i \in 1 .. Len(t) : PublicPacket(t[i]) \in U
    BY <2>1
  <2> QED
    BY <2>1, <2>2, <2>3
<1> HIDE DEF U, V
<1>2. Len(q) \in Nat /\ (q = <<>> <=> Len(q) = 0)
  OBVIOUS
<1>3. V(q) # <<>> <=> q # <<>>
  <2>1. V(q) \in Seq(U) /\ Len(V(q)) = Len(q)
    BY <1>1
  <2> QED
    BY <1>2, <2>1
<1>4. ASSUME NEW m \in S PROVE V(Append(q, m)) = Append(V(q), PublicPacket(m))
  <2> DEFINE a == Append(q, m)
             b == Append(V(q), PublicPacket(m))
             n == Len(q) + 1
  <2>1. a \in Seq(S) /\ Len(a) = n /\ \A i \in 1 .. n : a[i] = IF i = n THEN m ELSE q[i]
    BY QueueEnds
  <2>2. V(a) \in Seq(U) /\ Len(V(a)) = n /\ \A i \in 1 .. n : V(a)[i] = PublicPacket(a[i])
    BY <1>1, <2>1
  <2>3. PublicPacket(m) \in U /\ V(q) \in Seq(U) /\ Len(V(q)) = Len(q)
    BY <1>1 DEF U
  <2>4. b \in Seq(U) /\ Len(b) = n
        /\ \A i \in 1 .. n : b[i] = IF i = n THEN PublicPacket(m) ELSE V(q)[i]
    BY <2>3, QueueEnds
  <2> HIDE DEF a, b
  <2>5. \A i \in 1 .. n : V(a)[i] = b[i]
    <3> SUFFICES ASSUME NEW i \in 1 .. n PROVE V(a)[i] = b[i]
      OBVIOUS
    <3>1. CASE i = n
      BY <2>1, <2>2, <2>4, <3>1
    <3>2. CASE i # n
      <4>1. i \in 1 .. Len(q)
        BY <1>2, <3>2
      <4> QED
        BY <1>1, <2>1, <2>2, <2>4, <3>2, <4>1
    <3> QED
      BY <3>1, <3>2
  <2>6. V(a) = b
    BY <2>2, <2>4, <2>5, SeqEqual
  <2> QED
    BY <2>6 DEF a, b
<1>5. ASSUME q # <<>>
      PROVE  Head(V(q)) = PublicPacket(Head(q)) /\ V(Tail(q)) = Tail(V(q))
  <2> DEFINE a == Tail(q)
             b == Tail(V(q))
             n == Len(q) - 1
  <2>1. /\ a \in Seq(S) /\ Len(a) = n /\ \A i \in 1 .. n : a[i] = q[i + 1]
        /\ Head(q) = q[1] /\ n \in Nat
    BY <1>2, <1>5, QueueEnds
  <2>2. V(a) \in Seq(U) /\ Len(V(a)) = n /\ \A i \in 1 .. n : V(a)[i] = PublicPacket(a[i])
    BY <1>1, <2>1
  <2>3. V(q) \in Seq(U) /\ Len(V(q)) = Len(q) /\ V(q) # <<>>
    BY <1>1, <1>3, <1>5
  <2>4. /\ b \in Seq(U) /\ Len(b) = n /\ \A i \in 1 .. n : b[i] = V(q)[i + 1]
        /\ Head(V(q)) = V(q)[1]
    BY <2>3, QueueEnds
  <2>5. 1 \in 1 .. Len(q) /\ \A i \in 1 .. n : i + 1 \in 1 .. Len(q)
    BY <1>2, <2>1
  <2>6. \A i \in 1 .. Len(q) : V(q)[i] = PublicPacket(q[i])
    BY <1>1
  <2> HIDE DEF a, b
  <2>7. \A i \in 1 .. n : V(a)[i] = b[i]
    BY <2>1, <2>2, <2>4, <2>5, <2>6
  <2>8. V(a) = b
    BY <2>2, <2>4, <2>7, SeqEqual
  <2> QED
    BY <2>1, <2>4, <2>5, <2>6, <2>8 DEF a, b
<1> QED
  BY <1>3, <1>4, <1>5 DEF V

\* The phases of a kitchen, in the order of its life.
LEMMA PhaseIs ==
    MainThread =>
        PublicPhase =
            IF phase = "aborted" THEN "crashed"
            ELSE IF mainPc = "start" THEN "unborn"
            ELSE IF mainPc = "exited" THEN "exited"
            ELSE IF mainPc = "leave" THEN "gone"
            ELSE IF Stopping THEN IF Ordered THEN "ordered" ELSE "idle"
            ELSE "open"
BY DEF MainThread, PublicPhase, Running, Stopping, Ordered, Shutdowns

\* The same one step later.
LEMMA PhaseNext ==
    MainThread' =>
        PublicPhase' =
            IF phase' = "aborted" THEN "crashed"
            ELSE IF mainPc' = "start" THEN "unborn"
            ELSE IF mainPc' = "exited" THEN "exited"
            ELSE IF mainPc' = "leave" THEN "gone"
            ELSE IF Stopping' THEN IF Ordered' THEN "ordered" ELSE "idle"
            ELSE "open"
BY DEF MainThread, PublicPhase, Running, Stopping, Ordered, Shutdowns

\* What a cook holds that is not reported is in its hands for the reception too; a cook that
\* has reported is still to release it.
LEMMA HandsSeen ==
    KInv =>
        /\ \A p : p \in Hands <=>
              \E c \in AtWork : holding[c] = p /\ stage[c] \notin {"sent", "settled"}
        /\ Settling \subseteq AtWork
<1> SUFFICES ASSUME KInv
             PROVE  /\ \A p : p \in Hands <=>
                          \E c \in AtWork : holding[c] = p /\ stage[c] \notin {"sent", "settled"}
                    /\ Settling \subseteq AtWork
  OBVIOUS
<1>1. PoolInv /\ PoolView /\ Cooks /\ Reports
  BY PoolSeen DEF KInv
<1>2. Settling \subseteq AtWork
  BY <1>1 DEF Settling, AtWork, Cooks
<1>3. \A c \in Cook : holding[c] # NoPizza <=> c \in AtWork
  BY <1>1 DEF PoolView, AtWork
<1>4. \A c \in AtWork : c \in Cook /\ holding[c] \in Pizza /\ holding[c] \notin cooked
  BY <1>1, <1>3, HandsApart DEF AtWork, PoolView
<1>5. \A c, d \in AtWork : holding[c] = holding[d] => c = d
  BY <1>1, <1>3, <1>4, HandsApart
<1>6. \A c \in AtWork : holding[c] \in reported <=> stage[c] \in {"sent", "settled"}
  <2> SUFFICES ASSUME NEW c \in AtWork
               PROVE  holding[c] \in reported <=> stage[c] \in {"sent", "settled"}
    OBVIOUS
  <2>1. holding[c] \in reported <=>
            \E d \in Cook : holding[d] = holding[c] /\ stage[d] \in {"sent", "settled"}
    BY <1>1, <1>4 DEF Reports
  <2>2. \A d \in Cook : stage[d] \in {"sent", "settled"} => d \in AtWork
    BY <1>2 DEF Settling
  <2> QED
    BY <1>4, <1>5, <2>1, <2>2
<1>7. ASSUME NEW p
      PROVE  p \in Hands <=>
                \E c \in AtWork : holding[c] = p /\ stage[c] \notin {"sent", "settled"}
  <2>1. p \in Hands <=> \E c \in Cook : holding[c] = p /\ p # NoPizza /\ p \notin reported
    BY DEF Hands
  <2> QED
    BY <1>3, <1>4, <1>6, <2>1
<1> QED
  BY <1>2, <1>7

\* The load the reception could count is the pool's.
LEMMA LoadSeen ==
    KInv => /\ Contract!Busy(0) = Cardinality(AtWork)
            /\ Contract!Load(0) = load
            /\ Contract!Capacity = MaxCapacity
<1> SUFFICES ASSUME KInv
             PROVE  /\ Contract!Busy(0) = Cardinality(AtWork)
                    /\ Contract!Load(0) = load
                    /\ Contract!Capacity = MaxCapacity
  OBVIOUS
<1>1. PoolInv /\ PoolView
  BY PoolSeen DEF KInv
<1> DEFINE W == AtWork \ Settling
           hand == [c \in W |-> holding[c]]
<1>2. IsFiniteSet(AtWork) /\ IsFiniteSet(W) /\ Cardinality(AtWork) \in Nat
  BY CookFacts, FS_Subset, FS_CardinalityType DEF AtWork
<1>3. IsFiniteSet(Settling) /\ Cardinality(Settling) \in Nat
  BY CookFacts, FS_Subset, FS_CardinalityType DEF Settling
<1>4. Cardinality(W) = Cardinality(AtWork) - Cardinality(Settling)
  <2>1. AtWork \cap Settling = Settling
    BY HandsSeen
  <2>2. Cardinality(W) = Cardinality(AtWork) - Cardinality(AtWork \cap Settling)
    BY <1>2, FS_Difference
  <2> QED
    BY <2>1, <2>2
<1>5. Cardinality(Hands) = Cardinality(W)
  <2>1. \A p : p \in Hands <=> \E c \in W : holding[c] = p
    BY HandsSeen DEF Settling, AtWork
  <2>2. \A c, d \in W : holding[c] = holding[d] => c = d
    BY <1>1, HandsApart DEF PoolView, AtWork
  <2> HIDE DEF W
  <2>3. hand \in [W -> Hands] /\ \A c \in W : hand[c] = holding[c]
    BY <2>1
  <2>4. \A p \in Hands : \E c \in W : hand[c] = p
    BY <2>1, <2>3
  <2> HIDE DEF hand
  <2>5. hand \in Bijection(W, Hands)
    BY <2>2, <2>3, <2>4 DEF Bijection, Injection, Surjection, IsInjective
  <2>6. ExistsBijection(W, Hands)
    BY <2>5 DEF ExistsBijection
  <2> QED
    BY <1>2, <2>6, FS_Bijection
<1>6. Contract!Busy(0) = Cardinality(Hands) + Cardinality(Settling)
  <2>1. Contract!Cardinality(Hands) = Cardinality(Hands)
    BY Zenon DEF Contract!Cardinality, Cardinality
  <2>2. [k \in {0} |-> PublicKitchen][0] = PublicKitchen
    OBVIOUS
  <2>3. Contract!Busy(0) = Contract!Cardinality(PublicKitchen.hands) + PublicKitchen.releasing
    BY <2>2, Zenon DEF Contract!Busy
  <2> QED
    BY <2>1, <2>3, PublicParts, Zenon
<1>7. Contract!Busy(0) = Cardinality(AtWork)
  BY <1>2, <1>3, <1>4, <1>5, <1>6
<1>8. Contract!Load(0) = Len(queue) + Contract!Busy(0)
  BY PublicParts DEF Contract!Load
<1>9. Contract!Capacity = MaxCapacity
  BY DEF Contract!Capacity, MaxCapacity
<1> QED
  BY <1>1, <1>7, <1>8, <1>9 DEF PoolView

\* The reception forks the kitchen.
LEMMA SpawnSeen ==
    ASSUME PublicPhase = "unborn",
           PublicKitchen' =
               [orders |-> PublicQueue(orderQ), results |-> PublicQueue(resultQ),
                line |-> queue, hands |-> Hands, releasing |-> Cardinality(Settling),
                refused |-> refused, replies |-> Replies, phase |-> "open", used |-> Used,
                tired |-> idleLong]
    PROVE  Contract!Spawn(0)
BY PublicParts DEF Contract!Spawn

\* The reception sends a packet.
LEMMA SendSeen ==
    ASSUME NEW packet,
           PublicKitchen' =
               [orders |-> Append(PublicQueue(orderQ), packet),
                results |-> PublicQueue(resultQ), line |-> queue, hands |-> Hands,
                releasing |-> Cardinality(Settling), refused |-> refused, replies |-> Replies,
                phase |-> PublicPhase, used |-> Used, tired |-> idleLong]
    PROVE  Contract!Send(0, packet)
BY PublicParts DEF Contract!Send

\* The reception receives one.
LEMMA ReceiveSeen ==
    ASSUME PublicQueue(resultQ) # <<>>,
           PublicKitchen' =
               [orders |-> PublicQueue(orderQ), results |-> Tail(PublicQueue(resultQ)),
                line |-> queue, hands |-> Hands, releasing |-> Cardinality(Settling),
                refused |-> refused, replies |-> Replies, phase |-> PublicPhase,
                used |-> Used, tired |-> idleLong]
    PROVE  Contract!Receive(0)
BY PublicParts DEF Contract!Receive

\* A pizza is taken into a pool that has room.
LEMMA AcceptSeen ==
    ASSUME NEW p,
           Contract!Takes(0, "Pizza"), p = Head(PublicQueue(orderQ)).pizza,
           Contract!Load(0) < Contract!Capacity,
           PublicKitchen' =
               [orders |-> Tail(PublicQueue(orderQ)), results |-> PublicQueue(resultQ),
                line |-> Append(queue, p), hands |-> Hands,
                releasing |-> Cardinality(Settling), refused |-> refused, replies |-> Replies,
                phase |-> PublicPhase, used |-> TRUE, tired |-> FALSE]
    PROVE  Contract!TakePizza(0)
BY PublicParts DEF Contract!TakePizza

\* A pizza is taken out of the queue for a pool that is full.
LEMMA RefuseSeen ==
    ASSUME NEW p,
           Contract!Takes(0, "Pizza"), p = Head(PublicQueue(orderQ)).pizza,
           ~(Contract!Load(0) < Contract!Capacity),
           PublicKitchen' =
               [orders |-> Tail(PublicQueue(orderQ)), results |-> PublicQueue(resultQ),
                line |-> queue, hands |-> Hands, releasing |-> Cardinality(Settling),
                refused |-> p, replies |-> Replies, phase |-> PublicPhase, used |-> Used,
                tired |-> idleLong]
    PROVE  Contract!TakePizza(0)
BY PublicParts DEF Contract!TakePizza

\* The main thread answers Full.
LEMMA FullSeen ==
    ASSUME NEW packet,
           PublicPhase = "open", refused # NoPizza, packet = Contract!Packet("Full", refused),
           PublicKitchen' =
               [orders |-> PublicQueue(orderQ),
                results |-> Append(PublicQueue(resultQ), packet), line |-> queue,
                hands |-> Hands, releasing |-> Cardinality(Settling), refused |-> NoPizza,
                replies |-> Replies, phase |-> PublicPhase, used |-> Used, tired |-> idleLong]
    PROVE  Contract!SayFull(0)
BY PublicParts DEF Contract!SayFull

\* A status request is taken out of the queue.
LEMMA RequestSeen ==
    ASSUME Contract!Takes(0, "StatusRequest"),
           PublicKitchen' =
               [orders |-> Tail(PublicQueue(orderQ)), results |-> PublicQueue(resultQ),
                line |-> queue, hands |-> Hands, releasing |-> Cardinality(Settling),
                refused |-> refused, replies |-> NCooks + 1, phase |-> PublicPhase,
                used |-> Used, tired |-> idleLong]
    PROVE  Contract!TakeStatusRequest(0)
BY PublicParts DEF Contract!TakeStatusRequest

\* Three parts of a kitchen are changed at once.
Answered(results, replies, state) ==
    [[k \in {0} |-> PublicKitchen] EXCEPT
        ![0].results = results, ![0].replies = replies, ![0].phase = state]
Told(results, replies, state) ==
    [k \in {0} |->
        [orders |-> PublicQueue(orderQ), results |-> results, line |-> queue,
         hands |-> Hands, releasing |-> Cardinality(Settling), refused |-> refused,
         replies |-> replies, phase |-> state, used |-> Used, tired |-> idleLong]]

LEMMA AnsweredIsTold ==
    ASSUME NEW results, NEW replies, NEW state
    PROVE  Answered(results, replies, state) = Told(results, replies, state)
<1> DEFINE A == [[k \in {0} |-> PublicKitchen] EXCEPT ![0].results = results]
           B == [A EXCEPT ![0].replies = replies]
           C == [B EXCEPT ![0].phase = state]
<1>1. A = Told(results, Replies, PublicPhase)
  BY PublicParts DEF Told
<1>2. B = Told(results, replies, PublicPhase)
  <2> HIDE DEF A
  <2> QED
    BY <1>1 DEF Told
<1>3. C = Told(results, replies, state)
  <2> HIDE DEF B
  <2> QED
    BY <1>2 DEF Told
<1> QED
  BY <1>3, Zenon DEF Answered

\* The status of a cook is sent.
LEMMA CookReplySeen ==
    ASSUME NEW packet, NEW n,
           PublicPhase = "open", n \in Nat \ {0}, Replies = n + 1,
           packet = Contract!Plain("CookStatus"),
           PublicKitchen' =
               [orders |-> PublicQueue(orderQ),
                results |-> Append(PublicQueue(resultQ), packet), line |-> queue,
                hands |-> Hands, releasing |-> Cardinality(Settling), refused |-> refused,
                replies |-> n, phase |-> PublicPhase, used |-> Used, tired |-> idleLong]
    PROVE  Contract!SayStatus(0)
<1> DEFINE K == [k \in {0} |-> PublicKitchen]
           type == IF K[0].replies = 1 THEN "StatusReply" ELSE "CookStatus"
           told == Append(K[0].results, Contract!Plain(type))
           state == IF type = "StatusReply" /\ K[0].tired THEN "idle" ELSE K[0].phase
<1>1. /\ K[0].phase = "open" /\ K[0].replies > 0 /\ K[0].replies - 1 = n
      /\ type = "CookStatus" /\ state = "open"
  BY PublicParts
<1>2. told = Append(PublicQueue(resultQ), packet)
  <2>1. K[0].results = PublicQueue(resultQ)
    BY PublicParts
  <2> QED
    BY <1>1, <2>1
<1>3. K' = [K EXCEPT ![0].results = told, ![0].replies = K[0].replies - 1, ![0].phase = state]
  <2> DEFINE n1 == K[0].replies - 1
  <2>1. K' = Told(told, n1, state)
    BY <1>1, <1>2, Zenon DEF Told
  <2> HIDE DEF told, n1, state
  <2>2. Answered(told, n1, state) = Told(told, n1, state)
    BY AnsweredIsTold, Zenon
  <2> QED
    BY <2>1, <2>2, Zenon DEF n1, Answered
<1> QED
  BY <1>1, <1>3, Zenon DEF Contract!SayStatus

\* The status of the kitchen is sent, and a tired kitchen closes.
LEMMA LastReplySeen ==
    ASSUME NEW packet, NEW state,
           PublicPhase = "open", Replies = 1, idleLong \in BOOLEAN,
           packet = Contract!Plain("StatusReply"), state = IF idleLong THEN "idle" ELSE "open",
           PublicKitchen' =
               [orders |-> PublicQueue(orderQ),
                results |-> Append(PublicQueue(resultQ), packet), line |-> queue,
                hands |-> Hands, releasing |-> Cardinality(Settling), refused |-> refused,
                replies |-> 0, phase |-> state, used |-> Used, tired |-> idleLong]
    PROVE  Contract!SayStatus(0)
<1> DEFINE K == [k \in {0} |-> PublicKitchen]
           type == IF K[0].replies = 1 THEN "StatusReply" ELSE "CookStatus"
           told == Append(K[0].results, Contract!Plain(type))
           stateNext == IF type = "StatusReply" /\ K[0].tired THEN "idle" ELSE K[0].phase
<1>1. /\ K[0].phase = "open" /\ K[0].replies > 0 /\ K[0].replies - 1 = 0
      /\ type = "StatusReply" /\ stateNext = state
  BY PublicParts
<1>2. told = Append(PublicQueue(resultQ), packet)
  <2>1. K[0].results = PublicQueue(resultQ)
    BY PublicParts
  <2> QED
    BY <1>1, <2>1
<1>3. K' = [K EXCEPT ![0].results = told, ![0].replies = K[0].replies - 1, ![0].phase = stateNext]
  <2> DEFINE n1 == K[0].replies - 1
  <2>1. K' = Told(told, n1, stateNext)
    BY <1>1, <1>2, Zenon DEF Told
  <2> HIDE DEF told, n1, stateNext
  <2>2. Answered(told, n1, stateNext) = Told(told, n1, stateNext)
    BY AnsweredIsTold, Zenon
  <2> QED
    BY <2>1, <2>2, Zenon DEF n1, Answered
<1> QED
  BY <1>1, <1>3, Zenon DEF Contract!SayStatus

\* The command to shut down is taken out of the queue.
LEMMA CommandSeen ==
    ASSUME Contract!Takes(0, "Shutdown"),
           PublicKitchen' =
               [orders |-> Tail(PublicQueue(orderQ)), results |-> PublicQueue(resultQ),
                line |-> queue, hands |-> Hands, releasing |-> Cardinality(Settling),
                refused |-> refused, replies |-> Replies, phase |-> "ordered", used |-> Used,
                tired |-> idleLong]
    PROVE  Contract!TakeShutdown(0)
BY PublicParts DEF Contract!TakeShutdown

\* Five seconds have passed.
LEMMA TireSeen ==
    ASSUME PublicPhase = "open", refused = NoPizza, Replies = 0, Contract!Load(0) = 0, Used,
           PublicKitchen' =
               [orders |-> PublicQueue(orderQ), results |-> PublicQueue(resultQ),
                line |-> queue, hands |-> Hands, releasing |-> Cardinality(Settling),
                refused |-> refused, replies |-> Replies, phase |-> PublicPhase,
                used |-> Used, tired |-> TRUE]
    PROVE  Contract!Tire(0)
BY PublicParts DEF Contract!Tire

\* A tired kitchen finds no order.
LEMMA CloseSeen ==
    ASSUME PublicPhase = "open", refused = NoPizza, Replies = 0, idleLong,
           PublicQueue(orderQ) = <<>>,
           PublicKitchen' =
               [orders |-> PublicQueue(orderQ), results |-> PublicQueue(resultQ),
                line |-> queue, hands |-> Hands, releasing |-> Cardinality(Settling),
                refused |-> refused, replies |-> Replies, phase |-> "idle", used |-> Used,
                tired |-> idleLong]
    PROVE  Contract!CloseIdle(0)
BY PublicParts DEF Contract!CloseIdle

\* The farewell is sent.
LEMMA FarewellSeen ==
    ASSUME NEW packet,
           PublicPhase \in {"idle", "ordered"}, Contract!Load(0) = 0,
           packet = Contract!Plain("Shutdown"),
           PublicKitchen' =
               [orders |-> PublicQueue(orderQ),
                results |-> Append(PublicQueue(resultQ), packet), line |-> queue,
                hands |-> Hands, releasing |-> Cardinality(Settling), refused |-> refused,
                replies |-> Replies, phase |-> "gone", used |-> Used, tired |-> idleLong]
    PROVE  Contract!Farewell(0)
BY PublicParts DEF Contract!Farewell

\* The process exits.
LEMMA ExitSeen ==
    ASSUME PublicPhase = "gone",
           PublicKitchen' =
               [orders |-> PublicQueue(orderQ), results |-> PublicQueue(resultQ),
                line |-> queue, hands |-> Hands, releasing |-> Cardinality(Settling),
                refused |-> refused, replies |-> Replies, phase |-> "exited", used |-> Used,
                tired |-> idleLong]
    PROVE  Contract!Exit(0)
BY PublicParts DEF Contract!Exit

\* The process aborts.
LEMMA CrashSeen ==
    ASSUME PublicPhase = "ordered",
           PublicKitchen' =
               [orders |-> PublicQueue(orderQ), results |-> PublicQueue(resultQ),
                line |-> queue, hands |-> Hands, releasing |-> Cardinality(Settling),
                refused |-> refused, replies |-> Replies, phase |-> "crashed", used |-> Used,
                tired |-> idleLong]
    PROVE  Contract!Crash(0)
BY PublicParts DEF Contract!Crash

\* A cook takes the first pizza in line.
LEMMA CookSeen ==
    ASSUME NEW h,
           PublicPhase \in {"open", "idle", "ordered"}, queue # <<>>,
           Contract!Busy(0) < NCooks, h = Hands \cup {Head(queue)},
           PublicKitchen' =
               [orders |-> PublicQueue(orderQ), results |-> PublicQueue(resultQ),
                line |-> Tail(queue), hands |-> h, releasing |-> Cardinality(Settling),
                refused |-> refused, replies |-> Replies, phase |-> PublicPhase,
                used |-> Used, tired |-> idleLong]
    PROVE  Contract!Cook(0)
BY PublicParts DEF Contract!Cook, Contract!Works

\* A cook sends Done.
LEMMA ReportSeen ==
    ASSUME NEW p, NEW h, NEW n, NEW packet,
           PublicPhase \in {"open", "idle", "ordered"}, p \in Hands, h = Hands \ {p},
           n = Cardinality(Settling) + 1, packet = Contract!Packet("Done", p),
           PublicKitchen' =
               [orders |-> PublicQueue(orderQ),
                results |-> Append(PublicQueue(resultQ), packet), line |-> queue, hands |-> h,
                releasing |-> n, refused |-> refused, replies |-> Replies,
                phase |-> PublicPhase, used |-> Used, tired |-> idleLong]
    PROVE  Contract!ReportDone(0, p)
BY PublicParts DEF Contract!ReportDone, Contract!Works

\* A cook releases its pizza.
LEMMA ReleaseSeen ==
    ASSUME NEW n,
           PublicPhase \in {"open", "idle", "ordered"}, Cardinality(Settling) > 0,
           n = Cardinality(Settling) - 1,
           PublicKitchen' =
               [orders |-> PublicQueue(orderQ), results |-> PublicQueue(resultQ),
                line |-> queue, hands |-> Hands, releasing |-> n, refused |-> refused,
                replies |-> Replies, phase |-> PublicPhase, used |-> Used, tired |-> idleLong]
    PROVE  Contract!Release(0)
BY PublicParts DEF Contract!Release, Contract!Works

\* What the parts are made of.
LEMMA Frame ==
    /\ UNCHANGED orderQ => UNCHANGED PublicQueue(orderQ)
    /\ UNCHANGED resultQ => UNCHANGED PublicQueue(resultQ)
    /\ UNCHANGED <<holding, reported>> => UNCHANGED Hands
    /\ UNCHANGED stage => UNCHANGED Cardinality(Settling)
    /\ UNCHANGED <<mainPc, snapshot>> => UNCHANGED Replies
    /\ UNCHANGED accepted => UNCHANGED Used
    /\ UNCHANGED <<orderQ, commanded>> => (Ordered' <=> Ordered)
<1>1. /\ UNCHANGED orderQ => UNCHANGED PublicQueue(orderQ)
      /\ UNCHANGED resultQ => UNCHANGED PublicQueue(resultQ)
  BY Zenon DEF PublicQueue
<1>2. UNCHANGED <<holding, reported>> => UNCHANGED Hands
  BY Zenon DEF Hands
<1>3. UNCHANGED stage => UNCHANGED Cardinality(Settling)
  BY Zenon DEF Settling
<1>4. UNCHANGED <<mainPc, snapshot>> => UNCHANGED Replies
  BY Zenon DEF Replies
<1>5. UNCHANGED accepted => UNCHANGED Used
  BY Zenon DEF Used
<1>6. UNCHANGED <<orderQ, commanded>> => (Ordered' <=> Ordered)
  <2>1. UNCHANGED orderQ => Shutdowns' = Shutdowns
    BY Zenon DEF Shutdowns
  <2> QED
    BY <2>1 DEF Ordered
<1> QED
  BY <1>1, <1>2, <1>3, <1>4, <1>5, <1>6

\* A step that leaves the main thread and the pool's life alone leaves the phase alone, if it
\* does not take the command to shut down.
LEMMA PhaseKeeps ==
    ASSUME MainThread, MainThread', Ordered' <=> Ordered,
           UNCHANGED <<mainPc, phase, wantStop, idleLong>>
    PROVE  PublicPhase' = PublicPhase
BY PhaseIs, PhaseNext DEF Stopping

\* A step that the reception could see is a step of the contract.
Sees == [Contract!ContractNext]_([k \in {0} |-> PublicKitchen])

\* The reception sends an order.
LEMMA SendStep ==
    ASSUME KInv, KInv', NEW m \in OrderPacket,
           PublicPacket(m) \in
               {Contract!Packet("Pizza", p) : p \in Pizza}
               \cup {Contract!Plain("StatusRequest"), Contract!Plain("Shutdown")},
           orderQ' = Append(orderQ, m), Ordered' <=> Ordered,
           UNCHANGED <<poolVars, cookVars, mainVars, resultQ>>
    PROVE  Sees
<1> DEFINE packet == PublicPacket(m)
<1>1. UNCHANGED <<PublicQueue(resultQ), queue, Hands, Cardinality(Settling), refused, Replies,
                  Used, idleLong, PublicPhase>>
  BY Frame, PhaseKeeps DEF KInv, poolVars, cookVars, mainVars
<1>2. PublicQueue(orderQ)' = Append(PublicQueue(orderQ), packet)
  <2>1. orderQ \in Seq(OrderPacket)
    BY DEF KInv, OwnTypes
  <2>2. PublicQueue(Append(orderQ, m)) = Append(PublicQueue(orderQ), PublicPacket(m))
    BY <2>1, PublicQueues
  <2> QED
    BY <2>2, Zenon DEF PublicQueue
<1> HIDE DEF packet
<1>3. PublicKitchen' =
          [orders |-> Append(PublicQueue(orderQ), packet), results |-> PublicQueue(resultQ),
           line |-> queue, hands |-> Hands, releasing |-> Cardinality(Settling),
           refused |-> refused, replies |-> Replies, phase |-> PublicPhase,
           used |-> Used, tired |-> idleLong]
  BY <1>1, <1>2, PublicPartsNext, Zenon
<1>4. Contract!Send(0, packet)
  BY <1>3, SendSeen
<1>5. Contract!ContractNext
  <2>1. packet \in
            {Contract!Packet("Pizza", p) : p \in Pizza}
            \cup {Contract!Plain("StatusRequest"), Contract!Plain("Shutdown")}
    BY DEF packet
  <2> QED
    BY <1>4, <2>1 DEF Contract!ContractNext
<1> QED
  BY <1>5 DEF Sees

\* The reception's steps: a pizza, a status request or the command sent, a packet received.
LEMMA ReceptionSeen ==
    ASSUME KInv, KInv', [KitchenNext]_kitchenVars, ReceptionStep
    PROVE  Sees
<1>1. orderQ \in Seq(OrderPacket) /\ resultQ \in Seq(ResultPacket) /\ NoPizza \notin Pizza
  BY CookFacts DEF KInv, OwnTypes
<1>2. ASSUME NEW p \in Pizza, OfferPizza(p) PROVE Sees
  <2>1. PizzaPacket(p) \in OrderPacket
    BY Packets
  <2>2. PublicPacket(PizzaPacket(p)) = Contract!Packet("Pizza", p)
    BY DEF PublicPacket, PizzaPacket, Contract!Packet
  <2>3. ~Ordered /\ ~Ordered'
    BY <1>2 DEF OfferPizza, Ordered
  <2> QED
    BY <1>2, <2>1, <2>2, <2>3, SendStep DEF OfferPizza
<1>3. CASE AskStatus
  <2>1. PublicPacket(StatusRequest) = Contract!Plain("StatusRequest")
    BY DEF PublicPacket, StatusRequest, Contract!Plain, Contract!Packet
  <2>2. ~Ordered /\ ~Ordered'
    BY <1>3 DEF AskStatus, Ordered
  <2> QED
    BY <1>3, <2>1, <2>2, Packets, SendStep DEF AskStatus
<1>4. CASE CommandShutdown
  <2>1. PublicPacket(Shutdown) = Contract!Plain("Shutdown")
    BY DEF PublicPacket, Shutdown, Contract!Plain, Contract!Packet
  <2>2. ~Ordered /\ ~Ordered'
    BY <1>4, CommandsStep DEF CommandShutdown, Ordered
  <2> QED
    BY <1>4, <2>1, <2>2, Packets, SendStep DEF CommandShutdown
<1>5. CASE CollectResult
  <2>1. resultQ # <<>> /\ resultQ' = Tail(resultQ)
    BY <1>5 DEF CollectResult
  <2>2. UNCHANGED <<PublicQueue(orderQ), queue, Hands, Cardinality(Settling), refused, Replies,
                    Used, idleLong, PublicPhase>>
    BY <1>5, Frame, PhaseKeeps DEF CollectResult, KInv, poolVars, cookVars, mainVars
  <2>3. PublicQueue(resultQ) # <<>> /\ PublicQueue(Tail(resultQ)) = Tail(PublicQueue(resultQ))
    BY <1>1, <2>1, PublicQueues
  <2>4. PublicQueue(resultQ)' = Tail(PublicQueue(resultQ))
    BY <2>1, <2>3, Zenon DEF PublicQueue
  <2>5. PublicKitchen' =
            [orders |-> PublicQueue(orderQ), results |-> Tail(PublicQueue(resultQ)),
             line |-> queue, hands |-> Hands, releasing |-> Cardinality(Settling),
             refused |-> refused, replies |-> Replies, phase |-> PublicPhase,
             used |-> Used, tired |-> idleLong]
    BY <2>2, <2>4, PublicPartsNext, Zenon
  <2>6. Contract!Receive(0)
    BY <2>3, <2>5, ReceiveSeen
  <2> QED
    BY <2>6 DEF Sees, Contract!ContractNext
<1> QED
  BY <1>2, <1>3, <1>4, <1>5 DEF ReceptionStep

\* The main thread finds the head of its queue when it is waiting for orders.
LEMMA TakesSeen ==
    ASSUME KInv, KInv', NEW type, ReceivePacket(type)
    PROVE  /\ Contract!Takes(0, type)
           /\ PublicQueue(orderQ)' = Tail(PublicQueue(orderQ))
           /\ type = "Pizza" => Head(PublicQueue(orderQ)).pizza = Head(orderQ).pizza
           /\ PublicPhase = "open" /\ refused = NoPizza /\ Replies = 0
           /\ orderQ # <<>> /\ Head(orderQ) \in OrderPacket /\ Head(orderQ).type = type
           /\ mainPc = "receive" /\ phase = "serving"
<1>1. OwnTypes /\ MainThread
  BY DEF KInv
<1>2. /\ orderQ \in Seq(OrderPacket) /\ orderQ # <<>> /\ orderQ' = Tail(orderQ)
      /\ Head(orderQ) \in OrderPacket /\ Head(orderQ).type = type
      /\ mainPc = "receive" /\ phase # "aborted"
  BY <1>1, Received
<1>3. phase = "serving" /\ ~wantStop /\ refused = NoPizza /\ Replies = 0
  BY <1>1, <1>2 DEF MainThread, Replies
<1>4. PublicPhase = "open"
  BY <1>1, <1>2, <1>3, PhaseIs DEF Stopping
<1>5. /\ PublicQueue(orderQ) # <<>>
      /\ Head(PublicQueue(orderQ)) = PublicPacket(Head(orderQ))
      /\ PublicQueue(Tail(orderQ)) = Tail(PublicQueue(orderQ))
  BY <1>2, PublicQueues
<1>6. /\ Head(PublicQueue(orderQ)).type = type
      /\ type = "Pizza" => Head(PublicQueue(orderQ)).pizza = Head(orderQ).pizza
  BY <1>2, <1>5 DEF PublicPacket
<1>7. PublicQueue(orderQ)' = Tail(PublicQueue(orderQ))
  BY <1>2, <1>5, Zenon DEF PublicQueue
<1>8. Contract!Takes(0, type)
  <2>1. PublicKitchen.orders = PublicQueue(orderQ) /\ PublicKitchen.phase = PublicPhase
        /\ PublicKitchen.refused = refused /\ PublicKitchen.replies = Replies
    BY PublicParts
  <2> QED
    BY <1>3, <1>4, <1>5, <1>6, <2>1 DEF Contract!Takes
<1> QED
  BY <1>2, <1>3, <1>4, <1>6, <1>7, <1>8

\* A round that ends without a command ends the kitchen if it is idle.
LEMMA RoundEnds ==
    ASSUME KInv, KInv', UNCHANGED <<orderQ, commanded, wantStop, phase>>,
           ~wantStop, phase = "serving", mainPc' = "check"
    PROVE  PublicPhase' = IF idleLong' THEN "idle" ELSE "open"
<1>1. Ordered' <=> Ordered
  BY Frame
<1>2. ~Ordered
  BY DEF KInv, Commands, Ordered
<1>3. MainThread'
  BY DEF KInv
<1> QED
  BY <1>1, <1>2, <1>3, PhaseNext DEF Stopping

\* The kitchen starts, and begins a round.
LEMMA StartSeen ==
    ASSUME KInv, KInv', StartPool
    PROVE  Sees
<1>1. MainThread /\ MainThread' /\ mainPc = "start" /\ mainPc' = "receive" /\ phase' = "serving"
  BY DEF KInv, StartPool, Pool!Start
<1>2. PublicPhase = "unborn"
  BY <1>1, PhaseIs DEF MainThread
<1>3. PublicPhase' = "open"
  BY <1>1, PhaseNext DEF Stopping, MainThread
<1>4. UNCHANGED <<PublicQueue(orderQ), PublicQueue(resultQ), queue, Hands,
                  Cardinality(Settling), refused, Used, idleLong>>
  BY Frame DEF StartPool, Pool!Start, cookVars
<1>5. Replies' = Replies
  BY <1>1 DEF Replies
<1>6. PublicKitchen' =
          [orders |-> PublicQueue(orderQ), results |-> PublicQueue(resultQ),
           line |-> queue, hands |-> Hands, releasing |-> Cardinality(Settling),
           refused |-> refused, replies |-> Replies, phase |-> "open", used |-> Used,
           tired |-> idleLong]
  BY <1>3, <1>4, <1>5, PublicPartsNext, Zenon
<1> QED
  BY <1>2, <1>6, SpawnSeen DEF Sees, Contract!ContractNext

\* A round without an order.
LEMMA NothingSeen ==
    ASSUME KInv, KInv', ReceiveNothing
    PROVE  Sees
<1>1. /\ OwnTypes /\ MainThread /\ mainPc = "receive" /\ mainPc' = "check" /\ orderQ = <<>>
      /\ phase = "serving" /\ ~wantStop /\ refused = NoPizza
      /\ UNCHANGED <<orderQ, commanded, wantStop, phase>>
  BY DEF KInv, ReceiveNothing, MainThread, poolVars, receptionVars
<1>2. UNCHANGED <<PublicQueue(orderQ), PublicQueue(resultQ), queue, Hands,
                  Cardinality(Settling), refused, Used, idleLong>>
  BY Frame DEF ReceiveNothing, poolVars, cookVars
<1>3. Replies = 0 /\ Replies' = 0
  BY <1>1 DEF Replies
<1>4. PublicPhase = "open"
  BY <1>1, PhaseIs DEF Stopping
<1>5. PublicPhase' = IF idleLong THEN "idle" ELSE "open"
  BY <1>1, <1>2, RoundEnds
<1>6. CASE ~idleLong
  BY <1>2, <1>3, <1>4, <1>5, <1>6, Unseen DEF Sees
<1>7. CASE idleLong
  <2>1. PublicPhase' = "idle"
    BY <1>5, <1>7
  <2>2. PublicQueue(orderQ) = <<>>
    BY <1>1, PublicQueues DEF OwnTypes
  <2>3. PublicKitchen' =
            [orders |-> PublicQueue(orderQ), results |-> PublicQueue(resultQ),
             line |-> queue, hands |-> Hands, releasing |-> Cardinality(Settling),
             refused |-> refused, replies |-> Replies, phase |-> "idle", used |-> Used,
             tired |-> idleLong]
    BY <1>2, <1>3, <2>1, PublicPartsNext, Zenon
  <2> QED
    BY <1>1, <1>3, <1>4, <1>7, <2>2, <2>3, CloseSeen
    DEF Sees, Contract!ContractNext, Contract!KitchenStep
<1> QED
  BY <1>6, <1>7

\* A pizza for a pool with room.
LEMMA AcceptStep ==
    ASSUME KInv, KInv', AcceptPizza
    PROVE  Sees
<1> DEFINE p == Head(orderQ).pizza
<1>1. /\ Contract!Takes(0, "Pizza") /\ PublicQueue(orderQ)' = Tail(PublicQueue(orderQ))
      /\ Head(PublicQueue(orderQ)).pizza = p /\ PublicPhase = "open" /\ Replies = 0
      /\ Head(orderQ) \in OrderPacket /\ Head(orderQ).type = "Pizza"
      /\ mainPc = "receive" /\ phase = "serving"
  BY TakesSeen DEF AcceptPizza
<1>2. p \in Pizza
  BY <1>1, Packets
<1>3. /\ queue' = Append(queue, p) /\ accepted' = accepted \cup {p}
      /\ UNCHANGED <<phase, holding, reported, stage, resultQ, refused, wantStop>>
      /\ mainPc' = "check" /\ idleLong' = FALSE /\ ~(load >= MaxCapacity)
  BY <1>2, AddEffects, PoolFull DEF KInv, AcceptPizza, cookVars, Pool!AddPizza
<1>4. UNCHANGED <<PublicQueue(resultQ), Hands, Cardinality(Settling)>>
  BY <1>3, Frame
<1>5. Used' = TRUE
  BY <1>3 DEF Used
<1>6. Replies' = 0
  BY <1>3 DEF Replies
<1>7. PublicPhase' = "open"
  <2>1. ~wantStop /\ MainThread'
    BY <1>1 DEF KInv, MainThread
  <2> QED
    BY <1>1, <1>3, <2>1, PhaseNext DEF Stopping
<1>8. Contract!Load(0) < Contract!Capacity
  <2>1. load \in Nat /\ MaxCapacity \in Nat
    BY PoolSeen, CookFacts DEF KInv, PoolView, MaxCapacity
  <2>2. load < MaxCapacity
    BY <1>3, <2>1
  <2> QED
    BY <2>2, LoadSeen
<1> HIDE DEF p
<1>9. PublicKitchen' =
          [orders |-> Tail(PublicQueue(orderQ)), results |-> PublicQueue(resultQ),
           line |-> Append(queue, p), hands |-> Hands, releasing |-> Cardinality(Settling),
           refused |-> refused, replies |-> Replies, phase |-> PublicPhase,
           used |-> TRUE, tired |-> FALSE]
  BY <1>1, <1>3, <1>4, <1>5, <1>6, <1>7, PublicPartsNext, Zenon
<1>10. Contract!TakePizza(0)
  BY <1>1, <1>8, <1>9, AcceptSeen
<1> QED
  BY <1>10 DEF Sees, Contract!ContractNext, Contract!KitchenStep, Contract!Serve

\* A pizza for a pool without.
LEMMA RefuseStep ==
    ASSUME KInv, KInv', RefusePizza
    PROVE  Sees
<1> DEFINE p == Head(orderQ).pizza
<1>1. /\ Contract!Takes(0, "Pizza") /\ PublicQueue(orderQ)' = Tail(PublicQueue(orderQ))
      /\ Head(PublicQueue(orderQ)).pizza = p /\ PublicPhase = "open" /\ Replies = 0
      /\ mainPc = "receive" /\ phase = "serving"
  BY TakesSeen DEF RefusePizza
<1>2. /\ UNCHANGED <<queue, accepted, phase, holding, reported, stage, resultQ, wantStop, idleLong>>
      /\ refused' = p /\ mainPc' = "refuse" /\ load >= MaxCapacity
  BY PoolFull DEF RefusePizza, poolVars, cookVars
<1>3. UNCHANGED <<PublicQueue(resultQ), Hands, Cardinality(Settling), Used>>
  BY <1>2, Frame
<1>4. Replies' = 0
  BY <1>2 DEF Replies
<1>5. PublicPhase' = "open"
  <2>1. ~wantStop /\ MainThread'
    BY <1>1 DEF KInv, MainThread
  <2> QED
    BY <1>1, <1>2, <2>1, PhaseNext DEF Stopping
<1>6. ~(Contract!Load(0) < Contract!Capacity)
  <2>1. load \in Nat /\ MaxCapacity \in Nat
    BY PoolSeen, CookFacts DEF KInv, PoolView, MaxCapacity
  <2>2. ~(load < MaxCapacity)
    BY <1>2, <2>1
  <2> QED
    BY <2>2, LoadSeen
<1> HIDE DEF p
<1>7. PublicKitchen' =
          [orders |-> Tail(PublicQueue(orderQ)), results |-> PublicQueue(resultQ),
           line |-> queue, hands |-> Hands, releasing |-> Cardinality(Settling),
           refused |-> p, replies |-> Replies, phase |-> PublicPhase, used |-> Used,
           tired |-> idleLong]
  BY <1>1, <1>2, <1>3, <1>4, <1>5, PublicPartsNext, Zenon
<1>8. Contract!TakePizza(0)
  BY <1>1, <1>6, <1>7, RefuseSeen
<1> QED
  BY <1>8 DEF Sees, Contract!ContractNext, Contract!KitchenStep, Contract!Serve

\* A packet appended to the result queue.
LEMMA ResultSent ==
    ASSUME OwnTypes, NEW m \in ResultPacket, resultQ' = Append(resultQ, m)
    PROVE  PublicQueue(resultQ)' = Append(PublicQueue(resultQ), PublicPacket(m))
<1>1. resultQ \in Seq(ResultPacket)
  BY DEF OwnTypes
<1>2. PublicQueue(Append(resultQ, m)) = Append(PublicQueue(resultQ), PublicPacket(m))
  BY <1>1, PublicQueues
<1> QED
  BY <1>2, Zenon DEF PublicQueue

\* Full is sent for the pizza that was refused; the kitchen is not idle.
LEMMA FullStep ==
    ASSUME KInv, KInv', SendFull
    PROVE  Sees
<1> DEFINE packet == Contract!Packet("Full", refused)
<1>1. /\ OwnTypes /\ MainThread /\ MainThread' /\ ~idleLong /\ ~wantStop
      /\ refused \in Pizza /\ NoPizza \notin Pizza /\ refused' = NoPizza
      /\ mainPc = "refuse" /\ mainPc' = "check" /\ phase = "serving"
      /\ resultQ' = Append(resultQ, Full(refused))
      /\ UNCHANGED <<orderQ, queue, accepted, holding, reported, stage, commanded, phase, wantStop,
                     idleLong>>
  BY CookFacts
  DEF KInv, SendFull, OwnTypes, MainThread, Idleness, poolVars, cookVars, receptionVars
<1>2. PublicQueue(resultQ)' = Append(PublicQueue(resultQ), packet)
  <2>1. Full(refused) \in ResultPacket
    BY <1>1, Packets
  <2>2. PublicPacket(Full(refused)) = packet
    BY DEF PublicPacket, Full, Contract!Packet
  <2> QED
    BY <1>1, <2>1, <2>2, ResultSent
<1>3. UNCHANGED <<PublicQueue(orderQ), Hands, Cardinality(Settling), Used>>
  BY <1>1, Frame
<1>4. Replies = 0 /\ Replies' = 0
  BY <1>1 DEF Replies
<1>5. PublicPhase = "open" /\ PublicPhase' = "open"
  BY <1>1, PhaseIs, RoundEnds DEF Stopping
<1> HIDE DEF packet
<1>6. PublicKitchen' =
          [orders |-> PublicQueue(orderQ), results |-> Append(PublicQueue(resultQ), packet),
           line |-> queue, hands |-> Hands, releasing |-> Cardinality(Settling),
           refused |-> NoPizza, replies |-> Replies, phase |-> PublicPhase, used |-> Used,
           tired |-> idleLong]
  BY <1>1, <1>2, <1>3, <1>4, <1>5, PublicPartsNext, Zenon
<1>7. Contract!SayFull(0)
  BY <1>1, <1>5, <1>6, FullSeen DEF packet
<1> QED
  BY <1>7 DEF Sees, Contract!ContractNext, Contract!KitchenStep, Contract!Serve

\* A status request is taken.
LEMMA RequestStep ==
    ASSUME KInv, KInv', BeginStatus
    PROVE  Sees
<1>1. /\ Contract!Takes(0, "StatusRequest") /\ PublicQueue(orderQ)' = Tail(PublicQueue(orderQ))
      /\ PublicPhase = "open" /\ mainPc = "receive" /\ phase = "serving"
  BY TakesSeen DEF BeginStatus
<1>2. /\ UNCHANGED <<queue, accepted, phase, holding, reported, stage, resultQ, wantStop, idleLong,
                     refused>>
      /\ mainPc' = "read"
  BY DEF BeginStatus, poolVars, cookVars
<1>3. UNCHANGED <<PublicQueue(resultQ), Hands, Cardinality(Settling), Used>>
  BY <1>2, Frame
<1>4. Replies' = NCooks + 1
  BY <1>2 DEF Replies
<1>5. PublicPhase' = "open"
  <2>1. ~wantStop /\ MainThread'
    BY <1>1 DEF KInv, MainThread
  <2> QED
    BY <1>1, <1>2, <2>1, PhaseNext DEF Stopping
<1>6. PublicKitchen' =
          [orders |-> Tail(PublicQueue(orderQ)), results |-> PublicQueue(resultQ),
           line |-> queue, hands |-> Hands, releasing |-> Cardinality(Settling),
           refused |-> refused, replies |-> NCooks + 1, phase |-> PublicPhase, used |-> Used,
           tired |-> idleLong]
  BY <1>1, <1>2, <1>3, <1>4, <1>5, PublicPartsNext, Zenon
<1>7. Contract!TakeStatusRequest(0)
  BY <1>1, <1>6, RequestSeen
<1> QED
  BY <1>7 DEF Sees, Contract!ContractNext, Contract!KitchenStep, Contract!Serve

\* Reading the cooks is not seen: one packet for each of them and the reply are still to come.
LEMMA ReadSeen ==
    ASSUME KInv, KInv', ReadCook
    PROVE  Sees
<1>1. /\ OwnTypes /\ OwnTypes' /\ MainThread /\ MainThread' /\ NCooks \in Nat
      /\ snapshot \in [load : Nat, cooks : Seq({"IDLE", "COOKING"})]
      /\ cookState \in [Cook -> {"IDLE", "COOKING"}]
      /\ mainPc = "read" /\ phase = "serving" /\ Len(snapshot.cooks) < NCooks
  BY CookFacts DEF KInv, OwnTypes, MainThread, ReadCook
<1> DEFINE c == Len(snapshot.cooks) + 1
<1>2. /\ snapshot'.cooks = Append(snapshot.cooks, cookState[c])
      /\ mainPc' = IF c = NCooks THEN "reply" ELSE "read"
      /\ UNCHANGED <<orderQ, resultQ, queue, accepted, holding, reported, stage, commanded, phase,
                     wantStop, idleLong, refused>>
  BY <1>1 DEF ReadCook, poolVars, cookVars, receptionVars
<1>3. Replies' = Replies
  <2>1. snapshot.cooks \in Seq({"IDLE", "COOKING"}) /\ Len(snapshot.cooks) \in Nat
    BY <1>1
  <2>2. cookState[c] \in {"IDLE", "COOKING"}
    BY <1>1, <2>1 DEF Cook
  <2>3. Len(snapshot'.cooks) = c
    BY <1>2, <2>1, <2>2
  <2> QED
    BY <1>1, <1>2, <2>3 DEF Replies
<1>4. PublicPhase' = PublicPhase
  <2>1. Ordered' <=> Ordered
    BY <1>2, Frame
  <2> QED
    BY <1>1, <1>2, <2>1, PhaseIs, PhaseNext DEF Stopping
<1>5. UNCHANGED <<PublicQueue(orderQ), PublicQueue(resultQ), Hands, Cardinality(Settling), Used>>
  BY <1>2, Frame
<1> QED
  BY <1>2, <1>3, <1>4, <1>5, Unseen DEF Sees

\* The status of one cook goes out.
LEMMA CookReplyStep ==
    ASSUME KInv, KInv', SendCookStatus
    PROVE  Sees
<1> DEFINE m == CookStatus(NCooks - Len(snapshot.cooks) + 1, Head(snapshot.cooks))
           packet == Contract!Plain("CookStatus")
           n == Len(snapshot.cooks)
<1>1. /\ OwnTypes /\ MainThread /\ MainThread' /\ NCooks \in Nat
      /\ snapshot \in [load : Nat, cooks : Seq({"IDLE", "COOKING"})]
      /\ snapshot.cooks \in Seq({"IDLE", "COOKING"}) /\ snapshot.cooks # <<>>
      /\ mainPc = "reply" /\ phase = "serving" /\ ~wantStop /\ Len(snapshot.cooks) <= NCooks
  BY CookFacts DEF KInv, OwnTypes, MainThread, SendCookStatus
<1>2. /\ snapshot'.cooks = Tail(snapshot.cooks) /\ resultQ' = Append(resultQ, m)
      /\ UNCHANGED <<orderQ, queue, accepted, holding, reported, stage, commanded, phase, wantStop,
                     idleLong, refused, mainPc>>
  BY <1>1 DEF SendCookStatus, poolVars, cookVars, receptionVars
<1>3. /\ n \in Nat \ {0} /\ Len(snapshot'.cooks) = n - 1
      /\ Head(snapshot.cooks) \in {"IDLE", "COOKING"}
  BY <1>1, <1>2
<1>4. Replies = n + 1 /\ Replies' = n
  BY <1>1, <1>2, <1>3 DEF Replies
<1>5. PublicQueue(resultQ)' = Append(PublicQueue(resultQ), packet)
  <2>1. NCooks - n + 1 \in Cook
    BY <1>1, <1>3 DEF Cook
  <2>2. m \in ResultPacket
    BY <1>3, <2>1, Packets
  <2>3. PublicPacket(m) = packet
    BY DEF PublicPacket, CookStatus, Contract!Plain, Contract!Packet
  <2> QED
    BY <1>1, <1>2, <2>2, <2>3, ResultSent
<1>6. PublicPhase = "open" /\ PublicPhase' = "open"
  BY <1>1, <1>2, PhaseIs, PhaseNext DEF Stopping
<1>7. UNCHANGED <<PublicQueue(orderQ), Hands, Cardinality(Settling), Used>>
  BY <1>2, Frame
<1> HIDE DEF m, packet, n
<1>8. PublicKitchen' =
          [orders |-> PublicQueue(orderQ), results |-> Append(PublicQueue(resultQ), packet),
           line |-> queue, hands |-> Hands, releasing |-> Cardinality(Settling),
           refused |-> refused, replies |-> n, phase |-> PublicPhase, used |-> Used,
           tired |-> idleLong]
  BY <1>2, <1>4, <1>5, <1>6, <1>7, PublicPartsNext, Zenon
<1>9. Contract!SayStatus(0)
  BY <1>3, <1>4, <1>6, <1>8, CookReplySeen DEF packet
<1> QED
  BY <1>9 DEF Sees, Contract!ContractNext, Contract!KitchenStep, Contract!Serve

\* The last packet of an answer, and the end of the round.
LEMMA LastReplyStep ==
    ASSUME KInv, KInv', SendStatusReply
    PROVE  Sees
<1> DEFINE m == StatusReply(snapshot.load)
           packet == Contract!Plain("StatusReply")
           state == IF idleLong THEN "idle" ELSE "open"
<1>1. /\ OwnTypes /\ MainThread /\ idleLong \in BOOLEAN
      /\ snapshot.load \in Nat /\ snapshot.cooks = <<>>
      /\ mainPc = "reply" /\ phase = "serving" /\ ~wantStop
  BY DEF KInv, OwnTypes, MainThread, SendStatusReply
<1>2. /\ resultQ' = Append(resultQ, m) /\ mainPc' = "check"
      /\ UNCHANGED <<orderQ, queue, accepted, holding, reported, stage, commanded, phase, wantStop,
                     idleLong, refused>>
  BY DEF SendStatusReply, poolVars, cookVars, receptionVars
<1>3. Replies = 1 /\ Replies' = 0
  BY <1>1, <1>2 DEF Replies
<1>4. PublicQueue(resultQ)' = Append(PublicQueue(resultQ), packet)
  <2>1. m \in ResultPacket
    BY <1>1, Packets
  <2>2. PublicPacket(m) = packet
    BY DEF PublicPacket, StatusReply, Contract!Plain, Contract!Packet
  <2> QED
    BY <1>1, <1>2, <2>1, <2>2, ResultSent
<1>5. PublicPhase = "open"
  BY <1>1, PhaseIs DEF Stopping
<1>6. PublicPhase' = state
  BY <1>1, <1>2, RoundEnds
<1>7. UNCHANGED <<PublicQueue(orderQ), Hands, Cardinality(Settling), Used>>
  BY <1>2, Frame
<1> HIDE DEF m, packet, state
<1>8. PublicKitchen' =
          [orders |-> PublicQueue(orderQ), results |-> Append(PublicQueue(resultQ), packet),
           line |-> queue, hands |-> Hands, releasing |-> Cardinality(Settling),
           refused |-> refused, replies |-> 0, phase |-> state, used |-> Used,
           tired |-> idleLong]
  BY <1>2, <1>3, <1>4, <1>6, <1>7, PublicPartsNext, Zenon
<1>9. Contract!SayStatus(0)
  BY <1>1, <1>3, <1>5, <1>8, LastReplySeen DEF packet, state
<1> QED
  BY <1>9 DEF Sees, Contract!ContractNext, Contract!KitchenStep, Contract!Serve

\* The command is taken.
LEMMA CommandStep ==
    ASSUME KInv, KInv', [KitchenNext]_kitchenVars, ReceiveShutdown
    PROVE  Sees
<1>1. /\ Contract!Takes(0, "Shutdown") /\ PublicQueue(orderQ)' = Tail(PublicQueue(orderQ))
      /\ mainPc = "receive" /\ phase = "serving" /\ Replies = 0
  BY TakesSeen DEF ReceiveShutdown
<1>2. /\ UNCHANGED <<queue, accepted, phase, holding, reported, stage, resultQ, idleLong, refused>>
      /\ mainPc' = "check" /\ wantStop' = TRUE
  BY DEF ReceiveShutdown, poolVars, cookVars
<1>3. UNCHANGED <<PublicQueue(resultQ), Hands, Cardinality(Settling), Used>>
  BY <1>2, Frame
<1>4. Replies' = 0
  BY <1>2 DEF Replies
<1>5. PublicPhase' = "ordered"
  <2>1. Ordered' /\ MainThread'
    BY CommandsStep DEF KInv
  <2> QED
    BY <1>1, <1>2, <2>1, PhaseNext DEF Stopping
<1>6. PublicKitchen' =
          [orders |-> Tail(PublicQueue(orderQ)), results |-> PublicQueue(resultQ),
           line |-> queue, hands |-> Hands, releasing |-> Cardinality(Settling),
           refused |-> refused, replies |-> Replies, phase |-> "ordered", used |-> Used,
           tired |-> idleLong]
  BY <1>1, <1>2, <1>3, <1>4, <1>5, PublicPartsNext, Zenon
<1>7. Contract!TakeShutdown(0)
  BY <1>1, <1>6, CommandSeen
<1> QED
  BY <1>7 DEF Sees, Contract!ContractNext, Contract!KitchenStep, Contract!Serve

\* The idle test was decided when the round began: the reception sees nothing of it.
LEMMA CheckSeen ==
    ASSUME KInv, KInv', CheckIdle
    PROVE  Sees
<1>1. /\ OwnTypes /\ MainThread /\ MainThread' /\ mainPc = "check" /\ phase = "serving"
      /\ idleLong => load = 0
  BY DEF KInv, CheckIdle, MainThread, Idleness, Pool!AtRest
<1>2. /\ UNCHANGED <<orderQ, resultQ, queue, accepted, holding, reported, stage, commanded, phase,
                     refused, snapshot>>
      /\ idleLong' = (idleLong /\ load = 0) /\ wantStop' = (wantStop \/ (idleLong /\ load = 0))
      /\ mainPc' = IF wantStop' THEN "stop" ELSE "receive"
  BY DEF CheckIdle, poolVars, cookVars, receptionVars
<1>3. idleLong' = idleLong /\ (Stopping' <=> Stopping)
  <2>1. idleLong \in BOOLEAN
    BY <1>1 DEF OwnTypes
  <2> QED
    BY <1>1, <1>2, <2>1 DEF Stopping
<1>4. PublicPhase' = PublicPhase
  <2>1. Ordered' <=> Ordered
    BY <1>2, Frame
  <2>2. mainPc' \in {"stop", "receive"}
    BY <1>2
  <2> QED
    BY <1>1, <1>2, <1>3, <2>1, <2>2, PhaseIs, PhaseNext
<1>5. Replies' = Replies
  BY <1>1, <1>2 DEF Replies
<1>6. UNCHANGED <<PublicQueue(orderQ), PublicQueue(resultQ), Hands, Cardinality(Settling), Used>>
  BY <1>2, Frame
<1> QED
  BY <1>2, <1>3, <1>4, <1>5, <1>6, Unseen DEF Sees

\* Nor of the destruction of the pool.
LEMMA StopSeen ==
    ASSUME KInv, KInv', StopPool
    PROVE  Sees
<1>1. /\ MainThread /\ MainThread' /\ mainPc = "stop" /\ mainPc' \in {"farewell", "stop"}
      /\ wantStop /\ phase # "aborted" /\ phase' # "aborted"
      /\ UNCHANGED <<orderQ, resultQ, queue, accepted, holding, reported, stage, commanded,
                     refused, snapshot, wantStop, idleLong>>
  <2>1. /\ UNCHANGED <<queue, accepted, holding>> /\ phase # "aborted" /\ phase' # "aborted"
    BY StopEffects DEF KInv, StopPool
  <2> QED
    BY <2>1 DEF KInv, StopPool, MainThread, cookVars, receptionVars
<1>2. PublicPhase' = PublicPhase
  <2>1. Ordered' <=> Ordered
    BY <1>1, Frame
  <2> QED
    BY <1>1, <2>1, PhaseIs, PhaseNext DEF Stopping
<1>3. Replies' = Replies
  BY <1>1 DEF Replies
<1>4. UNCHANGED <<PublicQueue(orderQ), PublicQueue(resultQ), Hands, Cardinality(Settling), Used>>
  BY <1>1, Frame
<1> QED
  BY <1>1, <1>2, <1>3, <1>4, Unseen DEF Sees

\* The farewell of a kitchen whose cooks have ended.
LEMMA FarewellSends ==
    ASSUME KInv, KInv', SendShutdown
    PROVE  Sees
<1> DEFINE packet == Contract!Plain("Shutdown")
<1>1. /\ OwnTypes /\ MainThread /\ MainThread' /\ mainPc = "farewell" /\ mainPc' = "leave"
      /\ wantStop /\ phase = "joined" /\ resultQ' = Append(resultQ, Shutdown)
      /\ UNCHANGED <<orderQ, queue, accepted, holding, reported, stage, commanded, phase,
                     refused, snapshot, wantStop, idleLong>>
  BY DEF KInv, SendShutdown, MainThread, poolVars, cookVars, receptionVars
<1>2. PublicQueue(resultQ)' = Append(PublicQueue(resultQ), packet)
  <2>1. PublicPacket(Shutdown) = packet
    BY DEF PublicPacket, Shutdown, Contract!Plain, Contract!Packet
  <2> QED
    BY <1>1, <2>1, Packets, ResultSent
<1>3. PublicPhase \in {"idle", "ordered"} /\ PublicPhase' = "gone"
  BY <1>1, PhaseIs, PhaseNext DEF Stopping
<1>4. Replies' = Replies
  BY <1>1 DEF Replies
<1>5. UNCHANGED <<PublicQueue(orderQ), Hands, Cardinality(Settling), Used>>
  BY <1>1, Frame
<1>6. Contract!Load(0) = 0
  BY <1>1, LoadSeen, JoinedEmpty DEF KInv
<1> HIDE DEF packet
<1>7. PublicKitchen' =
          [orders |-> PublicQueue(orderQ), results |-> Append(PublicQueue(resultQ), packet),
           line |-> queue, hands |-> Hands, releasing |-> Cardinality(Settling),
           refused |-> refused, replies |-> Replies, phase |-> "gone", used |-> Used,
           tired |-> idleLong]
  BY <1>1, <1>2, <1>3, <1>4, <1>5, PublicPartsNext, Zenon
<1>8. Contract!Farewell(0)
  BY <1>3, <1>6, <1>7, FarewellSeen DEF packet
<1> QED
  BY <1>8 DEF Sees, Contract!ContractNext, Contract!KitchenStep, Contract!Leave

\* The stock is destroyed, and then the process ends.
LEMMA ExitStep ==
    ASSUME KInv, KInv', DestroyStock
    PROVE  Sees
<1>1. /\ MainThread /\ MainThread' /\ mainPc = "leave" /\ mainPc' \in {"leave", "exited"}
      /\ phase = "joined"
      /\ UNCHANGED <<orderQ, resultQ, queue, accepted, holding, reported, stage, commanded, phase,
                     refused, snapshot, wantStop, idleLong>>
  BY DEF KInv, DestroyStock, MainThread, poolVars, cookVars, receptionVars
<1>2. Replies' = Replies
  BY <1>1 DEF Replies
<1>3. UNCHANGED <<PublicQueue(orderQ), PublicQueue(resultQ), Hands, Cardinality(Settling), Used>>
  BY <1>1, Frame
<1>4. PublicPhase = "gone"
  BY <1>1, PhaseIs
<1>5. CASE mainPc' = "leave"
  <2>1. PublicPhase' = PublicPhase
    BY <1>1, <1>4, <1>5, PhaseNext
  <2> QED
    BY <1>1, <1>2, <1>3, <2>1, Unseen DEF Sees
<1>6. CASE mainPc' = "exited"
  <2>1. PublicPhase' = "exited"
    BY <1>1, <1>6, PhaseNext
  <2>2. PublicKitchen' =
            [orders |-> PublicQueue(orderQ), results |-> PublicQueue(resultQ),
             line |-> queue, hands |-> Hands, releasing |-> Cardinality(Settling),
             refused |-> refused, replies |-> Replies, phase |-> "exited", used |-> Used,
             tired |-> idleLong]
    BY <1>1, <1>2, <1>3, <2>1, PublicPartsNext, Zenon
  <2> QED
    BY <1>4, <2>2, ExitSeen
    DEF Sees, Contract!ContractNext, Contract!KitchenStep, Contract!Leave
<1> QED
  BY <1>1, <1>5, <1>6

\* Five seconds pass over a kitchen at rest.
LEMMA TimeSeen ==
    ASSUME KInv, KInv', TimePasses
    PROVE  Sees
<1>1. /\ MainThread /\ MainThread' /\ mainPc = "receive" /\ mainPc' = mainPc /\ phase = "serving"
      /\ ~wantStop /\ refused = NoPizza /\ idleLong' = TRUE /\ load = 0 /\ accepted # {}
      /\ UNCHANGED <<orderQ, resultQ, queue, accepted, holding, reported, stage, commanded, phase,
                     refused, snapshot, wantStop>>
  BY DEF KInv, TimePasses, MainThread, poolVars, cookVars, receptionVars, Pool!AtRest
<1>2. Replies = 0 /\ Replies' = Replies
  BY <1>1 DEF Replies
<1>3. UNCHANGED <<PublicQueue(orderQ), PublicQueue(resultQ), Hands, Cardinality(Settling), Used>>
  BY <1>1, Frame
<1>4. PublicPhase = "open" /\ PublicPhase' = "open"
  BY <1>1, PhaseIs, PhaseNext DEF Stopping
<1>5. Contract!Load(0) = 0 /\ Used
  BY <1>1, LoadSeen DEF Used
<1>6. PublicKitchen' =
          [orders |-> PublicQueue(orderQ), results |-> PublicQueue(resultQ),
           line |-> queue, hands |-> Hands, releasing |-> Cardinality(Settling),
           refused |-> refused, replies |-> Replies, phase |-> PublicPhase, used |-> Used,
           tired |-> TRUE]
  BY <1>1, <1>2, <1>3, <1>4, PublicPartsNext, Zenon
<1>7. Contract!Tire(0)
  BY <1>1, <1>2, <1>4, <1>5, <1>6, TireSeen
<1> QED
  BY <1>7 DEF Sees, Contract!ContractNext, Contract!KitchenStep

\* While a cook is at work the kitchen works, for the reception too.
LEMMA WorksSeen ==
    ASSUME KInv, phase \notin {"built", "joined", "aborted"}
    PROVE  PublicPhase \in {"open", "idle", "ordered"}
<1>1. MainThread /\ mainPc \notin {"start", "leave", "exited"}
  BY DEF KInv, MainThread
<1> QED
  BY <1>1, PhaseIs

\* A step of a thread that the reception cannot see.
LEMMA Hidden ==
    ASSUME KInv, KInv',
           UNCHANGED <<orderQ, resultQ, queue, accepted, commanded, phase, mainVars>>,
           Hands' = Hands, Cardinality(Settling)' = Cardinality(Settling)
    PROVE  Sees
<1>1. UNCHANGED <<PublicQueue(orderQ), PublicQueue(resultQ), Replies, Used, PublicPhase, refused,
                  idleLong>>
  BY Frame, PhaseKeeps DEF KInv, mainVars
<1> QED
  BY <1>1, Unseen DEF Sees

\* A cook in the pool's monitor: it waits, takes a pizza, leaves, or aborts.
LEMMA InPoolSeen ==
    ASSUME KInv, KInv', NEW c \in Cook, InPool(c)
    PROVE  Sees
<1>1. /\ PoolInv /\ PoolView /\ PoolInv' /\ PoolView' /\ MainThread /\ MainThread' /\ Idleness'
      /\ NoPizza \notin Pizza /\ Cook # {}
  <2>1. PoolInv' => PoolView'
    BY PoolSeen, PTL
  <2> QED
    BY <2>1, PoolSeen, CookFacts DEF KInv
<1>2. /\ UNCHANGED <<orderQ, resultQ, accepted, commanded, mainVars, stage, reported>>
      /\ cookPc[c] \in {"loop", "woken"}
  BY <1>1, InPoolEffects DEF InPool, cookVars, receptionVars
<1>3. CASE Pool!CookWaits(c) \/ Pool!CookLeaves(c)
  <2>1. UNCHANGED <<queue, holding, phase>>
    BY <1>3 DEF Pool!CookWaits, Pool!CookLeaves
  <2> QED
    BY <1>2, <2>1, Frame, Hidden
<1>4. CASE Pool!CookTakes(c)
  <2> DEFINE p == Head(queue)
             h == Hands \cup {p}
  <2>1. /\ queue # <<>> /\ queue' = Tail(queue) /\ holding' = [holding EXCEPT ![c] = p]
        /\ phase' = phase /\ phase # "aborted"
    BY <1>4 DEF Pool!CookTakes, Pool!Enters
  <2>2. phase \notin {"built", "joined", "aborted"}
    <3>1. phase = "built" => cookPc[c] = "unborn"
      BY <1>1, Zenon DEF PoolInv, PoolProofs!PoolInvariant, PoolProofs!Lifecycle
    <3> QED
      BY <1>1, <1>2, <2>1, <3>1 DEF PoolView
  <2>3. p \in Pizza /\ p \in accepted \ cooked /\ \A d \in Cook : holding[d] # p
    <3>1. queue \in Seq(Pizza) /\ 1 \in DOMAIN queue /\ p = queue[1]
      BY <1>1, <2>1, QueueEnds DEF PoolView
    <3> QED
      BY <1>1, <3>1, HandsApart, QueueEnds
  <2>4. p \notin reported
    BY <2>3 DEF KInv, Reports
  <2>5. Hands' = h
    <3>1. holding \in [Cook -> Pizza \cup {NoPizza}] /\ holding[c] = NoPizza
      BY <1>1, <1>2 DEF PoolView
    <3>2. \A d \in Cook : holding'[d] = IF d = c THEN p ELSE holding[d]
      BY <2>1, <3>1
    <3>3. Hands' = {holding'[d] : d \in Cook} \ (reported \cup {NoPizza})
      BY <1>2 DEF Hands
    <3> HIDE DEF p
    <3>4. \A x : x \in Hands' <=> x \in Hands \cup {p}
      BY <1>1, <2>3, <2>4, <3>1, <3>2, <3>3 DEF Hands
    <3> QED
      BY <3>4
  <2>6. Contract!Busy(0) < NCooks
    <3>1. AtWork \subseteq Cook \ {c}
      BY <1>2 DEF AtWork
    <3>2. /\ IsFiniteSet(Cook \ {c}) /\ Cardinality(Cook \ {c}) = NCooks - 1
          /\ NCooks \in Nat \ {0}
      BY CookFacts, FS_RemoveElement
    <3>3. Cardinality(AtWork) <= Cardinality(Cook \ {c}) /\ Cardinality(AtWork) \in Nat
      BY <3>1, <3>2, FS_Subset, FS_CardinalityType
    <3> QED
      BY <3>2, <3>3, LoadSeen
  <2>7. PublicPhase \in {"open", "idle", "ordered"}
    BY <1>1, <2>2, WorksSeen
  <2>8. UNCHANGED <<PublicQueue(orderQ), PublicQueue(resultQ), Cardinality(Settling), Replies,
                    Used, PublicPhase, refused, idleLong>>
    BY <1>1, <1>2, <2>1, Frame, PhaseKeeps DEF mainVars
  <2> HIDE DEF h
  <2>9. PublicKitchen' =
            [orders |-> PublicQueue(orderQ), results |-> PublicQueue(resultQ),
             line |-> Tail(queue), hands |-> h, releasing |-> Cardinality(Settling),
             refused |-> refused, replies |-> Replies, phase |-> PublicPhase, used |-> Used,
             tired |-> idleLong]
    BY <2>1, <2>5, <2>8, PublicPartsNext, Zenon
  <2>10. Contract!Cook(0)
    BY <2>1, <2>6, <2>7, <2>9, CookSeen DEF h
  <2> QED
    BY <2>10 DEF Sees, Contract!ContractNext, Contract!KitchenStep
<1>5. CASE Pool!CookAborts(c)
  <2>1. /\ UNCHANGED <<queue, holding, quiet>> /\ phase' = "aborted"
        /\ phase \in {"unlocked", "freed"}
    BY <1>1, <1>5, InPoolEffects DEF Pool!CookAborts
  <2>2. mainPc = "stop" /\ wantStop
    <3>1. mainPc \in {"start", "receive", "refuse", "read", "reply", "check", "stop", "farewell",
                      "leave", "exited"}
      BY DEF KInv, OwnTypes
    <3> QED
      BY <1>1, <2>1, <3>1 DEF MainThread
  <2>3. Ordered' /\ (Ordered' <=> Ordered)
    <3>1. ~quiet'
      BY <1>1, <2>1 DEF PoolView
    <3> QED
      BY <1>1, <1>2, <2>1, <3>1, Frame DEF Idleness
  <2>4. PublicPhase = "ordered" /\ PublicPhase' = "crashed"
    BY <1>1, <2>1, <2>2, <2>3, PhaseIs, PhaseNext DEF Stopping
  <2>5. UNCHANGED <<PublicQueue(orderQ), PublicQueue(resultQ), Hands, Cardinality(Settling),
                    Replies, Used, refused, idleLong>>
    BY <1>2, <2>1, Frame DEF mainVars
  <2>6. PublicKitchen' =
            [orders |-> PublicQueue(orderQ), results |-> PublicQueue(resultQ),
             line |-> queue, hands |-> Hands, releasing |-> Cardinality(Settling),
             refused |-> refused, replies |-> Replies, phase |-> "crashed", used |-> Used,
             tired |-> idleLong]
    BY <2>1, <2>4, <2>5, PublicPartsNext, Zenon
  <2> QED
    BY <2>4, <2>6, CrashSeen DEF Sees, Contract!ContractNext, Contract!KitchenStep
<1> QED
  BY <1>3, <1>4, <1>5 DEF InPool


\* A cook in cookPizza, after it has sent Done or before.
LEMMA CookSeesOnly ==
    ASSUME KInv, KInv', NEW c \in Cook,
           stage' = [stage EXCEPT ![c] = stage'[c]],
           stage'[c] \in {"sent", "settled"} <=> stage[c] \in {"sent", "settled"},
           UNCHANGED <<orderQ, resultQ, poolVars, commanded, mainVars, reported>>
    PROVE  Sees
<1>1. stage \in [Cook -> {"none", "stock", "bake", "sent", "settled"}]
  BY DEF KInv, OwnTypes
<1>2. Settling' = Settling
  BY <1>1 DEF Settling
<1>3. Cardinality(Settling)' = Cardinality(Settling)
  BY <1>2, Zenon
<1> QED
  BY <1>3, Frame, Hidden DEF poolVars

\* A cook calls for its ingredients, gets them, and is idle again: nothing is seen.
LEMMA CookingSeen ==
    ASSUME KInv, KInv', NEW c \in Cook, BeginPizza(c) \/ InStock(c) \/ BecomeIdle(c)
    PROVE  Sees
<1>1. stage \in [Cook -> {"none", "stock", "bake", "sent", "settled"}]
  BY DEF KInv, OwnTypes
<1>2. UNCHANGED <<orderQ, resultQ, poolVars, commanded, mainVars, reported>>
  BY DEF BeginPizza, InStock, BecomeIdle, receptionVars
<1>3. /\ stage' = [stage EXCEPT ![c] = stage'[c]]
      /\ stage'[c] \in {"sent", "settled"} <=> stage[c] \in {"sent", "settled"}
  <2>1. CASE BeginPizza(c)
    BY <1>1, <2>1 DEF BeginPizza
  <2>2. CASE InStock(c)
    BY <1>1, <2>2 DEF InStock
  <2>3. CASE BecomeIdle(c)
    BY <1>1, <2>3 DEF BecomeIdle
  <2> QED
    BY <2>1, <2>2, <2>3
<1> QED
  BY <1>2, <1>3, CookSeesOnly

\* A cook sends Done for the pizza in its hands.
LEMMA DoneStep ==
    ASSUME KInv, KInv', NEW c \in Cook, SendDone(c)
    PROVE  Sees
<1> DEFINE p == holding[c]
           h == Hands \ {p}
           n == Cardinality(Settling) + 1
           packet == Contract!Packet("Done", p)
<1>1. /\ PoolInv /\ PoolView /\ OwnTypes /\ Cooks /\ MainThread /\ MainThread'
      /\ stage \in [Cook -> {"none", "stock", "bake", "sent", "settled"}]
  BY PoolSeen DEF KInv, OwnTypes
<1>2. /\ stage[c] = "bake" /\ stage' = [stage EXCEPT ![c] = "sent"] /\ phase # "aborted"
      /\ reported' = reported \cup {p} /\ resultQ' = Append(resultQ, Done(p))
      /\ UNCHANGED <<poolVars, orderQ, mainVars, commanded>>
  BY DEF SendDone, Running, receptionVars
<1>3. cookPc[c] = "cooking" /\ c \in AtWork /\ p \in Pizza
  BY <1>1, <1>2 DEF Cooks, AtWork, PoolView
<1>4. p \in Hands
  BY <1>2, <1>3, HandsSeen
<1>5. Hands' = h
  BY <1>2 DEF Hands, poolVars
<1>6. Cardinality(Settling)' = n
  <2>1. Settling' = Settling \cup {c} /\ c \notin Settling
    BY <1>1, <1>2 DEF Settling
  <2>2. IsFiniteSet(Settling)
    BY CookFacts, FS_Subset DEF Settling
  <2>3. Cardinality(Settling \cup {c}) = n
    BY <2>1, <2>2, FS_AddElement
  <2> QED
    BY <2>1, <2>3, Zenon
<1>7. PublicQueue(resultQ)' = Append(PublicQueue(resultQ), packet)
  <2>1. Done(p) \in ResultPacket
    BY <1>3, Packets
  <2>2. PublicPacket(Done(p)) = packet
    BY DEF PublicPacket, Done, Contract!Packet
  <2> QED
    BY <1>1, <1>2, <2>1, <2>2, ResultSent
<1>8. PublicPhase \in {"open", "idle", "ordered"}
  <2>1. phase = "built" => cookPc[c] = "unborn"
    BY <1>1, Zenon DEF PoolInv, PoolProofs!PoolInvariant, PoolProofs!Lifecycle
  <2>2. phase \notin {"built", "joined", "aborted"}
    BY <1>1, <1>2, <1>3, <2>1 DEF PoolView
  <2> QED
    BY <2>2, WorksSeen
<1>9. UNCHANGED <<PublicQueue(orderQ), queue, Replies, Used, PublicPhase, refused, idleLong>>
  BY <1>1, <1>2, Frame, PhaseKeeps DEF mainVars, poolVars
<1> HIDE DEF p, h, n, packet
<1>10. PublicKitchen' =
           [orders |-> PublicQueue(orderQ), results |-> Append(PublicQueue(resultQ), packet),
            line |-> queue, hands |-> h, releasing |-> n, refused |-> refused,
            replies |-> Replies, phase |-> PublicPhase, used |-> Used, tired |-> idleLong]
  BY <1>5, <1>6, <1>7, <1>9, PublicPartsNext, Zenon
<1>11. Contract!ReportDone(0, p)
  BY <1>4, <1>8, <1>10, ReportSeen DEF h, n, packet
<1>12. p \in [k \in {0} |-> PublicKitchen][0].hands
  BY <1>4, PublicParts
<1> QED
  BY <1>11, <1>12 DEF Sees, Contract!ContractNext, Contract!KitchenStep

\* A cook releases the pizza it has reported.
LEMMA ReleaseStep ==
    ASSUME KInv, KInv', NEW c \in Cook, ReleaseLoad(c)
    PROVE  Sees
<1> DEFINE n == Cardinality(Settling) - 1
<1>1. /\ PoolInv /\ PoolView /\ OwnTypes /\ Cooks /\ Reports /\ MainThread /\ MainThread'
      /\ stage \in [Cook -> {"none", "stock", "bake", "sent", "settled"}]
      /\ holding \in [Cook -> Pizza \cup {NoPizza}]
  BY PoolSeen DEF KInv, OwnTypes, PoolView
<1>2. /\ stage[c] = "settled" /\ stage' = [stage EXCEPT ![c] = "none"] /\ phase # "aborted"
      /\ cookPc[c] = "cooking" /\ holding' = [holding EXCEPT ![c] = NoPizza]
      /\ UNCHANGED <<queue, accepted, phase, reported, resultQ, orderQ, mainVars, commanded>>
  BY DEF ReleaseLoad, Pool!CookFinishes, receptionVars
<1>3. holding[c] \in reported
  BY <1>1, <1>2 DEF Reports, PoolView
<1>4. Hands' = Hands
  BY <1>1, <1>2, <1>3 DEF Hands
<1>5. Cardinality(Settling)' = n /\ Cardinality(Settling) > 0
  <2>1. Settling' = Settling \ {c} /\ c \in Settling
    BY <1>1, <1>2 DEF Settling
  <2>2. IsFiniteSet(Settling)
    BY CookFacts, FS_Subset DEF Settling
  <2>3. Cardinality(Settling \ {c}) = n
    BY <2>1, <2>2, FS_RemoveElement
  <2>4. Cardinality(Settling) \in Nat /\ Cardinality(Settling) # 0
    BY <2>1, <2>2, FS_CardinalityType, FS_EmptySet
  <2>5. Cardinality(Settling) > 0
    BY <2>4
  <2> QED
    BY <2>1, <2>3, <2>5, Zenon
<1>6. PublicPhase \in {"open", "idle", "ordered"}
  <2>1. phase = "built" => cookPc[c] = "unborn"
    BY <1>1, Zenon DEF PoolInv, PoolProofs!PoolInvariant, PoolProofs!Lifecycle
  <2>2. phase \notin {"built", "joined", "aborted"}
    BY <1>1, <1>2, <2>1 DEF PoolView
  <2> QED
    BY <2>2, WorksSeen
<1>7. UNCHANGED <<PublicQueue(orderQ), PublicQueue(resultQ), Replies, Used, PublicPhase, refused,
                  idleLong>>
  BY <1>1, <1>2, Frame, PhaseKeeps DEF mainVars
<1> HIDE DEF n
<1>8. PublicKitchen' =
          [orders |-> PublicQueue(orderQ), results |-> PublicQueue(resultQ), line |-> queue,
           hands |-> Hands, releasing |-> n, refused |-> refused, replies |-> Replies,
           phase |-> PublicPhase, used |-> Used, tired |-> idleLong]
  BY <1>2, <1>4, <1>5, <1>7, PublicPartsNext, Zenon
<1>9. Contract!Release(0)
  BY <1>5, <1>6, <1>8, ReleaseSeen DEF n
<1> QED
  BY <1>9 DEF Sees, Contract!ContractNext, Contract!KitchenStep

\* Wakeups without a notification, replenishments, and a kitchen that has ended: nothing is seen.
LEMMA RestSeen ==
    ASSUME KInv, KInv',
           (\E c \in Cook : WakesSpuriously(c)) \/ Replenish \/ UNCHANGED kitchenVars
    PROVE  Sees
<1>1. UNCHANGED <<orderQ, resultQ, queue, accepted, commanded, phase, mainVars, stage, holding,
                  reported>>
  BY DEF WakesSpuriously, Replenish, kitchenVars, poolVars, cookVars, receptionVars,
         Pool!SpuriousWakeup
<1> QED
  BY <1>1, Frame, Hidden

\* Every step of a kitchen is a step of its contract, or is not seen.
LEMMA ContractStep == KInv /\ KInv' /\ [KitchenNext]_kitchenVars => Sees
<1> SUFFICES ASSUME KInv, KInv', [KitchenNext]_kitchenVars PROVE Sees
  OBVIOUS
<1>1. CASE MainStep
  BY <1>1, StartSeen, NothingSeen, AcceptStep, RefuseStep, RequestStep, CommandStep, FullStep,
     ReadSeen, CookReplyStep, LastReplyStep, CheckSeen, StopSeen, FarewellSends, ExitStep, Zenon
  DEF MainStep, ReceiveOrder
<1>2. CASE \E c \in Cook : CookStep(c)
  BY <1>2, InPoolSeen, CookingSeen, DoneStep, ReleaseStep, Zenon DEF CookStep
<1> QED
  BY <1>1, <1>2, TimeSeen, ReceptionSeen, RestSeen, Zenon DEF KitchenNext, KitchenTerminated

\* A kitchen implements the contract: the reception, whose theorems assume nothing else of a
\* kitchen, sees of each step of the process a step of the contract, or nothing.
THEOREM KitchenImplementsContract == KitchenSpec => ImplementsContract
<1>1. KitchenInit => Contract!ContractInit
  <2> SUFFICES ASSUME KitchenInit PROVE PublicKitchen = Contract!Unborn
    BY DEF Contract!ContractInit
  <2>1. MainThread /\ mainPc = "start" /\ phase = "built"
    BY KInitially DEF KInv, KitchenInit, Pool!Init
  <2>2. PublicPhase = "unborn"
    BY <2>1, PhaseIs
  <2>3. Hands = {} /\ Settling = {} /\ Replies = 0 /\ Used = FALSE
    BY <2>1 DEF KitchenInit, Pool!Init, Hands, Settling, Replies, Used
  <2>4. Cardinality(Settling) = 0
    BY <2>3, FS_EmptySet, Zenon
  <2>5. PublicQueue(<<>>) = <<>>
    BY DEF PublicQueue
  <2>6. queue = <<>> /\ orderQ = <<>> /\ resultQ = <<>> /\ refused = NoPizza /\ idleLong = FALSE
    BY DEF KitchenInit, Pool!Init
  <2> QED
    BY <2>2, <2>3, <2>4, <2>5, <2>6, PublicParts, Zenon DEF Contract!Unborn
<1>2. KInv /\ KInv' /\ [KitchenNext]_kitchenVars =>
          [Contract!ContractNext]_([k \in {0} |-> PublicKitchen])
  BY ContractStep DEF Sees
<1> QED
  BY KitchenSafety, <1>1, <1>2, PTL
  DEF KitchenSpec, ImplementsContract, Contract!ContractSafety

-----------------------------------------------------------------------------
(* The reception that a kitchen is proved with is the one that keeps           *)
(* ReceptionContract.                                                           *)

\* How the reception stands with this kitchen.
Standing ==
    IF commanded THEN "commanded" ELSE IF ~alive THEN "over"
    ELSE IF awaiting THEN "awaiting" ELSE "open"

Promises == INSTANCE ReceptionContract
    WITH KitchenId <- {0}, Capacity <- MaxCapacity,
         PizzaAsPacket <- [p \in Pizza |-> PizzaPacket(p)],
         orders <- [k \in {0} |-> orderQ], results <- [k \in {0} |-> resultQ],
         terms <- [k \in {0} |-> Standing], credit <- [k \in {0} |-> IF alive THEN credit ELSE 0]

\* The reception neither waits for a kitchen that is over nor commands one that it
\* waits for.
Flags ==
    /\ alive \in BOOLEAN /\ awaiting \in BOOLEAN /\ commanded \in BOOLEAN
    /\ commanded => alive /\ ~awaiting
    /\ awaiting => alive

\* asked counts the status requests, up to the bound; the credit of a kitchen that is
\* over stays as it was.
Uncontracted ==
    /\ asked' = IF awaiting' /\ ~awaiting THEN asked + 1 ELSE asked
    /\ asked' <= MaxStatus
    /\ alive' \/ credit' = credit

LEMMA FlagsStep ==
    ASSUME Flags, [KitchenNext]_kitchenVars
    PROVE  Flags'
<1>1. CASE UNCHANGED receptionVars
  BY <1>1 DEF Flags, receptionVars
<1>2. CASE ReceptionStep
  <2>1. CASE CollectResult
    <3>1. PICK type : /\ alive /\ ~commanded /\ commanded' = commanded
                      /\ awaiting' = (awaiting /\ type \notin EndsWait)
                      /\ alive' = (type # "Shutdown")
      BY <2>1 DEF CollectResult
    <3> QED
      BY <3>1 DEF Flags, EndsWait
  <2>2. CASE \E p \in Pizza : OfferPizza(p)
    BY <2>2 DEF OfferPizza, Flags
  <2>3. CASE AskStatus
    BY <2>3 DEF AskStatus, Flags
  <2>4. CASE CommandShutdown
    BY <2>4 DEF CommandShutdown, Flags
  <2> QED
    BY <1>2, <2>1, <2>2, <2>3, <2>4 DEF ReceptionStep
<1>3. CASE MainStep \/ TimePasses
  BY <1>1, <1>3 DEF MainStep, TimePasses, ReceiveOrder, StartPool, ReceiveNothing, AcceptPizza,
     RefusePizza, BeginStatus, ReceiveShutdown, SendFull, ReadCook, SendCookStatus,
     SendStatusReply, CheckIdle, StopPool, SendShutdown, DestroyStock
<1>4. CASE Replenish \/ \E c \in Cook : CookStep(c) \/ WakesSpuriously(c)
  BY <1>1, <1>4 DEF Replenish, WakesSpuriously, CookStep, InPool, BeginPizza, InStock, SendDone,
     BecomeIdle, ReleaseLoad
<1>5. CASE KitchenTerminated \/ UNCHANGED kitchenVars
  BY <1>1, <1>5 DEF KitchenTerminated, kitchenVars
<1> QED
  BY <1>2, <1>3, <1>4, <1>5 DEF KitchenNext

LEMMA FlagsHold == KitchenSpec => []Flags
<1>1. KitchenInit => Flags
  BY DEF KitchenInit, Flags
<1> QED
  BY <1>1, FlagsStep, PTL DEF KitchenSpec

\* The contract, for one kitchen.
LEMMA OfferIs ==
    ASSUME NEW p \in Pizza, Promises!Offer(0, p)
    PROVE  /\ Standing = "open" /\ Standing' = Standing /\ p \notin offered
           /\ (IF alive THEN credit ELSE 0) < MaxCapacity
           /\ (IF alive THEN credit ELSE 0)' = (IF alive THEN credit ELSE 0) + 1
           /\ orderQ' = Append(orderQ, PizzaPacket(p)) /\ resultQ' = resultQ
           /\ offered' = offered \cup {p}
  BY DEF Promises!Offer

LEMMA AskIs ==
    ASSUME Promises!Ask({0})
    PROVE  /\ Standing = "open" /\ Standing' = "awaiting"
           /\ (IF alive THEN credit ELSE 0)' = (IF alive THEN credit ELSE 0)
           /\ orderQ' = Append(orderQ, StatusRequest) /\ resultQ' = resultQ
           /\ offered' = offered
  BY DEF Promises!Ask

LEMMA CommandIs ==
    ASSUME Promises!Command(0)
    PROVE  /\ Standing = "open" /\ Standing' = "commanded"
           /\ (IF alive THEN credit ELSE 0)' = (IF alive THEN credit ELSE 0)
           /\ orderQ' = Append(orderQ, Shutdown) /\ resultQ' = resultQ
           /\ offered' = offered
  BY DEF Promises!Command

LEMMA CollectIs ==
    ASSUME Promises!Collect(0), NEW type, type = Head(resultQ).type
    PROVE  /\ Standing \in {"open", "awaiting"} /\ resultQ # <<>> /\ resultQ' = Tail(resultQ)
           /\ type \in Answers => (IF alive THEN credit ELSE 0) > 0
           /\ (IF alive THEN credit ELSE 0)' =
                  IF type \in Answers THEN (IF alive THEN credit ELSE 0) - 1
                  ELSE IF type = "Shutdown" THEN 0 ELSE (IF alive THEN credit ELSE 0)
           /\ Standing' = IF type = "Shutdown" THEN "over"
                          ELSE IF type = "StatusReply" THEN "open" ELSE Standing
           /\ orderQ' = orderQ /\ offered' = offered
  BY DEF Promises!Collect, Promises!Answers, Answers

\* Whatever the reception does to a kitchen under ReceptionContract is what Kitchen
\* takes it to do: with ReceptionKeepsContract, nothing the reception of module Reception
\* does to a kitchen falls outside the behaviours for which kitchens keep theirs.
THEOREM ContractedStepsAreModelled ==
    ASSUME KInv, Flags, Flags', Uncontracted,
           UNCHANGED <<poolVars, stockVars, cookVars, mainVars>>,
           \/ \E p \in Pizza : Promises!Offer(0, p)
           \/ Promises!Ask({0}) \/ Promises!Command(0) \/ Promises!Collect(0)
    PROVE  ReceptionStep
<1>1. /\ Standing = "open" <=> alive /\ ~commanded /\ ~awaiting
      /\ Standing = "awaiting" <=> alive /\ ~commanded /\ awaiting
      /\ Standing = "commanded" <=> alive /\ commanded /\ ~awaiting
      /\ Standing = "over" <=> ~alive /\ ~commanded /\ ~awaiting
  BY DEF Standing, Flags
<1>2. /\ Standing' = "open" <=> alive' /\ ~commanded' /\ ~awaiting'
      /\ Standing' = "awaiting" <=> alive' /\ ~commanded' /\ awaiting'
      /\ Standing' = "commanded" <=> alive' /\ commanded' /\ ~awaiting'
      /\ Standing' = "over" <=> ~alive' /\ ~commanded' /\ ~awaiting'
  BY DEF Standing, Flags
<1>3. credit \in Nat /\ asked \in Nat /\ MaxStatus \in Nat
  BY KitchenAssumption, CookFacts DEF KInv, OwnTypes, MaxCapacity
<1>4. ASSUME NEW p \in Pizza, Promises!Offer(0, p)
      PROVE  OfferPizza(p)
  BY <1>1, <1>2, <1>4, OfferIs DEF OfferPizza, Uncontracted, Flags
<1>5. CASE Promises!Ask({0})
  <2>1. /\ alive /\ ~commanded /\ ~awaiting
        /\ alive' = alive /\ commanded' = commanded /\ awaiting' = TRUE
        /\ orderQ' = Append(orderQ, StatusRequest) /\ resultQ' = resultQ /\ offered' = offered
    BY <1>1, <1>2, <1>5, AskIs DEF Flags
  <2>2. credit' = credit
    BY <1>5, <2>1, AskIs
  <2>3. asked < MaxStatus /\ asked' = asked + 1
    BY <1>3, <2>1 DEF Uncontracted
  <2> QED
    BY <2>1, <2>2, <2>3 DEF AskStatus, ReceptionStep
<1>6. CASE Promises!Command(0)
  <2>1. /\ alive /\ ~commanded /\ ~awaiting
        /\ alive' = alive /\ commanded' = TRUE /\ awaiting' = awaiting
        /\ orderQ' = Append(orderQ, Shutdown) /\ resultQ' = resultQ /\ offered' = offered
    BY <1>1, <1>2, <1>6, CommandIs DEF Flags
  <2>2. credit' = credit
    BY <1>6, <2>1, CommandIs
  <2>3. asked' = asked
    BY <2>1 DEF Uncontracted
  <2> QED
    BY <2>1, <2>2, <2>3 DEF CommandShutdown, ReceptionStep
<1>7. CASE Promises!Collect(0)
  <2> DEFINE type == Head(resultQ).type
  <2>1. /\ Standing \in {"open", "awaiting"} /\ resultQ # <<>> /\ resultQ' = Tail(resultQ)
        /\ type \in Answers => (IF alive THEN credit ELSE 0) > 0
        /\ (IF alive THEN credit ELSE 0)' =
               IF type \in Answers THEN (IF alive THEN credit ELSE 0) - 1
               ELSE IF type = "Shutdown" THEN 0 ELSE (IF alive THEN credit ELSE 0)
        /\ Standing' = IF type = "Shutdown" THEN "over"
                       ELSE IF type = "StatusReply" THEN "open" ELSE Standing
        /\ orderQ' = orderQ /\ offered' = offered
    BY <1>7, CollectIs
  <2> HIDE DEF type
  <2>2. alive /\ ~commanded /\ commanded' = commanded /\ alive' = (type # "Shutdown")
    BY <1>1, <1>2, <2>1 DEF Flags
  <2>3. awaiting' = (awaiting /\ type \notin EndsWait)
    BY <1>1, <1>2, <2>1 DEF Flags, EndsWait
  <2>4. credit' = IF type \in Answers /\ credit > 0 THEN credit - 1 ELSE credit
    BY <1>3, <2>1, <2>2 DEF Uncontracted, Answers
  <2>5. asked' = asked
    BY <2>3 DEF Uncontracted
  <2>6. /\ alive /\ ~commanded /\ resultQ # <<>> /\ resultQ' = Tail(resultQ)
        /\ credit' = IF type \in Answers /\ credit > 0 THEN credit - 1 ELSE credit
        /\ awaiting' = (awaiting /\ type \notin EndsWait)
        /\ alive' = (type # "Shutdown")
        /\ UNCHANGED <<poolVars, stockVars, cookVars, mainVars, orderQ, offered,
                       asked, commanded>>
    BY <2>1, <2>2, <2>3, <2>4, <2>5
  <2> QED
    BY <2>6, Zenon DEF CollectResult, ReceptionStep, type
<1> QED
  BY <1>4, <1>5, <1>6, <1>7 DEF ReceptionStep
=============================================================================

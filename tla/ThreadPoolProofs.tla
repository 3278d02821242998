-------------------------- MODULE ThreadPoolProofs --------------------------
(***************************************************************************)
(* For any number of cooks and any set of pizzas: the load counter is      *)
(* exact and bounded, no wakeup is lost, a joined pool has cooked all it   *)
(* accepted, and a pool stopped at rest never meets its destroyed mutex.   *)
(***************************************************************************)
EXTENDS ThreadPool, FiniteSetTheorems, SequenceTheorems, TLAPS

(***************************************************************************)
(* The inductive invariant: what the phases say about the cooks, the queue *)
(* and the mutex.                                                          *)
(***************************************************************************)
Lifecycle ==
    /\ phase = "built" => \A c \in Cook : cookPc[c] = "unborn"
    /\ phase # "built" => \A c \in Cook : cookPc[c] # "unborn"
    /\ running <=> phase = "serving"
    /\ \A c \in Cook : cookPc[c] = "waiting" => phase \in {"serving", "stopping"}
    /\ \A c \in Cook : cookPc[c] = "gone" => queue = <<>> /\ ~running
    /\ phase = "built" => queue = <<>>
    /\ \A c \in Cook : holding[c] # NoPizza <=> cookPc[c] = "cooking"
    /\ phase \in {"built", "serving", "stopping", "stopped"} => mutexValid
    /\ phase = "joined" => \A c \in Cook : cookPc[c] = "gone"

QuietInv ==
    quiet =>
        /\ phase \notin {"built", "serving", "aborted"}
        /\ queue = <<>> /\ load = 0
        /\ \A c \in Cook : cookPc[c] \in {"waiting", "woken", "gone"}
        /\ ~mutexValid => \A c \in Cook : cookPc[c] = "gone"

PoolInvariant ==
    /\ TypeOK
    /\ Lifecycle
    /\ LoadIsExact
    /\ CapacityRespected
    /\ NoWakeupLost
    /\ QuietInv

-----------------------------------------------------------------------------
(***************************************************************************)
(* How many cooks are in a state, when one of them moves.                  *)
(***************************************************************************)
\* Any set of cooks is finite, and its cardinality a number.
LEMMA CookSets ==
    ASSUME NEW S, S \subseteq Cook
    PROVE  IsFiniteSet(S) /\ Cardinality(S) \in Nat
BY CookAssumption, FS_Subset, FS_CardinalityType

\* A set that gains one cook counts one more.
LEMMA OneMore ==
    ASSUME NEW S, NEW T, S \subseteq Cook, NEW c, c \notin S, T = S \cup {c}
    PROVE  Cardinality(T) = Cardinality(S) + 1
BY CookSets, FS_AddElement

\* A set that loses one cook counts one less, and counted at least one.
LEMMA OneLess ==
    ASSUME NEW S, NEW T, S \subseteq Cook, NEW c \in S, T = S \ {c}
    PROVE  /\ Cardinality(T) = Cardinality(S) - 1
           /\ Cardinality(S) >= 1
<1>1. Cardinality(T) = Cardinality(S) - 1
  BY CookSets, FS_RemoveElement
<1>2. T \subseteq Cook
  OBVIOUS
<1>3. Cardinality(T) \in Nat /\ Cardinality(S) \in Nat
  BY <1>2, CookSets
<1> QED
  BY <1>1, <1>3

-----------------------------------------------------------------------------
\* The invariant holds of a pool that has just been built.
LEMMA PoolInit == Init => PoolInvariant
<1> SUFFICES ASSUME Init PROVE PoolInvariant
  OBVIOUS
<1> USE DEF Init
<1>1. TypeOK
  BY EmptySeq DEF TypeOK, Phase, CookState
<1>2. Lifecycle /\ QuietInv
  BY CookAssumption DEF Lifecycle, QuietInv
<1>3. Cooks("cooking") = {} /\ Cooks("waiting") = {}
  BY DEF Cooks
<1>4. LoadIsExact
  BY <1>3, FS_EmptySet, EmptySeq DEF LoadIsExact
<1>5. CapacityRespected
  BY CookSets DEF CapacityRespected, MaxCapacity
<1>6. NoWakeupLost
  BY <1>3 DEF NoWakeupLost
<1> QED
  BY <1>1, <1>2, <1>4, <1>5, <1>6 DEF PoolInvariant

\* A step keeps the types: _load never leaves the natural numbers, because a
\* cook that decrements it is itself counted.
LEMMA TypeStep == PoolInvariant /\ [Next]_vars => TypeOK'
<1> SUFFICES ASSUME PoolInvariant, [Next]_vars PROVE TypeOK'
  OBVIOUS
<1> USE DEF PoolInvariant, TypeOK, Phase, CookState
<1>1. CASE Start
  BY <1>1 DEF Start
<1>2. ASSUME NEW p \in Pizza, AddPizza(p) PROVE TypeOK'
  <2>1. queue' \in Seq(Pizza)
    BY <1>2, AppendProperties DEF AddPizza
  <2>2. cookPc' \in [Cook -> CookState]
    BY <1>2 DEF AddPizza, NotifyOne, Cooks
  <2> QED
    BY <1>2, <2>1, <2>2 DEF AddPizza
<1>3. CASE Stop
  BY <1>3 DEF Stop, AtRest
<1>4. CASE Destruction
  BY <1>4 DEF Destruction, NotifyAll, DestroyMutex, FreeQueue, Join
<1>5. ASSUME NEW c \in Cook, CookTakes(c) PROVE TypeOK'
  <2>1. Head(queue) \in Pizza /\ queue' \in Seq(Pizza)
    BY <1>5, HeadTailProperties DEF CookTakes
  <2> QED
    BY <1>5, <2>1 DEF CookTakes
<1>6. ASSUME NEW c \in Cook, CookFinishes(c) PROVE TypeOK'
  <2>1. c \in Cooks("cooking") /\ Cooks("cooking") \subseteq Cook
    BY <1>6 DEF CookFinishes, Cooks
  <2>2. Cardinality(Cooks("cooking")) \in Nat /\ Cardinality(Cooks("cooking")) >= 1
    BY <2>1, OneLess, CookSets
  <2>3. Len(queue) \in Nat
    BY LenProperties
  <2>4. load - 1 \in Nat
    BY <2>2, <2>3 DEF LoadIsExact
  <2>5. cooked' \subseteq Pizza
    BY <1>6, PizzaAssumption DEF CookFinishes, Lifecycle
  <2> QED
    BY <1>6, <2>4, <2>5 DEF CookFinishes
<1>7. ASSUME NEW c \in Cook, CookWaits(c) \/ CookLeaves(c) \/ CookAborts(c)
                             \/ SpuriousWakeup(c)
      PROVE TypeOK'
  BY <1>7 DEF CookWaits, CookLeaves, CookAborts, SpuriousWakeup
<1>8. CASE UNCHANGED vars
  BY <1>8 DEF vars
<1> QED
  BY <1>1, <1>2, <1>3, <1>4, <1>5, <1>6, <1>7, <1>8
  DEF Next, CookStep, Terminated

\* A step keeps what the phases say.
LEMMA LifecycleStep == PoolInvariant /\ [Next]_vars => Lifecycle'
<1> SUFFICES ASSUME PoolInvariant, [Next]_vars PROVE Lifecycle'
  OBVIOUS
<1> USE DEF PoolInvariant, TypeOK, Lifecycle, Phase, CookState
<1>1. CASE Start
  BY <1>1, CookAssumption DEF Start
<1>2. ASSUME NEW p \in Pizza, AddPizza(p) PROVE Lifecycle'
  <2>1. /\ cookPc' \in [Cook -> CookState]
        /\ \A c \in Cook : \/ cookPc'[c] = cookPc[c]
                           \/ cookPc[c] = "waiting" /\ cookPc'[c] = "woken"
    BY <1>2 DEF AddPizza, NotifyOne, Cooks
  <2> QED
    BY <1>2, <2>1 DEF AddPizza
<1>3. CASE Stop
  BY <1>3 DEF Stop
<1>4. CASE Destruction
  BY <1>4 DEF Destruction, NotifyAll, DestroyMutex, FreeQueue, Join, Cooks
<1>5. ASSUME NEW c \in Cook, CookTakes(c) PROVE Lifecycle'
  <2>1. Head(queue) # NoPizza
    BY <1>5, HeadTailProperties, PizzaAssumption DEF CookTakes
  <2>2. \A d \in Cook : cookPc[d] # "gone"
    BY <1>5 DEF CookTakes
  <2>3. cookPc[c] \in {"loop", "woken"}
    BY <1>5 DEF CookTakes, Enters, AtMutex, Cooks
  <2>4. /\ cookPc' = [cookPc EXCEPT ![c] = "cooking"]
        /\ holding' = [holding EXCEPT ![c] = Head(queue)]
        /\ UNCHANGED <<running, phase, mutexValid>>
    BY <1>5 DEF CookTakes
  <2>5. phase # "built" /\ phase # "joined"
    BY <2>2, <2>3, CookAssumption
  <2> QED
    BY <2>1, <2>2, <2>4, <2>5
<1>6. ASSUME NEW c \in Cook, CookWaits(c) PROVE Lifecycle'
  BY <1>6 DEF CookWaits, Enters, AtMutex, Cooks
<1>7. ASSUME NEW c \in Cook, CookLeaves(c) PROVE Lifecycle'
  BY <1>7 DEF CookLeaves, Enters, AtMutex, Cooks
<1>8. ASSUME NEW c \in Cook, CookFinishes(c) PROVE Lifecycle'
  BY <1>8 DEF CookFinishes
<1>9. ASSUME NEW c \in Cook, CookAborts(c) PROVE Lifecycle'
  BY <1>9 DEF CookAborts, AtMutex, Cooks
<1>10. ASSUME NEW c \in Cook, SpuriousWakeup(c) PROVE Lifecycle'
  BY <1>10 DEF SpuriousWakeup
<1>11. CASE UNCHANGED vars
  BY <1>11 DEF vars
<1> QED
  BY <1>1, <1>2, <1>3, <1>4, <1>5, <1>6, <1>7, <1>8, <1>9, <1>10, <1>11
  DEF Next, CookStep, Terminated

\* A step keeps the load equal to the pizzas queued and in hand.
LEMMA LoadStep == PoolInvariant /\ [Next]_vars => LoadIsExact'
<1> SUFFICES ASSUME PoolInvariant, [Next]_vars PROVE LoadIsExact'
  OBVIOUS
<1> USE DEF PoolInvariant, TypeOK, LoadIsExact
<1> DEFINE K == Cooks("cooking")
<1>0. K \subseteq Cook /\ Cardinality(K) \in Nat /\ Len(queue) \in Nat
  BY CookSets, LenProperties DEF Cooks
<1>1. CASE Start
  <2>1. K' = K
    BY <1>1 DEF Start, Cooks, Lifecycle
  <2> QED
    BY <1>1, <2>1 DEF Start
<1>2. ASSUME NEW p \in Pizza, AddPizza(p) PROVE LoadIsExact'
  <2>1. K' = K
    BY <1>2 DEF AddPizza, NotifyOne, Cooks
  <2>2. Len(queue') = Len(queue) + 1
    BY <1>2, AppendProperties DEF AddPizza
  <2> QED
    BY <1>0, <1>2, <2>1, <2>2 DEF AddPizza
<1>3. CASE Stop
  <2>1. K' = K
    BY <1>3 DEF Stop, Cooks
  <2> QED
    BY <1>3, <2>1 DEF Stop
<1>4. CASE Destruction \/ UNCHANGED vars
  BY <1>4 DEF Destruction, NotifyAll, DestroyMutex, FreeQueue, Join, Cooks, vars
<1>5. ASSUME NEW c \in Cook, CookTakes(c) PROVE LoadIsExact'
  <2>1. c \notin K /\ K' = K \cup {c}
    BY <1>5 DEF CookTakes, Enters, AtMutex, Cooks
  <2>2. Cardinality(K') = Cardinality(K) + 1
    BY <1>0, <2>1, OneMore
  <2>3. Len(queue') = Len(queue) - 1
    BY <1>5, HeadTailProperties DEF CookTakes
  <2> QED
    BY <1>0, <1>5, <2>2, <2>3 DEF CookTakes
<1>6. ASSUME NEW c \in Cook, CookFinishes(c) PROVE LoadIsExact'
  <2>1. c \in K /\ K' = K \ {c}
    BY <1>6 DEF CookFinishes, Cooks
  <2>2. Cardinality(K') = Cardinality(K) - 1
    BY <1>0, <2>1, OneLess
  <2> QED
    BY <1>0, <1>6, <2>2 DEF CookFinishes
<1>7. ASSUME NEW c \in Cook, CookWaits(c) \/ CookLeaves(c) \/ CookAborts(c)
                             \/ SpuriousWakeup(c)
      PROVE LoadIsExact'
  <2>1. K' = K
    BY <1>7 DEF CookWaits, CookLeaves, CookAborts, SpuriousWakeup, Enters,
                AtMutex, Cooks
  <2> QED
    BY <1>7, <2>1 DEF CookWaits, CookLeaves, CookAborts, SpuriousWakeup
<1> QED
  BY <1>1, <1>2, <1>3, <1>4, <1>5, <1>6, <1>7 DEF Next, CookStep, Terminated

\* Only addPizza raises the load, and only below the capacity.
LEMMA CapacityStep == PoolInvariant /\ [Next]_vars => CapacityRespected'
<1> SUFFICES ASSUME PoolInvariant, [Next]_vars PROVE CapacityRespected'
  OBVIOUS
<1> USE DEF PoolInvariant, TypeOK, CapacityRespected
<1>1. MaxCapacity \in Nat
  BY CookSets DEF MaxCapacity
<1>2. ASSUME NEW p \in Pizza, AddPizza(p) PROVE CapacityRespected'
  BY <1>1, <1>2 DEF AddPizza, IsFull, MaxCapacity
<1>3. ASSUME NEW c \in Cook, CookFinishes(c) PROVE CapacityRespected'
  BY <1>1, <1>3 DEF CookFinishes, MaxCapacity
<1>4. CASE load' = load
  BY <1>4 DEF MaxCapacity
<1> QED
  BY <1>2, <1>3, <1>4
  DEF Next, CookStep, Terminated, Start, Stop, Destruction, NotifyAll, DestroyMutex,
      FreeQueue, Join, CookWaits, CookTakes, CookLeaves, CookAborts,
      SpuriousWakeup, vars

\* Each push wakes a cook of its own or finds none asleep; each cook that
\* goes to sleep has seen the queue empty.
LEMMA WakeupStep == PoolInvariant /\ [Next]_vars => NoWakeupLost'
<1> SUFFICES ASSUME PoolInvariant, [Next]_vars PROVE NoWakeupLost'
  OBVIOUS
<1> USE DEF PoolInvariant, TypeOK, NoWakeupLost
<1> DEFINE A == AtMutex
<1>0. A \subseteq Cook /\ Cardinality(A) \in Nat /\ Len(queue) \in Nat
  BY CookSets, LenProperties DEF AtMutex, Cooks
<1>1. CASE Start
  BY <1>1 DEF Start, Cooks
<1>2. ASSUME NEW p \in Pizza, AddPizza(p) PROVE NoWakeupLost'
  <2>1. Len(queue') = Len(queue) + 1
    BY <1>2, AppendProperties DEF AddPizza
  <2>2. CASE Cooks("waiting") = {}
    BY <1>2, <2>2 DEF AddPizza, NotifyOne, Cooks
  <2>3. ASSUME NEW c \in Cooks("waiting"),
               cookPc' = [cookPc EXCEPT ![c] = "woken"]
        PROVE NoWakeupLost'
    <3>1. c \in Cook /\ c \notin A /\ A' = A \cup {c}
      BY <2>3 DEF AtMutex, Cooks
    <3>2. Cardinality(A') = Cardinality(A) + 1
      BY <1>0, <3>1, OneMore
    <3> QED
      BY <1>0, <2>1, <2>3, <3>2
  <2> QED
    BY <1>2, <2>2, <2>3 DEF AddPizza, NotifyOne
<1>3. CASE Stop
  BY <1>3 DEF Stop, Cooks, AtMutex
<1>4. CASE Destruction \/ UNCHANGED vars
  <2>1. CASE NotifyAll
    BY <2>1 DEF NotifyAll, Cooks
  <2>2. CASE ~NotifyAll
    BY <1>4, <2>2 DEF Destruction, DestroyMutex, FreeQueue, Join, Cooks,
                      AtMutex, vars
  <2> QED
    BY <2>1, <2>2
<1>5. ASSUME NEW c \in Cook, CookWaits(c) \/ CookLeaves(c) PROVE NoWakeupLost'
  <2>1. A' \subseteq Cook
    BY DEF AtMutex, Cooks
  <2>2. queue' = <<>>
    BY <1>5 DEF CookWaits, CookLeaves
  <2> QED
    BY <2>1, <2>2, CookSets, EmptySeq
<1>6. ASSUME NEW c \in Cook, CookTakes(c) PROVE NoWakeupLost'
  <2>1. c \in A /\ A' = A \ {c} /\ Cooks("waiting")' = Cooks("waiting")
    BY <1>6 DEF CookTakes, Enters, AtMutex, Cooks
  <2>2. Cardinality(A') = Cardinality(A) - 1
    BY <1>0, <2>1, OneLess
  <2>3. Len(queue') = Len(queue) - 1
    BY <1>6, HeadTailProperties DEF CookTakes
  <2> QED
    BY <1>0, <2>1, <2>2, <2>3
<1>7. ASSUME NEW c \in Cook, CookFinishes(c) \/ SpuriousWakeup(c)
      PROVE NoWakeupLost'
  <2>1. c \notin A /\ A' = A \cup {c} /\ Cooks("waiting")' \subseteq Cooks("waiting")
    BY <1>7 DEF CookFinishes, SpuriousWakeup, AtMutex, Cooks
  <2>2. Cardinality(A') = Cardinality(A) + 1
    BY <1>0, <2>1, OneMore
  <2>3. queue' = queue
    BY <1>7 DEF CookFinishes, SpuriousWakeup
  <2> QED
    BY <1>0, <2>1, <2>2, <2>3
<1>8. ASSUME NEW c \in Cook, CookAborts(c) PROVE NoWakeupLost'
  BY <1>8 DEF CookAborts, Cooks, AtMutex
<1> QED
  BY <1>1, <1>2, <1>3, <1>4, <1>5, <1>6, <1>7, <1>8
  DEF Next, CookStep, Terminated

\* In a pool stopped at rest every cook is on its way out, and the mutex
\* cannot be destroyed before the last one is through with it.
LEMMA QuietStep == PoolInvariant /\ [Next]_vars => QuietInv'
<1> SUFFICES ASSUME PoolInvariant, [Next]_vars, quiet' PROVE QuietInv'
  BY DEF QuietInv
<1> USE DEF PoolInvariant, TypeOK, Phase, CookState
<1>1. CASE Stop
  <2>1. load = 0 /\ \A c \in Cook : cookPc[c] \in {"waiting", "woken"}
    BY <1>1 DEF Stop, AtRest
  <2>2. Len(queue) \in Nat /\ Cardinality(Cooks("cooking")) \in Nat
    BY CookSets, LenProperties DEF Cooks
  <2>3. queue = <<>>
    BY <2>1, <2>2, EmptySeq DEF LoadIsExact
  <2>4. mutexValid
    BY <1>1 DEF Stop, Lifecycle
  <2> QED
    BY <1>1, <2>1, <2>3, <2>4 DEF Stop, QuietInv
<1>2. CASE ~Stop /\ quiet
  BY <1>2
  DEF QuietInv, Next, CookStep, Terminated, Start, AddPizza, Destruction,
      NotifyAll, DestroyMutex, FreeQueue, Join, CookWaits, CookTakes, CookLeaves,
      CookFinishes, CookAborts, SpuriousWakeup, Enters, AtMutex, Cooks,
      Lifecycle, vars
<1>3. CASE ~Stop /\ ~quiet
  BY <1>3
  DEF Next, CookStep, Terminated, Start, AddPizza, Destruction,
      NotifyAll, DestroyMutex, FreeQueue, Join, CookWaits, CookTakes, CookLeaves,
      CookFinishes, CookAborts, SpuriousWakeup, vars
<1> QED
  BY <1>1, <1>2, <1>3

\* A step keeps the pizzas apart: each moves from the queue to one cook and
\* from that cook to the cooked ones.
LEMMA PlaceStep ==
    PoolInvariant /\ EachPizzaInOnePlace /\ [Next]_vars => EachPizzaInOnePlace'
<1> SUFFICES ASSUME PoolInvariant, EachPizzaInOnePlace, [Next]_vars
             PROVE  EachPizzaInOnePlace'
  OBVIOUS
<1> USE DEF PoolInvariant, TypeOK
<1>0. /\ DOMAIN queue = 1 .. Len(queue) /\ Len(queue) \in Nat
      /\ \A i \in DOMAIN queue : queue[i] \in Pizza /\ queue[i] # NoPizza
  BY LenProperties, ElementOfSeq, PizzaAssumption
<1>1. ASSUME NEW p \in Pizza, AddPizza(p) PROVE EachPizzaInOnePlace'
  <2>1. /\ queue' \in Seq(Pizza) /\ Len(queue') = Len(queue) + 1
        /\ \A i \in 1 .. Len(queue) : queue'[i] = queue[i]
        /\ queue'[Len(queue) + 1] = p
    BY <1>1, AppendProperties DEF AddPizza
  <2>2. DOMAIN queue' = 1 .. (Len(queue) + 1)
    BY <2>1, LenProperties
  <2>3. /\ \A i \in DOMAIN queue : queue[i] # p
        /\ \A c \in Cook : holding[c] # p
        /\ p \notin cooked /\ p # NoPizza
    BY <1>1, PizzaAssumption DEF AddPizza, EachPizzaInOnePlace
  <2>4. {queue'[i] : i \in DOMAIN queue'} =
          {queue[i] : i \in DOMAIN queue} \cup {p}
    BY <1>0, <2>1, <2>2
  <2>5. accepted' = accepted \cup {p} /\ cooked' = cooked /\ holding' = holding
    BY <1>1 DEF AddPizza
  <2>6. /\ \A i, j \in DOMAIN queue' : queue'[i] = queue'[j] => i = j
        /\ \A i \in DOMAIN queue' :
              queue'[i] \notin cooked /\ \A c \in Cook : holding[c] # queue'[i]
    BY <1>0, <2>1, <2>2, <2>3 DEF EachPizzaInOnePlace
  <2>7. accepted' = cooked' \cup {queue'[i] : i \in DOMAIN queue'}
                       \cup ({holding'[c] : c \in Cook} \ {NoPizza})
    <3> DEFINE Q == {queue[i] : i \in DOMAIN queue}
               H == {holding[c] : c \in Cook} \ {NoPizza}
    <3>1. accepted = cooked \cup Q \cup H
      BY DEF EachPizzaInOnePlace
    <3>2. {holding'[c] : c \in Cook} \ {NoPizza} = H
      BY <2>5
    <3> HIDE DEF Q, H
    <3>3. {queue'[i] : i \in DOMAIN queue'} = Q \cup {p}
      BY <2>4 DEF Q
    <3> QED
      BY <2>5, <3>1, <3>2, <3>3
  <2> QED
    BY <2>5, <2>6, <2>7 DEF EachPizzaInOnePlace
<1>2. ASSUME NEW c \in Cook, CookTakes(c) PROVE EachPizzaInOnePlace'
  <2>1. /\ queue' \in Seq(Pizza) /\ Len(queue') = Len(queue) - 1
        /\ \A i \in 1 .. Len(queue') : queue'[i] = queue[i + 1]
    BY <1>2, HeadTailProperties DEF CookTakes
  <2>2. /\ DOMAIN queue' = 1 .. (Len(queue) - 1)
        /\ Len(queue) >= 1 /\ Head(queue) = queue[1]
    BY <1>0, <1>2, <2>1, LenProperties, EmptySeq DEF CookTakes
  <2>3. {queue[i] : i \in DOMAIN queue} =
          {queue'[i] : i \in DOMAIN queue'} \cup {queue[1]}
    <3>1. ASSUME NEW i \in DOMAIN queue, i # 1
          PROVE  \E j \in DOMAIN queue' : queue'[j] = queue[i]
      <4>1. i - 1 \in DOMAIN queue' /\ queue'[i - 1] = queue[i]
        BY <1>0, <2>1, <2>2, <3>1
      <4> QED
        BY <4>1
    <3>2. \A j \in DOMAIN queue' : j + 1 \in DOMAIN queue /\ queue'[j] = queue[j + 1]
      BY <1>0, <2>1, <2>2
    <3>3. 1 \in DOMAIN queue
      BY <1>0, <2>2
    <3> QED
      BY <3>1, <3>2, <3>3
  <2>4. /\ holding' = [holding EXCEPT ![c] = queue[1]]
        /\ holding[c] = NoPizza
        /\ cooked' = cooked /\ accepted' = accepted
    BY <1>2, <2>2 DEF CookTakes, Enters, AtMutex, Cooks, Lifecycle
  <2>5. {holding'[d] : d \in Cook} \ {NoPizza} =
          ({holding[d] : d \in Cook} \ {NoPizza}) \cup {queue[1]}
    BY <1>0, <2>2, <2>4
  <2>6. accepted' = cooked' \cup {queue'[i] : i \in DOMAIN queue'}
                       \cup ({holding'[d] : d \in Cook} \ {NoPizza})
    BY <2>3, <2>4, <2>5 DEF EachPizzaInOnePlace
  <2>7. /\ \A i, j \in DOMAIN queue' : queue'[i] = queue'[j] => i = j
        /\ \A i \in DOMAIN queue' : /\ queue'[i] \notin cooked'
                                    /\ queue'[i] # queue[1]
                                    /\ \A d \in Cook : holding[d] # queue'[i]
    <3>1. \A i \in DOMAIN queue' : /\ i + 1 \in DOMAIN queue /\ i + 1 # 1
                                   /\ queue'[i] = queue[i + 1]
      BY <1>0, <2>1, <2>2
    <3>2. /\ \A i, j \in DOMAIN queue : queue[i] = queue[j] => i = j
          /\ 1 \in DOMAIN queue
      BY <1>0, <2>2 DEF EachPizzaInOnePlace
    <3>3. \A i, j \in DOMAIN queue' : queue'[i] = queue'[j] => i = j
      <4>1. \A i, j \in DOMAIN queue' : i + 1 = j + 1 => i = j
        BY <2>2
      <4> QED
        BY <3>1, <3>2, <4>1
    <3>4. \A i \in DOMAIN queue' : queue'[i] # queue[1]
      BY <3>1, <3>2
    <3>5. \A i \in DOMAIN queue' : /\ queue'[i] \notin cooked'
                                   /\ \A d \in Cook : holding[d] # queue'[i]
      BY <2>4, <3>1 DEF EachPizzaInOnePlace
    <3> QED
      BY <3>3, <3>4, <3>5
  <2>8. queue[1] \notin cooked /\ \A d \in Cook : holding[d] # queue[1]
    BY <1>0, <2>2 DEF EachPizzaInOnePlace
  <2>9. /\ \A d, e \in Cook :
              holding'[d] = holding'[e] /\ holding'[d] # NoPizza => d = e
        /\ \A i \in DOMAIN queue' :
              queue'[i] \notin cooked' /\ \A d \in Cook : holding'[d] # queue'[i]
        /\ \A d \in Cook : holding'[d] \notin cooked'
    BY <2>4, <2>7, <2>8 DEF EachPizzaInOnePlace
  <2> QED
    BY <2>6, <2>7, <2>9 DEF EachPizzaInOnePlace
<1>3. ASSUME NEW c \in Cook, CookFinishes(c) PROVE EachPizzaInOnePlace'
  <2>1. holding[c] # NoPizza /\ NoPizza \notin cooked
    BY <1>3, PizzaAssumption DEF CookFinishes, Lifecycle
  <2>2. /\ holding' = [holding EXCEPT ![c] = NoPizza]
        /\ cooked' = cooked \cup {holding[c]}
        /\ queue' = queue /\ accepted' = accepted
    BY <1>3 DEF CookFinishes
  <2>3. {holding[d] : d \in Cook} \ {NoPizza} =
          ({holding'[d] : d \in Cook} \ {NoPizza}) \cup {holding[c]}
    BY <2>1, <2>2
  <2>4. /\ \A d, e \in Cook :
              holding'[d] = holding'[e] /\ holding'[d] # NoPizza => d = e
        /\ \A i \in DOMAIN queue' :
              queue'[i] \notin cooked' /\ \A d \in Cook : holding'[d] # queue'[i]
    BY <1>0, <2>1, <2>2 DEF EachPizzaInOnePlace
  <2>5. \A d \in Cook : holding'[d] \notin cooked'
    BY <2>1, <2>2 DEF EachPizzaInOnePlace
  <2>6. \A i, j \in DOMAIN queue' : queue'[i] = queue'[j] => i = j
    BY <2>2 DEF EachPizzaInOnePlace
  <2>7. accepted' = cooked' \cup {queue'[i] : i \in DOMAIN queue'}
                       \cup ({holding'[d] : d \in Cook} \ {NoPizza})
    <3> DEFINE Q == {queue[i] : i \in DOMAIN queue}
               H == {holding[d] : d \in Cook} \ {NoPizza}
               G == {holding'[d] : d \in Cook} \ {NoPizza}
    <3>1. accepted = cooked \cup Q \cup H
      BY DEF EachPizzaInOnePlace
    <3>2. {queue'[i] : i \in DOMAIN queue'} = Q
      BY <2>2
    <3>3. H = G \cup {holding[c]}
      BY <2>3
    <3> HIDE DEF Q, H, G
    <3>4. accepted' = cooked' \cup Q \cup G
      BY <2>2, <3>1, <3>3
    <3> QED
      BY <3>2, <3>4 DEF G
  <2> QED
    BY <2>4, <2>5, <2>6, <2>7 DEF EachPizzaInOnePlace
<1>4. CASE UNCHANGED <<queue, holding, accepted, cooked>>
  BY <1>4 DEF EachPizzaInOnePlace
<1> QED
  BY <1>1, <1>2, <1>3, <1>4
  DEF Next, CookStep, Terminated, Start, Stop, Destruction, NotifyAll, DestroyMutex,
      FreeQueue, Join, CookWaits, CookLeaves, CookAborts, SpuriousWakeup, vars

-----------------------------------------------------------------------------
\* The inductive invariant holds throughout.
THEOREM PoolSafety == Spec => []PoolInvariant
<1>1. PoolInvariant /\ [Next]_vars => PoolInvariant'
  BY TypeStep, LifecycleStep, LoadStep, CapacityStep, WakeupStep, QuietStep
  DEF PoolInvariant
<1> QED
  BY PoolInit, <1>1, PTL DEF Spec

\* Variables of the pool always have their types; in particular the unsigned
\* _load never goes below 0.
THEOREM PoolTypeCorrect == Spec => []TypeOK
BY PoolSafety, PTL DEF PoolInvariant

\* The load tested by addPizza and isIdle is exact, and at most 2 x N,
\* although it is decremented outside the mutex.
THEOREM PoolLoad == Spec => [](LoadIsExact /\ CapacityRespected)
BY PoolSafety, PTL DEF PoolInvariant

\* One notifyOne per push leaves no queued pizza without an awake cook.
THEOREM PoolWakesEnough == Spec => []NoWakeupLost
BY PoolSafety, PTL DEF PoolInvariant

\* The idle close is safe in spite of the members' destruction order.
THEOREM PoolQuietStop == Spec => []QuietStopIsSafe
<1>1. PoolInvariant => QuietStopIsSafe
  BY DEF PoolInvariant, QuietInv, QuietStopIsSafe
<1> QED
  BY <1>1, PoolSafety, PTL

\* No pizza is lost or given to two cooks.
THEOREM PoolPlaces == Spec => []EachPizzaInOnePlace
<1>1. Init => EachPizzaInOnePlace
  BY PizzaAssumption DEF Init, EachPizzaInOnePlace
<1> QED
  BY <1>1, PoolSafety, PlaceStep, PTL DEF Spec

\* A joined pool has cooked every pizza it accepted.
THEOREM PoolDrains == Spec => []JoinedAfterDrain
<1>1. PoolInvariant /\ EachPizzaInOnePlace => JoinedAfterDrain
  <2> SUFFICES ASSUME PoolInvariant, EachPizzaInOnePlace, phase = "joined"
               PROVE  queue = <<>> /\ load = 0 /\ cooked = accepted
    BY DEF JoinedAfterDrain
  <2>1. queue = <<>> /\ \A c \in Cook : cookPc[c] = "gone" /\ holding[c] = NoPizza
    BY CookAssumption DEF PoolInvariant, Lifecycle
  <2>2. Cooks("cooking") = {}
    BY <2>1 DEF Cooks
  <2>3. load = 0
    BY <2>1, <2>2, FS_EmptySet, EmptySeq DEF PoolInvariant, LoadIsExact
  <2>4. {queue[i] : i \in DOMAIN queue} = {}
    BY <2>1
  <2> QED
    BY <2>1, <2>3, <2>4 DEF EachPizzaInOnePlace
<1> QED
  BY <1>1, PoolSafety, PoolPlaces, PTL
=============================================================================

---------------------------- MODULE ReceptionProofs ----------------------------
(* The inductive invariant of Reception, IInv; the facts about packets, visits  *)
(* and a single kitchen that its proof needs; what the steps do to the         *)
(* kitchens, to the thread and to the handles; that every step keeps the parts  *)
(* of the invariant that count pizzas, packets and orders; and what follows     *)
(* from it: the properties of the runs, for all values of the constants, and   *)
(* that the reception keeps its own contract.                                  *)
EXTENDS Reception, DataLemmas, FiniteSetTheorems, TLAPS

\* The packets of the two queues, a kitchen and a handle.
OrderType == {"Pizza", "StatusRequest", "Shutdown"}
ResultType == {"Done", "Full", "CookStatus", "StatusReply", "Shutdown"}
Message(types) == [type : types, pizza : Pizza \cup {NoPizza}]

Phase == {"unborn", "open", "idle", "ordered", "gone", "exited", "crashed"}

Box == [orders : Seq(Message(OrderType)), results : Seq(Message(ResultType)),
        line : Seq(Pizza), hands : SUBSET Pizza, releasing : Nat,
        refused : Pizza \cup {NoPizza}, replies : 0 .. NCooks + 1,
        phase : Phase, used : BOOLEAN, tired : BOOLEAN]

Handle == [load : 0 .. Capacity, alive : BOOLEAN, cooks : 0 .. NCooks]

\* The types of the variables.
Types ==
    /\ kitchens \in [KitchenId -> Box]
    /\ rpc \in {"select", "drain", "reap", "dispatch", "command", "waitpid", "done"}
    /\ duty \in {"none", "poll", "dispatch", "status", "shutdown"}
    /\ visit \in Seq(KitchenId) /\ gotReply \in BOOLEAN /\ todo \in Seq(Pizza)
    /\ roster \in SUBSET KitchenId
    /\ handle \in [KitchenId -> Handle]
    /\ nextKitchen \in 0 .. MaxKitchens + 1
    /\ pending \in Seq([id : OrderId, left : 1 .. MaxSize])
    /\ sizes \in Seq(1 .. MaxSize) /\ Len(sizes) <= MaxOrders
    /\ announced \in Seq(OrderId)
    /\ ready \in SUBSET Pizza /\ dropped \in SUBSET Pizza
    /\ statuses \in 0 .. MaxStatus

\* A kitchen by itself.
BoxInv(b) ==
    /\ \A i \in DOMAIN b.orders : b.orders[i].type = "Pizza" <=> b.orders[i].pizza \in Pizza
    /\ \A i \in DOMAIN b.results :
        b.results[i].type \in {"Done", "Full"} <=> b.results[i].pizza \in Pizza
    /\ Cardinality(b.hands) + b.releasing <= NCooks
    /\ b.phase = "unborn" => b = Unborn
    /\ b.refused # NoPizza => b.phase = "open"
    /\ b.replies > 0 => b.phase = "open" /\ b.refused = NoPizza
    /\ b.phase \in {"gone", "exited"} => b.line = <<>> /\ b.hands = {} /\ b.releasing = 0
    /\ \A i \in DOMAIN b.results :
        b.results[i].type = "Shutdown" => i = Len(b.results) /\ b.phase \in {"gone", "exited"}

\* The kitchens by themselves.
Boxes == \A k \in KitchenId : BoxInv(kitchens[k])

\* What the place of the thread says about the call.
Control ==
    /\ rpc = "select" => duty = "none" /\ visit = <<>> /\ todo = <<>>
    /\ rpc \in {"drain", "reap"} => duty \in {"poll", "dispatch", "status"}
    /\ rpc = "dispatch" => duty = "dispatch" /\ visit = <<>>
    /\ rpc \in {"command", "waitpid", "done"} <=> duty = "shutdown"
    /\ todo # <<>> => duty \in {"dispatch", "shutdown"}
    /\ rpc \in {"reap", "waitpid"} => visit # <<>>
    /\ \A i \in DOMAIN visit : visit[i] \in roster
    /\ \A i, j \in DOMAIN visit : visit[i] = visit[j] => i = j
    /\ duty # "shutdown" => nextKitchen <= MaxKitchens
    /\ gotReply => duty = "status" /\ visit # <<>>

\* The handles and the processes.
Handles ==
    \A k \in KitchenId :
        /\ handle[k].alive => k \in roster
        /\ k \in roster => k < nextKitchen /\ kitchens[k].phase # "unborn"
        /\ k >= nextKitchen => kitchens[k].phase = "unborn"
        /\ ~handle[k].alive => kitchens[k].phase \in {"unborn", "gone", "exited", "crashed"}

\* The pizzas a kitchen has still to answer for: queued, refused, in its line, in
\* the hands of a cook, or answered and not yet read.
Owes(b) ==
    Count(b.orders, {"Pizza"}) + (IF b.refused = NoPizza THEN 0 ELSE 1)
    + Len(b.line) + Cardinality(b.hands) + Count(b.results, {"Done", "Full"})

\* The load kept of a kitchen is what it owes, and never above 2 x N.
Loads ==
    \A k \in KitchenId :
        /\ Owes(kitchens[k]) <= Capacity
        /\ handle[k].alive => handle[k].load = Owes(kitchens[k])

\* The kitchen is to be told to shut down, or need not.
Uncommanded(k) ==
    \/ duty # "shutdown"
    \/ \E i \in DOMAIN visit : visit[i] = k /\ ~(rpc = "waitpid" /\ i = 1)

\* A kitchen is told to shut down once at most, and not before its turn.
Commands ==
    \A k \in KitchenId :
        /\ Count(kitchens[k].orders, {"Shutdown"}) <= 1
        /\ Uncommanded(k) => Count(kitchens[k].orders, {"Shutdown"}) = 0

\* The status traffic under way: requests, parts of an answer, ends of one.
Asked(b) == Count(b.orders, {"StatusRequest"})
Said(b) == Count(b.results, {"CookStatus"})
Replied(b) == Count(b.results, {"StatusReply"})

\* The states of a status command at a kitchen: none, asked, being answered, and
\* answered with the end of the answer behind its parts.
Quiet(b) == Asked(b) = 0 /\ b.replies = 0 /\ Said(b) = 0 /\ Replied(b) = 0

Asking(b, cooks) ==
    Asked(b) = 1 /\ b.replies = 0 /\ Said(b) = 0 /\ Replied(b) = 0 /\ cooks = 0

Answering(b, cooks) ==
    Asked(b) = 0 /\ b.replies > 0 /\ Replied(b) = 0 /\ cooks + Said(b) + b.replies = NCooks + 1

Answered(b, cooks) ==
    /\ Asked(b) = 0 /\ b.replies = 0 /\ Replied(b) = 1 /\ cooks + Said(b) = NCooks
    /\ \A i, j \in DOMAIN b.results :
        b.results[i].type = "StatusReply" /\ b.results[j].type = "CookStatus" => j < i

\* getStatus still waits for the answer of k.
Expected(k) ==
    /\ duty = "status"
    /\ \E i \in DOMAIN visit : visit[i] = k /\ ~(gotReply /\ i = 1)

\* A kitchen alive is quiet, or in a state of the command that still waits for it
\* and has counted "cooks" parts of its answer.
Statuses ==
    \A k \in KitchenId :
        /\ Asked(kitchens[k]) <= 1
        /\ Said(kitchens[k]) + Replied(kitchens[k]) + kitchens[k].replies <= NCooks + 1
        /\ handle[k].alive =>
            \/ Quiet(kitchens[k])
            \/ /\ Expected(k)
               /\ \/ Asking(kitchens[k], handle[k].cooks)
                  \/ Answering(kitchens[k], handle[k].cooks)
                  \/ Answered(kitchens[k], handle[k].cooks)

\* The packets that carry one of some pizzas.
Carrying(P) == [type : OrderType \cup ResultType, pizza : P]

\* The pizzas of the set P that a kitchen has to answer for.
Weight(b, P) ==
    Number(b.orders, Carrying(P)) + (IF b.refused \in P THEN 1 ELSE 0)
    + Number(b.line, P) + Cardinality(b.hands \cap P) + Number(b.results, Carrying(P))

\* Outside the kitchens.
Outside(p) ==
    Number(todo, {p}) + (IF p \in ready THEN 1 ELSE 0) + (IF p \in dropped THEN 1 ELSE 0)

\* A pizza ordered is once outside the kitchens or once in one of them, and a pizza
\* not ordered is nowhere.
InOnePlace(p) ==
    \/ /\ Outside(p) = IF Ordered(p) THEN 1 ELSE 0
       /\ \A k \in KitchenId : Weight(kitchens[k], {p}) = 0
    \/ /\ Outside(p) = 0 /\ Ordered(p)
       /\ \E k \in KitchenId : \A j \in KitchenId :
            Weight(kitchens[j], {p}) = IF j = k THEN 1 ELSE 0

\* Each pizza in one place.
OnePlace == \A p \in Pizza : InOnePlace(p)

\* Orders are announced as they were placed, and the pizzas ready are those of the
\* orders announced and those that the first pending order does not miss any more.
Counting ==
    /\ \A i \in DOMAIN announced : announced[i] = i
    /\ Len(announced) + Len(pending) = Len(sizes)
    /\ \A i \in DOMAIN pending :
        /\ pending[i].id = Len(announced) + i
        /\ pending[i].left <= sizes[Len(announced) + i]
        /\ i > 1 => pending[i].left = sizes[Len(announced) + i]
    /\ Cardinality(ready) =
          Cardinality(FirstPizzas(Len(announced)))
          + IF pending = <<>> THEN 0 ELSE sizes[Len(announced) + 1] - Head(pending).left

\* The inductive invariant.
IInv ==
    /\ Types /\ Boxes /\ Control /\ Handles
    /\ Loads /\ Commands /\ Statuses /\ OnePlace /\ Counting

-----------------------------------------------------------------------------
(* The packets of a kitchen's queues.                                      *)

\* The packets of some types, and those with one of the pizzas of a set.
LEMMA CountIsNumber ==
    ASSUME NEW T, NEW q \in Seq(Message(T)), NEW types
    PROVE  Count(q, types) = Number(q, Message(types))
<1>1. \A i \in DOMAIN q : q[i] \in Message(T)
  OBVIOUS
<1>2. \A i \in DOMAIN q : q[i] \in Message(types) <=> q[i].type \in types
  BY <1>1 DEF Message
<1>3. Hits(q, Message(types)) = {i \in DOMAIN q : q[i].type \in types}
  BY <1>2 DEF Hits
<1> QED
  BY <1>3, Zenon DEF Number, Count

\* What the type and the pizza of a packet say of the sets it is in.
LEMMA MessageIn ==
    ASSUME NEW T, NEW m \in Message(T)
    PROVE  /\ \A types : m \in Message(types) <=> m.type \in types
           /\ T \subseteq OrderType \cup ResultType =>
                \A P : m \in Carrying(P) <=> m.pizza \in P
  BY DEF Message, Carrying

-----------------------------------------------------------------------------
(* Orders and choices.                                                     *)

\* The constants are numbers, and NoPizza is no pizza.
LEMMA Constants ==
    /\ KitchenId \subseteq Nat /\ IsFiniteSet(KitchenId)
    /\ NCooks \in Nat \ {0} /\ Capacity \in Nat \ {0} /\ Capacity = 2 * NCooks
    /\ MaxKitchens \in Nat /\ MaxOrders \in Nat /\ MaxSize \in Nat /\ NoPizza \notin Pizza
<1>1. KitchenId \subseteq Nat
  BY ReceptionAssumption DEF KitchenId
<1>2. IsFiniteSet(KitchenId)
  BY ReceptionAssumption, FS_Interval DEF KitchenId
<1> QED
  BY <1>1, <1>2, ReceptionAssumption DEF Capacity

\* Pizzas are finitely many.
LEMMA PizzaFinite == IsFiniteSet(Pizza)
<1>1. IsFiniteSet(OrderId) /\ IsFiniteSet(1 .. MaxSize)
  BY ReceptionAssumption, FS_Interval DEF OrderId
<1> QED
  BY <1>1, FS_Product DEF Pizza

\* The order in which kitchens are visited: each of them once.
LEMMA InOrderVisits ==
    ASSUME NEW S \in SUBSET KitchenId
    PROVE  /\ InOrder(S) \in Seq(S)
           /\ \A i, j \in DOMAIN InOrder(S) : InOrder(S)[i] = InOrder(S)[j] => i = j
           /\ \A k \in S : \E i \in DOMAIN InOrder(S) : InOrder(S)[i] = k
<1> DEFINE n == Cardinality(S)
           s == InOrder(S)
<1>1. IsFiniteSet(S) /\ n \in Nat /\ S \subseteq Nat
  BY Constants, FS_Subset, FS_CardinalityType
<1>2. s \in [1 .. n -> S] /\ Sorted(s, n)
  <2>1. \E t \in [1 .. n -> S] : Sorted(t, n)
    BY <1>1, SortedExists
  <2> QED
    BY <2>1 DEF InOrder, Sorted
<1>3. \A i, j \in 1 .. n : s[i] = s[j] => i = j
  <2> SUFFICES ASSUME NEW i \in 1 .. n, NEW j \in 1 .. n, s[i] = s[j], i < j
               PROVE  FALSE
    BY <1>1
  <2>1. s[i] \in Nat /\ s[j] \in Nat
    BY <1>1, <1>2
  <2> QED
    BY <1>2, <2>1 DEF Sorted
<1> HIDE DEF s, n
<1>4. s \in Injection(1 .. n, S)
  BY <1>2, <1>3 DEF Injection, IsInjective
<1>5. IsFiniteSet(1 .. n) /\ Cardinality(1 .. n) = n
  BY <1>1, FS_Interval
<1>6. s \in Surjection(1 .. n, S)
  BY <1>1, <1>4, <1>5, FS_Injection DEF n
<1> QED
  BY <1>1, <1>2, <1>3, <1>6 DEF Surjection, s

\* dispatch chooses a live kitchen, with the least load.
LEMMA BestHasLeastLoad ==
    ASSUME Types, WithRoom # {}
    PROVE  /\ Best \in WithRoom
           /\ \A j \in WithRoom : handle[Best].load <= handle[j].load
<1>1. \A k \in WithRoom : k \in KitchenId /\ k \in Nat /\ handle[k].load \in Nat
  BY Constants DEF WithRoom, Alive, Types, Handle
<1> DEFINE loads == {handle[k].load : k \in WithRoom}
<1>2. PICK least \in loads : \A x \in loads : least <= x
  BY <1>1, LeastExists
<1> DEFINE ids == {k \in WithRoom : handle[k].load = least}
<1>3. PICK best \in ids : \A k \in ids : best <= k
  BY <1>1, LeastExists
<1>4. \A j \in WithRoom : \/ handle[best].load < handle[j].load
                          \/ handle[best].load = handle[j].load /\ best <= j
  BY <1>1, <1>2, <1>3
<1>5. /\ Best \in WithRoom
      /\ \A j \in WithRoom : \/ handle[Best].load < handle[j].load
                             \/ handle[Best].load = handle[j].load /\ Best <= j
  BY <1>3, <1>4 DEF Best
<1> QED
  BY <1>1, <1>5

-----------------------------------------------------------------------------
(* A step of a kitchen, seen in its record: from b to c.                   *)

\* The worker is at its queue, the next packet in it is of a type, and the cooks run.
Free(b) == b.phase = "open" /\ b.refused = NoPizza /\ b.replies = 0
Has(b, type) == Free(b) /\ b.orders # <<>> /\ Head(b.orders).type = type
Active(b) == b.phase \in {"open", "idle", "ordered"}

\* The worker takes an order into its line, or refuses it and says so.
Accepts(b, c) ==
    /\ Has(b, "Pizza")
    /\ c = [b EXCEPT !.orders = Tail(@), !.line = Append(@, Head(b.orders).pizza),
                     !.used = TRUE, !.tired = FALSE]

Refuses(b, c) ==
    /\ Has(b, "Pizza")
    /\ c = [b EXCEPT !.orders = Tail(@), !.refused = Head(b.orders).pizza]

SaysFull(b, c) ==
    /\ b.phase = "open" /\ b.refused # NoPizza
    /\ c = [b EXCEPT !.results = Append(@, Packet("Full", b.refused)), !.refused = NoPizza]

\* It takes a status request, and answers cook by cook, then as a whole.
TakesRequest(b, c) ==
    /\ Has(b, "StatusRequest")
    /\ c = [b EXCEPT !.orders = Tail(@), !.replies = NCooks + 1]

SaysCookStatus(b, c) ==
    /\ b.phase = "open" /\ b.replies > 1
    /\ c = [b EXCEPT !.results = Append(@, Plain("CookStatus")), !.replies = @ - 1]

SaysReply(b, c) ==
    /\ b.phase = "open" /\ b.replies = 1
    /\ \E phase \in {"open", "idle"} :
        c = [b EXCEPT !.results = Append(@, Plain("StatusReply")), !.replies = 0,
                      !.phase = phase]

\* It takes the shutdown command.
TakesCommand(b, c) ==
    /\ Has(b, "Shutdown")
    /\ c = [b EXCEPT !.orders = Tail(@), !.phase = "ordered"]

\* The clock, and the ends without a word.
Turns(b, c) ==
    \/ c = [b EXCEPT !.tired = TRUE] /\ b.phase = "open"
    \/ c = [b EXCEPT !.phase = "idle"] /\ Free(b)
    \/ c = [b EXCEPT !.phase = "exited"] /\ b.phase = "gone"
    \/ c = [b EXCEPT !.phase = "crashed"] /\ b.phase = "ordered"

\* It says that it goes.
SaysFarewell(b, c) ==
    /\ b.phase \in {"idle", "ordered"}
    /\ b.line = <<>> /\ b.hands = {} /\ b.releasing = 0
    /\ c = [b EXCEPT !.results = Append(@, Plain("Shutdown")), !.phase = "gone"]

\* A cook takes a pizza from the line, reports it done, and is free again.
Cooks(b, c) ==
    /\ Active(b)
    /\ b.line # <<>> /\ Cardinality(b.hands) + b.releasing < NCooks
    /\ c = [b EXCEPT !.line = Tail(@), !.hands = @ \cup {Head(b.line)}]

Reports(b, c) ==
    /\ Active(b)
    /\ \E p \in b.hands :
        c = [b EXCEPT !.hands = @ \ {p}, !.releasing = @ + 1,
                      !.results = Append(@, Packet("Done", p))]

Releases(b, c) ==
    /\ Active(b) /\ b.releasing > 0
    /\ c = [b EXCEPT !.releasing = @ - 1]

\* A step of the process.
BoxStep(b, c) ==
    \/ Accepts(b, c) \/ Refuses(b, c) \/ SaysFull(b, c)
    \/ TakesRequest(b, c) \/ SaysCookStatus(b, c) \/ SaysReply(b, c)
    \/ TakesCommand(b, c) \/ Turns(b, c) \/ SaysFarewell(b, c)
    \/ Cooks(b, c) \/ Reports(b, c) \/ Releases(b, c)

\* Only kitchen k changes.
Only(k) == \E c : kitchens' = [kitchens EXCEPT ![k] = c]

\* The fields of a kitchen have their types.
LEMMA BoxTypes ==
    ASSUME Types, NEW k \in KitchenId
    PROVE  /\ kitchens[k] \in Box
           /\ Load(k) = Len(kitchens[k].line) + (Cardinality(kitchens[k].hands) + kitchens[k].releasing)
           /\ Cardinality(kitchens[k].hands) \in Nat
           /\ IsFiniteSet(kitchens[k].hands)
<1>1. kitchens[k] \in Box
  BY DEF Types
<1>2. kitchens[k].hands \in SUBSET Pizza
  BY <1>1 DEF Box
<1> QED
  BY <1>1, <1>2, PizzaFinite, FS_Subset, FS_CardinalityType DEF Load, Busy

\* Every step of a kitchen is one of these.
LEMMA KitchenSteps ==
    ASSUME Types, NEW k \in KitchenId, KitchenStep(k)
    PROVE  /\ Only(k)
           /\ BoxStep(kitchens[k], kitchens'[k])
<1> DEFINE b == kitchens[k]
           c == kitchens'[k]
<1>1. /\ b \in Box /\ DOMAIN kitchens = KitchenId
      /\ b.line \in Seq(Pizza) /\ b.replies \in 0 .. NCooks + 1 /\ b.releasing \in Nat
      /\ b = [orders |-> b.orders, results |-> b.results, line |-> b.line, hands |-> b.hands,
              releasing |-> b.releasing, refused |-> b.refused, replies |-> b.replies,
              phase |-> b.phase, used |-> b.used, tired |-> b.tired]
  BY BoxTypes DEF Types, Box
<1>2. ASSUME NEW type, Takes(k, type)
      PROVE  Has(b, type)
  BY <1>2 DEF Takes, Has, Free
<1>3. CASE TakePizza(k)
  <2>1. Has(b, "Pizza")
    BY <1>2, <1>3 DEF TakePizza
  <2>2. CASE Load(k) < Capacity
    <3>1. kitchens' = [kitchens EXCEPT ![k] =
              [b EXCEPT !.orders = Tail(@), !.line = Append(@, Head(b.orders).pizza),
                        !.used = TRUE, !.tired = FALSE]]
      BY <1>1, <1>3, <2>2 DEF TakePizza
    <3> QED
      BY <1>1, <2>1, <3>1 DEF Only, BoxStep, Accepts
  <2>3. CASE ~(Load(k) < Capacity)
    <3>1. kitchens' = [kitchens EXCEPT ![k] =
              [b EXCEPT !.orders = Tail(@), !.refused = Head(b.orders).pizza]]
      BY <1>1, <1>3, <2>3 DEF TakePizza
    <3> QED
      BY <1>1, <2>1, <3>1 DEF Only, BoxStep, Refuses
  <2> QED
    BY <2>2, <2>3
<1>4. CASE SayFull(k)
  <2>1. kitchens' = [kitchens EXCEPT ![k] =
            [b EXCEPT !.results = Append(@, Packet("Full", b.refused)), !.refused = NoPizza]]
    BY <1>1, <1>4 DEF SayFull
  <2> QED
    BY <1>1, <1>4, <2>1 DEF Only, BoxStep, SaysFull, SayFull
<1>5. CASE TakeStatusRequest(k)
  <2>1. kitchens' = [kitchens EXCEPT ![k] =
            [b EXCEPT !.orders = Tail(@), !.replies = NCooks + 1]]
    BY <1>1, <1>5 DEF TakeStatusRequest
  <2>2. Has(b, "StatusRequest")
    BY <1>2, <1>5 DEF TakeStatusRequest
  <2> QED
    BY <1>1, <2>1, <2>2 DEF Only, BoxStep, TakesRequest
<1>6. CASE SayStatus(k)
  <2>1. CASE b.replies = 1
    <3>1. kitchens' = [kitchens EXCEPT ![k] =
              [b EXCEPT !.results = Append(@, Plain("StatusReply")), !.replies = 0,
                        !.phase = IF b.tired THEN "idle" ELSE "open"]]
      BY <1>1, <1>6, <2>1 DEF SayStatus
    <3> QED
      BY <1>1, <1>6, <2>1, <3>1 DEF Only, BoxStep, SaysReply, SayStatus
  <2>2. CASE b.replies # 1
    <3>1. kitchens' = [kitchens EXCEPT ![k] =
              [b EXCEPT !.results = Append(@, Plain("CookStatus")), !.replies = @ - 1]]
      BY <1>1, <1>6, <2>2 DEF SayStatus
    <3>2. b.phase = "open" /\ b.replies > 1
      BY <1>1, <1>6, <2>2 DEF SayStatus
    <3> QED
      BY <1>1, <3>1, <3>2 DEF Only, BoxStep, SaysCookStatus
  <2> QED
    BY <2>1, <2>2
<1>7. CASE TakeShutdown(k)
  <2>1. kitchens' = [kitchens EXCEPT ![k] =
            [b EXCEPT !.orders = Tail(@), !.phase = "ordered"]]
    BY <1>1, <1>7 DEF TakeShutdown
  <2>2. Has(b, "Shutdown")
    BY <1>2, <1>7 DEF TakeShutdown
  <2> QED
    BY <1>1, <2>1, <2>2 DEF Only, BoxStep, TakesCommand
<1>8. CASE Tire(k)
  <2>1. kitchens' = [kitchens EXCEPT ![k] = [b EXCEPT !.tired = TRUE]] /\ b.phase = "open"
    BY <1>1, <1>8 DEF Tire
  <2> QED
    BY <1>1, <2>1 DEF Only, BoxStep, Turns
<1>9. CASE CloseIdle(k)
  <2>1. kitchens' = [kitchens EXCEPT ![k] = [b EXCEPT !.phase = "idle"]] /\ Free(b)
    BY <1>1, <1>9 DEF CloseIdle, Free
  <2> QED
    BY <1>1, <2>1 DEF Only, BoxStep, Turns
<1>10. CASE Farewell(k)
  <2>1. kitchens' = [kitchens EXCEPT ![k] =
            [b EXCEPT !.results = Append(@, Plain("Shutdown")), !.phase = "gone"]]
    BY <1>1, <1>10 DEF Farewell
  <2>2. Len(b.line) = 0 /\ Cardinality(b.hands) = 0 /\ b.releasing = 0
    <3>1. Len(b.line) \in Nat
      BY <1>1
    <3> QED
      BY <1>1, <1>10, <3>1, BoxTypes DEF Farewell
  <2>3. b.line = <<>> /\ b.hands = {} /\ b.releasing = 0
    BY <1>1, <2>2, BoxTypes, FS_EmptySet
  <2> QED
    BY <1>1, <1>10, <2>1, <2>3 DEF Only, BoxStep, SaysFarewell, Farewell
<1>11. CASE Exit(k)
  <2>1. kitchens' = [kitchens EXCEPT ![k] = [b EXCEPT !.phase = "exited"]] /\ b.phase = "gone"
    BY <1>1, <1>11 DEF Exit
  <2> QED
    BY <1>1, <2>1 DEF Only, BoxStep, Turns
<1>12. CASE Crash(k)
  <2>1. kitchens' = [kitchens EXCEPT ![k] = [b EXCEPT !.phase = "crashed"]] /\ b.phase = "ordered"
    BY <1>1, <1>12 DEF Crash
  <2> QED
    BY <1>1, <2>1 DEF Only, BoxStep, Turns
<1>13. CASE Cook(k)
  <2>1. kitchens' = [kitchens EXCEPT ![k] =
            [b EXCEPT !.line = Tail(@), !.hands = @ \cup {Head(b.line)}]]
    BY <1>1, <1>13 DEF Cook
  <2>2. Active(b) /\ b.line # <<>> /\ Cardinality(b.hands) + b.releasing < NCooks
    BY <1>13 DEF Cook, Works, Active, Busy
  <2> QED
    BY <1>1, <2>1, <2>2 DEF Only, BoxStep, Cooks
<1>14. ASSUME NEW p \in b.hands, ReportDone(k, p)
       PROVE  Only(k) /\ BoxStep(b, c)
  <2>1. kitchens' = [kitchens EXCEPT ![k] =
            [b EXCEPT !.hands = @ \ {p}, !.releasing = @ + 1,
                      !.results = Append(@, Packet("Done", p))]]
    BY <1>1, <1>14 DEF ReportDone
  <2>2. Active(b)
    BY <1>14 DEF ReportDone, Works, Active
  <2> QED
    BY <1>1, <2>1, <2>2 DEF Only, BoxStep, Reports
<1>15. CASE Release(k)
  <2>1. kitchens' = [kitchens EXCEPT ![k] = [b EXCEPT !.releasing = @ - 1]]
    BY <1>1, <1>15 DEF Release
  <2>2. Active(b) /\ b.releasing > 0
    BY <1>15 DEF Release, Works, Active
  <2> QED
    BY <1>1, <2>1, <2>2 DEF Only, BoxStep, Releases
<1> QED
  BY <1>3, <1>4, <1>5, <1>6, <1>7, <1>8, <1>9, <1>10, <1>11, <1>12, <1>13, <1>14, <1>15
  DEF KitchenStep, Serve, Leave

\* The kitchen's own part keeps its types.
LEMMA BoxStepTypes ==
    ASSUME NEW b \in Box, BoxInv(b), NEW c, BoxStep(b, c)
    PROVE  c \in Box
<1>1. /\ b.orders \in Seq(Message(OrderType)) /\ b.results \in Seq(Message(ResultType))
      /\ b.line \in Seq(Pizza) /\ b.hands \in SUBSET Pizza /\ b.releasing \in Nat
      /\ b.refused \in Pizza \cup {NoPizza} /\ b.replies \in 0 .. NCooks + 1
      /\ NCooks \in Nat
  BY Constants DEF Box
<1>2. b.orders # <<>> =>
        /\ Tail(b.orders) \in Seq(Message(OrderType))
        /\ Head(b.orders).type = "Pizza" => Head(b.orders).pizza \in Pizza
  BY <1>1, QueueEnds DEF BoxInv
<1>3. b.line # <<>> => Tail(b.line) \in Seq(Pizza) /\ Head(b.line) \in Pizza
  BY <1>1, QueueEnds
<1>4. /\ \A type \in {"CookStatus", "StatusReply", "Shutdown"} :
            Append(b.results, Plain(type)) \in Seq(Message(ResultType))
      /\ \A p \in Pizza, type \in {"Full", "Done"} :
            Append(b.results, Packet(type, p)) \in Seq(Message(ResultType))
  BY <1>1, QueueEnds DEF Plain, Packet, Message, ResultType
<1>5. CASE Accepts(b, c)
  <2>1. Append(b.line, Head(b.orders).pizza) \in Seq(Pizza)
    BY <1>1, <1>2, <1>5, QueueEnds DEF Accepts, Has
  <2> QED
    BY <1>2, <1>5, <2>1 DEF Accepts, Has, Box
<1>13. CASE Refuses(b, c)
  BY <1>2, <1>13 DEF Refuses, Has, Box
<1>14. CASE TakesRequest(b, c)
  <2>1. NCooks + 1 \in 0 .. NCooks + 1
    BY <1>1
  <2> QED
    BY <1>2, <1>14, <2>1 DEF TakesRequest, Has, Box
<1>15. CASE TakesCommand(b, c)
  BY <1>2, <1>15 DEF TakesCommand, Has, Box, Phase
<1>6. CASE SaysFull(b, c)
  BY <1>1, <1>4, <1>6 DEF SaysFull, Box
<1>7. CASE SaysCookStatus(b, c) \/ SaysReply(b, c)
  <2>1. /\ 0 \in 0 .. NCooks + 1
        /\ b.replies > 1 => b.replies - 1 \in 0 .. NCooks + 1
    BY <1>1
  <2>2. CASE SaysCookStatus(b, c)
    BY <1>4, <2>1, <2>2 DEF SaysCookStatus, Box
  <2>3. CASE SaysReply(b, c)
    <3>1. PICK phase \in {"open", "idle"} :
            c = [b EXCEPT !.results = Append(@, Plain("StatusReply")), !.replies = 0, !.phase = phase]
      BY <2>3 DEF SaysReply
    <3>2. phase \in Phase
      BY DEF Phase
    <3> QED
      BY <1>4, <2>1, <3>1, <3>2 DEF Box
  <2> QED
    BY <1>7, <2>2, <2>3
<1>8. CASE Turns(b, c)
  <2>1. \A phase \in Phase : [b EXCEPT !.phase = phase] \in Box
    BY DEF Box
  <2>2. [b EXCEPT !.tired = TRUE] \in Box
    BY DEF Box
  <2> QED
    BY <1>8, <2>1, <2>2 DEF Turns, Phase
<1>9. CASE SaysFarewell(b, c)
  BY <1>1, <1>4, <1>9 DEF SaysFarewell, Box, Phase
<1>10. CASE Cooks(b, c)
  BY <1>1, <1>3, <1>10 DEF Cooks, Box
<1>11. CASE Reports(b, c)
  <2>1. PICK p \in b.hands :
          c = [b EXCEPT !.hands = @ \ {p}, !.releasing = @ + 1,
                        !.results = Append(@, Packet("Done", p))]
    BY <1>11 DEF Reports
  <2>2. b.hands \ {p} \in SUBSET Pizza /\ b.releasing + 1 \in Nat /\ p \in Pizza
    BY <1>1
  <2> QED
    BY <1>4, <2>1, <2>2 DEF Box
<1>12. CASE Releases(b, c)
  <2>1. b.releasing - 1 \in Nat
    BY <1>1, <1>12 DEF Releases
  <2> QED
    BY <1>12, <2>1 DEF Releases, Box
<1> QED
  BY <1>5, <1>6, <1>7, <1>8, <1>9, <1>10, <1>11, <1>12, <1>13, <1>14, <1>15 DEF BoxStep

\* The two queues by themselves.
OrdersOK(q) == \A i \in DOMAIN q : q[i].type = "Pizza" <=> q[i].pizza \in Pizza

ResultsOK(q, phase) ==
    \A i \in DOMAIN q :
        /\ q[i].type \in {"Done", "Full"} <=> q[i].pizza \in Pizza
        /\ q[i].type = "Shutdown" => i = Len(q) /\ phase \in {"gone", "exited"}

\* A queue keeps its form when it loses its head or gets a packet of that form.
LEMMA QueuesStayOK ==
    /\ \A q \in Seq(Message(OrderType)) :
        OrdersOK(q) =>
            /\ q # <<>> => OrdersOK(Tail(q))
            /\ \A m \in Message(OrderType) :
                (m.type = "Pizza" <=> m.pizza \in Pizza) => OrdersOK(Append(q, m))
    /\ \A q \in Seq(Message(ResultType)), phase \in Phase :
        ResultsOK(q, phase) =>
            /\ q # <<>> => ResultsOK(Tail(q), phase)
            /\ phase = "gone" => ResultsOK(q, "exited")
            /\ phase \notin {"gone", "exited"} =>
                \A m \in Message(ResultType) :
                    (m.type \in {"Done", "Full"} <=> m.pizza \in Pizza) =>
                        /\ m.type # "Shutdown" => ResultsOK(Append(q, m), phase)
                        /\ m.type = "Shutdown" => ResultsOK(Append(q, m), "gone")
<1>1. ASSUME NEW q \in Seq(Message(OrderType)), OrdersOK(q)
      PROVE  /\ q # <<>> => OrdersOK(Tail(q))
             /\ \A m \in Message(OrderType) :
                 (m.type = "Pizza" <=> m.pizza \in Pizza) => OrdersOK(Append(q, m))
  BY <1>1, QueueEnds DEF OrdersOK
<1>2. ASSUME NEW q \in Seq(Message(ResultType)), NEW phase \in Phase, ResultsOK(q, phase)
      PROVE  /\ q # <<>> => ResultsOK(Tail(q), phase)
             /\ phase = "gone" => ResultsOK(q, "exited")
  BY <1>2, QueueEnds DEF ResultsOK
<1>3. ASSUME NEW q \in Seq(Message(ResultType)), NEW phase \in Phase, ResultsOK(q, phase),
             phase \notin {"gone", "exited"}, NEW m \in Message(ResultType),
             m.type \in {"Done", "Full"} <=> m.pizza \in Pizza
      PROVE  /\ m.type # "Shutdown" => ResultsOK(Append(q, m), phase)
             /\ m.type = "Shutdown" => ResultsOK(Append(q, m), "gone")
  BY <1>3, QueueEnds DEF ResultsOK
<1> QED
  BY <1>1, <1>2, <1>3

\* The kitchen's own part keeps its invariant.
LEMMA BoxStepInv ==
    ASSUME NEW b \in Box, BoxInv(b), NEW c, BoxStep(b, c)
    PROVE  BoxInv(c)
<1>1. c \in Box
  BY BoxStepTypes
<1>2. /\ b.orders \in Seq(Message(OrderType)) /\ b.results \in Seq(Message(ResultType))
      /\ b.hands \in SUBSET Pizza /\ b.releasing \in Nat
      /\ b.refused \in Pizza \cup {NoPizza} /\ b.replies \in 0 .. NCooks + 1
      /\ NCooks \in Nat /\ b.phase \in Phase /\ NoPizza \notin Pizza
      /\ DOMAIN b = {"orders", "results", "line", "hands", "releasing", "refused", "replies",
                     "phase", "used", "tired"}
  BY Constants DEF Box
<1>3. /\ OrdersOK(b.orders) /\ ResultsOK(b.results, b.phase)
      /\ Cardinality(b.hands) + b.releasing <= NCooks
      /\ b.phase = "unborn" => b = Unborn
      /\ b.refused # NoPizza => b.phase = "open"
      /\ b.replies > 0 => b.phase = "open" /\ b.refused = NoPizza
      /\ b.phase \in {"gone", "exited"} => b.line = <<>> /\ b.hands = {} /\ b.releasing = 0
  BY DEF BoxInv, OrdersOK, ResultsOK
<1>4. IsFiniteSet(b.hands) /\ Cardinality(b.hands) \in Nat
  BY <1>2, PizzaFinite, FS_Subset, FS_CardinalityType
<1>5. b.phase # "unborn"
  <2>1. Unborn.replies = 0 /\ Unborn.releasing = 0 /\ Unborn.refused = NoPizza
    BY DEF Unborn
  <2> QED
    BY <1>3, <2>1
    DEF BoxStep, Accepts, Refuses, SaysFull, TakesRequest, SaysCookStatus, SaysReply, TakesCommand,
        Turns, SaysFarewell, Cooks, Reports, Releases, Has, Free, Active
<1> SUFFICES
      /\ OrdersOK(c.orders) /\ ResultsOK(c.results, c.phase)
      /\ Cardinality(c.hands) + c.releasing <= NCooks
      /\ c.phase # "unborn"
      /\ c.refused # NoPizza => c.phase = "open"
      /\ c.replies > 0 => c.phase = "open" /\ c.refused = NoPizza
      /\ c.phase \in {"gone", "exited"} => c.line = <<>> /\ c.hands = {} /\ c.releasing = 0
  BY DEF BoxInv, OrdersOK, ResultsOK
<1>6. b.orders # <<>> => OrdersOK(Tail(b.orders))
  BY <1>2, <1>3, QueuesStayOK
<1>7. /\ b.phase \notin {"gone", "exited"} =>
          /\ \A type \in {"CookStatus", "StatusReply"} :
                ResultsOK(Append(b.results, Plain(type)), b.phase)
          /\ \A p \in Pizza, type \in {"Full", "Done"} :
                ResultsOK(Append(b.results, Packet(type, p)), b.phase)
          /\ ResultsOK(Append(b.results, Plain("Shutdown")), "gone")
  <2>1. /\ \A type \in {"CookStatus", "StatusReply", "Shutdown"} :
            Plain(type) \in Message(ResultType) /\ Plain(type).type = type /\ Plain(type).pizza = NoPizza
        /\ \A p \in Pizza, type \in {"Full", "Done"} :
            Packet(type, p) \in Message(ResultType) /\ Packet(type, p).type = type
            /\ Packet(type, p).pizza = p
    BY DEF Plain, Packet, Message, ResultType
  <2> QED
    BY <1>2, <1>3, <2>1, QueuesStayOK
<1>8. CASE Accepts(b, c) \/ Refuses(b, c) \/ TakesRequest(b, c) \/ TakesCommand(b, c)
  <2>1. /\ c.orders = Tail(b.orders) /\ c.results = b.results /\ c.hands = b.hands
        /\ c.releasing = b.releasing /\ b.orders # <<>> /\ b.phase = "open"
        /\ b.refused = NoPizza /\ b.replies = 0
        /\ \/ c.phase = "open" /\ c.refused = b.refused
           \/ c.phase = "open" /\ c.replies = b.replies
           \/ c.phase = "ordered" /\ c.refused = b.refused /\ c.replies = b.replies
    BY <1>2, <1>8 DEF Accepts, Refuses, TakesRequest, TakesCommand, Has, Free
  <2>2. ResultsOK(c.results, c.phase)
    BY <1>3, <2>1 DEF ResultsOK
  <2> QED
    BY <1>3, <1>6, <2>1, <2>2
<1>9. CASE SaysFull(b, c) \/ SaysCookStatus(b, c)
  <2>1. /\ c.orders = b.orders /\ c.hands = b.hands /\ c.releasing = b.releasing
        /\ b.phase = "open" /\ c.phase = "open" /\ (c.refused # NoPizza => c.refused = b.refused)
        /\ c.replies > 0 => b.replies > 0
    <3>1. CASE SaysFull(b, c)
      BY <1>2, <3>1 DEF SaysFull
    <3>2. CASE SaysCookStatus(b, c)
      BY <1>2, <3>2 DEF SaysCookStatus
    <3> QED
      BY <1>9, <3>1, <3>2
  <2>2. ResultsOK(c.results, "open")
    BY <1>2, <1>7, <1>9 DEF SaysFull, SaysCookStatus
  <2> QED
    BY <1>3, <2>1, <2>2
<1>10. CASE SaysReply(b, c)
  <2>1. /\ c.orders = b.orders /\ c.hands = b.hands /\ c.releasing = b.releasing
        /\ b.phase = "open" /\ c.phase \in {"open", "idle"} /\ c.refused = b.refused
        /\ c.replies = 0 /\ b.replies > 0 /\ c.results = Append(b.results, Plain("StatusReply"))
    BY <1>2, <1>10 DEF SaysReply
  <2>2. ResultsOK(c.results, "open")
    BY <1>7, <2>1
  <2>3. ResultsOK(c.results, c.phase)
    BY <2>1, <2>2 DEF ResultsOK
  <2> QED
    BY <1>3, <2>1, <2>3
<1>11. CASE Turns(b, c)
  <2>1. /\ c.orders = b.orders /\ c.results = b.results /\ c.hands = b.hands /\ c.line = b.line
        /\ c.releasing = b.releasing /\ c.refused = b.refused /\ c.replies = b.replies
    BY <1>2, <1>11 DEF Turns
  <2>2. \/ c.phase = "open" /\ b.phase = "open"
        \/ c.phase = "idle" /\ Free(b)
        \/ c.phase = "exited" /\ b.phase = "gone"
        \/ c.phase = "crashed" /\ b.phase = "ordered"
    BY <1>2, <1>11 DEF Turns
  <2>3. ResultsOK(c.results, c.phase)
    BY <1>3, <2>1, <2>2 DEF ResultsOK, Free
  <2> QED
    BY <1>2, <1>3, <2>1, <2>2, <2>3 DEF Free
<1>12. CASE SaysFarewell(b, c)
  <2>1. /\ c.orders = b.orders /\ c.phase = "gone" /\ b.phase \in {"idle", "ordered"}
        /\ c.results = Append(b.results, Plain("Shutdown"))
        /\ c.line = <<>> /\ c.hands = {} /\ c.hands = b.hands /\ c.releasing = 0 /\ b.releasing = 0
        /\ c.refused = b.refused /\ c.replies = b.replies
    BY <1>2, <1>12 DEF SaysFarewell
  <2> QED
    BY <1>3, <1>7, <2>1
<1>13. CASE Cooks(b, c)
  <2>1. /\ c.orders = b.orders /\ c.results = b.results /\ c.phase = b.phase /\ Active(b)
        /\ c.hands = b.hands \cup {Head(b.line)} /\ c.releasing = b.releasing
        /\ c.refused = b.refused /\ c.replies = b.replies
        /\ Cardinality(b.hands) + b.releasing < NCooks
    BY <1>2, <1>13 DEF Cooks
  <2>2. Cardinality(b.hands \cup {Head(b.line)}) <= Cardinality(b.hands) + 1
    BY SMTT(40), <1>4, FS_AddElement
  <2>3. Cardinality(b.hands \cup {Head(b.line)}) \in Nat
    BY <1>4, FS_AddElement, FS_CardinalityType
  <2> QED
    BY <1>2, <1>3, <1>4, <2>1, <2>2, <2>3 DEF Active
<1>14. CASE Reports(b, c)
  <2>1. PICK p \in b.hands :
          c = [b EXCEPT !.hands = @ \ {p}, !.releasing = @ + 1,
                        !.results = Append(@, Packet("Done", p))]
    BY <1>14 DEF Reports
  <2>2. /\ c.orders = b.orders /\ c.phase = b.phase /\ Active(b)
        /\ c.results = Append(b.results, Packet("Done", p))
        /\ c.hands = b.hands \ {p} /\ c.releasing = b.releasing + 1
        /\ c.refused = b.refused /\ c.replies = b.replies
    BY <1>2, <1>14, <2>1 DEF Reports
  <2>3. Cardinality(b.hands \ {p}) = Cardinality(b.hands) - 1
    BY <1>4, FS_RemoveElement
  <2>4. ResultsOK(c.results, c.phase)
    BY <1>2, <1>7, <2>2 DEF Active
  <2> QED
    BY SMTT(40), <1>2, <1>3, <1>4, <2>2, <2>3, <2>4 DEF Active
<1>15. CASE Releases(b, c)
  <2>1. /\ c.orders = b.orders /\ c.results = b.results /\ c.phase = b.phase /\ Active(b)
        /\ c.hands = b.hands /\ c.releasing = b.releasing - 1
        /\ c.refused = b.refused /\ c.replies = b.replies
    BY <1>2, <1>15 DEF Releases
  <2> QED
    BY <1>2, <1>3, <1>4, <2>1 DEF Active
<1> QED
  BY <1>8, <1>9, <1>10, <1>11, <1>12, <1>13, <1>14, <1>15 DEF BoxStep

\* What a queue counts after it has lost its head or got a packet.
LEMMA QueueCount ==
    ASSUME NEW T, NEW q \in Seq(Message(T)), NEW types
    PROVE  /\ Count(q, types) \in Nat
           /\ q # <<>> => Count(q, types) =
                Count(Tail(q), types) + (IF Head(q).type \in types THEN 1 ELSE 0)
           /\ \A p, type : Packet(type, p) \in Message(T) =>
                Count(Append(q, Packet(type, p)), types) =
                    Count(q, types) + (IF type \in types THEN 1 ELSE 0)
<1>1. Count(q, types) = Number(q, Message(types)) /\ Count(q, types) \in Nat
  BY CountIsNumber, HitsFinite
<1>2. ASSUME q # <<>>
      PROVE  Count(q, types) =
                Count(Tail(q), types) + (IF Head(q).type \in types THEN 1 ELSE 0)
  <2>1. Head(q) \in Message(T) /\ Tail(q) \in Seq(Message(T))
    BY <1>2, QueueEnds
  <2>2. Head(q) \in Message(types) <=> Head(q).type \in types
    BY <2>1, MessageIn
  <2>3. Count(Tail(q), types) = Number(Tail(q), Message(types))
    BY <2>1, CountIsNumber
  <2> QED
    BY <1>1, <1>2, <2>2, <2>3, NumberTail
<1>3. ASSUME NEW m \in Message(T)
      PROVE  Count(Append(q, m), types) = Count(q, types) + (IF m.type \in types THEN 1 ELSE 0)
  <2>1. Append(q, m) \in Seq(Message(T))
    BY QueueEnds
  <2>2. m \in Message(types) <=> m.type \in types
    BY MessageIn
  <2>3. Count(Append(q, m), types) = Number(Append(q, m), Message(types))
    BY <2>1, CountIsNumber
  <2> QED
    BY <1>1, <2>2, <2>3, NumberAppend
<1> QED
  BY <1>1, <1>2, <1>3 DEF Packet

\* The same for the pizzas of a set.
LEMMA QueueCarries ==
    ASSUME NEW T, T \subseteq OrderType \cup ResultType, NEW q \in Seq(Message(T)), NEW P
    PROVE  /\ Number(q, Carrying(P)) \in Nat
           /\ q # <<>> => Number(q, Carrying(P)) =
                Number(Tail(q), Carrying(P)) + (IF Head(q).pizza \in P THEN 1 ELSE 0)
           /\ \A p, type : Packet(type, p) \in Message(T) =>
                Number(Append(q, Packet(type, p)), Carrying(P)) =
                    Number(q, Carrying(P)) + (IF p \in P THEN 1 ELSE 0)
<1>1. ASSUME q # <<>>
      PROVE  Number(q, Carrying(P)) =
                Number(Tail(q), Carrying(P)) + (IF Head(q).pizza \in P THEN 1 ELSE 0)
  <2>1. Head(q) \in Message(T)
    BY <1>1, QueueEnds
  <2>2. Head(q) \in Carrying(P) <=> Head(q).pizza \in P
    BY <2>1, MessageIn
  <2> QED
    BY <1>1, <2>2, NumberTail
<1>2. ASSUME NEW m \in Message(T)
      PROVE  Number(Append(q, m), Carrying(P)) =
                Number(q, Carrying(P)) + (IF m.pizza \in P THEN 1 ELSE 0)
  <2>1. m \in Carrying(P) <=> m.pizza \in P
    BY MessageIn
  <2> QED
    BY <2>1, NumberAppend
<1> QED
  BY <1>1, <1>2, HitsFinite DEF Packet

-----------------------------------------------------------------------------
(* The pizzas of a set P that a kitchen has to answer for.                 *)

\* The packets that the kitchen and the reception make are messages.
LEMMA Packets ==
    /\ \A type \in OrderType, p \in Pizza \cup {NoPizza} :
          Packet(type, p) \in Message(OrderType)
    /\ \A type \in ResultType, p \in Pizza \cup {NoPizza} :
          Packet(type, p) \in Message(ResultType)
    /\ \A type, p : Packet(type, p).type = type /\ Packet(type, p).pizza = p
    /\ \A type : Plain(type) = Packet(type, NoPizza)
  BY DEF Packet, Plain, Message

\* The fields of a kitchen that are counted, with their types.
LEMMA BoxFields ==
    ASSUME NEW b \in Box
    PROVE  /\ b.orders \in Seq(Message(OrderType)) /\ b.results \in Seq(Message(ResultType))
           /\ b.line \in Seq(Pizza) /\ b.hands \in SUBSET Pizza /\ b.releasing \in Nat
           /\ b.refused \in Pizza \cup {NoPizza} /\ b.replies \in 0 .. NCooks + 1
           /\ b.phase \in Phase /\ NCooks \in Nat /\ NoPizza \notin Pizza
           /\ IsFiniteSet(b.hands) /\ Cardinality(b.hands) \in Nat
           /\ DOMAIN b = {"orders", "results", "line", "hands", "releasing", "refused", "replies",
                          "phase", "used", "tired"}
<1>1. /\ b.orders \in Seq(Message(OrderType)) /\ b.results \in Seq(Message(ResultType))
      /\ b.line \in Seq(Pizza) /\ b.hands \in SUBSET Pizza /\ b.releasing \in Nat
      /\ b.refused \in Pizza \cup {NoPizza} /\ b.replies \in 0 .. NCooks + 1
      /\ b.phase \in Phase
      /\ DOMAIN b = {"orders", "results", "line", "hands", "releasing", "refused", "replies",
                     "phase", "used", "tired"}
  BY DEF Box
<1> QED
  BY <1>1, Constants, PizzaFinite, FS_Subset, FS_CardinalityType

\* The parts of a weight are numbers.
LEMMA WeightParts ==
    ASSUME NEW b \in Box, NEW P
    PROVE  /\ Number(b.orders, Carrying(P)) \in Nat /\ Number(b.line, P) \in Nat
           /\ Cardinality(b.hands \cap P) \in Nat /\ IsFiniteSet(b.hands \cap P)
           /\ Number(b.results, Carrying(P)) \in Nat
<1>1. b.hands \cap P \in SUBSET b.hands
  OBVIOUS
<1>2. IsFiniteSet(b.hands \cap P)
  BY <1>1, BoxFields, FS_Subset
<1> QED
  BY <1>2, BoxFields, HitsFinite, FS_CardinalityType

\* What a kitchen owes is the weight of all pizzas in it.
LEMMA OwesIsWeight ==
    ASSUME NEW b \in Box, BoxInv(b)
    PROVE  Owes(b) = Weight(b, Pizza)
<1>1. Number(b.line, Pizza) = Len(b.line)
  BY BoxFields, NumberAll
<1>2. b.hands \cap Pizza = b.hands
  BY BoxFields
<1>3. Count(b.orders, {"Pizza"}) = Number(b.orders, Carrying(Pizza))
  <2>1. \A i \in DOMAIN b.orders : b.orders[i] \in Message(OrderType)
    BY BoxFields, QueueEnds
  <2>2. \A i \in DOMAIN b.orders :
          b.orders[i] \in Message({"Pizza"}) <=> b.orders[i] \in Carrying(Pizza)
    BY <2>1, MessageIn DEF BoxInv
  <2>3. Number(b.orders, Message({"Pizza"})) = Number(b.orders, Carrying(Pizza))
    BY <2>2, NumberSame
  <2> QED
    BY <2>3, BoxFields, CountIsNumber
<1>4. Count(b.results, {"Done", "Full"}) = Number(b.results, Carrying(Pizza))
  <2>1. \A i \in DOMAIN b.results : b.results[i] \in Message(ResultType)
    BY BoxFields, QueueEnds
  <2>2. \A i \in DOMAIN b.results :
          b.results[i] \in Message({"Done", "Full"}) <=> b.results[i] \in Carrying(Pizza)
    BY <2>1, MessageIn DEF BoxInv
  <2>3. Number(b.results, Message({"Done", "Full"})) = Number(b.results, Carrying(Pizza))
    BY <2>2, NumberSame
  <2> QED
    BY <2>3, BoxFields, CountIsNumber
<1>5. (IF b.refused = NoPizza THEN 0 ELSE 1) = IF b.refused \in Pizza THEN 1 ELSE 0
  BY BoxFields
<1>6. Cardinality(b.hands \cap Pizza) = Cardinality(b.hands)
  BY <1>2, Zenon
<1> QED
  BY <1>1, <1>3, <1>4, <1>5, <1>6 DEF Owes, Weight

\* A kitchen neither makes nor loses a pizza.
LEMMA BoxStepWeight ==
    ASSUME NEW b \in Box, BoxInv(b), NEW c, BoxStep(b, c),
           b.line # <<>> => Head(b.line) \notin b.hands, NEW P \in SUBSET Pizza
    PROVE  Weight(c, P) = Weight(b, P)
<1> DEFINE C == Carrying(P)
           one(x) == IF x \in P THEN 1 ELSE 0
           rb == one(b.refused)
           rc == one(c.refused)
<1>1. /\ Weight(b, P) = Number(b.orders, C) + rb + Number(b.line, P)
                        + Cardinality(b.hands \cap P) + Number(b.results, C)
      /\ Weight(c, P) = Number(c.orders, C) + rc + Number(c.line, P)
                        + Cardinality(c.hands \cap P) + Number(c.results, C)
  BY DEF Weight
<1>2. PICK o \in Nat, r \in Nat, l \in Nat, h \in Nat, d \in Nat :
        /\ Number(b.orders, C) = o /\ rb = r /\ Number(b.line, P) = l
        /\ Cardinality(b.hands \cap P) = h /\ Number(b.results, C) = d
  BY WeightParts
<1>3. /\ b.orders # <<>> =>
            /\ o = Number(Tail(b.orders), C) + one(Head(b.orders).pizza)
            /\ Number(Tail(b.orders), C) \in Nat
            /\ Head(b.orders).type = "Pizza" => Head(b.orders).pizza \in Pizza
            /\ Head(b.orders).type # "Pizza" => one(Head(b.orders).pizza) = 0
  <2> SUFFICES ASSUME b.orders # <<>>
               PROVE  /\ o = Number(Tail(b.orders), C) + one(Head(b.orders).pizza)
                      /\ Number(Tail(b.orders), C) \in Nat
                      /\ Head(b.orders).type = "Pizza" <=> Head(b.orders).pizza \in Pizza
    OBVIOUS
  <2>1. Tail(b.orders) \in Seq(Message(OrderType)) /\ Head(b.orders) = b.orders[1] /\ 1 \in DOMAIN b.orders
    BY BoxFields, QueueEnds
  <2>2. Head(b.orders).type = "Pizza" <=> Head(b.orders).pizza \in Pizza
    BY <2>1 DEF BoxInv
  <2>3. o = Number(Tail(b.orders), C) + one(Head(b.orders).pizza)
    BY SMTT(40), <1>2, BoxFields, QueueCarries
  <2>4. Number(Tail(b.orders), C) \in Nat
    BY <2>1, QueueCarries
  <2> QED
    BY <2>2, <2>3, <2>4
<1>4. /\ \A p \in Pizza, type \in {"Done", "Full"} :
            Number(Append(b.results, Packet(type, p)), C) = d + one(p)
      /\ \A type \in {"CookStatus", "StatusReply", "Shutdown"} :
            Number(Append(b.results, Plain(type)), C) = d
  <2>1. \A type \in ResultType, p \in Pizza \cup {NoPizza} :
            Number(Append(b.results, Packet(type, p)), C) = d + one(p)
    BY SMTT(40), <1>2, BoxFields, QueueCarries, Packets
  <2>2. one(NoPizza) = 0
    BY Constants
  <2> QED
    BY <2>1, <2>2, Packets DEF ResultType
<1>5. /\ \A p \in Pizza : Number(Append(b.line, p), P) = l + one(p)
      /\ b.line # <<>> =>
            /\ l = Number(Tail(b.line), P) + one(Head(b.line)) /\ Number(Tail(b.line), P) \in Nat
            /\ Head(b.line) \in Pizza
  <2>1. \A p \in Pizza : Number(Append(b.line, p), P) = l + one(p)
    BY SMTT(40), <1>2, BoxFields, NumberAppend
  <2>2. b.line # <<>> => Tail(b.line) \in Seq(Pizza) /\ Head(b.line) \in Pizza
    BY BoxFields, QueueEnds
  <2>3. b.line # <<>> => l = Number(Tail(b.line), P) + one(Head(b.line))
    BY <1>2, BoxFields, NumberTail
  <2> QED
    BY <2>1, <2>2, <2>3, HitsFinite
<1>6. CASE Accepts(b, c)
  <2> DEFINE x == Head(b.orders).pizza
  <2>1. /\ c.orders = Tail(b.orders) /\ b.orders # <<>> /\ Head(b.orders).type = "Pizza"
        /\ c.line = Append(b.line, x)
        /\ c.results = b.results /\ c.hands = b.hands /\ c.refused = b.refused
    BY BoxFields, <1>6 DEF Accepts, Has
  <2>2. /\ o = Number(c.orders, C) + one(x) /\ Number(c.orders, C) \in Nat
        /\ Number(c.line, P) = l + one(x)
    BY <1>3, <1>5, <2>1
  <2>3. /\ Number(c.results, C) = Number(b.results, C)
        /\ Cardinality(c.hands \cap P) = Cardinality(b.hands \cap P)
        /\ rc = rb
    BY <2>1, Zenon
  <2>4. one(x) \in Nat
    OBVIOUS
  <2> HIDE DEF C, one, rb, rc, x
  <2> QED
    BY <1>1, <1>2, <2>2, <2>3, <2>4
<1>7. CASE Refuses(b, c)
  <2>1. /\ c.orders = Tail(b.orders) /\ b.orders # <<>> /\ Head(b.orders).type = "Pizza"
        /\ c.line = b.line /\ b.refused = NoPizza /\ c.refused = Head(b.orders).pizza
        /\ c.results = b.results /\ c.hands = b.hands
    BY BoxFields, <1>7 DEF Refuses, Has, Free
  <2>2. rb = 0 /\ rc \in Nat
    BY BoxFields, <2>1
  <2>3. /\ o = Number(c.orders, C) + rc /\ Number(c.orders, C) \in Nat
    BY <1>3, <2>1
  <2>4. /\ Number(c.results, C) = Number(b.results, C)
        /\ Cardinality(c.hands \cap P) = Cardinality(b.hands \cap P)
        /\ Number(c.line, P) = Number(b.line, P)
    BY <2>1, Zenon
  <2> HIDE DEF C, one, rb, rc
  <2> QED
    BY <1>1, <1>2, <2>2, <2>3, <2>4
<1>8. CASE SaysFull(b, c)
  <2>1. /\ c.orders = b.orders /\ c.line = b.line /\ c.hands = b.hands
        /\ b.refused \in Pizza /\ b.refused # NoPizza /\ c.refused = NoPizza
        /\ c.results = Append(b.results, Packet("Full", b.refused))
    BY BoxFields, <1>8 DEF SaysFull
  <2>2. Number(c.results, C) = d + r
    BY <1>2, <1>4, <2>1
  <2>3. rc = 0
    BY <2>1, Constants
  <2>4. /\ Number(c.orders, C) = Number(b.orders, C)
        /\ Cardinality(c.hands \cap P) = Cardinality(b.hands \cap P)
        /\ Number(c.line, P) = Number(b.line, P)
    BY <2>1, Zenon
  <2> HIDE DEF C, one, rb, rc
  <2> QED
    BY <1>1, <1>2, <2>2, <2>3, <2>4
<1>9. CASE TakesRequest(b, c) \/ TakesCommand(b, c)
  <2>1. /\ c.orders = Tail(b.orders) /\ b.orders # <<>> /\ Head(b.orders).type # "Pizza"
        /\ c.line = b.line /\ c.refused = b.refused
        /\ c.results = b.results /\ c.hands = b.hands
    BY BoxFields, <1>9 DEF TakesRequest, TakesCommand, Has
  <2>2. Number(c.orders, C) = o
    BY <1>3, <2>1
  <2>3. /\ Number(c.results, C) = Number(b.results, C)
        /\ Cardinality(c.hands \cap P) = Cardinality(b.hands \cap P)
        /\ Number(c.line, P) = Number(b.line, P) /\ rc = rb
    BY <2>1, Zenon
  <2> HIDE DEF C, one, rb, rc
  <2> QED
    BY <1>1, <1>2, <2>2, <2>3
<1>10. CASE SaysCookStatus(b, c) \/ SaysReply(b, c) \/ SaysFarewell(b, c)
  <2>1. /\ c.orders = b.orders /\ c.line = b.line /\ c.hands = b.hands /\ c.refused = b.refused
        /\ \E type \in {"CookStatus", "StatusReply", "Shutdown"} :
              c.results = Append(b.results, Plain(type))
    <3>1. CASE SaysCookStatus(b, c)
      BY BoxFields, <3>1 DEF SaysCookStatus
    <3>2. CASE SaysReply(b, c)
      BY BoxFields, <3>2 DEF SaysReply
    <3>3. CASE SaysFarewell(b, c)
      BY BoxFields, <3>3 DEF SaysFarewell
    <3> QED
      BY <1>10, <3>1, <3>2, <3>3
  <2>2. Number(c.results, C) = d
    BY <1>4, <2>1
  <2>3. /\ Number(c.orders, C) = Number(b.orders, C)
        /\ Cardinality(c.hands \cap P) = Cardinality(b.hands \cap P)
        /\ Number(c.line, P) = Number(b.line, P) /\ rc = rb
    BY <2>1, Zenon
  <2> HIDE DEF C, one, rb, rc
  <2> QED
    BY <1>1, <1>2, <2>2, <2>3
<1>11. CASE Turns(b, c) \/ Releases(b, c)
  <2>1. /\ c.orders = b.orders /\ c.line = b.line /\ c.hands = b.hands /\ c.refused = b.refused
        /\ c.results = b.results
    BY BoxFields, <1>11 DEF Turns, Releases
  <2> QED
    BY <2>1 DEF Weight
<1>12. CASE Cooks(b, c)
  <2> DEFINE x == Head(b.line)
  <2>1. /\ c.orders = b.orders /\ c.line = Tail(b.line) /\ b.line # <<>> /\ c.refused = b.refused
        /\ c.hands = b.hands \cup {x} /\ c.results = b.results
    BY BoxFields, <1>12 DEF Cooks
  <2>2. x \notin b.hands
    BY <2>1
  <2>3. Cardinality(c.hands \cap P) = h + one(x)
    <3>1. CASE x \in P
      <4>1. c.hands \cap P = (b.hands \cap P) \cup {x}
        BY <2>1, <3>1
      <4>2. Cardinality((b.hands \cap P) \cup {x}) = Cardinality(b.hands \cap P) + 1
        BY <2>2, WeightParts, FS_AddElement
      <4>3. Cardinality(c.hands \cap P) = Cardinality(b.hands \cap P) + 1
        BY <4>1, <4>2, Zenon
      <4> QED
        BY <1>2, <3>1, <4>3
    <3>2. CASE x \notin P
      <4>1. c.hands \cap P = b.hands \cap P
        BY <2>1, <3>2
      <4>2. Cardinality(c.hands \cap P) = Cardinality(b.hands \cap P)
        BY <4>1, Zenon
      <4> QED
        BY <1>2, <3>2, <4>2
    <3> QED
      BY <3>1, <3>2
  <2>4. l = Number(c.line, P) + one(x) /\ Number(c.line, P) \in Nat
    BY <1>5, <2>1
  <2>5. Number(c.orders, C) = Number(b.orders, C) /\ Number(c.results, C) = Number(b.results, C) /\ rc = rb
    BY <2>1, Zenon
  <2>6. one(x) \in Nat
    OBVIOUS
  <2> HIDE DEF C, one, rb, rc, x
  <2> QED
    BY SMTT(40), <1>1, <1>2, <2>3, <2>4, <2>5, <2>6
<1>13. CASE Reports(b, c)
  <2>1. PICK p \in b.hands :
          c = [b EXCEPT !.hands = @ \ {p}, !.releasing = @ + 1,
                        !.results = Append(@, Packet("Done", p))]
    BY <1>13 DEF Reports
  <2>2. /\ c.orders = b.orders /\ c.line = b.line /\ c.refused = b.refused
        /\ c.hands = b.hands \ {p} /\ c.results = Append(b.results, Packet("Done", p)) /\ p \in Pizza
    BY BoxFields, <2>1
  <2>3. h = Cardinality(c.hands \cap P) + one(p) /\ Cardinality(c.hands \cap P) \in Nat
    <3>1. CASE p \in P
      <4>1. c.hands \cap P = (b.hands \cap P) \ {p}
        BY <2>2, <3>1
      <4>2. Cardinality((b.hands \cap P) \ {p}) = Cardinality(b.hands \cap P) - 1
            /\ IsFiniteSet((b.hands \cap P) \ {p})
        BY <3>1, WeightParts, FS_RemoveElement
      <4>3. Cardinality(c.hands \cap P) = Cardinality(b.hands \cap P) - 1
            /\ IsFiniteSet(c.hands \cap P)
        BY <4>1, <4>2, Zenon
      <4>4. Cardinality(c.hands \cap P) \in Nat
        BY <4>3, FS_CardinalityType
      <4> QED
        BY <1>2, <3>1, <4>3, <4>4
    <3>2. CASE p \notin P
      <4>1. c.hands \cap P = b.hands \cap P
        BY <2>2, <3>2
      <4>2. Cardinality(c.hands \cap P) = Cardinality(b.hands \cap P)
        BY <4>1, Zenon
      <4> QED
        BY <1>2, <3>2, <4>2
    <3> QED
      BY <3>1, <3>2
  <2>4. Number(c.results, C) = d + one(p)
    BY <1>4, <2>2
  <2>5. Number(c.orders, C) = Number(b.orders, C) /\ Number(c.line, P) = Number(b.line, P) /\ rc = rb
    BY <2>2, Zenon
  <2>6. one(p) \in Nat
    OBVIOUS
  <2> HIDE DEF C, one, rb, rc
  <2> QED
    BY SMTT(40), <1>1, <1>2, <2>3, <2>4, <2>5, <2>6
<1> QED
  BY <1>6, <1>7, <1>8, <1>9, <1>10, <1>11, <1>12, <1>13 DEF BoxStep

\* A kitchen reads its orders and leaves them when it has gone.
LEMMA BoxStepOrders ==
    ASSUME NEW b \in Box, NEW c, BoxStep(b, c)
    PROVE  /\ c.orders = b.orders \/ (b.orders # <<>> /\ c.orders = Tail(b.orders))
           /\ \/ b.phase \in {"open", "idle", "ordered"}
              \/ c.orders = b.orders /\ c.results = b.results /\ c.replies = b.replies
           /\ b.phase \in {"open", "idle", "ordered", "gone"}
           /\ c.phase # "unborn"
           /\ b.phase = "gone" => c.phase = "exited"
<1>1. /\ b.replies \in Nat /\ b.phase \in Phase
      /\ DOMAIN b = {"orders", "results", "line", "hands", "releasing", "refused", "replies",
                     "phase", "used", "tired"}
  BY Constants DEF Box
<1>2. CASE Accepts(b, c) \/ Refuses(b, c) \/ TakesRequest(b, c) \/ TakesCommand(b, c)
  <2>1. b.orders # <<>> /\ b.phase = "open"
    BY <1>2 DEF Accepts, Refuses, TakesRequest, TakesCommand, Has, Free
  <2>2. c.orders = Tail(b.orders)
    BY <1>1, <1>2 DEF Accepts, Refuses, TakesRequest, TakesCommand
  <2>3. c.phase \in {"open", "ordered"}
    BY <1>1, <1>2, <2>1 DEF Accepts, Refuses, TakesRequest, TakesCommand
  <2> QED
    BY <2>1, <2>2, <2>3, Zenon
<1>3. CASE SaysFull(b, c) \/ SaysCookStatus(b, c) \/ SaysReply(b, c)
  <2>1. b.phase = "open"
    BY <1>3 DEF SaysFull, SaysCookStatus, SaysReply
  <2>2. c.orders = b.orders
    BY <1>1, <1>3 DEF SaysFull, SaysCookStatus, SaysReply
  <2>3. c.phase \in {"open", "idle"}
    BY <1>1, <1>3, <2>1 DEF SaysFull, SaysCookStatus, SaysReply
  <2> QED
    BY <2>1, <2>2, <2>3, Zenon
<1>4. CASE Turns(b, c)
  <2>1. c.orders = b.orders /\ c.results = b.results /\ c.replies = b.replies
    BY <1>1, <1>4 DEF Turns
  <2>2. /\ b.phase \in {"open", "ordered", "gone"} /\ c.phase # "unborn"
        /\ b.phase = "gone" => c.phase = "exited"
    BY <1>1, <1>4 DEF Turns, Free
  <2> QED
    BY <2>1, <2>2, Zenon
<1>5. CASE SaysFarewell(b, c)
  <2>1. b.phase \in {"idle", "ordered"} /\ c.orders = b.orders /\ c.phase = "gone"
    BY <1>1, <1>5 DEF SaysFarewell
  <2> QED
    BY <2>1, Zenon
<1>6. CASE Cooks(b, c) \/ Releases(b, c) \/ Reports(b, c)
  <2>1. Active(b)
    BY <1>6 DEF Cooks, Releases, Reports
  <2>2. c.orders = b.orders /\ c.phase = b.phase
    BY <1>1, <1>6 DEF Cooks, Releases, Reports
  <2> QED
    BY <2>1, <2>2, Zenon DEF Active
<1> QED
  BY <1>2, <1>3, <1>4, <1>5, <1>6 DEF BoxStep

\* After an answer no part of it follows.
AnswerLast(q) ==
    \A i, j \in DOMAIN q : q[i].type = "StatusReply" /\ q[j].type = "CookStatus" => j < i

\* The answer stays behind the cook statuses as the queue moves on.
LEMMA AnswerStaysLast ==
    /\ \A q \in Seq(Message(ResultType)) :
        /\ AnswerLast(q) =>
            /\ q # <<>> => AnswerLast(Tail(q))
            /\ \A m \in Message(ResultType) : m.type # "CookStatus" => AnswerLast(Append(q, m))
        /\ Count(q, {"StatusReply"}) = 0 =>
            \A m \in Message(ResultType) : m.type = "StatusReply" => AnswerLast(Append(q, m))
<1> SUFFICES ASSUME NEW q \in Seq(Message(ResultType))
             PROVE  /\ AnswerLast(q) =>
                        /\ q # <<>> => AnswerLast(Tail(q))
                        /\ \A m \in Message(ResultType) :
                              m.type # "CookStatus" => AnswerLast(Append(q, m))
                    /\ Count(q, {"StatusReply"}) = 0 =>
                        \A m \in Message(ResultType) :
                              m.type = "StatusReply" => AnswerLast(Append(q, m))
  OBVIOUS
<1>1. DOMAIN q = 1 .. Len(q) /\ Len(q) \in Nat
  OBVIOUS
<1>2. ASSUME AnswerLast(q), q # <<>>
      PROVE  AnswerLast(Tail(q))
  <2> SUFFICES ASSUME NEW i \in DOMAIN Tail(q), NEW j \in DOMAIN Tail(q),
                      Tail(q)[i].type = "StatusReply", Tail(q)[j].type = "CookStatus"
               PROVE  j < i
    BY DEF AnswerLast
  <2>1. /\ i \in Nat /\ j \in Nat /\ i + 1 \in DOMAIN q /\ j + 1 \in DOMAIN q
        /\ Tail(q)[i] = q[i + 1] /\ Tail(q)[j] = q[j + 1]
    BY <1>2, QueueEnds
  <2>2. j + 1 < i + 1
    BY <1>2, <2>1 DEF AnswerLast
  <2> QED
    BY <2>1, <2>2
<1>3. ASSUME AnswerLast(q), NEW m \in Message(ResultType), m.type # "CookStatus"
      PROVE  AnswerLast(Append(q, m))
  <2> SUFFICES ASSUME NEW i \in DOMAIN Append(q, m), NEW j \in DOMAIN Append(q, m),
                      Append(q, m)[i].type = "StatusReply", Append(q, m)[j].type = "CookStatus"
               PROVE  j < i
    BY DEF AnswerLast
  <2>1. /\ i \in 1 .. Len(q) + 1 /\ j \in 1 .. Len(q) /\ Append(q, m)[j] = q[j]
        /\ Append(q, m)[i] = IF i = Len(q) + 1 THEN m ELSE q[i]
    BY <1>3, QueueEnds
  <2> QED
    BY <1>1, <1>3, <2>1 DEF AnswerLast
<1>4. ASSUME Count(q, {"StatusReply"}) = 0, NEW m \in Message(ResultType), m.type = "StatusReply"
      PROVE  AnswerLast(Append(q, m))
  <2>1. \A i \in DOMAIN q : q[i].type # "StatusReply"
    <3>1. Number(q, Message({"StatusReply"})) = 0
      BY <1>4, CountIsNumber
    <3>2. \A i \in DOMAIN q : q[i] \notin Message({"StatusReply"}) /\ q[i] \in Message(ResultType)
      BY <3>1, NumberZero
    <3> QED
      BY <3>2, MessageIn
  <2> SUFFICES ASSUME NEW i \in DOMAIN Append(q, m), NEW j \in DOMAIN Append(q, m),
                      Append(q, m)[i].type = "StatusReply", Append(q, m)[j].type = "CookStatus"
               PROVE  j < i
    BY DEF AnswerLast
  <2>2. /\ i \in 1 .. Len(q) + 1 /\ j \in 1 .. Len(q) + 1
        /\ Append(q, m)[j] = IF j = Len(q) + 1 THEN m ELSE q[j]
        /\ Append(q, m)[i] = IF i = Len(q) + 1 THEN m ELSE q[i]
    BY QueueEnds
  <2>3. i = Len(q) + 1 /\ j # Len(q) + 1
    BY <1>1, <1>4, <2>1, <2>2
  <2> QED
    BY <1>1, <2>2, <2>3
<1> QED
  BY <1>2, <1>3, <1>4

\* What a step of a kitchen does to the status traffic and to the commands.
LEMMA BoxStepStatus ==
    ASSUME NEW b \in Box, NEW c, BoxStep(b, c)
    PROVE  /\ Count(c.orders, {"Shutdown"}) <= Count(b.orders, {"Shutdown"})
           /\ AnswerLast(b.results) /\ ~(b.phase = "open" /\ b.replies > 1) => AnswerLast(c.results)
           /\ Replied(b) = 0 /\ Replied(c) = 1 => AnswerLast(c.results)
           /\ \/ /\ Asked(c) = Asked(b) /\ c.replies = b.replies
                 /\ Said(c) = Said(b) /\ Replied(c) = Replied(b)
              \/ /\ Asked(c) = Asked(b) - 1 /\ b.replies = 0 /\ c.replies = NCooks + 1
                 /\ Said(c) = Said(b) /\ Replied(c) = Replied(b) /\ b.phase = "open"
              \/ /\ Asked(c) = Asked(b) /\ b.replies > 1 /\ c.replies = b.replies - 1
                 /\ Said(c) = Said(b) + 1 /\ Replied(c) = Replied(b) /\ b.phase = "open"
              \/ /\ Asked(c) = Asked(b) /\ b.replies = 1 /\ c.replies = 0
                 /\ Said(c) = Said(b) /\ Replied(c) = Replied(b) + 1 /\ b.phase = "open"
<1> DEFINE S == {"Shutdown"}
           R == {"StatusRequest"}
           same == Said(c) = Said(b) /\ Replied(c) = Replied(b) /\ AnswerLast(b.results) = AnswerLast(c.results)
           idle == /\ Count(c.orders, S) = Count(b.orders, S) /\ Asked(c) = Asked(b)
<1>1. /\ Count(b.orders, S) \in Nat /\ Count(b.orders, R) \in Nat /\ Asked(b) = Count(b.orders, R)
      /\ Said(b) \in Nat /\ Replied(b) \in Nat /\ b.replies \in Nat
      /\ Asked(c) = Count(c.orders, R)
  BY BoxFields, QueueCount DEF Asked, Said, Replied
<1>2. b.orders # <<>> =>
        /\ Count(b.orders, S) =
              Count(Tail(b.orders), S) + (IF Head(b.orders).type = "Shutdown" THEN 1 ELSE 0)
        /\ Count(b.orders, R) =
              Count(Tail(b.orders), R) + (IF Head(b.orders).type = "StatusRequest" THEN 1 ELSE 0)
        /\ Count(Tail(b.orders), S) \in Nat /\ Count(Tail(b.orders), R) \in Nat
  <2> SUFFICES ASSUME b.orders # <<>>
               PROVE  \A x \in {"Shutdown", "StatusRequest"} :
                        /\ Count(b.orders, {x}) =
                              Count(Tail(b.orders), {x}) + (IF Head(b.orders).type = x THEN 1 ELSE 0)
                        /\ Count(Tail(b.orders), {x}) \in Nat
    OBVIOUS
  <2> TAKE x \in {"Shutdown", "StatusRequest"}
  <2>1. Tail(b.orders) \in Seq(Message(OrderType))
    BY BoxFields, QueueEnds
  <2>2. Count(Tail(b.orders), {x}) \in Nat
    BY <2>1, QueueCount
  <2>3. Count(b.orders, {x}) =
            Count(Tail(b.orders), {x}) + (IF Head(b.orders).type \in {x} THEN 1 ELSE 0)
    BY BoxFields, QueueCount
  <2> QED
    BY <2>2, <2>3
<1>3. \A type \in ResultType, p \in Pizza \cup {NoPizza} :
        c.results = Append(b.results, Packet(type, p)) =>
            /\ Said(c) = Said(b) + (IF type = "CookStatus" THEN 1 ELSE 0)
            /\ Replied(c) = Replied(b) + (IF type = "StatusReply" THEN 1 ELSE 0)
            /\ AnswerLast(b.results) /\ type # "CookStatus" => AnswerLast(c.results)
            /\ Replied(b) = 0 /\ type = "StatusReply" => AnswerLast(c.results)
  <2> SUFFICES ASSUME NEW type \in ResultType, NEW p \in Pizza \cup {NoPizza},
                      c.results = Append(b.results, Packet(type, p))
               PROVE  /\ Said(c) = Said(b) + (IF type = "CookStatus" THEN 1 ELSE 0)
                      /\ Replied(c) = Replied(b) + (IF type = "StatusReply" THEN 1 ELSE 0)
                      /\ AnswerLast(b.results) /\ type # "CookStatus" => AnswerLast(c.results)
                      /\ Replied(b) = 0 /\ type = "StatusReply" => AnswerLast(c.results)
    OBVIOUS
  <2>1. Packet(type, p) \in Message(ResultType) /\ Packet(type, p).type = type
    BY Packets
  <2>2. \A types : Count(Append(b.results, Packet(type, p)), types) =
                      Count(b.results, types) + (IF type \in types THEN 1 ELSE 0)
    BY <2>1, BoxFields, QueueCount
  <2>3. /\ Said(c) = Count(Append(b.results, Packet(type, p)), {"CookStatus"})
        /\ Replied(c) = Count(Append(b.results, Packet(type, p)), {"StatusReply"})
    BY Zenon DEF Said, Replied
  <2>4. /\ AnswerLast(b.results) /\ type # "CookStatus" => AnswerLast(Append(b.results, Packet(type, p)))
        /\ Count(b.results, {"StatusReply"}) = 0 /\ type = "StatusReply" =>
              AnswerLast(Append(b.results, Packet(type, p)))
    BY <2>1, BoxFields, AnswerStaysLast
  <2>5. /\ Said(c) = Said(b) + (IF type = "CookStatus" THEN 1 ELSE 0)
        /\ Replied(c) = Replied(b) + (IF type = "StatusReply" THEN 1 ELSE 0)
    BY <2>2, <2>3 DEF Said, Replied
  <2>6. AnswerLast(c.results) = AnswerLast(Append(b.results, Packet(type, p)))
    BY Zenon
  <2> QED
    BY <2>4, <2>5, <2>6 DEF Replied
<1>4. c.results = b.results => same
  BY Zenon DEF Said, Replied
<1>5. c.orders = b.orders => idle
  BY Zenon DEF Asked
<1>6. ASSUME c.orders = Tail(b.orders), b.orders # <<>>
      PROVE  Count(c.orders, S) = Count(Tail(b.orders), S) /\ Asked(c) = Count(Tail(b.orders), R)
  BY <1>6, Zenon DEF Asked
<1>7. CASE Accepts(b, c) \/ Refuses(b, c) \/ TakesCommand(b, c)
  <2>1. /\ c.orders = Tail(b.orders) /\ b.orders # <<>> /\ Head(b.orders).type # "StatusRequest"
        /\ c.results = b.results /\ c.replies = b.replies /\ b.replies = 0
    BY BoxFields, <1>7 DEF Accepts, Refuses, TakesCommand, Has, Free
  <2>2. Count(c.orders, S) <= Count(b.orders, S) /\ Asked(c) = Asked(b)
    BY <1>1, <1>2, <1>6, <2>1
  <2>3. same /\ c.replies = b.replies /\ b.replies = 0
    BY <1>4, <2>1
  <2> QED
    BY <2>2, <2>3
<1>8. CASE TakesRequest(b, c)
  <2>1. /\ c.orders = Tail(b.orders) /\ b.orders # <<>> /\ Head(b.orders).type = "StatusRequest"
        /\ c.results = b.results /\ c.replies = NCooks + 1 /\ b.replies = 0 /\ b.phase = "open"
    BY BoxFields, <1>8 DEF TakesRequest, Has, Free
  <2>2. Count(c.orders, S) <= Count(b.orders, S) /\ Asked(c) = Asked(b) - 1
    BY <1>1, <1>2, <1>6, <2>1
  <2>3. same /\ c.replies = NCooks + 1 /\ b.replies = 0 /\ b.phase = "open"
    BY <1>4, <2>1
  <2> QED
    BY <2>2, <2>3
<1>9. CASE SaysFull(b, c) \/ SaysFarewell(b, c) \/ Reports(b, c)
  <2>1. /\ c.orders = b.orders /\ c.replies = b.replies
        /\ \E type \in ResultType \ {"CookStatus", "StatusReply"}, p \in Pizza \cup {NoPizza} :
              c.results = Append(b.results, Packet(type, p))
    <3>1. CASE SaysFull(b, c)
      <4>1. /\ c.orders = b.orders /\ c.replies = b.replies
            /\ c.results = Append(b.results, Packet("Full", b.refused))
        BY BoxFields, <3>1 DEF SaysFull
      <4> QED
        BY <4>1, BoxFields, Zenon DEF ResultType
    <3>2. CASE SaysFarewell(b, c)
      BY BoxFields, Packets, <3>2 DEF SaysFarewell, ResultType
    <3>3. CASE Reports(b, c)
      <4>1. PICK p \in b.hands :
              c = [b EXCEPT !.hands = @ \ {p}, !.releasing = @ + 1,
                            !.results = Append(@, Packet("Done", p))]
        BY <3>3 DEF Reports
      <4>2. p \in Pizza
        BY BoxFields
      <4>3. c.orders = b.orders /\ c.replies = b.replies /\ c.results = Append(b.results, Packet("Done", p))
        BY BoxFields, <4>1
      <4> QED
        BY <4>2, <4>3, Zenon DEF ResultType
    <3> QED
      BY <1>9, <3>1, <3>2, <3>3
  <2>2. /\ Said(c) = Said(b) /\ Replied(c) = Replied(b)
        /\ AnswerLast(b.results) => AnswerLast(c.results)
    BY <1>1, <1>3, <2>1
  <2>3. idle /\ c.replies = b.replies
    BY <1>5, <2>1
  <2> QED
    BY <1>1, <2>2, <2>3
<1>10. CASE SaysCookStatus(b, c)
  <2>1. /\ c.orders = b.orders /\ b.replies > 1 /\ c.replies = b.replies - 1 /\ b.phase = "open"
        /\ c.results = Append(b.results, Packet("CookStatus", NoPizza))
    BY BoxFields, Packets, <1>10 DEF SaysCookStatus
  <2>2. Said(c) = Said(b) + 1 /\ Replied(c) = Replied(b)
    BY <1>1, <1>3, <2>1 DEF ResultType
  <2>3. idle /\ b.replies > 1 /\ c.replies = b.replies - 1 /\ b.phase = "open"
    BY <1>5, <2>1
  <2> QED
    BY <1>1, <2>2, <2>3
<1>11. CASE SaysReply(b, c)
  <2>1. /\ c.orders = b.orders /\ b.replies = 1 /\ c.replies = 0 /\ b.phase = "open"
        /\ c.results = Append(b.results, Packet("StatusReply", NoPizza))
    BY BoxFields, Packets, <1>11 DEF SaysReply
  <2>2. /\ Said(c) = Said(b) /\ Replied(c) = Replied(b) + 1
        /\ AnswerLast(b.results) => AnswerLast(c.results)
        /\ Replied(b) = 0 => AnswerLast(c.results)
    BY <1>1, <1>3, <2>1 DEF ResultType
  <2>3. idle /\ b.replies = 1 /\ c.replies = 0 /\ b.phase = "open"
    BY <1>5, <2>1
  <2> QED
    BY <1>1, <2>2, <2>3
<1>12. CASE Turns(b, c) \/ Cooks(b, c) \/ Releases(b, c)
  <2>1. c.orders = b.orders /\ c.results = b.results /\ c.replies = b.replies
    BY BoxFields, <1>12 DEF Turns, Cooks, Releases
  <2>2. idle /\ same /\ c.replies = b.replies
    BY <1>4, <1>5, <2>1
  <2> QED
    BY <1>1, <2>2
<1> QED
  BY <1>7, <1>8, <1>9, <1>10, <1>11, <1>12 DEF BoxStep

-----------------------------------------------------------------------------
(* What the reception does to a kitchen.                                   *)

\* A packet sent keeps the kitchen well formed.
LEMMA BoxSent ==
    ASSUME NEW b \in Box, BoxInv(b), b.phase # "unborn",
           NEW type \in OrderType, NEW p \in Pizza \cup {NoPizza},
           type = "Pizza" <=> p \in Pizza,
           NEW c, c = [b EXCEPT !.orders = Append(@, Packet(type, p))]
    PROVE  /\ c \in Box /\ BoxInv(c)
           /\ \A P : Weight(c, P) = Weight(b, P) + (IF p \in P THEN 1 ELSE 0)
           /\ \A types : Count(c.orders, types) =
                            Count(b.orders, types) + (IF type \in types THEN 1 ELSE 0)
           /\ c.results = b.results /\ c.replies = b.replies /\ c.phase = b.phase
<1> DEFINE m == Packet(type, p)
<1>1. /\ m \in Message(OrderType) /\ (m.type = "Pizza" <=> m.pizza \in Pizza)
  BY Packets
<1>2. /\ c.orders = Append(b.orders, m) /\ c.results = b.results /\ c.line = b.line
      /\ c.hands = b.hands /\ c.releasing = b.releasing /\ c.refused = b.refused
      /\ c.replies = b.replies /\ c.phase = b.phase
  BY BoxFields
<1>3. Append(b.orders, m) \in Seq(Message(OrderType))
  BY <1>1, BoxFields, QueueEnds
<1>4. c \in Box
  BY <1>3 DEF Box
<1>5. BoxInv(c)
  <2>1. OrdersOK(Append(b.orders, m))
    BY <1>1, BoxFields, QueuesStayOK DEF BoxInv, OrdersOK
  <2>2. \A i \in DOMAIN c.orders : c.orders[i].type = "Pizza" <=> c.orders[i].pizza \in Pizza
    BY <1>2, <2>1 DEF OrdersOK
  <2> QED
    BY <1>2, <2>2 DEF BoxInv
<1>6. ASSUME NEW P
      PROVE  Weight(c, P) = Weight(b, P) + (IF p \in P THEN 1 ELSE 0)
  <2> DEFINE C == Carrying(P)
             e == IF p \in P THEN 1 ELSE 0
             rb == IF b.refused \in P THEN 1 ELSE 0
             rc == IF c.refused \in P THEN 1 ELSE 0
  <2>1. /\ Weight(b, P) = Number(b.orders, C) + rb + Number(b.line, P)
                          + Cardinality(b.hands \cap P) + Number(b.results, C)
        /\ Weight(c, P) = Number(c.orders, C) + rc + Number(c.line, P)
                          + Cardinality(c.hands \cap P) + Number(c.results, C)
    BY DEF Weight
  <2>2. PICK o \in Nat, r \in Nat, l \in Nat, h \in Nat, d \in Nat :
        /\ Number(b.orders, C) = o /\ rb = r /\ Number(b.line, P) = l
        /\ Cardinality(b.hands \cap P) = h /\ Number(b.results, C) = d
    BY WeightParts
  <2>3. /\ Number(c.line, P) = Number(b.line, P) /\ Number(c.results, C) = Number(b.results, C)
        /\ Cardinality(c.hands \cap P) = Cardinality(b.hands \cap P) /\ rc = rb
    BY <1>2, Zenon
  <2>4. Number(Append(b.orders, m), C) = o + e
    BY <1>1, <2>2, BoxFields, QueueCarries
  <2>5. Number(c.orders, C) = o + e
    BY <1>2, <2>4
  <2>6. e \in Nat
    OBVIOUS
  <2> HIDE DEF C, e, rb, rc
  <2>7. Weight(c, P) = Weight(b, P) + e
    BY <2>1, <2>2, <2>3, <2>5, <2>6
  <2> QED
    BY <2>7 DEF e
<1>7. ASSUME NEW types
      PROVE  Count(c.orders, types) = Count(b.orders, types) + (IF type \in types THEN 1 ELSE 0)
  <2>1. Count(Append(b.orders, m), types) = Count(b.orders, types) + (IF type \in types THEN 1 ELSE 0)
    BY <1>1, BoxFields, QueueCount
  <2>2. Count(c.orders, types) = Count(Append(b.orders, m), types)
    BY <1>2, Zenon
  <2> QED
    BY <2>1, <2>2
<1> QED
  BY <1>2, <1>4, <1>5, <1>6, <1>7

\* Kitchen c is b with one more order.
Sent(b, c, type, p) ==
    /\ b \in Box /\ BoxInv(b) /\ b.phase # "unborn"
    /\ type \in OrderType /\ p \in Pizza \cup {NoPizza} /\ (type = "Pizza" <=> p \in Pizza)
    /\ c = [b EXCEPT !.orders = Append(@, Packet(type, p))]

\* A packet sent leaves all but the orders queue alone.
LEMMA SentPhase ==
    \A b, c, type, p : Sent(b, c, type, p) =>
        /\ c.results = b.results /\ c.replies = b.replies /\ c.phase = b.phase
  BY BoxSent DEF Sent

\* A pizza sent is one more the kitchen has to answer for.
LEMMA SentWeight ==
    \A b, c, type, p, P : Sent(b, c, type, p) =>
        Weight(c, P) = Weight(b, P) + (IF p \in P THEN 1 ELSE 0)
  BY BoxSent DEF Sent

\* A packet sent is one more of its type in the orders queue.
LEMMA SentCount ==
    \A b, c, type, p, types : Sent(b, c, type, p) =>
        Count(c.orders, types) = Count(b.orders, types) + (IF type \in types THEN 1 ELSE 0)
<1> SUFFICES ASSUME NEW b, NEW c, NEW type, NEW p, NEW types, Sent(b, c, type, p)
             PROVE  Count(c.orders, types) =
                        Count(b.orders, types) + (IF type \in types THEN 1 ELSE 0)
  OBVIOUS
<1>1. /\ b \in Box /\ BoxInv(b) /\ b.phase # "unborn"
      /\ type \in OrderType /\ p \in Pizza \cup {NoPizza} /\ (type = "Pizza" <=> p \in Pizza)
      /\ c = [b EXCEPT !.orders = Append(@, Packet(type, p))]
  BY DEF Sent
<1>2. Packet(type, p) \in Message(OrderType) /\ Packet(type, p).type = type
  BY <1>1, Packets
<1>3. c.orders = Append(b.orders, Packet(type, p)) /\ b.orders \in Seq(Message(OrderType))
  BY <1>1, BoxFields
<1>4. Count(Append(b.orders, Packet(type, p)), types)
          = Count(b.orders, types) + (IF type \in types THEN 1 ELSE 0)
  BY <1>2, <1>3, QueueCount
<1>5. Count(c.orders, types) = Count(Append(b.orders, Packet(type, p)), types)
  BY <1>3, Zenon
<1> QED
  BY <1>4, <1>5

\* A packet taken keeps the kitchen well formed, and is no longer counted.
LEMMA BoxReceived ==
    ASSUME NEW b \in Box, BoxInv(b), b.results # <<>>,
           NEW c, c = [b EXCEPT !.results = Tail(@)]
    PROVE  /\ c \in Box /\ BoxInv(c)
           /\ Head(b.results) \in Message(ResultType)
           /\ Head(b.results).type \in {"Done", "Full"} <=> Head(b.results).pizza \in Pizza
           /\ Head(b.results).type = "Shutdown" => b.phase \in {"gone", "exited"}
           /\ \A P : Weight(b, P) = Weight(c, P) + (IF Head(b.results).pizza \in P THEN 1 ELSE 0)
           /\ \A P : Weight(c, P) \in Nat
           /\ \A types : Count(b.results, types) =
                    Count(c.results, types) + (IF Head(b.results).type \in types THEN 1 ELSE 0)
           /\ AnswerLast(b.results) => AnswerLast(c.results)
           /\ c.orders = b.orders /\ c.replies = b.replies /\ c.phase = b.phase
<1> DEFINE m == Head(b.results)
<1>1. /\ c.results = Tail(b.results) /\ c.orders = b.orders /\ c.line = b.line
      /\ c.hands = b.hands /\ c.releasing = b.releasing /\ c.refused = b.refused
      /\ c.replies = b.replies /\ c.phase = b.phase
  BY BoxFields
<1>2. /\ Tail(b.results) \in Seq(Message(ResultType)) /\ m = b.results[1] /\ 1 \in DOMAIN b.results
      /\ m \in Message(ResultType)
  BY BoxFields, QueueEnds
<1>3. /\ m.type \in {"Done", "Full"} <=> m.pizza \in Pizza
      /\ m.type = "Shutdown" => b.phase \in {"gone", "exited"}
  BY <1>2 DEF BoxInv
<1>4. c \in Box
  BY <1>2 DEF Box
<1>5. BoxInv(c)
  <2>1. ResultsOK(Tail(b.results), b.phase)
    BY BoxFields, QueuesStayOK DEF BoxInv, ResultsOK
  <2>2. ResultsOK(c.results, c.phase)
    BY <1>1, <2>1, Zenon
  <2>3. b.phase # "unborn"
    BY DEF BoxInv, Unborn
  <2> QED
    BY <1>1, <2>2, <2>3 DEF BoxInv, ResultsOK
<1>6. ASSUME NEW P
      PROVE  /\ Weight(b, P) = Weight(c, P) + (IF m.pizza \in P THEN 1 ELSE 0)
             /\ Weight(c, P) \in Nat
  <2> DEFINE C == Carrying(P)
             e == IF m.pizza \in P THEN 1 ELSE 0
             rb == IF b.refused \in P THEN 1 ELSE 0
             rc == IF c.refused \in P THEN 1 ELSE 0
  <2>1. /\ Weight(b, P) = Number(b.orders, C) + rb + Number(b.line, P)
                          + Cardinality(b.hands \cap P) + Number(b.results, C)
        /\ Weight(c, P) = Number(c.orders, C) + rc + Number(c.line, P)
                          + Cardinality(c.hands \cap P) + Number(c.results, C)
    BY DEF Weight
  <2>2. PICK o \in Nat, r \in Nat, l \in Nat, h \in Nat, d \in Nat :
        /\ Number(c.orders, C) = o /\ rc = r /\ Number(c.line, P) = l
        /\ Cardinality(c.hands \cap P) = h /\ Number(c.results, C) = d
    BY <1>4, WeightParts
  <2>3. /\ Number(c.line, P) = Number(b.line, P) /\ Number(c.orders, C) = Number(b.orders, C)
        /\ Cardinality(c.hands \cap P) = Cardinality(b.hands \cap P) /\ rc = rb
    BY <1>1, Zenon
  <2>4. Number(b.results, C) = Number(Tail(b.results), C) + e
    BY SMTT(40), BoxFields, QueueCarries
  <2>5. Number(b.results, C) = d + e
    BY <1>1, <2>2, <2>4
  <2>6. e \in Nat
    OBVIOUS
  <2> HIDE DEF C, e, rb, rc
  <2>7. Weight(b, P) = Weight(c, P) + e /\ Weight(c, P) \in Nat
    BY <2>1, <2>2, <2>3, <2>5, <2>6
  <2> QED
    BY <2>7 DEF e
<1>7. ASSUME NEW types
      PROVE  Count(b.results, types) =
                    Count(c.results, types) + (IF m.type \in types THEN 1 ELSE 0)
  <2>1. Count(b.results, types) =
            Count(Tail(b.results), types) + (IF m.type \in types THEN 1 ELSE 0)
    BY BoxFields, QueueCount
  <2>2. Count(c.results, types) = Count(Tail(b.results), types)
    BY <1>1, Zenon
  <2> QED
    BY <2>1, <2>2
<1>8. AnswerLast(b.results) => AnswerLast(c.results)
  BY <1>1, BoxFields, AnswerStaysLast
<1> QED
  BY <1>1, <1>2, <1>3, <1>4, <1>5, <1>6, <1>7, <1>8

\* A kitchen opened is well formed, quiet and owes nothing.
LEMMA BoxOpened ==
    ASSUME NEW c, c = [Unborn EXCEPT !.phase = "open"]
    PROVE  /\ c \in Box /\ BoxInv(c) /\ c.phase = "open" /\ Unborn \in Box
           /\ \A P : NoPizza \notin P => Weight(c, P) = 0 /\ Weight(Unborn, P) = 0
           /\ Count(c.orders, {"Shutdown"}) = 0 /\ Quiet(c) /\ Quiet(Unborn)
<1>1. /\ c.orders = <<>> /\ c.results = <<>> /\ c.line = <<>> /\ c.hands = {} /\ c.releasing = 0
      /\ c.refused = NoPizza /\ c.replies = 0 /\ c.phase = "open"
      /\ Unborn.orders = <<>> /\ Unborn.results = <<>> /\ Unborn.line = <<>> /\ Unborn.hands = {}
      /\ Unborn.refused = NoPizza /\ Unborn.replies = 0
  BY DEF Unborn
<1>2. c \in Box /\ Unborn \in Box
  <2>1. 0 \in 0 .. NCooks + 1
    BY Constants
  <2>2. Unborn \in Box
    BY <2>1 DEF Unborn, Box, Phase
  <2>3. "open" \in Phase
    BY DEF Phase
  <2> QED
    BY <2>2, <2>3 DEF Box
<1>3. BoxInv(c)
  <2>1. DOMAIN c.orders = {} /\ DOMAIN c.results = {}
    BY <1>1
  <2>2. Cardinality(c.hands) = 0
    BY <1>1, FS_EmptySet, Zenon
  <2> QED
    BY <1>1, <2>1, <2>2, Constants DEF BoxInv
<1>4. ASSUME NEW P, NoPizza \notin P, NEW x \in {c, Unborn}
      PROVE  Weight(x, P) = 0
  <2>1. /\ x.orders = <<>> /\ x.results = <<>> /\ x.line = <<>> /\ x.hands = {}
        /\ x.refused = NoPizza
    BY <1>1
  <2>2. Number(x.orders, Carrying(P)) = 0 /\ Number(x.line, P) = 0 /\ Number(x.results, Carrying(P)) = 0
    BY <2>1, NumberEmpty
  <2>3. x.hands \cap P = {}
    BY <2>1
  <2>4. Cardinality(x.hands \cap P) = 0
    BY <2>3, FS_EmptySet, Zenon
  <2>5. (IF x.refused \in P THEN 1 ELSE 0) = 0
    BY <1>4, <2>1
  <2> QED
    BY <2>2, <2>4, <2>5 DEF Weight
<1>5. \A types : Count(<<>>, types) = 0
  <2>1. <<>> \in Seq(Message({}))
    OBVIOUS
  <2> QED
    BY <2>1, CountIsNumber, NumberEmpty
<1>6. Count(c.orders, {"Shutdown"}) = 0 /\ Quiet(c) /\ Quiet(Unborn)
  BY <1>1, <1>5 DEF Quiet, Asked, Said, Replied
<1> QED
  BY <1>1, <1>2, <1>3, <1>4, <1>6

-----------------------------------------------------------------------------
(* The steps on the kitchens.                                              *)

\* Only kitchen k is touched.
Elsewhere(k) ==
    /\ kitchens' \in [KitchenId -> Box] /\ Boxes'
    /\ \A j \in KitchenId : j # k => kitchens'[j] = kitchens[j]

\* Replacing kitchen k by a well formed one touches only k.
LEMMA OneBoxChanges ==
    ASSUME Types, Boxes, NEW k \in KitchenId, NEW c \in Box, BoxInv(c),
           kitchens' = [kitchens EXCEPT ![k] = c]
    PROVE  kitchens'[k] = c /\ Elsewhere(k)
<1>1. kitchens \in [KitchenId -> Box]
  BY DEF Types
<1>2. /\ kitchens' \in [KitchenId -> Box] /\ kitchens'[k] = c
      /\ \A j \in KitchenId : j # k => kitchens'[j] = kitchens[j]
  BY <1>1
<1>3. Boxes'
  BY <1>2 DEF Boxes
<1> QED
  BY <1>2, <1>3 DEF Elsewhere

\* A Send to kitchen k touches only its orders queue.
LEMMA SendStep ==
    ASSUME Types, Boxes, NEW k \in KitchenId, kitchens[k].phase # "unborn",
           NEW type \in OrderType, NEW p \in Pizza \cup {NoPizza},
           type = "Pizza" <=> p \in Pizza, Send(k, Packet(type, p))
    PROVE  /\ Elsewhere(k)
           /\ kitchens'[k] = [kitchens[k] EXCEPT !.orders = Append(@, Packet(type, p))]
<1> DEFINE c == [kitchens[k] EXCEPT !.orders = Append(@, Packet(type, p))]
<1>1. kitchens[k] \in Box /\ BoxInv(kitchens[k]) /\ DOMAIN kitchens = KitchenId
  BY DEF Types, Boxes
<1>2. c \in Box /\ BoxInv(c)
  BY <1>1, BoxSent
<1>3. kitchens' = [kitchens EXCEPT ![k] = c]
  BY <1>1 DEF Send
<1> QED
  BY <1>2, <1>3, OneBoxChanges

\* A Receive from kitchen k takes the head of its results queue.
LEMMA ReceiveStep ==
    ASSUME Types, Boxes, NEW k \in KitchenId, Receive(k)
    PROVE  /\ Elsewhere(k) /\ kitchens[k].results # <<>>
           /\ kitchens'[k] = [kitchens[k] EXCEPT !.results = Tail(@)]
<1> DEFINE c == [kitchens[k] EXCEPT !.results = Tail(@)]
<1>1. kitchens[k] \in Box /\ BoxInv(kitchens[k]) /\ DOMAIN kitchens = KitchenId
      /\ kitchens[k].results # <<>>
  BY DEF Types, Boxes, Receive
<1>2. c \in Box /\ BoxInv(c)
  BY <1>1, BoxReceived
<1>3. kitchens' = [kitchens EXCEPT ![k] = c]
  BY <1>1 DEF Receive
<1> QED
  BY <1>1, <1>2, <1>3, OneBoxChanges

\* A Spawn makes an unborn kitchen an open one.
LEMMA SpawnStep ==
    ASSUME Types, Boxes, NEW k \in KitchenId, Spawn(k)
    PROVE  /\ Elsewhere(k) /\ kitchens[k] = Unborn
           /\ kitchens'[k] = [Unborn EXCEPT !.phase = "open"]
<1> DEFINE c == [Unborn EXCEPT !.phase = "open"]
<1>1. BoxInv(kitchens[k]) /\ DOMAIN kitchens = KitchenId /\ kitchens[k].phase = "unborn"
  BY DEF Types, Boxes, Spawn
<1>2. kitchens[k] = Unborn
  BY <1>1 DEF BoxInv
<1>3. c \in Box /\ BoxInv(c)
  BY BoxOpened
<1>4. kitchens' = [kitchens EXCEPT ![k] = c]
  <2>1. kitchens' = [kitchens EXCEPT ![k] = [kitchens[k] EXCEPT !.phase = "open"]]
    BY <1>1 DEF Spawn
  <2> QED
    BY <1>2, <2>1
<1> QED
  BY <1>2, <1>3, <1>4, OneBoxChanges

\* RequestStatus puts one request in the queue of each kitchen alive.
LEMMA RequestStep ==
    ASSUME Types, Boxes, Handles, RequestStatus
    PROVE  /\ kitchens' \in [KitchenId -> Box] /\ Boxes'
           /\ \A k \in KitchenId \ Alive : kitchens'[k] = kitchens[k]
           /\ \A k \in Alive :
                /\ k \in KitchenId /\ kitchens[k].phase # "unborn"
                /\ kitchens'[k] = [kitchens[k] EXCEPT
                                     !.orders = Append(@, Packet("StatusRequest", NoPizza))]
<1>1. \A k \in KitchenId :
        kitchens'[k] = IF k \in Alive
                       THEN [kitchens[k] EXCEPT !.orders = Append(@, Packet("StatusRequest", NoPizza))]
                       ELSE kitchens[k]
  BY Packets DEF RequestStatus
<1>2. \A k \in KitchenId : kitchens[k] \in Box /\ BoxInv(kitchens[k])
  BY DEF Types, Boxes
<1>3. \A k \in Alive : k \in KitchenId /\ kitchens[k].phase # "unborn"
  BY DEF Alive, Handles, Types
<1>4. \A k \in KitchenId : kitchens'[k] \in Box /\ BoxInv(kitchens'[k])
  <2> SUFFICES ASSUME NEW k \in KitchenId
               PROVE  kitchens'[k] \in Box /\ BoxInv(kitchens'[k])
    OBVIOUS
  <2>1. CASE k \in Alive
    <3>1. "StatusRequest" \in OrderType /\ NoPizza \notin Pizza
      BY Constants DEF OrderType
    <3> DEFINE c == [kitchens[k] EXCEPT !.orders = Append(@, Packet("StatusRequest", NoPizza))]
    <3>2. c \in Box /\ BoxInv(c)
      BY <1>2, <1>3, <2>1, <3>1, BoxSent
    <3> QED
      BY <1>1, <2>1, <3>2
  <2>2. CASE k \notin Alive
    BY <1>1, <1>2, <2>2
  <2> QED
    BY <2>1, <2>2
<1>5. kitchens' \in [KitchenId -> Box]
  <2>1. kitchens' = [k \in KitchenId |-> kitchens'[k]]
    BY DEF RequestStatus
  <2> QED
    BY <1>4, <2>1
<1>6. Boxes'
  BY <1>4 DEF Boxes
<1> QED
  BY <1>1, <1>3, <1>5, <1>6

\* The pizza a cook takes is not in the hands of another: it would be in two
\* places.
LEMMA HeadIsFree ==
    ASSUME Types, OnePlace, NEW k \in KitchenId, kitchens[k].line # <<>>
    PROVE  Head(kitchens[k].line) \notin kitchens[k].hands
<1> DEFINE b == kitchens[k]
           p == Head(b.line)
<1>1. b \in Box
  BY DEF Types
<1>2. b.line \in Seq(Pizza) /\ p \in Pizza
  BY <1>1, BoxFields, QueueEnds
<1>3. Weight(b, {p}) \in {0, 1}
  BY <1>2 DEF OnePlace, InOnePlace
<1> SUFFICES ASSUME p \in b.hands PROVE FALSE
  OBVIOUS
<1>4. b.hands \cap {p} = {p}
  OBVIOUS
<1>5. Cardinality(b.hands \cap {p}) = 1
  BY <1>4, FS_Singleton, Zenon
<1>6. Number(b.line, {p}) # 0
  <2>1. 1 \in DOMAIN b.line /\ b.line[1] = p
    BY <1>2, QueueEnds
  <2> QED
    BY <1>2, <2>1, NumberZero
<1> DEFINE C == Carrying({p})
           r == IF b.refused \in {p} THEN 1 ELSE 0
<1>7. Weight(b, {p}) = Number(b.orders, C) + r + Number(b.line, {p})
                       + Cardinality(b.hands \cap {p}) + Number(b.results, C)
  BY DEF Weight
<1>8. Number(b.orders, C) \in Nat /\ Number(b.line, {p}) \in Nat /\ Number(b.results, C) \in Nat /\ r \in Nat
  BY <1>1, WeightParts
<1> HIDE DEF C, r, p, b
<1> QED
  BY <1>3, <1>5, <1>6, <1>7, <1>8

\* A kitchen process moves by one of the steps of BoxStep, for itself only.
LEMMA ProcessStep ==
    ASSUME Types, Boxes, OnePlace, NEW k \in KitchenId, KitchenStep(k)
    PROVE  /\ Elsewhere(k)
           /\ kitchens[k] \in Box /\ BoxInv(kitchens[k])
           /\ BoxStep(kitchens[k], kitchens'[k])
           /\ \A P \in SUBSET Pizza : Weight(kitchens'[k], P) = Weight(kitchens[k], P)
<1>1. kitchens[k] \in Box /\ BoxInv(kitchens[k])
  BY DEF Types, Boxes
<1>2. Only(k) /\ BoxStep(kitchens[k], kitchens'[k])
  BY KitchenSteps
<1>3. PICK c : kitchens' = [kitchens EXCEPT ![k] = c]
  BY <1>2 DEF Only
<1>4. kitchens'[k] = c
  BY <1>3 DEF Types
<1>5. c \in Box /\ BoxInv(c)
  BY <1>1, <1>2, <1>4, BoxStepTypes, BoxStepInv
<1>6. Elsewhere(k)
  BY <1>3, <1>5, OneBoxChanges
<1>7. \A P \in SUBSET Pizza : Weight(kitchens'[k], P) = Weight(kitchens[k], P)
  BY <1>1, <1>2, HeadIsFree, BoxStepWeight
<1> QED
  BY <1>1, <1>2, <1>6, <1>7

-----------------------------------------------------------------------------
(* The steps keep the invariant, part by part.                             *)

\* Every step keeps the kitchens well formed.
LEMMA BoxesStep ==
    ASSUME IInv, ReceptionNext
    PROVE  kitchens' \in [KitchenId -> Box] /\ Boxes'
<1>0. Types /\ Boxes /\ OnePlace /\ Handles /\ kitchens \in [KitchenId -> Box]
  BY DEF IInv, Types
<1>1. ASSUME UNCHANGED kitchens
      PROVE  kitchens' \in [KitchenId -> Box] /\ Boxes'
  BY <1>0, <1>1 DEF Boxes
<1>2. CASE RequestStatus
  BY <1>0, <1>2, RequestStep
<1>3. ASSUME NEW k \in KitchenId, HandlePacket(k)
      PROVE  kitchens' \in [KitchenId -> Box] /\ Boxes'
  BY <1>0, <1>3, ReceiveStep
  DEF Elsewhere, HandlePacket, HandleDone, HandleFull, HandleCookStatus, HandleStatusReply,
      HandleShutdown, Gets
<1>4. CASE SpawnKitchen
  BY <1>0, <1>4, SpawnStep DEF SpawnKitchen, Elsewhere
<1>5. CASE SendPizza
  <2>1. Best \in KitchenId /\ kitchens[Best].phase # "unborn"
    BY <1>0, <1>5, BestHasLeastLoad DEF SendPizza, WithRoom, Alive, Types, Handles
  <2>2. Head(todo) \in Pizza /\ NoPizza \notin Pizza
    BY SMTT(40), <1>0, <1>5, Constants DEF SendPizza, Types
  <2>3. Elsewhere(Best)
    BY <1>0, <1>5, <2>1, <2>2, SendStep DEF SendPizza, OrderType
  <2> QED
    BY <2>3 DEF Elsewhere
<1>6. CASE CommandShutdown
  <2>1. Head(visit) \in roster /\ Head(visit) \in KitchenId
    <3>1. visit \in Seq(KitchenId) /\ visit # <<>>
      BY <1>0, <1>6 DEF CommandShutdown, Types
    <3>2. Head(visit) = visit[1] /\ 1 \in DOMAIN visit
      BY <3>1, QueueEnds
    <3> QED
      BY <1>0, <3>2 DEF IInv, Control, Types
  <2>2. kitchens[Head(visit)].phase # "unborn" /\ NoPizza \notin Pizza
    BY <1>0, <2>1, Constants DEF Handles
  <2>3. Elsewhere(Head(visit))
    BY <1>0, <1>6, <2>1, <2>2, SendStep, Packets DEF CommandShutdown, OrderType
  <2> QED
    BY <2>3 DEF Elsewhere
<1>7. CASE Processes
  BY <1>0, <1>7, ProcessStep DEF Processes, Elsewhere
<1> QED
  BY <1>1, <1>2, <1>3, <1>4, <1>5, <1>6, <1>7
  DEF ReceptionNext, Customer, Working, ReceptionDone, PlaceOrder, Poll, EndOfInput, Reap, NextKitchen,
      FinishDraining, SpawnFails, FinishDispatch, WaitForExit, FinishShutdown, vars

\* The next kitchen of the visit.
LEMMA VisitHead ==
    ASSUME IInv, visit # <<>>
    PROVE  /\ Head(visit) = visit[1] /\ 1 \in DOMAIN visit
           /\ Head(visit) \in roster /\ Head(visit) \in KitchenId
           /\ Tail(visit) \in Seq(KitchenId)
           /\ \A i \in DOMAIN visit : i # 1 => visit[i] # Head(visit)
           /\ kitchens[Head(visit)].phase # "unborn"
<1>1. visit \in Seq(KitchenId)
  BY DEF IInv, Types
<1>2. Head(visit) = visit[1] /\ 1 \in DOMAIN visit /\ Head(visit) \in KitchenId
      /\ Tail(visit) \in Seq(KitchenId)
  BY <1>1, QueueEnds
<1> QED
  BY <1>2 DEF IInv, Control, Handles

\* A handle stays one when its cooks are forgotten or its kitchen is gone.
LEMMA HandleChanges ==
    ASSUME NEW h \in Handle
    PROVE  [h EXCEPT !.cooks = 0] \in Handle /\ [h EXCEPT !.alive = FALSE] \in Handle
<1>1. 0 \in 0 .. NCooks /\ FALSE \in BOOLEAN
  BY Constants
<1>2. [h EXCEPT !.cooks = 0] \in Handle
  BY <1>1 DEF Handle
<1>3. [h EXCEPT !.alive = FALSE] \in Handle
  BY <1>1 DEF Handle
<1> QED
  BY <1>2, <1>3

\* Every step keeps the types.
LEMMA TypesStep ==
    ASSUME IInv, ReceptionNext
    PROVE  Types'
<1>0. Types /\ kitchens' \in [KitchenId -> Box]
  BY BoxesStep DEF IInv
<1>1. /\ NCooks \in Nat /\ Capacity \in Nat /\ MaxKitchens \in Nat /\ MaxOrders \in Nat
      /\ MaxSize \in Nat /\ MaxStatus \in Nat /\ KitchenId = 0 .. MaxKitchens - 1
  BY Constants, ReceptionAssumption DEF KitchenId
<1>2. \A ids \in SUBSET KitchenId : InOrder(ids) \in Seq(KitchenId)
  <2> TAKE ids \in SUBSET KitchenId
  <2>1. InOrder(ids) \in Seq(ids)
    BY InOrderVisits
  <2> QED
    BY <2>1
<1>3. roster \in SUBSET KitchenId /\ Alive \in SUBSET KitchenId
  BY <1>0 DEF Types, Alive
<1>4. ASSUME NEW n \in 1 .. MaxSize, PlaceOrder(n)
      PROVE  Types'
  <2> DEFINE id == Len(sizes) + 1
  <2>1. id \in OrderId /\ Len(sizes) < MaxOrders /\ sizes \in Seq(1 .. MaxSize) /\ Len(sizes) \in Nat
    BY <1>0, <1>1, <1>4 DEF PlaceOrder, Types, OrderId
  <2>2. sizes' \in Seq(1 .. MaxSize) /\ Len(sizes') <= MaxOrders
    BY <1>1, <1>4, <2>1 DEF PlaceOrder
  <2>3. pending' \in Seq([id : OrderId, left : 1 .. MaxSize])
    BY <1>0, <1>4, <2>1 DEF PlaceOrder, Types
  <2>4. todo' \in Seq(Pizza)
    <3>1. \A i \in 1 .. n : <<id, i>> \in Pizza
      BY <1>1, <2>1 DEF Pizza
    <3>2. n \in Nat
      BY <1>1
    <3> QED
      BY <1>4, <3>1, <3>2 DEF PlaceOrder
  <2>5. visit' \in Seq(KitchenId)
    BY <1>2, <1>3, <1>4 DEF PlaceOrder
  <2> QED
    BY <1>0, <1>4, <2>2, <2>3, <2>4, <2>5 DEF PlaceOrder, Types
<1>5. CASE Poll
  <2>1. visit' \in Seq(KitchenId)
    BY <1>2, <1>3, <1>5 DEF Poll
  <2> QED
    BY <1>0, <1>5, <2>1 DEF Poll, Types, orderVars
<1>6. CASE RequestStatus
  <2>1. visit' \in Seq(KitchenId)
    BY <1>2, <1>3, <1>6 DEF RequestStatus
  <2>2. handle' \in [KitchenId -> Handle]
    <3>1. \A k \in KitchenId : handle[k] \in Handle /\ [handle[k] EXCEPT !.cooks = 0] \in Handle
      BY <1>0, HandleChanges DEF Types
    <3> QED
      BY <1>6, <3>1 DEF RequestStatus
  <2>3. statuses' \in 0 .. MaxStatus
    BY SMTT(40), <1>0, <1>1, <1>6 DEF RequestStatus, Types
  <2> QED
    BY <1>0, <1>6, <2>1, <2>2, <2>3 DEF RequestStatus, Types, orderVars
<1>7. CASE EndOfInput
  <2>1. visit' \in Seq(KitchenId)
    BY <1>2, <1>3, <1>7 DEF EndOfInput
  <2> QED
    BY <1>0, <1>7, <2>1 DEF EndOfInput, Types, orderVars
<1>8. ASSUME NEW k \in KitchenId, Receive(k)
      PROVE  /\ Head(kitchens[k].results).type \in {"Done", "Full"} =>
                    Head(kitchens[k].results).pizza \in Pizza
             /\ OneLessLoad(k) => handle' \in [KitchenId -> Handle]
  <2>1. kitchens[k] \in Box /\ BoxInv(kitchens[k]) /\ kitchens[k].results # <<>>
    BY <1>8 DEF IInv, Types, Boxes, Receive
  <2>2. Head(kitchens[k].results).type \in {"Done", "Full"} =>
                    Head(kitchens[k].results).pizza \in Pizza
    BY <2>1, BoxReceived
  <2>3. ASSUME OneLessLoad(k)
        PROVE  handle' \in [KitchenId -> Handle]
    <3>1. handle[k] \in Handle /\ handle \in [KitchenId -> Handle]
      BY <1>0 DEF Types
    <3>2. (IF handle[k].load > 0 THEN handle[k].load - 1 ELSE 0) \in 0 .. Capacity
      BY <1>1, <3>1 DEF Handle
    <3>3. [handle[k] EXCEPT !.load = IF handle[k].load > 0 THEN handle[k].load - 1 ELSE 0] \in Handle
      BY <3>1, <3>2 DEF Handle
    <3> QED
      BY <2>3, <3>1, <3>3 DEF OneLessLoad
  <2> QED
    BY <2>2, <2>3
<1>9. ASSUME NEW k \in KitchenId, HandleDone(k)
      PROVE  Types'
  <2>1. handle' \in [KitchenId -> Handle] /\ ready' \in SUBSET Pizza
    BY <1>0, <1>8, <1>9 DEF HandleDone, Gets, Types
  <2>2. /\ pending' \in Seq([id : OrderId, left : 1 .. MaxSize])
        /\ announced' \in Seq(OrderId)
    <3>1. pending \in Seq([id : OrderId, left : 1 .. MaxSize]) /\ announced \in Seq(OrderId)
      BY <1>0 DEF Types
    <3>2. CASE pending = <<>>
      BY <1>9, <3>1, <3>2 DEF HandleDone, CountDone
    <3>3. CASE pending # <<>> /\ Head(pending).left = 1
      <4>1. /\ Tail(pending) \in Seq([id : OrderId, left : 1 .. MaxSize])
            /\ Head(pending) \in [id : OrderId, left : 1 .. MaxSize]
        BY <3>1, <3>3, QueueEnds
      <4>2. Append(announced, Head(pending).id) \in Seq(OrderId)
        BY <3>1, <4>1
      <4>3. pending' = Tail(pending) /\ announced' = Append(announced, Head(pending).id)
        BY <1>9, <3>3 DEF HandleDone, CountDone
      <4> QED
        BY <4>1, <4>2, <4>3
    <3>4. CASE pending # <<>> /\ Head(pending).left # 1
      <4>1. /\ 1 \in DOMAIN pending /\ pending[1] \in [id : OrderId, left : 1 .. MaxSize]
            /\ Head(pending) = pending[1]
        BY <3>1, <3>4, QueueEnds
      <4>2. pending[1].left - 1 \in 1 .. MaxSize
        BY <1>1, <3>4, <4>1
      <4>3. pending' = [pending EXCEPT ![1] = [pending[1] EXCEPT !.left = pending[1].left - 1]]
        BY <1>9, <3>4, <4>1 DEF HandleDone, CountDone
      <4>4. [pending[1] EXCEPT !.left = pending[1].left - 1] \in [id : OrderId, left : 1 .. MaxSize]
        BY <4>1, <4>2
      <4>5. pending' \in Seq([id : OrderId, left : 1 .. MaxSize])
        BY <3>1, <4>1, <4>3, <4>4
      <4> QED
        BY <1>9, <3>1, <3>4, <4>5 DEF HandleDone, CountDone
    <3> QED
      BY <3>2, <3>3, <3>4
  <2> QED
    BY <1>0, <1>9, <2>1, <2>2 DEF HandleDone, Types, callVars
<1>10. ASSUME NEW k \in KitchenId, HandleFull(k)
       PROVE  Types'
  <2>1. handle' \in [KitchenId -> Handle] /\ dropped' \in SUBSET Pizza
    BY <1>0, <1>8, <1>10 DEF HandleFull, Gets, Types
  <2> QED
    BY <1>0, <1>10, <2>1 DEF HandleFull, Types, callVars
<1>11. ASSUME NEW k \in KitchenId, HandleCookStatus(k)
       PROVE  Types'
  <2>1. handle[k] \in Handle /\ handle \in [KitchenId -> Handle] /\ handle[k].alive
    BY <1>0, <1>11 DEF Types, HandleCookStatus, Gets
  <2>2. Said(kitchens[k]) >= 1 /\ Said(kitchens[k]) \in Nat
    <3>1. kitchens[k] \in Box /\ BoxInv(kitchens[k]) /\ kitchens[k].results # <<>>
          /\ Head(kitchens[k].results).type = "CookStatus"
      BY <1>11 DEF HandleCookStatus, Gets, Receive, IInv, Types, Boxes
    <3>2. Said(kitchens[k]) = Count(Tail(kitchens[k].results), {"CookStatus"}) + 1
      BY <3>1, BoxFields, QueueCount DEF Said
    <3>3. Tail(kitchens[k].results) \in Seq(Message(ResultType))
      BY <3>1, BoxFields, QueueEnds
    <3>4. Count(Tail(kitchens[k].results), {"CookStatus"}) \in Nat
      BY <3>3, QueueCount
    <3> QED
      BY <3>2, <3>4
  <2>3. handle[k].cooks + 1 \in 0 .. NCooks
    <3>1. kitchens[k].replies \in Nat /\ handle[k].cooks \in 0 .. NCooks
      BY <1>0, <2>1 DEF Types, Box, Handle
    <3>2. \/ Answering(kitchens[k], handle[k].cooks) \/ Answered(kitchens[k], handle[k].cooks)
      BY <2>1, <2>2 DEF IInv, Statuses, Quiet, Asking
    <3> QED
      BY <1>1, <2>2, <3>1, <3>2 DEF Answering, Answered
  <2>4. [handle[k] EXCEPT !.cooks = handle[k].cooks + 1] \in Handle
    BY <2>1, <2>3 DEF Handle
  <2>5. handle' \in [KitchenId -> Handle]
    BY <1>11, <2>1, <2>4 DEF HandleCookStatus
  <2> QED
    BY <1>0, <1>11, <2>5 DEF HandleCookStatus, Types, callVars, orderVars
<1>12. ASSUME NEW k \in KitchenId, HandleStatusReply(k) \/ HandleShutdown(k)
       PROVE  Types'
  <2>1. handle[k] \in Handle /\ handle \in [KitchenId -> Handle]
    BY <1>0 DEF Types
  <2>2. [handle[k] EXCEPT !.cooks = 0] \in Handle /\ [handle[k] EXCEPT !.alive = FALSE] \in Handle
    BY <2>1, HandleChanges
  <2>3. handle' \in [KitchenId -> Handle]
    BY <1>12, <2>1, <2>2 DEF HandleStatusReply, HandleShutdown
  <2> QED
    BY <1>0, <1>12, <2>3 DEF HandleStatusReply, HandleShutdown, Types, orderVars
<1>13. CASE Reap
  BY <1>0, <1>13 DEF Reap, Types, orderVars
<1>14. CASE NextKitchen
  <2>1. visit' \in Seq(KitchenId)
    <3>1. Tail(visit) \in Seq(KitchenId) /\ Head(visit) \in KitchenId
      BY <1>14, VisitHead DEF NextKitchen
    <3>2. Append(Tail(visit), Head(visit)) \in Seq(KitchenId)
      BY <3>1
    <3> QED
      BY <1>14, <3>1, <3>2 DEF NextKitchen
  <2> QED
    BY <1>0, <1>14, <2>1 DEF NextKitchen, Types, orderVars
<1>15. CASE FinishDraining
  <2>1. NoHandle \in Handle
    BY <1>1 DEF NoHandle, Handle
  <2>2. handle' \in [KitchenId -> Handle]
    BY <1>0, <1>15, <2>1 DEF FinishDraining, Types
  <2>3. roster' \in SUBSET KitchenId
    BY <1>3, <1>15 DEF FinishDraining
  <2> QED
    BY <1>0, <1>15, <2>2, <2>3 DEF FinishDraining, Types, orderVars
<1>16. CASE SpawnKitchen
  <2>1. NewHandle \in Handle
    BY <1>1 DEF NewHandle, Handle
  <2>2. handle' \in [KitchenId -> Handle] /\ roster' \in SUBSET KitchenId
    BY <1>0, <1>16, <2>1 DEF SpawnKitchen, Types
  <2>3. nextKitchen' \in 0 .. MaxKitchens + 1
    BY <1>0, <1>1, <1>16 DEF SpawnKitchen, Types
  <2> QED
    BY <1>0, <1>16, <2>2, <2>3 DEF SpawnKitchen, Types, orderVars, callVars
<1>17. CASE SpawnFails
  <2>1. nextKitchen' \in 0 .. MaxKitchens + 1
    BY <1>0, <1>1, <1>17 DEF SpawnFails, Types, IInv, Control
  <2>2. visit' \in Seq(KitchenId)
    BY <1>2, <1>3, <1>17 DEF SpawnFails
  <2> QED
    BY <1>0, <1>17, <2>1, <2>2 DEF SpawnFails, Types, orderVars
<1>18. CASE SendPizza
  <2>1. Best \in KitchenId /\ handle[Best].load < Capacity
    BY <1>0, <1>18, BestHasLeastLoad DEF SendPizza, WithRoom, Alive, Types
  <2>2. handle[Best] \in Handle /\ handle \in [KitchenId -> Handle]
    BY <1>0, <2>1 DEF Types
  <2>3. handle[Best].load + 1 \in 0 .. Capacity
    BY <1>1, <2>1, <2>2 DEF Handle
  <2>4. [handle[Best] EXCEPT !.load = handle[Best].load + 1] \in Handle
    BY <2>2, <2>3 DEF Handle
  <2>5. handle' \in [KitchenId -> Handle]
    BY <1>18, <2>1, <2>2, <2>4 DEF SendPizza
  <2>6. todo' \in Seq(Pizza)
    BY <1>0, <1>18 DEF SendPizza, Types
  <2> QED
    BY <1>0, <1>18, <2>5, <2>6 DEF SendPizza, Types, orderVars
<1>19. CASE FinishDispatch \/ CommandShutdown \/ FinishShutdown
  BY <1>0, <1>19 DEF FinishDispatch, CommandShutdown, FinishShutdown, Types, orderVars
<1>20. CASE WaitForExit
  <2>1. Head(visit) \in KitchenId /\ Tail(visit) \in Seq(KitchenId)
    BY <1>20, VisitHead DEF WaitForExit, IInv, Control
  <2>2. handle[Head(visit)] \in Handle /\ handle \in [KitchenId -> Handle]
    BY <1>0, <2>1 DEF Types
  <2>3. [handle[Head(visit)] EXCEPT !.alive = FALSE] \in Handle
    BY <2>2 DEF Handle
  <2>4. handle' \in [KitchenId -> Handle]
    BY <1>20, <2>1, <2>2, <2>3 DEF WaitForExit
  <2> QED
    BY <1>0, <1>20, <2>1, <2>4 DEF WaitForExit, Types, orderVars
<1>21. CASE Processes
  BY <1>0, <1>21 DEF Processes, Types, orderVars, callVars
<1>22. CASE ReceptionDone
  BY <1>0, <1>22 DEF ReceptionDone, vars, Types, orderVars, callVars
<1> QED
  BY <1>4, <1>5, <1>6, <1>7, <1>9, <1>10, <1>11, <1>12, <1>13, <1>14, <1>15, <1>16, <1>17, <1>18,
     <1>19, <1>20, <1>21, <1>22
  DEF ReceptionNext, Customer, Working, HandlePacket

\* A visit of kitchens of the roster, each once.
Visiting(s, ids) ==
    /\ \A i \in DOMAIN s : s[i] \in ids
    /\ \A i, j \in DOMAIN s : s[i] = s[j] => i = j

\* A visit that goes on, or a new one, goes to each kitchen at most once.
LEMMA VisitingStays ==
    ASSUME IInv
    PROVE  /\ Visiting(visit, roster)
           /\ visit # <<>> =>
                /\ Visiting(Tail(visit), roster)
                /\ Visiting(Append(Tail(visit), Head(visit)), roster)
                /\ Append(Tail(visit), Head(visit)) # <<>>
           /\ Visiting(InOrder(roster), roster) /\ Visiting(InOrder(Alive), roster)
<1>1. visit \in Seq(KitchenId) /\ Visiting(visit, roster) /\ roster \in SUBSET KitchenId
  BY DEF IInv, Types, Control, Visiting
<1>2. ASSUME visit # <<>>
      PROVE  /\ Visiting(Tail(visit), roster)
             /\ Visiting(Append(Tail(visit), Head(visit)), roster)
             /\ Append(Tail(visit), Head(visit)) # <<>>
  <2>0. Len(visit) \in Nat
    BY <1>1
  <2>1. /\ Head(visit) = visit[1] /\ Head(visit) \in KitchenId /\ 1 \in DOMAIN visit
        /\ Tail(visit) \in Seq(KitchenId) /\ Len(Tail(visit)) = Len(visit) - 1
        /\ DOMAIN Tail(visit) = 1 .. Len(visit) - 1 /\ Len(visit) \in Nat
        /\ \A i \in DOMAIN Tail(visit) : Tail(visit)[i] = visit[i + 1] /\ i + 1 \in DOMAIN visit
    BY <1>1, <1>2, QueueEnds
  <2>2. /\ Append(Tail(visit), Head(visit)) # <<>>
        /\ DOMAIN Append(Tail(visit), Head(visit)) = 1 .. Len(visit)
        /\ \A i \in 1 .. Len(visit) :
              Append(Tail(visit), Head(visit))[i] =
                  IF i = Len(visit) THEN Head(visit) ELSE Tail(visit)[i]
    <3> DEFINE q == Tail(visit)
               m == Head(visit)
    <3>1. q \in Seq(KitchenId) /\ m \in KitchenId /\ Len(q) + 1 = Len(visit)
      BY <2>1
    <3> HIDE DEF q, m
    <3>2. /\ Append(q, m) # <<>> /\ DOMAIN Append(q, m) = 1 .. Len(q) + 1
          /\ \A i \in DOMAIN Append(q, m) : Append(q, m)[i] = IF i = Len(q) + 1 THEN m ELSE q[i]
      BY <3>1, QueueEnds
    <3>3. /\ Append(q, m) # <<>> /\ DOMAIN Append(q, m) = 1 .. Len(visit)
          /\ \A i \in 1 .. Len(visit) : Append(q, m)[i] = IF i = Len(visit) THEN m ELSE q[i]
      BY <3>1, <3>2, Zenon
    <3> QED
      BY <3>3 DEF q, m
  <2>3. Visiting(Tail(visit), roster)
    BY <1>1, <2>1 DEF Visiting
  <2> DEFINE s == Append(Tail(visit), Head(visit))
             at == [i \in 1 .. Len(visit) |-> IF i = Len(visit) THEN 1 ELSE i + 1]
  <2>4. \A i \in 1 .. Len(visit) : at[i] \in DOMAIN visit /\ s[i] = visit[at[i]]
    <3> TAKE i \in 1 .. Len(visit)
    <3>1. CASE i = Len(visit)
      BY <2>1, <2>2, <3>1
    <3>2. CASE i # Len(visit)
      <4>1. i \in 1 .. Len(visit) - 1 /\ at[i] = i + 1
        BY <2>0, <3>2
      <4> QED
        BY <2>1, <2>2, <3>2, <4>1
    <3> QED
      BY <3>1, <3>2
  <2>5. \A i, j \in 1 .. Len(visit) : at[i] = at[j] => i = j
    <3> SUFFICES ASSUME NEW i \in 1 .. Len(visit), NEW j \in 1 .. Len(visit), at[i] = at[j]
                 PROVE  i = j
      OBVIOUS
    <3>1. i \in Nat /\ j \in Nat /\ i > 0 /\ j > 0
      BY <2>0
    <3> QED
      BY <3>1
  <2>6. DOMAIN s = 1 .. Len(visit)
    BY <2>2
  <2> HIDE DEF s, at
  <2>7. Visiting(s, roster)
    <3>1. \A i \in DOMAIN s : s[i] \in roster
      BY <1>1, <2>4, <2>6 DEF Visiting
    <3>2. \A i, j \in DOMAIN s : s[i] = s[j] => i = j
      BY <1>1, <2>4, <2>5, <2>6 DEF Visiting
    <3> QED
      BY <3>1, <3>2 DEF Visiting
  <2> QED
    BY <2>2, <2>3, <2>7 DEF s
<1>3. \A ids \in SUBSET roster : Visiting(InOrder(ids), roster)
  <2> TAKE ids \in SUBSET roster
  <2>1. /\ InOrder(ids) \in Seq(ids)
        /\ \A i, j \in DOMAIN InOrder(ids) : InOrder(ids)[i] = InOrder(ids)[j] => i = j
    BY <1>1, InOrderVisits
  <2>2. \A i \in DOMAIN InOrder(ids) : InOrder(ids)[i] \in ids
    BY <2>1
  <2> QED
    BY <2>1, <2>2 DEF Visiting
<1>4. Alive \in SUBSET roster
  BY DEF Alive
<1> QED
  BY <1>1, <1>2, <1>3, <1>4

\* Every step keeps what the place of the thread says.
LEMMA ControlStep ==
    ASSUME IInv, ReceptionNext
    PROVE  Control'
<1>0. /\ rpc = "select" => duty = "none" /\ visit = <<>> /\ todo = <<>>
      /\ rpc \in {"drain", "reap"} => duty \in {"poll", "dispatch", "status"}
      /\ rpc = "dispatch" => duty = "dispatch" /\ visit = <<>>
      /\ rpc \in {"command", "waitpid", "done"} <=> duty = "shutdown"
      /\ todo # <<>> => duty \in {"dispatch", "shutdown"}
      /\ rpc \in {"reap", "waitpid"} => visit # <<>>
      /\ Visiting(visit, roster)
      /\ duty # "shutdown" => nextKitchen <= MaxKitchens
      /\ gotReply => duty = "status" /\ visit # <<>>
      /\ gotReply \in BOOLEAN
  BY DEF IInv, Control, Visiting, Types
<1> SUFFICES
      /\ rpc' = "select" => duty' = "none" /\ visit' = <<>> /\ todo' = <<>>
      /\ rpc' \in {"drain", "reap"} => duty' \in {"poll", "dispatch", "status"}
      /\ rpc' = "dispatch" => duty' = "dispatch" /\ visit' = <<>>
      /\ rpc' \in {"command", "waitpid", "done"} <=> duty' = "shutdown"
      /\ todo' # <<>> => duty' \in {"dispatch", "shutdown"}
      /\ rpc' \in {"reap", "waitpid"} => visit' # <<>>
      /\ Visiting(visit', roster')
      /\ duty' # "shutdown" => nextKitchen' <= MaxKitchens
      /\ gotReply' => duty' = "status" /\ visit' # <<>>
  BY Zenon DEF Control, Visiting
<1>1. /\ visit # <<>> =>
            /\ Visiting(Tail(visit), roster)
            /\ Visiting(Append(Tail(visit), Head(visit)), roster)
            /\ Append(Tail(visit), Head(visit)) # <<>>
      /\ Visiting(InOrder(roster), roster) /\ Visiting(InOrder(Alive), roster)
  BY VisitingStays
<1>2. ASSUME NEW n \in 1 .. MaxSize, PlaceOrder(n)
      PROVE  /\ rpc = "select" /\ rpc' = "drain" /\ duty' = "dispatch"
             /\ visit' = InOrder(roster) /\ roster' = roster /\ nextKitchen' = nextKitchen
             /\ gotReply' = gotReply
  BY <1>2 DEF PlaceOrder
<1>3. CASE \E n \in 1 .. MaxSize : PlaceOrder(n)
  BY <1>0, <1>1, <1>2, <1>3, Zenon
<1>4. CASE Poll
  BY <1>0, <1>1, <1>4, Zenon DEF Poll
<1>5. CASE RequestStatus
  BY <1>0, <1>1, <1>5, Zenon DEF RequestStatus
<1>6. CASE EndOfInput
  BY <1>0, <1>1, <1>6, Zenon DEF EndOfInput
<1>7. ASSUME NEW k \in KitchenId, HandlePacket(k)
      PROVE  /\ rpc = "drain" /\ rpc' \in {"drain", "reap"} /\ visit # <<>>
             /\ UNCHANGED <<duty, visit, todo, roster, nextKitchen>>
             /\ gotReply' = gotReply \/ gotReply' = (duty = "status")
  BY <1>7 DEF HandlePacket, HandleDone, HandleFull, HandleCookStatus, HandleStatusReply, HandleShutdown,
              Gets, callVars
<1>8. CASE \E k \in KitchenId : HandlePacket(k)
  BY <1>0, <1>7, <1>8
<1>9. CASE Reap
  BY <1>0, <1>9 DEF Reap
<1>10. CASE NextKitchen
  <2>1. Visiting(visit', roster')
    BY <1>1, <1>10, Zenon DEF NextKitchen
  <2> QED
    BY <1>0, <1>10, <2>1, Zenon DEF NextKitchen
<1>11. CASE FinishDraining
  <2>1. Visiting(visit', roster')
    BY <1>11 DEF FinishDraining, Visiting
  <2> QED
    BY <1>0, <1>11, <2>1, Zenon DEF FinishDraining
<1>12. CASE SpawnKitchen
  <2>1. nextKitchen' <= MaxKitchens
    BY <1>0, <1>12, Constants DEF SpawnKitchen, KitchenId
  <2>2. Visiting(visit', roster')
    BY <1>0, <1>12 DEF SpawnKitchen, callVars, Visiting
  <2> QED
    BY <1>0, <1>12, <2>1, <2>2, Zenon DEF SpawnKitchen, callVars
<1>13. CASE SpawnFails
  BY <1>0, <1>1, <1>13, Zenon DEF SpawnFails
<1>14. CASE SendPizza
  BY <1>0, <1>14, Zenon DEF SendPizza
<1>15. CASE FinishDispatch
  BY <1>0, <1>15, Zenon DEF FinishDispatch
<1>16. CASE CommandShutdown \/ FinishShutdown
  <2>1. /\ rpc = "command" /\ UNCHANGED <<duty, visit, todo, roster, nextKitchen, gotReply>>
        /\ rpc' = "done" \/ (rpc' = "waitpid" /\ visit # <<>>)
    BY <1>16 DEF CommandShutdown, FinishShutdown
  <2> QED
    BY <1>0, <2>1
<1>17. CASE WaitForExit
  <2>1. Visiting(visit', roster')
    BY <1>0, <1>1, <1>17, Zenon DEF WaitForExit
  <2> QED
    BY <1>0, <1>17, <2>1, Zenon DEF WaitForExit
<1>18. CASE Processes \/ ReceptionDone
  <2>1. UNCHANGED <<rpc, duty, visit, todo, roster, nextKitchen, gotReply>>
    BY <1>18 DEF Processes, ReceptionDone, vars, callVars
  <2> QED
    BY <1>0, <2>1
<1> QED
  BY <1>3, <1>4, <1>5, <1>6, <1>8, <1>9, <1>10, <1>11, <1>12, <1>13, <1>14, <1>15, <1>16, <1>17, <1>18
  DEF ReceptionNext, Customer, Working

\* The sends.
LEMMA SendPizzaStep ==
    ASSUME IInv, SendPizza
    PROVE  /\ Best \in KitchenId /\ Best \in Alive /\ handle[Best].load < Capacity
           /\ \A j \in WithRoom : handle[Best].load <= handle[j].load
           /\ kitchens[Best].phase # "unborn" /\ Elsewhere(Best)
           /\ Head(todo) \in Pizza
           /\ kitchens[Best] \in Box /\ BoxInv(kitchens[Best])
           /\ kitchens'[Best] = [kitchens[Best] EXCEPT !.orders = Append(@, Packet("Pizza", Head(todo)))]
<1>1. Types /\ Boxes /\ Handles
  BY DEF IInv
<1>2. /\ Best \in KitchenId /\ Best \in Alive /\ handle[Best].load < Capacity
      /\ kitchens[Best].phase # "unborn"
      /\ \A j \in WithRoom : handle[Best].load <= handle[j].load
  BY <1>1, BestHasLeastLoad DEF SendPizza, WithRoom, Alive, Types, Handles
<1>3. Head(todo) \in Pizza /\ NoPizza \notin Pizza
  BY SMTT(40), <1>1, Constants DEF SendPizza, Types
<1>4. /\ Elsewhere(Best)
      /\ kitchens'[Best] = [kitchens[Best] EXCEPT !.orders = Append(@, Packet("Pizza", Head(todo)))]
  BY <1>1, <1>2, <1>3, SendStep DEF SendPizza, OrderType
<1> QED
  BY <1>1, <1>2, <1>3, <1>4 DEF Types, Boxes

\* CommandShutdown sends one command to the kitchen it visits.
LEMMA CommandStep ==
    ASSUME IInv, CommandShutdown
    PROVE  /\ Head(visit) \in KitchenId /\ kitchens[Head(visit)].phase # "unborn"
           /\ Elsewhere(Head(visit))
           /\ kitchens[Head(visit)] \in Box /\ BoxInv(kitchens[Head(visit)])
           /\ kitchens'[Head(visit)] =
                  [kitchens[Head(visit)] EXCEPT !.orders = Append(@, Packet("Shutdown", NoPizza))]
<1>1. Types /\ Boxes /\ NoPizza \notin Pizza
  BY Constants DEF IInv
<1>2. Head(visit) \in KitchenId /\ kitchens[Head(visit)].phase # "unborn"
  BY VisitHead DEF CommandShutdown
<1>3. Send(Head(visit), Packet("Shutdown", NoPizza))
  BY Packets DEF CommandShutdown
<1> QED
  BY <1>1, <1>2, <1>3, SendStep DEF OrderType, Types, Boxes

\* HandlePacket takes one packet from the kitchen it visits.
LEMMA PacketStep ==
    ASSUME IInv, NEW k \in KitchenId, HandlePacket(k)
    PROVE  /\ Receive(k) /\ Elsewhere(k) /\ handle[k].alive
           /\ visit # <<>> /\ k = Head(visit) /\ rpc = "drain"
           /\ kitchens[k] \in Box /\ BoxInv(kitchens[k]) /\ kitchens[k].results # <<>>
           /\ kitchens'[k] = [kitchens[k] EXCEPT !.results = Tail(@)]
<1>1. Types /\ Boxes
  BY DEF IInv
<1>2. \E type \in ResultType : Gets(k, type)
  BY DEF HandlePacket, HandleDone, HandleFull, HandleCookStatus, HandleStatusReply, HandleShutdown,
         ResultType
<1>3. /\ Receive(k) /\ handle[k].alive /\ visit # <<>> /\ k = Head(visit) /\ rpc = "drain"
  BY <1>2 DEF Gets
<1> QED
  BY <1>1, <1>3, ReceiveStep DEF Types, Boxes

\* What can happen to a kitchen.
LEMMA KitchensStep ==
    ASSUME IInv, ReceptionNext, NEW k \in KitchenId
    PROVE  /\ \/ kitchens'[k].phase = kitchens[k].phase
              \/ SpawnKitchen /\ k = nextKitchen /\ kitchens'[k].phase = "open"
              \/ /\ Processes
                 /\ kitchens[k].phase \in {"open", "idle", "ordered", "gone"}
                 /\ kitchens'[k].phase # "unborn"
                 /\ kitchens[k].phase = "gone" => kitchens'[k].phase = "exited"
           /\ LET before == Count(kitchens[k].orders, {"Shutdown"})
                  after == Count(kitchens'[k].orders, {"Shutdown"})
              IN  /\ before \in Nat /\ after \in Nat
                  /\ \/ after <= before
                     \/ CommandShutdown /\ k = Head(visit) /\ after = before + 1
<1> DEFINE b == kitchens[k]
           c == kitchens'[k]
           S == {"Shutdown"}
           phases ==
              \/ c.phase = b.phase
              \/ SpawnKitchen /\ k = nextKitchen /\ c.phase = "open"
              \/ /\ Processes
                 /\ b.phase \in {"open", "idle", "ordered", "gone"}
                 /\ c.phase # "unborn"
                 /\ b.phase = "gone" => c.phase = "exited"
           commands ==
              \/ Count(c.orders, S) <= Count(b.orders, S)
              \/ CommandShutdown /\ k = Head(visit) /\ Count(c.orders, S) = Count(b.orders, S) + 1
<1> SUFFICES Count(b.orders, S) \in Nat /\ Count(c.orders, S) \in Nat /\ phases /\ commands
  BY Zenon
<1>0. Types /\ Boxes /\ OnePlace /\ Handles
  BY DEF IInv
<1>1. b \in Box /\ c \in Box /\ BoxInv(b)
  BY <1>0, BoxesStep DEF Types, Boxes
<1>2. Count(b.orders, S) \in Nat /\ Count(c.orders, S) \in Nat
  BY SMTT(40), <1>1, BoxFields, QueueCount
<1>3. b = c => phases /\ commands
  <2> SUFFICES ASSUME b = c PROVE phases /\ commands
    OBVIOUS
  <2>1. Count(c.orders, S) = Count(b.orders, S)
    BY Zenon
  <2> QED
    BY <1>2, <2>1
<1>4. CASE RequestStatus
  <2>1. CASE k \in Alive
    <3>1. /\ b.phase # "unborn"
          /\ c = [b EXCEPT !.orders = Append(@, Packet("StatusRequest", NoPizza))]
      BY <1>0, <1>4, <2>1, RequestStep
    <3>2. "StatusRequest" \in OrderType /\ NoPizza \notin Pizza
      BY Constants DEF OrderType
    <3> HIDE DEF b, c
    <3>3. Sent(b, c, "StatusRequest", NoPizza)
      BY <1>1, <3>1, <3>2 DEF Sent
    <3>4. c.phase = b.phase /\ Count(c.orders, S) = Count(b.orders, S) + (IF "StatusRequest" \in S THEN 1 ELSE 0)
      BY <3>3, SentPhase, SentCount
    <3> QED
      BY <1>2, <3>4
  <2> QED
    BY <1>0, <1>2, <1>3, <1>4, <2>1, RequestStep
<1>5. ASSUME NEW j \in KitchenId, HandlePacket(j)
      PROVE  phases /\ commands
  <2>1. CASE j = k
    <3>1. b.results # <<>> /\ c = [b EXCEPT !.results = Tail(@)]
      BY <1>5, <2>1, PacketStep
    <3>2. c.orders = b.orders /\ c.phase = b.phase
      BY <1>1, <3>1, BoxReceived
    <3>3. Count(c.orders, S) = Count(b.orders, S)
      BY <3>2, Zenon
    <3> QED
      BY <1>2, <3>2, <3>3
  <2>2. CASE j # k
    BY <1>3, <1>5, <2>2, PacketStep DEF Elsewhere
  <2> QED
    BY <2>1, <2>2
<1>6. CASE SpawnKitchen
  <2>1. Spawn(nextKitchen) /\ nextKitchen \in KitchenId
    BY <1>6 DEF SpawnKitchen
  <2>2. CASE k = nextKitchen
    <3>1. b = Unborn /\ c = [Unborn EXCEPT !.phase = "open"]
      BY <1>0, <2>1, <2>2, SpawnStep
    <3>2. c.phase = "open" /\ Count(c.orders, S) = 0
      BY <3>1, BoxOpened
    <3> QED
      BY <1>2, <1>6, <2>2, <3>2
  <2>3. CASE k # nextKitchen
    <3>1. b = c
      BY <1>0, <2>1, <2>3, SpawnStep DEF Elsewhere
    <3> HIDE DEF b, c, phases, commands
    <3> QED
      BY <1>2, <1>3, <3>1
  <2> QED
    BY <2>2, <2>3
<1>7. CASE SendPizza
  <2>1. CASE k = Best
    <3>1. /\ b.phase # "unborn" /\ Head(todo) \in Pizza
          /\ c = [b EXCEPT !.orders = Append(@, Packet("Pizza", Head(todo)))]
      BY <1>7, <2>1, SendPizzaStep
    <3>2. "Pizza" \in OrderType
      BY DEF OrderType
    <3> HIDE DEF b, c
    <3>3. Sent(b, c, "Pizza", Head(todo))
      BY <1>1, <3>1, <3>2 DEF Sent
    <3>4. c.phase = b.phase
      BY <3>3, SentPhase
    <3>5. Count(c.orders, S) = Count(b.orders, S) + (IF "Pizza" \in S THEN 1 ELSE 0)
      <4> HIDE DEF S
      <4> QED
        BY <3>3, SentCount
    <3> QED
      BY <1>2, <3>4, <3>5
  <2>2. CASE k # Best
    <3>1. b = c
      BY <1>7, <2>2, SendPizzaStep DEF Elsewhere
    <3> HIDE DEF b, c, phases, commands
    <3> QED
      BY <1>2, <1>3, <3>1
  <2> QED
    BY <2>1, <2>2
<1>8. CASE CommandShutdown
  <2>1. CASE k = Head(visit)
    <3>1. /\ b.phase # "unborn"
          /\ c = [b EXCEPT !.orders = Append(@, Packet("Shutdown", NoPizza))]
      BY <1>8, <2>1, CommandStep
    <3>2. "Shutdown" \in OrderType /\ NoPizza \notin Pizza
      BY Constants DEF OrderType
    <3> HIDE DEF b, c
    <3>3. Sent(b, c, "Shutdown", NoPizza)
      BY <1>1, <3>1, <3>2 DEF Sent
    <3>4. c.phase = b.phase /\ Count(c.orders, S) = Count(b.orders, S) + (IF "Shutdown" \in S THEN 1 ELSE 0)
      BY <3>3, SentPhase, SentCount
    <3> QED
      BY <1>2, <3>4, <1>8, <2>1
  <2>2. CASE k # Head(visit)
    <3>1. b = c
      BY <1>8, <2>2, CommandStep DEF Elsewhere
    <3> HIDE DEF b, c, phases, commands
    <3> QED
      BY <1>2, <1>3, <3>1
  <2> QED
    BY <2>1, <2>2
<1>9. CASE Processes
  <2>1. PICK j \in KitchenId : KitchenStep(j)
    BY <1>9 DEF Processes
  <2>2. CASE j = k
    <3>1. BoxStep(b, c)
      BY <1>0, <2>1, <2>2, ProcessStep
    <3>2. Count(c.orders, S) <= Count(b.orders, S)
      BY <1>1, <3>1, BoxStepStatus
    <3>3. phases
      BY <1>1, <1>9, <3>1, BoxStepOrders
    <3>4. commands
      BY <3>2
    <3> HIDE DEF b, c, phases, commands
    <3> QED
      BY <1>2, <3>3, <3>4
  <2>3. CASE j # k
    <3>1. b = c
      BY <1>0, <2>1, <2>3, ProcessStep DEF Elsewhere
    <3> HIDE DEF b, c, phases, commands
    <3> QED
      BY <1>2, <1>3, <3>1
  <2> QED
    BY <2>2, <2>3
<1>10. CASE UNCHANGED kitchens
  <2>1. b = c
    BY <1>10
  <2> HIDE DEF b, c, phases, commands
  <2> QED
    BY <1>2, <1>3, <2>1
<1>11. phases /\ commands
  BY <1>4, <1>5, <1>6, <1>7, <1>8, <1>9, <1>10
  DEF ReceptionNext, Customer, Working, ReceptionDone, PlaceOrder, Poll, EndOfInput, Reap, NextKitchen,
      FinishDraining, SpawnFails, FinishDispatch, WaitForExit, FinishShutdown, vars
<1> QED
  BY <1>2, <1>11, Zenon

\* Every step keeps the handles true to the processes.
LEMMA HandlesStep ==
    ASSUME IInv, ReceptionNext
    PROVE  Handles'
<1> SUFFICES ASSUME NEW k \in KitchenId
             PROVE  /\ handle'[k].alive => k \in roster'
                    /\ k \in roster' => k < nextKitchen' /\ kitchens'[k].phase # "unborn"
                    /\ k >= nextKitchen' => kitchens'[k].phase = "unborn"
                    /\ ~handle'[k].alive =>
                          kitchens'[k].phase \in {"unborn", "gone", "exited", "crashed"}
  BY DEF Handles
<1> DEFINE phase == kitchens[k].phase
           after == kitchens'[k].phase
<1>1. /\ handle[k].alive => k \in roster
      /\ k \in roster => k < nextKitchen /\ phase # "unborn"
      /\ k >= nextKitchen => phase = "unborn"
      /\ ~handle[k].alive => phase \in {"unborn", "gone", "exited", "crashed"}
      /\ handle \in [KitchenId -> Handle] /\ nextKitchen \in Nat /\ k \in Nat
      /\ handle[k].alive \in BOOLEAN
  BY Constants DEF IInv, Handles, Types, Handle
<1>2. \/ after = phase
      \/ SpawnKitchen /\ k = nextKitchen /\ after = "open"
      \/ /\ Processes /\ phase \in {"open", "idle", "ordered", "gone"}
         /\ after # "unborn" /\ (phase = "gone" => after = "exited")
  BY KitchensStep
<1> HIDE DEF phase, after
<1>3. ASSUME UNCHANGED <<roster, nextKitchen>>, handle'[k].alive = handle[k].alive,
             after = phase \/ Processes
      PROVE  /\ handle'[k].alive => k \in roster'
             /\ k \in roster' => k < nextKitchen' /\ after # "unborn"
             /\ k >= nextKitchen' => after = "unborn"
             /\ ~handle'[k].alive => after \in {"unborn", "gone", "exited", "crashed"}
  <2>1. CASE after = phase
    BY <1>1, <1>3, <2>1
  <2>2. CASE after # phase
    <3>1. /\ phase \in {"open", "idle", "ordered", "gone"}
          /\ after # "unborn" /\ (phase = "gone" => after = "exited")
      <4>1. ~SpawnKitchen
        BY <1>1, <1>3 DEF SpawnKitchen
      <4> QED
        BY <1>2, <2>2, <4>1
    <3> QED
      BY <1>1, <1>3, <3>1
  <2> QED
    BY <2>1, <2>2
<1>4. CASE SpawnKitchen
  <2>1. /\ nextKitchen \in KitchenId /\ roster' = roster \cup {nextKitchen}
        /\ handle' = [handle EXCEPT ![nextKitchen] = NewHandle] /\ nextKitchen' = nextKitchen + 1
    BY <1>4 DEF SpawnKitchen
  <2>2. ~Processes
    BY <1>1, <2>1 DEF Processes
  <2>3. CASE k = nextKitchen
    <3>1. handle'[k].alive
      BY <1>1, <2>1, <2>3 DEF NewHandle
    <3>2. after = "open"
      <4>1. Spawn(k) /\ Types /\ Boxes
        BY <1>4, <2>3 DEF SpawnKitchen, IInv
      <4>2. kitchens'[k] = [Unborn EXCEPT !.phase = "open"]
        BY <4>1, SpawnStep
      <4> QED
        BY <4>2, BoxOpened DEF after
    <3> QED
      BY <1>1, <2>1, <2>3, <3>1, <3>2 DEF after
  <2>4. CASE k # nextKitchen
    <3>1. handle'[k] = handle[k] /\ after = phase
      BY <1>1, <1>2, <2>1, <2>2, <2>4
    <3> QED
      BY <1>1, <2>1, <2>4, <3>1 DEF after
  <2> QED
    BY <2>3, <2>4
<1>5. CASE SpawnFails
  <2>1. UNCHANGED <<roster, handle, kitchens>> /\ nextKitchen' = nextKitchen + 1
    BY <1>5 DEF SpawnFails
  <2>2. after = phase
    BY <2>1 DEF after, phase
  <2> QED
    BY <1>1, <2>1, <2>2 DEF after
<1>6. CASE FinishDraining
  <2>1. /\ UNCHANGED <<kitchens, nextKitchen>>
        /\ roster' = roster \/ roster' = Alive
        /\ handle'[k] = IF k \in roster' THEN handle[k] ELSE NoHandle
    BY <1>6 DEF FinishDraining
  <2>2. after = phase
    BY <2>1 DEF after, phase
  <2>3. k \in Alive <=> k \in roster /\ handle[k].alive
    BY DEF Alive
  <2>4. k \notin roster' => ~handle[k].alive
    BY <1>1, <2>1, <2>3
  <2> QED
    BY <1>1, <2>1, <2>2, <2>3, <2>4 DEF after, NoHandle
<1>7. ASSUME NEW j \in KitchenId, HandleShutdown(j)
      PROVE  /\ handle'[k].alive => k \in roster'
             /\ k \in roster' => k < nextKitchen' /\ after # "unborn"
             /\ k >= nextKitchen' => after = "unborn"
             /\ ~handle'[k].alive => after \in {"unborn", "gone", "exited", "crashed"}
  <2>1. UNCHANGED <<roster, nextKitchen>> /\ handle' = [handle EXCEPT ![j].alive = FALSE]
    BY <1>7 DEF HandleShutdown
  <2>2. /\ kitchens[j] \in Box /\ BoxInv(kitchens[j]) /\ kitchens[j].results # <<>>
        /\ kitchens'[j] = [kitchens[j] EXCEPT !.results = Tail(@)] /\ Elsewhere(j)
        /\ Head(kitchens[j].results).type = "Shutdown"
    BY <1>7, PacketStep DEF HandlePacket, HandleShutdown, Gets
  <2>3. kitchens[j].phase \in {"gone", "exited"} /\ kitchens'[j].phase = kitchens[j].phase
    BY <2>2, BoxReceived
  <2>4. after = phase
    BY <2>2, <2>3 DEF after, phase, Elsewhere
  <2>5. CASE k = j
    <3>1. ~handle'[k].alive
      BY <1>1, <2>1, <2>5
    <3> QED
      BY <1>1, <2>1, <2>3, <2>4, <2>5, <3>1 DEF phase
  <2>6. CASE k # j
    <3>1. handle'[k] = handle[k]
      BY <1>1, <2>1, <2>6
    <3> QED
      BY <1>1, <2>1, <2>4, <3>1
  <2> QED
    BY <2>5, <2>6
<1>8. CASE WaitForExit
  <2>1. /\ UNCHANGED <<roster, nextKitchen, kitchens>> /\ Ended(Head(visit))
        /\ handle' = [handle EXCEPT ![Head(visit)].alive = FALSE]
    BY <1>8 DEF WaitForExit
  <2>2. after = phase
    BY <2>1 DEF after, phase
  <2>3. CASE k = Head(visit)
    <3>1. ~handle'[k].alive /\ phase \in {"exited", "crashed"}
      BY <1>1, <2>1, <2>3 DEF Ended, phase
    <3> QED
      BY <1>1, <2>1, <2>2, <3>1 DEF after
  <2>4. CASE k # Head(visit)
    <3>1. handle'[k] = handle[k]
      BY <1>1, <2>1, <2>4
    <3> QED
      BY <1>1, <2>1, <2>2, <3>1 DEF after
  <2> QED
    BY <2>3, <2>4
<1>9. CASE Processes
  <2>1. UNCHANGED <<roster, nextKitchen>> /\ handle'[k].alive = handle[k].alive
    BY <1>9 DEF Processes
  <2> QED
    BY <1>3, <1>9, <2>1 DEF after
<1>10. ASSUME \/ \E n \in 1 .. MaxSize : PlaceOrder(n)
              \/ Poll \/ EndOfInput \/ Reap \/ NextKitchen \/ FinishDispatch \/ FinishShutdown
              \/ ReceptionDone \/ RequestStatus \/ SendPizza \/ CommandShutdown
              \/ \E j \in KitchenId : HandleDone(j) \/ HandleFull(j) \/ HandleCookStatus(j)
                                      \/ HandleStatusReply(j)
       PROVE  UNCHANGED <<roster, nextKitchen>> /\ handle'[k].alive = handle[k].alive
  <2>1. UNCHANGED <<roster, nextKitchen>>
    BY <1>10
    DEF PlaceOrder, Poll, EndOfInput, Reap, NextKitchen, FinishDispatch, FinishShutdown, ReceptionDone,
        RequestStatus, SendPizza, CommandShutdown, HandleDone, HandleFull, HandleCookStatus,
        HandleStatusReply, vars
  <2>2. CASE RequestStatus
    BY <1>1, <2>2 DEF RequestStatus
  <2>3. CASE SendPizza
    BY <1>1, <2>3 DEF SendPizza
  <2>4. ASSUME NEW j \in KitchenId,
               HandleDone(j) \/ HandleFull(j) \/ HandleCookStatus(j) \/ HandleStatusReply(j)
        PROVE  handle'[k].alive = handle[k].alive
    <3>1. handle[j] \in Handle
      BY <1>1
    <3>2. \/ handle' = [handle EXCEPT ![j] = [handle[j] EXCEPT
                         !.load = IF handle[j].load > 0 THEN handle[j].load - 1 ELSE 0]]
          \/ handle' = [handle EXCEPT ![j] = [handle[j] EXCEPT !.cooks = handle[j].cooks + 1]]
          \/ handle' = [handle EXCEPT ![j] = [handle[j] EXCEPT !.cooks = 0]]
      BY <2>4 DEF HandleDone, HandleFull, HandleCookStatus, HandleStatusReply, OneLessLoad
    <3>3. handle'[j].alive = handle[j].alive
      BY <1>1, <3>1, <3>2 DEF Handle
    <3>4. k # j => handle'[k] = handle[k]
      BY <1>1, <3>2
    <3> QED
      BY <3>3, <3>4
  <2>5. ASSUME UNCHANGED handle PROVE handle'[k].alive = handle[k].alive
    BY <2>5
  <2> QED
    BY <1>10, <2>1, <2>2, <2>3, <2>4, <2>5
    DEF PlaceOrder, Poll, EndOfInput, Reap, NextKitchen, FinishDispatch, FinishShutdown, ReceptionDone,
        CommandShutdown, vars
<1>11. (after = phase \/ Processes) \/ SpawnKitchen
  BY <1>2
<1> QED
  BY <1>3, <1>4, <1>5, <1>6, <1>7, <1>8, <1>9, <1>10, <1>11
  DEF ReceptionNext, Customer, Working, HandlePacket, after

-----------------------------------------------------------------------------
(* Every step keeps the parts of the invariant that count.                     *)


\* A kitchen that has been told to shut down is not told again.
LEMMA CommandsStep ==
    ASSUME IInv, ReceptionNext
    PROVE  Commands'
<1> SUFFICES ASSUME NEW k \in KitchenId
             PROVE  /\ Count(kitchens'[k].orders, {"Shutdown"}) <= 1
                    /\ Uncommanded(k)' => Count(kitchens'[k].orders, {"Shutdown"}) = 0
  BY DEF Commands
<1> DEFINE before == Count(kitchens[k].orders, {"Shutdown"})
           after == Count(kitchens'[k].orders, {"Shutdown"})
<1>1. /\ before \in Nat /\ after \in Nat
      /\ \/ after <= before
         \/ CommandShutdown /\ k = Head(visit) /\ after = before + 1
  BY KitchensStep
<1>2. before <= 1 /\ (Uncommanded(k) => before = 0)
  BY DEF IInv, Commands
<1>3. visit \in Seq(KitchenId) /\ Control
  BY DEF IInv, Types
<1>4. Uncommanded(k)' => Uncommanded(k)
  <2>1. CASE duty # "shutdown"
    BY <2>1 DEF Uncommanded
  <2>2. CASE duty = "shutdown"
    <3>1. rpc \in {"command", "waitpid", "done"}
      BY <1>3, <2>2 DEF Control
    <3>2. CASE WaitForExit
      <4>1. duty' = duty /\ visit' = Tail(visit) /\ visit # <<>>
        BY <1>3, <3>2 DEF WaitForExit, Control
      <4> SUFFICES ASSUME NEW i \in DOMAIN Tail(visit), Tail(visit)[i] = k
                   PROVE  Uncommanded(k)
        BY <2>2, <4>1 DEF Uncommanded
      <4>2. i \in Nat /\ i >= 1 /\ i + 1 \in DOMAIN visit /\ visit[i + 1] = k
        BY <1>3, <4>1, QueueEnds
      <4> QED
        BY <4>2 DEF Uncommanded
    <3>3. CASE CommandShutdown \/ FinishShutdown
      BY <3>3 DEF Uncommanded, CommandShutdown, FinishShutdown
    <3>4. CASE Processes \/ ReceptionDone
      BY <3>4 DEF Uncommanded, Processes, ReceptionDone, callVars, vars
    <3> QED
      BY <3>1, <3>2, <3>3, <3>4
      DEF ReceptionNext, Customer, Working, PlaceOrder, RequestStatus, EndOfInput, Poll, HandlePacket,
          HandleDone, HandleFull, HandleCookStatus, HandleStatusReply, HandleShutdown, Gets, Reap,
          NextKitchen, FinishDraining, SpawnKitchen, SpawnFails, SendPizza, FinishDispatch
  <2> QED
    BY <2>1, <2>2
<1>5. CASE after <= before
  <2> HIDE DEF before, after
  <2>1. after <= 1 /\ (Uncommanded(k)' => after = 0)
    BY <1>1, <1>2, <1>4, <1>5
  <2> QED
    BY <2>1 DEF after
<1>6. CASE CommandShutdown /\ k = Head(visit) /\ after = before + 1
  <2>1. /\ rpc = "command" /\ rpc' = "waitpid" /\ visit # <<>> /\ duty' = duty /\ visit' = visit
    BY <1>6 DEF CommandShutdown
  <2>2. duty = "shutdown" /\ 1 \in DOMAIN visit /\ visit[1] = k
    BY <1>3, <1>6, <2>1, QueueEnds DEF Control
  <2>3. Uncommanded(k)
    BY <2>1, <2>2 DEF Uncommanded
  <2>4. ~Uncommanded(k)'
    BY <1>3, <2>1, <2>2 DEF Uncommanded, Control
  <2> HIDE DEF before, after
  <2>5. after <= 1 /\ (Uncommanded(k)' => after = 0)
    BY <1>2, <1>6, <2>3, <2>4
  <2> QED
    BY <2>5 DEF after
<1> QED
  BY <1>1, <1>5, <1>6

-----------------------------------------------------------------------------
(* Where the pizzas go.                                                    *)

\* A kitchen has a natural number of the pizzas of a set.
LEMMA WeightNat ==
    \A b \in Box : \A P : Weight(b, P) \in Nat
<1> SUFFICES ASSUME NEW b \in Box, NEW P
             PROVE  Weight(b, P) \in Nat
  OBVIOUS
<1>1. /\ Number(b.orders, Carrying(P)) \in Nat /\ Number(b.line, P) \in Nat
      /\ Cardinality(b.hands \cap P) \in Nat /\ Number(b.results, Carrying(P)) \in Nat
  BY WeightParts
<1>2. (IF b.refused \in P THEN 1 ELSE 0) \in Nat
  OBVIOUS
<1> QED
  BY <1>1, <1>2 DEF Weight

\* A pizza that is sent weighs on the kitchen it is sent to.
LEMMA WeightsSend ==
    ASSUME IInv, SendPizza, NEW k \in KitchenId, NEW P \in SUBSET Pizza
    PROVE  Weight(kitchens'[k], P) =
              Weight(kitchens[k], P) + (IF k = Best /\ Head(todo) \in P THEN 1 ELSE 0)
<1>1. kitchens[k] \in Box
  BY DEF IInv, Types
<1>2. CASE k = Best
  <2>1. Sent(kitchens[k], kitchens'[k], "Pizza", Head(todo))
    BY <1>2, SendPizzaStep DEF Sent, OrderType
  <2>2. Weight(kitchens'[k], P) = Weight(kitchens[k], P) + (IF Head(todo) \in P THEN 1 ELSE 0)
    BY <2>1, SentWeight
  <2> QED
    BY <1>2, <2>2
<1>3. CASE k # Best
  <2>1. kitchens'[k] = kitchens[k]
    BY <1>3, SendPizzaStep DEF Elsewhere
  <2>2. Weight(kitchens'[k], P) = Weight(kitchens[k], P) /\ Weight(kitchens[k], P) \in Nat
    BY <1>1, <2>1, WeightNat, Zenon
  <2> QED
    BY <1>3, <2>2
<1> QED
  BY <1>2, <1>3

\* A pizza that is answered for leaves its kitchen.
LEMMA WeightsPacket ==
    ASSUME IInv, NEW j \in KitchenId, HandlePacket(j), NEW k \in KitchenId, NEW P \in SUBSET Pizza
    PROVE  Weight(kitchens[k], P) =
              Weight(kitchens'[k], P)
              + (IF k = j /\ Head(kitchens[j].results).pizza \in P THEN 1 ELSE 0)
<1>1. kitchens[k] \in Box
  BY DEF IInv, Types
<1>2. CASE k = j
  <2>1. /\ kitchens[k] \in Box /\ BoxInv(kitchens[k]) /\ kitchens[k].results # <<>>
        /\ kitchens'[k] = [kitchens[k] EXCEPT !.results = Tail(@)]
    BY <1>2, PacketStep
  <2>2. Weight(kitchens[k], P) =
          Weight(kitchens'[k], P) + (IF Head(kitchens[k].results).pizza \in P THEN 1 ELSE 0)
    BY <2>1, BoxReceived
  <2> QED
    BY <1>2, <2>2
<1>3. CASE k # j
  <2>1. kitchens'[k] = kitchens[k]
    BY <1>3, PacketStep DEF Elsewhere
  <2>2. Weight(kitchens'[k], P) = Weight(kitchens[k], P) /\ Weight(kitchens[k], P) \in Nat
    BY <1>1, <2>1, WeightNat, Zenon
  <2> QED
    BY <1>3, <2>2
<1> QED
  BY <1>2, <1>3

\* No other step moves a pizza into or out of a kitchen.
LEMMA WeightsElse ==
    ASSUME IInv, ReceptionNext, ~SendPizza, \A j \in KitchenId : ~HandlePacket(j),
           NEW k \in KitchenId, NEW P \in SUBSET Pizza
    PROVE  Weight(kitchens'[k], P) = Weight(kitchens[k], P)
<1>0. Types /\ Boxes /\ OnePlace /\ Handles /\ NoPizza \notin P
  BY Constants DEF IInv
<1>1. kitchens[k] \in Box /\ BoxInv(kitchens[k]) /\ Weight(kitchens[k], P) \in Nat
  BY <1>0, WeightNat DEF Types, Boxes
<1>2. kitchens'[k] = kitchens[k] => Weight(kitchens'[k], P) = Weight(kitchens[k], P)
  BY Zenon
<1>3. \A type : Sent(kitchens[k], kitchens'[k], type, NoPizza) =>
                  Weight(kitchens'[k], P) = Weight(kitchens[k], P)
  <2> SUFFICES ASSUME NEW type, Sent(kitchens[k], kitchens'[k], type, NoPizza)
               PROVE  Weight(kitchens'[k], P) = Weight(kitchens[k], P)
    OBVIOUS
  <2>1. Weight(kitchens'[k], P) = Weight(kitchens[k], P) + (IF NoPizza \in P THEN 1 ELSE 0)
    BY SentWeight
  <2> QED
    BY <1>0, <1>1, <2>1
<1>4. CASE RequestStatus
  <2>1. CASE k \in Alive
    <3>1. Sent(kitchens[k], kitchens'[k], "StatusRequest", NoPizza)
      BY <1>0, <1>1, <1>4, <2>1, RequestStep, Constants DEF Sent, OrderType
    <3> QED
      BY <1>3, <3>1
  <2> QED
    BY <1>0, <1>2, <1>4, <2>1, RequestStep
<1>5. CASE CommandShutdown
  <2>1. CASE k = Head(visit)
    <3>1. Sent(kitchens[k], kitchens'[k], "Shutdown", NoPizza)
      BY <1>5, <2>1, CommandStep, Constants DEF Sent, OrderType
    <3> QED
      BY <1>3, <3>1
  <2> QED
    BY <1>2, <1>5, <2>1, CommandStep DEF Elsewhere
<1>6. CASE SpawnKitchen
  <2>1. Spawn(nextKitchen) /\ nextKitchen \in KitchenId
    BY <1>6 DEF SpawnKitchen
  <2>2. CASE k = nextKitchen
    <3>1. kitchens[k] = Unborn /\ kitchens'[k] = [Unborn EXCEPT !.phase = "open"]
      BY <1>0, <2>1, <2>2, SpawnStep
    <3>2. Weight(kitchens'[k], P) = 0 /\ Weight(Unborn, P) = 0
      BY <1>0, <3>1, BoxOpened
    <3> QED
      BY <3>1, <3>2, Zenon
  <2>3. CASE k # nextKitchen
    BY <1>0, <1>2, <2>1, <2>3, SpawnStep DEF Elsewhere
  <2> QED
    BY <2>2, <2>3
<1>7. CASE Processes
  <2>1. PICK j \in KitchenId : KitchenStep(j)
    BY <1>7 DEF Processes
  <2> QED
    BY <1>0, <1>2, <2>1, ProcessStep DEF Elsewhere
<1>8. CASE UNCHANGED kitchens
  BY <1>2, <1>8
<1> QED
  BY <1>4, <1>5, <1>6, <1>7, <1>8
  DEF ReceptionNext, Customer, Working, ReceptionDone, PlaceOrder, Poll, EndOfInput, Reap, NextKitchen,
      FinishDraining, SpawnFails, FinishDispatch, WaitForExit, FinishShutdown, vars

\* The loads of the handles count what the kitchens owe.
LEMMA LoadsStep ==
    ASSUME IInv, ReceptionNext
    PROVE  Loads'
<1> SUFFICES ASSUME NEW k \in KitchenId
             PROVE  /\ Owes(kitchens'[k]) <= Capacity
                    /\ handle'[k].alive => handle'[k].load = Owes(kitchens'[k])
  BY DEF Loads, Owes
<1> DEFINE w == Weight(kitchens[k], Pizza)
           v == Weight(kitchens'[k], Pizza)
<1>1. /\ Types /\ Boxes /\ Handles
      /\ kitchens[k] \in Box /\ BoxInv(kitchens[k]) /\ kitchens'[k] \in Box /\ BoxInv(kitchens'[k])
  BY BoxesStep DEF IInv, Types, Boxes
<1>2. w = Owes(kitchens[k]) /\ v = Owes(kitchens'[k]) /\ w \in Nat /\ v \in Nat
  BY <1>1, OwesIsWeight, WeightNat
<1>3. /\ w <= Capacity /\ (handle[k].alive => handle[k].load = w)
  BY <1>2 DEF IInv, Loads
<1>4. /\ handle[k].load \in Nat /\ handle[k].alive \in BOOLEAN /\ Capacity \in Nat
      /\ handle \in [KitchenId -> Handle]
  BY <1>1, Constants DEF Types, Handle
<1>5. (v <= Capacity /\ (handle'[k].alive => handle'[k].load = v)) =>
          /\ Owes(kitchens'[k]) <= Capacity
          /\ handle'[k].alive => handle'[k].load = Owes(kitchens'[k])
  BY <1>2
<1> HIDE DEF w, v
<1>6. CASE SendPizza
  <2>1. v = w + (IF k = Best /\ Head(todo) \in Pizza THEN 1 ELSE 0)
    BY <1>6, WeightsSend DEF v, w
  <2>2. /\ Best \in Alive /\ handle[Best].load < Capacity /\ Head(todo) \in Pizza
        /\ handle' = [handle EXCEPT ![Best].load = @ + 1]
    BY <1>6, SendPizzaStep DEF SendPizza
  <2>3. CASE k = Best
    <3>1. handle[k].alive /\ handle'[k].load = handle[k].load + 1
      BY <1>4, <2>2, <2>3 DEF Alive, Handle
    <3>2. v = w + 1
      BY <2>1, <2>2, <2>3
    <3> QED
      BY <1>2, <1>3, <1>4, <1>5, <2>2, <2>3, <3>1, <3>2
  <2>4. CASE k # Best
    <3>1. handle'[k] = handle[k]
      BY <1>4, <2>2, <2>4
    <3> QED
      BY <1>2, <1>3, <1>5, <2>1, <2>4, <3>1
  <2> QED
    BY <2>3, <2>4
<1>7. ASSUME NEW j \in KitchenId, HandlePacket(j)
      PROVE  v <= Capacity /\ (handle'[k].alive => handle'[k].load = v)
  <2> DEFINE m == Head(kitchens[j].results)
  <2>1. w = v + (IF k = j /\ m.pizza \in Pizza THEN 1 ELSE 0)
    BY <1>7, WeightsPacket DEF v, w
  <2>2. /\ handle[j].alive /\ kitchens[j] \in Box /\ BoxInv(kitchens[j]) /\ kitchens[j].results # <<>>
    BY <1>7, PacketStep
  <2>3. m.type \in {"Done", "Full"} <=> m.pizza \in Pizza
    BY <2>2, BoxReceived
  <2>4. v <= Capacity
    <3> HIDE DEF m
    <3> QED
      BY <1>2, <1>3, <1>4, <2>1
  <2>5. CASE k = j /\ (HandleDone(j) \/ HandleFull(j))
    <3>1. m.pizza \in Pizza
      BY <2>3, <2>5 DEF HandleDone, HandleFull, Gets
    <3>2. w = v + 1
      BY <2>1, <2>5, <3>1
    <3>3. handle'[k].load = (IF handle[k].load > 0 THEN handle[k].load - 1 ELSE 0)
      BY <1>4, <2>5 DEF HandleDone, HandleFull, OneLessLoad, Handle
    <3> HIDE DEF m
    <3> QED
      BY <1>2, <1>3, <2>2, <2>4, <2>5, <3>2, <3>3
  <2>6. CASE k = j /\ (HandleCookStatus(j) \/ HandleStatusReply(j) \/ HandleShutdown(j))
    <3>1. ~(m.pizza \in Pizza)
      BY <2>3, <2>6 DEF HandleCookStatus, HandleStatusReply, HandleShutdown, Gets
    <3>2. w = v
      <4> HIDE DEF m
      <4> QED
        BY <1>2, <2>1, <3>1
    <3>3. handle'[k].load = handle[k].load
      BY <1>4, <2>6 DEF HandleCookStatus, HandleStatusReply, HandleShutdown, Handle
    <3> QED
      BY <1>3, <2>2, <2>4, <2>6, <3>2, <3>3
  <2>7. CASE k # j
    <3>1. handle'[k] = handle[k]
      BY <1>4, <1>7, <2>7
      DEF HandlePacket, HandleDone, HandleFull, HandleCookStatus, HandleStatusReply, HandleShutdown,
          OneLessLoad
    <3>2. w = v
      BY <1>2, <2>1, <2>7
    <3> QED
      BY <1>3, <3>1, <3>2
  <2> QED
    BY <1>7, <2>5, <2>6, <2>7 DEF HandlePacket
<1>8. CASE ~SendPizza /\ \A j \in KitchenId : ~HandlePacket(j)
  <2>1. v = w
    BY <1>8, WeightsElse DEF v, w
  <2>2. handle'[k].alive => handle'[k].load = v
    <3>1. CASE SpawnKitchen
      <4>1. /\ handle' = [handle EXCEPT ![nextKitchen] = NewHandle] /\ nextKitchen \in KitchenId
            /\ Spawn(nextKitchen)
        BY <3>1 DEF SpawnKitchen
      <4>2. CASE k = nextKitchen
        <5>1. handle'[k].load = 0
          BY <1>4, <4>1, <4>2 DEF NewHandle
        <5>2. kitchens'[k] = [Unborn EXCEPT !.phase = "open"] /\ NoPizza \notin Pizza
          BY <1>1, <4>1, <4>2, SpawnStep, Constants
        <5>3. v = 0
          BY <5>2, BoxOpened DEF v
        <5> QED
          BY <5>1, <5>3
      <4>3. CASE k # nextKitchen
        BY <1>3, <1>4, <2>1, <4>1, <4>3
      <4> QED
        BY <4>2, <4>3
    <3>2. CASE RequestStatus
      <4>1. handle'[k].load = handle[k].load /\ handle'[k].alive = handle[k].alive
        BY <1>4, <3>2 DEF RequestStatus, Handle
      <4> QED
        BY <1>3, <2>1, <4>1
    <3>3. CASE FinishDraining
      <4>1. handle'[k] = handle[k] \/ handle'[k] = NoHandle
        BY <3>3 DEF FinishDraining
      <4> QED
        BY <1>3, <2>1, <4>1 DEF NoHandle
    <3>4. CASE WaitForExit
      <4>1. handle'[k].load = handle[k].load /\ (handle'[k].alive => handle[k].alive)
        BY <1>4, <3>4 DEF WaitForExit, Handle
      <4> QED
        BY <1>3, <2>1, <4>1
    <3>5. CASE UNCHANGED handle
      BY <1>3, <2>1, <3>5
    <3> QED
      BY <1>8, <3>1, <3>2, <3>3, <3>4, <3>5
      DEF ReceptionNext, Customer, Working, ReceptionDone, PlaceOrder, Poll, EndOfInput, Reap,
          NextKitchen, SpawnFails, FinishDispatch, CommandShutdown, FinishShutdown, Processes, vars
  <2> QED
    BY <1>3, <1>5, <2>1, <2>2
<1> QED
  BY <1>5, <1>6, <1>7, <1>8

-----------------------------------------------------------------------------
(* The status traffic.                                                     *)

\* The traffic of kitchen b is that of kitchen c.
SameTraffic(b, c) ==
    /\ Asked(c) = Asked(b) /\ c.replies = b.replies
    /\ Said(c) = Said(b) /\ Replied(c) = Replied(b)
    /\ b.replies = 0 /\ AnswerLast(b.results) => AnswerLast(c.results)

\* The counts of the status traffic are numbers.
LEMMA TrafficNat ==
    \A b \in Box : /\ Asked(b) \in Nat /\ Said(b) \in Nat /\ Replied(b) \in Nat
                   /\ b.replies \in Nat /\ NCooks \in Nat
  BY BoxFields, QueueCount, Constants DEF Asked, Said, Replied

\* Equal queues carry the same traffic.
LEMMA EqualQueues ==
    ASSUME NEW b, NEW c
    PROVE  /\ c.orders = b.orders => Asked(c) = Asked(b)
           /\ c.results = b.results =>
                /\ Said(c) = Said(b) /\ Replied(c) = Replied(b)
                /\ AnswerLast(b.results) => AnswerLast(c.results)
  BY Zenon DEF Asked, Said, Replied

\* A kitchen that stays as it is keeps its traffic.
LEMMA SameBoxTraffic ==
    ASSUME NEW b, NEW c, c = b
    PROVE  SameTraffic(b, c)
  BY Zenon DEF SameTraffic

\* A packet sent to a kitchen.
LEMMA SentTraffic ==
    ASSUME NEW b, NEW c, NEW type, NEW p, Sent(b, c, type, p)
    PROVE  /\ type # "StatusRequest" => SameTraffic(b, c)
           /\ type = "StatusRequest" =>
                /\ Asked(c) = Asked(b) + 1 /\ c.replies = b.replies
                /\ Said(c) = Said(b) /\ Replied(c) = Replied(b)
<1>1. c.results = b.results /\ c.replies = b.replies /\ b \in Box
  BY SentPhase DEF Sent
<1>2. Asked(c) = Asked(b) + (IF type \in {"StatusRequest"} THEN 1 ELSE 0)
  <2> DEFINE S == {"StatusRequest"}
  <2>1. Count(c.orders, S) = Count(b.orders, S) + (IF type \in S THEN 1 ELSE 0)
    <3> HIDE DEF S
    <3> QED
      BY SentCount
  <2> QED
    BY <2>1 DEF Asked
<1>3. /\ Said(c) = Said(b) /\ Replied(c) = Replied(b)
      /\ AnswerLast(b.results) => AnswerLast(c.results)
  BY <1>1, EqualQueues
<1>4. Asked(b) \in Nat
  BY <1>1, TrafficNat
<1> QED
  BY <1>1, <1>2, <1>3, <1>4 DEF SameTraffic

\* A packet taken from a kitchen.
LEMMA ReceivedTraffic ==
    ASSUME NEW b \in Box, BoxInv(b), b.results # <<>>,
           NEW c, c = [b EXCEPT !.results = Tail(@)]
    PROVE  /\ Asked(c) = Asked(b) /\ c.replies = b.replies
           /\ Said(b) = Said(c) + (IF Head(b.results).type = "CookStatus" THEN 1 ELSE 0)
           /\ Replied(b) = Replied(c) + (IF Head(b.results).type = "StatusReply" THEN 1 ELSE 0)
           /\ AnswerLast(b.results) => AnswerLast(c.results)
           /\ AnswerLast(b.results) /\ Head(b.results).type = "StatusReply" => Said(b) = 0
<1>1. /\ c.orders = b.orders /\ c.replies = b.replies /\ c.results = Tail(b.results)
      /\ b.results \in Seq(Message(ResultType))
  BY BoxFields
<1>2. \A x \in {"CookStatus", "StatusReply"} :
        Count(b.results, {x}) = Count(c.results, {x}) + (IF Head(b.results).type = x THEN 1 ELSE 0)
  <2> SUFFICES ASSUME NEW x \in {"CookStatus", "StatusReply"}
               PROVE  Count(b.results, {x}) =
                          Count(c.results, {x}) + (IF Head(b.results).type = x THEN 1 ELSE 0)
    OBVIOUS
  <2> DEFINE S == {x}
  <2> HIDE DEF S
  <2>1. Count(b.results, S) =
            Count(Tail(b.results), S) + (IF Head(b.results).type \in S THEN 1 ELSE 0)
    BY <1>1, QueueCount
  <2>2. Count(c.results, S) = Count(Tail(b.results), S)
    BY <1>1, Zenon
  <2> QED
    BY <2>1, <2>2 DEF S
<1>3. ASSUME AnswerLast(b.results), Head(b.results).type = "StatusReply"
      PROVE  Said(b) = 0
  <2>1. /\ Head(b.results) = b.results[1] /\ 1 \in DOMAIN b.results
        /\ \A i \in DOMAIN b.results : b.results[i] \in Message(ResultType) /\ i >= 1 /\ i \in Nat
    BY BoxFields, QueueEnds
  <2>2. \A i \in DOMAIN b.results : b.results[i].type # "CookStatus"
    BY <1>3, <2>1 DEF AnswerLast
  <2>3. \A i \in DOMAIN b.results : b.results[i] \notin Message({"CookStatus"})
    BY <2>1, <2>2, MessageIn
  <2>4. Number(b.results, Message({"CookStatus"})) = 0
    BY <2>3, BoxFields, NumberZero
  <2> QED
    BY <2>4, BoxFields, CountIsNumber DEF Said
<1>4. Asked(c) = Asked(b)
  BY <1>1, EqualQueues
<1>5. AnswerLast(b.results) => AnswerLast(c.results)
  BY <1>1, AnswerStaysLast
<1> QED
  BY <1>1, <1>2, <1>3, <1>4, <1>5 DEF Said, Replied

\* The steps that leave the status traffic of a kitchen alone.
LEMMA CalmTraffic ==
    ASSUME IInv, ReceptionNext, ~RequestStatus, ~Processes, NEW k \in KitchenId,
           ~HandleCookStatus(k), ~HandleStatusReply(k)
    PROVE  SameTraffic(kitchens[k], kitchens'[k])
<1>0. Types /\ Boxes /\ OnePlace /\ Handles /\ NoPizza \notin Pizza
  BY Constants DEF IInv
<1>1. kitchens'[k] = kitchens[k] => SameTraffic(kitchens[k], kitchens'[k])
  BY SameBoxTraffic
<1>2. CASE CommandShutdown
  <2>1. CASE k = Head(visit)
    <3>1. Sent(kitchens[k], kitchens'[k], "Shutdown", NoPizza)
      BY <1>0, <1>2, <2>1, CommandStep DEF Sent, OrderType
    <3> QED
      BY <3>1, SentTraffic
  <2> QED
    BY <1>1, <1>2, <2>1, CommandStep DEF Elsewhere
<1>3. CASE SendPizza
  <2>1. CASE k = Best
    <3>1. Sent(kitchens[k], kitchens'[k], "Pizza", Head(todo))
      BY <1>3, <2>1, SendPizzaStep DEF Sent, OrderType
    <3> QED
      BY <3>1, SentTraffic
  <2> QED
    BY <1>1, <1>3, <2>1, SendPizzaStep DEF Elsewhere
<1>4. CASE SpawnKitchen
  <2>1. Spawn(nextKitchen) /\ nextKitchen \in KitchenId
    BY <1>4 DEF SpawnKitchen
  <2>2. CASE k = nextKitchen
    <3>1. kitchens[k] = Unborn /\ kitchens'[k] = [Unborn EXCEPT !.phase = "open"]
      BY <1>0, <2>1, <2>2, SpawnStep
    <3>2. /\ kitchens'[k].orders = kitchens[k].orders /\ kitchens'[k].results = kitchens[k].results
          /\ kitchens'[k].replies = kitchens[k].replies
      BY <3>1 DEF Unborn
    <3> QED
      BY <3>2, EqualQueues DEF SameTraffic
  <2> QED
    BY <1>0, <1>1, <2>1, <2>2, SpawnStep DEF Elsewhere
<1>5. ASSUME NEW j \in KitchenId, HandlePacket(j)
      PROVE  SameTraffic(kitchens[k], kitchens'[k])
  <2>1. CASE j = k
    <3> DEFINE b == kitchens[k]
               c == kitchens'[k]
    <3>1. /\ b \in Box /\ BoxInv(b) /\ b.results # <<>> /\ c = [b EXCEPT !.results = Tail(@)]
          /\ c \in Box
      BY <1>5, <2>1, PacketStep DEF Elsewhere
    <3>2. Head(b.results).type \notin {"CookStatus", "StatusReply"}
      BY <1>5, <2>1 DEF HandlePacket, HandleDone, HandleFull, HandleShutdown, Gets
    <3>3. Said(c) \in Nat /\ Replied(c) \in Nat
      BY <3>1, TrafficNat
    <3> HIDE DEF b, c
    <3>4. /\ Asked(c) = Asked(b) /\ c.replies = b.replies
          /\ Said(b) = Said(c) + (IF Head(b.results).type = "CookStatus" THEN 1 ELSE 0)
          /\ Replied(b) = Replied(c) + (IF Head(b.results).type = "StatusReply" THEN 1 ELSE 0)
      BY <3>1, ReceivedTraffic
    <3>5. AnswerLast(b.results) => AnswerLast(c.results)
      BY <3>1, ReceivedTraffic, Zenon
    <3>6. SameTraffic(b, c)
      BY <3>2, <3>3, <3>4, <3>5 DEF SameTraffic
    <3> QED
      BY <3>6 DEF b, c
  <2> QED
    BY <1>1, <1>5, <2>1, PacketStep DEF Elsewhere
<1>6. CASE UNCHANGED kitchens
  BY <1>1, <1>6
<1> QED
  BY <1>2, <1>3, <1>4, <1>5, <1>6
  DEF ReceptionNext, Customer, Working, ReceptionDone, PlaceOrder, Poll, EndOfInput, Reap, NextKitchen,
      FinishDraining, SpawnFails, FinishDispatch, WaitForExit, FinishShutdown, vars

\* What is claimed of the status traffic of a kitchen.
Answers(b, cooks) == Asking(b, cooks) \/ Answering(b, cooks) \/ Answered(b, cooks)

\* What Statuses says of kitchen b with handle h.
StatusesOK(b, h, expected) ==
    /\ Asked(b) <= 1
    /\ Said(b) + Replied(b) + b.replies <= NCooks + 1
    /\ h.alive => Quiet(b) \/ (expected /\ Answers(b, h.cooks))

\* Statuses, kitchen by kitchen.
LEMMA StatusesIs ==
    Statuses <=> \A k \in KitchenId : StatusesOK(kitchens[k], handle[k], Expected(k))
  BY Zenon DEF Statuses, StatusesOK, Answers

\* The claim survives when the traffic stays, the handle does not gain and the
\* answer is still expected.
LEMMA CalmStatuses ==
    ASSUME NEW b \in Box, NEW c, SameTraffic(b, c), NEW h, NEW g, NEW e, NEW f,
           StatusesOK(b, h, e),
           g.alive => h.alive /\ g.cooks = h.cooks, g.alive /\ e => f \/ Quiet(b)
    PROVE  StatusesOK(c, g, f)
<1>1. /\ Asked(c) = Asked(b) /\ c.replies = b.replies
      /\ Said(c) = Said(b) /\ Replied(c) = Replied(b)
      /\ b.replies = 0 /\ AnswerLast(b.results) => AnswerLast(c.results)
  BY DEF SameTraffic
<1>2. Asked(c) <= 1 /\ Said(c) + Replied(c) + c.replies <= NCooks + 1
  BY <1>1 DEF StatusesOK
<1>3. Quiet(b) => Quiet(c)
  BY <1>1 DEF Quiet
<1>4. \A n : Answers(b, n) => Answers(c, n)
  BY <1>1 DEF Answers, Asking, Answering, Answered, AnswerLast
<1> QED
  BY <1>2, <1>3, <1>4 DEF StatusesOK

\* A kitchen answers step by step.
LEMMA AnswerStep ==
    ASSUME NEW b \in Box, NEW c, BoxStep(b, c), NEW h, h.cooks \in Nat, NEW e,
           StatusesOK(b, h, e), b.phase = "open" => h.alive, c \in Box
    PROVE  StatusesOK(c, h, e)
<1>1. /\ Asked(b) \in Nat /\ Said(b) \in Nat /\ Replied(b) \in Nat /\ b.replies \in Nat
      /\ Asked(c) \in Nat /\ Said(c) \in Nat /\ Replied(c) \in Nat /\ c.replies \in Nat
      /\ NCooks \in Nat
  BY TrafficNat
<1>2. /\ Asked(b) <= 1 /\ Said(b) + Replied(b) + b.replies <= NCooks + 1
      /\ h.alive => Quiet(b) \/ (e /\ Answers(b, h.cooks))
  BY DEF StatusesOK
<1>3. /\ AnswerLast(b.results) /\ ~(b.phase = "open" /\ b.replies > 1) => AnswerLast(c.results)
      /\ Replied(b) = 0 /\ Replied(c) = 1 => AnswerLast(c.results)
  BY BoxStepStatus
<1>4. \/ SameTraffic(b, c)
      \/ /\ Asked(c) = Asked(b) - 1 /\ b.replies = 0 /\ c.replies = NCooks + 1
         /\ Said(c) = Said(b) /\ Replied(c) = Replied(b) /\ b.phase = "open"
      \/ /\ Asked(c) = Asked(b) /\ b.replies > 1 /\ c.replies = b.replies - 1
         /\ Said(c) = Said(b) + 1 /\ Replied(c) = Replied(b) /\ b.phase = "open"
      \/ /\ Asked(c) = Asked(b) /\ b.replies = 1 /\ c.replies = 0
         /\ Said(c) = Said(b) /\ Replied(c) = Replied(b) + 1 /\ b.phase = "open"
  <2>1. b.replies = 0 /\ AnswerLast(b.results) => AnswerLast(c.results)
    BY <1>3
  <2> QED
    BY <2>1, BoxStepStatus DEF SameTraffic
<1>5. CASE SameTraffic(b, c)
  BY <1>5, CalmStatuses
<1>6. CASE /\ Asked(c) = Asked(b) - 1 /\ b.replies = 0 /\ c.replies = NCooks + 1
           /\ Said(c) = Said(b) /\ Replied(c) = Replied(b) /\ b.phase = "open"
  <2>1. Asked(b) = 1
    BY <1>1, <1>2, <1>6
  <2>2. e /\ Asking(b, h.cooks)
    BY <1>2, <1>6, <2>1 DEF Quiet, Answers, Answering, Answered
  <2>3. Answering(c, h.cooks) /\ Said(c) + Replied(c) + c.replies <= NCooks + 1 /\ Asked(c) <= 1
    BY <1>1, <1>6, <2>2 DEF Asking, Answering
  <2> QED
    BY <2>2, <2>3 DEF StatusesOK, Answers
<1>7. CASE /\ Asked(c) = Asked(b) /\ b.replies > 1 /\ c.replies = b.replies - 1
           /\ Said(c) = Said(b) + 1 /\ Replied(c) = Replied(b) /\ b.phase = "open"
  <2>1. e /\ Answering(b, h.cooks)
    BY <1>1, <1>2, <1>7 DEF Quiet, Answers, Asking, Answered
  <2>2. Answering(c, h.cooks) /\ Said(c) + Replied(c) + c.replies <= NCooks + 1 /\ Asked(c) <= 1
    BY <1>1, <1>2, <1>7, <2>1 DEF Answering
  <2> QED
    BY <2>1, <2>2 DEF StatusesOK, Answers
<1>8. CASE /\ Asked(c) = Asked(b) /\ b.replies = 1 /\ c.replies = 0
           /\ Said(c) = Said(b) /\ Replied(c) = Replied(b) + 1 /\ b.phase = "open"
  <2>1. e /\ Answering(b, h.cooks)
    BY <1>1, <1>2, <1>8 DEF Quiet, Answers, Asking, Answered
  <2>2. AnswerLast(c.results)
    BY <1>3, <1>8, <2>1 DEF Answering
  <2>3. Answered(c, h.cooks) /\ Said(c) + Replied(c) + c.replies <= NCooks + 1 /\ Asked(c) <= 1
    BY <1>1, <1>2, <1>8, <2>1, <2>2 DEF Answering, Answered, AnswerLast
  <2> QED
    BY <2>1, <2>3 DEF StatusesOK, Answers
<1> QED
  BY <1>4, <1>5, <1>6, <1>7, <1>8

\* getStatus goes on waiting for every answer that is due.
LEMMA ExpectedStays ==
    ASSUME IInv, NextKitchen, NEW k \in KitchenId, handle[k].alive, Expected(k)
    PROVE  Expected(k)'
<1>1. visit \in Seq(KitchenId) /\ visit # <<>> /\ gotReply' = FALSE /\ duty' = duty /\ duty = "status"
  BY DEF IInv, Types, NextKitchen, Expected
<1>2. PICK i \in DOMAIN visit : visit[i] = k /\ ~(gotReply /\ i = 1)
  BY DEF Expected
<1>3. /\ Head(visit) = visit[1] /\ Head(visit) \in KitchenId
      /\ Tail(visit) \in Seq(KitchenId) /\ DOMAIN Tail(visit) = 1 .. Len(visit) - 1
      /\ \A j \in DOMAIN Tail(visit) : Tail(visit)[j] = visit[j + 1]
      /\ Len(visit) \in Nat /\ DOMAIN visit = 1 .. Len(visit) /\ Len(Tail(visit)) = Len(visit) - 1
  BY <1>1, QueueEnds
<1>4. /\ DOMAIN Append(Tail(visit), Head(visit)) = 1 .. Len(Tail(visit)) + 1
      /\ \A j \in DOMAIN Append(Tail(visit), Head(visit)) :
            Append(Tail(visit), Head(visit))[j] =
                IF j = Len(Tail(visit)) + 1 THEN Head(visit) ELSE Tail(visit)[j]
  BY <1>3, QueueEnds
<1>5. CASE i = 1
  <2>1. visit' = Append(Tail(visit), Head(visit)) /\ Head(visit) = k
    BY <1>1, <1>2, <1>3, <1>5 DEF NextKitchen
  <2>2. Len(visit) \in DOMAIN Append(Tail(visit), Head(visit))
    BY <1>2, <1>3, <1>4
  <2>3. Append(Tail(visit), Head(visit))[Len(visit)] = k
    BY <1>3, <1>4, <2>1, <2>2
  <2> QED
    BY <1>1, <2>1, <2>2, <2>3 DEF Expected
<1>6. CASE i # 1
  <2>1. i - 1 \in DOMAIN Tail(visit) /\ Tail(visit)[i - 1] = k /\ i - 1 # Len(Tail(visit)) + 1
    BY <1>2, <1>3, <1>6
  <2>2. i - 1 \in DOMAIN Append(Tail(visit), Head(visit))
    BY <1>3, <1>4, <2>1
  <2>3. Append(Tail(visit), Head(visit))[i - 1] = k
    BY <1>4, <2>1, <2>2
  <2>4. visit' = Append(Tail(visit), Head(visit)) \/ visit' = Tail(visit)
    BY DEF NextKitchen
  <2>5. CASE visit' = Tail(visit)
    BY <1>1, <2>1, <2>5 DEF Expected
  <2>6. CASE visit' = Append(Tail(visit), Head(visit))
    BY <1>1, <2>2, <2>3, <2>6 DEF Expected
  <2> QED
    BY <2>4, <2>5, <2>6
<1> QED
  BY <1>5, <1>6

\* The status commands are answered whole, and one after the other.
LEMMA StatusesStep ==
    ASSUME IInv, ReceptionNext
    PROVE  Statuses'
<1> SUFFICES ASSUME NEW k \in KitchenId
             PROVE  StatusesOK(kitchens'[k], handle'[k], Expected(k)')
  <2>1. (\A k \in KitchenId : StatusesOK(kitchens'[k], handle'[k], Expected(k)')) => Statuses'
    BY Zenon DEF Statuses, StatusesOK, Answers, Expected, Asked, Said, Replied, Quiet, Asking, Answering, Answered
  <2> QED
    BY <2>1
<1> DEFINE b == kitchens[k]
           c == kitchens'[k]
           h == handle[k]
           g == handle'[k]
           e == Expected(k)
<1> SUFFICES StatusesOK(c, g, Expected(k)')
  OBVIOUS
<1>1. /\ Types /\ Boxes /\ Handles /\ Control /\ OnePlace
      /\ b \in Box /\ BoxInv(b) /\ c \in Box
      /\ handle \in [KitchenId -> Handle] /\ h.cooks \in Nat /\ h.alive \in BOOLEAN
      /\ h.alive => k \in roster
  <2>1. Types /\ Boxes /\ Handles /\ Control /\ OnePlace
    BY DEF IInv
  <2>2. b \in Box /\ BoxInv(b) /\ c \in Box
    BY <2>1, BoxesStep DEF Types, Boxes
  <2>3. handle \in [KitchenId -> Handle] /\ h.cooks \in Nat /\ h.alive \in BOOLEAN
    BY <2>1, Constants DEF Types, Handle
  <2> QED
    BY <2>1, <2>2, <2>3 DEF Handles
<1>2. StatusesOK(b, h, e)
  BY StatusesIs DEF IInv
<1>3. rpc = "select" \/ duty # "status" \/ visit = <<>> => ~e
  BY <1>1 DEF Expected, Control
<1>4. ASSUME SameTraffic(b, c), g.alive => h.alive /\ g.cooks = h.cooks,
             g.alive /\ e => Expected(k)' \/ Quiet(b)
      PROVE  StatusesOK(c, g, Expected(k)')
  BY <1>1, <1>2, <1>4, CalmStatuses
<1>5. ASSUME UNCHANGED <<duty, visit>>, ~gotReply' \/ gotReply' = gotReply
      PROVE  e => Expected(k)'
  BY <1>5 DEF Expected
<1>6. CASE RequestStatus
  <2>1. /\ rpc = "select" /\ ~gotReply
    BY <1>1, <1>6 DEF RequestStatus, Control
  <2>2. h.alive => Quiet(b)
    BY <1>2, <1>3, <2>1 DEF StatusesOK
  <2>3. CASE k \in Alive
    <3>1. Sent(b, c, "StatusRequest", NoPizza)
      BY <1>1, <1>6, <2>3, RequestStep, Constants DEF Sent, OrderType
    <3>2. Quiet(b)
      BY <2>2, <2>3 DEF Alive
    <3>3. Asked(c) = 1 /\ c.replies = 0 /\ Said(c) = 0 /\ Replied(c) = 0
      BY <3>1, <3>2, SentTraffic DEF Quiet
    <3>4. g.cooks = 0
      BY <1>1, <1>6, <2>3 DEF RequestStatus, Handle
    <3>5. Expected(k)'
      <4>1. Alive \in SUBSET KitchenId
        BY <1>1 DEF Alive, Types
      <4>2. \E i \in DOMAIN InOrder(Alive) : InOrder(Alive)[i] = k
        BY <2>3, <4>1, InOrderVisits
      <4> QED
        BY <1>6, <2>1, <4>2 DEF RequestStatus, Expected
    <3>6. NCooks \in Nat
      BY Constants
    <3> HIDE DEF b, c, g
    <3> QED
      BY <3>3, <3>4, <3>5, <3>6 DEF StatusesOK, Answers, Asking
  <2>4. CASE k \notin Alive
    <3>1. SameTraffic(b, c)
      BY <1>1, <1>6, <2>4, RequestStep, SameBoxTraffic
    <3>2. g = h /\ ~h.alive
      BY <1>1, <1>6, <2>4 DEF RequestStatus, Alive
    <3> QED
      BY <1>4, <3>1, <3>2
  <2> QED
    BY <2>3, <2>4
<1>7. CASE HandleCookStatus(k)
  <2>1. /\ b.results # <<>> /\ c = [b EXCEPT !.results = Tail(@)] /\ h.alive
        /\ Head(b.results).type = "CookStatus"
    BY <1>7, PacketStep DEF HandlePacket, HandleCookStatus, Gets
  <2>2. /\ Asked(c) = Asked(b) /\ c.replies = b.replies /\ Said(b) = Said(c) + 1
        /\ Replied(b) = Replied(c)
    <3>1. /\ Asked(c) = Asked(b) /\ c.replies = b.replies
          /\ Said(b) = Said(c) + (IF Head(b.results).type = "CookStatus" THEN 1 ELSE 0)
          /\ Replied(b) = Replied(c) + (IF Head(b.results).type = "StatusReply" THEN 1 ELSE 0)
      <4> HIDE DEF b, c
      <4> QED
        BY <1>1, <2>1, ReceivedTraffic
    <3>2. Replied(c) \in Nat
      BY <1>1, TrafficNat
    <3> QED
      BY <2>1, <3>1, <3>2
  <2>3. AnswerLast(b.results) => AnswerLast(c.results)
    <3> HIDE DEF b, c
    <3>1. b \in Box /\ BoxInv(b) /\ b.results # <<>> /\ c = [b EXCEPT !.results = Tail(@)]
      BY <1>1, <2>1
    <3> QED
      BY <3>1, ReceivedTraffic, Zenon
  <2>4. g.cooks = h.cooks + 1
    BY <1>1, <1>7 DEF HandleCookStatus, Handle
  <2>5. Said(c) \in Nat /\ Replied(c) \in Nat /\ c.replies \in Nat /\ NCooks \in Nat /\ Asked(c) \in Nat
    BY <1>1, TrafficNat
  <2>6. e /\ (Answering(b, h.cooks) \/ Answered(b, h.cooks))
    BY <1>2, <2>1, <2>2, <2>5 DEF StatusesOK, Answers, Quiet, Asking
  <2>7. Expected(k)'
    BY <1>5, <1>7, <2>6 DEF HandleCookStatus, callVars
  <2>8. Answering(b, h.cooks) => Answering(c, g.cooks)
    BY <1>1, <2>2, <2>4, <2>5 DEF Answering
  <2>9. Answered(b, h.cooks) => Answered(c, g.cooks)
    <3> HIDE DEF b, c, g, h
    <3> QED
      BY <1>1, <2>2, <2>3, <2>4, <2>5 DEF Answered, AnswerLast
  <2> HIDE DEF b, c, g, h, e
  <2> QED
    BY <1>2, <2>2, <2>5, <2>6, <2>7, <2>8, <2>9 DEF StatusesOK, Answers
<1>8. CASE HandleStatusReply(k)
  <2>1. /\ b.results # <<>> /\ c = [b EXCEPT !.results = Tail(@)] /\ h.alive
        /\ Head(b.results).type = "StatusReply"
    BY <1>8, PacketStep DEF HandlePacket, HandleStatusReply, Gets
  <2>2. /\ Asked(c) = Asked(b) /\ c.replies = b.replies /\ Said(b) = Said(c)
        /\ Replied(b) = Replied(c) + 1
    <3>1. /\ Asked(c) = Asked(b) /\ c.replies = b.replies
          /\ Said(b) = Said(c) + (IF Head(b.results).type = "CookStatus" THEN 1 ELSE 0)
          /\ Replied(b) = Replied(c) + (IF Head(b.results).type = "StatusReply" THEN 1 ELSE 0)
      <4> HIDE DEF b, c
      <4> QED
        BY <1>1, <2>1, ReceivedTraffic
    <3>2. Said(c) \in Nat
      BY <1>1, TrafficNat
    <3> QED
      BY <2>1, <3>1, <3>2
  <2>3. Said(c) \in Nat /\ Replied(c) \in Nat /\ c.replies \in Nat /\ NCooks \in Nat /\ Asked(c) \in Nat
    BY <1>1, TrafficNat
  <2>4. Answered(b, h.cooks)
    BY <1>2, <2>1, <2>2, <2>3 DEF StatusesOK, Answers, Quiet, Asking, Answering
  <2>5. Said(b) = 0
    <3> HIDE DEF b, c
    <3>1. AnswerLast(b.results)
      BY <2>4 DEF Answered, AnswerLast
    <3> QED
      BY <1>1, <2>1, <3>1, ReceivedTraffic
  <2> HIDE DEF b, c, g, h, e
  <2>6. Quiet(c)
    BY <2>2, <2>3, <2>4, <2>5 DEF Answered, Quiet
  <2> QED
    BY <2>3, <2>6 DEF StatusesOK, Quiet
<1>9. CASE Processes
  <2>1. PICK j \in KitchenId : KitchenStep(j)
    BY <1>9 DEF Processes
  <2>2. g = h /\ (Expected(k)' <=> e)
    BY <1>9 DEF Processes, callVars, Expected
  <2>3. CASE j = k
    <3>1. BoxStep(b, c)
      BY <1>1, <2>1, <2>3, ProcessStep
    <3>2. b.phase = "open" => h.alive
      BY <1>1 DEF Handles
    <3> HIDE DEF b, c, g, h
    <3>3. StatusesOK(c, h, e)
      BY <1>1, <1>2, <3>1, <3>2, AnswerStep
    <3> QED
      BY <2>2, <3>3 DEF StatusesOK
  <2>4. CASE j # k
    <3>1. SameTraffic(b, c)
      BY <1>1, <2>1, <2>4, ProcessStep, SameBoxTraffic DEF Elsewhere
    <3> QED
      BY <1>4, <2>2, <3>1
  <2> QED
    BY <2>3, <2>4
<1>10. ASSUME ~RequestStatus, ~Processes, ~HandleCookStatus(k), ~HandleStatusReply(k)
       PROVE  StatusesOK(c, g, Expected(k)')
  <2>1. SameTraffic(b, c)
    BY <1>10, CalmTraffic
  <2>2. h.alive /\ ~e => Quiet(b)
    BY <1>2 DEF StatusesOK
  <2>3. ASSUME g.alive => h.alive /\ g.cooks = h.cooks, g.alive /\ e => Expected(k)'
        PROVE  StatusesOK(c, g, Expected(k)')
    BY <1>4, <2>1, <2>3
  <2>4. ASSUME NEW j \in KitchenId, HandlePacket(j)
        PROVE  StatusesOK(c, g, Expected(k)')
    <3>1. /\ j = Head(visit) /\ visit # <<>> /\ UNCHANGED <<duty, visit>>
          /\ gotReply' = gotReply \/ HandleStatusReply(j)
      BY <2>4, PacketStep
      DEF HandlePacket, HandleDone, HandleFull, HandleCookStatus, HandleStatusReply, HandleShutdown,
          callVars
    <3>2. e => Expected(k)'
      <4>1. CASE gotReply' = gotReply
        BY <1>5, <3>1, <4>1
      <4>2. CASE HandleStatusReply(j)
        <5>1. j # k /\ visit[1] = j
          BY <1>10, <3>1, <4>2, VisitHead
        <5> QED
          BY <3>1, <5>1 DEF Expected
      <4> QED
        BY <3>1, <4>1, <4>2
    <3>3. g.alive => h.alive /\ g.cooks = h.cooks
      <4>1. CASE j = k
        BY <1>1, <1>10, <2>4, <4>1
        DEF HandlePacket, HandleDone, HandleFull, HandleShutdown, OneLessLoad, Handle
      <4>2. CASE j # k
        BY <1>1, <2>4, <4>2
        DEF HandlePacket, HandleDone, HandleFull, HandleCookStatus, HandleStatusReply,
            HandleShutdown, OneLessLoad
      <4> QED
        BY <4>1, <4>2
    <3> QED
      BY <2>3, <3>2, <3>3
  <2>5. CASE SpawnKitchen
    <3>1. /\ handle' = [handle EXCEPT ![nextKitchen] = NewHandle] /\ nextKitchen \in KitchenId
          /\ Spawn(nextKitchen) /\ UNCHANGED <<duty, visit, gotReply>>
      BY <2>5 DEF SpawnKitchen, callVars
    <3>2. CASE k = nextKitchen
      <4>1. c = [Unborn EXCEPT !.phase = "open"]
        BY <1>1, <3>1, <3>2, SpawnStep
      <4>2. Quiet(c) /\ NCooks \in Nat
        BY <4>1, BoxOpened, Constants
      <4> HIDE DEF c, g
      <4> QED
        BY <4>2 DEF StatusesOK, Quiet
    <3>3. CASE k # nextKitchen
      <4>1. g = h
        BY <1>1, <3>1, <3>3
      <4> QED
        BY <1>5, <2>3, <3>1, <4>1
    <3> QED
      BY <3>2, <3>3
  <2>6. CASE NextKitchen
    <3>1. g = h
      BY <2>6 DEF NextKitchen
    <3>2. g.alive /\ e => Expected(k)'
      BY <2>6, <3>1, ExpectedStays
    <3> QED
      BY <2>3, <3>1, <3>2
  <2>7. CASE FinishDraining
    <3>1. (g = h \/ g = NoHandle) /\ ~e
      BY <1>3, <2>7 DEF FinishDraining
    <3> QED
      BY <2>3, <3>1 DEF NoHandle
  <2>8. CASE SendPizza
    <3>1. ~e
      BY <1>1, <1>3, <2>8 DEF SendPizza, Control
    <3>2. g.alive = h.alive /\ g.cooks = h.cooks
      <4>1. handle' = [handle EXCEPT ![Best] = [handle[Best] EXCEPT !.load = @ + 1]]
        BY <2>8 DEF SendPizza
      <4> QED
        BY <1>1, <4>1 DEF Handle
    <3> QED
      BY <2>3, <3>1, <3>2
  <2>9. CASE WaitForExit
    <3>1. ~e
      BY <1>1, <1>3, <2>9 DEF WaitForExit, Control
    <3>2. g.alive => h.alive /\ g.cooks = h.cooks
      BY <1>1, <2>9 DEF WaitForExit, Handle
    <3> QED
      BY <2>3, <3>1, <3>2
  <2>10. ASSUME UNCHANGED handle, UNCHANGED callVars \/ ~e \/ UNCHANGED <<duty, visit, gotReply>>
         PROVE  StatusesOK(c, g, Expected(k)')
    <3>1. g = h
      BY <2>10
    <3>2. e => Expected(k)'
      BY <1>5, <2>10 DEF callVars
    <3> QED
      BY <2>3, <3>1, <3>2
  <2>11. CASE (\E n \in 1 .. MaxSize : PlaceOrder(n)) \/ Poll \/ EndOfInput
    <3>1. UNCHANGED handle /\ ~e
      BY <1>3, <2>11 DEF PlaceOrder, Poll, EndOfInput
    <3> QED
      BY <2>10, <3>1
  <2>12. CASE SpawnFails \/ FinishDispatch \/ CommandShutdown \/ FinishShutdown \/ Reap \/ ReceptionDone
    <3>1. UNCHANGED handle /\ (~e \/ UNCHANGED <<duty, visit, gotReply>>)
      BY <1>1, <1>3, <2>12
      DEF SpawnFails, FinishDispatch, CommandShutdown, FinishShutdown, Reap, ReceptionDone, Control,
          callVars, vars
    <3> QED
      BY <2>10, <3>1
  <2> QED
    BY <1>10, <2>4, <2>5, <2>6, <2>7, <2>8, <2>9, <2>11, <2>12
    DEF ReceptionNext, Customer, Working
<1> QED
  BY <1>6, <1>7, <1>8, <1>9, <1>10

-----------------------------------------------------------------------------
(* Each pizza in one place.                                                *)

\* Outside counts, and is 0 when the pizza is in none of its places.
LEMMA OutsideNat ==
    ASSUME NEW p \in Pizza, Types
    PROVE  /\ Number(todo, {p}) \in Nat /\ Outside(p) \in Nat
           /\ Outside(p) = 0 <=> Number(todo, {p}) = 0 /\ p \notin ready /\ p \notin dropped
<1>1. Number(todo, {p}) \in Nat
  BY HitsFinite DEF Types
<1> QED
  BY <1>1 DEF Outside

\* A pizza that the step leaves where it is.
LEMMA PlaceKept ==
    ASSUME NEW p \in Pizza, InOnePlace(p), Outside(p)' = Outside(p), Ordered(p)' <=> Ordered(p),
           \A k \in KitchenId : Weight(kitchens'[k], {p}) = Weight(kitchens[k], {p})
    PROVE  InOnePlace(p)'
<1> DEFINE one == IF Ordered(p) THEN 1 ELSE 0
           two == IF Ordered(p)' THEN 1 ELSE 0
<1>1. one = two
  OBVIOUS
<1>2. CASE Outside(p) = one /\ \A k \in KitchenId : Weight(kitchens[k], {p}) = 0
  <2>1. Outside(p)' = two /\ \A k \in KitchenId : Weight(kitchens'[k], {p}) = 0
    <3> HIDE DEF one, two
    <3> QED
      BY <1>1, <1>2
  <2> QED
    BY <2>1 DEF InOnePlace
<1>3. CASE /\ Outside(p) = 0 /\ Ordered(p)
           /\ \E k \in KitchenId : \A j \in KitchenId :
                Weight(kitchens[j], {p}) = IF j = k THEN 1 ELSE 0
  <2>1. PICK k \in KitchenId : \A j \in KitchenId :
          Weight(kitchens[j], {p}) = IF j = k THEN 1 ELSE 0
    BY <1>3
  <2>2. \A j \in KitchenId : Weight(kitchens'[j], {p}) = IF j = k THEN 1 ELSE 0
    BY <2>1
  <2>3. Outside(p)' = 0 /\ Ordered(p)'
    BY <1>3
  <2> QED
    BY <2>2, <2>3 DEF InOnePlace
<1> QED
  BY <1>2, <1>3 DEF InOnePlace

\* A pizza that is ordered is new, and dispatch has it.
LEMMA PlaceOrderPlaces ==
    ASSUME IInv, NEW n \in 1 .. MaxSize, PlaceOrder(n), NEW p \in Pizza
    PROVE  InOnePlace(p)'
<1> DEFINE id == Len(sizes) + 1
<1>1. /\ InOnePlace(p) /\ Types
      /\ todo = <<>> /\ sizes' = Append(sizes, n) /\ todo' = [i \in 1 .. n |-> <<id, i>>]
      /\ UNCHANGED <<kitchens, ready, dropped>>
  BY DEF IInv, OnePlace, PlaceOrder, Control
<1>2. /\ Len(sizes) \in Nat /\ n \in Nat /\ MaxOrders \in Nat /\ MaxSize \in Nat
      /\ p[1] \in 1 .. MaxOrders /\ p[2] \in 1 .. MaxSize /\ p = <<p[1], p[2]>>
      /\ sizes \in Seq(1 .. MaxSize)
  BY <1>1, Constants DEF Types, Pizza, OrderId
<1>3. /\ Len(sizes') = id
      /\ \A o \in 1 .. id : sizes'[o] = IF o = id THEN n ELSE sizes[o]
  <2>1. n \in 1 .. MaxSize
    OBVIOUS
  <2> QED
    BY <1>1, <1>2, <2>1, QueueEnds
<1>4. Ordered(p)' <=> IF p[1] = id THEN p[2] <= n ELSE Ordered(p)
  BY <1>2, <1>3 DEF Ordered
<1>5. \A k \in KitchenId : Weight(kitchens'[k], {p}) = Weight(kitchens[k], {p})
  BY <1>1, Zenon
<1>6. Number(todo, {p}) = 0
  BY <1>1, NumberEmpty
<1>7. /\ todo' \in Seq(Nat \X Nat) /\ DOMAIN todo' = 1 .. n
      /\ \A i \in 1 .. n : todo'[i] = <<id, i>>
  <2>1. id \in Nat
    BY <1>2
  <2> HIDE DEF id
  <2>2. \A i \in 1 .. n : <<id, i>> \in Nat \X Nat
    BY <2>1
  <2>3. todo' \in [1 .. n -> Nat \X Nat] /\ \A i \in 1 .. n : todo'[i] = <<id, i>>
    BY <1>1, <2>2
  <2> QED
    BY SMTT(40), <1>2, <2>3
<1>8. Number(todo', {p}) = IF p[1] = id /\ p[2] <= n THEN 1 ELSE 0
  <2>1. CASE p[1] = id /\ p[2] <= n
    <3>1. p[2] \in DOMAIN todo' /\ \A i \in DOMAIN todo' : todo'[i] \in {p} <=> i = p[2]
      <4>1. p[2] \in DOMAIN todo'
        BY <1>2, <1>7, <2>1
      <4> HIDE DEF id
      <4>2. \A i \in DOMAIN todo' : todo'[i] = p <=> i = p[2]
        <5> SUFFICES ASSUME NEW i \in DOMAIN todo'
                     PROVE  todo'[i] = p <=> i = p[2]
          OBVIOUS
        <5>1. todo'[i] = <<id, i>> /\ p = <<id, p[2]>>
          BY <1>2, <1>7, <2>1
        <5>2. <<id, i>> = <<id, p[2]>> <=> i = p[2]
          OBVIOUS
        <5> QED
          BY <5>1, <5>2, Zenon
      <4> QED
        BY <4>1, <4>2
    <3>2. Number(todo', {p}) = 1
      BY <1>7, <3>1, NumberOne
    <3> QED
      BY <2>1, <3>2
  <2>2. CASE ~(p[1] = id /\ p[2] <= n)
    <3>1. \A i \in DOMAIN todo' : todo'[i] \notin {p}
      BY <1>2, <1>7, <2>2
    <3>2. Number(todo', {p}) = 0
      BY <1>7, <3>1, NumberZero
    <3> QED
      BY <2>2, <3>2
  <2> QED
    BY <2>1, <2>2
<1>9. CASE p[1] = id
  <2>1. ~Ordered(p)
    BY <1>2, <1>9 DEF Ordered
  <2>2. Outside(p) = 0 /\ \A k \in KitchenId : Weight(kitchens[k], {p}) = 0
    BY <1>1, <2>1 DEF InOnePlace
  <2>3. p \notin ready /\ p \notin dropped
    BY <1>1, <2>2, OutsideNat
  <2>4. Outside(p)' = Number(todo', {p})
    <3>1. Outside(p)' = Number(todo', {p}) + 0 + 0
      BY <1>1, <2>3 DEF Outside
    <3>2. Number(todo', {p}) \in Nat
      BY <1>7, HitsFinite
    <3> QED
      BY <3>1, <3>2
  <2>5. Outside(p)' = IF Ordered(p)' THEN 1 ELSE 0
    BY <1>4, <1>8, <1>9, <2>4
  <2>6. \A k \in KitchenId : Weight(kitchens'[k], {p}) = 0
    BY <1>5, <2>2
  <2> QED
    BY <2>5, <2>6 DEF InOnePlace
<1>10. CASE p[1] # id
  <2>1. Number(todo', {p}) = Number(todo, {p}) /\ (Ordered(p)' <=> Ordered(p))
    BY <1>4, <1>6, <1>8, <1>10
  <2>2. Outside(p)' = Outside(p)
    BY <1>1, <2>1 DEF Outside
  <2> QED
    BY <1>1, <1>5, <2>1, <2>2, PlaceKept
<1> QED
  BY <1>9, <1>10

\* A pizza that is answered for goes to ready or to dropped.
LEMMA PacketPlaces ==
    ASSUME IInv, NEW j \in KitchenId, HandlePacket(j), NEW p \in Pizza
    PROVE  InOnePlace(p)'
<1> DEFINE m == Head(kitchens[j].results)
<1>1. InOnePlace(p) /\ Types
  BY DEF IInv, OnePlace
<1>2. UNCHANGED <<todo, sizes>>
  BY DEF HandlePacket, HandleDone, HandleFull, HandleCookStatus, HandleStatusReply, HandleShutdown,
         callVars, orderVars
<1>3. \A k \in KitchenId :
        /\ Weight(kitchens[k], {p}) =
              Weight(kitchens'[k], {p}) + (IF k = j /\ m.pizza = p THEN 1 ELSE 0)
        /\ Weight(kitchens'[k], {p}) \in Nat
  <2> SUFFICES ASSUME NEW k \in KitchenId
               PROVE  /\ Weight(kitchens[k], {p}) =
                           Weight(kitchens'[k], {p}) + (IF k = j /\ m.pizza = p THEN 1 ELSE 0)
                      /\ Weight(kitchens'[k], {p}) \in Nat
    OBVIOUS
  <2> DEFINE P == {p}
  <2>1. P \in SUBSET Pizza /\ (m.pizza \in P <=> m.pizza = p)
    OBVIOUS
  <2> HIDE DEF P
  <2>2. Weight(kitchens[k], P) =
              Weight(kitchens'[k], P) + (IF k = j /\ m.pizza \in P THEN 1 ELSE 0)
    BY <2>1, WeightsPacket
  <2>3. kitchens'[k] \in Box
    BY PacketStep DEF Elsewhere
  <2>4. Weight(kitchens'[k], P) \in Nat
    BY <2>3, WeightNat
  <2> QED
    BY <2>1, <2>2, <2>4 DEF P
<1>4. /\ kitchens[j] \in Box /\ BoxInv(kitchens[j]) /\ kitchens[j].results # <<>>
      /\ m.type \in {"Done", "Full"} <=> m.pizza \in Pizza
  <2>1. kitchens[j] \in Box /\ BoxInv(kitchens[j]) /\ kitchens[j].results # <<>>
    BY PacketStep
  <2> QED
    BY <2>1, BoxReceived
<1>5. Ordered(p)' <=> Ordered(p)
  BY <1>2 DEF Ordered
<1>6. \/ m.pizza \in Pizza /\ ready' = ready \cup {m.pizza} /\ dropped' = dropped
      \/ m.pizza \in Pizza /\ ready' = ready /\ dropped' = dropped \cup {m.pizza}
      \/ m.pizza \notin Pizza /\ ready' = ready /\ dropped' = dropped
  BY <1>4 DEF HandlePacket, HandleDone, HandleFull, HandleCookStatus, HandleStatusReply,
              HandleShutdown, Gets, orderVars
<1> HIDE DEF m
<1>7. CASE m.pizza # p
  <2>1. \A k \in KitchenId : Weight(kitchens'[k], {p}) = Weight(kitchens[k], {p})
    BY <1>3, <1>7
  <2>2. (p \in ready' <=> p \in ready) /\ (p \in dropped' <=> p \in dropped)
    BY <1>6, <1>7
  <2>3. Outside(p)' = Outside(p)
    BY <1>2, <2>2 DEF Outside
  <2> QED
    BY <1>1, <1>5, <2>1, <2>3, PlaceKept
<1>8. CASE m.pizza = p
  <2>1. Weight(kitchens[j], {p}) # 0
    BY SMTT(40), <1>3, <1>8
  <2>2. PICK k \in KitchenId : \A i \in KitchenId :
          Weight(kitchens[i], {p}) = IF i = k THEN 1 ELSE 0
    BY <1>1, <2>1 DEF InOnePlace
  <2>3. k = j
    BY <2>1, <2>2
  <2>4. Outside(p) = 0 /\ Ordered(p)
    BY <1>1, <2>1 DEF InOnePlace
  <2>5. Number(todo', {p}) = 0 /\ p \notin ready /\ p \notin dropped
    BY <1>1, <1>2, <2>4, OutsideNat
  <2>6. Outside(p)' = 1
    BY <1>6, <1>8, <2>5 DEF Outside
  <2>7. \A i \in KitchenId : Weight(kitchens'[i], {p}) = 0
    BY <1>3, <1>8, <2>2, <2>3
  <2> QED
    BY <1>5, <2>4, <2>6, <2>7 DEF InOnePlace
<1> QED
  BY <1>7, <1>8

\* A pizza that is sent goes from dispatch to a kitchen.
LEMMA SendPlaces ==
    ASSUME IInv, SendPizza, NEW p \in Pizza
    PROVE  InOnePlace(p)'
<1> DEFINE m == Head(todo)
<1>1. /\ InOnePlace(p) /\ Types /\ todo \in Seq(Pizza) /\ todo # <<>> /\ todo' = Tail(todo)
      /\ UNCHANGED <<sizes, ready, dropped>>
  BY DEF IInv, OnePlace, Types, SendPizza, orderVars
<1>2. \A k \in KitchenId :
        Weight(kitchens'[k], {p}) =
              Weight(kitchens[k], {p}) + (IF k = Best /\ m = p THEN 1 ELSE 0)
  <2> SUFFICES ASSUME NEW k \in KitchenId
               PROVE  Weight(kitchens'[k], {p}) =
                        Weight(kitchens[k], {p}) + (IF k = Best /\ m = p THEN 1 ELSE 0)
    OBVIOUS
  <2> DEFINE P == {p}
  <2>1. P \in SUBSET Pizza /\ (m \in P <=> m = p)
    OBVIOUS
  <2> HIDE DEF P
  <2>2. Weight(kitchens'[k], P) =
              Weight(kitchens[k], P) + (IF k = Best /\ m \in P THEN 1 ELSE 0)
    BY <2>1, WeightsSend
  <2> QED
    BY <2>1, <2>2 DEF P
<1>3. \A k \in KitchenId : Weight(kitchens[k], {p}) \in Nat
  BY <1>1, WeightNat DEF Types
<1>4. Number(todo, {p}) = Number(todo', {p}) + (IF m = p THEN 1 ELSE 0)
  <2> DEFINE P == {p}
  <2> HIDE DEF P
  <2>1. Number(todo, P) = Number(Tail(todo), P) + (IF m \in P THEN 1 ELSE 0)
    BY <1>1, NumberTail
  <2>2. Number(Tail(todo), P) = Number(todo', P)
    BY <1>1, Zenon
  <2> QED
    BY <2>1, <2>2 DEF P
<1>5. Number(todo', {p}) \in Nat
  <2>1. todo' \in Seq(Pizza)
    BY <1>1, QueueEnds
  <2> QED
    BY <2>1, HitsFinite
<1>6. Ordered(p)' <=> Ordered(p)
  BY <1>1 DEF Ordered
<1>7. Best \in KitchenId
  BY SendPizzaStep
<1>8. CASE m # p
  <2>1. \A k \in KitchenId : Weight(kitchens'[k], {p}) = Weight(kitchens[k], {p})
    BY <1>2, <1>3, <1>8
  <2>2. Number(todo, {p}) = Number(todo', {p})
    BY <1>4, <1>5, <1>8
  <2>3. Outside(p)' = Outside(p)
    BY <1>1, <2>2 DEF Outside
  <2> QED
    BY <1>1, <1>6, <2>1, <2>3, PlaceKept
<1>9. CASE m = p
  <2>1. Outside(p) # 0 /\ Outside(p) \in Nat
    BY <1>1, <1>4, <1>5, <1>9, OutsideNat
  <2>2. /\ Outside(p) = 1 /\ Ordered(p)
        /\ \A k \in KitchenId : Weight(kitchens[k], {p}) = 0
    BY <1>1, <2>1 DEF InOnePlace
  <2>3. Outside(p)' = 0
    <3> DEFINE r == IF p \in ready THEN 1 ELSE 0
               d == IF p \in dropped THEN 1 ELSE 0
    <3>1. Outside(p) = Number(todo, {p}) + r + d /\ Outside(p)' = Number(todo', {p}) + r + d
      BY <1>1 DEF Outside
    <3>2. r \in Nat /\ d \in Nat
      OBVIOUS
    <3>3. Number(todo, {p}) = Number(todo', {p}) + 1
      BY <1>4, <1>9
    <3> HIDE DEF r, d
    <3> QED
      BY <1>5, <2>2, <3>1, <3>2, <3>3
  <2>4. \A k \in KitchenId : Weight(kitchens'[k], {p}) = IF k = Best THEN 1 ELSE 0
    BY <1>2, <1>9, <2>2
  <2> QED
    BY <1>6, <1>7, <2>2, <2>3, <2>4 DEF InOnePlace
<1> QED
  BY <1>8, <1>9

\* Every step keeps each pizza in one place.
LEMMA OnePlaceStep ==
    ASSUME IInv, ReceptionNext
    PROVE  OnePlace'
<1> SUFFICES ASSUME NEW p \in Pizza
             PROVE  InOnePlace(p)'
  BY DEF OnePlace
<1>1. CASE \E n \in 1 .. MaxSize : PlaceOrder(n)
  BY <1>1, PlaceOrderPlaces
<1>2. CASE SendPizza
  BY <1>2, SendPlaces
<1>3. CASE \E j \in KitchenId : HandlePacket(j)
  BY <1>3, PacketPlaces
<1>4. CASE /\ ~SendPizza /\ \A j \in KitchenId : ~HandlePacket(j)
           /\ \A n \in 1 .. MaxSize : ~PlaceOrder(n)
  <2>1. \A k \in KitchenId : Weight(kitchens'[k], {p}) = Weight(kitchens[k], {p})
    <3>1. {p} \in SUBSET Pizza
      OBVIOUS
    <3> QED
      BY <1>4, <3>1, WeightsElse
  <2>2. UNCHANGED <<todo, ready, dropped, sizes>>
    BY <1>4
    DEF ReceptionNext, Customer, Working, RequestStatus, EndOfInput, Poll, Reap, NextKitchen,
        FinishDraining, SpawnKitchen, SpawnFails, FinishDispatch, CommandShutdown, WaitForExit,
        FinishShutdown, Processes, ReceptionDone, callVars, orderVars, vars
  <2>3. Outside(p)' = Outside(p) /\ (Ordered(p)' <=> Ordered(p))
    BY <2>2 DEF Outside, Ordered
  <2> QED
    BY <2>1, <2>3, PlaceKept DEF IInv, OnePlace
<1> QED
  BY <1>1, <1>2, <1>3, <1>4

-----------------------------------------------------------------------------
(* The announcements.                                                      *)

\* The pizzas of one more order.
LEMMA OneMoreOrder ==
    ASSUME Types, NEW n \in Nat, n + 1 <= Len(sizes)
    PROVE  /\ Cardinality(FirstPizzas(n)) \in Nat
           /\ Cardinality(FirstPizzas(n + 1)) = Cardinality(FirstPizzas(n)) + sizes[n + 1]
<1> DEFINE s == sizes[n + 1]
           order == {p \in Pizza : p[1] = n + 1 /\ p[2] <= s}
           nth == [i \in 1 .. s |-> <<n + 1, i>>]
<1>1. /\ n + 1 \in OrderId /\ s \in 1 .. MaxSize /\ s \in Nat /\ MaxSize \in Nat /\ n + 1 \in Nat
      /\ sizes \in Seq(1 .. MaxSize) /\ MaxOrders \in Nat
  BY Constants DEF Types, OrderId
<1>2. FirstPizzas(n + 1) = FirstPizzas(n) \cup order /\ FirstPizzas(n) \cap order = {}
  <2>1. \A p \in Pizza : p[1] \in Nat /\ p[2] \in Nat
    BY Constants DEF Pizza, OrderId
  <2> QED
    BY <2>1 DEF FirstPizzas
<1>3. IsFiniteSet(FirstPizzas(n)) /\ Cardinality(FirstPizzas(n)) \in Nat
  <2>1. FirstPizzas(n) \in SUBSET Pizza
    BY DEF FirstPizzas
  <2> QED
    BY <2>1, PizzaFinite, FS_Subset, FS_CardinalityType
<1>4. nth \in Bijection(1 .. s, order)
  <2> HIDE DEF s
  <2>1. \A i \in 1 .. s : <<n + 1, i>> \in order
    BY <1>1 DEF Pizza
  <2>2. nth \in [1 .. s -> order]
    BY <2>1
  <2>3. \A i, j \in 1 .. s : nth[i] = nth[j] => i = j
    OBVIOUS
  <2>4. \A p \in order : \E i \in 1 .. s : nth[i] = p
    <3> SUFFICES ASSUME NEW p \in order
                 PROVE  \E i \in 1 .. s : nth[i] = p
      OBVIOUS
    <3>1. p[2] \in 1 .. s /\ p = <<n + 1, p[2]>>
      BY <1>1 DEF Pizza
    <3>2. nth[p[2]] = <<n + 1, p[2]>>
      BY <3>1
    <3> QED
      BY <3>1, <3>2, Zenon
  <2> HIDE DEF nth, order
  <2> QED
    BY <2>2, <2>3, <2>4 DEF Bijection, Injection, Surjection, IsInjective
<1>5. IsFiniteSet(order) /\ Cardinality(order) = s
  <2> HIDE DEF s, nth, order
  <2>1. IsFiniteSet(1 .. s) /\ Cardinality(1 .. s) = s
    <3>1. 1 \in Int /\ s \in Int /\ s >= 1
      BY <1>1
    <3>2. IsFiniteSet(1 .. s) /\ Cardinality(1 .. s) = IF 1 > s THEN 0 ELSE s - 1 + 1
      BY <3>1, FS_Interval
    <3> QED
      BY <3>1, <3>2
  <2>2. ExistsBijection(1 .. s, order)
    BY <1>4 DEF ExistsBijection
  <2> QED
    BY <2>1, <2>2, FS_Bijection
<1> HIDE DEF s, order
<1>6. Cardinality(FirstPizzas(n) \cup order) =
        Cardinality(FirstPizzas(n)) + Cardinality(order) - Cardinality({})
  BY <1>2, <1>3, <1>5, FS_Union
<1>7. Cardinality(FirstPizzas(n + 1)) = Cardinality(FirstPizzas(n)) + s
  <2>1. Cardinality(FirstPizzas(n + 1)) = Cardinality(FirstPizzas(n) \cup order)
    BY <1>2, Zenon
  <2> QED
    BY <1>1, <1>3, <1>5, <1>6, <2>1, FS_EmptySet
<1> QED
  BY <1>3, <1>7 DEF s

\* The pizzas done are pizzas that were ordered.
LEMMA ReadyOrdered ==
    ASSUME Types, OnePlace
    PROVE  /\ ready \in SUBSET FirstPizzas(Len(sizes))
           /\ IsFiniteSet(FirstPizzas(Len(sizes))) /\ IsFiniteSet(ready)
<1>1. ASSUME NEW p \in ready
      PROVE  p \in FirstPizzas(Len(sizes))
  <2>1. p \in Pizza
    BY DEF Types
  <2>2. Outside(p) # 0
    BY <2>1, OutsideNat
  <2>3. Ordered(p)
    BY <2>1, <2>2 DEF OnePlace, InOnePlace
  <2> QED
    BY <2>1, <2>3 DEF FirstPizzas, Ordered
<1>2. FirstPizzas(Len(sizes)) \in SUBSET Pizza /\ ready \in SUBSET Pizza
  BY DEF FirstPizzas, Types
<1> QED
  BY <1>1, <1>2, PizzaFinite, FS_Subset

\* A pizza whose Done is read has not been counted yet.
LEMMA DoneIsNew ==
    ASSUME IInv, NEW k \in KitchenId, HandleDone(k)
    PROVE  LET p == Head(kitchens[k].results).pizza IN
           /\ p \in Pizza /\ Ordered(p) /\ p \notin ready
           /\ Cardinality(ready') = Cardinality(ready) + 1 /\ Cardinality(ready) \in Nat
<1> DEFINE p == Head(kitchens[k].results).pizza
<1>1. Types /\ OnePlace
  BY DEF IInv
<1>2. /\ kitchens[k] \in Box /\ BoxInv(kitchens[k]) /\ kitchens[k].results # <<>>
      /\ kitchens'[k] \in Box
      /\ Head(kitchens[k].results).type = "Done"
  BY PacketStep DEF HandlePacket, HandleDone, Gets, Elsewhere
<1>3. p \in Pizza
  <2>1. kitchens[k] \in Box /\ BoxInv(kitchens[k]) /\ kitchens[k].results # <<>>
    BY <1>2
  <2>2. Head(kitchens[k].results).type \in {"Done", "Full"} <=> p \in Pizza
    BY <2>1, BoxReceived
  <2> QED
    BY <1>2, <2>2
<1>4. Weight(kitchens[k], {p}) # 0
  <2> DEFINE P == {p}
  <2>1. P \in SUBSET Pizza /\ p \in P
    BY <1>3
  <2> HIDE DEF P
  <2>2. Weight(kitchens[k], P) = Weight(kitchens'[k], P) + (IF k = k /\ p \in P THEN 1 ELSE 0)
    BY <2>1, WeightsPacket DEF HandlePacket
  <2>3. Weight(kitchens'[k], P) \in Nat
    BY <1>2, WeightNat
  <2>4. Weight(kitchens[k], P) # 0
    BY <2>1, <2>2, <2>3
  <2> QED
    BY <2>4 DEF P
<1>5. Outside(p) = 0 /\ Ordered(p)
  BY <1>1, <1>3, <1>4 DEF OnePlace, InOnePlace
<1>6. p \notin ready
  BY <1>1, <1>3, <1>5, OutsideNat
<1>7. IsFiniteSet(ready) /\ Cardinality(ready) \in Nat
  BY <1>1, ReadyOrdered, FS_CardinalityType
<1>8. Cardinality(ready \cup {p}) = Cardinality(ready) + 1
  <2> HIDE DEF p
  <2> QED
    BY <1>6, <1>7, FS_AddElement
<1>9. Cardinality(ready') = Cardinality(ready \cup {p})
  <2>1. ready' = ready \cup {p}
    BY DEF HandleDone
  <2> QED
    BY <2>1, Zenon
<1> QED
  BY <1>3, <1>5, <1>6, <1>7, <1>8, <1>9

\* There is always an order to count a Done packet for.
LEMMA DoneIsPending ==
    ASSUME IInv, NEW k \in KitchenId, HandleDone(k)
    PROVE  pending # <<>>
<1> SUFFICES ASSUME pending = <<>>
             PROVE  FALSE
  OBVIOUS
<1> DEFINE p == Head(kitchens[k].results).pizza
           all == FirstPizzas(Len(sizes))
<1>1. Types /\ OnePlace /\ Counting
  BY DEF IInv
<1>2. p \in Pizza /\ Ordered(p) /\ p \notin ready
  BY DoneIsNew
<1>3. p \in all
  BY <1>2 DEF FirstPizzas, Ordered
<1>4. ready \in SUBSET all /\ IsFiniteSet(all) /\ IsFiniteSet(ready)
  BY <1>1, ReadyOrdered
<1>5. Len(announced) = Len(sizes)
  BY <1>1 DEF Counting, Types
<1>6. Cardinality(ready) = Cardinality(all)
  <2>1. Cardinality(all) = Cardinality(FirstPizzas(Len(announced)))
    BY <1>5, Zenon
  <2>2. Cardinality(all) \in Nat
    BY <1>4, FS_CardinalityType
  <2>3. Cardinality(ready) = Cardinality(FirstPizzas(Len(announced))) + 0
    BY <1>1 DEF Counting
  <2> HIDE DEF all
  <2> QED
    BY <2>1, <2>2, <2>3
<1>7. ready = all
  <2> HIDE DEF all
  <2> QED
    BY <1>4, <1>6, FS_Subset
<1> QED
  BY <1>2, <1>3, <1>7

\* The last place of the counting: the order that comes next.
Missing == IF pending = <<>> THEN 0 ELSE sizes[Len(announced) + 1] - Head(pending).left

\* What Counting and Types say of the lengths and numbers involved.
LEMMA CountingFacts ==
    ASSUME Types, Counting
    PROVE  /\ Len(announced) \in Nat /\ Len(pending) \in Nat /\ Len(sizes) \in Nat
           /\ announced \in Seq(OrderId) /\ sizes \in Seq(1 .. MaxSize)
           /\ pending \in Seq([id : OrderId, left : 1 .. MaxSize])
           /\ Len(announced) + Len(pending) = Len(sizes)
           /\ Cardinality(ready) = Cardinality(FirstPizzas(Len(announced))) + Missing
           /\ pending # <<>> =>
                /\ Len(announced) + 1 <= Len(sizes)
                /\ Head(pending) = pending[1] /\ 1 \in DOMAIN pending
                /\ Head(pending).id = Len(announced) + 1
                /\ Head(pending).left \in Nat \ {0}
                /\ Head(pending).left <= sizes[Len(announced) + 1]
                /\ sizes[Len(announced) + 1] \in Nat
<1>1. /\ announced \in Seq(OrderId) /\ sizes \in Seq(1 .. MaxSize)
      /\ pending \in Seq([id : OrderId, left : 1 .. MaxSize])
  BY DEF Types
<1>2. Len(announced) \in Nat /\ Len(pending) \in Nat /\ Len(sizes) \in Nat
  BY <1>1
<1>3. /\ Len(announced) + Len(pending) = Len(sizes)
      /\ Cardinality(ready) = Cardinality(FirstPizzas(Len(announced))) + Missing
  BY DEF Counting, Missing
<1>4. ASSUME pending # <<>>
      PROVE  /\ Len(announced) + 1 <= Len(sizes)
             /\ Head(pending) = pending[1] /\ 1 \in DOMAIN pending
             /\ Head(pending).id = Len(announced) + 1
             /\ Head(pending).left \in Nat \ {0}
             /\ Head(pending).left <= sizes[Len(announced) + 1]
             /\ sizes[Len(announced) + 1] \in Nat
  <2>1. /\ Head(pending) = pending[1] /\ 1 \in DOMAIN pending
        /\ Head(pending) \in [id : OrderId, left : 1 .. MaxSize]
        /\ DOMAIN pending = 1 .. Len(pending)
    BY <1>1, <1>4, QueueEnds
  <2>2. Len(announced) + 1 <= Len(sizes)
    BY <1>2, <1>3, <2>1
  <2>3. sizes[Len(announced) + 1] \in 1 .. MaxSize
    <3>1. Len(announced) + 1 \in 1 .. Len(sizes)
      BY <1>2, <2>2
    <3>2. sizes \in Seq(1 .. MaxSize)
      BY <1>1
    <3>3. DOMAIN sizes = 1 .. Len(sizes) /\ \A o \in DOMAIN sizes : sizes[o] \in 1 .. MaxSize
      BY <3>2, QueueEnds
    <3> QED
      BY <3>1, <3>3
  <2>4. /\ Head(pending).id = Len(announced) + 1
        /\ Head(pending).left <= sizes[Len(announced) + 1]
    BY <2>1 DEF Counting
  <2>5. Head(pending).left \in Nat \ {0}
    BY <2>1, Constants
  <2>6. sizes[Len(announced) + 1] \in Nat
    BY <2>3, Constants
  <2> QED
    BY <2>1, <2>2, <2>4, <2>5, <2>6
<1> QED
  BY <1>1, <1>2, <1>3, <1>4

\* An order that is placed is the last to be announced.
LEMMA PlaceOrderCounts ==
    ASSUME IInv, NEW n \in 1 .. MaxSize, PlaceOrder(n)
    PROVE  Counting'
<1> DEFINE id == Len(sizes) + 1
           e == [id |-> id, left |-> n]
           a == Len(announced)
<1>1. Types /\ Counting /\ UNCHANGED <<announced, ready>>
      /\ sizes' = Append(sizes, n) /\ pending' = Append(pending, e)
  BY DEF IInv, PlaceOrder
<1>2. /\ a \in Nat /\ Len(pending) \in Nat /\ Len(sizes) \in Nat
      /\ a + Len(pending) = Len(sizes) /\ sizes \in Seq(1 .. MaxSize)
      /\ pending \in Seq([id : OrderId, left : 1 .. MaxSize])
      /\ Cardinality(ready) = Cardinality(FirstPizzas(a)) + Missing
  BY <1>1, CountingFacts
<1>3. n \in Nat /\ n >= 1 /\ e.id = id /\ e.left = n
  BY Constants
<1>4. e \in [id : OrderId, left : 1 .. MaxSize]
  <2>1. id \in OrderId
    BY <1>2, Constants DEF PlaceOrder, OrderId
  <2> QED
    BY <2>1
<1>5. /\ Len(sizes') = id
      /\ \A o \in 1 .. id : sizes'[o] = IF o = id THEN n ELSE sizes[o]
  BY <1>1, <1>2, QueueEnds
<1>6. /\ Len(pending') = Len(pending) + 1 /\ pending' # <<>>
      /\ DOMAIN pending' = 1 .. Len(pending) + 1 /\ DOMAIN pending = 1 .. Len(pending)
      /\ \A i \in 1 .. Len(pending) + 1 :
            pending'[i] = IF i = Len(pending) + 1 THEN e ELSE pending[i]
      /\ pending' \in Seq([id : OrderId, left : 1 .. MaxSize])
  BY <1>1, <1>2, <1>4, QueueEnds
<1>7. \A i \in DOMAIN announced : announced[i] = i
  BY <1>1 DEF Counting
<1>8. ASSUME NEW i \in DOMAIN pending'
      PROVE  /\ pending'[i].id = a + i
             /\ pending'[i].left <= sizes'[a + i]
             /\ i > 1 => pending'[i].left = sizes'[a + i]
  <2>1. CASE i = Len(pending) + 1
    <3>1. pending'[i] = e /\ a + i = id /\ id \in 1 .. id
      <4>1. pending'[i] = e
        BY <1>6, <2>1
      <4> HIDE DEF a, e
      <4> QED
        BY <1>2, <2>1, <4>1
    <3>2. sizes'[a + i] = n
      BY <1>5, <3>1
    <3> HIDE DEF e, id, a
    <3> QED
      BY <1>3, <3>1, <3>2
  <2>2. CASE i # Len(pending) + 1
    <3>1. i \in DOMAIN pending /\ pending'[i] = pending[i] /\ a + i \in 1 .. id /\ a + i # id
      BY SMTT(40), <1>2, <1>6, <2>2
    <3>2. sizes'[a + i] = sizes[a + i]
      BY <1>5, <3>1
    <3>3. /\ pending[i].id = a + i
          /\ pending[i].left <= sizes[a + i]
          /\ i > 1 => pending[i].left = sizes[a + i]
      BY <1>1, <3>1 DEF Counting
    <3> QED
      BY <3>1, <3>2, <3>3
  <2> QED
    BY <2>1, <2>2
<1>9. Cardinality(FirstPizzas(a)') = Cardinality(FirstPizzas(a))
  <2>1. \A p \in Pizza : p[1] <= a => p[1] \in 1 .. id /\ p[1] # id
    BY SMTT(40), <1>2, Constants DEF Pizza, OrderId
  <2>2. \A p \in Pizza : p[1] <= a => sizes'[p[1]] = sizes[p[1]]
    BY <1>5, <2>1
  <2>3. {p \in Pizza : p[1] <= a /\ p[2] <= sizes'[p[1]]}
            = {p \in Pizza : p[1] <= a /\ p[2] <= sizes[p[1]]}
    BY <2>2
  <2>4. FirstPizzas(a)' = {p \in Pizza : p[1] <= a /\ p[2] <= sizes'[p[1]]}
    BY <1>1 DEF FirstPizzas
  <2>5. FirstPizzas(a)' = FirstPizzas(a)
    BY <2>3, <2>4 DEF FirstPizzas
  <2> QED
    BY <2>5, Zenon
<1>10. Missing' = Missing
  <2>1. Missing' = sizes'[a + 1] - Head(pending').left
    BY <1>1, <1>6 DEF Missing
  <2>2. Head(pending') = pending'[1]
    BY <1>6, QueueEnds
  <2>3. CASE pending = <<>>
    <3>1. Len(pending) = 0
      BY <2>3
    <3>2. a + 1 = id /\ id \in 1 .. id /\ pending'[1] = e
      BY <1>2, <1>6, <3>1
    <3>3. sizes'[a + 1] = n
      BY <1>5, <3>2
    <3>4. Missing = 0
      BY <2>3 DEF Missing
    <3>5. Head(pending').left = n
      BY <1>3, <2>2, <3>2
    <3> QED
      BY <1>3, <2>1, <3>3, <3>4, <3>5
  <2>4. CASE pending # <<>>
    <3>1. Head(pending) = pending[1] /\ a + 1 <= Len(sizes) /\ 1 \in DOMAIN pending
      BY <1>1, <2>4, CountingFacts
    <3>2. a + 1 \in 1 .. id /\ a + 1 # id /\ 1 \in 1 .. Len(pending) + 1 /\ 1 # Len(pending) + 1
      BY <1>2, <1>6, <3>1
    <3>3. sizes'[a + 1] = sizes[a + 1]
      BY <1>5, <3>2
    <3>4. Head(pending') = Head(pending)
      BY <1>6, <2>2, <3>1, <3>2
    <3> QED
      BY <2>1, <2>4, <3>3, <3>4 DEF Missing
  <2> QED
    BY <2>3, <2>4
<1>11. a + Len(pending') = Len(sizes')
  <2>1. Len(pending') = Len(pending) + 1 /\ Len(sizes') = Len(sizes) + 1
    BY <1>5, <1>6
  <2> HIDE DEF a
  <2> QED
    BY <1>2, <2>1
<1>12. Cardinality(ready') = Cardinality(FirstPizzas(a)') + Missing'
  <2>1. Cardinality(ready') = Cardinality(ready)
    BY <1>1, Zenon
  <2> QED
    BY <1>2, <1>9, <1>10, <2>1
<1>13. a' = a
  BY <1>1
<1> QED
  BY <1>1, <1>7, <1>8, <1>11, <1>12, <1>13 DEF Counting, Missing

\* A Done packet is counted for the order that comes next.
LEMMA DoneCounts ==
    ASSUME IInv, NEW k \in KitchenId, HandleDone(k)
    PROVE  Counting'
<1> DEFINE a == Len(announced)
           s == sizes[a + 1]
           l == Head(pending).left
<1>1. Types /\ Counting /\ sizes' = sizes /\ CountDone
  BY DEF IInv, HandleDone
<1>2. pending # <<>>
  BY DoneIsPending
<1>3. /\ a \in Nat /\ Len(pending) \in Nat /\ Len(sizes) \in Nat
      /\ a + Len(pending) = Len(sizes) /\ a + 1 <= Len(sizes)
      /\ announced \in Seq(OrderId) /\ pending \in Seq([id : OrderId, left : 1 .. MaxSize])
      /\ Head(pending) = pending[1] /\ 1 \in DOMAIN pending /\ Head(pending).id = a + 1
      /\ l \in Nat \ {0} /\ s \in Nat /\ l <= s
      /\ Cardinality(ready) = Cardinality(FirstPizzas(a)) + Missing
  BY <1>1, <1>2, CountingFacts
<1>12. /\ a \in Nat /\ Len(pending) \in Nat /\ Len(sizes) \in Nat /\ a + Len(pending) = Len(sizes)
       /\ l \in Nat /\ s \in Nat /\ Cardinality(ready) = Cardinality(FirstPizzas(a)) + Missing
  BY <1>3
<1>4. Missing = s - l
  BY <1>2 DEF Missing
<1>5. Cardinality(ready') = Cardinality(ready) + 1 /\ Cardinality(ready) \in Nat
  BY DoneIsNew
<1>6. /\ Cardinality(FirstPizzas(a)) \in Nat
      /\ Cardinality(FirstPizzas(a + 1)) = Cardinality(FirstPizzas(a)) + s
  <2> HIDE DEF a
  <2>1. /\ Cardinality(FirstPizzas(a)) \in Nat
        /\ Cardinality(FirstPizzas(a + 1)) = Cardinality(FirstPizzas(a)) + sizes[a + 1]
    BY <1>1, <1>3, OneMoreOrder
  <2> QED
    BY <2>1
<1>7. \A n : FirstPizzas(n)' = FirstPizzas(n)
  BY <1>1 DEF FirstPizzas
<1>8. \A i \in DOMAIN announced : announced[i] = i
  BY <1>1 DEF Counting
<1>9. \A i \in DOMAIN pending :
        /\ pending[i].id = a + i
        /\ pending[i].left <= sizes[a + i]
        /\ i > 1 => pending[i].left = sizes[a + i]
  BY <1>1 DEF Counting
<1>10. CASE l = 1
  <2>1. pending' = Tail(pending) /\ announced' = Append(announced, a + 1)
    BY <1>1, <1>2, <1>3, <1>10 DEF CountDone
  <2>2. /\ DOMAIN pending' = 1 .. Len(pending) - 1 /\ Len(pending') = Len(pending) - 1
        /\ pending' \in Seq([id : OrderId, left : 1 .. MaxSize])
        /\ \A i \in DOMAIN pending' : pending'[i] = pending[i + 1] /\ i + 1 \in DOMAIN pending
    BY <1>2, <1>3, <2>1, QueueEnds
  <2>3. /\ Len(announced') = a + 1 /\ DOMAIN announced' = 1 .. a + 1
        /\ \A i \in DOMAIN announced' : announced'[i] = IF i = a + 1 THEN a + 1 ELSE announced[i]
    <3>1. a + 1 \in Nat
      BY <1>3
    <3>2. announced \in Seq(Nat)
      BY <1>3, Constants DEF OrderId
    <3> QED
      BY <2>1, <3>1, <3>2, QueueEnds
  <2>4. \A i \in DOMAIN announced' : announced'[i] = i
    BY SMTT(40), <1>3, <1>8, <2>3
  <2>5. Len(announced') + Len(pending') = Len(sizes')
    <3> HIDE DEF a
    <3>1. Len(sizes') = Len(sizes)
      BY <1>1
    <3>2. Len(announced') = a + 1 /\ Len(pending') = Len(pending) - 1
      BY <2>2, <2>3
    <3> QED
      BY <1>12, <3>1, <3>2
  <2>6. ASSUME NEW i \in DOMAIN pending'
        PROVE  /\ pending'[i].id = Len(announced') + i
               /\ pending'[i].left = sizes'[Len(announced') + i]
               /\ sizes'[Len(announced') + i] \in Nat
    <3>1. /\ pending'[i] = pending[i + 1] /\ i + 1 \in DOMAIN pending
          /\ i \in Nat /\ i + 1 > 1 /\ i + 1 <= Len(pending)
      BY SMTT(40), <1>3, <2>2
    <3>2. pending[i + 1].id = a + (i + 1) /\ pending[i + 1].left = sizes[a + (i + 1)]
      BY <1>9, <3>1
    <3>3. a + (i + 1) = Len(announced') + i
      <4> HIDE DEF a
      <4> QED
        BY <1>3, <2>3, <3>1
    <3>4. pending[i + 1].left \in Nat
      <4>1. pending[i + 1] \in [id : OrderId, left : 1 .. MaxSize]
        BY <1>3, <3>1, QueueEnds
      <4> QED
        BY <4>1, Constants
    <3> HIDE DEF a
    <3> QED
      BY <1>1, <3>1, <3>2, <3>3, <3>4
  <2>7. Missing' = 0
    <3>1. CASE pending' = <<>>
      BY <3>1 DEF Missing
    <3>2. CASE pending' # <<>>
      <4>1. Head(pending') = pending'[1] /\ 1 \in DOMAIN pending'
        BY <2>2, <3>2, QueueEnds
      <4>2. Missing' = sizes'[Len(announced') + 1] - Head(pending').left
        BY <3>2 DEF Missing
      <4> QED
        BY <2>6, <4>1, <4>2
    <3> QED
      BY <3>1, <3>2
  <2>8. Cardinality(ready') = Cardinality(FirstPizzas(Len(announced))') + Missing'
    <3>1. Cardinality(FirstPizzas(Len(announced))') = Cardinality(FirstPizzas(a + 1))
      <4>1. FirstPizzas(Len(announced))' = FirstPizzas(a + 1)
        BY <1>1, <2>3 DEF FirstPizzas
      <4> QED
        BY <4>1, Zenon
    <3> HIDE DEF a, s, l
    <3> QED
      BY <1>12, <1>4, <1>5, <1>6, <1>10, <2>7, <3>1
  <2>9. \A i \in DOMAIN pending' :
          /\ pending'[i].id = Len(announced') + i
          /\ pending'[i].left <= sizes'[Len(announced') + i]
          /\ i > 1 => pending'[i].left = sizes'[Len(announced') + i]
    BY <2>6
  <2> QED
    BY <2>4, <2>5, <2>8, <2>9 DEF Counting, Missing
<1>11. CASE l # 1
  <2>1. announced' = announced /\ pending' = [pending EXCEPT ![1].left = @ - 1]
    BY <1>1, <1>2, <1>11 DEF CountDone
  <2>2. /\ Len(pending') = Len(pending) /\ DOMAIN pending' = DOMAIN pending /\ pending' # <<>>
        /\ pending'[1].id = pending[1].id /\ pending'[1].left = l - 1
        /\ \A i \in DOMAIN pending : i # 1 => pending'[i] = pending[i]
    <3>1. pending[1] \in [id : OrderId, left : 1 .. MaxSize]
      BY <1>3, QueueEnds
    <3>2. pending' = [pending EXCEPT ![1] = [pending[1] EXCEPT !.left = pending[1].left - 1]]
      BY <2>1
    <3>3. /\ pending'[1] = [pending[1] EXCEPT !.left = pending[1].left - 1]
          /\ DOMAIN pending' = DOMAIN pending
          /\ \A i \in DOMAIN pending : i # 1 => pending'[i] = pending[i]
      BY <1>3, <3>2
    <3>4. Len(pending') = Len(pending) /\ pending' # <<>>
      BY <1>3, <3>3
    <3>5. pending'[1].id = pending[1].id /\ pending'[1].left = l - 1
      BY <1>3, <3>1, <3>3
    <3> QED
      BY <3>3, <3>4, <3>5
  <2>3. Head(pending') = pending'[1]
    BY <2>2
  <2>4. Missing' = s - (l - 1)
    BY <1>1, <2>1, <2>2, <2>3 DEF Missing
  <2>5. Cardinality(ready') = Cardinality(FirstPizzas(Len(announced))') + Missing'
    <3>1. Cardinality(FirstPizzas(Len(announced))') = Cardinality(FirstPizzas(a))
      <4>1. FirstPizzas(Len(announced))' = FirstPizzas(a)
        BY <1>1, <2>1 DEF FirstPizzas
      <4> QED
        BY <4>1, Zenon
    <3> HIDE DEF a, s, l
    <3> QED
      BY SMTT(40), <1>12, <1>4, <1>5, <1>6, <2>4, <3>1
  <2>6. ASSUME NEW i \in DOMAIN pending'
        PROVE  /\ pending'[i].id = a + i
               /\ pending'[i].left <= sizes[a + i]
               /\ i > 1 => pending'[i].left = sizes[a + i]
    <3>1. CASE i = 1
      <4>1. pending'[i].id = a + 1 /\ pending'[i].left = l - 1
        BY <1>3, <2>2, <3>1
      <4>2. l - 1 <= s
        <5> HIDE DEF l, s
        <5> QED
          BY <1>3
      <4> QED
        BY <3>1, <4>1, <4>2
    <3>2. CASE i # 1
      BY <1>9, <2>2, <3>2
    <3> QED
      BY <3>1, <3>2
  <2>7. Len(announced') = a /\ Len(announced') + Len(pending') = Len(sizes')
    BY <1>1, <1>3, <2>1, <2>2
  <2>8. \A i \in DOMAIN announced' : announced'[i] = i
    BY <1>8, <2>1
  <2>9. \A i \in DOMAIN pending' :
          /\ pending'[i].id = Len(announced') + i
          /\ pending'[i].left <= sizes'[Len(announced') + i]
          /\ i > 1 => pending'[i].left = sizes'[Len(announced') + i]
    BY <1>1, <2>6, <2>7
  <2> QED
    BY <2>5, <2>7, <2>8, <2>9 DEF Counting, Missing
<1> QED
  BY <1>10, <1>11

\* Every step keeps the announcements counted.
LEMMA CountingStep ==
    ASSUME IInv, ReceptionNext
    PROVE  Counting'
<1>1. CASE \E n \in 1 .. MaxSize : PlaceOrder(n)
  BY <1>1, PlaceOrderCounts
<1>2. CASE \E k \in KitchenId : HandleDone(k)
  BY <1>2, DoneCounts
<1>3. CASE UNCHANGED <<pending, sizes, announced, ready>>
  <2>1. Counting
    BY DEF IInv
  <2> QED
    BY <1>3, <2>1 DEF Counting, FirstPizzas
<1> QED
  BY <1>1, <1>2, <1>3
  DEF ReceptionNext, Customer, Working, HandlePacket, HandleFull, HandleCookStatus, HandleStatusReply,
      HandleShutdown, RequestStatus, EndOfInput, Poll, Reap, NextKitchen, FinishDraining, SpawnKitchen,
      SpawnFails, SendPizza, FinishDispatch, CommandShutdown, WaitForExit, FinishShutdown, Processes,
      ReceptionDone, orderVars, vars

-----------------------------------------------------------------------------
(* The invariant.                                                          *)

\* A kitchen not yet forked is well formed, quiet and owes nothing.
LEMMA UnbornKitchen ==
    /\ Unborn \in Box /\ BoxInv(Unborn) /\ Unborn.phase = "unborn"
    /\ Quiet(Unborn) /\ Owes(Unborn) = 0 /\ Count(Unborn.orders, {"Shutdown"}) = 0
    /\ \A P \in SUBSET Pizza : Weight(Unborn, P) = 0
<1> DEFINE c == [Unborn EXCEPT !.phase = "open"]
<1>1. /\ Unborn \in Box /\ Quiet(Unborn) /\ Count(c.orders, {"Shutdown"}) = 0
      /\ \A P : NoPizza \notin P => Weight(c, P) = 0 /\ Weight(Unborn, P) = 0
  BY BoxOpened
<1>2. NoPizza \notin Pizza /\ NCooks \in Nat
  BY Constants
<1>3. \A P \in SUBSET Pizza : Weight(Unborn, P) = 0
  BY <1>1, <1>2
<1>4. /\ Unborn.orders = <<>> /\ Unborn.results = <<>> /\ Unborn.line = <<>> /\ Unborn.hands = {}
      /\ Unborn.releasing = 0 /\ Unborn.refused = NoPizza /\ Unborn.replies = 0
      /\ Unborn.phase = "unborn" /\ c.orders = Unborn.orders
  BY DEF Unborn
<1>5. BoxInv(Unborn)
  <2>1. DOMAIN Unborn.orders = {} /\ DOMAIN Unborn.results = {}
    BY <1>4
  <2>2. Cardinality(Unborn.hands) = 0
    BY <1>4, FS_EmptySet, Zenon
  <2> QED
    BY <1>2, <1>4, <2>1, <2>2 DEF BoxInv
<1>6. Owes(Unborn) = 0
  BY <1>1, <1>3, <1>5, OwesIsWeight
<1>7. Count(Unborn.orders, {"Shutdown"}) = 0
  BY <1>1, <1>4, Zenon
<1> QED
  BY <1>1, <1>3, <1>4, <1>5, <1>6, <1>7

\* The invariant holds at the start.
LEMMA InitIInv ==
    ASSUME ReceptionInit
    PROVE  IInv
<1>1. /\ rpc = "select" /\ duty = "none"
      /\ visit = <<>> /\ gotReply = FALSE /\ todo = <<>>
      /\ roster = {} /\ handle = [k \in KitchenId |-> NoHandle] /\ nextKitchen = 0
      /\ pending = <<>> /\ sizes = <<>> /\ announced = <<>>
      /\ ready = {} /\ dropped = {} /\ statuses = 0
      /\ kitchens = [k \in KitchenId |-> Unborn]
  BY DEF ReceptionInit, ContractInit
<1>2. /\ NCooks \in Nat /\ Capacity \in Nat /\ MaxKitchens \in Nat /\ MaxOrders \in Nat
      /\ KitchenId \subseteq Nat /\ MaxStatus \in Nat
  BY Constants, ReceptionAssumption
<1>3. \A k \in KitchenId : kitchens[k] = Unborn /\ handle[k] = NoHandle /\ ~handle[k].alive
  BY <1>1 DEF NoHandle
<1>4. Types
  <2>1. NoHandle \in Handle
    BY <1>2 DEF NoHandle, Handle
  <2>2. kitchens \in [KitchenId -> Box] /\ handle \in [KitchenId -> Handle]
    BY <1>1, <2>1, UnbornKitchen
  <2>3. /\ visit \in Seq(KitchenId) /\ todo \in Seq(Pizza)
        /\ pending \in Seq([id : OrderId, left : 1 .. MaxSize])
        /\ sizes \in Seq(1 .. MaxSize) /\ announced \in Seq(OrderId) /\ Len(sizes) = 0
    BY <1>1
  <2>4. 0 \in 0 .. MaxKitchens + 1 /\ 0 \in 0 .. MaxStatus
    BY <1>2
  <2>5. /\ rpc \in {"select", "drain", "reap", "dispatch", "command", "waitpid", "done"}
        /\ duty \in {"none", "poll", "dispatch", "status", "shutdown"}
        /\ gotReply \in BOOLEAN /\ roster \in SUBSET KitchenId
        /\ ready \in SUBSET Pizza /\ dropped \in SUBSET Pizza
        /\ nextKitchen \in 0 .. MaxKitchens + 1 /\ statuses \in 0 .. MaxStatus
    BY <1>1, <2>4
  <2>6. Len(sizes) <= MaxOrders
    BY <1>2, <2>3
  <2> QED
    BY <2>2, <2>3, <2>5, <2>6 DEF Types
<1>5. Boxes
  BY <1>3, UnbornKitchen DEF Boxes
<1>6. Control
  BY <1>1, <1>2 DEF Control
<1>7. Handles
  BY <1>1, <1>2, <1>3, UnbornKitchen DEF Handles
<1>8. Loads
  <2>1. \A k \in KitchenId : Owes(kitchens[k]) = 0
    BY <1>3, UnbornKitchen, Zenon
  <2> QED
    BY <1>2, <1>3, <2>1 DEF Loads
<1>9. Commands
  BY <1>3, UnbornKitchen DEF Commands
<1>10. Statuses
  BY <1>2, <1>3, UnbornKitchen DEF Statuses, Quiet
<1>11. OnePlace
  <2> SUFFICES ASSUME NEW p \in Pizza
               PROVE  InOnePlace(p)
    BY DEF OnePlace
  <2>1. p[1] \in Nat \ {0} /\ Len(sizes) = 0
    BY <1>1, <1>2 DEF Pizza, OrderId
  <2>2. ~Ordered(p)
    BY <2>1 DEF Ordered
  <2>3. Number(todo, {p}) = 0
    BY <1>1, NumberEmpty
  <2>4. Outside(p) = 0
    BY <1>1, <2>3 DEF Outside
  <2>5. \A k \in KitchenId : Weight(kitchens[k], {p}) = 0
    BY <1>3, UnbornKitchen
  <2> QED
    BY <2>2, <2>4, <2>5 DEF InOnePlace
<1>12. Counting
  <2>1. Len(announced) = 0 /\ Len(pending) = 0 /\ Len(sizes) = 0
    BY <1>1
  <2>2. DOMAIN announced = {} /\ DOMAIN pending = {}
    BY <1>1
  <2>3. FirstPizzas(Len(announced)) = {}
    <3>1. \A p \in Pizza : p[1] \in Nat \ {0}
      BY <1>2 DEF Pizza, OrderId
    <3> QED
      BY <2>1, <3>1 DEF FirstPizzas
  <2>4. Cardinality(FirstPizzas(Len(announced))) = 0 /\ Cardinality(ready) = 0
    BY <1>1, <2>3, FS_EmptySet, Zenon
  <2> QED
    BY <1>1, <2>1, <2>2, <2>4 DEF Counting
<1> QED
  BY <1>4, <1>5, <1>6, <1>7, <1>8, <1>9, <1>10, <1>11, <1>12 DEF IInv

\* Every step, a stuttering one included, keeps the invariant.
LEMMA NextIInv ==
    ASSUME IInv, [ReceptionNext]_vars
    PROVE  IInv'
<1>1. CASE ReceptionNext
  BY <1>1, BoxesStep, TypesStep, ControlStep, HandlesStep, LoadsStep, CommandsStep, StatusesStep,
     OnePlaceStep, CountingStep DEF IInv
<1>2. CASE UNCHANGED vars
  <2>1. /\ UNCHANGED <<kitchens, rpc, duty, visit, gotReply, todo, roster, handle, nextKitchen>>
        /\ UNCHANGED <<pending, sizes, announced, ready, dropped, statuses>>
    BY <1>2 DEF vars, callVars, orderVars
  <2>2. Types /\ Boxes /\ Control /\ Handles /\ Loads /\ Commands /\ Statuses /\ OnePlace /\ Counting
    BY DEF IInv
  <2>3. Types'
    BY <2>1, <2>2 DEF Types
  <2>4. Boxes' /\ Control' /\ Handles'
    BY <2>1, <2>2 DEF Boxes, Control, Handles
  <2>5. Loads' /\ Commands'
    BY <2>1, <2>2 DEF Loads, Commands, Uncommanded
  <2>6. Statuses'
    BY <2>1, <2>2 DEF Statuses, Expected
  <2>7. OnePlace'
    <3> SUFFICES ASSUME NEW p \in Pizza
                 PROVE  InOnePlace(p)'
      BY DEF OnePlace
    <3>1. Outside(p)' = Outside(p) /\ (Ordered(p)' <=> Ordered(p))
      BY <2>1 DEF Outside, Ordered
    <3>2. \A k \in KitchenId : Weight(kitchens'[k], {p}) = Weight(kitchens[k], {p})
      BY <2>1, Zenon
    <3> QED
      BY <2>2, <3>1, <3>2, PlaceKept DEF OnePlace
  <2>8. Counting'
    BY <2>1, <2>2 DEF Counting, FirstPizzas
  <2> QED
    BY <2>3, <2>4, <2>5, <2>6, <2>7, <2>8 DEF IInv
<1> QED
  BY <1>1, <1>2

\* The inductive invariant holds of every state of the reception.
LEMMA IInvariant == ReceptionSpec => []IInv
  BY InitIInv, NextIInv, PTL DEF ReceptionSpec

-----------------------------------------------------------------------------
(* What the invariant says to the customer.                                *)

\* The types of the run follow from those of the invariant.
LEMMA TypesAreOK == IInv => ReceptionTypeOK
<1> SUFFICES ASSUME IInv PROVE ReceptionTypeOK
  OBVIOUS
<1>1. Types
  BY DEF IInv
<1>2. ASSUME NEW k \in KitchenId
      PROVE  /\ \A i \in DOMAIN kitchens[k].orders : kitchens[k].orders[i].type \in PacketType
             /\ \A i \in DOMAIN kitchens[k].results : kitchens[k].results[i].type \in PacketType
             /\ kitchens[k].line \in Seq(Pizza) /\ kitchens[k].hands \subseteq Pizza
             /\ kitchens[k].releasing \in 0 .. NCooks
             /\ kitchens[k].refused \in Pizza \cup {NoPizza}
             /\ kitchens[k].replies \in 0 .. NCooks + 1
  <2>1. kitchens[k] \in Box /\ BoxInv(kitchens[k])
    BY <1>1 DEF IInv, Types, Boxes
  <2>2. /\ \A i \in DOMAIN kitchens[k].orders : kitchens[k].orders[i] \in Message(OrderType)
        /\ \A i \in DOMAIN kitchens[k].results : kitchens[k].results[i] \in Message(ResultType)
    BY <2>1, BoxFields, QueueEnds
  <2>3. /\ \A i \in DOMAIN kitchens[k].orders : kitchens[k].orders[i].type \in PacketType
        /\ \A i \in DOMAIN kitchens[k].results : kitchens[k].results[i].type \in PacketType
    BY <2>2 DEF Message, OrderType, ResultType, PacketType
  <2>4. kitchens[k].releasing \in 0 .. NCooks
    <3>1. /\ kitchens[k].releasing \in Nat /\ Cardinality(kitchens[k].hands) \in Nat /\ NCooks \in Nat
          /\ Cardinality(kitchens[k].hands) + kitchens[k].releasing <= NCooks
      BY <2>1, BoxFields DEF BoxInv
    <3> QED
      BY <3>1
  <2> QED
    BY <2>1, <2>3, <2>4, BoxFields
<1>3. /\ rpc \in {"select", "drain", "reap", "dispatch", "command", "waitpid", "done"}
      /\ duty \in {"none", "poll", "dispatch", "status", "shutdown"}
      /\ visit \in Seq(KitchenId) /\ gotReply \in BOOLEAN /\ todo \in Seq(Pizza)
      /\ roster \subseteq KitchenId
      /\ handle \in [KitchenId -> [load : 0 .. Capacity, alive : BOOLEAN, cooks : 0 .. NCooks]]
      /\ nextKitchen \in 0 .. MaxKitchens + 1
      /\ sizes \in Seq(1 .. MaxSize) /\ announced \in Seq(OrderId)
      /\ ready \subseteq Pizza /\ dropped \subseteq Pizza
      /\ statuses \in 0 .. MaxStatus
      /\ pending \in Seq([id : OrderId, left : 1 .. MaxSize])
  BY <1>1 DEF Types, Handle
<1>4. \A i \in DOMAIN pending : pending[i] \in [id : OrderId, left : 1 .. MaxSize]
  BY <1>3, QueueEnds
<1> QED
  BY <1>2, <1>3, <1>4 DEF ReceptionTypeOK

\* What a kitchen owes is what the runs call unanswered.
LEMMA OwesIsUnanswered ==
    /\ \A k \in KitchenId : Unanswered(k) = Owes(kitchens[k])
    /\ \A k \in KitchenId : Unanswered(k)' = Owes(kitchens'[k])
  BY DEF Unanswered, Owes

\* The load kept of a kitchen is exact.
LEMMA LoadsAreExact == IInv => HandleLoadIsExact
<1> SUFFICES ASSUME IInv, NEW k \in Alive
             PROVE  handle[k].load = Unanswered(k)
  BY DEF HandleLoadIsExact
<1>1. k \in KitchenId /\ handle[k].alive
  BY DEF IInv, Types, Alive
<1>2. handle[k].load = Owes(kitchens[k])
  BY <1>1 DEF IInv, Loads
<1>3. Unanswered(k) = Owes(kitchens[k])
  BY <1>1, OwesIsUnanswered
<1> QED
  BY <1>2, <1>3

\* Packets of different types are counted one by one.
LEMMA CountDisjoint ==
    ASSUME NEW T, NEW q \in Seq(Message(T)), NEW A, NEW B, A \cap B = {}
    PROVE  Count(q, A \cup B) = Count(q, A) + Count(q, B)
<1>1. Message(A) \cap Message(B) = {}
  BY DEF Message
<1>2. Number(q, Message(A) \cup Message(B)) = Number(q, Message(A)) + Number(q, Message(B))
  BY <1>1, NumberDisjoint
<1>3. Message(A \cup B) = Message(A) \cup Message(B)
  BY DEF Message
<1>4. Number(q, Message(A \cup B)) = Number(q, Message(A)) + Number(q, Message(B))
  BY <1>2, <1>3, Zenon
<1> QED
  BY <1>4, CountIsNumber

\* All packets of a queue, by type, are its length.
LEMMA CountAll ==
    ASSUME NEW T, NEW q \in Seq(Message(T))
    PROVE  Count(q, T) = Len(q)
<1>1. Number(q, Message(T)) = Len(q)
  BY NumberAll
<1> QED
  BY <1>1, CountIsNumber

\* There is one farewell at most: it is the last packet.
LEMMA OneFarewell ==
    ASSUME NEW b \in Box, BoxInv(b)
    PROVE  Count(b.results, {"Shutdown"}) <= 1
<1> DEFINE q == b.results
           M == Message({"Shutdown"})
<1>1. q \in Seq(Message(ResultType)) /\ DOMAIN q = 1 .. Len(q)
  BY BoxFields, QueueEnds
<1>2. \A i \in DOMAIN q : q[i] \in M => i = Len(q)
  <2>1. \A i \in DOMAIN q : q[i] \in Message(ResultType)
    BY <1>1, QueueEnds
  <2>2. \A i \in DOMAIN q : q[i] \in M => q[i].type = "Shutdown"
    BY DEF Message
  <2> QED
    BY <2>2 DEF BoxInv
<1>3. Number(q, M) <= 1
  <2>1. CASE \E i \in DOMAIN q : q[i] \in M
    <3>1. PICK i \in DOMAIN q : q[i] \in M
      BY <2>1
    <3>2. \A j \in DOMAIN q : q[j] \in M <=> j = i
      BY <1>2, <3>1
    <3>3. Number(q, M) = 1
      <4> HIDE DEF q, M
      <4> QED
        BY <1>1, <3>1, <3>2, NumberOne
    <3> QED
      BY <3>3
  <2>2. CASE \A i \in DOMAIN q : q[i] \notin M
    <3>1. Number(q, M) = 0
      <4> HIDE DEF q, M
      <4> QED
        BY <1>1, <2>2, NumberZero
    <3> QED
      BY <3>1
  <2> QED
    BY <2>1, <2>2
<1> QED
  BY <1>1, <1>3, CountIsNumber

\* The queues are bounded by what their kitchen may owe.
LEMMA QueuesAreBounded == IInv => QueuesBounded
<1> SUFFICES ASSUME IInv, NEW k \in KitchenId
             PROVE  /\ Len(kitchens[k].results) <= Capacity + (NCooks + 1) + 1
                    /\ Len(kitchens[k].orders) <= Capacity + 2
  BY DEF QueuesBounded
<1> DEFINE b == kitchens[k]
           o(x) == Count(b.orders, {x})
           r(x) == Count(b.results, {x})
           paid == Count(b.results, {"Done", "Full"})
<1>1. b \in Box /\ BoxInv(b) /\ Owes(b) <= Capacity /\ Capacity \in Nat /\ NCooks \in Nat
  BY Constants DEF IInv, Types, Boxes, Loads
<1>2. b.orders \in Seq(Message(OrderType)) /\ b.results \in Seq(Message(ResultType))
  BY <1>1, BoxFields
<1>3. /\ \A x : o(x) \in Nat /\ r(x) \in Nat
      /\ paid \in Nat
  BY <1>1, <1>2, QueueCount
<1>4. o("Pizza") + paid <= Capacity
  <2>1. Len(b.line) \in Nat /\ Cardinality(b.hands) \in Nat
    BY <1>1, BoxFields
  <2>2. (IF b.refused = NoPizza THEN 0 ELSE 1) \in Nat
    OBVIOUS
  <2>3. Owes(b) = o("Pizza") + (IF b.refused = NoPizza THEN 0 ELSE 1)
                  + Len(b.line) + Cardinality(b.hands) + paid
    BY DEF Owes
  <2> DEFINE e == IF b.refused = NoPizza THEN 0 ELSE 1
             p == o("Pizza")
  <2>4. p \in Nat
    BY <1>3
  <2> HIDE DEF b, paid, e, p
  <2> QED
    BY <1>1, <1>3, <2>1, <2>2, <2>3, <2>4 DEF e, p
<1>5. o("StatusRequest") <= 1 /\ o("Shutdown") <= 1 /\ r("CookStatus") + r("StatusReply") <= NCooks + 1
  <2>1. /\ Asked(b) <= 1 /\ Said(b) + Replied(b) + b.replies <= NCooks + 1
        /\ o("Shutdown") <= 1
    BY DEF IInv, Statuses, Commands
  <2>2. b.replies \in Nat /\ Asked(b) = o("StatusRequest") /\ Said(b) = r("CookStatus")
        /\ Replied(b) = r("StatusReply")
    BY <1>1, TrafficNat DEF Asked, Said, Replied
  <2>3. Said(b) \in Nat /\ Replied(b) \in Nat
    BY <1>1, TrafficNat
  <2> HIDE DEF b
  <2> QED
    BY <1>1, <2>1, <2>2, <2>3
<1>6. r("Shutdown") <= 1
  BY <1>1, OneFarewell
<1>7. Len(b.orders) = o("Pizza") + o("StatusRequest") + o("Shutdown")
  <2>1. Count(b.orders, OrderType) = Len(b.orders)
    BY <1>2, CountAll
  <2>2. Count(b.orders, {"Pizza"} \cup {"StatusRequest"}) = o("Pizza") + o("StatusRequest")
    <3>1. {"Pizza"} \cap {"StatusRequest"} = {}
      OBVIOUS
    <3> QED
      BY <1>2, <3>1, CountDisjoint
  <2>3. Count(b.orders, ({"Pizza"} \cup {"StatusRequest"}) \cup {"Shutdown"})
            = Count(b.orders, {"Pizza"} \cup {"StatusRequest"}) + o("Shutdown")
    <3>1. ({"Pizza"} \cup {"StatusRequest"}) \cap {"Shutdown"} = {}
      OBVIOUS
    <3> QED
      BY <1>2, <3>1, CountDisjoint
  <2>4. ({"Pizza"} \cup {"StatusRequest"}) \cup {"Shutdown"} = OrderType
    BY DEF OrderType
  <2>5. Count(b.orders, ({"Pizza"} \cup {"StatusRequest"}) \cup {"Shutdown"}) = Count(b.orders, OrderType)
    BY <2>4, Zenon
  <2> QED
    BY <2>1, <2>2, <2>3, <2>5
<1>8. Len(b.results) = paid + r("CookStatus") + r("StatusReply") + r("Shutdown")
  <2> DEFINE two == {"Done", "Full"}
             three == two \cup {"CookStatus"}
             four == three \cup {"StatusReply"}
             five == four \cup {"Shutdown"}
  <2>1. /\ two \cap {"CookStatus"} = {} /\ three \cap {"StatusReply"} = {}
        /\ four \cap {"Shutdown"} = {} /\ five = ResultType
    BY DEF ResultType
  <2>2. Count(b.results, three) = paid + r("CookStatus")
    BY <1>2, <2>1, CountDisjoint
  <2>3. Count(b.results, four) = Count(b.results, three) + r("StatusReply")
    <3> HIDE DEF three
    <3> QED
      BY <1>2, <2>1, CountDisjoint
  <2>4. Count(b.results, five) = Count(b.results, four) + r("Shutdown")
    <3> HIDE DEF four
    <3> QED
      BY <1>2, <2>1, CountDisjoint
  <2>5. Count(b.results, ResultType) = Len(b.results)
    BY <1>2, CountAll
  <2>6. Count(b.results, five) = Count(b.results, ResultType)
    <3> HIDE DEF five
    <3> QED
      BY <2>1, Zenon
  <2> QED
    BY <2>2, <2>3, <2>4, <2>5, <2>6
<1> DEFINE p == o("Pizza")
           q == o("StatusRequest")
           s == o("Shutdown")
           c == r("CookStatus")
           a == r("StatusReply")
           f == r("Shutdown")
<1>9. /\ p \in Nat /\ q \in Nat /\ s \in Nat /\ c \in Nat /\ a \in Nat /\ f \in Nat /\ paid \in Nat
      /\ p + paid <= Capacity /\ q <= 1 /\ s <= 1 /\ c + a <= NCooks + 1 /\ f <= 1
      /\ Len(b.orders) = p + q + s /\ Len(b.results) = paid + c + a + f
  BY <1>3, <1>4, <1>5, <1>6, <1>7, <1>8
<1>10. Len(b.results) <= Capacity + (NCooks + 1) + 1 /\ Len(b.orders) <= Capacity + 2
  <2> HIDE DEF b, p, q, s, c, a, f, paid
  <2> QED
    BY <1>1, <1>9
<1> QED
  BY <1>10

\* The status protocol, from the state of the traffic of each kitchen.
LEMMA StatusIsKept == IInv => StatusProtocol
<1> SUFFICES ASSUME IInv PROVE StatusProtocol
  OBVIOUS
<1>1. ASSUME NEW k \in Alive
      PROVE  /\ kitchens[k] \in Box /\ BoxInv(kitchens[k]) /\ k \in KitchenId
             /\ StatusesOK(kitchens[k], handle[k], Expected(k)) /\ handle[k].alive
  <2>1. k \in KitchenId /\ handle[k].alive
    BY DEF IInv, Types, Alive
  <2> QED
    BY <2>1, StatusesIs DEF IInv, Types, Boxes
<1>2. StatusRepliesAreComplete
  <2> SUFFICES ASSUME NEW k \in Alive, kitchens[k].results # <<>>,
                      Head(kitchens[k].results).type = "StatusReply"
               PROVE  handle[k].cooks = NCooks
    BY DEF StatusRepliesAreComplete
  <2> DEFINE b == kitchens[k]
             c == [b EXCEPT !.results = Tail(@)]
             h == handle[k]
  <2>1. b \in Box /\ BoxInv(b) /\ StatusesOK(b, h, Expected(k)) /\ h.alive /\ k \in KitchenId
    BY <1>1
  <2>2. c \in Box
    BY <2>1, BoxReceived
  <2>3. Replied(b) = Replied(c) + 1 /\ Replied(c) \in Nat
    <3>1. Replied(b) = Replied(c) + (IF Head(b.results).type = "StatusReply" THEN 1 ELSE 0)
      <4> DEFINE d == c
      <4>1. d = [b EXCEPT !.results = Tail(@)]
        OBVIOUS
      <4>2. b.results # <<>>
        OBVIOUS
      <4> HIDE DEF b, d
      <4> QED
        BY <2>1, <4>1, <4>2, ReceivedTraffic
    <3> QED
      BY <2>2, <3>1, TrafficNat
  <2>4. /\ Asked(b) \in Nat /\ Said(b) \in Nat /\ Replied(b) \in Nat /\ b.replies \in Nat
        /\ NCooks \in Nat
    BY <2>1, TrafficNat
  <2>5. Answered(b, h.cooks)
    BY <2>1, <2>3, <2>4 DEF StatusesOK, Answers, Quiet, Asking, Answering
  <2>6. Said(b) = 0
    <3>1. AnswerLast(b.results)
      BY <2>5 DEF Answered, AnswerLast
    <3>2. b.results # <<>> /\ Head(b.results).type = "StatusReply"
      OBVIOUS
    <3> HIDE DEF b
    <3> QED
      BY <2>1, <3>1, <3>2, ReceivedTraffic
  <2>7. h.cooks \in Nat
    BY <2>1, Constants DEF IInv, Types, Handle
  <2> QED
    BY <2>4, <2>5, <2>6, <2>7 DEF Answered
<1>3. StatusIsSynchronous
  <2> SUFFICES ASSUME rpc = "select", NEW k \in Alive
               PROVE  /\ Count(kitchens[k].orders, {"StatusRequest"}) = 0
                      /\ Count(kitchens[k].results, {"CookStatus", "StatusReply"}) = 0
                      /\ kitchens[k].replies = 0
    BY DEF StatusIsSynchronous
  <2>1. ~Expected(k)
    BY DEF IInv, Control, Expected
  <2>2. kitchens[k] \in Box /\ Quiet(kitchens[k])
    BY <1>1, <2>1 DEF StatusesOK
  <2>3. Count(kitchens[k].results, {"CookStatus"} \cup {"StatusReply"}) =
          Count(kitchens[k].results, {"CookStatus"}) + Count(kitchens[k].results, {"StatusReply"})
    <3>1. {"CookStatus"} \cap {"StatusReply"} = {}
      OBVIOUS
    <3>2. kitchens[k].results \in Seq(Message(ResultType))
      BY <2>2, BoxFields
    <3> QED
      BY <3>1, <3>2, CountDisjoint
  <2>4. {"CookStatus"} \cup {"StatusReply"} = {"CookStatus", "StatusReply"}
    OBVIOUS
  <2>5. Count(kitchens[k].results, {"CookStatus"} \cup {"StatusReply"}) =
          Count(kitchens[k].results, {"CookStatus", "StatusReply"})
    BY <2>4, Zenon
  <2> QED
    BY <2>2, <2>3, <2>5 DEF Quiet, Asked, Said, Replied
<1> QED
  BY <1>2, <1>3 DEF StatusProtocol

\* The announcements count the Done packets.
LEMMA CountsAreTrue == IInv => AnnouncementsCountDone
  BY DEF IInv, Counting, AnnouncementsCountDone

\* A step that sends a pizza, or forks, does what BalancedDispatch demands.
LEMMA DispatchIsBalanced ==
    ASSUME IInv, [ReceptionNext]_vars
    PROVE  [\A k \in KitchenId, j \in Alive :
              /\ Unanswered(k)' > Unanswered(k) => Unanswered(j) >= Unanswered(k)
              /\ kitchens[k].phase = "unborn" /\ kitchens[k].phase' # "unborn" =>
                    Unanswered(j) >= Capacity]_vars
<1> SUFFICES ASSUME ReceptionNext, NEW k \in KitchenId, NEW j \in Alive
             PROVE  /\ Unanswered(k)' > Unanswered(k) => Unanswered(j) >= Unanswered(k)
                    /\ kitchens[k].phase = "unborn" /\ kitchens[k].phase' # "unborn" =>
                          Unanswered(j) >= Capacity
  OBVIOUS
<1>1. /\ j \in KitchenId /\ handle[j].alive
      /\ kitchens[k] \in Box /\ BoxInv(kitchens[k]) /\ kitchens'[k] \in Box /\ BoxInv(kitchens'[k])
  <2>1. j \in KitchenId /\ handle[j].alive
    BY DEF IInv, Types, Alive
  <2> QED
    BY <2>1, BoxesStep DEF IInv, Types, Boxes
<1>2. handle[j].load = Unanswered(j) /\ handle[j].load \in Nat /\ Capacity \in Nat
  <2>1. handle[j].load = Unanswered(j)
    BY LoadsAreExact DEF HandleLoadIsExact
  <2> QED
    BY SMTT(40), <1>1, <2>1, Constants DEF IInv, Types, Handle
<1>3. /\ Unanswered(k) = Weight(kitchens[k], Pizza) /\ Unanswered(k)' = Weight(kitchens'[k], Pizza)
      /\ Unanswered(k) \in Nat /\ Unanswered(k)' \in Nat
  BY <1>1, OwesIsUnanswered, OwesIsWeight, WeightNat
<1>4. ASSUME Unanswered(k)' > Unanswered(k)
      PROVE  Unanswered(j) >= Unanswered(k)
  <2>1. SendPizza
    <3>1. Weight(kitchens'[k], Pizza) # Weight(kitchens[k], Pizza)
      BY <1>3, <1>4
    <3>2. ASSUME NEW i \in KitchenId, HandlePacket(i)
          PROVE  FALSE
      <4>1. Weight(kitchens[k], Pizza) =
              Weight(kitchens'[k], Pizza)
              + (IF k = i /\ Head(kitchens[i].results).pizza \in Pizza THEN 1 ELSE 0)
        BY <3>2, WeightsPacket
      <4>2. Unanswered(k) >= Unanswered(k)'
        BY <1>3, <4>1
      <4> QED
        BY <1>3, <1>4, <4>2
    <3> QED
      BY <3>1, <3>2, WeightsElse
  <2>2. k = Best
    <3>1. Weight(kitchens'[k], Pizza) =
              Weight(kitchens[k], Pizza) + (IF k = Best /\ Head(todo) \in Pizza THEN 1 ELSE 0)
      BY <2>1, WeightsSend
    <3> QED
      BY <1>3, <1>4, <3>1
  <2>3. /\ Best \in Alive /\ handle[Best].load < Capacity
        /\ \A i \in WithRoom : handle[Best].load <= handle[i].load
    BY <2>1, SendPizzaStep
  <2>4. handle[k].load = Unanswered(k)
    BY <2>2, <2>3, LoadsAreExact DEF HandleLoadIsExact
  <2>5. handle[k].load <= handle[j].load
    <3>1. CASE handle[j].load < Capacity
      BY <2>2, <2>3, <3>1 DEF WithRoom
    <3>2. CASE ~(handle[j].load < Capacity)
      BY <1>2, <1>3, <2>2, <2>3, <2>4, <3>2
    <3> QED
      BY <3>1, <3>2
  <2> QED
    BY <1>2, <2>4, <2>5
<1>5. ASSUME kitchens[k].phase = "unborn", kitchens'[k].phase # "unborn"
      PROVE  Unanswered(j) >= Capacity
  <2>1. SpawnKitchen
    BY <1>5, KitchensStep
  <2>2. ~(handle[j].load < Capacity)
    BY <2>1 DEF SpawnKitchen, WithRoom
  <2> QED
    BY <1>2, <2>2
<1> QED
  BY <1>4, <1>5

-----------------------------------------------------------------------------
(* The places of a pizza, one by one.                                      *)

\* The tags of the places of a queue at which a pizza is.
Tags(name, k, I) == {<<name, k, i>> : i \in I}

\* There is no tag for no index, and one for one.
LEMMA TagsOf ==
    ASSUME NEW name, NEW k, NEW I, IsFiniteSet(I)
    PROVE  /\ Cardinality(I) = 0 => Tags(name, k, I) = {}
           /\ Cardinality(I) = 1 => \E x : Tags(name, k, I) = {x}
<1>1. ASSUME Cardinality(I) = 0
      PROVE  Tags(name, k, I) = {}
  <2>1. I = {}
    BY <1>1, FS_EmptySet
  <2> QED
    BY <2>1 DEF Tags
<1>2. ASSUME Cardinality(I) = 1
      PROVE  \E x : Tags(name, k, I) = {x}
  <2>1. PICK i : I = {i}
    BY <1>2, FS_Singleton
  <2>2. Tags(name, k, I) = {<<name, k, i>>}
    BY <2>1 DEF Tags
  <2> QED
    BY <2>2
<1> QED
  BY <1>1, <1>2

\* As far as none and one go, a is the number of elements of A.
Measures(A, a) ==
    a \in Nat /\ (a = 0 => A = {}) /\ (a = 1 => \E x : A = {x})

\* What measures two sets measures, added, their union.
LEMMA JoinParts ==
    ASSUME NEW A, NEW B, NEW a, NEW b, Measures(A, a), Measures(B, b)
    PROVE  Measures(A \cup B, a + b)
<1>1. a \in Nat /\ b \in Nat
  BY DEF Measures
<1>2. ASSUME a + b = 0
      PROVE  A \cup B = {}
  <2>1. a = 0 /\ b = 0
    BY <1>1, <1>2
  <2> QED
    BY <2>1 DEF Measures
<1>3. ASSUME a + b = 1
      PROVE  \E x : A \cup B = {x}
  <2>1. (a = 1 /\ b = 0) \/ (a = 0 /\ b = 1)
    BY <1>1, <1>3
  <2>2. CASE a = 1 /\ b = 0
    BY <2>2 DEF Measures
  <2>3. CASE a = 0 /\ b = 1
    BY <2>3 DEF Measures
  <2> QED
    BY <2>1, <2>2, <2>3
<1>4. a + b \in Nat
  BY <1>1
<1> QED
  BY <1>2, <1>3, <1>4 DEF Measures

\* The places of a pizza in a kitchen are as many as its weight there.
LEMMA PlacesInKitchen ==
    ASSUME NEW p \in Pizza, NEW k \in KitchenId, kitchens[k] \in Box
    PROVE  /\ Weight(kitchens[k], {p}) = 0 => PlacesIn(p, k) = {}
           /\ Weight(kitchens[k], {p}) = 1 => \E x : PlacesIn(p, k) = {x}
<1> DEFINE b == kitchens[k]
           I == {i \in DOMAIN b.orders : b.orders[i].pizza = p}
           J == {i \in DOMAIN b.results : b.results[i].pizza = p}
           L == {i \in DOMAIN b.line : b.line[i] = p}
           C == Carrying({p})
           H == {<<"hands", k, 0>> : x \in {p} \cap b.hands}
           R == {<<"refused", k, 0>> : x \in {p} \cap {b.refused}}
           r == IF b.refused \in {p} THEN 1 ELSE 0
<1>1. /\ b.orders \in Seq(Message(OrderType)) /\ b.results \in Seq(Message(ResultType))
      /\ b.line \in Seq(Pizza)
  BY BoxFields
<1>2. I = Hits(b.orders, C) /\ J = Hits(b.results, C) /\ L = Hits(b.line, {p})
  <2>1. /\ \A i \in DOMAIN b.orders : b.orders[i] \in Message(OrderType)
        /\ \A i \in DOMAIN b.results : b.results[i] \in Message(ResultType)
    BY <1>1, QueueEnds
  <2>2. /\ \A i \in DOMAIN b.orders : b.orders[i] \in C <=> b.orders[i].pizza \in {p}
        /\ \A i \in DOMAIN b.results : b.results[i] \in C <=> b.results[i].pizza \in {p}
    BY <2>1, MessageIn
  <2> HIDE DEF C
  <2> QED
    BY <2>2 DEF Hits
<1>3. /\ IsFiniteSet(I) /\ IsFiniteSet(J) /\ IsFiniteSet(L)
      /\ Number(b.orders, C) = Cardinality(I) /\ Number(b.results, C) = Cardinality(J)
      /\ Number(b.line, {p}) = Cardinality(L)
  <2>1. /\ IsFiniteSet(Hits(b.orders, C)) /\ IsFiniteSet(Hits(b.results, C))
        /\ IsFiniteSet(Hits(b.line, {p}))
    BY <1>1, HitsFinite
  <2> HIDE DEF I, J, L, C
  <2> QED
    BY <1>2, <2>1, Zenon DEF Number
<1> DEFINE h == Cardinality(b.hands \cap {p})
<1>4. /\ Number(b.orders, C) \in Nat /\ Number(b.line, {p}) \in Nat /\ h \in Nat
      /\ IsFiniteSet(b.hands \cap {p}) /\ Number(b.results, C) \in Nat /\ r \in Nat
  BY WeightParts
<1>5. (h = 0 => H = {}) /\ (h = 1 => \E x : H = {x})
  <2>1. h = 0 => b.hands \cap {p} = {}
    BY <1>4, FS_EmptySet
  <2>2. h = 1 => \E x : b.hands \cap {p} = {x}
    BY <1>4, FS_Singleton
  <2> HIDE DEF b, h
  <2>3. ASSUME h = 0 PROVE H = {}
    BY <2>1, <2>3
  <2>4. ASSUME h = 1 PROVE \E x : H = {x}
    <3>1. p \in b.hands
      BY <2>2, <2>4
    <3>2. H = {<<"hands", k, 0>>}
      BY <3>1
    <3> QED
      BY <3>2
  <2> QED
    BY <2>3, <2>4
<1>6. (r = 0 => R = {}) /\ (r = 1 => \E x : R = {x})
  <2> HIDE DEF b
  <2>1. ASSUME r = 0 PROVE R = {}
    BY <2>1
  <2>2. ASSUME r = 1 PROVE \E x : R = {x}
    <3>3. b.refused = p
      BY <2>2
    <3>1. {p} \cap {b.refused} = {p}
      BY <3>3
    <3>2. R = {<<"refused", k, 0>>}
      BY <3>1
    <3> QED
      BY <3>2
  <2> QED
    BY <2>1, <2>2
<1> DEFINE o == Number(b.orders, C)
           s == Number(b.results, C)
           l == Number(b.line, {p})
           A == Tags("orders", k, I)
           B == Tags("results", k, J)
           D == Tags("line", k, L)
<1>7. /\ (o = 0 => A = {}) /\ (o = 1 => \E x : A = {x})
      /\ (s = 0 => B = {}) /\ (s = 1 => \E x : B = {x})
      /\ (l = 0 => D = {}) /\ (l = 1 => \E x : D = {x})
  <2> HIDE DEF b, I, J, L, C
  <2> QED
    BY <1>3, TagsOf
<1>8. PlacesIn(p, k) = A \cup B \cup D \cup H \cup R
  BY Zenon DEF PlacesIn, Tags
<1>9. Weight(b, {p}) = o + r + l + h + s
  BY DEF Weight
<1>10. o \in Nat /\ s \in Nat /\ l \in Nat /\ h \in Nat /\ r \in Nat
  BY <1>4
<1> HIDE DEF b, A, B, D, H, R, o, s, l, h, r
<1>11. Measures(A \cup B \cup D \cup H \cup R, o + s + l + h + r)
  <2>1. Measures(A, o) /\ Measures(B, s) /\ Measures(D, l) /\ Measures(H, h) /\ Measures(R, r)
    BY <1>5, <1>6, <1>7, <1>10 DEF Measures
  <2>2. Measures(A \cup B, o + s)
    BY <2>1, JoinParts
  <2>3. Measures(A \cup B \cup D, o + s + l)
    BY <2>1, <2>2, JoinParts
  <2>4. Measures(A \cup B \cup D \cup H, o + s + l + h)
    BY <2>1, <2>3, JoinParts
  <2> QED
    BY <2>1, <2>4, JoinParts
<1>12. Weight(b, {p}) = o + s + l + h + r
  BY <1>9, <1>10
<1>13. /\ Weight(b, {p}) = 0 => PlacesIn(p, k) = {}
       /\ Weight(b, {p}) = 1 => \E x : PlacesIn(p, k) = {x}
  BY <1>8, <1>11, <1>12, Zenon DEF Measures
<1> QED
  BY <1>13 DEF b

\* The places of a pizza outside the kitchens are as many as Outside says.
LEMMA PlacesOutside ==
    ASSUME Types, NEW p \in Pizza
    PROVE  /\ Outside(p) = 0 => PlacesOut(p) = {}
           /\ Outside(p) = 1 => \E x : PlacesOut(p) = {x}
<1> DEFINE I == {i \in DOMAIN todo : todo[i] = p}
           A == Tags("todo", 0, I)
           R == {<<"ready", 0, 0>> : x \in {p} \cap ready}
           D == {<<"dropped", 0, 0>> : x \in {p} \cap dropped}
           t == Number(todo, {p})
           r == IF p \in ready THEN 1 ELSE 0
           d == IF p \in dropped THEN 1 ELSE 0
<1>1. I = Hits(todo, {p})
  BY DEF Hits
<1>2. IsFiniteSet(I) /\ t = Cardinality(I) /\ t \in Nat
  <2>1. IsFiniteSet(Hits(todo, {p})) /\ Number(todo, {p}) \in Nat
    BY HitsFinite DEF Types
  <2> HIDE DEF I
  <2> QED
    BY <1>1, <2>1, Zenon DEF Number
<1>3. (t = 0 => A = {}) /\ (t = 1 => \E x : A = {x})
  <2> HIDE DEF I, t
  <2> QED
    BY <1>2, TagsOf
<1>4. (r = 0 => R = {}) /\ (r = 1 => \E x : R = {x})
  <2>1. ASSUME r = 0 PROVE R = {}
    BY <2>1
  <2>2. ASSUME r = 1 PROVE \E x : R = {x}
    <3>1. R = {<<"ready", 0, 0>>}
      BY <2>2
    <3> QED
      BY <3>1
  <2> QED
    BY <2>1, <2>2
<1>5. (d = 0 => D = {}) /\ (d = 1 => \E x : D = {x})
  <2>1. ASSUME d = 0 PROVE D = {}
    BY <2>1
  <2>2. ASSUME d = 1 PROVE \E x : D = {x}
    <3>1. D = {<<"dropped", 0, 0>>}
      BY <2>2
    <3> QED
      BY <3>1
  <2> QED
    BY <2>1, <2>2
<1>6. PlacesOut(p) = A \cup R \cup D
  BY Zenon DEF PlacesOut, Tags
<1>7. Outside(p) = t + r + d /\ r \in Nat /\ d \in Nat
  BY DEF Outside
<1> HIDE DEF A, R, D, t, r, d
<1>8. Measures(A \cup R \cup D, t + r + d)
  <2>1. Measures(A, t) /\ Measures(R, r) /\ Measures(D, d)
    BY <1>2, <1>3, <1>4, <1>5, <1>7 DEF Measures
  <2>2. Measures(A \cup R, t + r)
    BY <2>1, JoinParts
  <2> QED
    BY <2>1, <2>2, JoinParts
<1> QED
  BY <1>6, <1>7, <1>8, Zenon DEF Measures

\* One place by weight is one place of the set of places.
LEMMA PlacesAreOne == IInv => EachPizzaInOnePlace
<1> SUFFICES ASSUME IInv, NEW p \in Pizza
             PROVE  Cardinality(Places(p)) = IF Ordered(p) THEN 1 ELSE 0
  BY DEF EachPizzaInOnePlace
<1>1. Types /\ InOnePlace(p) /\ \A k \in KitchenId : kitchens[k] \in Box
  BY DEF IInv, OnePlace, Types
<1>2. Places(p) = PlacesOut(p) \cup UNION {PlacesIn(p, k) : k \in KitchenId}
  BY DEF Places
<1>3. ASSUME Places(p) = {}, ~Ordered(p)
      PROVE  Cardinality(Places(p)) = IF Ordered(p) THEN 1 ELSE 0
  <2>1. Cardinality(Places(p)) = 0
    BY <1>3, FS_EmptySet, Zenon
  <2> QED
    BY <1>3, <2>1
<1>4. ASSUME NEW x, Places(p) = {x}, Ordered(p)
      PROVE  Cardinality(Places(p)) = IF Ordered(p) THEN 1 ELSE 0
  <2>1. Cardinality(Places(p)) = 1
    BY <1>4, FS_Singleton, Zenon
  <2> QED
    BY <1>4, <2>1
<1>5. CASE /\ Outside(p) = IF Ordered(p) THEN 1 ELSE 0
           /\ \A k \in KitchenId : Weight(kitchens[k], {p}) = 0
  <2>1. \A k \in KitchenId : PlacesIn(p, k) = {}
    BY <1>1, <1>5, PlacesInKitchen
  <2>2. UNION {PlacesIn(p, k) : k \in KitchenId} = {}
    BY <2>1
  <2>3. Places(p) = PlacesOut(p)
    BY <1>2, <2>2
  <2>4. CASE Ordered(p)
    <3>1. PICK x : PlacesOut(p) = {x}
      BY <1>1, <1>5, <2>4, PlacesOutside
    <3> QED
      BY <1>4, <2>3, <2>4, <3>1
  <2>5. CASE ~Ordered(p)
    <3>1. PlacesOut(p) = {}
      BY <1>1, <1>5, <2>5, PlacesOutside
    <3> QED
      BY <1>3, <2>3, <2>5, <3>1
  <2> QED
    BY <2>4, <2>5
<1>6. CASE /\ Outside(p) = 0 /\ Ordered(p)
           /\ \E k \in KitchenId : \A j \in KitchenId :
                Weight(kitchens[j], {p}) = IF j = k THEN 1 ELSE 0
  <2>1. PICK k \in KitchenId : \A j \in KitchenId :
          Weight(kitchens[j], {p}) = IF j = k THEN 1 ELSE 0
    BY <1>6
  <2>2. Weight(kitchens[k], {p}) = 1 /\ \A j \in KitchenId \ {k} : Weight(kitchens[j], {p}) = 0
    BY <2>1
  <2>3. PICK x : PlacesIn(p, k) = {x}
    BY <1>1, <2>2, PlacesInKitchen
  <2>4. \A j \in KitchenId \ {k} : PlacesIn(p, j) = {}
    BY <1>1, <2>2, PlacesInKitchen
  <2>5. UNION {PlacesIn(p, j) : j \in KitchenId} = {x}
    BY <2>3, <2>4
  <2>6. PlacesOut(p) = {}
    BY <1>1, <1>6, PlacesOutside
  <2>7. Places(p) = {x}
    BY <1>2, <2>5, <2>6
  <2> QED
    BY <1>4, <1>6, <2>7
<1> QED
  BY <1>1, <1>5, <1>6 DEF InOnePlace

-----------------------------------------------------------------------------
\* The reception keeps the types of its state, and its queues those of the
\* packets, for any number of kitchens, cooks, orders and commands.
THEOREM ReceptionTypeCorrect == ReceptionSpec => []ReceptionTypeOK
  BY IInvariant, TypesAreOK, PTL

\* The load that loadBalancer keeps of a kitchen it holds for alive is exactly
\* the number of pizzas the kitchen has not answered for.
THEOREM LoadIsExact == ReceptionSpec => []HandleLoadIsExact
  BY IInvariant, LoadsAreExact, PTL

\* The two message queues of a kitchen never hold more than the pizzas it may
\* owe, one status answer and one command: no msgsnd has to wait for room.
THEOREM QueuesStayBounded == ReceptionSpec => []QueuesBounded
  BY IInvariant, QueuesAreBounded, PTL

\* A status command collects the answers of all cooks and only its own, and
\* leaves none behind.
THEOREM StatusProtocolKept == ReceptionSpec => []StatusProtocol
  BY IInvariant, StatusIsKept, PTL

\* No pizza is lost or made twice on its way from the order to its Done.
THEOREM OnePlaceEach == ReceptionSpec => []EachPizzaInOnePlace
  BY IInvariant, PlacesAreOne, PTL

\* Orders are announced in the order they were placed, each when as many Done
\* packets have come as it and those before it have pizzas.
THEOREM AnnouncementsAreCounted == ReceptionSpec => []AnnouncementsCountDone
  BY IInvariant, CountsAreTrue, PTL

\* dispatch sends a pizza to a live kitchen that owes the fewest, and opens a
\* kitchen only when every live one owes 2 x N.
THEOREM DispatchBalances == ReceptionSpec => BalancedDispatch
<1>1. IInv /\ [ReceptionNext]_vars =>
          [\A k \in KitchenId, j \in Alive :
              /\ Unanswered(k)' > Unanswered(k) => Unanswered(j) >= Unanswered(k)
              /\ kitchens[k].phase = "unborn" /\ kitchens[k].phase' # "unborn" =>
                    Unanswered(j) >= Capacity]_vars
  BY DispatchIsBalanced
<1> QED
  BY <1>1, IInvariant, PTL DEF ReceptionSpec, BalancedDispatch

-----------------------------------------------------------------------------
(* The reception keeps its promises to the kitchens: what each step is in the  *)
(* contract.                                                                    *)

\* The kitchens that shutdown has still to command are alive.
Commanding == duty = "shutdown" => \A i \in DOMAIN visit : handle[visit[i]].alive

LEMMA AliveIs ==
    ASSUME Types, Handles, NEW k \in KitchenId
    PROVE  k \in Alive <=> handle[k].alive
  BY DEF Alive, Handles

LEMMA CommandingStep ==
    ASSUME IInv, Commanding, [ReceptionNext]_vars
    PROVE  Commanding'
<1>1. Types /\ Control /\ Handles /\ visit \in Seq(KitchenId)
  BY DEF IInv, Types
<1>2. CASE EndOfInput \/ SpawnFails
  <2>1. visit' = InOrder(Alive) /\ handle' = handle
    BY <1>2 DEF EndOfInput, SpawnFails
  <2>2. Alive \in SUBSET KitchenId
    BY <1>1 DEF Alive, Types
  <2>3. \A i \in DOMAIN visit' : visit'[i] \in Alive
    BY <2>1, <2>2, InOrderVisits
  <2> QED
    BY <2>1, <2>3 DEF Commanding, Alive
<1>3. CASE CommandShutdown \/ FinishShutdown \/ ReceptionDone \/ UNCHANGED vars
  <2>1. visit' = visit /\ handle' = handle /\ duty' = duty
    BY <1>3 DEF CommandShutdown, FinishShutdown, ReceptionDone, vars, callVars
  <2> QED
    BY <2>1 DEF Commanding
<1>4. CASE WaitForExit
  <2>1. /\ duty = "shutdown" /\ duty' = duty /\ visit # <<>> /\ visit' = Tail(visit)
        /\ handle' = [handle EXCEPT ![Head(visit)].alive = FALSE]
    BY <1>1, <1>4 DEF WaitForExit, Control
  <2>2. \A i \in DOMAIN visit : visit[i] \in KitchenId /\ (i # 1 => visit[i] # Head(visit))
    BY <1>1, <2>1, VisitHead
  <2>3. \A i \in DOMAIN visit' : visit'[i] = visit[i + 1] /\ i + 1 \in DOMAIN visit /\ i + 1 # 1
    BY <1>1, <2>1
  <2>4. \A i \in DOMAIN visit' : handle'[visit'[i]] = handle[visit'[i]]
    BY <2>1, <2>2, <2>3
  <2>5. \A i \in DOMAIN visit : handle[visit[i]].alive
    BY <2>1 DEF Commanding
  <2>6. \A i \in DOMAIN visit' : handle'[visit'[i]].alive
    <3> SUFFICES ASSUME NEW i \in DOMAIN visit'
                 PROVE  handle'[visit'[i]].alive
      OBVIOUS
    <3>1. handle'[visit'[i]] = handle[visit[i + 1]]
      BY <2>3, <2>4, Zenon
    <3> QED
      BY <2>3, <2>5, <3>1, Zenon
  <2> QED
    BY <2>6 DEF Commanding
<1>5. CASE ~(EndOfInput \/ SpawnFails \/ CommandShutdown \/ FinishShutdown \/ ReceptionDone
             \/ WaitForExit \/ UNCHANGED vars)
  <2>1. CASE \E k \in KitchenId : HandlePacket(k)
    <3>1. rpc = "drain" /\ duty' = duty
      BY <2>1 DEF HandlePacket, HandleDone, HandleFull, HandleCookStatus, HandleStatusReply,
                  HandleShutdown, Gets, callVars
    <3> QED
      BY <1>1, <3>1 DEF Commanding, Control
  <2>2. CASE Processes
    BY <2>2 DEF Processes, callVars, Commanding
  <2>3. CASE Customer \/ Poll
    BY <1>5, <2>3 DEF Customer, Poll, PlaceOrder, RequestStatus, Commanding
  <2>4. CASE Reap \/ NextKitchen \/ FinishDraining
    BY <1>1, <2>4 DEF Reap, NextKitchen, FinishDraining, Commanding, Control
  <2>5. CASE SpawnKitchen \/ SendPizza \/ FinishDispatch
    BY <1>1, <2>5 DEF SpawnKitchen, SendPizza, FinishDispatch, callVars, Commanding, Control
  <2> QED
    BY <1>5, <2>1, <2>2, <2>3, <2>4, <2>5 DEF ReceptionNext, Working
<1> QED
  BY <1>2, <1>3, <1>4, <1>5

\* A kitchen with which the reception stands as before.
Kept(k) ==
    /\ kitchens'[k].orders = kitchens[k].orders /\ kitchens'[k].results = kitchens[k].results
    /\ Terms(k)' = Terms(k) /\ Owed(k)' = Owed(k)

\* What makes a step one of the contract.
LEMMA NothingSeen ==
    ASSUME \A k \in KitchenId : Kept(k), Dispatched' = Dispatched
    PROVE  UNCHANGED Promises!contractVars
  BY DEF Kept, Promises!contractVars

LEMMA OpenSeen ==
    ASSUME NEW k \in KitchenId, \A j \in KitchenId : j # k => Kept(j),
           kitchens'[k].orders = kitchens[k].orders, kitchens'[k].results = kitchens[k].results,
           Terms(k) = "none", Terms(k)' = "open", Owed(k)' = Owed(k), Dispatched' = Dispatched
    PROVE  Promises!TermsNext
<1>1. Promises!Open(k)
  BY DEF Promises!Open, Kept
<1> QED
  BY <1>1 DEF Promises!TermsNext, Promises!ReceptionStep

LEMMA OfferSeen ==
    ASSUME NEW k \in KitchenId, NEW p \in Pizza, \A j \in KitchenId : j # k => Kept(j),
           kitchens'[k].orders = Append(kitchens[k].orders, Packet("Pizza", p)),
           kitchens'[k].results = kitchens[k].results,
           Terms(k) = "open", Terms(k)' = "open", Owed(k) < Capacity, Owed(k)' = Owed(k) + 1,
           p \notin Dispatched, Dispatched' = Dispatched \cup {p}
    PROVE  Promises!TermsNext
<1>1. Promises!Offer(k, p)
  BY DEF Promises!Offer, Kept
<1> QED
  BY <1>1 DEF Promises!TermsNext, Promises!ReceptionStep

LEMMA AskSeen ==
    ASSUME NEW asked \in SUBSET KitchenId, \A j \in KitchenId \ asked : Kept(j),
           \A k \in asked :
                /\ kitchens'[k].orders = Append(kitchens[k].orders, Plain("StatusRequest"))
                /\ kitchens'[k].results = kitchens[k].results
                /\ Terms(k) = "open" /\ Terms(k)' = "awaiting" /\ Owed(k)' = Owed(k),
           Dispatched' = Dispatched
    PROVE  Promises!TermsNext
<1>1. Promises!Ask(asked)
  BY DEF Promises!Ask, Kept
<1> QED
  BY <1>1 DEF Promises!TermsNext

LEMMA CommandSeen ==
    ASSUME NEW k \in KitchenId, \A j \in KitchenId : j # k => Kept(j),
           kitchens'[k].orders = Append(kitchens[k].orders, Plain("Shutdown")),
           kitchens'[k].results = kitchens[k].results,
           Terms(k) = "open", Terms(k)' = "commanded", Owed(k)' = Owed(k), Dispatched' = Dispatched
    PROVE  Promises!TermsNext
<1>1. Promises!Command(k)
  BY DEF Promises!Command, Kept
<1> QED
  BY <1>1 DEF Promises!TermsNext, Promises!ReceptionStep

LEMMA CollectSeen ==
    ASSUME NEW k \in KitchenId, \A j \in KitchenId : j # k => Kept(j),
           kitchens'[k].orders = kitchens[k].orders, kitchens[k].results # <<>>,
           kitchens'[k].results = Tail(kitchens[k].results),
           Terms(k) \in {"open", "awaiting"}, Dispatched' = Dispatched,
           NEW type, type = Head(kitchens[k].results).type,
           type \in {"Done", "Full"} => Owed(k) > 0,
           Owed(k)' = IF type \in {"Done", "Full"} THEN Owed(k) - 1
                      ELSE IF type = "Shutdown" THEN 0 ELSE Owed(k),
           Terms(k)' = IF type = "Shutdown" THEN "over"
                       ELSE IF type = "StatusReply" THEN "open" ELSE Terms(k)
    PROVE  Promises!TermsNext
<1>1. Promises!Collect(k)
  BY DEF Promises!Collect, Promises!Answers, Kept
<1> QED
  BY <1>1 DEF Promises!TermsNext, Promises!ReceptionStep

LEMMA PartSeen ==
    ASSUME NEW k \in KitchenId, \A j \in KitchenId : j # k => Kept(j),
           kitchens'[k].orders = kitchens[k].orders, kitchens'[k].results = kitchens[k].results,
           Terms(k) = "commanded", Terms(k)' = "over", Owed(k)' = 0, Dispatched' = Dispatched
    PROVE  Promises!TermsNext
<1>1. Promises!Part(k)
  BY DEF Promises!Part, Kept
<1> QED
  BY <1>1 DEF Promises!TermsNext, Promises!ReceptionStep

LEMMA TakesSeen ==
    ASSUME NEW k \in KitchenId, \A j \in KitchenId : j # k => Kept(j),
           kitchens[k].orders # <<>>, kitchens'[k].orders = Tail(kitchens[k].orders),
           kitchens'[k].results = kitchens[k].results,
           Terms(k)' = Terms(k), Owed(k)' = Owed(k), Dispatched' = Dispatched
    PROVE  Promises!TermsNext
<1>1. Promises!KitchenTakes(k)
  BY DEF Promises!KitchenTakes, Kept
<1> QED
  BY <1>1 DEF Promises!TermsNext

LEMMA SaysSeen ==
    ASSUME NEW k \in KitchenId, \A j \in KitchenId : j # k => Kept(j),
           kitchens'[k].orders = kitchens[k].orders,
           NEW T, kitchens[k].results \in Seq(T), NEW m \in T,
           kitchens'[k].results = Append(kitchens[k].results, m),
           Terms(k)' = Terms(k), Owed(k)' = Owed(k), Dispatched' = Dispatched
    PROVE  Promises!TermsNext
<1>1. Last(Append(kitchens[k].results, m)) = m /\ Append(kitchens[k].results, m) # <<>>
  BY DEF Last
<1>2. /\ kitchens'[k].results # <<>>
      /\ kitchens'[k].results = Append(kitchens[k].results, Last(kitchens'[k].results))
  BY <1>1, Zenon
<1>3. Promises!KitchenSays(k)
  <2> DEFINE q == [j \in KitchenId |-> kitchens[j].results]
             r == [j \in KitchenId |-> kitchens'[j].results]
  <2>1. r[k] = kitchens'[k].results /\ q[k] = kitchens[k].results
    OBVIOUS
  <2>2. r = [q EXCEPT ![k] = Append(q[k], Last(r[k]))]
    <3> DEFINE l == Append(q[k], Last(r[k]))
    <3>1. r[k] = l
      BY <1>2, <2>1, Zenon
    <3> HIDE DEF l
    <3>2. \A j \in KitchenId : r[j] = IF j = k THEN l ELSE q[j]
      BY <3>1 DEF Kept
    <3>3. r = [j \in KitchenId |-> IF j = k THEN l ELSE q[j]]
      BY <3>2
    <3>4. [q EXCEPT ![k] = l] = [j \in KitchenId |-> IF j = k THEN l ELSE q[j]]
      OBVIOUS
    <3>5. r = [q EXCEPT ![k] = l]
      BY <3>3, <3>4, Zenon
    <3> QED
      BY <3>5 DEF l
  <2>3. r[k] # <<>>
    BY <1>2, <2>1, Zenon
  <2>4. /\ [j \in KitchenId |-> kitchens[j].orders]' = [j \in KitchenId |-> kitchens[j].orders]
        /\ [j \in KitchenId |-> Terms(j)]' = [j \in KitchenId |-> Terms(j)]
        /\ [j \in KitchenId |-> Owed(j)]' = [j \in KitchenId |-> Owed(j)]
    BY DEF Kept
  <2> QED
    BY <2>2, <2>3, <2>4, Zenon DEF Promises!KitchenSays, Promises!Last, Last
<1> QED
  BY <1>3 DEF Promises!TermsNext

\* getStatus waits for the kitchens that Statuses expects an answer of.
LEMMA AwaitsIs ==
    ASSUME Types, Control, NEW k \in KitchenId
    PROVE  Awaits(k) <=> Expected(k)
<1>1. visit \in Seq(KitchenId) /\ \A i, j \in DOMAIN visit : visit[i] = visit[j] => i = j
  BY DEF Types, Control
<1>2. k \in ToSet(visit) <=> \E i \in DOMAIN visit : visit[i] = k
  BY DEF ToSet
<1>3. visit # <<>> => Head(visit) = visit[1] /\ 1 \in DOMAIN visit
  BY <1>1
<1>4. (\E i \in DOMAIN visit : visit[i] = k) => visit # <<>>
  BY <1>1
<1> QED
  BY <1>1, <1>2, <1>3, <1>4 DEF Awaits, Expected

LEMMA TermsKept ==
    ASSUME NEW k \in KitchenId,
           kitchens'[k].phase = "unborn" <=> kitchens[k].phase = "unborn",
           (k \in Alive)' <=> k \in Alive,
           k \in Alive => /\ (rpc = "waitpid" /\ k = Head(visit))'
                                <=> rpc = "waitpid" /\ k = Head(visit)
                          /\ Awaits(k)' <=> Awaits(k)
    PROVE  Terms(k)' = Terms(k)
  BY DEF Terms

\* What is neither alive nor forked, or alive and neither commanded nor awaited.
LEMMA TermsAre ==
    ASSUME Types, Handles, NEW k \in KitchenId
    PROVE  /\ handle[k].alive => kitchens[k].phase # "unborn" /\ k \in Alive
           /\ kitchens[k].phase = "unborn" => Terms(k) = "none" /\ k \notin Alive
           /\ k \in Alive /\ rpc # "waitpid" => Terms(k) = IF Awaits(k) THEN "awaiting" ELSE "open"
           /\ k \in Alive /\ rpc = "waitpid" /\ k = Head(visit) => Terms(k) = "commanded"
           /\ k \notin Alive => Owed(k) = 0
           /\ k \in Alive => Owed(k) = handle[k].load
           /\ kitchens[k].phase # "unborn" /\ k \notin Alive => Terms(k) = "over"
  BY DEF Terms, Alive, Handles, Owed

\* No pizza is dispatched or ordered by a step that leaves todo and sizes alone.
LEMMA DispatchedKept ==
    ASSUME todo' = todo, sizes' = sizes
    PROVE  Dispatched' = Dispatched
  BY DEF Dispatched, Ordered

\* A step at which nothing passes between the reception and the kitchens.
LEMMA QuietSeen ==
    ASSUME kitchens' = kitchens, rpc # "waitpid", rpc' # "waitpid", Alive' = Alive,
           \A k \in Alive : handle'[k].load = handle[k].load /\ (Awaits(k)' <=> Awaits(k)),
           Dispatched' = Dispatched
    PROVE  UNCHANGED Promises!contractVars
<1>1. ASSUME NEW k \in KitchenId
      PROVE  Kept(k)
  <2>1. Terms(k)' = Terms(k)
    BY TermsKept
  <2>2. Owed(k)' = Owed(k)
    BY DEF Owed
  <2> QED
    BY <2>1, <2>2 DEF Kept
<1> QED
  BY <1>1, NothingSeen

LEMMA PlaceOrderSeen ==
    ASSUME IInv, NEW n \in 1 .. MaxSize, PlaceOrder(n)
    PROVE  UNCHANGED Promises!contractVars
<1>1. /\ kitchens' = kitchens /\ roster' = roster /\ handle' = handle
      /\ rpc = "select" /\ rpc' = "drain" /\ duty' = "dispatch"
      /\ sizes' = Append(sizes, n)
      /\ todo' = [i \in 1 .. n |-> <<Len(sizes) + 1, i>>]
  BY DEF PlaceOrder
<1>2. Types /\ duty = "none" /\ todo = <<>> /\ n \in Nat
  BY <1>1, Constants DEF IInv, Control
<1>3. Dispatched' = Dispatched
  <2>1. sizes \in Seq(1 .. MaxSize) /\ Len(sizes) \in Nat
    BY <1>2 DEF Types
  <2>2. Len(sizes') = Len(sizes) + 1 /\ sizes'[Len(sizes) + 1] = n
        /\ \A i \in 1 .. Len(sizes) : sizes'[i] = sizes[i]
    BY <1>1, <2>1
  <2> SUFFICES ASSUME NEW p \in Pizza
               PROVE  p \in Dispatched' <=> p \in Dispatched
    BY DEF Dispatched
  <2>3. p[1] \in Nat /\ p[1] >= 1 /\ p[2] \in Nat /\ p[2] >= 1 /\ p = <<p[1], p[2]>>
    BY Constants DEF Pizza, OrderId
  <2>4. p \notin ToSet(todo)
    BY <1>2 DEF ToSet
  <2>5. p \in ToSet(todo') <=> p[1] = Len(sizes) + 1 /\ p[2] <= n
    <3>1. p \in ToSet(todo') <=> \E i \in 1 .. n : p = <<Len(sizes) + 1, i>>
      BY <1>1 DEF ToSet
    <3> QED
      BY <1>2, <2>3, <3>1
  <2>6. Ordered(p)' <=> Ordered(p) \/ (p[1] = Len(sizes) + 1 /\ p[2] <= n)
    BY <2>1, <2>2, <2>3 DEF Ordered
  <2>7. ~(Ordered(p) /\ p[1] = Len(sizes) + 1)
    BY <2>1 DEF Ordered
  <2> QED
    BY <2>4, <2>5, <2>6, <2>7 DEF Dispatched
<1> QED
  BY <1>1, <1>2, <1>3, QuietSeen DEF Alive, Awaits

LEMMA NextKitchenSeen ==
    ASSUME IInv, NextKitchen
    PROVE  UNCHANGED Promises!contractVars
<1>1. /\ kitchens' = kitchens /\ roster' = roster /\ handle' = handle /\ todo' = todo
      /\ sizes' = sizes /\ rpc = "drain" /\ rpc' = rpc /\ duty' = duty /\ gotReply' = FALSE
      /\ visit # <<>>
  BY DEF NextKitchen, orderVars
<1>2. Types /\ Control /\ visit \in Seq(KitchenId) /\ Alive' = Alive
  BY <1>1 DEF IInv, Types, Alive
<1>3. ASSUME NEW k \in Alive
      PROVE  Awaits(k)' <=> Awaits(k)
  <2>1. k \in KitchenId /\ handle[k].alive
    BY <1>2, <1>3 DEF Alive, Types
  <2>2. Awaits(k) => Awaits(k)'
    <3>1. Awaits(k) => Expected(k)'
      BY <1>2, <2>1, AwaitsIs, ExpectedStays
    <3> QED
      BY <1>1, <3>1 DEF Expected, Awaits, ToSet
  <2>3. Awaits(k)' => Awaits(k)
    <3> SUFFICES ASSUME Awaits(k)'
                 PROVE  Awaits(k)
      OBVIOUS
    <3>1. PICK i \in DOMAIN visit' : visit'[i] = k
      BY DEF Awaits, ToSet
    <3>2. duty = "status"
      BY <1>1 DEF Awaits
    <3>3. CASE visit' = Tail(visit)
      <4>1. visit[i + 1] = k /\ i + 1 \in DOMAIN visit /\ i + 1 # 1
        BY <1>2, <3>1, <3>3
      <4>2. k # Head(visit)
        BY <1>1, <4>1, VisitHead
      <4> QED
        BY <3>2, <4>1, <4>2 DEF Awaits, ToSet
    <3>4. CASE visit' = Append(Tail(visit), Head(visit)) /\ ~gotReply
      <4>1. \E j \in DOMAIN visit : visit[j] = k
        BY <1>1, <1>2, <3>1, <3>4
      <4> QED
        BY <3>2, <3>4, <4>1 DEF Awaits, ToSet
    <3> QED
      BY <3>3, <3>4 DEF NextKitchen
  <2> QED
    BY <2>2, <2>3
<1>4. Dispatched' = Dispatched
  BY <1>1, DispatchedKept
<1> QED
  BY <1>1, <1>2, <1>3, <1>4, QuietSeen

LEMMA FinishDrainingSeen ==
    ASSUME IInv, FinishDraining
    PROVE  UNCHANGED Promises!contractVars
<1>1. /\ kitchens' = kitchens /\ todo' = todo /\ sizes' = sizes
      /\ rpc = "drain" /\ rpc' \in {"dispatch", "select"} /\ duty' \in {"dispatch", "none"}
      /\ visit = <<>> /\ roster' = IF duty = "status" THEN roster ELSE Alive
      /\ handle' = [k \in KitchenId |-> IF k \in roster' THEN handle[k] ELSE NoHandle]
  BY DEF FinishDraining, orderVars
<1>2. roster \in SUBSET KitchenId
  BY DEF IInv, Types
<1>3. Alive' = Alive /\ \A k \in Alive : handle'[k] = handle[k]
  BY <1>1, <1>2 DEF Alive, NoHandle
<1>4. \A k : ~Awaits(k) /\ ~Awaits(k)'
  BY <1>1 DEF Awaits, ToSet
<1>5. Dispatched' = Dispatched
  BY <1>1, DispatchedKept
<1> QED
  BY <1>1, <1>3, <1>4, <1>5, QuietSeen

LEMMA OtherQuietSeen ==
    ASSUME IInv, Poll \/ EndOfInput \/ Reap \/ SpawnFails \/ FinishDispatch \/ FinishShutdown
                 \/ ReceptionDone
    PROVE  UNCHANGED Promises!contractVars
<1>1. /\ kitchens' = kitchens /\ roster' = roster /\ handle' = handle
      /\ todo' = todo /\ sizes' = sizes /\ rpc # "waitpid" /\ rpc' # "waitpid"
      /\ \/ duty # "status" /\ duty' # "status"
         \/ duty' = duty /\ visit' = visit /\ gotReply' = gotReply
  BY DEF IInv, Control, Poll, EndOfInput, Reap, SpawnFails, FinishDispatch, FinishShutdown,
         ReceptionDone, vars, callVars, orderVars
<1>2. Alive' = Alive
  BY <1>1 DEF Alive
<1>3. \A k \in Alive : Awaits(k)' <=> Awaits(k)
  BY <1>1 DEF Awaits
<1>4. Dispatched' = Dispatched
  BY <1>1, DispatchedKept
<1> QED
  BY <1>1, <1>2, <1>3, <1>4, QuietSeen

LEMMA RequestStatusSeen ==
    ASSUME IInv, RequestStatus
    PROVE  Promises!TermsNext
<1>1. /\ rpc = "select" /\ rpc' = "drain" /\ duty' = "status" /\ visit' = InOrder(Alive)
      /\ gotReply' = gotReply /\ todo' = todo /\ roster' = roster /\ sizes' = sizes
      /\ handle' = [k \in KitchenId |->
                      IF k \in Alive THEN [handle[k] EXCEPT !.cooks = 0] ELSE handle[k]]
  BY DEF RequestStatus, orderVars
<1>2. Types /\ Boxes /\ Handles /\ duty = "none" /\ gotReply = FALSE
  BY <1>1 DEF IInv, Control, Types
<1>3. Alive \in SUBSET KitchenId
  BY <1>2 DEF Alive, Types
<1>4. ASSUME NEW k \in KitchenId
      PROVE  /\ handle'[k].alive = handle[k].alive /\ handle'[k].load = handle[k].load
  BY <1>1, <1>2 DEF Types, Handle
<1>5. Alive' = Alive
  BY <1>1, <1>2, <1>4 DEF Alive, Types
<1>6. \A k \in KitchenId : Owed(k)' = Owed(k)
  BY <1>4, <1>5 DEF Owed
<1>7. ASSUME NEW k \in Alive
      PROVE  /\ kitchens'[k].orders = Append(kitchens[k].orders, Plain("StatusRequest"))
             /\ kitchens'[k].results = kitchens[k].results
             /\ kitchens'[k].phase = kitchens[k].phase /\ kitchens[k].phase # "unborn"
  <2>1. /\ k \in KitchenId /\ kitchens[k].phase # "unborn" /\ kitchens[k] \in Box
        /\ kitchens'[k] = [kitchens[k] EXCEPT
                             !.orders = Append(@, Packet("StatusRequest", NoPizza))]
    BY <1>2, RequestStep DEF Types
  <2> QED
    BY <2>1 DEF Plain, Box
<1>8. ASSUME NEW k \in Alive
      PROVE  Terms(k) = "open" /\ Terms(k)' = "awaiting"
  <2>1. ~Awaits(k)
    BY <1>2 DEF Awaits
  <2>2. Awaits(k)'
    BY <1>1, <1>2, <1>3, InOrderVisits DEF Awaits, ToSet
  <2> QED
    BY <1>1, <1>5, <1>7, <2>1, <2>2 DEF Terms
<1>9. ASSUME NEW k \in KitchenId \ Alive
      PROVE  Kept(k)
  <2>1. kitchens'[k] = kitchens[k]
    BY <1>2, RequestStep
  <2> QED
    BY <1>5, <1>6, <2>1 DEF Kept, Terms
<1>10. Dispatched' = Dispatched
  BY <1>1, DispatchedKept
<1> QED
  BY <1>3, <1>6, <1>7, <1>8, <1>9, <1>10, AskSeen

\* A kitchen that a step leaves alone, where the step does not wait for a process.
LEMMA OthersKept ==
    ASSUME NEW j \in KitchenId, kitchens'[j] = kitchens[j], handle'[j] = handle[j],
           j \in roster' <=> j \in roster,
           j \in Alive => /\ (rpc = "waitpid" /\ j = Head(visit))'
                                <=> rpc = "waitpid" /\ j = Head(visit)
                          /\ Awaits(j)' <=> Awaits(j)
    PROVE  Kept(j)
<1>1. (j \in Alive)' <=> j \in Alive
  BY DEF Alive
<1>2. Terms(j)' = Terms(j)
  BY <1>1, TermsKept
<1>3. Owed(j)' = Owed(j)
  BY <1>1 DEF Owed
<1> QED
  BY <1>2, <1>3 DEF Kept

LEMMA SpawnKitchenSeen ==
    ASSUME IInv, SpawnKitchen
    PROVE  Promises!TermsNext
<1>1. /\ rpc = "dispatch" /\ rpc' = rpc /\ duty' = duty /\ visit' = visit
      /\ gotReply' = gotReply /\ todo' = todo /\ sizes' = sizes
      /\ nextKitchen \in KitchenId /\ Spawn(nextKitchen)
      /\ handle' = [handle EXCEPT ![nextKitchen] = NewHandle]
      /\ roster' = roster \cup {nextKitchen}
  BY DEF SpawnKitchen, callVars, orderVars
<1>2. Types /\ Boxes /\ Handles /\ duty = "dispatch"
  BY <1>1 DEF IInv, Control
<1> PICK k \in KitchenId : k = nextKitchen
  BY <1>1
<1>3. /\ kitchens[k] = Unborn /\ kitchens'[k] = [Unborn EXCEPT !.phase = "open"]
      /\ \A j \in KitchenId : j # k => kitchens'[j] = kitchens[j]
  BY <1>1, <1>2, SpawnStep DEF Elsewhere
<1>4. /\ kitchens[k].phase = "unborn" /\ kitchens'[k].phase = "open"
      /\ kitchens'[k].orders = kitchens[k].orders /\ kitchens'[k].results = kitchens[k].results
  BY <1>3 DEF Unborn
<1>5. \A j : ~Awaits(j) /\ ~Awaits(j)'
  BY <1>1, <1>2 DEF Awaits
<1>6. handle'[k] = NewHandle /\ NewHandle.alive /\ NewHandle.load = 0
  BY <1>1, <1>2 DEF NewHandle, Types
<1>7. Terms(k) = "none" /\ Owed(k) = 0
  BY <1>1, <1>2, <1>4, TermsAre
<1>8. Terms(k)' = "open" /\ Owed(k)' = 0
  BY <1>1, <1>4, <1>5, <1>6 DEF Terms, Owed, Alive
<1>9. ASSUME NEW j \in KitchenId, j # k
      PROVE  Kept(j)
  BY <1>1, <1>2, <1>3, <1>5, <1>9, OthersKept DEF Types
<1>10. Dispatched' = Dispatched
  BY <1>1, DispatchedKept
<1>11. \A j \in KitchenId : j # k => Kept(j)
  BY <1>9
<1> QED
  BY <1>1, <1>4, <1>7, <1>8, <1>10, <1>11, OpenSeen

LEMMA CommandShutdownSeen ==
    ASSUME IInv, Commanding, CommandShutdown
    PROVE  Promises!TermsNext
<1>1. /\ rpc = "command" /\ rpc' = "waitpid" /\ duty' = duty /\ visit' = visit
      /\ gotReply' = gotReply /\ todo' = todo /\ sizes' = sizes /\ visit # <<>>
      /\ handle' = handle /\ roster' = roster
  BY DEF CommandShutdown, orderVars
<1>2. Types /\ Boxes /\ Handles /\ duty = "shutdown"
  BY <1>1 DEF IInv, Control
<1> PICK k \in KitchenId : k = Head(visit)
  BY <1>1, VisitHead
<1>3. /\ k \in KitchenId /\ kitchens[k].phase # "unborn" /\ kitchens[k] \in Box
      /\ kitchens'[k] = [kitchens[k] EXCEPT !.orders = Append(@, Packet("Shutdown", NoPizza))]
      /\ \A j \in KitchenId : j # k => kitchens'[j] = kitchens[j]
  BY CommandStep DEF Elsewhere
<1>4. /\ kitchens'[k].orders = Append(kitchens[k].orders, Plain("Shutdown"))
      /\ kitchens'[k].results = kitchens[k].results
      /\ kitchens'[k].phase = kitchens[k].phase
  BY <1>3 DEF Plain, Box
<1>5. k \in Alive
  BY <1>1, <1>2, <1>3, VisitHead, AliveIs DEF Commanding
<1>6. Alive' = Alive /\ \A j : ~Awaits(j) /\ ~Awaits(j)'
  BY <1>1, <1>2 DEF Alive, Awaits
<1>7. Terms(k) = "open" /\ Terms(k)' = "commanded" /\ Owed(k)' = Owed(k)
  BY <1>1, <1>3, <1>4, <1>5, <1>6 DEF Terms, Owed
<1>8. ASSUME NEW j \in KitchenId, j # k
      PROVE  Kept(j)
  BY <1>1, <1>3, <1>6, <1>8, OthersKept
<1>9. Dispatched' = Dispatched
  BY <1>1, DispatchedKept
<1>10. \A j \in KitchenId : j # k => Kept(j)
  BY <1>8
<1> QED
  BY <1>3, <1>4, <1>7, <1>9, <1>10, CommandSeen

LEMMA WaitForExitSeen ==
    ASSUME IInv, Commanding, WaitForExit
    PROVE  Promises!TermsNext
<1>1. /\ rpc = "waitpid" /\ rpc' = "command" /\ duty' = duty /\ kitchens' = kitchens
      /\ todo' = todo /\ sizes' = sizes
      /\ handle' = [handle EXCEPT ![Head(visit)].alive = FALSE] /\ roster' = roster
      /\ visit' = Tail(visit)
  BY DEF WaitForExit, orderVars
<1>2. Types /\ Handles /\ duty = "shutdown" /\ visit # <<>>
  BY <1>1 DEF IInv, Control
<1> PICK k \in KitchenId : k = Head(visit)
  BY <1>2, VisitHead
<1>3. k \in KitchenId /\ kitchens[k].phase # "unborn"
  BY <1>2, VisitHead
<1>4. k \in Alive
  BY <1>2, <1>3, VisitHead, AliveIs DEF Commanding
<1>5. handle[k] \in Handle /\ handle'[k].alive = FALSE /\ \A j \in KitchenId : j # k => handle'[j] = handle[j]
  BY <1>1, <1>2, <1>3 DEF Types, Handle
<1>6. (k \notin Alive)' /\ \A j : ~Awaits(j) /\ ~Awaits(j)'
  BY <1>1, <1>2, <1>5 DEF Alive, Awaits
<1>7. Terms(k) = "commanded" /\ Terms(k)' = "over" /\ Owed(k)' = 0
  BY <1>1, <1>3, <1>4, <1>6 DEF Terms, Owed
<1>8. ASSUME NEW j \in KitchenId, j # k
      PROVE  Kept(j)
  BY <1>1, <1>5, <1>6, <1>8, OthersKept
<1>9. Dispatched' = Dispatched
  BY <1>1, DispatchedKept
<1>10. kitchens'[k] = kitchens[k]
  BY <1>1
<1>11. \A j \in KitchenId : j # k => Kept(j)
  BY <1>8
<1> QED
  BY <1>3, <1>7, <1>9, <1>10, <1>11, PartSeen

\* No pizza stands twice among those to be dispatched.
LEMMA TodoOnce ==
    ASSUME IInv, todo # <<>>
    PROVE  /\ Ordered(Head(todo)) /\ Head(todo) \in Pizza
           /\ Head(todo) \in ToSet(todo) /\ Head(todo) \notin ToSet(Tail(todo))
           /\ \A p \in Pizza : p # Head(todo) => (p \in ToSet(Tail(todo)) <=> p \in ToSet(todo))
<1>1. todo \in Seq(Pizza) /\ Types
  BY DEF IInv, Types
<1> PICK p \in Pizza : p = Head(todo)
  BY <1>1
<1>2. Number(todo, {p}) = Number(Tail(todo), {p}) + 1 /\ Number(Tail(todo), {p}) \in Nat
  <2>1. Tail(todo) \in Seq(Pizza)
    BY <1>1
  <2>2. Number(todo, {p}) = Number(Tail(todo), {p}) + (IF Head(todo) \in {p} THEN 1 ELSE 0)
    BY <1>1, NumberTail, Zenon
  <2>3. Number(Tail(todo), {p}) \in Nat
    BY <2>1, HitsFinite, Zenon
  <2>4. Head(todo) \in {p}
    OBVIOUS
  <2>5. (IF Head(todo) \in {p} THEN 1 ELSE 0) = 1
    BY <2>4, Zenon
  <2> QED
    BY <2>2, <2>3, <2>5, Zenon
<1>3. InOnePlace(p) /\ Outside(p) \in Nat /\ Number(todo, {p}) \in Nat
  BY <1>1, OutsideNat DEF IInv, OnePlace
<1>4. Outside(p) = 1 /\ Ordered(p)
  BY <1>2, <1>3 DEF InOnePlace, Outside
<1>5. Number(Tail(todo), {p}) = 0
  BY <1>2, <1>3, <1>4 DEF Outside
<1>6. \A i \in DOMAIN Tail(todo) : Tail(todo)[i] # p
  <2>1. Tail(todo) \in Seq(Pizza)
    BY <1>1
  <2>2. \A i \in DOMAIN Tail(todo) : Tail(todo)[i] \notin {p}
    BY <2>1, <1>5, NumberZero, Zenon
  <2> QED
    BY <2>2, Zenon
<1>7. /\ DOMAIN todo = 1 .. Len(todo) /\ Len(todo) \in Nat /\ 1 \in DOMAIN todo /\ todo[1] = p
      /\ DOMAIN Tail(todo) = 1 .. Len(todo) - 1
      /\ \A i \in DOMAIN Tail(todo) : Tail(todo)[i] = todo[i + 1] /\ i + 1 \in DOMAIN todo
  BY <1>1
<1>8. ASSUME NEW x \in Pizza, x # p, NEW i \in DOMAIN todo, todo[i] = x
      PROVE  \E j \in DOMAIN Tail(todo) : Tail(todo)[j] = x
  <2>1. i - 1 \in DOMAIN Tail(todo) /\ Tail(todo)[i - 1] = x
    BY <1>7, <1>8
  <2> QED
    BY <2>1
<1> QED
  BY <1>4, <1>6, <1>7, <1>8 DEF ToSet

LEMMA SendPizzaSeen ==
    ASSUME IInv, SendPizza
    PROVE  Promises!TermsNext
<1>1. /\ rpc = "dispatch" /\ rpc' = rpc /\ duty' = duty /\ visit' = visit
      /\ gotReply' = gotReply /\ todo # <<>> /\ todo' = Tail(todo) /\ sizes' = sizes
      /\ handle' = [handle EXCEPT ![Best].load = @ + 1] /\ roster' = roster
  BY DEF SendPizza, orderVars
<1>2. Types /\ Handles /\ duty = "dispatch"
  BY <1>1 DEF IInv, Control
<1>3. PICK k \in KitchenId : k = Best
  BY SendPizzaStep
<1>4. PICK p \in Pizza : p = Head(todo)
  BY SendPizzaStep
<1>5. /\ k \in Alive /\ handle[k].load < Capacity /\ kitchens[k].phase # "unborn"
      /\ kitchens[k] \in Box
      /\ kitchens'[k] = [kitchens[k] EXCEPT !.orders = Append(@, Packet("Pizza", p))]
      /\ \A j \in KitchenId : j # k => kitchens'[j] = kitchens[j]
  BY <1>3, <1>4, SendPizzaStep DEF Elsewhere
<1>6. /\ kitchens'[k].orders = Append(kitchens[k].orders, Packet("Pizza", p))
      /\ kitchens'[k].results = kitchens[k].results /\ kitchens'[k].phase = kitchens[k].phase
  BY <1>5 DEF Box
<1>7. /\ handle[k] \in Handle /\ handle'[k].alive = handle[k].alive
      /\ handle'[k].load = handle[k].load + 1
      /\ \A j \in KitchenId : j # k => handle'[j] = handle[j]
  BY <1>1, <1>2, <1>3 DEF Types, Handle
<1>8. /\ (k \in Alive)' /\ \A j : ~Awaits(j) /\ ~Awaits(j)'
  BY <1>1, <1>2, <1>5, <1>7 DEF Alive, Awaits
<1>9. Terms(k) = "open" /\ Terms(k)' = "open" /\ Owed(k)' = Owed(k) + 1 /\ Owed(k) < Capacity
  BY <1>1, <1>5, <1>6, <1>7, <1>8 DEF Terms, Owed
<1>10. \A j \in KitchenId : j # k => Kept(j)
  <2> SUFFICES ASSUME NEW j \in KitchenId, j # k
               PROVE  Kept(j)
    OBVIOUS
  <2> QED
    BY <1>1, <1>5, <1>7, <1>8, OthersKept
<1>11. p \notin Dispatched /\ Dispatched' = Dispatched \cup {p}
  BY <1>1, <1>4, TodoOnce DEF Dispatched, Ordered
<1> QED
  BY <1>6, <1>9, <1>10, <1>11, OfferSeen

\* A packet from the kitchen that is visited.
LEMMA HandlePacketSeen ==
    ASSUME IInv, NEW k \in KitchenId, HandlePacket(k)
    PROVE  Promises!TermsNext
<1> DEFINE type == Head(kitchens[k].results).type
           b == kitchens[k]
<1>1. /\ handle[k].alive /\ visit # <<>> /\ k = Head(visit) /\ rpc = "drain"
      /\ b \in Box /\ BoxInv(b) /\ b.results # <<>>
      /\ kitchens'[k] = [b EXCEPT !.results = Tail(@)]
      /\ \A j \in KitchenId : j # k => kitchens'[j] = kitchens[j]
  BY PacketStep DEF Elsewhere
<1>2. Types /\ Handles /\ Loads /\ Control
  BY DEF IInv
<1>3. /\ kitchens'[k].orders = b.orders /\ kitchens'[k].results = Tail(b.results)
      /\ kitchens'[k].phase = b.phase
  BY <1>1 DEF Box
<1>4. /\ k \in Alive /\ b.phase # "unborn" /\ Owed(k) = handle[k].load
  BY <1>1, <1>2, TermsAre
<1>5. /\ handle[k] \in Handle /\ handle[k].load \in Nat
  BY <1>2, Constants DEF Types, Handle
<1>6. type \in {"Done", "Full"} => handle[k].load > 0
  <2> SUFFICES ASSUME type \in {"Done", "Full"}
               PROVE  handle[k].load > 0
    OBVIOUS
  <2>1. handle[k].load = Owes(b)
    BY <1>1, <1>2 DEF Loads
  <2>2. b.results \in Seq(Message(ResultType)) /\ b.orders \in Seq(Message(OrderType))
        /\ b.line \in Seq(Pizza) /\ Cardinality(b.hands) \in Nat
    BY <1>1, BoxFields
  <2>3. /\ Count(b.results, {"Done", "Full"}) = Count(Tail(b.results), {"Done", "Full"}) + 1
        /\ Count(Tail(b.results), {"Done", "Full"}) \in Nat
    <3>1. Tail(b.results) \in Seq(Message(ResultType))
      BY <1>1, <2>2
    <3>2. Count(b.results, {"Done", "Full"}) =
            Count(Tail(b.results), {"Done", "Full"})
            + (IF Head(b.results).type \in {"Done", "Full"} THEN 1 ELSE 0)
      <4> DEFINE q == b.results
                 A == {"Done", "Full"}
      <4>1. q \in Seq(Message(ResultType)) /\ q # <<>>
        BY <1>1, <2>2
      <4> HIDE DEF q, A
      <4>2. Count(q, A) = Count(Tail(q), A) + (IF Head(q).type \in A THEN 1 ELSE 0)
        BY <4>1, QueueCount, SMT
      <4> QED
        BY <4>2 DEF q, A
    <3>3. Count(Tail(b.results), {"Done", "Full"}) \in Nat
      BY <3>1, QueueCount, Zenon
    <3>4. (IF Head(b.results).type \in {"Done", "Full"} THEN 1 ELSE 0) = 1
      OBVIOUS
    <3> QED
      BY <3>2, <3>3, <3>4, Zenon
  <2>4. Count(b.orders, {"Pizza"}) \in Nat /\ Len(b.line) \in Nat
    BY <2>2, QueueCount
  <2>5. PICK r \in {0, 1} : r = IF b.refused = NoPizza THEN 0 ELSE 1
    OBVIOUS
  <2>6. Owes(b) = Count(b.orders, {"Pizza"}) + r + Len(b.line) + Cardinality(b.hands)
                  + (Count(Tail(b.results), {"Done", "Full"}) + 1)
    BY <2>3, <2>5 DEF Owes
  <2>7. ASSUME NEW o \in Nat, NEW l \in Nat, NEW h \in Nat, NEW c \in Nat
        PROVE  o + r + l + h + (c + 1) > 0
    OBVIOUS
  <2>8. Owes(b) > 0
    BY <2>2, <2>3, <2>4, <2>6, <2>7, Zenon
  <2> QED
    BY <2>1, <2>8, Zenon
<1>7. /\ todo' = todo /\ sizes' = sizes /\ visit' = visit /\ duty' = duty /\ roster' = roster
      /\ rpc' # "waitpid" /\ \A j \in KitchenId : j # k => handle'[j] = handle[j]
      /\ type = "Shutdown" => handle'[k].alive = FALSE
      /\ type # "Shutdown" => /\ handle'[k].alive = TRUE
                              /\ handle'[k].load = IF type \in {"Done", "Full"}
                                                   THEN handle[k].load - 1 ELSE handle[k].load
      /\ IF type = "StatusReply" THEN gotReply' = (duty = "status") ELSE gotReply' = gotReply
  <2>1. CASE HandleDone(k) \/ HandleFull(k)
    <3>1. /\ type \in {"Done", "Full"} /\ UNCHANGED <<callVars, roster, sizes>>
          /\ OneLessLoad(k)
      BY <2>1 DEF HandleDone, HandleFull, Gets
    <3>2. handle' = [handle EXCEPT ![k].load = handle[k].load - 1]
      BY <1>2, <1>6, <3>1 DEF OneLessLoad
    <3> QED
      BY <1>1, <1>2, <1>5, <3>1, <3>2 DEF callVars, Types, Handle
  <2>2. CASE HandleCookStatus(k)
    <3>1. /\ type = "CookStatus" /\ UNCHANGED <<callVars, roster, orderVars>>
          /\ handle' = [handle EXCEPT ![k].cooks = @ + 1]
      BY <2>2 DEF HandleCookStatus, Gets
    <3> QED
      BY <1>1, <1>2, <1>5, <3>1 DEF callVars, orderVars, Types, Handle
  <2>3. CASE HandleStatusReply(k)
    <3>1. /\ type = "StatusReply" /\ UNCHANGED <<rpc, duty, visit, todo, roster, orderVars>>
          /\ handle' = [handle EXCEPT ![k].cooks = 0] /\ gotReply' = (duty = "status")
      BY <2>3 DEF HandleStatusReply, Gets
    <3> QED
      BY <1>1, <1>2, <1>5, <3>1 DEF orderVars, Types, Handle
  <2>4. CASE HandleShutdown(k)
    <3>1. /\ type = "Shutdown" /\ UNCHANGED <<duty, visit, gotReply, todo, roster, orderVars>>
          /\ handle' = [handle EXCEPT ![k].alive = FALSE] /\ rpc' = "reap"
      BY <2>4 DEF HandleShutdown, Gets
    <3> QED
      BY <1>1, <1>2, <1>5, <3>1 DEF orderVars, Types, Handle
  <2> QED
    BY <2>1, <2>2, <2>3, <2>4 DEF HandlePacket
<1> HIDE DEF type
<1>8. k \in ToSet(visit)
  BY <1>1, VisitHead DEF ToSet
<1>9. Terms(k) = IF duty = "status" /\ ~gotReply THEN "awaiting" ELSE "open"
  BY <1>1, <1>4, <1>8 DEF Terms, Awaits
<1>10. (k \in Alive)' <=> type # "Shutdown"
  BY <1>4, <1>7 DEF Alive
<1>11. Terms(k)' = IF type = "Shutdown" THEN "over"
                   ELSE IF type = "StatusReply" THEN "open" ELSE Terms(k)
  <2>1. CASE type = "Shutdown"
    BY <1>3, <1>4, <1>10, <2>1 DEF Terms
  <2>2. CASE type = "StatusReply"
    BY <1>1, <1>3, <1>4, <1>7, <1>8, <1>10, <2>2 DEF Terms, Awaits
  <2>3. CASE type \notin {"Shutdown", "StatusReply"}
    BY <1>1, <1>3, <1>4, <1>7, <1>8, <1>9, <1>10, <2>3 DEF Terms, Awaits
  <2> QED
    BY <2>1, <2>2, <2>3
<1>12. Owed(k)' = IF type \in {"Done", "Full"} THEN Owed(k) - 1
                  ELSE IF type = "Shutdown" THEN 0 ELSE Owed(k)
  BY <1>4, <1>7, <1>10 DEF Owed
<1>13. \A j \in KitchenId : j # k => Kept(j)
  <2> SUFFICES ASSUME NEW j \in KitchenId, j # k
               PROVE  Kept(j)
    OBVIOUS
  <2>1. Awaits(j)' <=> Awaits(j)
    BY <1>1, <1>7 DEF Awaits
  <2> QED
    BY <1>1, <1>7, <2>1, OthersKept
<1>14. Dispatched' = Dispatched
  BY <1>7, DispatchedKept
<1>15. Terms(k) \in {"open", "awaiting"}
  BY <1>9
<1>16. type \in {"Done", "Full"} => Owed(k) > 0
  BY <1>4, <1>6
<1> QED
  BY <1>1, <1>3, <1>11, <1>12, <1>13, <1>14, <1>15, <1>16, CollectSeen DEF type

\* What a kitchen's step does at its ends of the two queues.
LEMMA BoxStepMail ==
    ASSUME NEW b \in Box, BoxInv(b), NEW c, BoxStep(b, c)
    PROVE  \/ c.orders = b.orders /\ c.results = b.results
           \/ b.orders # <<>> /\ c.orders = Tail(b.orders) /\ c.results = b.results
           \/ c.orders = b.orders /\ \E m \in Message(ResultType) : c.results = Append(b.results, m)
<1>1. /\ DOMAIN b = {"orders", "results", "line", "hands", "releasing", "refused", "replies",
                     "phase", "used", "tired"}
      /\ b.hands \in SUBSET Pizza /\ b.refused \in Pizza \cup {NoPizza}
  BY DEF Box
<1>2. /\ \A type \in {"CookStatus", "StatusReply", "Shutdown"} : Plain(type) \in Message(ResultType)
      /\ \A p \in Pizza \cup {NoPizza}, type \in {"Full", "Done"} :
            Packet(type, p) \in Message(ResultType)
  BY DEF Plain, Packet, Message, ResultType
<1>3. CASE Accepts(b, c) \/ Refuses(b, c) \/ TakesRequest(b, c) \/ TakesCommand(b, c)
  BY <1>1, <1>3 DEF Accepts, Refuses, TakesRequest, TakesCommand, Has
<1>4. CASE Turns(b, c) \/ Cooks(b, c) \/ Releases(b, c)
  BY <1>1, <1>4 DEF Turns, Cooks, Releases
<1>5. CASE SaysFull(b, c) \/ SaysCookStatus(b, c) \/ SaysFarewell(b, c)
  BY <1>1, <1>2, <1>5 DEF SaysFull, SaysCookStatus, SaysFarewell
<1>6. CASE SaysReply(b, c)
  BY <1>1, <1>2, <1>6 DEF SaysReply
<1>7. CASE Reports(b, c)
  <2>1. PICK p \in b.hands :
          c = [b EXCEPT !.hands = @ \ {p}, !.releasing = @ + 1,
                        !.results = Append(@, Packet("Done", p))]
    BY <1>7 DEF Reports
  <2>2. p \in Pizza
    BY <1>1
  <2> QED
    BY <1>1, <1>2, <2>1, <2>2
<1> QED
  BY <1>3, <1>4, <1>5, <1>6, <1>7 DEF BoxStep

\* A step of a kitchen.
LEMMA ProcessesSeen ==
    ASSUME IInv, Processes
    PROVE  [Promises!TermsNext]_(Promises!contractVars)
<1>1. PICK k \in KitchenId : KitchenStep(k)
  BY DEF Processes
<1>2. /\ rpc' = rpc /\ duty' = duty /\ visit' = visit /\ gotReply' = gotReply /\ todo' = todo
      /\ sizes' = sizes /\ handle' = handle /\ roster' = roster
  BY DEF Processes, callVars, orderVars
<1>3. /\ kitchens[k] \in Box /\ BoxInv(kitchens[k]) /\ BoxStep(kitchens[k], kitchens'[k])
      /\ \A j \in KitchenId : j # k => kitchens'[j] = kitchens[j]
  BY <1>1, ProcessStep DEF IInv, Elsewhere
<1>4. kitchens[k].phase # "unborn" /\ kitchens'[k].phase # "unborn"
  BY <1>3, BoxStepOrders
<1>5. Alive' = Alive /\ \A j : Awaits(j)' <=> Awaits(j)
  BY <1>2 DEF Alive, Awaits
<1>6. Terms(k)' = Terms(k) /\ Owed(k)' = Owed(k)
  BY <1>2, <1>4, <1>5 DEF Terms, Owed
<1>7. ASSUME NEW j \in KitchenId, j # k
      PROVE  Kept(j)
  BY <1>2, <1>3, <1>5, <1>7, OthersKept
<1>8. Dispatched' = Dispatched
  BY <1>2, DispatchedKept
<1>9. \A j \in KitchenId : j # k => Kept(j)
  BY <1>7
<1>10. CASE kitchens'[k].orders = kitchens[k].orders /\ kitchens'[k].results = kitchens[k].results
  <2>1. \A j \in KitchenId : Kept(j)
    BY <1>6, <1>9, <1>10 DEF Kept
  <2> QED
    BY <1>8, <2>1, NothingSeen
<1>11. CASE /\ kitchens[k].orders # <<>> /\ kitchens'[k].orders = Tail(kitchens[k].orders)
            /\ kitchens'[k].results = kitchens[k].results
  BY <1>6, <1>8, <1>9, <1>11, TakesSeen
<1>12. CASE /\ kitchens'[k].orders = kitchens[k].orders
            /\ \E m \in Message(ResultType) : kitchens'[k].results = Append(kitchens[k].results, m)
  <2>1. PICK m \in Message(ResultType) : kitchens'[k].results = Append(kitchens[k].results, m)
    BY <1>12
  <2>2. kitchens[k].results \in Seq(Message(ResultType))
    BY <1>3, BoxFields
  <2> QED
    BY <1>6, <1>8, <1>9, <1>12, <2>1, <2>2, SaysSeen
<1> QED
  BY <1>3, <1>10, <1>11, <1>12, BoxStepMail

\* Every step of the reception and of the kitchens is one of the contract, or
\* nothing that the contract speaks of.
LEMMA PromisesStep ==
    ASSUME IInv, Commanding, [ReceptionNext]_vars
    PROVE  [Promises!TermsNext]_(Promises!contractVars)
<1>1. CASE Customer \/ Poll \/ ReceptionDone
  BY <1>1, PlaceOrderSeen, RequestStatusSeen, OtherQuietSeen DEF Customer
<1>2. CASE \E k \in KitchenId : HandlePacket(k)
  BY <1>2, HandlePacketSeen
<1>3. CASE Reap \/ NextKitchen \/ FinishDraining
  BY <1>3, OtherQuietSeen, NextKitchenSeen, FinishDrainingSeen
<1>4. CASE SpawnKitchen \/ SpawnFails \/ SendPizza \/ FinishDispatch
  BY <1>4, SpawnKitchenSeen, OtherQuietSeen, SendPizzaSeen
<1>5. CASE CommandShutdown \/ WaitForExit \/ FinishShutdown
  BY <1>5, CommandShutdownSeen, WaitForExitSeen, OtherQuietSeen
<1>6. CASE Processes
  BY <1>6, ProcessesSeen
<1>7. CASE UNCHANGED vars
  <2>1. /\ kitchens' = kitchens /\ rpc' = rpc /\ duty' = duty /\ visit' = visit
        /\ gotReply' = gotReply /\ todo' = todo /\ sizes' = sizes /\ handle' = handle
        /\ roster' = roster
    BY <1>7 DEF vars, callVars, orderVars
  <2>2. \A k \in KitchenId : Kept(k)
    BY <2>1 DEF Kept, Terms, Owed, Awaits, Alive
  <2>3. Dispatched' = Dispatched
    BY <2>1, DispatchedKept
  <2> QED
    BY <2>2, <2>3, NothingSeen
<1> QED
  BY <1>1, <1>2, <1>3, <1>4, <1>5, <1>6, <1>7 DEF ReceptionNext, Working

LEMMA PromisesInit ==
    ASSUME ReceptionInit
    PROVE  Commanding /\ Promises!TermsInit
<1>1. /\ duty = "none" /\ todo = <<>> /\ sizes = <<>> /\ roster = {}
      /\ kitchens = [k \in KitchenId |-> Unborn]
  BY DEF ReceptionInit, ContractInit
<1>2. ASSUME NEW k \in KitchenId
      PROVE  /\ kitchens[k].orders = <<>> /\ kitchens[k].results = <<>>
             /\ Terms(k) = "none" /\ Owed(k) = 0
  BY <1>1 DEF Unborn, Terms, Owed, Alive
<1>3. Dispatched = {}
  <2>1. \A p \in Pizza : p[1] \in Nat \ {0}
    BY Constants DEF Pizza, OrderId
  <2>2. Len(sizes) = 0
    BY <1>1
  <2> QED
    BY <2>1, <2>2 DEF Dispatched, Ordered
<1> QED
  BY <1>1, <1>2, <1>3 DEF Commanding, Promises!TermsInit

\* The reception keeps the promises that Kitchen is built on: it sends nothing to
\* a kitchen that has not answered its status request, that was told to shut
\* down or has said its farewell, sends no pizza twice, whatever kitchen it goes to,
\* and gets an answer only for a pizza that it is owed.
THEOREM ReceptionKeepsContract == ReceptionSpec => KeepsReceptionContract
<1>1. ReceptionInit => IInv /\ Commanding /\ Promises!TermsInit
  BY InitIInv, PromisesInit
<1>2. IInv /\ Commanding /\ [ReceptionNext]_vars => IInv' /\ Commanding'
  BY NextIInv, CommandingStep
<1>3. IInv /\ Commanding /\ [ReceptionNext]_vars => [Promises!TermsNext]_(Promises!contractVars)
  BY PromisesStep
<1> QED
  BY <1>1, <1>2, <1>3, PTL DEF ReceptionSpec, KeepsReceptionContract, Promises!TermsSpec
=============================================================================

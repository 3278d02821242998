------------------------------ MODULE Reception ------------------------------
(***************************************************************************)
(* The reception process: main's callbacks and the LoadBalancer, one       *)
(* thread that talks to the kitchens through their message queues.  The    *)
(* kitchens are those of KitchenContract, which module Kitchen implements. *)
(*                                                                         *)
(* The thread is in select() of Shell::run, or inside one call:            *)
(*   dispatch        updateKitchens, then one pizza after the other        *)
(*   updateKitchens  from the 100 ms poll                                  *)
(*   getStatus       from the status command                               *)
(*   shutdown        from ~LoadBalancer, at the end of the input           *)
(* and each message it sends or receives is one action.  A handle that     *)
(* updateKitchens erases leaves the roster; the vector kitchens_ is always *)
(* in the order of the ids, which only grow.                               *)
(***************************************************************************)
EXTENDS Naturals, Sequences, FiniteSets, SequencesExt

CONSTANTS
    NCooks,
    NoPizza,
    MaxKitchens, \* bound: kitchens ever opened
    MaxOrders,   \* bound: orders placed
    MaxSize,     \* bound: pizzas in one order
    MaxStatus,   \* bound: status commands
    MaxWork      \* bound: pizzas ordered and status commands, together

KitchenId == 0 .. MaxKitchens - 1
OrderId == 1 .. MaxOrders
Pizza == OrderId \X (1 .. MaxSize)   \* the i-th pizza of an order

ASSUME ReceptionAssumption ==
    /\ NCooks \in Nat \ {0} /\ MaxStatus \in Nat /\ MaxWork \in Nat
    /\ MaxKitchens \in Nat /\ MaxOrders \in Nat /\ MaxSize \in Nat
    /\ NoPizza \notin Pizza

VARIABLES
    kitchens,     \* the processes and their queues
    rpc,          \* where the thread is
    duty,         \* the call being executed
    visit,        \* handles still to be drained, or to be shut down
    gotReply,     \* gotReply of processPendingKitchen
    todo,         \* pizzas dispatch has still to place
    roster,       \* the ids of the handles in kitchens_
    handle,       \* KitchenHandle: load, alive, pendingCooks
    nextKitchen,  \* nextKitchenId_
    pending,      \* pendingOrders: order id and pizzas still to come
    sizes,        \* history: the size of each order; its length is nextOrderId
    announced,    \* history: the orders given to notifyOrderReady
    ready,        \* history: pizzas whose Done was handled
    dropped,      \* history: pizzas whose Full was handled
    statuses      \* status commands so far

INSTANCE KitchenContract

callVars == <<rpc, duty, visit, gotReply, todo>>
orderVars == <<pending, sizes, announced, ready, dropped>>
vars == <<kitchens, callVars, roster, handle, nextKitchen, orderVars, statuses>>

NewHandle == [load |-> 0, alive |-> TRUE, cooks |-> 0]
NoHandle == [load |-> 0, alive |-> FALSE, cooks |-> 0]

Alive == {k \in roster : handle[k].alive}

InOrder(ids) ==
    LET Place == 1 .. Cardinality(ids) IN
    CHOOSE s \in [Place -> ids] : \A i, j \in Place : i < j => s[i] < s[j]

ReceptionInit ==
    /\ ContractInit
    /\ rpc = "select" /\ duty = "none"
    /\ visit = <<>> /\ gotReply = FALSE /\ todo = <<>>
    /\ roster = {}
    /\ handle = [k \in KitchenId |-> NoHandle]
    /\ nextKitchen = 0
    /\ pending = <<>> /\ sizes = <<>> /\ announced = <<>>
    /\ ready = {} /\ dropped = {}
    /\ statuses = 0

-----------------------------------------------------------------------------
(* The shell's callbacks.                                                  *)

Work == FoldSeq(LAMBDA x, y : x + y, statuses, sizes)

\* The order callback: the order is noted, then dispatch begins, with
\* updateKitchens.
PlaceOrder(n) ==
    /\ rpc = "select"
    /\ Len(sizes) < MaxOrders /\ Work + n <= MaxWork
    /\ LET id == Len(sizes) + 1 IN
        /\ sizes' = Append(sizes, n)
        /\ pending' = Append(pending, [id |-> id, left |-> n])
        /\ todo' = [i \in 1 .. n |-> <<id, i>>]
    /\ rpc' = "drain" /\ duty' = "dispatch"
    /\ visit' = InOrder(roster)
    /\ UNCHANGED <<kitchens, gotReply, roster, handle, nextKitchen, announced,
                   ready, dropped, statuses>>

Poll ==
    /\ rpc = "select"
    /\ rpc' = "drain" /\ duty' = "poll"
    /\ visit' = InOrder(roster)
    /\ UNCHANGED <<kitchens, gotReply, todo, roster, handle, nextKitchen,
                   orderVars, statuses>>

\* requestStatusForAll
RequestStatus ==
    /\ rpc = "select"
    /\ statuses < MaxStatus /\ Work < MaxWork
    /\ statuses' = statuses + 1
    /\ kitchens' = [k \in KitchenId |->
                      IF k \in Alive
                      THEN [kitchens[k] EXCEPT !.orders = Append(@, Plain("StatusRequest"))]
                      ELSE kitchens[k]]
    /\ handle' = [k \in KitchenId |->
                    IF k \in Alive THEN [handle[k] EXCEPT !.cooks = 0] ELSE handle[k]]
    /\ rpc' = "drain" /\ duty' = "status"
    /\ visit' = InOrder(Alive)
    /\ UNCHANGED <<gotReply, todo, roster, nextKitchen, orderVars>>

\* End of input: ~LoadBalancer calls shutdown.
EndOfInput ==
    /\ rpc = "select"
    /\ rpc' = "command" /\ duty' = "shutdown"
    /\ visit' = InOrder(Alive)
    /\ UNCHANGED <<kitchens, gotReply, todo, roster, handle, nextKitchen,
                   orderVars, statuses>>

-----------------------------------------------------------------------------
(* Draining the result queues: updateKitchens and processPendingKitchen.   *)

\* Mutants: the youngest order is served first, or an order is only announced
\* with the pizza after its last.
CountDoneAtBack ==
    IF pending = <<>> THEN UNCHANGED <<pending, announced>>
    ELSE IF pending[Len(pending)].left = 1
         THEN /\ pending' = Front(pending)
              /\ announced' = Append(announced, pending[Len(pending)].id)
         ELSE /\ pending' = [pending EXCEPT ![Len(pending)].left = @ - 1]
              /\ UNCHANGED announced

CountDoneLate ==
    IF pending = <<>> THEN UNCHANGED <<pending, announced>>
    ELSE IF Head(pending).left = 0
         THEN /\ pending' = Tail(pending)
              /\ announced' = Append(announced, Head(pending).id)
         ELSE /\ pending' = [pending EXCEPT ![1].left = @ - 1]
              /\ UNCHANGED announced

\* installDoneCallback: whatever kitchen and pizza it is, a pizza of the
\* oldest pending order is taken to be done.
CountDone ==
    IF pending = <<>> THEN UNCHANGED <<pending, announced>>
    ELSE IF Head(pending).left = 1
         THEN /\ pending' = Tail(pending)
              /\ announced' = Append(announced, Head(pending).id)
         ELSE /\ pending' = [pending EXCEPT ![1].left = @ - 1]
              /\ UNCHANGED announced

\* Mutant: the last pizza is never taken off.
OneLessLoadButOne(k) ==
    handle' = [handle EXCEPT ![k].load = IF @ > 1 THEN @ - 1 ELSE @]

OneLessLoad(k) ==
    handle' = [handle EXCEPT ![k].load = IF @ > 0 THEN @ - 1 ELSE 0]

\* The next packet of the kitchen being drained.
Gets(k, type) ==
    /\ rpc = "drain"
    /\ visit # <<>> /\ k = Head(visit)
    /\ handle[k].alive
    /\ Receive(k)
    /\ Head(kitchens[k].results).type = type

HandleDone(k) ==
    /\ Gets(k, "Done")
    /\ OneLessLoad(k)
    /\ CountDone
    /\ ready' = ready \cup {Head(kitchens[k].results).pizza}
    /\ UNCHANGED <<callVars, roster, nextKitchen, sizes, dropped, statuses>>

\* handleFullPacket only corrects the load.
HandleFull(k) ==
    /\ Gets(k, "Full")
    /\ OneLessLoad(k)
    /\ dropped' = dropped \cup {Head(kitchens[k].results).pizza}
    /\ UNCHANGED <<callVars, roster, nextKitchen, pending, sizes, announced,
                   ready, statuses>>

HandleCookStatus(k) ==
    /\ Gets(k, "CookStatus")
    /\ handle' = [handle EXCEPT ![k].cooks = @ + 1]
    /\ UNCHANGED <<callVars, roster, nextKitchen, orderVars, statuses>>

HandleStatusReply(k) ==
    /\ Gets(k, "StatusReply")
    /\ handle' = [handle EXCEPT ![k].cooks = 0]
    /\ gotReply' = (duty = "status")
    /\ UNCHANGED <<rpc, duty, visit, todo, roster, nextKitchen, orderVars,
                   statuses>>

\* handleShutdownPacket: the handle is dead, and the thread waits for the
\* process.
HandleShutdown(k) ==
    /\ Gets(k, "Shutdown")
    /\ handle' = [handle EXCEPT ![k].alive = FALSE]
    /\ rpc' = "reap"
    /\ UNCHANGED <<duty, visit, gotReply, todo, roster, nextKitchen, orderVars,
                   statuses>>

Ended(k) == kitchens[k].phase \in {"exited", "crashed"}

Reap ==
    /\ rpc = "reap"
    /\ Ended(Head(visit))
    /\ rpc' = "drain"
    /\ UNCHANGED <<kitchens, duty, visit, gotReply, todo, roster, handle,
                   nextKitchen, orderVars, statuses>>

\* Mutants: getStatus does not come back to a kitchen that has not answered, or
\* comes back to a dead one.
NextKitchenAnyway ==
    /\ rpc = "drain" /\ visit # <<>>
    /\ handle[Head(visit)].alive => kitchens[Head(visit)].results = <<>>
    /\ visit' = Tail(visit)
    /\ gotReply' = FALSE
    /\ UNCHANGED <<kitchens, rpc, duty, todo, roster, handle, nextKitchen,
                   orderVars, statuses>>

NextKitchenEvenDead ==
    /\ rpc = "drain" /\ visit # <<>>
    /\ handle[Head(visit)].alive => kitchens[Head(visit)].results = <<>>
    /\ visit' = IF duty = "status" /\ ~gotReply
                THEN Append(Tail(visit), Head(visit)) ELSE Tail(visit)
    /\ gotReply' = FALSE
    /\ UNCHANGED <<kitchens, rpc, duty, todo, roster, handle, nextKitchen,
                   orderVars, statuses>>

\* Nothing more in this queue: updateKitchens goes to the next kitchen;
\* getStatus comes back to this one unless it has answered or is dead.  (The
\* inner loop of the code reads on after a Shutdown; it is the last packet.)
NextKitchen ==
    /\ rpc = "drain" /\ visit # <<>>
    /\ LET k == Head(visit) IN
        /\ handle[k].alive => kitchens[k].results = <<>>
        /\ visit' = IF duty = "status" /\ handle[k].alive /\ ~gotReply
                    THEN Append(Tail(visit), k) ELSE Tail(visit)
    /\ gotReply' = FALSE
    /\ UNCHANGED <<kitchens, rpc, duty, todo, roster, handle, nextKitchen,
                   orderVars, statuses>>

\* The end of updateKitchens erases dead handles; that of getStatus does not.
FinishDraining ==
    /\ rpc = "drain" /\ visit = <<>>
    /\ roster' = IF duty = "status" THEN roster ELSE Alive
    /\ handle' = [k \in KitchenId |-> IF k \in roster' THEN handle[k] ELSE NoHandle]
    /\ rpc' = IF duty = "dispatch" THEN "dispatch" ELSE "select"
    /\ duty' = IF duty = "dispatch" THEN "dispatch" ELSE "none"
    /\ UNCHANGED <<kitchens, visit, gotReply, todo, nextKitchen, orderVars,
                   statuses>>

-----------------------------------------------------------------------------
(* dispatch, after its updateKitchens.                                     *)
WithRoom == {k \in Alive : handle[k].load < Capacity}

\* Mutant: the first with room.
FirstWithRoom == CHOOSE k \in WithRoom : \A j \in WithRoom : k <= j

\* The first of the least loaded.
Best == CHOOSE k \in WithRoom :
          \A j \in WithRoom : \/ handle[k].load < handle[j].load
                              \/ handle[k].load = handle[j].load /\ k <= j

SpawnKitchen ==
    /\ rpc = "dispatch" /\ todo # <<>>
    /\ WithRoom = {}
    /\ nextKitchen \in KitchenId
    /\ Spawn(nextKitchen)
    /\ handle' = [handle EXCEPT ![nextKitchen] = NewHandle]
    /\ roster' = roster \cup {nextKitchen}
    /\ nextKitchen' = nextKitchen + 1
    /\ UNCHANGED <<callVars, orderVars, statuses>>

\* No anchor, queue or process can be had any more: the exception leaves
\* dispatch, handleLine and main's try, and on its way ~LoadBalancer shuts the
\* kitchens down.  The order was noted, and a part of it may have been sent.
SpawnFails ==
    /\ rpc = "dispatch" /\ todo # <<>>
    /\ WithRoom = {}
    /\ nextKitchen' = nextKitchen + 1
    /\ rpc' = "command" /\ duty' = "shutdown"
    /\ visit' = InOrder(Alive)
    /\ UNCHANGED <<kitchens, gotReply, todo, roster, handle, orderVars, statuses>>

\* Mutant: the load is not counted.
SendPizzaUncounted ==
    /\ rpc = "dispatch" /\ todo # <<>>
    /\ WithRoom # {}
    /\ Send(Best, Packet("Pizza", Head(todo)))
    /\ todo' = Tail(todo)
    /\ UNCHANGED <<rpc, duty, visit, gotReply, roster, handle, nextKitchen,
                   orderVars, statuses>>

SendPizza ==
    /\ rpc = "dispatch" /\ todo # <<>>
    /\ WithRoom # {}
    /\ Send(Best, Packet("Pizza", Head(todo)))
    /\ handle' = [handle EXCEPT ![Best].load = @ + 1]
    /\ todo' = Tail(todo)
    /\ UNCHANGED <<rpc, duty, visit, gotReply, roster, nextKitchen, orderVars,
                   statuses>>

FinishDispatch ==
    /\ rpc = "dispatch" /\ todo = <<>>
    /\ rpc' = "select" /\ duty' = "none"
    /\ UNCHANGED <<kitchens, visit, gotReply, todo, roster, handle,
                   nextKitchen, orderVars, statuses>>

-----------------------------------------------------------------------------
(* shutdown, kitchen by kitchen.                                           *)
CommandShutdown ==
    /\ rpc = "command" /\ visit # <<>>
    /\ Send(Head(visit), Plain("Shutdown"))
    /\ rpc' = "waitpid"
    /\ UNCHANGED <<duty, visit, gotReply, todo, roster, handle, nextKitchen,
                   orderVars, statuses>>

WaitForExit ==
    /\ rpc = "waitpid"
    /\ Ended(Head(visit))
    /\ handle' = [handle EXCEPT ![Head(visit)].alive = FALSE]
    /\ visit' = Tail(visit)
    /\ rpc' = "command"
    /\ UNCHANGED <<kitchens, duty, gotReply, todo, roster, nextKitchen,
                   orderVars, statuses>>

FinishShutdown ==
    /\ rpc = "command" /\ visit = <<>>
    /\ rpc' = "done"
    /\ UNCHANGED <<kitchens, duty, visit, gotReply, todo, roster, handle,
                   nextKitchen, orderVars, statuses>>

-----------------------------------------------------------------------------
HandlePacket(k) ==
    \/ HandleDone(k) \/ HandleFull(k)
    \/ HandleCookStatus(k) \/ HandleStatusReply(k)
    \/ HandleShutdown(k)

\* What the thread does inside a call, never waiting for the customer.
Working ==
    \/ \E k \in KitchenId : HandlePacket(k)
    \/ Reap \/ NextKitchen \/ FinishDraining
    \/ SpawnKitchen \/ SpawnFails \/ SendPizza \/ FinishDispatch
    \/ CommandShutdown \/ WaitForExit \/ FinishShutdown

Customer ==
    \/ \E n \in 1 .. MaxSize : PlaceOrder(n)
    \/ RequestStatus
    \/ EndOfInput

Processes ==
    /\ \E k \in KitchenId : KitchenStep(k)
    /\ UNCHANGED <<callVars, roster, handle, nextKitchen, orderVars, statuses>>

ReceptionDone == rpc = "done" /\ UNCHANGED vars

ReceptionNext ==
    Customer \/ Poll \/ Working \/ Processes \/ ReceptionDone

\* The thread goes on inside a call and polls when the customer is silent;
\* the kitchens keep their contract.
ReceptionFairness ==
    /\ WF_vars(Working)
    /\ WF_vars(Poll)
    /\ \A k \in KitchenId : KitchenProgress(k)

ReceptionSpec == ReceptionInit /\ [][ReceptionNext]_vars /\ ReceptionFairness

-----------------------------------------------------------------------------
PacketType == {"Pizza", "StatusRequest", "Shutdown", "Done", "Full",
               "CookStatus", "StatusReply"}

ReceptionTypeOK ==
    /\ \A k \in KitchenId :
        /\ \A i \in DOMAIN kitchens[k].orders : kitchens[k].orders[i].type \in PacketType
        /\ \A i \in DOMAIN kitchens[k].results : kitchens[k].results[i].type \in PacketType
        /\ kitchens[k].line \in Seq(Pizza) /\ kitchens[k].hands \subseteq Pizza
        /\ kitchens[k].releasing \in 0 .. NCooks
        /\ kitchens[k].refused \in Pizza \cup {NoPizza}
        /\ kitchens[k].replies \in 0 .. NCooks + 1
    /\ rpc \in {"select", "drain", "reap", "dispatch", "command", "waitpid", "done"}
    /\ duty \in {"none", "poll", "dispatch", "status", "shutdown"}
    /\ visit \in Seq(KitchenId) /\ gotReply \in BOOLEAN /\ todo \in Seq(Pizza)
    /\ roster \subseteq KitchenId
    /\ handle \in [KitchenId -> [load : 0 .. Capacity, alive : BOOLEAN, cooks : 0 .. NCooks]]
    /\ nextKitchen \in 0 .. MaxKitchens + 1
    /\ \A i \in DOMAIN pending : pending[i] \in [id : OrderId, left : 1 .. MaxSize]
    /\ sizes \in Seq(1 .. MaxSize) /\ announced \in Seq(OrderId)
    /\ ready \subseteq Pizza /\ dropped \subseteq Pizza
    /\ statuses \in 0 .. MaxStatus

Count(q, types) == Cardinality({i \in DOMAIN q : q[i].type \in types})

\* What kitchen k still has to answer for.
Unanswered(k) ==
    Count(kitchens[k].orders, {"Pizza"})
    + (IF kitchens[k].refused = NoPizza THEN 0 ELSE 1)
    + Len(kitchens[k].line) + Cardinality(kitchens[k].hands)
    + Count(kitchens[k].results, {"Done", "Full"})

\* The load the reception keeps for a kitchen it holds for alive is exactly
\* what that kitchen has not answered for yet, across polls, status commands,
\* refusals and the kitchen's own death.
HandleLoadIsExact == \A k \in Alive : handle[k].load = Unanswered(k)

\* The message queues stay small: the 2 x N pizzas a kitchen may owe, one
\* status answer and one farewell.  A packet has 48 bytes: up to 113 cooks,
\* 3 x N + 2 of them fit into the 16384 bytes of a System V queue, and the
\* blocking msgsnd of either side never waits for the other, in particular not
\* while shutdown waits for a kitchen without reading its results.
QueuesBounded ==
    \A k \in KitchenId :
        /\ Len(kitchens[k].results) <= Capacity + (NCooks + 1) + 1
        /\ Len(kitchens[k].orders) <= Capacity + 2

\* When a StatusReply is handled, the statuses of all N cooks have been
\* collected since the request, and none of an earlier one.
StatusRepliesAreComplete ==
    \A k \in Alive :
        kitchens[k].results # <<>> /\ Head(kitchens[k].results).type = "StatusReply"
            => handle[k].cooks = NCooks

\* Between commands no status traffic is left in the queues of a live kitchen:
\* a stale reply can never answer a later request.
StatusIsSynchronous ==
    rpc = "select" =>
        \A k \in Alive :
            /\ Count(kitchens[k].orders, {"StatusRequest"}) = 0
            /\ Count(kitchens[k].results, {"CookStatus", "StatusReply"}) = 0
            /\ kitchens[k].replies = 0

\* A status command gets whole answers, and only its own.
StatusProtocol == StatusRepliesAreComplete /\ StatusIsSynchronous

\* Where a pizza is, in kitchen k and outside: a tag for each place it is found in.
PlacesIn(p, k) ==
    {<<"orders", k, i>> :
        i \in {i \in DOMAIN kitchens[k].orders : kitchens[k].orders[i].pizza = p}}
    \cup {<<"results", k, i>> :
        i \in {i \in DOMAIN kitchens[k].results : kitchens[k].results[i].pizza = p}}
    \cup {<<"line", k, i>> :
        i \in {i \in DOMAIN kitchens[k].line : kitchens[k].line[i] = p}}
    \cup {<<"hands", k, 0>> : x \in {p} \cap kitchens[k].hands}
    \cup {<<"refused", k, 0>> : x \in {p} \cap {kitchens[k].refused}}

PlacesOut(p) ==
    {<<"todo", 0, i>> : i \in {i \in DOMAIN todo : todo[i] = p}}
    \cup {<<"ready", 0, 0>> : x \in {p} \cap ready}
    \cup {<<"dropped", 0, 0>> : x \in {p} \cap dropped}

Places(p) == PlacesOut(p) \cup UNION {PlacesIn(p, k) : k \in KitchenId}

Ordered(p) == p[1] <= Len(sizes) /\ p[2] <= sizes[p[1]]

\* No pizza is duplicated and none evaporates: each pizza ordered is in one
\* place, to be dispatched, in some kitchen's queues or hands, done, or
\* dropped after a refusal.
EachPizzaInOnePlace ==
    \A p \in Pizza : Cardinality(Places(p)) = IF Ordered(p) THEN 1 ELSE 0

\* The pizzas of the first n orders.
FirstPizzas(n) == {p \in Pizza : p[1] <= n /\ p[2] <= sizes[p[1]]}

\* The announcements count pizzas: after orders 1 to k were announced, in
\* this order, as many Done packets have been handled as they had pizzas,
\* and those of the next order still missing are what its entry says.
AnnouncementsCountDone ==
    /\ \A i \in DOMAIN announced : announced[i] = i
    /\ Len(announced) + Len(pending) = Len(sizes)
    /\ Cardinality(ready) =
          Cardinality(FirstPizzas(Len(announced)))
          + IF pending = <<>> THEN 0 ELSE sizes[Len(announced) + 1] - Head(pending).left

\* A pizza never goes to a kitchen while another live one owes fewer, and no
\* kitchen is opened while a live one owes fewer than 2 x N: the reception's
\* loads stand for what the kitchens really hold.
BalancedDispatch ==
    [][\A k \in KitchenId, j \in Alive :
         /\ Unanswered(k)' > Unanswered(k) => Unanswered(j) >= Unanswered(k)
         /\ kitchens[k].phase = "unborn" /\ kitchens[k].phase' # "unborn" =>
                Unanswered(j) >= Capacity
      ]_vars

\* How the reception stands with kitchen k.
Awaits(k) == duty = "status" /\ k \in ToSet(visit) /\ ~(k = Head(visit) /\ gotReply)

Terms(k) ==
    IF kitchens[k].phase = "unborn" THEN "none"
    ELSE IF k \notin Alive THEN "over"
    ELSE IF rpc = "waitpid" /\ k = Head(visit) THEN "commanded"
    ELSE IF Awaits(k) THEN "awaiting" ELSE "open"

Owed(k) == IF k \in Alive THEN handle[k].load ELSE 0

Dispatched == {p \in Pizza : Ordered(p) /\ p \notin ToSet(todo)}

Promises == INSTANCE ReceptionContract WITH
    PizzaAsPacket <- [p \in Pizza |-> Packet("Pizza", p)],
    StatusRequest <- Plain("StatusRequest"), Shutdown <- Plain("Shutdown"),
    orders <- [k \in KitchenId |-> kitchens[k].orders],
    results <- [k \in KitchenId |-> kitchens[k].results],
    terms <- [k \in KitchenId |-> Terms(k)],
    credit <- [k \in KitchenId |-> Owed(k)],
    offered <- Dispatched

\* The reception is what Kitchen takes it to be: no packet to a kitchen that has
\* not answered its status request, nor to one that was told to shut down or
\* has said its farewell, no pizza sent a second time, to whatever kitchen, and no
\* answer but for a pizza that is owed.
KeepsReceptionContract == Promises!TermsSpec

\* No call of the reception hangs: every dispatch, poll, status command and
\* shutdown comes to its end, whenever the kitchens close.
EveryCallReturns == rpc # "select" ~> rpc \in {"select", "done"}

\* A pizza in the order queue of a kitchen that has closed: nobody will read it.
Stranded(p) ==
    \E k \in KitchenId :
        /\ kitchens[k].phase \in {"gone", "exited", "crashed"}
        /\ \E i \in DOMAIN kitchens[k].orders : kitchens[k].orders[i].pizza = p

Lost(p) == p \in dropped \/ Stranded(p)

\* Until the input ends, every order is announced, unless a pizza was refused
\* or sent to a kitchen that was closing: these are the only two ways in which
\* an order can stay unanswered.
OrdersAreAnnounced ==
    \A o \in OrderId :
        o <= Len(sizes) ~> \/ o \in ToSet(announced)
                          \/ \E p \in Pizza : Lost(p)
                          \/ duty = "shutdown"

-----------------------------------------------------------------------------
(***************************************************************************)
(* What the project's specification asks for and the code does not do.     *)
(***************************************************************************)
Pizzas(o) == {<<o, i>> : i \in 1 .. sizes[o]}

\* "When an order is ready" it is announced: an order that is announced has
\* all its pizzas done.
AnnouncedIsReady ==
    \A o \in ToSet(announced) : Pizzas(o) \subseteq ready

\* "The reception MUST open a new kitchen if the existing kitchen can't accept
\* anymore order": a pizza that a kitchen refuses is not dropped.
RefusedIsNotDropped == dropped = {}
=============================================================================

------------------------------- MODULE Kitchen -------------------------------
(***************************************************************************)
(* One kitchen process at the grain of its threads: the main thread        *)
(* (KitchenWorker::run), the cooks (ThreadPool::workerLoop calling         *)
(* Cook::cookPizza), and the thread of the stock; and the reception as     *)
(* this kitchen sees it, at the other ends of the two message queues.      *)
(*                                                                         *)
(* The pool and the stock are the modules ThreadPool and IngredientStock.  *)
(*                                                                         *)
(* Timing.  idleLong stands for now - lastActiveTime >= kIdleTimeout.  The *)
(* five seconds are long against everything a cook does without cooking:   *)
(* they only elapse when every cook is back in its condition variable      *)
(* (TimePasses).  A kitchen is forked for a pizza that is sent at once:    *)
(* they do not elapse before it has arrived either.                        *)
(***************************************************************************)
EXTENDS Naturals, Sequences, FiniteSets

CONSTANTS
    NCooks,
    Pizza, NoPizza,
    Ingredient,
    RecipeOf,      \* what each pizza needs
    InitialStock,
    MaxSizeT,      \* the largest size_t
    MaxTicks,      \* bound: replenishments of the stock
    MaxStatus      \* bound: status requests

Cook == 1 .. NCooks
Recipes == {RecipeOf[p] : p \in Pizza}
MaxCalls == Cardinality(Pizza)

ASSUME KitchenAssumption ==
    /\ NCooks \in Nat \ {0}
    /\ IsFiniteSet(Pizza) /\ NoPizza \notin Pizza
    /\ RecipeOf \in [Pizza -> SUBSET Ingredient]
    /\ InitialStock \in Nat /\ MaxTicks \in Nat /\ MaxStatus \in Nat
    /\ MaxSizeT \in Nat /\ InitialStock + MaxTicks <= MaxSizeT

VARIABLES
    \* the pool
    queue, load, running, phase, cookPc, holding, mutexValid, accepted,
    cooked, quiet,
    \* the stock
    stock, stockPhase, regenPc, clientPc, need, calls, ticks, taken,
    \* cookPizza
    stage,      \* where each cook is in cookPizza
    cookState,  \* Cook::state_
    \* the main thread
    mainPc,
    wantStop,   \* ~running in KitchenWorker::run
    idleLong,   \* kIdleTimeout has elapsed since lastActiveTime
    refused,    \* the pizza for which Full is to be sent
    snapshot,   \* what sendStatusResponse has read so far
    \* the message queues
    orderQ, resultQ,
    \* the reception
    alive,      \* KitchenHandle::alive
    credit,     \* KitchenHandle::load
    offered,    \* pizzas sent to the kitchen
    awaiting,   \* getStatus is waiting for this kitchen
    asked,      \* status requests sent
    commanded,  \* the Shutdown packet was sent
    reported    \* history: pizzas whose Done was sent

Pool == INSTANCE ThreadPool
Stock == INSTANCE IngredientStock WITH Client <- Cook

poolVars == <<queue, load, running, phase, cookPc, holding, mutexValid,
              accepted, cooked, quiet>>
stockVars == <<stock, stockPhase, regenPc, clientPc, need, calls, ticks, taken>>
cookVars == <<stage, cookState, reported>>
mainVars == <<mainPc, wantStop, idleLong, refused, snapshot>>
receptionVars == <<alive, credit, offered, awaiting, asked, commanded>>
kitchenVars == <<poolVars, stockVars, cookVars, mainVars, orderQ, resultQ,
                 receptionVars>>

MaxCapacity == 2 * NCooks

PizzaPacket(p) == [type |-> "Pizza", pizza |-> p]
StatusRequest == [type |-> "StatusRequest"]
Shutdown == [type |-> "Shutdown"]
Done(p) == [type |-> "Done", pizza |-> p]
Full(p) == [type |-> "Full", pizza |-> p]
CookStatus(c, state) == [type |-> "CookStatus", cook |-> c, state |-> state]
StatusReply(n) == [type |-> "StatusReply", load |-> n]

NoSnapshot == [load |-> 0, cooks |-> <<>>]

\* A kitchen that aborted has no threads left.
Running == phase # "aborted"

KitchenInit ==
    /\ Pool!Init
    /\ Stock!StockInit
    /\ stage = [c \in Cook |-> "none"]
    /\ cookState = [c \in Cook |-> "IDLE"]
    /\ reported = {}
    /\ mainPc = "start"
    /\ wantStop = FALSE /\ idleLong = FALSE
    /\ refused = NoPizza
    /\ snapshot = NoSnapshot
    /\ orderQ = <<>> /\ resultQ = <<>>
    /\ alive = TRUE
    /\ credit = 0
    /\ offered = {}
    /\ awaiting = FALSE
    /\ asked = 0
    /\ commanded = FALSE

-----------------------------------------------------------------------------
(***************************************************************************)
(* The main thread: KitchenWorker::run.                                    *)
(***************************************************************************)
StartPool ==
    /\ mainPc = "start"
    /\ Pool!Start
    /\ mainPc' = "receive"
    /\ UNCHANGED <<stockVars, cookVars, wantStop, idleLong, refused, snapshot,
                   orderQ, resultQ, receptionVars>>

ReceivePacket(type) ==
    /\ Running
    /\ mainPc = "receive"
    /\ orderQ # <<>> /\ Head(orderQ).type = type
    /\ orderQ' = Tail(orderQ)

ReceiveNothing ==
    /\ Running
    /\ mainPc = "receive"
    /\ orderQ = <<>>
    /\ mainPc' = "check"
    /\ UNCHANGED <<poolVars, stockVars, cookVars, wantStop, idleLong, refused,
                   snapshot, orderQ, resultQ, receptionVars>>

\* handlePacket on a Pizza the pool accepts: lastActiveTime is now.
AcceptPizza ==
    /\ ReceivePacket("Pizza")
    /\ Pool!AddPizza(Head(orderQ).pizza)
    /\ idleLong' = FALSE
    /\ mainPc' = "check"
    /\ UNCHANGED <<stockVars, cookVars, wantStop, refused, snapshot, resultQ,
                   receptionVars>>

\* addPizza returned false ...
RefusePizza ==
    /\ ReceivePacket("Pizza")
    /\ Pool!IsFull
    /\ refused' = Head(orderQ).pizza
    /\ mainPc' = "refuse"
    /\ UNCHANGED <<poolVars, stockVars, cookVars, wantStop, idleLong, snapshot,
                   resultQ, receptionVars>>

\* ... and the main thread answers Full.
SendFull ==
    /\ Running
    /\ mainPc = "refuse"
    /\ resultQ' = Append(resultQ, Full(refused))
    /\ refused' = NoPizza
    /\ mainPc' = "check"
    /\ UNCHANGED <<poolVars, stockVars, cookVars, wantStop, idleLong, snapshot,
                   orderQ, receptionVars>>

\* sendStatusResponse reads the load first ...
BeginStatus ==
    /\ ReceivePacket("StatusRequest")
    /\ snapshot' = [load |-> load, cooks |-> <<>>]
    /\ mainPc' = "read"
    /\ UNCHANGED <<poolVars, stockVars, cookVars, wantStop, idleLong, refused,
                   resultQ, receptionVars>>

\* Mutant: the status of the last cook is not read.
ReadTooFew ==
    /\ Running
    /\ mainPc = "read"
    /\ LET c == Len(snapshot.cooks) + 1 IN
        /\ snapshot' = [snapshot EXCEPT !.cooks = Append(@, cookState[c])]
        /\ mainPc' = IF c + 1 >= NCooks THEN "reply" ELSE "read"
    /\ UNCHANGED <<poolVars, stockVars, cookVars, wantStop, idleLong, refused,
                   orderQ, resultQ, receptionVars>>

\* ... then each cook's status under that cook's mutex, in their order ...
ReadCook ==
    /\ Running
    /\ mainPc = "read"
    /\ LET c == Len(snapshot.cooks) + 1 IN
        /\ snapshot' = [snapshot EXCEPT !.cooks = Append(@, cookState[c])]
        /\ mainPc' = IF c = NCooks THEN "reply" ELSE "read"
    /\ UNCHANGED <<poolVars, stockVars, cookVars, wantStop, idleLong, refused,
                   orderQ, resultQ, receptionVars>>

\* ... and sends a CookStatus for each of them and then the StatusReply.
SendCookStatus ==
    /\ Running
    /\ mainPc = "reply"
    /\ snapshot.cooks # <<>>
    /\ LET c == NCooks - Len(snapshot.cooks) + 1 IN
        resultQ' = Append(resultQ, CookStatus(c, Head(snapshot.cooks)))
    /\ snapshot' = [snapshot EXCEPT !.cooks = Tail(@)]
    /\ UNCHANGED <<poolVars, stockVars, cookVars, mainPc, wantStop, idleLong,
                   refused, orderQ, receptionVars>>

SendStatusReply ==
    /\ Running
    /\ mainPc = "reply"
    /\ snapshot.cooks = <<>>
    /\ resultQ' = Append(resultQ, StatusReply(snapshot.load))
    /\ snapshot' = NoSnapshot
    /\ mainPc' = "check"
    /\ UNCHANGED <<poolVars, stockVars, cookVars, wantStop, idleLong, refused,
                   orderQ, receptionVars>>

ReceiveShutdown ==
    /\ ReceivePacket("Shutdown")
    /\ wantStop' = TRUE
    /\ mainPc' = "check"
    /\ UNCHANGED <<poolVars, stockVars, cookVars, idleLong, refused, snapshot,
                   resultQ, receptionVars>>

\* Mutant: idleness does not close the kitchen.
CheckNothing ==
    /\ Running
    /\ mainPc = "check"
    /\ mainPc' = IF wantStop THEN "stop" ELSE "receive"
    /\ UNCHANGED <<poolVars, stockVars, cookVars, wantStop, idleLong, refused,
                   snapshot, orderQ, resultQ, receptionVars>>

\* The idle test at the end of each round, and the decision to go on.
CheckIdle ==
    /\ Running
    /\ mainPc = "check"
    /\ idleLong' = (idleLong /\ load = 0)
    /\ wantStop' = (wantStop \/ (idleLong /\ load = 0))
    /\ mainPc' = IF wantStop' THEN "stop" ELSE "receive"
    /\ UNCHANGED <<poolVars, stockVars, cookVars, refused, snapshot, orderQ,
                   resultQ, receptionVars>>

\* Mutant: the pool is stopped but not destroyed.
StopPoolOnly ==
    /\ mainPc = "stop"
    /\ Pool!Stop
    /\ mainPc' = "farewell"
    /\ UNCHANGED <<stockVars, cookVars, wantStop, idleLong, refused, snapshot,
                   orderQ, resultQ, receptionVars>>

\* pool_->stop(); pool_.reset()
StopPool ==
    /\ mainPc = "stop"
    /\ Pool!Stop \/ Pool!Destruction
    /\ mainPc' = IF phase' = "joined" THEN "farewell" ELSE "stop"
    /\ UNCHANGED <<stockVars, cookVars, wantStop, idleLong, refused, snapshot,
                   orderQ, resultQ, receptionVars>>

SendShutdown ==
    /\ mainPc = "farewell"
    /\ resultQ' = Append(resultQ, Shutdown)
    /\ mainPc' = "leave"
    /\ UNCHANGED <<poolVars, stockVars, cookVars, wantStop, idleLong, refused,
                   snapshot, orderQ, receptionVars>>

\* The worker is destroyed, the stock with it, and the process exits.
DestroyStock ==
    /\ mainPc = "leave"
    /\ Stock!CloseStock \/ Stock!StockDestruction
    /\ mainPc' = IF stockPhase' = "dead" THEN "exited" ELSE "leave"
    /\ UNCHANGED <<poolVars, cookVars, wantStop, idleLong, refused, snapshot,
                   orderQ, resultQ, receptionVars>>

\* Mutant: lastActiveTime is not renewed while the cooks are at work.
TimePassesAtWork ==
    /\ mainPc = "receive"
    /\ ~idleLong
    /\ accepted # {}
    /\ idleLong' = TRUE
    /\ UNCHANGED <<poolVars, stockVars, cookVars, mainPc, wantStop, refused,
                   snapshot, orderQ, resultQ, receptionVars>>

\* kIdleTimeout has elapsed since lastActiveTime.
TimePasses ==
    /\ mainPc = "receive"
    /\ ~idleLong
    /\ Pool!AtRest /\ accepted # {}
    /\ idleLong' = TRUE
    /\ UNCHANGED <<poolVars, stockVars, cookVars, mainPc, wantStop, refused,
                   snapshot, orderQ, resultQ, receptionVars>>

-----------------------------------------------------------------------------
(***************************************************************************)
(* The cooks: workerLoop around cookPizza.                                 *)
(***************************************************************************)
InPool(c) ==
    /\ \/ Pool!CookWaits(c) \/ Pool!CookTakes(c) \/ Pool!CookLeaves(c)
       \/ Pool!CookAborts(c)
    /\ UNCHANGED <<stockVars, cookVars, mainVars, orderQ, resultQ, receptionVars>>

\* state_ = COOKING, then the call of waitAndConsumeIngredients.
BeginPizza(c) ==
    /\ Running
    /\ cookPc[c] = "cooking" /\ stage[c] = "none"
    /\ Stock!Ask(c, RecipeOf[holding[c]])
    /\ stage' = [stage EXCEPT ![c] = "stock"]
    /\ cookState' = [cookState EXCEPT ![c] = "COOKING"]
    /\ UNCHANGED <<poolVars, reported, mainVars, orderQ, resultQ, receptionVars>>

InStock(c) ==
    /\ Running
    /\ stage[c] = "stock"
    /\ Stock!WaitForStock(c) \/ Stock!Consume(c)
    /\ stage' = IF clientPc'[c] = "out" THEN [stage EXCEPT ![c] = "bake"] ELSE stage
    /\ UNCHANGED <<poolVars, cookState, reported, mainVars, orderQ, resultQ,
                   receptionVars>>

\* The pizza has baked: Done goes out, before the load is decremented.
SendDone(c) ==
    /\ Running
    /\ stage[c] = "bake"
    /\ resultQ' = Append(resultQ, Done(holding[c]))
    /\ reported' = reported \cup {holding[c]}
    /\ stage' = [stage EXCEPT ![c] = "sent"]
    /\ UNCHANGED <<poolVars, stockVars, cookState, mainVars, orderQ, receptionVars>>

\* Mutant: state_ stays COOKING.
StayCooking(c) ==
    /\ Running
    /\ stage[c] = "sent"
    /\ stage' = [stage EXCEPT ![c] = "settled"]
    /\ UNCHANGED <<poolVars, stockVars, cookState, reported, mainVars, orderQ,
                   resultQ, receptionVars>>

BecomeIdle(c) ==
    /\ Running
    /\ stage[c] = "sent"
    /\ cookState' = [cookState EXCEPT ![c] = "IDLE"]
    /\ stage' = [stage EXCEPT ![c] = "settled"]
    /\ UNCHANGED <<poolVars, stockVars, reported, mainVars, orderQ, resultQ,
                   receptionVars>>

ReleaseLoad(c) ==
    /\ stage[c] = "settled"
    /\ Pool!CookFinishes(c)
    /\ stage' = [stage EXCEPT ![c] = "none"]
    /\ UNCHANGED <<stockVars, cookState, reported, mainVars, orderQ, resultQ,
                   receptionVars>>

\* Either condition wait of a cook may end without a notification.
WakesSpuriously(c) ==
    /\ Running
    /\ \/ Pool!SpuriousWakeup(c) /\ UNCHANGED stockVars
       \/ Stock!SpuriousStockWakeup(c) /\ UNCHANGED poolVars
    /\ UNCHANGED <<cookVars, mainVars, orderQ, resultQ, receptionVars>>

\* The thread of regenLoop.
Replenish ==
    /\ Running
    /\ Stock!RegenStep
    /\ UNCHANGED <<poolVars, cookVars, mainVars, orderQ, resultQ, receptionVars>>

-----------------------------------------------------------------------------
(***************************************************************************)
(* The reception, as far as this kitchen is concerned.                     *)
(***************************************************************************)
\* dispatch sends a pizza to a kitchen with room, by its own count.
OfferPizza(p) ==
    /\ alive /\ ~commanded /\ ~awaiting
    /\ p \notin offered
    /\ credit < MaxCapacity
    /\ orderQ' = Append(orderQ, PizzaPacket(p))
    /\ offered' = offered \cup {p}
    /\ credit' = credit + 1
    /\ UNCHANGED <<poolVars, stockVars, cookVars, mainVars, resultQ, alive,
                   awaiting, asked, commanded>>

\* getStatus, which handles nothing but results until the answer is there.
AskStatus ==
    /\ alive /\ ~commanded /\ ~awaiting
    /\ asked < MaxStatus
    /\ asked' = asked + 1
    /\ awaiting' = TRUE
    /\ orderQ' = Append(orderQ, StatusRequest)
    /\ UNCHANGED <<poolVars, stockVars, cookVars, mainVars, resultQ, alive,
                   credit, offered, commanded>>

\* LoadBalancer::shutdown; no result is read any more.
CommandShutdown ==
    /\ alive /\ ~commanded /\ ~awaiting
    /\ commanded' = TRUE
    /\ orderQ' = Append(orderQ, Shutdown)
    /\ UNCHANGED <<poolVars, stockVars, cookVars, mainVars, resultQ, alive,
                   credit, offered, awaiting, asked>>

\* Mutants: a refusal that is not counted, a death that getStatus does not see.
NoRefusal == {"Done"}
NoDeath == {"StatusReply"}

\* The packets that answer for a pizza, and those getStatus waits for.
Answers == {"Done", "Full"}
EndsWait == {"StatusReply", "Shutdown"}

\* LoadBalancer::handlePacket
CollectResult ==
    /\ alive /\ ~commanded
    /\ resultQ # <<>>
    /\ resultQ' = Tail(resultQ)
    /\ LET type == Head(resultQ).type IN
        /\ credit' = IF type \in Answers /\ credit > 0
                     THEN credit - 1 ELSE credit
        /\ awaiting' = (awaiting /\ type \notin EndsWait)
        /\ alive' = (type # "Shutdown")
    /\ UNCHANGED <<poolVars, stockVars, cookVars, mainVars, orderQ, offered,
                   asked, commanded>>

-----------------------------------------------------------------------------
ReceiveOrder ==
    \/ ReceiveNothing \/ AcceptPizza \/ RefusePizza \/ BeginStatus
    \/ ReceiveShutdown

MainStep ==
    \/ StartPool
    \/ ReceiveOrder
    \/ SendFull
    \/ ReadCook \/ SendCookStatus \/ SendStatusReply
    \/ CheckIdle
    \/ StopPool \/ SendShutdown \/ DestroyStock

CookStep(c) ==
    InPool(c) \/ BeginPizza(c) \/ InStock(c) \/ SendDone(c) \/ BecomeIdle(c)
              \/ ReleaseLoad(c)

ReceptionStep ==
    \/ \E p \in Pizza : OfferPizza(p)
    \/ AskStatus
    \/ CommandShutdown
    \/ CollectResult

KitchenTerminated ==
    /\ mainPc = "exited" \/ phase = "aborted"
    /\ UNCHANGED kitchenVars

KitchenNext ==
    \/ MainStep
    \/ TimePasses
    \/ \E c \in Cook : CookStep(c) \/ WakesSpuriously(c)
    \/ Replenish
    \/ ReceptionStep
    \/ KitchenTerminated

\* Every thread of the kitchen is scheduled fairly; the reception polls its
\* result queues every 100 ms; and time passes.  Nothing makes customers
\* order or the reception shut down.
KitchenFairness ==
    /\ WF_kitchenVars(MainStep)
    /\ \A c \in Cook : WF_kitchenVars(CookStep(c))
    /\ WF_kitchenVars(Replenish)
    /\ WF_kitchenVars(CollectResult)
    /\ SF_kitchenVars(TimePasses)

KitchenSpec == KitchenInit /\ [][KitchenNext]_kitchenVars /\ KitchenFairness

-----------------------------------------------------------------------------
KitchenTypeOK ==
    /\ Pool!TypeOK
    /\ Stock!StockTypeOK
    /\ stage \in [Cook -> {"none", "stock", "bake", "sent", "settled"}]
    /\ cookState \in [Cook -> {"IDLE", "COOKING"}]
    /\ mainPc \in {"start", "receive", "refuse", "read", "reply", "check",
                   "stop", "farewell", "leave", "exited"}
    /\ wantStop \in BOOLEAN /\ idleLong \in BOOLEAN
    /\ refused \in Pizza \cup {NoPizza}
    /\ snapshot.load \in Nat /\ snapshot.cooks \in Seq({"IDLE", "COOKING"})
    /\ \A i \in DOMAIN orderQ :
          orderQ[i] \in {PizzaPacket(p) : p \in Pizza}
                          \cup {StatusRequest, Shutdown}
    /\ \A i \in DOMAIN resultQ :
          resultQ[i].type \in {"Done", "Full", "CookStatus", "StatusReply", "Shutdown"}
    /\ alive \in BOOLEAN /\ awaiting \in BOOLEAN /\ commanded \in BOOLEAN
    /\ credit \in 0 .. MaxCapacity
    /\ asked \in 0 .. MaxStatus
    /\ offered \subseteq Pizza /\ reported \subseteq Pizza

Count(q, types) == Cardinality({i \in DOMAIN q : q[i].type \in types})

\* KitchenHandle::load, which the reception keeps on its own, counts every
\* pizza it sent that it has not been answered for: in the order queue, in
\* the main thread's hands, accepted and not yet reported, or answered by a
\* packet still in the result queue.  It never drifts.
CreditIsExact ==
    credit = Count(orderQ, {"Pizza"})
             + (IF refused = NoPizza THEN 0 ELSE 1)
             + Cardinality(accepted \ reported)
             + Count(resultQ, {"Done", "Full"})

\* A status never shows more cooks cooking than its load, although load and
\* cooks are read one after the other while the cooks go on: the load is read
\* first, only the main thread adds pizzas, and a cook turns idle before it
\* releases its pizza.
StatusIsConsistent ==
    Cardinality({i \in DOMAIN snapshot.cooks : snapshot.cooks[i] = "COOKING"})
        <= snapshot.load

\* The Shutdown packet of a kitchen is its last word: nothing follows it, and
\* every pizza the kitchen accepted was reported before.
FarewellIsFinal ==
    \A i \in DOMAIN resultQ :
        resultQ[i] = Shutdown =>
            i = Len(resultQ) /\ accepted \subseteq reported /\ load = 0

\* Closing for idleness never runs into the pool's destruction order: only a
\* kitchen told to shut down can abort.
OnlyCommandedKitchensAbort == phase = "aborted" => commanded

\* The stock outlives every cook, so that no cook is refused its ingredients
\* (the early return of cookPizza) or left in the stock's condition variable.
StockOutlivesCooks ==
    stockPhase # "open" =>
        \A c \in Cook : cookPc[c] = "gone" /\ clientPc[c] = "out"

\* A kitchen ends in this order: the cooks, then the farewell, then the stock.
EndsInOrder == FarewellIsFinal /\ StockOutlivesCooks

\* A kitchen the reception believes to have room refuses a pizza only while
\* a cook is between sending Done and decrementing the load.
RefusedOnlyInReleaseWindow ==
    [][mainPc' = "refuse" /\ mainPc # "refuse" =>
        \E c \in Cook : stage[c] \in {"sent", "settled"}]_kitchenVars

\* getStatus gets its answer from a kitchen, be it a farewell.
StatusIsAnswered == awaiting ~> ~awaiting

\* Once the orders stop, every kitchen ends: closed for idleness, or on
\* command, or aborted.  The waitpid of the reception always returns.
EveryKitchenEnds == offered # {} ~> mainPc = "exited" \/ phase = "aborted"

-----------------------------------------------------------------------------
(***************************************************************************)
(* The contract this process implements.  The bars hide the statuses'      *)
(* contents and the threads.                                               *)
(***************************************************************************)
PublicPacket(packet) ==
    [type |-> packet.type,
     pizza |-> IF packet.type \in {"Pizza", "Done", "Full"} THEN packet.pizza
               ELSE NoPizza]

PublicQueue(q) == [i \in DOMAIN q |-> PublicPacket(q[i])]

\* The decision to stop is taken when the last packet of the round, or none,
\* is received.
Stopping == wantStop \/ (idleLong /\ mainPc = "check")

PublicPhase ==
    CASE phase = "aborted"  -> "crashed"
      [] mainPc = "start"   -> "unborn"
      [] mainPc = "exited"  -> "exited"
      [] mainPc = "leave"   -> "gone"
      [] Running /\ Stopping /\ mainPc \notin {"leave", "exited"} ->
            IF commanded /\ Count(orderQ, {"Shutdown"}) = 0
            THEN "ordered" ELSE "idle"
      [] OTHER -> "open"

PublicKitchen ==
    [orders    |-> PublicQueue(orderQ),
     results   |-> PublicQueue(resultQ),
     line      |-> queue,
     hands     |-> {holding[c] : c \in Cook} \ (reported \cup {NoPizza}),
     releasing |-> Cardinality({c \in Cook : stage[c] \in {"sent", "settled"}}),
     refused   |-> refused,
     replies   |-> IF mainPc = "read" THEN NCooks + 1
                   ELSE IF mainPc = "reply" THEN Len(snapshot.cooks) + 1 ELSE 0,
     phase     |-> PublicPhase,
     used      |-> accepted # {},
     tired     |-> idleLong]

Contract == INSTANCE KitchenContract
    WITH KitchenId <- {0}, kitchens <- [k \in {0} |-> PublicKitchen]

\* Every step of the process is a step of the contract the reception relies
\* on, or changes nothing the reception could see.
ImplementsContract == Contract!ContractSafety

\* And it does what the contract's fairness promises: with finitely many
\* orders, weak fairness of an action means that it is disabled again and
\* again.
KeepsContractPromises ==
    /\ []<>~Contract!CanServe(0)
    /\ []<>~Contract!CanLeave(0)
    /\ []<>~Contract!CanCook(0)
    /\ \A p \in Pizza : []<>~Contract!CanReport(0, p)
    /\ []<>~Contract!CanRelease(0)
=============================================================================

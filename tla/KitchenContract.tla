--------------------------- MODULE KitchenContract ---------------------------
(***************************************************************************)
(* What a kitchen process promises to the reception: its two message       *)
(* queues, and between them a box that takes pizzas and reports them.      *)
(*                                                                         *)
(* Module Kitchen implements this contract for one kitchen; module         *)
(* Reception uses it for all of them.  kitchens[k] is a record:            *)
(*   orders, results  the message queues                                   *)
(*   line             pizzas accepted, waiting for a cook                  *)
(*   hands            pizzas taken by a cook and not reported yet          *)
(*   releasing        cooks between sending Done and decrementing _load    *)
(*   refused          the pizza for which Full is to be sent               *)
(*   replies          packets of a status answer still to be sent          *)
(*   phase            "unborn", then "open" while KitchenWorker::run loops,*)
(*                    "idle" or "ordered" once it stops for idleness or on *)
(*                    command, "gone" after its farewell, "exited", or     *)
(*                    "crashed"                                            *)
(*   used             TRUE once a pizza was accepted: the first one is sent *)
(*                    right after the fork, and five idle seconds do not   *)
(*                    elapse before                                        *)
(*   tired            five seconds have passed without work                *)
(***************************************************************************)
EXTENDS Naturals, Sequences, FiniteSets

CONSTANTS KitchenId, Pizza, NoPizza, NCooks

VARIABLE kitchens

Capacity == 2 * NCooks

Packet(type, p) == [type |-> type, pizza |-> p]
Plain(type) == Packet(type, NoPizza)

Unborn ==
    [orders |-> <<>>, results |-> <<>>, line |-> <<>>, hands |-> {},
     releasing |-> 0, refused |-> NoPizza, replies |-> 0,
     phase |-> "unborn", used |-> FALSE, tired |-> FALSE]

\* Cooks that have not released their pizza yet, and _load.
Busy(k) == Cardinality(kitchens[k].hands) + kitchens[k].releasing
Load(k) == Len(kitchens[k].line) + Busy(k)

ContractInit == kitchens = [k \in KitchenId |-> Unborn]

-----------------------------------------------------------------------------
(* The reception's ends of the queues, and the fork.                       *)
Spawn(k) ==
    /\ kitchens[k].phase = "unborn"
    /\ kitchens' = [kitchens EXCEPT ![k].phase = "open"]

Send(k, packet) ==
    kitchens' = [kitchens EXCEPT ![k].orders = Append(@, packet)]

Receive(k) ==
    /\ kitchens[k].results # <<>>
    /\ kitchens' = [kitchens EXCEPT ![k].results = Tail(@)]

-----------------------------------------------------------------------------
(* The main thread.                                                        *)
Takes(k, type) ==
    /\ kitchens[k].phase = "open"
    /\ kitchens[k].refused = NoPizza /\ kitchens[k].replies = 0
    /\ kitchens[k].orders # <<>>
    /\ Head(kitchens[k].orders).type = type

\* Mutant: a refused pizza stays in the order queue.
TakePizzaUnpopped(k) ==
    /\ Takes(k, "Pizza")
    /\ LET p == Head(kitchens[k].orders).pizza IN
        kitchens' = IF Load(k) < Capacity
                    THEN [kitchens EXCEPT ![k].orders = Tail(@),
                                          ![k].line = Append(@, p),
                                          ![k].used = TRUE, ![k].tired = FALSE]
                    ELSE [kitchens EXCEPT ![k].refused = p]

TakePizza(k) ==
    /\ Takes(k, "Pizza")
    /\ LET p == Head(kitchens[k].orders).pizza IN
        kitchens' = IF Load(k) < Capacity
                    THEN [kitchens EXCEPT ![k].orders = Tail(@),
                                          ![k].line = Append(@, p),
                                          ![k].used = TRUE, ![k].tired = FALSE]
                    ELSE [kitchens EXCEPT ![k].orders = Tail(@),
                                          ![k].refused = p]

SayFull(k) ==
    /\ kitchens[k].phase = "open"
    /\ kitchens[k].refused # NoPizza
    /\ kitchens' = [kitchens EXCEPT
                      ![k].results = Append(@, Packet("Full", kitchens[k].refused)),
                      ![k].refused = NoPizza]

\* Mutant: the status of one cook is missing.
TakeStatusRequestShort(k) ==
    /\ Takes(k, "StatusRequest")
    /\ kitchens' = [kitchens EXCEPT ![k].orders = Tail(@), ![k].replies = NCooks]

TakeStatusRequest(k) ==
    /\ Takes(k, "StatusRequest")
    /\ kitchens' = [kitchens EXCEPT ![k].orders = Tail(@),
                                    ![k].replies = NCooks + 1]

\* One packet for each cook, then the reply, and the idle test of that round.
SayStatus(k) ==
    /\ kitchens[k].phase = "open"
    /\ kitchens[k].replies > 0
    /\ LET type == IF kitchens[k].replies = 1 THEN "StatusReply" ELSE "CookStatus" IN
        kitchens' = [kitchens EXCEPT ![k].results = Append(@, Plain(type)),
                                     ![k].replies = @ - 1,
                                     ![k].phase = IF type = "StatusReply" /\ kitchens[k].tired
                                                  THEN "idle" ELSE @]

TakeShutdown(k) ==
    /\ Takes(k, "Shutdown")
    /\ kitchens' = [kitchens EXCEPT ![k].orders = Tail(@), ![k].phase = "ordered"]

\* kIdleTimeout elapses.
Tire(k) ==
    /\ kitchens[k].phase = "open"
    /\ kitchens[k].refused = NoPizza /\ kitchens[k].replies = 0
    /\ Load(k) = 0 /\ kitchens[k].used
    /\ kitchens' = [kitchens EXCEPT ![k].tired = TRUE]

\* A tired kitchen that finds no order closes; what is sent from now on will
\* never be read.
CloseIdle(k) ==
    /\ kitchens[k].phase = "open"
    /\ kitchens[k].refused = NoPizza /\ kitchens[k].replies = 0
    /\ kitchens[k].tired
    /\ kitchens[k].orders = <<>>
    /\ kitchens' = [kitchens EXCEPT ![k].phase = "idle"]

Farewell(k) ==
    /\ kitchens[k].phase \in {"idle", "ordered"}
    /\ Load(k) = 0
    /\ kitchens' = [kitchens EXCEPT ![k].results = Append(@, Plain("Shutdown")),
                                    ![k].phase = "gone"]

Exit(k) ==
    /\ kitchens[k].phase = "gone"
    /\ kitchens' = [kitchens EXCEPT ![k].phase = "exited"]

\* The destruction of the pool may abort the process when it was told to shut
\* down while a cook was outside its condition variable.
Crash(k) ==
    /\ kitchens[k].phase = "ordered"
    /\ kitchens' = [kitchens EXCEPT ![k].phase = "crashed"]

-----------------------------------------------------------------------------
(* The cooks.                                                              *)
Works(k) == kitchens[k].phase \in {"open", "idle", "ordered"}

\* First come, first served.
Cook(k) ==
    /\ Works(k)
    /\ kitchens[k].line # <<>> /\ Busy(k) < NCooks
    /\ kitchens' = [kitchens EXCEPT ![k].line = Tail(@),
                                    ![k].hands = @ \cup {Head(kitchens[k].line)}]

ReportDone(k, p) ==
    /\ Works(k)
    /\ p \in kitchens[k].hands
    /\ kitchens' = [kitchens EXCEPT ![k].hands = @ \ {p},
                                    ![k].releasing = @ + 1,
                                    ![k].results = Append(@, Packet("Done", p))]

Release(k) ==
    /\ Works(k)
    /\ kitchens[k].releasing > 0
    /\ kitchens' = [kitchens EXCEPT ![k].releasing = @ - 1]

-----------------------------------------------------------------------------
\* What the main thread goes on to do by itself.
Serve(k) ==
    \/ TakePizza(k) \/ SayFull(k)
    \/ TakeStatusRequest(k) \/ SayStatus(k)
    \/ TakeShutdown(k)

Leave(k) == Farewell(k) \/ Exit(k)

\* When they can: the state predicates ENABLED Serve(k) and so on.
CanServe(k) ==
    \/ \E type \in {"Pizza", "StatusRequest", "Shutdown"} : Takes(k, type)
    \/ kitchens[k].phase = "open" /\ kitchens[k].refused # NoPizza
    \/ kitchens[k].phase = "open" /\ kitchens[k].replies > 0

CanLeave(k) ==
    \/ kitchens[k].phase \in {"idle", "ordered"} /\ Load(k) = 0
    \/ kitchens[k].phase = "gone"

CanCook(k) == Works(k) /\ kitchens[k].line # <<>> /\ Busy(k) < NCooks

CanReport(k, p) == Works(k) /\ p \in kitchens[k].hands

CanRelease(k) == Works(k) /\ kitchens[k].releasing > 0

KitchenStep(k) ==
    \/ Serve(k)
    \/ Tire(k)
    \/ CloseIdle(k)
    \/ Leave(k)
    \/ Crash(k)
    \/ Cook(k)
    \/ \E p \in kitchens[k].hands : ReportDone(k, p)
    \/ Release(k)

ContractNext ==
    \E k \in KitchenId :
        \/ KitchenStep(k)
        \/ Spawn(k)
        \/ \E p \in Pizza : Send(k, Packet("Pizza", p))
        \/ Send(k, Plain("StatusRequest"))
        \/ Send(k, Plain("Shutdown"))
        \/ Receive(k)

ContractSafety == ContractInit /\ [][ContractNext]_kitchens

\* A kitchen answers, cooks, and leaves once it has begun to; how long it
\* stays open with nothing to do is up to the clock.
KitchenProgress(k) ==
    /\ WF_kitchens(Serve(k))
    /\ WF_kitchens(Leave(k))
    /\ WF_kitchens(Cook(k))
    /\ \A p \in Pizza : WF_kitchens(ReportDone(k, p))
    /\ WF_kitchens(Release(k))

ContractSpec == ContractSafety /\ \A k \in KitchenId : KitchenProgress(k)
=============================================================================

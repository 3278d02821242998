--------------------------- MODULE ReceptionContract ---------------------------
(***************************************************************************)
(* What the reception promises to the kitchens: the other half of          *)
(* KitchenContract.  Module Kitchen is checked and proved with a reception *)
(* that keeps these promises (its OfferPizza, AskStatus, CommandShutdown   *)
(* and CollectResult), and module Reception keeps them.                    *)
(*                                                                         *)
(* terms[k] says how the reception stands with kitchen k:                  *)
(*   "none"       not opened yet                                           *)
(*   "open"       it may send a pizza, ask for a status, or command the    *)
(*                shutdown                                                 *)
(*   "awaiting"   it has asked, and sends nothing until the answer is there *)
(*   "commanded"  it waits for the end of the process, and reads nothing   *)
(*   "over"       it will neither send nor read again                      *)
(***************************************************************************)
EXTENDS Naturals, Sequences, SequencesExt

CONSTANTS KitchenId, Pizza, Capacity, PizzaAsPacket, StatusRequest, Shutdown

VARIABLES
    orders, results, \* the message queues
    terms,
    credit,          \* pizzas sent to a kitchen and not answered
    offered          \* pizzas sent, to any kitchen

contractVars == <<orders, results, terms, credit, offered>>

Answers == {"Done", "Full"}

TermsInit ==
    /\ orders = [k \in KitchenId |-> <<>>]
    /\ results = [k \in KitchenId |-> <<>>]
    /\ terms \in [KitchenId -> {"none", "open"}]
    /\ credit = [k \in KitchenId |-> 0]
    /\ offered = {}

Open(k) ==
    /\ terms[k] = "none"
    /\ terms' = [terms EXCEPT ![k] = "open"]
    /\ UNCHANGED <<orders, results, credit, offered>>

\* A pizza is sent once, to one kitchen, with room.
Offer(k, p) ==
    /\ terms[k] = "open"
    /\ p \notin offered
    /\ credit[k] < Capacity
    /\ orders' = [orders EXCEPT ![k] = Append(@, PizzaAsPacket[p])]
    /\ credit' = [credit EXCEPT ![k] = @ + 1]
    /\ offered' = offered \cup {p}
    /\ UNCHANGED <<results, terms>>

\* Kitchens are asked together, and then heard one after the other.
Ask(asked) ==
    /\ \A k \in asked : terms[k] = "open"
    /\ orders' = [k \in KitchenId |-> IF k \in asked THEN Append(orders[k], StatusRequest)
                                      ELSE orders[k]]
    /\ terms' = [k \in KitchenId |-> IF k \in asked THEN "awaiting" ELSE terms[k]]
    /\ UNCHANGED <<results, credit, offered>>

Command(k) ==
    /\ terms[k] = "open"
    /\ orders' = [orders EXCEPT ![k] = Append(@, Shutdown)]
    /\ terms' = [terms EXCEPT ![k] = "commanded"]
    /\ UNCHANGED <<results, credit, offered>>

\* An answer is for a pizza that was owed; the farewell ends everything.
Collect(k) ==
    /\ terms[k] \in {"open", "awaiting"}
    /\ results[k] # <<>>
    /\ results' = [results EXCEPT ![k] = Tail(@)]
    /\ LET type == Head(results[k]).type IN
        /\ type \in Answers => credit[k] > 0
        /\ credit' = [credit EXCEPT ![k] = IF type \in Answers THEN @ - 1
                                           ELSE IF type = "Shutdown" THEN 0 ELSE @]
        /\ terms' = [terms EXCEPT ![k] = IF type = "Shutdown" THEN "over"
                                         ELSE IF type = "StatusReply" THEN "open" ELSE @]
    /\ UNCHANGED <<orders, offered>>

\* The process that was commanded has ended.
Part(k) ==
    /\ terms[k] = "commanded"
    /\ terms' = [terms EXCEPT ![k] = "over"]
    /\ credit' = [credit EXCEPT ![k] = 0]
    /\ UNCHANGED <<orders, results, offered>>

ReceptionStep(k) ==
    \/ Open(k)
    \/ \E p \in Pizza : Offer(k, p)
    \/ Command(k) \/ Collect(k) \/ Part(k)

\* The kitchen at the other ends of its queues.
KitchenTakes(k) ==
    /\ orders[k] # <<>>
    /\ orders' = [orders EXCEPT ![k] = Tail(@)]
    /\ UNCHANGED <<results, terms, credit, offered>>

KitchenSays(k) ==
    /\ results'[k] # <<>>
    /\ results' = [results EXCEPT ![k] = Append(@, Last(results'[k]))]
    /\ UNCHANGED <<orders, terms, credit, offered>>

TermsNext ==
    \/ \E k \in KitchenId : ReceptionStep(k) \/ KitchenTakes(k) \/ KitchenSays(k)
    \/ \E asked \in SUBSET KitchenId : Ask(asked)

TermsSpec == TermsInit /\ [][TermsNext]_contractVars
=============================================================================

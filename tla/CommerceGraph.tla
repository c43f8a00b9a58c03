--------------------------- MODULE CommerceGraph ---------------------------
(***************************************************************************)
(* createCommerceGraph(): one cart edited by the React island and read by  *)
(* the Vue island, a quote and a stock check fetched for it, and the       *)
(* checkout computed from the three.  The quote and the check are dropped  *)
(* when they are fetched again (keepPreviousValueOnPending is false), and  *)
(* carry the key of the request they answer, which the checkout compares.  *)
(*                                                                         *)
(* normalizeCart keeps the cart in catalog order and without empty lines,  *)
(* so a cart is the quantity of each item.  A request key holds the        *)
(* account, the region and the cart: it is the request.  The amounts       *)
(* follow from the request that was quoted, which stands for them.  Delays *)
(* are left to chance, events and the copies made for readers left out.    *)
(***************************************************************************)
EXTENDS InputResource, Integers

CONSTANTS Accounts, Entitled,   \* those whose checkoutEnabled is set
          Regions, Items,
          Stock,                \* inventoryByRegion
          MaxQuantity,          \* 9 in the source
          FirstAccount, FirstRegion,
          MaxActions            \* bound: actions of the graph

VARIABLES account, region, cart,   \* the signals
          pricing, inventory,      \* the resources: the value is the request that was answered
          scheduled,               \* both effects wait for the flush
          cartOwner,               \* history: the account that was selected when the cart was last filled
          actions

vars == <<account, region, cart, pricing, inventory, scheduled, cartOwner, actions>>

Keep == FALSE \* keepPreviousValueOnPending of both

EmptyCart == [i \in Items |-> 0]
Request == [account |-> account, region |-> region, cart |-> cart]

-----------------------------------------------------------------------------
(* What is computed *)

AllAvailable(r) == \A i \in Items : r.cart[i] <= Stock[r.region][i]

Matches(resource) == resource.value = Request

BlockedReason ==
  IF cart = EmptyCart THEN "Cart is empty"
  ELSE IF ~Matches(pricing) THEN "Pricing is pending"
  ELSE IF ~Matches(inventory) THEN "Inventory is pending"
  ELSE IF ~AllAvailable(inventory.value) THEN "Some cart items are unavailable"
  ELSE IF account \notin Entitled THEN "Account entitlement blocks checkout"
  ELSE "none"

CanCheckout == BlockedReason = "none"

\* The quote the total of the checkout is taken from, in the React island too.
Quoted == IF BlockedReason \in {"Cart is empty", "Pricing is pending"} THEN Nothing ELSE pricing.value

-----------------------------------------------------------------------------
(* The actions of the graph *)

Init ==
  /\ account = FirstAccount /\ region = FirstRegion /\ cart = EmptyCart
  /\ pricing = Created(Request) /\ inventory = Created(Request)
  /\ scheduled = FALSE /\ cartOwner = FirstAccount /\ actions = 0

Action == actions < MaxActions /\ actions' = actions + 1 /\ UNCHANGED <<pricing, inventory>>

\* A list is a new list, even when it has the same lines.
SetCart(c) == cart' = c /\ scheduled' = TRUE

Capped(q) == IF q < 0 THEN 0 ELSE IF q > MaxQuantity THEN MaxQuantity ELSE q

\* Mutant of SelectAccount: the cart stays.
SelectAccountOnly(a) ==
  /\ Action
  /\ account' = a /\ scheduled' = TRUE
  /\ UNCHANGED <<region, cart, cartOwner>>

SelectAccount(a) ==
  /\ Action
  /\ account' = a /\ SetCart(EmptyCart)
  /\ UNCHANGED <<region, cartOwner>>

SelectRegion(r) ==
  /\ Action
  /\ region' = r /\ scheduled' = (scheduled \/ r # region)
  /\ UNCHANGED <<account, cart, cartOwner>>

AddItem(i) ==
  /\ Action
  /\ SetCart([cart EXCEPT ![i] = Capped(@ + 1)])
  /\ cartOwner' = account
  /\ UNCHANGED <<account, region>>

RemoveItem(i) ==
  /\ Action
  /\ SetCart([cart EXCEPT ![i] = 0])
  /\ UNCHANGED <<account, region, cartOwner>>

\* An item that is not in the cart is not put there.
ChangeQuantity(i, q) ==
  /\ Action
  /\ SetCart([cart EXCEPT ![i] = IF @ = 0 THEN 0 ELSE Capped(q)])
  /\ UNCHANGED <<account, region, cartOwner>>

ClearCart ==
  /\ Action
  /\ SetCart(EmptyCart)
  /\ UNCHANGED <<account, region, cartOwner>>

-----------------------------------------------------------------------------
(* The flush and the answers *)

Flush ==
  /\ scheduled /\ scheduled' = FALSE
  /\ pricing' = RunAgain(pricing, Request, Keep)
  /\ inventory' = RunAgain(inventory, Request, Keep)
  /\ UNCHANGED <<account, region, cart, cartOwner, actions>>

PricingAnswers ==
  /\ ~scheduled /\ pricing.pending
  /\ pricing' = Answered(pricing, pricing.input)
  /\ UNCHANGED <<account, region, cart, inventory, scheduled, cartOwner, actions>>

InventoryAnswers ==
  /\ ~scheduled /\ inventory.pending
  /\ inventory' = Answered(inventory, inventory.input)
  /\ UNCHANGED <<account, region, cart, pricing, scheduled, cartOwner, actions>>

-----------------------------------------------------------------------------
Actions == \/ \E a \in Accounts : SelectAccount(a)
           \/ \E r \in Regions : SelectRegion(r)
           \/ \E i \in Items : \/ AddItem(i) \/ RemoveItem(i)
                               \/ \E q \in -1 .. (MaxQuantity + 1) : ChangeQuantity(i, q)
           \/ ClearCart
Next == Actions \/ Flush \/ PricingAnswers \/ InventoryAnswers

Spec == Init /\ [][Next]_vars

-----------------------------------------------------------------------------
(* Properties *)

\* A checkout is allowed only for what is on the screen: the amount is that of
\* this account, region and cart, the stock of this region suffices, and the
\* cart was filled for this account; also between an action and its flush,
\* when both resources still hold the answers to an older request.
CheckoutIsForThisCart ==
  CanCheckout => /\ Quoted = Request
                 /\ \A i \in Items : cart[i] <= Stock[region][i]
                 /\ account \in Entitled /\ cartOwner = account
=============================================================================

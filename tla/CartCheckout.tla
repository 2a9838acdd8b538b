---------------------------- MODULE CartCheckout ----------------------------
(***************************************************************************)
(* One cart of one client, from the confirmation on the cart screen to the *)
(* order and its payment intent.  The screen and the functions of it that  *)
(* outlive it are src/apps/app-client/src/features/cart-checkout; the      *)
(* server is Checkout of the cart service with the transaction of          *)
(* order_checkout.go; the payment intent is WLT's.  An attempt is stored   *)
(* on the phone before its request leaves, and the server may run several  *)
(* copies of one request.                                                  *)
(***************************************************************************)
EXTENDS Naturals, FiniteSets

CONSTANTS Price,      \* the totals the server may compute
          Copy,       \* bound: requests on their way or at the server
          MaxAttempt, \* bound: attempts the client confirms
          MaxEdits,   \* bound: changes of price, cart, store and wallet
          MaxFaults,  \* bound: crashes, lost messages and unknown outcomes
          Reopen      \* the screen may be reopened over a running checkout

ASSUME BoundsAssumption ==
  /\ Price \subseteq Nat \ {0} /\ IsFiniteSet(Copy) /\ Reopen \in BOOLEAN
  /\ MaxAttempt \in Nat /\ MaxEdits \in Nat /\ MaxFaults \in Nat

VARIABLES
  owner,     \* the client whose cart this is is signed in
  screen,    \* the mounted screen: view, shown cart version, quoted total
  run,       \* run[a]: an activity (load or checkout) inside an await
  stored,    \* the attempt in the secure store, 0 if none
  confirmed, \* confirmed[k]: total and cart version the client accepted, and
             \*   whether the server takes the note of the request
  net,       \* net[c]: a copy of a checkout request
  cart,      \* the server's cart: open, version
  price,     \* the total the server computes now
  accepting, \* the store accepts orders
  wlt,       \* what WLT makes of a new payment intent
  orders,    \* committed orders: attempt, total
  intent,    \* intent[k]: WLT's payment intent of attempt k
  edits, faults,
  overtaken  \* history: a copy was refused while another one was running

phone == <<owner, screen, run, stored, confirmed>>
shop == <<cart, price, accepting, wlt>>
count == <<edits, faults>>
vars == <<owner, screen, run, stored, confirmed, net, cart, price, accepting, wlt,
          orders, intent, edits, faults, overtaken>>

----------------------------------------------------------------------------
(* cur is the activity of the mounted screen; old one is left behind by a  *)
(* screen that is gone.                                                    *)

Activity == {"cur", "old"}
Attempt == 1..MaxAttempt
NoScreen == [view |-> "none", ver |-> 0, total |-> 0]
Idle == [pc |-> "idle", kind |-> "none", key |-> 0, why |-> "none"]
Free == [st |-> "free", key |-> 0, to |-> "none", why |-> "none"]

(* definitiveCheckoutRejection: the codes after which the attempt is over. *)
(* "refused" stands for every code of that list.  Outside it are "closed"  *)
(* (STORE_NOT_ACCEPTING_ORDERS), "note" (INVALID_CUSTOMER_NOTE), "unknown" *)
(* (CHECKOUT_OUTCOME_UNKNOWN, WLT_PAYMENT_UNAVAILABLE and                  *)
(* DSH_STORAGE_UNAVAILABLE) and "lost", the lack of an answer.             *)
Definitive == {"refused", "reconciled"}
Answers == Definitive \union {"order", "closed", "note", "unknown"}

Ordered(k) == \E o \in orders : o.key = k
Waiting(a, c) == run[a].pc = "wait" /\ net[c].to = a
Quiet(a) == run[a] = Idle
Listened(a) == \E c \in Copy : net[c].to = a

Running(k) == \E c \in Copy : net[c].key = k /\ net[c].st \in {"sent", "resolved", "held", "paid", "undo"}

Screen == [view : {"none", "loading", "ready", "empty", "pending", "done", "error"},
           ver : Nat, total : Price \union {0}]
Op == [pc : {"idle", "read", "order", "cart", "prepare", "kept", "wait", "readback"},
       kind : {"none", "load", "checkout"}, key : 0..MaxAttempt,
       why : Answers \union {"none", "lost"}]
Request == [st : {"free", "sent", "resolved", "held", "paid", "undo", "answered"},
            key : 0..MaxAttempt, to : Activity \union {"none"},
            why : Answers \union {"none"}]

TypeOK ==
  /\ owner \in BOOLEAN /\ accepting \in BOOLEAN
  /\ screen \in Screen
  /\ run \in [Activity -> Op]
  /\ stored \in 0..MaxAttempt
  /\ confirmed \in [Attempt -> [total : Price \union {0}, ver : Nat, note : BOOLEAN]]
  /\ net \in [Copy -> Request]
  /\ cart \in [open : BOOLEAN, ver : Nat \ {0}]
  /\ price \in Price /\ wlt \in {"takes", "short", "refuses"}
  /\ orders \subseteq [key : Attempt, total : Price]
  /\ intent \in [Attempt -> {"none", "collect", "cancelled"}]
  /\ edits \in 0..MaxEdits /\ faults \in 0..MaxFaults
  /\ overtaken \in BOOLEAN

Init ==
  /\ owner = TRUE /\ screen = NoScreen
  /\ run = [a \in Activity |-> Idle]
  /\ stored = 0
  /\ confirmed = [k \in Attempt |-> [total |-> 0, ver |-> 0, note |-> TRUE]]
  /\ net = [c \in Copy |-> Free]
  /\ cart = [open |-> TRUE, ver |-> 1]
  /\ price \in Price /\ accepting = TRUE /\ wlt = "takes"
  /\ orders = {} /\ intent = [k \in Attempt |-> "none"]
  /\ edits = 0 /\ faults = 0 /\ overtaken = FALSE

Fault == faults < MaxFaults /\ faults' = faults + 1
NoFault == UNCHANGED faults

----------------------------------------------------------------------------
(* The cart screen. *)

(* Leaving hands the running activity over: a load that has not sent a     *)
(* request stops at its isCurrent, everything else runs on.                *)
Overtakes == Quiet("cur") \/ run["cur"].pc \in {"read", "order", "cart"}
Unmounted ==
  /\ Overtakes \/ Quiet("old")
  /\ screen' = NoScreen
  /\ run' = IF Overtakes THEN [run EXCEPT !["cur"] = Idle]
            ELSE [run EXCEPT !["cur"] = Idle, !["old"] = run["cur"]]
  /\ net' = [c \in Copy |-> IF net[c].to = "cur" THEN [net[c] EXCEPT !.to = "old"] ELSE net[c]]

Leave ==
  /\ screen.view # "none" /\ edits < MaxEdits /\ edits' = edits + 1
  /\ Unmounted
  /\ UNCHANGED <<owner, stored, confirmed, shop, orders, intent, faults, overtaken>>

(* Another client signs in, or nobody: the screen is keyed by the actor.   *)
SignOut ==
  /\ owner /\ Fault
  /\ owner' = FALSE
  /\ Unmounted
  /\ UNCHANGED <<stored, confirmed, shop, orders, intent, edits, overtaken>>

SignIn ==
  /\ ~owner
  /\ owner' = TRUE
  /\ UNCHANGED <<screen, run, stored, confirmed, net, shop, orders, intent, count, overtaken>>

(* The process of the application ends: only the secure store survives.    *)
Kill ==
  /\ Fault
  /\ screen' = NoScreen
  /\ run' = [a \in Activity |-> Idle]
  /\ net' = [c \in Copy |-> IF net[c].st = "answered" THEN Free ELSE [net[c] EXCEPT !.to = "none"]]
  /\ UNCHANGED <<owner, stored, confirmed, shop, orders, intent, edits, overtaken>>

StartLoad(v) ==
  /\ screen' = [view |-> v, ver |-> 0, total |-> 0]
  /\ run' = [run EXCEPT !["cur"] = [Idle EXCEPT !.pc = "read", !.kind = "load"]]

OpenScreen ==
  /\ owner /\ screen.view = "none"
  /\ Reopen \/ Quiet("old")
  /\ StartLoad("loading")
  /\ UNCHANGED <<owner, stored, confirmed, net, shop, orders, intent, count, overtaken>>

(* The button of the pending view, and of an error.                        *)
Verify ==
  /\ screen.view \in {"pending", "error"} /\ Quiet("cur")
  /\ StartLoad(IF screen.view = "pending" THEN "pending" ELSE "loading")
  /\ UNCHANGED <<owner, stored, confirmed, net, shop, orders, intent, count, overtaken>>

refreshQuote ==
  /\ screen.view = "ready" /\ Quiet("cur") /\ accepting
  /\ cart.open /\ cart.ver = screen.ver /\ screen.total # price
  /\ screen' = [screen EXCEPT !.total = price]
  /\ UNCHANGED <<owner, run, stored, confirmed, net, shop, orders, intent, count, overtaken>>

(* updateLine, removeLine and saveLineOptions; a stale cart is reloaded.   *)
updateLine ==
  /\ screen.view = "ready" /\ Quiet("cur")
  /\ \/ /\ cart.open /\ cart.ver = screen.ver
        /\ edits < MaxEdits /\ edits' = edits + 1
        /\ cart' = [cart EXCEPT !.ver = @ + 1]
        /\ screen' = [screen EXCEPT !.ver = cart.ver + 1, !.total = 0]
        /\ UNCHANGED run
     \/ /\ ~(cart.open /\ cart.ver = screen.ver)
        /\ StartLoad("loading")
        /\ UNCHANGED <<cart, edits>>
  /\ UNCHANGED <<owner, stored, confirmed, net, price, accepting, wlt, orders, intent, faults, overtaken>>

----------------------------------------------------------------------------
(* Steps that load and checkout share. *)

(* SecureStore.deleteItemAsync names the client and the store, not the     *)
(* attempt; a failure is swallowed.                                        *)
Discard ==
  \/ stored' = 0 /\ NoFault
  \/ stored' = stored /\ Fault

Show(a, v) == screen' = IF a = "cur" THEN [screen EXCEPT !.view = v] ELSE screen

finishCheckout(a) ==
  /\ Discard
  /\ Show(a, "done")
  /\ run' = [run EXCEPT ![a] = Idle]

checkoutCart(a, k) ==
  /\ \E c \in Copy :
       /\ net[c] = Free
       /\ net' = [net EXCEPT ![c] = [st |-> "sent", key |-> k, to |-> a, why |-> "none"]]
  /\ run' = [run EXCEPT ![a].pc = "wait", ![a].key = k]
  /\ Show(a, "pending")

(* readOrderForCart found nothing, or failed.                              *)
Unseen == \/ orders = {} /\ NoFault
          \/ orders # {} /\ Fault

Stop(a) == run' = [run EXCEPT ![a] = Idle] /\ UNCHANGED screen

----------------------------------------------------------------------------
(* load *)

LoadRead ==
  /\ run["cur"].pc = "read"
  /\ run' = [run EXCEPT !["cur"].pc = IF stored # 0 THEN "order" ELSE "cart",
                        !["cur"].key = stored]
  /\ screen' = [screen EXCEPT !.view = IF stored # 0 THEN "pending" ELSE "loading"]
  /\ UNCHANGED <<owner, stored, confirmed, net, shop, orders, intent, count, overtaken>>

Unresent(k) ==   \* mutant: only looks for the order of a stored attempt
  Stop("cur") /\ UNCHANGED net
Resend(k) == checkoutCart("cur", k)

(* The order of the cart, if it can be read, ends the attempt; otherwise   *)
(* the same request is sent again.                                         *)
LoadOrder ==
  /\ run["cur"].pc = "order"
  /\ \/ orders # {} /\ finishCheckout("cur") /\ UNCHANGED net
     \/ Unseen /\ Resend(run["cur"].key) /\ UNCHANGED stored
  /\ UNCHANGED <<owner, confirmed, shop, orders, intent, edits, overtaken>>

readOpenCart ==
  /\ run["cur"].pc = "cart"
  /\ \/ /\ NoFault
        /\ screen' = IF cart.open THEN [view |-> "ready", ver |-> cart.ver, total |-> 0]
                     ELSE [view |-> "empty", ver |-> 0, total |-> 0]
     \/ Fault /\ screen' = [view |-> "error", ver |-> 0, total |-> 0]
  /\ run' = [run EXCEPT !["cur"] = Idle]
  /\ UNCHANGED <<owner, stored, confirmed, net, shop, orders, intent, edits, overtaken>>

----------------------------------------------------------------------------
(* checkout *)

Unused == {k \in Attempt : confirmed[k].ver = 0}

(* The synchronous part: what the client accepts is fixed here, with the   *)
(* text of the note, which the screen does not check as the server does.   *)
Confirm ==
  /\ screen.view = "ready" /\ screen.total # 0 /\ Quiet("cur")
  /\ \E k \in Unused :
       /\ \A n \in Unused : k <= n
       /\ \E valid \in BOOLEAN :
            confirmed' = [confirmed EXCEPT ![k] = [total |-> screen.total, ver |-> screen.ver, note |-> valid]]
       /\ run' = [run EXCEPT !["cur"] = [Idle EXCEPT !.pc = "prepare", !.kind = "checkout", !.key = k]]
  /\ UNCHANGED <<owner, screen, stored, net, shop, orders, intent, count, overtaken>>

(* Session, discovery click and SecureStore.setItemAsync.                  *)
Keep(a) ==
  /\ run[a].pc = "prepare"
  /\ \/ /\ stored' = run[a].key /\ NoFault
        /\ run' = [run EXCEPT ![a].pc = "kept"] /\ UNCHANGED screen
     \/ ~owner /\ Stop(a) /\ NoFault /\ UNCHANGED stored
     \/ Fault /\ Stop(a) /\ UNCHANGED stored
  /\ UNCHANGED <<owner, confirmed, net, shop, orders, intent, edits, overtaken>>

(* The actor is compared again before the request leaves.                  *)
Send(a) ==
  /\ run[a].pc = "kept"
  /\ \/ owner /\ checkoutCart(a, run[a].key) /\ UNCHANGED stored /\ NoFault
     \/ ~owner /\ Discard /\ Stop(a) /\ UNCHANGED net
  /\ UNCHANGED <<owner, confirmed, shop, orders, intent, edits, overtaken>>

----------------------------------------------------------------------------
(* The answer. *)

(* The timeout, or a connection that is gone with its answer.              *)
GiveUp(a) ==
  /\ run[a].pc = "wait"
  /\ IF Listened(a) THEN Fault ELSE NoFault
  /\ run' = [run EXCEPT ![a].pc = "readback", ![a].why = "lost"]
  /\ net' = [c \in Copy |->
       IF net[c].to # a THEN net[c]
       ELSE IF net[c].st = "answered" THEN Free ELSE [net[c] EXCEPT !.to = "none"]]
  /\ UNCHANGED <<owner, screen, stored, confirmed, shop, orders, intent, edits, overtaken>>

Receive(a, c) ==
  /\ Waiting(a, c) /\ net[c].st = "answered"
  /\ net' = [net EXCEPT ![c] = Free]
  /\ \/ run[a].kind = "checkout" /\ ~owner /\ Stop(a) /\ UNCHANGED stored /\ NoFault
     \/ /\ net[c].why = "order" /\ (run[a].kind = "load" \/ owner)
        /\ finishCheckout(a)
     \/ /\ net[c].why # "order" /\ (run[a].kind = "load" \/ owner)
        /\ run' = [run EXCEPT ![a].pc = "readback", ![a].why = net[c].why]
        /\ UNCHANGED <<screen, stored>> /\ NoFault
  /\ UNCHANGED <<owner, confirmed, shop, orders, intent, edits, overtaken>>

RejectsWhenUnsure(w) == w # "lost"   \* mutant: takes every answered error for a refusal
Rejects(w) == w \in Definitive

(* readOrderForCart after a failure, then what the failure meant.          *)
Readback(a) ==
  /\ run[a].pc = "readback"
  /\ LET gone == IF run[a].kind = "load" THEN a = "old" ELSE ~owner
     IN \/ gone /\ Stop(a) /\ UNCHANGED stored /\ NoFault
        \/ ~gone /\ orders # {} /\ finishCheckout(a)
        \/ /\ ~gone /\ Rejects(run[a].why)
           /\ \/ Unseen /\ stored' = 0
              \/ orders = {} /\ Fault /\ UNCHANGED stored
           /\ \/ a = "cur" /\ StartLoad("loading")
              \/ /\ run[a].kind = "checkout"
                 /\ Show(a, "ready") /\ run' = [run EXCEPT ![a] = Idle]
        \/ /\ ~gone /\ ~Rejects(run[a].why) /\ Unseen
           /\ Show(a, "pending") /\ run' = [run EXCEPT ![a] = Idle]
           /\ UNCHANGED stored
  /\ UNCHANGED <<owner, confirmed, net, shop, orders, intent, edits, overtaken>>
----------------------------------------------------------------------------
(* The server.  A copy is "resolved" after ResolveCheckoutAttempt, "held"  *)
(* in the transaction of CreateOrderFromCart with its locks, "paid" once   *)
(* the intent exists and "undo" between the rollback and its compensation. *)

(* A refusal says nothing of another copy that may still take effect.      *)
MayFollow(c) ==
  \E d \in Copy \ {c} : net[d].key = net[c].key /\ net[d].st \in {"sent", "resolved", "held", "paid"}

Answer(c, w) ==
  /\ net' = [net EXCEPT ![c] = IF net[c].to = "none" THEN Free
                               ELSE [net[c] EXCEPT !.st = "answered", !.why = w]]
  /\ overtaken' = (overtaken \/ (w = "refused" /\ MayFollow(c)))

Enter(c, st) == net' = [net EXCEPT ![c].st = st] /\ UNCHANGED overtaken

InTransaction(c) == net[c].st \in {"held", "paid"}
KeyFree(k) == ~ \E c \in Copy : InTransaction(c) /\ net[c].key = k
CartFree == ~ \E c \in Copy : InTransaction(c)

(* reconcileCheckoutPayment: an intent of this attempt without an order is *)
(* cancelled, and the attempt is over.  The read and the cancellation are  *)
(* calls to WLT that may fail.                                             *)
Reconcile(c) ==
  LET k == net[c].key
  IN \/ /\ intent[k] = "collect" /\ NoFault
        /\ intent' = [intent EXCEPT ![k] = "cancelled"]
        /\ Answer(c, "reconciled")
     \/ intent[k] = "cancelled" /\ NoFault /\ Answer(c, "reconciled") /\ UNCHANGED intent
     \/ Fault /\ Answer(c, "unknown") /\ UNCHANGED intent

(* ResolveCheckoutAttempt, then Checkout's look at the store.              *)
ResolveAttempt(c) ==
  /\ KeyFree(net[c].key)
  /\ \/ /\ Ordered(net[c].key)
        /\ Answer(c, "order") /\ UNCHANGED intent /\ NoFault
     \/ /\ ~Ordered(net[c].key)
        /\ Reconcile(c)
     \/ /\ ~Ordered(net[c].key) /\ intent[net[c].key] = "none" /\ NoFault
        /\ IF accepting THEN Enter(c, "resolved")
           ELSE Answer(c, "closed")
        /\ UNCHANGED intent

(* The note is read before anything is looked up or locked.                *)
Resolve(c) ==
  /\ net[c].st = "sent"
  /\ IF confirmed[net[c].key].note THEN ResolveAttempt(c)
     ELSE Answer(c, "note") /\ UNCHANGED intent /\ NoFault
  /\ UNCHANGED <<phone, shop, orders, edits>>

CartFitsAnyTime(k) == TRUE   \* mutant: does not read the cart under its lock
CartFits(k) == cart.open /\ cart.ver = confirmed[k].ver

TotalMatchesAny(k) == TRUE   \* mutant: creates the order at the current total
TotalMatches(k) == price = confirmed[k].total

(* CreateOrderFromCart up to the payment: advisory lock of the key, replay,*)
(* reconciliation, the row of the cart, total and store.                   *)
CreateOrder(c) ==
  /\ net[c].st = "resolved" /\ KeyFree(net[c].key)
  /\ LET k == net[c].key
     IN \/ Ordered(k) /\ Answer(c, "order") /\ UNCHANGED intent /\ NoFault
        \/ ~Ordered(k) /\ Reconcile(c)
        \/ /\ ~Ordered(k) /\ intent[k] = "none" /\ CartFree
           /\ IF CartFits(k) /\ TotalMatches(k) /\ accepting
              THEN Enter(c, "held")
              ELSE Answer(c, "refused")
           /\ UNCHANGED intent /\ NoFault
  /\ UNCHANGED <<phone, shop, orders, edits>>

(* Of WLT's refusals the phone takes one for the end of the attempt: that  *)
(* the balance is short.  Any other becomes CHECKOUT_OUTCOME_UNKNOWN or    *)
(* WLT_PAYMENT_UNAVAILABLE.                                                *)
externalMutationOutcome == IF wlt = "short" THEN "refused" ELSE "unknown"

(* The payment intent of WLT: made, refused, or an error that leaves open  *)
(* whether it was made.                                                    *)
ProvisionPayment(c) ==
  /\ net[c].st = "held"
  /\ LET made == [intent EXCEPT ![net[c].key] = "collect"]
     IN \/ wlt = "takes" /\ Enter(c, "paid") /\ intent' = made /\ NoFault
        \/ wlt # "takes" /\ Answer(c, externalMutationOutcome) /\ UNCHANGED intent /\ NoFault
        \/ Answer(c, "unknown") /\ intent' \in {intent, made} /\ Fault
  /\ UNCHANGED <<phone, shop, orders, edits>>

Committed(c) ==
  /\ orders' = orders \union {[key |-> net[c].key, total |-> price]}
  /\ cart' = [open |-> FALSE, ver |-> cart.ver + 1]

(* An error of COMMIT leaves its outcome open and is not compensated.      *)
Commit(c) ==
  /\ net[c].st = "paid"
  /\ \/ Committed(c) /\ Answer(c, "order") /\ NoFault
     \/ Committed(c) /\ Answer(c, "unknown") /\ Fault
     \/ UNCHANGED <<orders, cart>> /\ Answer(c, "unknown") /\ Fault
  /\ UNCHANGED <<phone, price, accepting, wlt, intent, edits>>

(* A check of the payment or a statement after it fails: the transaction   *)
(* is rolled back, its locks are gone, the intent is cancelled next.       *)
Rollback(c) ==
  /\ net[c].st = "paid"
  /\ Enter(c, "undo")
  /\ UNCHANGED <<phone, shop, orders, intent, count>>

Compensate(c) ==
  /\ net[c].st = "undo"
  /\ \/ /\ intent' = [intent EXCEPT ![net[c].key] = "cancelled"]
        /\ Answer(c, "refused") \/ Answer(c, "unknown")
        /\ NoFault
     \/ Answer(c, "unknown") /\ Fault /\ UNCHANGED intent
  /\ UNCHANGED <<phone, shop, orders, edits>>

(* A message or the server's process is lost.                              *)
Lose(c) ==
  /\ net[c].st \in {"sent", "resolved", "held", "paid", "undo", "answered"}
  /\ Fault
  /\ net' = [net EXCEPT ![c] = Free]
  /\ UNCHANGED <<phone, shop, orders, intent, edits, overtaken>>

(* Other devices of the client, the catalog, the store's own hours and the *)
(* client's wallet.                                                        *)
ShopChanges ==
  /\ edits < MaxEdits /\ edits' = edits + 1
  /\ \/ price' \in Price \ {price} /\ CartFree /\ UNCHANGED <<cart, accepting, wlt>>
     \/ accepting' = ~accepting /\ CartFree /\ UNCHANGED <<cart, price, wlt>>
     \/ cart.open /\ CartFree /\ cart' = [cart EXCEPT !.ver = @ + 1]
        /\ UNCHANGED <<price, accepting, wlt>>
     \/ wlt' \in {"takes", "short", "refuses"} \ {wlt} /\ UNCHANGED <<cart, price, accepting>>
  /\ UNCHANGED <<phone, net, orders, intent, faults, overtaken>>

----------------------------------------------------------------------------
Phone ==
  \/ Leave \/ SignOut \/ SignIn \/ Kill \/ OpenScreen \/ Verify
  \/ refreshQuote \/ updateLine \/ Confirm
  \/ LoadRead \/ LoadOrder \/ readOpenCart
  \/ \E a \in Activity : Keep(a) \/ Send(a) \/ GiveUp(a) \/ Readback(a)
                         \/ \E c \in Copy : Receive(a, c)

Server ==
  \/ \E c \in Copy : Resolve(c) \/ CreateOrder(c) \/ ProvisionPayment(c) \/ Commit(c)
                     \/ Rollback(c) \/ Compensate(c) \/ Lose(c)
  \/ ShopChanges

Next == Phone \/ Server
Spec == Init /\ [][Next]_vars

(* The client comes back to the cart and asks for the result, an await     *)
(* ends, and the server finishes what it began.                            *)
Fairness ==
  /\ WF_vars(OpenScreen) /\ WF_vars(Verify) /\ WF_vars(SignIn)
  /\ WF_vars(LoadRead) /\ WF_vars(LoadOrder) /\ WF_vars(readOpenCart)
  /\ \A a \in Activity :
       /\ WF_vars(Keep(a)) /\ WF_vars(Send(a)) /\ WF_vars(Readback(a))
       /\ WF_vars(~Listened(a) /\ GiveUp(a))
       /\ \A c \in Copy : WF_vars(Receive(a, c))
  /\ \A c \in Copy : WF_vars(Resolve(c) \/ CreateOrder(c) \/ ProvisionPayment(c)
                             \/ Commit(c) \/ Compensate(c))
FairSpec == Spec /\ Fairness

----------------------------------------------------------------------------
(* However often an attempt is sent again, repeated after a crash or       *)
(* followed by another one, the cart becomes at most one order.            *)
OneOrder == Cardinality(orders) <= 1

(* An order costs what its client saw and confirmed, whatever the catalog  *)
(* did between the quote and any of the copies of the request.             *)
ConfirmedTotal == \A o \in orders : o.total = confirmed[o.key].total

(* A payment intent without an order can still be found and cancelled: its *)
(* attempt is stored on the phone, which sends it again.  Not claimed once *)
(* a copy was refused while another copy was still running.                *)
IntentAccounted ==
  overtaken \/ \A k \in Attempt :
    intent[k] = "collect" => Ordered(k) \/ stored = k

(* Nobody is held on an unknown result: a client who keeps coming back     *)
(* gets a usable screen or the order.  Three answers keep an attempt       *)
(* stored as long as they are given, for no code of theirs is in           *)
(* definitiveCheckoutRejection: that the store is closed, that WLT refuses *)
(* the intent, and that the note is invalid.  The first two pass with      *)
(* their cause.  The note is part of the stored request, so its attempt    *)
(* is never over and such a cart stays blocked.                            *)
Resolves ==
  stored # 0 ~> \/ stored = 0 \/ screen.view \in {"ready", "empty", "done"}
                \/ ~accepting \/ wlt = "refuses" \/ ~confirmed[stored].note
=============================================================================

------------------------------- MODULE Orders -------------------------------
(***************************************************************************)
(* 21-sagas-and-process-managers/02-removing-sagas: POST /orders takes the *)
(* products of an order from the stock in one serializable transaction.    *)
(* The stock that decides is read on another connection, outside of that   *)
(* transaction; the answer is written inside of it, before its COMMIT.     *)
(* The command RemoveProductsFromStock of the saga that was removed is     *)
(* still handled.                                                          *)
(*                                                                         *)
(* PostgreSQL (external): the first statement of a transaction takes its   *)
(* snapshot; a row that a transaction has changed is locked until it ends; *)
(* changing a row that was changed since the snapshot is an error, and so  *)
(* is a key that exists already.  It may refuse any transaction, and       *)
(* refuses one of those that wait for each other.                          *)
(***************************************************************************)
EXTENDS Integers, FiniteSets, FiniteSetsExt

CONSTANTS
  Products,
  Orders,       \* order ids
  Requests,     \* requests to POST /orders
  OrderOf,      \* the order id of a request
  Quantity,     \* of a request: its products, each with a quantity of any sign
  InitialStock, \* the rows of stock at the start
  Deliveries,   \* requests to POST /products-stock: [product, quantity]
  Commands,     \* RemoveProductsFromStock commands left by the saga
  CommandQuantity, \* of a command: its products, each with a quantity
  MaxFaults     \* bound: transactions refused, publications that fail, lost acks

VARIABLES
  stock,         \* the rows of stock: product -> quantity
  orders,        \* the rows of orders: "none", "shipped" or "cancelled"
  orderProducts, \* the rows of order_products: [order, product, quantity]
  tx,            \* the transaction of a request
  answer,        \* its answer: "none", "201" or "error"
  delivered,     \* the deliveries that are in stock
  removed,       \* how often a command was applied
  command,       \* of a command: "pending", "applied" (not published), "done"
  outcomes,      \* the events published: <<command, "removed" or "out_of_stock">>
  overlapped,    \* two transactions were open at the same time
  orderFaults    \* faults so far (bounds the model)

requests == <<orders, orderProducts, tx, answer, overlapped>>
saga     == <<removed, command, outcomes>>
vars     == <<stock, requests, delivered, saga, orderFaults>>

ProductsOf(r) == DOMAIN Quantity[r]
CommandProducts(c) == DOMAIN CommandQuantity[c]
TakenBy(c, p) == IF p \in CommandProducts(c) THEN CommandQuantity[c][p] ELSE 0
NoProduct == "none"

Idle == [pc |-> "idle", left |-> {}, product |-> NoProduct, taken |-> {},
         snapshot |-> FALSE, changed |-> {}]

TypeOK ==
  /\ DOMAIN stock \subseteq Products
  /\ \A p \in DOMAIN stock : stock[p] \in Int
  /\ orders \in [Orders -> {"none", "shipped", "cancelled"}]
  /\ orderProducts \subseteq [order : Orders, product : Products, quantity : Int]
  /\ tx \in [Requests ->
       [pc : {"idle", "loop", "take", "cancel", "ship", "commit_cancel", "commit_ship", "done"},
        left : SUBSET Products, product : Products \cup {NoProduct},
        taken : SUBSET Products, snapshot : BOOLEAN, changed : SUBSET Products]]
  /\ answer \in [Requests -> {"none", "201", "error"}]
  /\ delivered \subseteq Deliveries
  /\ removed \in [Commands -> Nat]
  /\ command \in [Commands -> {"pending", "applied", "done"}]
  /\ outcomes \subseteq Commands \X {"removed", "out_of_stock"}
  /\ overlapped \in BOOLEAN
  /\ orderFaults \in 0..MaxFaults

Open(r) == tx[r].pc \notin {"idle", "done"}

\* The row of the product is locked: waits(r, s) says that r needs what s has locked.
Locks(s, p) == p \in tx[s].taken
WaitsFor(r, s) ==
  /\ r # s
  /\ \/ tx[r].pc = "take" /\ Locks(s, tx[r].product)
     \/ /\ tx[r].pc \in {"cancel", "ship"}
        /\ tx[s].pc \in {"commit_cancel", "commit_ship"}
        /\ OrderOf[r] = OrderOf[s]
Waiting(r) == \E s \in Requests : WaitsFor(r, s)
Deadlocked(r) ==
  \E cycle \in SUBSET Requests :
    r \in cycle /\ \A a \in cycle : \E b \in cycle : WaitsFor(a, b)

Fault == orderFaults < MaxFaults /\ orderFaults' = orderFaults + 1

-----------------------------------------------------------------------------
(* POST /orders *)

Begin(r) ==
  /\ tx[r].pc = "idle"
  /\ tx' = [tx EXCEPT ![r].pc = "loop", ![r].left = ProductsOf(r)]
  /\ overlapped' = (overlapped \/ \E s \in Requests : Open(s))
  /\ UNCHANGED <<stock, orders, orderProducts, answer, delivered, saga, orderFaults>>

Enough(r, p) == ~(stock[p] < Quantity[r][p])

\* The transaction is rolled back; an answer that was written stays.
Rollback(r) ==
  /\ tx' = [tx EXCEPT ![r] = [Idle EXCEPT !.pc = "done"]]
  /\ answer' = [answer EXCEPT ![r] = IF @ = "none" THEN "error" ELSE @]

\* db.Get: the committed stock of a product, in the order of a Go map.
ReadStock(r) ==
  /\ tx[r].pc = "loop"
  /\ \E p \in tx[r].left :
       \/ /\ p \in DOMAIN stock
          /\ tx' = [tx EXCEPT ![r].pc = IF Enough(r, p) THEN "take" ELSE "cancel",
                              ![r].product = p]
          /\ UNCHANGED answer
       \/ p \notin DOMAIN stock /\ Rollback(r)
  /\ UNCHANGED <<stock, orders, orderProducts, overlapped, delivered, saga, orderFaults>>

\* Mutant: the loop is left after its first product.
AllTaken_First(r) ==
  /\ tx[r].pc = "loop"
  /\ tx[r].taken # {}
  /\ tx' = [tx EXCEPT ![r].pc = "ship"]
  /\ UNCHANGED <<stock, orders, orderProducts, answer, overlapped, delivered, saga,
                 orderFaults>>

AllTaken(r) ==
  /\ tx[r].pc = "loop"
  /\ tx[r].left = {}
  /\ tx' = [tx EXCEPT ![r].pc = "ship"]
  /\ UNCHANGED <<stock, orders, orderProducts, answer, overlapped, delivered, saga,
                 orderFaults>>

\* The first tx.Exec starts.
Snapshot(r) ==
  /\ tx[r].pc \in {"take", "cancel", "ship"}
  /\ ~tx[r].snapshot
  /\ tx' = [tx EXCEPT ![r].snapshot = TRUE]
  /\ UNCHANGED <<stock, orders, orderProducts, answer, overlapped, delivered, saga,
                 orderFaults>>

HasProduct(order, p) ==
  \E row \in orderProducts : row.order = order /\ row.product = p

\* tx.Exec: the quantity is taken from the stock and the product put in order_products.
Take(r) ==
  /\ tx[r].pc = "take"
  /\ tx[r].snapshot
  /\ ~Waiting(r)
  /\ LET p == tx[r].product IN
       \/ /\ p \notin tx[r].changed
          /\ ~HasProduct(OrderOf[r], p)
          /\ tx' = [tx EXCEPT ![r].pc = "loop", ![r].product = NoProduct,
                              ![r].taken = @ \cup {p}, ![r].left = @ \ {p}]
          /\ UNCHANGED answer
       \/ (p \in tx[r].changed \/ HasProduct(OrderOf[r], p)) /\ Rollback(r)
  /\ UNCHANGED <<stock, orders, orderProducts, overlapped, delivered, saga, orderFaults>>

\* The row of the order is inserted and the answer is written.
InsertOrder(r) ==
  /\ tx[r].pc \in {"cancel", "ship"}
  /\ tx[r].snapshot
  /\ ~Waiting(r)
  /\ \/ /\ orders[OrderOf[r]] = "none"
        /\ tx' = [tx EXCEPT ![r].pc = IF @ = "ship" THEN "commit_ship" ELSE "commit_cancel"]
        /\ answer' = [answer EXCEPT ![r] = "201"]
     \/ orders[OrderOf[r]] # "none" /\ Rollback(r)
  /\ UNCHANGED <<stock, orders, orderProducts, overlapped, delivered, saga, orderFaults>>

\* What the other open transactions see as changed since their snapshot.
Changed(transactions, products) ==
  [r \in Requests |-> IF transactions[r].snapshot /\ transactions[r].pc # "done"
                      THEN [transactions[r] EXCEPT !.changed = @ \cup products]
                      ELSE transactions[r]]

\* Mutant: a cancelled order gives back what it took, but its products stay listed.
Taken_Shipped(r) == IF tx[r].pc = "commit_ship" THEN tx[r].taken ELSE {}

\* The products whose stock the transaction changes.
Taken(r) == tx[r].taken

\* COMMIT, of a shipped order and of a cancelled one.
Commit(r) ==
  /\ tx[r].pc \in {"commit_cancel", "commit_ship"}
  /\ stock' = [p \in DOMAIN stock |->
                IF p \in Taken(r) THEN stock[p] - Quantity[r][p] ELSE stock[p]]
  /\ orderProducts' = orderProducts \cup
       {[order |-> OrderOf[r], product |-> p, quantity |-> Quantity[r][p]] : p \in tx[r].taken}
  /\ orders' = [orders EXCEPT ![OrderOf[r]] =
                 IF tx[r].pc = "commit_ship" THEN "shipped" ELSE "cancelled"]
  /\ tx' = Changed([tx EXCEPT ![r] = [Idle EXCEPT !.pc = "done"]], tx[r].taken)
  /\ UNCHANGED <<answer, overlapped, delivered, saga, orderFaults>>

\* PostgreSQL refuses the transaction, at a statement or at COMMIT; always when it waits
\* for others that wait for it.
Refused(r) ==
  /\ Open(r)
  /\ \/ Fault
     \/ Deadlocked(r) /\ UNCHANGED orderFaults
  /\ Rollback(r)
  /\ UNCHANGED <<stock, orders, orderProducts, overlapped, delivered, saga>>

-----------------------------------------------------------------------------
(* POST /products-stock and the command *)

Unlocked(p) == \A r \in Requests : ~Locks(r, p)

AddStock(d) ==
  /\ d \in Deliveries \ delivered
  /\ Unlocked(d.product)
  /\ delivered' = delivered \cup {d}
  /\ stock' = [p \in DOMAIN stock \cup {d.product} |->
                IF p # d.product THEN stock[p]
                ELSE IF p \in DOMAIN stock THEN stock[p] + d.quantity ELSE d.quantity]
  /\ tx' = Changed(tx, {d.product})
  /\ UNCHANGED <<orders, orderProducts, answer, overlapped, saga, orderFaults>>

\* All products of the command are there.
InStock(c) == \A p \in CommandProducts(c) : ~(stock[p] < CommandQuantity[c][p])

\* RemoveProductsFromStock: its transaction reads and takes all products or none.  A
\* product without a row is an error: no step.
RemoveProductsFromStock(c) ==
  /\ command[c] = "pending"
  /\ CommandProducts(c) \subseteq DOMAIN stock
  /\ InStock(c)
  /\ \A p \in CommandProducts(c) : Unlocked(p)
  /\ stock' = [p \in DOMAIN stock |-> stock[p] - TakenBy(c, p)]
  /\ tx' = Changed(tx, CommandProducts(c))
  /\ removed' = [removed EXCEPT ![c] = @ + 1]
  /\ command' = [command EXCEPT ![c] = "applied"]
  /\ overlapped' = (overlapped \/ \E r \in Requests : Open(r))
  /\ UNCHANGED <<orders, orderProducts, answer, delivered, outcomes, orderFaults>>

\* ProductsRemovedFromStock is published, without an outbox; or the service dies, or the
\* publication fails, and the whole command comes again.
PublishRemoved(c) ==
  /\ command[c] = "applied"
  /\ \/ /\ outcomes' = outcomes \cup {<<c, "removed">>}
        /\ \/ command' = [command EXCEPT ![c] = "done"] /\ UNCHANGED orderFaults
           \/ Fault /\ command' = [command EXCEPT ![c] = "pending"]
     \/ Fault /\ command' = [command EXCEPT ![c] = "pending"] /\ UNCHANGED outcomes
  /\ UNCHANGED <<stock, requests, delivered, removed>>

\* ProductsOutOfStock: the transaction was rolled back.
PublishOutOfStock(c) ==
  /\ command[c] = "pending"
  /\ CommandProducts(c) \subseteq DOMAIN stock
  /\ ~InStock(c)
  /\ outcomes' = outcomes \cup {<<c, "out_of_stock">>}
  /\ \/ command' = [command EXCEPT ![c] = "done"] /\ UNCHANGED orderFaults
     \/ Fault /\ UNCHANGED command
  /\ UNCHANGED <<stock, requests, delivered, removed>>

-----------------------------------------------------------------------------
Init ==
  /\ stock = InitialStock
  /\ orders = [o \in Orders |-> "none"]
  /\ orderProducts = {}
  /\ tx = [r \in Requests |-> Idle]
  /\ answer = [r \in Requests |-> "none"]
  /\ delivered = {}
  /\ removed = [c \in Commands |-> 0]
  /\ command = [c \in Commands |-> "pending"]
  /\ outcomes = {}
  /\ overlapped = FALSE
  /\ orderFaults = 0

Continue(r) ==
  \/ ReadStock(r) \/ AllTaken(r) \/ Snapshot(r) \/ Take(r) \/ InsertOrder(r) \/ Commit(r)
  \/ Refused(r)

Next ==
  \/ \E r \in Requests : Begin(r) \/ Continue(r)
  \/ \E d \in Deliveries : AddStock(d)
  \/ \E c \in Commands :
       RemoveProductsFromStock(c) \/ PublishRemoved(c) \/ PublishOutOfStock(c)

Spec == Init /\ [][Next]_vars

\* As long as a request can go on, some request does.
Fairness == WF_vars(\E r \in Requests : Continue(r))

-----------------------------------------------------------------------------
(* Properties *)

Initially(p) == IF p \in DOMAIN InitialStock THEN InitialStock[p] ELSE 0
Delivered(p) == MapThenSumSet(LAMBDA d : d.quantity, {d \in delivered : d.product = p})
Ordered(p) == MapThenSumSet(LAMBDA row : row.quantity,
                            {row \in orderProducts : row.product = p})
Removed(p) == MapThenSumSet(LAMBDA c : removed[c] * TakenBy(c, p), Commands)

\* The stock is always what was delivered less what is in the orders and what commands
\* have removed: transactions that are refused, that race or that repeat an order take
\* nothing.  And it is never negative, as long as the requests follow one another: only
\* transactions that are open at the same time sell what is not there, as the stock is
\* read outside of them.
StockIsAccounted ==
  \A p \in DOMAIN stock :
    /\ stock[p] = Initially(p) + Delivered(p) - Ordered(p) - Removed(p)
    /\ ~overlapped => stock[p] >= 0

\* A shipped order has all of its products; a cancelled one lacks a product that its
\* request asked for; and an order without a row has none, however its request ended.
OrdersMatchProducts ==
  \A o \in Orders :
    /\ orders[o] = "none" => ~\E row \in orderProducts : row.order = o
    /\ orders[o] = "shipped" =>
         \E r \in Requests : OrderOf[r] = o /\ \A p \in ProductsOf(r) : HasProduct(o, p)
    /\ orders[o] = "cancelled" =>
         \E r \in Requests : OrderOf[r] = o /\ \E p \in ProductsOf(r) : ~HasProduct(o, p)

\* No request stays open, although transactions may wait for each other.
RequestsEnd == []<>(\A r \in Requests : ~Open(r))

-----------------------------------------------------------------------------
(* A statement of the repository's tests that the code refutes *)

\* An order that was cancelled for want of a product leaves everything in the stock: an
\* order of what is left after it is shipped (order_shipped_with_all_left_products).
CancelledTakesNothing ==
  \A p \in DOMAIN stock :
    stock[p] = Initially(p) + Delivered(p) - Removed(p)
                 - MapThenSumSet(LAMBDA row : row.quantity,
                     {row \in orderProducts :
                        row.product = p /\ orders[row.order] = "shipped"})

=============================================================================

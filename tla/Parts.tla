-------------------------------- MODULE Parts --------------------------------
(***************************************************************************)
(* The spare-parts inventory and the operations of parts.Inventory on it   *)
(* (internal/parts), as functions from an inventory to an inventory: the   *)
(* code runs each of them under the inventory's mutex.  An inventory is a  *)
(* record of parts, a map from the registered SKUs, and requisitions, in   *)
(* which REQ-n is entry n.                                                 *)
(***************************************************************************)
EXTENDS Integers, Sequences

Statuses == {"pending", "confirmed", "out_of_stock", "rolled_back"}

Part == [stock: Int, reserved: Nat]

Requisition(owners, skus, quantities) ==
  [order: owners, sku: skus, qty: quantities, managerSigned: BOOLEAN,
   status: Statuses]

\* An inventory of some of these SKUs, with requisitions by these work orders.
Typed(inv, owners, skus, quantities) ==
  /\ inv = [parts |-> inv.parts, requisitions |-> inv.requisitions]
  /\ DOMAIN inv.parts \subseteq skus
  /\ \A s \in DOMAIN inv.parts : inv.parts[s] \in Part
  /\ inv.requisitions \in Seq(Requisition(owners, DOMAIN inv.parts, quantities))

EmptyInventory == [parts |-> <<>>, requisitions |-> <<>>]

Available(p) == p.stock - p.reserved

(***************************************************************************)
(* RegisterPart adds a part or replaces the definition of a known one, in  *)
(* which case the stock is overwritten and the reservations are kept.      *)
(***************************************************************************)
RegisterPart(inv, sku, stock) ==
  LET reserved == IF sku \in DOMAIN inv.parts THEN inv.parts[sku].reserved ELSE 0
      part     == [stock |-> stock, reserved |-> reserved]
  IN  [inv EXCEPT !.parts = [s \in DOMAIN inv.parts \cup {sku} |->
                               IF s = sku THEN part ELSE inv.parts[s]]]

\* Fault: the parts are taken out when they are requested.
ReserveFromStock(inv, sku, qty) ==
  [inv EXCEPT !.parts[sku].stock = @ - qty]

Reserve(inv, sku, qty) == [inv EXCEPT !.parts[sku].reserved = @ + qty]

\* Fault: what is reserved already is not subtracted.
InStock(inv, sku, qty) == inv.parts[sku].stock >= qty

CanReserve(inv, sku, qty) == Available(inv.parts[sku]) >= qty

(***************************************************************************)
(* SubmitRequisition: signed by the engineer on submission, and pending    *)
(* with the stock reserved, or out of stock with nothing reserved.         *)
(***************************************************************************)
CanSubmit(inv, sku, qty) == sku \in DOMAIN inv.parts /\ qty > 0

Submit(inv, w, sku, qty) ==
  LET enough == CanReserve(inv, sku, qty)
      req    == [order |-> w, sku |-> sku, qty |-> qty, managerSigned |-> FALSE,
                 status |-> IF enough THEN "pending" ELSE "out_of_stock"]
      held   == IF enough THEN Reserve(inv, sku, qty) ELSE inv
  IN  [held EXCEPT !.requisitions = Append(@, req)]

(***************************************************************************)
(* ConfirmRequisition: the manager's signature.  Signing twice returns the *)
(* confirmed requisition again; a rolled-back or out-of-stock one, and one *)
(* the reservations do not cover, is refused.                              *)
(***************************************************************************)
Covered(inv, r) ==
  inv.parts[inv.requisitions[r].sku].reserved >= inv.requisitions[r].qty

\* Fault: the status is not looked at.
CanConfirmAny(inv, r) == r \in DOMAIN inv.requisitions

CanConfirm(inv, r) ==
  /\ r \in DOMAIN inv.requisitions
  /\ \/ inv.requisitions[r].status = "confirmed"
     \/ inv.requisitions[r].status = "pending" /\ Covered(inv, r)

\* Fault: the manager's signature is not recorded.
ConfirmUnsigned(inv, r) ==
  LET req == inv.requisitions[r]
  IN  IF req.status = "confirmed" THEN inv
      ELSE [inv EXCEPT !.parts[req.sku].reserved = @ - req.qty,
                       !.parts[req.sku].stock = @ - req.qty,
                       !.requisitions[r].status = "confirmed"]

Confirm(inv, r) ==
  LET req == inv.requisitions[r]
  IN  IF req.status = "confirmed" THEN inv
      ELSE [inv EXCEPT !.parts[req.sku].reserved = @ - req.qty,
                       !.parts[req.sku].stock = @ - req.qty,
                       !.requisitions[r].status = "confirmed",
                       !.requisitions[r].managerSigned = TRUE]

(***************************************************************************)
(* RollbackRequisition: idempotent, refused for a confirmed requisition,   *)
(* and it gives back what a pending one holds, never below zero.           *)
(***************************************************************************)
\* Faults: a reservation is not given back, or a confirmed one is.
RollbackKeepingStock(inv, r) ==
  IF inv.requisitions[r].status = "confirmed" THEN inv
  ELSE [inv EXCEPT !.requisitions[r].status = "rolled_back"]

RollbackConfirmedToo(inv, r) ==
  LET req  == inv.requisitions[r]
      rest == inv.parts[req.sku].reserved - req.qty
  IN  IF req.status \notin {"pending", "confirmed"} THEN inv
      ELSE [inv EXCEPT !.parts[req.sku].reserved = IF rest < 0 THEN 0 ELSE rest,
                       !.requisitions[r].status = "rolled_back"]

Rollback(inv, r) ==
  LET req  == inv.requisitions[r]
      rest == inv.parts[req.sku].reserved - req.qty
  IN  CASE req.status = "out_of_stock" ->
             [inv EXCEPT !.requisitions[r].status = "rolled_back"]
        [] req.status = "pending" ->
             [inv EXCEPT !.parts[req.sku].reserved = IF rest < 0 THEN 0 ELSE rest,
                         !.requisitions[r].status = "rolled_back"]
        [] OTHER -> inv

\* Fault: the requisition becomes pending with nothing reserved for it.
RecheckWithoutReserving(inv, r) ==
  LET req == inv.requisitions[r]
  IN  IF req.status = "out_of_stock" /\ CanReserve(inv, req.sku, req.qty)
      THEN [inv EXCEPT !.requisitions[r].status = "pending"] ELSE inv

\* RecheckRequisition: an out-of-stock requisition is reserved if it now can be.
Recheck(inv, r) ==
  LET req == inv.requisitions[r]
  IN  IF req.status = "out_of_stock" /\ CanReserve(inv, req.sku, req.qty)
      THEN [Reserve(inv, req.sku, req.qty) EXCEPT
              !.requisitions[r].status = "pending"]
      ELSE inv

\* EmergencyProcurement of the inventory: stock arrives.
Procure(inv, sku, qty) == [inv EXCEPT !.parts[sku].stock = @ + qty]
=============================================================================

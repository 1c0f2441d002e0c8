------------------------------ MODULE Inventory ------------------------------
(***************************************************************************)
(* parts.Inventory on its own (internal/parts), its calls in any order:    *)
(* each holds the inventory's mutex and is one action.                     *)
(***************************************************************************)
EXTENDS Entities, Functions

CONSTANTS
  SKUs,           \* the part numbers in use
  Quantities,     \* the quantities requisitioned and procured
  StockLevels,    \* the stocks parts are registered with
  Callers,        \* the work orders that submit requisitions
  MaxReqs,        \* bound on the number of requisitions
  MaxStock        \* bound on the stock of a part

ASSUME InventoryAssumption ==
  /\ Quantities \subseteq Nat \ {0}
  /\ StockLevels \subseteq Nat
  /\ MaxReqs \in Nat /\ MaxStock \in Nat

VARIABLE inv

ReqIds == DOMAIN inv.requisitions

Init == inv = Inv!EmptyInventory

RegisterPart(s, n) == inv' = Inv!RegisterPart(inv, s, n)

SubmitRequisition(w, s, n) ==
  /\ Len(inv.requisitions) < MaxReqs
  /\ Inv!CanSubmit(inv, s, n)
  /\ inv' = Inv!Submit(inv, w, s, n)

ConfirmRequisition(r) ==
  /\ Inv!CanConfirm(inv, r)
  /\ inv' = Inv!Confirm(inv, r)

RollbackRequisition(r) == inv' = Inv!Rollback(inv, r)

RecheckRequisition(r) == inv' = Inv!Recheck(inv, r)

EmergencyProcurement(s, n) ==
  /\ s \in DOMAIN inv.parts
  /\ inv.parts[s].stock + n <= MaxStock
  /\ inv' = Inv!Procure(inv, s, n)

Next ==
  \/ \E s \in SKUs, n \in StockLevels : RegisterPart(s, n)
  \/ \E w \in Callers, s \in SKUs, n \in Quantities : SubmitRequisition(w, s, n)
  \/ \E r \in ReqIds :
       ConfirmRequisition(r) \/ RollbackRequisition(r) \/ RecheckRequisition(r)
  \/ \E s \in SKUs, n \in Quantities : EmergencyProcurement(s, n)

Spec == Init /\ [][Next]_inv

-----------------------------------------------------------------------------
TypeOK == Inv!Typed(inv, Callers, SKUs, Quantities)

Pending(s) ==
  {r \in ReqIds : inv.requisitions[r].sku = s /\ inv.requisitions[r].status = "pending"}

(***************************************************************************)
(* What is reserved of a part is what its pending requisitions ask for:    *)
(* nothing is reserved twice, given back twice or forgotten.               *)
(***************************************************************************)
ReservedIsPending ==
  \A s \in DOMAIN inv.parts :
    inv.parts[s].reserved =
      SumFunctionOnSet([r \in ReqIds |-> inv.requisitions[r].qty], Pending(s))

(***************************************************************************)
(* The reservations cover every pending requisition, so the manager's      *)
(* signature is never refused as inconsistent.                             *)
(***************************************************************************)
PendingIsCovered ==
  \A r \in ReqIds :
    inv.requisitions[r].status = "pending" => Inv!Covered(inv, r)

\* Only a requisition both have signed takes parts out of the warehouse.
ConfirmedIsDualSigned ==
  \A r \in ReqIds :
    inv.requisitions[r].managerSigned <=> inv.requisitions[r].status = "confirmed"

\* A requisition that is confirmed or rolled back stays exactly as it is.
SettledIsFinal ==
  [][\A r \in ReqIds :
       inv.requisitions[r].status \in {"confirmed", "rolled_back"} =>
         inv'.requisitions[r] = inv.requisitions[r]]_inv

(***************************************************************************)
(* Parts leave the warehouse only with a signature: unless the part is     *)
(* registered anew, its stock shrinks by the quantity of one requisition   *)
(* for it that is confirmed in the same step.                              *)
(***************************************************************************)
StockLeavesOnSignature ==
  [][\A s \in DOMAIN inv.parts :
       inv'.parts[s].stock < inv.parts[s].stock =>
         \/ \E n \in StockLevels : RegisterPart(s, n)
         \/ \E r \in Pending(s) :
              /\ inv'.requisitions[r].status = "confirmed"
              /\ inv.parts[s].stock - inv'.parts[s].stock = inv.requisitions[r].qty]_inv

(***************************************************************************)
(* No stock is promised twice: requests, rechecks, roll-backs, signatures  *)
(* and procurements in any order never take more than is available.  Only  *)
(* a part registered anew can have less in stock than is reserved of it,   *)
(* and nothing is promised of such a part.                                 *)
(***************************************************************************)
NoStockPromisedTwice ==
  [][\A s \in DOMAIN inv.parts :
       Inv!Available(inv'.parts[s]) < Inv!Available(inv.parts[s]) =>
         \/ Inv!Available(inv'.parts[s]) >= 0
         \/ \E n \in StockLevels : RegisterPart(s, n)]_inv
=============================================================================

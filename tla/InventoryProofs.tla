--------------------------- MODULE InventoryProofs ---------------------------
(***************************************************************************)
(* Theorems about the inventory under any calls in any order, for any      *)
(* parts, quantities, callers and bounds.                                  *)
(***************************************************************************)
EXTENDS Inventory, EntityProofs

-----------------------------------------------------------------------------
(***************************************************************************)
(* Every call keeps the inventory well typed, keeps every requisition,     *)
(* settled ones as they are, and signs what it confirms.                   *)
(***************************************************************************)
LEMMA CallEvolves ==
  ASSUME TypeOK, Next
  PROVE  TypeOK' /\ InventoryEvolves(inv, inv')
<1>. USE DEF TypeOK
<1>1. Quantities \in SUBSET Nat /\ StockLevels \subseteq Nat
  BY InventoryAssumption
<1>2. ASSUME NEW s \in SKUs, NEW n \in StockLevels, RegisterPart(s, n)
      PROVE  TypeOK' /\ InventoryEvolves(inv, inv')
  <2>1. inv' = Inv!RegisterPart(inv, s, n) /\ n \in Nat
    BY <1>1, <1>2 DEF RegisterPart
  <2>2. Inv!Typed(inv', Callers, SKUs, Quantities) /\ inv'.requisitions = inv.requisitions
    BY <2>1, RegisterPartTyped
  <2>. QED
    BY <2>2, InventoryEvolvesReflexive
<1>3. ASSUME NEW w \in Callers, NEW s \in SKUs, NEW n \in Quantities,
             SubmitRequisition(w, s, n)
      PROVE  TypeOK' /\ InventoryEvolves(inv, inv')
  <2>1. inv' = Inv!Submit(inv, w, s, n) /\ s \in DOMAIN inv.parts
    BY <1>3 DEF SubmitRequisition, Inv!CanSubmit
  <2>2. Inv!Typed(inv', Callers, SKUs, Quantities) /\ Appends(inv, inv', w)
    BY <1>1, <2>1, SubmitTyped
  <2>. QED
    BY <2>2, AppendedEvolves
<1>4. ASSUME NEW r \in ReqIds, ConfirmRequisition(r)
      PROVE  TypeOK' /\ InventoryEvolves(inv, inv')
  <2>1. Inv!CanConfirm(inv, r) /\ inv' = Inv!Confirm(inv, r)
    BY <1>4 DEF ConfirmRequisition
  <2>2. Inv!Typed(inv', Callers, SKUs, Quantities) /\ TouchesOnly(inv, inv', r)
    BY <1>1, <2>1, ConfirmTyped
  <2>. QED
    BY <2>2, TouchedEvolves
<1>5. ASSUME NEW r \in ReqIds, RollbackRequisition(r) \/ RecheckRequisition(r)
      PROVE  TypeOK' /\ InventoryEvolves(inv, inv')
  <2>1. inv' = Inv!Rollback(inv, r) \/ inv' = Inv!Recheck(inv, r)
    BY <1>5 DEF RollbackRequisition, RecheckRequisition
  <2>2. r \in DOMAIN inv.requisitions
    BY DEF ReqIds
  <2>3. Inv!Typed(inv', Callers, SKUs, Quantities) /\ TouchesOnly(inv, inv', r)
    BY <1>1, <2>1, <2>2, RollbackTyped, RecheckTyped
  <2>. QED
    BY <2>3, TouchedEvolves
<1>6. ASSUME NEW s \in SKUs, NEW n \in Quantities, EmergencyProcurement(s, n)
      PROVE  TypeOK' /\ InventoryEvolves(inv, inv')
  <2>1. inv' = Inv!Procure(inv, s, n) /\ s \in DOMAIN inv.parts
    BY <1>6 DEF EmergencyProcurement
  <2>2. Inv!Typed(inv', Callers, SKUs, Quantities) /\ inv'.requisitions = inv.requisitions
    BY <1>1, <2>1, ProcureTyped
  <2>. QED
    BY <2>2, InventoryEvolvesReflexive
<1>. QED
  BY <1>2, <1>3, <1>4, <1>5, <1>6 DEF Next

LEMMA InventoryInit == Init => TypeOK
<1>1. \A W, S, Q : <<>> \in Seq(Inv!Requisition(W, S, Q))
  OBVIOUS
<1>. QED
  BY <1>1 DEF Init, TypeOK, Inv!Typed, Inv!EmptyInventory

(***************************************************************************)
(* No call leaves a requisition for a part that is not known, nor reserved *)
(* counts below zero.                                                      *)
(***************************************************************************)
THEOREM InventoryTyped == Spec => []TypeOK
<1>1. TypeOK /\ [Next]_inv => TypeOK'
  <2>1. TypeOK /\ UNCHANGED inv => TypeOK'
    BY DEF TypeOK
  <2>. QED
    BY <2>1, CallEvolves
<1>. QED
  BY <1>1, InventoryInit, PTL DEF Spec

SignedInv == \A r \in ReqIds : WellSigned(inv.requisitions[r])

(***************************************************************************)
(* A requisition has the manager's signature if and only if it is          *)
(* confirmed, however calls that repeat, refuse or undo each other come.   *)
(***************************************************************************)
THEOREM DualSigned == Spec => []ConfirmedIsDualSigned
<1>1. Init => SignedInv
  BY DEF Init, SignedInv, ReqIds, Inv!EmptyInventory
<1>2. TypeOK /\ SignedInv /\ [Next]_inv => SignedInv'
  <2>1. TypeOK /\ SignedInv /\ Next => SignedInv'
    BY CallEvolves DEF InventoryEvolves, SignedInv, ReqIds
  <2>2. SignedInv /\ UNCHANGED inv => SignedInv'
    BY DEF SignedInv, ReqIds
  <2>. QED
    BY <2>1, <2>2
<1>3. SignedInv => ConfirmedIsDualSigned
  BY DEF SignedInv, WellSigned, ConfirmedIsDualSigned
<1>. QED
  BY <1>1, <1>2, <1>3, InventoryTyped, PTL DEF Spec

(***************************************************************************)
(* A requisition that is confirmed or rolled back never changes again.     *)
(***************************************************************************)
THEOREM Final == Spec => SettledIsFinal
<1>1. ASSUME TypeOK, [Next]_inv, NEW r \in ReqIds,
             inv.requisitions[r].status \in {"confirmed", "rolled_back"}
      PROVE  inv'.requisitions[r] = inv.requisitions[r]
  <2>1. CASE Next
    BY <1>1, <2>1, CallEvolves DEF InventoryEvolves, Settled, ReqIds
  <2>2. CASE UNCHANGED inv
    BY <2>2
  <2>. QED
    BY <1>1, <2>1, <2>2
<1>2. TypeOK /\ [Next]_inv =>
        [\A r \in ReqIds :
           inv.requisitions[r].status \in {"confirmed", "rolled_back"} =>
             inv'.requisitions[r] = inv.requisitions[r]]_inv
  BY <1>1
<1>. QED
  BY <1>2, InventoryTyped, PTL DEF Spec, SettledIsFinal
-----------------------------------------------------------------------------
(***************************************************************************)
(* What is reserved.                                                       *)
(***************************************************************************)
LEMMA CallBalanced ==
  ASSUME TypeOK, Balanced(inv), [Next]_inv
  PROVE  Balanced(inv')
<1>1. /\ Quantities \in SUBSET Nat /\ StockLevels \subseteq Nat
      /\ Inv!Typed(inv, Callers, SKUs, Quantities)
  BY InventoryAssumption DEF TypeOK
<1>2. ASSUME NEW s \in SKUs, NEW n \in StockLevels, RegisterPart(s, n)
      PROVE  Balanced(inv')
  BY <1>1, <1>2, RegisterPartBalanced DEF RegisterPart
<1>3. ASSUME NEW w \in Callers, NEW s \in SKUs, NEW n \in Quantities,
             SubmitRequisition(w, s, n)
      PROVE  Balanced(inv')
  BY <1>1, <1>3, SubmitBalanced DEF SubmitRequisition, Inv!CanSubmit
<1>4. ASSUME NEW r \in ReqIds, ConfirmRequisition(r)
      PROVE  Balanced(inv')
  BY <1>1, <1>4, ConfirmBalanced DEF ConfirmRequisition
<1>5. ASSUME NEW r \in ReqIds, RollbackRequisition(r) \/ RecheckRequisition(r)
      PROVE  Balanced(inv')
  BY <1>1, <1>5, RollbackBalanced, RecheckBalanced
  DEF RollbackRequisition, RecheckRequisition, ReqIds
<1>6. ASSUME NEW s \in SKUs, NEW n \in Quantities, EmergencyProcurement(s, n)
      PROVE  Balanced(inv')
  BY <1>1, <1>6, ProcureBalanced DEF EmergencyProcurement
<1>. QED
  BY <1>2, <1>3, <1>4, <1>5, <1>6 DEF Next

LEMMA InventoryBalanced == Spec => [](TypeOK /\ Balanced(inv))
<1>1. Init => Balanced(inv)
  BY EmptyBalanced DEF Init
<1>2. TypeOK /\ Balanced(inv) /\ [Next]_inv => Balanced(inv)'
  BY CallBalanced
<1>. QED
  BY <1>1, <1>2, InventoryTyped, PTL DEF Spec

(***************************************************************************)
(* What is reserved of a part is always the sum of what its pending        *)
(* requisitions ask for, however many there are and whatever calls came.   *)
(***************************************************************************)
THEOREM Reserved == Spec => []ReservedIsPending
<1>1. Balanced(inv) => ReservedIsPending
  BY Zenon DEF Balanced, PartBalanced, PendingOf, Asked, ReservedIsPending, Pending, ReqIds
<1>. QED
  BY <1>1, InventoryBalanced, PTL

(***************************************************************************)
(* The manager's signature on a pending requisition is never refused as    *)
(* inconsistent with the reservations.                                     *)
(***************************************************************************)
THEOREM Covered == Spec => []PendingIsCovered
<1>1. TypeOK /\ Balanced(inv) => PendingIsCovered
  BY InventoryAssumption, BalanceCovers DEF TypeOK, PendingIsCovered, ReqIds
<1>. QED
  BY <1>1, InventoryBalanced, PTL

-----------------------------------------------------------------------------
(***************************************************************************)
(* What the calls do to the stock of a part.                               *)
(***************************************************************************)
\* The stock of every part is what it was.
SameStock(iv, new) == \A s \in DOMAIN iv.parts : new.parts[s].stock = iv.parts[s].stock

LEMMA ReserveKeepsStock ==
  ASSUME NEW W, NEW S, NEW Q, NEW iv, Inv!Typed(iv, W, S, Q),
         NEW sku \in DOMAIN iv.parts, NEW n
  PROVE  SameStock(iv, Inv!Reserve(iv, sku, n))
<1>. DEFINE p == [iv.parts[sku] EXCEPT !.reserved = @ + n]
<1>1. p.stock = iv.parts[sku].stock
  BY DEF Inv!Typed, Inv!Part
<1>2. Inv!Reserve(iv, sku, n).parts = [iv.parts EXCEPT ![sku] = p]
  BY DEF Inv!Reserve, Inv!Typed
<1>. HIDE DEF p
<1>. QED
  BY <1>1, <1>2 DEF SameStock

LEMMA RollbackKeepsStock ==
  ASSUME NEW W, NEW S, NEW Q, NEW iv, Inv!Typed(iv, W, S, Q),
         NEW r \in DOMAIN iv.requisitions
  PROVE  SameStock(iv, Inv!Rollback(iv, r))
<1>. DEFINE req  == iv.requisitions[r]
            rest == iv.parts[req.sku].reserved - req.qty
            p    == [iv.parts[req.sku] EXCEPT !.reserved = IF rest < 0 THEN 0 ELSE rest]
<1>1. req.sku \in DOMAIN iv.parts /\ iv.parts[req.sku] \in Inv!Part
  BY RequisitionFields
<1>2. p.stock = iv.parts[req.sku].stock
  BY <1>1 DEF Inv!Part
<1>3. \/ Inv!Rollback(iv, r).parts = iv.parts
      \/ Inv!Rollback(iv, r).parts = [iv.parts EXCEPT ![req.sku] = p]
  BY DEF Inv!Rollback, Inv!Typed
<1>. HIDE DEF req, p
<1>. QED
  BY <1>1, <1>2, <1>3 DEF SameStock

\* A pending requisition is confirmed, and its quantity leaves the warehouse.
HandsOut(iv, new, r) ==
  LET req == iv.requisitions[r] IN
  /\ req.status = "pending"
  /\ new.requisitions[r].status = "confirmed"
  /\ req.sku \in DOMAIN iv.parts
  /\ new.parts[req.sku].stock = iv.parts[req.sku].stock - req.qty
  /\ \A s \in DOMAIN iv.parts : s # req.sku => new.parts[s] = iv.parts[s]

LEMMA SignedStock ==
  ASSUME NEW W, NEW S, NEW Q \in SUBSET Nat, NEW iv, Inv!Typed(iv, W, S, Q),
         NEW r, Inv!CanConfirm(iv, r)
  PROVE  Inv!Confirm(iv, r) = iv \/ HandsOut(iv, Inv!Confirm(iv, r), r)
<1>. DEFINE req == iv.requisitions[r]
            old == iv.parts[req.sku]
            p   == [old EXCEPT !.reserved = @ - req.qty, !.stock = @ - req.qty]
            new == Inv!Confirm(iv, r)
<1>1. CASE req.status = "confirmed"
  BY <1>1 DEF Inv!Confirm
<1>2. CASE req.status # "confirmed"
  <2>1. r \in DOMAIN iv.requisitions /\ req.status = "pending"
    BY <1>2 DEF Inv!CanConfirm
  <2>2. req.sku \in DOMAIN iv.parts /\ old \in Inv!Part
    BY <2>1, RequisitionFields
  <2>3. p.stock = old.stock - req.qty
    BY <2>2 DEF Inv!Part
  <2>4. new.parts = [iv.parts EXCEPT ![req.sku] = p]
    BY <1>2, <2>2 DEF Inv!Confirm, Inv!Typed, Inv!Part
  <2>5. new.requisitions[r].status = "confirmed"
    BY <2>1, ConfirmTyped
  <2>. HIDE DEF req, p, new
  <2>6. /\ new.parts[req.sku] = p
        /\ \A s \in DOMAIN iv.parts : s # req.sku => new.parts[s] = iv.parts[s]
    BY <2>2, <2>4
  <2>. QED
    BY <2>1, <2>2, <2>3, <2>5, <2>6 DEF req, new, HandsOut
<1>. QED
  BY <1>1, <1>2

(***************************************************************************)
(* Stock shrinks only by what a requisition that is confirmed asked for,   *)
(* or because somebody registers the part anew.                            *)
(***************************************************************************)
THEOREM SignedOut == Spec => StockLeavesOnSignature
<1>1. ASSUME TypeOK, Next, NEW s \in DOMAIN inv.parts,
             inv'.parts[s].stock < inv.parts[s].stock
      PROVE  \/ \E n \in StockLevels : RegisterPart(s, n)
             \/ \E r \in Pending(s) :
                  /\ inv'.requisitions[r].status = "confirmed"
                  /\ inv.parts[s].stock - inv'.parts[s].stock = inv.requisitions[r].qty
  <2>1. /\ Quantities \in SUBSET Nat
        /\ Inv!Typed(inv, Callers, SKUs, Quantities)
        /\ inv.parts[s].stock \in Int
    BY <1>1, InventoryAssumption DEF TypeOK, Inv!Typed, Inv!Part
  <2>2. inv'.parts[s].stock # inv.parts[s].stock
    BY <1>1, <2>1
  <2>3. ~SameStock(inv, inv')
    BY <2>2 DEF SameStock
  <2>4. ASSUME NEW z \in SKUs, NEW n \in StockLevels, RegisterPart(z, n)
        PROVE  z = s
    <3>1. z # s => inv'.parts[s] = inv.parts[s]
      BY <2>1, <2>4 DEF RegisterPart, Inv!RegisterPart, Inv!Typed
    <3>. QED
      BY <2>2, <3>1
  <2>5. ASSUME NEW w \in Callers, NEW z \in SKUs, NEW n \in Quantities,
               SubmitRequisition(w, z, n)
        PROVE  FALSE
    <3>1. z \in DOMAIN inv.parts /\ inv' = Inv!Submit(inv, w, z, n)
      BY <2>5 DEF SubmitRequisition, Inv!CanSubmit
    <3>2. inv'.parts = inv.parts \/ inv'.parts = Inv!Reserve(inv, z, n).parts
      BY <2>1, <3>1, ReserveTyped DEF Inv!Submit, Inv!Typed
    <3>3. SameStock(inv, Inv!Reserve(inv, z, n))
      BY <2>1, <3>1, ReserveKeepsStock
    <3>. QED
      BY <2>3, <3>2, <3>3 DEF SameStock
  <2>6. ASSUME NEW r \in ReqIds, RollbackRequisition(r) \/ RecheckRequisition(r)
        PROVE  FALSE
    <3>. DEFINE req == inv.requisitions[r]
    <3>1. r \in DOMAIN inv.requisitions /\ req.sku \in DOMAIN inv.parts /\ req.qty \in Quantities
      BY <2>1, RequisitionFields DEF ReqIds
    <3>2. CASE inv' = Inv!Rollback(inv, r)
      BY <2>1, <2>3, <3>1, <3>2, RollbackKeepsStock
    <3>3. CASE inv' = Inv!Recheck(inv, r)
      <4>1. \/ inv'.parts = inv.parts
            \/ inv'.parts = Inv!Reserve(inv, req.sku, req.qty).parts
        BY <2>1, <3>1, <3>3, ReserveTyped DEF Inv!Recheck, Inv!Typed
      <4>2. SameStock(inv, Inv!Reserve(inv, req.sku, req.qty))
        BY <2>1, <3>1, ReserveKeepsStock
      <4>. QED
        BY <2>3, <4>1, <4>2 DEF SameStock
    <3>. QED
      BY <2>6, <3>2, <3>3 DEF RollbackRequisition, RecheckRequisition
  <2>7. ASSUME NEW z \in SKUs, NEW n \in Quantities, EmergencyProcurement(z, n)
        PROVE  FALSE
    <3>. DEFINE p == [inv.parts[z] EXCEPT !.stock = @ + n]
    <3>1. z \in DOMAIN inv.parts /\ n \in Nat /\ inv' = Inv!Procure(inv, z, n)
      BY <2>1, <2>7 DEF EmergencyProcurement
    <3>2. inv'.parts = [inv.parts EXCEPT ![z] = p]
      BY <2>1, <3>1 DEF Inv!Procure, Inv!Typed
    <3>3. p.stock = inv.parts[z].stock + n
      BY <2>1, <3>1 DEF Inv!Typed, Inv!Part
    <3>. HIDE DEF p
    <3>. QED
      BY <1>1, <2>1, <3>1, <3>2, <3>3
  <2>8. ASSUME NEW r \in ReqIds, ConfirmRequisition(r)
        PROVE  /\ r \in Pending(s)
               /\ inv'.requisitions[r].status = "confirmed"
               /\ inv.parts[s].stock - inv'.parts[s].stock = inv.requisitions[r].qty
    <3>. DEFINE req == inv.requisitions[r]
    <3>1. Inv!CanConfirm(inv, r) /\ inv' = Inv!Confirm(inv, r)
      BY <2>8 DEF ConfirmRequisition
    <3>2. /\ req.status = "pending"
          /\ inv'.requisitions[r].status = "confirmed"
          /\ inv'.parts[req.sku].stock = inv.parts[req.sku].stock - req.qty
          /\ s # req.sku => inv'.parts[s] = inv.parts[s]
      <4>1. inv' = inv \/ HandsOut(inv, inv', r)
        BY <2>1, <3>1, SignedStock
      <4>. QED
        BY <2>2, <4>1 DEF HandsOut
    <3>3. req.qty \in Nat /\ s = req.sku
      BY <2>1, <2>2, <3>2, RequisitionFields DEF ReqIds
    <3>. QED
      BY <2>1, <3>2, <3>3 DEF Pending
  <2>. QED
    BY <1>1, <2>4, <2>5, <2>6, <2>7, <2>8 DEF Next
<1>2. TypeOK /\ [Next]_inv =>
        [\A s \in DOMAIN inv.parts :
           inv'.parts[s].stock < inv.parts[s].stock =>
             \/ \E n \in StockLevels : RegisterPart(s, n)
             \/ \E r \in Pending(s) :
                  /\ inv'.requisitions[r].status = "confirmed"
                  /\ inv.parts[s].stock - inv'.parts[s].stock = inv.requisitions[r].qty]_inv
  BY <1>1
<1>. QED
  BY <1>2, InventoryTyped, PTL DEF Spec, StockLeavesOnSignature
-----------------------------------------------------------------------------
(***************************************************************************)
(* What the calls do to what is available of a part.                       *)
(***************************************************************************)
\* Nothing that is not there is promised.
KeepsPromises(iv, new) ==
  \A s \in DOMAIN iv.parts :
    Inv!Available(new.parts[s]) < Inv!Available(iv.parts[s]) =>
      Inv!Available(new.parts[s]) >= 0

LEMMA PromisesReplaced ==
  ASSUME NEW iv, NEW new, NEW sku \in DOMAIN iv.parts, NEW p,
         \A s \in DOMAIN iv.parts : iv.parts[s] \in Inv!Part,
         new.parts = [iv.parts EXCEPT ![sku] = p],
         Inv!Available(p) \in Int,
         Inv!Available(p) >= Inv!Available(iv.parts[sku]) \/ Inv!Available(p) >= 0
  PROVE  KeepsPromises(iv, new)
<1>1. ASSUME NEW s \in DOMAIN iv.parts
      PROVE  Inv!Available(new.parts[s]) < Inv!Available(iv.parts[s]) =>
               Inv!Available(new.parts[s]) >= 0
  <2>1. CASE s = sku
    <3>1. new.parts[s] = p
      BY <2>1
    <3>2. Inv!Available(iv.parts[s]) \in Int
      BY DEF Inv!Available, Inv!Part
    <3>. QED
      BY <2>1, <3>1, <3>2
  <2>2. CASE s # sku
    <3>1. new.parts[s] = iv.parts[s]
      BY <2>2
    <3>2. Inv!Available(iv.parts[s]) \in Int
      BY DEF Inv!Available, Inv!Part
    <3>. QED
      BY <3>1, <3>2
  <2>. QED
    BY <2>1, <2>2
<1>. QED
  BY <1>1 DEF KeepsPromises

LEMMA PromisesUnchanged ==
  ASSUME NEW iv, NEW new, new.parts = iv.parts,
         \A s \in DOMAIN iv.parts : iv.parts[s] \in Inv!Part
  PROVE  KeepsPromises(iv, new)
BY DEF KeepsPromises, Inv!Available, Inv!Part

\* A reservation takes no more than is available.
LEMMA ReservePromises ==
  ASSUME NEW W, NEW S, NEW Q, NEW iv, Inv!Typed(iv, W, S, Q),
         NEW sku \in DOMAIN iv.parts, NEW n \in Nat, Inv!CanReserve(iv, sku, n)
  PROVE  KeepsPromises(iv, Inv!Reserve(iv, sku, n))
<1>. DEFINE p == [iv.parts[sku] EXCEPT !.reserved = @ + n]
<1>1. \A s \in DOMAIN iv.parts : iv.parts[s] \in Inv!Part
  BY DEF Inv!Typed
<1>2. Inv!Available(p) \in Int /\ Inv!Available(p) >= 0
  BY <1>1 DEF Inv!Part, Inv!Available, Inv!CanReserve
<1>3. Inv!Reserve(iv, sku, n).parts = [iv.parts EXCEPT ![sku] = p]
  BY DEF Inv!Reserve, Inv!Typed
<1>. HIDE DEF p
<1>. QED
  BY <1>1, <1>2, <1>3, PromisesReplaced

\* The manager's signature and a roll-back take nothing from what is available.
LEMMA SettledPromises ==
  ASSUME NEW W, NEW S, NEW Q \in SUBSET Nat, NEW iv, Inv!Typed(iv, W, S, Q),
         NEW r \in DOMAIN iv.requisitions
  PROVE  /\ KeepsPromises(iv, Inv!Confirm(iv, r))
         /\ KeepsPromises(iv, Inv!Rollback(iv, r))
<1>. DEFINE req  == iv.requisitions[r]
            old  == iv.parts[req.sku]
            rest == old.reserved - req.qty
            p    == [old EXCEPT !.reserved = @ - req.qty, !.stock = @ - req.qty]
            q    == [old EXCEPT !.reserved = IF rest < 0 THEN 0 ELSE rest]
<1>1. /\ req.sku \in DOMAIN iv.parts /\ req.qty \in Nat /\ old \in Inv!Part
      /\ \A s \in DOMAIN iv.parts : iv.parts[s] \in Inv!Part
  BY RequisitionFields DEF Inv!Typed
<1>2. Inv!Available(p) \in Int /\ Inv!Available(p) >= Inv!Available(old)
  BY <1>1 DEF Inv!Part, Inv!Available
<1>3. Inv!Available(q) \in Int /\ Inv!Available(q) >= Inv!Available(old)
  BY <1>1 DEF Inv!Part, Inv!Available
<1>4. \/ Inv!Confirm(iv, r).parts = iv.parts
      \/ Inv!Confirm(iv, r).parts = [iv.parts EXCEPT ![req.sku] = p]
  BY <1>1 DEF Inv!Confirm, Inv!Typed, Inv!Part
<1>5. \/ Inv!Rollback(iv, r).parts = iv.parts
      \/ Inv!Rollback(iv, r).parts = [iv.parts EXCEPT ![req.sku] = q]
  BY DEF Inv!Rollback, Inv!Typed
<1>. HIDE DEF req, p, q
<1>6. KeepsPromises(iv, Inv!Confirm(iv, r))
  <2>1. CASE Inv!Confirm(iv, r).parts = iv.parts
    BY <1>1, <2>1, PromisesUnchanged
  <2>2. CASE Inv!Confirm(iv, r).parts = [iv.parts EXCEPT ![req.sku] = p]
    BY <1>1, <1>2, <2>2, PromisesReplaced
  <2>. QED
    BY <1>4, <2>1, <2>2
<1>7. KeepsPromises(iv, Inv!Rollback(iv, r))
  <2>1. CASE Inv!Rollback(iv, r).parts = iv.parts
    BY <1>1, <2>1, PromisesUnchanged
  <2>2. CASE Inv!Rollback(iv, r).parts = [iv.parts EXCEPT ![req.sku] = q]
    BY <1>1, <1>3, <2>2, PromisesReplaced
  <2>. QED
    BY <1>5, <2>1, <2>2
<1>. QED
  BY <1>6, <1>7

(***************************************************************************)
(* No stock is promised twice, whatever the calls and their order: only a  *)
(* part registered anew can have less in stock than is reserved of it.     *)
(***************************************************************************)
THEOREM PromisedOnce == Spec => NoStockPromisedTwice
<1>1. ASSUME TypeOK, Next, NEW s \in DOMAIN inv.parts,
             Inv!Available(inv'.parts[s]) < Inv!Available(inv.parts[s])
      PROVE  \/ Inv!Available(inv'.parts[s]) >= 0
             \/ \E n \in StockLevels : RegisterPart(s, n)
  <2>1. /\ Quantities \in SUBSET Nat
        /\ Inv!Typed(inv, Callers, SKUs, Quantities)
        /\ \A z \in DOMAIN inv.parts : inv.parts[z] \in Inv!Part
        /\ Inv!Available(inv.parts[s]) \in Int
    BY <1>1, InventoryAssumption DEF TypeOK, Inv!Typed, Inv!Part, Inv!Available
  <2>3. ASSUME KeepsPromises(inv, inv') PROVE Inv!Available(inv'.parts[s]) >= 0
    BY <1>1, <2>3 DEF KeepsPromises
  <2>4. ASSUME NEW z \in SKUs, NEW n \in StockLevels, RegisterPart(z, n)
        PROVE  z = s
    <3>1. z # s => inv'.parts[s] = inv.parts[s]
      BY <2>1, <2>4 DEF RegisterPart, Inv!RegisterPart, Inv!Typed
    <3>. QED
      BY <1>1, <2>1, <3>1
  <2>5. ASSUME NEW w \in Callers, NEW z \in SKUs, NEW n \in Quantities,
               SubmitRequisition(w, z, n)
        PROVE  KeepsPromises(inv, inv')
    <3>1. z \in DOMAIN inv.parts /\ inv' = Inv!Submit(inv, w, z, n) /\ n \in Nat
      BY <2>1, <2>5 DEF SubmitRequisition, Inv!CanSubmit
    <3>2. \/ inv'.parts = inv.parts
          \/ Inv!CanReserve(inv, z, n) /\ inv'.parts = Inv!Reserve(inv, z, n).parts
      BY <2>1, <3>1, ReserveTyped DEF Inv!Submit, Inv!Typed
    <3>. QED
      BY <2>1, <3>1, <3>2, ReservePromises, PromisesUnchanged DEF KeepsPromises
  <2>6. ASSUME NEW r \in ReqIds,
               ConfirmRequisition(r) \/ RollbackRequisition(r) \/ RecheckRequisition(r)
        PROVE  KeepsPromises(inv, inv')
    <3>. DEFINE req == inv.requisitions[r]
    <3>1. /\ r \in DOMAIN inv.requisitions /\ req.sku \in DOMAIN inv.parts
          /\ req.qty \in Quantities /\ req.qty \in Nat
      BY <2>1, RequisitionFields DEF ReqIds
    <3>2. CASE ConfirmRequisition(r) \/ RollbackRequisition(r)
      BY <2>1, <3>1, <3>2, SettledPromises DEF ConfirmRequisition, RollbackRequisition
    <3>3. CASE RecheckRequisition(r)
      <4>1. \/ inv'.parts = inv.parts
            \/ /\ Inv!CanReserve(inv, req.sku, req.qty)
               /\ inv'.parts = Inv!Reserve(inv, req.sku, req.qty).parts
        BY <2>1, <3>1, <3>3, ReserveTyped DEF RecheckRequisition, Inv!Recheck, Inv!Typed
      <4>. QED
        BY <2>1, <3>1, <4>1, ReservePromises, PromisesUnchanged DEF KeepsPromises
    <3>. QED
      BY <2>6, <3>2, <3>3
  <2>7. ASSUME NEW z \in SKUs, NEW n \in Quantities, EmergencyProcurement(z, n)
        PROVE  KeepsPromises(inv, inv')
    <3>. DEFINE p == [inv.parts[z] EXCEPT !.stock = @ + n]
    <3>1. z \in DOMAIN inv.parts /\ n \in Nat /\ inv' = Inv!Procure(inv, z, n)
      BY <2>1, <2>7 DEF EmergencyProcurement
    <3>2. inv'.parts = [inv.parts EXCEPT ![z] = p]
      BY <2>1, <3>1 DEF Inv!Procure, Inv!Typed
    <3>3. Inv!Available(p) \in Int /\ Inv!Available(p) >= Inv!Available(inv.parts[z])
      BY <2>1, <3>1 DEF Inv!Part, Inv!Available
    <3>. HIDE DEF p
    <3>. QED
      BY <2>1, <3>1, <3>2, <3>3, PromisesReplaced
  <2>. QED
    BY <1>1, <2>3, <2>4, <2>5, <2>6, <2>7 DEF Next
<1>2. TypeOK /\ [Next]_inv =>
        [\A s \in DOMAIN inv.parts :
           Inv!Available(inv'.parts[s]) < Inv!Available(inv.parts[s]) =>
             \/ Inv!Available(inv'.parts[s]) >= 0
             \/ \E n \in StockLevels : RegisterPart(s, n)]_inv
  BY <1>1
<1>. QED
  BY <1>2, InventoryTyped, PTL DEF Spec, NoStockPromisedTwice
=============================================================================

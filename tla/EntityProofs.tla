----------------------------- MODULE EntityProofs -----------------------------
(***************************************************************************)
(* Lemmas about the operations on work orders, cabins and the inventory,   *)
(* for every value of their arguments.                                     *)
(***************************************************************************)
EXTENDS Entities, SequenceTheorems, FiniteSetTheorems, TLAPS

-----------------------------------------------------------------------------
(***************************************************************************)
(* Sequences.                                                              *)
(***************************************************************************)

\* Changing one entry of a sequence.
LEMMA ReplaceEntry ==
  ASSUME NEW S, NEW s \in Seq(S), NEW i \in DOMAIN s, NEW e \in S
  PROVE  /\ [s EXCEPT ![i] = e] \in Seq(S)
         /\ DOMAIN [s EXCEPT ![i] = e] = DOMAIN s
         /\ Len([s EXCEPT ![i] = e]) = Len(s)
         /\ [s EXCEPT ![i] = e][i] = e
         /\ \A j \in DOMAIN s : j # i => [s EXCEPT ![i] = e][j] = s[j]
BY ExceptSeq, LenProperties

\* The entries of a sequence.
LEMMA EntryOf ==
  ASSUME NEW S, NEW s \in Seq(S), NEW i \in DOMAIN s
  PROVE  s[i] \in S /\ i \in Nat
BY ElementOfSeq, LenProperties

\* A sequence over a set is a sequence over a larger one.
LEMMA SeqMonotone ==
  ASSUME NEW S, NEW T, S \subseteq T, NEW s \in Seq(S)
  PROVE  s \in Seq(T)
<1>1. s \in [1..Len(s) -> S] /\ Len(s) \in Nat
  BY LenProperties
<1>2. s \in [1..Len(s) -> T]
  BY <1>1
<1>. QED
  BY <1>1, <1>2

-----------------------------------------------------------------------------
(***************************************************************************)
(* Sums over finite sets.  What a fold computes is proved from a smallest  *)
(* counterexample: the strict subsets of a finite set are well founded.    *)
(***************************************************************************)
LEMMA SmallestSet ==
  ASSUME NEW S, IsFiniteSet(S), NEW B, B \subseteq SUBSET S, B # {}
  PROVE  \E T \in B : \A U \in B : U \subseteq T => U = T
<1>1. IsWellFoundedOn(StrictSubsetOrdering(S), FiniteSubsetsOf(S))
  BY FS_StrictSubsetOrderingWellFounded
<1>2. B \subseteq FiniteSubsetsOf(S)
  BY FS_Subset DEF FiniteSubsetsOf
<1>3. PICK T \in B : \A U \in B : ~(<<U, T>> \in StrictSubsetOrdering(S))
  BY <1>1, <1>2, WFMin
<1>4. ASSUME NEW U \in B, U \subseteq T, U # T PROVE FALSE
  BY <1>3, <1>4 DEF StrictSubsetOrdering
<1>. QED
  BY <1>4

\* The element a fold takes out of a set next, and what its recursion computes.
Chosen(S) == CHOOSE x \in S : TRUE

SumStep(g, f, T) == IF T = {} THEN 0 ELSE f[Chosen(T)] + g[T \ {Chosen(T)}]

IsSum(g, f, S) == g = [T \in SUBSET S |-> SumStep(g, f, T)]

LEMMA SumIsChosen ==
  ASSUME NEW f, NEW S
  PROVE  SumFunctionOnSet(f, S) = (CHOOSE g : IsSum(g, f, S))[S]
BY Zenon DEF SumFunctionOnSet, FoldFunctionOnSet, MapThenFoldSet, IsSum, SumStep, Chosen

LEMMA ChosenIn ==
  ASSUME NEW S, S # {}
  PROVE  Chosen(S) \in S
BY DEF Chosen

\* Two such functions agree where both are defined.
LEMMA SumUnique ==
  ASSUME NEW f, NEW S, IsFiniteSet(S), NEW V,
         NEW g, NEW h, IsSum(g, f, S), IsSum(h, f, V)
  PROVE  \A T \in (SUBSET S) \cap (SUBSET V) : g[T] = h[T]
<1>. DEFINE B == {T \in (SUBSET S) \cap (SUBSET V) : g[T] # h[T]}
<1>1. SUFFICES ASSUME B # {} PROVE FALSE
  OBVIOUS
<1>2. PICK T \in B : \A U \in B : U \subseteq T => U = T
  <2>1. B \subseteq SUBSET S
    OBVIOUS
  <2>. HIDE DEF B
  <2>. QED
    BY <1>1, <2>1, SmallestSet
<1>3. T \in SUBSET S /\ T \in SUBSET V /\ g[T] # h[T]
  BY <1>2
<1>4. g[T] = SumStep(g, f, T) /\ h[T] = SumStep(h, f, T)
  BY <1>3 DEF IsSum
<1>5. CASE T = {}
  BY <1>3, <1>4, <1>5 DEF SumStep
<1>6. CASE T # {}
  <2>1. Chosen(T) \in T
    BY <1>6, ChosenIn
  <2>2. g[T \ {Chosen(T)}] = h[T \ {Chosen(T)}]
    BY <1>2, <1>3, <2>1
  <2>. QED
    BY <1>3, <1>4, <1>6, <2>2 DEF SumStep
<1>. QED
  BY <1>5, <1>6

\* There is one for every finite set, so the sum is what the recursion says.
LEMMA SumExists ==
  ASSUME NEW f, NEW S, IsFiniteSet(S)
  PROVE  \E g : IsSum(g, f, S)
<1>. DEFINE B == {T \in SUBSET S : ~ \E g : IsSum(g, f, T)}
            V(T) == (CHOOSE g : IsSum(g, f, T))[T]
<1>1. SUFFICES ASSUME B # {} PROVE FALSE
  OBVIOUS
<1>2. PICK T \in B : \A U \in B : U \subseteq T => U = T
  <2>1. B \subseteq SUBSET S
    OBVIOUS
  <2>. HIDE DEF B
  <2>. QED
    BY <1>1, <2>1, SmallestSet
<1>3. T \in SUBSET S /\ ~ \E g : IsSum(g, f, T)
  BY <1>2
<1>4. ASSUME NEW U \in SUBSET T, U # T
      PROVE  IsSum(CHOOSE g : IsSum(g, f, U), f, U) /\ IsFiniteSet(U)
  <2>1. U \in SUBSET S /\ IsFiniteSet(U)
    BY <1>3, FS_Subset
  <2>2. \E g : IsSum(g, f, U)
    BY <1>2, <1>4, <2>1
  <2>. QED
    BY <2>1, <2>2
<1>. DEFINE h == [U \in SUBSET T |->
                    IF U = {} THEN 0 ELSE f[Chosen(U)] + V(U \ {Chosen(U)})]
<1>5. ASSUME NEW U \in SUBSET T, U # T
      PROVE  h[U] = V(U)
  <2>. DEFINE g == CHOOSE g : IsSum(g, f, U)
              W == U \ {Chosen(U)}
  <2>1. IsSum(g, f, U) /\ IsFiniteSet(U)
    BY <1>4, <1>5
  <2>2. g[U] = SumStep(g, f, U)
    BY <2>1 DEF IsSum
  <2>3. CASE U = {}
    BY <2>2, <2>3 DEF SumStep
  <2>4. CASE U # {}
    <3>1. W \in SUBSET T /\ W # T /\ W \in SUBSET U
      BY <1>5
    <3>2. IsSum(CHOOSE gg : IsSum(gg, f, W), f, W)
      BY <1>4, <3>1
    <3>3. g[W] = V(W)
      <4>1. W \in (SUBSET U) \cap (SUBSET W)
        BY <3>1
      <4>. HIDE DEF W, g
      <4>. QED
        BY <2>1, <3>2, <4>1, SumUnique
    <3>4. g[U] = f[Chosen(U)] + g[W]
      BY <2>2, <2>4 DEF SumStep
    <3>. QED
      BY <2>4, <3>3, <3>4
  <2>. QED
    BY <2>3, <2>4
<1>6. \A U \in SUBSET T : h[U] = SumStep(h, f, U)
  <2>1. ASSUME NEW U \in SUBSET T, U # {}
        PROVE  h[U \ {Chosen(U)}] = V(U \ {Chosen(U)})
    <3>1. Chosen(U) \in U
      BY <2>1, ChosenIn
    <3>2. U \ {Chosen(U)} \in SUBSET T /\ U \ {Chosen(U)} # T
      BY <3>1
    <3>. HIDE DEF h, V
    <3>. QED
      BY <1>5, <3>2
  <2>2. ASSUME NEW U \in SUBSET T
        PROVE  h[U] = IF U = {} THEN 0 ELSE f[Chosen(U)] + V(U \ {Chosen(U)})
    OBVIOUS
  <2>. HIDE DEF h, V
  <2>. QED
    BY <2>1, <2>2 DEF SumStep
<1>7. IsSum(h, f, T)
  <2>1. h = [U \in SUBSET T |-> h[U]]
    OBVIOUS
  <2>. HIDE DEF h
  <2>. QED
    BY <1>6, <2>1 DEF IsSum
<1>. QED
  BY <1>3, <1>7

LEMMA SumUnfolds ==
  ASSUME NEW f, NEW S, IsFiniteSet(S)
  PROVE  SumFunctionOnSet(f, S)
           = IF S = {} THEN 0
             ELSE f[Chosen(S)] + SumFunctionOnSet(f, S \ {Chosen(S)})
<1>. DEFINE g == CHOOSE g : IsSum(g, f, S)
            W == S \ {Chosen(S)}
            k == CHOOSE k : IsSum(k, f, W)
<1>1. IsSum(g, f, S)
  BY SumExists
<1>2. IsSum(k, f, W)
  <2>1. IsFiniteSet(W)
    BY FS_RemoveElement
  <2>. QED
    BY <2>1, SumExists
<1>3. g[S] = SumStep(g, f, S)
  BY <1>1 DEF IsSum
<1>4. g[W] = k[W]
  <2>1. W \in (SUBSET S) \cap (SUBSET W)
    OBVIOUS
  <2>. HIDE DEF W, g, k
  <2>. QED
    BY <1>1, <1>2, <2>1, SumUnique
<1>5. SumFunctionOnSet(f, S) = g[S] /\ SumFunctionOnSet(f, W) = k[W]
  BY SumIsChosen
<1>. QED
  BY <1>3, <1>4, <1>5 DEF SumStep

\* A sum of natural numbers is one.
LEMMA SumNat ==
  ASSUME NEW S, IsFiniteSet(S), NEW f, \A x \in S : f[x] \in Nat
  PROVE  SumFunctionOnSet(f, S) \in Nat
<1>. DEFINE B == {T \in SUBSET S : SumFunctionOnSet(f, T) \notin Nat}
<1>1. SUFFICES ASSUME B # {} PROVE FALSE
  OBVIOUS
<1>2. PICK T \in B : \A U \in B : U \subseteq T => U = T
  <2>1. B \subseteq SUBSET S
    OBVIOUS
  <2>. HIDE DEF B
  <2>. QED
    BY <1>1, <2>1, SmallestSet
<1>3. T \in SUBSET S /\ IsFiniteSet(T) /\ SumFunctionOnSet(f, T) \notin Nat
  BY <1>2, FS_Subset
<1>. DEFINE W == T \ {Chosen(T)}
<1>4. /\ T # {}
      /\ SumFunctionOnSet(f, T) = f[Chosen(T)] + SumFunctionOnSet(f, W)
  BY <1>3, SumUnfolds
<1>5. Chosen(T) \in T
  BY <1>4, ChosenIn
<1>6. SumFunctionOnSet(f, W) \in Nat
  BY <1>2, <1>3, <1>5
<1>7. f[Chosen(T)] \in Nat
  BY <1>3, <1>5
<1>. HIDE DEF W
<1>. QED
  BY <1>3, <1>4, <1>6, <1>7

\* It does not matter in which order the terms are taken.
LEMMA SumRemove ==
  ASSUME NEW S, IsFiniteSet(S), NEW f, \A x \in S : f[x] \in Nat, NEW x \in S
  PROVE  SumFunctionOnSet(f, S) = f[x] + SumFunctionOnSet(f, S \ {x})
<1>. DEFINE Sum(T) == SumFunctionOnSet(f, T)
            B == {T \in SUBSET S : \E y \in T : Sum(T) # f[y] + Sum(T \ {y})}
<1>1. SUFFICES ASSUME B # {} PROVE FALSE
  OBVIOUS
<1>2. PICK T \in B : \A U \in B : U \subseteq T => U = T
  <2>1. B \subseteq SUBSET S
    OBVIOUS
  <2>. HIDE DEF B
  <2>. QED
    BY <1>1, <2>1, SmallestSet
<1>3. PICK y \in T : Sum(T) # f[y] + Sum(T \ {y})
  BY <1>2
<1>4. T \in SUBSET S /\ \A U \in SUBSET T : IsFiniteSet(U)
  BY <1>2, FS_Subset
<1>. DEFINE c == Chosen(T)
<1>5. c \in T /\ Sum(T) = f[c] + Sum(T \ {c})
  BY <1>4, ChosenIn, SumUnfolds
<1>. HIDE DEF Sum, c
<1>6. c # y
  BY <1>3, <1>5
<1>7. Sum(T \ {c}) = f[y] + Sum((T \ {c}) \ {y})
  <2>1. T \ {c} \in SUBSET S /\ T \ {c} \notin B /\ y \in T \ {c}
    BY <1>2, <1>4, <1>5, <1>6
  <2>. QED
    BY <2>1
<1>8. Sum(T \ {y}) = f[c] + Sum((T \ {y}) \ {c})
  <2>1. T \ {y} \in SUBSET S /\ T \ {y} \notin B /\ c \in T \ {y}
    BY <1>2, <1>4, <1>5, <1>6
  <2>. QED
    BY <2>1
<1>9. Sum((T \ {y}) \ {c}) = Sum((T \ {c}) \ {y})
  <2>1. (T \ {y}) \ {c} = (T \ {c}) \ {y}
    OBVIOUS
  <2>. QED
    BY Zenon, <2>1
<1>10. f[y] \in Nat /\ f[c] \in Nat /\ Sum((T \ {c}) \ {y}) \in Nat
  <2>1. (T \ {c}) \ {y} \in SUBSET T /\ \A z \in (T \ {c}) \ {y} : f[z] \in Nat
    BY <1>4
  <2>. QED
    BY <1>4, <1>5, <2>1, SumNat DEF Sum
<1>. QED
  BY <1>3, <1>5, <1>7, <1>8, <1>9, <1>10

\* A sum depends only on the terms it adds up.
LEMMA SumSame ==
  ASSUME NEW S, IsFiniteSet(S), NEW f, NEW g, \A x \in S : f[x] = g[x]
  PROVE  SumFunctionOnSet(f, S) = SumFunctionOnSet(g, S)
<1>. DEFINE B == {T \in SUBSET S : SumFunctionOnSet(f, T) # SumFunctionOnSet(g, T)}
<1>1. SUFFICES ASSUME B # {} PROVE FALSE
  OBVIOUS
<1>2. PICK T \in B : \A U \in B : U \subseteq T => U = T
  <2>1. B \subseteq SUBSET S
    OBVIOUS
  <2>. HIDE DEF B
  <2>. QED
    BY <1>1, <2>1, SmallestSet
<1>3. /\ T \in SUBSET S /\ IsFiniteSet(T)
      /\ SumFunctionOnSet(f, T) # SumFunctionOnSet(g, T)
  BY <1>2, FS_Subset
<1>. DEFINE W == T \ {Chosen(T)}
<1>4. /\ T # {}
      /\ SumFunctionOnSet(f, T) = f[Chosen(T)] + SumFunctionOnSet(f, W)
      /\ SumFunctionOnSet(g, T) = g[Chosen(T)] + SumFunctionOnSet(g, W)
  BY <1>3, SumUnfolds
<1>5. Chosen(T) \in T
  BY <1>4, ChosenIn
<1>6. SumFunctionOnSet(f, W) = SumFunctionOnSet(g, W)
  BY <1>2, <1>3, <1>5
<1>. QED
  BY <1>3, <1>4, <1>5, <1>6

LEMMA SumEmpty == \A f : SumFunctionOnSet(f, {}) = 0
BY FS_EmptySet, SumUnfolds

\* A sum covers each of its terms.
LEMMA SumCovers ==
  ASSUME NEW S, IsFiniteSet(S), NEW f, \A x \in S : f[x] \in Nat, NEW x \in S
  PROVE  SumFunctionOnSet(f, S) >= f[x]
<1>1. SumFunctionOnSet(f, S) = f[x] + SumFunctionOnSet(f, S \ {x})
  BY SumRemove
<1>2. SumFunctionOnSet(f, S \ {x}) \in Nat
  BY FS_RemoveElement, SumNat
<1>. QED
  BY <1>1, <1>2

-----------------------------------------------------------------------------
(***************************************************************************)
(* The inventory.  Every operation keeps it well typed; it changes neither *)
(* which parts are known nor, Submit aside, which requisitions there are.  *)
(***************************************************************************)

\* Changing one part.
LEMMA PartReplaced ==
  ASSUME NEW W, NEW S, NEW Q, NEW iv, Inv!Typed(iv, W, S, Q),
         NEW sku \in DOMAIN iv.parts, NEW p \in Inv!Part
  PROVE  LET new == [iv EXCEPT !.parts = [@ EXCEPT ![sku] = p]]
         IN  /\ Inv!Typed(new, W, S, Q)
             /\ DOMAIN new.parts = DOMAIN iv.parts
             /\ new.requisitions = iv.requisitions
BY DEF Inv!Typed

\* Changing one requisition.
LEMMA RequisitionReplaced ==
  ASSUME NEW W, NEW S, NEW Q, NEW iv, Inv!Typed(iv, W, S, Q),
         NEW r \in DOMAIN iv.requisitions,
         NEW q \in Inv!Requisition(W, DOMAIN iv.parts, Q)
  PROVE  LET new == [iv EXCEPT !.requisitions = [@ EXCEPT ![r] = q]]
         IN  /\ Inv!Typed(new, W, S, Q)
             /\ new.parts = iv.parts
             /\ DOMAIN new.requisitions = DOMAIN iv.requisitions
             /\ new.requisitions[r] = q
             /\ \A j \in DOMAIN iv.requisitions :
                  j # r => new.requisitions[j] = iv.requisitions[j]
<1>1. iv.requisitions \in Seq(Inv!Requisition(W, DOMAIN iv.parts, Q))
  BY DEF Inv!Typed
<1>2. [iv.requisitions EXCEPT ![r] = q] \in Seq(Inv!Requisition(W, DOMAIN iv.parts, Q))
  BY <1>1, ReplaceEntry
<1>. QED
  BY SMTT(30), <1>1, <1>2, ReplaceEntry DEF Inv!Typed

\* EmergencyProcurement.
LEMMA ProcureTyped ==
  ASSUME NEW W, NEW S, NEW Q \in SUBSET Nat, NEW iv, Inv!Typed(iv, W, S, Q),
         NEW sku \in DOMAIN iv.parts, NEW n \in Q
  PROVE  /\ Inv!Typed(Inv!Procure(iv, sku, n), W, S, Q)
         /\ DOMAIN Inv!Procure(iv, sku, n).parts = DOMAIN iv.parts
         /\ Inv!Procure(iv, sku, n).requisitions = iv.requisitions
<1>1. iv.parts[sku] \in Inv!Part
  BY DEF Inv!Typed
<1>. DEFINE p == [iv.parts[sku] EXCEPT !.stock = @ + n]
<1>2. p \in Inv!Part
  BY <1>1 DEF Inv!Part
<1>3. Inv!Procure(iv, sku, n) = [iv EXCEPT !.parts = [@ EXCEPT ![sku] = p]]
  BY DEF Inv!Procure, Inv!Typed
<1>. HIDE DEF p
<1>. QED
  BY <1>2, <1>3, PartReplaced

\* Reserve.
LEMMA ReserveTyped ==
  ASSUME NEW W, NEW S, NEW Q \in SUBSET Nat, NEW iv, Inv!Typed(iv, W, S, Q),
         NEW sku \in DOMAIN iv.parts, NEW n \in Q
  PROVE  /\ Inv!Typed(Inv!Reserve(iv, sku, n), W, S, Q)
         /\ DOMAIN Inv!Reserve(iv, sku, n).parts = DOMAIN iv.parts
         /\ Inv!Reserve(iv, sku, n).requisitions = iv.requisitions
<1>1. iv.parts[sku] \in Inv!Part
  BY DEF Inv!Typed
<1>. DEFINE p == [iv.parts[sku] EXCEPT !.reserved = @ + n]
<1>2. p \in Inv!Part
  BY <1>1 DEF Inv!Part
<1>3. Inv!Reserve(iv, sku, n) = [iv EXCEPT !.parts = [@ EXCEPT ![sku] = p]]
  BY DEF Inv!Reserve, Inv!Typed
<1>. HIDE DEF p
<1>. QED
  BY <1>2, <1>3, PartReplaced

\* RegisterPart: the known parts grow, so old requisitions keep theirs.
LEMMA RegisterPartTyped ==
  ASSUME NEW W, NEW S, NEW Q, NEW iv, Inv!Typed(iv, W, S, Q),
         NEW sku \in S, NEW n \in Nat
  PROVE  /\ Inv!Typed(Inv!RegisterPart(iv, sku, n), W, S, Q)
         /\ Inv!RegisterPart(iv, sku, n).requisitions = iv.requisitions
<1>. DEFINE new   == Inv!RegisterPart(iv, sku, n)
            known == DOMAIN iv.parts \cup {sku}
<1>1. /\ new = [parts |-> new.parts, requisitions |-> iv.requisitions]
      /\ DOMAIN new.parts = known
      /\ \A t \in known : new.parts[t] \in Inv!Part
  BY DEF Inv!Typed, Inv!RegisterPart, Inv!Part
<1>2. iv.requisitions \in Seq(Inv!Requisition(W, known, Q))
  <2>1. Inv!Requisition(W, DOMAIN iv.parts, Q) \subseteq Inv!Requisition(W, known, Q)
    BY DEF Inv!Requisition
  <2>. QED
    BY <2>1, SeqMonotone DEF Inv!Typed
<1>3. known \subseteq S
  BY DEF Inv!Typed
<1>. HIDE DEF new, known
<1>. QED
  BY <1>1, <1>2, <1>3 DEF Inv!Typed, new

\* A requisition's fields, and the part it is for.
LEMMA RequisitionFields ==
  ASSUME NEW W, NEW S, NEW Q, NEW iv, Inv!Typed(iv, W, S, Q),
         NEW r \in DOMAIN iv.requisitions
  PROVE  /\ iv.requisitions[r] \in Inv!Requisition(W, DOMAIN iv.parts, Q)
         /\ iv.requisitions[r].sku \in DOMAIN iv.parts
         /\ iv.requisitions[r].qty \in Q
         /\ iv.parts[iv.requisitions[r].sku] \in Inv!Part
<1>1. iv.requisitions[r] \in Inv!Requisition(W, DOMAIN iv.parts, Q)
  BY EntryOf DEF Inv!Typed
<1>. QED
  BY <1>1 DEF Inv!Requisition, Inv!Typed

\* Signed by the manager if and only if confirmed.
WellSigned(q) == q.managerSigned <=> q.status = "confirmed"

Settled(q) == q.status \in {"confirmed", "rolled_back"}

\* SubmitRequisition: one more requisition, of the submitter, the others as they were.
Appends(iv, new, w) ==
  LET r == Len(iv.requisitions) + 1 IN
  /\ DOMAIN iv.requisitions = 1..Len(iv.requisitions)
  /\ DOMAIN new.requisitions = 1..r
  /\ r \in Nat \ {0}
  /\ new.requisitions[r].order = w
  /\ WellSigned(new.requisitions[r])
  /\ \A j \in DOMAIN iv.requisitions : new.requisitions[j] = iv.requisitions[j]

LEMMA SubmitTyped ==
  ASSUME NEW W, NEW S, NEW Q \in SUBSET Nat, NEW iv, Inv!Typed(iv, W, S, Q),
         NEW w \in W, NEW sku \in DOMAIN iv.parts, NEW n \in Q
  PROVE  /\ Inv!Typed(Inv!Submit(iv, w, sku, n), W, S, Q)
         /\ Appends(iv, Inv!Submit(iv, w, sku, n), w)
<1>. DEFINE enough == Inv!CanReserve(iv, sku, n)
            held   == IF enough THEN Inv!Reserve(iv, sku, n) ELSE iv
            req    == [order |-> w, sku |-> sku, qty |-> n, managerSigned |-> FALSE,
                       status |-> IF enough THEN "pending" ELSE "out_of_stock"]
            R      == Inv!Requisition(W, DOMAIN iv.parts, Q)
            longer == Append(iv.requisitions, req)
<1>1. /\ Inv!Typed(held, W, S, Q)
      /\ DOMAIN held.parts = DOMAIN iv.parts
      /\ held.requisitions = iv.requisitions
  BY ReserveTyped
<1>2. req \in R
  BY DEF Inv!Requisition, Inv!Statuses
<1>3. iv.requisitions \in Seq(R)
  BY DEF Inv!Typed
<1>4. /\ longer \in Seq(R)
      /\ Len(longer) = Len(iv.requisitions) + 1
      /\ \A j \in 1..Len(iv.requisitions) : longer[j] = iv.requisitions[j]
      /\ longer[Len(iv.requisitions) + 1] = req
  BY <1>2, <1>3, AppendProperties
<1>5. Inv!Submit(iv, w, sku, n) = [held EXCEPT !.requisitions = longer]
  BY <1>1 DEF Inv!Submit
<1>6. /\ DOMAIN iv.requisitions = 1..Len(iv.requisitions)
      /\ DOMAIN longer = 1..(Len(iv.requisitions) + 1)
      /\ Len(iv.requisitions) \in Nat
  BY <1>3, <1>4, LenProperties
<1>7. req.order = w /\ WellSigned(req)
  BY DEF WellSigned
<1>. HIDE DEF held, longer, req
<1>8. [held EXCEPT !.requisitions = longer]
        = [parts |-> held.parts, requisitions |-> longer]
  BY <1>1 DEF Inv!Typed
<1>9. Inv!Typed([held EXCEPT !.requisitions = longer], W, S, Q)
  BY <1>1, <1>4, <1>8 DEF Inv!Typed
<1>10. Inv!Submit(iv, w, sku, n).requisitions = longer
  BY <1>5, <1>8
<1>. QED
  BY <1>4, <1>5, <1>6, <1>7, <1>9, <1>10 DEF Appends

(***************************************************************************)
(* What the remaining operations do to requisitions: they touch at most    *)
(* the one they are given, never a settled one, and sign what they         *)
(* confirm.                                                                *)
(***************************************************************************)
TouchesOnly(iv, new, r) ==
  /\ DOMAIN new.requisitions = DOMAIN iv.requisitions
  /\ \A j \in DOMAIN iv.requisitions :
       /\ new.requisitions[j].order = iv.requisitions[j].order
       /\ j # r => new.requisitions[j] = iv.requisitions[j]
       /\ Settled(iv.requisitions[j]) => new.requisitions[j] = iv.requisitions[j]
       /\ WellSigned(iv.requisitions[j]) => WellSigned(new.requisitions[j])

\* Giving a part other counts and a requisition another status or signature.
LEMMA BothReplaced ==
  ASSUME NEW W, NEW S, NEW Q, NEW iv, Inv!Typed(iv, W, S, Q),
         NEW r \in DOMAIN iv.requisitions,
         NEW sku \in DOMAIN iv.parts, NEW p \in Inv!Part,
         NEW q \in Inv!Requisition(W, DOMAIN iv.parts, Q),
         q.order = iv.requisitions[r].order,
         ~Settled(iv.requisitions[r]),
         WellSigned(iv.requisitions[r]) => WellSigned(q),
         NEW new,
         new = [parts |-> [iv.parts EXCEPT ![sku] = p],
                requisitions |-> [iv.requisitions EXCEPT ![r] = q]]
  PROVE  /\ Inv!Typed(new, W, S, Q)
         /\ TouchesOnly(iv, new, r)
         /\ new.requisitions[r] = q
<1>. DEFINE mid == [iv EXCEPT !.parts = [@ EXCEPT ![sku] = p]]
<1>1. /\ Inv!Typed(mid, W, S, Q)
      /\ DOMAIN mid.parts = DOMAIN iv.parts
      /\ mid.requisitions = iv.requisitions
      /\ mid.parts = [iv.parts EXCEPT ![sku] = p]
  BY PartReplaced DEF Inv!Typed
<1>. HIDE DEF mid
<1>. DEFINE end == [mid EXCEPT !.requisitions = [@ EXCEPT ![r] = q]]
<1>2. /\ Inv!Typed(end, W, S, Q)
      /\ DOMAIN end.requisitions = DOMAIN mid.requisitions
      /\ end.requisitions[r] = q
      /\ \A j \in DOMAIN mid.requisitions :
           j # r => end.requisitions[j] = mid.requisitions[j]
  BY <1>1, RequisitionReplaced
<1>3. mid = [parts |-> mid.parts, requisitions |-> mid.requisitions]
  BY <1>1 DEF Inv!Typed
<1>4. end = [parts |-> mid.parts,
             requisitions |-> [mid.requisitions EXCEPT ![r] = q]]
  BY <1>3
<1>5. new = end
  BY <1>1, <1>4
<1>. HIDE DEF end
<1>. QED
  BY <1>1, <1>2, <1>5 DEF TouchesOnly

\* ConfirmRequisition, where it is not refused.
LEMMA ConfirmTyped ==
  ASSUME NEW W, NEW S, NEW Q \in SUBSET Nat, NEW iv, Inv!Typed(iv, W, S, Q),
         NEW r, Inv!CanConfirm(iv, r)
  PROVE  /\ Inv!Typed(Inv!Confirm(iv, r), W, S, Q)
         /\ TouchesOnly(iv, Inv!Confirm(iv, r), r)
         /\ Inv!Confirm(iv, r).requisitions[r].status = "confirmed"
         /\ iv.requisitions[r].status = "confirmed"
             \/ Inv!Confirm(iv, r).requisitions[r].managerSigned
<1>. DEFINE req == iv.requisitions[r]
            old == iv.parts[req.sku]
            p == [old EXCEPT !.reserved = @ - req.qty, !.stock = @ - req.qty]
            q == [req EXCEPT !.status = "confirmed", !.managerSigned = TRUE]
<1>1. CASE req.status = "confirmed"
  BY <1>1 DEF Inv!Confirm, TouchesOnly
<1>2. CASE req.status = "pending" /\ Inv!Covered(iv, r)
  <2>1. r \in DOMAIN iv.requisitions
    BY DEF Inv!CanConfirm
  <2>2. /\ req \in Inv!Requisition(W, DOMAIN iv.parts, Q)
        /\ req.sku \in DOMAIN iv.parts
        /\ req.qty \in Nat
        /\ iv.parts[req.sku] \in Inv!Part
    BY <2>1, RequisitionFields
  <2>3. p \in Inv!Part
    <3>1. old.reserved >= req.qty
      BY <1>2 DEF Inv!Covered
    <3>2. old \in Inv!Part /\ req.qty \in Nat
      BY <2>2
    <3>. HIDE DEF old, req
    <3>3. old.stock - req.qty \in Int /\ old.reserved - req.qty \in Nat
      BY <3>1, <3>2 DEF Inv!Part
    <3>. QED
      BY <3>2, <3>3 DEF Inv!Part
  <2>4. /\ q \in Inv!Requisition(W, DOMAIN iv.parts, Q)
        /\ q.order = req.order /\ q.status = "confirmed" /\ q.managerSigned
    BY <2>2 DEF Inv!Requisition, Inv!Statuses
  <2>5. Inv!Confirm(iv, r) = [parts |-> [iv.parts EXCEPT ![req.sku] = p],
                              requisitions |-> [iv.requisitions EXCEPT ![r] = q]]
    BY <1>2, <2>1, <2>2 DEF Inv!Confirm, Inv!Typed
  <2>6. ~Settled(req) /\ (WellSigned(req) => WellSigned(q))
    BY <1>2, <2>4 DEF Settled, WellSigned
  <2>. HIDE DEF p, q
  <2>7. /\ Inv!Typed(Inv!Confirm(iv, r), W, S, Q)
        /\ TouchesOnly(iv, Inv!Confirm(iv, r), r)
        /\ Inv!Confirm(iv, r).requisitions[r] = q
    BY <2>1, <2>2, <2>3, <2>4, <2>5, <2>6, BothReplaced
  <2>. QED
    BY <2>4, <2>7
<1>. QED
  BY <1>1, <1>2 DEF Inv!CanConfirm

\* RollbackRequisition.
LEMMA RollbackTyped ==
  ASSUME NEW W, NEW S, NEW Q \in SUBSET Nat, NEW iv, Inv!Typed(iv, W, S, Q),
         NEW r \in DOMAIN iv.requisitions
  PROVE  /\ Inv!Typed(Inv!Rollback(iv, r), W, S, Q)
         /\ TouchesOnly(iv, Inv!Rollback(iv, r), r)
         /\ Settled(Inv!Rollback(iv, r).requisitions[r])
<1>. DEFINE req  == iv.requisitions[r]
            old  == iv.parts[req.sku]
            rest == old.reserved - req.qty
            p    == [old EXCEPT !.reserved = IF rest < 0 THEN 0 ELSE rest]
            q    == [req EXCEPT !.status = "rolled_back"]
<1>1. /\ req \in Inv!Requisition(W, DOMAIN iv.parts, Q)
      /\ req.sku \in DOMAIN iv.parts
      /\ req.qty \in Nat
      /\ old \in Inv!Part
  BY RequisitionFields
<1>2. /\ q \in Inv!Requisition(W, DOMAIN iv.parts, Q)
      /\ q.order = req.order
      /\ Settled(q)
  BY <1>1 DEF Inv!Requisition, Inv!Statuses, Settled
<1>3. CASE req.status = "out_of_stock"
  <2>1. Inv!Rollback(iv, r) = [iv EXCEPT !.requisitions = [@ EXCEPT ![r] = q]]
    BY <1>3 DEF Inv!Rollback, Inv!Typed
  <2>2. ~Settled(req) /\ (WellSigned(req) => WellSigned(q))
    BY <1>1, <1>3 DEF Settled, WellSigned, Inv!Requisition
  <2>. HIDE DEF q
  <2>. QED
    BY <1>2, <2>1, <2>2, RequisitionReplaced DEF TouchesOnly
<1>4. CASE req.status = "pending"
  <2>1. p \in Inv!Part
    <3>. HIDE DEF old, req
    <3>1. (IF rest < 0 THEN 0 ELSE rest) \in Nat
      BY <1>1 DEF Inv!Part
    <3>. QED
      BY <1>1, <3>1 DEF Inv!Part
  <2>2. Inv!Rollback(iv, r) = [parts |-> [iv.parts EXCEPT ![req.sku] = p],
                               requisitions |-> [iv.requisitions EXCEPT ![r] = q]]
    BY <1>4, <1>1 DEF Inv!Rollback, Inv!Typed
  <2>3. ~Settled(req) /\ (WellSigned(req) => WellSigned(q))
    BY <1>1, <1>4 DEF Settled, WellSigned, Inv!Requisition
  <2>. HIDE DEF p, q
  <2>. QED
    BY SMTT(30), <1>1, <1>2, <2>1, <2>2, <2>3, BothReplaced
<1>5. CASE req.status \notin {"out_of_stock", "pending"}
  <2>1. Inv!Rollback(iv, r) = iv
    BY <1>5 DEF Inv!Rollback
  <2>2. Settled(req)
    BY <1>1, <1>5 DEF Inv!Requisition, Inv!Statuses, Settled
  <2>. QED
    BY <2>1, <2>2 DEF TouchesOnly
<1>. QED
  BY <1>3, <1>4, <1>5

\* RecheckRequisition.
LEMMA RecheckTyped ==
  ASSUME NEW W, NEW S, NEW Q \in SUBSET Nat, NEW iv, Inv!Typed(iv, W, S, Q),
         NEW r \in DOMAIN iv.requisitions
  PROVE  /\ Inv!Typed(Inv!Recheck(iv, r), W, S, Q)
         /\ TouchesOnly(iv, Inv!Recheck(iv, r), r)
<1>. DEFINE req  == iv.requisitions[r]
            held == Inv!Reserve(iv, req.sku, req.qty)
            q    == [req EXCEPT !.status = "pending"]
            new  == [held EXCEPT !.requisitions = [@ EXCEPT ![r] = q]]
<1>1. CASE req.status = "out_of_stock" /\ Inv!CanReserve(iv, req.sku, req.qty)
  <2>1. /\ req \in Inv!Requisition(W, DOMAIN iv.parts, Q)
        /\ req.sku \in DOMAIN iv.parts
        /\ req.qty \in Q
    BY RequisitionFields
  <2>2. /\ Inv!Typed(held, W, S, Q)
        /\ DOMAIN held.parts = DOMAIN iv.parts
        /\ held.requisitions = iv.requisitions
    <3>1. ASSUME NEW sku \in DOMAIN iv.parts, NEW n \in Q
          PROVE  /\ Inv!Typed(Inv!Reserve(iv, sku, n), W, S, Q)
                 /\ DOMAIN Inv!Reserve(iv, sku, n).parts = DOMAIN iv.parts
                 /\ Inv!Reserve(iv, sku, n).requisitions = iv.requisitions
      BY ReserveTyped
    <3>. HIDE DEF req
    <3>. QED
      BY <2>1, <3>1
  <2>3. /\ q \in Inv!Requisition(W, DOMAIN iv.parts, Q)
        /\ q.order = req.order
    BY <2>1 DEF Inv!Requisition, Inv!Statuses
  <2>4. Inv!Recheck(iv, r) = new
    BY <1>1, <2>2 DEF Inv!Recheck, Inv!Typed
  <2>5. ~Settled(req) /\ (WellSigned(req) => WellSigned(q))
    BY <1>1, <2>1 DEF Settled, WellSigned, Inv!Requisition
  <2>. HIDE DEF held, q
  <2>6. /\ Inv!Typed(new, W, S, Q)
        /\ DOMAIN new.requisitions = DOMAIN held.requisitions
        /\ new.requisitions[r] = q
        /\ \A j \in DOMAIN held.requisitions :
             j # r => new.requisitions[j] = held.requisitions[j]
    BY <2>2, <2>3, RequisitionReplaced
  <2>. QED
    BY <2>2, <2>3, <2>4, <2>5, <2>6 DEF TouchesOnly
<1>2. CASE ~(req.status = "out_of_stock" /\ Inv!CanReserve(iv, req.sku, req.qty))
  BY <1>2 DEF Inv!Recheck, TouchesOnly
<1>. QED
  BY <1>1, <1>2

-----------------------------------------------------------------------------
(***************************************************************************)
(* What becomes of the requisitions, whatever operation it is.             *)
(***************************************************************************)
\* None is lost, a settled one stays as it is, and signed is confirmed.
InventoryEvolves(iv, new) ==
  /\ DOMAIN iv.requisitions \subseteq DOMAIN new.requisitions
  /\ \A r \in DOMAIN iv.requisitions :
       LET q == iv.requisitions[r]
           p == new.requisitions[r]
       IN  /\ p.order = q.order
           /\ Settled(q) => p = q
           /\ WellSigned(q) => WellSigned(p)
  /\ \A r \in DOMAIN new.requisitions :
       r \notin DOMAIN iv.requisitions => WellSigned(new.requisitions[r])

LEMMA InventoryEvolvesReflexive == \A a, b : a.requisitions = b.requisitions => InventoryEvolves(a, b)
BY DEF InventoryEvolves

LEMMA InventoryEvolvesTransitive ==
  ASSUME NEW a, NEW b, NEW c, InventoryEvolves(a, b), InventoryEvolves(b, c)
  PROVE  InventoryEvolves(a, c)
<1>1. ASSUME NEW r \in DOMAIN a.requisitions
      PROVE  LET q == a.requisitions[r]
                 p == c.requisitions[r]
             IN  /\ p.order = q.order
                 /\ Settled(q) => p = q
                 /\ WellSigned(q) => WellSigned(p)
  BY DEF InventoryEvolves
<1>2. ASSUME NEW r \in DOMAIN c.requisitions, r \notin DOMAIN a.requisitions
      PROVE  WellSigned(c.requisitions[r])
  BY <1>2 DEF InventoryEvolves
<1>. QED
  BY <1>1, <1>2 DEF InventoryEvolves

LEMMA TouchedEvolves ==
  ASSUME NEW iv, NEW new, NEW r, TouchesOnly(iv, new, r)
  PROVE  InventoryEvolves(iv, new)
BY DEF TouchesOnly, InventoryEvolves

LEMMA AppendedEvolves ==
  ASSUME NEW iv, NEW new, NEW w, Appends(iv, new, w)
  PROVE  InventoryEvolves(iv, new)
<1>1. Len(iv.requisitions) \in Nat
  BY DEF Appends
<1>2. \A r \in DOMAIN new.requisitions :
        r \in DOMAIN iv.requisitions \/ r = Len(iv.requisitions) + 1
  BY <1>1 DEF Appends
<1>3. DOMAIN iv.requisitions \subseteq DOMAIN new.requisitions
  BY <1>1 DEF Appends
<1>. QED
  BY <1>2, <1>3 DEF Appends, InventoryEvolves

-----------------------------------------------------------------------------
(***************************************************************************)
(* What is reserved of a part against what its pending requisitions ask    *)
(* for.                                                                    *)
(***************************************************************************)
PendingOf(iv, s) ==
  {r \in DOMAIN iv.requisitions :
     iv.requisitions[r].sku = s /\ iv.requisitions[r].status = "pending"}

Asked(iv) == [r \in DOMAIN iv.requisitions |-> iv.requisitions[r].qty]

PartBalanced(iv, s) == iv.parts[s].reserved = SumFunctionOnSet(Asked(iv), PendingOf(iv, s))

Balanced(iv) == \A s \in DOMAIN iv.parts : PartBalanced(iv, s)

\* A part's pending requisitions are finitely many and ask for natural numbers.
LEMMA PendingFacts ==
  ASSUME NEW W, NEW S, NEW Q \in SUBSET Nat, NEW iv, Inv!Typed(iv, W, S, Q), NEW s
  PROVE  /\ IsFiniteSet(PendingOf(iv, s))
         /\ \A r \in PendingOf(iv, s) :
              /\ Asked(iv)[r] \in Nat
              /\ Asked(iv)[r] = iv.requisitions[r].qty
<1>1. /\ DOMAIN iv.requisitions = 1..Len(iv.requisitions)
      /\ Len(iv.requisitions) \in Nat
  BY LenProperties DEF Inv!Typed
<1>2. IsFiniteSet(PendingOf(iv, s))
  <2>1. IsFiniteSet(DOMAIN iv.requisitions)
    BY <1>1, FS_Interval
  <2>. QED
    BY <2>1, FS_Subset DEF PendingOf
<1>3. ASSUME NEW r \in PendingOf(iv, s)
      PROVE  Asked(iv)[r] \in Nat /\ Asked(iv)[r] = iv.requisitions[r].qty
  BY RequisitionFields DEF PendingOf, Asked
<1>. QED
  BY <1>2, <1>3

\* A reservation covers each requisition it is for.
LEMMA BalanceCovers ==
  ASSUME NEW W, NEW S, NEW Q \in SUBSET Nat, NEW iv, Inv!Typed(iv, W, S, Q),
         Balanced(iv), NEW r \in DOMAIN iv.requisitions,
         iv.requisitions[r].status = "pending"
  PROVE  Inv!Covered(iv, r)
<1>. DEFINE s == iv.requisitions[r].sku
<1>1. r \in PendingOf(iv, s)
  BY DEF PendingOf
<1>2. PartBalanced(iv, s)
  BY RequisitionFields DEF Balanced
<1>3. SumFunctionOnSet(Asked(iv), PendingOf(iv, s)) >= Asked(iv)[r]
  BY <1>1, PendingFacts, SumCovers
<1>. QED
  BY <1>1, <1>2, <1>3, PendingFacts DEF PartBalanced, Inv!Covered

\* The pending requisitions for a part stay, lose one or gain one, and so does
\* what is reserved.
SameAsked(iv, new, s) ==
  \A r \in PendingOf(iv, s) : new.requisitions[r].qty = iv.requisitions[r].qty

Keeps(iv, new, s) ==
  /\ SameAsked(iv, new, s)
  /\ PendingOf(new, s) = PendingOf(iv, s)
  /\ new.parts[s].reserved = iv.parts[s].reserved

Shrinks(iv, new, s, r) ==
  /\ SameAsked(iv, new, s)
  /\ r \in PendingOf(iv, s)
  /\ PendingOf(new, s) = PendingOf(iv, s) \ {r}
  /\ new.parts[s].reserved = iv.parts[s].reserved - iv.requisitions[r].qty

Grows(iv, new, s, r) ==
  /\ SameAsked(iv, new, s)
  /\ r \in PendingOf(new, s)
  /\ PendingOf(iv, s) = PendingOf(new, s) \ {r}
  /\ new.parts[s].reserved = iv.parts[s].reserved + new.requisitions[r].qty

\* Of a part whose pending requisitions stay, as much is reserved as before.
LEMMA BalanceKept ==
  ASSUME NEW W, NEW S, NEW Q \in SUBSET Nat, NEW iv, Inv!Typed(iv, W, S, Q),
         NEW new, Inv!Typed(new, W, S, Q), NEW s, PartBalanced(iv, s),
         Keeps(iv, new, s)
  PROVE  PartBalanced(new, s)
<1>. USE DEF Keeps, SameAsked
<1>1. SumFunctionOnSet(Asked(iv), PendingOf(iv, s))
        = SumFunctionOnSet(Asked(new), PendingOf(iv, s))
  <2>1. \A r \in PendingOf(iv, s) : Asked(iv)[r] = Asked(new)[r]
    BY PendingFacts
  <2>. QED
    BY <2>1, PendingFacts, SumSame
<1>. QED
  BY <1>1 DEF PartBalanced

\* One requisition less is pending, and its quantity is given back.
LEMMA BalanceShrinks ==
  ASSUME NEW W, NEW S, NEW Q \in SUBSET Nat, NEW iv, Inv!Typed(iv, W, S, Q),
         NEW new, Inv!Typed(new, W, S, Q), NEW s, PartBalanced(iv, s),
         NEW r, Shrinks(iv, new, s, r)
  PROVE  PartBalanced(new, s)
<1>. USE DEF Shrinks, SameAsked
<1>. DEFINE rest == PendingOf(iv, s) \ {r}
<1>1. SumFunctionOnSet(Asked(iv), PendingOf(iv, s))
        = Asked(iv)[r] + SumFunctionOnSet(Asked(iv), rest)
  BY PendingFacts, SumRemove
<1>2. SumFunctionOnSet(Asked(iv), rest) = SumFunctionOnSet(Asked(new), rest)
  <2>1. IsFiniteSet(rest)
    BY PendingFacts, FS_RemoveElement
  <2>2. \A x \in rest : Asked(iv)[x] = Asked(new)[x]
    BY PendingFacts
  <2>. HIDE DEF rest
  <2>. QED
    BY <2>1, <2>2, SumSame
<1>3. SumFunctionOnSet(Asked(iv), rest) \in Nat
  BY PendingFacts, FS_RemoveElement, SumNat
<1>4. Asked(iv)[r] = iv.requisitions[r].qty /\ Asked(iv)[r] \in Nat
  BY PendingFacts
<1>. HIDE DEF rest
<1>5. new.parts[s].reserved = SumFunctionOnSet(Asked(iv), rest)
  BY <1>1, <1>3, <1>4 DEF PartBalanced
<1>. QED
  BY <1>2, <1>5 DEF PartBalanced, rest

\* One requisition more is pending, and its quantity is reserved.
LEMMA BalanceGrows ==
  ASSUME NEW W, NEW S, NEW Q \in SUBSET Nat, NEW iv, Inv!Typed(iv, W, S, Q),
         NEW new, Inv!Typed(new, W, S, Q), NEW s, PartBalanced(iv, s),
         NEW r, Grows(iv, new, s, r)
  PROVE  PartBalanced(new, s)
<1>. USE DEF Grows, SameAsked
<1>1. SumFunctionOnSet(Asked(new), PendingOf(new, s))
        = Asked(new)[r] + SumFunctionOnSet(Asked(new), PendingOf(iv, s))
  <2>1. SumFunctionOnSet(Asked(new), PendingOf(new, s))
          = Asked(new)[r] + SumFunctionOnSet(Asked(new), PendingOf(new, s) \ {r})
    BY PendingFacts, SumRemove
  <2>. QED
    BY Zenon, <2>1
<1>2. SumFunctionOnSet(Asked(iv), PendingOf(iv, s))
        = SumFunctionOnSet(Asked(new), PendingOf(iv, s))
  <2>1. \A x \in PendingOf(iv, s) : Asked(iv)[x] = Asked(new)[x]
    BY PendingFacts
  <2>. QED
    BY <2>1, PendingFacts, SumSame
<1>3. SumFunctionOnSet(Asked(iv), PendingOf(iv, s)) \in Nat
  BY PendingFacts, SumNat
<1>4. Asked(new)[r] = new.requisitions[r].qty /\ Asked(new)[r] \in Nat
  BY PendingFacts
<1>. HIDE DEF Grows, SameAsked
<1>5. new.parts[s].reserved = SumFunctionOnSet(Asked(iv), PendingOf(iv, s)) + Asked(new)[r]
  BY <1>4 DEF PartBalanced, Grows
<1>. QED
  BY <1>1, <1>2, <1>3, <1>4, <1>5 DEF PartBalanced

(***************************************************************************)
(* Every operation keeps the reservations balanced.                        *)
(***************************************************************************)

\* What is held for a requisition in a given status.
HeldFor(q) == IF q.status = "pending" THEN q.qty ELSE 0

\* A requisition changes status, and its part is reserved or given back to match.
Rebooks(iv, new, r, p, q) ==
  LET req == iv.requisitions[r] IN
  /\ r \in DOMAIN iv.requisitions
  /\ q.sku = req.sku /\ q.qty = req.qty
  /\ p.reserved = (iv.parts[req.sku].reserved - HeldFor(req)) + HeldFor(q)
  /\ DOMAIN new.parts = DOMAIN iv.parts
  /\ new.parts[req.sku] = p
  /\ \A s \in DOMAIN iv.parts : s # req.sku => new.parts[s] = iv.parts[s]
  /\ new.requisitions = [iv.requisitions EXCEPT ![r] = q]

LEMMA RebookedBalanced ==
  ASSUME NEW W, NEW S, NEW Q \in SUBSET Nat, NEW iv, Inv!Typed(iv, W, S, Q),
         NEW new, Inv!Typed(new, W, S, Q), Balanced(iv),
         NEW r, NEW p, NEW q, Rebooks(iv, new, r, p, q)
  PROVE  Balanced(new)
<1>. DEFINE req == iv.requisitions[r]
            sku == req.sku
<1>1. /\ r \in DOMAIN iv.requisitions
      /\ sku \in DOMAIN iv.parts
      /\ req.qty \in Nat
      /\ iv.parts[sku].reserved \in Nat
  BY RequisitionFields DEF Inv!Part, Rebooks
<1>2. /\ DOMAIN new.parts = DOMAIN iv.parts
      /\ DOMAIN new.requisitions = DOMAIN iv.requisitions
      /\ new.requisitions[r] = q /\ q.sku = sku /\ q.qty = req.qty
      /\ \A x \in DOMAIN iv.requisitions : x # r => new.requisitions[x] = iv.requisitions[x]
      /\ new.parts[sku].reserved = (iv.parts[sku].reserved - HeldFor(req)) + HeldFor(q)
      /\ \A s \in DOMAIN iv.parts : s # sku => new.parts[s] = iv.parts[s]
  BY <1>1 DEF Rebooks
<1>3. \A s : SameAsked(iv, new, s)
  BY <1>2 DEF PendingOf, SameAsked
<1>4. ASSUME NEW s \in DOMAIN iv.parts, s # sku
      PROVE  PartBalanced(new, s)
  <2>1. PendingOf(new, s) = PendingOf(iv, s)
    BY <1>2, <1>4 DEF PendingOf
  <2>2. PartBalanced(iv, s) /\ Keeps(iv, new, s)
    BY <1>2, <1>3, <1>4, <2>1 DEF Balanced, Keeps
  <2>. QED
    BY <2>2, BalanceKept
<1>5. PartBalanced(new, sku)
  <2>1. PartBalanced(iv, sku)
    BY <1>1 DEF Balanced
  <2>2. CASE req.status = "pending" /\ q.status # "pending"
    <3>1. r \in PendingOf(iv, sku) /\ PendingOf(new, sku) = PendingOf(iv, sku) \ {r}
      BY <1>1, <1>2, <2>2 DEF PendingOf
    <3>2. new.parts[sku].reserved = iv.parts[sku].reserved - req.qty
      BY <1>1, <1>2, <2>2 DEF HeldFor
    <3>3. Shrinks(iv, new, sku, r)
      BY <1>3, <3>1, <3>2 DEF Shrinks
    <3>. QED
      BY <2>1, <3>3, BalanceShrinks
  <2>3. CASE req.status # "pending" /\ q.status = "pending"
    <3>1. r \in PendingOf(new, sku) /\ PendingOf(iv, sku) = PendingOf(new, sku) \ {r}
      BY <1>1, <1>2, <2>3 DEF PendingOf
    <3>2. new.parts[sku].reserved = iv.parts[sku].reserved + new.requisitions[r].qty
      BY <1>1, <1>2, <2>3 DEF HeldFor
    <3>3. Grows(iv, new, sku, r)
      BY <1>3, <3>1, <3>2 DEF Grows
    <3>. QED
      BY <2>1, <3>3, BalanceGrows
  <2>4. CASE req.status = "pending" <=> q.status = "pending"
    <3>1. PendingOf(new, sku) = PendingOf(iv, sku)
      BY <1>1, <1>2, <2>4 DEF PendingOf
    <3>2. new.parts[sku].reserved = iv.parts[sku].reserved
      BY <1>1, <1>2, <2>4 DEF HeldFor
    <3>3. Keeps(iv, new, sku)
      BY <1>3, <3>1, <3>2 DEF Keeps
    <3>. QED
      BY <2>1, <3>3, BalanceKept
  <2>. QED
    BY <2>2, <2>3, <2>4
<1>. QED
  BY <1>2, <1>4, <1>5 DEF Balanced

LEMMA ConfirmBalanced ==
  ASSUME NEW W, NEW S, NEW Q \in SUBSET Nat, NEW iv, Inv!Typed(iv, W, S, Q),
         NEW r, Inv!CanConfirm(iv, r), Balanced(iv)
  PROVE  Balanced(Inv!Confirm(iv, r))
<1>. DEFINE req == iv.requisitions[r]
            p == [iv.parts[req.sku] EXCEPT !.reserved = @ - req.qty, !.stock = @ - req.qty]
            q == [req EXCEPT !.status = "confirmed", !.managerSigned = TRUE]
            new == Inv!Confirm(iv, r)
<1>1. CASE req.status = "confirmed"
  BY <1>1 DEF Inv!Confirm
<1>2. CASE req.status = "pending"
  <2>1. Inv!Typed(new, W, S, Q) /\ r \in DOMAIN iv.requisitions
    BY ConfirmTyped DEF Inv!CanConfirm
  <2>2. /\ req \in Inv!Requisition(W, DOMAIN iv.parts, Q)
        /\ req.sku \in DOMAIN iv.parts
        /\ req.qty \in Nat
        /\ iv.parts[req.sku] \in Inv!Part
    BY <2>1, RequisitionFields
  <2>3. /\ new.parts = [iv.parts EXCEPT ![req.sku] = p]
        /\ new.requisitions = [iv.requisitions EXCEPT ![r] = q]
    BY <1>2, <2>1, <2>2 DEF Inv!Confirm, Inv!Typed
  <2>4. /\ q.sku = req.sku /\ q.qty = req.qty /\ HeldFor(q) = 0
        /\ HeldFor(req) = req.qty
    BY <1>2, <2>2 DEF HeldFor, Inv!Requisition
  <2>5. p.reserved = (iv.parts[req.sku].reserved - HeldFor(req)) + HeldFor(q)
    BY <2>2, <2>4 DEF Inv!Part
  <2>6. Rebooks(iv, new, r, p, q)
    BY <2>1, <2>2, <2>3, <2>4, <2>5 DEF Rebooks
  <2>. HIDE DEF p, q
  <2>. QED
    BY <2>1, <2>6, RebookedBalanced
<1>. QED
  BY <1>1, <1>2 DEF Inv!CanConfirm

\* What is reserved covers what is given back, so nothing is cut off at zero.
LEMMA RollbackBalanced ==
  ASSUME NEW W, NEW S, NEW Q \in SUBSET Nat, NEW iv, Inv!Typed(iv, W, S, Q),
         NEW r \in DOMAIN iv.requisitions, Balanced(iv)
  PROVE  Balanced(Inv!Rollback(iv, r))
<1>. DEFINE req  == iv.requisitions[r]
            old  == iv.parts[req.sku]
            rest == old.reserved - req.qty
            q    == [req EXCEPT !.status = "rolled_back"]
            new  == Inv!Rollback(iv, r)
<1>1. /\ req \in Inv!Requisition(W, DOMAIN iv.parts, Q)
      /\ req.sku \in DOMAIN iv.parts
      /\ req.qty \in Nat
      /\ old \in Inv!Part
  BY RequisitionFields
<1>2. Inv!Typed(new, W, S, Q)
  BY RollbackTyped
<1>3. q.sku = req.sku /\ q.qty = req.qty /\ HeldFor(q) = 0
  BY <1>1 DEF HeldFor, Inv!Requisition
<1>4. CASE req.status = "out_of_stock"
  <2>1. /\ new.parts = iv.parts
        /\ new.requisitions = [iv.requisitions EXCEPT ![r] = q]
    <3>1. new = [iv EXCEPT !.requisitions[r].status = "rolled_back"]
      BY <1>4 DEF Inv!Rollback
    <3>. QED
      BY <3>1 DEF Inv!Typed
  <2>2. old.reserved = (old.reserved - HeldFor(req)) + HeldFor(q)
    BY <1>1, <1>3, <1>4 DEF Inv!Part, HeldFor
  <2>3. Rebooks(iv, new, r, old, q)
    BY <1>3, <2>1, <2>2 DEF Rebooks
  <2>. HIDE DEF q, old
  <2>. QED
    BY <1>2, <2>3, RebookedBalanced
<1>5. CASE req.status = "pending"
  <2>. DEFINE p == [old EXCEPT !.reserved = rest]
  <2>1. old.reserved >= req.qty
    BY <1>5, BalanceCovers DEF Inv!Covered
  <2>2. ~(rest < 0)
    <3>. HIDE DEF old, req
    <3>. QED
      BY <1>1, <2>1 DEF Inv!Part
  <2>3. /\ new.parts = [iv.parts EXCEPT ![req.sku] = p]
        /\ new.requisitions = [iv.requisitions EXCEPT ![r] = q]
    BY <1>1, <1>5, <2>2 DEF Inv!Rollback, Inv!Typed
  <2>4. p.reserved = (old.reserved - HeldFor(req)) + HeldFor(q)
    BY <1>1, <1>3, <1>5 DEF Inv!Part, HeldFor
  <2>5. Rebooks(iv, new, r, p, q)
    BY <1>1, <1>3, <2>3, <2>4 DEF Rebooks
  <2>. HIDE DEF p, q
  <2>. QED
    BY <1>2, <2>5, RebookedBalanced
<1>6. CASE req.status \notin {"out_of_stock", "pending"}
  BY <1>6 DEF Inv!Rollback
<1>. QED
  BY <1>4, <1>5, <1>6

LEMMA RecheckBalanced ==
  ASSUME NEW W, NEW S, NEW Q \in SUBSET Nat, NEW iv, Inv!Typed(iv, W, S, Q),
         NEW r \in DOMAIN iv.requisitions, Balanced(iv)
  PROVE  Balanced(Inv!Recheck(iv, r))
<1>. DEFINE req == iv.requisitions[r]
            p   == [iv.parts[req.sku] EXCEPT !.reserved = @ + req.qty]
            q   == [req EXCEPT !.status = "pending"]
            new == Inv!Recheck(iv, r)
<1>1. CASE req.status = "out_of_stock" /\ Inv!CanReserve(iv, req.sku, req.qty)
  <2>1. /\ req \in Inv!Requisition(W, DOMAIN iv.parts, Q)
        /\ req.sku \in DOMAIN iv.parts
        /\ req.qty \in Nat
        /\ iv.parts[req.sku] \in Inv!Part
    BY RequisitionFields
  <2>2. Inv!Typed(new, W, S, Q)
    BY RecheckTyped
  <2>3. /\ new.parts = [iv.parts EXCEPT ![req.sku] = p]
        /\ new.requisitions = [iv.requisitions EXCEPT ![r] = q]
    BY <1>1, <2>1 DEF Inv!Recheck, Inv!Reserve, Inv!Typed
  <2>4. /\ q.sku = req.sku /\ q.qty = req.qty /\ HeldFor(q) = req.qty
        /\ HeldFor(req) = 0
    BY <1>1, <2>1 DEF HeldFor, Inv!Requisition
  <2>5. p.reserved = (iv.parts[req.sku].reserved - HeldFor(req)) + HeldFor(q)
    BY <2>1, <2>4 DEF Inv!Part
  <2>6. Rebooks(iv, new, r, p, q)
    BY <2>1, <2>3, <2>4, <2>5 DEF Rebooks
  <2>. HIDE DEF p, q
  <2>. QED
    BY <2>2, <2>6, RebookedBalanced
<1>2. CASE ~(req.status = "out_of_stock" /\ Inv!CanReserve(iv, req.sku, req.qty))
  BY <1>2 DEF Inv!Recheck
<1>. QED
  BY <1>1, <1>2

LEMMA SubmitBalanced ==
  ASSUME NEW W, NEW S, NEW Q \in SUBSET Nat, NEW iv, Inv!Typed(iv, W, S, Q),
         NEW w \in W, NEW sku \in DOMAIN iv.parts, NEW n \in Q, Balanced(iv)
  PROVE  Balanced(Inv!Submit(iv, w, sku, n))
<1>. DEFINE enough == Inv!CanReserve(iv, sku, n)
            new == Inv!Submit(iv, w, sku, n)
            r   == Len(iv.requisitions) + 1
<1>1. /\ Inv!Typed(new, W, S, Q)
      /\ DOMAIN iv.requisitions = 1..Len(iv.requisitions)
      /\ DOMAIN new.requisitions = 1..r
      /\ r \in Nat \ {0}
      /\ \A j \in DOMAIN iv.requisitions : new.requisitions[j] = iv.requisitions[j]
  <2>1. Inv!Typed(new, W, S, Q) /\ Appends(iv, new, w)
    BY SubmitTyped
  <2>. HIDE DEF new
  <2>. QED
    BY <2>1 DEF Appends
<1>2. /\ new.requisitions[r].sku = sku
      /\ new.requisitions[r].qty = n
      /\ new.requisitions[r].status = IF enough THEN "pending" ELSE "out_of_stock"
  <2>. DEFINE req == [order |-> w, sku |-> sku, qty |-> n, managerSigned |-> FALSE,
                      status |-> IF enough THEN "pending" ELSE "out_of_stock"]
  <2>1. new.requisitions = Append(iv.requisitions, req)
    <3>1. CASE enough
      BY <3>1 DEF Inv!Submit, Inv!Reserve, Inv!Typed
    <3>2. CASE ~enough
      BY <3>2 DEF Inv!Submit, Inv!Typed
    <3>. QED
      BY <3>1, <3>2
  <2>2. req \in Inv!Requisition(W, DOMAIN iv.parts, Q)
    BY DEF Inv!Requisition, Inv!Statuses
  <2>3. new.requisitions[r] = req
    <3>. HIDE DEF req, new
    <3>. QED
      BY <2>1, <2>2, AppendProperties DEF Inv!Typed
  <2>. HIDE DEF new
  <2>. QED
    BY <2>3
<1>3. /\ DOMAIN new.parts = DOMAIN iv.parts
      /\ \A s \in DOMAIN iv.parts : s # sku \/ ~enough => new.parts[s] = iv.parts[s]
      /\ enough => new.parts[sku].reserved = iv.parts[sku].reserved + n
  <2>1. CASE enough
    <3>1. new.parts = Inv!Reserve(iv, sku, n).parts
      BY <2>1, ReserveTyped DEF Inv!Submit, Inv!Typed
    <3>2. Inv!Reserve(iv, sku, n).parts = [iv.parts EXCEPT ![sku].reserved = @ + n]
      BY DEF Inv!Reserve, Inv!Typed
    <3>3. iv.parts[sku] \in Inv!Part
      BY DEF Inv!Typed
    <3>. HIDE DEF new
    <3>. QED
      BY <2>1, <3>1, <3>2, <3>3 DEF Inv!Part
  <2>2. CASE ~enough
    BY <2>2 DEF Inv!Submit, Inv!Typed
  <2>. QED
    BY <2>1, <2>2
<1>. HIDE DEF new, enough
<1>4. r \notin DOMAIN iv.requisitions /\ DOMAIN new.requisitions = DOMAIN iv.requisitions \cup {r}
  BY <1>1
<1>. HIDE DEF r
<1>5. ASSUME NEW s \in DOMAIN iv.parts
      PROVE  PartBalanced(new, s)
  <2>1. PartBalanced(iv, s) /\ SameAsked(iv, new, s)
    BY <1>1 DEF Balanced, SameAsked, PendingOf
  <2>2. CASE s = sku /\ enough
    <3>1. r \in PendingOf(new, s) /\ PendingOf(iv, s) = PendingOf(new, s) \ {r}
      BY <1>1, <1>2, <1>4, <2>2 DEF PendingOf
    <3>2. Grows(iv, new, s, r)
      BY <1>2, <1>3, <2>1, <2>2, <3>1 DEF Grows
    <3>. QED
      BY <1>1, <2>1, <3>2, BalanceGrows
  <2>3. CASE ~(s = sku /\ enough)
    <3>1. PendingOf(new, s) = PendingOf(iv, s)
      BY <1>1, <1>2, <1>4, <2>3 DEF PendingOf
    <3>2. Keeps(iv, new, s)
      BY <1>3, <2>1, <2>3, <3>1 DEF Keeps
    <3>. QED
      BY <1>1, <2>1, <3>2, BalanceKept
  <2>. QED
    BY <2>2, <2>3
<1>. QED
  BY <1>3, <1>5 DEF Balanced, new

LEMMA ProcureBalanced ==
  ASSUME NEW W, NEW S, NEW Q \in SUBSET Nat, NEW iv, Inv!Typed(iv, W, S, Q),
         NEW sku \in DOMAIN iv.parts, NEW n \in Q, Balanced(iv)
  PROVE  Balanced(Inv!Procure(iv, sku, n))
<1>. DEFINE new == Inv!Procure(iv, sku, n)
<1>1. /\ Inv!Typed(new, W, S, Q)
      /\ DOMAIN new.parts = DOMAIN iv.parts
      /\ new.requisitions = iv.requisitions
  BY ProcureTyped
<1>2. \A s \in DOMAIN iv.parts : new.parts[s].reserved = iv.parts[s].reserved
  BY DEF Inv!Procure, Inv!Typed, Inv!Part
<1>. HIDE DEF new
<1>3. ASSUME NEW s \in DOMAIN iv.parts
      PROVE  PartBalanced(new, s)
  <2>1. PartBalanced(iv, s) /\ Keeps(iv, new, s)
    BY <1>1, <1>2 DEF Balanced, Keeps, SameAsked, PendingOf
  <2>. QED
    BY <1>1, <2>1, BalanceKept
<1>. QED
  BY <1>1, <1>3 DEF Balanced, new

\* Registering a part again keeps what is reserved; of a new one nothing is.
LEMMA RegisterPartBalanced ==
  ASSUME NEW W, NEW S, NEW Q \in SUBSET Nat, NEW iv, Inv!Typed(iv, W, S, Q),
         NEW sku \in S, NEW n \in Nat, Balanced(iv)
  PROVE  Balanced(Inv!RegisterPart(iv, sku, n))
<1>. DEFINE new == Inv!RegisterPart(iv, sku, n)
<1>1. /\ Inv!Typed(new, W, S, Q)
      /\ new.requisitions = iv.requisitions
  BY RegisterPartTyped
<1>2. /\ DOMAIN new.parts = DOMAIN iv.parts \cup {sku}
      /\ \A s \in DOMAIN iv.parts : new.parts[s].reserved = iv.parts[s].reserved
      /\ sku \notin DOMAIN iv.parts => new.parts[sku].reserved = 0
  BY DEF Inv!RegisterPart, Inv!Typed
<1>. HIDE DEF new
<1>3. ASSUME NEW s \in DOMAIN iv.parts
      PROVE  PartBalanced(new, s)
  <2>1. PartBalanced(iv, s) /\ Keeps(iv, new, s)
    BY <1>1, <1>2 DEF Balanced, Keeps, SameAsked, PendingOf
  <2>. QED
    BY <1>1, <2>1, BalanceKept
<1>4. ASSUME sku \notin DOMAIN iv.parts
      PROVE  PartBalanced(new, sku)
  <2>1. PendingOf(new, sku) = {}
    BY <1>1, <1>4, RequisitionFields DEF PendingOf
  <2>2. SumFunctionOnSet(Asked(new), PendingOf(new, sku)) = 0
    BY Zenon, <2>1, SumEmpty
  <2>. QED
    BY <1>2, <1>4, <2>2 DEF PartBalanced
<1>. QED
  BY <1>2, <1>3, <1>4 DEF Balanced, new

LEMMA EmptyBalanced == Balanced(Inv!EmptyInventory)
BY DEF Balanced, Inv!EmptyInventory
=============================================================================

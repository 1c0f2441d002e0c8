---------------------------- MODULE UnlockedProofs ----------------------------
(***************************************************************************)
(* Theorems about the calls past the mutex, for any number of writers,     *)
(* readers and notifications, and for any readings.                        *)
(***************************************************************************)
EXTENDS Unlocked, TLAPS

-----------------------------------------------------------------------------
(***************************************************************************)
(* The list as an operation leaves it, and as it is within one.            *)
(***************************************************************************)
\* The first m slots of the array that o.notifs points to are in place.
InPlace(m) ==
  /\ m <= Len(arrays[slice.array])
  /\ \A i \in 1..m : arrays[slice.array][i] = i

\* Where the operation that holds o.mu is.
Midway(w) ==
  /\ writer[w].pc \in {"array", "len", "element"}
  /\ writer[w].n = notifSeq
  /\ writer[w].at = notifSeq
  /\ writer[w].array = slice.array
  /\ InPlace(notifSeq - 1)
  /\ complete = 1..(notifSeq - 1)
  /\ notifSeq > 0
  /\ slice.len = IF writer[w].pc = "element" THEN notifSeq ELSE notifSeq - 1
  /\ writer[w].pc # "array" => notifSeq <= Len(arrays[slice.array])

AtRest ==
  /\ InPlace(notifSeq)
  /\ complete = 1..notifSeq
  /\ slice.len = notifSeq

WritersInv ==
  /\ notifSeq \in Nat
  /\ slice \in [array : DOMAIN arrays, len : Nat]
  /\ arrays \in Seq(Seq(Int))
  /\ writer \in [Writers -> [pc : {"idle", "array", "len", "element"},
                             n : Int, array : Int, at : Int]]
  /\ mu \in Writers \cup {Nobody}
  /\ mu = Nobody => AtRest
  /\ \A w \in Writers : IF mu = w THEN Midway(w) ELSE writer[w].pc = "idle"

\* A slot holds the notification of its place, or nothing yet.
SlotsInv ==
  \A k \in DOMAIN arrays : \A i \in DOMAIN arrays[k] : arrays[k][i] \in {i, Empty}

-----------------------------------------------------------------------------
LEMMA FeedInit == FInit => WritersInv /\ SlotsInv
<1>. SUFFICES ASSUME FInit PROVE WritersInv /\ SlotsInv
  OBVIOUS
<1>1. <<>> \in Seq(Int) /\ Len(<<>>) = 0 /\ << <<>> >> \in Seq(Seq(Int))
  OBVIOUS
<1>2. arrays = << <<>> >> /\ DOMAIN arrays = {1} /\ arrays[1] = <<>>
  BY DEF FInit
<1>3. slice = [array |-> 1, len |-> 0]
  BY DEF FInit
<1>. QED
  BY <1>1, <1>2, <1>3, FeedAssumption
  DEF FInit, WritersInv, SlotsInv, AtRest, InPlace, WriterIdle

LEMMA BeginStep ==
  ASSUME WritersInv, SlotsInv, NEW w \in Writers, Begin(w)
  PROVE  WritersInv' /\ SlotsInv'
<1>1. WritersInv'
  BY FeedAssumption DEF Begin, WritersInv, Midway, AtRest, InPlace
<1>2. SlotsInv'
  BY DEF Begin, SlotsInv
<1>. QED
  BY <1>1, <1>2

LEMMA StoreLenStep ==
  ASSUME WritersInv, SlotsInv, NEW w \in Writers, StoreLen(w)
  PROVE  WritersInv' /\ SlotsInv'
<1>1. WritersInv'
  BY SMTT(30), FeedAssumption DEF StoreLen, WritersInv, Midway, AtRest, InPlace
<1>2. SlotsInv'
  BY DEF StoreLen, SlotsInv
<1>. QED
  BY <1>1, <1>2

\* Growing leaves the old elements where they are and makes room for one more.
LEMMA GrownFits ==
  ASSUME NEW a \in Seq(Int)
  PROVE  /\ Grown(a) \in Seq(Int)
         /\ Len(Grown(a)) > Len(a)
         /\ \A i \in DOMAIN a : i \in DOMAIN Grown(a) /\ Grown(a)[i] = a[i]
         /\ \A i \in DOMAIN Grown(a) : i \notin DOMAIN a => Grown(a)[i] = Empty
<1>. DEFINE m == IF a = <<>> THEN 1 ELSE 2 * Len(a)
<1>1. Len(a) \in Nat /\ DOMAIN a = 1..Len(a) /\ (a # <<>> => Len(a) > 0)
  OBVIOUS
<1>2. m \in Nat /\ m > Len(a)
  BY <1>1
<1>3. Grown(a) = [i \in 1..m |-> IF i <= Len(a) THEN a[i] ELSE Empty]
  BY DEF Grown
<1>4. \A i \in 1..m : (IF i <= Len(a) THEN a[i] ELSE Empty) \in Int
  BY <1>1 DEF Empty
<1>. HIDE DEF m
<1>5. Grown(a) \in Seq(Int) /\ Len(Grown(a)) = m /\ DOMAIN Grown(a) = 1..m
  BY <1>2, <1>3, <1>4
<1>. QED
  BY <1>1, <1>2, <1>3, <1>5

LEMMA StoreArrayStep ==
  ASSUME WritersInv, SlotsInv, NEW w \in Writers, StoreArray(w)
  PROVE  WritersInv' /\ SlotsInv'
<1>. DEFINE a == arrays[slice.array]
<1>1. /\ mu = w /\ Midway(w) /\ writer[w].pc = "array"
      /\ a \in Seq(Int) /\ slice.array \in DOMAIN arrays
      /\ arrays \in Seq(Seq(Int)) /\ DOMAIN arrays = 1..Len(arrays)
      /\ Len(a) \in Nat /\ DOMAIN a = 1..Len(a)
  BY SMTT(30) DEF StoreArray, WritersInv
<1>. DEFINE next == [writer[w] EXCEPT !.pc = "len", !.array = slice'.array]
<1>2. /\ notifSeq \in Nat /\ notifSeq > 0 /\ notifSeq - 1 <= Len(a)
      /\ slice.len = notifSeq - 1
      /\ writer[w].array = slice.array /\ writer[w].at = notifSeq /\ writer[w].n = notifSeq
      /\ complete = 1..(notifSeq - 1)
      /\ \A i \in 1..(notifSeq - 1) : a[i] = i
      /\ \A i \in DOMAIN a : a[i] \in {i, Empty}
  BY <1>1 DEF Midway, InPlace, WritersInv, SlotsInv
<1>3. /\ arrays' = IF notifSeq > Len(a) THEN Append(arrays, Grown(a)) ELSE arrays
      /\ slice' = IF notifSeq > Len(a) THEN [slice EXCEPT !.array = Len(arrays')] ELSE slice
      /\ writer' = [writer EXCEPT ![w] = next]
      /\ UNCHANGED <<notifSeq, mu, complete, reader>>
  BY <1>2 DEF StoreArray
<1>4. ASSUME slice' \in [array : DOMAIN arrays', len : Nat], slice'.len = slice.len,
             arrays' \in Seq(Seq(Int)), InPlace(notifSeq - 1)',
             notifSeq <= Len(arrays'[slice'.array])
      PROVE  WritersInv'
  <2>1. /\ next \in [pc : {"idle", "array", "len", "element"}, n : Int, array : Int, at : Int]
        /\ next.pc = "len" /\ next.n = notifSeq /\ next.at = notifSeq
        /\ next.array = slice'.array
    <3>1. writer[w] \in [pc : {"idle", "array", "len", "element"}, n : Int, array : Int, at : Int]
      BY DEF WritersInv
    <3>2. slice'.array \in Int
      BY <1>4
    <3>. QED
      BY <1>2, <3>1, <3>2
  <2>. HIDE DEF next
  <2>2. /\ writer' \in [Writers -> [pc : {"idle", "array", "len", "element"},
                                     n : Int, array : Int, at : Int]]
        /\ writer'[w] = next
        /\ \A v \in Writers : v # w => writer'[v] = writer[v]
    BY <1>3, <2>1 DEF WritersInv
  <2>3. Midway(w)'
    BY <1>2, <1>3, <1>4, <2>1, <2>2 DEF Midway
  <2>4. UNCHANGED <<mu, notifSeq>> /\ mu # Nobody
    BY <1>1, <1>3, FeedAssumption
  <2>. QED
    BY <1>1, <1>2, <1>4, <2>2, <2>3, <2>4 DEF WritersInv
<1>5. CASE ~(notifSeq > Len(a))
  <2>1. UNCHANGED <<arrays, slice, notifSeq>>
    BY <1>5, <1>3
  <2>2. InPlace(notifSeq - 1)' /\ notifSeq <= Len(arrays'[slice'.array])
    BY <1>1, <1>2, <1>5, <2>1 DEF Midway, InPlace
  <2>3. WritersInv'
    BY <1>4, <2>1, <2>2 DEF WritersInv
  <2>. QED
    BY <2>1, <2>3 DEF SlotsInv
<1>6. CASE notifSeq > Len(a)
  <2>. DEFINE b == Grown(a)
              k == Len(arrays) + 1
  <2>1. /\ arrays' = Append(arrays, b)
        /\ slice' = [slice EXCEPT !.array = Len(arrays')]
        /\ notifSeq' = notifSeq
    BY <1>6, <1>3
  <2>2. /\ b \in Seq(Int)
        /\ Len(b) >= notifSeq
        /\ \A i \in 1..(notifSeq - 1) : b[i] = i
        /\ \A i \in DOMAIN b : b[i] \in {i, Empty}
    <3>1. /\ b \in Seq(Int)
          /\ Len(b) > Len(a)
          /\ \A i \in DOMAIN a : i \in DOMAIN b /\ b[i] = a[i]
          /\ \A i \in DOMAIN b : i \notin DOMAIN a => b[i] = Empty
      <4>1. a \in Seq(Int)
        BY <1>1
      <4>. HIDE DEF a
      <4>. QED
        BY <4>1, GrownFits
    <3>. HIDE DEF a, b
    <3>2. Len(b) \in Nat
      BY <3>1
    <3>3. DOMAIN a = 1..Len(a) /\ Len(a) \in Nat
      BY <1>1
    <3>4. ASSUME NEW i \in 1..(notifSeq - 1) PROVE b[i] = i
      <4>1. a[i] = i /\ i \in DOMAIN a
        BY <1>2, <3>3
      <4>. QED
        BY <3>1, <4>1
    <3>5. \A i \in DOMAIN b : b[i] \in {i, Empty}
      BY <1>2, <3>1
    <3>6. Len(b) >= notifSeq
      BY <1>2, <3>1, <3>2, <3>3
    <3>. QED
      BY <3>1, <3>4, <3>5, <3>6
  <2>. HIDE DEF b
  <2>3. /\ arrays' \in Seq(Seq(Int)) /\ Len(arrays') = k
        /\ DOMAIN arrays' = DOMAIN arrays \cup {k}
        /\ arrays'[k] = b
        /\ \A j \in DOMAIN arrays : arrays'[j] = arrays[j]
    BY <1>1, <2>1, <2>2
  <2>4. slice'.array = k /\ slice'.len = slice.len
        /\ slice' \in [array : DOMAIN arrays', len : Nat]
    BY <2>1, <2>3 DEF WritersInv
  <2>5. InPlace(notifSeq - 1)' /\ notifSeq <= Len(arrays'[slice'.array])
    <3>1. Len(b) \in Nat
      BY <2>2
    <3>. QED
      BY <1>2, <2>1, <2>2, <2>3, <2>4, <3>1 DEF InPlace
  <2>6. WritersInv'
    BY <1>4, <2>3, <2>4, <2>5
  <2>7. SlotsInv'
    BY <2>2, <2>3 DEF SlotsInv
  <2>. QED
    BY <2>6, <2>7
<1>. QED
  BY <1>5, <1>6

LEMMA StoreElementStep ==
  ASSUME WritersInv, SlotsInv, NEW w \in Writers, StoreElement(w)
  PROVE  WritersInv' /\ SlotsInv'
<1>. DEFINE k == slice.array
            b == [arrays[k] EXCEPT ![notifSeq] = notifSeq]
<1>1. /\ mu = w /\ Midway(w) /\ writer[w].pc = "element"
      /\ k \in DOMAIN arrays /\ arrays[k] \in Seq(Int)
      /\ arrays \in Seq(Seq(Int))
      /\ notifSeq \in Nat /\ notifSeq > 0
      /\ notifSeq \in DOMAIN arrays[k]
  BY DEF StoreElement, WritersInv, Midway
<1>2. /\ arrays' = [arrays EXCEPT ![k] = b]
      /\ complete' = complete \cup {notifSeq}
      /\ mu' = Nobody
      /\ writer' = [writer EXCEPT ![w] = WriterIdle]
      /\ UNCHANGED <<slice, notifSeq, reader>>
  BY <1>1 DEF StoreElement, Midway
<1>3. /\ b \in Seq(Int) /\ Len(b) = Len(arrays[k]) /\ DOMAIN b = DOMAIN arrays[k]
      /\ b[notifSeq] = notifSeq
      /\ \A i \in DOMAIN b : i # notifSeq => b[i] = arrays[k][i]
  BY <1>1
<1>. HIDE DEF b
<1>4. /\ arrays' \in Seq(Seq(Int)) /\ DOMAIN arrays' = DOMAIN arrays
      /\ arrays'[k] = b
      /\ \A j \in DOMAIN arrays : j # k => arrays'[j] = arrays[j]
  BY <1>1, <1>2, <1>3
<1>5. AtRest'
  <2>1. InPlace(notifSeq)'
    <3>1. /\ \A i \in 1..(notifSeq - 1) : arrays[k][i] = i
          /\ notifSeq <= Len(arrays[k])
      BY <1>1 DEF Midway, InPlace
    <3>2. Len(arrays[k]) \in Nat /\ DOMAIN arrays[k] = 1..Len(arrays[k])
      BY <1>1
    <3>3. notifSeq <= Len(b) /\ \A i \in 1..notifSeq : b[i] = i
      <4>1. notifSeq <= Len(b)
        BY <1>3, <3>1
      <4>2. \A i \in 1..notifSeq : i = notifSeq \/ i \in 1..(notifSeq - 1)
        BY <1>1
      <4>3. \A i \in 1..(notifSeq - 1) : i \in DOMAIN b /\ i # notifSeq
        BY SMTT(30), <1>1, <1>3, <3>1, <3>2
      <4>. QED
        BY <1>3, <3>1, <4>1, <4>2, <4>3
    <3>4. arrays'[slice'.array] = b /\ notifSeq' = notifSeq
      BY <1>2, <1>4
    <3>. QED
      BY <3>3, <3>4 DEF InPlace
  <2>2. complete' = 1..notifSeq /\ slice.len = notifSeq
    BY <1>1, <1>2 DEF Midway
  <2>. QED
    BY <1>2, <2>1, <2>2 DEF AtRest
<1>6. WritersInv'
  BY SMTT(30), <1>1, <1>2, <1>4, <1>5, FeedAssumption DEF WritersInv, WriterIdle
<1>7. SlotsInv'
  BY <1>1, <1>3, <1>4 DEF SlotsInv
<1>. QED
  BY <1>6, <1>7

-----------------------------------------------------------------------------
(***************************************************************************)
(* What a reader holds.  The list may grow and move meanwhile; what it was *)
(* stays in the array it was in.                                           *)
(***************************************************************************)
\* The notifications ns are in their places in array k, which has m slots or more.
Holds(k, m, ns) ==
  /\ k \in DOMAIN arrays
  /\ m <= Len(arrays[k])
  /\ ns \subseteq 1..m
  /\ \A n \in ns : arrays[k][n] = n

Reading(r) ==
  /\ reader[r].len \in Nat
  /\ reader[r].pc = "slice" =>
       /\ reader[r].len <= slice.len
       /\ reader[r].due \subseteq complete
       /\ reader[r].due \subseteq 1..reader[r].len
  /\ reader[r].pc = "copy" =>
       /\ Holds(reader[r].array, reader[r].len, reader[r].due)
       /\ \A i \in DOMAIN reader[r].out :
            /\ i \in 1..reader[r].len
            /\ reader[r].out[i] \in {i, Empty}
            /\ i \in reader[r].due => reader[r].out[i] = i

\* A copy that has some of its elements.
Partial == UNION {[S -> Int] : S \in SUBSET Int}

ReaderRecord ==
  [pc : {"idle", "slice", "copy"}, len : Nat, array : Int, due : SUBSET Int, out : Partial]

LEMMA EmptyIsPartial == <<>> \in Partial /\ DOMAIN <<>> = {}
<1>1. <<>> \in [{} -> Int]
  OBVIOUS
<1>. QED
  BY <1>1 DEF Partial

ReadersInv ==
  /\ reader \in [Readers -> ReaderRecord]
  /\ \A r \in Readers : Reading(r)

\* What the current slice holds.
LEMMA SliceHolds ==
  ASSUME WritersInv, FeedAssumption
  PROVE  Holds(slice.array, slice.len, complete)
<1>1. CASE mu = Nobody
  <2>1. AtRest /\ notifSeq \in Nat /\ slice.array \in DOMAIN arrays
    BY <1>1 DEF WritersInv
  <2>. QED
    BY <2>1 DEF AtRest, InPlace, Holds
<1>2. CASE mu # Nobody
  <2>1. PICK w \in Writers : Midway(w)
    BY <1>2 DEF WritersInv
  <2>2. /\ notifSeq \in Nat /\ slice.array \in DOMAIN arrays
        /\ Len(arrays[slice.array]) \in Nat
    BY DEF WritersInv
  <2>. QED
    BY <2>1, <2>2 DEF Midway, InPlace, Holds
<1>. QED
  BY <1>1, <1>2

\* Writers only fill slots, each with what belongs there.
ArraysKept ==
  \A j \in DOMAIN arrays :
    /\ j \in DOMAIN arrays'
    /\ Len(arrays'[j]) = Len(arrays[j])
    /\ \A i \in DOMAIN arrays[j] : arrays'[j][i] \in {arrays[j][i], i}

LEMMA KeptIsHeld ==
  ASSUME ArraysKept, arrays \in Seq(Seq(Int)), NEW k, NEW m \in Nat, NEW ns, Holds(k, m, ns)
  PROVE  Holds(k, m, ns)'
<1>1. /\ k \in DOMAIN arrays /\ m <= Len(arrays[k]) /\ ns \subseteq 1..m
      /\ \A n \in ns : arrays[k][n] = n
      /\ Len(arrays[k]) \in Nat /\ DOMAIN arrays[k] = 1..Len(arrays[k])
  BY DEF Holds
<1>2. /\ k \in DOMAIN arrays' /\ Len(arrays'[k]) = Len(arrays[k])
      /\ \A i \in DOMAIN arrays[k] : arrays'[k][i] \in {arrays[k][i], i}
  BY <1>1 DEF ArraysKept
<1>3. \A n \in ns : n \in DOMAIN arrays[k]
  BY <1>1
<1>. QED
  BY <1>1, <1>2, <1>3 DEF Holds

LEMMA WritersKeep ==
  ASSUME WritersInv, SlotsInv, NEW w \in Writers,
         Begin(w) \/ StoreArray(w) \/ StoreLen(w) \/ StoreElement(w)
  PROVE  /\ ArraysKept
         /\ slice.len <= slice'.len
         /\ complete \subseteq complete'
         /\ reader' = reader
<1>. /\ slice.len \in Nat /\ notifSeq \in Nat
     /\ arrays \in Seq(Seq(Int)) /\ slice \in [array : DOMAIN arrays, len : Nat]
  BY DEF WritersInv
<1>1. CASE Begin(w)
  BY <1>1 DEF Begin, ArraysKept
<1>2. CASE StoreArray(w)
  <2>0. arrays[writer[w].array] \in Seq(Int)
    BY <1>2 DEF StoreArray, WritersInv, Midway
  <2>1. /\ arrays' = arrays \/ arrays' = Append(arrays, Grown(arrays[writer[w].array]))
        /\ slice' = slice \/ slice' = [slice EXCEPT !.array = Len(arrays')]
        /\ UNCHANGED <<complete, reader>>
    BY <1>2 DEF StoreArray
  <2>2. \A j \in DOMAIN arrays : j \in DOMAIN arrays' /\ arrays'[j] = arrays[j]
    <3>. DEFINE b == Grown(arrays[writer[w].array])
    <3>1. b \in Seq(Int)
      BY <2>0, GrownFits
    <3>. HIDE DEF b
    <3>2. arrays' = arrays \/ arrays' = Append(arrays, b)
      BY <2>1 DEF b
    <3>3. DOMAIN arrays = 1..Len(arrays) /\ Len(arrays) \in Nat
      OBVIOUS
    <3>4. CASE arrays' = Append(arrays, b)
      BY <3>1, <3>3, <3>4
    <3>. QED
      BY <3>2, <3>4
  <2>3. slice'.len = slice.len
    BY <2>1
  <2>. QED
    BY <2>1, <2>2, <2>3 DEF ArraysKept
<1>3. CASE StoreLen(w)
  <2>1. /\ slice' = [slice EXCEPT !.len = writer[w].at]
        /\ writer[w].pc = "len"
        /\ UNCHANGED <<arrays, complete, reader>>
    BY <1>3 DEF StoreLen
  <2>2. writer[w].at = notifSeq /\ slice.len = notifSeq - 1
    BY <2>1 DEF WritersInv, Midway
  <2>3. slice.len <= slice'.len
    BY <2>1, <2>2
  <2>. QED
    BY <2>1, <2>3 DEF ArraysKept
<1>4. CASE StoreElement(w)
  <2>1. /\ writer[w].array \in DOMAIN arrays /\ writer[w].at = writer[w].n
    BY <1>4 DEF StoreElement, WritersInv, Midway
  <2>. DEFINE k == writer[w].array
              n == writer[w].n
              b == [arrays[k] EXCEPT ![n] = n]
  <2>2. /\ arrays' = [arrays EXCEPT ![k] = b]
        /\ UNCHANGED <<slice, reader>>
        /\ complete \subseteq complete'
    BY <1>4, <2>1 DEF StoreElement
  <2>3. arrays[k] \in Seq(Int)
    BY <2>1
  <2>. HIDE DEF k, n
  <2>4. /\ Len(b) = Len(arrays[k])
        /\ \A i \in DOMAIN arrays[k] : b[i] \in {arrays[k][i], i}
    BY <2>3
  <2>. HIDE DEF b
  <2>5. /\ DOMAIN arrays' = DOMAIN arrays
        /\ \A j \in DOMAIN arrays : arrays'[j] = IF j = k THEN b ELSE arrays[j]
    BY <2>2
  <2>. QED
    BY <2>2, <2>4, <2>5 DEF ArraysKept
<1>. QED
  BY <1>1, <1>2, <1>3, <1>4

\* A step of a writer leaves every reader in order.
LEMMA ReadersAside ==
  ASSUME WritersInv, ReadersInv, ArraysKept, slice.len <= slice'.len,
         complete \subseteq complete', reader' = reader, slice'.len \in Nat
  PROVE  ReadersInv'
<1>1. ASSUME NEW r \in Readers PROVE Reading(r)'
  <2>1. /\ Reading(r) /\ arrays \in Seq(Seq(Int)) /\ slice.len \in Nat
    BY DEF ReadersInv, WritersInv
  <2>2. reader[r].pc = "copy" =>
          Holds(reader[r].array, reader[r].len, reader[r].due)'
    <3>1. reader[r].len \in Nat
          /\ (reader[r].pc = "copy" =>
                Holds(reader[r].array, reader[r].len, reader[r].due))
      BY <2>1 DEF Reading
    <3>. QED
      BY <2>1, <3>1, KeptIsHeld
  <2>. QED
    BY <2>1, <2>2 DEF Reading
<1>. QED
  BY <1>1 DEF ReadersInv

LEMMA ReadLenStep ==
  ASSUME WritersInv, ReadersInv, NEW r \in Readers, ReadLen(r)
  PROVE  ReadersInv'
<1>. DEFINE o == [reader[r] EXCEPT !.pc = "slice", !.len = slice.len, !.due = complete]
<1>1. /\ reader' = [reader EXCEPT ![r] = o]
      /\ UNCHANGED <<arrays, slice, complete>>
  BY DEF ReadLen
<1>2. slice.len \in Nat /\ complete \subseteq 1..slice.len
  BY SliceHolds, FeedAssumption DEF WritersInv, Holds
<1>3. /\ o \in ReaderRecord
      /\ o.pc = "slice" /\ o.len = slice.len /\ o.due = complete
  <2>1. reader[r] \in ReaderRecord /\ complete \subseteq Int
    BY <1>2 DEF ReadersInv
  <2>. QED
    BY <1>2, <2>1 DEF ReaderRecord
<1>. HIDE DEF o
<1>4. /\ reader'[r] = o /\ \A s \in Readers : s # r => reader'[s] = reader[s]
  BY <1>1 DEF ReadersInv
<1>5. reader' \in [Readers -> ReaderRecord]
  BY <1>1, <1>3 DEF ReadersInv
<1>6. Reading(r)'
  <2>1. /\ reader'[r].pc = "slice" /\ reader'[r].len = slice'.len
        /\ reader'[r].due = complete'
    BY <1>1, <1>3, <1>4
  <2>2. slice'.len \in Nat /\ complete' \subseteq 1..slice'.len
    BY <1>1, <1>2
  <2>. QED
    BY <2>1, <2>2 DEF Reading
<1>7. ASSUME NEW s \in Readers, s # r PROVE Reading(s)'
  BY <1>1, <1>4, <1>7 DEF ReadersInv, Reading, Holds
<1>. QED
  BY <1>5, <1>6, <1>7 DEF ReadersInv

LEMMA ReadSliceStep ==
  ASSUME WritersInv, ReadersInv, NEW r \in Readers, ReadSlice(r)
  PROVE  ReadersInv'
<1>. DEFINE o == [reader[r] EXCEPT !.pc = "copy", !.array = slice.array, !.out = <<>>]
<1>1. /\ reader' = [reader EXCEPT ![r] = o]
      /\ reader[r].pc = "slice"
      /\ UNCHANGED <<arrays, slice, complete>>
  BY DEF ReadSlice
<1>2. /\ slice.array \in Int /\ slice.array \in DOMAIN arrays
      /\ slice.len \in Nat /\ slice.len <= Len(arrays[slice.array])
      /\ Len(arrays[slice.array]) \in Nat
      /\ \A n \in complete : arrays[slice.array][n] = n
  BY SliceHolds, FeedAssumption DEF WritersInv, Holds
<1>3. <<>> \in Partial /\ DOMAIN <<>> = {}
  BY EmptyIsPartial
<1>4. /\ o \in ReaderRecord
      /\ o.pc = "copy" /\ o.array = slice.array /\ o.out = <<>>
      /\ o.len = reader[r].len /\ o.due = reader[r].due
  <2>1. reader[r] \in ReaderRecord
    BY DEF ReadersInv
  <2>. QED
    BY <1>2, <1>3, <2>1 DEF ReaderRecord
<1>. HIDE DEF o
<1>5. /\ reader'[r] = o /\ \A s \in Readers : s # r => reader'[s] = reader[s]
  BY <1>1 DEF ReadersInv
<1>6. reader' \in [Readers -> ReaderRecord]
  BY <1>1, <1>4 DEF ReadersInv
<1>7. Reading(r)'
  <2>1. /\ reader[r].len \in Nat /\ reader[r].len <= slice.len
        /\ reader[r].due \subseteq complete
        /\ reader[r].due \subseteq 1..reader[r].len
    BY <1>1 DEF ReadersInv, Reading
  <2>2. Holds(slice.array, reader[r].len, reader[r].due)
    BY <1>2, <2>1 DEF Holds
  <2>. QED
    BY <1>1, <1>3, <1>4, <1>5, <2>1, <2>2 DEF Reading, Holds
<1>8. ASSUME NEW s \in Readers, s # r PROVE Reading(s)'
  BY <1>1, <1>5, <1>8 DEF ReadersInv, Reading, Holds
<1>. QED
  BY <1>6, <1>7, <1>8 DEF ReadersInv

LEMMA CopyElementStep ==
  ASSUME WritersInv, SlotsInv, ReadersInv, NEW r \in Readers,
         NEW i \in 1..reader[r].len, CopyElement(r, i)
  PROVE  ReadersInv'
<1>. DEFINE a   == arrays[reader[r].array]
            got == Fill(reader[r].out, i, a)
            o   == [reader[r] EXCEPT !.out = got]
<1>1. /\ reader' = [reader EXCEPT ![r] = o]
      /\ reader[r].pc = "copy"
      /\ UNCHANGED <<arrays, slice, complete>>
  BY DEF CopyElement
<1>2. /\ reader[r].len \in Nat
      /\ Holds(reader[r].array, reader[r].len, reader[r].due)
      /\ \A j \in DOMAIN reader[r].out :
           /\ j \in 1..reader[r].len
           /\ reader[r].out[j] \in {j, Empty}
           /\ j \in reader[r].due => reader[r].out[j] = j
  BY <1>1 DEF ReadersInv, Reading
<1>3. i \in DOMAIN a /\ a[i] \in {i, Empty} /\ (i \in reader[r].due => a[i] = i) /\ i \in Int
  <2>1. /\ reader[r].array \in DOMAIN arrays
        /\ reader[r].len <= Len(a)
        /\ \A n \in reader[r].due : a[n] = n
    BY <1>2 DEF Holds
  <2>2. DOMAIN a = 1..Len(a) /\ Len(a) \in Nat
    BY <2>1 DEF WritersInv
  <2>3. i \in DOMAIN a
    BY <1>2, <2>1, <2>2
  <2>. QED
    BY <1>2, <2>1, <2>3 DEF SlotsInv
<1>4. /\ DOMAIN got = DOMAIN reader[r].out \cup {i}
      /\ \A j \in DOMAIN got :
           /\ j \in 1..reader[r].len
           /\ got[j] \in {j, Empty}
           /\ j \in reader[r].due => got[j] = j
  BY <1>2, <1>3 DEF Fill
<1>5. got \in Partial
  <2>1. got \in [DOMAIN got -> Int] /\ DOMAIN got \in SUBSET Int
    <3>1. DOMAIN got \subseteq Int /\ \A j \in DOMAIN got : got[j] \in Int
      BY <1>2, <1>4 DEF Empty
    <3>2. got = [j \in DOMAIN got |-> got[j]]
      BY DEF Fill
    <3>. HIDE DEF got
    <3>. QED
      BY <3>1, <3>2
  <2>. HIDE DEF got
  <2>. QED
    BY <2>1 DEF Partial
<1>. HIDE DEF got
<1>6. /\ o \in ReaderRecord
      /\ o.pc = "copy" /\ o.out = got /\ o.array = reader[r].array
      /\ o.len = reader[r].len /\ o.due = reader[r].due
  <2>1. reader[r] \in ReaderRecord
    BY DEF ReadersInv
  <2>. QED
    BY <1>1, <1>5, <2>1 DEF ReaderRecord
<1>. HIDE DEF o
<1>7. /\ reader'[r] = o /\ \A s \in Readers : s # r => reader'[s] = reader[s]
  BY <1>1 DEF ReadersInv
<1>8. reader' \in [Readers -> ReaderRecord]
  BY <1>1, <1>6 DEF ReadersInv
<1>9. Reading(r)'
  BY <1>1, <1>2, <1>4, <1>6, <1>7 DEF Reading, Holds
<1>10. ASSUME NEW s \in Readers, s # r PROVE Reading(s)'
  BY <1>1, <1>7, <1>10 DEF ReadersInv, Reading, Holds
<1>. QED
  BY <1>8, <1>9, <1>10 DEF ReadersInv

LEMMA ReturnStep ==
  ASSUME ReadersInv, NEW r \in Readers, Return(r)
  PROVE  ReadersInv'
<1>1. reader' = [reader EXCEPT ![r] = ReaderIdle] /\ UNCHANGED <<arrays, slice, complete>>
  BY DEF Return
<1>2. /\ ReaderIdle \in ReaderRecord
      /\ ReaderIdle.pc = "idle" /\ ReaderIdle.len = 0
  BY EmptyIsPartial DEF ReaderIdle, ReaderRecord
<1>3. /\ reader'[r] = ReaderIdle /\ \A s \in Readers : s # r => reader'[s] = reader[s]
  BY <1>1 DEF ReadersInv
<1>4. ASSUME NEW s \in Readers PROVE Reading(s)'
  BY <1>1, <1>2, <1>3 DEF ReadersInv, Reading, Holds
<1>. QED
  BY <1>1, <1>2, <1>4 DEF ReadersInv

-----------------------------------------------------------------------------
FeedInv == WritersInv /\ SlotsInv /\ ReadersInv

LEMMA FeedStep ==
  ASSUME FeedInv, [FNext]_fvars
  PROVE  FeedInv'
<1>. USE DEF FeedInv
<1>1. ASSUME NEW w \in Writers,
             Begin(w) \/ StoreArray(w) \/ StoreLen(w) \/ StoreElement(w)
      PROVE  FeedInv'
  <2>1. WritersInv' /\ SlotsInv'
    BY <1>1, BeginStep, StoreArrayStep, StoreLenStep, StoreElementStep
  <2>2. slice'.len \in Nat
    BY <2>1 DEF WritersInv
  <2>. QED
    BY <1>1, <2>1, <2>2, WritersKeep, ReadersAside
<1>2. ASSUME NEW r \in Readers,
             \/ ReadLen(r) \/ ReadSlice(r) \/ Return(r)
             \/ \E i \in 1..reader[r].len : CopyElement(r, i)
      PROVE  FeedInv'
  <2>1. ReadersInv'
    BY <1>2, ReadLenStep, ReadSliceStep, CopyElementStep, ReturnStep
  <2>2. UNCHANGED <<arrays, slice, notifSeq, mu, writer, complete>>
    BY <1>2 DEF ReadLen, ReadSlice, Return, CopyElement
  <2>. QED
    BY <2>1, <2>2 DEF WritersInv, SlotsInv, Midway, AtRest, InPlace
<1>3. CASE UNCHANGED fvars
  BY <1>3 DEF fvars, WritersInv, SlotsInv, ReadersInv, Midway, AtRest, InPlace, Reading, Holds
<1>. QED
  BY <1>1, <1>2, <1>3 DEF FNext

-----------------------------------------------------------------------------
(***************************************************************************)
(* Beside the list: what a detection under way has seen of the readings.   *)
(***************************************************************************)
DetectionInv ==
  /\ detection \in {"none", "examine", "freeze"}
  /\ detection # "none" => answer = "none"
  /\ detection = "examine" => readings \in since
  /\ detection = "freeze" => \E c \in since : HasAnomaly(c)
  /\ AnswerFitsReadings

LEMMA DetectionStep ==
  ASSUME DetectionInv, [DNext]_dvars
  PROVE  DetectionInv'
<1>. USE DEF DetectionInv, AnswerFitsReadings
<1>1. ASSUME NEW c \in Conditions, StoreReadings(c) PROVE DetectionInv'
  BY <1>1 DEF StoreReadings
<1>2. ASSUME NEW c \in Conditions, PutConditions(c) PROVE DetectionInv'
  BY <1>2 DEF PutConditions
<1>3. CASE Examine
  BY <1>3 DEF Examine
<1>4. CASE FreezeCabin
  BY <1>4 DEF FreezeCabin
<1>5. CASE Reconnect
  BY <1>5 DEF Reconnect
<1>6. CASE UNCHANGED dvars
  BY <1>6 DEF dvars
<1>. QED
  BY <1>1, <1>2, <1>3, <1>4, <1>5, <1>6 DEF DNext

-----------------------------------------------------------------------------
LEMMA UnlockedInvariant == USpec => [](FeedInv /\ DetectionInv)
<1>1. UInit => FeedInv /\ DetectionInv
  <2>1. FInit => ReadersInv
    BY EmptyIsPartial DEF FInit, ReadersInv, Reading, ReaderIdle, ReaderRecord
  <2>2. DInit => DetectionInv
    BY DEF DInit, DetectionInv, AnswerFitsReadings
  <2>. QED
    BY <2>1, <2>2, FeedInit DEF UInit, FeedInv
<1>2. ASSUME FeedInv, DetectionInv, [UNext]_uvars
      PROVE  (FeedInv /\ DetectionInv)'
  <2>1. [FNext]_fvars /\ [DNext]_dvars
    BY <1>2 DEF UNext, uvars
  <2>. QED
    BY <1>2, <2>1, FeedStep, DetectionStep
<1>. QED
  BY <1>1, <1>2, PTL DEF USpec

(***************************************************************************)
(* However often the list grows, whoever notifies and lists: when nobody   *)
(* is notifying, the list is what the numbers say.                         *)
(***************************************************************************)
THEOREM FeedComplete == USpec => []FeedIsComplete
<1>1. FeedInv => FeedIsComplete
  BY DEF FeedInv, WritersInv, AtRest, InPlace, FeedIsComplete
<1>. QED
  BY <1>1, UnlockedInvariant, PTL

(***************************************************************************)
(* A reader misses nothing that was there when it began to read, and gets  *)
(* nothing that does not belong where it is, but for empty places.         *)
(***************************************************************************)
THEOREM ReadersServed == USpec => []ReaderGetsWhatWasThere
<1>1. ASSUME FeedInv, NEW r \in Readers, Copied(r)
      PROVE  /\ \A n \in reader[r].due : n \in 1..reader[r].len /\ reader[r].out[n] = n
             /\ \A i \in 1..reader[r].len : reader[r].out[i] \in {i, Empty}
  <2>1. Reading(r) /\ reader[r].pc = "copy" /\ DOMAIN reader[r].out = 1..reader[r].len
    BY <1>1 DEF FeedInv, ReadersInv, Copied
  <2>. QED
    BY <2>1 DEF Reading, Holds
<1>2. FeedInv => ReaderGetsWhatWasThere
  BY <1>1 DEF ReaderGetsWhatWasThere
<1>. QED
  BY <1>2, UnlockedInvariant, PTL

(***************************************************************************)
(* Whatever readings are stored around a detection, its answer fits some   *)
(* that the cabin had meanwhile.                                           *)
(***************************************************************************)
THEOREM AnswersFit == USpec => []AnswerFitsReadings
<1>1. DetectionInv => AnswerFitsReadings
  BY DEF DetectionInv
<1>. QED
  BY <1>1, UnlockedInvariant, PTL
=============================================================================

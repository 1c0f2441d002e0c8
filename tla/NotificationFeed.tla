--------------------------- MODULE NotificationFeed ---------------------------
(***************************************************************************)
(* The list of notifications in memory (internal/dispatch): operations     *)
(* append to o.notifs while they hold o.mu, and Notifications() copies the *)
(* list without it.  o.notifs is a Go slice: a pointer to an array and a   *)
(* length.  Appending stores them one by one in the order in which the     *)
(* compiler emits the stores, which amd64 keeps: a new array if the old    *)
(* one is full, then the length, then the element.                         *)
(*                                                                         *)
(* A notification is its number.                                           *)
(***************************************************************************)
EXTENDS Integers, Sequences

CONSTANTS
  Writers,      \* goroutines that run operations
  Readers,      \* goroutines that list the notifications
  MaxNotifs     \* bound on the number of notifications

VARIABLES
  arrays,       \* the arrays allocated so far, with all their slots
  slice,        \* o.notifs: which array, and how many of its slots
  notifSeq,     \* o.notifSeq
  mu,           \* who holds o.mu
  writer,       \* what each writer is about to store
  complete,     \* history: the notifications whose operation has returned
  reader        \* what each reader has read

fvars == <<arrays, slice, notifSeq, mu, writer, complete, reader>>

Nobody == "nobody"

ASSUME FeedAssumption == Nobody \notin Writers /\ MaxNotifs \in Nat

Empty   == 0          \* a nil pointer
Garbage == -1         \* what lies behind the end of an array

WriterIdle == [pc |-> "idle", n |-> 0, array |-> 0, at |-> 0]
ReaderIdle == [pc |-> "idle", len |-> 0, array |-> 0, due |-> {}, out |-> <<>>]

FInit ==
  /\ arrays = << <<>> >>
  /\ slice = [array |-> 1, len |-> 0]
  /\ notifSeq = 0
  /\ mu = Nobody
  /\ writer = [w \in Writers |-> WriterIdle]
  /\ complete = {}
  /\ reader = [r \in Readers |-> ReaderIdle]

-----------------------------------------------------------------------------
(***************************************************************************)
(* addNotification.                                                        *)
(***************************************************************************)
\* Fault: an operation notifies without o.mu.
BeginUnlocked(w) ==
  /\ writer[w].pc = "idle"
  /\ notifSeq < MaxNotifs
  /\ notifSeq' = notifSeq + 1
  /\ writer' = [writer EXCEPT ![w] =
       [pc |-> "array", n |-> notifSeq + 1, array |-> slice.array, at |-> slice.len + 1]]
  /\ UNCHANGED <<arrays, slice, mu, complete, reader>>

\* The notification is numbered, and append loads the slice.
Begin(w) ==
  /\ writer[w].pc = "idle"
  /\ mu = Nobody
  /\ notifSeq < MaxNotifs
  /\ mu' = w
  /\ notifSeq' = notifSeq + 1
  /\ writer' = [writer EXCEPT ![w] =
       [pc |-> "array", n |-> notifSeq + 1, array |-> slice.array, at |-> slice.len + 1]]
  /\ UNCHANGED <<arrays, slice, complete, reader>>

\* growslice: twice the slots, the old elements and then zeroes.
Grown(a) ==
  [i \in 1..(IF a = <<>> THEN 1 ELSE 2 * Len(a)) |-> IF i <= Len(a) THEN a[i] ELSE Empty]

\* Fault: a full list drops its oldest half in place of growing.
TrimArray(w) ==
  LET a    == arrays[writer[w].array]
      full == writer[w].at > Len(a)
      half == Len(a) \div 2
  IN
  /\ writer[w].pc = "array"
  /\ arrays' = IF ~full THEN arrays
               ELSE Append(arrays, IF half = 0 THEN Grown(a)
                                   ELSE SubSeq(a, half + 1, Len(a)) \o [i \in 1..half |-> Empty])
  /\ slice' = IF full THEN [slice EXCEPT !.array = Len(arrays')] ELSE slice
  /\ writer' = [writer EXCEPT ![w] =
       [@ EXCEPT !.pc = "len", !.array = slice'.array,
                 !.at = IF full /\ half > 0 THEN Len(a) - half + 1 ELSE @]]
  /\ UNCHANGED <<notifSeq, mu, complete, reader>>

StoreArray(w) ==
  LET a    == arrays[writer[w].array]
      full == writer[w].at > Len(a)
  IN
  /\ writer[w].pc = "array"
  /\ arrays' = IF full THEN Append(arrays, Grown(a)) ELSE arrays
  /\ slice' = IF full THEN [slice EXCEPT !.array = Len(arrays')] ELSE slice
  /\ writer' = [writer EXCEPT ![w] = [@ EXCEPT !.pc = "len", !.array = slice'.array]]
  /\ UNCHANGED <<notifSeq, mu, complete, reader>>

StoreLen(w) ==
  /\ writer[w].pc = "len"
  /\ slice' = [slice EXCEPT !.len = writer[w].at]
  /\ writer' = [writer EXCEPT ![w] = [@ EXCEPT !.pc = "element"]]
  /\ UNCHANGED <<arrays, notifSeq, mu, complete, reader>>

\* The element, and the operation returns.
StoreElement(w) ==
  /\ writer[w].pc = "element"
  /\ arrays' = [arrays EXCEPT ![writer[w].array] = [@ EXCEPT ![writer[w].at] = writer[w].n]]
  /\ complete' = complete \cup {writer[w].n}
  /\ mu' = Nobody
  /\ writer' = [writer EXCEPT ![w] = WriterIdle]
  /\ UNCHANGED <<slice, notifSeq, reader>>

-----------------------------------------------------------------------------
(***************************************************************************)
(* Notifications: the length for make, then the slice for copy, whose      *)
(* length is no less by then, then the elements, in no order one can rely  *)
(* on.                                                                     *)
(***************************************************************************)
ReadLen(r) ==
  /\ reader[r].pc = "idle"
  /\ reader' = [reader EXCEPT ![r] =
       [@ EXCEPT !.pc = "slice", !.len = slice.len, !.due = complete]]
  /\ UNCHANGED <<arrays, slice, notifSeq, mu, writer, complete>>

ReadSlice(r) ==
  /\ reader[r].pc = "slice"
  /\ reader' = [reader EXCEPT ![r] =
       [@ EXCEPT !.pc = "copy", !.array = slice.array, !.out = <<>>]]
  /\ UNCHANGED <<arrays, slice, notifSeq, mu, writer, complete>>

\* A copy that gets its element i from array a, or from behind its end.
Fill(out, i, a) ==
  [j \in DOMAIN out \cup {i} |-> IF j # i THEN out[j]
                                ELSE IF i \in DOMAIN a THEN a[i] ELSE Garbage]

CopyElement(r, i) ==
  /\ reader[r].pc = "copy"
  /\ i \notin DOMAIN reader[r].out
  /\ reader' = [reader EXCEPT ![r].out = Fill(@, i, arrays[reader[r].array])]
  /\ UNCHANGED <<arrays, slice, notifSeq, mu, writer, complete>>

Copied(r) == reader[r].pc = "copy" /\ DOMAIN reader[r].out = 1..reader[r].len

Return(r) ==
  /\ Copied(r)
  /\ reader' = [reader EXCEPT ![r] = ReaderIdle]
  /\ UNCHANGED <<arrays, slice, notifSeq, mu, writer, complete>>

FNext ==
  \/ \E w \in Writers : Begin(w) \/ StoreArray(w) \/ StoreLen(w) \/ StoreElement(w)
  \/ \E r \in Readers :
       \/ ReadLen(r)
       \/ ReadSlice(r)
       \/ \E i \in 1..reader[r].len : CopyElement(r, i)
       \/ Return(r)

FSpec == FInit /\ [][FNext]_fvars

-----------------------------------------------------------------------------
(***************************************************************************)
(* No notification is lost, overwritten or numbered like another: when     *)
(* nobody is notifying, the list is what the numbers say.                  *)
(***************************************************************************)
FeedIsComplete ==
  mu = Nobody =>
    /\ slice.len = notifSeq
    /\ \A i \in 1..slice.len : arrays[slice.array][i] = i

(***************************************************************************)
(* A reader gets every notification whose operation had returned before it *)
(* began to read, in order, and nothing that is no notification of that    *)
(* place; a place it gets may be empty, see EveryEntryIsUsable.            *)
(***************************************************************************)
ReaderGetsWhatWasThere ==
  \A r \in Readers :
    Copied(r) =>
      /\ \A n \in reader[r].due : n \in 1..reader[r].len /\ reader[r].out[n] = n
      /\ \A i \in 1..reader[r].len : reader[r].out[i] \in {i, Empty}

(***************************************************************************)
(* What notifications_concurrent_test.go asks for and the code does not    *)
(* do: every entry handed to a reader is usable.                           *)
(***************************************************************************)
EveryEntryIsUsable ==
  \A r \in Readers :
    Copied(r) => \A i \in 1..reader[r].len : reader[r].out[i] # Empty
=============================================================================

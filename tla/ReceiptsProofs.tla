--------------------------- MODULE ReceiptsProofs ---------------------------
(***************************************************************************)
(* What the order of the calls in attach and remove is worth: object       *)
(* before key, deletion before clearing.  For any number of overlapping    *)
(* requests, failures and crashes, with the deletion of the expense or the *)
(* trip in between.                                                        *)
(*                                                                         *)
(* The argument rests on keys naming uploads that are over: nobody can     *)
(* store an object again under a key that was ever in the row, so what a   *)
(* remove has deleted stays deleted until it clears the key.               *)
(*                                                                         *)
(* The second part is about the list of expenses: what the reader has put  *)
(* together lies above its cursor, which is the last row of it, and what a *)
(* page is cut from below, in the same order.                              *)
(***************************************************************************)
EXTENDS Receipts, ExpensePages, FiniteSetTheorems, SequenceTheorems, TLAPS

(* A key in the row, or read from it, is that of an upload that is over. *)
KeysAreOld ==
    /\ key # NoKey => at[key] = "ended"
    /\ \A r \in Requests : read[r] # NoKey => at[read[r]] = "ended"

(* How far each request has come. *)
Progress ==
    \A r \in Requests :
        /\ at[r] # "ended" => outcome[r] = "pending"
        /\ at[r] = "set" => r \in objects
        /\ at[r] \in {"delete", "clear"} => op[r] = "remove" /\ read[r] # NoKey
        /\ at[r] = "clear" => read[r] \notin objects

(* The inductive invariant. *)
ReceiptInv ==
    /\ TypeOK /\ KeysAreOld /\ Progress
    /\ NoDanglingKey /\ StrayObjectsAreAccountedFor

-----------------------------------------------------------------------------
LEMMA InitReceiptInv == Init => ReceiptInv
  BY BoundsAssumption
     DEF Init, ReceiptInv, TypeOK, KeysAreOld, Progress, NoDanglingKey,
         StrayObjectsAreAccountedFor, Points, Outcomes

LEMMA NextTypeOK == ASSUME TypeOK, [Next]_vars PROVE TypeOK'
<1> USE DEF TypeOK, Points, Outcomes, GoTo, End
<1>f. Fault => faults' \in 0 .. MaxFaults
  BY BoundsAssumption DEF Fault
<1>1. ASSUME NEW r \in Requests, Look(r) PROVE TypeOK'
  BY <1>1 DEF Look
<1>2. ASSUME NEW r \in Requests, PutObject(r) PROVE TypeOK'
  BY <1>2, <1>f DEF PutObject
<1>3. ASSUME NEW r \in Requests, SetReceiptKey(r) PROVE TypeOK'
  BY <1>3, <1>f DEF SetReceiptKey
<1>4. ASSUME NEW r \in Requests, GetObject(r) PROVE TypeOK'
  BY <1>4, <1>f DEF GetObject
<1>5. ASSUME NEW r \in Requests, DeleteObject(r) PROVE TypeOK'
  BY <1>5, <1>f DEF DeleteObject
<1>6. ASSUME NEW r \in Requests, ClearReceiptKey(r) PROVE TypeOK'
  BY <1>6, <1>f DEF ClearReceiptKey
<1>7. CASE Crash
  BY <1>7, <1>f DEF Crash
<1>8. CASE DeleteExpense \/ DeleteTrip \/ UNCHANGED vars
  BY <1>8 DEF DeleteExpense, DeleteTrip, vars
<1> QED
  BY <1>1, <1>2, <1>3, <1>4, <1>5, <1>6, <1>7, <1>8 DEF Next

(* Who has ended stays so, as it ended, with what it read. *)
LEMMA EndedStays ==
    ASSUME TypeOK, [Next]_vars, NEW r \in Requests, at[r] = "ended"
    PROVE  at'[r] = "ended" /\ outcome'[r] = outcome[r] /\ read'[r] = read[r] /\ op'[r] = op[r]
<1> USE DEF TypeOK, GoTo, End
<1>1. ASSUME NEW x \in Requests,
             \/ Look(x) \/ PutObject(x) \/ SetReceiptKey(x) \/ GetObject(x)
             \/ DeleteObject(x) \/ ClearReceiptKey(x)
      PROVE  /\ at'[r] = "ended" /\ outcome'[r] = outcome[r]
             /\ read'[r] = read[r] /\ op'[r] = op[r]
  BY <1>1 DEF Look, PutObject, SetReceiptKey, GetObject, DeleteObject, ClearReceiptKey
<1>2. CASE Crash
  BY <1>2 DEF Crash
<1>3. CASE DeleteExpense \/ DeleteTrip \/ UNCHANGED vars
  BY <1>3 DEF DeleteExpense, DeleteTrip, vars
<1> QED
  BY <1>1, <1>2, <1>3 DEF Next

LEMMA NextKeysAreOld ==
    ASSUME TypeOK, KeysAreOld, [Next]_vars PROVE KeysAreOld'
<1>1. key' \in {key, NoKey} \/ \E r \in Requests : key' = r /\ at'[r] = "ended"
  BY DEF TypeOK, Next, Look, PutObject, SetReceiptKey, GetObject, DeleteObject,
         ClearReceiptKey, Crash, DeleteExpense, DeleteTrip, vars, End
<1>2. \A r \in Requests : read'[r] \in {read[r], key}
  BY DEF TypeOK, Next, Look, PutObject, SetReceiptKey, GetObject, DeleteObject,
         ClearReceiptKey, Crash, DeleteExpense, DeleteTrip, vars
<1>3. \A q \in Requests : at[q] = "ended" => at'[q] = "ended"
  BY EndedStays
<1>4. key # NoKey => key \in Requests /\ at'[key] = "ended"
  BY <1>3 DEF TypeOK, KeysAreOld
<1>5. \A r \in Requests : read[r] # NoKey => read[r] \in Requests /\ at'[read[r]] = "ended"
  BY <1>3 DEF TypeOK, KeysAreOld
<1> QED
  BY <1>1, <1>2, <1>4, <1>5 DEF KeysAreOld

(* Nobody deletes the object of an upload that is under way, or stores one *)
(* that was deleted.                                                       *)
LEMMA NextProgress ==
    ASSUME TypeOK, KeysAreOld, Progress, [Next]_vars PROVE Progress'
<1> USE DEF TypeOK, Progress, GoTo, End
<1>1. ASSUME NEW r \in Requests, Look(r) PROVE Progress'
  BY <1>1 DEF Look
<1>2. ASSUME NEW r \in Requests, PutObject(r) PROVE Progress'
  <2>1. \A q \in Requests : read[q] = r => read[q] = NoKey
    BY <1>2 DEF PutObject, KeysAreOld
  <2> QED
    BY <1>2, <2>1 DEF PutObject
<1>3. ASSUME NEW r \in Requests, SetReceiptKey(r) PROVE Progress'
  BY <1>3 DEF SetReceiptKey
<1>4. ASSUME NEW r \in Requests, GetObject(r) PROVE Progress'
  BY <1>4 DEF GetObject
<1>5. ASSUME NEW r \in Requests, DeleteObject(r) PROVE Progress'
  <2>1. at[read[r]] = "ended"
    BY <1>5 DEF DeleteObject, KeysAreOld
  <2> QED
    BY <1>5, <2>1 DEF DeleteObject
<1>6. ASSUME NEW r \in Requests, ClearReceiptKey(r) PROVE Progress'
  BY <1>6 DEF ClearReceiptKey
<1>7. CASE Crash
  BY <1>7 DEF Crash
<1>8. CASE DeleteExpense \/ DeleteTrip \/ UNCHANGED vars
  BY <1>8 DEF DeleteExpense, DeleteTrip, vars
<1> QED
  BY <1>1, <1>2, <1>3, <1>4, <1>5, <1>6, <1>7, <1>8 DEF Next

(* A remove that explains a missing object goes on explaining it. *)
LEMMA NextNoDanglingKey ==
    ASSUME TypeOK, KeysAreOld, Progress, NoDanglingKey, [Next]_vars
    PROVE  NoDanglingKey'
<1> DEFINE Explains(r) ==
      /\ op[r] = "remove" /\ read[r] = key
      /\ at[r] = "clear" \/ outcome[r] = "failed"
<1>1. ASSUME NEW r \in Requests, SetReceiptKey(r), key' # key PROVE NoDanglingKey'
  <2>1. key' = r /\ r \in objects /\ objects' = objects
    BY <1>1 DEF SetReceiptKey, Progress
  <2> QED
    BY <2>1 DEF NoDanglingKey
<1>2. ASSUME key' = NoKey PROVE NoDanglingKey'
  BY <1>2 DEF NoDanglingKey
<1>3. ASSUME key' = key, key # NoKey, key \in objects, key \notin objects'
      PROVE  NoDanglingKey'
  <2>1. PICK r \in Requests : DeleteObject(r)
    BY <1>3 DEF Next, Look, PutObject, SetReceiptKey, GetObject, DeleteObject,
           ClearReceiptKey, Crash, DeleteExpense, DeleteTrip, vars
  <2>2. read[r] = key /\ op[r] = "remove"
    BY <1>3, <2>1 DEF DeleteObject, Progress
  <2>3. op'[r] = "remove" /\ read'[r] = key' /\ (at'[r] = "clear" \/ outcome'[r] = "failed")
    BY <1>3, <2>1, <2>2 DEF DeleteObject, GoTo, End, TypeOK
  <2> QED
    BY <2>3 DEF NoDanglingKey
<1>4. ASSUME key' = key, key # NoKey, key \notin objects PROVE NoDanglingKey'
  <2>1. PICK r \in Requests : Explains(r)
    BY <1>4 DEF NoDanglingKey
  <2>2. CASE at[r] = "clear"
    <3>1. op'[r] = op[r] /\ read'[r] = read[r]
      BY <2>2 DEF TypeOK, Next, Look, PutObject, SetReceiptKey, GetObject, DeleteObject,
             ClearReceiptKey, Crash, DeleteExpense, DeleteTrip, vars
    <3>2. at'[r] = "clear" \/ outcome'[r] = "failed"
      <4>1. ASSUME NEW x \in Requests,
                   \/ Look(x) \/ PutObject(x) \/ SetReceiptKey(x) \/ GetObject(x)
                   \/ DeleteObject(x)
            PROVE  at'[r] = "clear"
        BY <2>2, <4>1 DEF TypeOK, Look, PutObject, SetReceiptKey, GetObject, DeleteObject,
               GoTo, End
      <4>2. ASSUME NEW x \in Requests, ClearReceiptKey(x)
            PROVE  at'[r] = "clear" \/ outcome'[r] = "failed"
        BY <1>4, <2>2, <4>2 DEF TypeOK, ClearReceiptKey, End
      <4>3. CASE Crash
        BY <2>2, <4>3 DEF TypeOK, Crash
      <4>4. CASE DeleteExpense \/ DeleteTrip \/ UNCHANGED vars
        BY <2>2, <4>4 DEF DeleteExpense, DeleteTrip, vars
      <4> QED
        BY <4>1, <4>2, <4>3, <4>4, <2>2 DEF Next
    <3> QED
      BY <1>4, <2>1, <3>1, <3>2 DEF NoDanglingKey
  <2>3. CASE at[r] # "clear"
    <3>1. outcome[r] = "failed" /\ at[r] = "ended"
      BY <2>1, <2>3 DEF Progress
    <3>2. outcome'[r] = "failed" /\ read'[r] = read[r] /\ op'[r] = op[r]
      BY <3>1, EndedStays
    <3> QED
      BY <1>4, <2>1, <3>2 DEF NoDanglingKey
  <2> QED
    BY <2>2, <2>3
<1>5. key' = key \/ key' = NoKey \/ \E r \in Requests : SetReceiptKey(r)
  BY DEF Next, Look, PutObject, GetObject, DeleteObject, ClearReceiptKey, Crash,
         DeleteExpense, DeleteTrip, vars
<1>6. ASSUME key' = key, key # NoKey, key \in objects' PROVE NoDanglingKey'
  BY <1>6 DEF NoDanglingKey
<1> QED
  BY <1>1, <1>2, <1>3, <1>4, <1>5, <1>6

(* What explains an object without a row goes on explaining it. *)
LEMMA NextStrayObjects ==
    ASSUME TypeOK, KeysAreOld, Progress, StrayObjectsAreAccountedFor, [Next]_vars
    PROVE  StrayObjectsAreAccountedFor'
<1> DEFINE Explained(o) ==
      \/ at[o] = "set" \/ outcome[o] \in {"failed", "not_found"}
      \/ o \in unlinked \/ expense = "gone"
<1> SUFFICES ASSUME NEW o \in objects', o # key'
             PROVE  Explained(o)'
  BY DEF StrayObjectsAreAccountedFor
<1>o. o \in Requests /\ (o \in objects /\ o # key => Explained(o))
  BY NextTypeOK DEF TypeOK, StrayObjectsAreAccountedFor
<1> HIDE DEF Explained
<1>e. /\ unlinked \subseteq unlinked'
      /\ expense = "gone" => expense' = "gone"
      /\ outcome[o] \in {"failed", "not_found"} => outcome'[o] = outcome[o]
  <2>1. unlinked \subseteq unlinked' /\ (expense = "gone" => expense' = "gone")
    BY DEF Next, Look, PutObject, SetReceiptKey, GetObject, DeleteObject, ClearReceiptKey,
           Crash, DeleteExpense, DeleteTrip, vars, Exists
  <2>2. outcome[o] \in {"failed", "not_found"} => at[o] = "ended"
    BY <1>o DEF Progress
  <2> QED
    BY <1>o, <2>1, <2>2, EndedStays
<1>1. CASE o \notin objects
  <2>1. PICK r \in Requests : PutObject(r)
    BY <1>1 DEF Next, Look, PutObject, SetReceiptKey, GetObject, DeleteObject,
           ClearReceiptKey, Crash, DeleteExpense, DeleteTrip, vars
  <2>2. o = r
    BY <1>1, <2>1 DEF PutObject
  <2>3. at'[o] = "set" \/ outcome'[o] = "failed"
    BY <2>1, <2>2 DEF PutObject, TypeOK, GoTo, End
  <2> QED
    BY <2>3 DEF Explained
<1>2. CASE o \in objects /\ o = key
  <2>1. CASE \E r \in Requests : SetReceiptKey(r)
    BY <1>2, <1>o, <2>1, NoKeyAssumption DEF SetReceiptKey, Explained
  <2>2. CASE \E r \in Requests : ClearReceiptKey(r)
    BY <1>2, <1>o, <2>2, NoKeyAssumption DEF ClearReceiptKey, Progress, Explained
  <2>3. CASE DeleteTrip
    BY <2>3 DEF DeleteTrip, Explained
  <2> QED
    BY <1>2, <2>1, <2>2, <2>3
       DEF Next, Look, PutObject, GetObject, DeleteObject, Crash, DeleteExpense, vars
<1>3. CASE o \in objects /\ o # key
  <2>1. Explained(o)
    BY <1>3, <1>o
  <2>2. CASE at[o] = "set"
    <3>1. ASSUME NEW r \in Requests,
                 Look(r) \/ PutObject(r) \/ GetObject(r) \/ DeleteObject(r) \/ ClearReceiptKey(r)
          PROVE  at'[o] = "set"
      BY <1>o, <2>2, <3>1 DEF Look, PutObject, GetObject, DeleteObject, ClearReceiptKey,
             GoTo, End, TypeOK
    <3>2. ASSUME NEW r \in Requests, SetReceiptKey(r)
          PROVE  at'[o] = "set" \/ outcome'[o] \in {"failed", "not_found"}
      BY <1>o, <2>2, <3>2 DEF SetReceiptKey, End, TypeOK
    <3>3. CASE Crash
      BY <1>o, <2>2, <3>3 DEF Crash, TypeOK, Explained
    <3>4. CASE DeleteExpense \/ DeleteTrip \/ UNCHANGED vars
      BY <2>2, <3>4 DEF DeleteExpense, DeleteTrip, vars, Explained
    <3> QED
      BY <2>2, <3>1, <3>2, <3>3, <3>4 DEF Next, Explained
  <2> QED
    BY <2>1, <2>2, <1>e DEF Explained
<1> QED
  BY <1>1, <1>2, <1>3

-----------------------------------------------------------------------------
LEMMA ReceiptInvariant == Spec => []ReceiptInv
<1>1. ReceiptInv /\ [Next]_vars => ReceiptInv'
  BY NextTypeOK, NextKeysAreOld, NextProgress, NextNoDanglingKey, NextStrayObjects
     DEF ReceiptInv
<1> QED
  BY <1>1, InitReceiptInv, PTL DEF Spec

(* attach and remove never leave a key without its object, but where a     *)
(* remove is about to clear it or failed half-way.                         *)
THEOREM KeysHaveObjects == Spec => []NoDanglingKey
<1>1. ReceiptInv => NoDanglingKey
  BY DEF ReceiptInv
<1> QED
  BY <1>1, ReceiptInvariant, PTL

(* Every object without a row has one of the known explanations, and a     *)
(* completed remove is none of them.                                       *)
THEOREM StraysAreExplained == Spec => []StrayObjectsAreAccountedFor
<1>1. ReceiptInv => StrayObjectsAreAccountedFor
  BY DEF ReceiptInv
<1> QED
  BY <1>1, ReceiptInvariant, PTL


-----------------------------------------------------------------------------
(* What the reader holds: places, and as its cursor the last one of them. *)
Reader ==
    /\ listed \in Seq(Places)
    /\ cursor \in {Start, Done} \/ (Len(listed) > 0 /\ cursor = listed[Len(listed)])
    /\ cursor = Start => listed = <<>>

InList ==
    /\ DOMAIN spent_at \subseteq Ids
    /\ \A id \in DOMAIN spent_at : spent_at[id] \in Instants

PagesInv == InList /\ Reader /\ ListedInOrder /\ NothingSkipped

-----------------------------------------------------------------------------
(* Places are ordered. *)
LEMMA NewerOrders ==
    /\ \A a \in Places : ~Newer(a, a)
    /\ \A a, b \in Places : Newer(a, b) => ~Newer(b, a)
    /\ \A a, b, c \in Places : Newer(a, b) /\ Newer(b, c) => Newer(a, c)
    /\ \A a, b \in Places : a # b => Newer(a, b) \/ Newer(b, a)
    /\ \A a, b \in Places : Newer(a, b) <=> Before(b, a)
<1>1. \A a \in Places : a.spent_at \in Int /\ a.id \in Int
  BY PlacesAssumption DEF Places
<1>2. \A a, b \in Places : a.spent_at = b.spent_at /\ a.id = b.id => a = b
  BY DEF Places
<1> QED
  BY <1>1, <1>2 DEF Newer, Before

(* A sorted list holds every row once. *)
LEMMA SortedHoldsAll ==
    ASSUME NEW rows, rows \in SUBSET Places, IsFiniteSet(rows), NEW list \in Sorted(rows)
    PROVE  /\ list \in Seq(Places) /\ Len(list) \in Nat
           /\ DOMAIN list = 1 .. Len(list)
           /\ \A i \in 1 .. Len(list) : list[i] \in rows
           /\ \A i, j \in 1 .. Len(list) : i < j => Newer(list[i], list[j])
           /\ \A row \in rows : \E i \in 1 .. Len(list) : list[i] = row
<1> DEFINE n == Cardinality(rows)
           I == 1 .. n
<1>1. n \in Nat /\ IsFiniteSet(I) /\ Cardinality(I) = n
  BY FS_CardinalityType, FS_Interval
<1>2. list \in [I -> rows] /\ \A i, j \in I : i < j => Newer(list[i], list[j])
  BY DEF Sorted
<1>3. \A i \in I : list[i] \in Places /\ list[i] \in rows
  BY <1>2
<1>4. list \in Injection(I, rows)
  <2>1. ASSUME NEW i \in I, NEW j \in I, list[i] = list[j] PROVE i = j
    <3>1. ~(i < j) /\ ~(j < i)
      BY <1>2, <1>3, <2>1, NewerOrders
    <3> QED BY <3>1
  <2> HIDE DEF I
  <2> QED BY <1>2, <2>1 DEF Injection, IsInjective
<1>5. list \in Surjection(I, rows)
  <2> HIDE DEF I, n
  <2> QED BY <1>1, <1>4, FS_Injection DEF n
<1>6. \A row \in rows : \E i \in I : list[i] = row
  BY <1>5 DEF Surjection
<1>7. list \in Seq(Places) /\ Len(list) = n
  <2>1. list \in [1 .. n -> Places]
    BY <1>2
  <2>2. list \in UNION {[1 .. k -> Places] : k \in Nat}
    BY <1>1, <2>1
  <2>3. list \in Seq(Places)
    BY <2>2, SeqDef, Zenon
  <2>4. DOMAIN list = 1 .. n /\ DOMAIN list = 1 .. Len(list) /\ Len(list) \in Nat
    BY <1>2, <2>3, LenProperties
  <2> HIDE DEF n
  <2>5. Len(list) = n
    BY <1>1, <2>4
  <2> QED BY <2>3, <2>5
<1> QED
  BY <1>1, <1>2, <1>3, <1>6, <1>7

LEMMA RowsPlaced ==
    ASSUME InList
    PROVE  /\ Rows \in SUBSET Places /\ IsFiniteSet(Rows)
           /\ \A row \in Rows :
                 row.id \in DOMAIN spent_at /\ row = Place(row.id, spent_at[row.id])
<1>1. Rows \in SUBSET Places
  BY DEF InList, Rows, Place, Places
<1>2. \A row \in Rows : row.id \in DOMAIN spent_at /\ row = Place(row.id, spent_at[row.id])
  BY DEF Rows, Place
<1>3. IsFiniteSet(Rows)
  <2> DEFINE D == DOMAIN spent_at
             named == [id \in D |-> Place(id, spent_at[id])]
  <2>1. IsFiniteSet(D)
    BY PlacesAssumption, FS_Subset DEF InList
  <2>2. named \in Surjection(D, Rows)
    BY DEF Surjection, Rows
  <2> HIDE DEF D, named
  <2> QED BY <2>1, <2>2, FS_Surjection
<1> QED
  BY <1>1, <1>2, <1>3

(* Beyond the cursor are the rows older than everything listed. *)
LEMMA RestIsOlder ==
    ASSUME InList, Reader, ListedInOrder, NothingSkipped, cursor # Done
    PROVE  /\ Rest \in SUBSET Places /\ IsFiniteSet(Rest)
           /\ \A row \in Rest : \A i \in 1 .. Len(listed) : Newer(listed[i], row)
           /\ \A row \in Rows \ Rest :
                 \/ \E i \in 1 .. Len(listed) : listed[i] = row
                 \/ row.id \in behind
<1>1. /\ Rows \in SUBSET Places /\ IsFiniteSet(Rows)
  BY RowsPlaced
<1>2. Rest \in SUBSET Rows
  BY DEF Rest
<1>3. Rest \in SUBSET Places /\ IsFiniteSet(Rest)
  BY <1>1, <1>2, FS_Subset
<1>4. /\ Len(listed) \in Nat /\ DOMAIN listed = 1 .. Len(listed)
      /\ \A i \in 1 .. Len(listed) : listed[i] \in Places
  BY LenProperties, ElementOfSeq DEF Reader
<1>5. CASE cursor = Start
  <2>1. Len(listed) = 0 /\ Rest = Rows
    BY <1>5 DEF Reader, Rest
  <2> QED BY <1>3, <2>1
<1>6. CASE cursor # Start
  <2> DEFINE last == Len(listed)
  <2>1. last \in 1 .. Len(listed) /\ cursor = listed[last] /\ cursor \in Places
    BY <1>4, <1>6 DEF Reader
  <2>2. ASSUME NEW row \in Rest, NEW i \in 1 .. Len(listed) PROVE Newer(listed[i], row)
    <3>1. Newer(cursor, row) /\ row \in Places
      BY <1>3, <1>6, <2>1, NewerOrders DEF Rest
    <3>2. listed[i] = cursor \/ Newer(listed[i], cursor)
      <4>1. i = last \/ i < last
        <5>1. last \in Nat /\ i \in 1 .. last
          BY <1>4
        <5> HIDE DEF last
        <5> QED BY <5>1
      <4> QED BY <1>4, <2>1, <4>1 DEF ListedInOrder
    <3> QED BY <1>4, <2>1, <3>1, <3>2, NewerOrders
  <2>3. ASSUME NEW row \in Rows \ Rest
        PROVE  (\E i \in 1 .. Len(listed) : listed[i] = row) \/ row.id \in behind
    <3>1. row \in Places /\ ~Before(row, cursor)
      BY <1>1, <1>6, <2>3 DEF Rest
    <3>2. row = cursor \/ Newer(row, cursor)
      BY <2>1, <3>1, NewerOrders
    <3>3. Passed(row)
      BY <1>4, <2>1, <3>2 DEF Passed
    <3> QED BY <1>4, <3>3 DEF NothingSkipped
  <2> QED BY <1>3, <2>2, <2>3
<1> QED BY <1>5, <1>6

-----------------------------------------------------------------------------
Holds(list, row) == \E i \in 1 .. Len(list) : list[i] = row
Above(list, row) == \A i \in 1 .. Len(list) : Newer(list[i], row)

(* What a page adds: the first rows of the rest, in order.                 *)
LEMMA PageKeeps ==
    ASSUME PagesInv, cursor # Done, NEW rest \in Sorted(Rest),
           NEW n \in 0 .. Len(rest), NEW page \in Seq(Places), Len(page) = n,
           \A i \in 1 .. n : page[i] = rest[i],
           NEW more, more = listed \o page
    PROVE  /\ more \in Seq(Places) /\ Len(more) = Len(listed) + n
           /\ \A i, j \in 1 .. Len(more) : i < j => Newer(more[i], more[j])
           /\ \A i \in 1 .. n : more[Len(listed) + i] = rest[i]
           /\ \A row \in Rows :
                 Holds(more, row) \/ row.id \in behind \/ Above(more, row)
           /\ n = Len(rest) => \A row \in Rows : Holds(more, row) \/ row.id \in behind
<1> DEFINE m == Len(listed)
<1>1. /\ listed \in Seq(Places) /\ m \in Nat /\ DOMAIN listed = 1 .. m
      /\ \A i \in 1 .. m : listed[i] \in Places
      /\ \A i, j \in 1 .. m : i < j => Newer(listed[i], listed[j])
  BY LenProperties, ElementOfSeq DEF PagesInv, Reader, ListedInOrder
<1>2. /\ Rest \in SUBSET Places /\ IsFiniteSet(Rest)
      /\ \A row \in Rest : \A i \in 1 .. m : Newer(listed[i], row)
      /\ \A row \in Rows \ Rest :
            (\E i \in 1 .. m : listed[i] = row) \/ row.id \in behind
  BY RestIsOlder DEF PagesInv
<1>3. /\ Len(rest) \in Nat
      /\ \A i \in 1 .. Len(rest) : rest[i] \in Rest /\ rest[i] \in Places
      /\ \A i, j \in 1 .. Len(rest) : i < j => Newer(rest[i], rest[j])
      /\ \A row \in Rest : \E i \in 1 .. Len(rest) : rest[i] = row
  BY <1>2, SortedHoldsAll
<1>4. /\ more \in Seq(Places) /\ Len(more) = m + n
      /\ \A i \in 1 .. m : more[i] = listed[i]
      /\ \A i \in 1 .. n : more[m + i] = rest[i]
  <2>1. /\ listed \o page \in Seq(Places) /\ Len(listed \o page) = m + n
        /\ \A i \in 1 .. m + n :
              (listed \o page)[i] = IF i <= m THEN listed[i] ELSE page[i - m]
    BY <1>1, ConcatProperties
  <2> HIDE DEF m
  <2>2. \A i \in 1 .. n : m + i \in 1 .. m + n /\ ~(m + i <= m) /\ (m + i) - m = i
    BY <1>1
  <2>3. \A i \in 1 .. m : i \in 1 .. m + n /\ i <= m
    BY <1>1, <1>3
  <2> QED BY <2>1, <2>2, <2>3
<1> HIDE DEF m
<1>5. ASSUME NEW i \in 1 .. (m + n), NEW j \in 1 .. (m + n), i < j
      PROVE  Newer(more[i], more[j])
  <2>1. CASE j <= m
    BY <1>1, <1>4, <1>5, <2>1
  <2>2. CASE i <= m /\ j > m
    <3>1. j - m \in 1 .. n /\ j - m \in 1 .. Len(rest) /\ j = m + (j - m)
      BY <1>1, <1>3, <2>2
    <3>2. more[j] = rest[j - m]
      BY <1>4, <3>1
    <3> QED BY <1>2, <1>3, <1>4, <2>2, <3>1, <3>2
  <2>3. CASE i > m
    <3>1. /\ j - m \in 1 .. n /\ j - m \in 1 .. Len(rest) /\ j = m + (j - m)
          /\ i - m \in 1 .. n /\ i - m \in 1 .. Len(rest) /\ i = m + (i - m)
          /\ i - m < j - m
      BY <1>1, <1>3, <1>5, <2>3
    <3>2. more[j] = rest[j - m] /\ more[i] = rest[i - m]
      BY <1>4, <3>1
    <3> QED BY <1>3, <3>1, <3>2
  <2> QED BY <1>1, <1>3, <2>1, <2>2, <2>3
<1>6. ASSUME NEW row \in Rows
      PROVE  \/ \E i \in 1 .. (m + n) : more[i] = row
             \/ row.id \in behind
             \/ n < Len(rest) /\ \A i \in 1 .. (m + n) : Newer(more[i], row)
  <2>1. CASE row \notin Rest
    <3>1. (\E i \in 1 .. m : listed[i] = row) \/ row.id \in behind
      BY <1>2, <2>1
    <3>2. \A i \in 1 .. m : i \in 1 .. (m + n)
      BY <1>1
    <3> QED BY <1>4, <3>1, <3>2
  <2>2. CASE row \in Rest
    <3>1. PICK k \in 1 .. Len(rest) : rest[k] = row
      BY <1>3, <2>2
    <3>2. CASE k <= n
      <4>1. k \in 1 .. n /\ m + k \in 1 .. (m + n)
        BY <1>1, <1>3, <3>2
      <4> QED BY <1>4, <3>1, <4>1
    <3>3. CASE k > n
      <4>1. n < Len(rest)
        BY <1>3, <3>3
      <4>2. ASSUME NEW i \in 1 .. (m + n) PROVE Newer(more[i], row)
        <5>1. CASE i <= m
          <6>1. i \in 1 .. m
            BY <1>1, <1>3, <5>1
          <6>2. more[i] = listed[i] /\ Newer(listed[i], row)
            BY <1>2, <1>4, <2>2, <6>1
          <6> QED BY <6>2
        <5>2. CASE i > m
          <6>1. i - m \in 1 .. n /\ i - m \in 1 .. Len(rest) /\ i = m + (i - m) /\ i - m < k
            BY <1>1, <1>3, <3>3, <5>2
          <6>2. more[i] = rest[i - m]
            BY <1>4, <6>1
          <6> QED BY <1>3, <3>1, <6>1, <6>2
        <5> QED BY <1>1, <1>3, <5>1, <5>2
      <4> QED BY <4>1, <4>2
    <3>4. k <= n \/ k > n
      BY <1>3
    <3> QED BY <3>2, <3>3, <3>4
  <2> QED BY <2>1, <2>2
<1>7. n = Len(rest) => ~(n < Len(rest))
  BY <1>3
<1>8. \A row \in Rows : Holds(more, row) \/ row.id \in behind
                          \/ (n < Len(rest) /\ Above(more, row))
  BY <1>4, <1>6 DEF Holds, Above
<1> QED
  BY <1>4, <1>5, <1>7, <1>8 DEF m

(* The three ways a page, a change and a removal keep the invariant. *)
LEMMA FetchPageKeeps ==
    ASSUME PagesInv, NEW limit \in Limits, FetchPage(limit) PROVE PagesInv'
<1>1. PICK rest \in Sorted(Rest) :
          IF Len(rest) > limit
             THEN /\ listed' = listed \o SubSeq(rest, 1, limit)
                  /\ cursor' = rest[limit]
             ELSE listed' = listed \o rest /\ cursor' = Done
  BY DEF FetchPage
<1>2. cursor # Done /\ spent_at' = spent_at /\ behind' = behind
  BY DEF FetchPage
<1>3. InList' /\ Rows' = Rows
  BY <1>2 DEF PagesInv, InList, Rows
<1>4. limit \in Nat \ {0}
  BY LimitsAssumption
<1>5. /\ rest \in Seq(Places) /\ Len(rest) \in Nat
      /\ Len(listed) \in Nat
      /\ \A row \in Rows : row \in Places
  <2>1. Rest \in SUBSET Places /\ IsFiniteSet(Rest)
    BY <1>2, RestIsOlder DEF PagesInv
  <2> QED BY <2>1, SortedHoldsAll, RowsPlaced, LenProperties DEF PagesInv, Reader
<1>6. CASE Len(rest) > limit
  <2> DEFINE page == SubSeq(rest, 1, limit)
  <2>1. /\ page \in Seq(Places) /\ Len(page) = limit
        /\ \A i \in 1 .. limit : page[i] = rest[i]
    <3>1. limit \in 0 .. Len(rest) /\ 1 \in 1 .. (Len(rest) + 1)
      BY <1>4, <1>5, <1>6
    <3>2. /\ page \in Seq(Places)
          /\ Len(page) = IF 1 <= limit THEN limit - 1 + 1 ELSE 0
          /\ \A i \in 1 .. limit - 1 + 1 : page[i] = rest[1 + i - 1]
      BY <1>5, <3>1, SubSeqProperties
    <3>3. limit - 1 + 1 = limit /\ 1 <= limit
      BY <1>4
    <3> HIDE DEF page
    <3>4. \A i \in 1 .. limit : page[i] = rest[i]
      <4> SUFFICES ASSUME NEW i \in 1 .. limit PROVE page[i] = rest[i]
        OBVIOUS
      <4>1. 1 + i - 1 = i
        OBVIOUS
      <4> QED BY <3>2, <3>3, <4>1
    <3> QED BY <3>2, <3>3, <3>4
  <2> DEFINE more == listed \o page
  <2>2. listed' = more /\ cursor' = rest[limit] /\ limit \in 0 .. Len(rest)
    BY <1>1, <1>4, <1>5, <1>6
  <2>2a. more = listed \o page
    OBVIOUS
  <2> HIDE DEF page, more
  <2>2b. /\ more \in Seq(Places) /\ Len(more) = Len(listed) + limit
         /\ \A i, j \in 1 .. Len(more) : i < j => Newer(more[i], more[j])
         /\ \A i \in 1 .. limit : more[Len(listed) + i] = rest[i]
         /\ \A row \in Rows :
               Holds(more, row) \/ row.id \in behind \/ Above(more, row)
    <3>1. /\ limit \in 0 .. Len(rest) /\ page \in Seq(Places) /\ Len(page) = limit
          /\ \A i \in 1 .. limit : page[i] = rest[i]
          /\ cursor # Done
      BY <1>2, <2>1, <2>2
    <3>2. more \in Seq(Places)
      BY <3>1, <2>2a, PageKeeps
    <3>2a. Len(more) = Len(listed) + limit
      BY <1>4, <1>5, <3>1, <2>2a, ConcatProperties DEF PagesInv, Reader
    <3>3. \A i, j \in 1 .. Len(more) : i < j => Newer(more[i], more[j])
      BY <3>1, <2>2a, PageKeeps
    <3>4. \A i \in 1 .. limit : more[Len(listed) + i] = rest[i]
      BY <3>1, <2>2a, PageKeeps
    <3>5. \A row \in Rows : Holds(more, row) \/ row.id \in behind \/ Above(more, row)
      BY <3>1, <2>2a, PageKeeps
    <3> QED BY <3>2, <3>2a, <3>3, <3>4, <3>5
  <2>3. /\ listed' \in Seq(Places) /\ Len(listed') = Len(listed) + limit
        /\ \A i, j \in 1 .. Len(listed') : i < j => Newer(listed'[i], listed'[j])
        /\ \A i \in 1 .. limit : listed'[Len(listed) + i] = rest[i]
        /\ \A row \in Rows :
              Holds(listed', row) \/ row.id \in behind \/ Above(listed', row)
    BY <2>2, <2>2b
  <2>4. /\ DOMAIN listed' = 1 .. Len(listed')
        /\ \A i \in 1 .. Len(listed') : listed'[i] \in Places
    BY <2>3, LenProperties, ElementOfSeq
  <2>5. cursor' = listed'[Len(listed')] /\ Len(listed') > 0 /\ cursor' \in Places
    <3>1. limit \in 1 .. limit /\ Len(listed) + limit \in 1 .. Len(listed')
      BY <1>4, <1>5, <2>3
    <3> QED BY <1>4, <1>5, <2>2, <2>3, <2>4, <3>1
  <2>6. Reader'
    BY <2>3, <2>5, PlacesAssumption DEF Reader
  <2>7. ListedInOrder'
    BY <2>3, <2>4 DEF ListedInOrder
  <2>8. NothingSkipped'
    <3> SUFFICES ASSUME NEW row \in Rows, Passed(row)'
                 PROVE  (\E i \in DOMAIN listed' : listed'[i] = row) \/ row.id \in behind'
      BY <1>3 DEF NothingSkipped
    <3>1. PICK i \in 1 .. Len(listed') : listed'[i] = row \/ Newer(row, listed'[i])
      BY <2>4, <2>5, PlacesAssumption DEF Passed
    <3>2. \/ \E j \in 1 .. Len(listed') : listed'[j] = row
          \/ row.id \in behind
          \/ Newer(listed'[i], row)
      BY <2>3 DEF Holds, Above
    <3>3. Newer(listed'[i], row) => ~Newer(row, listed'[i])
      BY <1>5, <2>4, NewerOrders
    <3> QED BY <1>2, <2>4, <3>1, <3>2, <3>3
  <2> QED BY <1>3, <2>6, <2>7, <2>8 DEF PagesInv
<1>7. CASE ~(Len(rest) > limit)
  <2> DEFINE more == listed \o rest
             n == Len(rest)
  <2>1. /\ listed' = more /\ cursor' = Done /\ more = listed \o rest
        /\ n \in 0 .. Len(rest) /\ n = Len(rest)
        /\ \A i \in 1 .. n : rest[i] = rest[i]
    BY <1>1, <1>5, <1>7
  <2> HIDE DEF more, n
  <2>1a. /\ more \in Seq(Places)
         /\ \A i, j \in 1 .. Len(more) : i < j => Newer(more[i], more[j])
         /\ \A row \in Rows :
               Holds(more, row) \/ row.id \in behind
    BY <1>2, <1>5, <2>1, PageKeeps
  <2>2. /\ listed' \in Seq(Places)
        /\ \A i, j \in 1 .. Len(listed') : i < j => Newer(listed'[i], listed'[j])
        /\ \A row \in Rows :
              (\E i \in 1 .. Len(listed') : listed'[i] = row) \/ row.id \in behind
    BY <2>1, <2>1a DEF Holds
  <2>3. DOMAIN listed' = 1 .. Len(listed')
    BY <2>2, LenProperties
  <2>4. Reader' /\ ListedInOrder'
    BY <2>1, <2>2, <2>3, PlacesAssumption DEF Reader, ListedInOrder
  <2>5. NothingSkipped'
    BY <1>2, <1>3, <2>2, <2>3 DEF NothingSkipped
  <2> QED BY <1>3, <2>4, <2>5 DEF PagesInv
<1> QED
  BY <1>6, <1>7

LEMMA PutKeeps ==
    ASSUME PagesInv, NEW id \in Ids, NEW instant \in Instants, Put(id, instant)
    PROVE  PagesInv'
<1>1. /\ spent_at' = [x \in DOMAIN spent_at \cup {id} |->
                        IF x = id THEN instant ELSE spent_at[x]]
      /\ behind' = IF Passed(Place(id, instant)) THEN behind \cup {id} ELSE behind \ {id}
      /\ cursor' = cursor /\ listed' = listed
  BY DEF Put
<1>2. InList'
  BY <1>1 DEF PagesInv, InList
<1>3. Reader' /\ ListedInOrder' /\ \A row : Passed(row)' <=> Passed(row)
  BY <1>1 DEF PagesInv, Reader, ListedInOrder, Passed
<1>4. ASSUME NEW row \in Rows', Passed(row)
      PROVE  (\E i \in DOMAIN listed : listed[i] = row) \/ row.id \in behind'
  <2>1. PICK x \in DOMAIN spent_at' : row = Place(x, spent_at'[x])
    BY DEF Rows
  <2>2. CASE x = id
    <3>1. row = Place(id, instant) /\ row.id = id
      BY <1>1, <2>1, <2>2 DEF Place
    <3> QED BY <1>1, <1>4, <3>1
  <2>3. CASE x # id
    <3>1. row \in Rows /\ row.id # id
      BY <1>1, <2>1, <2>3 DEF Rows, Place
    <3> QED BY <1>1, <1>4, <3>1 DEF PagesInv, NothingSkipped
  <2> QED BY <2>2, <2>3
<1>5. NothingSkipped'
  BY <1>1, <1>3, <1>4 DEF NothingSkipped
<1> QED
  BY <1>2, <1>3, <1>5 DEF PagesInv

LEMMA TakeOutKeeps ==
    ASSUME PagesInv, NEW id \in Ids, TakeOut(id) PROVE PagesInv'
<1>1. /\ spent_at' = [x \in DOMAIN spent_at \ {id} |-> spent_at[x]]
      /\ behind' = behind \ {id}
      /\ cursor' = cursor /\ listed' = listed
  BY DEF TakeOut, Restrict
<1>2. InList'
  BY <1>1 DEF PagesInv, InList
<1>3. Reader' /\ ListedInOrder' /\ \A row : Passed(row)' <=> Passed(row)
  BY <1>1 DEF PagesInv, Reader, ListedInOrder, Passed
<1>4. \A row \in Rows' : row \in Rows /\ row.id # id
  BY <1>1 DEF Rows, Place
<1>5. NothingSkipped'
  BY <1>1, <1>3, <1>4 DEF PagesInv, NothingSkipped
<1> QED
  BY <1>2, <1>3, <1>5 DEF PagesInv

(* At all times what the reader has been given lies above its cursor, in   *)
(* order, and what is above the cursor was given or put there behind it.   *)
THEOREM PagesInvariant == PagesSpec => []PagesInv
<1>1. PagesInit => PagesInv
  <2> SUFFICES ASSUME PagesInit PROVE PagesInv
    OBVIOUS
  <2>1. InList
    BY DEF PagesInit, InList
  <2>2. listed = <<>> /\ cursor = Start /\ DOMAIN listed = {}
    BY DEF PagesInit
  <2>3. Reader /\ ListedInOrder
    BY <2>2 DEF Reader, ListedInOrder
  <2>4. NothingSkipped
    BY <2>2, PlacesAssumption DEF NothingSkipped, Passed
  <2> QED BY <2>1, <2>3, <2>4 DEF PagesInv
<1>2. PagesInv /\ [PagesNext]_pageVars => PagesInv'
  <2> SUFFICES ASSUME PagesInv, [PagesNext]_pageVars PROVE PagesInv'
    OBVIOUS
  <2>1. CASE \E limit \in Limits : FetchPage(limit)
    BY <2>1, FetchPageKeeps
  <2>2. CASE \E id \in Ids, instant \in Instants : Put(id, instant)
    BY <2>2, PutKeeps
  <2>3. CASE \E id \in Ids : TakeOut(id)
    BY <2>3, TakeOutKeeps
  <2>4. CASE UNCHANGED pageVars
    BY <2>4 DEF pageVars, PagesInv, InList, Reader, ListedInOrder, NothingSkipped, Passed, Rows
  <2> QED BY <2>1, <2>2, <2>3, <2>4 DEF PagesNext
<1> QED
  BY <1>1, <1>2, PTL DEF PagesSpec

(* For any number of expenses, pages of any sizes and whatever is written, *)
(* edited or deleted between two pages, the list read is newest first and  *)
(* holds no row twice.                                                     *)
THEOREM AlwaysListedInOrder == PagesSpec => []ListedInOrder
<1>1. PagesInv => ListedInOrder
  BY DEF PagesInv
<1> QED BY <1>1, PagesInvariant, PTL

(* And no row is missed but one that was put behind the reader's back.     *)
THEOREM AlwaysNothingSkipped == PagesSpec => []NothingSkipped
<1>1. PagesInv => NothingSkipped
  BY DEF PagesInv
<1> QED BY <1>1, PagesInvariant, PTL

-----------------------------------------------------------------------------
(* Induction over the subsets of a finite set, said of a set of subsets.   *)
LEMMA SubsetInduction ==
    ASSUME NEW S, IsFiniteSet(S), NEW G,
           \A T \in SUBSET S : (\A x \in T : T \ {x} \in G) => T \in G
    PROVE  S \in G
<1> DEFINE Bad == {T \in FiniteSubsetsOf(S) : T \notin G}
<1>1. SUFFICES ASSUME S \notin G PROVE FALSE
  OBVIOUS
<1>2. S \in Bad
  BY <1>1 DEF FiniteSubsetsOf
<1>3. PICK T \in Bad : \A U \in Bad : <<U, T>> \notin StrictSubsetOrdering(S)
  BY <1>2, FS_StrictSubsetOrderingWellFounded, WFMin, Zenon
<1>4. PICK x \in T : T \ {x} \notin G
  BY <1>3 DEF FiniteSubsetsOf
<1>5. T \ {x} \in FiniteSubsetsOf(S)
  BY <1>3, FS_RemoveElement DEF FiniteSubsetsOf
<1>6. <<T \ {x}, T>> \in StrictSubsetOrdering(S)
  BY <1>3, <1>4 DEF StrictSubsetOrdering, FiniteSubsetsOf
<1> QED
  BY <1>3, <1>4, <1>5, <1>6

(* Rows that are not none have an oldest one. *)
LEMMA OldestExists ==
    ASSUME NEW rows \in SUBSET Places, IsFiniteSet(rows), rows # {}
    PROVE  \E x \in rows : \A y \in rows \ {x} : Newer(y, x)
<1> DEFINE G == {T \in SUBSET rows :
                   T = {} \/ \E x \in T : \A y \in T \ {x} : Newer(y, x)}
<1>1. ASSUME NEW T \in SUBSET rows, \A x \in T : T \ {x} \in G PROVE T \in G
  <2>1. SUFFICES ASSUME T # {} PROVE \E x \in T : \A y \in T \ {x} : Newer(y, x)
    OBVIOUS
  <2>2. PICK z \in T : TRUE
    BY <2>1
  <2>3. CASE T \ {z} = {}
    BY <2>3
  <2>4. CASE T \ {z} # {}
    <3>1. PICK x \in T \ {z} : \A y \in (T \ {z}) \ {x} : Newer(y, x)
      BY <1>1, <2>4
    <3>2. CASE Newer(z, x)
      BY <3>1, <3>2
    <3>3. CASE ~Newer(z, x)
      <4>1. Newer(x, z)
        BY <3>1, <3>3, NewerOrders
      <4>2. \A y \in T \ {z} : Newer(y, z)
        BY <3>1, <4>1, NewerOrders
      <4> QED BY <4>2
    <3> QED BY <3>2, <3>3
  <2> QED BY <2>3, <2>4
<1>2. rows \in G
  <2> HIDE DEF G
  <2> QED BY <1>1, SubsetInduction
<1> QED BY <1>2

(* Any rows can be listed newest first, so FetchPage always has a page to  *)
(* give: that no row is missed does not come of a reader who is refused.   *)
THEOREM RowsCanBeListed ==
    ASSUME NEW rows \in SUBSET Places, IsFiniteSet(rows) PROVE Sorted(rows) # {}
<1> DEFINE G == {T \in SUBSET rows : Sorted(T) # {}}
<1>1. ASSUME NEW T \in SUBSET rows, \A x \in T : T \ {x} \in G PROVE T \in G
  <2>1. CASE T = {}
    <3> DEFINE none == [i \in {} |-> {}]
    <3>1. Cardinality(T) = 0 /\ 1 .. 0 = {}
      BY <2>1, FS_EmptySet
    <3>2. none \in [1 .. Cardinality(T) -> T] /\ DOMAIN none = {}
      BY <2>1, <3>1
    <3> QED BY <3>2 DEF Sorted
  <2>2. CASE T # {}
    <3>1. IsFiniteSet(T) /\ T \in SUBSET Places
      BY FS_Subset
    <3>2. PICK x \in T : \A y \in T \ {x} : Newer(y, x)
      BY <2>2, <3>1, OldestExists
    <3> DEFINE n == Cardinality(T \ {x})
    <3>3. n \in Nat /\ Cardinality(T) = n + 1
      <4>1. IsFiniteSet(T \ {x}) /\ Cardinality(T \ {x}) = Cardinality(T) - 1
        BY <3>1, FS_RemoveElement
      <4>2. Cardinality(T) \in Nat /\ Cardinality(T \ {x}) \in Nat
        BY <3>1, <4>1, FS_CardinalityType
      <4> QED BY <4>1, <4>2
    <3>4. PICK list \in Sorted(T \ {x}) : TRUE
      BY <1>1, <3>2
    <3> DEFINE longer == [i \in 1 .. n + 1 |-> IF i = n + 1 THEN x ELSE list[i]]
    <3>5. /\ \A i \in 1 .. n : list[i] \in T \ {x}
          /\ \A i, j \in 1 .. n : i < j => Newer(list[i], list[j])
      BY <3>4 DEF Sorted
    <3> HIDE DEF n
    <3>6. longer \in [1 .. n + 1 -> T]
      BY <3>2, <3>3, <3>5
    <3>7. \A i, j \in 1 .. n + 1 : i < j => Newer(longer[i], longer[j])
      BY <3>2, <3>3, <3>5
    <3>8. longer \in [1 .. Cardinality(T) -> T] /\ DOMAIN longer = 1 .. n + 1
      BY <3>3, <3>6
    <3> HIDE DEF longer
    <3> QED BY <3>7, <3>8 DEF Sorted
  <2> QED BY <2>1, <2>2
<1>2. rows \in G
  <2> HIDE DEF G
  <2> QED BY <1>1, SubsetInduction
<1> QED BY <1>2
=============================================================================

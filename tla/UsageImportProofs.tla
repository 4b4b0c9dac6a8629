-------------------------- MODULE UsageImportProofs --------------------------
(***************************************************************************)
(* What the parse pipeline promises, for any number of requests, users,    *)
(* trips, limits, failures and expiring windows.                           *)
(*                                                                         *)
(* The two counters are argued about by the set of requests whose charge a *)
(* counter's present window holds: it is never larger than what the        *)
(* counter and the refunds that came late to it add up to, and those of    *)
(* its members that owe their charge are never fewer than the counter      *)
(* says.                                                                   *)
(***************************************************************************)
EXTENDS UsageImport, FiniteSetTheorems, TLAPS

(* The codex slot: free and nobody at work, or taken by one request. *)
SlotInv ==
    /\ engine = "codex" =>
          \/ running = 0 /\ AtWork = {}
          \/ running = 1 /\ \E r \in Requests : AtWork = {r}
    /\ engine = "claude" => running = 0

(* The disclosure is recorded before the parser is reached. *)
ConsentInv ==
    /\ NothingSentWithoutConsent
    /\ \A r \in Requests : at[r] \in {"slot", "launch", "parsing"} =>
           req[r].user \in consented

(* A counter holds no more than its limit, and with late refunds no less   *)
(* than its charges.                                                       *)
BudgetInv ==
    \A k \in Counters :
        /\ IsFiniteSet(Charges(k)) /\ used[k] <= Limit(k)
        /\ Cardinality(Charges(k)) <= used[k] + late[k]

(* Who has not passed the quota is not charged, and nobody is but to the   *)
(* own counters; who reached the model has been sent.                      *)
ChargedInv ==
    \A r \in Requests :
        /\ at[r] \in {"idle", "quota"} => counted[r] = {}
        /\ counted[r] \subseteq CountersOf(r)
        /\ at[r] \in {"parsing", "persist"} => r \in sent

Owing(k) == {r \in Charges(k) : Owed(r)}

OwingInv == \A k \in Counters : used[k] <= Cardinality(Owing(k))

-----------------------------------------------------------------------------
LEMMA InitTypeOK == Init => TypeOK
  BY BoundsAssumption DEF Init, TypeOK, MAX_CONCURRENT, Points, Reasons

LEMMA InitSlotInv == Init => SlotInv
  BY DEF Init, SlotInv, AtWork

(* The slot is taken by whoever goes to work and freed by whoever stops. *)
LEMMA NextSlotInv ==
    ASSUME TypeOK, SlotInv, [Next]_vars PROVE SlotInv'
<1> USE DEF SlotInv, AtWork
<1>a. at \in [Requests -> Points]
  BY DEF TypeOK
<1>1. ASSUME NEW r \in Requests, AcquireSlot(r) PROVE SlotInv'
  <2>1. running = 0 /\ running' = 1 /\ AtWork' = {r} /\ engine' = engine /\ engine = "codex"
    BY <1>1, <1>a DEF AcquireSlot, MAX_CONCURRENT, GoTo
  <2> QED
    BY <2>1
<1>2. ASSUME NEW r \in Requests, Launch(r) PROVE SlotInv'
  <2>1. engine' = engine /\ engine \in {"codex", "claude"}
    BY <1>2 DEF Launch, TypeOK
  <2>2. CASE at'[r] = "parsing"
    <3>1. AtWork' = AtWork /\ running' = running
      BY <1>2, <2>2, <1>a DEF Launch, GoTo, End
    <3> QED
      BY <2>1, <3>1
  <2>3. CASE at'[r] # "parsing"
    <3>1. AtWork' = AtWork \ {r} /\ r \in AtWork /\ ReleaseSlot
      BY <1>2, <2>3, <1>a DEF Launch, GoTo, End
    <3> QED
      BY <2>1, <3>1 DEF ReleaseSlot
  <2> QED
    BY <2>2, <2>3
<1>3. ASSUME NEW r \in Requests, Parse(r) PROVE SlotInv'
  <2>1. engine' = engine /\ engine \in {"codex", "claude"}
    BY <1>3 DEF Parse, TypeOK
  <2>2. AtWork' = AtWork \ {r} /\ r \in AtWork /\ ReleaseSlot
    BY <1>3, <1>a DEF Parse, GoTo, End
  <2> QED
    BY <2>1, <2>2 DEF ReleaseSlot
<1>4. ASSUME NEW r \in Requests, CallClaude(r) PROVE SlotInv'
  BY <1>4 DEF CallClaude
<1>5. ASSUME NEW r \in Requests,
             \/ Arrive(r) \/ QuotaCheck(r) \/ RecordDisclosure(r) \/ Busy(r)
             \/ PersistDrafts(r) \/ Refund(r) \/ RefundFails(r)
      PROVE  SlotInv'
  <2>1. AtWork' = AtWork
    BY <1>5, <1>a DEF Arrive, QuotaCheck, RecordDisclosure, Busy, PersistDrafts, Refund,
           RefundFails, GoTo, End
  <2>2. UNCHANGED <<engine, running>>
    BY <1>5 DEF Arrive, QuotaCheck, RecordDisclosure, Busy, PersistDrafts, Refund,
           RefundFails, parser
  <2> QED
    BY <2>1, <2>2
<1>6. CASE Crash
  <2>1. AtWork' = {} /\ running' = 0 /\ engine' = engine
    BY <1>6, <1>a DEF Crash
  <2> QED
    BY <2>1
<1>7. CASE UNCHANGED vars \/ (\E b \in DOMAIN batches : Discard(b))
             \/ (\E k \in Counters : WindowExpires(k))
  BY <1>7 DEF vars, Discard, WindowExpires, parser
<1> QED
  BY <1>1, <1>2, <1>3, <1>4, <1>5, <1>6, <1>7 DEF Next, Step

(* A request's own counters are counters. *)
LEMMA CountersOfRequest ==
    ASSUME TypeOK, NEW r \in Requests
    PROVE  CountersOf(r) \subseteq Counters /\ req[r].user \in Users
  BY InputsAssumption DEF TypeOK, CountersOf, Counters

(* Where a request is and why it ended. *)
LEMMA MoveTypeOK ==
    ASSUME TypeOK, NEW r \in Requests, Arrive(r) \/ Step(r)
    PROVE  at' \in [Requests -> Points] /\ why' \in [Requests -> Reasons]
  BY DEF TypeOK, Arrive, Step, QuotaCheck, RecordDisclosure, CallClaude, AcquireSlot, Busy,
         Launch, Parse, PersistDrafts, Refund, RefundFails, GoTo, End, Points, Reasons

LEMMA RequestTypeOK ==
    ASSUME TypeOK, SlotInv, NEW r \in Requests, Arrive(r) \/ Step(r)
    PROVE  TypeOK'
<1>m. at' \in [Requests -> Points] /\ why' \in [Requests -> Reasons]
  BY MoveTypeOK
<1>f. ASSUME Fault PROVE faults' \in 0 .. MaxFaults
  BY <1>f, BoundsAssumption DEF TypeOK, Fault
<1>c. CountersOf(r) \subseteq Counters
  BY CountersOfRequest
<1>1. CASE Arrive(r)
  BY <1>1, <1>m DEF Arrive, TypeOK, NoFault, quota, parser, stored
<1>2. CASE QuotaCheck(r)
  <2>1. used' \in [Counters -> Nat] /\ late' \in [Counters -> Nat]
    BY <1>2 DEF QuotaCheck, Consume, TypeOK, quota
  <2>2. counted' \in [Requests -> SUBSET Counters]
    BY <1>2, <1>c DEF QuotaCheck, Consume, TypeOK, quota
  <2>3. faults' \in 0 .. MaxFaults
    BY <1>2, <1>f DEF QuotaCheck, NoFault, TypeOK
  <2> QED
    BY <1>2, <1>m, <2>1, <2>2, <2>3 DEF QuotaCheck, TypeOK, parser, stored
<1>3. CASE RecordDisclosure(r)
  <2>1. consented' \subseteq Users
    BY <1>3, CountersOfRequest DEF RecordDisclosure, TypeOK
  <2>2. faults' \in 0 .. MaxFaults
    BY <1>3, <1>f DEF RecordDisclosure, NoFault, TypeOK
  <2> QED
    BY <1>3, <1>m, <2>1, <2>2 DEF RecordDisclosure, TypeOK, quota, parser
<1>4. CASE CallClaude(r)
  BY <1>4, <1>m DEF CallClaude, TypeOK, NoFault, quota, stored
<1>5. CASE AcquireSlot(r)
  BY <1>5, <1>m DEF AcquireSlot, TypeOK, NoFault, quota, stored, MAX_CONCURRENT
<1>6. CASE Busy(r)
  BY <1>6, <1>m DEF Busy, TypeOK, NoFault, quota, parser, stored
<1>7. ASSUME ReleaseSlot, r \in AtWork PROVE running' \in 0 .. MAX_CONCURRENT
  BY <1>7 DEF ReleaseSlot, SlotInv, TypeOK, MAX_CONCURRENT
<1>8. CASE Launch(r)
  <2>1. r \in AtWork /\ sent' \subseteq Requests
    BY <1>8 DEF Launch, AtWork, TypeOK
  <2>2. running' \in 0 .. MAX_CONCURRENT /\ faults' \in 0 .. MaxFaults
    BY <1>8, <2>1, <1>7, <1>f DEF Launch, NoFault, TypeOK
  <2> QED
    BY <1>8, <1>m, <2>1, <2>2 DEF Launch, TypeOK, quota, stored
<1>9. CASE Parse(r)
  <2>1. running' \in 0 .. MAX_CONCURRENT
    BY <1>9, <1>7 DEF Parse, AtWork
  <2>2. found' \in [Requests -> 0 .. MaxDrafts]
    BY <1>9 DEF Parse, TypeOK
  <2> QED
    BY <1>9, <1>m, <2>1, <2>2 DEF Parse, TypeOK, NoFault, quota, stored
<1>10. CASE PersistDrafts(r)
  <2>1. [made |-> found[r], live |-> found[r]] \in [made : 0 .. MaxDrafts, live : 0 .. MaxDrafts]
    BY DEF TypeOK
  <2>2. batches' \in [Keyed \cup Requests -> [made : 0 .. MaxDrafts, live : 0 .. MaxDrafts]]
    BY <1>10, <2>1 DEF PersistDrafts, CreateMany, TypeOK
  <2>3. faults' \in 0 .. MaxFaults
    BY <1>10, <1>f DEF PersistDrafts, NoFault, TypeOK
  <2> QED
    BY <1>10, <1>m, <2>2, <2>3 DEF PersistDrafts, TypeOK, quota, parser
<1>11. CASE Refund(r)
  <2>1. used' \in [Counters -> Nat] /\ late' \in [Counters -> Nat]
    BY <1>11 DEF Refund, TypeOK
  <2>2. counted' \in [Requests -> SUBSET Counters]
    BY <1>11 DEF Refund, TypeOK
  <2> QED
    BY <1>11, <1>m, <2>1, <2>2 DEF Refund, TypeOK, NoFault, parser, stored
<1>12. CASE RefundFails(r)
  BY <1>12, <1>m, <1>f DEF RefundFails, TypeOK, quota, parser, stored
<1> QED
  BY <1>1, <1>2, <1>3, <1>4, <1>5, <1>6, <1>8, <1>9, <1>10, <1>11, <1>12 DEF Step

LEMMA NextTypeOK ==
    ASSUME TypeOK, SlotInv, [Next]_vars PROVE TypeOK'
<1>1. ASSUME NEW r \in Requests, Arrive(r) \/ Step(r) PROVE TypeOK'
  BY <1>1, RequestTypeOK
<1>2. ASSUME NEW b \in DOMAIN batches, Discard(b) PROVE TypeOK'
  <2>1. batches[b].live - 1 \in 0 .. MaxDrafts /\ batches[b].made \in 0 .. MaxDrafts
    BY <1>2, BoundsAssumption DEF Discard, TypeOK
  <2>2. [batches[b] EXCEPT !.live = @ - 1] \in [made : 0 .. MaxDrafts, live : 0 .. MaxDrafts]
    BY <2>1 DEF TypeOK
  <2>3. batches' = [batches EXCEPT ![b] = [batches[b] EXCEPT !.live = @ - 1]]
    BY <1>2 DEF Discard
  <2>4. batches' \in [Keyed \cup Requests -> [made : 0 .. MaxDrafts, live : 0 .. MaxDrafts]]
    BY <2>2, <2>3 DEF TypeOK
  <2> QED
    BY <1>2, <2>4 DEF Discard, TypeOK, NoFault, quota, parser
<1>3. ASSUME NEW k \in Counters, WindowExpires(k) PROVE TypeOK'
  BY <1>3, BoundsAssumption DEF WindowExpires, TypeOK, NoFault, parser, stored
<1>4. CASE Crash
  <2>1. at' \in [Requests -> Points] /\ why' \in [Requests -> Reasons]
    BY <1>4 DEF Crash, TypeOK, Points, Reasons
  <2> QED
    BY <1>4, <2>1, BoundsAssumption DEF Crash, Fault, TypeOK, MAX_CONCURRENT, quota, stored
<1>5. CASE UNCHANGED vars
  BY <1>5 DEF vars, TypeOK
<1> QED
  BY <1>1, <1>2, <1>3, <1>4, <1>5 DEF Next

(* Consent: a request reaches the parser through RecordDisclosure only,    *)
(* and a disclosure row stays.                                             *)
LEMMA NextConsentInv ==
    ASSUME TypeOK, ConsentInv, [Next]_vars PROVE ConsentInv'
<1> USE DEF ConsentInv, NothingSentWithoutConsent
<1>a. at \in [Requests -> Points]
  BY DEF TypeOK
<1>1. ASSUME NEW r \in Requests, RecordDisclosure(r) PROVE ConsentInv'
  BY <1>1, <1>a DEF RecordDisclosure, GoTo, parser
<1>2. ASSUME NEW r \in Requests, CallClaude(r) \/ AcquireSlot(r) \/ Launch(r) PROVE ConsentInv'
  BY <1>2, <1>a DEF CallClaude, AcquireSlot, Launch, GoTo, End, stored
<1>3. ASSUME NEW r \in Requests,
             \/ Arrive(r) \/ QuotaCheck(r) \/ Busy(r) \/ Parse(r)
             \/ PersistDrafts(r) \/ Refund(r) \/ RefundFails(r)
      PROVE  ConsentInv'
  <2>1. UNCHANGED <<req, sent, consented>>
    BY <1>3 DEF Arrive, QuotaCheck, Busy, Parse, PersistDrafts, Refund, RefundFails,
           parser, stored
  <2>2. \A q \in Requests : at'[q] \in {"slot", "launch", "parsing"} => at'[q] = at[q]
    BY <1>3, <1>a DEF Arrive, QuotaCheck, Busy, Parse, PersistDrafts, Refund, RefundFails,
           GoTo, End
  <2> QED
    BY <2>1, <2>2
<1>4. CASE Crash
  BY <1>4, <1>a DEF Crash, stored
<1>5. CASE UNCHANGED vars \/ (\E b \in DOMAIN batches : Discard(b))
             \/ (\E k \in Counters : WindowExpires(k))
  BY <1>5 DEF vars, Discard, WindowExpires, parser, stored
<1> QED
  BY <1>1, <1>2, <1>3, <1>4, <1>5 DEF Next, Step

-----------------------------------------------------------------------------
(* How the steps touch the counters: a charge, a refund, a new window, or  *)
(* not at all.                                                             *)
LEMMA QuotaSteps ==
    ASSUME [Next]_vars
    PROVE  \/ \E r \in Requests : QuotaCheck(r) /\ HasRoom(r) /\ Consume(r)
           \/ \E r \in Requests : Refund(r)
           \/ \E k \in Counters : WindowExpires(k)
           \/ UNCHANGED quota
<1>1. ASSUME NEW r \in Requests, QuotaCheck(r)
      PROVE  (HasRoom(r) /\ Consume(r)) \/ UNCHANGED quota
  BY <1>1 DEF QuotaCheck
<1>2. ASSUME NEW r \in Requests,
             \/ Arrive(r) \/ RecordDisclosure(r) \/ CallClaude(r) \/ AcquireSlot(r) \/ Busy(r)
             \/ Launch(r) \/ Parse(r) \/ PersistDrafts(r) \/ RefundFails(r)
      PROVE  UNCHANGED quota
  BY <1>2 DEF Arrive, RecordDisclosure, CallClaude, AcquireSlot, Busy, Launch, Parse,
         PersistDrafts, RefundFails
<1>3. Crash \/ (\E b \in DOMAIN batches : Discard(b)) => UNCHANGED quota
  BY DEF Crash, Discard
<1>4. UNCHANGED vars => UNCHANGED quota
  BY DEF vars, quota
<1> QED
  BY <1>1, <1>2, <1>3, <1>4 DEF Next, Step

(* What a charge and a refund do to the requests a counter holds. *)
LEMMA ConsumeCharges ==
    ASSUME TypeOK, NEW r \in Requests, Consume(r), NEW k \in Counters
    PROVE  Charges(k)' = IF k \in CountersOf(r) THEN Charges(k) \cup {r} ELSE Charges(k) \ {r}
<1>1. \A q \in Requests : counted'[q] = IF q = r THEN CountersOf(r) ELSE counted[q]
  BY DEF Consume, TypeOK
<1> QED
  BY <1>1 DEF Charges

LEMMA RefundCharges ==
    ASSUME TypeOK, NEW r \in Requests, Refund(r), NEW k \in Counters
    PROVE  Charges(k)' = Charges(k) \ {r}
<1>1. \A q \in Requests : counted'[q] = IF q = r THEN {} ELSE counted[q]
  BY DEF Refund, TypeOK
<1> QED
  BY <1>1 DEF Charges

LEMMA ExpiryCharges ==
    ASSUME TypeOK, NEW j \in Counters, WindowExpires(j), NEW k \in Counters
    PROVE  Charges(k)' = IF k = j THEN {} ELSE Charges(k)
<1>1. \A q \in Requests : counted'[q] = counted[q] \ {j}
  BY DEF WindowExpires, TypeOK
<1> QED
  BY <1>1 DEF Charges

LEMMA LimitType == \A k : Limit(k) \in Nat
  BY LimitsAssumption DEF Limit

LEMMA NextBudgetInv ==
    ASSUME TypeOK, BudgetInv, [Next]_vars PROVE BudgetInv'
<1>1. ASSUME NEW r \in Requests, HasRoom(r), Consume(r) PROVE BudgetInv'
  <2> SUFFICES ASSUME NEW k \in Counters
               PROVE  /\ IsFiniteSet(Charges(k)') /\ used'[k] <= Limit(k)
                      /\ Cardinality(Charges(k)') <= used'[k] + late'[k]
    BY DEF BudgetInv, Limit
  <2>1. /\ IsFiniteSet(Charges(k)) /\ used[k] <= Limit(k) /\ Limit(k) \in Nat
        /\ Cardinality(Charges(k)) <= used[k] + late[k]
        /\ used[k] \in Nat /\ late[k] \in Nat /\ late'[k] = late[k]
        /\ used'[k] = IF k \in CountersOf(r) THEN used[k] + 1 ELSE used[k]
    BY <1>1, LimitType DEF BudgetInv, Consume, TypeOK
  <2>2. Cardinality(Charges(k)) \in Nat
    BY <2>1, FS_CardinalityType
  <2>3. CASE k \in CountersOf(r)
    <3>1. Charges(k)' = Charges(k) \cup {r}
      BY <1>1, <2>3, ConsumeCharges
    <3>2. /\ IsFiniteSet(Charges(k)')
          /\ Cardinality(Charges(k)') <= Cardinality(Charges(k)) + 1
          /\ Cardinality(Charges(k)') \in Nat
      <4>1. /\ IsFiniteSet(Charges(k) \cup {r})
            /\ Cardinality(Charges(k) \cup {r}) =
                  IF r \in Charges(k) THEN Cardinality(Charges(k)) ELSE Cardinality(Charges(k)) + 1
        BY <2>1, FS_AddElement
      <4> QED
        BY <2>2, <3>1, <4>1
    <3>3. used[k] < Limit(k)
      BY <1>1, <2>3 DEF HasRoom
    <3> QED
      BY <2>1, <2>2, <2>3, <3>2, <3>3
  <2>4. CASE k \notin CountersOf(r)
    <3>1. Charges(k)' = Charges(k) \ {r}
      BY <1>1, <2>4, ConsumeCharges
    <3>2. /\ IsFiniteSet(Charges(k)')
          /\ Cardinality(Charges(k)') <= Cardinality(Charges(k))
          /\ Cardinality(Charges(k)') \in Nat
      <4>1. /\ IsFiniteSet(Charges(k) \ {r})
            /\ Cardinality(Charges(k) \ {r}) =
                  IF r \in Charges(k) THEN Cardinality(Charges(k)) - 1 ELSE Cardinality(Charges(k))
        BY <2>1, FS_RemoveElement
      <4>2. Cardinality(Charges(k) \ {r}) \in Nat
        BY <4>1, FS_CardinalityType
      <4> QED
        BY <2>2, <3>1, <4>1, <4>2
    <3> QED
      BY <2>1, <2>2, <2>4, <3>2
  <2> QED
    BY <2>3, <2>4
<1>2. ASSUME NEW r \in Requests, Refund(r) PROVE BudgetInv'
  <2> SUFFICES ASSUME NEW k \in Counters
               PROVE  /\ IsFiniteSet(Charges(k)') /\ used'[k] <= Limit(k)
                      /\ Cardinality(Charges(k)') <= used'[k] + late'[k]
    BY DEF BudgetInv, Limit
  <2> DEFINE taken == k \in CountersOf(r) /\ used[k] > 0
  <2>1. /\ IsFiniteSet(Charges(k)) /\ used[k] <= Limit(k) /\ Limit(k) \in Nat
        /\ Cardinality(Charges(k)) <= used[k] + late[k]
        /\ used[k] \in Nat /\ late[k] \in Nat
    BY LimitType DEF BudgetInv, TypeOK
  <2>2. /\ used'[k] = IF taken THEN used[k] - 1 ELSE used[k]
        /\ late'[k] = IF taken /\ k \notin counted[r] THEN late[k] + 1 ELSE late[k]
    BY <1>2 DEF Refund
  <2>3. Charges(k)' = Charges(k) \ {r} /\ Cardinality(Charges(k)) \in Nat
    BY <1>2, <2>1, RefundCharges, FS_CardinalityType
  <2>4. /\ IsFiniteSet(Charges(k)') /\ Cardinality(Charges(k)') \in Nat
        /\ Cardinality(Charges(k)') = IF k \in counted[r] THEN Cardinality(Charges(k)) - 1
                                                          ELSE Cardinality(Charges(k))
    <3>1. /\ IsFiniteSet(Charges(k) \ {r})
          /\ Cardinality(Charges(k) \ {r}) =
                IF r \in Charges(k) THEN Cardinality(Charges(k)) - 1 ELSE Cardinality(Charges(k))
      BY <2>1, FS_RemoveElement
    <3>2. Cardinality(Charges(k) \ {r}) \in Nat
      BY <3>1, FS_CardinalityType
    <3>3. r \in Charges(k) <=> k \in counted[r]
      BY DEF Charges
    <3> QED
      BY <2>3, <3>1, <3>2, <3>3
  <2> HIDE DEF taken
  <2> QED
    BY <2>1, <2>2, <2>3, <2>4
<1>3. ASSUME NEW j \in Counters, WindowExpires(j) PROVE BudgetInv'
  <2> SUFFICES ASSUME NEW k \in Counters
               PROVE  /\ IsFiniteSet(Charges(k)') /\ used'[k] <= Limit(k)
                      /\ Cardinality(Charges(k)') <= used'[k] + late'[k]
    BY DEF BudgetInv, Limit
  <2>1. CASE k = j
    <3>1. used'[k] = 0 /\ late'[k] = 0
      BY <1>3, <2>1 DEF WindowExpires, TypeOK
    <3>2. Charges(k)' = {}
      BY <1>3, <2>1, ExpiryCharges
    <3> QED
      BY <3>1, <3>2, FS_EmptySet, LimitType
  <2>2. CASE k # j
    <3>1. used'[k] = used[k] /\ late'[k] = late[k]
      BY <1>3, <2>2 DEF WindowExpires, TypeOK
    <3>2. Charges(k)' = Charges(k)
      BY <1>3, <2>2, ExpiryCharges
    <3> QED
      BY <3>1, <3>2 DEF BudgetInv
  <2> QED
    BY <2>1, <2>2
<1>4. CASE UNCHANGED quota
  <2>1. UNCHANGED <<used, late>> /\ \A k \in Counters : Charges(k)' = Charges(k)
    BY <1>4 DEF quota, Charges
  <2> QED
    BY <2>1 DEF BudgetInv, Limit
<1> QED
  BY <1>1, <1>2, <1>3, <1>4, QuotaSteps

(* Charges are made by the quota script only. *)
LEMMA NextChargedInv ==
    ASSUME TypeOK, ChargedInv, [Next]_vars PROVE ChargedInv'
<1> USE DEF ChargedInv, CountersOf
<1>a. at \in [Requests -> Points] /\ counted \in [Requests -> SUBSET Counters]
  BY DEF TypeOK
<1>1. ASSUME NEW r \in Requests, QuotaCheck(r) PROVE ChargedInv'
  BY <1>1, <1>a DEF QuotaCheck, Consume, GoTo, End, quota, parser
<1>2. ASSUME NEW r \in Requests, Refund(r) PROVE ChargedInv'
  BY <1>2, <1>a DEF Refund, GoTo, parser
<1>3. ASSUME NEW r \in Requests, CallClaude(r) \/ Launch(r) \/ Parse(r) PROVE ChargedInv'
  BY <1>3, <1>a DEF CallClaude, Launch, Parse, GoTo, End, quota
<1>4. ASSUME NEW r \in Requests,
             \/ Arrive(r) \/ RecordDisclosure(r) \/ AcquireSlot(r) \/ Busy(r)
             \/ PersistDrafts(r) \/ RefundFails(r)
      PROVE  ChargedInv'
  BY <1>4, <1>a DEF Arrive, RecordDisclosure, AcquireSlot, Busy, PersistDrafts, RefundFails,
         GoTo, End, quota, parser
<1>5. CASE Crash
  BY <1>5, <1>a DEF Crash, quota
<1>6. ASSUME NEW k \in Counters, WindowExpires(k) PROVE ChargedInv'
  BY <1>6, <1>a DEF WindowExpires, parser
<1>7. CASE UNCHANGED vars \/ (\E b \in DOMAIN batches : Discard(b))
  BY <1>7 DEF vars, Discard, quota, parser
<1> QED
  BY <1>1, <1>2, <1>3, <1>4, <1>5, <1>6, <1>7 DEF Next, Step

(* A charge that is owed stays owed while it is counted. *)
LEMMA OwedStaysOwed ==
    ASSUME TypeOK, ChargedInv, [Next]_vars, UNCHANGED quota,
           NEW q \in Requests, counted[q] # {}, Owed(q)
    PROVE  Owed(q)'
<1> USE DEF Owed
<1>a. at \in [Requests -> Points] /\ why \in [Requests -> Reasons]
  BY DEF TypeOK
<1>c. at[q] \notin {"idle", "quota"} /\ (at[q] \in {"parsing", "persist"} => q \in sent)
  BY DEF ChargedInv
<1>1. ASSUME NEW r \in Requests, Arrive(r) \/ QuotaCheck(r) PROVE Owed(q)'
  BY <1>1, <1>a, <1>c DEF Arrive, QuotaCheck, GoTo, End, parser
<1>2. ASSUME NEW r \in Requests, RecordDisclosure(r) \/ AcquireSlot(r) \/ Busy(r)
      PROVE  Owed(q)'
  BY <1>2, <1>a DEF RecordDisclosure, AcquireSlot, Busy, GoTo, parser
<1>3. ASSUME NEW r \in Requests, CallClaude(r) \/ Launch(r) PROVE Owed(q)'
  BY <1>3, <1>a DEF CallClaude, Launch, GoTo, End
<1>4. ASSUME NEW r \in Requests, Parse(r) \/ PersistDrafts(r) \/ RefundFails(r)
      PROVE  Owed(q)'
  BY <1>4, <1>a, <1>c DEF Parse, PersistDrafts, RefundFails, GoTo, End, parser
<1>5. ASSUME NEW r \in Requests, Refund(r) PROVE Owed(q)'
  <2>1. counted'[r] = {} /\ counted' = counted
    BY <1>5 DEF Refund, TypeOK, quota
  <2>2. r # q
    BY <2>1
  <2> QED
    BY <1>5, <2>2, <1>a DEF Refund, GoTo, parser
<1>6. CASE Crash
  BY <1>6, <1>a DEF Crash
<1>7. CASE UNCHANGED vars \/ (\E b \in DOMAIN batches : Discard(b))
             \/ (\E k \in Counters : WindowExpires(k))
  BY <1>7 DEF vars, Discard, WindowExpires, parser
<1> QED
  BY <1>1, <1>2, <1>3, <1>4, <1>5, <1>6, <1>7 DEF Next, Step

(* More who owe, of a finite set of charges, are no fewer. *)
LEMMA OwingIsFinite ==
    ASSUME BudgetInv, NEW k \in Counters
    PROVE  IsFiniteSet(Owing(k)) /\ Cardinality(Owing(k)) \in Nat
<1>1. IsFiniteSet(Charges(k)) /\ Owing(k) \in SUBSET Charges(k)
  BY DEF BudgetInv, Owing
<1>2. IsFiniteSet(Owing(k))
  BY <1>1, FS_Subset
<1> QED
  BY <1>2, FS_CardinalityType

LEMMA NextOwingInv ==
    ASSUME TypeOK, ChargedInv, BudgetInv, BudgetInv', OwingInv, [Next]_vars
    PROVE  OwingInv'
<1> SUFFICES ASSUME NEW k \in Counters PROVE used'[k] <= Cardinality(Owing(k)')
  BY DEF OwingInv
<1>f. /\ IsFiniteSet(Owing(k)) /\ Cardinality(Owing(k)) \in Nat
      /\ IsFiniteSet(Owing(k)') /\ Cardinality(Owing(k)') \in Nat
  <2>1. IsFiniteSet(Charges(k)') /\ Owing(k)' \in SUBSET Charges(k)'
    BY DEF BudgetInv, Owing
  <2>2. IsFiniteSet(Owing(k)') /\ Cardinality(Owing(k)') \in Nat
    BY <2>1, FS_Subset, FS_CardinalityType
  <2> QED
    BY <2>2, OwingIsFinite
<1>i. used[k] \in Nat /\ used[k] <= Cardinality(Owing(k))
  BY DEF OwingInv, TypeOK
<1>1. ASSUME NEW r \in Requests, QuotaCheck(r), HasRoom(r), Consume(r)
      PROVE  used'[k] <= Cardinality(Owing(k)')
  <2>1. /\ counted[r] = {} /\ Owed(r)'
        /\ \A q \in Requests \ {r} : Owed(q)' <=> Owed(q)
    BY <1>1 DEF QuotaCheck, ChargedInv, Owed, TypeOK, GoTo, End, parser
  <2>2. r \notin Charges(k)
    BY <2>1 DEF Charges
  <2>3. CASE k \in CountersOf(r)
    <3>1. Charges(k)' = Charges(k) \cup {r}
      BY <1>1, <2>3, ConsumeCharges
    <3>2. Owing(k)' = Owing(k) \cup {r} /\ r \notin Owing(k)
      BY <2>1, <2>2, <3>1 DEF Owing, Charges
    <3>3. Cardinality(Owing(k)') = Cardinality(Owing(k)) + 1
      BY <1>f, <3>2, FS_AddElement
    <3>4. used'[k] = used[k] + 1
      BY <1>1, <2>3 DEF Consume, TypeOK
    <3> QED
      BY <1>i, <1>f, <3>3, <3>4
  <2>4. CASE k \notin CountersOf(r)
    <3>1. Charges(k)' = Charges(k)
      BY <1>1, <2>2, <2>4, ConsumeCharges
    <3>2. Owing(k)' = Owing(k)
      BY <2>1, <2>2, <3>1 DEF Owing, Charges
    <3>3. used'[k] = used[k]
      BY <1>1, <2>4 DEF Consume, TypeOK
    <3> QED
      BY <1>i, <3>2, <3>3
  <2> QED
    BY <2>3, <2>4
<1>2. ASSUME NEW r \in Requests, Refund(r)
      PROVE  used'[k] <= Cardinality(Owing(k)')
  <2>1. \A q \in Requests \ {r} : Owed(q)' <=> Owed(q)
    BY <1>2 DEF Refund, Owed, TypeOK, GoTo, parser
  <2>2. Charges(k)' = Charges(k) \ {r}
    BY <1>2, RefundCharges
  <2>3. Owing(k)' = Owing(k) \ {r}
    BY <2>1, <2>2 DEF Owing, Charges
  <2>4. Cardinality(Owing(k)') = IF r \in Owing(k) THEN Cardinality(Owing(k)) - 1
                                                  ELSE Cardinality(Owing(k))
    BY <1>f, <2>3, FS_RemoveElement
  <2>5. r \in Owing(k) => k \in CountersOf(r)
    BY DEF Owing, Charges, ChargedInv
  <2>6. used'[k] = IF k \in CountersOf(r) /\ used[k] > 0 THEN used[k] - 1 ELSE used[k]
    BY <1>2 DEF Refund
  <2> QED
    BY <1>i, <1>f, <2>4, <2>5, <2>6
<1>3. ASSUME NEW j \in Counters, WindowExpires(j)
      PROVE  used'[k] <= Cardinality(Owing(k)')
  <2>1. CASE k = j
    <3>1. used'[k] = 0
      BY <1>3, <2>1 DEF WindowExpires, TypeOK
    <3> QED
      BY <1>f, <3>1
  <2>2. CASE k # j
    <3>1. Charges(k)' = Charges(k) /\ \A q \in Requests : Owed(q)' <=> Owed(q)
      BY <1>3, <2>2, ExpiryCharges DEF WindowExpires, Owed, parser
    <3>2. Owing(k)' = Owing(k) /\ used'[k] = used[k]
      BY <1>3, <2>2, <3>1 DEF Owing, Charges, WindowExpires, TypeOK
    <3> QED
      BY <1>i, <3>2
  <2> QED
    BY <2>1, <2>2
<1>4. CASE UNCHANGED quota
  <2>1. Charges(k)' = Charges(k) /\ used' = used
    BY <1>4 DEF quota, Charges
  <2>2. Owing(k) \in SUBSET Owing(k)'
    BY <1>4, <2>1, OwedStaysOwed DEF Owing, Charges
  <2>3. Cardinality(Owing(k)) <= Cardinality(Owing(k)')
    BY <1>f, <2>2, FS_Subset
  <2> QED
    BY <1>i, <1>f, <2>1, <2>3
<1> QED
  <2>1. ASSUME NEW r \in Requests, HasRoom(r), Consume(r), QuotaCheck(r)
        PROVE  used'[k] <= Cardinality(Owing(k)')
    BY <1>1, <2>1
  <2> QED
    BY <2>1, <1>2, <1>3, <1>4, QuotaSteps

-----------------------------------------------------------------------------
(* The inductive invariant of the pipeline. *)
ImportInv ==
    /\ TypeOK /\ SlotInv /\ ConsentInv /\ BudgetInv /\ ChargedInv /\ OwingInv

LEMMA InitImportInv == Init => ImportInv
<1> SUFFICES ASSUME Init PROVE ImportInv
  OBVIOUS
<1>1. TypeOK /\ SlotInv
  BY InitTypeOK, InitSlotInv
<1>2. ConsentInv /\ ChargedInv
  BY DEF Init, ConsentInv, NothingSentWithoutConsent, ChargedInv
<1>3. \A k \in Counters : Charges(k) = {} /\ Owing(k) = {} /\ used[k] = 0 /\ late[k] = 0
  BY DEF Init, Charges, Owing
<1>4. BudgetInv /\ OwingInv
  <2> SUFFICES ASSUME NEW k \in Counters
               PROVE  /\ IsFiniteSet(Charges(k)) /\ used[k] <= Limit(k)
                      /\ Cardinality(Charges(k)) <= used[k] + late[k]
                      /\ used[k] <= Cardinality(Owing(k))
    BY DEF BudgetInv, OwingInv
  <2>1. IsFiniteSet({}) /\ Cardinality({}) = 0
    BY FS_EmptySet
  <2>2. 0 <= Limit(k)
    BY LimitType
  <2> QED
    BY <1>3, <2>1, <2>2
<1> QED
  BY <1>1, <1>2, <1>4 DEF ImportInv

LEMMA NextImportInv == ImportInv /\ [Next]_vars => ImportInv'
<1> SUFFICES ASSUME ImportInv, [Next]_vars PROVE ImportInv'
  OBVIOUS
<1> USE DEF ImportInv
<1>1. TypeOK' /\ SlotInv'
  BY NextTypeOK, NextSlotInv
<1>2. ConsentInv'
  BY NextConsentInv
<1>3. ChargedInv'
  BY NextChargedInv
<1>4. BudgetInv'
  BY NextBudgetInv
<1>5. OwingInv'
  BY <1>4, NextOwingInv
<1> QED
  BY <1>1, <1>2, <1>3, <1>4, <1>5

LEMMA ImportInvariant == Spec => []ImportInv
  BY InitImportInv, NextImportInv, PTL DEF Spec

(* Nothing a user pasted reaches the model before that user's disclosure   *)
(* row is stored (runParsePipeline is fail-closed).                        *)
THEOREM ConsentComesFirst == Spec => []NothingSentWithoutConsent
<1>1. ImportInv => NothingSentWithoutConsent
  BY DEF ImportInv, ConsentInv
<1> QED
  BY <1>1, ImportInvariant, PTL

(* The dual quota admits no more requests to a window than its limit, and  *)
(* one more for each refund that came late to it.                          *)
THEOREM QuotaIsKept == Spec => []BudgetKept
<1>1. ImportInv => BudgetKept
  <2> SUFFICES ASSUME ImportInv, NEW k \in Counters
               PROVE  Cardinality(Charges(k)) <= Limit(k) + late[k]
    BY DEF BudgetKept
  <2>1. /\ Cardinality(Charges(k)) <= used[k] + late[k] /\ used[k] <= Limit(k)
        /\ IsFiniteSet(Charges(k)) /\ used[k] \in Nat /\ late[k] \in Nat
    BY DEF ImportInv, BudgetInv, TypeOK
  <2>2. Cardinality(Charges(k)) \in Nat
    BY <2>1, FS_CardinalityType
  <2> QED
    BY <2>1, <2>2, LimitType
<1> QED
  BY <1>1, ImportInvariant, PTL

(* What the counters hold is owed by a request under way, sent, or that    *)
(* could not be refunded.                                                  *)
THEOREM ChargesAreOwed == Spec => []NoWorkNoCharge
<1>1. ImportInv => NoWorkNoCharge
  BY DEF ImportInv, OwingInv, Owing, NoWorkNoCharge
<1> QED
  BY <1>1, ImportInvariant, PTL

(* The slot of the codex parser is neither leaked nor freed twice.         *)
THEOREM SlotIsExact == Spec => []SlotMatchesProcess
<1>1. ImportInv => SlotMatchesProcess
  <2> SUFFICES ASSUME ImportInv PROVE SlotMatchesProcess
    OBVIOUS
  <2>1. SlotInv /\ engine \in {"codex", "claude"}
    BY DEF ImportInv, TypeOK
  <2> QED
    BY <2>1, FS_EmptySet, FS_Singleton DEF SlotInv, SlotMatchesProcess
<1> QED
  BY <1>1, ImportInvariant, PTL

-----------------------------------------------------------------------------
(* createMany fills the batch of an import key at most once.               *)
THEOREM BatchesAreFilledOnce == Spec => BatchFilledOnce
<1> DEFINE Filled ==
      \A b \in DOMAIN batches :
          batches'[b].live > batches[b].live => batches[b].made = 0
<1>1. ImportInv /\ [Next]_vars => [Filled]_vars
  <2> SUFFICES ASSUME ImportInv, Next, NEW b \in DOMAIN batches,
                      batches'[b].live > batches[b].live
               PROVE  batches[b].made = 0
    OBVIOUS
  <2>0. /\ batches \in [Keyed \cup Requests -> [made : 0 .. MaxDrafts, live : 0 .. MaxDrafts]]
        /\ batches[b].made \in Nat /\ batches[b].live \in Nat
    BY BoundsAssumption DEF ImportInv, TypeOK
  <2>1. ASSUME NEW r \in Requests, PersistDrafts(r) PROVE batches[b].made = 0
    <3>1. batches' = [batches EXCEPT ![BatchOf(r)] = [made |-> found[r], live |-> found[r]]]
          /\ ~(batches[BatchOf(r)].made > 0)
      BY <2>0, <2>1 DEF PersistDrafts, CreateMany
    <3>2. b = BatchOf(r)
      BY <2>0, <3>1
    <3> QED
      BY <2>0, <3>1, <3>2
  <2>2. ASSUME NEW c \in DOMAIN batches, Discard(c) PROVE FALSE
    <3>1. batches' = [batches EXCEPT ![c] = [batches[c] EXCEPT !.live = @ - 1]]
      BY <2>2 DEF Discard
    <3>2. batches'[b].live = batches[b].live \/ batches'[b].live = batches[b].live - 1
      BY <2>0, <3>1
    <3> QED
      BY <2>0, <3>2
  <2>3. ASSUME NEW r \in Requests,
               \/ Arrive(r) \/ QuotaCheck(r) \/ RecordDisclosure(r) \/ CallClaude(r)
               \/ AcquireSlot(r) \/ Busy(r) \/ Launch(r) \/ Parse(r) \/ Refund(r)
               \/ RefundFails(r)
        PROVE  UNCHANGED batches
    BY <2>3 DEF Arrive, QuotaCheck, RecordDisclosure, CallClaude, AcquireSlot, Busy, Launch,
           Parse, Refund, RefundFails, stored
  <2>4. Crash \/ (\E k \in Counters : WindowExpires(k)) \/ UNCHANGED vars
        => UNCHANGED batches
    BY DEF Crash, WindowExpires, stored, vars
  <2> QED
    BY <2>0, <2>1, <2>2, <2>3, <2>4 DEF Next, Step
<1> HIDE DEF Filled
<1>2. Spec => [][Filled]_vars
  BY <1>1, ImportInvariant, PTL DEF Spec
<1> QED
  BY <1>2 DEF Filled, BatchFilledOnce

=============================================================================

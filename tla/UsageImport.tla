----------------------------- MODULE UsageImport -----------------------------
(***************************************************************************)
(* Turning a pasted text or a screenshot into expense drafts:              *)
(* usage-imports.controller runParsePipeline, shared by the two parse      *)
(* routes.  A request pays from two Redis counters (its user's and its     *)
(* trip's), records the disclosure consent, runs the parser, which has one *)
(* slot, and stores the drafts; what it paid is given back when the parser *)
(* was never started.                                                      *)
(*                                                                         *)
(* Every step is one Lua script, one statement or one transaction; the     *)
(* counters expire, the parser fails and the process dies in between.      *)
(***************************************************************************)
EXTENDS Naturals, FiniteSets

CONSTANTS
    Requests,    \* parse requests
    Users, Trips,
    Inputs,      \* what a request may ask: [user, trip, source, key]
    NoKey,       \* no Idempotency-Key header
    UserMax, TripMax,   \* requests a user, a trip may make per window
    MaxDrafts,   \* bound: drafts one parse finds
    MaxRolls,    \* bound: windows that expire
    MaxFaults    \* bound: infrastructure failures and crashes

ASSUME LimitsAssumption == UserMax \in Nat /\ TripMax \in Nat

ASSUME InputsAssumption ==
    \A i \in Inputs :
        i.user \in Users /\ i.trip \in Trips /\ i.source \in {"text", "image"}

ASSUME BoundsAssumption ==
    MaxDrafts \in Nat /\ MaxRolls \in Nat /\ MaxFaults \in Nat

(* usage-parser.codex: one codex process at a time. *)
MAX_CONCURRENT == 1

Counters == Users \cup Trips
Limit(k) == IF k \in Users THEN UserMax ELSE TripMax

VARIABLES
    engine,     \* the adapter main.ts wired in
    req,        \* what each request asks
    at,         \* where it is
    why,        \* how it ended, or why it is about to be refunded
    used,       \* the Redis counters pq:u:<user> and pq:t:<trip>
    running,    \* CodexUsageParser.running: process memory
    consented,  \* users with an llm_disclosure row
    found,      \* drafts the parser returned to each request
    batches,    \* expense_drafts rows, by import key
    \* history
    sent,       \* requests whose text or image was handed to the model
    counted,    \* counters whose present window holds the request's charge
    late,       \* refunds each counter's window took for an earlier one
    rolls, faults

quota   == <<used, counted, late>>
parser  == <<engine, running, sent>>
stored  == <<consented, batches>>
vars == <<engine, req, at, why, used, running, consented, found, batches,
          sent, counted, late, rolls, faults>>

Points == {"idle", "quota", "consent", "slot", "launch", "parsing", "persist",
           "refund", "ended"}
Reasons == {"none", "refused", "redis", "consent", "busy", "launch", "scratch",
            "upstream", "store", "ok", "crash"}

(* The batch a request stores into: drafts carry an import key namespaced  *)
(* by the route's source; without a key every request has its own.         *)
Keyed == [trip : Trips, user : Users, source : {"text", "image"},
          key : {i.key : i \in Inputs} \ {NoKey}]
BatchOf(r) ==
    IF req[r].key = NoKey THEN r
    ELSE [trip |-> req[r].trip, user |-> req[r].user,
          source |-> req[r].source, key |-> req[r].key]

CountersOf(r) == {req[r].user, req[r].trip}
Charges(k) == {r \in Requests : k \in counted[r]}
AtWork == {r \in Requests : at[r] \in {"launch", "parsing"}}

(* What the variables range over. *)
TypeOK ==
    /\ engine \in {"codex", "claude"}
    /\ req \in [Requests -> Inputs]
    /\ at \in [Requests -> Points] /\ why \in [Requests -> Reasons]
    /\ used \in [Counters -> Nat] /\ late \in [Counters -> Nat]
    /\ running \in 0 .. MAX_CONCURRENT
    /\ consented \subseteq Users /\ sent \subseteq Requests
    /\ found \in [Requests -> 0 .. MaxDrafts]
    /\ batches \in [Keyed \cup Requests -> [made : 0 .. MaxDrafts, live : 0 .. MaxDrafts]]
    /\ counted \in [Requests -> SUBSET Counters]
    /\ rolls \in 0 .. MaxRolls /\ faults \in 0 .. MaxFaults

-----------------------------------------------------------------------------
Init ==
    /\ engine \in {"codex", "claude"}
    /\ req \in [Requests -> Inputs]
    /\ at = [r \in Requests |-> "idle"]
    /\ why = [r \in Requests |-> "none"]
    /\ used = [k \in Counters |-> 0]
    /\ running = 0 /\ consented = {}
    /\ found = [r \in Requests |-> 0]
    /\ batches = [b \in Keyed \cup Requests |-> [made |-> 0, live |-> 0]]
    /\ sent = {} /\ counted = [r \in Requests |-> {}]
    /\ late = [k \in Counters |-> 0]
    /\ rolls = 0 /\ faults = 0

GoTo(r, point) == at' = [at EXCEPT ![r] = point]
End(r, reason) == GoTo(r, "ended") /\ why' = [why EXCEPT ![r] = reason]

Fault == faults < MaxFaults /\ faults' = faults + 1
NoFault == UNCHANGED faults

(* The route has passed its guards: session, membership, body, signature. *)
Arrive(r) ==
    /\ at[r] = "idle" /\ GoTo(r, "quota") /\ NoFault
    /\ UNCHANGED <<req, why, found, rolls, quota, parser, stored>>

(* Mutant: the trip's counter is not looked at. *)
UserHasRoom(r) == used[req[r].user] < UserMax

(* The DUAL_QUOTA script: both counters are under their limits, or neither *)
(* is touched.                                                             *)
HasRoom(r) == \A k \in CountersOf(r) : used[k] < Limit(k)

Consume(r) ==
    /\ used' = [k \in Counters |-> IF k \in CountersOf(r) THEN used[k] + 1 ELSE used[k]]
    /\ counted' = [counted EXCEPT ![r] = CountersOf(r)]
    /\ UNCHANGED late

QuotaCheck(r) ==
    /\ at[r] = "quota"
    /\ \/ HasRoom(r) /\ Consume(r) /\ GoTo(r, "consent") /\ NoFault /\ UNCHANGED why
       \/ ~HasRoom(r) /\ End(r, "refused") /\ NoFault /\ UNCHANGED quota
       \* Redis fails, before the script ran or after.
       \/ Fault /\ End(r, "redis") /\ UNCHANGED quota
       \/ HasRoom(r) /\ Fault /\ Consume(r) /\ End(r, "redis")
    /\ UNCHANGED <<req, found, rolls, parser, stored>>

(* Mutant: a disclosure that cannot be recorded is logged and ignored. *)
DiscloseBestEffort(r) ==
    /\ at[r] = "consent" /\ GoTo(r, "slot")
    /\ \/ consented' = consented \cup {req[r].user} /\ NoFault
       \/ Fault /\ UNCHANGED consented
    /\ UNCHANGED <<req, why, found, batches, rolls, quota, parser>>

(* recordDisclosure, ON CONFLICT DO NOTHING; a failure sends nothing. *)
RecordDisclosure(r) ==
    /\ at[r] = "consent"
    /\ \/ /\ consented' = consented \cup {req[r].user}
          /\ GoTo(r, "slot") /\ NoFault /\ UNCHANGED why
       \/ /\ Fault /\ GoTo(r, "refund") /\ why' = [why EXCEPT ![r] = "consent"]
          /\ UNCHANGED consented
    /\ UNCHANGED <<req, found, batches, rolls, quota, parser>>

(* The claude adapter has no slot: the call is the start.  The types of    *)
(* image it refuses are refused by the controller already.                 *)
CallClaude(r) ==
    /\ at[r] = "slot" /\ engine = "claude"
    /\ GoTo(r, "parsing") /\ sent' = sent \cup {r}
    /\ NoFault
    /\ UNCHANGED <<engine, req, why, running, found, rolls, quota, stored>>

(* runGuarded checks and takes the slot before its first await. *)
AcquireSlot(r) ==
    /\ at[r] = "slot" /\ engine = "codex" /\ running < MAX_CONCURRENT
    /\ running' = running + 1 /\ GoTo(r, "launch") /\ NoFault
    /\ UNCHANGED <<engine, req, why, found, sent, rolls, quota, stored>>

(* Mutant: busy answers 503 without a refund. *)
BusyKeepsCharge(r) ==
    /\ at[r] = "slot" /\ engine = "codex" /\ running >= MAX_CONCURRENT
    /\ End(r, "busy") /\ NoFault
    /\ UNCHANGED <<req, found, rolls, quota, parser, stored>>

(* Mutant: the check stands inside the try whose finally frees the slot. *)
BusyFreesSlot(r) ==
    /\ at[r] = "slot" /\ engine = "codex" /\ running >= MAX_CONCURRENT
    /\ running' = running - 1
    /\ GoTo(r, "refund") /\ why' = [why EXCEPT ![r] = "busy"] /\ NoFault
    /\ UNCHANGED <<engine, req, found, sent, rolls, quota, stored>>

Busy(r) ==
    /\ at[r] = "slot" /\ engine = "codex" /\ running >= MAX_CONCURRENT
    /\ GoTo(r, "refund") /\ why' = [why EXCEPT ![r] = "busy"] /\ NoFault
    /\ UNCHANGED <<req, found, rolls, quota, parser, stored>>

ReleaseSlot == running' = IF engine = "codex" THEN running - 1 ELSE running

(* runCodexExec writes its scratch directory, then spawns codex.  A failed *)
(* spawn is an UnavailableError; a failed write an UpstreamError.          *)
Launch(r) ==
    /\ at[r] = "launch"
    /\ \/ GoTo(r, "parsing") /\ sent' = sent \cup {r} /\ NoFault /\ UNCHANGED <<why, running>>
       \/ /\ Fault /\ ReleaseSlot /\ GoTo(r, "refund") /\ why' = [why EXCEPT ![r] = "launch"]
          /\ UNCHANGED sent
       \/ Fault /\ ReleaseSlot /\ End(r, "scratch") /\ UNCHANGED sent
    /\ UNCHANGED <<engine, req, found, rolls, quota, stored>>

(* The model answers, or exits, times out, answers something malformed. *)
Parse(r) ==
    /\ at[r] = "parsing" /\ ReleaseSlot /\ NoFault
    /\ \/ \E n \in 0 .. MaxDrafts : found' = [found EXCEPT ![r] = n]
          /\ GoTo(r, "persist") /\ UNCHANGED why
       \/ End(r, "upstream") /\ UNCHANGED found
    /\ UNCHANGED <<engine, req, sent, rolls, quota, stored>>

(* Mutant: only live rows count as processed. *)
CreateManyOverDiscarded(r) ==
    batches' = IF found[r] = 0 \/ batches[BatchOf(r)].live > 0 THEN batches
               ELSE [batches EXCEPT ![BatchOf(r)] = [made |-> found[r], live |-> found[r]]]

(* createMany under its advisory lock: a key that ever had rows, deleted   *)
(* ones included, is replayed; an empty parse leaves nothing.              *)
CreateMany(r) ==
    batches' = IF found[r] = 0 \/ batches[BatchOf(r)].made > 0 THEN batches
               ELSE [batches EXCEPT ![BatchOf(r)] = [made |-> found[r], live |-> found[r]]]

PersistDrafts(r) ==
    /\ at[r] = "persist"
    /\ \/ CreateMany(r) /\ End(r, "ok") /\ NoFault
       \/ Fault /\ End(r, "store") /\ UNCHANGED batches
    /\ UNCHANGED <<req, found, consented, rolls, quota, parser>>

(* The REFUND_DUAL script takes one back from each counter that has one,   *)
(* whichever window it now counts; a failed refund is swallowed.           *)
Refund(r) ==
    /\ at[r] = "refund"
    /\ LET takes == {k \in CountersOf(r) : used[k] > 0}
       IN  /\ used' = [k \in Counters |-> IF k \in takes THEN used[k] - 1 ELSE used[k]]
           /\ late' = [k \in Counters |->
                         IF k \in takes \ counted[r] THEN late[k] + 1 ELSE late[k]]
    /\ counted' = [counted EXCEPT ![r] = {}]
    /\ GoTo(r, "ended") /\ NoFault
    /\ UNCHANGED <<req, why, found, rolls, parser, stored>>

RefundFails(r) ==
    /\ at[r] = "refund" /\ Fault /\ End(r, "redis")
    /\ UNCHANGED <<req, found, rolls, quota, parser, stored>>

-----------------------------------------------------------------------------
(* softDelete of one draft of a batch. *)
Discard(b) ==
    /\ batches[b].live > 0
    /\ batches' = [batches EXCEPT ![b].live = @ - 1]
    /\ NoFault /\ UNCHANGED <<req, at, why, found, consented, rolls, quota, parser>>

(* A counter's EXPIRE comes due. *)
WindowExpires(k) ==
    /\ rolls < MaxRolls /\ rolls' = rolls + 1
    /\ Charges(k) # {} \/ late[k] > 0
    /\ used' = [used EXCEPT ![k] = 0] /\ late' = [late EXCEPT ![k] = 0]
    /\ counted' = [r \in Requests |-> counted[r] \ {k}]
    /\ NoFault /\ UNCHANGED <<req, at, why, found, parser, stored>>

(* The process dies: its requests and its slot with it. *)
Crash ==
    /\ Fault
    /\ LET dying == {r \in Requests : at[r] \notin {"idle", "ended"}}
       IN  /\ dying # {}
           /\ at' = [r \in Requests |-> IF r \in dying THEN "ended" ELSE at[r]]
           /\ why' = [r \in Requests |-> IF r \in dying THEN "crash" ELSE why[r]]
    /\ running' = 0
    /\ UNCHANGED <<engine, req, found, sent, rolls, quota, stored>>

Step(r) ==
    \/ QuotaCheck(r) \/ RecordDisclosure(r)
    \/ CallClaude(r) \/ AcquireSlot(r) \/ Busy(r) \/ Launch(r) \/ Parse(r)
    \/ PersistDrafts(r) \/ Refund(r) \/ RefundFails(r)

AllEnded == \A r \in Requests : at[r] = "ended"

Next ==
    \/ \E r \in Requests : Arrive(r) \/ Step(r)
    \/ \E b \in DOMAIN batches : Discard(b)
    \/ \E k \in Counters : WindowExpires(k)
    \/ Crash
    \/ AllEnded /\ UNCHANGED vars

Spec == Init /\ [][Next]_vars

-----------------------------------------------------------------------------
(* PB-1, fail-closed: nothing a user pasted reaches the model before that  *)
(* user's disclosure row is in the database, whatever failed on the way.   *)
NothingSentWithoutConsent == \A r \in sent : req[r].user \in consented

(* No window of a counter holds more charges than its limit allows, beyond *)
(* the refunds of an earlier window that landed in it: the two counters    *)
(* are checked and consumed together, and a refund gives back at most what *)
(* was taken.                                                              *)
BudgetKept == \A k \in Counters : Cardinality(Charges(k)) <= Limit(k) + late[k]

(* Whether a request's charge is owed: it is still under way, its input    *)
(* was sent, or the failure that ended it also kept it from being refunded.*)
Owed(r) == at[r] # "ended" \/ r \in sent \/ why[r] \in {"redis", "crash", "scratch"}

(* Busy parsers, failed launches and unrecorded consents do not eat the    *)
(* quota a trip shares: what a counter holds is owed by somebody.          *)
NoWorkNoCharge ==
    \A k \in Counters : used[k] <= Cardinality({r \in Charges(k) : Owed(r)})

(* At most one codex process, and the slot is taken exactly while a        *)
(* request holds it: no error path leaks it or frees it twice.             *)
SlotMatchesProcess == running = (IF engine = "codex" THEN Cardinality(AtWork) ELSE 0)

(* An import key is filled once: a retry that parses again neither         *)
(* duplicates the batch nor brings back drafts the user discarded.         *)
BatchFilledOnce ==
    [][\A b \in DOMAIN batches :
          batches'[b].live > batches[b].live => batches[b].made = 0]_vars

=============================================================================
